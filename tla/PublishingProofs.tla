-------------------------- MODULE PublishingProofs --------------------------
(***************************************************************************)
(* What the cache, the registry and the results of publishing tell of each *)
(* other, for any number of flows, contents and faults; and what flows     *)
(* that come one after the other can rely on.                              *)
(***************************************************************************)
EXTENDS Publishing, WellFoundedInduction, TLAPS

\* A bounded set of numbers has a highest one.
LEMMA HighestFacts ==
  ASSUME NEW S \in SUBSET Nat, S # {}, NEW b \in Nat, \A v \in S : v <= b
  PROVE  Highest(S) \in S /\ \A v \in S : v <= Highest(S)
<1> DEFINE Bounds == {u \in Nat : \A v \in S : v <= u}
<1>1. PICK u \in Bounds : \A w \in Bounds : ~(<<w, u>> \in OpToRel(<, Nat))
  <2>1. Bounds \subseteq Nat /\ Bounds # {}
    OBVIOUS
  <2> QED BY <2>1, WFMin, NatLessThanWellFounded
<1>2. \A w \in Bounds : ~(w < u)
  BY <1>1 DEF OpToRel
<1>3. u \in S
  <2> SUFFICES ASSUME u \notin S PROVE FALSE
    OBVIOUS
  <2>1. PICK v \in S : TRUE
    OBVIOUS
  <2>2. v <= u /\ v # u /\ v \in Nat /\ u \in Nat
    BY <2>1
  <2>3. u - 1 \in Nat /\ \A w \in S : w <= u - 1
    BY <2>2
  <2> QED BY <1>2, <2>3
<1>4. \E v \in S : \A w \in S : w <= v
  BY <1>3
<1> QED BY <1>4 DEF Highest

-----------------------------------------------------------------------------
(* The inductive invariant.                                                 *)

\* A flow that is at one of the requests has no result yet.
ResultsFollowRequests == \A f \in Flows : pc[f] # "ended" => result[f] = Scheduled

\* The requests of npm-publish concern versions, and there is a highest one;
\* those of the docker steps concern the tags of commits.
NamesFollowTarget ==
  /\ target = "npm" =>
       /\ \E b \in Nat : \A n \in NamesIn(registry) : n \in Versions /\ n <= b
       /\ \A f \in Flows : pc[f] # "readTag"
       /\ \A f \in Flows : pc[f] \in {"publish", "confirm", "save"} => name[f] \in Versions
  /\ target = "docker" =>
       /\ \A r \in registry : \E g \in Flows : r = Published(job[g].commit, ContentOf(g))
       /\ \A f \in Flows : /\ pc[f] \notin {"lookUp", "calculate", "confirm"}
                           /\ pc[f] = "publish" => name[f] = job[f].commit

\* What a flow has published, or found in the cache.
NameWasPublished ==
  \A f \in Flows : pc[f] \in {"lookUp", "confirm", "save"} => WasPublished(name[f], ContentOf(f))

PublishInv ==
  /\ ResultsFollowRequests
  /\ NamesFollowTarget
  /\ NameWasPublished
  /\ CacheTellsRegistry
  /\ PassedMeansPublished

LEMMA InitInv == Init => TypeOK /\ PublishInv
<1> SUFFICES ASSUME Init PROVE TypeOK /\ PublishInv
  OBVIOUS
<1> USE DEF Init
<1>1. TypeOK
  BY DEF TypeOK
<1>2. ResultsFollowRequests /\ NameWasPublished /\ CacheTellsRegistry
  BY DEF ResultsFollowRequests, NameWasPublished, CacheTellsRegistry
<1>3. NamesFollowTarget
  BY DEF NamesFollowTarget, NamesIn
<1>4. PassedMeansPublished
  BY DEF PassedMeansPublished, Passed, DidPassOrSkippedAsPassed, Scheduled, NoStatus
<1> QED BY <1>1, <1>2, <1>3, <1>4 DEF PublishInv

\* The version that is chosen is higher than all that are in the registry.
LEMMA NewVersionFacts ==
  ASSUME TypeOK, PublishInv, target = "npm", NEW f \in Flows
  PROVE  LET new == NewVersion(job[f].version, NamesIn(registry))
         IN new \in Versions /\ \A n \in NamesIn(registry) : n < new
<1> DEFINE V == NamesIn(registry)
<1>1. job[f].version \in Versions
  BY JobsAssumption DEF TypeOK, Job
<1>2. PICK b \in Nat : \A n \in V : n \in Versions /\ n <= b
  BY DEF PublishInv, NamesFollowTarget
<1>3. V \subseteq Nat
  BY <1>2 DEF Versions
<1>4. CASE \A v \in V : v < job[f].version
  BY <1>1, <1>4 DEF NewVersion
<1>5. CASE ~ \A v \in V : v < job[f].version
  <2>1. V # {}
    BY <1>5
  <2>2. Highest(V) \in V /\ \A v \in V : v <= Highest(V)
    <3> HIDE DEF V
    <3> QED BY <1>2, <1>3, <2>1, HighestFacts
  <2>3. NewVersion(job[f].version, V) = Highest(V) + 1
    BY <1>5 DEF NewVersion
  <2>4. Highest(V) \in Nat
    BY <2>2, <1>3
  <2> HIDE DEF V
  <2>5. Highest(V) + 1 \in Versions /\ \A n \in V : n < Highest(V) + 1
    BY <1>3, <2>2, <2>4 DEF Versions
  <2> QED BY <2>3, <2>5 DEF V
<1> QED BY <1>4, <1>5

\* What a flow publishes is added to the registry: the records that make room
\* for it are the same.
LEMMA PublicationFacts ==
  ASSUME TypeOK, PublishInv, UNCHANGED <<given, removed>>,
         NEW f \in Flows, pc[f] = "publish",
         target = "docker" \/ name[f] \notin NamesIn(registry),
         registry' = {r \in registry : r.name # name[f]} \cup {Published(name[f], ContentOf(f))}
  PROVE  /\ registry' = registry \cup {Published(name[f], ContentOf(f))}
         /\ registry' \subseteq [name : Names, content : Contents]
         /\ name[f] \in Names
         /\ target = "npm" => name[f] \in Versions
<1>1. name[f] \in Names /\ (target = "npm" => name[f] \in Versions) /\ ContentOf(f) \in Contents
  <2>1. job[f].commit \in Commits /\ ContentOf(f) \in Contents
    BY JobsAssumption DEF TypeOK, Job, ContentOf
  <2> QED BY <2>1, TargetsAssumption DEF TypeOK, PublishInv, NamesFollowTarget, Names
<1>2. ASSUME NEW r \in registry, r.name = name[f] PROVE r = Published(name[f], ContentOf(f))
  <2>1. CASE target = "npm"
    BY <1>2, <2>1, TargetsAssumption DEF NamesIn
  <2>2. CASE target = "docker"
    <3>1. PICK g \in Flows : r = Published(job[g].commit, ContentOf(g))
      BY <2>2 DEF PublishInv, NamesFollowTarget
    <3>2. name[f] = job[f].commit
      BY <2>2 DEF PublishInv, NamesFollowTarget
    <3>3. job[g].commit = job[f].commit
      BY <1>2, <3>1, <3>2 DEF Published
    <3>4. ContentOf(g) = ContentOf(f)
      BY <3>3, JobsAssumption DEF TypeOK, ContentOf
    <3> QED BY <3>1, <3>2, <3>3, <3>4
  <2> QED BY <2>1, <2>2, TargetsAssumption DEF TypeOK
<1>3. registry' = registry \cup {Published(name[f], ContentOf(f))}
  BY <1>2
<1>4. registry' \subseteq [name : Names, content : Contents]
  BY <1>1, <1>3 DEF TypeOK, Published
<1> QED BY <1>1, <1>3, <1>4

\* The highest of what is left in the npm registry is a number.
LEMMA LatestFacts ==
  ASSUME TypeOK, PublishInv, target = "npm",
         NEW records \in SUBSET registry, records # {}
  PROVE  Highest(NamesIn(records)) \in Nat
<1> DEFINE V == NamesIn(records)
<1>1. PICK b \in Nat : \A n \in NamesIn(registry) : n \in Versions /\ n <= b
  BY DEF PublishInv, NamesFollowTarget
<1>2. V \subseteq Nat /\ V # {} /\ \A n \in V : n <= b
  BY <1>1 DEF Versions, NamesIn
<1> HIDE DEF V
<1>3. Highest(V) \in V
  BY <1>2, HighestFacts
<1>4. Highest(V) \in Nat
  BY <1>2, <1>3
<1> QED BY <1>4 DEF V

LEMMA StepType == TypeOK /\ PublishInv /\ [Next]_vars => TypeOK'
<1> SUFFICES ASSUME TypeOK, PublishInv, [Next]_vars PROVE TypeOK'
  OBVIOUS
<1> USE DEF given, world, FinalResult, Status, Done, Aborted
<1>1. ASSUME NEW f \in Flows, ReadVersion(f) PROVE TypeOK'
  <2>1. ContentOf(f) \in Contents
    BY JobsAssumption DEF TypeOK, Job, ContentOf
  <2> QED BY <1>1, <2>1 DEF TypeOK, ReadVersion, GoesTo, AtWork
<1>2. ASSUME NEW f \in Flows, LookUp(f) PROVE TypeOK'
  BY <1>2 DEF TypeOK, LookUp, GoesTo, EndsAs, AtWork
<1>3. ASSUME NEW f \in Flows, Calculate(f) PROVE TypeOK'
  <2>1. target = "npm"
    BY <1>3, TargetsAssumption DEF TypeOK, Calculate, PublishInv, NamesFollowTarget
  <2>2. NewVersion(job[f].version, NamesIn(registry)) \in Names
    BY <2>1, NewVersionFacts DEF Names
  <2> QED BY <1>3, <2>2 DEF TypeOK, Calculate, GoesTo, AtWork
<1>4. ASSUME NEW f \in Flows, PublishVersion(f) PROVE TypeOK'
  <2>1. name[f] \in Versions /\ name[f] \in Names /\ Published(name[f], ContentOf(f)) \in [name : Names, content : Contents]
    BY <1>4, JobsAssumption
    DEF TypeOK, Job, ContentOf, PublishVersion, PublishInv, NamesFollowTarget, Published, Names
  <2> QED BY <1>4, <2>1 DEF TypeOK, PublishVersion, GoesTo, EndsAs, AtWork, Versions
<1>5. ASSUME NEW f \in Flows, Confirm(f) PROVE TypeOK'
  BY <1>5 DEF TypeOK, Confirm, GoesTo, AtWork
<1>6. ASSUME NEW f \in Flows, ListTags(f) PROVE TypeOK'
  <2>1. NamesIn(registry) \subseteq Names
    BY DEF TypeOK, NamesIn
  <2> QED BY <1>6, <2>1 DEF TypeOK, ListTags, GoesTo, AtWork
<1>7. ASSUME NEW f \in Flows, ReadTag(f) PROVE TypeOK'
  <2>1. job[f].commit \in Names /\ ContentOf(f) \in Contents
    BY JobsAssumption DEF TypeOK, Job, ContentOf, Names
  <2>2. cache[ContentOf(f)] \in Names \cup {NoName}
    BY <2>1 DEF TypeOK
  <2> QED BY <1>7, <2>1, <2>2 DEF TypeOK, ReadTag, GoesTo, EndsAs, AtWork
<1>8. ASSUME NEW f \in Flows, PublishImage(f) PROVE TypeOK'
  <2>1. registry' \subseteq [name : Names, content : Contents]
    BY <1>8, PublicationFacts DEF PublishImage
  <2> QED BY <1>8, <2>1 DEF TypeOK, PublishImage, GoesTo, AtWork
<1>9. ASSUME NEW f \in Flows, Save(f) PROVE TypeOK'
  BY <1>9 DEF TypeOK, Save, CacheName, EndsAs
<1>10. ASSUME NEW f \in Flows, RequestFails(f) PROVE TypeOK'
  <2>1. registry' \subseteq [name : Names, content : Contents] /\ latest' \in Nat
    <3>1. CASE UNCHANGED <<registry, latest>>
      BY <3>1 DEF TypeOK
    <3>2. CASE ~UNCHANGED <<registry, latest>>
      <4>1. registry' \subseteq [name : Names, content : Contents] /\ (target = "npm" => name[f] \in Versions)
        BY <1>10, <3>2, PublicationFacts DEF RequestFails
      <4> QED BY <1>10, <3>2, <4>1 DEF TypeOK, RequestFails, Versions
    <3> QED BY <3>1, <3>2
  <2>2. FailureOf(f) \subseteq FinalResult
    BY DEF FailureOf
  <2>3. cache' \in [Contents -> Names \cup {NoName}]
    BY <1>10 DEF TypeOK, RequestFails, CacheName
  <2>4. pc' \in [Flows -> AtWork \cup {"notBegun", "ended", "killed"}] /\ result' \in [Flows -> FinalResult \cup {Scheduled}]
    BY <1>10, <2>2 DEF TypeOK, RequestFails, EndsAs
  <2> QED BY <1>10, <2>1, <2>3, <2>4 DEF TypeOK, RequestFails
<1>11. ASSUME NEW f \in Flows, Killed(f) PROVE TypeOK'
  BY <1>11 DEF TypeOK, Killed, GoesTo
<1>12. ASSUME NEW r \in registry, Remove(r) PROVE TypeOK'
  <2>1. latest' \in Nat
    BY <1>12, LatestFacts DEF Remove
  <2> QED BY <1>12, <2>1 DEF TypeOK, Remove
<1>13. CASE UNCHANGED vars
  BY <1>13 DEF TypeOK, vars
<1> QED BY <1>1, <1>2, <1>3, <1>4, <1>5, <1>6, <1>7, <1>8, <1>9, <1>10, <1>11, <1>12, <1>13 DEF Next, Works

\* Nothing that was published is forgotten: it is in the registry or removed.
LEMMA PublishedForEver ==
  ASSUME TypeOK, PublishInv, [Next]_vars
  PROVE  registry \cup removed \subseteq (registry \cup removed)'
<1> USE DEF given, world
<1>1. ASSUME NEW f \in Flows, PublishVersion(f) PROVE registry \cup removed \subseteq (registry \cup removed)'
  BY <1>1 DEF PublishVersion
<1>2. ASSUME NEW f \in Flows, PublishImage(f) PROVE registry \cup removed \subseteq (registry \cup removed)'
  BY <1>2, PublicationFacts DEF PublishImage
<1>3. ASSUME NEW f \in Flows, RequestFails(f) PROVE registry \cup removed \subseteq (registry \cup removed)'
  BY <1>3, PublicationFacts DEF RequestFails
<1>4. ASSUME NEW r \in registry, Remove(r) PROVE registry \cup removed \subseteq (registry \cup removed)'
  BY <1>4 DEF Remove
<1>5. CASE UNCHANGED <<registry, removed>>
  BY <1>5
<1>6. ASSUME NEW f \in Flows,
             ReadVersion(f) \/ LookUp(f) \/ Calculate(f) \/ Confirm(f) \/ ListTags(f) \/ ReadTag(f) \/ Save(f) \/ Killed(f)
      PROVE  UNCHANGED <<registry, removed>>
  BY <1>6 DEF ReadVersion, LookUp, Calculate, Confirm, ListTags, ReadTag, Save, Killed
<1>7. CASE UNCHANGED vars
  BY <1>7 DEF vars
<1> QED BY <1>1, <1>2, <1>3, <1>4, <1>5, <1>6, <1>7 DEF Next, Works

LEMMA StepResults == TypeOK /\ PublishInv /\ [Next]_vars => ResultsFollowRequests'
<1> SUFFICES ASSUME TypeOK, PublishInv, [Next]_vars PROVE ResultsFollowRequests'
  OBVIOUS
<1> USE DEF PublishInv, ResultsFollowRequests, TypeOK
<1>1. ASSUME NEW f \in Flows, Works(f) \/ RequestFails(f) \/ Killed(f)
      PROVE  ResultsFollowRequests'
  <2>1. (\E request \in AtWork \cup {"killed"} : GoesTo(f, request)) \/ (\E r : EndsAs(f, r))
    BY <1>1 DEF Works, ReadVersion, LookUp, Calculate, PublishVersion, Confirm, ListTags, ReadTag,
                PublishImage, Save, RequestFails, Killed, AtWork
  <2>2. pc[f] # "ended"
    BY <1>1 DEF Works, ReadVersion, LookUp, Calculate, PublishVersion, Confirm, ListTags, ReadTag,
                PublishImage, Save, RequestFails, Killed, AtWork, MayBegin
  <2> QED BY <2>1, <2>2 DEF GoesTo, EndsAs
<1>2. ASSUME NEW r \in registry, Remove(r) PROVE ResultsFollowRequests'
  BY <1>2 DEF Remove
<1>3. CASE UNCHANGED vars
  BY <1>3 DEF vars
<1> QED BY <1>1, <1>2, <1>3 DEF Next

\* What a step does to the registry: a flow adds what it publishes, or
\* something goes.
LEMMA RegistrySteps ==
  ASSUME TypeOK, PublishInv, [Next]_vars, ~(registry' \subseteq registry)
  PROVE  \E f \in Flows : /\ pc[f] = "publish"
                          /\ registry' = registry \cup {Published(name[f], ContentOf(f))}
<1> USE DEF given, world
<1>1. ASSUME NEW f \in Flows, RequestFails(f)
      PROVE  pc[f] = "publish" /\ registry' = registry \cup {Published(name[f], ContentOf(f))}
  BY <1>1, PublicationFacts DEF RequestFails
<1>2. ASSUME NEW f \in Flows, PublishVersion(f)
      PROVE  pc[f] = "publish" /\ registry' = registry \cup {Published(name[f], ContentOf(f))}
  BY <1>2 DEF PublishVersion
<1>3. ASSUME NEW f \in Flows, PublishImage(f)
      PROVE  pc[f] = "publish" /\ registry' = registry \cup {Published(name[f], ContentOf(f))}
  BY <1>3, PublicationFacts DEF PublishImage
<1>4. ASSUME NEW f \in Flows,
             ReadVersion(f) \/ LookUp(f) \/ Calculate(f) \/ Confirm(f) \/ ListTags(f) \/ ReadTag(f) \/ Save(f) \/ Killed(f)
      PROVE  registry' = registry
  BY <1>4 DEF ReadVersion, LookUp, Calculate, Confirm, ListTags, ReadTag, Save, Killed
<1>5. ASSUME NEW r \in registry, Remove(r) PROVE registry' \subseteq registry
  BY <1>5 DEF Remove
<1>6. CASE UNCHANGED vars
  BY <1>6 DEF vars
<1> QED BY <1>1, <1>2, <1>3, <1>4, <1>5, <1>6 DEF Next, Works

\* The registry of npm-publish stays a bounded set of versions ...
LEMMA StepNpmRegistry ==
  ASSUME TypeOK, PublishInv, [Next]_vars, target = "npm"
  PROVE  \E b \in Nat : \A n \in NamesIn(registry)' : n \in Versions /\ n <= b
<1>1. PICK b \in Nat : \A n \in NamesIn(registry) : n \in Versions /\ n <= b
  BY DEF PublishInv, NamesFollowTarget
<1>2. CASE registry' \subseteq registry
  BY <1>1, <1>2 DEF NamesIn
<1>3. ASSUME NEW f \in Flows, pc[f] = "publish",
             registry' = registry \cup {Published(name[f], ContentOf(f))}
      PROVE  \E c \in Nat : \A n \in NamesIn(registry)' : n \in Versions /\ n <= c
  <2>1. name[f] \in Versions
    BY <1>3 DEF PublishInv, NamesFollowTarget
  <2>2. \A n \in NamesIn(registry)' : n \in NamesIn(registry) \/ n = name[f]
    <3>1. \A r \in registry' : r \in registry \/ r.name = name[f]
      BY <1>3 DEF Published
    <3> QED BY <3>1 DEF NamesIn
  <2>3. CASE b <= name[f]
    BY <1>1, <2>1, <2>2, <2>3 DEF Versions
  <2>4. CASE ~(b <= name[f])
    BY <1>1, <2>1, <2>2, <2>4 DEF Versions
  <2> QED BY <2>3, <2>4
<1> QED BY <1>2, <1>3, RegistrySteps

\* ... and that of the docker steps a set of the flows' own tags.
LEMMA StepDockerRegistry ==
  ASSUME TypeOK, PublishInv, [Next]_vars, target = "docker"
  PROVE  \A r \in registry' : \E g \in Flows : r = Published(job[g].commit, ContentOf(g))
<1> DEFINE Own(r) == \E g \in Flows : r = Published(job[g].commit, ContentOf(g))
<1>1. \A r \in registry : Own(r)
  BY DEF PublishInv, NamesFollowTarget
<1>2. CASE registry' \subseteq registry
  BY <1>1, <1>2
<1>3. ASSUME NEW f \in Flows, pc[f] = "publish" PROVE Own(Published(name[f], ContentOf(f)))
  BY <1>3 DEF PublishInv, NamesFollowTarget
<1> QED BY <1>1, <1>2, <1>3, RegistrySteps

LEMMA StepGiven == [Next]_vars => UNCHANGED given
BY DEF Next, Works, vars, world, ReadVersion, LookUp, Calculate, PublishVersion, Confirm, ListTags, ReadTag,
       PublishImage, Save, RequestFails, Killed, Remove

LEMMA StepNames == TypeOK /\ PublishInv /\ [Next]_vars => NamesFollowTarget'
<1> SUFFICES ASSUME TypeOK, PublishInv, [Next]_vars PROVE NamesFollowTarget'
  OBVIOUS
<1>1. target' = target /\ job' = job /\ target \in {"npm", "docker"}
  BY StepGiven, TargetsAssumption DEF given, TypeOK
<1>2. CASE target = "npm"
  <2>1. \A f \in Flows : pc'[f] # "readTag"
    BY <1>2 DEF TypeOK, PublishInv, NamesFollowTarget, Next, Works, vars, ReadVersion, LookUp, Calculate,
                PublishVersion, Confirm, ListTags, ReadTag, PublishImage, Save, RequestFails, Killed, Remove,
                GoesTo, EndsAs
  <2>2. ASSUME NEW f \in Flows, pc'[f] \in {"publish", "confirm", "save"}
        PROVE  name'[f] \in Versions
    <3>1. CASE UNCHANGED <<pc, name>>
      BY <1>2, <2>2, <3>1 DEF PublishInv, NamesFollowTarget
    <3>2. ASSUME NEW g \in Flows, Calculate(g) PROVE name'[f] \in Versions
      BY <1>2, <2>2, <3>2, NewVersionFacts DEF TypeOK, PublishInv, NamesFollowTarget, Calculate, GoesTo
    <3>3. ASSUME NEW g \in Flows, PublishVersion(g) \/ Confirm(g) \/ Save(g) \/ RequestFails(g) \/ Killed(g) \/ LookUp(g)
          PROVE  name'[f] \in Versions
      BY <1>2, <2>2, <3>3 DEF TypeOK, PublishInv, NamesFollowTarget, PublishVersion, Confirm, Save, RequestFails,
                              Killed, LookUp, GoesTo, EndsAs
    <3>4. ASSUME NEW g \in Flows, ReadVersion(g) PROVE name'[f] \in Versions
      BY <1>2, <2>2, <3>4 DEF TypeOK, PublishInv, NamesFollowTarget, ReadVersion, GoesTo
    <3>5. ASSUME NEW g \in Flows PROVE ~(ListTags(g) \/ ReadTag(g) \/ PublishImage(g))
      BY <1>2 DEF ListTags, ReadTag, PublishImage, PublishInv, NamesFollowTarget
    <3>6. ASSUME NEW r \in registry, Remove(r) PROVE UNCHANGED <<pc, name>>
      BY <3>6 DEF Remove
    <3> QED BY <3>1, <3>2, <3>3, <3>4, <3>5, <3>6 DEF Next, Works, vars
  <2>3. \E b \in Nat : \A n \in NamesIn(registry)' : n \in Versions /\ n <= b
    BY <1>2, StepNpmRegistry
  <2> QED BY <1>1, <1>2, <2>1, <2>2, <2>3 DEF NamesFollowTarget
<1>3. CASE target = "docker"
  <2>1. ASSUME NEW f \in Flows
        PROVE  /\ pc'[f] \notin {"lookUp", "calculate", "confirm"}
               /\ pc'[f] = "publish" => name'[f] = job[f].commit
    BY <1>3 DEF TypeOK, PublishInv, NamesFollowTarget, Next, Works, vars, ReadVersion, LookUp, Calculate,
                PublishVersion, Confirm, ListTags, ReadTag, PublishImage, Save, RequestFails, Killed, Remove,
                GoesTo, EndsAs
  <2>2. \A r \in registry' : \E g \in Flows : r = Published(job[g].commit, ContentOf(g))
    BY <1>3, StepDockerRegistry
  <2> QED BY <1>1, <1>3, <2>1, <2>2 DEF NamesFollowTarget, ContentOf
<1> QED BY <1>1, <1>2, <1>3

LEMMA StepCache == TypeOK /\ PublishInv /\ [Next]_vars => CacheTellsRegistry'
<1> SUFFICES ASSUME TypeOK, PublishInv, [Next]_vars,
                    NEW c \in Contents, cache'[c] # NoName
             PROVE  Published(cache'[c], c) \in (registry \cup removed)'
  BY DEF CacheTellsRegistry, WasPublished
<1> USE DEF WasPublished
<1>1. CASE cache'[c] = cache[c]
  BY <1>1, PublishedForEver DEF PublishInv, CacheTellsRegistry
<1>2. CASE cache'[c] # cache[c]
  <2>1. PICK f \in Flows : pc[f] = "save" /\ CacheName(f)
    BY <1>2 DEF Next, Works, vars, ReadVersion, LookUp, Calculate, PublishVersion, Confirm, ListTags, ReadTag,
                PublishImage, Save, RequestFails, Killed, Remove
  <2>2. c = ContentOf(f) /\ cache'[c] = name[f]
    BY <1>2, <2>1 DEF CacheName, TypeOK
  <2>3. WasPublished(name[f], ContentOf(f))
    BY <2>1 DEF PublishInv, NameWasPublished
  <2> QED BY <2>2, <2>3, PublishedForEver
<1> QED BY <1>1, <1>2

\* A flow that is at one of the later requests, or passed, either was there
\* with the same name, or has just published or found it.
LEMMA StepNameWasPublished ==
  ASSUME TypeOK, PublishInv, [Next]_vars, NEW f \in Flows,
         pc'[f] \in {"lookUp", "confirm", "save"} \/ Passed(f)'
  PROVE  Published(name'[f], ContentOf(f)) \in (registry \cup removed)'
<1> USE DEF WasPublished
<1>1. ContentOf(f) \in Contents
  BY JobsAssumption DEF ContentOf, TypeOK, Job
<1>2. registry \cup removed \subseteq (registry \cup removed)'
  BY PublishedForEver
<1>3. CASE pc'[f] = pc[f] /\ name'[f] = name[f] /\ result'[f] = result[f]
  <2>1. pc[f] \in {"lookUp", "confirm", "save"} \/ Passed(f)
    BY <1>3 DEF Passed
  <2>2. WasPublished(name[f], ContentOf(f))
    BY <2>1 DEF PublishInv, NameWasPublished, PassedMeansPublished
  <2> QED BY <1>1, <1>2, <1>3, <2>2
<1>4. ~Passed(f)' \/ pc'[f] = "ended"
  BY StepResults DEF ResultsFollowRequests, Passed, DidPassOrSkippedAsPassed, Scheduled, NoStatus
<1>5. CASE ReadVersion(f)
  <2>1. name'[f] = cache[ContentOf(f)] /\ pc'[f] = (IF cache[ContentOf(f)] = NoName THEN "calculate" ELSE "lookUp")
    BY <1>5 DEF ReadVersion, GoesTo, TypeOK
  <2>2. cache[ContentOf(f)] # NoName
    BY <1>4, <2>1
  <2> QED BY <1>1, <1>2, <2>1, <2>2 DEF PublishInv, CacheTellsRegistry
<1>6. CASE LookUp(f) \/ Confirm(f) \/ Save(f)
  <2>1. pc[f] \in {"lookUp", "confirm", "save"} /\ name'[f] = name[f]
    BY <1>6 DEF LookUp, Confirm, Save
  <2> QED BY <1>1, <1>2, <2>1 DEF PublishInv, NameWasPublished
<1>7. CASE Calculate(f) \/ ListTags(f) \/ Killed(f)
  <2>1. pc'[f] \in {"publish", "readTag", "killed"}
    BY <1>7 DEF Calculate, ListTags, Killed, GoesTo, TypeOK
  <2> QED BY <1>4, <2>1
<1>8. CASE PublishVersion(f)
  <2>1. name'[f] = name[f]
    BY <1>8 DEF PublishVersion
  <2>2. CASE name[f] \in NamesIn(registry)
    <3>1. result'[f] = Done("failed") /\ pc'[f] = "ended"
      BY <1>8, <2>2 DEF PublishVersion, EndsAs, TypeOK
    <3> QED BY <3>1 DEF Passed, Done, DidPassOrSkippedAsPassed
  <2>3. CASE name[f] \notin NamesIn(registry)
    BY <1>1, <1>8, <2>1, <2>3 DEF PublishVersion, WasPublished
  <2> QED BY <2>2, <2>3
<1>9. CASE ReadTag(f)
  <2>1. CASE cache[ContentOf(f)] \in listed[f]
    <3>1. name'[f] = cache[ContentOf(f)]
      BY <1>9, <2>1 DEF ReadTag, TypeOK
    <3>2. cache[ContentOf(f)] # NoName
      BY <2>1, CommitsAssumption DEF TypeOK, Names, Versions, NoName
    <3> QED BY <1>1, <1>2, <3>1, <3>2 DEF PublishInv, CacheTellsRegistry
  <2>2. CASE cache[ContentOf(f)] \notin listed[f]
    <3>1. pc'[f] = "publish" \/ (pc'[f] = "ended" /\ result'[f] = Aborted("skippedAsFailed"))
      BY <1>9, <2>2 DEF ReadTag, GoesTo, EndsAs, TypeOK
    <3> QED BY <1>4, <3>1 DEF Passed, Aborted, DidPassOrSkippedAsPassed
  <2> QED BY <2>1, <2>2
<1>10. CASE PublishImage(f)
  BY <1>1, <1>10 DEF PublishImage, WasPublished
<1>11. CASE RequestFails(f)
  <2>1. pc'[f] = "ended" /\ result'[f] \in FailureOf(f)
    BY <1>11 DEF RequestFails, EndsAs, TypeOK
  <2> QED BY <2>1 DEF FailureOf, Passed, Done, Aborted, DidPassOrSkippedAsPassed
<1>12. ASSUME NEW g \in Flows, g # f, Works(g) \/ RequestFails(g) \/ Killed(g)
       PROVE  pc'[f] = pc[f] /\ name'[f] = name[f] /\ result'[f] = result[f]
  BY <1>12 DEF Works, ReadVersion, LookUp, Calculate, PublishVersion, Confirm, ListTags, ReadTag,
               PublishImage, Save, RequestFails, Killed, GoesTo, EndsAs, TypeOK
<1>13. CASE UNCHANGED vars \/ \E r \in registry : Remove(r)
  BY <1>3, <1>13 DEF vars, Remove
<1> QED BY <1>3, <1>5, <1>6, <1>7, <1>8, <1>9, <1>10, <1>11, <1>12, <1>13 DEF Next, Works

LEMMA StepInv == TypeOK /\ PublishInv /\ [Next]_vars => PublishInv'
<1> SUFFICES ASSUME TypeOK, PublishInv, [Next]_vars PROVE PublishInv'
  OBVIOUS
<1>1. NameWasPublished' /\ PassedMeansPublished'
  BY StepNameWasPublished, StepGiven DEF NameWasPublished, PassedMeansPublished, WasPublished, ContentOf, given
<1> QED BY <1>1, StepResults, StepNames, StepCache DEF PublishInv

\* Types and the invariant hold together: a name that is taken from the cache
\* is a name only because the cache holds what was published.
THEOREM PublishingInvariant == Spec => [](TypeOK /\ PublishInv)
<1>1. TypeOK /\ PublishInv /\ [Next]_vars => TypeOK' /\ PublishInv'
  BY StepType, StepInv
<1> QED BY InitInv, <1>1, PTL DEF Spec

\* Versions, tags, requests and results keep their types (npm-publish.ts,
\* chooseTagAndPublish).
THEOREM TypeCorrect == Spec => []TypeOK
BY PublishingInvariant, PTL

\* A name that immutableCache.set has left in redis is one under which exactly
\* that content was published, whoever failed, was killed or came in between.
THEOREM CacheTellsWhatWasPublished == Spec => []CacheTellsRegistry
<1>1. PublishInv => CacheTellsRegistry
  BY DEF PublishInv
<1> QED BY PublishingInvariant, <1>1, PTL

\* A step passes, or is skipped as passed, only when its content was published
\* under the name that it tells.
THEOREM PassesArePublished == Spec => []PassedMeansPublished
<1>1. PublishInv => PassedMeansPublished
  BY DEF PublishInv
<1> QED BY PublishingInvariant, <1>1, PTL

-----------------------------------------------------------------------------
(* Flows that come after others.                                            *)

\* A flow has begun only when those it comes after were over.
BegunAfterOver == \A f, g \in Flows : <<g, f>> \in After /\ pc[f] # "notBegun" => Over(g)

\* The cache knows what has passed and what is looked up.
PassedIsCached == \A f \in Flows : Passed(f) => cache[ContentOf(f)] # NoName
LookedUpIsCached ==
  \A f \in Flows : pc[f] = "lookUp" => cache[ContentOf(f)] # NoName /\ name[f] = cache[ContentOf(f)]

\* The name that f needs, to find that g has published its content, is there.
NothingToPublish(f, g) ==
  /\ <<g, f>> \in After /\ ContentOf(f) = ContentOf(g)
  /\ Passed(g)
  /\ cache[ContentOf(f)] \notin NamesIn(removed)
RerunFindsName ==
  \A f, g \in Flows : NothingToPublish(f, g) /\ pc[f] = "readTag" => cache[ContentOf(f)] \in listed[f]

\* From the moment that a version is chosen it is higher than the earlier ones.
ChosenAscend ==
  \A f, g \in Flows :
    /\ target = "npm" /\ <<g, f>> \in After
    /\ pc[f] \in {"publish", "confirm", "save"} \/ result[f] = Done("passed")
    /\ result[g] = Done("passed")
    /\ name[g] \notin NamesIn(removed)
    => name[g] < name[f]

RerunInv ==
  /\ BegunAfterOver
  /\ PassedIsCached
  /\ LookedUpIsCached
  /\ RerunFindsName
  /\ RerunPublishesNothing
  /\ ChosenAscend

Inv == TypeOK /\ PublishInv /\ RerunInv

LEMMA InitRerun == Init => RerunInv
BY DEF Init, RerunInv, BegunAfterOver, PassedIsCached, LookedUpIsCached, RerunFindsName, RerunPublishesNothing,
       ChosenAscend, Passed, DidPassOrSkippedAsPassed, Scheduled, NoStatus, Done, NothingToPublish

\* Flows that are over do nothing more, and no other flow touches their results.
LEMMA OverForEver ==
  ASSUME TypeOK, [Next]_vars, NEW g \in Flows, Over(g)
  PROVE  Over(g)' /\ result'[g] = result[g] /\ name'[g] = name[g]
<1>1. ASSUME NEW f \in Flows, Works(f) \/ RequestFails(f) \/ Killed(f) PROVE f # g
  BY <1>1 DEF Over, Works, ReadVersion, LookUp, Calculate, PublishVersion, Confirm, ListTags, ReadTag,
              PublishImage, Save, RequestFails, Killed, MayBegin, AtWork
<1>2. ASSUME NEW f \in Flows, f # g, Works(f) \/ RequestFails(f) \/ Killed(f)
      PROVE  pc'[g] = pc[g] /\ result'[g] = result[g] /\ name'[g] = name[g]
  BY <1>2 DEF Works, ReadVersion, LookUp, Calculate, PublishVersion, Confirm, ListTags, ReadTag,
              PublishImage, Save, RequestFails, Killed, GoesTo, EndsAs, TypeOK
<1>3. CASE UNCHANGED vars \/ \E r \in registry : Remove(r)
  BY <1>3 DEF vars, Remove, Over
<1> QED BY <1>1, <1>2, <1>3 DEF Next, Over

\* immutableCache.set does not override.
LEMMA CachedForEver ==
  ASSUME TypeOK, [Next]_vars, NEW c \in Contents, cache[c] # NoName
  PROVE  cache'[c] = cache[c]
BY DEF Next, Works, vars, ReadVersion, LookUp, Calculate, PublishVersion, Confirm, ListTags, ReadTag,
       PublishImage, Save, RequestFails, CacheName, Killed, Remove, TypeOK

LEMMA RemovedForEver == [Next]_vars => removed \subseteq removed'
BY DEF Next, Works, vars, world, ReadVersion, LookUp, Calculate, PublishVersion, Confirm, ListTags, ReadTag,
       PublishImage, Save, RequestFails, Killed, Remove

LEMMA StepBegun == TypeOK /\ BegunAfterOver /\ [Next]_vars => BegunAfterOver'
<1> SUFFICES ASSUME TypeOK, BegunAfterOver, [Next]_vars,
                    NEW f \in Flows, NEW g \in Flows, <<g, f>> \in After, pc'[f] # "notBegun"
             PROVE  Over(g)'
  BY DEF BegunAfterOver
<1>1. CASE pc[f] # "notBegun"
  BY <1>1, OverForEver DEF BegunAfterOver
<1>2. CASE pc[f] = "notBegun"
  <2>1. MayBegin(f)
    BY <1>2 DEF Next, Works, vars, ReadVersion, LookUp, Calculate, PublishVersion, Confirm, ListTags, ReadTag,
                PublishImage, Save, RequestFails, Killed, Remove, GoesTo, EndsAs, AtWork, TypeOK
  <2> QED BY <2>1, OverForEver DEF MayBegin
<1> QED BY <1>1, <1>2

LEMMA StepCached == Inv /\ [Next]_vars => PassedIsCached' /\ LookedUpIsCached'
<1> SUFFICES ASSUME Inv, [Next]_vars PROVE PassedIsCached' /\ LookedUpIsCached'
  OBVIOUS
<1> USE DEF Inv
<1>1. job' = job /\ \A f \in Flows : ContentOf(f) \in Contents
  BY StepGiven, JobsAssumption DEF given, ContentOf, TypeOK, Job
<1>2. ASSUME NEW f \in Flows, cache[ContentOf(f)] # NoName
      PROVE  cache'[ContentOf(f)] = cache[ContentOf(f)] /\ cache'[ContentOf(f)] # NoName
  BY <1>1, <1>2, CachedForEver
<1>3. ASSUME NEW f \in Flows, Passed(f)' PROVE cache'[ContentOf(f)] # NoName
  <2>1. CASE result'[f] = result[f]
    BY <1>2, <1>3, <2>1 DEF Passed, RerunInv, PassedIsCached
  <2>2. CASE LookUp(f)
    BY <1>2, <2>2 DEF LookUp, RerunInv, LookedUpIsCached
  <2>3. CASE Save(f)
    <3>1. name[f] # NoName
      <4>1. WasPublished(name[f], ContentOf(f))
        BY <2>3 DEF Save, PublishInv, NameWasPublished
      <4>2. name[f] \in Names
        BY <4>1 DEF WasPublished, Published, TypeOK
      <4> QED BY <4>2, CommitsAssumption DEF Names, Versions, NoName
    <3> QED BY <1>1, <2>3, <3>1 DEF Save, CacheName, TypeOK
  <2>4. CASE ReadTag(f)
    <3>1. CASE cache[ContentOf(f)] \in listed[f]
      <4>1. cache[ContentOf(f)] # NoName
        BY <3>1, CommitsAssumption DEF TypeOK, Names, Versions, NoName
      <4> QED BY <1>2, <4>1
    <3>2. CASE cache[ContentOf(f)] \notin listed[f]
      <4>1. result'[f] \in {result[f], Aborted("skippedAsFailed")}
        BY <2>4, <3>2 DEF ReadTag, GoesTo, EndsAs, TypeOK
      <4> QED BY <1>3, <2>1, <4>1 DEF Passed, Aborted, DidPassOrSkippedAsPassed
    <3> QED BY <3>1, <3>2
  <2>5. CASE PublishVersion(f) \/ RequestFails(f)
    <3>1. result'[f] = result[f] \/ result'[f] = Done("failed") \/ result'[f] = Aborted("skippedAsFailed")
      BY <2>5 DEF PublishVersion, RequestFails, FailureOf, GoesTo, EndsAs, TypeOK
    <3> QED BY <1>3, <2>1, <3>1 DEF Passed, Done, Aborted, DidPassOrSkippedAsPassed
  <2>6. \/ result'[f] = result[f]
        \/ LookUp(f) \/ Save(f) \/ ReadTag(f) \/ PublishVersion(f) \/ RequestFails(f)
    BY DEF Next, Works, vars, ReadVersion, LookUp, Calculate, PublishVersion, Confirm, ListTags, ReadTag,
           PublishImage, Save, RequestFails, Killed, Remove, GoesTo, EndsAs, TypeOK
  <2> QED BY <2>1, <2>2, <2>3, <2>4, <2>5, <2>6
<1>4. ASSUME NEW f \in Flows, pc'[f] = "lookUp"
      PROVE  cache'[ContentOf(f)] # NoName /\ name'[f] = cache'[ContentOf(f)]
  <2>1. CASE ReadVersion(f)
    BY <1>2, <1>4, <2>1 DEF ReadVersion, GoesTo, TypeOK
  <2>2. CASE pc[f] = "lookUp" /\ name'[f] = name[f]
    BY <1>2, <2>2 DEF RerunInv, LookedUpIsCached
  <2>3. ReadVersion(f) \/ (pc[f] = "lookUp" /\ name'[f] = name[f])
    BY <1>4 DEF Next, Works, vars, ReadVersion, LookUp, Calculate, PublishVersion, Confirm, ListTags, ReadTag,
           PublishImage, Save, RequestFails, Killed, Remove, GoesTo, EndsAs, TypeOK
  <2> QED BY <2>1, <2>2, <2>3
<1>5. PassedIsCached'
  BY <1>1, <1>3 DEF PassedIsCached, ContentOf
<1>6. LookedUpIsCached'
  BY <1>1, <1>4 DEF LookedUpIsCached, ContentOf
<1> QED BY <1>5, <1>6

\* Once f has begun, what g has published stays published: nothing that f
\* relies on changes any more.
LEMMA StepNothingToPublish ==
  ASSUME Inv, [Next]_vars, NEW f \in Flows, NEW g \in Flows, Over(g), NothingToPublish(f, g)'
  PROVE  /\ NothingToPublish(f, g)
         /\ cache'[ContentOf(f)] = cache[ContentOf(f)]
         /\ cache[ContentOf(f)] \in NamesIn(registry)
<1> USE DEF Inv
<1>1. job' = job /\ ContentOf(f) \in Contents
  BY StepGiven, JobsAssumption DEF given, ContentOf, TypeOK, Job
<1>2. ContentOf(f) = ContentOf(g) /\ <<g, f>> \in After
  BY <1>1 DEF NothingToPublish, ContentOf
<1>3. Passed(g)
  BY OverForEver DEF NothingToPublish, Passed
<1>4. cache[ContentOf(f)] # NoName
  BY <1>2, <1>3 DEF RerunInv, PassedIsCached
<1>5. cache'[ContentOf(f)] = cache[ContentOf(f)]
  BY <1>1, <1>4, CachedForEver
<1>6. cache[ContentOf(f)] \notin NamesIn(removed)
  BY <1>1, <1>5, RemovedForEver DEF NothingToPublish, NamesIn, ContentOf
<1>7. WasPublished(cache[ContentOf(f)], ContentOf(f))
  BY <1>1, <1>4 DEF PublishInv, CacheTellsRegistry
<1>8. cache[ContentOf(f)] \in NamesIn(registry)
  BY <1>6, <1>7 DEF WasPublished, Published, NamesIn
<1> QED BY <1>2, <1>3, <1>5, <1>6, <1>8 DEF NothingToPublish

LEMMA StepRerun == Inv /\ [Next]_vars => RerunFindsName' /\ RerunPublishesNothing'
<1> SUFFICES ASSUME Inv, [Next]_vars,
                    NEW f \in Flows, NEW g \in Flows, NothingToPublish(f, g)'
             PROVE  /\ pc'[f] \notin {"calculate", "publish", "confirm", "save"}
                    /\ pc'[f] = "readTag" => cache'[ContentOf(f)] \in listed'[f]
  BY StepGiven DEF RerunFindsName, RerunPublishesNothing, NothingToPublish, ContentOf, given
<1> USE DEF Inv
<1>1. CASE ~Over(g)
  <2>1. pc'[f] = "notBegun"
    <3>1. <<g, f>> \in After
      BY DEF NothingToPublish
    <3>2. pc[f] = "notBegun" /\ ~MayBegin(f)
      BY <1>1, <3>1 DEF RerunInv, BegunAfterOver, MayBegin
    <3> QED BY <3>2 DEF Next, Works, vars, ReadVersion, LookUp, Calculate, PublishVersion, Confirm, ListTags,
                        ReadTag, PublishImage, Save, RequestFails, Killed, Remove, GoesTo, EndsAs, AtWork, TypeOK
  <2> QED BY <2>1
<1>2. CASE Over(g)
  <2>1. /\ NothingToPublish(f, g)
        /\ cache'[ContentOf(f)] = cache[ContentOf(f)]
        /\ cache[ContentOf(f)] \in NamesIn(registry)
    BY <1>2, StepNothingToPublish
  <2>2. cache[ContentOf(f)] # NoName
    BY <2>1 DEF NothingToPublish, RerunInv, PassedIsCached
  <2>3. /\ pc[f] \notin {"calculate", "publish", "confirm", "save"}
        /\ pc[f] = "readTag" => cache[ContentOf(f)] \in listed[f]
    BY <2>1 DEF NothingToPublish, RerunInv, RerunPublishesNothing, RerunFindsName
  <2>4. CASE ReadVersion(f)
    BY <2>2, <2>4 DEF ReadVersion, GoesTo, TypeOK
  <2>5. CASE LookUp(f)
    BY <2>1, <2>5 DEF LookUp, EndsAs, TypeOK, RerunInv, LookedUpIsCached
  <2>6. CASE ListTags(f)
    BY <2>1, <2>6 DEF ListTags, GoesTo, TypeOK
  <2>7. CASE ReadTag(f)
    BY <2>3, <2>7 DEF ReadTag, EndsAs, TypeOK
  <2>8. CASE RequestFails(f) \/ Killed(f)
    BY <2>8 DEF RequestFails, Killed, EndsAs, GoesTo, TypeOK
  <2>9. ~(Calculate(f) \/ PublishVersion(f) \/ Confirm(f) \/ PublishImage(f) \/ Save(f))
    BY <2>3 DEF Calculate, PublishVersion, Confirm, PublishImage, Save
  <2>10. ASSUME NEW h \in Flows, h # f, Works(h) \/ RequestFails(h) \/ Killed(h)
         PROVE  pc'[f] = pc[f] /\ listed'[f] = listed[f]
    BY <2>10 DEF Works, ReadVersion, LookUp, Calculate, PublishVersion, Confirm, ListTags, ReadTag,
                 PublishImage, Save, RequestFails, Killed, GoesTo, EndsAs, TypeOK
  <2>11. CASE pc'[f] = pc[f] /\ listed'[f] = listed[f]
    BY <2>1, <2>3, <2>11
  <2>12. CASE UNCHANGED vars \/ \E r \in registry : Remove(r)
    BY <2>11, <2>12 DEF vars, Remove
  <2> QED BY <2>4, <2>5, <2>6, <2>7, <2>8, <2>9, <2>10, <2>11, <2>12 DEF Next, Works
<1> QED BY <1>1, <1>2

LEMMA StepAscend == Inv /\ [Next]_vars => ChosenAscend'
<1> SUFFICES ASSUME Inv, [Next]_vars, NEW f \in Flows, NEW g \in Flows,
                    target = "npm", <<g, f>> \in After,
                    pc'[f] \in {"publish", "confirm", "save"} \/ result'[f] = Done("passed"),
                    result'[g] = Done("passed"),
                    name'[g] \notin NamesIn(removed)'
             PROVE  name'[g] < name'[f]
  BY StepGiven DEF ChosenAscend, given
<1> USE DEF Inv
<1>1. pc[f] # "notBegun"
  BY DEF Next, Works, vars, ReadVersion, LookUp, Calculate, PublishVersion, Confirm, ListTags, ReadTag,
         PublishImage, Save, RequestFails, Killed, Remove, GoesTo, EndsAs, TypeOK, Done, Aborted, FailureOf,
         PublishInv, ResultsFollowRequests, Scheduled
<1>2. Over(g)
  BY <1>1 DEF RerunInv, BegunAfterOver
<1>3. name'[g] = name[g] /\ result[g] = Done("passed") /\ name[g] \notin NamesIn(removed)
  BY <1>2, OverForEver, RemovedForEver DEF NamesIn
<1>4. CASE Calculate(f)
  <2>1. Passed(g)
    BY <1>3 DEF Passed, Done, DidPassOrSkippedAsPassed
  <2>2. name[g] \in NamesIn(registry)
    <3>1. PICK r \in registry \cup removed : r.name = name[g]
      BY <2>1 DEF PublishInv, PassedMeansPublished, WasPublished, Published
    <3> QED BY <1>3, <3>1 DEF NamesIn
  <2>3. name'[f] = NewVersion(job[f].version, NamesIn(registry))
    BY <1>4 DEF Calculate, TypeOK
  <2> QED BY <1>3, <2>2, <2>3, NewVersionFacts
<1>5. CASE PublishVersion(f) \/ Confirm(f) \/ Save(f)
  <2>1. name'[f] = name[f] /\ pc[f] \in {"publish", "confirm", "save"}
    BY <1>5 DEF PublishVersion, Confirm, Save
  <2> QED BY <1>3, <2>1 DEF RerunInv, ChosenAscend
<1>6. CASE pc'[f] = pc[f] /\ name'[f] = name[f] /\ result'[f] = result[f]
  BY <1>3, <1>6 DEF RerunInv, ChosenAscend
<1>7. ~(ReadVersion(f) \/ ListTags(f))
  BY <1>1 DEF ReadVersion, ListTags, MayBegin
<1>8. ~(ReadTag(f) \/ PublishImage(f))
  BY DEF ReadTag, PublishImage, PublishInv, NamesFollowTarget
<1>9. ~(LookUp(f) \/ RequestFails(f) \/ Killed(f))
  BY DEF LookUp, RequestFails, Killed, FailureOf, EndsAs, GoesTo, TypeOK, Done, Aborted, PublishInv,
         ResultsFollowRequests, Scheduled, AtWork, MayBegin
<1>10. ASSUME NEW h \in Flows, h # f, Works(h) \/ RequestFails(h) \/ Killed(h)
       PROVE  pc'[f] = pc[f] /\ name'[f] = name[f] /\ result'[f] = result[f]
  BY <1>10 DEF Works, ReadVersion, LookUp, Calculate, PublishVersion, Confirm, ListTags, ReadTag,
               PublishImage, Save, RequestFails, Killed, GoesTo, EndsAs, TypeOK
<1>11. CASE UNCHANGED vars \/ \E r \in registry : Remove(r)
  BY <1>6, <1>11 DEF vars, Remove
<1> QED BY <1>4, <1>5, <1>6, <1>7, <1>8, <1>9, <1>10, <1>11 DEF Next, Works

\* All of it is inductive.
THEOREM RerunInvariant == Spec => []Inv
<1>1. Init => Inv
  BY InitInv, InitRerun DEF Inv
<1>2. Inv /\ [Next]_vars => Inv'
  BY StepType, StepInv, StepBegun, StepCached, StepRerun, StepAscend DEF Inv, RerunInv
<1> QED BY <1>1, <1>2, PTL DEF Spec

\* A flow that comes after one that passed with its content publishes nothing.
THEOREM RerunIsSkipped == Spec => []RerunPublishesNothing
<1>1. Inv => RerunPublishesNothing
  BY DEF Inv, RerunInv
<1> QED BY RerunInvariant, <1>1, PTL

\* The versions of npm-publish (calculateNewVersion) ascend from flow to flow.
THEOREM VersionsDoAscend == Spec => []VersionsAscend
<1>1. Inv => VersionsAscend
  BY DEF Inv, RerunInv, ChosenAscend, VersionsAscend
<1> QED BY RerunInvariant, <1>1, PTL
-----------------------------------------------------------------------------
(* Flows that come one after the other, when nothing fails.                 *)

\* Of any two flows one begins when the other is over.
OneAfterAnother == \A f, g \in Flows : f # g => <<f, g>> \in After \/ <<g, f>> \in After

\* A content is in the registry under one name only: no flow has published
\* again what another one did.
PublishedOnce == \A r, s \in registry : r.content = s.content => r = s

NothingFailed ==
  /\ removed = {}
  /\ \A f \in Flows : pc[f] # "killed" /\ (pc[f] = "ended" => Passed(f))

\* What is in the registry is in the cache, but for the flow that has just
\* published it and did not save it yet.
PublishedIsCached ==
  \A r \in registry : \/ cache[r.content] # NoName
                      \/ \E f \in Flows : pc[f] \in {"confirm", "save"} /\ ContentOf(f) = r.content

\* What a flow has read is still so, and what it is about to publish is new.
ReadIsFresh ==
  \A f \in Flows :
    /\ pc[f] = "readTag" => listed[f] = NamesIn(registry)
    /\ pc[f] \in {"calculate", "publish"} => \A r \in registry : r.content # ContentOf(f)
    /\ target = "npm" /\ pc[f] = "publish" => name[f] \notin NamesIn(registry)

SequentialInv == NothingFailed /\ PublishedIsCached /\ ReadIsFresh /\ PublishedOnce
LEMMA InitSequential == Init => SequentialInv
BY DEF Init, SequentialInv, NothingFailed, PublishedIsCached, ReadIsFresh, PublishedOnce

\* While one of them is at work, or begins, no other one is.
LEMMA OneAtWork ==
  ASSUME OneAfterAnother, TypeOK, BegunAfterOver, NEW f \in Flows, NEW g \in Flows, f # g,
         pc[f] \in AtWork \/ MayBegin(f)
  PROVE  pc[g] \notin AtWork
<1>1. ~Over(f)
  BY DEF Over, AtWork, MayBegin
<1>2. CASE <<f, g>> \in After
  <2>1. pc[g] = "notBegun"
    BY <1>1, <1>2 DEF BegunAfterOver
  <2> QED BY <2>1 DEF AtWork
<1>3. CASE <<g, f>> \in After
  <2>1. Over(g)
    BY <1>3 DEF BegunAfterOver, MayBegin, AtWork
  <2> QED BY <2>1 DEF Over, AtWork
<1> QED BY <1>2, <1>3 DEF OneAfterAnother

\* What a flow finds in the registry when no other one is at work, the cache knows.
LEMMA FoundIsCached ==
  ASSUME OneAfterAnother, Inv, SequentialInv, NEW f \in Flows, pc[f] \in AtWork \/ MayBegin(f),
         pc[f] \notin {"confirm", "save"}, NEW r \in registry
  PROVE  cache[r.content] # NoName /\ cache[r.content] \in NamesIn(registry)
<1>1. cache[r.content] # NoName
  BY OneAtWork DEF Inv, RerunInv, SequentialInv, PublishedIsCached, AtWork
<1>2. r.content \in Contents
  BY DEF Inv, TypeOK
<1>3. Published(cache[r.content], r.content) \in registry
  BY <1>1, <1>2 DEF Inv, PublishInv, CacheTellsRegistry, WasPublished, SequentialInv, NothingFailed
<1>4. cache[r.content] \in NamesIn(registry)
  BY <1>3 DEF Published, NamesIn
<1> QED BY <1>1, <1>4

\* A flow that does not find its content in the cache, or finds a name that the
\* registry does not have, is the first to publish its content.
LEMMA NotFoundIsNew ==
  ASSUME OneAfterAnother, Inv, SequentialInv, NEW f \in Flows, pc[f] \in AtWork \/ MayBegin(f),
         pc[f] \notin {"confirm", "save"}, cache[ContentOf(f)] \notin NamesIn(registry)
  PROVE  \A r \in registry : r.content # ContentOf(f)
BY FoundIsCached

\* The tag of a commit that is in the registry is known for its content.
LEMMA TagIsKnown ==
  ASSUME OneAfterAnother, Inv, SequentialInv, target = "docker", NEW f \in Flows,
         pc[f] = "readTag", job[f].commit \in NamesIn(registry)
  PROVE  cache[ContentOf(f)] \in NamesIn(registry)
<1>1. PICK r \in registry : r.name = job[f].commit
  BY DEF NamesIn
<1>2. PICK g \in Flows : r = Published(job[g].commit, ContentOf(g))
  BY DEF Inv, PublishInv, NamesFollowTarget
<1>3. r.content = ContentOf(f)
  BY <1>1, <1>2, JobsAssumption DEF Published, ContentOf, Inv, TypeOK
<1> QED BY <1>3, FoundIsCached DEF AtWork

\* One request of one flow, with nothing that fails.
LEMMA OneWorks ==
  ASSUME Faults = {}, SequentialInv, TypeOK, Next
  PROVE  \E f \in Flows : Works(f)
BY DEF Next, RequestFails, Killed, Remove

LEMMA OthersWait ==
  ASSUME TypeOK, NEW f \in Flows, Works(f), NEW g \in Flows, g # f
  PROVE  pc'[g] = pc[g] /\ listed'[g] = listed[g] /\ name'[g] = name[g] /\ result'[g] = result[g]
BY DEF Works, ReadVersion, LookUp, Calculate, PublishVersion, Confirm, ListTags, ReadTag, PublishImage, Save,
       GoesTo, EndsAs, TypeOK

\* A flow at work ends only with a pass.
LEMMA StepNothingFailed ==
  ASSUME OneAfterAnother, Inv, SequentialInv, NEW f \in Flows, Works(f)
  PROVE  NothingFailed'
<1> USE DEF Inv, TypeOK, SequentialInv, NothingFailed
<1>1. removed' = removed
  BY DEF Works, ReadVersion, LookUp, Calculate, PublishVersion, Confirm, ListTags, ReadTag, PublishImage, Save,
         world
<1>2. pc'[f] # "killed" /\ (pc'[f] = "ended" => Passed(f)')
  <2>1. CASE LookUp(f) \/ Save(f)
    BY <2>1 DEF LookUp, Save, EndsAs, GoesTo, Passed, Done, Aborted, DidPassOrSkippedAsPassed
  <2>2. CASE PublishVersion(f)
    BY <2>2 DEF PublishVersion, ReadIsFresh, GoesTo
  <2>3. CASE ReadTag(f)
    <3>1. target = "docker" /\ pc[f] = "readTag"
      BY <2>3, TargetsAssumption DEF ReadTag, PublishInv, NamesFollowTarget
    <3>2. listed[f] = NamesIn(registry)
      BY <3>1 DEF ReadIsFresh
    <3>3. job[f].commit \in listed[f] => cache[ContentOf(f)] \in listed[f]
      BY <3>1, <3>2, TagIsKnown
    <3> QED BY <2>3, <3>3 DEF ReadTag, EndsAs, GoesTo, Passed, Aborted, DidPassOrSkippedAsPassed
  <2>4. CASE ReadVersion(f) \/ Calculate(f) \/ Confirm(f) \/ ListTags(f) \/ PublishImage(f)
    BY <2>4 DEF ReadVersion, Calculate, Confirm, ListTags, PublishImage, GoesTo
  <2> QED BY <2>1, <2>2, <2>3, <2>4 DEF Works
<1> QED BY <1>1, <1>2, OthersWait DEF Passed

\* What a step does to the registry and to the cache.
LEMMA WorksOnRegistry ==
  ASSUME Inv, NEW f \in Flows, Works(f)
  PROVE  \/ registry' = registry
         \/ /\ pc[f] = "publish" /\ pc'[f] \in {"confirm", "save"}
            /\ registry' = registry \cup {Published(name[f], ContentOf(f))}
<1> USE DEF Inv, TypeOK
<1>1. CASE PublishImage(f)
  BY <1>1, PublicationFacts DEF PublishImage, GoesTo
<1>2. CASE PublishVersion(f)
  BY <1>2 DEF PublishVersion, GoesTo
<1> QED BY <1>1, <1>2 DEF Works, ReadVersion, LookUp, Calculate, Confirm, ListTags, ReadTag, Save, world

\* A record of the registry has its content in the cache, or its flow is about
\* to save it.
LEMMA StepPublishedIsCached ==
  ASSUME OneAfterAnother, Inv, SequentialInv, NEW f \in Flows, Works(f)
  PROVE  PublishedIsCached'
<1> USE DEF Inv
<1>1. job' = job /\ \A g \in Flows : ContentOf(g)' = ContentOf(g) /\ ContentOf(g) \in Contents
  BY JobsAssumption
  DEF Works, ReadVersion, LookUp, Calculate, PublishVersion, Confirm, ListTags, ReadTag, PublishImage, Save,
      given, ContentOf, TypeOK, Job
<1>2. [Next]_vars
  BY DEF Next
<1> SUFFICES ASSUME NEW r \in registry'
             PROVE  \/ cache'[r.content] # NoName
                    \/ \E g \in Flows : pc'[g] \in {"confirm", "save"} /\ ContentOf(g) = r.content
  BY <1>1 DEF PublishedIsCached
<1>3. CASE r \notin registry
  BY <1>3, WorksOnRegistry DEF Published
<1>4. CASE r \in registry /\ cache[r.content] # NoName
  BY <1>2, <1>4, CachedForEver DEF TypeOK
<1>5. CASE r \in registry /\ cache[r.content] = NoName
  <2>1. PICK g \in Flows : pc[g] \in {"confirm", "save"} /\ ContentOf(g) = r.content
    BY <1>5 DEF SequentialInv, PublishedIsCached
  <2>2. CASE g # f
    BY <2>1, <2>2, OthersWait
  <2>3. CASE g = f /\ Confirm(f)
    BY <2>1, <2>3 DEF Confirm, GoesTo, TypeOK
  <2>4. CASE g = f /\ Save(f)
    <3>1. name[f] # NoName
      BY <2>4, CommitsAssumption
      DEF Save, PublishInv, NameWasPublished, WasPublished, Published, TypeOK, Names, Versions, NoName
    <3> QED BY <1>1, <2>1, <2>4, <3>1 DEF Save, CacheName, TypeOK
  <2>5. g = f => Confirm(f) \/ Save(f)
    BY <2>1 DEF Works, ReadVersion, LookUp, Calculate, PublishVersion, Confirm, ListTags, ReadTag, PublishImage,
                Save, MayBegin
  <2> QED BY <2>2, <2>3, <2>4, <2>5
<1> QED BY <1>3, <1>4, <1>5

\* No other flow makes stale what a flow has read.
LEMMA StepReadIsFresh ==
  ASSUME OneAfterAnother, Inv, SequentialInv, NEW f \in Flows, Works(f)
  PROVE  ReadIsFresh'
<1> USE DEF Inv
<1>1. target' = target /\ \A g \in Flows : ContentOf(g)' = ContentOf(g)
  BY DEF Works, ReadVersion, LookUp, Calculate, PublishVersion, Confirm, ListTags, ReadTag, PublishImage, Save,
         given, ContentOf
<1>2. pc[f] \in AtWork \/ MayBegin(f)
  BY DEF Works, ReadVersion, LookUp, Calculate, PublishVersion, Confirm, ListTags, ReadTag, PublishImage, Save,
         AtWork
<1>3. ASSUME NEW g \in Flows, g # f PROVE pc'[g] \notin AtWork
  BY <1>2, <1>3, OneAtWork, OthersWait DEF RerunInv
<1>4. /\ pc'[f] = "readTag" => listed'[f] = NamesIn(registry')
      /\ pc'[f] \in {"calculate", "publish"} => \A r \in registry' : r.content # ContentOf(f)
      /\ target = "npm" /\ pc'[f] = "publish" => name'[f] \notin NamesIn(registry')
  <2>1. CASE ReadVersion(f)
    <3>1. cache[ContentOf(f)] = NoName => \A r \in registry : r.content # ContentOf(f)
      <4>1. NoName \notin NamesIn(registry)
        BY CommitsAssumption DEF NamesIn, TypeOK, Names, Versions, NoName
      <4> QED BY <1>2, <2>1, <4>1, NotFoundIsNew DEF ReadVersion, MayBegin
    <3> QED BY <2>1, <3>1 DEF ReadVersion, GoesTo, TypeOK, world
  <2>2. CASE LookUp(f)
    <3>1. name[f] \notin NamesIn(registry) => \A r \in registry : r.content # ContentOf(f)
      BY <1>2, <2>2, NotFoundIsNew DEF LookUp, RerunInv, LookedUpIsCached
    <3> QED BY <2>2, <3>1 DEF LookUp, GoesTo, EndsAs, TypeOK, world
  <2>3. CASE Calculate(f)
    <3>1. target = "npm"
      BY <2>3, TargetsAssumption DEF TypeOK, Calculate, PublishInv, NamesFollowTarget
    <3>2. name'[f] = NewVersion(job[f].version, NamesIn(registry)) /\ name'[f] \in Versions
      BY <2>3, <3>1, NewVersionFacts DEF Calculate, TypeOK
    <3>3. \A n \in NamesIn(registry) : n < name'[f]
      BY <3>1, <3>2, NewVersionFacts
    <3>4. name'[f] \notin NamesIn(registry)
      BY <3>2, <3>3 DEF Versions
    <3> QED BY <2>3, <3>4 DEF Calculate, GoesTo, TypeOK, world, SequentialInv, ReadIsFresh
  <2>4. CASE PublishVersion(f) \/ PublishImage(f) \/ Confirm(f) \/ Save(f)
    BY <2>4 DEF PublishVersion, PublishImage, Confirm, Save, GoesTo, EndsAs, TypeOK
  <2>5. CASE ListTags(f)
    BY <2>5 DEF ListTags, GoesTo, TypeOK, world
  <2>6. CASE ReadTag(f)
    <3>1. target = "docker" /\ pc[f] = "readTag" /\ listed[f] = NamesIn(registry)
      BY <2>6, TargetsAssumption
      DEF ReadTag, TypeOK, PublishInv, NamesFollowTarget, SequentialInv, ReadIsFresh
    <3>2. cache[ContentOf(f)] \notin listed[f] => \A r \in registry : r.content # ContentOf(f)
      BY <1>2, <3>1, NotFoundIsNew
    <3> QED BY <2>6, <3>1, <3>2 DEF ReadTag, GoesTo, EndsAs, TypeOK, world
  <2> QED BY <2>1, <2>2, <2>3, <2>4, <2>5, <2>6 DEF Works
<1>5. ASSUME NEW g \in Flows
      PROVE  /\ pc'[g] = "readTag" => listed'[g] = NamesIn(registry')
             /\ pc'[g] \in {"calculate", "publish"} => \A r \in registry' : r.content # ContentOf(g)
             /\ target = "npm" /\ pc'[g] = "publish" => name'[g] \notin NamesIn(registry')
  BY <1>3, <1>4 DEF AtWork
<1>6. NamesIn(registry)' = NamesIn(registry')
  BY DEF NamesIn
<1> QED BY <1>1, <1>5, <1>6 DEF ReadIsFresh

LEMMA StepPublishedOnce ==
  ASSUME Inv, SequentialInv, NEW f \in Flows, Works(f)
  PROVE  PublishedOnce'
<1>1. CASE registry' = registry
  BY <1>1 DEF SequentialInv, PublishedOnce
<1>2. CASE pc[f] = "publish" /\ registry' = registry \cup {Published(name[f], ContentOf(f))}
  BY <1>2 DEF SequentialInv, PublishedOnce, ReadIsFresh, Published
<1> QED BY <1>1, <1>2, WorksOnRegistry

\* The registry, the cache and the flows agree at every moment.
THEOREM SequentialFlowsAgree ==
  ASSUME Faults = {}, OneAfterAnother
  PROVE  Spec => []SequentialInv
<1>1. Init => SequentialInv
  BY InitSequential
<1>2. Inv /\ SequentialInv /\ [Next]_vars => SequentialInv'
  <2> SUFFICES ASSUME Inv, SequentialInv, [Next]_vars PROVE SequentialInv'
    OBVIOUS
  <2>1. CASE Next
    <3>1. PICK f \in Flows : Works(f)
      BY <2>1, OneWorks DEF Inv
    <3> QED BY <3>1, StepNothingFailed, StepPublishedIsCached, StepReadIsFresh, StepPublishedOnce
            DEF SequentialInv
  <2>2. CASE UNCHANGED vars
    BY <2>2 DEF vars, given, world, SequentialInv, NothingFailed, PublishedIsCached, ReadIsFresh, PublishedOnce,
                Passed, ContentOf, NamesIn
  <2> QED BY <2>1, <2>2
<1> QED BY <1>1, <1>2, RerunInvariant, PTL DEF Spec

\* When nothing fails and no two flows are at work together, every flow passes,
\* on npm and on docker, whatever was published before: what keeps flows of one
\* commit from passing (see the run SameCommit) is that they are in parallel.
THEOREM SequentialFlowsPass ==
  ASSUME Faults = {}, OneAfterAnother
  PROVE  Spec => []ParallelFlowsPass
<1>1. Inv /\ SequentialInv => ParallelFlowsPass
  BY DEF Inv, PublishInv, ResultsFollowRequests, SequentialInv, NothingFailed, ParallelFlowsPass
<1> QED BY <1>1, SequentialFlowsAgree, RerunInvariant, PTL

\* ... and a content is published once, however many flows run on it.
THEOREM SequentialFlowsPublishOnce ==
  ASSUME Faults = {}, OneAfterAnother
  PROVE  Spec => []PublishedOnce
<1>1. SequentialInv => PublishedOnce
  BY DEF SequentialInv
<1> QED BY <1>1, SequentialFlowsAgree, PTL
=============================================================================
