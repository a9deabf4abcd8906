----------------------------- MODULE Publishing -----------------------------
(***************************************************************************)
(* The publishing steps of several flows of one package: npm-publish, and  *)
(* the steps that publish docker images, which share chooseTagAndPublish.  *)
(*                                                                         *)
(* A registry holds contents (hashes of the package) under names: the      *)
(* versions of npm, the tags of images.  A flow that published a content   *)
(* leaves its name in the cache, which redis keeps for the flows to come   *)
(* and never overrides.  The registry and the cache are two systems:       *)
(* between any two requests of a flow other flows go on, it may be killed, *)
(* and somebody may remove from the registry what was published.           *)
(***************************************************************************)
EXTENDS Statuses, Integers, FiniteSets

CONSTANTS
  Flows, Contents,
  Commits,  \* the tags of images
  Jobs,     \* what the flows run on
  Targets,  \* the registries the flows may publish to, "npm" or "docker"
  After,    \* <<g, f>>: f begins when g is over
  Faults    \* "request", "kill", "remove": what may go wrong

Versions == Nat \ {0}
Job == [content : Contents, commit : Commits, version : Versions]
NoName == 0

\* The hash is computed from the files of the commit, which checkIfAllChangesCommitted
\* asks for, and package.json is one of the files.
ASSUME JobsAssumption ==
  /\ Jobs \subseteq [Flows -> Job]
  /\ \A j \in Jobs : \A f, g \in Flows :
       /\ j[f].commit = j[g].commit => j[f].content = j[g].content
       /\ j[f].content = j[g].content => j[f].version = j[g].version
ASSUME TargetsAssumption == Targets \subseteq {"npm", "docker"}
ASSUME CommitsAssumption == Commits \cap Nat = {}

VARIABLES
  target, job,  \* of the flows; they never change
  registry,     \* what can be downloaded: records of a name and a content
  latest,       \* dist-tags.latest of the npm registry
  removed,      \* what somebody has removed from the registry
  cache,        \* npm-version-of-... and image-tag-of-..., by content
  pc,           \* the request a flow is at
  listed,       \* the tags a flow has read
  name,         \* the version or the tag that a flow has chosen or found
  result        \* the result of the step, when it has one

given == <<target, job>>
world == <<registry, latest, removed>>
vars == <<given, world, cache, pc, listed, name, result>>

Names == Versions \cup Commits
NamesIn(records) == {r.name : r \in records}
ContentOf(f) == job[f].content
AtWork == {"lookUp", "readTag", "calculate", "publish", "confirm", "save"}
Over(f) == pc[f] \in {"ended", "killed"}

TypeOK ==
  /\ target \in Targets /\ job \in Jobs
  /\ registry \subseteq [name : Names, content : Contents]
  /\ latest \in Nat
  /\ removed \subseteq [name : Names, content : Contents]
  /\ cache \in [Contents -> Names \cup {NoName}]
  /\ pc \in [Flows -> AtWork \cup {"notBegun", "ended", "killed"}]
  /\ listed \in [Flows -> SUBSET Names]
  /\ name \in [Flows -> Names \cup {NoName}]
  /\ result \in [Flows -> FinalResult \cup {Scheduled}]

Init ==
  /\ target \in Targets /\ job \in Jobs
  /\ registry = {} /\ latest = 0 /\ removed = {}
  /\ cache = [c \in Contents |-> NoName]
  /\ pc = [f \in Flows |-> "notBegun"]
  /\ listed = [f \in Flows |-> {}]
  /\ name = [f \in Flows |-> NoName]
  /\ result = [f \in Flows |-> Scheduled]

GoesTo(f, request) == pc' = [pc EXCEPT ![f] = request] /\ UNCHANGED result
EndsAs(f, r) == pc' = [pc EXCEPT ![f] = "ended"] /\ result' = [result EXCEPT ![f] = r]

Published(n, c) == [name |-> n, content |-> c]

\* f may begin: the flows it comes after are over.
MayBegin(f) == pc[f] = "notBegun" /\ \A g \in Flows : <<g, f>> \in After => Over(g)

-----------------------------------------------------------------------------
(* npm-publish: customConstrain and onArtifact.                             *)

\* The constrain asks the cache for the version of this content.
ReadVersion(f) ==
  /\ target = "npm"
  /\ MayBegin(f)
  /\ name' = [name EXCEPT ![f] = cache[ContentOf(f)]]
  /\ GoesTo(f, IF cache[ContentOf(f)] = NoName THEN "calculate" ELSE "lookUp")
  /\ UNCHANGED <<given, world, cache, listed>>

\* ... and the registry whether that version is (still) there.
LookUp(f) ==
  /\ pc[f] = "lookUp"
  /\ IF name[f] \in NamesIn(registry) THEN EndsAs(f, Aborted("skippedAsPassed"))
                                      ELSE GoesTo(f, "calculate")
  /\ UNCHANGED <<given, world, cache, listed, name>>

Highest(versions) == CHOOSE v \in versions : \A w \in versions : w <= v

\* Mutant: the next version after the one of package.json.
NewVersionAfterPackageJson(packageJsonVersion, published) ==
  IF packageJsonVersion \in published THEN packageJsonVersion + 1 ELSE packageJsonVersion

\* calculateNewVersion: the version of package.json if it is higher than all
\* that are published, else the patch after the highest.
NewVersion(packageJsonVersion, published) ==
  IF \A v \in published : v < packageJsonVersion THEN packageJsonVersion
                                                 ELSE Highest(published) + 1

Calculate(f) ==
  /\ pc[f] = "calculate"
  /\ name' = [name EXCEPT ![f] = NewVersion(job[f].version, NamesIn(registry))]
  /\ GoesTo(f, "publish")
  /\ UNCHANGED <<given, world, cache, listed>>

\* npm publish: the registry rejects a version that it has.
PublishVersion(f) ==
  /\ target = "npm"
  /\ pc[f] = "publish"
  /\ IF name[f] \in NamesIn(registry) THEN EndsAs(f, Done("failed")) /\ UNCHANGED <<registry, latest>>
     ELSE /\ registry' = registry \cup {Published(name[f], ContentOf(f))}
          /\ latest' = name[f]
          /\ GoesTo(f, "confirm")
  /\ UNCHANGED <<given, removed, cache, listed, name>>

\* Mutant: there is no bound to the time that the step waits.
ConfirmForEver(f) ==
  /\ pc[f] = "confirm"
  /\ latest = name[f]
  /\ GoesTo(f, "save")
  /\ UNCHANGED <<given, world, cache, listed, name>>

\* The step asks up to 24 times, every five seconds, whether its version is the latest,
\* and then goes on whatever it was told, so nothing it does depends on the answers: it
\* may leave at any time, and the end of the tries is not seen.
Confirm(f) ==
  /\ pc[f] = "confirm"
  /\ GoesTo(f, "save")
  /\ UNCHANGED <<given, world, cache, listed, name>>

-----------------------------------------------------------------------------
(* docker-publish and quay-docker-publish: chooseTagAndPublish.             *)

ListTags(f) ==
  /\ target = "docker"
  /\ MayBegin(f)
  /\ listed' = [listed EXCEPT ![f] = NamesIn(registry)]
  /\ GoesTo(f, "readTag")
  /\ UNCHANGED <<given, world, cache, name>>

\* The content is published under a tag of the list; or the tag of this
\* commit is in it, which the step takes for changes that were not committed.
ReadTag(f) ==
  /\ pc[f] = "readTag"
  /\ LET found == cache[ContentOf(f)]
     IN \/ /\ found \in listed[f]
           /\ name' = [name EXCEPT ![f] = found]
           /\ EndsAs(f, Aborted("skippedAsPassed"))
        \/ /\ found \notin listed[f]
           /\ name' = [name EXCEPT ![f] = job[f].commit]
           /\ IF job[f].commit \in listed[f] THEN EndsAs(f, Aborted("skippedAsFailed"))
                                             ELSE GoesTo(f, "publish")
  /\ UNCHANGED <<given, world, cache, listed>>

\* The image is built and pushed; the tag moves to it if it was there.
PublishImage(f) ==
  /\ target = "docker"
  /\ pc[f] = "publish"
  /\ registry' = {r \in registry : r.name # name[f]} \cup {Published(name[f], ContentOf(f))}
  /\ GoesTo(f, "save")
  /\ UNCHANGED <<given, latest, removed, cache, listed, name>>

-----------------------------------------------------------------------------
(* Both.                                                                    *)

\* Mutant: the cache learns the version of the package.json.
SavePackageJson(f) ==
  /\ pc[f] = "save"
  /\ cache' = [cache EXCEPT ![ContentOf(f)] = IF @ = NoName THEN job[f].version ELSE @]
  /\ EndsAs(f, Done("passed"))
  /\ UNCHANGED <<given, world, listed, name>>

\* Mutant: the name is saved under a key that nobody reads.
SaveNothing(f) ==
  /\ pc[f] = "save"
  /\ EndsAs(f, Done("passed"))
  /\ UNCHANGED <<given, world, cache, listed, name>>

\* immutableCache.set, which does not override.
CacheName(f) == cache' = [cache EXCEPT ![ContentOf(f)] = IF @ = NoName THEN name[f] ELSE @]

\* The name is saved, and the step has passed.
Save(f) ==
  /\ pc[f] = "save"
  /\ CacheName(f)
  /\ EndsAs(f, Done("passed"))
  /\ UNCHANGED <<given, world, listed, name>>

\* Mutant: an error of onArtifact is swallowed.
FailureSwallowed(f) ==
  IF pc[f] = "lookUp" THEN {Aborted("skippedAsFailed")} ELSE {Done("passed")}

\* An error of a constrain skips the artifact, one of onArtifact fails it; a
\* build that quay did not begin skips it.
FailureOf(f) ==
  CASE pc[f] = "lookUp" \/ (pc[f] = "notBegun" /\ target = "npm") -> {Aborted("skippedAsFailed")}
    [] pc[f] = "publish" /\ target = "docker" -> {Aborted("skippedAsFailed"), Done("failed")}
    [] OTHER                                  -> {Done("failed")}

\* The request to the registry or to redis fails, or only its answer.
RequestFails(f) ==
  /\ "request" \in Faults
  /\ pc[f] \in AtWork \/ MayBegin(f)
  /\ \E r \in FailureOf(f) : EndsAs(f, r)
  /\ \/ UNCHANGED <<registry, latest, cache>>
     \/ pc[f] = "save" /\ CacheName(f) /\ UNCHANGED <<registry, latest>>
     \/ /\ pc[f] = "publish"
        /\ target = "docker" \/ name[f] \notin NamesIn(registry)
        /\ registry' = {r \in registry : r.name # name[f]} \cup {Published(name[f], ContentOf(f))}
        /\ latest' = IF target = "npm" THEN name[f] ELSE latest
        /\ UNCHANGED cache
  /\ UNCHANGED <<given, removed, listed, name>>

\* The process of the flow, or its machine, goes away.
Killed(f) ==
  /\ "kill" \in Faults
  /\ pc[f] \in AtWork
  /\ GoesTo(f, "killed")
  /\ UNCHANGED <<given, world, cache, listed, name>>

\* Somebody removes a version or an image from the registry.
Remove(r) ==
  /\ "remove" \in Faults
  /\ r \in registry
  /\ registry' = registry \ {r}
  /\ removed' = removed \cup {r}
  /\ latest' = IF target = "npm" /\ registry' # {} THEN Highest(NamesIn(registry')) ELSE 0
  /\ UNCHANGED <<given, cache, pc, listed, name, result>>

Works(f) ==
  \/ ReadVersion(f) \/ LookUp(f) \/ Calculate(f) \/ PublishVersion(f) \/ Confirm(f)
  \/ ListTags(f) \/ ReadTag(f) \/ PublishImage(f)
  \/ Save(f)

Next ==
  \/ \E f \in Flows : Works(f) \/ RequestFails(f) \/ Killed(f)
  \/ \E r \in registry : Remove(r)

Spec == Init /\ [][Next]_vars

\* Requests are answered, or fail.
FairSpec == Spec /\ \A f \in Flows : WF_vars(Works(f))

-----------------------------------------------------------------------------
WasPublished(n, c) == Published(n, c) \in registry \cup removed

Passed(f) == DidPassOrSkippedAsPassed(result[f].status)

\* A name in the cache is one under which exactly that content was published.
CacheTellsRegistry ==
  \A c \in Contents : cache[c] # NoName => WasPublished(cache[c], c)

\* A flow that reports a pass, or a skip because of an earlier pass, tells a
\* name under which its own content was published, by whomever.
PassedMeansPublished ==
  \A f \in Flows : Passed(f) => WasPublished(name[f], ContentOf(f))

\* A flow that comes after a flow that passed with the same content publishes
\* nothing, whatever other flows do meanwhile, unless somebody removed the
\* name that the cache knows.
RerunPublishesNothing ==
  \A f, g \in Flows :
    /\ <<g, f>> \in After /\ ContentOf(f) = ContentOf(g)
    /\ Passed(g)
    /\ cache[ContentOf(f)] \notin NamesIn(removed)
    => pc[f] \notin {"calculate", "publish", "confirm", "save"}

\* A flow publishes a higher version than the flows before it did, although
\* neither the versions of package.json nor the order of the others ascend.
VersionsAscend ==
  \A f, g \in Flows :
    /\ target = "npm" /\ <<g, f>> \in After
    /\ result[f] = Done("passed") /\ result[g] = Done("passed")
    /\ name[g] \notin NamesIn(removed)
    => name[g] < name[f]

\* Flows that run at the same time on one commit pass when nothing fails.
ParallelFlowsPass == \A f \in Flows : result[f] # Scheduled => Passed(f)

\* Every flow that begins comes to its end, even if others publish later
\* versions while it waits for its own to be the latest.
PublishingEnds == \A f \in Flows : pc[f] # "notBegun" ~> Over(f)
=============================================================================
