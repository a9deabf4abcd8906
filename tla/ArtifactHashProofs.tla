------------------------- MODULE ArtifactHashProofs -------------------------
(***************************************************************************)
(* What the hashes of packages tell, for every repository: they hold       *)
(* nothing but dependencies, and the direct dependencies in any case.      *)
(***************************************************************************)
EXTENDS ArtifactHash, TLAPS

\* The list of a set is a sequence of packages that holds its members.
LEMMA ListFacts ==
  ASSUME NEW S \in SUBSET Packages
  PROVE  ListOf[S] \in Seq(Packages) /\ {ListOf[S][i] : i \in DOMAIN ListOf[S]} = S
BY ListAssumption

\* The head is taken from a queue and a list is appended.
LEMMA QueueFacts ==
  ASSUME NEW s \in Seq(Packages), s # <<>>, NEW l \in Seq(Packages)
  PROVE  /\ Head(s) \in Packages
         /\ Tail(s) \o l \in Seq(Packages)
         /\ \A p \in {s[i] : i \in DOMAIN s} \ {Head(s)} :
              p \in {(Tail(s) \o l)[i] : i \in DOMAIN (Tail(s) \o l)}
         /\ {l[i] : i \in DOMAIN l} \subseteq {(Tail(s) \o l)[i] : i \in DOMAIN (Tail(s) \o l)}
<1>1. Head(s) \in Packages /\ Tail(s) \in Seq(Packages) /\ Tail(s) \o l \in Seq(Packages)
  OBVIOUS
<1>2. ASSUME NEW i \in DOMAIN s, s[i] # Head(s)
      PROVE  s[i] \in {(Tail(s) \o l)[j] : j \in DOMAIN (Tail(s) \o l)}
  <2>1. i - 1 \in DOMAIN (Tail(s) \o l) /\ (Tail(s) \o l)[i - 1] = s[i]
    BY <1>2
  <2> QED BY <2>1
<1>3. ASSUME NEW i \in DOMAIN l
      PROVE  l[i] \in {(Tail(s) \o l)[j] : j \in DOMAIN (Tail(s) \o l)}
  <2>1. Len(Tail(s)) + i \in DOMAIN (Tail(s) \o l) /\ (Tail(s) \o l)[Len(Tail(s)) + i] = l[i]
    BY <1>1, <1>3
  <2> QED BY <2>1
<1> QED BY <1>1, <1>2, <1>3

\* Every reachable state is well typed.
THEOREM TypeCorrect == Spec => []TypeOK
<1>1. Init => TypeOK
  <2> SUFFICES ASSUME Init PROVE TypeOK
    OBVIOUS
  <2>1. queue \in Seq(Packages)
    BY ListFacts DEF Init
  <2> QED BY <2>1 DEF Init, TypeOK, Input
<1>2. TypeOK /\ [Next]_vars => TypeOK'
  <2> SUFFICES ASSUME TypeOK, [Next]_vars PROVE TypeOK'
    OBVIOUS
  <2>1. CASE Visit
    <3> DEFINE p == Head(queue)
    <3>1. p \in Packages /\ parents[p] \subseteq Packages
      BY <2>1, GraphsAssumption DEF TypeOK, Visit
    <3>2. Children(p) \ seen' \in SUBSET Packages
      BY DEF Children
    <3>3. queue' \in Seq(Packages)
      BY <2>1, <3>2, ListFacts, QueueFacts DEF TypeOK, Visit
    <3>4. CombinedHash(p) \subseteq Input
      BY <3>1, GraphsAssumption DEF TypeOK, CombinedHash, RootInput, Input
    <3> QED BY <2>1, <3>1, <3>3, <3>4 DEF TypeOK, Visit
  <2>2. CASE Finish
    BY <2>2, GraphsAssumption DEF TypeOK, Finish, RootInput, Input
  <2>3. CASE UNCHANGED vars
    BY <2>3 DEF TypeOK, vars
  <2> QED BY <2>1, <2>2, <2>3 DEF Next
<1> QED BY <1>1, <1>2, PTL DEF Spec

-----------------------------------------------------------------------------
\* What a package depends on holds its parents and what they depend on.
LEMMA DependenciesOfParents ==
  ASSUME TypeOK, NEW p \in Packages, NEW q \in parents[p]
  PROVE  q \in Packages /\ {q} \cup Dependencies(q) \subseteq Dependencies(p)
<1>1. q \in Packages
  BY GraphsAssumption DEF TypeOK
<1>2. q \in Dependencies(p)
  BY <1>1 DEF Dependencies
<1>3. ASSUME NEW d \in Dependencies(q), NEW C \in SUBSET Packages,
             parents[p] \subseteq C, \A c \in C : parents[c] \subseteq C
      PROVE  d \in C
  BY <1>3 DEF Dependencies
<1> QED BY <1>1, <1>2, <1>3 DEF Dependencies

\* A change in a package changes only hashes of packages that depend on it.
THEOREM NothingElse == Spec => []OnlyDependencies
<1>1. Init => OnlyDependencies
  BY DEF Init, OnlyDependencies
<1>2. TypeOK /\ OnlyDependencies /\ [Next]_vars => OnlyDependencies'
  <2> SUFFICES ASSUME TypeOK, OnlyDependencies, [Next]_vars, NEW r \in Packages
               PROVE  packageHash'[r] \subseteq RootInput' \cup {r} \cup Dependencies(r)'
    BY DEF OnlyDependencies
  <2>1. Dependencies(r)' = Dependencies(r) /\ RootInput' = RootInput
    BY DEF Dependencies, RootInput, Next, Visit, Finish, vars
  <2>2. packageHash[r] \subseteq RootInput \cup {r} \cup Dependencies(r)
    BY DEF OnlyDependencies
  <2>3. CombinedHash(r) \subseteq RootInput \cup {r} \cup Dependencies(r)
    <3>1. ASSUME NEW q \in parents[r]
          PROVE  packageHash[q] \subseteq RootInput \cup {r} \cup Dependencies(r)
      BY DependenciesOfParents DEF OnlyDependencies
    <3> QED BY <2>2, <3>1 DEF CombinedHash
  <2>4. packageHash'[r] \in {packageHash[r], CombinedHash(r)}
    BY DEF TypeOK, Next, Visit, Finish, vars
  <2> QED BY <2>1, <2>2, <2>3, <2>4
<1> QED BY <1>1, <1>2, TypeCorrect, PTL DEF Spec

-----------------------------------------------------------------------------
\* What every turn of the loop keeps: a package that was seen is hashed with
\* its parents, and its children were seen or wait.
LoopInv ==
  /\ \A p \in Packages : p \in packageHash[p]
  /\ \A p \in seen : RootInput \cup parents[p] \subseteq packageHash[p]
  /\ \A p \in Packages : parents[p] = {} => p \in seen \cup Queued
  /\ \A p \in seen : Children(p) \subseteq seen \cup Queued
  /\ Finished => queue = <<>>

\* The loop keeps it.
LEMMA LoopInvariant == Spec => []LoopInv
<1>1. Init => LoopInv
  <2> SUFFICES ASSUME Init PROVE LoopInv
    OBVIOUS
  <2> DEFINE heads == {p \in Packages : parents[p] = {}}
  <2>1. Queued = heads
    <3>1. heads \in SUBSET Packages
      OBVIOUS
    <3>2. {ListOf[heads][i] : i \in DOMAIN ListOf[heads]} = heads
      BY <3>1, ListFacts
    <3>3. queue = ListOf[heads]
      BY DEF Init
    <3> HIDE DEF heads
    <3> QED BY <3>2, <3>3 DEF Queued
  <2> QED BY <2>1 DEF Init, LoopInv, Finished
<1>2. TypeOK /\ LoopInv /\ [Next]_vars => LoopInv'
  <2> SUFFICES ASSUME TypeOK, LoopInv, [Next]_vars PROVE LoopInv'
    OBVIOUS
  <2>1. CASE Visit
    <3> DEFINE p == Head(queue)
               l == ListOf[Children(p) \ seen']
    <3>1. Children(p) \ seen' \in SUBSET Packages
      BY DEF Children
    <3>2. p \in Packages /\ parents[p] \subseteq Packages
      BY <2>1, GraphsAssumption DEF TypeOK, Visit
    <3>3. l \in Seq(Packages) /\ {l[i] : i \in DOMAIN l} = Children(p) \ seen'
      BY <3>1, ListFacts
    <3>4. /\ seen' = seen \cup {p} /\ queue' = Tail(queue) \o l
          /\ packageHash' = [packageHash EXCEPT ![p] = CombinedHash(p)]
          /\ parents' = parents /\ repoHash' = repoHash /\ RootInput' = RootInput
      BY <2>1 DEF Visit, RootInput
    <3>5. Queued \ {p} \subseteq Queued' /\ Children(p) \ seen' \subseteq Queued'
      <4>1. queue \in Seq(Packages) /\ queue # <<>>
        BY <2>1 DEF TypeOK, Visit
      <4>2. Queued' = {(Tail(queue) \o l)[i] : i \in DOMAIN (Tail(queue) \o l)}
        BY <3>4 DEF Queued
      <4> HIDE DEF l
      <4>3. /\ \A r \in Queued \ {p} : r \in Queued'
            /\ {l[i] : i \in DOMAIN l} \subseteq Queued'
        BY <3>3, <4>1, <4>2, QueueFacts DEF Queued
      <4> QED BY <3>3, <4>3
    <3>6. \A r \in Packages : packageHash[r] \subseteq packageHash'[r]
      BY <3>4 DEF TypeOK, CombinedHash
    <3>7. RootInput \cup parents[p] \subseteq packageHash'[p]
      <4>1. packageHash'[p] = CombinedHash(p)
        BY <3>2, <3>4 DEF TypeOK
      <4> QED BY <3>2, <4>1 DEF LoopInv, CombinedHash
    <3>8. \A r \in Packages : Children(r)' = Children(r)
      BY <3>4 DEF Children
    <3>9. ~Finished
      BY <2>1 DEF LoopInv, Visit
    <3>10. \A r \in seen' : RootInput' \cup parents'[r] \subseteq packageHash'[r]
      BY <3>4, <3>6, <3>7 DEF LoopInv, TypeOK
    <3>11. \A r \in Packages : parents'[r] = {} => r \in seen' \cup Queued'
      BY <3>4, <3>5 DEF LoopInv
    <3>12. \A r \in seen' : Children(r)' \subseteq seen' \cup Queued'
      BY <3>2, <3>4, <3>5, <3>8 DEF LoopInv, TypeOK
    <3> QED BY <3>4, <3>6, <3>9, <3>10, <3>11, <3>12 DEF LoopInv, Finished
  <2>2. CASE Finish
    BY <2>2 DEF LoopInv, Finish, Finished, Queued, Children, RootInput
  <2>3. CASE UNCHANGED vars
    BY <2>3 DEF LoopInv, vars, Finished, Queued, Children, RootInput
  <2> QED BY <2>1, <2>2, <2>3 DEF Next
<1> QED BY <1>1, <1>2, TypeCorrect, PTL DEF Spec

\* Where no packages depend on each other the loop reaches all of them.
LEMMA AllSeen ==
  ASSUME TypeOK, LoopInv, Finished, Acyclic
  PROVE  Packages \subseteq seen
<1> DEFINE U == Packages \ seen
<1>1. Queued = {}
  BY DEF LoopInv, Queued
<1> SUFFICES ASSUME U # {} PROVE FALSE
  OBVIOUS
<1>2. PICK p \in U : parents[p] \cap U = {}
  BY DEF Acyclic
<1>3. parents[p] # {}
  BY <1>1 DEF LoopInv
<1>4. PICK q \in parents[p] : q \in seen
  BY <1>2, <1>3, GraphsAssumption DEF TypeOK
<1>5. p \in Children(q)
  BY <1>4 DEF Children
<1> QED BY <1>1, <1>4, <1>5 DEF LoopInv

\* Where no packages depend on each other each package has, in the end, a hash
\* that holds its direct dependencies and the root files.
THEOREM CoversParents == Spec => []ParentsCovered
<1>1. TypeOK /\ LoopInv => ParentsCovered
  BY AllSeen DEF ParentsCovered, LoopInv
<1> QED BY <1>1, TypeCorrect, LoopInvariant, PTL

-----------------------------------------------------------------------------
\* The queue of a breadth-first search: it is sorted by depth, holds two depths
\* at most, and nothing that was seen is deeper than what waits.  What was seen
\* has the hashes of its parents.
LayerInv(depth) ==
  /\ \A i, j \in DOMAIN queue : i < j => depth[queue[i]] <= depth[queue[j]]
  /\ \A i \in DOMAIN queue : depth[queue[i]] <= depth[queue[1]] + 1
  /\ \A p \in seen, i \in DOMAIN queue : depth[p] <= depth[queue[i]]
  /\ \A p \in seen : \A q \in parents[p] : packageHash[q] \subseteq packageHash[p]

Depths == [Packages -> Int]

LayersInv == \A depth \in Depths : IsDepth(depth) => LayerInv(depth)

\* Both ends of the queue are at most one deeper than what left it.
LEMMA AtMostOne ==
  ASSUME NEW a \in Int, NEW b \in Int, NEW c \in Int, a <= b + 1, b <= c
  PROVE  a <= c + 1
OBVIOUS

\* One turn of the loop.
LEMMA VisitLayers ==
  ASSUME TypeOK, Visit, NEW depth \in Depths, IsDepth(depth), LayerInv(depth)
  PROVE  LayerInv(depth)'
<1> DEFINE p == Head(queue)
           l == ListOf[Children(p) \ seen']
           s == Tail(queue)
<1>1. /\ queue \in Seq(Packages) /\ Len(queue) \in Nat \ {0} /\ p = queue[1] /\ p \in Packages
      /\ s \in Seq(Packages) /\ Len(s) = Len(queue) - 1
      /\ \A i \in 1 .. Len(s) : s[i] = queue[i + 1] /\ i + 1 \in 1 .. Len(queue)
  BY DEF TypeOK, Visit
<1>2. l \in Seq(Packages) /\ {l[i] : i \in DOMAIN l} = Children(p) \ seen'
  <2>1. Children(p) \ seen' \in SUBSET Packages
    BY DEF Children
  <2> QED BY <2>1, ListFacts
<1>3. /\ seen' = seen \cup {p} /\ queue' = s \o l /\ parents' = parents
      /\ packageHash' = [packageHash EXCEPT ![p] = CombinedHash(p)]
  BY DEF Visit
<1>4. \A c \in Children(p) : depth[c] = depth[p] + 1
  BY <1>1 DEF IsDepth, Children
<1>5. \A i \in DOMAIN l : depth[l[i]] = depth[p] + 1
  BY <1>2, <1>4
<1>6. \A r \in Packages : depth[r] \in Int
  BY DEF Depths
<1>7. \A i \in 1 .. Len(s) : /\ s[i] \in Packages
                             /\ depth[p] <= depth[s[i]] /\ depth[s[i]] <= depth[p] + 1
  BY <1>1 DEF LayerInv
<1>8. \A i, j \in 1 .. Len(s) : i < j => depth[s[i]] <= depth[s[j]]
  BY <1>1 DEF LayerInv
<1> HIDE DEF l, s
<1>9. /\ s \o l \in Seq(Packages) /\ DOMAIN (s \o l) = 1 .. Len(s) + Len(l)
      /\ \A i \in 1 .. Len(s) + Len(l) : (s \o l)[i] = IF i <= Len(s) THEN s[i] ELSE l[i - Len(s)]
      /\ Len(s) \in Nat /\ Len(l) \in Nat /\ DOMAIN l = 1 .. Len(l)
  BY <1>1, <1>2
<1>10. \A i \in 1 .. Len(s) + Len(l) :
         /\ i > Len(s) => depth[(s \o l)[i]] = depth[p] + 1
         /\ i <= Len(s) => (s \o l)[i] = s[i]
         /\ (s \o l)[i] \in Packages
         /\ depth[p] <= depth[(s \o l)[i]] /\ depth[(s \o l)[i]] <= depth[p] + 1
  <2> SUFFICES ASSUME NEW i \in 1 .. Len(s) + Len(l)
               PROVE  /\ i > Len(s) => depth[(s \o l)[i]] = depth[p] + 1
                      /\ i <= Len(s) => (s \o l)[i] = s[i]
                      /\ (s \o l)[i] \in Packages
                      /\ depth[p] <= depth[(s \o l)[i]] /\ depth[(s \o l)[i]] <= depth[p] + 1
    OBVIOUS
  <2>1. CASE i <= Len(s)
    BY <1>7, <1>9, <2>1
  <2>2. CASE i > Len(s)
    <3>1. i - Len(s) \in 1 .. Len(l) /\ (s \o l)[i] = l[i - Len(s)]
      BY <1>9, <2>2
    <3>2. depth[(s \o l)[i]] = depth[p] + 1 /\ (s \o l)[i] \in Packages
      BY <1>2, <1>5, <1>9, <3>1
    <3> QED BY <1>1, <1>6, <2>2, <3>2
  <2> QED BY <1>9, <2>1, <2>2
<1>11. \A i, j \in DOMAIN queue' : i < j => depth[queue'[i]] <= depth[queue'[j]]
  <2> SUFFICES ASSUME NEW i \in 1 .. Len(s) + Len(l), NEW j \in 1 .. Len(s) + Len(l), i < j
               PROVE  depth[(s \o l)[i]] <= depth[(s \o l)[j]]
    BY <1>3, <1>9
  <2>1. CASE j <= Len(s)
    BY <1>8, <1>9, <1>10, <2>1
  <2>2. CASE j > Len(s)
    BY <1>9, <1>10, <2>2
  <2> QED BY <1>9, <2>1, <2>2
<1>12. \A i \in DOMAIN queue' : depth[queue'[i]] <= depth[queue'[1]] + 1
  <2> SUFFICES ASSUME NEW i \in 1 .. Len(s) + Len(l)
               PROVE  depth[(s \o l)[i]] <= depth[(s \o l)[1]] + 1
    BY <1>3, <1>9
  <2>1. 1 \in 1 .. Len(s) + Len(l)
    BY <1>9
  <2>2. /\ depth[p] \in Int /\ depth[(s \o l)[i]] \in Int /\ depth[(s \o l)[1]] \in Int
        /\ depth[(s \o l)[i]] <= depth[p] + 1 /\ depth[p] <= depth[(s \o l)[1]]
    BY <1>1, <1>6, <1>10, <2>1, Zenon
  <2> QED BY <2>2, AtMostOne, Zenon
<1>13. \A r \in seen', i \in DOMAIN queue' : depth[r] <= depth[queue'[i]]
  <2>1. \A r \in seen' : r \in Packages /\ depth[r] <= depth[p]
    <3>1. 1 \in DOMAIN queue
      BY <1>1
    <3> QED BY <1>1, <1>3, <1>6, <3>1 DEF LayerInv, TypeOK
  <2> SUFFICES ASSUME NEW r \in seen', NEW i \in 1 .. Len(s) + Len(l)
               PROVE  depth[r] <= depth[(s \o l)[i]]
    BY <1>3, <1>9
  <2>2. /\ depth[p] \in Int /\ depth[(s \o l)[i]] \in Int /\ depth[r] \in Int
        /\ depth[r] <= depth[p] /\ depth[p] <= depth[(s \o l)[i]]
    BY <1>1, <1>6, <1>10, <2>1, Zenon
  <2> HIDE DEF p
  <2> QED BY <2>2
<1>14. ASSUME NEW r \in seen', NEW q \in parents[r] PROVE packageHash'[q] \subseteq packageHash'[r]
  <2>1. r \in Packages /\ q \in Packages /\ depth[r] = depth[q] + 1
    BY <1>1, <1>3, <1>14, GraphsAssumption DEF TypeOK, IsDepth
  <2>2. depth[r] <= depth[p]
    <3>1. 1 \in DOMAIN queue
      BY <1>1
    <3> QED BY <1>1, <1>3, <1>6, <3>1 DEF LayerInv, TypeOK
  <2>3. q # p
    BY <1>6, <2>1, <2>2
  <2>4. packageHash'[q] = packageHash[q]
    BY <1>3, <2>1, <2>3 DEF TypeOK
  <2>5. CASE r = p
    BY <1>3, <2>1, <2>4, <2>5 DEF TypeOK, CombinedHash
  <2>6. CASE r # p
    BY <1>3, <2>1, <2>4, <2>6 DEF TypeOK, LayerInv
  <2> QED BY <2>5, <2>6
<1> QED BY <1>3, <1>11, <1>12, <1>13, <1>14 DEF LayerInv

\* Where all ways to a package are equally long, a package is hashed when the
\* hashes of its parents are final: a change below it changes its own.
THEOREM LayersFollow == Spec => []LayeredHashFollowsParents
<1>1. Init => LayersInv
  <2> SUFFICES ASSUME Init, NEW depth \in Depths, IsDepth(depth) PROVE LayerInv(depth)
    BY DEF LayersInv
  <2> DEFINE heads == {p \in Packages : parents[p] = {}}
  <2>1. heads \in SUBSET Packages
    OBVIOUS
  <2>2. queue \in Seq(Packages) /\ {queue[i] : i \in DOMAIN queue} = heads
    <3>1. queue = ListOf[heads]
      BY DEF Init
    <3>2. ListOf[heads] \in Seq(Packages) /\ {ListOf[heads][i] : i \in DOMAIN ListOf[heads]} = heads
      <4> HIDE DEF heads
      <4> QED BY <2>1, ListFacts, Zenon
    <3> QED BY <3>1, <3>2
  <2>3. \A i \in DOMAIN queue : depth[queue[i]] = 0
    BY <2>2 DEF IsDepth
  <2>4. \A i \in DOMAIN queue : 1 \in DOMAIN queue
    <3>1. Len(queue) \in Nat /\ DOMAIN queue = 1 .. Len(queue)
      BY <2>2
    <3> QED BY <3>1
  <2>5. \A i \in DOMAIN queue : depth[queue[1]] = 0
    BY <2>3, <2>4
  <2>6. seen = {}
    BY DEF Init
  <2> QED BY <2>3, <2>5, <2>6 DEF LayerInv
<1>2. TypeOK /\ LayersInv /\ [Next]_vars => LayersInv'
  <2> SUFFICES ASSUME TypeOK, LayersInv, [Next]_vars, NEW depth \in Depths, IsDepth(depth)'
               PROVE  LayerInv(depth)'
    BY DEF LayersInv
  <2>1. parents' = parents
    BY DEF Next, Visit, Finish, vars
  <2>2. IsDepth(depth) /\ LayerInv(depth)
    BY <2>1 DEF IsDepth, LayersInv
  <2>3. CASE Visit
    BY <2>2, <2>3, VisitLayers
  <2>4. CASE Finish \/ UNCHANGED vars
    BY <2>2, <2>4 DEF Finish, vars, LayerInv
  <2> QED BY <2>3, <2>4 DEF Next
<1>3. TypeOK /\ LoopInv /\ LayersInv => LayeredHashFollowsParents
  <2> SUFFICES ASSUME TypeOK, LoopInv, LayersInv, Finished, Acyclic, Layered PROVE FollowsParents
    BY DEF LayeredHashFollowsParents
  <2>1. PICK depth \in [Packages -> 0 .. Cardinality(Packages)] : IsDepth(depth)
    BY DEF Layered
  <2>2. depth \in Depths
    BY DEF Depths
  <2>3. LayerInv(depth)
    BY <2>1, <2>2 DEF LayersInv
  <2> QED BY <2>3, AllSeen DEF LayerInv, FollowsParents
<1> QED BY <1>1, <1>2, <1>3, TypeCorrect, LoopInvariant, PTL DEF Spec
=============================================================================
