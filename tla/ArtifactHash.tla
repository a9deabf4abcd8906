---------------------------- MODULE ArtifactHash ----------------------------
(***************************************************************************)
(* calculateArtifactsHash: the hash under which the results of a package   *)
(* are cached.  It has to change when a file of the package changes, one   *)
(* of a package it depends on, or one of the root files of the repository. *)
(* Every file outside the directory "packages" is taken for a root file,   *)
(* those of packages that lie elsewhere too.                               *)
(*                                                                         *)
(* A hash is modelled by what it was computed from: a set of packages,     *)
(* for their own files, and RootFiles, for those of no package.  Hashes of *)
(* different inputs differ, so a change of x changes exactly the hashes    *)
(* that hold x.                                                            *)
(***************************************************************************)
EXTENDS Integers, Sequences, FiniteSets

CONSTANTS
  Packages, RootFiles,
  Graphs,     \* for each repository, the packages of it each package depends on
  Elsewheres, \* for each repository, the packages outside its directory "packages"
  ListOf      \* the packages of a set by their index, as filter and map leave them

ASSUME GraphsAssumption ==
  Graphs \subseteq [Packages -> SUBSET Packages] /\ Elsewheres \subseteq SUBSET Packages
ASSUME RootAssumption == RootFiles \notin Packages
ASSUME ListAssumption ==
  /\ ListOf \in [SUBSET Packages -> Seq(Packages)]
  /\ \A S \in SUBSET Packages : {ListOf[S][i] : i \in DOMAIN ListOf[S]} = S

VARIABLES
  parents,      \* parentsIndexes of each package
  elsewhere,    \* the packages outside of "packages"
  packageHash,
  queue,
  seen,
  repoHash      \* empty until it is known

vars == <<parents, elsewhere, packageHash, queue, seen, repoHash>>

Input == Packages \cup {RootFiles}
Children(p) == {c \in Packages : p \in parents[c]}
Queued == {queue[i] : i \in DOMAIN queue}

\* isRootFile: what rootFilesHash is computed from.
RootInput == {RootFiles} \cup elsewhere

TypeOK ==
  /\ parents \in Graphs /\ elsewhere \in Elsewheres
  /\ packageHash \in [Packages -> SUBSET Input]
  /\ queue \in Seq(Packages)
  /\ seen \subseteq Packages
  /\ repoHash \subseteq Input

\* Each package has the hash of its own files; those that depend on no other
\* are first in the queue.
Init ==
  /\ parents \in Graphs /\ elsewhere \in Elsewheres
  /\ packageHash = [p \in Packages |-> {p}]
  /\ queue = ListOf[{p \in Packages : parents[p] = {}}]
  /\ seen = {}
  /\ repoHash = {}

\* Mutant: the hash of a parent is the one of its own files.
CombinedFiles(p) == RootInput \cup packageHash[p] \cup parents[p]

\* Mutant: the children instead of the parents.
CombinedWithChildren(p) ==
  RootInput \cup packageHash[p] \cup UNION {packageHash[q] : q \in Children(p)}

\* combineHashes of the root files, the package, and its parents as they are now.
CombinedHash(p) ==
  RootInput \cup packageHash[p] \cup UNION {packageHash[q] : q \in parents[p]}

\* Mutant: the parents are queued instead of the children.
VisitUpwards ==
  /\ queue # <<>>
  /\ LET p == Head(queue)
     IN /\ seen' = seen \cup {p}
        /\ packageHash' = [packageHash EXCEPT ![p] = CombinedHash(p)]
        /\ queue' = Tail(queue) \o ListOf[parents[p] \ seen']
  /\ UNCHANGED <<parents, elsewhere, repoHash>>

\* One turn of the loop: the first of the queue is combined, and those of its
\* children that were not seen yet are queued, though they may be already.
Visit ==
  /\ queue # <<>>
  /\ LET p == Head(queue)
     IN /\ seen' = seen \cup {p}
        /\ packageHash' = [packageHash EXCEPT ![p] = CombinedHash(p)]
        /\ queue' = Tail(queue) \o ListOf[Children(p) \ seen']
  /\ UNCHANGED <<parents, elsewhere, repoHash>>

\* The hash of the repository, of all packages.
Finish ==
  /\ queue = <<>>
  /\ repoHash = {}
  /\ repoHash' = RootInput \cup UNION {packageHash[p] : p \in Packages}
  /\ UNCHANGED <<parents, elsewhere, packageHash, queue, seen>>

Next == Visit \/ Finish

Spec == Init /\ [][Next]_vars

-----------------------------------------------------------------------------
Finished == repoHash # {}

\* What p depends on, directly or not: the least set that holds its parents
\* and theirs.
Dependencies(p) ==
  {q \in Packages : \A C \in SUBSET Packages :
     parents[p] \subseteq C /\ (\A c \in C : parents[c] \subseteq C) => q \in C}

\* Every set of packages has one that depends on no other of the set.
Acyclic ==
  \A S \in SUBSET Packages : S # {} => \E p \in S : parents[p] \cap S = {}

\* Nothing is rebuilt, tested or published again because of a change in a
\* package that it does not depend on, at any moment of the computation, unless the
\* changed package lies outside of "packages".
OnlyDependencies ==
  \A p \in Packages : packageHash[p] \subseteq RootInput \cup {p} \cup Dependencies(p)

\* The loop reaches every package if no packages depend on each other; a
\* package it reaches is hashed with the root files and its direct dependencies.
ParentsCovered ==
  Finished /\ Acyclic =>
    \A p \in Packages : RootInput \cup {p} \cup parents[p] \subseteq packageHash[p]

\* The hash of a package holds whatever the hashes of its parents hold.
FollowsParents == \A p \in Packages : \A q \in parents[p] : packageHash[q] \subseteq packageHash[p]

\* When a hash of a package changes, those of the packages that depend on it do.
HashFollowsParents == Finished /\ Acyclic => FollowsParents

\* depth is the length of every way to a package from those without dependencies.
IsDepth(depth) ==
  \A p \in Packages :
    /\ parents[p] = {} => depth[p] = 0
    /\ \A q \in parents[p] : depth[p] = depth[q] + 1

Layered == \E depth \in [Packages -> 0 .. Cardinality(Packages)] : IsDepth(depth)

\* The same where all ways to a package are equally long: the breadth-first
\* order of the loop suffices.
LayeredHashFollowsParents == Finished /\ Acyclic /\ Layered => FollowsParents

=============================================================================
