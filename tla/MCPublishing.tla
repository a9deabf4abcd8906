---------------------------- MODULE MCPublishing ----------------------------
(* Three flows, f2 after f1 and f3 at any time, on three commits.           *)
EXTENDS Publishing

CONSTANTS f1, f2, f3, a, b, c1, c2, c3

ThreeFlows   == {f1, f2, f3}
TwoFlows     == {f1, f2}
TwoContents  == {a, b}
ThreeCommits == {c1, c2, c3}
OneCommit    == {c1}
Both         == {"npm", "docker"}
Docker       == {"docker"}
SecondAfterFirst == {<<f1, f2>>}
InParallel       == {}
EveryFault == {"request", "kill", "remove"}
NoFault    == {}

\* The second commit changes files of other packages, the third this one, in
\* which the version of package.json may go up or down.
CommitContent == [c \in ThreeCommits |-> IF c = c3 THEN b ELSE a]

JobsOf(flows, commits, versions) ==
  {[f \in flows |-> [content |-> CommitContent[commit[f]], commit |-> commit[f],
                     version |-> versions[CommitContent[commit[f]]]]] :
     commit \in [flows -> commits]}

Same == [c \in TwoContents |-> 1]
Up   == [c \in TwoContents |-> IF c = a THEN 1 ELSE 2]
Down == [c \in TwoContents |-> IF c = a THEN 2 ELSE 1]

\* The first flow is on the first commit.  The commit of the others changes the package,
\* for at least one of them, or it only renames the image, for at most one.
Renamed == JobsOf(ThreeFlows, {c1, c2}, Same)
Changed == UNION {JobsOf(ThreeFlows, {c1, c3}, versions) : versions \in {Same, Up, Down}}

ThreeFlowsJobs ==
  {j \in Renamed : j[f1].commit = c1 /\ c1 \in {j[f2].commit, j[f3].commit}}
    \cup {j \in Changed : j[f1].commit = c1 /\ c3 \in {j[f2].commit, j[f3].commit}}

TwoFlowsJobs == JobsOf(TwoFlows, OneCommit, Same)
=============================================================================
