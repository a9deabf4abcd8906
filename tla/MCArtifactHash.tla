--------------------------- MODULE MCArtifactHash ---------------------------
(* All repositories of four packages, at most one of them outside of "packages". *)
EXTENDS ArtifactHash, SequencesExt

FourPackages == 1 .. 4
Root == 0
ByIndex == [S \in SUBSET FourPackages |-> SetToSortSeq(S, LAMBDA p, q : p < q)]
OneElsewhere == {{}} \cup {{p} : p \in FourPackages}
AllGraphs == {graph \in [FourPackages -> SUBSET FourPackages] : \A p \in FourPackages : p \notin graph[p]}
=============================================================================
