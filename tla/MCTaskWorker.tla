---------------------------- MODULE MCTaskWorker ----------------------------
(* Three tasks, of which two share a before-all command; the worker of
   the flow and one more. *)
EXTENDS TaskWorker, TLC

CONSTANTS t1, t2, t3, local, remote, g1, noGroup

ThreeTasks    == {t1, t2, t3}
TwoWorkers    == {local, remote}
OneGroup      == {g1}
SharedGroup   == (t1 :> g1) @@ (t2 :> g1) @@ (t3 :> noGroup)
AnyResult     == {"passed", "failed"}
RemoteMayGo   == {remote}
=============================================================================
