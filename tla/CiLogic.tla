------------------------------- MODULE CiLogic -------------------------------
(***************************************************************************)
(* A whole run of the program: it looks at the repository, connects to     *)
(* redis, creates the task queues, runs the steps, and closes everything   *)
(* in finishFlow, whatever went wrong before.                              *)
(*                                                                         *)
(* The local queue is the one of LocalSequentalTaskQueue, step by step.    *)
(* Of the other queues there is only that each is created and closed by    *)
(* requests, and of the steps that they add tasks and wait for them: what  *)
(* they do in between is the subject of StepsExecution.                    *)
(***************************************************************************)
EXTENDS LocalSequentalTaskQueue

CONSTANT OtherQueues

VARIABLES
  pc,               \* the await that ci or finishFlow is at
  steps,            \* whether the callbacks of the steps are at work
  fatalError,
  processExitCode,  \* the variable of ci
  exitCode,         \* of the process
  connection,       \* to redis
  others,           \* the other queues
  registered        \* cleanups holds those of the queues

ciVars == <<pc, steps, fatalError, processExitCode, exitCode, connection, others, registered>>
allVars == <<vars, ciVars>>

CiTypeOK ==
  /\ TypeOK
  /\ pc \in {"starting", "creating", "reading", "running", "saving", "cleaning",
             "returned", "rejected"}
  /\ steps \in {"notStarted", "running", "ended"}
  /\ fatalError \in BOOLEAN /\ registered \in BOOLEAN
  /\ processExitCode \in {0, 1} /\ exitCode \in {0, 1}
  /\ connection \in {"none", "open", "closed"}
  /\ others \in [OtherQueues -> {"none", "creating", "open", "failed", "closing", "closed"}]

CiInit ==
  /\ Init
  /\ pc = "starting"
  /\ steps = "notStarted"
  /\ fatalError = FALSE
  /\ processExitCode = 0 /\ exitCode = 0
  /\ connection = "none"
  /\ others = [q \in OtherQueues |-> "none"]
  /\ registered = FALSE

-----------------------------------------------------------------------------
(* ci                                                                       *)

\* Git, the packages, their hashes or the connection fail: there is nothing to
\* close yet, and finishFlow returns in the same turn.
StartUpFails ==
  /\ pc = "starting"
  /\ pc' = "returned"
  /\ fatalError' = TRUE
  /\ processExitCode' = 1 /\ exitCode' = 1
  /\ UNCHANGED <<vars, steps, connection, others, registered>>

\* Files are not committed: the flow fails, and it is no fatal error.
FoundUncommitted ==
  /\ pc = "starting"
  /\ pc' = "returned"
  /\ processExitCode' = 1 /\ exitCode' = 1
  /\ UNCHANGED <<vars, steps, fatalError, connection, others, registered>>

\* The connection and the cache are there, and all queues are being created;
\* the local queue is at once.
Connect ==
  /\ pc = "starting"
  /\ pc' = "creating"
  /\ connection' = "open"
  /\ others' = [q \in OtherQueues |-> "creating"]
  /\ UNCHANGED <<vars, steps, fatalError, processExitCode, exitCode, registered>>

\* Mutant: the failure is remembered, the exit code is not.
FatalWithoutExitCode ==
  /\ fatalError' = TRUE
  /\ pc' = "saving"
  /\ UNCHANGED processExitCode

\* The catch of ci: the flow ends with a fatal error.
Fatal ==
  /\ fatalError' = TRUE
  /\ processExitCode' = 1
  /\ pc' = "saving"

\* A queue is created, maybe when nobody waits for it any more.
QueueCreated(q) ==
  /\ others[q] = "creating"
  /\ others' = [others EXCEPT ![q] = "open"]
  /\ UNCHANGED <<vars, pc, steps, fatalError, processExitCode, exitCode, connection, registered>>

\* Promise.all rejects with the first failure; a second one is ignored.
QueueFails(q) ==
  /\ others[q] = "creating"
  /\ others' = [others EXCEPT ![q] = "failed"]
  /\ IF pc = "creating" THEN Fatal ELSE UNCHANGED <<pc, fatalError, processExitCode>>
  /\ UNCHANGED <<vars, steps, exitCode, connection, registered>>

\* All queues were created: only now their clean-ups are registered.
QueuesCreated ==
  /\ pc = "creating"
  /\ \A q \in OtherQueues : others[q] = "open"
  /\ pc' = "reading"
  /\ registered' = TRUE
  /\ UNCHANGED <<vars, steps, fatalError, processExitCode, exitCode, connection, others>>

\* The package.json of the root was read, and the steps start, or it is not there.
PackageJsonRead ==
  /\ pc = "reading"
  /\ \/ pc' = "running" /\ steps' = "running" /\ UNCHANGED <<fatalError, processExitCode>>
     \/ Fatal /\ UNCHANGED steps
  /\ UNCHANGED <<vars, exitCode, connection, others, registered>>

-----------------------------------------------------------------------------
(* runAllSteps                                                              *)

\* A callback adds tasks, as long as there are callbacks: those of a flow that
\* was rejected go on.
StepsAddTasks == steps = "running" /\ AddTasksToQueue /\ UNCHANGED ciVars

\* A turn of the local queue.
QueueGoesOn ==
  /\ \/ Announce
     \/ StartTask
     \/ \E t \in Tasks, st \in {"passed", "failed"} : TaskEnds(t, st)
  /\ UNCHANGED ciVars

\* Mutant: ci does not wait for the steps.
RunNotAwaited ==
  /\ pc = "running"
  /\ pc' = "saving"
  /\ steps' = "ended"
  /\ processExitCode' \in {0, 1}
  /\ UNCHANGED <<vars, fatalError, exitCode, connection, others, registered>>

\* Every step is final: each has waited for its tasks, and has not passed when
\* one of them failed.
RunReturns ==
  /\ pc = "running"
  /\ \A t \in Accepted : IsFinal(lastEvent[t])
  /\ pc' = "saving"
  /\ steps' = "ended"
  /\ processExitCode' \in {code \in {0, 1} : code = 0 => \A t \in Accepted : lastEvent[t] = Done("passed")}
  /\ UNCHANGED <<vars, fatalError, exitCode, connection, others, registered>>

\* Redis or the set-up of a step failed.
RunRejects ==
  /\ pc = "running"
  /\ Fatal
  /\ UNCHANGED <<vars, steps, exitCode, connection, others, registered>>

-----------------------------------------------------------------------------
(* finishFlow                                                               *)

\* The connection is closed and the exit code is set.
Return ==
  /\ connection' = "closed"
  /\ exitCode' = processExitCode
  /\ pc' = "returned"

\* Mutant: the connection is closed with everything else.
LogsSavedAndDisconnected ==
  /\ pc = "saving"
  /\ connection' = "closed"
  /\ pc' = "cleaning"
  /\ IF registered THEN Cleanup /\ others' = [q \in OtherQueues |-> "closing"]
                   ELSE UNCHANGED <<vars, others>>
  /\ UNCHANGED <<steps, fatalError, processExitCode, exitCode, registered>>

\* The logs of the flow are in redis; all clean-ups that are registered are
\* called, of which that of the cache does nothing.
LogsSaved ==
  /\ pc = "saving"
  /\ IF registered
     THEN /\ Cleanup
          /\ others' = [q \in OtherQueues |-> "closing"]
          /\ pc' = "cleaning"
          /\ UNCHANGED <<connection, exitCode>>
     ELSE Return /\ UNCHANGED <<vars, others>>
  /\ UNCHANGED <<steps, fatalError, processExitCode, registered>>

\* The logs cannot be saved: ci rejects, without a clean-up and an exit code.
LogsNotSaved ==
  /\ pc = "saving"
  /\ pc' = "rejected"
  /\ UNCHANGED <<vars, steps, fatalError, processExitCode, exitCode, connection, others, registered>>

\* The clean-up of another queue settled; that it failed is ignored.
QueueCloses(q) ==
  /\ others[q] = "closing"
  /\ others' = [others EXCEPT ![q] = "closed"]
  /\ UNCHANGED <<vars, pc, steps, fatalError, processExitCode, exitCode, connection, registered>>

AllClosed ==
  /\ pc = "cleaning"
  /\ cleanup = "returned"
  /\ \A q \in OtherQueues : others[q] = "closed"
  /\ Return
  /\ UNCHANGED <<vars, steps, fatalError, processExitCode, others, registered>>

-----------------------------------------------------------------------------
Starting  == StartUpFails \/ FoundUncommitted \/ Connect
Finishing == LogsSaved \/ LogsNotSaved \/ AllClosed

CiNext ==
  \/ Starting
  \/ \E q \in OtherQueues : QueueCreated(q) \/ QueueFails(q) \/ QueueCloses(q)
  \/ QueuesCreated \/ PackageJsonRead
  \/ StepsAddTasks \/ QueueGoesOn
  \/ RunReturns \/ RunRejects
  \/ Finishing

CiSpec == CiInit /\ [][CiNext]_allVars

\* Requests settle, the event loop goes on and the functions of the steps
\* settle; the steps need not add tasks, and redis need not fail.
CiFairness ==
  /\ WF_allVars(Starting) /\ WF_allVars(Finishing)
  /\ \A q \in OtherQueues : WF_allVars(QueueCreated(q) \/ QueueFails(q)) /\ WF_allVars(QueueCloses(q))
  /\ WF_allVars(QueuesCreated) /\ WF_allVars(PackageJsonRead)
  /\ WF_allVars(QueueGoesOn) /\ WF_allVars(RunReturns)

CiFairSpec == CiSpec /\ CiFairness

-----------------------------------------------------------------------------
\* The connection is closed after everything that uses it: when it is, all
\* clean-ups have settled; and when ci has returned nothing that was created
\* is left open, unless the creation of another queue failed.
ClosedInOrder ==
  /\ connection = "closed" =>
       pc = "returned" /\ cleanup # "draining" /\ \A q \in OtherQueues : others[q] # "closing"
  /\ pc = "returned" =>
       /\ connection # "open"
       /\ steps # "notStarted" => cleanup = "returned"
       /\ (\E q \in OtherQueues : others[q] = "failed") \/ \A q \in OtherQueues : others[q] # "open"

\* A task is aborted only in a flow that failed unexpectedly: a flow that goes
\* to its end closes the queues when the steps have had their answers.
OnlyFatalFlowsAbort ==
  (\E t \in Tasks : lastEvent[t].executionStatus = "aborted") => fatalError

\* The process exits with 0 after a flow that had no fatal error and in which
\* every task that was accepted has passed.
ZeroMeansPassed ==
  pc = "returned" /\ exitCode = 0 => ~fatalError /\ \A t \in Accepted : lastEvent[t] = Done("passed")

\* Nothing waits or runs in the local queue.
Calm == TasksIn(pending) = {} /\ TasksIn(taskQueue) = {} /\ workersList = {}

\* How far ci has come tells what there is to close, and what was closed.
PhaseInv ==
  /\ pc = "starting" => steps = "notStarted" /\ ~registered /\ connection = "none"
                        /\ \A q \in OtherQueues : others[q] = "none"
  /\ pc = "creating" => steps = "notStarted" /\ ~registered /\ connection = "open"
                        /\ \A q \in OtherQueues : others[q] \in {"creating", "open"}
  /\ pc \in {"reading", "running"} => registered /\ connection = "open"
                                      /\ \A q \in OtherQueues : others[q] = "open"
  /\ pc = "reading" => steps = "notStarted"
  /\ pc = "running" => steps = "running"
  /\ pc \in {"saving", "rejected"} =>
       /\ connection = "open"
       /\ registered => \A q \in OtherQueues : others[q] = "open"
       /\ ~registered => \E q \in OtherQueues : others[q] = "failed"
  /\ pc = "cleaning" => registered /\ connection = "open"
                        /\ \A q \in OtherQueues : others[q] \in {"closing", "closed"}
  /\ pc = "returned" /\ registered => connection = "closed" /\ cleanup = "returned"
                                      /\ \A q \in OtherQueues : others[q] = "closed"
  /\ pc = "returned" /\ ~registered => connection \in {"none", "closed"}
       /\ \/ \E q \in OtherQueues : others[q] = "failed"
          \/ \A q \in OtherQueues : others[q] = "none"
  /\ ~registered => steps = "notStarted" /\ \A q \in OtherQueues : others[q] # "closing"
  /\ isQueueKilled <=> registered /\ pc \in {"cleaning", "returned"}

\* What fatalError and the exit code tell of how the steps ended.
ResultInv ==
  /\ steps = "ended" => Calm /\ \A t \in Accepted : IsFinal(lastEvent[t])
  /\ ~fatalError /\ registered => steps = "ended" \/ pc \in {"reading", "running"}
  /\ fatalError => processExitCode = 1 /\ pc \notin {"starting", "creating", "reading", "running"}
  /\ processExitCode = 0 /\ pc \notin {"starting", "creating", "reading", "running"} =>
       steps = "ended" /\ \A t \in Accepted : lastEvent[t] = Done("passed")
  /\ pc = "returned" => exitCode = processExitCode

\* The inductive invariant of ci: with OnlyFatalFlowsAbort it implies the other two.
CiInv == PhaseInv /\ ResultInv /\ OnlyFatalFlowsAbort

\* ci returns or is rejected, whatever fails and whatever the tasks come to.
CiSettles == <>(pc \in {"returned", "rejected"})
=============================================================================
