----------------------- MODULE LocalSequentalTaskQueue -----------------------
(***************************************************************************)
(* The queue that runs functions of the steps in the process of the flow,  *)
(* one at a time, in the order in which they were added.                   *)
(*                                                                         *)
(* addTasksToQueue only records the tasks: they are announced in a later   *)
(* turn, so that the caller can subscribe first.  cleanup may be called at *)
(* any time, by the flow that ends or fails.  One step is one turn of the  *)
(* event loop with the promise jobs it enqueues.                           *)
(***************************************************************************)
EXTENDS TaskEvents, Sequences, FiniteSets

CONSTANT Calls  \* the arguments of the calls of addTasksToQueue, in their order

ASSUME CallsAssumption ==
  /\ Calls \in Seq(Seq(Tasks))
  /\ \A i, j \in DOMAIN Calls : \A k \in DOMAIN Calls[i], l \in DOMAIN Calls[j] :
       Calls[i][k] = Calls[j][l] => i = j /\ k = l

VARIABLES
  calls,          \* how many of the calls were made
  pending,        \* internalTaskQueue: the tasks recorded and not yet announced
  internalIdle,   \* internalTaskQueue.idle(): a call without tasks is work too
  taskQueue,      \* the tasks announced that wait for their turn
  workersList,    \* the tasks whose function runs
  isQueueKilled,
  cleanup         \* where the first call of cleanup is

queues == <<pending, internalIdle, taskQueue, workersList>>
vars == <<lastEvent, calls, queues, isQueueKilled, cleanup>>

TasksIn(queue) == {queue[i] : i \in DOMAIN queue}

\* The tasks of the calls that were made.
Accepted == UNION {TasksIn(Calls[i]) : i \in 1 .. calls}

TypeOK ==
  /\ lastEvent \in [Tasks -> Event \cup {Silent}]
  /\ calls \in 0 .. Len(Calls)
  /\ pending \in Seq(Tasks)
  /\ internalIdle \in BOOLEAN
  /\ taskQueue \in Seq(Tasks)
  /\ workersList \subseteq Tasks
  /\ isQueueKilled \in BOOLEAN
  /\ cleanup \in {"notCalled", "draining", "returned"}

Init ==
  /\ EventsInit
  /\ calls = 0
  /\ pending = <<>> /\ internalIdle = TRUE
  /\ taskQueue = <<>>
  /\ workersList = {}
  /\ isQueueKilled = FALSE
  /\ cleanup = "notCalled"

-----------------------------------------------------------------------------
\* The next call of addTasksToQueue; it throws when the queue was killed.
AddTasksToQueue ==
  /\ calls < Len(Calls)
  /\ ~isQueueKilled
  /\ calls' = calls + 1
  /\ pending' = pending \o Calls[calls + 1]
  /\ internalIdle' = FALSE
  /\ UNCHANGED <<lastEvent, taskQueue, workersList, isQueueKilled, cleanup>>

\* The end of cleanup: what waits and what runs is aborted, and the
\* subscribers are removed.
AbortAll(waiting) ==
  LET aborted == TasksIn(waiting) \cup workersList
  IN /\ lastEvent' = [t \in Tasks |-> IF t \in aborted THEN Aborted("skippedAsFailed")
                                                       ELSE lastEvent[t]]
     /\ taskQueue' = <<>>
     /\ cleanup' = "returned"

\* The internal queue announces the pending tasks and hands them over; a
\* cleanup that waits for it goes on in the same turn.
Announce ==
  /\ ~internalIdle
  /\ internalIdle' = TRUE
  /\ pending' = <<>>
  /\ IF cleanup = "draining" THEN AbortAll(taskQueue \o pending)
     ELSE /\ lastEvent' = [t \in Tasks |-> IF t \in TasksIn(pending) THEN Scheduled
                                                                     ELSE lastEvent[t]]
          /\ taskQueue' = taskQueue \o pending
          /\ UNCHANGED cleanup
  /\ UNCHANGED <<calls, workersList, isQueueKilled>>

\* Mutant: tasks start while another one runs.
StartAtOnce ==
  /\ taskQueue # <<>>
  /\ ~isQueueKilled
  /\ lastEvent' = [lastEvent EXCEPT ![Head(taskQueue)] = Running]
  /\ taskQueue' = Tail(taskQueue)
  /\ workersList' = workersList \cup {Head(taskQueue)}
  /\ UNCHANGED <<calls, pending, internalIdle, isQueueKilled, cleanup>>

\* startTask, when nothing runs; a killed queue is paused.
StartTask ==
  /\ taskQueue # <<>>
  /\ workersList = {}
  /\ ~isQueueKilled
  /\ lastEvent' = [lastEvent EXCEPT ![Head(taskQueue)] = Running]
  /\ taskQueue' = Tail(taskQueue)
  /\ workersList' = {Head(taskQueue)}
  /\ UNCHANGED <<calls, pending, internalIdle, isQueueKilled, cleanup>>

\* Mutant: the end of a task is told although the queue was killed.
TellsAfterKill(t, st) ==
  /\ t \in workersList
  /\ lastEvent' = [lastEvent EXCEPT ![t] = Done(st)]
  /\ workersList' = workersList \ {t}
  /\ UNCHANGED <<calls, pending, internalIdle, taskQueue, isQueueKilled, cleanup>>

\* The function of a task settled.  A killed queue emits nothing; otherwise
\* the next task starts in the same turn.
TaskEnds(t, st) ==
  /\ t \in workersList
  /\ IF isQueueKilled \/ taskQueue = <<>>
     THEN /\ lastEvent' = IF isQueueKilled THEN lastEvent
                          ELSE [lastEvent EXCEPT ![t] = Done(st)]
          /\ workersList' = workersList \ {t}
          /\ UNCHANGED taskQueue
     ELSE /\ lastEvent' = [lastEvent EXCEPT ![t] = Done(st), ![Head(taskQueue)] = Running]
          /\ workersList' = {Head(taskQueue)}
          /\ taskQueue' = Tail(taskQueue)
  /\ UNCHANGED <<calls, pending, internalIdle, isQueueKilled, cleanup>>

\* Mutant: cleanup does not wait for the internal queue.
CleanupAtOnce ==
  /\ ~isQueueKilled
  /\ isQueueKilled' = TRUE
  /\ AbortAll(taskQueue)
  /\ UNCHANGED <<calls, pending, internalIdle, workersList>>

\* Mutant: cleanup waits for the internal queue to drain although it is idle.
CleanupAwaitsDrain ==
  /\ ~isQueueKilled
  /\ isQueueKilled' = TRUE
  /\ cleanup' = "draining"
  /\ UNCHANGED <<lastEvent, taskQueue, calls, pending, internalIdle, workersList>>

\* cleanup: a second call returns at once, the first waits for the internal queue.
Cleanup ==
  /\ ~isQueueKilled
  /\ isQueueKilled' = TRUE
  /\ IF internalIdle THEN AbortAll(taskQueue)
     ELSE cleanup' = "draining" /\ UNCHANGED <<lastEvent, taskQueue>>
  /\ UNCHANGED <<calls, pending, internalIdle, workersList>>

Next ==
  \/ AddTasksToQueue
  \/ Announce
  \/ StartTask
  \/ \E t \in Tasks, st \in {"passed", "failed"} : TaskEnds(t, st)
  \/ Cleanup

Spec == Init /\ [][Next]_vars

-----------------------------------------------------------------------------
\* Tasks run one at a time, in the order in which they were added: when one
\* runs, all that were added before it have ended.
Sequential ==
  \A i, j \in DOMAIN Calls : \A k \in DOMAIN Calls[i], l \in DOMAIN Calls[j] :
    /\ i < j \/ (i = j /\ k < l)
    /\ lastEvent[Calls[j][l]].executionStatus \in {"running", "done"}
    => lastEvent[Calls[i][k]].executionStatus = "done"

\* When cleanup has returned, every task that was accepted and never began
\* was told to be aborted, those too that were not announced before.
WaitingTasksAborted ==
  cleanup = "returned" => \A i \in 1 .. calls : \A k \in DOMAIN Calls[i] :
    lastEvent[Calls[i][k]] \notin {Silent, Scheduled}

NoDuplicates(queue) == \A i, j \in DOMAIN queue : queue[i] = queue[j] => i = j

\* Where a task is tells what was emitted of it.
EventsFollowQueues ==
  /\ NoDuplicates(pending) /\ NoDuplicates(taskQueue)
  /\ \A t \in TasksIn(pending) : lastEvent[t] = Silent
  /\ \A t \in TasksIn(taskQueue) : lastEvent[t] = Scheduled
  /\ cleanup # "returned" => \A t \in workersList : lastEvent[t] = Running

\* What was emitted of a task tells where it is.
QueuesFollowEvents ==
  \A i \in DOMAIN Calls : \A k \in DOMAIN Calls[i] :
    /\ i > calls => lastEvent[Calls[i][k]] = Silent /\ Calls[i][k] \notin TasksIn(pending)
    /\ i <= calls /\ lastEvent[Calls[i][k]] = Silent => Calls[i][k] \in TasksIn(pending)
    /\ lastEvent[Calls[i][k]] = Scheduled => Calls[i][k] \in TasksIn(taskQueue)

\* What is left when the queue is idle, killed or cleaned up.
CleanupFollowsQueues ==
  /\ internalIdle => pending = <<>>
  /\ isQueueKilled <=> cleanup # "notCalled"
  /\ cleanup = "returned" => internalIdle /\ taskQueue = <<>>

\* Every accepted task is in one place, once: the inductive invariant of the queue.
QueuesInv == EventsFollowQueues /\ QueuesFollowEvents /\ CleanupFollowsQueues

\* t was added before u.
Before(t, u) ==
  \E i, j \in DOMAIN Calls : \E k \in DOMAIN Calls[i], l \in DOMAIN Calls[j] :
    Calls[i][k] = t /\ Calls[j][l] = u /\ (i < j \/ (i = j /\ k < l))

InOrder(queue) == \A p, q \in DOMAIN queue : p < q => Before(queue[p], queue[q])

\* All that did not begin, in the order in which it will.
Waiting == taskQueue \o pending

\* What makes the order of the tasks inductive: what waits was accepted and
\* waits in its order, one task runs, and only cleanup aborts.
OrderInv ==
  /\ TasksIn(pending) \cup TasksIn(taskQueue) \cup workersList \subseteq Accepted
  /\ InOrder(Waiting)
  /\ \A t, u \in workersList : t = u
  /\ \A t \in Tasks : lastEvent[t] = Running => isQueueKilled \/ t \in workersList
  /\ \A t \in Tasks : lastEvent[t].executionStatus = "aborted" => isQueueKilled
=============================================================================
