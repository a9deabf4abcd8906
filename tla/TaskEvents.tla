----------------------------- MODULE TaskEvents -----------------------------
(***************************************************************************)
(* What a task queue promises to the subscribers of its event emitter      *)
(* (TaskQueueBase, toTaskEvent$): the events of one task only go forward,  *)
(* scheduled before running before done or aborted, and nothing follows    *)
(* the event that is done or aborted.  Each queue of packages/task-queues  *)
(* is compared with it.                                                    *)
(***************************************************************************)
EXTENDS Statuses

CONSTANT Tasks

VARIABLE lastEvent  \* the result of the last event that was emitted of a task

\* No event of the task was emitted.
Silent == [executionStatus |-> "silent", status |-> NoStatus]

Event == {Scheduled, Running} \cup FinalResult

\* What a subscriber may see after old.
MayFollow(old, new) ==
  \/ old = Silent
  \/ ~IsFinal(old) /\ Rank(old.executionStatus) < Rank(new.executionStatus)

EventsInit == lastEvent = [t \in Tasks |-> Silent]

\* One turn of a queue emits events of some of the tasks.
Emit ==
  /\ lastEvent' \in [Tasks -> Event \cup {Silent}]
  /\ \A t \in Tasks : \/ lastEvent'[t] = lastEvent[t]
                      \/ lastEvent'[t] # Silent /\ MayFollow(lastEvent[t], lastEvent'[t])

EventsSpec == EventsInit /\ [][Emit]_lastEvent
=============================================================================
