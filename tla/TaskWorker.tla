----------------------------- MODULE TaskWorker -----------------------------
(***************************************************************************)
(* The queue of shell commands that workers on several machines share, and *)
(* the workers.  The queue saves a job in redis (bee-queue, external); the *)
(* worker that takes it runs first, once for each group of tasks, the      *)
(* before-all command of the group.  One worker lives in the process of    *)
(* the flow.  The others end by themselves: when they have nothing to do,  *)
(* or when they read in redis, every second, that the flow has finished.   *)
(***************************************************************************)
EXTENDS TaskEvents

CONSTANTS
  Workers, Local,     \* the workers, and the one in the process of the flow
  Groups, NoGroup,    \* the groups of tasks that share a before-all command
  GroupOf,            \* the group of each task, if it has one
  BeforeAllResults,   \* "passed", "failed": what before-all commands may come to
  Unreliable          \* the machines that may go away

ASSUME WorkersAssumption ==
  /\ Local \in Workers
  /\ Unreliable \subseteq Workers \ {Local}
  /\ NoGroup \notin Groups
  /\ GroupOf \in [Tasks -> Groups \cup {NoGroup}]
  /\ BeforeAllResults \subseteq {"passed", "failed"}

VARIABLES
  isQueueActive,
  cleanup,         \* where the first call of the cleanup of the queue is
  isFlowFinished,  \* the flag in redis
  place,           \* where the job of a task is
  worker,          \* the worker that took it
  result,          \* what the worker answered
  tasksByGroupId,  \* succeedBeforeAll of the groups a worker has met
  \* WorkerState, each field as the workers where it holds
  receivedFirstTask, isRunningTaskNow, allTasksSucceed, terminatingWorker,
  life,            \* of the process of a worker, or of the worker in the flow
  exitCode

flow == <<lastEvent, isQueueActive, cleanup, isFlowFinished>>
jobs == <<place, worker, result>>
state == <<receivedFirstTask, isRunningTaskNow, allTasksSucceed, terminatingWorker>>
vars == <<flow, jobs, tasksByGroupId, state, life, exitCode>>

Taken == {"beforeAll", "command"}
NoResult == Silent

TypeOK ==
  /\ lastEvent \in [Tasks -> Event \cup {Silent}]
  /\ isQueueActive \in BOOLEAN
  /\ cleanup \in {"notCalled", "settingFlag", "draining", "closingWorker", "returned"}
  /\ isFlowFinished \in BOOLEAN
  /\ place \in [Tasks -> Taken \cup {"notAdded", "recorded", "saving", "waiting", "answered", "told"}]
  /\ worker \in [Tasks -> Workers]
  /\ result \in [Tasks -> FinalResult \cup {NoResult}]
  /\ tasksByGroupId \in [Workers -> [Groups -> {"unknown", "passed", "failed"}]]
  /\ receivedFirstTask \subseteq Workers /\ isRunningTaskNow \subseteq Workers
  /\ allTasksSucceed \subseteq Workers /\ terminatingWorker \subseteq Workers
  /\ life \in [Workers -> {"up", "closed", "gone"}]
  /\ exitCode \in [Workers -> {0, 1}]

Init ==
  /\ EventsInit
  /\ isQueueActive = TRUE
  /\ cleanup = "notCalled"
  /\ isFlowFinished = FALSE
  /\ place = [t \in Tasks |-> "notAdded"]
  /\ worker = [t \in Tasks |-> Local]
  /\ result = [t \in Tasks |-> NoResult]
  /\ tasksByGroupId = [w \in Workers |-> [g \in Groups |-> "unknown"]]
  /\ receivedFirstTask = {} /\ isRunningTaskNow = {}
  /\ allTasksSucceed = Workers /\ terminatingWorker = {}
  /\ life = [w \in Workers |-> "up"]
  /\ exitCode = [w \in Workers |-> 0]

-----------------------------------------------------------------------------
(* The queue, in the process of the flow.                                   *)

\* addTasksToQueue only records the task; it throws when the queue is closed.
AddTasksToQueue(t) ==
  /\ isQueueActive
  /\ place[t] = "notAdded"
  /\ place' = [place EXCEPT ![t] = "recorded"]
  /\ UNCHANGED <<flow, worker, result, tasksByGroupId, state, life, exitCode>>

\* Mutant: the job is saved first; the task is announced whenever.
AnnounceLater(t) ==
  /\ \/ place[t] = "recorded" /\ place' = [place EXCEPT ![t] = "saving"] /\ UNCHANGED lastEvent
     \/ /\ place[t] \notin {"notAdded", "recorded"}
        /\ lastEvent' = [lastEvent EXCEPT ![t] = Scheduled]
        /\ UNCHANGED place
  /\ UNCHANGED <<isQueueActive, cleanup, isFlowFinished, worker, result, tasksByGroupId,
                 state, life, exitCode>>

\* In a later turn the task is announced, and the job is being saved.
Announce(t) ==
  /\ place[t] = "recorded"
  /\ lastEvent' = [lastEvent EXCEPT ![t] = Scheduled]
  /\ place' = [place EXCEPT ![t] = "saving"]
  /\ UNCHANGED <<isQueueActive, cleanup, isFlowFinished, worker, result, tasksByGroupId,
                 state, life, exitCode>>

\* The job is in redis, for any worker.
Saved(t) ==
  /\ place[t] = "saving"
  /\ place' = [place EXCEPT ![t] = "waiting"]
  /\ UNCHANGED <<flow, worker, result, tasksByGroupId, state, life, exitCode>>

\* The job succeeded: whatever the worker answered is told.
Deliver(t) ==
  /\ place[t] = "answered"
  /\ cleanup # "returned"
  /\ place' = [place EXCEPT ![t] = "told"]
  /\ lastEvent' = [lastEvent EXCEPT ![t] = result[t]]
  /\ UNCHANGED <<isQueueActive, cleanup, isFlowFinished, worker, result, tasksByGroupId,
                 state, life, exitCode>>

\* cleanup: closes the queue, tells the workers, waits for the internal queue
\* and closes its own worker; waiting jobs stay in redis.
CleanupBegins ==
  /\ isQueueActive
  /\ isQueueActive' = FALSE
  /\ cleanup' = "settingFlag"
  /\ UNCHANGED <<lastEvent, isFlowFinished, jobs, tasksByGroupId, state, life, exitCode>>

FlagSet ==
  /\ cleanup = "settingFlag"
  /\ isFlowFinished' = TRUE
  /\ cleanup' = "draining"
  /\ UNCHANGED <<lastEvent, isQueueActive, jobs, tasksByGroupId, state, life, exitCode>>

Terminate(w) ==
  /\ terminatingWorker' = terminatingWorker \cup {w}
  /\ UNCHANGED <<receivedFirstTask, isRunningTaskNow, allTasksSucceed>>

Drained ==
  /\ cleanup = "draining"
  /\ \A t \in Tasks : place[t] \notin {"recorded", "saving"}
  /\ IF Local \in terminatingWorker
     THEN cleanup' = "returned" /\ UNCHANGED state
     ELSE cleanup' = "closingWorker" /\ Terminate(Local)
  /\ UNCHANGED <<lastEvent, isQueueActive, isFlowFinished, jobs, tasksByGroupId, life, exitCode>>

CleanupReturns ==
  /\ cleanup = "closingWorker"
  /\ life[Local] = "closed"
  /\ cleanup' = "returned"
  /\ UNCHANGED <<lastEvent, isQueueActive, isFlowFinished, jobs, tasksByGroupId, state, life,
                 exitCode>>

-----------------------------------------------------------------------------
(* processTask, in a worker.                                                *)

Busy(w) == \E t \in Tasks : place[t] \in Taken /\ worker[t] = w

Answer(t, res) ==
  /\ place' = [place EXCEPT ![t] = "answered"]
  /\ result' = [result EXCEPT ![t] = res]

Starts(w) ==
  /\ receivedFirstTask' = receivedFirstTask \cup {w}
  /\ isRunningTaskNow' = isRunningTaskNow \cup {w}
  /\ UNCHANGED <<allTasksSucceed, terminatingWorker>>

\* A command of w came to st.
Counts(w, st) ==
  allTasksSucceed' = IF st = "failed" THEN allTasksSucceed \ {w} ELSE allTasksSucceed

\* Where a job goes that a worker took: to the before-all command of a group
\* that is new to the worker, to its own command, or back.
Take(w, t) ==
  LET g == GroupOf[t]
  IN IF w \in terminatingWorker
     THEN Answer(t, Aborted("skippedAsFailed")) /\ UNCHANGED state
     ELSE /\ Starts(w)
          /\ CASE g # NoGroup /\ tasksByGroupId[w][g] = "failed" -> Answer(t, Aborted("skippedAsFailed"))
               [] g # NoGroup /\ tasksByGroupId[w][g] = "unknown" ->
                    place' = [place EXCEPT ![t] = "beforeAll"] /\ UNCHANGED result
               [] OTHER -> place' = [place EXCEPT ![t] = "command"] /\ UNCHANGED result

\* Mutant: a worker takes jobs while it runs one.
TakeConcurrently(w, t) ==
  /\ place[t] = "waiting"
  /\ life[w] = "up"
  /\ worker' = [worker EXCEPT ![t] = w]
  /\ Take(w, t)
  /\ UNCHANGED <<flow, tasksByGroupId, life, exitCode>>

TakeJob(w, t) ==
  /\ place[t] = "waiting"
  /\ life[w] = "up"
  /\ ~Busy(w)
  /\ worker' = [worker EXCEPT ![t] = w]
  /\ Take(w, t)
  /\ UNCHANGED <<flow, tasksByGroupId, life, exitCode>>

\* The before-all command ended.  When it failed the worker still counts as
\* running a task.
BeforeAllEnds(t, st) ==
  LET w == worker[t]
  IN /\ place[t] = "beforeAll"
     /\ life[w] = "up"
     /\ tasksByGroupId' = [tasksByGroupId EXCEPT ![w][GroupOf[t]] = st]
     /\ Counts(w, st)
     /\ UNCHANGED <<receivedFirstTask, isRunningTaskNow, terminatingWorker>>
     /\ IF st = "failed" \/ w \in terminatingWorker
        THEN Answer(t, Aborted("skippedAsFailed"))
        ELSE place' = [place EXCEPT ![t] = "command"] /\ UNCHANGED result
     /\ UNCHANGED <<flow, worker, life, exitCode>>

\* Mutant: a command that failed leaves the worker running a task.
StillRunning(t, st) ==
  LET w == worker[t]
  IN /\ place[t] = "command"
     /\ life[w] = "up"
     /\ Answer(t, Done(st))
     /\ Counts(w, st)
     /\ isRunningTaskNow' = IF st = "failed" THEN isRunningTaskNow ELSE isRunningTaskNow \ {w}
     /\ UNCHANGED <<receivedFirstTask, terminatingWorker>>
     /\ UNCHANGED <<flow, worker, tasksByGroupId, life, exitCode>>

CommandEnds(t, st) ==
  LET w == worker[t]
  IN /\ place[t] = "command"
     /\ life[w] = "up"
     /\ Answer(t, Done(st))
     /\ Counts(w, st)
     /\ isRunningTaskNow' = isRunningTaskNow \ {w}
     /\ UNCHANGED <<receivedFirstTask, terminatingWorker>>
     /\ UNCHANGED <<flow, worker, tasksByGroupId, life, exitCode>>

-----------------------------------------------------------------------------
(* The end of a worker.                                                     *)

\* Mutant: the worker in the flow waits as long as the others.
AnyTimesOut(w) ==
  /\ life[w] = "up" /\ w \notin terminatingWorker
  /\ w \in receivedFirstTask => w \notin isRunningTaskNow
  /\ Terminate(w)
  /\ UNCHANGED <<flow, jobs, tasksByGroupId, life, exitCode>>

\* isWorkerFinished: no task came for a long time, as far as the worker knows.
\* The worker in the flow waits for days.
IdleTimeout(w) ==
  /\ w # Local
  /\ life[w] = "up" /\ w \notin terminatingWorker
  /\ w \in receivedFirstTask => w \notin isRunningTaskNow
  /\ Terminate(w)
  /\ UNCHANGED <<flow, jobs, tasksByGroupId, life, exitCode>>

\* Mutant: a worker looks at the flag only when it runs no task.
FlagSeenWhenIdle(w) ==
  /\ isFlowFinished
  /\ life[w] = "up" /\ w \notin terminatingWorker
  /\ w \notin isRunningTaskNow
  /\ Terminate(w)
  /\ UNCHANGED <<flow, jobs, tasksByGroupId, life, exitCode>>

\* isWorkerFinished: the worker reads in redis that the flow has finished.
FlagSeen(w) ==
  /\ isFlowFinished
  /\ life[w] = "up" /\ w \notin terminatingWorker
  /\ Terminate(w)
  /\ UNCHANGED <<flow, jobs, tasksByGroupId, life, exitCode>>

\* cleanup of a worker ends when the job at work has ended; then its exit
\* code is known.
WorkerCloses(w) ==
  /\ life[w] = "up" /\ w \in terminatingWorker
  /\ ~Busy(w)
  /\ life' = [life EXCEPT ![w] = "closed"]
  /\ exitCode' = [exitCode EXCEPT ![w] = IF w \in allTasksSucceed THEN 0 ELSE 1]
  /\ UNCHANGED <<flow, jobs, tasksByGroupId, state>>

\* A machine goes away; nobody runs its job again.
MachineGoesAway(w) ==
  /\ w \in Unreliable
  /\ life[w] = "up"
  /\ life' = [life EXCEPT ![w] = "gone"]
  /\ UNCHANGED <<flow, jobs, tasksByGroupId, state, exitCode>>

-----------------------------------------------------------------------------
Queue ==
  \/ \E t \in Tasks : AddTasksToQueue(t) \/ Announce(t) \/ Saved(t) \/ Deliver(t)
  \/ CleanupBegins
  \/ FlagSet
  \/ Drained
  \/ CleanupReturns

Worker(w) ==
  \/ \E t \in Tasks : TakeJob(w, t)
  \/ IdleTimeout(w)
  \/ FlagSeen(w)
  \/ WorkerCloses(w)
  \/ MachineGoesAway(w)

Next ==
  \/ Queue
  \/ \E w \in Workers : Worker(w)
  \/ \E t \in Tasks, st \in BeforeAllResults : BeforeAllEnds(t, st)
  \/ \E t \in Tasks, st \in {"passed", "failed"} : CommandEnds(t, st)

Spec == Init /\ [][Next]_vars

\* Redis answers, commands end, the workers take jobs and look at the clock
\* every second: what can go on does, in any order.  Nobody must add a task,
\* clean up or break a machine.
Fairness ==
  WF_vars(\/ \E t \in Tasks :
               \/ Announce(t) \/ Saved(t) \/ Deliver(t)
               \/ \E st \in BeforeAllResults : BeforeAllEnds(t, st)
               \/ \E st \in {"passed", "failed"} : CommandEnds(t, st)
          \/ \E w \in Workers :
               \/ \E t \in Tasks : TakeJob(w, t)
               \/ IdleTimeout(w) \/ FlagSeen(w) \/ WorkerCloses(w)
          \/ FlagSet \/ Drained \/ CleanupReturns)

FairSpec == Spec /\ Fairness

-----------------------------------------------------------------------------
\* On one worker the before-all command of a group runs at most once, and no
\* command of the group runs unless it passed there.
BeforeAllOnce ==
  \A t \in Tasks : GroupOf[t] # NoGroup =>
    /\ place[t] = "command" => tasksByGroupId[worker[t]][GroupOf[t]] = "passed"
    /\ place[t] = "beforeAll" =>
         /\ tasksByGroupId[worker[t]][GroupOf[t]] = "unknown"
         /\ \A u \in Tasks \ {t} :
              worker[u] = worker[t] /\ GroupOf[u] = GroupOf[t] => place[u] # "beforeAll"

\* Something that w ran failed.
SomethingFailed(w) ==
  \/ \E t \in Tasks : worker[t] = w /\ result[t] = Done("failed")
  \/ \E g \in Groups : tasksByGroupId[w][g] = "failed"

\* A worker that has closed tells by its exit code whether a command it ran
\* failed, a before-all command too.
WorkerExitCode ==
  \A w \in Workers : life[w] = "closed" =>
    (exitCode[w] = 1 <=> SomethingFailed(w))

\* The place of a job tells what was emitted of its task and what is known of
\* its result.
EventsFollowPlace ==
  \A t \in Tasks :
    /\ place[t] \in {"notAdded", "recorded"} => lastEvent[t] = Silent
    /\ place[t] \in {"saving", "waiting", "answered"} \cup Taken => lastEvent[t] = Scheduled
    /\ place[t] = "told" => lastEvent[t] = result[t]
    /\ IF place[t] \in {"answered", "told"} THEN result[t] \in FinalResult
                                            ELSE result[t] = NoResult

\* A worker has one job at a time.
OneJob ==
  \A t, u \in Tasks :
    place[t] \in Taken /\ place[u] \in Taken /\ worker[t] = worker[u] => t = u

BeforeAllKnown ==
  \A t \in Tasks :
    /\ place[t] = "beforeAll" => /\ GroupOf[t] # NoGroup
                                /\ tasksByGroupId[worker[t]][GroupOf[t]] = "unknown"
    /\ place[t] = "command" /\ GroupOf[t] # NoGroup =>
         tasksByGroupId[worker[t]][GroupOf[t]] = "passed"

FailuresCount ==
  \A w \in Workers :
    /\ w \in allTasksSucceed <=> ~SomethingFailed(w)
    /\ life[w] = "closed" => exitCode[w] = IF w \in allTasksSucceed THEN 0 ELSE 1

\* The inductive invariant of the queue and its workers.
WorkersInv == EventsFollowPlace /\ OneJob /\ BeforeAllKnown /\ FailuresCount

\* As long as the flow does not clean up, every task that was added ends,
\* although workers leave; only a machine that goes away takes its task along.
TasksEnd ==
  []<>(\A t \in Tasks : place[t] # "notAdded" =>
         IsFinal(lastEvent[t]) \/ ~isQueueActive \/ life[worker[t]] = "gone")

\* All workers stop when the flow has finished.
WorkersStop == isFlowFinished ~> \A w \in Workers : life[w] # "up"

\* No command is at work in w and no job waits for it.
Idle(w) == ~Busy(w) /\ \A t \in Tasks : place[t] # "waiting"

\* A worker without tasks stops by itself, unless a before-all command failed in it.
IdleHealthyWorkersStop ==
  \A w \in Workers \ {Local} :
    <>[](Idle(w) /\ \A g \in Groups : tasksByGroupId[w][g] # "failed") => <>(life[w] # "up")
=============================================================================
