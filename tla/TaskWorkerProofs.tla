-------------------------- MODULE TaskWorkerProofs --------------------------
(***************************************************************************)
(* The queue of the task workers keeps the promise of a task queue, runs a *)
(* before-all command once for each worker and group, and tells failures   *)
(* by the exit codes of the workers, for any number of tasks, workers and  *)
(* groups.  No job is stuck, and none is aborted without a reason.         *)
(***************************************************************************)
EXTENDS TaskWorker, TLAPS

\* The kinds of events, none of which is silence.
LEMMA EventFacts ==
  /\ Silent \notin Event /\ Scheduled \in Event /\ Running \in Event
  /\ Scheduled # Running /\ FinalResult \subseteq Event
  /\ Scheduled \notin FinalResult /\ Running \notin FinalResult
  /\ \A st \in Status : Done(st) \in FinalResult /\ Aborted(st) \in FinalResult
  /\ \A st, u \in Status : Done(st) # Aborted(u)
  /\ \A r \in FinalResult : IsFinal(r)
BY DEF Event, Silent, Scheduled, Running, FinalResult, Done, Aborted, IsFinal, NoStatus, Status

\* Which events may follow which.
LEMMA FollowFacts ==
  /\ \A e \in Event : MayFollow(Silent, e)
  /\ MayFollow(Scheduled, Running)
  /\ \A e \in FinalResult : MayFollow(Scheduled, e) /\ MayFollow(Running, e)
BY DEF MayFollow, Event, Silent, Scheduled, Running, FinalResult, IsFinal, Rank

\* The initial states are well typed.
LEMMA InitType == Init => TypeOK
<1> SUFFICES ASSUME Init PROVE TypeOK
  OBVIOUS
<1>1. NoResult \in FinalResult \cup {NoResult}
  OBVIOUS
<1> QED
  BY <1>1, WorkersAssumption DEF Init, TypeOK, EventsInit, Taken

\* An answer is a final result.
LEMMA AnswersAreFinal ==
  /\ \A st \in {"passed", "failed"} : Done(st) \in FinalResult
  /\ Aborted("skippedAsFailed") \in FinalResult
BY EventFacts DEF Status

\* What a worker does with a job that it takes is well typed.
LEMMA TakeType ==
  ASSUME TypeOK, NEW w \in Workers, NEW t \in Tasks, TakeJob(w, t)
  PROVE  TypeOK'
<1>1. place' \in [Tasks -> Taken \cup {"notAdded", "recorded", "saving", "waiting", "answered", "told"}]
  BY ZenonT(30) DEF TypeOK, TakeJob, Take, Answer, Taken
<1>2. result' \in [Tasks -> FinalResult \cup {NoResult}]
  BY AnswersAreFinal DEF TypeOK, TakeJob, Take, Answer
<1>3. /\ receivedFirstTask' \subseteq Workers /\ isRunningTaskNow' \subseteq Workers
      /\ allTasksSucceed' \subseteq Workers /\ terminatingWorker' \subseteq Workers
  BY DEF TypeOK, TakeJob, Take, Starts, state
<1>4. worker' \in [Tasks -> Workers]
  BY DEF TypeOK, TakeJob
<1> QED
  BY <1>1, <1>2, <1>3, <1>4 DEF TypeOK, TakeJob, flow, state

\* The end of a before-all command is well typed.
LEMMA BeforeAllType ==
  ASSUME TypeOK, NEW t \in Tasks, NEW st \in BeforeAllResults, BeforeAllEnds(t, st)
  PROVE  TypeOK'
<1>1. st \in {"passed", "failed"} /\ worker[t] \in Workers
  BY WorkersAssumption DEF TypeOK
<1>2. place' \in [Tasks -> Taken \cup {"notAdded", "recorded", "saving", "waiting", "answered", "told"}]
  BY SMTT(30) DEF TypeOK, BeforeAllEnds, Answer, Taken
<1>3. result' \in [Tasks -> FinalResult \cup {NoResult}]
  BY AnswersAreFinal DEF TypeOK, BeforeAllEnds, Answer
<1>4. /\ receivedFirstTask' \subseteq Workers /\ isRunningTaskNow' \subseteq Workers
      /\ allTasksSucceed' \subseteq Workers /\ terminatingWorker' \subseteq Workers
  BY <1>1 DEF TypeOK, BeforeAllEnds, Counts
<1>5. tasksByGroupId' \in [Workers -> [Groups -> {"unknown", "passed", "failed"}]]
  BY <1>1 DEF TypeOK, BeforeAllEnds
<1> QED
  BY <1>2, <1>3, <1>4, <1>5 DEF TypeOK, BeforeAllEnds, flow, state

\* The end of a command is well typed.
LEMMA CommandType ==
  ASSUME TypeOK, NEW t \in Tasks, NEW st \in {"passed", "failed"}, CommandEnds(t, st)
  PROVE  TypeOK'
<1>1. worker[t] \in Workers
  BY DEF TypeOK
<1>2. place' \in [Tasks -> Taken \cup {"notAdded", "recorded", "saving", "waiting", "answered", "told"}]
  BY DEF TypeOK, CommandEnds, Answer, Taken
<1>3. result' \in [Tasks -> FinalResult \cup {NoResult}]
  BY AnswersAreFinal DEF TypeOK, CommandEnds, Answer
<1>4. /\ receivedFirstTask' \subseteq Workers /\ isRunningTaskNow' \subseteq Workers
      /\ allTasksSucceed' \subseteq Workers /\ terminatingWorker' \subseteq Workers
  BY <1>1 DEF TypeOK, CommandEnds, Counts
<1> QED
  BY <1>2, <1>3, <1>4 DEF TypeOK, CommandEnds, flow, state

\* The steps of the queue are well typed, given what was answered to it.
LEMMA QueueType ==
  ASSUME TypeOK, EventsFollowPlace, Queue
  PROVE  TypeOK'
<1>1. ASSUME NEW t \in Tasks, AddTasksToQueue(t) PROVE TypeOK'
  BY <1>1 DEF TypeOK, AddTasksToQueue, flow, state
<1>2. ASSUME NEW t \in Tasks, Announce(t) PROVE TypeOK'
  BY <1>2, EventFacts DEF TypeOK, Announce, state
<1>3. ASSUME NEW t \in Tasks, Saved(t) PROVE TypeOK'
  BY <1>3 DEF TypeOK, Saved, flow, state
<1>4. ASSUME NEW t \in Tasks, Deliver(t) PROVE TypeOK'
  <2>1. result[t] \in Event
    BY <1>4, EventFacts DEF Deliver, EventsFollowPlace
  <2> QED
    BY <1>4, <2>1 DEF TypeOK, Deliver, state
<1>5. CASE CleanupBegins
  BY <1>5 DEF TypeOK, CleanupBegins, jobs, state
<1>6. CASE FlagSet
  BY <1>6 DEF TypeOK, FlagSet, jobs, state
<1>7. CASE Drained
  BY <1>7, WorkersAssumption DEF TypeOK, Drained, Terminate, jobs, state
<1>8. CASE CleanupReturns
  BY <1>8 DEF TypeOK, CleanupReturns, jobs, state
<1> QED
  BY <1>1, <1>2, <1>3, <1>4, <1>5, <1>6, <1>7, <1>8 DEF Queue

\* The steps of a worker are well typed.
LEMMA WorkerType ==
  ASSUME TypeOK, NEW w \in Workers, Worker(w)
  PROVE  TypeOK'
<1>1. ASSUME NEW t \in Tasks, TakeJob(w, t) PROVE TypeOK'
  BY <1>1, TakeType
<1>2. CASE IdleTimeout(w)
  BY <1>2 DEF TypeOK, IdleTimeout, Terminate, flow, jobs, state
<1>3. CASE FlagSeen(w)
  BY <1>3 DEF TypeOK, FlagSeen, Terminate, flow, jobs, state
<1>4. CASE WorkerCloses(w)
  BY <1>4 DEF TypeOK, WorkerCloses, flow, jobs, state
<1>5. CASE MachineGoesAway(w)
  BY <1>5 DEF TypeOK, MachineGoesAway, flow, jobs, state
<1> QED
  BY <1>1, <1>2, <1>3, <1>4, <1>5 DEF Worker

\* Type correctness is preserved, given what was answered to the queue.
LEMMA NextType ==
  ASSUME TypeOK, EventsFollowPlace, [Next]_vars
  PROVE  TypeOK'
<1>1. CASE Queue
  BY <1>1, QueueType
<1>2. ASSUME NEW w \in Workers, Worker(w) PROVE TypeOK'
  BY <1>2, WorkerType
<1>3. ASSUME NEW t \in Tasks, NEW st \in BeforeAllResults, BeforeAllEnds(t, st) PROVE TypeOK'
  BY <1>3, BeforeAllType
<1>4. ASSUME NEW t \in Tasks, NEW st \in {"passed", "failed"}, CommandEnds(t, st) PROVE TypeOK'
  BY <1>4, CommandType
<1>5. CASE UNCHANGED vars
  BY <1>5 DEF TypeOK, vars, flow, jobs, state
<1> QED
  BY <1>1, <1>2, <1>3, <1>4, <1>5 DEF Next

-----------------------------------------------------------------------------
(* The inductive invariant.                                                 *)

\* It holds initially: nothing was emitted, taken or failed.
LEMMA InitInv == Init => WorkersInv
<1> SUFFICES ASSUME Init PROVE WorkersInv
  OBVIOUS
<1>1. EventsFollowPlace /\ OneJob /\ BeforeAllKnown
  BY DEF Init, EventsInit, EventsFollowPlace, OneJob, BeforeAllKnown, Taken
<1>2. NoResult # Done("failed")
  BY DEF NoResult, Silent, Done
<1>3. FailuresCount
  BY <1>2 DEF Init, FailuresCount, SomethingFailed
<1> QED
  BY <1>1, <1>3 DEF WorkersInv

\* Facts about the answers that tell them from each other.
LEMMA AnswerFacts ==
  /\ Aborted("skippedAsFailed") # Done("failed") /\ Done("passed") # Done("failed")
  /\ NoResult # Done("failed") /\ NoResult \notin FinalResult
BY DEF Aborted, Done, NoResult, Silent, FinalResult

\* A step that changes neither jobs nor events nor what workers know of groups.
LEMMA JobsUnchanged ==
  ASSUME WorkersInv, UNCHANGED <<lastEvent, jobs, tasksByGroupId>>
  PROVE  EventsFollowPlace' /\ OneJob' /\ BeforeAllKnown'
BY DEF WorkersInv, EventsFollowPlace, OneJob, BeforeAllKnown, jobs

\* A step that changes nothing failures are told by.
LEMMA FailuresUnchanged ==
  ASSUME WorkersInv, UNCHANGED <<worker, result, tasksByGroupId, allTasksSucceed, life, exitCode>>
  PROVE  FailuresCount'
BY DEF WorkersInv, FailuresCount, SomethingFailed

\* The steps of the queue preserve the invariant.
LEMMA QueueInv ==
  ASSUME TypeOK, WorkersInv, Queue
  PROVE  WorkersInv'
<1>1. FailuresCount'
  BY FailuresUnchanged DEF Queue, AddTasksToQueue, Announce, Saved, Deliver, CleanupBegins, FlagSet,
     Drained, CleanupReturns, Terminate, jobs, state
<1>2. ASSUME NEW t \in Tasks, AddTasksToQueue(t) \/ Announce(t) \/ Saved(t) \/ Deliver(t)
      PROVE  EventsFollowPlace' /\ OneJob' /\ BeforeAllKnown'
  <2>1. EventsFollowPlace'
    BY <1>2 DEF TypeOK, WorkersInv, EventsFollowPlace, AddTasksToQueue, Announce, Saved, Deliver,
       flow, Taken
  <2>2. /\ \A u \in Tasks : place'[u] \in Taken => place'[u] = place[u]
        /\ UNCHANGED <<worker, tasksByGroupId>>
    BY <1>2 DEF TypeOK, AddTasksToQueue, Announce, Saved, Deliver, Taken
  <2> QED
    BY <2>1, <2>2 DEF WorkersInv, OneJob, BeforeAllKnown, Taken
<1>3. ASSUME CleanupBegins \/ FlagSet \/ Drained \/ CleanupReturns
      PROVE  EventsFollowPlace' /\ OneJob' /\ BeforeAllKnown'
  BY <1>3, JobsUnchanged DEF CleanupBegins, FlagSet, Drained, CleanupReturns
<1> QED
  BY <1>1, <1>2, <1>3 DEF Queue, WorkersInv

\* A worker that takes a job had none, and has not met a failed group anew.
LEMMA TakeInv ==
  ASSUME TypeOK, WorkersInv, NEW w \in Workers, NEW t \in Tasks, TakeJob(w, t)
  PROVE  WorkersInv'
<1>1. EventsFollowPlace'
  BY AnswersAreFinal DEF TypeOK, WorkersInv, EventsFollowPlace, TakeJob, Take, Answer, flow, Taken
<1>2. OneJob'
  BY DEF TypeOK, WorkersInv, OneJob, TakeJob, Busy, Take, Answer, Taken
<1>3. BeforeAllKnown'
  <2>1. ASSUME GroupOf[t] # NoGroup
        PROVE  tasksByGroupId[w][GroupOf[t]] \in {"unknown", "passed", "failed"}
    BY <2>1, WorkersAssumption DEF TypeOK
  <2> QED
    BY <2>1 DEF TypeOK, WorkersInv, BeforeAllKnown, TakeJob, Take, Answer
<1>4. FailuresCount'
  <2>1. result[t] # Done("failed") /\ result'[t] # Done("failed")
    BY AnswerFacts, AnswersAreFinal DEF TypeOK, WorkersInv, EventsFollowPlace, TakeJob, Take, Answer
  <2>2. \A u \in Tasks \ {t} : result'[u] = result[u] /\ worker'[u] = worker[u]
    BY DEF TypeOK, TakeJob, Take, Answer
  <2>3. UNCHANGED <<tasksByGroupId, allTasksSucceed, life, exitCode>>
    BY DEF TakeJob, Take, Starts, state
  <2>4. \A v \in Workers : SomethingFailed(v)' <=> SomethingFailed(v)
    BY <2>1, <2>2, <2>3 DEF SomethingFailed
  <2> QED
    BY <2>3, <2>4 DEF WorkersInv, FailuresCount
<1> QED
  BY <1>1, <1>2, <1>3, <1>4 DEF WorkersInv

\* What a before-all command came to is new to the worker, and counts.
LEMMA BeforeAllInv ==
  ASSUME TypeOK, WorkersInv, NEW t \in Tasks, NEW st \in BeforeAllResults, BeforeAllEnds(t, st)
  PROVE  WorkersInv'
<1> DEFINE w == worker[t]
<1>1. /\ st \in {"passed", "failed"} /\ w \in Workers /\ GroupOf[t] \in Groups
      /\ tasksByGroupId[w][GroupOf[t]] = "unknown"
  BY WorkersAssumption DEF TypeOK, WorkersInv, BeforeAllKnown, BeforeAllEnds
<1>2. EventsFollowPlace'
  BY AnswersAreFinal DEF TypeOK, WorkersInv, EventsFollowPlace, BeforeAllEnds, Answer, flow, Taken
<1>3. OneJob'
  BY DEF TypeOK, WorkersInv, OneJob, BeforeAllEnds, Answer, Taken
<1>4. BeforeAllKnown'
  <2>1. \A u \in Tasks \ {t} : place[u] \in Taken => worker[u] # w
    BY DEF WorkersInv, OneJob, BeforeAllEnds, Taken
  <2>2. \A v \in Workers \ {w} : tasksByGroupId'[v] = tasksByGroupId[v]
    BY DEF TypeOK, BeforeAllEnds
  <2>3. tasksByGroupId'[w][GroupOf[t]] = st
    BY <1>1 DEF TypeOK, BeforeAllEnds
  <2>4. place'[t] = "answered" \/ (place'[t] = "command" /\ st = "passed")
    BY <1>1 DEF TypeOK, BeforeAllEnds, Answer
  <2>5. (\A u \in Tasks \ {t} : place'[u] = place[u]) /\ worker' = worker
    BY DEF TypeOK, BeforeAllEnds, Answer
  <2> QED
    BY <2>1, <2>2, <2>3, <2>4, <2>5 DEF TypeOK, WorkersInv, BeforeAllKnown, Taken
<1>5. FailuresCount'
  <2>1. result[t] # Done("failed") /\ result'[t] # Done("failed")
    BY AnswerFacts DEF TypeOK, WorkersInv, EventsFollowPlace, BeforeAllEnds, Answer
  <2>2. (\A u \in Tasks \ {t} : result'[u] = result[u]) /\ worker' = worker
    BY DEF TypeOK, BeforeAllEnds, Answer
  <2>3. \A v \in Workers, g \in Groups :
          (tasksByGroupId'[v][g] = "failed") <=>
            (tasksByGroupId[v][g] = "failed" \/ (v = w /\ g = GroupOf[t] /\ st = "failed"))
    BY <1>1 DEF TypeOK, BeforeAllEnds
  <2>4. \A v \in Workers :
          SomethingFailed(v)' <=> SomethingFailed(v) \/ (v = w /\ st = "failed")
    BY <1>1, <2>1, <2>2, <2>3 DEF SomethingFailed
  <2>5. /\ allTasksSucceed' = IF st = "failed" THEN allTasksSucceed \ {w} ELSE allTasksSucceed
        /\ UNCHANGED <<life, exitCode>> /\ life[w] = "up"
    BY DEF BeforeAllEnds, Counts
  <2> QED
    BY <2>4, <2>5 DEF WorkersInv, FailuresCount
<1> QED
  BY <1>2, <1>3, <1>4, <1>5 DEF WorkersInv

\* The end of a command is told and counts.
LEMMA CommandInv ==
  ASSUME TypeOK, WorkersInv, NEW t \in Tasks, NEW st \in {"passed", "failed"}, CommandEnds(t, st)
  PROVE  WorkersInv'
<1> DEFINE w == worker[t]
<1>1. EventsFollowPlace'
  BY AnswersAreFinal DEF TypeOK, WorkersInv, EventsFollowPlace, CommandEnds, Answer, flow, Taken
<1>2. OneJob' /\ BeforeAllKnown'
  BY DEF TypeOK, WorkersInv, OneJob, BeforeAllKnown, CommandEnds, Answer, Taken
<1>3. FailuresCount'
  <2>1. result[t] # Done("failed") /\ (result'[t] = Done("failed") <=> st = "failed")
    BY AnswerFacts DEF TypeOK, WorkersInv, EventsFollowPlace, CommandEnds, Answer
  <2>2. (\A u \in Tasks \ {t} : result'[u] = result[u]) /\ UNCHANGED <<worker, tasksByGroupId>>
    BY DEF TypeOK, CommandEnds, Answer
  <2>3. \A v \in Workers :
          SomethingFailed(v)' <=> SomethingFailed(v) \/ (v = w /\ st = "failed")
    BY <2>1, <2>2 DEF SomethingFailed
  <2>4. /\ allTasksSucceed' = IF st = "failed" THEN allTasksSucceed \ {w} ELSE allTasksSucceed
        /\ UNCHANGED <<life, exitCode>> /\ life[w] = "up"
    BY DEF CommandEnds, Counts
  <2> QED
    BY <2>3, <2>4 DEF WorkersInv, FailuresCount
<1> QED
  BY <1>1, <1>2, <1>3 DEF WorkersInv

\* A worker that leaves has counted its failures.
LEMMA LeaveInv ==
  ASSUME TypeOK, WorkersInv, NEW w \in Workers,
         IdleTimeout(w) \/ FlagSeen(w) \/ WorkerCloses(w) \/ MachineGoesAway(w)
  PROVE  WorkersInv'
<1>1. EventsFollowPlace' /\ OneJob' /\ BeforeAllKnown'
  BY JobsUnchanged DEF IdleTimeout, FlagSeen, WorkerCloses, MachineGoesAway, flow
<1>2. UNCHANGED <<jobs, tasksByGroupId, allTasksSucceed>>
  BY DEF IdleTimeout, FlagSeen, WorkerCloses, MachineGoesAway, Terminate, state
<1>3. \A v \in Workers : SomethingFailed(v)' <=> SomethingFailed(v)
  BY <1>2 DEF SomethingFailed, jobs
<1>4. \A v \in Workers : life'[v] = "closed" =>
        \/ life[v] = "closed" /\ exitCode'[v] = exitCode[v]
        \/ exitCode'[v] = IF v \in allTasksSucceed THEN 0 ELSE 1
  BY DEF TypeOK, IdleTimeout, FlagSeen, WorkerCloses, MachineGoesAway
<1>5. FailuresCount'
  BY <1>2, <1>3, <1>4 DEF WorkersInv, FailuresCount
<1> QED
  BY <1>1, <1>5 DEF WorkersInv

\* Every step preserves the invariant.
LEMMA NextInv ==
  ASSUME TypeOK, WorkersInv, [Next]_vars
  PROVE  WorkersInv'
<1>1. CASE Queue
  BY <1>1, QueueInv
<1>2. ASSUME NEW w \in Workers, Worker(w) PROVE WorkersInv'
  <2>1. ASSUME NEW t \in Tasks, TakeJob(w, t) PROVE WorkersInv'
    BY <2>1, TakeInv
  <2>2. CASE IdleTimeout(w) \/ FlagSeen(w) \/ WorkerCloses(w) \/ MachineGoesAway(w)
    BY <2>2, LeaveInv
  <2> QED
    BY <1>2, <2>1, <2>2 DEF Worker
<1>3. ASSUME NEW t \in Tasks, NEW st \in BeforeAllResults, BeforeAllEnds(t, st) PROVE WorkersInv'
  BY <1>3, BeforeAllInv
<1>4. ASSUME NEW t \in Tasks, NEW st \in {"passed", "failed"}, CommandEnds(t, st)
      PROVE  WorkersInv'
  BY <1>4, CommandInv
<1>5. CASE UNCHANGED vars
  <2>1. UNCHANGED <<flow, jobs, tasksByGroupId, state, life, exitCode>>
    BY <1>5 DEF vars
  <2> QED
    BY <2>1, JobsUnchanged, FailuresUnchanged DEF flow, jobs, state, WorkersInv
<1> QED
  BY <1>1, <1>2, <1>3, <1>4, <1>5 DEF Next

-----------------------------------------------------------------------------
\* Every reachable state is well typed and satisfies the inductive invariant:
\* what was emitted of a task follows from the place of its job, a worker has
\* one job at a time, and the failures are counted.
THEOREM WorkersInvariant == Spec => [](TypeOK /\ WorkersInv)
<1>1. Init => TypeOK /\ WorkersInv
  BY InitType, InitInv
<1>2. TypeOK /\ WorkersInv /\ [Next]_vars => (TypeOK /\ WorkersInv)'
  <2>1. ASSUME TypeOK, WorkersInv, [Next]_vars PROVE TypeOK' /\ WorkersInv'
    BY <2>1, NextType, NextInv DEF WorkersInv
  <2> QED
    BY <2>1
<1> QED
  BY <1>1, <1>2, PTL DEF Spec

\* Every reachable state is well typed.
THEOREM TypeCorrect == Spec => []TypeOK
BY WorkersInvariant, PTL

\* processTask runs the before-all command of a group once on a worker, and no
\* command of the group unless it passed there.
THEOREM BeforeAllRunsOnce == Spec => []BeforeAllOnce
<1>1. WorkersInv => BeforeAllOnce
  BY DEF WorkersInv, OneJob, BeforeAllKnown, BeforeAllOnce, Taken
<1> QED
  BY <1>1, WorkersInvariant, PTL

\* The exit code of a worker tells whether something that it ran failed.
THEOREM ExitCodesAreRight == Spec => []WorkerExitCode
<1>1. WorkersInv => WorkerExitCode
  BY DEF WorkersInv, FailuresCount, WorkerExitCode
<1> QED
  BY <1>1, WorkersInvariant, PTL

\* The queue of the task workers keeps the promise of a task queue: it
\* implements EventsSpec.
THEOREM KeepsPromise == Spec => EventsSpec
<1>1. Init => EventsInit
  BY DEF Init
<1>2. TypeOK /\ WorkersInv /\ TypeOK' /\ [Next]_vars => [Emit]_lastEvent
  <2> SUFFICES ASSUME TypeOK, WorkersInv, TypeOK', [Next]_vars, lastEvent' # lastEvent
               PROVE  Emit
    OBVIOUS
  <2>1. \E t \in Tasks : Announce(t) \/ Deliver(t)
    BY DEF Next, Queue, Worker, vars, AddTasksToQueue, Saved, CleanupBegins, FlagSet, Drained,
       CleanupReturns, TakeJob, IdleTimeout, FlagSeen, WorkerCloses, MachineGoesAway,
       BeforeAllEnds, CommandEnds, flow
  <2>2. PICK t \in Tasks : Announce(t) \/ Deliver(t)
    BY <2>1
  <2>3. \A u \in Tasks \ {t} : lastEvent'[u] = lastEvent[u]
    BY <2>2 DEF TypeOK, Announce, Deliver
  <2>4. CASE Announce(t)
    <3>1. lastEvent[t] = Silent /\ lastEvent'[t] = Scheduled
      BY <2>4 DEF TypeOK, WorkersInv, EventsFollowPlace, Announce
    <3> QED
      BY <2>3, <3>1, EventFacts, FollowFacts DEF Emit, TypeOK
  <2>5. CASE Deliver(t)
    <3>1. lastEvent[t] = Scheduled /\ lastEvent'[t] \in FinalResult
      BY <2>5 DEF TypeOK, WorkersInv, EventsFollowPlace, Deliver
    <3> QED
      BY <2>3, <3>1, EventFacts, FollowFacts DEF Emit, TypeOK
  <2> QED
    BY <2>2, <2>4, <2>5
<1> QED
  BY <1>1, <1>2, WorkersInvariant, PTL DEF Spec, EventsSpec

-----------------------------------------------------------------------------
(* No dead end: the safety half of TasksEnd and WorkersStop.                *)

\* Nobody left the flow before it cleaned up, and no worker closed over a job.
LivesInv ==
  /\ isQueueActive <=> cleanup = "notCalled"
  /\ isFlowFinished => cleanup \in {"draining", "closingWorker", "returned"}
  /\ Local \in terminatingWorker => isFlowFinished
  /\ cleanup \in {"draining", "closingWorker", "returned"} => isFlowFinished
  /\ cleanup = "closingWorker" => Local \in terminatingWorker
  /\ life[Local] # "gone"
  /\ \A w \in Workers : life[w] = "closed" => w \in terminatingWorker
  /\ \A t \in Tasks : place[t] \in Taken => life[worker[t]] # "closed"

\* A job that was added and did not end is on its way to redis, has a worker
\* that takes it when it is free, is at work in a worker that is up, or was
\* answered to a queue that listens; or its machine went away.
JobsCanGoOn ==
  isQueueActive => \A t \in Tasks : place[t] # "notAdded" =>
    \/ IsFinal(lastEvent[t])
    \/ place[t] \in {"recorded", "saving"}
    \/ place[t] = "waiting" /\ life[Local] = "up" /\ Local \notin terminatingWorker
    \/ place[t] \in Taken /\ life[worker[t]] \in {"up", "gone"}
    \/ place[t] = "answered" /\ cleanup # "returned"

\* A clean-up that waits for the worker of the flow waits for one that closes.
CleanupCanEnd ==
  cleanup = "closingWorker" =>
    life[Local] = "closed" \/ (life[Local] = "up" /\ Local \in terminatingWorker)

\* A task is aborted only by a worker that leaves, or in which the before-all
\* command of its group failed.
AbortsHaveAReason ==
  \A t \in Tasks : result[t] = Aborted("skippedAsFailed") =>
    \/ worker[t] \in terminatingWorker
    \/ GroupOf[t] # NoGroup /\ tasksByGroupId[worker[t]][GroupOf[t]] = "failed"

PlaceRank(p) ==
  CASE p = "notAdded" -> 0 [] p = "recorded" -> 1 [] p = "saving" -> 2 [] p = "waiting" -> 3
    [] p = "beforeAll" -> 4 [] p = "command" -> 5 [] p = "answered" -> 6 [] OTHER -> 7

CleanupRank(c) ==
  CASE c = "notCalled" -> 0 [] c = "settingFlag" -> 1 [] c = "draining" -> 2
    [] c = "closingWorker" -> 3 [] OTHER -> 4

\* Every step goes forward: jobs, the clean-up and the end of a worker are never
\* taken back, and a step advances one of them.
WorkersForward ==
  /\ \A t \in Tasks : PlaceRank(place[t]) <= PlaceRank(place'[t])
  /\ CleanupRank(cleanup) <= CleanupRank(cleanup')
  /\ terminatingWorker \subseteq terminatingWorker'
  /\ \A w \in Workers : life[w] # "up" => life'[w] = life[w]
  /\ \/ \E t \in Tasks : PlaceRank(place[t]) < PlaceRank(place'[t])
     \/ CleanupRank(cleanup) < CleanupRank(cleanup')
     \/ terminatingWorker' # terminatingWorker
     \/ \E w \in Workers : life'[w] # life[w]

\* Nobody left in the beginning.
LEMMA InitLives == Init => LivesInv
BY WorkersAssumption DEF Init, LivesInv, Taken

\* The steps of the queue keep LivesInv: its worker closes at the end of cleanup.
LEMMA QueueLives ==
  ASSUME TypeOK, LivesInv, Queue
  PROVE  LivesInv'
<1>1. ASSUME NEW t \in Tasks, AddTasksToQueue(t) \/ Announce(t) \/ Saved(t) \/ Deliver(t)
      PROVE  LivesInv'
  <2>1. /\ UNCHANGED <<isQueueActive, cleanup, isFlowFinished, terminatingWorker, worker, life>>
        /\ \A u \in Tasks : place'[u] \in Taken => place'[u] = place[u]
    BY <1>1 DEF TypeOK, AddTasksToQueue, Announce, Saved, Deliver, flow, state, Taken
  <2> QED
    BY <2>1 DEF LivesInv
<1>2. CASE CleanupBegins
  BY <1>2 DEF LivesInv, CleanupBegins, jobs, state
<1>3. CASE FlagSet
  BY <1>3 DEF LivesInv, FlagSet, jobs, state
<1>4. CASE Drained
  BY <1>4 DEF LivesInv, Drained, Terminate, jobs, state
<1>5. CASE CleanupReturns
  BY <1>5 DEF LivesInv, CleanupReturns, jobs, state
<1> QED
  BY <1>1, <1>2, <1>3, <1>4, <1>5 DEF Queue

\* The steps of a worker and of what it runs keep LivesInv.
LEMMA WorkerLives ==
  ASSUME TypeOK, LivesInv,
         \/ \E w \in Workers : Worker(w)
         \/ \E t \in Tasks, st \in BeforeAllResults : BeforeAllEnds(t, st)
         \/ \E t \in Tasks, st \in {"passed", "failed"} : CommandEnds(t, st)
  PROVE  LivesInv'
<1>1. ASSUME NEW w \in Workers, NEW t \in Tasks, TakeJob(w, t) PROVE LivesInv'
  <2>1. /\ UNCHANGED <<isQueueActive, cleanup, isFlowFinished, terminatingWorker, life>>
        /\ life[w] = "up" /\ worker'[t] = w
        /\ \A u \in Tasks \ {t} : place'[u] = place[u] /\ worker'[u] = worker[u]
    BY <1>1 DEF TypeOK, TakeJob, Take, Answer, Starts, flow, state
  <2> QED
    BY <2>1 DEF LivesInv
<1>2. ASSUME NEW t \in Tasks, NEW st,
             BeforeAllEnds(t, st) \/ CommandEnds(t, st)
      PROVE  LivesInv'
  <2>1. /\ UNCHANGED <<isQueueActive, cleanup, isFlowFinished, terminatingWorker, life, worker>>
        /\ life[worker[t]] = "up"
        /\ \A u \in Tasks \ {t} : place'[u] = place[u]
    BY <1>2 DEF TypeOK, BeforeAllEnds, CommandEnds, Answer, flow
  <2> QED
    BY <2>1 DEF LivesInv
<1>3. ASSUME NEW w \in Workers, IdleTimeout(w) \/ FlagSeen(w)
      PROVE  LivesInv'
  BY <1>3 DEF LivesInv, IdleTimeout, FlagSeen, Terminate, flow, jobs
<1>4. ASSUME NEW w \in Workers, WorkerCloses(w) PROVE LivesInv'
  <2>1. /\ UNCHANGED <<isQueueActive, cleanup, isFlowFinished, terminatingWorker, worker, place>>
        /\ w \in terminatingWorker
        /\ \A u \in Tasks : place[u] \in Taken => worker[u] # w
        /\ life' = [life EXCEPT ![w] = "closed"]
    BY <1>4 DEF WorkerCloses, Busy, flow, jobs, state
  <2> QED
    BY <2>1, WorkersAssumption DEF TypeOK, LivesInv
<1>5. ASSUME NEW w \in Workers, MachineGoesAway(w) PROVE LivesInv'
  BY <1>5, WorkersAssumption DEF TypeOK, LivesInv, MachineGoesAway, flow, jobs, state
<1> QED
  BY <1>1, <1>2, <1>3, <1>4, <1>5 DEF Worker

\* The worker of the flow stays until the flow has finished, and no worker
\* closes over a job.
THEOREM WorkersStay == Spec => []LivesInv
<1>1. TypeOK /\ LivesInv /\ [Next]_vars => LivesInv'
  <2>1. LivesInv /\ UNCHANGED vars => LivesInv'
    BY DEF LivesInv, vars, flow, jobs, state
  <2> QED
    BY <2>1, QueueLives, WorkerLives DEF Next
<1> QED
  BY <1>1, InitLives, WorkersInvariant, PTL DEF Spec

\* As long as the flow does not clean up every job can go on, however many
\* workers leave; and a clean-up never waits for a worker that stays.
THEOREM JobsAreNeverStuck == Spec => [](JobsCanGoOn /\ CleanupCanEnd)
<1>1. TypeOK /\ WorkersInv /\ LivesInv => JobsCanGoOn /\ CleanupCanEnd
  <2> SUFFICES ASSUME TypeOK, WorkersInv, LivesInv PROVE JobsCanGoOn /\ CleanupCanEnd
    OBVIOUS
  <2>1. /\ Local \in Workers /\ life[Local] \in {"up", "closed", "gone"}
        /\ \A t \in Tasks : life[worker[t]] \in {"up", "closed", "gone"}
    BY WorkersAssumption DEF TypeOK
  <2>2. \A t \in Tasks : place[t] = "told" => IsFinal(lastEvent[t])
    BY EventFacts DEF WorkersInv, EventsFollowPlace
  <2>3. JobsCanGoOn
    <3> SUFFICES ASSUME isQueueActive, NEW t \in Tasks
                 PROVE  \/ place[t] \in {"notAdded", "recorded", "saving", "told"}
                        \/ place[t] = "waiting" /\ life[Local] = "up" /\ Local \notin terminatingWorker
                        \/ place[t] \in Taken /\ life[worker[t]] \in {"up", "gone"}
                        \/ place[t] = "answered" /\ cleanup # "returned"
      BY <2>2 DEF JobsCanGoOn
    <3>1. cleanup = "notCalled" /\ ~isFlowFinished
      BY DEF LivesInv
    <3>2. life[Local] = "up" /\ Local \notin terminatingWorker
      BY <2>1, <3>1 DEF LivesInv
    <3>3. place[t] \in Taken => life[worker[t]] \in {"up", "gone"}
      BY <2>1 DEF LivesInv
    <3> QED
      BY <3>1, <3>2, <3>3 DEF TypeOK
  <2>4. CleanupCanEnd
    BY <2>1 DEF LivesInv, CleanupCanEnd
  <2> QED
    BY <2>3, <2>4
<1> QED
  BY <1>1, WorkersInvariant, WorkersStay, PTL

-----------------------------------------------------------------------------
(* Why a task is aborted.                                                   *)

\* A worker that leaves does not come back, and what a before-all command came
\* to is known for good.
LEMMA KnownForGood ==
  ASSUME TypeOK, WorkersInv, [Next]_vars
  PROVE  /\ terminatingWorker \subseteq terminatingWorker'
         /\ \A w \in Workers, g \in Groups :
              tasksByGroupId[w][g] # "unknown" => tasksByGroupId'[w][g] = tasksByGroupId[w][g]
<1>1. ASSUME NEW t \in Tasks, NEW st \in BeforeAllResults, BeforeAllEnds(t, st)
      PROVE  /\ terminatingWorker' = terminatingWorker
             /\ \A w \in Workers, g \in Groups :
                  tasksByGroupId[w][g] # "unknown" => tasksByGroupId'[w][g] = tasksByGroupId[w][g]
  <2>1. /\ tasksByGroupId[worker[t]][GroupOf[t]] = "unknown" /\ terminatingWorker' = terminatingWorker
        /\ tasksByGroupId' = [tasksByGroupId EXCEPT ![worker[t]][GroupOf[t]] = st]
    BY <1>1 DEF WorkersInv, BeforeAllKnown, BeforeAllEnds
  <2> QED
    BY <2>1 DEF TypeOK
<1>2. CASE Queue
  BY <1>2 DEF Queue, AddTasksToQueue, Announce, Saved, Deliver, CleanupBegins, FlagSet, Drained,
     CleanupReturns, Terminate, state
<1>3. ASSUME NEW w \in Workers, Worker(w)
      PROVE  terminatingWorker \subseteq terminatingWorker' /\ tasksByGroupId' = tasksByGroupId
  BY <1>3 DEF Worker, TakeJob, Take, Starts, IdleTimeout, FlagSeen, WorkerCloses, MachineGoesAway,
     Terminate, state
<1>4. ASSUME NEW t \in Tasks, NEW st, CommandEnds(t, st)
      PROVE  UNCHANGED <<terminatingWorker, tasksByGroupId>>
  BY <1>4 DEF CommandEnds
<1> QED
  BY <1>1, <1>2, <1>3, <1>4 DEF Next, vars, state

\* Which steps answer, and what they know then.
LEMMA WhoAnswers ==
  ASSUME TypeOK, WorkersInv, [Next]_vars, NEW t \in Tasks,
         result'[t] = Aborted("skippedAsFailed")
  PROVE  \/ result[t] = Aborted("skippedAsFailed") /\ worker'[t] = worker[t]
         \/ worker'[t] \in terminatingWorker'
         \/ GroupOf[t] # NoGroup /\ tasksByGroupId'[worker'[t]][GroupOf[t]] = "failed"
<1>0. NoResult # Aborted("skippedAsFailed") /\ \A st : Done(st) # Aborted("skippedAsFailed")
  BY DEF NoResult, Silent, Aborted, Done
<1>1. ASSUME NEW u \in Tasks, NEW w \in Workers, TakeJob(w, u)
      PROVE  \/ result[t] = Aborted("skippedAsFailed") /\ worker'[t] = worker[t]
             \/ worker'[t] \in terminatingWorker'
             \/ GroupOf[t] # NoGroup /\ tasksByGroupId'[worker'[t]][GroupOf[t]] = "failed"
  <2>1. u # t => result'[t] = result[t] /\ worker'[t] = worker[t]
    BY <1>1 DEF TypeOK, TakeJob, Take, Answer
  <2>2. u = t => result[t] = NoResult /\ worker'[t] = w
    BY <1>1 DEF TypeOK, WorkersInv, EventsFollowPlace, TakeJob
  <2>3. tasksByGroupId' = tasksByGroupId /\ terminatingWorker' = terminatingWorker
    BY <1>1 DEF TakeJob, Take, Starts, state
  <2> QED
    BY <1>0, <1>1, <2>1, <2>2, <2>3 DEF TakeJob, Take, Answer
<1>2. ASSUME NEW u \in Tasks, NEW st \in BeforeAllResults, BeforeAllEnds(u, st)
      PROVE  \/ result[t] = Aborted("skippedAsFailed") /\ worker'[t] = worker[t]
             \/ worker'[t] \in terminatingWorker'
             \/ GroupOf[t] # NoGroup /\ tasksByGroupId'[worker'[t]][GroupOf[t]] = "failed"
  <2>1. worker' = worker /\ terminatingWorker' = terminatingWorker
        /\ (u # t => result'[t] = result[t])
    BY <1>2 DEF TypeOK, BeforeAllEnds, Answer
  <2>2. u = t => result[t] = NoResult /\ GroupOf[t] # NoGroup
    BY <1>2 DEF WorkersInv, EventsFollowPlace, BeforeAllKnown, BeforeAllEnds
  <2>3. u = t /\ st = "failed" => tasksByGroupId'[worker[t]][GroupOf[t]] = "failed"
    BY <1>2, <2>2, WorkersAssumption DEF TypeOK, BeforeAllEnds
  <2> QED
    BY <1>0, <1>2, <2>1, <2>2, <2>3 DEF BeforeAllEnds, Answer
<1>3. ASSUME NEW u \in Tasks, NEW st, CommandEnds(u, st)
      PROVE  result[t] = Aborted("skippedAsFailed") /\ worker'[t] = worker[t]
  <2>1. result' = [result EXCEPT ![u] = Done(st)] /\ worker' = worker
    BY <1>3 DEF CommandEnds, Answer
  <2> QED
    BY <1>0, <2>1 DEF TypeOK
<1>4. CASE Queue \/ UNCHANGED vars
  BY <1>4 DEF Queue, AddTasksToQueue, Announce, Saved, Deliver, CleanupBegins, FlagSet, Drained,
     CleanupReturns, jobs, vars
<1>5. ASSUME NEW w \in Workers, IdleTimeout(w) \/ FlagSeen(w) \/ WorkerCloses(w) \/ MachineGoesAway(w)
      PROVE  UNCHANGED <<worker, result>>
  BY <1>5 DEF IdleTimeout, FlagSeen, WorkerCloses, MachineGoesAway, jobs
<1> QED
  BY <1>1, <1>2, <1>3, <1>4, <1>5 DEF Next, Worker

\* A task is aborted only by a worker that leaves, or whose before-all command
\* of the group failed: a flow whose workers stay and whose before-all commands
\* pass has the result of every command.
THEOREM AbortsAreExplained == Spec => []AbortsHaveAReason
<1>1. Init => AbortsHaveAReason
  BY DEF Init, AbortsHaveAReason, NoResult, Silent, Aborted
<1>2. TypeOK /\ WorkersInv /\ TypeOK' /\ AbortsHaveAReason /\ [Next]_vars => AbortsHaveAReason'
  <2> SUFFICES ASSUME TypeOK, WorkersInv, TypeOK', AbortsHaveAReason, [Next]_vars,
                      NEW t \in Tasks, result'[t] = Aborted("skippedAsFailed")
               PROVE  \/ worker'[t] \in terminatingWorker'
                      \/ GroupOf[t] # NoGroup /\ tasksByGroupId'[worker'[t]][GroupOf[t]] = "failed"
    BY DEF AbortsHaveAReason
  <2>1. CASE result[t] = Aborted("skippedAsFailed") /\ worker'[t] = worker[t]
    <3>1. worker[t] \in Workers /\ (GroupOf[t] # NoGroup => GroupOf[t] \in Groups)
      BY WorkersAssumption DEF TypeOK
    <3> QED
      BY <2>1, <3>1, KnownForGood DEF AbortsHaveAReason
  <2> QED
    BY <2>1, WhoAnswers
<1> QED
  BY <1>1, <1>2, WorkersInvariant, PTL DEF Spec

-----------------------------------------------------------------------------
(* Every step goes forward.                                                 *)

\* Ranks are numbers.
LEMMA RanksAreNumbers == (\A p : PlaceRank(p) \in 0 .. 7) /\ (\A c : CleanupRank(c) \in 0 .. 4)
BY DEF PlaceRank, CleanupRank

\* A job that goes on has not been there before.
LEMMA JobsGoForward ==
  ASSUME TypeOK, NEW t \in Tasks,
         \/ AddTasksToQueue(t) \/ Announce(t) \/ Saved(t) \/ Deliver(t)
         \/ \E w \in Workers : TakeJob(w, t)
         \/ \E st \in BeforeAllResults : BeforeAllEnds(t, st)
         \/ \E st \in {"passed", "failed"} : CommandEnds(t, st)
  PROVE  WorkersForward
<1>1. /\ \A u \in Tasks \ {t} : place'[u] = place[u]
      /\ PlaceRank(place[t]) < PlaceRank(place'[t])
  BY DEF TypeOK, AddTasksToQueue, Announce, Saved, Deliver, TakeJob, Take, Answer, BeforeAllEnds,
     CommandEnds, PlaceRank
<1>2. UNCHANGED <<cleanup, terminatingWorker, life>>
  BY DEF AddTasksToQueue, Announce, Saved, Deliver, TakeJob, Take, Starts, BeforeAllEnds,
     CommandEnds, flow, state
<1>3. \A u \in Tasks : PlaceRank(place[u]) <= PlaceRank(place'[u])
  BY <1>1, RanksAreNumbers
<1> QED
  BY <1>1, <1>2, <1>3, RanksAreNumbers DEF WorkersForward

\* The queue and its workers never go back and never turn in a circle: with
\* finitely many tasks and workers every run comes to an end.
THEOREM WorkersGoForward == Spec => [][WorkersForward]_vars
<1>1. TypeOK /\ LivesInv /\ [Next]_vars => [WorkersForward]_vars
  <2> SUFFICES ASSUME TypeOK, LivesInv, Next PROVE WorkersForward
    OBVIOUS
  <2>1. CASE CleanupBegins \/ FlagSet \/ Drained \/ CleanupReturns
    <3>1. place' = place /\ life' = life /\ terminatingWorker \subseteq terminatingWorker'
      BY <2>1 DEF CleanupBegins, FlagSet, Drained, CleanupReturns, Terminate, jobs, state
    <3>2. CleanupRank(cleanup) < CleanupRank(cleanup')
      BY <2>1 DEF LivesInv, CleanupBegins, FlagSet, Drained, CleanupReturns, CleanupRank
    <3> QED
      BY <3>1, <3>2, RanksAreNumbers DEF WorkersForward
  <2>2. ASSUME NEW w \in Workers, IdleTimeout(w) \/ FlagSeen(w) \/ WorkerCloses(w) \/ MachineGoesAway(w)
        PROVE  WorkersForward
    <3>1. place' = place /\ cleanup' = cleanup
      BY <2>2 DEF IdleTimeout, FlagSeen, WorkerCloses, MachineGoesAway, flow, jobs
    <3>2. /\ terminatingWorker \subseteq terminatingWorker'
          /\ \A v \in Workers : life[v] # "up" => life'[v] = life[v]
          /\ terminatingWorker' # terminatingWorker \/ life'[w] # life[w]
      BY <2>2 DEF TypeOK, IdleTimeout, FlagSeen, WorkerCloses, MachineGoesAway, Terminate, state
    <3> QED
      BY <3>1, <3>2, RanksAreNumbers DEF WorkersForward
  <2> QED
    BY <2>1, <2>2, JobsGoForward DEF Next, Queue, Worker
<1> QED
  BY <1>1, WorkersInvariant, WorkersStay, PTL DEF Spec
=============================================================================
