---------------------------- MODULE CiLogicProofs ----------------------------
(***************************************************************************)
(* A run of the program closes what it opened, in the right order, aborts  *)
(* tasks only when it failed, and does not exit with 0 for a flow whose    *)
(* tasks did not pass, for any tasks, calls and queues.  It is never stuck *)
(* and never goes back.                                                    *)
(***************************************************************************)
EXTENDS CiLogic, LocalSequentalTaskQueueProofs

\* The steps that are not of the local queue.
Others ==
  \/ Starting
  \/ \E q \in OtherQueues : QueueCreated(q) \/ QueueFails(q) \/ QueueCloses(q)
  \/ QueuesCreated \/ PackageJsonRead
  \/ RunReturns \/ RunRejects
  \/ LogsNotSaved \/ AllClosed
  \/ (LogsSaved /\ ~registered)

\* A step of ci is one of the local queue, or leaves it alone.
LEMMA CiSteps ==
  ASSUME [CiNext]_allVars
  PROVE  \/ StepsAddTasks \/ QueueGoesOn
         \/ LogsSaved /\ registered /\ Cleanup
         \/ Others /\ UNCHANGED vars
         \/ UNCHANGED allVars
<1>1. CASE Starting
  BY <1>1 DEF Others, Starting, StartUpFails, FoundUncommitted, Connect
<1>2. CASE \E q \in OtherQueues : QueueCreated(q) \/ QueueFails(q) \/ QueueCloses(q)
  BY <1>2 DEF Others, QueueCreated, QueueFails, QueueCloses
<1>3. CASE QueuesCreated \/ PackageJsonRead
  BY <1>3 DEF Others, QueuesCreated, PackageJsonRead
<1>4. CASE RunReturns \/ RunRejects
  BY <1>4 DEF Others, RunReturns, RunRejects
<1>5. CASE LogsSaved
  BY <1>5 DEF Others, LogsSaved
<1>6. CASE LogsNotSaved \/ AllClosed
  BY <1>6 DEF Others, LogsNotSaved, AllClosed
<1> QED
  BY <1>1, <1>2, <1>3, <1>4, <1>5, <1>6 DEF CiNext, Finishing

\* In a run of the program the local queue is the one of
\* LocalSequentalTaskQueue: all that is proved of that one holds of it.
THEOREM QueueInCi == CiSpec => Spec
<1>1. CiInit => Init
  BY DEF CiInit
<1>2. [CiNext]_allVars => [Next]_vars
  <2> SUFFICES ASSUME [CiNext]_allVars PROVE [Next]_vars
    OBVIOUS
  <2>1. CASE StepsAddTasks \/ QueueGoesOn
    BY <2>1 DEF StepsAddTasks, QueueGoesOn, Next
  <2>2. CASE LogsSaved /\ registered /\ Cleanup
    BY <2>2 DEF Next
  <2>3. CASE UNCHANGED allVars
    BY <2>3 DEF allVars
  <2> QED
    BY <2>1, <2>2, <2>3, CiSteps
<1> QED
  BY <1>1, <1>2, PTL DEF CiSpec, Spec

-----------------------------------------------------------------------------
(* Type correctness.                                                        *)

\* The steps that are not of the local queue are well typed.
LEMMA OthersType ==
  ASSUME CiTypeOK, Others \/ LogsSaved
  PROVE  /\ pc' \in {"starting", "creating", "reading", "running", "saving", "cleaning",
                     "returned", "rejected"}
         /\ steps' \in {"notStarted", "running", "ended"}
         /\ fatalError' \in BOOLEAN /\ registered' \in BOOLEAN
         /\ processExitCode' \in {0, 1} /\ exitCode' \in {0, 1}
         /\ connection' \in {"none", "open", "closed"}
         /\ others' \in [OtherQueues -> {"none", "creating", "open", "failed", "closing", "closed"}]
<1>1. CASE Starting
  BY <1>1 DEF CiTypeOK, Starting, StartUpFails, FoundUncommitted, Connect
<1>3. CASE \E q \in OtherQueues : QueueCreated(q) \/ QueueFails(q) \/ QueueCloses(q)
  BY <1>3 DEF CiTypeOK, QueueCreated, QueueFails, QueueCloses, Fatal
<1>4. CASE QueuesCreated \/ PackageJsonRead
  BY <1>4 DEF CiTypeOK, QueuesCreated, PackageJsonRead, Fatal
<1>5. CASE RunReturns \/ RunRejects
  BY <1>5 DEF CiTypeOK, RunReturns, RunRejects, Fatal
<1>6. CASE LogsSaved \/ LogsNotSaved \/ AllClosed
  BY <1>6 DEF CiTypeOK, LogsSaved, LogsNotSaved, AllClosed, Return
<1> QED
  BY <1>1, <1>3, <1>4, <1>5, <1>6 DEF Others

\* A run of the program is well typed.
THEOREM CiTypeCorrect == CiSpec => []CiTypeOK
<1>1. CiInit => CiTypeOK
  BY InitType DEF CiInit, CiTypeOK
<1>2. CiTypeOK /\ TypeOK' /\ [CiNext]_allVars => CiTypeOK'
  <2> SUFFICES ASSUME CiTypeOK, TypeOK', [CiNext]_allVars PROVE CiTypeOK'
    OBVIOUS
  <2>1. CASE StepsAddTasks \/ QueueGoesOn \/ UNCHANGED allVars
    BY <2>1 DEF CiTypeOK, StepsAddTasks, QueueGoesOn, allVars, ciVars
  <2>2. CASE Others \/ LogsSaved
    BY <2>2, OthersType DEF CiTypeOK
  <2> QED
    BY <2>1, <2>2, CiSteps
<1> QED
  BY <1>1, <1>2, QueueInCi, QueuesInvariant, PTL DEF CiSpec

-----------------------------------------------------------------------------
(* The local queue when all that was accepted has ended.                    *)

\* A queue without tasks is empty.
LEMMA NoTasks ==
  ASSUME NEW s \in Seq(Tasks), TasksIn(s) = {}
  PROVE  s = <<>>
<1>1. DOMAIN s = 1 .. Len(s) /\ Len(s) \in Nat
  OBVIOUS
<1>2. ASSUME Len(s) # 0 PROVE FALSE
  <2>1. 1 \in DOMAIN s
    BY <1>1, <1>2
  <2>2. s[1] \in TasksIn(s)
    BY <2>1 DEF TasksIn
  <2> QED
    BY <2>2
<1> QED
  BY <1>2

\* When all that was accepted has ended, nothing waits and nothing runs.
LEMMA FinalIsCalm ==
  ASSUME TypeOK, QueuesInv, OrderInv, cleanup # "returned",
         \A t \in Accepted : IsFinal(lastEvent[t])
  PROVE  Calm
BY EventStatuses DEF QueuesInv, EventsFollowQueues, OrderInv, Calm, IsFinal, Silent, Scheduled, Running

\* A calm queue stays calm, and its clean-up tells nothing.
LEMMA CalmStays ==
  ASSUME TypeOK, Calm, QueueGoesOn \/ Cleanup
  PROVE  lastEvent' = lastEvent /\ Calm' /\ Accepted' = Accepted
<1>1. /\ pending = <<>> /\ taskQueue = <<>> /\ workersList = {}
      /\ taskQueue \o pending = <<>>
  <2>1. pending = <<>> /\ taskQueue = <<>>
    BY NoTasks DEF TypeOK, Calm
  <2> QED
    BY <2>1 DEF Calm
<1>2. ASSUME AbortAll(<<>>) PROVE lastEvent' = lastEvent /\ TasksIn(taskQueue') = {}
  BY <1>1, <1>2, EmptyQueue DEF AbortAll, TypeOK
<1>3. CASE Announce
  <2>1. CASE cleanup = "draining"
    BY <1>1, <1>2, <1>3, <2>1, EmptyQueue DEF Announce, Calm, Accepted
  <2>2. CASE cleanup # "draining"
    BY <1>1, <1>3, <2>2, EmptyQueue DEF Announce, Calm, Accepted, TypeOK
  <2> QED
    BY <2>1, <2>2
<1>4. CASE Cleanup
  BY <1>1, <1>2, <1>4, EmptyQueue DEF Cleanup, Calm, Accepted
<1>5. ~StartTask /\ \A t \in Tasks, st \in {"passed", "failed"} : ~TaskEnds(t, st)
  BY <1>1 DEF StartTask, TaskEnds
<1> QED
  BY <1>3, <1>4, <1>5 DEF QueueGoesOn

\* Only a clean-up aborts.
LEMMA NoAbortBeforeCleanup ==
  ASSUME TypeOK, QueuesInv, ~isQueueKilled, QueueGoesOn, NEW t \in Tasks,
         lastEvent'[t].executionStatus = "aborted"
  PROVE  lastEvent[t].executionStatus = "aborted"
<1>1. lastEvent'[t] \in {lastEvent[t], Scheduled, Running, Done("passed"), Done("failed")}
  <2>1. CASE Announce
    BY <2>1 DEF Announce, QueuesInv, CleanupFollowsQueues
  <2>2. CASE StartTask
    BY <2>2 DEF StartTask, TypeOK
  <2>3. ASSUME NEW u \in Tasks, NEW st \in {"passed", "failed"}, TaskEnds(u, st)
        PROVE lastEvent'[t] \in {lastEvent[t], Scheduled, Running, Done("passed"), Done("failed")}
    BY <2>3 DEF TaskEnds, TypeOK
  <2> QED
    BY <2>1, <2>2, <2>3 DEF QueueGoesOn
<1> QED
  BY <1>1, EventStatuses DEF Scheduled, Running

-----------------------------------------------------------------------------
(* The inductive invariant.                                                 *)

\* How far ci has come tells what there is to close.
LEMMA PhaseStep ==
  ASSUME CiTypeOK, QueuesInv, PhaseInv, [CiNext]_allVars
  PROVE  PhaseInv'
<1>1. CASE StepsAddTasks \/ QueueGoesOn
  <2>1. UNCHANGED <<ciVars, isQueueKilled>> /\ (cleanup = "returned" => cleanup' = "returned")
    BY <1>1 DEF StepsAddTasks, AddTasksToQueue, QueueGoesOn, Announce, AbortAll, StartTask, TaskEnds
  <2> QED
    BY <2>1 DEF PhaseInv, ciVars
<1>2. CASE LogsSaved /\ registered /\ Cleanup
  BY <1>2 DEF PhaseInv, LogsSaved, Cleanup
<1>3. CASE Starting /\ UNCHANGED vars
  BY <1>3 DEF PhaseInv, Starting, StartUpFails, FoundUncommitted, Connect, vars
<1>4. ASSUME NEW q \in OtherQueues, QueueCreated(q) \/ QueueFails(q) \/ QueueCloses(q), UNCHANGED vars
      PROVE  PhaseInv'
  <2>1. CASE QueueCreated(q)
    BY <1>4, <2>1 DEF CiTypeOK, PhaseInv, QueueCreated, vars
  <2>2. CASE QueueFails(q)
    BY <1>4, <2>2 DEF CiTypeOK, PhaseInv, QueueFails, Fatal, vars
  <2>3. CASE QueueCloses(q)
    BY <1>4, <2>3 DEF CiTypeOK, PhaseInv, QueueCloses, vars
  <2> QED
    BY <1>4, <2>1, <2>2, <2>3
<1>5. CASE (QueuesCreated \/ PackageJsonRead) /\ UNCHANGED vars
  BY <1>5 DEF PhaseInv, QueuesCreated, PackageJsonRead, Fatal, vars
<1>6. CASE (RunReturns \/ RunRejects) /\ UNCHANGED vars
  BY <1>6 DEF PhaseInv, RunReturns, RunRejects, Fatal, vars
<1>7. CASE LogsNotSaved \/ AllClosed
  BY <1>7 DEF PhaseInv, LogsNotSaved, AllClosed, Return, vars
<1>8. CASE LogsSaved /\ ~registered
  BY <1>8 DEF PhaseInv, LogsSaved, Return, vars
<1>9. CASE UNCHANGED allVars
  BY <1>9 DEF PhaseInv, allVars, ciVars, vars
<1> QED
  BY <1>1, <1>2, <1>3, <1>4, <1>5, <1>6, <1>7, <1>8, <1>9, CiSteps DEF Others

\* What fatalError and the exit code tell.
LEMMA ResultStep ==
  ASSUME CiTypeOK, QueuesInv, OrderInv, PhaseInv, ResultInv, [CiNext]_allVars
  PROVE  ResultInv'
<1>1. CASE StepsAddTasks
  BY <1>1 DEF PhaseInv, ResultInv, StepsAddTasks, ciVars
<1>2. CASE QueueGoesOn
  <2>1. UNCHANGED ciVars
    BY <1>2 DEF QueueGoesOn
  <2>2. steps = "ended" => lastEvent' = lastEvent /\ Calm' /\ Accepted' = Accepted
    BY <1>2, CalmStays DEF CiTypeOK, ResultInv
  <2> QED
    BY <2>1, <2>2 DEF ResultInv, ciVars
<1>3. CASE LogsSaved /\ registered /\ Cleanup
  <2>1. steps = "ended" => lastEvent' = lastEvent /\ Calm' /\ Accepted' = Accepted
    BY <1>3, CalmStays DEF CiTypeOK, ResultInv
  <2> QED
    BY <1>3, <2>1 DEF ResultInv, LogsSaved
<1>4. ASSUME UNCHANGED vars
      PROVE  Calm' = Calm /\ Accepted' = Accepted /\ lastEvent' = lastEvent
  BY <1>4 DEF vars, queues, Calm, Accepted
<1>5. CASE Starting /\ UNCHANGED vars
  BY <1>4, <1>5 DEF PhaseInv, ResultInv, Starting, StartUpFails, FoundUncommitted, Connect
<1>6. ASSUME NEW q \in OtherQueues, QueueCreated(q) \/ QueueFails(q) \/ QueueCloses(q), UNCHANGED vars
      PROVE  ResultInv'
  BY <1>4, <1>6 DEF PhaseInv, ResultInv, QueueCreated, QueueFails, QueueCloses, Fatal
<1>7. CASE (QueuesCreated \/ PackageJsonRead) /\ UNCHANGED vars
  BY <1>4, <1>7 DEF PhaseInv, ResultInv, QueuesCreated, PackageJsonRead, Fatal
<1>8. CASE RunReturns /\ UNCHANGED vars
  <2>1. Calm
    <3>1. cleanup # "returned"
      BY <1>8 DEF RunReturns, PhaseInv, QueuesInv, CleanupFollowsQueues
    <3> QED
      BY <1>8, <3>1, FinalIsCalm DEF RunReturns, CiTypeOK
  <2> QED
    BY <1>4, <1>8, <2>1 DEF ResultInv, RunReturns
<1>9. CASE RunRejects /\ UNCHANGED vars
  BY <1>4, <1>9 DEF PhaseInv, ResultInv, RunRejects, Fatal
<1>10. CASE (LogsNotSaved \/ AllClosed) /\ UNCHANGED vars
  BY <1>4, <1>10 DEF ResultInv, LogsNotSaved, AllClosed, Return
<1>11. CASE LogsSaved /\ ~registered /\ UNCHANGED vars
  BY <1>4, <1>11 DEF ResultInv, LogsSaved, Return
<1>12. CASE UNCHANGED allVars
  BY <1>4, <1>12 DEF ResultInv, allVars, ciVars
<1> QED
  BY <1>1, <1>2, <1>3, <1>5, <1>6, <1>7, <1>8, <1>9, <1>10, <1>11, <1>12, CiSteps DEF Others

\* A clean-up before the steps have ended is that of a flow that failed.
LEMMA AbortStep ==
  ASSUME CiTypeOK, QueuesInv, PhaseInv, ResultInv, OnlyFatalFlowsAbort, [CiNext]_allVars
  PROVE  OnlyFatalFlowsAbort'
<1>1. CASE StepsAddTasks
  BY <1>1 DEF OnlyFatalFlowsAbort, StepsAddTasks, AddTasksToQueue, ciVars
<1>2. CASE QueueGoesOn
  <2>1. fatalError' = fatalError
    BY <1>2 DEF QueueGoesOn, ciVars
  <2>2. CASE ~isQueueKilled
    BY <1>2, <2>1, <2>2, NoAbortBeforeCleanup DEF OnlyFatalFlowsAbort, CiTypeOK
  <2>3. CASE isQueueKilled /\ ~fatalError
    <3>1. lastEvent' = lastEvent
      BY <1>2, <2>3, CalmStays DEF PhaseInv, ResultInv, CiTypeOK
    <3> QED
      BY <2>1, <3>1 DEF OnlyFatalFlowsAbort
  <2> QED
    BY <2>1, <2>2, <2>3 DEF OnlyFatalFlowsAbort
<1>3. CASE LogsSaved /\ registered /\ Cleanup
  <2>1. fatalError' = fatalError
    BY <1>3 DEF LogsSaved
  <2>2. CASE ~fatalError
    <3>1. lastEvent' = lastEvent
      BY <1>3, <2>2, CalmStays DEF LogsSaved, PhaseInv, ResultInv, CiTypeOK
    <3> QED
      BY <2>1, <3>1 DEF OnlyFatalFlowsAbort
  <2> QED
    BY <2>1, <2>2 DEF OnlyFatalFlowsAbort
<1>4. CASE (Others \/ UNCHANGED allVars) /\ UNCHANGED vars
  <2>1. lastEvent' = lastEvent
    BY <1>4 DEF vars
  <2>2. fatalError => fatalError'
    BY <1>4 DEF Others, Starting, StartUpFails, FoundUncommitted, Connect, QueueCreated, QueueFails,
       QueueCloses, QueuesCreated, PackageJsonRead, RunReturns, RunRejects, Fatal, LogsNotSaved,
       AllClosed, LogsSaved, allVars, ciVars
  <2> QED
    BY <2>1, <2>2 DEF OnlyFatalFlowsAbort
<1> QED
  BY <1>1, <1>2, <1>3, <1>4, CiSteps DEF allVars

\* In every reachable state of a run CiInv holds.
THEOREM CiInvariant == CiSpec => []CiInv
<1>1. CiInit => CiInv
  <2> SUFFICES ASSUME CiInit PROVE CiInv
    OBVIOUS
  <2>1. \A t \in Tasks : lastEvent[t].executionStatus # "aborted"
    BY DEF CiInit, Init, EventsInit, Silent
  <2> QED
    BY <2>1 DEF CiInit, Init, CiInv, PhaseInv, ResultInv, OnlyFatalFlowsAbort
<1>2. CiTypeOK /\ QueuesInv /\ OrderInv /\ CiInv /\ [CiNext]_allVars => CiInv'
  BY PhaseStep, ResultStep, AbortStep DEF CiInv
<1> QED
  BY <1>1, <1>2, CiTypeCorrect, QueueInCi, QueuesInvariant, OrderInvariant, PTL DEF CiSpec

-----------------------------------------------------------------------------
\* The connection is closed after everything that uses it, and what was
\* created is closed in the end.
THEOREM ClosesInOrder == CiSpec => []ClosedInOrder
<1>1. CiTypeOK /\ QueuesInv /\ CiInv => ClosedInOrder
  BY DEF CiTypeOK, QueuesInv, CleanupFollowsQueues, CiInv, PhaseInv, ClosedInOrder
<1> QED
  BY <1>1, CiTypeCorrect, QueueInCi, QueuesInvariant, CiInvariant, PTL

\* A task is aborted only in a flow that failed unexpectedly.
THEOREM AbortsAreFatal == CiSpec => []OnlyFatalFlowsAbort
<1>1. CiInv => OnlyFatalFlowsAbort
  BY DEF CiInv
<1> QED
  BY <1>1, CiInvariant, PTL

\* The process exits with 0 only after a flow without a fatal error, all of
\* whose tasks have passed.
THEOREM ZeroIsTrue == CiSpec => []ZeroMeansPassed
<1>1. CiInv => ZeroMeansPassed
  BY DEF CiInv, ResultInv, ZeroMeansPassed
<1> QED
  BY <1>1, CiInvariant, PTL

-----------------------------------------------------------------------------
(* No dead end: the safety half of CiSettles.                               *)

\* Wherever ci waits, something it waits for can still happen: a queue is being
\* created or all are, the local queue has a turn to take or every task has its
\* answer, a clean-up is on its way or all have settled.  Nobody killed the
\* queue before finishFlow does.
CiCanGoOn ==
  /\ pc = "creating" => \/ \E q \in OtherQueues : others[q] = "creating"
                        \/ \A q \in OtherQueues : others[q] = "open"
  /\ pc = "running" => QueueTurnIsDue \/ \A t \in Accepted : IsFinal(lastEvent[t])
  /\ pc = "saving" => ~isQueueKilled
  /\ pc = "cleaning" => \/ ~internalIdle
                        \/ \E q \in OtherQueues : others[q] = "closing"
                        \/ cleanup = "returned" /\ \A q \in OtherQueues : others[q] = "closed"

\* How far ci and a queue are.
Phase(p) == CASE p = "starting" -> 0 [] p = "creating" -> 1 [] p = "reading" -> 2
              [] p = "running"  -> 3 [] p = "saving"   -> 4 [] p = "cleaning" -> 5
              [] OTHER -> 6

Stage(o) == CASE o = "none" -> 0 [] o = "creating" -> 1 [] o \in {"open", "failed"} -> 2
              [] o = "closing" -> 3 [] OTHER -> 4

\* Every step of a run goes forward: neither ci nor a queue ever goes back, and
\* a step that advances none of them is one of the local queue that does.
CiForward ==
  /\ Phase(pc) <= Phase(pc') /\ \A q \in OtherQueues : Stage(others[q]) <= Stage(others'[q])
  /\ [QueueForward]_vars
  /\ \/ Phase(pc) < Phase(pc')
     \/ \E q \in OtherQueues : Stage(others[q]) < Stage(others'[q])
     \/ vars' # vars

\* A run of the program never waits for what cannot come.
THEOREM CiIsNeverStuck == CiSpec => []CiCanGoOn
<1>1. TypeOK /\ QueuesInv /\ OrderInv /\ CleanupCanEnd /\ CiTypeOK /\ CiInv => CiCanGoOn
  <2> SUFFICES ASSUME TypeOK, QueuesInv, OrderInv, CleanupCanEnd, CiTypeOK, CiInv PROVE CiCanGoOn
    OBVIOUS
  <2>1. CASE pc = "creating"
    BY <2>1 DEF CiInv, PhaseInv, CiCanGoOn
  <2>2. CASE pc = "running"
    <3>1. ~isQueueKilled
      BY <2>2 DEF CiInv, PhaseInv
    <3>2. ~QueueTurnIsDue => \A t \in Accepted : IsFinal(lastEvent[t])
      BY <3>1, AnswersAll DEF QueueAnswers, IsFinal
    <3> QED
      BY <2>2, <3>2 DEF CiCanGoOn
  <2>3. CASE pc = "saving"
    BY <2>3 DEF CiInv, PhaseInv, CiCanGoOn
  <2>4. CASE pc = "cleaning"
    <3>1. isQueueKilled /\ \A q \in OtherQueues : others[q] \in {"closing", "closed"}
      BY <2>4 DEF CiInv, PhaseInv
    <3>2. cleanup = "returned" \/ ~internalIdle
      BY <3>1 DEF TypeOK, QueuesInv, CleanupFollowsQueues, CleanupCanEnd
    <3> QED
      BY <2>4, <3>1, <3>2 DEF CiCanGoOn
  <2> QED
    BY <2>1, <2>2, <2>3, <2>4 DEF CiCanGoOn
<1> QED
  BY <1>1, QueueInCi, QueuesInvariant, OrderInvariant, CleanupIsNeverStuck, CiTypeCorrect,
     CiInvariant, PTL

\* Phases and stages are numbers.
LEMMA PhasesAreNumbers == (\A p : Phase(p) \in 0 .. 6) /\ (\A o : Stage(o) \in 0 .. 4)
BY DEF Phase, Stage

\* A step of ci, or of what it waits for, advances it.
LEMMA OthersGoForward ==
  ASSUME CiTypeOK, CiInv, Others \/ LogsSaved
  PROVE  /\ Phase(pc) <= Phase(pc') /\ \A q \in OtherQueues : Stage(others[q]) <= Stage(others'[q])
         /\ \/ Phase(pc) < Phase(pc')
            \/ \E q \in OtherQueues : Stage(others[q]) < Stage(others'[q])
<1>1. CASE Starting
  BY <1>1 DEF CiTypeOK, CiInv, PhaseInv, Starting, StartUpFails, FoundUncommitted, Connect, Phase, Stage
<1>2. CASE \E q \in OtherQueues : QueueCreated(q) \/ QueueFails(q) \/ QueueCloses(q)
  <2>1. PICK q \in OtherQueues : QueueCreated(q) \/ QueueFails(q) \/ QueueCloses(q)
    BY <1>2
  <2>2. Stage(others[q]) < Stage(others'[q]) /\ \A r \in OtherQueues \ {q} : others'[r] = others[r]
    BY <2>1 DEF CiTypeOK, QueueCreated, QueueFails, QueueCloses, Stage
  <2>3. Phase(pc) <= Phase(pc')
    BY <2>1 DEF QueueCreated, QueueFails, QueueCloses, Fatal, Phase
  <2>4. \A r \in OtherQueues : Stage(others[r]) <= Stage(others'[r])
    BY <2>2 DEF Stage
  <2> QED
    BY <2>2, <2>3, <2>4
<1>3. CASE QueuesCreated \/ PackageJsonRead \/ RunReturns \/ RunRejects \/ LogsNotSaved \/ AllClosed
  <2>1. others' = others /\ Phase(pc) < Phase(pc')
    BY <1>3 DEF QueuesCreated, PackageJsonRead, RunReturns, RunRejects, LogsNotSaved, AllClosed,
       Fatal, Return, Phase
  <2> QED
    BY <2>1, PhasesAreNumbers
<1>4. CASE LogsSaved
  <2>1. Phase(pc) < Phase(pc')
    BY <1>4 DEF LogsSaved, Return, Phase
  <2>2. CASE registered
    <3>1. \A q \in OtherQueues : others[q] = "open" /\ others'[q] = "closing"
      BY <1>4, <2>2 DEF LogsSaved, CiInv, PhaseInv
    <3>2. \A q \in OtherQueues : Stage(others[q]) <= Stage(others'[q])
      BY <3>1 DEF Stage
    <3> QED
      BY <2>1, <3>2, PhasesAreNumbers
  <2>3. CASE ~registered
    BY <1>4, <2>1, <2>3, PhasesAreNumbers DEF LogsSaved
  <2> QED
    BY <2>2, <2>3
<1> QED
  BY <1>1, <1>2, <1>3, <1>4 DEF Others

\* A run of the program never goes back and never turns in a circle.
THEOREM CiGoesForward == CiSpec => [][CiForward]_allVars
<1>1. TypeOK /\ QueuesInv /\ TypeOK' /\ CiTypeOK /\ CiInv /\ [Next]_vars /\ [CiNext]_allVars
        => [CiForward]_allVars
  <2> SUFFICES ASSUME TypeOK, QueuesInv, TypeOK', CiTypeOK, CiInv, [Next]_vars, [CiNext]_allVars,
                      allVars' # allVars
               PROVE  CiForward
    OBVIOUS
  <2>1. [QueueForward]_vars
    BY TurnsGoForward
  <2>2. CASE Others \/ LogsSaved
    BY <2>1, <2>2, OthersGoForward DEF CiForward
  <2>3. CASE StepsAddTasks \/ QueueGoesOn
    <3>1. ciVars' = ciVars
      BY <2>3 DEF StepsAddTasks, QueueGoesOn
    <3>2. vars' # vars
      BY <3>1 DEF allVars
    <3>3. pc' = pc /\ others' = others
      BY <3>1 DEF ciVars
    <3> QED
      BY <2>1, <3>2, <3>3 DEF CiForward, Phase, Stage
  <2> QED
    BY <2>2, <2>3, CiSteps
<1>2. CiSpec => [][Next]_vars
  BY QueueInCi, PTL DEF Spec
<1> QED
  BY <1>1, <1>2, QueueInCi, QueuesInvariant, CiTypeCorrect, CiInvariant, PTL DEF CiSpec
=============================================================================
