-------------------- MODULE LocalSequentalTaskQueueProofs --------------------
(***************************************************************************)
(* The local queue keeps the promise of a task queue, and its cleanup      *)
(* leaves no accepted task waiting, for any tasks and any calls.  No task  *)
(* is forgotten, and no step goes back.                                    *)
(***************************************************************************)
EXTENDS LocalSequentalTaskQueue, TLAPS

\* The kinds of events, none of which is silence.
LEMMA EventFacts ==
  /\ Silent \notin Event /\ Scheduled \in Event /\ Running \in Event
  /\ Scheduled # Running /\ FinalResult \subseteq Event
  /\ Scheduled \notin FinalResult /\ Running \notin FinalResult
  /\ \A st \in Status : Done(st) \in FinalResult /\ Aborted(st) \in FinalResult
  /\ \A st, u \in Status : Done(st) # Aborted(u)
  /\ \A r \in FinalResult : IsFinal(r)
BY DEF Event, Silent, Scheduled, Running, FinalResult, Done, Aborted, IsFinal, NoStatus, Status

\* Which events may follow which.
LEMMA FollowFacts ==
  /\ \A e \in Event : MayFollow(Silent, e)
  /\ MayFollow(Scheduled, Running)
  /\ \A e \in FinalResult : MayFollow(Scheduled, e) /\ MayFollow(Running, e)
BY DEF MayFollow, Event, Silent, Scheduled, Running, FinalResult, IsFinal, Rank

\* The tasks of two queues put together are the tasks of both.
LEMMA TasksOfConcat ==
  ASSUME NEW s \in Seq(Tasks), NEW r \in Seq(Tasks)
  PROVE  /\ s \o r \in Seq(Tasks)
         /\ TasksIn(s \o r) = TasksIn(s) \cup TasksIn(r)
<1>1. /\ s \o r \in Seq(Tasks) /\ Len(s \o r) = Len(s) + Len(r)
      /\ \A i \in 1 .. Len(s) + Len(r) : (s \o r)[i] = IF i <= Len(s) THEN s[i] ELSE r[i - Len(s)]
  OBVIOUS
<1>2. ASSUME NEW x \in TasksIn(s \o r) PROVE x \in TasksIn(s) \cup TasksIn(r)
  BY <1>1, <1>2 DEF TasksIn
<1>3. ASSUME NEW x \in TasksIn(s) PROVE x \in TasksIn(s \o r)
  BY <1>1, <1>3 DEF TasksIn
<1>4. ASSUME NEW x \in TasksIn(r) PROVE x \in TasksIn(s \o r)
  <2>1. PICK i \in 1 .. Len(r) : x = r[i]
    BY <1>4 DEF TasksIn
  <2>2. (s \o r)[Len(s) + i] = x /\ Len(s) + i \in DOMAIN (s \o r)
    BY <1>1, <2>1
  <2> QED
    BY <2>2 DEF TasksIn
<1> QED
  BY <1>1, <1>2, <1>3, <1>4

\* Queues without duplicates and without a common task make one without duplicates.
LEMMA ConcatWithoutDuplicates ==
  ASSUME NEW s \in Seq(Tasks), NEW r \in Seq(Tasks), NoDuplicates(s), NoDuplicates(r),
         TasksIn(s) \cap TasksIn(r) = {}
  PROVE  NoDuplicates(s \o r)
<1>1. /\ Len(s \o r) = Len(s) + Len(r) /\ s \o r \in Seq(Tasks)
      /\ \A i \in 1 .. Len(s) + Len(r) : (s \o r)[i] = IF i <= Len(s) THEN s[i] ELSE r[i - Len(s)]
  OBVIOUS
<1>2. \A i \in 1 .. Len(s), j \in 1 .. Len(r) : s[i] # r[j]
  BY DEF TasksIn
<1>3. \A i, j \in 1 .. Len(s) : s[i] = s[j] => i = j
  BY DEF NoDuplicates
<1>4. \A i, j \in 1 .. Len(r) : r[i] = r[j] => i = j
  BY DEF NoDuplicates
<1> SUFFICES ASSUME NEW i \in 1 .. Len(s) + Len(r), NEW j \in 1 .. Len(s) + Len(r),
                    (s \o r)[i] = (s \o r)[j]
             PROVE  i = j
  BY <1>1 DEF NoDuplicates
<1>5. CASE i <= Len(s) /\ j <= Len(s)
  BY <1>1, <1>3, <1>5
<1>6. CASE i > Len(s) /\ j > Len(s)
  BY <1>1, <1>4, <1>6
<1>7. CASE i <= Len(s) /\ j > Len(s)
  BY <1>1, <1>2, <1>7
<1>8. CASE i > Len(s) /\ j <= Len(s)
  BY <1>1, <1>2, <1>8
<1> QED
  BY <1>5, <1>6, <1>7, <1>8

\* The first task of a queue, and the others.
LEMMA TasksOfTail ==
  ASSUME NEW s \in Seq(Tasks), s # <<>>
  PROVE  /\ Head(s) \in Tasks /\ Tail(s) \in Seq(Tasks)
         /\ TasksIn(s) = {Head(s)} \cup TasksIn(Tail(s))
         /\ NoDuplicates(s) => NoDuplicates(Tail(s)) /\ Head(s) \notin TasksIn(Tail(s))
<1>1. /\ Tail(s) \in Seq(Tasks) /\ Len(Tail(s)) = Len(s) - 1 /\ Len(s) \in Nat /\ Len(s) > 0
      /\ \A i \in 1 .. Len(s) - 1 : Tail(s)[i] = s[i + 1]
      /\ Head(s) = s[1] /\ Head(s) \in Tasks
  OBVIOUS
<1>2. ASSUME NEW x \in TasksIn(s) PROVE x \in {Head(s)} \cup TasksIn(Tail(s))
  <2>1. PICK i \in 1 .. Len(s) : x = s[i]
    BY <1>2 DEF TasksIn
  <2>2. CASE i = 1
    BY <1>1, <2>1, <2>2
  <2>3. CASE i # 1
    <3>1. i - 1 \in 1 .. Len(s) - 1 /\ Tail(s)[i - 1] = s[i]
      BY <1>1, <2>3
    <3>2. i - 1 \in DOMAIN Tail(s)
      BY <1>1, <3>1
    <3> QED
      BY <2>1, <3>1, <3>2 DEF TasksIn
  <2> QED
    BY <2>2, <2>3
<1>3. ASSUME NEW x \in {Head(s)} \cup TasksIn(Tail(s)) PROVE x \in TasksIn(s)
  BY <1>1, <1>3 DEF TasksIn
<1>4. ASSUME NoDuplicates(s) PROVE NoDuplicates(Tail(s)) /\ Head(s) \notin TasksIn(Tail(s))
  <2>1. \A i, j \in 1 .. Len(s) : s[i] = s[j] => i = j
    BY <1>4 DEF NoDuplicates
  <2> QED
    BY <1>1, <2>1 DEF NoDuplicates, TasksIn
<1> QED
  BY <1>1, <1>2, <1>3, <1>4

\* An empty queue has no tasks and no duplicates.
LEMMA EmptyQueue == /\ TasksIn(<<>>) = {} /\ NoDuplicates(<<>>) /\ <<>> \in Seq(Tasks)
BY DEF TasksIn, NoDuplicates

-----------------------------------------------------------------------------
(* Type correctness.                                                        *)

\* What an abort tells is an event.
LEMMA EventsOfQueue ==
  /\ Scheduled \in Event /\ Running \in Event /\ Aborted("skippedAsFailed") \in FinalResult
  /\ Aborted("skippedAsFailed") \in Event
  /\ \A st \in {"passed", "failed"} : Done(st) \in FinalResult /\ Done(st) \in Event
  /\ Silent \notin Event /\ Scheduled \notin FinalResult /\ Running \notin FinalResult
  /\ Scheduled # Running
BY EventFacts DEF Status

\* The arguments of the calls are queues without duplicates.
LEMMA CallFacts ==
  /\ Len(Calls) \in Nat
  /\ \A i \in DOMAIN Calls : Calls[i] \in Seq(Tasks) /\ NoDuplicates(Calls[i])
BY CallsAssumption DEF NoDuplicates

\* The queue starts well typed.
LEMMA InitType == Init => TypeOK
<1> SUFFICES ASSUME Init PROVE TypeOK
  OBVIOUS
<1>1. lastEvent \in [Tasks -> Event \cup {Silent}] /\ workersList \subseteq Tasks
  BY DEF Init, EventsInit
<1>2. calls \in 0 .. Len(Calls)
  BY CallFacts DEF Init
<1>3. pending \in Seq(Tasks) /\ taskQueue \in Seq(Tasks)
  BY EmptyQueue DEF Init
<1> QED
  BY <1>1, <1>2, <1>3 DEF Init, TypeOK

\* Aborting what waits and runs is well typed.
LEMMA AbortType ==
  ASSUME TypeOK, NEW waiting \in Seq(Tasks), AbortAll(waiting)
  PROVE  /\ lastEvent' \in [Tasks -> Event \cup {Silent}]
         /\ taskQueue' \in Seq(Tasks)
         /\ cleanup' \in {"notCalled", "draining", "returned"}
BY EventsOfQueue, EmptyQueue DEF TypeOK, AbortAll

\* Every step is well typed.
LEMMA NextType ==
  ASSUME TypeOK, [Next]_vars
  PROVE  TypeOK'
<1>1. CASE AddTasksToQueue
  <2>1. calls + 1 \in DOMAIN Calls /\ calls + 1 \in 0 .. Len(Calls)
    BY <1>1, CallFacts, CallsAssumption DEF TypeOK, AddTasksToQueue
  <2>2. pending \o Calls[calls + 1] \in Seq(Tasks)
    BY <2>1, CallFacts, TasksOfConcat DEF TypeOK
  <2> QED
    BY <1>1, <2>1, <2>2 DEF TypeOK, AddTasksToQueue
<1>2. CASE Announce
  <2>1. taskQueue \o pending \in Seq(Tasks) /\ pending' \in Seq(Tasks)
    BY <1>2, TasksOfConcat, EmptyQueue DEF TypeOK, Announce
  <2>2. CASE cleanup = "draining"
    BY <1>2, <2>1, <2>2, AbortType DEF TypeOK, Announce
  <2>3. CASE cleanup # "draining"
    BY <1>2, <2>1, <2>3, EventsOfQueue DEF TypeOK, Announce
  <2> QED
    BY <2>2, <2>3
<1>3. CASE StartTask
  <2>1. Head(taskQueue) \in Tasks /\ Tail(taskQueue) \in Seq(Tasks)
    BY <1>3, TasksOfTail DEF TypeOK, StartTask
  <2> QED
    BY <1>3, <2>1, EventsOfQueue DEF TypeOK, StartTask
<1>4. ASSUME NEW t \in Tasks, NEW st \in {"passed", "failed"}, TaskEnds(t, st) PROVE TypeOK'
  <2>1. CASE isQueueKilled \/ taskQueue = <<>>
    BY <1>4, <2>1, EventsOfQueue DEF TypeOK, TaskEnds
  <2>2. CASE ~isQueueKilled /\ taskQueue # <<>>
    <3>1. Head(taskQueue) \in Tasks /\ Tail(taskQueue) \in Seq(Tasks)
      BY <2>2, TasksOfTail DEF TypeOK
    <3> QED
      BY <1>4, <2>2, <3>1, EventsOfQueue DEF TypeOK, TaskEnds
  <2> QED
    BY <2>1, <2>2 DEF TypeOK
<1>5. CASE Cleanup
  <2>1. CASE internalIdle
    BY <1>5, <2>1, AbortType DEF TypeOK, Cleanup
  <2>2. CASE ~internalIdle
    BY <1>5, <2>2 DEF TypeOK, Cleanup
  <2> QED
    BY <2>1, <2>2
<1>6. CASE UNCHANGED vars
  BY <1>6 DEF TypeOK, vars, queues
<1> QED
  BY <1>1, <1>2, <1>3, <1>4, <1>5, <1>6 DEF Next

-----------------------------------------------------------------------------
(* The inductive invariant.                                                 *)

\* It holds initially: all is silent and empty.
LEMMA InitInv == Init => QueuesInv
<1> SUFFICES ASSUME Init PROVE QueuesInv
  OBVIOUS
<1>1. EventsFollowQueues
  BY EmptyQueue DEF Init, EventsFollowQueues
<1>2. ASSUME NEW i \in DOMAIN Calls, NEW k \in DOMAIN Calls[i]
      PROVE  Calls[i][k] \in Tasks /\ lastEvent[Calls[i][k]] = Silent /\ i > 0
  BY <1>2, CallFacts, CallsAssumption DEF Init, EventsInit
<1>3. Silent # Scheduled
  BY EventsOfQueue
<1>4. QueuesFollowEvents
  BY <1>2, <1>3, EmptyQueue DEF Init, QueuesFollowEvents
<1>5. CleanupFollowsQueues
  BY DEF Init, CleanupFollowsQueues
<1> QED
  BY <1>1, <1>4, <1>5 DEF QueuesInv

\* A task is in one call, at one place.
LEMMA CalledOnce ==
  ASSUME NEW i \in DOMAIN Calls, NEW j \in DOMAIN Calls,
         NEW k \in DOMAIN Calls[i], Calls[i][k] \in TasksIn(Calls[j])
  PROVE  i = j
BY CallsAssumption DEF TasksIn

\* The tasks of the next call are new.
LEMMA AddInv ==
  ASSUME TypeOK, QueuesInv, AddTasksToQueue
  PROVE  QueuesInv'
<1> DEFINE n == calls + 1
<1>1. /\ n \in DOMAIN Calls /\ Calls[n] \in Seq(Tasks) /\ NoDuplicates(Calls[n])
      /\ pending \in Seq(Tasks) /\ calls \in Nat
  BY CallFacts, CallsAssumption DEF TypeOK, AddTasksToQueue
<1>2. \A t \in TasksIn(Calls[n]) : lastEvent[t] = Silent /\ t \notin TasksIn(pending)
  BY <1>1 DEF QueuesInv, QueuesFollowEvents, TasksIn
<1>3. TasksIn(pending') = TasksIn(pending) \cup TasksIn(Calls[n])
  BY <1>1, TasksOfConcat DEF AddTasksToQueue
<1>4. EventsFollowQueues'
  <2>1. NoDuplicates(pending')
    BY <1>1, <1>2, ConcatWithoutDuplicates DEF QueuesInv, EventsFollowQueues, AddTasksToQueue
  <2> QED
    BY <1>2, <1>3, <2>1 DEF QueuesInv, EventsFollowQueues, AddTasksToQueue
<1>5. QueuesFollowEvents'
  <2> SUFFICES ASSUME NEW i \in DOMAIN Calls, NEW k \in DOMAIN Calls[i]
               PROVE  LET t == Calls[i][k]
                      IN /\ i > n => lastEvent[t] = Silent /\ t \notin TasksIn(pending')
                         /\ i <= n /\ lastEvent[t] = Silent => t \in TasksIn(pending')
                         /\ lastEvent[t] = Scheduled => t \in TasksIn(taskQueue)
    BY DEF QueuesFollowEvents, AddTasksToQueue
  <2>1. i \in Nat
    BY CallFacts, CallsAssumption
  <2>2. i > n => Calls[i][k] \notin TasksIn(Calls[n])
    BY <1>1, <2>1, CalledOnce
  <2>3. i = n => Calls[i][k] \in TasksIn(Calls[n])
    BY DEF TasksIn
  <2> QED
    BY <1>1, <1>3, <2>1, <2>2, <2>3 DEF QueuesInv, QueuesFollowEvents
<1>6. CleanupFollowsQueues'
  BY DEF QueuesInv, CleanupFollowsQueues, AddTasksToQueue
<1> QED
  BY <1>4, <1>5, <1>6 DEF QueuesInv

\* After cleanup nothing waits.
LEMMA AbortInv ==
  ASSUME TypeOK, QueuesInv, NEW waiting \in Seq(Tasks), AbortAll(waiting),
         TasksIn(waiting) = TasksIn(taskQueue) \cup TasksIn(pending),
         pending' = <<>>, internalIdle', isQueueKilled', UNCHANGED <<calls, workersList>>,
         ~isQueueKilled \/ cleanup = "draining"
  PROVE  QueuesInv'
<1>1. EventsFollowQueues'
  BY EmptyQueue DEF AbortAll, EventsFollowQueues
<1>2. QueuesFollowEvents'
  <2> SUFFICES ASSUME NEW i \in DOMAIN Calls, NEW k \in DOMAIN Calls[i]
               PROVE  LET t == Calls[i][k]
                      IN /\ i > calls => lastEvent'[t] = Silent /\ t \notin {}
                         /\ i <= calls => lastEvent'[t] # Silent
                         /\ lastEvent'[t] # Scheduled
    BY EmptyQueue DEF QueuesFollowEvents, AbortAll
  <2> DEFINE t == Calls[i][k]
  <2>1. t \in Tasks /\ Silent # Scheduled /\ Silent # Running /\ Scheduled # Running
    BY CallFacts, EventsOfQueue
  <2>2. /\ i > calls => lastEvent[t] = Silent /\ t \notin TasksIn(pending)
        /\ i <= calls /\ lastEvent[t] = Silent => t \in TasksIn(pending)
        /\ lastEvent[t] = Scheduled => t \in TasksIn(taskQueue)
    BY DEF QueuesInv, QueuesFollowEvents
  <2>3. /\ t \in TasksIn(taskQueue) => lastEvent[t] = Scheduled
        /\ t \in workersList => lastEvent[t] = Running
    BY DEF QueuesInv, EventsFollowQueues, CleanupFollowsQueues
  <2>4. Aborted("skippedAsFailed") # Silent /\ Aborted("skippedAsFailed") # Scheduled
    BY EventsOfQueue
  <2>5. lastEvent'[t] = IF t \in TasksIn(waiting) \cup workersList
                        THEN Aborted("skippedAsFailed") ELSE lastEvent[t]
    BY <2>1 DEF AbortAll
  <2> QED
    BY <2>1, <2>2, <2>3, <2>4, <2>5
<1>3. CleanupFollowsQueues'
  BY DEF AbortAll, CleanupFollowsQueues
<1> QED
  BY <1>1, <1>2, <1>3 DEF QueuesInv

\* What was pending is scheduled, or aborted with all that waits.
LEMMA AnnounceInv ==
  ASSUME TypeOK, QueuesInv, Announce
  PROVE  QueuesInv'
<1>1. /\ taskQueue \o pending \in Seq(Tasks)
      /\ TasksIn(taskQueue \o pending) = TasksIn(taskQueue) \cup TasksIn(pending)
  BY TasksOfConcat DEF TypeOK
<1>2. CASE cleanup = "draining"
  BY <1>1, <1>2, AbortInv DEF Announce, QueuesInv, CleanupFollowsQueues
<1>3. CASE cleanup # "draining"
  <2>1. cleanup # "returned"
    BY DEF Announce, QueuesInv, CleanupFollowsQueues
  <2>2. Silent # Scheduled /\ Silent # Running /\ Scheduled # Running
    BY EventsOfQueue
  <2>3. \A t \in Tasks : lastEvent'[t] = IF t \in TasksIn(pending) THEN Scheduled ELSE lastEvent[t]
    BY <1>3 DEF Announce
  <2>4. TasksIn(pending) \cap TasksIn(taskQueue) = {}
    BY <2>2 DEF QueuesInv, EventsFollowQueues
  <2>5. NoDuplicates(taskQueue')
    BY <1>3, <2>4, ConcatWithoutDuplicates DEF TypeOK, QueuesInv, EventsFollowQueues, Announce
  <2>6. TasksIn(taskQueue') = TasksIn(taskQueue) \cup TasksIn(pending) /\ TasksIn(pending') = {}
    BY <1>1, <1>3, EmptyQueue DEF Announce
  <2>7. TasksIn(pending) \subseteq Tasks /\ TasksIn(taskQueue) \subseteq Tasks
    BY DEF TypeOK, TasksIn
  <2>8. EventsFollowQueues'
    <3>1. NoDuplicates(pending')
      BY EmptyQueue DEF Announce
    <3>2. \A t \in TasksIn(taskQueue') : lastEvent'[t] = Scheduled
      BY <2>3, <2>6, <2>7 DEF QueuesInv, EventsFollowQueues
    <3>3. \A t \in workersList' : lastEvent'[t] = Running
      BY <2>1, <2>2, <2>3 DEF TypeOK, QueuesInv, EventsFollowQueues, Announce
    <3> QED
      BY <2>5, <2>6, <3>1, <3>2, <3>3 DEF EventsFollowQueues
  <2>9. QueuesFollowEvents'
    <3> SUFFICES ASSUME NEW i \in DOMAIN Calls, NEW k \in DOMAIN Calls[i]
                 PROVE  LET t == Calls[i][k]
                        IN /\ i > calls => lastEvent'[t] = Silent
                           /\ i <= calls => lastEvent'[t] # Silent
                           /\ lastEvent'[t] = Scheduled => t \in TasksIn(taskQueue')
      BY <2>6 DEF QueuesFollowEvents, Announce
    <3>1. Calls[i][k] \in Tasks
      BY CallFacts
    <3> QED
      BY <2>2, <2>3, <2>6, <3>1 DEF QueuesInv, QueuesFollowEvents
  <2>10. CleanupFollowsQueues'
    BY <1>3, <2>1 DEF QueuesInv, CleanupFollowsQueues, Announce
  <2> QED
    BY <2>8, <2>9, <2>10 DEF QueuesInv
<1> QED
  BY <1>2, <1>3

\* The head of the queue runs; done is the task that ran before it, if any.
LEMMA HeadRuns ==
  ASSUME TypeOK, QueuesInv, taskQueue # <<>>, ~isQueueKilled,
         NEW done \in SUBSET workersList, NEW e \in FinalResult,
         lastEvent' = [t \in Tasks |-> IF t = Head(taskQueue) THEN Running
                                       ELSE IF t \in done THEN e ELSE lastEvent[t]],
         taskQueue' = Tail(taskQueue), workersList' = {Head(taskQueue)},
         UNCHANGED <<calls, pending, internalIdle, isQueueKilled, cleanup>>
  PROVE  QueuesInv'
<1> DEFINE h == Head(taskQueue)
<1>1. /\ h \in Tasks /\ TasksIn(taskQueue) = {h} \cup TasksIn(taskQueue')
      /\ h \notin TasksIn(taskQueue') /\ NoDuplicates(taskQueue')
  BY TasksOfTail DEF TypeOK, QueuesInv, EventsFollowQueues
<1>2. /\ Silent # Scheduled /\ Silent # Running /\ Scheduled # Running
      /\ e # Silent /\ e # Scheduled
  BY EventsOfQueue, EventFacts
<1>3. cleanup # "returned" /\ \A t \in done : lastEvent[t] = Running
  BY DEF QueuesInv, EventsFollowQueues, CleanupFollowsQueues
<1>4. TasksIn(pending) \subseteq Tasks /\ TasksIn(taskQueue) \subseteq Tasks
  BY DEF TypeOK, TasksIn
<1>5. EventsFollowQueues'
  <2>1. \A t \in TasksIn(pending) : lastEvent'[t] = Silent
    BY <1>1, <1>2, <1>3, <1>4 DEF QueuesInv, EventsFollowQueues
  <2>2. \A t \in TasksIn(taskQueue') : lastEvent'[t] = Scheduled
    BY <1>1, <1>2, <1>3, <1>4 DEF QueuesInv, EventsFollowQueues
  <2>3. lastEvent'[h] = Running
    BY <1>1
  <2> QED
    BY <1>1, <2>1, <2>2, <2>3 DEF QueuesInv, EventsFollowQueues
<1>6. QueuesFollowEvents'
  <2> SUFFICES ASSUME NEW i \in DOMAIN Calls, NEW k \in DOMAIN Calls[i]
               PROVE  LET t == Calls[i][k]
                      IN /\ i > calls => lastEvent'[t] = Silent /\ t \notin TasksIn(pending)
                         /\ i <= calls /\ lastEvent'[t] = Silent => t \in TasksIn(pending)
                         /\ lastEvent'[t] = Scheduled => t \in TasksIn(taskQueue')
    BY DEF QueuesFollowEvents
  <2> DEFINE t == Calls[i][k]
  <2>1. t \in Tasks
    BY CallFacts
  <2>2. lastEvent[h] = Scheduled
    BY <1>1 DEF QueuesInv, EventsFollowQueues
  <2>3. lastEvent'[t] = IF t = h THEN Running ELSE IF t \in done THEN e ELSE lastEvent[t]
    BY <2>1
  <2> QED
    BY <1>1, <1>2, <1>3, <2>2, <2>3 DEF QueuesInv, QueuesFollowEvents
<1>7. CleanupFollowsQueues'
  BY <1>3 DEF QueuesInv, CleanupFollowsQueues
<1> QED
  BY <1>5, <1>6, <1>7 DEF QueuesInv

\* The first task starts.
LEMMA StartInv ==
  ASSUME TypeOK, QueuesInv, StartTask
  PROVE  QueuesInv'
<1>1. lastEvent' = [t \in Tasks |-> IF t = Head(taskQueue) THEN Running
                                    ELSE IF t \in {} THEN Done("passed") ELSE lastEvent[t]]
  BY DEF TypeOK, StartTask
<1>2. Done("passed") \in FinalResult
  BY EventsOfQueue
<1>3. {} \in SUBSET workersList
  OBVIOUS
<1> QED
  BY <1>1, <1>2, <1>3, HeadRuns DEF StartTask

\* A task ends, and the next one starts.
LEMMA EndsInv ==
  ASSUME TypeOK, QueuesInv, NEW t \in Tasks, NEW st \in {"passed", "failed"}, TaskEnds(t, st)
  PROVE  QueuesInv'
<1>1. Done(st) \in FinalResult /\ Silent # Running /\ Scheduled # Running
  BY EventsOfQueue
<1>2. CASE ~isQueueKilled /\ taskQueue # <<>>
  <2>1. Head(taskQueue) \in Tasks
    BY <1>2, TasksOfTail DEF TypeOK
  <2>2. lastEvent' = [u \in Tasks |-> IF u = Head(taskQueue) THEN Running
                                      ELSE IF u \in {t} THEN Done(st) ELSE lastEvent[u]]
    BY <1>2, <2>1 DEF TypeOK, TaskEnds
  <2>3. {t} \in SUBSET workersList
    BY DEF TaskEnds
  <2> QED
    BY <1>1, <1>2, <2>2, <2>3, HeadRuns DEF TaskEnds
<1>3. CASE isQueueKilled
  BY <1>3 DEF QueuesInv, EventsFollowQueues, QueuesFollowEvents, CleanupFollowsQueues, TaskEnds
<1>4. CASE ~isQueueKilled /\ taskQueue = <<>>
  <2>1. cleanup # "returned" /\ lastEvent[t] = Running /\ t \in workersList
    BY <1>4 DEF QueuesInv, EventsFollowQueues, CleanupFollowsQueues, TaskEnds
  <2>2. /\ lastEvent'[t] = Done(st)
        /\ \A u \in Tasks \ {t} : lastEvent'[u] = lastEvent[u]
        /\ workersList' = workersList \ {t}
        /\ UNCHANGED <<calls, pending, internalIdle, taskQueue, isQueueKilled, cleanup>>
    BY <1>4 DEF TypeOK, TaskEnds
  <2>3. Done(st) # Silent /\ Done(st) # Scheduled
    BY <1>1, EventsOfQueue, EventFacts
  <2>4. EventsFollowQueues'
    <3>1. TasksIn(pending) \subseteq Tasks \ {t} /\ TasksIn(taskQueue) \subseteq Tasks \ {t}
      BY <1>1, <2>1 DEF TypeOK, QueuesInv, EventsFollowQueues, TasksIn
    <3>2. workersList' \subseteq Tasks \ {t}
      BY <2>2 DEF TypeOK
    <3> QED
      BY <2>2, <3>1, <3>2 DEF QueuesInv, EventsFollowQueues
  <2>5. QueuesFollowEvents'
    <3> SUFFICES ASSUME NEW i \in DOMAIN Calls, NEW k \in DOMAIN Calls[i]
                 PROVE  LET u == Calls[i][k]
                        IN /\ i > calls => lastEvent'[u] = Silent /\ u \notin TasksIn(pending)
                           /\ i <= calls /\ lastEvent'[u] = Silent => u \in TasksIn(pending)
                           /\ lastEvent'[u] = Scheduled => u \in TasksIn(taskQueue)
      BY <2>2 DEF QueuesFollowEvents
    <3>1. Calls[i][k] \in Tasks
      BY CallFacts
    <3> QED
      BY <1>1, <2>1, <2>2, <2>3, <3>1 DEF QueuesInv, QueuesFollowEvents
  <2>6. CleanupFollowsQueues'
    BY <2>2 DEF QueuesInv, CleanupFollowsQueues
  <2> QED
    BY <2>4, <2>5, <2>6 DEF QueuesInv
<1> QED
  BY <1>2, <1>3, <1>4 DEF TypeOK

\* Cleanup aborts at once what waits, or waits for the internal queue.
LEMMA CleanupInv ==
  ASSUME TypeOK, QueuesInv, Cleanup
  PROVE  QueuesInv'
<1>1. CASE internalIdle
  <2>1. pending = <<>> /\ TasksIn(pending) = {}
    BY <1>1, EmptyQueue DEF QueuesInv, CleanupFollowsQueues
  <2> QED
    BY <1>1, <2>1, AbortInv DEF Cleanup, TypeOK
<1>2. CASE ~internalIdle
  BY <1>2 DEF Cleanup, QueuesInv, EventsFollowQueues, QueuesFollowEvents, CleanupFollowsQueues
<1> QED
  BY <1>1, <1>2

\* Every step preserves the invariant.
LEMMA NextInv ==
  ASSUME TypeOK, QueuesInv, [Next]_vars
  PROVE  QueuesInv'
<1>1. CASE UNCHANGED vars
  BY <1>1 DEF QueuesInv, EventsFollowQueues, QueuesFollowEvents, CleanupFollowsQueues, vars, queues
<1> QED
  BY <1>1, AddInv, AnnounceInv, StartInv, EndsInv, CleanupInv DEF Next

-----------------------------------------------------------------------------
\* In every reachable state the queue is well typed, and every accepted task is
\* in one place, once, which tells what was emitted of it.
THEOREM QueuesInvariant == Spec => [](TypeOK /\ QueuesInv)
<1>1. Init => TypeOK /\ QueuesInv
  BY InitType, InitInv
<1>2. TypeOK /\ QueuesInv /\ [Next]_vars => (TypeOK /\ QueuesInv)'
  <2>1. ASSUME TypeOK, QueuesInv, [Next]_vars PROVE TypeOK' /\ QueuesInv'
    BY <2>1, NextType, NextInv
  <2> QED
    BY <2>1
<1> QED
  BY <1>1, <1>2, PTL DEF Spec

\* When cleanup has returned, every accepted task that never began was told to
\* be aborted.
THEOREM WaitingAreAborted == Spec => []WaitingTasksAborted
<1>1. TypeOK /\ QueuesInv => WaitingTasksAborted
  <2> SUFFICES ASSUME TypeOK, QueuesInv, cleanup = "returned",
                      NEW i \in 1 .. calls, NEW k \in DOMAIN Calls[i]
               PROVE  lastEvent[Calls[i][k]] \notin {Silent, Scheduled}
    BY DEF WaitingTasksAborted
  <2>1. i \in DOMAIN Calls /\ i <= calls
    BY CallFacts, CallsAssumption DEF TypeOK
  <2>2. TasksIn(pending) = {} /\ TasksIn(taskQueue) = {}
    BY EmptyQueue DEF QueuesInv, CleanupFollowsQueues
  <2> QED
    BY <2>1, <2>2 DEF QueuesInv, QueuesFollowEvents
<1> QED
  BY <1>1, QueuesInvariant, PTL

-----------------------------------------------------------------------------
(* The order of the tasks.                                                  *)

\* Three queues put together are the same, however they are.
LEMMA ConcatAssociates ==
  ASSUME NEW s \in Seq(Tasks), NEW r \in Seq(Tasks), NEW q \in Seq(Tasks)
  PROVE  s \o (r \o q) = (s \o r) \o q
OBVIOUS

\* Two queues in order make one when all of the first was added before all of
\* the second.
LEMMA OrderedConcat ==
  ASSUME NEW s \in Seq(Tasks), NEW r \in Seq(Tasks), InOrder(s), InOrder(r),
         \A t \in TasksIn(s), u \in TasksIn(r) : Before(t, u)
  PROVE  InOrder(s \o r)
<1>1. /\ Len(s \o r) = Len(s) + Len(r) /\ s \o r \in Seq(Tasks)
      /\ \A i \in 1 .. Len(s) + Len(r) : (s \o r)[i] = IF i <= Len(s) THEN s[i] ELSE r[i - Len(s)]
  OBVIOUS
<1> SUFFICES ASSUME NEW i \in 1 .. Len(s) + Len(r), NEW j \in 1 .. Len(s) + Len(r), i < j
             PROVE  Before((s \o r)[i], (s \o r)[j])
  BY <1>1 DEF InOrder
<1>2. CASE j <= Len(s)
  <2>1. (s \o r)[i] = s[i] /\ (s \o r)[j] = s[j] /\ i \in 1 .. Len(s) /\ j \in 1 .. Len(s)
    BY <1>1, <1>2
  <2> QED
    BY <2>1 DEF InOrder
<1>3. CASE i > Len(s)
  <2>1. /\ (s \o r)[i] = r[i - Len(s)] /\ (s \o r)[j] = r[j - Len(s)]
        /\ i - Len(s) \in 1 .. Len(r) /\ j - Len(s) \in 1 .. Len(r) /\ i - Len(s) < j - Len(s)
    BY <1>1, <1>3
  <2> QED
    BY <2>1 DEF InOrder
<1>4. CASE i <= Len(s) /\ j > Len(s)
  <2>1. (s \o r)[i] = s[i] /\ (s \o r)[j] = r[j - Len(s)] /\ i \in 1 .. Len(s) /\ j - Len(s) \in 1 .. Len(r)
    BY <1>1, <1>4
  <2> QED
    BY <2>1 DEF TasksIn
<1> QED
  BY <1>2, <1>3, <1>4

\* Without its first task, what waits is in order; the first was added before
\* the others.
LEMMA OrderedTail ==
  ASSUME NEW s \in Seq(Tasks), NEW r \in Seq(Tasks), s # <<>>, InOrder(s \o r)
  PROVE  /\ InOrder(Tail(s) \o r)
         /\ \A u \in TasksIn(Tail(s) \o r) : Before(Head(s), u)
<1>1. /\ Len(s \o r) = Len(s) + Len(r) /\ Len(s) \in Nat \ {0} /\ Len(r) \in Nat
      /\ \A i \in 1 .. Len(s) + Len(r) : (s \o r)[i] = IF i <= Len(s) THEN s[i] ELSE r[i - Len(s)]
  OBVIOUS
<1>2. /\ Tail(s) \in Seq(Tasks) /\ Len(Tail(s)) = Len(s) - 1 /\ Head(s) = s[1]
      /\ \A i \in 1 .. Len(s) - 1 : Tail(s)[i] = s[i + 1]
  OBVIOUS
<1>3. /\ Len(Tail(s) \o r) = Len(s) - 1 + Len(r)
      /\ \A i \in 1 .. Len(s) - 1 + Len(r) :
           (Tail(s) \o r)[i] = IF i <= Len(s) - 1 THEN Tail(s)[i] ELSE r[i - (Len(s) - 1)]
  BY <1>2
<1>4. /\ DOMAIN (Tail(s) \o r) = 1 .. Len(s) - 1 + Len(r)
      /\ DOMAIN (s \o r) = 1 .. Len(s) + Len(r)
  BY <1>1, <1>2, <1>3
<1>5. ASSUME NEW i \in 1 .. Len(s) - 1 + Len(r)
      PROVE  (Tail(s) \o r)[i] = (s \o r)[i + 1] /\ i + 1 \in 1 .. Len(s) + Len(r)
  BY <1>1, <1>2, <1>3
<1>6. Head(s) = (s \o r)[1] /\ 1 \in 1 .. Len(s) + Len(r)
  BY <1>1, <1>2
<1>7. InOrder(Tail(s) \o r)
  <2> SUFFICES ASSUME NEW i \in 1 .. Len(s) - 1 + Len(r), NEW j \in 1 .. Len(s) - 1 + Len(r), i < j
               PROVE  Before((Tail(s) \o r)[i], (Tail(s) \o r)[j])
    BY <1>4 DEF InOrder
  <2>1. i + 1 < j + 1 /\ i + 1 \in DOMAIN (s \o r) /\ j + 1 \in DOMAIN (s \o r)
    BY <1>1, <1>4, <1>5
  <2>2. Before((s \o r)[i + 1], (s \o r)[j + 1])
    BY <2>1 DEF InOrder
  <2> QED
    BY <1>5, <2>2
<1>8. ASSUME NEW u \in TasksIn(Tail(s) \o r) PROVE Before(Head(s), u)
  <2>1. PICK i \in 1 .. Len(s) - 1 + Len(r) : u = (Tail(s) \o r)[i]
    BY <1>4 DEF TasksIn
  <2> QED
    BY SMTT(30), <1>1, <1>4, <1>5, <1>6, <2>1 DEF InOrder
<1> QED
  BY <1>7, <1>8

\* What the events of the order are not.
LEMMA EventStatuses ==
  /\ Silent.executionStatus # "aborted" /\ Scheduled.executionStatus # "aborted"
  /\ Running.executionStatus # "aborted" /\ Running.executionStatus # "done"
  /\ Aborted("skippedAsFailed").executionStatus = "aborted" /\ Aborted("skippedAsFailed") # Running
  /\ \A st : Done(st).executionStatus = "done" /\ Done(st) # Running
  /\ \A e \in Event \cup {Silent} :
       /\ e.executionStatus = "running" <=> e = Running
       /\ e.executionStatus \notin {"done", "aborted"} => e \in {Silent, Scheduled, Running}
BY DEF Silent, Scheduled, Running, Aborted, Done, Event, FinalResult

\* The queues start in order.
LEMMA InitOrder == Init => OrderInv
<1> SUFFICES ASSUME Init PROVE OrderInv
  OBVIOUS
<1>1. TasksIn(pending) \cup TasksIn(taskQueue) \cup workersList = {}
  BY EmptyQueue DEF Init
<1>2. Waiting = <<>>
  BY DEF Init, Waiting
<1>3. \A t \in Tasks : lastEvent[t] = Silent
  BY DEF Init, EventsInit
<1> QED
  BY <1>1, <1>2, <1>3, EventStatuses, EventsOfQueue DEF OrderInv, InOrder, Init, Silent, Running

\* The tasks of a call are in order, and after all that was accepted.
LEMMA CallsInOrder ==
  ASSUME TypeOK, calls + 1 \in DOMAIN Calls
  PROVE  /\ InOrder(Calls[calls + 1])
         /\ \A t \in Accepted, u \in TasksIn(Calls[calls + 1]) : Before(t, u)
         /\ Accepted \cup TasksIn(Calls[calls + 1]) = UNION {TasksIn(Calls[i]) : i \in 1 .. calls + 1}
<1>1. calls \in Nat /\ DOMAIN Calls = 1 .. Len(Calls) /\ Len(Calls) \in Nat
  BY CallFacts, CallsAssumption DEF TypeOK
<1>2. DOMAIN Calls[calls + 1] = 1 .. Len(Calls[calls + 1]) /\ Len(Calls[calls + 1]) \in Nat
  BY CallFacts
<1>3. InOrder(Calls[calls + 1])
  BY <1>2 DEF InOrder, Before
<1>4. ASSUME NEW t \in Accepted, NEW u \in TasksIn(Calls[calls + 1]) PROVE Before(t, u)
  <2>1. PICK i \in 1 .. calls : t \in TasksIn(Calls[i])
    BY DEF Accepted
  <2>2. i \in DOMAIN Calls /\ i < calls + 1
    BY <1>1
  <2>3. PICK k \in DOMAIN Calls[i] : t = Calls[i][k]
    BY <2>1 DEF TasksIn
  <2>4. PICK l \in DOMAIN Calls[calls + 1] : u = Calls[calls + 1][l]
    BY DEF TasksIn
  <2> QED
    BY <2>2, <2>3, <2>4 DEF Before
<1>5. 1 .. calls + 1 = (1 .. calls) \cup {calls + 1}
  BY <1>1
<1>6. Accepted \cup TasksIn(Calls[calls + 1]) = UNION {TasksIn(Calls[i]) : i \in 1 .. calls + 1}
  BY <1>5 DEF Accepted
<1> QED
  BY <1>3, <1>4, <1>6

\* What is aborted waits no more.
LEMMA AbortOrder ==
  ASSUME TypeOK, OrderInv, NEW waiting \in Seq(Tasks), AbortAll(waiting), pending' = <<>>,
         isQueueKilled', UNCHANGED <<calls, workersList>>
  PROVE  OrderInv'
<1>1. Waiting' = <<>> /\ TasksIn(taskQueue') = {} /\ TasksIn(pending') = {}
  BY EmptyQueue DEF Waiting, AbortAll
<1>2. InOrder(<<>>)
  BY DEF InOrder
<1> QED
  BY <1>1, <1>2 DEF OrderInv, Accepted

\* Every step keeps the order.
LEMMA NextOrder ==
  ASSUME TypeOK, QueuesInv, OrderInv, [Next]_vars
  PROVE  OrderInv'
<1>0. Waiting \in Seq(Tasks) /\ TasksIn(Waiting) = TasksIn(taskQueue) \cup TasksIn(pending)
  BY TasksOfConcat DEF TypeOK, Waiting
<1>1. CASE AddTasksToQueue
  <2> DEFINE new == Calls[calls + 1]
  <2>1. calls + 1 \in DOMAIN Calls /\ new \in Seq(Tasks)
    BY <1>1, CallFacts, CallsAssumption DEF TypeOK, AddTasksToQueue
  <2>2. Waiting' = Waiting \o new
    <3>1. taskQueue \in Seq(Tasks) /\ pending \in Seq(Tasks)
      BY DEF TypeOK
    <3>2. taskQueue \o (pending \o new) = (taskQueue \o pending) \o new
      BY <2>1, <3>1, ConcatAssociates
    <3> QED
      BY <1>1, <3>2 DEF Waiting, AddTasksToQueue
  <2>3. \A t \in TasksIn(Waiting), u \in TasksIn(new) : Before(t, u)
    BY <1>0, <2>1, CallsInOrder DEF OrderInv
  <2>4. InOrder(Waiting')
    BY <1>0, <2>1, <2>2, <2>3, CallsInOrder, OrderedConcat DEF OrderInv
  <2>5. TasksIn(pending') = TasksIn(pending) \cup TasksIn(new)
    BY <1>1, <2>1, TasksOfConcat DEF AddTasksToQueue, TypeOK
  <2>6. Accepted' = Accepted \cup TasksIn(new)
    BY <1>1, <2>1, CallsInOrder DEF Accepted, AddTasksToQueue
  <2>7. UNCHANGED <<lastEvent, taskQueue, workersList, isQueueKilled>>
    BY <1>1 DEF AddTasksToQueue
  <2> QED
    BY <2>4, <2>5, <2>6, <2>7 DEF OrderInv
<1>2. CASE Announce
  <2>1. CASE cleanup = "draining"
    BY <1>0, <1>2, <2>1, AbortOrder DEF Announce, Waiting, QueuesInv, CleanupFollowsQueues
  <2>2. CASE cleanup # "draining"
    <3>1. Waiting' = Waiting
      BY <1>2, <2>2 DEF Announce, Waiting, TypeOK
    <3>2. TasksIn(taskQueue') = TasksIn(Waiting) /\ TasksIn(pending') = {}
      BY <1>2, <2>2, EmptyQueue DEF Announce, Waiting
    <3>3. \A t \in Tasks : lastEvent'[t] \in {Scheduled, lastEvent[t]}
      BY <1>2, <2>2 DEF Announce
    <3> QED
      BY <1>0, <1>2, <3>1, <3>2, <3>3, EventStatuses, EventsOfQueue DEF OrderInv, Accepted, Announce
  <2> QED
    BY <2>1, <2>2
<1>3. ASSUME NEW done \in SUBSET workersList, NEW st, taskQueue # <<>>,
             lastEvent' = [t \in Tasks |-> IF t = Head(taskQueue) THEN Running
                                           ELSE IF t \in done THEN Done(st) ELSE lastEvent[t]],
             workersList \subseteq done,
             taskQueue' = Tail(taskQueue), workersList' = {Head(taskQueue)},
             UNCHANGED <<calls, pending, isQueueKilled>>
      PROVE  OrderInv'
  <2>1. InOrder(Waiting')
    BY <1>3, OrderedTail DEF OrderInv, Waiting, TypeOK
  <2>2. /\ Head(taskQueue) \in TasksIn(taskQueue) /\ TasksIn(taskQueue') \subseteq TasksIn(taskQueue)
    BY <1>3, TasksOfTail DEF TypeOK
  <2>3. TasksIn(pending)' \cup TasksIn(taskQueue)' \cup workersList' \subseteq Accepted'
    BY <1>3, <2>2 DEF OrderInv, Accepted
  <2>4. \A t \in Tasks : lastEvent'[t] = Running => isQueueKilled' \/ t \in workersList'
    BY <1>3, EventStatuses DEF OrderInv
  <2>5. \A t \in Tasks : lastEvent'[t].executionStatus = "aborted" => isQueueKilled'
    BY <1>3, EventStatuses DEF OrderInv
  <2> QED
    BY <1>3, <2>1, <2>3, <2>4, <2>5 DEF OrderInv
<1>4. CASE StartTask
  <2>1. lastEvent' = [t \in Tasks |-> IF t = Head(taskQueue) THEN Running
                                      ELSE IF t \in {} THEN Done("passed") ELSE lastEvent[t]]
    BY <1>4 DEF StartTask, TypeOK
  <2>2. {} \in SUBSET workersList /\ workersList \subseteq {}
    BY <1>4 DEF StartTask
  <2>3. /\ taskQueue # <<>> /\ taskQueue' = Tail(taskQueue) /\ workersList' = {Head(taskQueue)}
        /\ UNCHANGED <<calls, pending, isQueueKilled>>
    BY <1>4 DEF StartTask
  <2> QED
    BY <1>3, <2>1, <2>2, <2>3
<1>5. ASSUME NEW t \in Tasks, NEW st \in {"passed", "failed"}, TaskEnds(t, st) PROVE OrderInv'
  <2>1. workersList = {t}
    BY <1>5 DEF TaskEnds, OrderInv
  <2>2. CASE ~isQueueKilled /\ taskQueue # <<>>
    <3>1. Head(taskQueue) \in Tasks
      BY <2>2, TasksOfTail DEF TypeOK
    <3>2. lastEvent' = [u \in Tasks |-> IF u = Head(taskQueue) THEN Running
                                        ELSE IF u \in {t} THEN Done(st) ELSE lastEvent[u]]
      BY <1>5, <2>2, <3>1 DEF TypeOK, TaskEnds
    <3> QED
      BY <1>3, <1>5, <2>1, <2>2, <3>2 DEF TaskEnds
  <2>3. CASE isQueueKilled \/ taskQueue = <<>>
    <3>1. /\ workersList' = {} /\ UNCHANGED <<calls, pending, taskQueue, isQueueKilled>>
          /\ \A u \in Tasks : lastEvent'[u] \in {lastEvent[u], Done(st)}
          /\ ~isQueueKilled => lastEvent'[t] = Done(st)
      BY <1>5, <2>1, <2>3 DEF TaskEnds, TypeOK
    <3>2. Waiting' = Waiting /\ Accepted' = Accepted /\ TasksIn(pending)' = TasksIn(pending)
          /\ TasksIn(taskQueue)' = TasksIn(taskQueue)
      BY <3>1 DEF Waiting, Accepted
    <3> QED
      BY <2>1, <3>1, <3>2, EventStatuses DEF OrderInv
  <2> QED
    BY <2>2, <2>3
<1>6. CASE Cleanup
  <2>1. CASE internalIdle
    <3>1. pending = <<>> /\ pending' = <<>>
      BY <1>6, <2>1 DEF Cleanup, QueuesInv, CleanupFollowsQueues
    <3> QED
      BY <1>6, <2>1, <3>1, AbortOrder DEF Cleanup, TypeOK
  <2>2. CASE ~internalIdle
    BY <1>6, <2>2 DEF Cleanup, OrderInv, Waiting, Accepted
  <2> QED
    BY <2>1, <2>2
<1>7. CASE UNCHANGED vars
  BY <1>7 DEF OrderInv, Waiting, Accepted, vars, queues
<1> QED
  BY <1>1, <1>2, <1>4, <1>5, <1>6, <1>7 DEF Next

\* In every reachable state what waits is in the order of the calls.
THEOREM OrderInvariant == Spec => []OrderInv
<1>1. TypeOK /\ QueuesInv /\ OrderInv /\ [Next]_vars => OrderInv'
  BY NextOrder
<1> QED
  BY <1>1, InitOrder, QueuesInvariant, PTL DEF Spec

\* Of two tasks one was added first.
LEMMA BeforeIsStrict ==
  ASSUME NEW t, NEW u, Before(t, u), Before(u, t)
  PROVE  FALSE
<1>1. PICK i \in DOMAIN Calls, j \in DOMAIN Calls : \E k \in DOMAIN Calls[i], l \in DOMAIN Calls[j] :
        Calls[i][k] = t /\ Calls[j][l] = u /\ (i < j \/ (i = j /\ k < l))
  BY DEF Before
<1>2. PICK k \in DOMAIN Calls[i], l \in DOMAIN Calls[j] :
        Calls[i][k] = t /\ Calls[j][l] = u /\ (i < j \/ (i = j /\ k < l))
  BY <1>1
<1>3. PICK m \in DOMAIN Calls, n \in DOMAIN Calls : \E o \in DOMAIN Calls[m], p \in DOMAIN Calls[n] :
        Calls[m][o] = u /\ Calls[n][p] = t /\ (m < n \/ (m = n /\ o < p))
  BY DEF Before
<1>4. PICK o \in DOMAIN Calls[m], p \in DOMAIN Calls[n] :
        Calls[m][o] = u /\ Calls[n][p] = t /\ (m < n \/ (m = n /\ o < p))
  BY <1>3
<1>5. i = n /\ k = p /\ j = m /\ l = o
  BY <1>2, <1>4, CallsAssumption
<1>6. i \in Nat /\ j \in Nat /\ k \in Nat /\ l \in Nat
  BY SMTT(30), CallFacts, CallsAssumption
<1> QED
  BY <1>2, <1>4, <1>5, <1>6

\* What was added before the task whose turn it is has ended, or runs.
LEMMA HeadIsNext ==
  ASSUME TypeOK, QueuesInv, OrderInv, ~isQueueKilled, taskQueue # <<>>,
         NEW t \in Tasks, Before(t, Head(taskQueue))
  PROVE  lastEvent[t].executionStatus = "done" \/ t \in workersList
<1> DEFINE h == Head(taskQueue)
<1>1. h \in TasksIn(taskQueue) /\ h \in Tasks /\ TasksIn(taskQueue) = {h} \cup TasksIn(Tail(taskQueue))
      /\ Tail(taskQueue) \in Seq(Tasks)
  BY TasksOfTail DEF TypeOK
<1>2. PICK i \in DOMAIN Calls, j \in DOMAIN Calls : \E k \in DOMAIN Calls[i], l \in DOMAIN Calls[j] :
        Calls[i][k] = t /\ Calls[j][l] = h /\ (i < j \/ (i = j /\ k < l))
  BY DEF Before
<1>3. PICK k \in DOMAIN Calls[i], l \in DOMAIN Calls[j] :
        Calls[i][k] = t /\ Calls[j][l] = h /\ (i < j \/ (i = j /\ k < l))
  BY <1>2
<1>4. PICK m \in 1 .. calls : h \in TasksIn(Calls[m])
  BY <1>1 DEF OrderInv, Accepted
<1>5. calls \in Nat /\ calls <= Len(Calls) /\ DOMAIN Calls = 1 .. Len(Calls) /\ Len(Calls) \in Nat
  BY CallFacts, CallsAssumption DEF TypeOK
<1>6. i <= calls
  <2>1. m \in DOMAIN Calls
    BY <1>5
  <2>2. j = m
    BY <1>3, <1>4, <2>1, CalledOnce
  <2> QED
    BY <1>3, <1>5, <2>2
<1>7. ASSUME t \in TasksIn(pending) \cup TasksIn(taskQueue) PROVE FALSE
  <2>1. t # h
    BY BeforeIsStrict
  <2>2. TasksIn(Tail(taskQueue) \o pending) = TasksIn(Tail(taskQueue)) \cup TasksIn(pending)
    BY <1>1, TasksOfConcat DEF TypeOK
  <2>3. t \in TasksIn(Tail(taskQueue) \o pending)
    BY <1>1, <1>7, <2>1, <2>2
  <2>4. Before(h, t)
    BY <2>3, OrderedTail DEF OrderInv, Waiting, TypeOK
  <2> QED
    BY <2>4, BeforeIsStrict
<1>8. lastEvent[t] # Silent /\ lastEvent[t] # Scheduled
  BY <1>3, <1>6, <1>7 DEF QueuesInv, QueuesFollowEvents
<1>9. lastEvent[t].executionStatus # "aborted"
  BY DEF OrderInv
<1>10. lastEvent[t] = Running => t \in workersList
  BY DEF OrderInv
<1>11. lastEvent[t] \in Event \cup {Silent}
  BY DEF TypeOK
<1> QED
  BY <1>8, <1>9, <1>10, <1>11, EventStatuses

\* Tasks run one at a time, in the order in which they were added.
THEOREM RunsInOrder == Spec => []Sequential
<1> DEFINE Ran(t) == lastEvent[t].executionStatus \in {"running", "done"}
           Ended(t) == lastEvent[t].executionStatus = "done"
           Order == \A t, u \in Tasks : Before(t, u) /\ Ran(u) => Ended(t)
<1>1. Order => Sequential
  BY CallFacts DEF Sequential, Before
<1>2. Init => Order
  BY DEF Init, EventsInit, Silent
<1>3. TypeOK /\ QueuesInv /\ OrderInv /\ TypeOK' /\ Order /\ [Next]_vars => Order'
  <2> SUFFICES ASSUME TypeOK, QueuesInv, OrderInv, TypeOK', Order, [Next]_vars,
                      NEW t \in Tasks, NEW u \in Tasks, Before(t, u), Ran(u)'
               PROVE  Ended(t)'
    BY DEF Before
  <2>1. t \in Tasks /\ u \in Tasks /\ (Ran(u) => Ended(t)) /\ t # u
    BY BeforeIsStrict
  <2>2. Ended(t) => t \notin TasksIn(pending) \cup TasksIn(taskQueue)
                    /\ (cleanup # "returned" => t \notin workersList)
    BY EventStatuses DEF QueuesInv, EventsFollowQueues, Silent, Scheduled
  <2>3. CASE Announce
    <3>1. /\ \A v \in Tasks : \/ lastEvent'[v] = lastEvent[v]
                              \/ lastEvent'[v] \in {Scheduled, Aborted("skippedAsFailed")}
          /\ t \notin TasksIn(pending) \cup TasksIn(taskQueue) \cup workersList
               => lastEvent'[t] = lastEvent[t]
      <4>1. TasksIn(taskQueue \o pending) = TasksIn(taskQueue) \cup TasksIn(pending)
        BY TasksOfConcat DEF TypeOK
      <4>2. CASE cleanup = "draining"
        BY <2>3, <4>1, <4>2 DEF Announce, AbortAll
      <4>3. CASE cleanup # "draining"
        BY <2>3, <4>3 DEF Announce
      <4> QED
        BY <4>2, <4>3
    <3>2. Ran(u) /\ Ended(t)
      BY <2>1, <3>1, EventStatuses DEF Scheduled
    <3>3. cleanup # "returned"
      BY <2>3 DEF Announce, QueuesInv, CleanupFollowsQueues
    <3> QED
      BY <2>2, <3>1, <3>2, <3>3
  <2>4. CASE Cleanup
    <3>1. /\ \A v \in Tasks : lastEvent'[v] \in {lastEvent[v], Aborted("skippedAsFailed")}
          /\ t \notin TasksIn(taskQueue) \cup workersList => lastEvent'[t] = lastEvent[t]
      BY <2>4 DEF Cleanup, AbortAll
    <3>2. Ran(u) /\ Ended(t)
      BY <2>1, <3>1, EventStatuses
    <3>3. cleanup # "returned"
      BY <2>4 DEF Cleanup, QueuesInv, CleanupFollowsQueues
    <3> QED
      BY <2>2, <3>1, <3>2, <3>3
  <2>5. CASE StartTask
    <3>1. /\ taskQueue # <<>> /\ ~isQueueKilled /\ workersList = {}
          /\ \A v \in Tasks \ {Head(taskQueue)} : lastEvent'[v] = lastEvent[v]
      BY <2>5 DEF StartTask, TypeOK
    <3>2. Head(taskQueue) \in TasksIn(taskQueue)
      BY <3>1, TasksOfTail DEF TypeOK
    <3>3. CASE u = Head(taskQueue)
      BY <2>1, <3>1, <3>3, HeadIsNext
    <3>4. CASE u # Head(taskQueue)
      BY <2>1, <2>2, <3>1, <3>2, <3>4
    <3> QED
      BY <3>3, <3>4
  <2>6. ASSUME NEW w \in Tasks, NEW st \in {"passed", "failed"}, TaskEnds(w, st) PROVE Ended(t)'
    <3>1. w \in workersList /\ workersList = {w}
      BY <2>6 DEF TaskEnds, OrderInv
    <3>2. CASE isQueueKilled
      BY <2>1, <2>6, <3>2 DEF TaskEnds
    <3>3. CASE ~isQueueKilled /\ taskQueue = <<>>
      <4>1. lastEvent'[w] = Done(st) /\ \A v \in Tasks \ {w} : lastEvent'[v] = lastEvent[v]
        BY <2>6, <3>3 DEF TaskEnds, TypeOK
      <4>2. lastEvent[w] = Running
        BY <3>1, <3>3 DEF QueuesInv, EventsFollowQueues, CleanupFollowsQueues
      <4> QED
        BY <2>1, <4>1, <4>2, EventStatuses DEF Running
    <3>4. CASE ~isQueueKilled /\ taskQueue # <<>>
      <4> DEFINE h == Head(taskQueue)
      <4>1. h \in TasksIn(taskQueue) /\ h \in Tasks
        BY <3>4, TasksOfTail DEF TypeOK
      <4>2. lastEvent[w] = Running /\ lastEvent[h] = Scheduled /\ w # h
        BY <3>1, <3>4, <4>1, EventsOfQueue DEF QueuesInv, EventsFollowQueues, CleanupFollowsQueues
      <4>3. lastEvent'[w] = Done(st) /\ \A v \in Tasks \ {w, h} : lastEvent'[v] = lastEvent[v]
        BY <2>6, <3>4, <4>2 DEF TaskEnds, TypeOK
      <4>4. CASE u = h
        BY <2>1, <3>1, <3>4, <4>3, <4>4, HeadIsNext, EventStatuses
      <4>5. CASE u # h
        <5>1. Ran(u) /\ Ended(t)
          BY <2>1, <4>2, <4>3, <4>5 DEF Running
        <5>2. t # h
          BY <4>1, <2>2, <5>1
        <5> QED
          BY <4>3, <5>1, <5>2, EventStatuses
      <4> QED
        BY <4>4, <4>5
    <3> QED
      BY <3>2, <3>3, <3>4
  <2>7. CASE AddTasksToQueue \/ UNCHANGED vars
    BY <2>1, <2>7 DEF AddTasksToQueue, vars
  <2> QED
    BY <2>3, <2>4, <2>5, <2>6, <2>7 DEF Next
<1> QED
  BY <1>1, <1>2, <1>3, QueuesInvariant, OrderInvariant, PTL DEF Spec

\* What a turn of the queue emits of a task may follow what was emitted before.
LEMMA TurnsEmit ==
  ASSUME TypeOK, QueuesInv, TypeOK', [Next]_vars
  PROVE  [Emit]_lastEvent
<1> SUFFICES ASSUME lastEvent' # lastEvent
             PROVE  Emit
  OBVIOUS
<1> DEFINE Follows(t) == lastEvent'[t] \in Event /\ MayFollow(lastEvent[t], lastEvent'[t])
<1>1. SUFFICES ASSUME NEW t \in Tasks, lastEvent'[t] # lastEvent[t] PROVE Follows(t)
  BY EventsOfQueue DEF Emit, TypeOK
<1>2. CASE Announce
  <2>1. \/ lastEvent'[t] = Scheduled /\ t \in TasksIn(pending)
        \/ /\ lastEvent'[t] = Aborted("skippedAsFailed")
           /\ t \in TasksIn(taskQueue \o pending) \cup workersList
    BY <1>1, <1>2 DEF Announce, AbortAll, TypeOK
  <2>2. TasksIn(taskQueue \o pending) = TasksIn(taskQueue) \cup TasksIn(pending)
    BY TasksOfConcat DEF TypeOK
  <2>3. lastEvent[t] \in {Silent, Scheduled, Running} /\ (t \in TasksIn(pending) => lastEvent[t] = Silent)
    BY <1>2, <2>1, <2>2 DEF QueuesInv, EventsFollowQueues, CleanupFollowsQueues, Announce
  <2> QED
    BY <2>1, <2>3, EventsOfQueue, FollowFacts
<1>3. CASE StartTask
  <2>1. taskQueue # <<>> /\ Head(taskQueue) \in TasksIn(taskQueue)
    BY <1>3, TasksOfTail DEF StartTask, TypeOK
  <2>2. t = Head(taskQueue) /\ lastEvent'[t] = Running
    BY <1>1, <1>3 DEF StartTask, TypeOK
  <2>3. lastEvent[t] = Scheduled
    BY <2>1, <2>2 DEF QueuesInv, EventsFollowQueues
  <2> QED
    BY <2>2, <2>3, EventsOfQueue, FollowFacts
<1>4. ASSUME NEW u \in Tasks, NEW st \in {"passed", "failed"}, TaskEnds(u, st) PROVE Follows(t)
  <2>1. ~isQueueKilled /\ u \in workersList /\ lastEvent[u] = Running
    BY <1>1, <1>4 DEF TaskEnds, QueuesInv, EventsFollowQueues, CleanupFollowsQueues
  <2>2. \/ t = u /\ lastEvent'[t] = Done(st)
        \/ taskQueue # <<>> /\ t = Head(taskQueue) /\ lastEvent'[t] = Running
    BY <1>1, <1>4, <2>1 DEF TaskEnds, TypeOK
  <2>3. taskQueue # <<>> => lastEvent[Head(taskQueue)] = Scheduled
    BY TasksOfTail DEF TypeOK, QueuesInv, EventsFollowQueues
  <2> QED
    BY <2>1, <2>2, <2>3, EventsOfQueue, FollowFacts
<1>5. CASE Cleanup
  <2>1. /\ lastEvent'[t] = Aborted("skippedAsFailed")
        /\ t \in TasksIn(taskQueue) \cup workersList
    BY <1>1, <1>5 DEF Cleanup, AbortAll, TypeOK
  <2>2. lastEvent[t] \in {Scheduled, Running}
    BY <1>5, <2>1 DEF QueuesInv, EventsFollowQueues, CleanupFollowsQueues, Cleanup
  <2> QED
    BY <2>1, <2>2, EventsOfQueue, FollowFacts
<1> QED
  BY <1>1, <1>2, <1>3, <1>4, <1>5 DEF Next, AddTasksToQueue, vars, queues

\* The local queue keeps the promise of a task queue: it implements EventsSpec.
THEOREM KeepsPromise == Spec => EventsSpec
<1>1. Init => EventsInit
  BY DEF Init
<1>2. TypeOK /\ QueuesInv /\ TypeOK' /\ [Next]_vars => [Emit]_lastEvent
  BY TurnsEmit
<1> QED
  BY <1>1, <1>2, QueuesInvariant, PTL DEF Spec, EventsSpec

-----------------------------------------------------------------------------
(* No dead end: the safety half of what the queue owes its callers.         *)

\* The event loop has a turn of the queue to take: what was added is to be
\* announced, a task is to start, or a function runs and will settle.
QueueTurnIsDue ==
  \/ ~internalIdle
  \/ taskQueue # <<>> /\ workersList = {} /\ ~isQueueKilled
  \/ workersList # {}

\* A queue that is not closed and has nothing to do has answered: every task
\* that was accepted is done.  No task is forgotten between its queues.
QueueAnswers ==
  ~isQueueKilled /\ ~QueueTurnIsDue => \A t \in Accepted : lastEvent[t].executionStatus = "done"

\* A clean-up that waits for the internal queue waits for something: the next
\* announcement ends it.
CleanupCanEnd == cleanup = "draining" => ~internalIdle

\* Every step of the queue goes forward: events only follow one another as
\* promised, calls and the kill are never taken back, and a step that changes
\* none of them makes the internal queue idle or ends a function.
QueueForward ==
  /\ [Emit]_lastEvent
  /\ calls <= calls' /\ (isQueueKilled => isQueueKilled')
  /\ \/ calls < calls'
     \/ ~isQueueKilled /\ isQueueKilled'
     \/ lastEvent' # lastEvent
     \/ /\ internalIdle => internalIdle'
        /\ workersList' \subseteq workersList
        /\ (~internalIdle /\ internalIdle') \/ workersList' # workersList

\* An accepted task of which nothing final was told waits, runs, or is lost with
\* a clean-up: in a queue that was not closed it is in one of its three places.
LEMMA WhereTasksAre ==
  ASSUME TypeOK, QueuesInv, OrderInv, ~isQueueKilled, NEW t \in Accepted,
         lastEvent[t].executionStatus # "done"
  PROVE  t \in TasksIn(pending) \cup TasksIn(taskQueue) \cup workersList
<1>1. PICK i \in 1 .. calls : t \in TasksIn(Calls[i])
  BY DEF Accepted
<1>2. i \in DOMAIN Calls /\ DOMAIN Calls = 1 .. Len(Calls) /\ i <= calls
  BY CallFacts, CallsAssumption DEF TypeOK
<1>3. PICK k \in DOMAIN Calls[i] : Calls[i][k] = t
  BY <1>1 DEF TasksIn
<1>4. t \in Tasks
  BY <1>2, <1>3, CallFacts
<1>5. lastEvent[t].executionStatus # "aborted"
  BY <1>4 DEF OrderInv
<1>6. lastEvent[t] \in {Silent, Scheduled, Running}
  BY <1>4, <1>5, EventStatuses DEF TypeOK
<1>7. lastEvent[t] = Running => t \in workersList
  BY <1>4 DEF OrderInv
<1>8. /\ lastEvent[t] = Silent => t \in TasksIn(pending)
      /\ lastEvent[t] = Scheduled => t \in TasksIn(taskQueue)
  BY <1>2, <1>3 DEF QueuesInv, QueuesFollowEvents
<1> QED
  BY <1>6, <1>7, <1>8

\* When the queue has nothing left to do every accepted task was answered.
LEMMA AnswersAll ==
  ASSUME TypeOK, QueuesInv, OrderInv
  PROVE  QueueAnswers
<1> SUFFICES ASSUME ~isQueueKilled, ~QueueTurnIsDue, NEW t \in Accepted,
                    lastEvent[t].executionStatus # "done"
             PROVE  FALSE
  BY DEF QueueAnswers
<1>1. pending = <<>> /\ taskQueue = <<>> /\ workersList = {}
  BY DEF QueueTurnIsDue, TypeOK, QueuesInv, CleanupFollowsQueues
<1>2. t \in TasksIn(pending) \cup TasksIn(taskQueue) \cup workersList
  BY WhereTasksAre
<1> QED
  BY <1>1, <1>2, EmptyQueue

\* No accepted task is forgotten: a queue that is not closed and has nothing to
\* do has ended them all.
THEOREM NoTaskForgotten == Spec => []QueueAnswers
<1>1. TypeOK /\ QueuesInv /\ OrderInv => QueueAnswers
  BY AnswersAll
<1> QED
  BY <1>1, QueuesInvariant, OrderInvariant, PTL

\* cleanup never waits for an internal queue that is idle already.
THEOREM CleanupIsNeverStuck == Spec => []CleanupCanEnd
<1>1. Init => CleanupCanEnd
  BY DEF Init, CleanupCanEnd
<1>2. TypeOK /\ QueuesInv /\ CleanupCanEnd /\ [Next]_vars => CleanupCanEnd'
  <2> SUFFICES ASSUME TypeOK, QueuesInv, CleanupCanEnd, [Next]_vars PROVE CleanupCanEnd'
    OBVIOUS
  <2>1. CASE AddTasksToQueue
    BY <2>1 DEF AddTasksToQueue, CleanupCanEnd
  <2>2. CASE Announce
    BY <2>2 DEF Announce, AbortAll, CleanupCanEnd
  <2>3. CASE StartTask \/ \E t \in Tasks, st \in {"passed", "failed"} : TaskEnds(t, st)
    BY <2>3 DEF StartTask, TaskEnds, CleanupCanEnd
  <2>4. CASE Cleanup
    BY <2>4 DEF Cleanup, AbortAll, CleanupCanEnd
  <2>5. CASE UNCHANGED vars
    BY <2>5 DEF vars, queues, CleanupCanEnd
  <2> QED
    BY <2>1, <2>2, <2>3, <2>4, <2>5 DEF Next
<1> QED
  BY <1>1, <1>2, QueuesInvariant, PTL DEF Spec

\* Every step of the queue goes forward.
LEMMA TurnsGoForward ==
  ASSUME TypeOK, QueuesInv, TypeOK', [Next]_vars
  PROVE  [QueueForward]_vars
<1>0. [Emit]_lastEvent /\ calls \in Nat
  BY TurnsEmit, CallFacts DEF TypeOK
<1>1. CASE AddTasksToQueue
  BY <1>0, <1>1 DEF AddTasksToQueue, QueueForward
<1>2. CASE Announce
  <2>1. internalIdle' /\ ~internalIdle /\ UNCHANGED <<calls, workersList, isQueueKilled>>
    BY <1>2, Zenon DEF Announce
  <2> QED
    BY <1>0, <2>1 DEF QueueForward
<1>3. CASE StartTask
  <2>1. Head(taskQueue) \in TasksIn(taskQueue) /\ Head(taskQueue) \in Tasks
    BY <1>3, TasksOfTail DEF StartTask, TypeOK
  <2>2. lastEvent[Head(taskQueue)] = Scheduled /\ lastEvent'[Head(taskQueue)] = Running
    BY <1>3, <2>1 DEF StartTask, TypeOK, QueuesInv, EventsFollowQueues
  <2> QED
    BY <1>0, <1>3, <2>2, EventsOfQueue DEF StartTask, QueueForward
<1>4. ASSUME NEW t \in Tasks, NEW st \in {"passed", "failed"}, TaskEnds(t, st) PROVE QueueForward
  <2>1. CASE isQueueKilled
    BY <1>0, <1>4, <2>1 DEF TaskEnds, QueueForward
  <2>2. CASE ~isQueueKilled
    <3>1. lastEvent[t] = Running
      BY <1>4, <2>2 DEF TaskEnds, QueuesInv, EventsFollowQueues, CleanupFollowsQueues
    <3>2. taskQueue # <<>> => lastEvent[Head(taskQueue)] = Scheduled
      BY TasksOfTail DEF TypeOK, QueuesInv, EventsFollowQueues
    <3>3. lastEvent'[t] = Done(st)
      BY <1>4, <2>2, <3>1, <3>2, EventsOfQueue DEF TaskEnds, TypeOK
    <3> QED
      BY <1>0, <1>4, <3>1, <3>3, EventStatuses DEF TaskEnds, QueueForward
  <2> QED
    BY <2>1, <2>2 DEF TypeOK
<1>5. CASE Cleanup
  BY <1>0, <1>5 DEF Cleanup, QueueForward
<1> QED
  BY <1>1, <1>2, <1>3, <1>4, <1>5 DEF Next

\* The queue never goes back and never turns in a circle.
THEOREM QueueGoesForward == Spec => [][QueueForward]_vars
<1>1. TypeOK /\ QueuesInv /\ TypeOK' /\ [Next]_vars => [QueueForward]_vars
  BY TurnsGoForward
<1> QED
  BY <1>1, QueuesInvariant, PTL DEF Spec
=============================================================================
