---------------------- MODULE QuayBuildsTaskQueueProofs ----------------------
(***************************************************************************)
(* What the quay queue tells of a task is what its build came to, its      *)
(* events go forward, and its cleanup ends every task, for any tasks, any  *)
(* builds of other flows and any faults.  No answer is lost.               *)
(***************************************************************************)
EXTENDS QuayBuildsTaskQueue, TLAPS

\* The kinds of events, and which of them are final.
LEMMA EventFacts ==
  /\ Silent \notin Event /\ Running \in Event
  /\ ~IsFinal(Silent) /\ ~IsFinal(Running)
  /\ \A st \in {"passed", "failed", "skippedAsFailed"} :
       /\ Done(st) \in Event /\ IsFinal(Done(st))
       /\ Aborted(st) \in Event /\ IsFinal(Aborted(st))
       /\ Done(st).executionStatus = "done" /\ Done(st).status = st
       /\ Aborted(st).executionStatus = "aborted"
  /\ Silent.executionStatus # "done" /\ Running.executionStatus # "done"
BY DEF Event, Silent, Scheduled, Running, FinalResult, Done, Aborted, IsFinal, NoStatus, Status

\* Any event may follow silence, and a final one every event that is not final.
LEMMA FollowFacts ==
  /\ \A e \in Event : MayFollow(Silent, e)
  /\ \A e, f \in Event : ~IsFinal(e) /\ IsFinal(f) => MayFollow(e, f)
BY DEF MayFollow, Event, Silent, Scheduled, Running, FinalResult, IsFinal, Rank, NoStatus

-----------------------------------------------------------------------------
\* Every variable keeps its type.
THEOREM TypeCorrect == Spec => []TypeOK
<1>1. Init => TypeOK
  BY DEF Init, TypeOK, EventsInit, ExecutionStatus
<1>2. ASSUME TypeOK, [Next]_vars PROVE TypeOK'
  <2> USE <1>2, EventFacts
  <2>1. ASSUME NEW t \in Tasks, AddTasksToQueue(t) PROVE TypeOK'
    BY <2>1 DEF TypeOK, AddTasksToQueue, AtWork, objects, events
  <2>2. ASSUME NEW t \in Tasks, BuildImage(t) PROVE TypeOK'
    <3> USE DEF TypeOK, AtWork, QuayRequest, Abort, SendAbortEvent, EmitEnd, SetOwn, GoesOn, Silently, objects, events,
                ExecutionStatus
    <3>1. CASE Begin(t)
      BY <3>1 DEF Begin
    <3>2. CASE UrlChecked(t)
      BY <3>2 DEF UrlChecked
    <3>3. CASE RepoCreated(t) \/ NotificationsCreated(t)
      BY <3>3 DEF RepoCreated, NotificationsCreated
    <3>4. CASE RequestFails(t)
      BY <3>4 DEF RequestFails
    <3>5. CASE TriggerReturns(t) \/ PostReturns(t) \/ PostFails(t)
      BY ZenonT(30), <3>5 DEF TriggerReturns, PostReturns, PostFails
    <3>6. CASE CancelReturns(t)
      BY <3>6 DEF CancelReturns, FinalBuild
    <3> QED BY <2>2, <3>1, <3>2, <3>3, <3>4, <3>5, <3>6 DEF BuildImage
  <2>3. ASSUME NEW e \in topic \cup retrying, Handle(e) PROVE TypeOK'
    BY <2>3 DEF TypeOK, Handle, HandleKnown, Silently, Ends, EmitEnd, Known, ExecutionStatus
  <2>4. CASE Cleanup
    BY <2>4 DEF TypeOK, Cleanup, objects, events
  <2>5. CASE CleanupReturns
    BY <2>5 DEF TypeOK, CleanupReturns, ExecutionStatus
  <2>6. ASSUME NEW t \in Tasks, BuildBegins(t) \/ BuildEnds(t) PROVE TypeOK'
    BY <2>6 DEF TypeOK, BuildBegins, BuildEnds, FinalBuild, objects, events
  <2>7. ASSUME NEW t \in Tasks, Webhook(t) PROVE TypeOK'
    BY <2>7 DEF TypeOK, Webhook, BuildEvents, objects
  <2>8. ASSUME NEW b \in ForeignBuilds, ForeignWebhook(b) PROVE TypeOK'
    BY <2>8 DEF TypeOK, ForeignWebhook, BuildEvents, objects
  <2>9. ASSUME NEW t \in Tasks, PollingBegins(t) \/ PollEnds(t) \/ PollGivesUp(t) PROVE TypeOK'
    BY <2>9 DEF TypeOK, PollingBegins, PollEnds, PollGivesUp, BuildEvents, objects, events
  <2>10. CASE UNCHANGED vars
    BY <2>10 DEF TypeOK, vars, objects, events
  <2> QED BY <2>1, <2>2, <2>3, <2>4, <2>5, <2>6, <2>7, <2>8, <2>9, <2>10 DEF Next
<1> QED BY <1>1, <1>2, PTL DEF Spec

-----------------------------------------------------------------------------
\* A task that a step does not touch keeps what is true of it.
LEMMA Untouched ==
  ASSUME NEW u \in Tasks, TaskInv(u), UNCHANGED cleanup,
         pc'[u] = pc[u], lastEvent'[u] = lastEvent[u],
         own'[u] = own[u], inMap'[u] = inMap[u], hasBuildId'[u] = hasBuildId[u], ends'[u] = ends[u]
  PROVE  TaskInv(u)'
BY DEF TaskInv, EndedObjects, AtWork

\* One turn of buildImage.
LEMMA BuildImageKeeps ==
  ASSUME TypeOK, QueueInv, NEW t \in Tasks, BuildImage(t)
  PROVE  \A u \in Tasks : TaskInv(u)'
<1>1. UNCHANGED <<isQueueActive, cleanup>> /\ cleanup # "returned"
  BY DEF QueueInv, TaskInv, BuildImage, Begin, UrlChecked, RepoCreated, NotificationsCreated, RequestFails,
         TriggerReturns, PostReturns, PostFails, CancelReturns, AtWork, QuayRequest
<1>2. \A u \in Tasks \ {t} : /\ pc'[u] = pc[u] /\ lastEvent'[u] = lastEvent[u] /\ own'[u] = own[u]
                             /\ inMap'[u] = inMap[u] /\ hasBuildId'[u] = hasBuildId[u] /\ ends'[u] = ends[u]
  BY DEF TypeOK, BuildImage, Begin, UrlChecked, RepoCreated, NotificationsCreated, RequestFails,
         TriggerReturns, PostReturns, PostFails, CancelReturns, objects, events,
         GoesOn, Silently, Abort, SendAbortEvent, EmitEnd, SetOwn
<1>3. TaskInv(t)'
  <2> USE EventFacts, <1>1
      DEF TypeOK, QueueInv, TaskInv, EndedObjects, AtWork, QuayRequest, Final, objects, events
  <2>1. ASSUME Abort(t), UNCHANGED hasBuildId PROVE TaskInv(t)'
    BY <2>1 DEF Abort, SendAbortEvent, EmitEnd, Silently, SetOwn
  <2>2. CASE Begin(t)
    <3>1. CASE isQueueActive
      BY <2>2, <3>1 DEF Begin, SetOwn
    <3> QED BY <2>1, <2>2, <3>1 DEF Begin
  <2>3. CASE UrlChecked(t)
    <3>1. CASE pc' = [pc EXCEPT ![t] = "createRepo"] /\ Silently
      BY <2>3, <3>1 DEF UrlChecked, Silently
    <3> QED BY <2>1, <2>3, <3>1 DEF UrlChecked
  <2>4. CASE RepoCreated(t) \/ NotificationsCreated(t)
    <3>1. CASE isQueueActive
      BY <2>4, <3>1 DEF RepoCreated, NotificationsCreated, GoesOn, Silently
    <3> QED BY <2>1, <2>4, <3>1 DEF RepoCreated, NotificationsCreated, GoesOn
  <2>5. CASE RequestFails(t) \/ CancelReturns(t)
    BY <2>1, <2>5 DEF RequestFails, CancelReturns
  <2>6. CASE TriggerReturns(t) \/ PostReturns(t) \/ PostFails(t)
    BY <2>6 DEF TriggerReturns, PostReturns, PostFails
  <2> QED BY <2>2, <2>3, <2>4, <2>5, <2>6 DEF BuildImage
<1> QED BY <1>1, <1>2, <1>3, Untouched DEF QueueInv

\* An event that is delivered, or tried again.
LEMMA HandleKeeps ==
  ASSUME TypeOK, QueueInv, NEW e \in topic \cup retrying, Handle(e)
  PROVE  \A u \in Tasks : TaskInv(u)'
<1> USE DEF TypeOK, QueueInv, Handle
<1>1. CASE Silently
  BY <1>1, Untouched DEF Silently
<1>2. CASE /\ Known(e[1]) /\ ~Final(inMap[e[1]])
           /\ \E st \in {"passed", "failed"} : Ends(e[1], st)
  <2>1. TaskInv(e[1])'
    BY <1>2, EventFacts DEF Ends, EmitEnd, Known, TaskInv, EndedObjects, Final, AtWork, QuayRequest
  <2>2. \A u \in Tasks \ {e[1]} : TaskInv(u)'
    BY <1>2, Untouched DEF Ends, EmitEnd, Known
  <2> QED BY <2>1, <2>2
<1> QED BY <1>1, <1>2 DEF HandleKnown

\* The return of cleanup.
LEMMA CleanupReturnsKeeps ==
  ASSUME TypeOK, QueueInv, CleanupReturns, NEW u \in Tasks
  PROVE  TaskInv(u)'
BY EventFacts DEF TypeOK, QueueInv, CleanupReturns, InternalQueueIdle, TaskInv, EndedObjects, Final, AtWork, QuayRequest

\* An event on its way tells how a build has ended.
TrueEvents == \A e \in topic \cup retrying : e[1] \in Tasks /\ e[2] \in FinalBuild => build[e[1]] = e[2]

\* A build that ended stays so, and what is published of it is true.
LEMMA EventsStayTrue ==
  ASSUME TypeOK, TrueEvents, [Next]_vars
  PROVE  /\ TrueEvents'
         /\ \A t \in Tasks : build[t] \in FinalBuild => build'[t] = build[t]
<1> USE DEF TypeOK, TrueEvents, FinalBuild, objects, events
<1>1. ASSUME NEW t \in Tasks, AddTasksToQueue(t) \/ BuildImage(t)
      PROVE  /\ TrueEvents'
             /\ \A u \in Tasks : build[u] \in FinalBuild => build'[u] = build[u]
  BY <1>1 DEF AddTasksToQueue, BuildImage, Begin, UrlChecked, RepoCreated, NotificationsCreated,
              RequestFails, TriggerReturns, PostReturns, PostFails, CancelReturns
<1>2. CASE \E e \in topic \cup retrying : Handle(e)
  BY <1>2 DEF Handle
<1>3. CASE Cleanup \/ CleanupReturns \/ UNCHANGED vars
  BY <1>3 DEF Cleanup, CleanupReturns, vars
<1>4. ASSUME NEW t \in Tasks, BuildBegins(t) \/ BuildEnds(t) \/ Webhook(t)
      PROVE  /\ TrueEvents'
             /\ \A u \in Tasks : build[u] \in FinalBuild => build'[u] = build[u]
  BY <1>4 DEF BuildBegins, BuildEnds, Webhook
<1>5. CASE \E b \in ForeignBuilds : ForeignWebhook(b)
  BY <1>5, ForeignAssumption DEF ForeignWebhook
<1>6. CASE \E t \in Tasks : PollingBegins(t) \/ PollEnds(t) \/ PollGivesUp(t)
  BY <1>6 DEF PollingBegins, PollEnds, PollGivesUp
<1> QED BY <1>1, <1>2, <1>3, <1>4, <1>5, <1>6 DEF Next

\* The inductive invariant.
THEOREM QueueInvariant == Spec => []QueueInv
<1>1. Init => QueueInv
  BY EventFacts DEF Init, QueueInv, TaskInv, EndedObjects, EventsInit, Final, AtWork, QuayRequest
<1>2. ASSUME TypeOK, QueueInv, [Next]_vars PROVE QueueInv'
  <2>1. \A u \in Tasks : TaskInv(u)'
    <3>1. CASE \E t \in Tasks : AddTasksToQueue(t)
      BY <1>2, <3>1 DEF AddTasksToQueue, QueueInv, TaskInv, EndedObjects, TypeOK, AtWork, QuayRequest, objects
    <3>2. CASE \E t \in Tasks : BuildImage(t)
      BY <1>2, <3>2, BuildImageKeeps
    <3>3. CASE \E e \in topic \cup retrying : Handle(e)
      BY <1>2, <3>3, HandleKeeps
    <3>4. CASE Cleanup
      BY <1>2, <3>4 DEF Cleanup, QueueInv, TaskInv, EndedObjects, AtWork, objects
    <3>5. CASE CleanupReturns
      BY <1>2, <3>5, CleanupReturnsKeeps
    <3>6. CASE UNCHANGED <<lastEvent, ends, cleanup, pc, objects>>
      BY <1>2, <3>6, Untouched DEF QueueInv, objects
    <3> QED BY <1>2, <3>1, <3>2, <3>3, <3>4, <3>5, <3>6
            DEF Next, BuildBegins, BuildEnds, Webhook, ForeignWebhook, PollingBegins, PollEnds,
                PollGivesUp, vars
  <2>2. TrueEvents'
    BY <1>2, EventsStayTrue DEF QueueInv, TrueEvents
  <2>3. (isQueueActive <=> cleanup = "notCalled")'
    BY <1>2 DEF QueueInv, Next, AddTasksToQueue, BuildImage, Begin, UrlChecked, RepoCreated,
       NotificationsCreated, RequestFails, TriggerReturns, PostReturns, PostFails, CancelReturns, Handle,
       Cleanup, CleanupReturns, BuildBegins, BuildEnds, Webhook, ForeignWebhook, PollingBegins, PollEnds,
       PollGivesUp, vars
  <2> QED BY <2>1, <2>2, <2>3 DEF QueueInv, TrueEvents
<1> QED BY <1>1, <1>2, TypeCorrect, PTL DEF Spec

\* When cleanup has returned every task that was added has had its last event.
THEOREM CleanupEndsAll == Spec => []CleanupEndsTasks
<1>1. QueueInv => CleanupEndsTasks
  BY DEF QueueInv, TaskInv, CleanupEndsTasks
<1> QED BY <1>1, QueueInvariant, PTL

-----------------------------------------------------------------------------
\* What a task is told to have come to is what an event on its way tells.
LEMMA WhoTells ==
  ASSUME TypeOK, [Next]_vars, NEW t \in Tasks
  PROVE  \/ lastEvent'[t] = lastEvent[t]
         \/ lastEvent'[t].executionStatus # "done"
         \/ <<t, "complete">> \in topic \cup retrying /\ lastEvent'[t] = Done("passed")
         \/ <<t, "error">> \in topic \cup retrying /\ lastEvent'[t] = Done("failed")
<1> USE EventFacts DEF TypeOK
<1>1. ASSUME NEW u \in Tasks, BuildImage(u)
      PROVE  lastEvent'[t] = lastEvent[t] \/ lastEvent'[t].executionStatus # "done"
  BY <1>1 DEF BuildImage, Begin, UrlChecked, RepoCreated, NotificationsCreated, RequestFails,
              TriggerReturns, PostReturns, PostFails, CancelReturns, GoesOn, Silently, Abort, SendAbortEvent, EmitEnd
<1>2. ASSUME NEW e \in topic \cup retrying, Handle(e)
      PROVE  \/ lastEvent'[t] = lastEvent[t]
             \/ e = <<t, "complete">> /\ lastEvent'[t] = Done("passed")
             \/ e = <<t, "error">> /\ lastEvent'[t] = Done("failed")
  <2>1. e = <<e[1], e[2]>>
    BY DEF BuildEvents
  <2> QED BY <1>2, <2>1 DEF Handle, HandleKnown, Silently, Ends, EmitEnd, Known
<1>3. CASE CleanupReturns
  BY <1>3 DEF CleanupReturns
<1>4. CASE UNCHANGED lastEvent
  BY <1>4
<1> QED BY <1>1, <1>2, <1>3, <1>4
        DEF Next, AddTasksToQueue, Cleanup, BuildBegins, BuildEnds, Webhook, ForeignWebhook, PollingBegins,
            PollEnds, PollGivesUp, vars

\* A task that is told to have passed, or failed, has a build that did.
THEOREM ResultsAreTrue == Spec => []ResultTellsBuild
<1>1. Init => ResultTellsBuild
  BY EventFacts DEF Init, EventsInit, ResultTellsBuild
<1>2. ASSUME TypeOK, QueueInv, ResultTellsBuild, [Next]_vars PROVE ResultTellsBuild'
  <2> SUFFICES ASSUME NEW t \in Tasks, lastEvent'[t].executionStatus = "done"
               PROVE  build'[t] = IF lastEvent'[t].status = "passed" THEN "complete" ELSE "error"
    BY DEF ResultTellsBuild
  <2>1. build[t] \in FinalBuild => build'[t] = build[t]
    BY <1>2, EventsStayTrue DEF QueueInv, TrueEvents
  <2>2. CASE lastEvent'[t] = lastEvent[t]
    BY <1>2, <2>1, <2>2 DEF ResultTellsBuild, FinalBuild
  <2>3. CASE <<t, "complete">> \in topic \cup retrying /\ lastEvent'[t] = Done("passed")
    BY <1>2, <2>1, <2>3, EventFacts DEF QueueInv, FinalBuild
  <2>4. CASE <<t, "error">> \in topic \cup retrying /\ lastEvent'[t] = Done("failed")
    BY <1>2, <2>1, <2>4, EventFacts DEF QueueInv, FinalBuild
  <2> QED BY <1>2, <2>2, <2>3, <2>4, WhoTells
<1> QED BY <1>1, <1>2, TypeCorrect, QueueInvariant, PTL DEF Spec

\* What the next event of a task may be.
GoesForward(t) ==
  \/ lastEvent'[t] = lastEvent[t] /\ ends'[t] = ends[t]
  \/ lastEvent'[t] # Silent /\ MayFollow(lastEvent[t], lastEvent'[t]) /\ ends[t] = 0 /\ ends'[t] \in {0, 1}
  \/ EndsTwice(t)

\* A task that ends was not told to have ended, or the one of its objects that
\* does not end now was aborted by buildImage, which had the id of the build.
LEMMA EndGoesForward ==
  ASSUME NEW t \in Tasks, TypeOK, TaskInv(t), TaskInv(t)', UNCHANGED hasBuildId,
         IsFinal(lastEvent'[t]), lastEvent'[t] \in Event, ends'[t] = ends[t] + 1,
         own'[t] = own[t] \/ own'[t] = "aborted"
  PROVE  GoesForward(t)
<1>1. CASE ends[t] = 0
  <2>1. ~IsFinal(lastEvent[t])
    BY <1>1 DEF TaskInv, EndedObjects, Final
  <2> QED
    BY <1>1, <2>1, FollowFacts, EventFacts DEF GoesForward, TypeOK
<1>2. CASE ends[t] # 0
  <2>1. ends[t] = 1 /\ ends'[t] = 2 /\ hasBuildId[t] /\ Final(own'[t])
    BY <1>2 DEF TypeOK, TaskInv, EndedObjects
  <2> QED
    BY <2>1 DEF GoesForward, EndsTwice, TaskInv, Final
<1> QED
  BY <1>1, <1>2

\* The events of a task go forward and it ends once, but for the abort of a build
\* that has an id.
THEOREM EventsDoGoForward == Spec => EventsGoForward
<1>1. ASSUME TypeOK, QueueInv, TypeOK', QueueInv', [Next]_vars, NEW t \in Tasks PROVE GoesForward(t)
  <2> USE <1>1, EventFacts, FollowFacts
  <2>1. TaskInv(t) /\ TaskInv(t)'
    BY DEF QueueInv
  <2>2. CASE lastEvent'[t] = lastEvent[t] /\ ends'[t] = ends[t]
    BY <2>2 DEF GoesForward
  <2>3. ASSUME NEW u \in Tasks, BuildImage(u) PROVE GoesForward(t)
    <3>1. CASE u # t
      BY <2>3, <3>1 DEF BuildImage, Begin, UrlChecked, RepoCreated, NotificationsCreated, RequestFails,
            TriggerReturns, PostReturns, PostFails, CancelReturns, GoesOn, Silently, Abort, SendAbortEvent,
            EmitEnd, GoesForward, TypeOK
    <3>2. ASSUME Abort(t), UNCHANGED hasBuildId PROVE GoesForward(t)
      <4>1. CASE Silently
        BY <4>1 DEF GoesForward, Silently
      <4>2. CASE SetOwn(t, "aborted") /\ EmitEnd(t, Aborted("skippedAsFailed"))
        BY <2>1, <3>2, <4>2, EndGoesForward DEF SetOwn, EmitEnd, TypeOK
      <4> QED BY <3>2, <4>1, <4>2 DEF Abort, SendAbortEvent
    <3>3. CASE u = t /\ Begin(t) /\ isQueueActive
      BY <2>1, <3>3 DEF Begin, TaskInv, EndedObjects, GoesForward, TypeOK
    <3> QED BY <2>2, <2>3, <3>1, <3>2, <3>3
            DEF BuildImage, Begin, UrlChecked, RepoCreated, NotificationsCreated, RequestFails,
                TriggerReturns, PostReturns, PostFails, CancelReturns, GoesOn, Silently
  <2>4. ASSUME NEW e \in topic \cup retrying, Handle(e), ~Silently PROVE GoesForward(t)
    <3>1. PICK st \in {"passed", "failed"} : Known(e[1]) /\ ~Final(inMap[e[1]]) /\ Ends(e[1], st)
      BY <2>4 DEF Handle, HandleKnown
    <3>2. CASE e[1] = t
      BY <2>1, <2>4, <3>1, <3>2, EndGoesForward DEF Handle, Known, Ends, EmitEnd, TypeOK
    <3>3. CASE e[1] # t
      BY <3>1, <3>3 DEF Ends, EmitEnd, TypeOK, GoesForward
    <3> QED BY <3>2, <3>3
  <2>5. CASE CleanupReturns
    BY <2>1, <2>2, <2>5, EndGoesForward DEF CleanupReturns, TypeOK
  <2> QED BY <2>2, <2>3, <2>4, <2>5
          DEF Next, AddTasksToQueue, Cleanup, BuildBegins, BuildEnds, Webhook, ForeignWebhook,
              PollingBegins, PollEnds, PollGivesUp, vars, Silently
<1>2. TypeOK /\ QueueInv /\ TypeOK' /\ QueueInv' /\ [Next]_vars =>
        [\A t \in Tasks :
           \/ lastEvent'[t] = lastEvent[t] /\ ends'[t] = ends[t]
           \/ lastEvent'[t] # Silent /\ MayFollow(lastEvent[t], lastEvent'[t]) /\ ends[t] = 0 /\ ends'[t] \in {0, 1}
           \/ EndsTwice(t)]_<<lastEvent, ends>>
  BY <1>1 DEF GoesForward
<1> QED BY <1>2, TypeCorrect, QueueInvariant, PTL DEF Spec, EventsGoForward

-----------------------------------------------------------------------------
(* No dead end: the safety half of BuildsEnd.                               *)

\* What the poll published is on its way, or the task has ended, or it was
\* cancelled and no event tells that.
IsOnItsWay(t) ==
  \/ <<t, build[t]>> \in topic \cup retrying
  \/ Final(inMap[t])
  \/ build[t] = "cancelled"

\* How far a build is follows how far buildImage is, and a buildImage that is over
\* has told an end or left the build to the helper service, whose answer is not
\* lost, whether it came before or after the id of the build.
AnswerInv(t) ==
  /\ pc[t] \in {"posting", "cancelling"} => hasBuildId[t]
  /\ poller[t] # "off" => hasBuildId[t]
  /\ hasBuildId[t] => build[t] # "none"
  /\ pc[t] = "ended" => poller[t] # "off" \/ IsFinal(lastEvent[t])
  /\ poller[t] = "ended" => build[t] \in FinalBuild /\ (isQueueActive => IsOnItsWay(t))

AnswersInv ==
  /\ \A t \in Tasks : AnswerInv(t)
  /\ isQueueActive => cancelled = {}

\* As long as the queue is open a task that was added has ended, or its request
\* is under way and was not cancelled, or quay builds, or the helper service
\* polls a build that ended, or the event that ends the task is on its way to
\* the object that it will find; or its build was cancelled or is unknown.
BuildsCanGoOn ==
  isQueueActive => \A t \in Tasks : pc[t] # "notAdded" =>
    \/ IsFinal(lastEvent[t])
    \/ pc[t] \in AtWork /\ t \notin cancelled
    \/ build[t] = "building"
    \/ poller[t] = "polling" /\ build[t] \in FinalBuild
    \/ /\ Known(t) /\ ~Final(inMap[t])
       /\ build[t] \in {"complete", "error"} /\ <<t, build[t]>> \in topic \cup retrying
    \/ build[t] = "cancelled"
    \/ poller[t] = "gaveUp"

\* A task whose fields stay keeps AnswerInv, as long as no event is taken.
LEMMA AnswerStays ==
  ASSUME NEW t \in Tasks, AnswerInv(t), isQueueActive' => isQueueActive,
         topic \cup retrying \subseteq topic' \cup retrying',
         pc'[t] = pc[t], hasBuildId'[t] = hasBuildId[t], poller'[t] = poller[t],
         build'[t] = build[t], inMap'[t] = inMap[t], lastEvent'[t] = lastEvent[t]
  PROVE  AnswerInv(t)'
BY DEF AnswerInv, IsOnItsWay

\* A turn of buildImage hands the build over, or tells the end of the task.
LEMMA BuildImageAnswers ==
  ASSUME TypeOK, QueueInv, AnswersInv, NEW u \in Tasks, BuildImage(u), NEW t \in Tasks
  PROVE  AnswerInv(t)'
<1>1. UNCHANGED <<isQueueActive, topic, retrying, poller>>
  BY DEF BuildImage, Begin, UrlChecked, RepoCreated, NotificationsCreated, RequestFails,
         TriggerReturns, PostReturns, PostFails, CancelReturns, events
<1>2. CASE u # t
  <2>1. /\ pc'[t] = pc[t] /\ hasBuildId'[t] = hasBuildId[t] /\ build'[t] = build[t]
        /\ inMap'[t] = inMap[t] /\ lastEvent'[t] = lastEvent[t]
    BY <1>2 DEF TypeOK, BuildImage, Begin, UrlChecked, RepoCreated, NotificationsCreated,
       RequestFails, TriggerReturns, PostReturns, PostFails, CancelReturns, objects, events,
       GoesOn, Silently, Abort, SendAbortEvent, EmitEnd, SetOwn
  <2> QED
    BY <1>1, <2>1, AnswerStays DEF AnswersInv
<1>3. CASE u = t
  <2> USE DEF TypeOK, AnswersInv, AnswerInv
  <2>1. ASSUME Abort(t), UNCHANGED hasBuildId, build' = build
        PROVE  AnswerInv(t)'
    <3>1. pc'[t] = "ended" /\ IsFinal(lastEvent'[t])
      BY <2>1, EventFacts DEF Abort, SendAbortEvent, EmitEnd, Silently, QueueInv, TaskInv
    <3>2. hasBuildId[t] => inMap'[t] = inMap[t]
      BY <2>1 DEF Abort, SendAbortEvent, EmitEnd, Silently, SetOwn
    <3> QED
      BY <1>1, <2>1, <3>1, <3>2 DEF IsOnItsWay
  <2>2. ASSUME pc'[t] \notin {"posting", "cancelling", "ended"}, ~hasBuildId[t],
               UNCHANGED <<hasBuildId, build>>
        PROVE  AnswerInv(t)'
    BY <1>1, <2>2
  <2>3. pc[t] \in {"queued", "checkUrl"} \cup QuayRequest => ~hasBuildId[t]
    BY DEF QueueInv, TaskInv
  <2>4. CASE Begin(t)
    BY <2>1, <2>2, <2>3, <2>4 DEF Begin
  <2>5. CASE UrlChecked(t)
    BY <2>1, <2>2, <2>3, <2>5 DEF UrlChecked
  <2>6. CASE RepoCreated(t) \/ NotificationsCreated(t)
    BY <2>1, <2>2, <2>3, <2>6 DEF RepoCreated, NotificationsCreated, GoesOn, QuayRequest
  <2>7. CASE RequestFails(t)
    BY <2>1, <2>7 DEF RequestFails
  <2>8. CASE TriggerReturns(t)
    BY <1>1, <2>3, <2>8 DEF TriggerReturns, QuayRequest
  <2>9. CASE PostReturns(t) \/ PostFails(t)
    BY <1>1, <2>9 DEF PostReturns, PostFails, objects, IsOnItsWay
  <2>10. CASE CancelReturns(t)
    <3>1. pc'[t] = "ended" /\ IsFinal(lastEvent'[t]) /\ hasBuildId[t] /\ hasBuildId' = hasBuildId
      BY <2>10, EventFacts DEF CancelReturns, Abort, SendAbortEvent, EmitEnd, Silently, QueueInv, TaskInv
    <3>2. inMap'[t] = inMap[t]
      BY <2>10, <3>1 DEF CancelReturns, Abort, SendAbortEvent, EmitEnd, Silently, SetOwn
    <3>3. build'[t] # "none" /\ (build[t] \in FinalBuild => build'[t] = build[t])
      BY <2>10, <3>1 DEF CancelReturns, FinalBuild
    <3> QED
      BY <1>1, <3>1, <3>2, <3>3 DEF IsOnItsWay
  <2> QED
    BY <1>3, <2>4, <2>5, <2>6, <2>7, <2>8, <2>9, <2>10 DEF BuildImage
<1> QED
  BY <1>2, <1>3

\* An event that is taken has found its task, or is tried again.
LEMMA HandleAnswers ==
  ASSUME TypeOK, QueueInv, AnswersInv, NEW e \in topic \cup retrying, Handle(e), NEW t \in Tasks
  PROVE  AnswerInv(t)'
<1>1. UNCHANGED <<isQueueActive, pc, hasBuildId, build, poller>>
  BY DEF Handle
<1>2. /\ IsFinal(lastEvent[t]) => IsFinal(lastEvent'[t])
      /\ Final(inMap[t]) => Final(inMap'[t])
  BY EventFacts DEF TypeOK, Handle, HandleKnown, Silently, Ends, EmitEnd, Known, Final
<1>3. isQueueActive /\ poller[t] = "ended" => IsOnItsWay(t)'
  <2> SUFFICES ASSUME isQueueActive, poller[t] = "ended" PROVE IsOnItsWay(t)'
    OBVIOUS
  <2>1. hasBuildId[t] /\ build[t] \in FinalBuild /\ IsOnItsWay(t)
    BY DEF AnswersInv, AnswerInv
  <2>2. CASE e # <<t, build[t]>>
    BY <1>1, <1>2, <2>1, <2>2 DEF Handle, IsOnItsWay
  <2>3. CASE e = <<t, build[t]>> /\ build[t] # "cancelled"
    <3>1. HandleKnown(t, build[t])
      BY <2>1, <2>3 DEF Handle, Known
    <3>2. Final(inMap'[t])
      BY <2>1, <2>3, <3>1, <1>2 DEF HandleKnown, Silently, Ends, EmitEnd, FinalBuild, TypeOK, Final
    <3> QED
      BY <3>2 DEF IsOnItsWay
  <2>4. CASE build[t] = "cancelled"
    BY <1>1, <2>4 DEF IsOnItsWay
  <2> QED
    BY <2>2, <2>3, <2>4
<1> QED
  BY <1>1, <1>2, <1>3 DEF AnswersInv, AnswerInv

\* Quay and the helper service publish what they know.
LEMMA QuayAnswers ==
  ASSUME TypeOK, QueueInv, AnswersInv, NEW t \in Tasks,
         \/ \E u \in Tasks : BuildBegins(u) \/ BuildEnds(u) \/ Webhook(u)
         \/ \E b \in ForeignBuilds : ForeignWebhook(b)
         \/ \E u \in Tasks : PollingBegins(u) \/ PollEnds(u) \/ PollGivesUp(u)
  PROVE  AnswerInv(t)'
<1> USE DEF TypeOK, AnswersInv, AnswerInv, IsOnItsWay
<1>1. ASSUME NEW u \in Tasks, BuildBegins(u) PROVE AnswerInv(t)'
  <2>1. ~hasBuildId[u]
    BY <1>1 DEF BuildBegins, QueueInv, TaskInv, QuayRequest
  <2> QED
    BY <1>1, <2>1 DEF BuildBegins, objects, events
<1>2. ASSUME NEW u \in Tasks, BuildEnds(u) PROVE AnswerInv(t)'
  <2>1. poller[u] # "ended"
    BY <1>2 DEF BuildEnds, FinalBuild
  <2>2. build'[u] # "none" /\ \A v \in Tasks \ {u} : build'[v] = build[v]
    BY <1>2 DEF BuildEnds
  <2>3. UNCHANGED <<isQueueActive, pc, hasBuildId, inMap, lastEvent, topic, retrying, poller>>
    BY <1>2 DEF BuildEnds, objects, events
  <2> QED
    BY <2>1, <2>2, <2>3
<1>3. ASSUME NEW u \in Tasks, Webhook(u) PROVE AnswerInv(t)'
  BY <1>3 DEF Webhook, objects
<1>4. ASSUME NEW b \in ForeignBuilds, ForeignWebhook(b) PROVE AnswerInv(t)'
  BY <1>4 DEF ForeignWebhook, objects
<1>5. ASSUME NEW u \in Tasks, PollingBegins(u) \/ PollGivesUp(u) PROVE AnswerInv(t)'
  BY <1>5 DEF PollingBegins, PollGivesUp, objects, events
<1>6. ASSUME NEW u \in Tasks, PollEnds(u) PROVE AnswerInv(t)'
  <2>1. isQueueActive => cleanup # "returned"
    BY DEF QueueInv
  <2> QED
    BY <1>6, <2>1 DEF PollEnds, objects
<1> QED
  BY <1>1, <1>2, <1>3, <1>4, <1>5, <1>6

\* The answer to a build that has an id is not lost.
THEOREM AnswersAreNotLost == Spec => []AnswersInv
<1>1. Init => AnswersInv
  BY DEF Init, AnswersInv, AnswerInv
<1>2. ASSUME TypeOK, QueueInv, AnswersInv, [Next]_vars PROVE AnswersInv'
  <2>1. ASSUME NEW t \in Tasks PROVE AnswerInv(t)'
    <3>1. ASSUME NEW u \in Tasks, AddTasksToQueue(u) PROVE AnswerInv(t)'
      <4>1. ~hasBuildId[u] /\ pc'[u] = "queued" /\ \A v \in Tasks \ {u} : pc'[v] = pc[v]
        BY <1>2, <3>1 DEF AddTasksToQueue, QueueInv, TaskInv, EndedObjects, TypeOK
      <4> QED
        BY <1>2, <2>1, <3>1, <4>1 DEF AddTasksToQueue, AnswersInv, AnswerInv, IsOnItsWay, objects, events
    <3>2. CASE \E u \in Tasks : BuildImage(u)
      BY <1>2, <2>1, <3>2, BuildImageAnswers
    <3>3. CASE \E e \in topic \cup retrying : Handle(e)
      BY <1>2, <2>1, <3>3, HandleAnswers
    <3>4. CASE Cleanup
      BY <1>2, <2>1, <3>4 DEF Cleanup, AnswersInv, AnswerInv, objects, events
    <3>5. CASE CleanupReturns
      <4>1. ~isQueueActive /\ ~isQueueActive' /\ (IsFinal(lastEvent[t]) => IsFinal(lastEvent'[t]))
        BY <1>2, <2>1, <3>5, EventFacts DEF CleanupReturns, QueueInv, TypeOK
      <4>2. UNCHANGED <<pc, hasBuildId, build, poller>>
        BY <3>5 DEF CleanupReturns
      <4> QED
        BY <1>2, <2>1, <4>1, <4>2 DEF AnswersInv, AnswerInv
    <3>6. CASE UNCHANGED vars
      BY <1>2, <2>1, <3>6, AnswerStays DEF AnswersInv, vars, objects, events
    <3> QED
      BY <1>2, <2>1, <3>1, <3>2, <3>3, <3>4, <3>5, <3>6, QuayAnswers DEF Next
  <2>2. isQueueActive' => cancelled' = {}
    BY <1>2 DEF AnswersInv, Next, AddTasksToQueue, BuildImage, Begin, UrlChecked, RepoCreated,
       NotificationsCreated, RequestFails, TriggerReturns, PostReturns, PostFails, CancelReturns, Handle,
       Cleanup, CleanupReturns, BuildBegins, BuildEnds, Webhook, ForeignWebhook, PollingBegins, PollEnds,
       PollGivesUp, vars
  <2> QED
    BY <2>1, <2>2 DEF AnswersInv
<1> QED
  BY <1>1, <1>2, TypeCorrect, QueueInvariant, PTL DEF Spec

\* A task of an open queue is never left without anything that could end it,
\* unless its build was cancelled by somebody or is not known to quay.
THEOREM BuildsAreNeverStuck == Spec => []BuildsCanGoOn
<1>1. TypeOK /\ QueueInv /\ AnswersInv => BuildsCanGoOn
  <2> SUFFICES ASSUME TypeOK, QueueInv, AnswersInv, isQueueActive, NEW t \in Tasks,
                      pc[t] # "notAdded", ~IsFinal(lastEvent[t]), build[t] # "building",
                      ~(pc[t] \in AtWork /\ t \notin cancelled),
                      ~(poller[t] = "polling" /\ build[t] \in FinalBuild),
                      build[t] # "cancelled", poller[t] # "gaveUp"
               PROVE  /\ Known(t) /\ ~Final(inMap[t])
                      /\ build[t] \in {"complete", "error"} /\ <<t, build[t]>> \in topic \cup retrying
    BY DEF BuildsCanGoOn
  <2>1. pc[t] = "ended"
    BY DEF TypeOK, AnswersInv
  <2>2. poller[t] # "off" /\ hasBuildId[t] /\ build[t] # "none"
    BY <2>1 DEF AnswersInv, AnswerInv
  <2>3. build[t] \in {"complete", "error"}
    BY <2>2 DEF TypeOK, FinalBuild
  <2>4. poller[t] = "ended"
    BY <2>2, <2>3 DEF TypeOK, FinalBuild
  <2>5. ~Final(inMap[t])
    BY DEF QueueInv, TaskInv
  <2>6. IsOnItsWay(t)
    BY <2>4 DEF AnswersInv, AnswerInv
  <2> QED
    BY <2>2, <2>3, <2>5, <2>6 DEF IsOnItsWay, Known
<1> QED
  BY <1>1, TypeCorrect, QueueInvariant, AnswersAreNotLost, PTL
=============================================================================
