------------------------- MODULE QuayBuildsTaskQueue -------------------------
(***************************************************************************)
(* The queue that builds docker images in quay, with the quay client, the  *)
(* helper service that tells how builds end, and quay itself.              *)
(*                                                                         *)
(* buildImage prepares and triggers a build by a row of requests.  How the *)
(* build ended comes back over a redis topic: from the webhooks of quay,   *)
(* which do not tell every failure, and from the helper service, which     *)
(* polls.  The topic is shared by all flows.  cleanup cancels the requests *)
(* to quay that are under way.                                             *)
(***************************************************************************)
EXTENDS TaskEvents, FiniteSets

CONSTANTS
  ForeignBuilds,  \* builds of other flows
  MaxForeign,     \* bound: how many events about them are on their way at a time
  Faults          \* "url", "quay", "post", "cancel", "unknown": what may go wrong

ASSUME ForeignAssumption == ForeignBuilds \cap Tasks = {} /\ MaxForeign \in Nat
ASSUME FaultsAssumption == Faults \subseteq {"url", "quay", "post", "cancel", "unknown"}

VARIABLES
  isQueueActive,
  cleanup,        \* where the first call of cleanup is
  pc,             \* where buildImage of a task is
  cancelled,      \* the tasks whose request was cancelled by cleanup
  own,            \* lastEmittedTaskExecutionStatus of the object buildImage holds
  inMap,          \* the same field of the object in the map of tasks
  hasBuildId,     \* the object in the map was replaced by one with the build id
  retrying,       \* events about unknown builds, tried again every second
  topic,          \* redis: events that were published and not delivered yet
  build,          \* quay: the builds
  poller,         \* the helper service: the builds it polls
  ends            \* history: how many events that end the task were emitted

objects == <<own, inMap, hasBuildId>>
events  == <<retrying, topic>>
vars == <<lastEvent, isQueueActive, cleanup, pc, cancelled, objects, events, build, poller, ends>>

FinalBuild == {"complete", "error", "cancelled"}
QuayRequest == {"createRepo", "notifications", "triggering"}
AtWork == {"queued", "checkUrl", "posting", "cancelling"} \cup QuayRequest
BuildEvents == (Tasks \cup ForeignBuilds) \X ({"building"} \cup FinalBuild)

TypeOK ==
  /\ lastEvent \in [Tasks -> Event \cup {Silent}]
  /\ isQueueActive \in BOOLEAN
  /\ cleanup \in {"notCalled", "draining", "returned"}
  /\ pc \in [Tasks -> AtWork \cup {"notAdded", "ended"}]
  /\ cancelled \subseteq Tasks
  /\ own \in [Tasks -> ExecutionStatus] /\ inMap \in [Tasks -> ExecutionStatus]
  /\ hasBuildId \in [Tasks -> BOOLEAN]
  /\ retrying \subseteq BuildEvents /\ topic \subseteq BuildEvents
  /\ build \in [Tasks -> {"none", "building"} \cup FinalBuild]
  /\ poller \in [Tasks -> {"off", "polling", "ended", "gaveUp"}]
  /\ ends \in [Tasks -> Nat]

Init ==
  /\ EventsInit
  /\ isQueueActive = TRUE
  /\ cleanup = "notCalled"
  /\ pc = [t \in Tasks |-> "notAdded"]
  /\ cancelled = {}
  /\ own = [t \in Tasks |-> "running"] /\ inMap = own
  /\ hasBuildId = [t \in Tasks |-> FALSE]
  /\ retrying = {} /\ topic = {}
  /\ build = [t \in Tasks |-> "none"]
  /\ poller = [t \in Tasks |-> "off"]
  /\ ends = [t \in Tasks |-> 0]

-----------------------------------------------------------------------------
(* The events of the queue.                                                 *)

Final(executionStatus) == executionStatus \in {"done", "aborted"}

\* buildImage writes the object it holds, which is the object in the map
\* until the build has an id.
SetOwn(t, executionStatus) ==
  /\ own' = [own EXCEPT ![t] = executionStatus]
  /\ inMap' = IF hasBuildId[t] THEN inMap ELSE [inMap EXCEPT ![t] = executionStatus]

\* The eventEmitter tells that the task ended.
EmitEnd(t, result) ==
  /\ lastEvent' = [lastEvent EXCEPT ![t] = result]
  /\ ends' = [ends EXCEPT ![t] = @ + 1]

Silently == UNCHANGED <<lastEvent, ends, own, inMap>>

\* sendAbortEvent
SendAbortEvent(t) ==
  IF Final(own[t]) THEN Silently
  ELSE SetOwn(t, "aborted") /\ EmitEnd(t, Aborted("skippedAsFailed"))

\* buildImage is over, with the abort event.
Abort(t) ==
  /\ SendAbortEvent(t)
  /\ pc' = [pc EXCEPT ![t] = "ended"]

-----------------------------------------------------------------------------
(* buildImage                                                               *)

\* Mutant: a closed queue accepts tasks.
AddsToClosedQueue(t) ==
  /\ pc[t] = "notAdded"
  /\ pc' = [pc EXCEPT ![t] = "queued"]
  /\ UNCHANGED <<lastEvent, ends, isQueueActive, cleanup, cancelled, objects, events, build, poller>>

\* The task is recorded, and buildImage waits for the internal queue; a closed
\* queue throws.
AddTasksToQueue(t) ==
  /\ isQueueActive
  /\ pc[t] = "notAdded"
  /\ pc' = [pc EXCEPT ![t] = "queued"]
  /\ UNCHANGED <<lastEvent, ends, isQueueActive, cleanup, cancelled, objects, events, build, poller>>

\* The task is announced as scheduled and, unless the queue was closed, as running.
Begin(t) ==
  /\ pc[t] = "queued"
  /\ IF isQueueActive
     THEN /\ SetOwn(t, "running")
          /\ lastEvent' = [lastEvent EXCEPT ![t] = Running] /\ UNCHANGED ends
          /\ pc' = [pc EXCEPT ![t] = "checkUrl"]
     ELSE Abort(t)
  /\ UNCHANGED <<isQueueActive, cleanup, cancelled, hasBuildId, events, build, poller>>

\* The next request, unless the queue was closed.
GoesOn(t, next) ==
  IF isQueueActive THEN pc' = [pc EXCEPT ![t] = next] /\ Silently
                   ELSE Abort(t)

\* The archive of the commit can be reached, or not.
UrlChecked(t) ==
  /\ pc[t] = "checkUrl"
  /\ \/ pc' = [pc EXCEPT ![t] = "createRepo"] /\ Silently
     \/ "url" \in Faults /\ Abort(t)
  /\ UNCHANGED <<isQueueActive, cleanup, cancelled, hasBuildId, events, build, poller>>

RepoCreated(t) ==
  /\ pc[t] = "createRepo"
  /\ t \notin cancelled
  /\ GoesOn(t, "notifications")
  /\ UNCHANGED <<isQueueActive, cleanup, cancelled, hasBuildId, events, build, poller>>

\* The list of the notifications came, and the missing ones were created.
NotificationsCreated(t) ==
  /\ pc[t] = "notifications"
  /\ t \notin cancelled
  /\ GoesOn(t, "triggering")
  /\ UNCHANGED <<isQueueActive, cleanup, cancelled, hasBuildId, events, build, poller>>

\* A request to quay is rejected, or was cancelled by cleanup; a response 429
\* only delays it.  There is no build id yet, so no build is cancelled.
RequestFails(t) ==
  /\ pc[t] \in QuayRequest
  /\ t \in cancelled \/ "quay" \in Faults
  /\ Abort(t)
  /\ UNCHANGED <<isQueueActive, cleanup, cancelled, hasBuildId, events, build, poller>>

\* Quay tells the id of the build: the object in the map is replaced.
TriggerReturns(t) ==
  /\ pc[t] = "triggering"
  /\ t \notin cancelled
  /\ build[t] # "none"
  /\ hasBuildId' = [hasBuildId EXCEPT ![t] = TRUE]
  /\ inMap' = [inMap EXCEPT ![t] = "running"]
  /\ pc' = [pc EXCEPT ![t] = "posting"]
  /\ UNCHANGED <<lastEvent, ends, isQueueActive, cleanup, cancelled, own, events, build, poller>>

\* The helper service answers at once, and polls.
PostReturns(t) ==
  /\ pc[t] = "posting"
  /\ poller[t] # "off"
  /\ pc' = [pc EXCEPT ![t] = "ended"]
  /\ UNCHANGED <<lastEvent, ends, isQueueActive, cleanup, cancelled, objects, events, build, poller>>

\* The helper service cannot be reached, or its answer: the build is cancelled.
PostFails(t) ==
  /\ "post" \in Faults
  /\ pc[t] = "posting"
  /\ pc' = [pc EXCEPT ![t] = "cancelling"]
  /\ UNCHANGED <<lastEvent, ends, isQueueActive, cleanup, cancelled, objects, events, build, poller>>

\* cancelBuild settled; that it failed is ignored.
CancelReturns(t) ==
  /\ pc[t] = "cancelling"
  /\ Abort(t)
  /\ build' \in {build, [build EXCEPT ![t] = IF @ = "building" THEN "cancelled" ELSE @]}
  /\ UNCHANGED <<isQueueActive, cleanup, cancelled, hasBuildId, events, poller>>

-----------------------------------------------------------------------------
(* onQuayBuildStatusChanged                                                 *)

Ends(t, st) ==
  /\ inMap' = [inMap EXCEPT ![t] = "done"]
  /\ own' = IF hasBuildId[t] THEN own ELSE [own EXCEPT ![t] = "done"]
  /\ EmitEnd(t, Done(st))

\* Mutant: a task that has ended takes the next event as well.
HandleKnownAgain(t, status) ==
  CASE status = "complete" -> Ends(t, "passed")
    [] status = "error"    -> Ends(t, "failed")
    [] OTHER               -> Silently

\* An event about a build of this queue: complete and error end the task; all
\* others, cancelled too, change nothing.
HandleKnown(t, status) ==
  CASE ~Final(inMap[t]) /\ status = "complete" -> Ends(t, "passed")
    [] ~Final(inMap[t]) /\ status = "error"    -> Ends(t, "failed")
    [] OTHER                                   -> Silently

Known(b) == b \in Tasks /\ hasBuildId[b]

\* Mutant: a closed queue still retries the events about unknown builds.
HandleWhenClosed(e) ==
  /\ e \in topic \cup retrying
  /\ topic' = topic \ {e}
  /\ IF Known(e[1])
     THEN HandleKnown(e[1], e[2]) /\ retrying' = retrying \ {e}
     ELSE Silently /\ retrying' = retrying \cup {e}
  /\ UNCHANGED <<isQueueActive, cleanup, pc, cancelled, hasBuildId, build, poller>>

\* Mutant: an event that is about none of the builds of this queue is taken by
\* a task that has a build, as if the task was found by the name of the repository.
HandleByRepo(e) ==
  /\ e \in topic \cup retrying
  /\ cleanup # "returned"
  /\ topic' = topic \ {e}
  /\ IF isQueueActive /\ \E t \in Tasks : hasBuildId[t]
     THEN /\ \E t \in Tasks : hasBuildId[t] /\ HandleKnown(t, e[2])
          /\ retrying' = retrying \ {e}
     ELSE Silently /\ retrying' = IF isQueueActive THEN retrying \cup {e} ELSE retrying \ {e}
  /\ UNCHANGED <<isQueueActive, cleanup, pc, cancelled, hasBuildId, build, poller>>

\* An event is delivered, or tried again.  One about a build that has no task
\* may be of another flow or too early: it is tried again, without end.
Handle(e) ==
  /\ e \in topic \cup retrying
  /\ cleanup # "returned"
  /\ topic' = topic \ {e}
  /\ CASE ~isQueueActive -> Silently /\ retrying' = retrying \ {e}
       [] isQueueActive /\ Known(e[1]) -> HandleKnown(e[1], e[2]) /\ retrying' = retrying \ {e}
       [] OTHER -> Silently /\ retrying' = retrying \cup {e}
  /\ UNCHANGED <<isQueueActive, cleanup, pc, cancelled, hasBuildId, build, poller>>

-----------------------------------------------------------------------------
(* cleanup                                                                  *)

\* The queue is closed; the requests to quay that are under way are cancelled.
Cleanup ==
  /\ isQueueActive
  /\ isQueueActive' = FALSE
  /\ cleanup' = "draining"
  /\ cancelled' = {t \in Tasks : pc[t] \in QuayRequest \/ pc[t] = "cancelling"}
  /\ UNCHANGED <<lastEvent, ends, pc, objects, events, build, poller>>

\* internalTaskQueue.drain(): no buildImage and no retry is under way.
InternalQueueIdle == retrying = {} /\ \A t \in Tasks : pc[t] \notin AtWork

\* What is not final in the map is aborted; the queue leaves the topic.
CleanupReturns ==
  /\ cleanup = "draining"
  /\ InternalQueueIdle
  /\ cleanup' = "returned"
  /\ LET aborted == {t \in Tasks : pc[t] # "notAdded" /\ ~Final(inMap[t])}
     IN /\ inMap' = [t \in Tasks |-> IF t \in aborted THEN "aborted" ELSE inMap[t]]
        /\ own' = [t \in Tasks |-> IF t \in aborted /\ ~hasBuildId[t] THEN "aborted" ELSE own[t]]
        /\ lastEvent' = [t \in Tasks |-> IF t \in aborted THEN Aborted("skippedAsFailed")
                                                          ELSE lastEvent[t]]
        /\ ends' = [t \in Tasks |-> IF t \in aborted THEN ends[t] + 1 ELSE ends[t]]
  /\ topic' = {}
  /\ UNCHANGED <<isQueueActive, pc, cancelled, hasBuildId, retrying, build, poller>>

-----------------------------------------------------------------------------
(* Quay and the helper service.                                             *)

\* Quay received the request, whose answer may not arrive any more.
BuildBegins(t) ==
  /\ pc[t] = "triggering"
  /\ build[t] = "none"
  /\ build' = [build EXCEPT ![t] = "building"]
  /\ UNCHANGED <<lastEvent, ends, isQueueActive, cleanup, pc, cancelled, objects, events, poller>>

\* A build ends by itself, or somebody cancels it in quay.
BuildEnds(t) ==
  /\ build[t] = "building"
  /\ \E status \in {"complete", "error"} \cup (IF "cancel" \in Faults THEN {"cancelled"} ELSE {}) :
       build' = [build EXCEPT ![t] = status]
  /\ UNCHANGED <<lastEvent, ends, isQueueActive, cleanup, pc, cancelled, objects, events, poller>>

\* A webhook of quay, which the helper service publishes; quay may send none.
Webhook(t) ==
  /\ build[t] # "none"
  /\ cleanup # "returned"
  /\ topic' = topic \cup {<<t, build[t]>>}
  /\ UNCHANGED <<lastEvent, ends, isQueueActive, cleanup, pc, cancelled, objects, retrying, build, poller>>

\* The events about a build of another flow that are on their way.
ForeignEvents == {e \in topic \cup retrying : e[1] \in ForeignBuilds}

\* The same for a build of another flow, however far it is.
ForeignWebhook(b) ==
  /\ cleanup # "returned"
  /\ Cardinality(ForeignEvents) < MaxForeign
  /\ \E status \in {"building"} \cup FinalBuild : topic' = topic \cup {<<b, status>>}
  /\ UNCHANGED <<lastEvent, ends, isQueueActive, cleanup, pc, cancelled, objects, retrying, build, poller>>

PollingBegins(t) ==
  /\ pc[t] = "posting"
  /\ poller[t] = "off"
  /\ poller' = [poller EXCEPT ![t] = "polling"]
  /\ UNCHANGED <<lastEvent, ends, isQueueActive, cleanup, pc, cancelled, objects, events, build>>

\* Mutant: the poll waits for the build to complete.
PollUntilComplete(t) ==
  /\ poller[t] = "polling"
  /\ build[t] = "complete"
  /\ poller' = [poller EXCEPT ![t] = "ended"]
  /\ topic' = IF cleanup = "returned" THEN topic ELSE topic \cup {<<t, build[t]>>}
  /\ UNCHANGED <<lastEvent, ends, isQueueActive, cleanup, pc, cancelled, objects, retrying, build>>

\* The poll sees that the build has ended and publishes it, once.
PollEnds(t) ==
  /\ poller[t] = "polling"
  /\ build[t] \in FinalBuild
  /\ poller' = [poller EXCEPT ![t] = "ended"]
  /\ topic' = IF cleanup = "returned" THEN topic ELSE topic \cup {<<t, build[t]>>}
  /\ UNCHANGED <<lastEvent, ends, isQueueActive, cleanup, pc, cancelled, objects, retrying, build>>

\* Quay answered 60 times that it does not know the build.
PollGivesUp(t) ==
  /\ "unknown" \in Faults
  /\ poller[t] = "polling"
  /\ poller' = [poller EXCEPT ![t] = "gaveUp"]
  /\ UNCHANGED <<lastEvent, ends, isQueueActive, cleanup, pc, cancelled, objects, events, build>>

-----------------------------------------------------------------------------
BuildImage(t) ==
  Begin(t) \/ UrlChecked(t) \/ RepoCreated(t) \/ NotificationsCreated(t)
    \/ RequestFails(t) \/ TriggerReturns(t) \/ PostReturns(t) \/ PostFails(t) \/ CancelReturns(t)

Next ==
  \/ \E t \in Tasks : AddTasksToQueue(t) \/ BuildImage(t)
  \/ \E e \in topic \cup retrying : Handle(e)
  \/ Cleanup
  \/ CleanupReturns
  \/ \E t \in Tasks : BuildBegins(t) \/ BuildEnds(t) \/ Webhook(t)
  \/ \E b \in ForeignBuilds : ForeignWebhook(b)
  \/ \E t \in Tasks : PollingBegins(t) \/ PollEnds(t) \/ PollGivesUp(t)

Spec == Init /\ [][Next]_vars

\* Requests settle, quay begins and ends what it accepted, the helper service
\* polls, redis delivers.  No webhook is promised, and no cleanup.
Fairness ==
  /\ \A t \in Tasks : /\ WF_vars(BuildImage(t)) /\ WF_vars(BuildBegins(t)) /\ WF_vars(BuildEnds(t))
                      /\ WF_vars(PollingBegins(t)) /\ WF_vars(PollEnds(t))
  /\ \A e \in BuildEvents : WF_vars(Handle(e))
  /\ WF_vars(CleanupReturns)

FairSpec == Spec /\ Fairness

-----------------------------------------------------------------------------
\* The one way for a task to be told to have ended a second time: the request to
\* the helper service failed after the build was triggered, and buildImage aborts
\* its own object, while the one in the map ends as well.
EndsTwice(t) == hasBuildId[t] /\ own'[t] = "aborted" /\ ends[t] = 1 /\ ends'[t] = 2

\* The events of a task only go forward and it is told to have ended once, though
\* webhooks and the helper service both tell how its build ended, and though two
\* objects stand for it; but for EndsTwice.
EventsGoForward ==
  [][\A t \in Tasks :
       \/ lastEvent'[t] = lastEvent[t] /\ ends'[t] = ends[t]
       \/ lastEvent'[t] # Silent /\ MayFollow(lastEvent[t], lastEvent'[t]) /\ ends[t] = 0 /\ ends'[t] \in {0, 1}
       \/ EndsTwice(t)]_<<lastEvent, ends>>

\* A task that is told to have passed, or failed, has a build that completed,
\* or ended with an error: how builds of other flows ended does not count.
ResultTellsBuild ==
  \A t \in Tasks : lastEvent[t].executionStatus = "done" =>
    build[t] = IF lastEvent[t].status = "passed" THEN "complete" ELSE "error"

\* When cleanup has returned, every task that was added has ended.
CleanupEndsTasks ==
  cleanup = "returned" => \A t \in Tasks : pc[t] # "notAdded" => IsFinal(lastEvent[t])

\* How many of the objects that stand for a task are final.
EndedObjects(t) == (IF Final(inMap[t]) THEN 1 ELSE 0) + (IF hasBuildId[t] /\ Final(own[t]) THEN 1 ELSE 0)

\* What the two objects of a task tell of its last event, and of cleanup.
TaskInv(t) ==
  /\ pc[t] \in {"notAdded", "queued"} => lastEvent[t] = Silent
  /\ pc[t] \in {"notAdded", "queued", "checkUrl"} \cup QuayRequest => ~hasBuildId[t] /\ ~Final(own[t])
  /\ ~hasBuildId[t] => inMap[t] = own[t]
  /\ Final(own[t]) \/ Final(inMap[t]) => IsFinal(lastEvent[t])
  /\ IsFinal(lastEvent[t]) => Final(inMap[t]) \/ (hasBuildId[t] /\ own[t] = "aborted")
  /\ ends[t] = EndedObjects(t)
  /\ hasBuildId[t] => own[t] # "done"
  /\ cleanup = "returned" => pc[t] \notin AtWork /\ (pc[t] # "notAdded" => Final(inMap[t]))

\* The inductive invariant of the queue: the events on their way about builds
\* that ended are true, and a queue that cleaned up is closed.
QueueInv ==
  /\ \A t \in Tasks : TaskInv(t)
  /\ \A e \in topic \cup retrying : e[1] \in Tasks /\ e[2] \in FinalBuild => build[e[1]] = e[2]
  /\ isQueueActive <=> cleanup = "notCalled"

\* cleanup returns, whatever requests and retries are under way.
CleanupEnds == cleanup = "draining" ~> cleanup = "returned"

\* Every task ends as long as the queue is open, its build is not cancelled by
\* somebody and quay knows it: a webhook that is not sent does not matter.
BuildsEnd ==
  \A t \in Tasks : pc[t] # "notAdded" ~>
    \/ IsFinal(lastEvent[t])
    \/ ~isQueueActive
    \/ build[t] = "cancelled"
    \/ poller[t] = "gaveUp"
=============================================================================
