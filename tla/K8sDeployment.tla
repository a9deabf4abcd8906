---------------------------- MODULE K8sDeployment ----------------------------
(***************************************************************************)
(* The deployment to kubernetes (deployAndWait) of several flows to one    *)
(* deployment of a cluster.                                                *)
(*                                                                         *)
(* A flow changes the image of the deployment, and its annotation          *)
(* change-cause, and then watches it.  The events of the watch go through  *)
(* concatMap, which takes one at a time and keeps the others back: while a *)
(* flow listens to pods it takes none.                                     *)
(*                                                                         *)
(* The cluster is external.  Its controller makes the replica set of a new *)
(* image, then tells in the status of the deployment which generation it   *)
(* has observed, whether all replicas are up, and whether they took too    *)
(* long.  Pods that run the image already make the first status complete.  *)
(***************************************************************************)
EXTENDS Statuses, FiniteSets, Sequences

CONSTANTS
  Flows, Images, Pods,
  FirstImage,       \* the image that is deployed before the flows
  Replicas,         \* spec.replicas of the deployment
  MaxEvents,        \* bound: events of either kind on their way to one flow
  MaxGeneration,    \* bound: somebody else deploys only up to this generation
  Disturbances      \* "request": a request or a watch may fail; "delete", "touch": the
                    \* deployment may be deleted, changed in something else than its image

NoPod   == "noPod"
NoCause == "noCause"

ASSUME ClusterAssumption ==
  /\ FirstImage \in Images /\ IsFiniteSet(Pods) /\ NoPod \notin Pods /\ NoCause \notin Images
  /\ Replicas \in Nat
  /\ MaxEvents \in Nat /\ MaxGeneration \in Nat
  /\ Disturbances \subseteq {"request", "delete", "touch"}

VARIABLES
  image, cause,      \* of the deployment: what its template and its annotation hold,
  generation,        \* and how often one of them changed
  status,            \* of the deployment, as the controller last told
  exists,            \* the deployment was not deleted
  replicaSets,       \* the images that have a replica set
  rolledOut,         \* history: the generations the controller told to be complete
  pod,               \* the pods of each replica set
  wanted,            \* the image each flow deploys
  failOnPodError,    \* failDeplomentOnPodError
  pc,                \* where deployAndWait of a flow is
  tracked,           \* the generation in the answer to the patch of a flow
  events,            \* the events of the deployment that its concatMap has not taken
  listened,          \* alreadyListeningToPodsEvents
  deploymentSuccess, podsSuccess,
  podEvents,         \* the events of its watch of pods that are on their way
  podsReady, podError,
  result             \* what the deployment of a flow came to

deployment == <<image, cause, generation, status, exists, replicaSets, rolledOut>>
config     == <<wanted, failOnPodError>>
watch      == <<tracked, listened, deploymentSuccess, podsSuccess>>
scanned    == <<podsReady, podError>>
flow       == <<pc, watch, scanned, result>>
vars       == <<deployment, pod, config, flow, events, podEvents>>

PodState == {"none", "waiting", "ready", "error", "deleted"}
Live     == {"waiting", "ready", "error"}

DeploymentStatus == {"notReadyYet", "success", "podFailed", "additional", "deleted", "timeout"}

\* What deployAndWait comes to: one of these, "nothing new to deploy", or an error.
Answer == (DeploymentStatus \ {"notReadyYet"}) \cup {"nothingNew", "error"}

RolloutStatus == [observed : Nat, complete : BOOLEAN, late : BOOLEAN]

Event == [type : {"modified", "deleted", "closed"}, image : Images, generation : Nat,
          status : RolloutStatus]
PodEvent == [pod : Pods, state : PodState]

TypeOK ==
  /\ image \in Images /\ cause \in Images \cup {NoCause} /\ generation \in Nat /\ status \in RolloutStatus
  /\ exists \in BOOLEAN
  /\ replicaSets \subseteq Images /\ rolledOut \subseteq Nat
  /\ pod \in [Images -> [Pods -> PodState]]
  /\ wanted \in [Flows -> Images] /\ failOnPodError \in BOOLEAN
  /\ pc \in [Flows -> {"idle", "watching", "listening", "ended"}]
  /\ tracked \in [Flows -> Nat] /\ events \in [Flows -> Seq(Event)]
  /\ listened \in [Flows -> BOOLEAN]
  /\ deploymentSuccess \in [Flows -> BOOLEAN] /\ podsSuccess \in [Flows -> BOOLEAN]
  /\ podEvents \in [Flows -> Seq(PodEvent)]
  /\ podsReady \in [Flows -> SUBSET Pods] /\ podError \in [Flows -> Pods \cup {NoPod}]
  /\ result \in [Flows -> Answer \cup {"none"}]

PodsThatAre(i, states) == {p \in Pods : pod[i][p] \in states}

\* A deployment that was rolled out, with all of its pods, by a flow or by others.
Init ==
  /\ image = FirstImage /\ cause \in Images \cup {NoCause} /\ generation = 1 /\ exists = TRUE
  /\ status = [observed |-> 1, complete |-> TRUE, late |-> FALSE]
  /\ replicaSets = {FirstImage} /\ rolledOut = {1}
  /\ pod \in [Images -> [Pods -> {"none", "ready"}]]
  /\ \A i \in Images :
       Cardinality(PodsThatAre(i, Live)) = IF i = FirstImage THEN Replicas ELSE 0
  /\ wanted \in [Flows -> Images] /\ failOnPodError \in BOOLEAN
  /\ pc = [f \in Flows |-> "idle"]
  /\ tracked = [f \in Flows |-> 0] /\ events = [f \in Flows |-> <<>>]
  /\ listened = [f \in Flows |-> FALSE]
  /\ deploymentSuccess = [f \in Flows |-> FALSE] /\ podsSuccess = [f \in Flows |-> FALSE]
  /\ podEvents = [f \in Flows |-> <<>>]
  /\ podsReady = [f \in Flows |-> {}] /\ podError = [f \in Flows |-> NoPod]
  /\ result = [f \in Flows |-> "none"]

-----------------------------------------------------------------------------
(* The cluster.                                                             *)

\* The flows whose watch of the deployment is open.
Watches(f) == pc[f] \in {"watching", "listening"}

\* The API server has closed the watch of a flow; that is the last of its events.
Closed(f) == events[f] # <<>> /\ events[f][Len(events[f])].type = "closed"

HearsOn(f) == Watches(f) /\ ~Closed(f)

\* Bound: what others do, and what goes wrong later, is followed while a flow may hear of it.
SomebodyWaits == \E f \in Flows : pc[f] = "idle" \/ HearsOn(f)

\* The deployment, as it is now, is told to those that watch it.
Tell(type) ==
  events' = [f \in Flows |->
               IF HearsOn(f)
               THEN Append(events[f], [type |-> type, image |-> image', generation |-> generation',
                                       status |-> status'])
               ELSE events[f]]

WatchCloses(f) ==
  /\ "request" \in Disturbances
  /\ HearsOn(f) /\ exists
  /\ events' = [events EXCEPT ![f] = Append(@, [type |-> "closed", image |-> image,
                                               generation |-> generation, status |-> status])]
  /\ UNCHANGED <<deployment, pod, config, flow, podEvents>>

CreateReplicaSet ==
  /\ exists
  /\ image \notin replicaSets
  /\ replicaSets' = replicaSets \cup {image}
  /\ UNCHANGED <<image, cause, generation, status, exists, rolledOut, pod, config, flow, events,
                 podEvents>>

\* The controller writes the status of a deployment whose replica set it has made.
TellStatus(complete, late) ==
  /\ exists
  /\ image \in replicaSets
  /\ status' = [observed |-> generation, complete |-> complete, late |-> late]
  /\ rolledOut' = IF complete THEN rolledOut \cup {generation} ELSE rolledOut
  /\ UNCHANGED <<image, cause, generation, exists, replicaSets, pod, config, flow, podEvents>>
  /\ Tell("modified")

\* All replicas are up, and no pod of another image is left.
AllUp ==
  /\ Cardinality(PodsThatAre(image, {"ready"})) = Replicas
  /\ \A i \in Images \ {image} : PodsThatAre(i, Live) = {}

\* It has seen the new generation, which may be up already, or still be called late
\* for what the generation before was late.
Observe ==
  /\ status.observed # generation
  /\ \E complete, late \in BOOLEAN :
       /\ complete => AllUp /\ ~late
       /\ late => status.late
       /\ TellStatus(complete, late)

Complete ==
  /\ status.observed = generation /\ ~status.complete
  /\ AllUp
  /\ TellStatus(TRUE, FALSE)

\* A rollout that was complete misses a pod.
PodsLost ==
  /\ status.observed = generation /\ status.complete
  /\ ~AllUp
  /\ SomebodyWaits
  /\ \A f \in Flows : Watches(f) => Len(events[f]) < MaxEvents
  /\ TellStatus(FALSE, FALSE)

\* progressDeadlineSeconds have passed, and it was never complete.
DeadlineExceeded ==
  /\ status.observed = generation /\ ~status.complete /\ ~status.late
  /\ generation \notin rolledOut
  /\ TellStatus(FALSE, TRUE)

\* The change to image i with change-cause c: a new generation, if one is another.
Patch(i, c) ==
  /\ exists
  /\ image' = i /\ cause' = c
  /\ UNCHANGED <<status, exists, replicaSets, rolledOut, pod, config, podEvents>>
  /\ IF i = image /\ c = cause THEN UNCHANGED <<generation, events>>
     ELSE generation' = generation + 1 /\ Tell("modified")

\* Somebody else deploys an image, by hand, which leaves the annotation as it is.
PatchedByOthers(i) ==
  /\ SomebodyWaits
  /\ generation < MaxGeneration
  /\ i # image
  /\ Patch(i, cause)
  /\ UNCHANGED flow

\* Somebody changes something that is not in the template.
Touched ==
  /\ "touch" \in Disturbances
  /\ SomebodyWaits
  /\ exists
  /\ \A f \in Flows : Watches(f) => Len(events[f]) < MaxEvents
  /\ UNCHANGED <<deployment, pod, config, flow, podEvents>>
  /\ Tell("modified")

Deleted ==
  /\ "delete" \in Disturbances
  /\ SomebodyWaits
  /\ exists
  /\ exists' = FALSE
  /\ UNCHANGED <<image, cause, generation, status, replicaSets, rolledOut, pod, config, flow, podEvents>>
  /\ Tell("deleted")

\* A pod may stay as it is for ever: an image that cannot be scheduled or started.
MayBecome(s, t) ==
  \/ s = "none"    /\ t = "waiting"
  \/ s = "waiting" /\ t \in {"ready", "error"}
  \/ s = "ready"   /\ t = "error"
  \/ s = "error"   /\ t = "ready"
  \/ s \in Live    /\ t = "deleted"

Listens(f, i) == pc[f] = "listening" /\ wanted[f] = i

\* Bound: the pods of an image are followed while a flow waits for it; those of other
\* images may only go.
PodChanges(i, p, s) ==
  /\ \E f \in Flows : Watches(f) /\ (wanted[f] = i \/ s = "deleted")
  /\ i \in replicaSets
  /\ MayBecome(pod[i][p], s)
  /\ i = image \/ s = "deleted" \/ (\E f \in Flows : Listens(f, i))
  /\ pod[i][p] = "none" => i = image /\ Cardinality(PodsThatAre(i, Live)) < Replicas
  /\ \A f \in Flows : Listens(f, i) => Len(podEvents[f]) < MaxEvents
  /\ pod' = [pod EXCEPT ![i][p] = s]
  /\ podEvents' = [f \in Flows |-> IF Listens(f, i)
                                   THEN Append(podEvents[f], [pod |-> p, state |-> s])
                                   ELSE podEvents[f]]
  /\ UNCHANGED <<deployment, config, flow, events>>

-----------------------------------------------------------------------------
(* deployAndWait.                                                           *)

Ends(f, answer) ==
  /\ pc' = [pc EXCEPT ![f] = "ended"]
  /\ result' = [result EXCEPT ![f] = answer]

\* processDeploymentResult, and the status the engine gives an error.
StepResult(answer) ==
  CASE answer = "success"    -> Done("passed")
    [] answer = "nothingNew" -> Aborted("skippedAsPassed")
    [] OTHER                 -> Done("failed")

\* deploy: the patch, whose change-cause names the image, and the look at its
\* answer.  A flow that goes on watches
\* the deployment from the resource version of the answer on.
Deploy(f) ==
  /\ pc[f] = "idle"
  /\ Patch(wanted[f], wanted[f])
  /\ tracked' = [tracked EXCEPT ![f] = generation']
  /\ \/ generation' = status.observed /\ Ends(f, "nothingNew")
     \/ /\ generation' # status.observed
        /\ pc' = [pc EXCEPT ![f] = "watching"]
        /\ UNCHANGED result
  /\ UNCHANGED <<listened, deploymentSuccess, podsSuccess, scanned>>

\* A request is refused (of a deployment that does not exist: always), a watch ends
\* with an error, or the watch of pods is closed, of which first() makes an error.
Rejected(f) ==
  /\ \/ pc[f] = "idle" /\ ~exists
     \/ pc[f] # "ended" /\ "request" \in Disturbances
  /\ Ends(f, "error")
  /\ events' = [events EXCEPT ![f] = <<>>]
  /\ podEvents' = [podEvents EXCEPT ![f] = <<>>]
  /\ UNCHANGED <<deployment, pod, config, watch, scanned>>

\* Mutant: it does not matter which generation the status is about.
StatusOfAnyGeneration(e, g) ==
  CASE e.generation > g                             -> "additional"
    [] e.generation <= g /\ e.status.late           -> "timeout"
    [] /\ e.generation <= g
       /\ ~e.status.late /\ e.status.complete       -> "success"
    [] OTHER                                        -> "notReadyYet"

\* Mutant: a rollout that is late is not ready yet.
StatusWithoutDeadline(e, g) ==
  CASE e.generation > g                                                -> "additional"
    [] /\ e.generation <= g /\ e.generation = e.status.observed
       /\ e.status.complete                                            -> "success"
    [] OTHER                                                           -> "notReadyYet"

\* getUpdatedDeploymentStatus, when generation g is tracked.
StatusOf(e, g) ==
  LET observed == e.generation <= g /\ e.generation = e.status.observed
  IN CASE e.generation > g                                 -> "additional"
       [] observed /\ e.status.late                        -> "timeout"
       [] observed /\ ~e.status.late /\ e.status.complete  -> "success"
       [] OTHER                                            -> "notReadyYet"

\* The orders in which a watch that begins tells of the pods that are there.
Orders(S) == {q \in [1 .. Cardinality(S) -> S] : \A x \in S : \E k \in DOMAIN q : q[k] = x}

\* findReplicaSetOfDeployment finds the replica set of the image in the event.
HasReplicaSet(e) == e.image \in replicaSets

\* concatMap takes the next event.  An event of a deployment whose replica set is not
\* found is an error, and so is that there is none any more.  The first that finds
\* the deployment not ready begins to listen to the pods, and no event is taken
\* before that is over.
TakeEvent(f) ==
  /\ pc[f] = "watching"
  /\ events[f] # <<>>
  /\ LET e == Head(events[f])
         found == e.type = "modified" /\ HasReplicaSet(e)
         st == StatusOf(e, tracked[f])
         listens == found /\ st = "notReadyYet" /\ failOnPodError /\ ~listened[f]
         succeeds == found /\ st = "success"
     IN /\ \/ e.type = "deleted" /\ Ends(f, "deleted")
           \/ e.type # "deleted" /\ ~found /\ Ends(f, "error")
           \/ found /\ st \in {"additional", "timeout"} /\ Ends(f, st)
           \/ succeeds /\ (failOnPodError => podsSuccess[f]) /\ Ends(f, "success")
           \/ /\ \/ found /\ st = "notReadyYet"
                 \/ succeeds /\ failOnPodError /\ ~podsSuccess[f]
              /\ pc' = [pc EXCEPT ![f] = IF listens THEN "listening" ELSE @]
              /\ UNCHANGED result
        /\ listened' = [listened EXCEPT ![f] = @ \/ listens]
        /\ deploymentSuccess' = [deploymentSuccess EXCEPT ![f] = @ \/ succeeds]
        /\ \E q \in Orders(PodsThatAre(e.image, Live)) :
             podEvents' = IF listens
                          THEN [podEvents EXCEPT ![f] =
                                  [k \in DOMAIN q |-> [pod |-> q[k], state |-> pod[e.image][q[k]]]]]
                          ELSE podEvents
        /\ events' = [events EXCEPT ![f] = IF pc'[f] = "ended" THEN <<>> ELSE Tail(@)]
  /\ UNCHANGED <<deployment, pod, config, tracked, podsSuccess, scanned>>

\* The scan of the events of pods, and what follows its first verdict.
TakePodEvent(f) ==
  /\ pc[f] = "listening"
  /\ podEvents[f] # <<>>
  /\ LET e == Head(podEvents[f])
         failed == podError[f] = e.pod
         ready == CASE e.state = "deleted"           -> podsReady[f] \ {e.pod}
                    [] e.state = "ready" /\ ~failed  -> podsReady[f] \cup {e.pod}
                    [] OTHER                         -> podsReady[f]
         error == CASE e.state = "deleted" /\ failed -> NoPod
                    [] e.state = "error"             -> e.pod
                    [] OTHER                         -> podError[f]
         allReady == error = NoPod /\ Cardinality(ready) = Replicas
     IN /\ podsReady' = [podsReady EXCEPT ![f] = ready]
        /\ podError' = [podError EXCEPT ![f] = error]
        /\ podsSuccess' = [podsSuccess EXCEPT ![f] = @ \/ allReady]
        /\ \/ error # NoPod /\ Ends(f, "podFailed")
           \/ allReady /\ deploymentSuccess[f] /\ Ends(f, "success")
           \/ /\ error = NoPod
              /\ ~(allReady /\ deploymentSuccess[f])
              /\ pc' = [pc EXCEPT ![f] = IF allReady THEN "watching" ELSE @]
              /\ UNCHANGED result
        /\ podEvents' = [podEvents EXCEPT ![f] = IF pc'[f] = "listening" THEN Tail(@) ELSE <<>>]
        /\ events' = [events EXCEPT ![f] = IF pc'[f] = "ended" THEN <<>> ELSE @]
  /\ UNCHANGED <<deployment, pod, config, tracked, listened, deploymentSuccess>>

-----------------------------------------------------------------------------
Cluster ==
  \/ CreateReplicaSet \/ Observe \/ Complete \/ PodsLost \/ DeadlineExceeded
  \/ Touched \/ Deleted \/ \E f \in Flows : WatchCloses(f)
  \/ \E i \in Images : PatchedByOthers(i)
  \/ \E i \in Images, p \in Pods, s \in PodState : PodChanges(i, p, s)

Next ==
  \/ Cluster
  \/ \E f \in Flows : Deploy(f) \/ Rejected(f) \/ TakeEvent(f) \/ TakePodEvent(f)

Spec == Init /\ [][Next]_vars

\* The controller works and the deadline passes; the events arrive.  Pods need not
\* come up, and no watch need be closed.
Fairness ==
  /\ WF_vars(CreateReplicaSet) /\ WF_vars(Observe) /\ WF_vars(DeadlineExceeded)
  /\ \A f \in Flows : WF_vars(TakeEvent(f)) /\ WF_vars(TakePodEvent(f))

FairSpec == Spec /\ Fairness

-----------------------------------------------------------------------------
\* A flow tells that its image was deployed only when all replicas ran it, in the
\* generation its own patch made: not the pods of an earlier rollout, nor those of
\* another flow.
PassedMeansRolledOut ==
  \A f \in Flows :
    pc[f] = "ended" /\ StepResult(result[f]) = Done("passed") => tracked[f] \in rolledOut

\* A flow that has nothing new to deploy finds its image rolled out.
NothingNewMeansRolledOut ==
  \A f \in Flows :
    pc[f] = "ended" /\ StepResult(result[f]) = Aborted("skippedAsPassed")
      => tracked[f] \in rolledOut

\* The two waits that nothing ends.  A flow that listens to pods, none of which fails
\* while not all come up, looks at nothing else.  And a flow whose first status was
\* complete does not listen to the pods it still wants to see ready.
ListensToSilentPods(f) ==
  /\ pc[f] = "listening"
  /\ PodsThatAre(wanted[f], {"error"}) = {}
  /\ Cardinality(PodsThatAre(wanted[f], {"ready"})) < Replicas

KnowsButNeverListens(f) == pc[f] = "watching" /\ deploymentSuccess[f] /\ ~listened[f]

\* Every deployment is answered, by the deadline at the latest, but for these two waits,
\* which only failDeplomentOnPodError makes.
OnlySilentPodsKeepWaiting ==
  \A f \in Flows :
    <>[](pc[f] \in {"watching", "listening"}) =>
      <>[](failOnPodError /\ (ListensToSilentPods(f) \/ KnowsButNeverListens(f)))
=============================================================================
