------------------------- MODULE K8sDeploymentProofs -------------------------
(***************************************************************************)
(* A deployment that passed was rolled out, and no flow misses an event of *)
(* the deployment or of its pods that it waits for, for any number of      *)
(* flows, images, pods and disturbances.                                   *)
(***************************************************************************)
EXTENDS K8sDeployment, FiniteSetTheorems, SequenceTheorems, TLAPS

-----------------------------------------------------------------------------
(* The inductive invariant.                                                 *)

\* What the controller tells of a complete rollout is true.
Truthful(st, rollouts) == st.complete => st.observed \in rollouts

\* The events of a flow are about the generation it tracks or a later one, and
\* what they tell is true.
EventsAreTrue ==
  \A f \in Flows : \A k \in DOMAIN events[f] :
    events[f][k].generation >= tracked[f] /\ Truthful(events[f][k].status, rolledOut)

\* A flow tracks a generation the deployment has had, and remembers only of that one
\* that it was complete.
TrackedFacts ==
  \A f \in Flows :
    /\ generation >= tracked[f]
    /\ deploymentSuccess[f] => tracked[f] \in rolledOut
    /\ pc[f] = "idle" => events[f] = <<>> /\ ~deploymentSuccess[f]

\* A generation that is new was not rolled out before.
RolloutsSoFar ==
  /\ \A g \in rolledOut : g <= generation
  /\ generation \in rolledOut => status.observed = generation

RolloutInv ==
  /\ Truthful(status, rolledOut) /\ EventsAreTrue /\ TrackedFacts /\ RolloutsSoFar
  /\ PassedMeansRolledOut

-----------------------------------------------------------------------------
(* The types.                                                               *)

LEMMA InitType == Init => TypeOK
<1> SUFFICES ASSUME Init PROVE TypeOK
  OBVIOUS
<1> USE ClusterAssumption DEF Init
<1>1. status \in RolloutStatus
  BY DEF RolloutStatus
<1>2. pod \in [Images -> [Pods -> PodState]]
  BY DEF PodState
<1>3. events \in [Flows -> Seq(Event)] /\ podEvents \in [Flows -> Seq(PodEvent)]
  OBVIOUS
<1> QED BY <1>1, <1>2, <1>3 DEF TypeOK

\* Telling keeps the queues queues of events.
LEMMA TellType ==
  ASSUME TypeOK, NEW type \in {"modified", "deleted"}, Tell(type),
         image' \in Images, generation' \in Nat, status' \in RolloutStatus
  PROVE  events' \in [Flows -> Seq(Event)]
<1> DEFINE e == [type |-> type, image |-> image', generation |-> generation', status |-> status']
<1>1. e \in Event
  BY DEF Event
<1>2. \A f \in Flows : events[f] \in Seq(Event)
  BY DEF TypeOK
<1>3. \A f \in Flows : Append(events[f], e) \in Seq(Event)
  BY <1>1, <1>2
<1> QED BY <1>2, <1>3 DEF Tell

LEMMA PatchType ==
  ASSUME TypeOK, NEW i \in Images, NEW c \in Images \cup {NoCause}, Patch(i, c)
  PROVE  /\ image' \in Images /\ cause' \in Images \cup {NoCause}
         /\ generation' \in Nat /\ status' \in RolloutStatus
         /\ events' \in [Flows -> Seq(Event)]
<1>1. /\ image' \in Images /\ cause' \in Images \cup {NoCause}
      /\ generation' \in Nat /\ status' \in RolloutStatus
  BY DEF Patch, TypeOK
<1>2. CASE UNCHANGED events
  BY <1>1, <1>2 DEF TypeOK
<1>3. CASE Tell("modified")
  BY <1>1, <1>3, TellType
<1> QED BY <1>1, <1>2, <1>3 DEF Patch

LEMMA TellStatusType ==
  ASSUME TypeOK, NEW complete \in BOOLEAN, NEW late \in BOOLEAN, TellStatus(complete, late)
  PROVE  TypeOK'
<1>1. status' \in RolloutStatus
  BY DEF TellStatus, TypeOK, RolloutStatus
<1>2. rolledOut' \subseteq Nat
  BY DEF TellStatus, TypeOK
<1>3. events' \in [Flows -> Seq(Event)]
  BY <1>1, TellType DEF TellStatus, TypeOK
<1> QED BY <1>1, <1>2, <1>3 DEF TypeOK, TellStatus, flow, watch, scanned, config

\* The pods that are there come in some order.
LEMMA OrdersType ==
  ASSUME TypeOK, NEW i \in Images, NEW q \in Orders(PodsThatAre(i, Live))
  PROVE  [k \in DOMAIN q |-> [pod |-> q[k], state |-> pod[i][q[k]]]] \in Seq(PodEvent)
<1> DEFINE S == PodsThatAre(i, Live)
<1>1. S \subseteq Pods
  BY DEF PodsThatAre
<1>2. Cardinality(S) \in Nat
  BY <1>1, ClusterAssumption, FS_Subset, FS_CardinalityType
<1>3. q \in [1 .. Cardinality(S) -> S]
  BY DEF Orders
<1>4. \A k \in 1 .. Cardinality(S) : [pod |-> q[k], state |-> pod[i][q[k]]] \in PodEvent
  BY <1>1, <1>3 DEF TypeOK, PodEvent
<1> QED BY <1>2, <1>3, <1>4

LEMMA NextType == TypeOK /\ [Next]_vars => TypeOK'
<1> SUFFICES ASSUME TypeOK, [Next]_vars PROVE TypeOK'
  OBVIOUS
<1>1. CASE CreateReplicaSet
  BY <1>1 DEF CreateReplicaSet, TypeOK, flow, watch, scanned, config
<1>2. CASE Observe \/ Complete \/ PodsLost \/ DeadlineExceeded
  BY <1>2, TellStatusType DEF Observe, Complete, PodsLost, DeadlineExceeded
<1>3. ASSUME NEW i \in Images, PatchedByOthers(i) PROVE TypeOK'
  <2>1. cause \in Images \cup {NoCause}
    BY DEF TypeOK
  <2>2. /\ image' \in Images /\ cause' \in Images \cup {NoCause}
        /\ generation' \in Nat /\ status' \in RolloutStatus
        /\ events' \in [Flows -> Seq(Event)]
    BY <1>3, <2>1, PatchType DEF PatchedByOthers
  <2> QED BY <1>3, <2>2 DEF PatchedByOthers, Patch, TypeOK, flow, watch, scanned, config
<1>4. CASE Touched
  <2>1. events' \in [Flows -> Seq(Event)]
    BY <1>4, TellType DEF Touched, TypeOK, deployment
  <2> QED BY <1>4, <2>1 DEF Touched, TypeOK, deployment, flow, watch, scanned, config
<1>5. CASE Deleted
  <2>1. events' \in [Flows -> Seq(Event)]
    BY <1>5, TellType DEF Deleted, TypeOK
  <2> QED BY <1>5, <2>1 DEF Deleted, TypeOK, flow, watch, scanned, config
<1>6. ASSUME NEW i \in Images, NEW p \in Pods, NEW s \in PodState, PodChanges(i, p, s)
      PROVE  TypeOK'
  <2>1. pod' \in [Images -> [Pods -> PodState]]
    BY <1>6 DEF PodChanges, TypeOK
  <2>2. [pod |-> p, state |-> s] \in PodEvent
    BY DEF PodEvent
  <2>3. podEvents' \in [Flows -> Seq(PodEvent)]
    BY <1>6, <2>2 DEF PodChanges, TypeOK
  <2> QED BY <1>6, <2>1, <2>3 DEF PodChanges, TypeOK, deployment, flow, watch, scanned, config
<1>7. ASSUME NEW f \in Flows, Deploy(f) PROVE TypeOK'
  <2>1. wanted[f] \in Images
    BY DEF TypeOK
  <2>2. /\ image' \in Images /\ cause' \in Images \cup {NoCause}
        /\ generation' \in Nat /\ status' \in RolloutStatus
        /\ events' \in [Flows -> Seq(Event)]
    BY <1>7, <2>1, PatchType DEF Deploy
  <2>3. /\ pc' \in [Flows -> {"idle", "watching", "listening", "ended"}]
        /\ result' \in [Flows -> Answer \cup {"none"}]
    BY <1>7 DEF Deploy, Ends, TypeOK, Answer
  <2> QED BY <1>7, <2>2, <2>3 DEF Deploy, Patch, TypeOK, scanned, config
<1>8. ASSUME NEW f \in Flows, Rejected(f) PROVE TypeOK'
  BY <1>8 DEF Rejected, Ends, TypeOK, Answer, deployment, watch, scanned, config
<1>9. ASSUME NEW f \in Flows, TakeEvent(f) PROVE TypeOK'
  <2> DEFINE e == Head(events[f])
  <2>1. e \in Event /\ Tail(events[f]) \in Seq(Event)
    BY <1>9 DEF TakeEvent, TypeOK
  <2>2. events' \in [Flows -> Seq(Event)]
    BY <1>9, <2>1 DEF TakeEvent, TypeOK
  <2>3. /\ pc' \in [Flows -> {"idle", "watching", "listening", "ended"}]
        /\ result' \in [Flows -> Answer \cup {"none"}]
    <3>1. ASSUME NEW r \in Answer, Ends(f, r)
          PROVE  /\ pc' \in [Flows -> {"idle", "watching", "listening", "ended"}]
                 /\ result' \in [Flows -> Answer \cup {"none"}]
      BY <3>1 DEF Ends, TypeOK
    <3>2. {"deleted", "error", "additional", "timeout", "success"} \subseteq Answer
      BY DEF Answer, DeploymentStatus
    <3>3. \/ \E r \in Answer : Ends(f, r)
          \/ /\ \/ pc' = [pc EXCEPT ![f] = "listening"]
                \/ pc' = [pc EXCEPT ![f] = @]
             /\ UNCHANGED result
      BY SMTT(30), <1>9, <3>2 DEF TakeEvent
    <3>4. QED BY <3>1, <3>3 DEF TypeOK
  <2>4. listened' \in [Flows -> BOOLEAN] /\ deploymentSuccess' \in [Flows -> BOOLEAN]
    BY <1>9 DEF TakeEvent, TypeOK
  <2>5. podEvents' \in [Flows -> Seq(PodEvent)]
    <3>1. e.image \in Images
      BY <2>1 DEF Event
    <3>2. PICK q \in Orders(PodsThatAre(e.image, Live)), listens \in BOOLEAN :
            podEvents' = IF listens
                         THEN [podEvents EXCEPT ![f] =
                                 [k \in DOMAIN q |-> [pod |-> q[k], state |-> pod[e.image][q[k]]]]]
                         ELSE podEvents
      BY <1>9 DEF TakeEvent
    <3>3. [k \in DOMAIN q |-> [pod |-> q[k], state |-> pod[e.image][q[k]]]] \in Seq(PodEvent)
      BY <3>1, OrdersType
    <3> QED BY <3>2, <3>3 DEF TypeOK
  <2> QED BY <1>9, <2>2, <2>3, <2>4, <2>5 DEF TakeEvent, TypeOK, deployment, scanned, config
<1>10. ASSUME NEW f \in Flows, TakePodEvent(f) PROVE TypeOK'
  <2> DEFINE e == Head(podEvents[f])
  <2>1. e \in PodEvent /\ Tail(podEvents[f]) \in Seq(PodEvent)
    BY <1>10 DEF TakePodEvent, TypeOK
  <2>2. podsReady' \in [Flows -> SUBSET Pods] /\ podError' \in [Flows -> Pods \cup {NoPod}]
    BY <1>10, <2>1 DEF TakePodEvent, TypeOK, PodEvent
  <2>3. /\ pc' \in [Flows -> {"idle", "watching", "listening", "ended"}]
        /\ result' \in [Flows -> Answer \cup {"none"}]
    BY <1>10 DEF TakePodEvent, Ends, TypeOK, Answer, DeploymentStatus
  <2>4. podsSuccess' \in [Flows -> BOOLEAN]
    BY <1>10 DEF TakePodEvent, TypeOK
  <2>5. podEvents' \in [Flows -> Seq(PodEvent)] /\ events' \in [Flows -> Seq(Event)]
    BY <1>10, <2>1 DEF TakePodEvent, TypeOK
  <2> QED BY <1>10, <2>2, <2>3, <2>4, <2>5 DEF TakePodEvent, TypeOK, deployment, config
<1>11. ASSUME NEW f \in Flows, WatchCloses(f) PROVE TypeOK'
  <2>1. [type |-> "closed", image |-> image, generation |-> generation, status |-> status] \in Event
    BY DEF TypeOK, Event
  <2>2. events' \in [Flows -> Seq(Event)]
    BY <1>11, <2>1 DEF WatchCloses, TypeOK
  <2> QED BY <1>11, <2>2 DEF WatchCloses, TypeOK, deployment, flow, watch, scanned, config
<1>12. CASE UNCHANGED vars
  BY <1>12 DEF vars, TypeOK, deployment, flow, watch, scanned, config
<1> QED BY <1>1, <1>2, <1>3, <1>4, <1>5, <1>6, <1>7, <1>8, <1>9, <1>10, <1>11, <1>12
        DEF Next, Cluster

\* Every variable keeps its type, for every value of the constants.
THEOREM TypeCorrect == Spec => []TypeOK
<1>1. Init => TypeOK
  BY InitType
<1>2. TypeOK /\ [Next]_vars => TypeOK'
  BY NextType
<1> QED BY <1>1, <1>2, PTL DEF Spec

-----------------------------------------------------------------------------
(* The rollouts.                                                            *)

LEMMA InitInv == Init => RolloutInv
BY DEF Init, RolloutInv, Truthful, EventsAreTrue, TrackedFacts, RolloutsSoFar, PassedMeansRolledOut

\* Telling what is true of a generation nobody tracks a later one than.
LEMMA TellTrue ==
  ASSUME TypeOK, RolloutInv, NEW e,
         \A f \in Flows : events'[f] = events[f] \/ events'[f] = Append(events[f], e),
         e.generation = generation', e.status = status',
         generation' \in Nat, generation' >= generation, tracked' = tracked,
         Truthful(status', rolledOut'), rolledOut \subseteq rolledOut'
  PROVE  EventsAreTrue'
<1> SUFFICES ASSUME NEW f \in Flows, NEW k \in DOMAIN events'[f]
             PROVE  /\ events'[f][k].generation >= tracked'[f]
                    /\ Truthful(events'[f][k].status, rolledOut')
  BY DEF EventsAreTrue
<1>1. events[f] \in Seq(Event) /\ tracked[f] \in Nat /\ generation \in Nat
  BY DEF TypeOK
<1>2. \A j \in DOMAIN events[f] :
         events[f][j].generation >= tracked[f] /\ Truthful(events[f][j].status, rolledOut')
  BY DEF RolloutInv, EventsAreTrue, Truthful
<1>3. e.generation >= tracked[f] /\ Truthful(e.status, rolledOut')
  BY <1>1 DEF RolloutInv, TrackedFacts
<1>4. \/ events'[f] = events[f]
      \/ /\ events'[f] = Append(events[f], e)
         /\ \/ k \in DOMAIN events[f] /\ events'[f][k] = events[f][k]
            \/ events'[f][k] = e
  BY <1>1
<1> QED BY <1>2, <1>3, <1>4

\* What a telling appends.
Told(type) == [type |-> type, image |-> image', generation |-> generation', status |-> status']

LEMMA TellIsTrue ==
  ASSUME TypeOK, RolloutInv, NEW type \in {"modified", "deleted"}, Tell(type),
         generation' \in Nat, generation' >= generation, tracked' = tracked,
         Truthful(status', rolledOut'), rolledOut \subseteq rolledOut'
  PROVE  EventsAreTrue'
<1>1. \A f \in Flows : events'[f] = events[f] \/ events'[f] = Append(events[f], Told(type))
  BY DEF Tell, Told
<1>2. Told(type).generation = generation' /\ Told(type).status = status'
  BY DEF Told
<1> QED BY <1>1, <1>2, TellTrue

\* What stays true when the events do.
LEMMA KeptFacts ==
  ASSUME TypeOK, RolloutInv, UNCHANGED flow, generation' \in Nat, generation' >= generation,
         rolledOut \subseteq rolledOut', EventsAreTrue', Truthful(status', rolledOut'), RolloutsSoFar',
         \A f \in Flows : pc[f] = "idle" => events'[f] = events[f]
  PROVE  RolloutInv'
<1>1. UNCHANGED <<pc, tracked, deploymentSuccess, result>>
  BY DEF flow, watch
<1>2. TrackedFacts'
  BY <1>1 DEF RolloutInv, TrackedFacts, TypeOK
<1>3. PassedMeansRolledOut'
  BY <1>1 DEF RolloutInv, PassedMeansRolledOut
<1> QED BY <1>2, <1>3 DEF RolloutInv

\* The events of a flow that has not begun are not told to it.
LEMMA IdleFlowsHearNothing ==
  ASSUME TypeOK, NEW type \in {"modified", "deleted"}, Tell(type), NEW f \in Flows, pc[f] = "idle"
  PROVE  events'[f] = events[f]
BY DEF Tell, HearsOn, Watches

LEMMA TellStatusInv ==
  ASSUME TypeOK, RolloutInv, NEW complete \in BOOLEAN, NEW late \in BOOLEAN,
         TellStatus(complete, late)
  PROVE  RolloutInv'
<1>1. /\ UNCHANGED <<flow, tracked>> /\ generation' = generation /\ generation \in Nat
      /\ rolledOut \subseteq rolledOut'
  BY DEF TellStatus, TypeOK, flow, watch
<1>2. Truthful(status', rolledOut')
  BY DEF TellStatus, Truthful
<1>3. EventsAreTrue'
  BY <1>1, <1>2, TellIsTrue DEF TellStatus
<1>4. RolloutsSoFar'
  BY <1>1 DEF TellStatus, RolloutInv, RolloutsSoFar
<1> QED BY <1>1, <1>2, <1>3, <1>4, KeptFacts, IdleFlowsHearNothing DEF TellStatus

\* What the patch changes is not rolled out.
LEMMA PatchRollouts ==
  ASSUME TypeOK, RolloutInv, UNCHANGED <<rolledOut, status>>,
         generation' = generation \/ generation' = generation + 1
  PROVE  /\ RolloutsSoFar'
         /\ status'.observed # generation' => generation' \notin rolledOut'
<1>1. generation \in Nat /\ rolledOut \subseteq Nat
  BY DEF TypeOK
<1>2. generation' = generation \/ generation' \notin rolledOut
  BY <1>1 DEF RolloutInv, RolloutsSoFar
<1> QED BY <1>1, <1>2 DEF RolloutInv, RolloutsSoFar

\* The patch makes a generation nobody has tracked, and tells only what is true.
LEMMA PatchFacts ==
  ASSUME TypeOK, RolloutInv, NEW i \in Images, NEW c \in Images \cup {NoCause}, Patch(i, c), tracked' = tracked
  PROVE  /\ generation' \in Nat /\ generation' >= generation /\ UNCHANGED rolledOut
         /\ Truthful(status', rolledOut') /\ EventsAreTrue' /\ RolloutsSoFar'
         /\ \A f \in Flows : pc[f] = "idle" => events'[f] = events[f]
<1>1. generation' \in Nat /\ generation' >= generation /\ UNCHANGED <<rolledOut, status>>
  BY DEF Patch, TypeOK
<1>2. Truthful(status', rolledOut') /\ RolloutsSoFar'
  BY <1>1, PatchRollouts DEF Truthful, RolloutInv, Patch
<1>3. CASE UNCHANGED events
  BY <1>1, <1>2, <1>3 DEF RolloutInv, EventsAreTrue, Truthful
<1>4. CASE Tell("modified")
  BY <1>1, <1>2, <1>4, TellIsTrue, IdleFlowsHearNothing
<1> QED BY <1>1, <1>2, <1>3, <1>4 DEF Patch

\* A step of a flow other than the patch changes nothing of the deployment.
LEMMA FlowStepInv ==
  ASSUME TypeOK, RolloutInv, NEW f \in Flows,
         UNCHANGED <<generation, status, rolledOut, tracked>>,
         events'[f] = <<>> \/ events'[f] = events[f]
           \/ (events[f] # <<>> /\ events'[f] = Tail(events[f])),
         pc'[f] # "idle", deploymentSuccess'[f] => tracked[f] \in rolledOut,
         pc'[f] = "ended" /\ StepResult(result'[f]) = Done("passed") => tracked[f] \in rolledOut,
         \A g \in Flows \ {f} : /\ pc'[g] = pc[g] /\ result'[g] = result[g]
                                /\ events'[g] = events[g]
                                /\ deploymentSuccess'[g] = deploymentSuccess[g]
  PROVE  RolloutInv'
<1>1. Truthful(status, rolledOut)'
  BY DEF RolloutInv, Truthful
<1>2. EventsAreTrue'
  <2> SUFFICES ASSUME NEW g \in Flows, NEW k \in DOMAIN events'[g]
               PROVE  /\ events'[g][k].generation >= tracked'[g]
                      /\ Truthful(events'[g][k].status, rolledOut')
    BY DEF EventsAreTrue
  <2>1. events[g] \in Seq(Event)
    BY DEF TypeOK
  <2>2. CASE events'[g] = events[g]
    BY <2>2 DEF RolloutInv, EventsAreTrue, Truthful
  <2>3. CASE events[g] # <<>> /\ events'[g] = Tail(events[g])
    <3>1. k + 1 \in DOMAIN events[g] /\ events'[g][k] = events[g][k + 1]
      BY <2>1, <2>3
    <3> QED BY <3>1 DEF RolloutInv, EventsAreTrue, Truthful
  <2>4. CASE events'[g] = <<>>
    BY <2>4
  <2> QED BY <2>2, <2>3, <2>4
<1>3. TrackedFacts'
  BY DEF RolloutInv, TrackedFacts
<1>4. PassedMeansRolledOut'
  BY DEF RolloutInv, PassedMeansRolledOut
<1>5. RolloutsSoFar'
  BY DEF RolloutInv, RolloutsSoFar
<1> QED BY <1>1, <1>2, <1>3, <1>4, <1>5 DEF RolloutInv

LEMMA DeployInv ==
  ASSUME TypeOK, RolloutInv, NEW f \in Flows, Deploy(f)
  PROVE  RolloutInv'
<1>1. wanted[f] \in Images /\ generation \in Nat
  BY DEF TypeOK
<1>2. UNCHANGED <<status, rolledOut, deploymentSuccess>> /\ generation' \in Nat
      /\ generation' >= generation
  BY <1>1 DEF Deploy, Patch
<1>3. Truthful(status, rolledOut)'
  BY <1>2 DEF RolloutInv, Truthful
<1>4. tracked'[f] = generation' /\ \A g \in Flows \ {f} : tracked'[g] = tracked[g]
  BY DEF Deploy, TypeOK
<1>5. events'[f] = <<>>
  BY IdleFlowsHearNothing DEF Deploy, Patch, RolloutInv, TrackedFacts
<1>6. EventsAreTrue'
  <2> SUFFICES ASSUME NEW g \in Flows, NEW k \in DOMAIN events'[g]
               PROVE  /\ events'[g][k].generation >= tracked'[g]
                      /\ Truthful(events'[g][k].status, rolledOut')
    BY DEF EventsAreTrue
  <2>1. g # f
    BY <1>5
  <2>2. events[g] \in Seq(Event) /\ tracked[g] \in Nat /\ generation >= tracked[g]
    BY DEF TypeOK, RolloutInv, TrackedFacts
  <2>3. \A j \in DOMAIN events[g] :
          events[g][j].generation >= tracked[g] /\ Truthful(events[g][j].status, rolledOut)
    BY DEF RolloutInv, EventsAreTrue
  <2> DEFINE e == [type |-> "modified", image |-> image', generation |-> generation',
                   status |-> status']
  <2>4. e.generation >= tracked[g] /\ Truthful(e.status, rolledOut')
    BY <1>1, <1>2, <1>3, <2>2
  <2>5. \/ k \in DOMAIN events[g] /\ events'[g][k] = events[g][k]
        \/ events'[g][k] = e
    <3>1. events'[g] = events[g] \/ events'[g] = Append(events[g], e)
      BY DEF Deploy, Patch, Tell
    <3> QED BY <2>2, <3>1
  <2> QED BY <1>2, <1>4, <2>1, <2>3, <2>4, <2>5
<1>7. TrackedFacts'
  <2>1. pc[f] = "idle" /\ \A g \in Flows : pc'[g] = "idle" => g # f /\ pc[g] = "idle"
    BY DEF Deploy, Ends, TypeOK
  <2>2. \A g \in Flows : pc[g] = "idle" => events'[g] = events[g]
    BY IdleFlowsHearNothing DEF Deploy, Patch
  <2>3. ASSUME NEW g \in Flows, g # f PROVE generation' >= tracked'[g]
    <3>1. tracked[g] \in Nat /\ generation >= tracked[g]
      BY DEF TypeOK, RolloutInv, TrackedFacts
    <3> QED BY <1>1, <1>2, <1>4, <2>3, <3>1
  <2>4. generation' >= tracked'[f] /\ ~deploymentSuccess'[f]
    BY <1>2, <1>4, <2>1 DEF RolloutInv, TrackedFacts
  <2> QED BY <1>2, <1>4, <2>1, <2>2, <2>3, <2>4 DEF RolloutInv, TrackedFacts
<1>8. PassedMeansRolledOut'
  BY <1>2, <1>4 DEF RolloutInv, PassedMeansRolledOut, Deploy, Ends, StepResult, Done, Aborted, TypeOK
<1>9. RolloutsSoFar'
  BY PatchRollouts DEF Deploy, Patch
<1> QED BY <1>3, <1>6, <1>7, <1>8, <1>9 DEF RolloutInv

LEMMA TakeEventInv ==
  ASSUME TypeOK, RolloutInv, NEW f \in Flows, TakeEvent(f)
  PROVE  RolloutInv'
<1> DEFINE e == Head(events[f])
<1>1. e \in Event /\ 1 \in DOMAIN events[f] /\ e = events[f][1]
  BY DEF TakeEvent, TypeOK
<1>2. e.generation >= tracked[f] /\ Truthful(e.status, rolledOut)
  BY <1>1 DEF RolloutInv, EventsAreTrue
\* What the flow takes for a success is about the generation it tracks.
<1>3. StatusOf(e, tracked[f]) = "success" => tracked[f] \in rolledOut
  BY <1>1, <1>2 DEF StatusOf, Truthful, Event, TypeOK, RolloutStatus
<1>4. deploymentSuccess'[f] => tracked[f] \in rolledOut
  BY <1>3 DEF TakeEvent, TypeOK, RolloutInv, TrackedFacts
<1>5. pc'[f] = "ended" /\ StepResult(result'[f]) = Done("passed") => tracked[f] \in rolledOut
  BY <1>3 DEF TakeEvent, Ends, StepResult, Done, Aborted, TypeOK
<1>6. pc'[f] # "idle"
  BY DEF TakeEvent, Ends, TypeOK
<1>7. \A g \in Flows \ {f} : /\ pc'[g] = pc[g] /\ result'[g] = result[g]
                             /\ events'[g] = events[g]
                             /\ deploymentSuccess'[g] = deploymentSuccess[g]
  BY DEF TakeEvent, Ends, TypeOK
<1>8. UNCHANGED <<generation, status, rolledOut, tracked>>
  BY DEF TakeEvent, deployment
<1>9. events'[f] = <<>> \/ events'[f] = Tail(events[f])
  BY DEF TakeEvent, TypeOK
<1>10. events[f] # <<>>
  BY DEF TakeEvent
<1> QED BY <1>4, <1>5, <1>6, <1>7, <1>8, <1>9, <1>10, FlowStepInv

LEMMA TakePodEventInv ==
  ASSUME TypeOK, RolloutInv, NEW f \in Flows, TakePodEvent(f)
  PROVE  RolloutInv'
<1>1. deploymentSuccess' = deploymentSuccess /\ (deploymentSuccess[f] => tracked[f] \in rolledOut)
  BY DEF TakePodEvent, RolloutInv, TrackedFacts
<1>2. pc'[f] = "ended" /\ StepResult(result'[f]) = Done("passed") => tracked[f] \in rolledOut
  BY <1>1 DEF TakePodEvent, Ends, StepResult, Done, Aborted, TypeOK
<1>3. pc'[f] # "idle" /\ UNCHANGED <<generation, status, rolledOut, tracked>>
  BY DEF TakePodEvent, Ends, TypeOK, deployment
<1>4. \A g \in Flows \ {f} : pc'[g] = pc[g] /\ result'[g] = result[g] /\ events'[g] = events[g]
  BY DEF TakePodEvent, Ends, TypeOK
<1>5. events'[f] = <<>> \/ events'[f] = events[f]
  BY DEF TakePodEvent, TypeOK
<1> QED BY <1>1, <1>2, <1>3, <1>4, <1>5, FlowStepInv

LEMMA NextInv == TypeOK /\ RolloutInv /\ [Next]_vars => RolloutInv'
<1> SUFFICES ASSUME TypeOK, RolloutInv, [Next]_vars PROVE RolloutInv'
  OBVIOUS
<1> DEFINE Quiet == UNCHANGED <<generation, status, rolledOut, flow, events>>
<1>1. CASE Quiet
  BY <1>1 DEF RolloutInv, Truthful, EventsAreTrue, TrackedFacts, RolloutsSoFar, PassedMeansRolledOut,
              flow, watch
<1>2. CASE CreateReplicaSet
  BY <1>1, <1>2 DEF CreateReplicaSet
<1>3. CASE Observe \/ Complete \/ PodsLost \/ DeadlineExceeded
  BY <1>3, TellStatusInv DEF Observe, Complete, PodsLost, DeadlineExceeded
<1>4. ASSUME NEW i \in Images, PatchedByOthers(i) PROVE RolloutInv'
  <2>1. UNCHANGED flow /\ tracked' = tracked /\ Patch(i, cause)
    BY <1>4 DEF PatchedByOthers, flow, watch
  <2>2. cause \in Images \cup {NoCause}
    BY DEF TypeOK
  <2>3. /\ generation' \in Nat /\ generation' >= generation /\ rolledOut \subseteq rolledOut'
        /\ Truthful(status', rolledOut') /\ EventsAreTrue' /\ RolloutsSoFar'
        /\ \A f \in Flows : pc[f] = "idle" => events'[f] = events[f]
    BY <2>1, <2>2, PatchFacts
  <2> QED BY <2>1, <2>3, KeptFacts
<1>5. CASE Touched \/ Deleted \/ \E f \in Flows : WatchCloses(f)
  <2>1. UNCHANGED <<generation, status, rolledOut, flow, tracked>> /\ generation \in Nat
    BY <1>5 DEF Touched, Deleted, WatchCloses, deployment, flow, watch, TypeOK
  <2>2. Truthful(status', rolledOut') /\ generation' >= generation /\ RolloutsSoFar'
    BY <2>1 DEF RolloutInv, Truthful, RolloutsSoFar
  <2>3. CASE \E f \in Flows : WatchCloses(f)
    <3> DEFINE e == [type |-> "closed", image |-> image, generation |-> generation, status |-> status]
    <3>1. \A g \in Flows : events'[g] = events[g] \/ (Watches(g) /\ events'[g] = Append(events[g], e))
      BY <2>3 DEF WatchCloses, HearsOn, TypeOK
    <3>2. e.generation = generation' /\ e.status = status'
      BY <2>1
    <3> HIDE DEF e
    <3>3. EventsAreTrue'
      BY <2>1, <2>2, <3>1, <3>2, TellTrue
    <3> QED BY <2>1, <2>2, <3>1, <3>3, KeptFacts DEF Watches
  <2>4. CASE Touched \/ Deleted
    <3>1. Tell("modified") \/ Tell("deleted")
      BY <2>4 DEF Touched, Deleted
    <3>2. EventsAreTrue'
      BY <2>1, <2>2, <3>1, TellIsTrue
    <3>3. \A f \in Flows : pc[f] = "idle" => events'[f] = events[f]
      BY <3>1, IdleFlowsHearNothing
    <3> QED BY <2>1, <2>2, <3>2, <3>3, KeptFacts
  <2> QED BY <1>5, <2>3, <2>4
<1>6. CASE \E i \in Images, p \in Pods, s \in PodState : PodChanges(i, p, s)
  BY <1>1, <1>6 DEF PodChanges, deployment
<1>7. ASSUME NEW f \in Flows, Rejected(f) PROVE RolloutInv'
  <2>1. UNCHANGED <<generation, status, rolledOut, tracked, deploymentSuccess>>
    BY <1>7 DEF Rejected, deployment, watch
  <2>2. /\ pc'[f] = "ended" /\ events'[f] = <<>> /\ StepResult(result'[f]) = Done("failed")
        /\ \A g \in Flows \ {f} : /\ pc'[g] = pc[g] /\ result'[g] = result[g]
                                  /\ events'[g] = events[g]
    BY <1>7 DEF Rejected, Ends, StepResult, TypeOK
  <2>3. StepResult(result'[f]) # Done("passed")
    BY <2>2 DEF Done
  <2>4. deploymentSuccess[f] => tracked[f] \in rolledOut
    BY DEF RolloutInv, TrackedFacts
  <2> QED BY <2>1, <2>2, <2>3, <2>4, FlowStepInv
<1>8. ASSUME NEW f \in Flows, Deploy(f) \/ TakeEvent(f) \/ TakePodEvent(f) PROVE RolloutInv'
  BY <1>8, DeployInv, TakeEventInv, TakePodEventInv
<1>9. CASE UNCHANGED vars
  BY <1>1, <1>9 DEF vars, deployment
<1> QED BY <1>2, <1>3, <1>4, <1>5, <1>6, <1>7, <1>8, <1>9 DEF Next, Cluster

\* A deployment that passed was complete in the generation of its own patch, whoever
\* else deploys, touches or deletes what it watches, and whatever events are late.
THEOREM PassedRolledOut == Spec => []PassedMeansRolledOut
<1>1. Init => TypeOK /\ RolloutInv
  BY InitType, InitInv
<1>2. TypeOK /\ RolloutInv /\ [Next]_vars => (TypeOK /\ RolloutInv)'
  BY NextType, NextInv
<1>3. RolloutInv => PassedMeansRolledOut
  BY DEF RolloutInv
<1> QED BY <1>1, <1>2, <1>3, PTL DEF Spec
-----------------------------------------------------------------------------
(* Nothing that a flow waits for has passed it by.                          *)

\* The image that was deployed in the generation a flow tracks is its own.
OwnImage(f) ==
  /\ Watches(f) /\ generation = tracked[f] => image = wanted[f]
  /\ \A k \in DOMAIN events[f] : events[f][k].generation = tracked[f] => events[f][k].image = wanted[f]

\* The controller has told nothing yet that would answer a flow, but for a success that
\* the flow knows of.
Unanswered(f) ==
  /\ exists /\ generation = tracked[f]
  /\ status.observed = tracked[f] => ~status.late /\ (status.complete => deploymentSuccess[f])

\* The last event that was not taken is what the deployment is; if all were taken,
\* the deployment is still the one that the flow waits for.
TellsWhatIs(e) == e.generation = generation /\ e.status = status /\ (e.type = "deleted" <=> ~exists)
ToldWhatIs(f) ==
  HearsOn(f) => IF events[f] = <<>> THEN Unanswered(f)
                                    ELSE TellsWhatIs(events[f][Len(events[f])])

\* A flow whose generation was ever complete knows of it, or is still to take the event.
TellsSuccess(e, g) == e.type = "modified" /\ StatusOf(e, g) = "success"
HeardOfRollout(f) ==
  HearsOn(f) /\ tracked[f] \in rolledOut =>
    deploymentSuccess[f] \/ \E k \in DOMAIN events[f] : TellsSuccess(events[f][k], tracked[f])

\* A flow listens to its pods once, for the sake of failDeplomentOnPodError.  It comes
\* back with all of them up, and does not come to know of the success a second time.
ListensOnce(f) ==
  /\ pc[f] = "idle" => ~listened[f]
  /\ Watches(f) /\ deploymentSuccess[f] => failOnPodError
  /\ pc[f] = "listening" => listened[f] /\ failOnPodError
  /\ pc[f] = "watching" /\ listened[f] => podsSuccess[f] /\ ~deploymentSuccess[f]

WatchOf(f) == OwnImage(f) /\ ToldWhatIs(f) /\ HeardOfRollout(f) /\ ListensOnce(f)
WatchInv == \A f \in Flows : WatchOf(f)

\* A flow that watches, and has no event to take, knows of its success and never listens,
\* which is failDeplomentOnPodError's doing, or waits for something that the controller
\* still has to do: a replica set, a first status, or to call late what never was complete.
ControllerGoesOn ==
  \A f \in Flows :
    pc[f] = "watching" /\ events[f] = <<>> =>
      \/ failOnPodError /\ KnowsButNeverListens(f)
      \/ /\ exists
         /\ \/ image \notin replicaSets
            \/ status.observed # generation
            \/ ~status.complete /\ ~status.late /\ generation \notin rolledOut

\* What concerns one flow, in a step that is of another one or of the cluster.
Kept(f) ==
  /\ pc'[f] = pc[f] /\ tracked'[f] = tracked[f] /\ listened'[f] = listened[f]
  /\ deploymentSuccess'[f] = deploymentSuccess[f] /\ podsSuccess'[f] = podsSuccess[f]
  /\ UNCHANGED config

LEMMA InitWatch == Init => WatchInv
BY DEF Init, WatchInv, WatchOf, OwnImage, ToldWhatIs, HeardOfRollout, ListensOnce, HearsOn, Watches

LEMMA KeptListens == ASSUME NEW f \in Flows, ListensOnce(f), Kept(f) PROVE ListensOnce(f)'
BY DEF ListensOnce, Watches, Kept, config

\* It stays true where neither the deployment nor the events change.
LEMMA QuietWatch ==
  ASSUME NEW f \in Flows, WatchOf(f), Kept(f), events'[f] = events[f],
         UNCHANGED <<image, generation, status, exists, rolledOut>>
  PROVE  WatchOf(f)'
<1>1. ListensOnce(f)'
  BY KeptListens DEF WatchOf
<1>2. OwnImage(f)'
  BY DEF WatchOf, OwnImage, Watches, Kept, config
<1>3. HearsOn(f)' <=> HearsOn(f)
  BY DEF HearsOn, Closed, Watches, Kept
<1>4. ToldWhatIs(f)'
  BY <1>3 DEF WatchOf, ToldWhatIs, TellsWhatIs, Unanswered, Kept
<1>5. HeardOfRollout(f)'
  BY <1>3 DEF WatchOf, HeardOfRollout, TellsSuccess, StatusOf, Kept
<1> QED BY <1>1, <1>2, <1>4, <1>5 DEF WatchOf

\* What an event appended to those of a flow leaves as it was.
LEMMA AppendedWatch ==
  ASSUME TypeOK, RolloutInv, NEW f \in Flows, WatchOf(f), Kept(f), NEW e, Watches(f),
         events'[f] = Append(events[f], e), e.generation = generation', e.image = image',
         generation' \in Nat, generation' >= generation, generation' = generation => image' = image
  PROVE  /\ events'[f] # <<>> /\ events'[f][Len(events'[f])] = e
         /\ DOMAIN events'[f] = DOMAIN events[f] \cup {Len(events'[f])}
         /\ \A k \in DOMAIN events[f] : events'[f][k] = events[f][k]
         /\ OwnImage(f)' /\ ListensOnce(f)' /\ Watches(f)'
<1>1. events[f] \in Seq(Event) /\ tracked[f] \in Nat /\ generation \in Nat /\ generation >= tracked[f]
  BY DEF TypeOK, RolloutInv, TrackedFacts
<1>2. /\ events'[f] # <<>> /\ events'[f][Len(events'[f])] = e
      /\ DOMAIN events'[f] = DOMAIN events[f] \cup {Len(events'[f])}
      /\ \A k \in DOMAIN events[f] : events'[f][k] = events[f][k]
  BY <1>1
<1>3. Watches(f)' /\ tracked'[f] = tracked[f] /\ wanted'[f] = wanted[f]
  BY DEF Watches, Kept, config
<1>4. generation' = tracked[f] => image' = wanted[f]
  BY <1>1 DEF WatchOf, OwnImage
<1>5. OwnImage(f)'
  BY <1>2, <1>3, <1>4 DEF WatchOf, OwnImage
<1> QED BY <1>2, <1>3, <1>5, KeptListens DEF WatchOf

\* It stays true of a flow that is told how the deployment has changed: a rollout that
\* becomes complete is told.
LEMMA TellWatch ==
  ASSUME TypeOK, RolloutInv, NEW f \in Flows, WatchOf(f), Kept(f),
         NEW type \in {"modified", "deleted"}, Tell(type), type = "deleted" <=> ~exists',
         generation' \in Nat, generation' >= generation, generation' = generation => image' = image,
         tracked[f] \in rolledOut' =>
           tracked[f] \in rolledOut \/ TellsSuccess(Told(type), tracked[f])
  PROVE  WatchOf(f)'
<1> DEFINE e == Told(type)
<1>1. CASE ~Watches(f)
  <2>1. events'[f] = events[f]
    BY <1>1 DEF Tell, HearsOn
  <2>2. ~Watches(f)' /\ ~HearsOn(f)'
    BY <1>1 DEF Watches, HearsOn, Kept
  <2> QED BY <2>1, <2>2, KeptListens DEF WatchOf, OwnImage, ToldWhatIs, HeardOfRollout, Kept, config
<1>2. CASE Watches(f) /\ Closed(f)
  <2>1. events'[f] = events[f]
    BY <1>2 DEF Tell, HearsOn
  <2>2. ~HearsOn(f)' /\ Watches(f)'
    BY <1>2, <2>1 DEF HearsOn, Closed, Watches, Kept
  <2>3. tracked[f] \in Nat /\ generation \in Nat /\ generation >= tracked[f]
    BY DEF TypeOK, RolloutInv, TrackedFacts
  <2>4. OwnImage(f)'
    BY <1>2, <2>1, <2>3 DEF WatchOf, OwnImage, Kept, config
  <2> QED BY <2>2, <2>4, KeptListens DEF WatchOf, ToldWhatIs, HeardOfRollout
<1>3. CASE HearsOn(f)
  <2>1. e.generation = generation' /\ e.image = image' /\ e.status = status' /\ e.type = type
    BY DEF Told
  <2>2. events'[f] = Append(events[f], e)
    BY <1>3 DEF Tell, Told
  <2>3. Watches(f)
    BY <1>3 DEF HearsOn
  <2> HIDE DEF e
  <2>4. /\ events'[f] # <<>> /\ events'[f][Len(events'[f])] = e
        /\ DOMAIN events'[f] = DOMAIN events[f] \cup {Len(events'[f])}
        /\ \A k \in DOMAIN events[f] : events'[f][k] = events[f][k]
        /\ OwnImage(f)' /\ ListensOnce(f)' /\ Watches(f)'
    BY <2>1, <2>2, <2>3, AppendedWatch
  <2>5. ToldWhatIs(f)'
    BY <2>1, <2>4 DEF ToldWhatIs, TellsWhatIs
  <2>6. HeardOfRollout(f)'
    <3>1. tracked'[f] = tracked[f] /\ deploymentSuccess'[f] = deploymentSuccess[f]
      BY DEF Kept
    <3>2. CASE tracked[f] \in rolledOut
      BY <1>3, <2>4, <3>1, <3>2 DEF WatchOf, HeardOfRollout, TellsSuccess, StatusOf
    <3>3. CASE tracked[f] \in rolledOut' /\ TellsSuccess(e, tracked[f])
      BY <2>4, <3>1, <3>3 DEF HeardOfRollout, TellsSuccess, StatusOf
    <3> QED BY <3>1, <3>2, <3>3 DEF HeardOfRollout, e
  <2> QED BY <2>4, <2>5, <2>6 DEF WatchOf
<1> QED BY <1>1, <1>2, <1>3 DEF HearsOn

LEMMA TellStatusWatch ==
  ASSUME TypeOK, RolloutInv, WatchInv, NEW complete \in BOOLEAN, NEW late \in BOOLEAN,
         TellStatus(complete, late), complete => ~late
  PROVE  WatchInv'
<1> SUFFICES ASSUME NEW f \in Flows PROVE WatchOf(f)'
  BY DEF WatchInv
<1>1. Kept(f) /\ WatchOf(f)
  BY DEF Kept, TellStatus, flow, watch, WatchInv
<1>2. /\ Tell("modified") /\ exists' /\ UNCHANGED <<generation, image>> /\ generation \in Nat
      /\ status' = [observed |-> generation, complete |-> complete, late |-> late]
  BY DEF TellStatus, TypeOK
<1>3. ASSUME tracked[f] \in rolledOut', tracked[f] \notin rolledOut
      PROVE  TellsSuccess(Told("modified"), tracked[f])
  <2>1. complete /\ tracked[f] = generation
    BY <1>3 DEF TellStatus
  <2> QED BY <1>2, <2>1 DEF TellsSuccess, StatusOf, Told
<1> QED BY <1>1, <1>2, <1>3, TellWatch

LEMMA PatchWatch ==
  ASSUME TypeOK, RolloutInv, NEW i \in Images, NEW c \in Images \cup {NoCause}, Patch(i, c),
         NEW f \in Flows, WatchOf(f), Kept(f)
  PROVE  WatchOf(f)'
<1>1. exists' /\ UNCHANGED <<status, exists, rolledOut>> /\ generation \in Nat
  BY DEF Patch, TypeOK
<1>2. CASE i = image /\ c = cause
  BY <1>1, <1>2, QuietWatch DEF Patch
<1>3. CASE ~(i = image /\ c = cause)
  <2>1. Tell("modified") /\ generation' \in Nat /\ generation' > generation
    BY <1>1, <1>3 DEF Patch
  <2> QED BY <1>1, <2>1, TellWatch
<1> QED BY <1>2, <1>3

\* The API server closes the watch of one flow.
LEMMA WatchClosesWatch ==
  ASSUME TypeOK, RolloutInv, WatchInv, NEW g \in Flows, WatchCloses(g)
  PROVE  WatchInv'
<1> DEFINE e == [type |-> "closed", image |-> image, generation |-> generation, status |-> status]
<1>1. UNCHANGED <<image, generation, status, exists, rolledOut>> /\ generation \in Nat
  BY DEF WatchCloses, deployment, TypeOK
<1>2. \A f \in Flows : Kept(f) /\ WatchOf(f) /\ (f # g => events'[f] = events[f])
  BY DEF WatchCloses, Kept, flow, watch, WatchInv, TypeOK
<1>3. Watches(g) /\ events'[g] = Append(events[g], e)
  BY DEF WatchCloses, HearsOn, TypeOK
<1>4. e.generation = generation' /\ e.image = image' /\ e.type = "closed"
  BY <1>1
<1> HIDE DEF e
<1>5. events'[g] # <<>> /\ events'[g][Len(events'[g])] = e /\ OwnImage(g)' /\ ListensOnce(g)'
  BY <1>1, <1>2, <1>3, <1>4, AppendedWatch
<1>6. ~HearsOn(g)'
  BY <1>4, <1>5 DEF HearsOn, Closed
<1>7. WatchOf(g)'
  BY <1>5, <1>6 DEF WatchOf, ToldWhatIs, HeardOfRollout
<1> QED BY <1>1, <1>2, <1>7, QuietWatch DEF WatchInv

\* What a flow knows when it begins to watch.
LEMMA DeployWatch ==
  ASSUME TypeOK, RolloutInv, WatchInv, NEW f \in Flows, Deploy(f)
  PROVE  WatchInv'
<1>1. wanted[f] \in Images /\ wanted[f] \in Images \cup {NoCause} /\ Patch(wanted[f], wanted[f])
  BY DEF TypeOK, Deploy
<1>2. \A g \in Flows \ {f} : Kept(g)
  BY DEF Deploy, Ends, Kept, Patch, TypeOK
<1>3. events'[f] = <<>>
  BY IdleFlowsHearNothing DEF Deploy, Patch, RolloutInv, TrackedFacts
<1>4. /\ exists' /\ tracked'[f] = generation' /\ image' = wanted[f] /\ wanted' = wanted
      /\ UNCHANGED <<listened, deploymentSuccess>> /\ ~listened[f] /\ ~deploymentSuccess[f]
      /\ pc'[f] = "ended" \/ (pc'[f] = "watching" /\ generation' # status'.observed)
  BY DEF Deploy, Patch, Ends, config, TypeOK, WatchInv, WatchOf, ListensOnce, RolloutInv, TrackedFacts
<1>5. pc'[f] = "watching" => tracked'[f] \notin rolledOut'
  <2>1. UNCHANGED <<rolledOut, status>> /\ (generation' = generation \/ generation' = generation + 1)
    BY <1>1 DEF Patch
  <2> QED BY <1>4, <2>1, PatchRollouts
<1>6. WatchOf(f)'
  BY <1>3, <1>4, <1>5
  DEF WatchOf, OwnImage, ToldWhatIs, Unanswered, HeardOfRollout, ListensOnce, HearsOn, Watches
<1>7. \A g \in Flows \ {f} : WatchOf(g)'
  BY <1>1, <1>2, PatchWatch DEF WatchInv
<1> QED BY <1>6, <1>7 DEF WatchInv

LEMMA LastOne ==
  ASSUME NEW S, NEW s \in Seq(S), s # <<>>, Tail(s) = <<>>
  PROVE  Len(s) = 1
<1>1. Len(Tail(s)) = Len(s) - 1 /\ Len(s) \in Nat /\ Tail(s) \in Seq(S)
  OBVIOUS
<1>2. Len(Tail(s)) = 0
  BY <1>1, EmptySeq
<1> QED BY <1>1, <1>2

\* A flow goes on only after an event that does not answer it, or after the success
\* that it takes before it has listened to its pods.
LEMMA TakenDoesNotAnswer ==
  ASSUME TypeOK, RolloutInv, NEW f \in Flows, TakeEvent(f), pc'[f] # "ended"
  PROVE  LET e == Head(events[f])
         IN /\ e.type = "modified" /\ e.generation = tracked[f]
            /\ e.status.observed = tracked[f] =>
                 ~e.status.late /\ (e.status.complete => deploymentSuccess'[f])
            /\ TellsSuccess(e, tracked[f]) => deploymentSuccess'[f]
            /\ deploymentSuccess'[f] =>
                 deploymentSuccess[f] \/ (failOnPodError /\ ~podsSuccess[f])
            /\ deploymentSuccess[f] => deploymentSuccess'[f]
            /\ \/ pc'[f] = "watching" /\ listened'[f] = listened[f]
               \/ pc'[f] = "listening" /\ failOnPodError /\ ~listened[f] /\ listened'[f]
<1> DEFINE e == Head(events[f])
           st == StatusOf(e, tracked[f])
<1>1. pc[f] = "watching" /\ e \in Event /\ e = events[f][1] /\ 1 \in DOMAIN events[f]
      /\ tracked[f] \in Nat
  BY DEF TakeEvent, TypeOK
<1>2. e.generation >= tracked[f]
  BY <1>1 DEF RolloutInv, EventsAreTrue
<1>3. e.type = "modified" /\ HasReplicaSet(e)
      /\ (st = "notReadyYet" \/ (st = "success" /\ failOnPodError /\ ~podsSuccess[f]))
  BY DEF TakeEvent, Ends, TypeOK
<1>4. deploymentSuccess'[f] <=> deploymentSuccess[f] \/ st = "success"
  BY <1>3 DEF TakeEvent, TypeOK
<1>5. /\ e.generation = tracked[f]
      /\ e.status.observed = tracked[f] => ~e.status.late /\ (e.status.complete => st = "success")
  BY <1>1, <1>2, <1>3 DEF StatusOf, Event, RolloutStatus
<1>6. \/ pc'[f] = "watching" /\ listened'[f] = listened[f]
      \/ pc'[f] = "listening" /\ failOnPodError /\ ~listened[f] /\ listened'[f]
  BY <1>1, <1>3 DEF TakeEvent, Ends, TypeOK
<1> QED BY <1>3, <1>4, <1>5, <1>6 DEF TellsSuccess

LEMMA TakeEventWatch ==
  ASSUME TypeOK, RolloutInv, WatchInv, NEW f \in Flows, TakeEvent(f)
  PROVE  WatchInv'
<1> DEFINE e == Head(events[f])
<1>1. \A g \in Flows \ {f} : Kept(g) /\ events'[g] = events[g]
  BY DEF TakeEvent, Ends, Kept, TypeOK
<1>2. UNCHANGED <<image, generation, status, exists, rolledOut, tracked, wanted, failOnPodError, podsSuccess>>
  BY DEF TakeEvent, deployment, config
<1>3. WatchOf(f) /\ Watches(f) /\ pc[f] = "watching"
  BY DEF WatchInv, TakeEvent, Watches
<1>4. CASE pc'[f] = "ended"
  <2>1. events'[f] = <<>> /\ ~Watches(f)' /\ ~HearsOn(f)'
    BY <1>4 DEF TakeEvent, TypeOK, Watches, HearsOn
  <2>2. WatchOf(f)'
    BY <1>4, <2>1 DEF WatchOf, OwnImage, ToldWhatIs, HeardOfRollout, ListensOnce
  <2> QED BY <1>1, <1>2, <2>2, QuietWatch DEF WatchInv
<1>5. CASE pc'[f] # "ended"
  <2>1. /\ e.type = "modified" /\ e.generation = tracked[f]
        /\ e.status.observed = tracked[f] =>
             ~e.status.late /\ (e.status.complete => deploymentSuccess'[f])
        /\ TellsSuccess(e, tracked[f]) => deploymentSuccess'[f]
        /\ deploymentSuccess'[f] => deploymentSuccess[f] \/ (failOnPodError /\ ~podsSuccess[f])
        /\ deploymentSuccess[f] => deploymentSuccess'[f]
        /\ \/ pc'[f] = "watching" /\ listened'[f] = listened[f]
           \/ pc'[f] = "listening" /\ failOnPodError /\ ~listened[f] /\ listened'[f]
    BY <1>5, TakenDoesNotAnswer
  <2>2. /\ events'[f] = Tail(events[f]) /\ events[f] \in Seq(Event) /\ events[f] # <<>>
        /\ e = events[f][1]
    BY <1>5 DEF TakeEvent, TypeOK
  <2>3. /\ \A k \in DOMAIN events'[f] : k + 1 \in DOMAIN events[f] /\ events'[f][k] = events[f][k + 1]
        /\ \A k \in DOMAIN events[f] : k = 1 \/ (k - 1 \in DOMAIN events'[f] /\ events'[f][k - 1] = events[f][k])
        /\ events'[f] # <<>> => events'[f][Len(events'[f])] = events[f][Len(events[f])]
    BY <2>2
  <2>4. events'[f] = <<>> => e = events[f][Len(events[f])]
    BY <2>2, LastOne
  <2>5. Watches(f)' /\ (HearsOn(f)' => HearsOn(f))
    BY <1>3, <2>1, <2>3, <2>4 DEF Watches, HearsOn, Closed
  <2>6. OwnImage(f)'
    BY <1>2, <1>3, <2>3 DEF WatchOf, OwnImage
  <2>7. ToldWhatIs(f)'
    <3> SUFFICES ASSUME HearsOn(f)'
                 PROVE  (IF events[f] = <<>> THEN Unanswered(f)
                                             ELSE TellsWhatIs(events[f][Len(events[f])]))'
      BY DEF ToldWhatIs
    <3>1. TellsWhatIs(events[f][Len(events[f])])
      BY <1>3, <2>2, <2>5 DEF WatchOf, ToldWhatIs
    <3>2. CASE events'[f] = <<>>
      <4>1. TellsWhatIs(e)
        BY <2>4, <3>1, <3>2
      <4>2. Unanswered(f)'
        BY <1>2, <2>1, <4>1 DEF TellsWhatIs, Unanswered, TypeOK
      <4> QED BY <3>2, <4>2
    <3>3. CASE events'[f] # <<>>
      BY <1>2, <2>3, <3>1, <3>3 DEF TellsWhatIs
    <3> QED BY <3>2, <3>3
  <2>8. HeardOfRollout(f)'
    <3> SUFFICES ASSUME HearsOn(f)', tracked[f] \in rolledOut, ~deploymentSuccess'[f]
                 PROVE  \E k \in DOMAIN events'[f] : TellsSuccess(events'[f][k], tracked[f])
      BY <1>2 DEF HeardOfRollout, TellsSuccess, StatusOf
    <3>1. PICK k \in DOMAIN events[f] : TellsSuccess(events[f][k], tracked[f])
      BY <1>3, <2>1, <2>5 DEF WatchOf, HeardOfRollout
    <3>2. k # 1
      BY <2>1, <2>2, <3>1
    <3> QED BY <2>3, <3>1, <3>2
  <2>9. ListensOnce(f)'
    BY <1>2, <1>3, <2>1 DEF WatchOf, ListensOnce, Watches
  <2> QED BY <1>1, <1>2, <2>6, <2>7, <2>8, <2>9, QuietWatch DEF WatchInv, WatchOf
<1> QED BY <1>4, <1>5

LEMMA TakePodEventWatch ==
  ASSUME TypeOK, WatchInv, NEW f \in Flows, TakePodEvent(f)
  PROVE  WatchInv'
<1>1. \A g \in Flows \ {f} : Kept(g) /\ events'[g] = events[g]
  BY DEF TakePodEvent, Ends, Kept, TypeOK
<1>2. UNCHANGED <<image, generation, status, exists, rolledOut, tracked, wanted, failOnPodError, listened,
                  deploymentSuccess>>
  BY DEF TakePodEvent, deployment, config
<1>3. WatchOf(f) /\ Watches(f) /\ pc[f] = "listening"
  BY DEF WatchInv, TakePodEvent, Watches
<1>4. \/ pc'[f] = "ended" /\ events'[f] = <<>>
      \/ pc'[f] = "listening" /\ events'[f] = events[f]
      \/ /\ pc'[f] = "watching" /\ events'[f] = events[f]
         /\ podsSuccess'[f] /\ ~deploymentSuccess[f]
  BY DEF TakePodEvent, Ends, TypeOK
<1>5. ASSUME pc'[f] = "ended" PROVE WatchOf(f)'
  BY <1>4, <1>5 DEF WatchOf, OwnImage, ToldWhatIs, HeardOfRollout, ListensOnce, HearsOn, Watches
<1>6. ASSUME pc'[f] # "ended" PROVE WatchOf(f)'
  <2>1. Watches(f)' /\ events'[f] = events[f] /\ (HearsOn(f)' <=> HearsOn(f))
    BY <1>3, <1>4, <1>6 DEF Watches, HearsOn, Closed
  <2>2. OwnImage(f)' /\ ToldWhatIs(f)' /\ HeardOfRollout(f)'
    BY <1>2, <1>3, <2>1
    DEF WatchOf, OwnImage, ToldWhatIs, TellsWhatIs, Unanswered, HeardOfRollout, TellsSuccess, StatusOf
  <2>3. ListensOnce(f)'
    BY <1>2, <1>3, <1>4 DEF WatchOf, ListensOnce, Watches
  <2> QED BY <2>2, <2>3 DEF WatchOf
<1> QED BY <1>1, <1>2, <1>5, <1>6, QuietWatch DEF WatchInv

LEMMA NextWatch == TypeOK /\ RolloutInv /\ WatchInv /\ [Next]_vars => WatchInv'
<1> SUFFICES ASSUME TypeOK, RolloutInv, WatchInv, [Next]_vars PROVE WatchInv'
  OBVIOUS
<1>1. CASE UNCHANGED <<image, generation, status, exists, rolledOut, config, flow, events>>
  BY <1>1, QuietWatch DEF WatchInv, Kept, flow, watch
<1>2. CASE CreateReplicaSet \/ UNCHANGED vars
  BY <1>1, <1>2 DEF CreateReplicaSet, vars, deployment
<1>3. CASE \E i \in Images, p \in Pods, s \in PodState : PodChanges(i, p, s)
  BY <1>1, <1>3 DEF PodChanges, deployment
<1>4. CASE Observe \/ Complete \/ PodsLost \/ DeadlineExceeded
  BY <1>4, TellStatusWatch DEF Observe, Complete, PodsLost, DeadlineExceeded
<1>5. ASSUME NEW i \in Images, PatchedByOthers(i) PROVE WatchInv'
  <2>1. (\A f \in Flows : Kept(f)) /\ cause \in Images \cup {NoCause}
    BY <1>5 DEF PatchedByOthers, Patch, Kept, flow, watch, TypeOK
  <2> QED BY <1>5, <2>1, PatchWatch DEF PatchedByOthers, WatchInv
<1>6. CASE Touched \/ Deleted
  <2>1. /\ \A f \in Flows : Kept(f)
        /\ UNCHANGED <<image, generation, status, rolledOut>> /\ generation \in Nat
        /\ (Tell("modified") /\ exists') \/ (Tell("deleted") /\ ~exists')
    BY <1>6 DEF Touched, Deleted, deployment, flow, watch, Kept, TypeOK
  <2> QED BY <2>1, TellWatch DEF WatchInv
<1>7. ASSUME NEW f \in Flows, Rejected(f) PROVE WatchInv'
  <2>1. /\ UNCHANGED <<image, generation, status, exists, rolledOut>>
        /\ \A g \in Flows \ {f} : Kept(g) /\ events'[g] = events[g]
    BY <1>7 DEF Rejected, Ends, Kept, deployment, watch, TypeOK
  <2>2. pc'[f] = "ended" /\ events'[f] = <<>>
    BY <1>7 DEF Rejected, Ends, TypeOK
  <2>3. WatchOf(f)'
    BY <2>2 DEF WatchOf, OwnImage, ToldWhatIs, HeardOfRollout, ListensOnce, HearsOn, Watches
  <2> QED BY <2>1, <2>3, QuietWatch DEF WatchInv
<1>8. ASSUME NEW f \in Flows, Deploy(f) \/ TakeEvent(f) \/ TakePodEvent(f) PROVE WatchInv'
  BY <1>8, DeployWatch, TakeEventWatch, TakePodEventWatch
<1>9. CASE \E f \in Flows : WatchCloses(f)
  BY <1>9, WatchClosesWatch
<1> QED BY <1>2, <1>3, <1>4, <1>5, <1>6, <1>7, <1>8, <1>9 DEF Next, Cluster

\* Whoever else deploys or touches the deployment, and however late its events are taken,
\* a flow that watches it has an event to take, or the controller has one to make: the
\* flow has not missed what it waits for.  The exception is the flow that was told of its
\* success before it listened to its pods, when failDeplomentOnPodError is set: it took
\* its answer for half of one, and nothing brings the other half.
THEOREM NoEventIsMissed == Spec => []ControllerGoesOn
<1>1. Init => TypeOK /\ RolloutInv /\ WatchInv
  BY InitType, InitInv, InitWatch
<1>2. TypeOK /\ RolloutInv /\ WatchInv /\ [Next]_vars => (TypeOK /\ RolloutInv /\ WatchInv)'
  BY NextType, NextInv, NextWatch
<1>3. TypeOK /\ WatchInv => ControllerGoesOn
  <2> SUFFICES ASSUME TypeOK, WatchInv, NEW f \in Flows, pc[f] = "watching", events[f] = <<>>,
                      ~(failOnPodError /\ KnowsButNeverListens(f))
               PROVE  /\ exists
                      /\ \/ image \notin replicaSets
                         \/ status.observed # generation
                         \/ ~status.complete /\ ~status.late /\ generation \notin rolledOut
    BY DEF ControllerGoesOn
  <2>1. WatchOf(f) /\ Watches(f) /\ HearsOn(f)
    BY DEF WatchInv, Watches, HearsOn, Closed
  <2>2. ~deploymentSuccess[f]
    BY <2>1 DEF WatchOf, ListensOnce, KnowsButNeverListens
  <2>3. Unanswered(f) /\ tracked[f] \notin rolledOut
    BY <2>1, <2>2 DEF WatchOf, ToldWhatIs, HeardOfRollout
  <2> QED BY <2>2, <2>3 DEF Unanswered
<1> QED BY <1>1, <1>2, <1>3, PTL DEF Spec

-----------------------------------------------------------------------------
(* What a flow knows of the pods it listens to.                             *)

About(f, p) == {k \in DOMAIN podEvents[f] : podEvents[f][k].pod = p}

\* The events about pod p that were not taken tell last how it is; where there are
\* none, the flow has counted it as it is.  Pods that were up do not wait again.
PodIsTold(f, p) ==
  LET now == pod[wanted[f]][p]
  IN /\ IF About(f, p) = {} THEN now # "error" /\ (p \in podsReady[f] <=> now = "ready")
        ELSE \E k \in About(f, p) : \A l \in About(f, p) : l >= k => podEvents[f][l].state = now
     /\ p \in podsReady[f] \/ (\E k \in About(f, p) : podEvents[f][k].state = "ready")
          => now \notin {"none", "waiting"}

ListenOf(f) ==
  /\ ~listened[f] => podsReady[f] = {} /\ podError[f] = NoPod
  /\ pc[f] = "listening" =>
       /\ podError[f] = NoPod
       /\ Cardinality(podsReady[f]) # Replicas
       /\ \A p \in Pods : PodIsTold(f, p)

\* No image has more pods than the deployment wants.
PodsWithinReplicas == \A i \in Images : Cardinality(PodsThatAre(i, Live)) <= Replicas

ListenInv == PodsWithinReplicas /\ \A f \in Flows : ListenOf(f)

\* A flow that listens to pods, and has no event of them to take, waits for pods none
\* of which has failed and that are not all up.
WaitsForSilentPods ==
  \A f \in Flows :
    pc[f] = "listening" /\ podEvents[f] = <<>> =>
      /\ failOnPodError
      /\ PodsThatAre(wanted[f], {"error"}) = {}
      /\ Cardinality(PodsThatAre(wanted[f], {"ready"})) < Replicas

LEMMA InitListen == ASSUME Replicas > 0 PROVE Init => ListenInv
<1> SUFFICES ASSUME Init PROVE ListenInv
  OBVIOUS
<1>1. \A f \in Flows : ListenOf(f)
  BY DEF Init, ListenOf
<1>2. PodsWithinReplicas
  BY ClusterAssumption DEF Init, PodsWithinReplicas
<1> QED BY <1>1, <1>2 DEF ListenInv

\* A flow that does not listen, or to which nothing happens.
LEMMA QuietListen ==
  ASSUME NEW f \in Flows, ListenOf(f), pc'[f] = pc[f] \/ pc'[f] # "listening", UNCHANGED <<pod, wanted>>,
         listened'[f] = listened[f], podsReady'[f] = podsReady[f], podError'[f] = podError[f],
         pc'[f] = "listening" => podEvents'[f] = podEvents[f]
  PROVE  ListenOf(f)'
BY DEF ListenOf, PodIsTold, About

\* Pods are added one at a time, while there are fewer than the deployment wants.
LEMMA PodChangesReplicas ==
  ASSUME TypeOK, PodsWithinReplicas, NEW i \in Images, NEW p \in Pods, NEW s \in PodState, PodChanges(i, p, s)
  PROVE  PodsWithinReplicas'
<1> SUFFICES ASSUME NEW j \in Images PROVE Cardinality(PodsThatAre(j, Live)') <= Replicas
  BY DEF PodsWithinReplicas
<1> DEFINE S == PodsThatAre(j, Live)
           T == PodsThatAre(j, Live)'
<1>1. IsFiniteSet(S) /\ Cardinality(S) \in Nat /\ Cardinality(S) <= Replicas /\ Replicas \in Nat
  <2>1. S \subseteq Pods /\ IsFiniteSet(Pods)
    BY ClusterAssumption DEF PodsThatAre
  <2>2. IsFiniteSet(S)
    BY <2>1, FS_Subset
  <2> QED BY <2>2, FS_CardinalityType, ClusterAssumption DEF PodsWithinReplicas
<1>2. pod' = [pod EXCEPT ![i][p] = s] /\ pod[i][p] \in PodState
  BY DEF PodChanges, TypeOK
<1>3. CASE j # i \/ s \notin Live \/ pod[i][p] \in Live
  <2>1. T \subseteq S
    BY <1>2, <1>3 DEF PodsThatAre, TypeOK
  <2>2. Cardinality(T) \in Nat /\ Cardinality(T) <= Cardinality(S)
    BY <1>1, <2>1, FS_Subset, FS_CardinalityType
  <2> QED BY <1>1, <2>2
<1>4. CASE j = i /\ s \in Live /\ pod[i][p] \notin Live
  <2>1. pod[i][p] = "none"
    BY <1>4 DEF PodChanges, MayBecome, Live
  <2>2. Cardinality(S) < Replicas
    BY <1>4, <2>1 DEF PodChanges
  <2>3. T = S \cup {p} /\ p \notin S
    BY <1>2, <1>4 DEF PodsThatAre, TypeOK
  <2>4. Cardinality(T) = Cardinality(S) + 1
    <3> HIDE DEF S, T
    <3> QED BY <1>1, <2>3, FS_AddElement
  <2> QED BY <1>1, <2>2, <2>4
<1> QED BY <1>3, <1>4

\* What happens to a pod is told to the flows that listen to it.
LEMMA PodChangesListen ==
  ASSUME TypeOK, ListenInv, NEW i \in Images, NEW p \in Pods, NEW s \in PodState, PodChanges(i, p, s),
         NEW f \in Flows
  PROVE  ListenOf(f)'
<1>1. ListenOf(f) /\ wanted[f] \in Images /\ podEvents[f] \in Seq(PodEvent)
  BY DEF ListenInv, TypeOK
<1>2. /\ UNCHANGED <<wanted, pc, listened, podsReady, podError>>
      /\ pod' = [pod EXCEPT ![i][p] = s] /\ MayBecome(pod[i][p], s)
  BY DEF PodChanges, flow, watch, scanned, config
<1>3. CASE pc[f] # "listening"
  BY <1>1, <1>2, <1>3 DEF ListenOf
<1>4. CASE pc[f] = "listening" /\ wanted[f] # i
  <2>1. podEvents'[f] = podEvents[f]
    BY <1>4 DEF PodChanges, Listens
  <2>2. pod'[wanted[f]] = pod[wanted[f]]
    BY <1>1, <1>2, <1>4 DEF TypeOK
  <2>3. \A q \in Pods : PodIsTold(f, q) => PodIsTold(f, q)'
    <3>1. \A q \in Pods : pod'[wanted'[f]][q] = pod[wanted[f]][q] /\ About(f, q)' = About(f, q)
      BY <1>2, <2>1, <2>2 DEF About
    <3> QED BY <1>2, <2>1, <3>1 DEF PodIsTold
  <2> QED BY <1>1, <1>2, <1>4, <2>3 DEF ListenOf
<1>5. CASE pc[f] = "listening" /\ wanted[f] = i
  <2> DEFINE e == [pod |-> p, state |-> s]
             n == Len(podEvents[f])
  <2>1. podEvents'[f] = Append(podEvents[f], e)
    BY <1>5 DEF PodChanges, Listens
  <2>2. /\ n \in Nat /\ DOMAIN podEvents[f] = 1 .. n /\ DOMAIN podEvents'[f] = 1 .. n + 1
        /\ podEvents'[f][n + 1] = e
        /\ \A k \in 1 .. n : podEvents'[f][k] = podEvents[f][k]
    BY <1>1, <2>1
  <2>3. PodIsTold(f, p)'
    <3>1. About(f, p)' = About(f, p) \cup {n + 1}
      BY <2>2 DEF About
    <3>2. pod'[wanted'[f]][p] = s
      BY <1>2, <1>5 DEF TypeOK
    <3>3. \A l \in About(f, p)' : l >= n + 1 => podEvents'[f][l].state = s
      BY <2>2 DEF About
    <3>4. s \in {"none", "waiting"} => pod[i][p] = "none" /\ s = "waiting"
      BY <1>2 DEF MayBecome
    <3>5. pod[i][p] = "none" =>
            p \notin podsReady[f] /\ (\A k \in About(f, p) : podEvents[f][k].state # "ready")
      BY <1>1, <1>5 DEF ListenOf, PodIsTold
    <3>6. p \in podsReady'[f] \/ (\E k \in About(f, p)' : podEvents'[f][k].state = "ready")
            => s \notin {"none", "waiting"}
      <4> SUFFICES ASSUME s \in {"none", "waiting"}
                   PROVE  p \notin podsReady'[f] /\ \A k \in About(f, p)' : podEvents'[f][k].state # "ready"
        OBVIOUS
      <4>1. podEvents'[f][n + 1].state # "ready"
        BY <2>2
      <4>2. \A k \in About(f, p) : podEvents'[f][k].state # "ready"
        BY <2>2, <3>4, <3>5 DEF About
      <4> QED BY <1>2, <3>1, <3>4, <3>5, <4>1, <4>2
    <3>7. \E k \in About(f, p)' : \A l \in About(f, p)' : l >= k => podEvents'[f][l].state = s
      BY <3>1, <3>3
    <3> QED BY <3>2, <3>6, <3>7 DEF PodIsTold
  <2>4. ASSUME NEW q \in Pods, q # p PROVE PodIsTold(f, q)'
    <3>1. About(f, q)' = About(f, q)
      BY <2>2, <2>4 DEF About
    <3>2. \A k \in About(f, q) : podEvents'[f][k] = podEvents[f][k]
      BY <2>2 DEF About
    <3>3. pod'[wanted'[f]][q] = pod[wanted[f]][q]
      BY <1>2, <2>4 DEF TypeOK
    <3>4. PodIsTold(f, q)
      BY <1>1, <1>5 DEF ListenOf
    <3> QED BY <1>2, <3>1, <3>2, <3>3, <3>4 DEF PodIsTold
  <2> QED BY <1>1, <1>2, <1>5, <2>3, <2>4 DEF ListenOf
<1> QED BY <1>3, <1>4, <1>5

\* A watch of pods begins with those that are there.
LEMMA TakeEventListen ==
  ASSUME Replicas > 0, TypeOK, RolloutInv, WatchInv, ListenInv, NEW f \in Flows, TakeEvent(f)
  PROVE  ListenOf(f)'
<1> DEFINE e == Head(events[f])
<1>1. ListenOf(f) /\ WatchOf(f) /\ pc[f] = "watching"
  BY DEF ListenInv, WatchInv, TakeEvent
<1>2. UNCHANGED <<pod, wanted, podsReady, podError>>
  BY DEF TakeEvent, scanned, config
<1>3. CASE pc'[f] # "listening"
  <2>1. listened'[f] = listened[f] \/ listened'[f]
    BY DEF TakeEvent, TypeOK
  <2> QED BY <1>1, <1>2, <1>3, <2>1 DEF ListenOf
<1>4. CASE pc'[f] = "listening"
  <2>1. e.generation = tracked[f] /\ failOnPodError /\ ~listened[f] /\ listened'[f]
    BY <1>1, <1>4, TakenDoesNotAnswer DEF TypeOK
  <2>2. e.image = wanted[f] /\ wanted[f] \in Images
    BY <1>1, <2>1 DEF WatchOf, OwnImage, TakeEvent, TypeOK
  <2>3. podsReady[f] = {} /\ podError[f] = NoPod
    BY <1>1, <2>1 DEF ListenOf
  <2> DEFINE Snapshot(q) == [k \in DOMAIN q |-> [pod |-> q[k], state |-> pod[wanted[f]][q[k]]]]
  <2>4. PICK q \in Orders(PodsThatAre(wanted[f], Live)) : podEvents'[f] = Snapshot(q)
    <3> DEFINE listens == /\ e.type = "modified" /\ HasReplicaSet(e)
                          /\ StatusOf(e, tracked[f]) = "notReadyYet" /\ failOnPodError /\ ~listened[f]
    <3>1. PICK q \in Orders(PodsThatAre(e.image, Live)) :
            podEvents' = IF listens
                         THEN [podEvents EXCEPT ![f] =
                                 [k \in DOMAIN q |-> [pod |-> q[k], state |-> pod[e.image][q[k]]]]]
                         ELSE podEvents
      BY DEF TakeEvent
    <3>2. listens
      BY <1>1, <1>4 DEF TakeEvent, Ends, TypeOK
    <3> HIDE DEF listens
    <3>3. podEvents'[f] = [k \in DOMAIN q |-> [pod |-> q[k], state |-> pod[e.image][q[k]]]]
      BY <3>1, <3>2 DEF TypeOK
    <3> QED BY <2>2, <3>3
  <2>5. ASSUME NEW p \in Pods PROVE PodIsTold(f, p)'
    <3>1. About(f, p)' = {k \in DOMAIN q : q[k] = p}
      BY <2>4 DEF About
    <3>2. \A k \in About(f, p)' : podEvents'[f][k].state = pod[wanted[f]][p]
      BY <2>4, <3>1
    <3>3. pod[wanted[f]][p] \in Live => About(f, p)' # {}
      BY <2>4, <3>1 DEF Orders, PodsThatAre
    <3>4. pod[wanted[f]][p] \notin Live => pod[wanted[f]][p] \notin {"error", "ready"}
      BY DEF Live
    <3> QED BY <1>2, <2>3, <3>2, <3>3, <3>4 DEF PodIsTold
  <2>6. Cardinality(podsReady'[f]) # Replicas
    BY <1>2, <2>3, FS_EmptySet, ClusterAssumption
  <2> QED BY <1>2, <2>1, <2>3, <2>5, <2>6 DEF ListenOf
<1> QED BY <1>3, <1>4

\* An event of a pod is counted; a flow that goes on listening has seen no failure.
LEMMA TakePodEventListen ==
  ASSUME TypeOK, WatchInv, ListenInv, NEW f \in Flows, TakePodEvent(f)
  PROVE  ListenOf(f)'
<1> DEFINE e == Head(podEvents[f])
<1>1. /\ ListenOf(f) /\ pc[f] = "listening" /\ listened[f]
      /\ podEvents[f] \in Seq(PodEvent) /\ podEvents[f] # <<>>
  BY DEF ListenInv, TakePodEvent, WatchInv, WatchOf, ListensOnce, TypeOK
<1>2. UNCHANGED <<pod, wanted, listened>>
  BY DEF TakePodEvent, config
<1>3. CASE pc'[f] # "listening"
  BY <1>1, <1>2, <1>3 DEF ListenOf
<1>4. CASE pc'[f] = "listening"
  <2>1. e \in PodEvent /\ e = podEvents[f][1] /\ podError[f] = NoPod /\ podError[f] # e.pod
    <3>1. e \in PodEvent /\ e = podEvents[f][1]
      BY <1>1
    <3>2. e.pod \in Pods
      BY <3>1 DEF PodEvent
    <3>3. podError[f] = NoPod
      BY <1>1 DEF ListenOf
    <3> QED BY <3>1, <3>2, <3>3, ClusterAssumption
  <2>2. /\ e.state # "error" /\ podError'[f] = NoPod /\ Cardinality(podsReady'[f]) # Replicas
        /\ podsReady'[f] = CASE e.state = "deleted" -> podsReady[f] \ {e.pod}
                             [] e.state = "ready"   -> podsReady[f] \cup {e.pod}
                             [] OTHER               -> podsReady[f]
    BY <1>4, <2>1, ClusterAssumption DEF TakePodEvent, Ends, TypeOK, PodEvent
  <2>3. podEvents'[f] = Tail(podEvents[f])
    BY <1>4 DEF TakePodEvent, TypeOK
  <2>4. ASSUME NEW p \in Pods PROVE PodIsTold(f, p)'
    <3> DEFINE A == About(f, p)
               B == About(f, p)'
               now == pod[wanted[f]][p]
    <3>1. /\ A \subseteq Nat \ {0} /\ B \subseteq Nat \ {0}
          /\ \A k \in B : k + 1 \in A /\ podEvents'[f][k] = podEvents[f][k + 1]
          /\ \A k \in A : k # 1 => k - 1 \in B
          /\ 1 \in A <=> e.pod = p
      BY SMTT(30), <1>1, <2>1, <2>3 DEF About
    <3>2. PodIsTold(f, p)
      BY <1>1 DEF ListenOf
    <3>3. p \in podsReady'[f] \/ (\E k \in B : podEvents'[f][k].state = "ready") => now \notin {"none", "waiting"}
      BY <2>1, <2>2, <3>1, <3>2 DEF PodIsTold
    <3>4. CASE B # {}
      <4>1. PICK k \in A : \A l \in A : l >= k => podEvents[f][l].state = now
        BY <3>1, <3>2, <3>4 DEF PodIsTold
      <4>2. CASE k = 1
        <5>1. PICK j \in B : TRUE
          BY <3>4
        <5>2. \A l \in B : podEvents'[f][l].state = now
          BY <3>1, <4>1, <4>2
        <5> QED BY <1>2, <3>3, <3>4, <5>1, <5>2 DEF PodIsTold
      <4>3. CASE k # 1
        <5>1. k - 1 \in B
          BY <3>1, <4>3
        <5>2. \A l \in B : l >= k - 1 => podEvents'[f][l].state = now
          BY <3>1, <4>1
        <5> QED BY <1>2, <3>3, <5>1, <5>2 DEF PodIsTold
      <4> QED BY <4>2, <4>3
    <3>5. CASE B = {} /\ e.pod # p
      <4>1. A = {}
        BY <3>1, <3>5
      <4>2. p \in podsReady'[f] <=> p \in podsReady[f]
        BY <2>2, <3>5
      <4> QED BY <1>2, <3>2, <3>3, <3>5, <4>1, <4>2 DEF PodIsTold
    <3>6. CASE B = {} /\ e.pod = p
      <4>1. A = {1}
        BY <3>1, <3>6
      <4>2. e.state = now
        BY <2>1, <3>2, <4>1 DEF PodIsTold
      <4>3. now \in PodState
        BY DEF TypeOK
      <4>4. now # "error" /\ (p \in podsReady'[f] <=> now = "ready")
        BY <2>2, <3>2, <3>6, <4>2, <4>3 DEF PodIsTold, PodState
      <4> QED BY <1>2, <3>3, <3>6, <4>4 DEF PodIsTold
    <3> QED BY <3>4, <3>5, <3>6
  <2> QED BY <1>1, <1>2, <2>2, <2>4 DEF ListenOf
<1> QED BY <1>3, <1>4

LEMMA NextListen ==
  ASSUME Replicas > 0, TypeOK, RolloutInv, WatchInv, ListenInv, [Next]_vars
  PROVE  ListenInv'
<1>1. ASSUME UNCHANGED <<pod, config, flow, podEvents>> PROVE ListenInv'
  BY <1>1, QuietListen DEF ListenInv, PodsWithinReplicas, PodsThatAre, flow, watch, scanned, config
<1>2. CASE Observe \/ Complete \/ PodsLost \/ DeadlineExceeded \/ CreateReplicaSet \/ UNCHANGED vars
  BY <1>1, <1>2 DEF Observe, Complete, PodsLost, DeadlineExceeded, CreateReplicaSet, TellStatus, vars
<1>6. CASE Touched \/ Deleted \/ \E f \in Flows : WatchCloses(f)
  BY <1>1, <1>6 DEF Touched, Deleted, WatchCloses
<1>3. CASE \E i \in Images : PatchedByOthers(i)
  BY <1>1, <1>3 DEF PatchedByOthers, Patch
<1>4. ASSUME NEW i \in Images, NEW p \in Pods, NEW s \in PodState, PodChanges(i, p, s) PROVE ListenInv'
  BY <1>4, PodChangesReplicas, PodChangesListen DEF ListenInv
<1>5. ASSUME NEW f \in Flows, Deploy(f) \/ Rejected(f) \/ TakeEvent(f) \/ TakePodEvent(f) PROVE ListenInv'
  <2>1. UNCHANGED <<pod, wanted>>
    BY <1>5 DEF Deploy, Patch, Rejected, TakeEvent, TakePodEvent, config
  <2>2. PodsWithinReplicas'
    BY <2>1 DEF ListenInv, PodsWithinReplicas, PodsThatAre
  <2>3. ASSUME NEW g \in Flows, g # f PROVE ListenOf(g)'
    <3>1. /\ pc'[g] = pc[g] /\ listened'[g] = listened[g] /\ podsReady'[g] = podsReady[g]
          /\ podError'[g] = podError[g] /\ podEvents'[g] = podEvents[g]
      <4>1. CASE Deploy(f)
        BY <4>1, <2>3 DEF Deploy, Patch, Ends, watch, scanned, TypeOK
      <4>2. CASE Rejected(f)
        BY <4>2, <2>3 DEF Rejected, Ends, watch, scanned, TypeOK
      <4>3. CASE TakeEvent(f)
        BY SMTT(30), <4>3, <2>3 DEF TakeEvent, Ends, scanned, TypeOK
      <4>4. CASE TakePodEvent(f)
        BY SMTT(30), <4>4, <2>3 DEF TakePodEvent, Ends, watch, TypeOK
      <4>5. QED BY <1>5, <4>1, <4>2, <4>3, <4>4
    <3> QED BY <2>1, <3>1, QuietListen DEF ListenInv
  <2>4. CASE Deploy(f) \/ Rejected(f)
    <3>1. /\ pc'[f] # "listening" /\ listened'[f] = listened[f] /\ podsReady'[f] = podsReady[f]
          /\ podError'[f] = podError[f]
      BY <2>4 DEF Deploy, Rejected, Ends, watch, scanned, TypeOK
    <3> QED BY <2>1, <2>2, <2>3, <3>1, QuietListen DEF ListenInv
  <2>5. CASE TakeEvent(f) \/ TakePodEvent(f)
    BY <2>2, <2>3, <2>5, TakeEventListen, TakePodEventListen DEF ListenInv
  <2> QED BY <1>5, <2>4, <2>5
<1> QED BY <1>2, <1>3, <1>4, <1>5, <1>6 DEF Next, Cluster

\* What is left to wait for is the pods themselves.  A deployment of no replicas is left
\* out: no event of a pod ever tells a flow that listens that all of them are up.
THEOREM NoPodEventIsMissed ==
  ASSUME Replicas > 0
  PROVE  Spec => []WaitsForSilentPods
<1>1. Init => TypeOK /\ RolloutInv /\ WatchInv /\ ListenInv
  BY InitType, InitInv, InitWatch, InitListen
<1>2. TypeOK /\ RolloutInv /\ WatchInv /\ ListenInv /\ [Next]_vars
        => (TypeOK /\ RolloutInv /\ WatchInv /\ ListenInv)'
  BY NextType, NextInv, NextWatch, NextListen
<1>3. TypeOK /\ WatchInv /\ ListenInv => WaitsForSilentPods
  <2> SUFFICES ASSUME TypeOK, WatchInv, ListenInv, NEW f \in Flows, pc[f] = "listening", podEvents[f] = <<>>
               PROVE  /\ failOnPodError
                      /\ PodsThatAre(wanted[f], {"error"}) = {}
                      /\ Cardinality(PodsThatAre(wanted[f], {"ready"})) < Replicas
    BY DEF WaitsForSilentPods
  <2>1. failOnPodError /\ ListenOf(f) /\ wanted[f] \in Images
    BY DEF WatchInv, WatchOf, ListensOnce, ListenInv, TypeOK
  <2>2. \A p \in Pods : /\ pod[wanted[f]][p] # "error"
                        /\ p \in podsReady[f] <=> pod[wanted[f]][p] = "ready"
    BY <2>1 DEF ListenOf, PodIsTold, About
  <2>3. PodsThatAre(wanted[f], {"ready"}) = podsReady[f]
    BY <2>2 DEF PodsThatAre, TypeOK
  <2>4. Cardinality(podsReady[f]) # Replicas
    BY <2>1 DEF ListenOf
  <2> DEFINE R == PodsThatAre(wanted[f], {"ready"})
             L == PodsThatAre(wanted[f], Live)
  <2>5. R \subseteq L /\ L \subseteq Pods
    BY DEF PodsThatAre, Live
  <2>6. IsFiniteSet(L) /\ Cardinality(L) <= Replicas
    BY <2>1, <2>5, ClusterAssumption, FS_Subset DEF ListenInv, PodsWithinReplicas
  <2>7. Cardinality(R) \in Nat /\ Cardinality(L) \in Nat /\ Cardinality(R) <= Cardinality(L)
    BY <2>5, <2>6, FS_Subset, FS_CardinalityType
  <2>8. Cardinality(R) < Replicas
    BY <2>3, <2>4, <2>6, <2>7, ClusterAssumption
  <2> QED BY <2>1, <2>2, <2>8 DEF PodsThatAre
<1> QED BY <1>1, <1>2, <1>3, PTL DEF Spec

-----------------------------------------------------------------------------
(* A deployment that nobody disturbs.                                       *)

\* What a flow that tracks generation g is told of it is about a replica set that is made.
Expected(e, g, now, made) == /\ e.type = "modified" /\ e.generation <= now
                             /\ e.generation = g => e.image \in made
FoundByItsFlow ==
  \A f \in Flows : \A k \in DOMAIN events[f] : Expected(events[f][k], tracked[f], generation, replicaSets)

\* A flow gives up its deployment for a later one only.  Else it waits for its pods and
\* for the deadline.
GivenUpForLaterOnes ==
  \A f \in Flows : result[f] \in {"additional", "deleted", "error"} => generation > tracked[f]

UndisturbedInv ==
  /\ exists
  /\ FoundByItsFlow
  /\ \A f \in Flows : pc[f] # "ended" => result[f] = "none"
  /\ GivenUpForLaterOnes

LEMMA InitUndisturbed == Init => UndisturbedInv
BY DEF Init, UndisturbedInv, FoundByItsFlow, GivenUpForLaterOnes

\* Events that are told of an own generation come after its replica set.
LEMMA TellUndisturbed ==
  ASSUME TypeOK, RolloutInv, FoundByItsFlow, Tell("modified"), NEW f \in Flows,
         generation' \in Nat, generation' >= generation, replicaSets' = replicaSets,
         generation' = generation => image' \in replicaSets
  PROVE  \A k \in DOMAIN events'[f] : Expected(events'[f][k], tracked[f], generation', replicaSets)
<1> DEFINE e == [type |-> "modified", image |-> image', generation |-> generation', status |-> status']
<1> SUFFICES ASSUME NEW k \in DOMAIN events'[f] PROVE Expected(events'[f][k], tracked[f], generation', replicaSets)
  OBVIOUS
<1>1. events[f] \in Seq(Event) /\ tracked[f] \in Nat /\ generation \in Nat /\ generation >= tracked[f]
  BY DEF TypeOK, RolloutInv, TrackedFacts
<1>2. \/ k \in DOMAIN events[f] /\ events'[f][k] = events[f][k]
      \/ events'[f][k] = e
  <2>1. events'[f] = events[f] \/ events'[f] = Append(events[f], e)
    BY DEF Tell
  <2> QED BY SMTT(30), <1>1, <2>1
<1>3. CASE k \in DOMAIN events[f] /\ events'[f][k] = events[f][k]
  <2>1. Expected(events[f][k], tracked[f], generation, replicaSets)
    BY <1>3 DEF FoundByItsFlow
  <2>2. events[f][k].generation \in Nat
    <3>1. events[f][k] \in Event
      BY <1>1, <1>3
    <3> QED BY <3>1 DEF Event
  <2> QED BY <1>1, <1>3, <2>1, <2>2 DEF Expected
<1>4. CASE events'[f][k] = e
  <2>1. e.generation = tracked[f] => generation' = generation
    BY <1>1
  <2> QED BY <1>1, <1>4, <2>1 DEF Expected
<1> QED BY <1>2, <1>3, <1>4

\* The cluster of itself gives no flow a result.
LEMMA ClusterUndisturbed ==
  ASSUME Disturbances = {}, TypeOK, RolloutInv, UndisturbedInv, Cluster
  PROVE  UndisturbedInv'
<1>1. ASSUME UNCHANGED <<exists, generation, events, flow>>, replicaSets \subseteq replicaSets'
      PROVE  UndisturbedInv'
  BY <1>1 DEF UndisturbedInv, FoundByItsFlow, Expected, GivenUpForLaterOnes, flow, watch
<1>2. ASSUME UNCHANGED <<exists, replicaSets, flow>>, Tell("modified"), generation' \in Nat, generation' >= generation,
             generation' = generation => image' \in replicaSets
      PROVE  UndisturbedInv'
  <2>1. tracked' = tracked /\ result' = result /\ pc' = pc
    BY <1>2 DEF flow, watch
  <2>2. FoundByItsFlow'
    BY <1>2, <2>1, TellUndisturbed DEF FoundByItsFlow, UndisturbedInv
  <2>3. GivenUpForLaterOnes'
    BY <1>2, <2>1 DEF UndisturbedInv, GivenUpForLaterOnes, TypeOK
  <2> QED BY <1>2, <2>1, <2>2, <2>3 DEF UndisturbedInv
<1>3. CASE CreateReplicaSet
  BY <1>1, <1>3 DEF CreateReplicaSet
<1>4. CASE Observe \/ Complete \/ PodsLost \/ DeadlineExceeded
  <2>1. /\ UNCHANGED <<exists, replicaSets, flow, image, generation>> /\ Tell("modified")
        /\ image \in replicaSets /\ generation \in Nat
    BY <1>4 DEF Observe, Complete, PodsLost, DeadlineExceeded, TellStatus, TypeOK
  <2> QED BY <1>2, <2>1
<1>5. ASSUME NEW i \in Images, PatchedByOthers(i) PROVE UndisturbedInv'
  BY <1>2, <1>5 DEF PatchedByOthers, Patch, TypeOK
<1>6. ~Touched /\ ~Deleted /\ \A f \in Flows : ~WatchCloses(f)
  BY DEF Touched, Deleted, WatchCloses
<1>7. CASE \E i \in Images, p \in Pods, s \in PodState : PodChanges(i, p, s)
  BY <1>1, <1>7 DEF PodChanges, deployment
<1> QED BY <1>3, <1>4, <1>5, <1>6, <1>7 DEF Cluster

LEMMA DeployUndisturbed ==
  ASSUME TypeOK, RolloutInv, UndisturbedInv, NEW f \in Flows, Deploy(f)
  PROVE  UndisturbedInv'
<1>1. wanted[f] \in Images /\ generation \in Nat
  BY DEF TypeOK
<1>2. /\ exists' = exists /\ replicaSets' = replicaSets /\ generation' \in Nat /\ generation' >= generation
      /\ UNCHANGED <<events, generation>> \/ (Tell("modified") /\ generation' > generation)
  BY <1>1 DEF Deploy, Patch
<1>3. events'[f] = <<>>
  BY IdleFlowsHearNothing DEF Deploy, Patch, RolloutInv, TrackedFacts
<1>4. \A g \in Flows \ {f} : tracked'[g] = tracked[g] /\ result'[g] = result[g] /\ pc'[g] = pc[g]
  BY DEF Deploy, Ends, TypeOK
<1>5. /\ result'[f] \notin {"additional", "deleted", "error"}
      /\ pc'[f] # "ended" => result'[f] = "none"
  BY DEF Deploy, Ends, TypeOK, UndisturbedInv
<1>6. FoundByItsFlow'
  <2> SUFFICES ASSUME NEW g \in Flows, NEW k \in DOMAIN events'[g]
               PROVE  Expected(events'[g][k], tracked'[g], generation', replicaSets')
    BY DEF FoundByItsFlow
  <2>1. g # f /\ tracked'[g] = tracked[g]
    BY <1>3, <1>4
  <2>2. CASE UNCHANGED <<events, generation>>
    BY <1>2, <2>1, <2>2 DEF UndisturbedInv, FoundByItsFlow
  <2>3. CASE Tell("modified") /\ generation' > generation
    <3>1. \A j \in DOMAIN events'[g] : Expected(events'[g][j], tracked[g], generation', replicaSets)
      BY <1>1, <1>2, <2>3, TellUndisturbed DEF UndisturbedInv
    <3> QED BY <1>2, <2>1, <3>1
  <2> QED BY <1>2, <2>2, <2>3
<1>7. GivenUpForLaterOnes'
  <2>1. ASSUME NEW g \in Flows, g # f, result[g] \in {"additional", "deleted", "error"} PROVE generation' > tracked[g]
    <3>1. generation > tracked[g] /\ tracked[g] \in Nat
      BY <2>1 DEF UndisturbedInv, GivenUpForLaterOnes, TypeOK
    <3> QED BY <1>1, <1>2, <3>1
  <2> QED BY <1>4, <1>5, <2>1 DEF GivenUpForLaterOnes
<1> QED BY <1>2, <1>4, <1>5, <1>6, <1>7 DEF UndisturbedInv

\* A step of one flow that ends well, or for a later deployment.
LEMMA FlowUndisturbed ==
  ASSUME TypeOK, UndisturbedInv, NEW f \in Flows,
         UNCHANGED <<exists, generation, tracked, replicaSets>>,
         events'[f] = <<>> \/ events'[f] = events[f] \/ (events[f] # <<>> /\ events'[f] = Tail(events[f])),
         pc'[f] # "ended" => result'[f] = "none",
         result'[f] \in {"additional", "deleted", "error"} => generation > tracked[f],
         \A g \in Flows \ {f} : pc'[g] = pc[g] /\ result'[g] = result[g] /\ events'[g] = events[g]
  PROVE  UndisturbedInv'
<1>1. FoundByItsFlow'
  <2> SUFFICES ASSUME NEW g \in Flows, NEW k \in DOMAIN events'[g]
               PROVE  Expected(events'[g][k], tracked[g], generation, replicaSets)
    BY DEF FoundByItsFlow
  <2>1. events[g] \in Seq(Event)
    BY DEF TypeOK
  <2>2. CASE events'[g] = events[g]
    BY <2>2 DEF UndisturbedInv, FoundByItsFlow
  <2>3. CASE events[g] # <<>> /\ events'[g] = Tail(events[g])
    <3>1. k + 1 \in DOMAIN events[g] /\ events'[g][k] = events[g][k + 1]
      BY <2>1, <2>3
    <3> QED BY <3>1 DEF UndisturbedInv, FoundByItsFlow
  <2> QED BY <2>2, <2>3
<1>2. GivenUpForLaterOnes'
  BY DEF UndisturbedInv, GivenUpForLaterOnes
<1> QED BY <1>1, <1>2 DEF UndisturbedInv

LEMMA TakeEventUndisturbed ==
  ASSUME TypeOK, RolloutInv, UndisturbedInv, NEW f \in Flows, TakeEvent(f)
  PROVE  UndisturbedInv'
<1> DEFINE e == Head(events[f])
           st == StatusOf(e, tracked[f])
<1>1. e \in Event /\ 1 \in DOMAIN events[f] /\ e = events[f][1] /\ events[f] # <<>>
      /\ tracked[f] \in Nat /\ generation \in Nat /\ pc[f] = "watching"
  BY DEF TakeEvent, TypeOK
<1>2. e.generation >= tracked[f] /\ e.generation \in Nat
  BY <1>1 DEF RolloutInv, EventsAreTrue, Event
<1>3. e.type = "modified" /\ e.generation <= generation /\ (e.generation = tracked[f] => HasReplicaSet(e))
  BY <1>1 DEF UndisturbedInv, FoundByItsFlow, Expected, HasReplicaSet
<1>4. st = "additional" \/ ~(e.type = "modified" /\ HasReplicaSet(e)) => generation > tracked[f]
  BY <1>1, <1>2, <1>3 DEF StatusOf
<1>5. /\ result'[f] \in {"additional", "deleted", "error"} => generation > tracked[f]
      /\ pc'[f] # "ended" => result'[f] = "none"
  BY <1>1, <1>3, <1>4 DEF TakeEvent, Ends, TypeOK, UndisturbedInv
<1>6. /\ UNCHANGED <<exists, generation, tracked, replicaSets>>
      /\ events'[f] = <<>> \/ events'[f] = Tail(events[f])
      /\ \A g \in Flows \ {f} : pc'[g] = pc[g] /\ result'[g] = result[g] /\ events'[g] = events[g]
  BY DEF TakeEvent, Ends, TypeOK, deployment
<1> QED BY <1>1, <1>5, <1>6, FlowUndisturbed

LEMMA TakePodEventUndisturbed ==
  ASSUME TypeOK, UndisturbedInv, NEW f \in Flows, TakePodEvent(f)
  PROVE  UndisturbedInv'
<1>1. pc[f] = "listening" /\ result[f] = "none"
  BY DEF TakePodEvent, UndisturbedInv
<1>2. /\ result'[f] \in {"none", "success", "podFailed"}
      /\ pc'[f] # "ended" => result'[f] = "none"
  BY <1>1 DEF TakePodEvent, Ends, TypeOK
<1>3. /\ UNCHANGED <<exists, generation, tracked, replicaSets>>
      /\ events'[f] = <<>> \/ events'[f] = events[f]
      /\ \A g \in Flows \ {f} : pc'[g] = pc[g] /\ result'[g] = result[g] /\ events'[g] = events[g]
  BY DEF TakePodEvent, Ends, TypeOK, deployment
<1> QED BY <1>2, <1>3, FlowUndisturbed

\* When no request fails and nobody touches or deletes the deployment, a flow gives up
\* only because somebody deployed after it: it is never told an error by an event of its
\* own deployment, for want of the replica set that the controller has still to make.
THEOREM UndisturbedFlowsGoOn ==
  ASSUME Disturbances = {}
  PROVE  Spec => []GivenUpForLaterOnes
<1>1. Init => TypeOK /\ RolloutInv /\ UndisturbedInv
  BY InitType, InitInv, InitUndisturbed
<1>2. TypeOK /\ RolloutInv /\ UndisturbedInv /\ [Next]_vars => (TypeOK /\ RolloutInv /\ UndisturbedInv)'
  <2> SUFFICES ASSUME TypeOK, RolloutInv, UndisturbedInv, [Next]_vars PROVE UndisturbedInv'
    BY NextType, NextInv
  <2>1. CASE UNCHANGED vars
    BY <2>1 DEF vars, deployment, flow, watch, UndisturbedInv, FoundByItsFlow, GivenUpForLaterOnes
  <2>2. \A f \in Flows : ~Rejected(f)
    BY DEF Rejected, UndisturbedInv
  <2> QED BY <2>1, <2>2, ClusterUndisturbed, DeployUndisturbed, TakeEventUndisturbed, TakePodEventUndisturbed
          DEF Next
<1>3. UndisturbedInv => GivenUpForLaterOnes
  BY DEF UndisturbedInv
<1> QED BY <1>1, <1>2, <1>3, PTL DEF Spec
=============================================================================
