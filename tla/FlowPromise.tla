----------------------------- MODULE FlowPromise -----------------------------
(***************************************************************************)
(* What a flow promises to those that look at its state (getState, the     *)
(* reports, the subscribers of the events): steps and artifacts that go    *)
(* from scheduled to a final result in the order of the graph, as if each  *)
(* turn were the only thing that happens.                                  *)
(*                                                                         *)
(* Nothing is left of the buffer, of redis, of the delivery of actions, of *)
(* the callbacks, of what they copy, and of the constrains: the engine of  *)
(* StepsExecution is shown to implement it.                                *)
(***************************************************************************)
EXTENDS Statuses

CONSTANTS
  Steps, Artifacts,
  ByArtifact,   \* the steps that work on one artifact at a time
  Ancestors,    \* the steps that must be final before a step begins on the repository
  Needs         \* the pairs of steps and artifacts that must be final before a step
                \* begins on an artifact

VARIABLES
  state,          \* of the flow
  stepRes, artRes \* the result of each step, and of each artifact in it

vars == <<state, stepRes, artRes>>

Init ==
  /\ state = IF Steps = {} THEN "finished" ELSE "running"
  /\ stepRes = [s \in Steps |-> Scheduled]
  /\ artRes = [s \in Steps |-> [a \in Artifacts |-> Scheduled]]

\* The result that artifacts come to together.
Together(results) ==
  LET status == CombinedStatus({results[a].status : a \in Artifacts})
  IN IF \A a \in Artifacts : IsAborted(results[a]) THEN Aborted(status) ELSE Done(status)

Skips == {"skippedAsPassed", "skippedAsFailed"}

-----------------------------------------------------------------------------
(* A step as a whole.                                                       *)

Untouched(s) == stepRes[s] = Scheduled /\ \A a \in Artifacts : artRes[s][a] = Scheduled

\* Steps that are disabled, or have no artifacts, are skipped without waiting.
SkipAtOnce(S) ==
  /\ state = "running"
  /\ \A s \in S : Untouched(s)
  /\ \E v \in [S -> Skips] :
       /\ stepRes' = [s \in Steps |-> IF s \in S THEN Aborted(v[s]) ELSE stepRes[s]]
       /\ artRes' = [s \in Steps |-> [a \in Artifacts |->
                       IF s \in S THEN Aborted(v[s]) ELSE artRes[s][a]]]
  /\ UNCHANGED state

\* A step on the whole repository: its artifacts go with it.
ChangeStep(s, r) ==
  /\ state = "running"
  /\ s \notin ByArtifact
  /\ stepRes' = [stepRes EXCEPT ![s] = r]
  /\ artRes' = [artRes EXCEPT ![s] = [a \in Artifacts |-> r]]
  /\ UNCHANGED state

BeginStep(s) ==
  /\ Untouched(s)
  /\ \A p \in Ancestors[s] : IsFinal(stepRes[p])
  /\ \E r \in {Running} \cup {Aborted(v) : v \in Skips} : ChangeStep(s, r)

EndStep(s) ==
  /\ stepRes[s] = Running
  /\ \E r \in FinalResult : ChangeStep(s, r)

-----------------------------------------------------------------------------
(* A step on one artifact at a time.                                        *)

IsReady(s, a) ==
  /\ state = "running"
  /\ s \in ByArtifact
  /\ artRes[s][a] = Scheduled
  /\ \A x \in Needs[s][a] : IsFinal(artRes[x[1]][x[2]])

\* The artifact that is skipped last closes the step; results that cannot be put
\* together make the flow fail.
SkipArtifact(s, a) ==
  /\ IsReady(s, a)
  /\ \E v \in Skips : artRes' = [artRes EXCEPT ![s][a] = Aborted(v)]
  /\ IF \A b \in Artifacts : IsFinal(artRes'[s][b])
     THEN \/ state' = "running" /\ stepRes' = [stepRes EXCEPT ![s] = Together(artRes'[s])]
          \/ state' = "failed" /\ UNCHANGED stepRes
     ELSE UNCHANGED <<state, stepRes>>

BeginArtifact(s, a) ==
  /\ IsReady(s, a)
  /\ artRes' = [artRes EXCEPT ![s][a] = Running]
  /\ stepRes' = [stepRes EXCEPT ![s] = Running]
  /\ UNCHANGED state

EndArtifact(s, a) ==
  /\ state = "running"
  /\ artRes[s][a] = Running
  /\ s \in ByArtifact
  /\ \E r \in FinalResult : artRes' = [artRes EXCEPT ![s][a] = r]
  /\ UNCHANGED <<state, stepRes>>

CloseStep(s) ==
  /\ state = "running"
  /\ s \in ByArtifact
  /\ stepRes[s] = Running
  /\ \A a \in Artifacts : IsFinal(artRes[s][a])
  /\ stepRes' = [stepRes EXCEPT ![s] = Together(artRes[s])]
  /\ UNCHANGED <<state, artRes>>

-----------------------------------------------------------------------------
Finish ==
  /\ state = "running"
  /\ \A s \in Steps : IsFinal(stepRes[s])
  /\ state' = "finished"
  /\ UNCHANGED <<stepRes, artRes>>

Fail ==
  /\ state = "running"
  /\ state' = "failed"
  /\ UNCHANGED <<stepRes, artRes>>

Next ==
  \/ \E S \in SUBSET Steps : SkipAtOnce(S)
  \/ \E s \in Steps : BeginStep(s) \/ EndStep(s) \/ CloseStep(s)
  \/ \E s \in Steps, a \in Artifacts :
       SkipArtifact(s, a) \/ BeginArtifact(s, a) \/ EndArtifact(s, a)
  \/ Finish
  \/ Fail

Spec == Init /\ [][Next]_vars
=============================================================================
