--------------------------- MODULE FlowProperties ---------------------------
(***************************************************************************)
(* What the engine of StepsExecution owes to the steps, to the cache and   *)
(* to the reader of its exit code.                                         *)
(***************************************************************************)
EXTENDS StepsExecution

\* The steps that really run: no global constrain skipped them.
Enabled == {s \in Steps : globalVerdict[s] = "shouldRun"}

\* Mutant: only the steps that are done count.
ExitCodeOfDoneSteps ==
  LET done == {s \in Steps : stepRes[s].executionStatus = "done"}
      statuses == UNION {{artRes[s][a].status : a \in Artifacts} : s \in done}
  IN IF DidPassOrSkippedAsPassed(CombinedStatus(statuses)) THEN 0 ELSE 1

\* getExitCode
ExitCode ==
  LET statusesOf(s) == IF IsFinal(stepRes[s])
                       THEN {artRes[s][a].status : a \in Artifacts}
                       ELSE {"failed"}
  IN IF DidPassOrSkippedAsPassed(CombinedStatus(UNION {statusesOf(s) : s \in Steps}))
     THEN 0 ELSE 1

-----------------------------------------------------------------------------
(* What the store says of a step and of its artifacts.                      *)

\* A step is final only when all of its artifacts are, and its result is the
\* one its artifacts come to together: aborted when all of them were, and
\* with their combined status.  The reports and the exit code read the
\* artifacts, the children of the step read the step.
StepAgreesWithArtifacts ==
  \A s \in Steps : IsFinal(stepRes[s]) =>
    /\ \A a \in Artifacts : IsFinal(artRes[s][a])
    /\ Artifacts # {} =>
         /\ IsAborted(stepRes[s]) <=> \A a \in Artifacts : IsAborted(artRes[s][a])
         /\ stepRes[s].status = CombinedStatus({artRes[s][a].status : a \in Artifacts})

\* The private copy a step keeps of its artifacts' results, from which it
\* computes its own result, is what the store holds: no action it dispatched
\* came too late.
LocalAgreesWithStore ==
  \A s \in ArtifactSteps \cap Enabled : localRes[s] = artRes[s]

\* The flow is marked finished only when no callback of a step is at work:
\* whatever would be dispatched later would be lost.
FinishedMeansIdle ==
  flowFinished => \A s \in Steps :
    /\ stepPc[s] \in {"waiting", "finished"}
    /\ \A a \in Artifacts : artPc[s][a] \in {"waiting", "finished"}

-----------------------------------------------------------------------------
(* The order of the work.                                                   *)

\* Nothing is reported of an artifact in a step before every recursive parent
\* step is final on that artifact, and, when the step works on the whole
\* repository, final itself.
ParentsFinishFirst ==
  \A s \in Enabled, p \in Steps : p \in StepAncestors[s] =>
    /\ \A a \in Artifacts : artRes[s][a] # Scheduled => IsFinal(artRes[p][a])
    /\ s \notin ArtifactSteps /\ stepRes[s] # Scheduled => IsFinal(stepRes[p])

\* A step that waits for the parents of its artifacts reports nothing of an
\* artifact before the artifacts it depends on are final in the parent steps.
WaitsForArtifactParents ==
  \A s \in WaitSteps \cap Enabled, a \in Artifacts : artRes[s][a] # Scheduled =>
    \A p \in StepParents[s], b \in ArtifactParents[a] : IsFinal(artRes[p][b])

-----------------------------------------------------------------------------
(* What is published: redis and the subscribers of the events topic see     *)
(* what is put in the buffer.                                               *)

\* What a turn publishes is about steps, and artifacts, that are not final yet.
PublishesOnlyNews ==
  \A act \in buffer' \ buffer :
    /\ act.type = "step" => ~IsFinal(stepRes[act.step])
    /\ act.type = "artifactStep" => ~IsFinal(artRes[act.step][act.artifact])

\* Once a step, or an artifact in a step, is final nothing more is published
\* about it, so every flow event consumer sees one final event per step.
NothingPublishedAfterFinal == [][PublishesOnlyNews]_vars

\* When the flow has ended, the cache holds the final result of every step
\* and of every artifact: the next flow, and the reports, can rely on it.
CacheHoldsEveryResult ==
  flow = "finished" => \A s \in Steps :
    /\ stepRes[s] \in stepCache[s]
    /\ \A a \in Artifacts : artRes[s][a] \in artCache[s][a]

-----------------------------------------------------------------------------
(* Who starts.                                                              *)

\* The work of s (on artifact a) has what it waits for.
MayStart(s) == \A p \in StepAncestors[s] : IsFinal(stepRes[p])

MayStartOnArtifact(s, a) ==
  /\ \A p \in StepAncestors[s] : IsFinal(artRes[p][a])
  /\ s \in WaitSteps => \A p \in StepParents[s], b \in ArtifactParents[a] : IsFinal(artRes[p][b])

\* A step with a skip-as-failed constrain on a parent never runs (on an
\* artifact) when that parent failed (on that artifact).
SkippedWhenParentFailed ==
  \A s \in Steps : \A p \in FailChecks[s] \cap StepAncestors[s] :
    /\ s \in ArtifactSteps => \A a \in Artifacts :
         artPc[s][a] = "running" => ~FailedInCache({artRes[p][a]})
    /\ s \notin ArtifactSteps /\ stepPc[s] = "running" => ~FailedInCache({stepRes[p]})

\* A step that is not to be repeated never runs (on an artifact) when the cache
\* holds a pass of it, of an earlier flow or of its own.
NotRunAgainAfterPass ==
  \A s \in Steps : s \in PassChecks[s] =>
    /\ s \in ArtifactSteps => \A a \in Artifacts :
         artPc[s][a] = "running" => ~PassedInCache(artCache[s][a])
    /\ s \notin ArtifactSteps /\ stepPc[s] = "running" => ~PassedInCache(stepCache[s])

-----------------------------------------------------------------------------
(* The end of the flow.                                                     *)

\* What the engine takes for granted of a function of the user: it is done and
\* passed or failed, or it was aborted to skip.
ExpectedResults ==
  {Done("passed"), Done("failed"), Aborted("skippedAsPassed"), Aborted("skippedAsFailed")}

\* The errors "we can't be here8", "9" and "10" are never raised.
NeverCantBeHere == flow \notin {"cantBeHere8", "cantBeHere9", "cantBeHere10"}

\* A step that raises one of them, which leaves it open though all of its artifacts are
\* final, was given a result of an artifact that is not expected.
OnlyOddResultsCantBeHere ==
  ~NeverCantBeHere =>
    \E s \in ArtifactSteps \cap Enabled :
      /\ ~IsFinal(stepRes[s]) /\ \A a \in Artifacts : IsFinal(artRes[s][a])
      /\ \E a \in Artifacts : artRes[s][a] \notin ExpectedResults

\* A flow that ends exits with 1 exactly when some step did not pass.
ExitCodeTellsFailure ==
  flow = "finished" =>
    (ExitCode = 1 <=> \E s \in Steps : ~DidPassOrSkippedAsPassed(stepRes[s].status))

\* Every flow ends with every step final, or comes to a fatal error: none hangs.
FlowSettles == <>(flow \in Fatal \/ (flow = "finished" /\ \A s \in Steps : IsFinal(stepRes[s])))

-----------------------------------------------------------------------------
(* The inductive invariant behind the properties of the store and of the    *)
(* order of the work: where the callback of a step is decides what the      *)
(* store holds of it.                                                       *)

\* Nothing has happened before the steps are set up.
SetUpInv ==
  flow \in {"setup", "setupFailed"} => \A s \in Steps :
    /\ stepPc[s] = "waiting" /\ stepRes[s] = Scheduled
    /\ \A a \in Artifacts : /\ artPc[s][a] = "waiting"
                            /\ artRes[s][a] = Scheduled /\ localRes[s][a] = Scheduled

\* The steps whose artifacts always have the result of the step.
IsWhole(s) == s \notin ArtifactSteps \/ globalVerdict[s] # "shouldRun" \/ Artifacts = {}

WholeInv(s) ==
  /\ \A a \in Artifacts : artPc[s][a] = "waiting" /\ artRes[s][a] = stepRes[s]
  /\ stepPc[s] \in {"waiting"} \cup Verdict => stepRes[s] = Scheduled
  /\ stepPc[s] = "running" => stepRes[s] = Running
  /\ stepPc[s] = "finished" => IsFinal(stepRes[s])
  /\ stepPc[s] # "afterAll"

\* One artifact of a step that works on each by itself.
ArtifactInv(s, a) ==
  /\ localRes[s][a] = artRes[s][a]
  /\ artPc[s][a] \in {"waiting"} \cup Verdict => artRes[s][a] = Scheduled
  /\ artPc[s][a] = "running" => artRes[s][a] = Running
  /\ artPc[s][a] \in {"afterAll", "finished"} => IsFinal(artRes[s][a])

\* At most one artifact calls onAfterArtifacts, and the step is final only afterwards.
ByArtifactInv(s) ==
  /\ stepPc[s] = "waiting"
  /\ \A a \in Artifacts : ArtifactInv(s, a)
  /\ \A a \in Artifacts : artPc[s][a] = "afterAll" =>
       /\ AllFinal(localRes[s]) /\ ~IsFinal(stepRes[s])
       /\ \A c \in Artifacts : artPc[s][c] = "afterAll" => c = a
  /\ IsFinal(stepRes[s]) => AllFinal(localRes[s]) /\ stepRes[s] = StepResultOf(localRes[s])

StepInv(s) == IF IsWhole(s) THEN WholeInv(s) ELSE ByArtifactInv(s)

\* What woke up has final parents, and has waited for those of its artifact.
OrderInv(s) ==
  globalVerdict[s] = "shouldRun" =>
    /\ s \notin ArtifactSteps /\ stepPc[s] # "waiting" => MayStart(s)
    /\ s \in ArtifactSteps => \A a \in Artifacts :
         artPc[s][a] # "waiting" => MayStartOnArtifact(s, a)

\* The store and the callbacks of the steps never part: it implies the
\* properties of the store and of the order above, and is inductive.
FlowInv ==
  /\ SetUpInv
  /\ \A s \in Steps : StepInv(s) /\ OrderInv(s)
  /\ flowFinished => \A s \in Steps : IsFinal(stepRes[s])

-----------------------------------------------------------------------------
(* What is left of a flow when one looks at its state only.                 *)

\* What must be final before s begins on artifact a.
FinalFirst(s, a) ==
  (StepAncestors[s] \X {a})
    \cup (IF s \in WaitSteps THEN StepParents[s] \X ArtifactParents[a] ELSE {})

\* What is told of where runAllSteps is.
FlowState ==
  CASE flow = "finished" -> "finished"
    [] flow \in Fatal    -> "failed"
    [] OTHER             -> "running"

Promise == INSTANCE FlowPromise WITH
  ByArtifact <- ArtifactSteps,
  Ancestors  <- StepAncestors,
  Needs      <- [s \in Steps |-> [a \in Artifacts |-> FinalFirst(s, a)]],
  state      <- FlowState

\* Whoever looks at the state of the flow sees a step begin only after its parents are
\* final, end with what its artifacts came to together, and never change afterwards,
\* though the turns of the engine act on news that went through a buffer and redis.
KeepsFlowPromise == Promise!Spec
=============================================================================
