--------------------------- MODULE StepsExecution ---------------------------
(***************************************************************************)
(* runAllSteps: the engine of one CI flow.                                 *)
(*                                                                         *)
(* A flow runs a graph of steps over a graph of artifacts.  Every change   *)
(* of status is an action: it is reduced into the store at once, waits in  *)
(* a buffer for the next 100ms tick, is written to redis with the other    *)
(* actions of the buffer, and is delivered to the steps when redis         *)
(* replies.  A delivered action makes the steps look at the store, and     *)
(* start the work whose parents are final; before work starts, constrains  *)
(* read the results of other steps from redis.                             *)
(*                                                                         *)
(* One TLA+ step is one synchronous turn of the event loop (between two    *)
(* awaits), together with the promise jobs it enqueues that do no I/O.     *)
(***************************************************************************)
EXTENDS Statuses, Sequences

CONSTANTS
  Steps, Artifacts,
  StepParents,      \* the direct parents of a step
  ArtifactParents,  \* the artifacts of the repository an artifact depends on
  ArtifactSteps,    \* the steps whose run() returns onArtifact (on-artifact.ts)
  WaitSteps,        \* those with waitUntilArtifactParentsFinishedParentSteps
  FailChecks,       \* the steps whose failures in the cache make a step skip-as-failed
  PassChecks,       \* the steps whose passes in the cache make a step skip-as-passed
  GlobalVerdicts,   \* what the global constrains of a step may say
  OwnVerdicts,      \* what the constrains that do not read the cache may say
  UserResults,      \* what stepLogic or onArtifact of a step may come to
  EarlierResults,   \* results that earlier flows may have left in the cache
  EarlierSteps,     \* the steps they may have left them of
  Failures,         \* the parts of the surroundings that may fail: "setup", "redis"
  MaxInflight       \* bound: the batches sent to redis before it answers the first

\* The recursion over parentsIndexes (areRecursiveParentStepsFinished,
\* isStepRecursiveParent): the least set that holds the parents of s and
\* the parents of its members.
StepAncestors ==
  [s \in Steps |->
     {p \in Steps : \A C \in SUBSET Steps :
        /\ StepParents[s] \subseteq C
        /\ \A q \in C : StepParents[q] \subseteq C
        => p \in C}]

ASSUME GraphAssumption ==
  /\ StepParents \in [Steps -> SUBSET Steps]
  /\ \A s \in Steps : s \notin StepAncestors[s]
  /\ ArtifactParents \in [Artifacts -> SUBSET Artifacts]

ASSUME StepsAssumption ==
  /\ ArtifactSteps \subseteq Steps
  /\ WaitSteps \subseteq ArtifactSteps
  /\ FailChecks \in [Steps -> SUBSET Steps]
  /\ PassChecks \in [Steps -> SUBSET Steps]
  /\ GlobalVerdicts \in [Steps -> SUBSET Verdict]
  /\ OwnVerdicts \in [Steps -> SUBSET Verdict]
  /\ UserResults \in [Steps -> SUBSET FinalResult]
  /\ EarlierResults \subseteq Result
  /\ EarlierSteps \subseteq Steps
  /\ Failures \subseteq {"setup", "redis"}
  /\ MaxInflight \in Nat \ {0}

VARIABLES
  flow,              \* where runAllSteps is, or the error that made the flow fail
  globalVerdict,     \* the verdict of each step's global constrains
  stepRes, artRes,   \* the store: the result of each step, of each artifact in it
  flowFinished,      \* the store: every step is final
  buffer,            \* actions reduced and not yet sent to redis (bufferTime)
  inflight,          \* the batches whose redis transaction has not been answered
  stepCache,         \* redis: results under the key of a step
  artCache,          \* redis: results under the key of an artifact in a step
  stepPc,            \* where the callback of a step is
  artPc,             \* where the work of a step on an artifact is
  localRes,          \* artifactResultsOnCurrentStep: what a step knows of its artifacts
  didSendStepRunning,
  beforeAll          \* onBeforeArtifacts of a step

vars == <<flow, globalVerdict, stepRes, artRes, flowFinished, buffer, inflight,
          stepCache, artCache, stepPc, artPc, localRes, didSendStepRunning,
          beforeAll>>

store == <<stepRes, artRes, flowFinished>>
redis == <<stepCache, artCache>>
onArtifactState == <<artPc, localRes, didSendStepRunning, beforeAll>>

Fatal == {"setupFailed", "redisFailed", "cantBeHere8", "cantBeHere9", "cantBeHere10"}

\* A callback that waits for its parents is "waiting"; while its constrains
\* run it is at the verdict of those that read the cache.
Pc == {"waiting", "running", "afterAll", "finished"} \cup Verdict

StepAction(s, r)        == [type |-> "step", step |-> s, result |-> r]
ArtifactAction(s, a, r) == [type |-> "artifactStep", step |-> s, artifact |-> a, result |-> r]

Actions == [type : {"step"}, step : Steps, result : Result]
             \cup [type : {"artifactStep"}, step : Steps, artifact : Artifacts, result : Result]

TypeOK ==
  /\ flow \in {"setup", "running", "finished"} \cup Fatal
  /\ globalVerdict \in [Steps -> Verdict]
  /\ stepRes \in [Steps -> Result]
  /\ artRes \in [Steps -> [Artifacts -> Result]]
  /\ flowFinished \in BOOLEAN
  /\ buffer \subseteq Actions
  /\ inflight \in Seq(SUBSET Actions)
  /\ stepCache \in [Steps -> SUBSET Result]
  /\ artCache \in [Steps -> [Artifacts -> SUBSET Result]]
  /\ stepPc \in [Steps -> Pc]
  /\ artPc \in [Steps -> [Artifacts -> Pc]]
  /\ localRes \in [Steps -> [Artifacts -> Result]]
  /\ didSendStepRunning \in [Steps -> BOOLEAN]
  /\ beforeAll \in [Steps -> {"notCalled", "running", "finished"}]

\* A step has left a result in the cache only where all of its artifacts have.
Init ==
  /\ flow = IF Steps = {} THEN "finished" ELSE "setup"
  /\ globalVerdict = [s \in Steps |-> "shouldRun"]
  /\ stepRes = [s \in Steps |-> Scheduled]
  /\ artRes = [s \in Steps |-> [a \in Artifacts |-> Scheduled]]
  /\ flowFinished = (Steps = {})
  /\ buffer = {}
  /\ inflight = <<>>
  /\ stepCache \in [Steps -> SUBSET EarlierResults]
  /\ artCache \in [Steps -> [Artifacts -> SUBSET EarlierResults]]
  /\ \A s \in Steps \ EarlierSteps :
       stepCache[s] = {} /\ \A a \in Artifacts : artCache[s][a] = {}
  /\ \A s \in Steps : stepCache[s] # {} => \A a \in Artifacts : artCache[s][a] # {}
  /\ stepPc = [s \in Steps |-> "waiting"]
  /\ artPc = [s \in Steps |-> [a \in Artifacts |-> "waiting"]]
  /\ localRes = [s \in Steps |-> [a \in Artifacts |-> Scheduled]]
  /\ didSendStepRunning = [s \in Steps |-> FALSE]
  /\ beforeAll = [s \in Steps |-> "notCalled"]

-----------------------------------------------------------------------------
(* The store.  One turn dispatches at most one action about a step and one  *)
(* about an artifact in a step: stepNews and artNews map those the turn is  *)
(* about to their new results.                                              *)

Only(x, r) == [y \in {x} |-> r]
None == [x \in {} |-> Scheduled]
OnAllArtifacts(s, r) == [x \in {s} \X Artifacts |-> r]

ActionsAbout(stepNews, artNews) ==
  {StepAction(s, stepNews[s]) : s \in DOMAIN stepNews}
    \cup {ArtifactAction(x[1], x[2], artNews[x]) : x \in DOMAIN artNews}

\* Mutant: a step that runs counts as one that ended.
AllStepsBegan(results) == \A s \in Steps : results[s] # Scheduled

\* areAllStepsFinished
AllStepsFinished(results) == \A s \in Steps : IsFinal(results[s])

\* store.dispatch: reduce, recompute flowFinished, publish; a publication
\* after the flow finished is lost, actions$ being complete.
Dispatch(stepNews, artNews) ==
  /\ stepRes' = [s \in Steps |-> IF s \in DOMAIN stepNews
                                 THEN Reduced(stepRes[s], stepNews[s])
                                 ELSE stepRes[s]]
  /\ artRes' = [s \in Steps |-> [a \in Artifacts |->
                  IF <<s, a>> \in DOMAIN artNews
                  THEN Reduced(artRes[s][a], artNews[<<s, a>>])
                  ELSE artRes[s][a]]]
  /\ flowFinished' = (flowFinished \/ AllStepsFinished(stepRes'))
  /\ buffer' = IF flowFinished THEN buffer
               ELSE buffer \cup ActionsAbout(stepNews, artNews)

-----------------------------------------------------------------------------
(* Setting up, and the way of an action through redis.                      *)

\* Every step is set up, which evaluates its global constrains; then a
\* scheduled action is dispatched for every step and every artifact in it.
SetUp ==
  /\ flow = "setup"
  /\ flow' = "running"
  /\ globalVerdict' \in {v \in [Steps -> Verdict] : \A s \in Steps : v[s] \in GlobalVerdicts[s]}
  /\ Dispatch([s \in Steps |-> Scheduled], [x \in Steps \X Artifacts |-> Scheduled])
  /\ UNCHANGED <<inflight, redis, stepPc, onArtifactState>>

SetUpFails ==
  /\ "setup" \in Failures
  /\ flow = "setup"
  /\ flow' = "setupFailed"
  /\ UNCHANGED <<globalVerdict, store, buffer, inflight, redis, stepPc, onArtifactState>>

\* The 100ms tick: the transaction of the buffered actions is sent.  There
\* is one connection, so redis executes it before any read sent later.
Flush ==
  /\ flow = "running"
  /\ buffer # {} /\ Len(inflight) < MaxInflight
  /\ inflight' = Append(inflight, buffer)
  /\ buffer' = {}
  /\ stepCache' = [s \in Steps |-> stepCache[s] \cup
       {act.result : act \in {b \in buffer : b.type = "step" /\ b.step = s}}]
  /\ artCache' = [s \in Steps |-> [a \in Artifacts |-> artCache[s][a] \cup
       {act.result : act \in {b \in buffer : /\ b.type = "artifactStep"
                                             /\ b.step = s
                                             /\ b.artifact = a}}]]
  /\ UNCHANGED <<flow, globalVerdict, store, stepPc, onArtifactState>>

\* The tick when nothing is buffered sends an empty transaction.  The timer
\* keeps the process alive: an engine that waits for nothing hangs.
EmptyTick ==
  /\ flow = "running"
  /\ buffer = {}
  /\ UNCHANGED vars

RedisFails ==
  /\ "redis" \in Failures
  /\ flow = "running"
  /\ inflight # <<>>
  /\ flow' = "redisFailed"
  /\ UNCHANGED <<globalVerdict, store, buffer, inflight, redis, stepPc, onArtifactState>>

-----------------------------------------------------------------------------
(* Who wakes up on a delivered batch.                                       *)

\* What the constrains that read the cache say when they are evaluated now.
CacheVerdict(failChecks, passChecks) ==
  CombinedVerdict({"skippedAsFailed" : results \in {x \in failChecks : FailedInCache(x)}}
             \cup {"skippedAsPassed" : results \in {x \in passChecks : PassedInCache(x)}})

StepCacheVerdict(s) ==
  CacheVerdict({stepCache[c] : c \in FailChecks[s]}, {stepCache[c] : c \in PassChecks[s]})

\* Mutant: the passes are looked up under the key of the step.
StepPassesVerdict(s, a) ==
  CacheVerdict({artCache[c][a] : c \in FailChecks[s]}, {stepCache[c] : c \in PassChecks[s]})

ArtifactCacheVerdict(s, a) ==
  CacheVerdict({artCache[c][a] : c \in FailChecks[s]}, {artCache[c][a] : c \in PassChecks[s]})

\* Mutant: only a step that was not skipped wakes its children.
PassesWhenDone(s, act) ==
  \/ act.step \in StepAncestors[s] /\ act.result.executionStatus = "done"
  \/ act.step = s /\ act.result.executionStatus = "scheduled"

\* The filter in front of onAction: actions of the recursive parents, and
\* the scheduled actions of the step itself.
Passes(s, act) ==
  \/ act.step \in StepAncestors[s]
  \/ act.step = s /\ act.result.executionStatus = "scheduled"

\* Mutant: a parent that has begun is taken for one that has ended.
ParentStepsBegan(s) == \A p \in StepAncestors[s] : stepRes'[p] # Scheduled

\* Mutant: the same mistake about one artifact.
ParentStepsBeganOnArtifact(s, a) == \A p \in StepAncestors[s] : artRes'[p][a] # Scheduled

\* areRecursiveParentStepsFinished and areRecursiveParentStepsFinishedOnArtifact,
\* in the store as the turn leaves it.
ParentStepsFinished(s) == \A p \in StepAncestors[s] : IsFinal(stepRes'[p])
ParentStepsFinishedOnArtifact(s, a) == \A p \in StepAncestors[s] : IsFinal(artRes'[p][a])

\* Mutant: the same mistake about the parents of an artifact.
ArtifactParentsBegan(s, a) ==
  \A p \in StepParents[s], b \in ArtifactParents[a] : artRes'[p][b] # Scheduled

\* areArtifactParentsFinishedParentSteps: the direct parents only.
ArtifactParentsFinishedParentSteps(s, a) ==
  \A p \in StepParents[s], b \in ArtifactParents[a] : IsFinal(artRes'[p][b])

\* Mutant: the children of the action's artifact are not tried.
AttemptsOwnArtifact(s, a, act) ==
  /\ act.type = "artifactStep"
  /\ Passes(s, act)
  /\ act.artifact = a
  /\ s \in WaitSteps => ArtifactParentsFinishedParentSteps(s, a)

\* The first stage of the artifact callback: the action act is, or turns
\* into, an attempt to run artifact a.
Attempts(s, a, act) ==
  /\ act.type = "artifactStep"
  /\ Passes(s, act)
  /\ \/ /\ s \notin WaitSteps
        /\ act.artifact = a
     \/ /\ s \in WaitSteps
        /\ ArtifactParentsFinishedParentSteps(s, a)
        /\ \/ act.artifact = a
           \/ /\ act.artifact \in ArtifactParents[a]
              /\ artRes'[s][a].executionStatus = "scheduled"

\* Steps that dispatch an abort of everything on the first action they see:
\* those a global constrain skipped (any action), and those that work on
\* artifacts when there is none (any action that passes the filter).
\* Mutant: the abort is dispatched on every action (no flag "sent").
GloballySkippedAgain == {s \in Steps : globalVerdict[s] # "shouldRun"}

GloballySkipped == {s \in Steps : globalVerdict[s] # "shouldRun" /\ stepPc[s] = "waiting"}
WithoutArtifacts(batch) ==
  {s \in ArtifactSteps : /\ Artifacts = {}
                         /\ globalVerdict[s] = "shouldRun"
                         /\ stepPc[s] = "waiting"
                         /\ \E act \in batch : Passes(s, act)}

\* redis answered: the actions of the batch reach every step.  The steps
\* that wake up set their flag (didRun, didArtifactRunConstain) and send
\* their reads of the cache in this turn.
Deliver ==
  /\ flow = "running"
  /\ inflight # <<>>
  /\ LET batch == Head(inflight)
         aborted == GloballySkipped \cup WithoutArtifacts(batch)
         verdict(s) == IF s \in GloballySkipped THEN globalVerdict[s] ELSE "skippedAsPassed"
         stepWakes(s) == /\ s \notin ArtifactSteps
                         /\ globalVerdict[s] = "shouldRun"
                         /\ stepPc[s] = "waiting"
                         /\ \E act \in batch : Passes(s, act)
                         /\ ParentStepsFinished(s)
         artifactWakes(s, a) == /\ s \in ArtifactSteps
                                /\ globalVerdict[s] = "shouldRun"
                                /\ artPc[s][a] = "waiting" /\ localRes[s][a] = Scheduled
                                /\ \E act \in batch : Attempts(s, a, act)
                                /\ ParentStepsFinishedOnArtifact(s, a)
     IN /\ Dispatch([s \in aborted |-> Aborted(verdict(s))],
                    [x \in aborted \X Artifacts |-> Aborted(verdict(x[1]))])
        /\ stepPc' = [s \in Steps |-> IF s \in aborted THEN "finished"
                                      ELSE IF stepWakes(s) THEN StepCacheVerdict(s)
                                      ELSE stepPc[s]]
        /\ artPc' = [s \in Steps |-> [a \in Artifacts |->
                       IF artifactWakes(s, a) THEN ArtifactCacheVerdict(s, a)
                       ELSE artPc[s][a]]]
  /\ inflight' = Tail(inflight)
  /\ UNCHANGED <<flow, globalVerdict, redis, localRes, didSendStepRunning, beforeAll>>

-----------------------------------------------------------------------------
(* A step that works on the whole repository at once (on-step.ts).          *)

\* The step's constrains are all evaluated: v is what they say together.
StepConstrained(s, v) ==
  /\ flow = "running"
  /\ stepPc[s] \in Verdict
  /\ \E own \in OwnVerdicts[s] : v = CombinedVerdict({stepPc[s], own})

StepSkips(s) ==
  /\ \E v \in Verdict \ {"shouldRun"} :
       /\ StepConstrained(s, v)
       /\ Dispatch(Only(s, Aborted(v)), OnAllArtifacts(s, Aborted(v)))
  /\ stepPc' = [stepPc EXCEPT ![s] = "finished"]
  /\ UNCHANGED <<flow, globalVerdict, inflight, redis, onArtifactState>>

StepStarts(s) ==
  /\ StepConstrained(s, "shouldRun")
  /\ Dispatch(Only(s, Running), OnAllArtifacts(s, Running))
  /\ stepPc' = [stepPc EXCEPT ![s] = "running"]
  /\ UNCHANGED <<flow, globalVerdict, inflight, redis, onArtifactState>>

\* stepLogic settled; its result is the result of every artifact.
StepEnds(s) ==
  /\ flow = "running"
  /\ stepPc[s] = "running"
  /\ \E r \in UserResults[s] : Dispatch(Only(s, r), OnAllArtifacts(s, r))
  /\ stepPc' = [stepPc EXCEPT ![s] = "finished"]
  /\ UNCHANGED <<flow, globalVerdict, inflight, redis, onArtifactState>>

-----------------------------------------------------------------------------
(* A step that works on one artifact at a time (on-artifact.ts).            *)

AllFinal(results)   == \A a \in Artifacts : IsFinal(results[a])
AllAborted(results) == \A a \in Artifacts : IsAborted(results[a])

\* calculateCombinedStatusOfCurrentStep
CombinedStatusOf(results) ==
  CombinedStatus({results[a].status : a \in {b \in Artifacts : IsFinal(results[b])}})

\* Mutant: a step whose artifacts were all aborted is done.
DoneWithStatusOf(results) == Done(CombinedStatusOf(results))

\* The result a step comes to when all of its artifacts are final.
StepResultOf(results) ==
  IF AllAborted(results) THEN Aborted(CombinedStatusOf(results))
                         ELSE Done(CombinedStatusOf(results))

\* The errors "we can't be here8", "9" and "10" of the three places that
\* compute that result.
CantBeHereAfterSkip(results) ==
  IF AllAborted(results) THEN CombinedStatusOf(results) \in {"failed", "passed"}
                         ELSE CombinedStatusOf(results) \in {"skippedAsFailed", "skippedAsPassed"}
CantBeHere9(results)  == AllAborted(results) /\ CombinedStatusOf(results) = "passed"
CantBeHere10(results) == /\ ~AllAborted(results)
                         /\ CombinedStatusOf(results) \in {"skippedAsFailed", "skippedAsPassed"}

ArtifactConstrained(s, a, v) ==
  /\ flow = "running"
  /\ artPc[s][a] \in Verdict
  /\ \E own \in OwnVerdicts[s] : v = CombinedVerdict({artPc[s][a], own})

\* The constrains skip the artifact; the last artifact closes the step, or
\* raises "we can't be here8" after the artifact's own action was dispatched.
ArtifactSkips(s, a) ==
  /\ \E v \in Verdict \ {"shouldRun"} :
       /\ ArtifactConstrained(s, a, v)
       /\ localRes' = [localRes EXCEPT ![s][a] = Aborted(v)]
       /\ LET results == localRes'[s]
              closes == AllFinal(results) /\ ~CantBeHereAfterSkip(results)
          IN /\ Dispatch(IF closes THEN Only(s, StepResultOf(results)) ELSE None,
                         Only(<<s, a>>, Aborted(v)))
             /\ flow' = IF AllFinal(results) /\ CantBeHereAfterSkip(results)
                        THEN "cantBeHere8" ELSE flow
  /\ artPc' = [artPc EXCEPT ![s][a] = "finished"]
  /\ UNCHANGED <<globalVerdict, inflight, redis, stepPc, didSendStepRunning, beforeAll>>

\* The first artifact that runs announces the step and calls onBeforeArtifacts.
ArtifactStarts(s, a) ==
  /\ ArtifactConstrained(s, a, "shouldRun")
  /\ Dispatch(IF didSendStepRunning[s] THEN None ELSE Only(s, Running),
              Only(<<s, a>>, Running))
  /\ localRes' = [localRes EXCEPT ![s][a] = Running]
  /\ didSendStepRunning' = [didSendStepRunning EXCEPT ![s] = TRUE]
  /\ beforeAll' = [beforeAll EXCEPT ![s] = IF @ = "notCalled" THEN "running" ELSE @]
  /\ artPc' = [artPc EXCEPT ![s][a] = "running"]
  /\ UNCHANGED <<flow, globalVerdict, inflight, redis, stepPc>>

\* onBeforeArtifacts settled; the queue that calls it swallows a rejection.
BeforeAllEnds(s) ==
  /\ flow = "running"
  /\ beforeAll[s] = "running"
  /\ beforeAll' = [beforeAll EXCEPT ![s] = "finished"]
  /\ UNCHANGED <<flow, globalVerdict, store, buffer, inflight, redis, stepPc, artPc,
                 localRes, didSendStepRunning>>

\* onArtifact, called when onBeforeArtifacts had settled, settled itself.
ArtifactEnds(s, a) ==
  /\ flow = "running"
  /\ artPc[s][a] = "running"
  /\ beforeAll[s] = "finished"
  /\ \E r \in UserResults[s] :
       /\ Dispatch(None, Only(<<s, a>>, r))
       /\ localRes' = [localRes EXCEPT ![s][a] = r]
  /\ artPc' = [artPc EXCEPT ![s][a] = IF AllFinal(localRes'[s]) THEN "afterAll" ELSE "finished"]
  /\ UNCHANGED <<flow, globalVerdict, inflight, redis, stepPc, didSendStepRunning,
                 beforeAll>>

\* onAfterArtifacts settled, called by the artifact that ended last; it closes the step.
AfterAllEnds(s, a) ==
  /\ flow = "running"
  /\ artPc[s][a] = "afterAll"
  /\ LET error == CASE CantBeHere9(localRes[s])  -> "cantBeHere9"
                    [] CantBeHere10(localRes[s]) -> "cantBeHere10"
                    [] OTHER                     -> "running"
     IN /\ flow' = error
        /\ Dispatch(IF error = "running" THEN Only(s, StepResultOf(localRes[s])) ELSE None, None)
  /\ artPc' = [artPc EXCEPT ![s][a] = "finished"]
  /\ UNCHANGED <<globalVerdict, inflight, redis, stepPc, localRes, didSendStepRunning, beforeAll>>

-----------------------------------------------------------------------------
\* Mutant: it returns when the last action is reduced.
ReturnBeforeReplies ==
  /\ flow = "running"
  /\ flowFinished
  /\ \A s \in Steps : /\ stepPc[s] \in {"waiting", "finished"}
                      /\ \A a \in Artifacts : artPc[s][a] \in {"waiting", "finished"}
  /\ flow' = "finished"
  /\ UNCHANGED <<globalVerdict, store, buffer, inflight, redis, stepPc, onArtifactState>>

\* runAllSteps returns: the stream of actions is complete, every batch was
\* delivered and every callback's stream has completed.
Return ==
  /\ flow = "running"
  /\ flowFinished
  /\ buffer = {} /\ inflight = <<>>
  /\ \A s \in Steps : /\ stepPc[s] \in {"waiting", "finished"}
                      /\ \A a \in Artifacts : artPc[s][a] \in {"waiting", "finished"}
  /\ flow' = "finished"
  /\ UNCHANGED <<globalVerdict, store, buffer, inflight, redis, stepPc, onArtifactState>>

\* Nothing of the flow runs after runAllSteps has settled.
Terminated == flow \in {"finished"} \cup Fatal /\ UNCHANGED vars

OnStep(s) == StepSkips(s) \/ StepStarts(s) \/ StepEnds(s)

OnArtifact(s, a) ==
  ArtifactSkips(s, a) \/ ArtifactStarts(s, a) \/ ArtifactEnds(s, a) \/ AfterAllEnds(s, a)

Next ==
  \/ SetUp
  \/ SetUpFails
  \/ Flush
  \/ EmptyTick
  \/ RedisFails
  \/ Deliver
  \/ \E s \in Steps : OnStep(s)
  \/ \E s \in Steps : BeforeAllEnds(s)
  \/ \E s \in Steps, a \in Artifacts : OnArtifact(s, a)
  \/ Return
  \/ Terminated

Spec == Init /\ [][Next]_vars

\* The timer of the buffer, the replies of redis and the functions of the
\* user all come to an end; which of them does first is open.
Fairness ==
  WF_vars(\/ SetUp \/ Flush \/ Deliver \/ Return
          \/ \E s \in Steps :
               OnStep(s) \/ BeforeAllEnds(s) \/ (\E a \in Artifacts : OnArtifact(s, a)))

FairSpec == Spec /\ Fairness
=============================================================================
