------------------------ MODULE StepsExecutionProofs ------------------------
(***************************************************************************)
(* Proofs about the engine of StepsExecution, for every graph of steps and *)
(* artifacts, every verdict of the constrains and every result of the      *)
(* user's functions: what it promises, that no wake-up is lost, that it is *)
(* never stuck and never goes back.                                        *)
(***************************************************************************)
EXTENDS FlowProperties, FiniteSets, FiniteSetTheorems, WellFoundedInduction, TLAPS

-----------------------------------------------------------------------------
(* The status algebra.                                                      *)

\* A result is scheduled, running or final, and only one of them.
LEMMA ResultFacts ==
  /\ Scheduled \in Result /\ Running \in Result /\ Scheduled # Running
  /\ ~IsFinal(Scheduled) /\ ~IsFinal(Running)
  /\ \A r \in FinalResult : r \in Result /\ IsFinal(r)
  /\ \A r \in Result : r = Scheduled \/ r = Running \/ r \in FinalResult
BY DEF Result, FinalResult, Scheduled, Running, IsFinal, NoStatus

\* The two kinds of final results and their statuses.
LEMMA FinalFacts ==
  /\ \A st \in Status : /\ Done(st) \in FinalResult /\ ~IsAborted(Done(st)) /\ Done(st).status = st
                        /\ Aborted(st) \in FinalResult /\ IsAborted(Aborted(st))
                        /\ Aborted(st).status = st
  /\ \A r \in FinalResult : /\ r.status \in Status
                            /\ IsAborted(r) => r = Aborted(r.status)
                            /\ ~IsAborted(r) => r = Done(r.status)
BY DEF FinalResult, Done, Aborted, IsAborted

\* The reducer moves a result forward and never away from a final one.
LEMMA ReducedFacts ==
  /\ \A old, new \in Result : Reduced(old, new) \in Result
  /\ \A old \in FinalResult, new \in Result : Reduced(old, new) = old
  /\ \A new \in FinalResult : Reduced(Scheduled, new) = new /\ Reduced(Running, new) = new
  /\ Reduced(Scheduled, Scheduled) = Scheduled
  /\ Reduced(Scheduled, Running) = Running
  /\ Reduced(Running, Running) = Running
BY DEF Reduced, Rank, Result, FinalResult, Scheduled, Running

\* The combined status of statuses is a status; of one status it is that one.
LEMMA CombinedStatusFacts ==
  /\ \A S \in SUBSET Status : CombinedStatus(S) \in Status
  /\ \A st \in Status : CombinedStatus({st}) = st
BY DEF CombinedStatus, Status

\* The constrains together say one of the three verdicts.
LEMMA CombinedVerdictType ==
  ASSUME NEW results
  PROVE  CombinedVerdict(results) \in Verdict
BY DEF CombinedVerdict, Verdict

\* The four statuses, two of which a step may skip with.
LEMMA StatusFacts == Status = {"passed", "skippedAsPassed", "skippedAsFailed", "failed"}
BY DEF Status

\* A verdict that skips is the status of the abort.
LEMMA VerdictStatus == Verdict \ {"shouldRun"} \subseteq Status
BY DEF Verdict, Status

\* A combined status is a pass exactly when no part of it is a failure.
LEMMA CombinedPass ==
  ASSUME NEW S \in SUBSET Status
  PROVE  DidPassOrSkippedAsPassed(CombinedStatus(S)) <=> S \cap {"failed", "skippedAsFailed"} = {}
BY DEF CombinedStatus, DidPassOrSkippedAsPassed, Status

-----------------------------------------------------------------------------
(* The engine.                                                              *)

\* The news a turn dispatches are about steps and artifacts that exist.
IsNews(stepNews, artNews) ==
  /\ DOMAIN stepNews \subseteq Steps
  /\ \A s \in DOMAIN stepNews : stepNews[s] \in Result
  /\ DOMAIN artNews \subseteq Steps \X Artifacts
  /\ \A x \in DOMAIN artNews : artNews[x] \in Result

\* The news each turn dispatches are news: about what exists, and results.
LEMMA NewsType ==
  /\ IsNews(None, None)
  /\ \A s \in Steps, r \in Result :
       /\ IsNews(Only(s, r), OnAllArtifacts(s, r))
       /\ IsNews(Only(s, r), None)
  /\ \A s \in Steps, x \in Artifacts, r \in Result, q \in Result :
       /\ IsNews(None, Only(<<s, x>>, r))
       /\ IsNews(Only(s, q), Only(<<s, x>>, r))
BY DEF IsNews, None, Only, OnAllArtifacts

\* A dispatch keeps the types of the store and of the buffer.
LEMMA DispatchType ==
  ASSUME TypeOK, NEW stepNews, NEW artNews, IsNews(stepNews, artNews),
         Dispatch(stepNews, artNews)
  PROVE  /\ stepRes' \in [Steps -> Result]
         /\ artRes' \in [Steps -> [Artifacts -> Result]]
         /\ flowFinished' \in BOOLEAN
         /\ buffer' \subseteq Actions
<1>1. stepRes' \in [Steps -> Result]
  BY ReducedFacts DEF TypeOK, IsNews, Dispatch
<1>2. artRes' \in [Steps -> [Artifacts -> Result]]
  BY ReducedFacts DEF TypeOK, IsNews, Dispatch
<1>3. flowFinished' \in BOOLEAN
  BY DEF TypeOK, Dispatch, AllStepsFinished
<1>4. buffer' \subseteq Actions
  <2>1. ActionsAbout(stepNews, artNews) \subseteq Actions
    BY DEF ActionsAbout, StepAction, ArtifactAction, Actions, IsNews
  <2>2. QED BY <2>1 DEF TypeOK, Dispatch
<1>5. QED BY <1>1, <1>2, <1>3, <1>4

-----------------------------------------------------------------------------
(* Type correctness.                                                        *)

\* The constrains that read the cache say one of the three verdicts.
LEMMA CacheVerdictType ==
  ASSUME NEW s
  PROVE  /\ StepCacheVerdict(s) \in Verdict
         /\ \A x \in Artifacts : ArtifactCacheVerdict(s, x) \in Verdict
BY CombinedVerdictType DEF StepCacheVerdict, ArtifactCacheVerdict, CacheVerdict

\* The result a step comes to by its artifacts is a final one.
LEMMA StepResultType ==
  ASSUME NEW results \in [Artifacts -> Result]
  PROVE  StepResultOf(results) \in FinalResult
<1>1. {results[x].status : x \in {y \in Artifacts : IsFinal(results[y])}} \subseteq Status
  BY ResultFacts, FinalFacts
<1>2. CombinedStatusOf(results) \in Status
  BY <1>1, CombinedStatusFacts DEF CombinedStatusOf
<1>3. QED BY <1>2, FinalFacts DEF StepResultOf

\* The types hold when the flow begins.
LEMMA TypeInit == Init => TypeOK
BY StepsAssumption, ResultFacts DEF Init, TypeOK, Pc, Verdict

\* Setting up keeps the types.
LEMMA SetUpType == TypeOK /\ SetUp => TypeOK'
<1> SUFFICES ASSUME TypeOK, SetUp PROVE TypeOK'
  OBVIOUS
<1> DEFINE sn == [s \in Steps |-> Scheduled]
           an == [x \in Steps \X Artifacts |-> Scheduled]
<1>1. IsNews(sn, an) /\ Dispatch(sn, an)
  BY ResultFacts DEF IsNews, SetUp
<1>2. /\ stepRes' \in [Steps -> Result]
      /\ artRes' \in [Steps -> [Artifacts -> Result]]
      /\ flowFinished' \in BOOLEAN
      /\ buffer' \subseteq Actions
  BY <1>1, DispatchType
<1>3. globalVerdict' \in [Steps -> Verdict] /\ flow' = "running"
  BY DEF SetUp
<1>4. QED BY <1>2, <1>3 DEF SetUp, TypeOK, redis, onArtifactState

\* The tick of the buffer keeps the types.
LEMMA FlushType == TypeOK /\ Flush => TypeOK'
<1> SUFFICES ASSUME TypeOK, Flush PROVE TypeOK'
  OBVIOUS
<1>1. \A act \in buffer : act.result \in Result
  BY DEF TypeOK, Actions
<1>2. stepCache' \in [Steps -> SUBSET Result]
  BY <1>1 DEF TypeOK, Flush
<1>3. artCache' \in [Steps -> [Artifacts -> SUBSET Result]]
  BY <1>1 DEF TypeOK, Flush
<1>4. inflight' \in Seq(SUBSET Actions) /\ buffer' \subseteq Actions
  BY DEF TypeOK, Flush
<1>5. QED BY <1>2, <1>3, <1>4 DEF TypeOK, Flush, store, onArtifactState

\* A delivery keeps the types.
LEMMA DeliverType == TypeOK /\ Deliver => TypeOK'
<1> SUFFICES ASSUME TypeOK, Deliver PROVE TypeOK'
  OBVIOUS
<1> DEFINE aborted == GloballySkipped \cup WithoutArtifacts(Head(inflight))
           verdict(s) == IF s \in GloballySkipped THEN globalVerdict[s] ELSE "skippedAsPassed"
           sn == [s \in aborted |-> Aborted(verdict(s))]
           an == [x \in aborted \X Artifacts |-> Aborted(verdict(x[1]))]
<1>1. aborted \subseteq Steps /\ \A s \in aborted : verdict(s) \in Status
  BY StepsAssumption, VerdictStatus, StatusFacts DEF GloballySkipped, WithoutArtifacts, TypeOK
<1>2. IsNews(sn, an)
  BY <1>1, ResultFacts, FinalFacts DEF IsNews
<1>3. Dispatch(sn, an)
  BY DEF Deliver
<1>4. /\ stepRes' \in [Steps -> Result]
      /\ artRes' \in [Steps -> [Artifacts -> Result]]
      /\ flowFinished' \in BOOLEAN
      /\ buffer' \subseteq Actions
  BY <1>2, <1>3, DispatchType
<1>5. stepPc' \in [Steps -> Pc]
  BY CacheVerdictType DEF Deliver, TypeOK, Pc
<1>6. artPc' \in [Steps -> [Artifacts -> Pc]]
  BY CacheVerdictType DEF Deliver, TypeOK, Pc
<1>7. inflight' \in Seq(SUBSET Actions)
  BY DEF Deliver, TypeOK
<1>8. QED BY <1>4, <1>5, <1>6, <1>7 DEF Deliver, TypeOK, redis

\* The turns of a step on the whole repository keep the types.
LEMMA OnStepType ==
  ASSUME TypeOK, NEW s \in Steps, OnStep(s)
  PROVE  TypeOK'
<1>1. \E r \in Result : Dispatch(Only(s, r), OnAllArtifacts(s, r))
  BY ResultFacts, FinalFacts, VerdictStatus, StepsAssumption DEF OnStep, StepSkips, StepStarts, StepEnds
<1>2. /\ stepRes' \in [Steps -> Result]
      /\ artRes' \in [Steps -> [Artifacts -> Result]]
      /\ flowFinished' \in BOOLEAN
      /\ buffer' \subseteq Actions
  BY <1>1, NewsType, DispatchType
<1>3. stepPc' \in [Steps -> Pc]
  BY DEF OnStep, StepSkips, StepStarts, StepEnds, TypeOK, Pc
<1>4. UNCHANGED <<flow, globalVerdict, inflight, redis, onArtifactState>>
  BY DEF OnStep, StepSkips, StepStarts, StepEnds
<1>5. QED BY <1>2, <1>3, <1>4 DEF TypeOK, redis, onArtifactState

\* The turns of a step on one artifact keep the types.
LEMMA OnArtifactType ==
  ASSUME TypeOK, NEW s \in Steps, NEW x \in Artifacts, OnArtifact(s, x)
  PROVE  TypeOK'
<1>1. CASE ArtifactSkips(s, x)
  <2>1. PICK v \in Verdict \ {"shouldRun"} :
          /\ localRes' = [localRes EXCEPT ![s][x] = Aborted(v)]
          /\ \E news \in {Only(s, StepResultOf(localRes'[s])), None} :
               Dispatch(news, Only(<<s, x>>, Aborted(v)))
    BY <1>1 DEF ArtifactSkips
  <2>2. Aborted(v) \in Result
    BY VerdictStatus, FinalFacts, ResultFacts
  <2>3. localRes' \in [Steps -> [Artifacts -> Result]]
    BY <2>1, <2>2 DEF TypeOK
  <2>4. StepResultOf(localRes'[s]) \in Result
    BY <2>3, StepResultType, ResultFacts
  <2>5. \E news \in {Only(s, StepResultOf(localRes'[s])), None} :
          /\ Dispatch(news, Only(<<s, x>>, Aborted(v)))
          /\ IsNews(news, Only(<<s, x>>, Aborted(v)))
    BY <2>1, <2>2, <2>4, NewsType
  <2>6. /\ stepRes' \in [Steps -> Result]
        /\ artRes' \in [Steps -> [Artifacts -> Result]]
        /\ flowFinished' \in BOOLEAN
        /\ buffer' \subseteq Actions
    BY <2>5, DispatchType
  <2>7. artPc' \in [Steps -> [Artifacts -> Pc]] /\ flow' \in {flow, "cantBeHere8"}
    BY <1>1 DEF ArtifactSkips, TypeOK, Pc
  <2>8. QED BY <1>1, <2>3, <2>6, <2>7 DEF ArtifactSkips, TypeOK, redis, Fatal
<1>2. CASE ArtifactStarts(s, x)
  <2>1. \E news \in {Only(s, Running), None} : /\ Dispatch(news, Only(<<s, x>>, Running))
                                              /\ IsNews(news, Only(<<s, x>>, Running))
    BY <1>2, NewsType, ResultFacts DEF ArtifactStarts
  <2>2. /\ stepRes' \in [Steps -> Result]
        /\ artRes' \in [Steps -> [Artifacts -> Result]]
        /\ flowFinished' \in BOOLEAN
        /\ buffer' \subseteq Actions
    BY <2>1, DispatchType
  <2>3. /\ localRes' \in [Steps -> [Artifacts -> Result]]
        /\ artPc' \in [Steps -> [Artifacts -> Pc]]
        /\ didSendStepRunning' \in [Steps -> BOOLEAN]
        /\ beforeAll' \in [Steps -> {"notCalled", "running", "finished"}]
    BY <1>2, ResultFacts DEF ArtifactStarts, TypeOK, Pc
  <2>4. QED BY <1>2, <2>2, <2>3 DEF ArtifactStarts, TypeOK, redis
<1>3. CASE ArtifactEnds(s, x)
  <2>1. PICK r \in UserResults[s] : /\ Dispatch(None, Only(<<s, x>>, r))
                                   /\ localRes' = [localRes EXCEPT ![s][x] = r]
    BY <1>3 DEF ArtifactEnds
  <2>2. r \in Result
    BY StepsAssumption, ResultFacts
  <2>3. /\ stepRes' \in [Steps -> Result]
        /\ artRes' \in [Steps -> [Artifacts -> Result]]
        /\ flowFinished' \in BOOLEAN
        /\ buffer' \subseteq Actions
    BY <2>1, <2>2, NewsType, DispatchType
  <2>4. /\ localRes' \in [Steps -> [Artifacts -> Result]]
        /\ artPc' \in [Steps -> [Artifacts -> Pc]]
    BY <1>3, <2>1, <2>2 DEF ArtifactEnds, TypeOK, Pc
  <2>5. QED BY <1>3, <2>3, <2>4 DEF ArtifactEnds, TypeOK, redis
<1>4. CASE AfterAllEnds(s, x)
  <2>1. StepResultOf(localRes[s]) \in Result
    BY StepResultType, ResultFacts DEF TypeOK
  <2>2. \E news \in {Only(s, StepResultOf(localRes[s])), None} : /\ Dispatch(news, None)
                                                               /\ IsNews(news, None)
    BY <1>4, <2>1, NewsType DEF AfterAllEnds
  <2>3. /\ stepRes' \in [Steps -> Result]
        /\ artRes' \in [Steps -> [Artifacts -> Result]]
        /\ flowFinished' \in BOOLEAN
        /\ buffer' \subseteq Actions
    BY <2>2, DispatchType
  <2>4. /\ artPc' \in [Steps -> [Artifacts -> Pc]]
        /\ flow' \in {"cantBeHere9", "cantBeHere10", "running"}
    BY <1>4 DEF AfterAllEnds, TypeOK, Pc
  <2>5. QED BY <1>4, <2>3, <2>4 DEF AfterAllEnds, TypeOK, redis, Fatal
<1>5. QED BY <1>1, <1>2, <1>3, <1>4 DEF OnArtifact

\* Every step keeps the types.
LEMMA TypeStep == TypeOK /\ [Next]_vars => TypeOK'
<1> SUFFICES ASSUME TypeOK, [Next]_vars PROVE TypeOK'
  OBVIOUS
<1>1. CASE SetUp
  BY <1>1, SetUpType
<1>2. CASE SetUpFails \/ RedisFails \/ Return
  BY <1>2 DEF SetUpFails, RedisFails, Return, TypeOK, Fatal, store, redis, onArtifactState
<1>3. CASE Flush
  BY <1>3, FlushType
<1>4. CASE EmptyTick \/ Terminated \/ UNCHANGED vars
  BY <1>4 DEF EmptyTick, Terminated, vars, TypeOK
<1>5. CASE Deliver
  BY <1>5, DeliverType
<1>6. CASE \E s \in Steps : OnStep(s)
  BY <1>6, OnStepType
<1>7. CASE \E s \in Steps : BeforeAllEnds(s)
  BY <1>7 DEF BeforeAllEnds, TypeOK, store, redis
<1>8. CASE \E s \in Steps, x \in Artifacts : OnArtifact(s, x)
  BY <1>8, OnArtifactType
<1>9. QED BY <1>1, <1>2, <1>3, <1>4, <1>5, <1>6, <1>7, <1>8 DEF Next

\* Every variable keeps its type: in particular no result is ever without the
\* status a final one has, and nothing but a verdict follows the constrains.
THEOREM TypeCorrect == Spec => []TypeOK
BY TypeInit, TypeStep, PTL DEF Spec

-----------------------------------------------------------------------------
(* What a turn does to the store.                                           *)

\* A dispatch reduces the news into the results they are about, leaves the other
\* results alone and never changes a final one.
LEMMA DispatchEffect ==
  ASSUME TypeOK, NEW stepNews, NEW artNews, IsNews(stepNews, artNews),
         Dispatch(stepNews, artNews)
  PROVE  \A s \in Steps :
           /\ s \in DOMAIN stepNews => stepRes'[s] = Reduced(stepRes[s], stepNews[s])
           /\ s \notin DOMAIN stepNews => stepRes'[s] = stepRes[s]
           /\ \A x \in Artifacts :
                /\ <<s, x>> \in DOMAIN artNews =>
                     artRes'[s][x] = Reduced(artRes[s][x], artNews[<<s, x>>])
                /\ <<s, x>> \notin DOMAIN artNews => artRes'[s][x] = artRes[s][x]
           /\ IsFinal(stepRes[s]) => stepRes'[s] = stepRes[s]
           /\ \A x \in Artifacts : IsFinal(artRes[s][x]) => artRes'[s][x] = artRes[s][x]
<1> SUFFICES ASSUME NEW s \in Steps
             PROVE  /\ s \in DOMAIN stepNews => stepRes'[s] = Reduced(stepRes[s], stepNews[s])
                    /\ s \notin DOMAIN stepNews => stepRes'[s] = stepRes[s]
                    /\ \A x \in Artifacts :
                         /\ <<s, x>> \in DOMAIN artNews =>
                              artRes'[s][x] = Reduced(artRes[s][x], artNews[<<s, x>>])
                         /\ <<s, x>> \notin DOMAIN artNews => artRes'[s][x] = artRes[s][x]
                    /\ IsFinal(stepRes[s]) => stepRes'[s] = stepRes[s]
                    /\ \A x \in Artifacts :
                         IsFinal(artRes[s][x]) => artRes'[s][x] = artRes[s][x]
  OBVIOUS
<1>1. /\ s \in DOMAIN stepNews => stepRes'[s] = Reduced(stepRes[s], stepNews[s])
      /\ s \notin DOMAIN stepNews => stepRes'[s] = stepRes[s]
  BY DEF Dispatch
<1>2. ASSUME NEW x \in Artifacts
      PROVE  /\ <<s, x>> \in DOMAIN artNews =>
                  artRes'[s][x] = Reduced(artRes[s][x], artNews[<<s, x>>])
             /\ <<s, x>> \notin DOMAIN artNews => artRes'[s][x] = artRes[s][x]
  BY DEF Dispatch
<1>3. IsFinal(stepRes[s]) => stepRes'[s] = stepRes[s]
  BY <1>1, ResultFacts, ReducedFacts DEF TypeOK, IsNews
<1>4. ASSUME NEW x \in Artifacts
      PROVE  IsFinal(artRes[s][x]) => artRes'[s][x] = artRes[s][x]
  <2>1. artRes[s][x] \in Result
    BY DEF TypeOK
  <2>2. <<s, x>> \in DOMAIN artNews => artNews[<<s, x>>] \in Result
    BY DEF IsNews
  <2>3. QED BY <1>2, <2>1, <2>2, ResultFacts, ReducedFacts
<1>5. QED BY <1>1, <1>2, <1>3, <1>4

\* A turn that dispatches nothing about step t leaves its results alone.
LEMMA DispatchFrame ==
  ASSUME TypeOK, NEW stepNews, NEW artNews, IsNews(stepNews, artNews),
         Dispatch(stepNews, artNews), NEW t \in Steps,
         t \notin DOMAIN stepNews, \A x \in Artifacts : <<t, x>> \notin DOMAIN artNews
  PROVE  stepRes'[t] = stepRes[t] /\ artRes'[t] = artRes[t]
<1>1. stepRes'[t] = stepRes[t] /\ \A x \in Artifacts : artRes'[t][x] = artRes[t][x]
  BY DispatchEffect
<1>2. artRes'[t] \in [Artifacts -> Result] /\ artRes[t] \in [Artifacts -> Result]
  BY DispatchType DEF TypeOK
<1>3. QED BY <1>1, <1>2

\* The part of FlowInv about step t survives what does not touch step t.
LEMMA StepInvFrame ==
  ASSUME NEW t \in Steps, StepInv(t),
         globalVerdict'[t] = globalVerdict[t], stepRes'[t] = stepRes[t],
         artRes'[t] = artRes[t], stepPc'[t] = stepPc[t], artPc'[t] = artPc[t],
         localRes'[t] = localRes[t]
  PROVE  StepInv(t)'
BY DEF StepInv, IsWhole, WholeInv, ByArtifactInv, ArtifactInv, StepResultOf, AllFinal,
       AllAborted, CombinedStatusOf

\* The order survives every step that wakes up nobody and undoes no result.
LEMMA OrderInvFrame ==
  ASSUME NEW t \in Steps, OrderInv(t),
         globalVerdict'[t] = globalVerdict[t],
         stepPc'[t] # "waiting" => stepPc[t] # "waiting" \/ t \in ArtifactSteps,
         \A x \in Artifacts : artPc'[t][x] # "waiting" => artPc[t][x] # "waiting",
         \A p \in Steps : IsFinal(stepRes[p]) => stepRes'[p] = stepRes[p],
         \A p \in Steps, x \in Artifacts : IsFinal(artRes[p][x]) => artRes'[p][x] = artRes[p][x]
  PROVE  OrderInv(t)'
<1>1. StepAncestors[t] \subseteq Steps /\ StepParents[t] \subseteq Steps
      /\ \A x \in Artifacts : ArtifactParents[x] \subseteq Artifacts
  BY GraphAssumption DEF StepAncestors
<1>2. MayStart(t) => MayStart(t)'
  BY <1>1 DEF MayStart, IsFinal
<1>3. ASSUME NEW x \in Artifacts, MayStartOnArtifact(t, x) PROVE MayStartOnArtifact(t, x)'
  BY <1>1, <1>3 DEF MayStartOnArtifact, IsFinal
<1>4. QED BY <1>2, <1>3 DEF OrderInv

\* The news about one whole step.
LEMMA WholeNews ==
  ASSUME TypeOK, NEW s \in Steps, NEW r \in Result,
         Dispatch(Only(s, r), OnAllArtifacts(s, r))
  PROVE  /\ stepRes'[s] = Reduced(stepRes[s], r)
         /\ \A x \in Artifacts : artRes'[s][x] = Reduced(artRes[s][x], r)
         /\ \A t \in Steps \ {s} : stepRes'[t] = stepRes[t] /\ artRes'[t] = artRes[t]
<1>1. IsNews(Only(s, r), OnAllArtifacts(s, r))
  BY NewsType
<1>2. /\ DOMAIN Only(s, r) = {s} /\ Only(s, r)[s] = r
      /\ DOMAIN OnAllArtifacts(s, r) = {s} \X Artifacts
      /\ \A x \in Artifacts : OnAllArtifacts(s, r)[<<s, x>>] = r
  BY DEF Only, OnAllArtifacts
<1>3. stepRes'[s] = Reduced(stepRes[s], r)
  BY <1>1, <1>2, DispatchEffect
<1>4. ASSUME NEW x \in Artifacts PROVE artRes'[s][x] = Reduced(artRes[s][x], r)
  <2>1. <<s, x>> \in DOMAIN OnAllArtifacts(s, r) /\ OnAllArtifacts(s, r)[<<s, x>>] = r
    BY <1>2
  <2>2. QED BY <1>1, <2>1, DispatchEffect
<1>5. ASSUME NEW t \in Steps \ {s}
      PROVE  stepRes'[t] = stepRes[t] /\ artRes'[t] = artRes[t]
  BY <1>1, <1>2, DispatchFrame
<1>6. QED BY <1>3, <1>4, <1>5

\* The news about one artifact, and perhaps about its step.
LEMMA ArtifactNews ==
  ASSUME TypeOK, NEW s \in Steps, NEW x \in Artifacts, NEW r \in Result,
         NEW stepNews, IsNews(stepNews, Only(<<s, x>>, r)), DOMAIN stepNews \subseteq {s},
         Dispatch(stepNews, Only(<<s, x>>, r))
  PROVE  /\ s \in DOMAIN stepNews => stepRes'[s] = Reduced(stepRes[s], stepNews[s])
         /\ s \notin DOMAIN stepNews => stepRes'[s] = stepRes[s]
         /\ artRes'[s][x] = Reduced(artRes[s][x], r)
         /\ \A y \in Artifacts \ {x} : artRes'[s][y] = artRes[s][y]
         /\ \A t \in Steps \ {s} : stepRes'[t] = stepRes[t] /\ artRes'[t] = artRes[t]
<1>1. DOMAIN Only(<<s, x>>, r) = {<<s, x>>} /\ Only(<<s, x>>, r)[<<s, x>>] = r
  BY DEF Only
<1>2. /\ s \in DOMAIN stepNews => stepRes'[s] = Reduced(stepRes[s], stepNews[s])
      /\ s \notin DOMAIN stepNews => stepRes'[s] = stepRes[s]
      /\ artRes'[s][x] = Reduced(artRes[s][x], r)
  BY <1>1, DispatchEffect
<1>3. ASSUME NEW y \in Artifacts \ {x} PROVE artRes'[s][y] = artRes[s][y]
  <2>1. <<s, y>> \notin DOMAIN Only(<<s, x>>, r)
    BY <1>1
  <2>2. QED BY <2>1, DispatchEffect
<1>4. ASSUME NEW t \in Steps \ {s}
      PROVE  stepRes'[t] = stepRes[t] /\ artRes'[t] = artRes[t]
  BY <1>1, DispatchFrame
<1>5. QED BY <1>2, <1>3, <1>4

-----------------------------------------------------------------------------
(* The inductive invariant.                                                 *)

\* What every step of the flow keeps.
IInv == TypeOK /\ FlowInv

\* The invariant holds when the flow begins.
LEMMA FlowInvInit == Init => FlowInv
<1> SUFFICES ASSUME Init PROVE FlowInv
  OBVIOUS
<1>1. SetUpInv
  BY DEF Init, SetUpInv
<1>2. \A s \in Steps : StepInv(s)
  BY ResultFacts DEF Init, StepInv, IsWhole, WholeInv, ByArtifactInv, ArtifactInv, Verdict
<1>3. \A s \in Steps : OrderInv(s)
  BY DEF Init, OrderInv
<1>4. QED BY <1>1, <1>2, <1>3 DEF FlowInv, Init

\* After a turn of the running flow that keeps the invariant of every step,
\* flowFinished still tells that every step is final.
LEMMA FinishedFrame ==
  ASSUME IInv, NEW stepNews, NEW artNews, IsNews(stepNews, artNews),
         Dispatch(stepNews, artNews)
  PROVE  flowFinished' => \A s \in Steps : IsFinal(stepRes'[s])
<1>1. CASE flowFinished
  BY <1>1, DispatchEffect DEF IInv, FlowInv, IsFinal
<1>2. CASE ~flowFinished
  BY <1>2 DEF Dispatch, AllStepsFinished
<1>3. QED BY <1>1, <1>2

\* Setting up keeps the invariant: the first actions only repeat the store.
LEMMA SetUpFlowInv == IInv /\ SetUp => FlowInv'
<1> SUFFICES ASSUME IInv, SetUp PROVE FlowInv'
  OBVIOUS
<1> DEFINE sn == [s \in Steps |-> Scheduled]
           an == [x \in Steps \X Artifacts |-> Scheduled]
<1>1. IsNews(sn, an) /\ Dispatch(sn, an)
  BY ResultFacts DEF IsNews, SetUp
<1>2. \A s \in Steps : /\ stepPc[s] = "waiting" /\ stepRes[s] = Scheduled
                       /\ \A x \in Artifacts : /\ artPc[s][x] = "waiting"
                                               /\ artRes[s][x] = Scheduled
                                               /\ localRes[s][x] = Scheduled
  BY DEF IInv, FlowInv, SetUpInv, SetUp
<1>3. \A s \in Steps : stepRes'[s] = Scheduled
  BY <1>1, <1>2, DispatchEffect, ReducedFacts DEF IInv
<1>4. ASSUME NEW s \in Steps, NEW x \in Artifacts PROVE artRes'[s][x] = Scheduled
  <2>1. <<s, x>> \in DOMAIN an /\ an[<<s, x>>] = Scheduled
    OBVIOUS
  <2>2. artRes'[s][x] = Reduced(artRes[s][x], an[<<s, x>>])
    BY <1>1, <2>1, DispatchEffect DEF IInv
  <2>3. QED BY <1>2, <2>1, <2>2, ReducedFacts
<1>5. stepPc' = stepPc /\ artPc' = artPc /\ localRes' = localRes /\ flow' = "running"
  BY DEF SetUp, onArtifactState
<1>6. \A s \in Steps : StepInv(s)'
  BY <1>2, <1>3, <1>4, <1>5, ResultFacts
     DEF StepInv, IsWhole, WholeInv, ByArtifactInv, ArtifactInv, Verdict
<1>7. \A s \in Steps : OrderInv(s)'
  BY <1>2, <1>5 DEF OrderInv
<1>8. flowFinished' => \A s \in Steps : IsFinal(stepRes'[s])
  BY <1>1, FinishedFrame
<1>9. QED BY <1>5, <1>6, <1>7, <1>8 DEF FlowInv, SetUpInv

\* A turn of the whole step s keeps the invariant: s is at its constrains or
\* runs, so its result and those of its artifacts are behind the news.
LEMMA OnStepFlowInv ==
  ASSUME IInv, NEW s \in Steps, OnStep(s)
  PROVE  FlowInv'
<1>1. /\ flow = "running" /\ flow' = flow
      /\ UNCHANGED <<globalVerdict, artPc, localRes>>
      /\ stepPc[s] # "waiting"
      /\ stepPc' = [stepPc EXCEPT ![s] = stepPc'[s]]
  BY DEF OnStep, StepSkips, StepStarts, StepEnds, StepConstrained, onArtifactState, IInv,
         TypeOK, Verdict
<1>2. WholeInv(s) /\ IsWhole(s)
  BY <1>1 DEF IInv, FlowInv, StepInv, ByArtifactInv
<1>3. PICK r \in Result :
        /\ Dispatch(Only(s, r), OnAllArtifacts(s, r))
        /\ \/ IsFinal(r) /\ r \in FinalResult /\ stepPc'[s] = "finished"
              /\ stepRes[s] \in {Scheduled, Running}
           \/ r = Running /\ stepPc'[s] = "running" /\ stepRes[s] = Scheduled
  <2>1. CASE StepSkips(s)
    <3>1. PICK v \in Verdict \ {"shouldRun"} :
            Dispatch(Only(s, Aborted(v)), OnAllArtifacts(s, Aborted(v)))
      BY <2>1 DEF StepSkips
    <3>2. Aborted(v) \in FinalResult /\ Aborted(v) \in Result /\ IsFinal(Aborted(v))
      BY VerdictStatus, FinalFacts, ResultFacts
    <3>3. stepRes[s] = Scheduled /\ stepPc'[s] = "finished"
      BY <1>2, <2>1 DEF StepSkips, StepConstrained, WholeInv, IInv, TypeOK
    <3>4. QED BY <3>1, <3>2, <3>3
  <2>2. CASE StepStarts(s)
    <3>1. stepRes[s] = Scheduled /\ stepPc'[s] = "running"
      BY <1>2, <2>2 DEF StepStarts, StepConstrained, WholeInv, IInv, TypeOK
    <3>2. QED BY <3>1, <2>2, ResultFacts DEF StepStarts
  <2>3. CASE StepEnds(s)
    <3>1. PICK r \in UserResults[s] : Dispatch(Only(s, r), OnAllArtifacts(s, r))
      BY <2>3 DEF StepEnds
    <3>2. r \in FinalResult /\ r \in Result /\ IsFinal(r)
      BY <3>1, StepsAssumption, ResultFacts
    <3>3. stepRes[s] = Running /\ stepPc'[s] = "finished"
      BY <1>2, <2>3 DEF StepEnds, WholeInv, IInv, TypeOK
    <3>4. QED BY <3>1, <3>2, <3>3
  <2>4. QED BY <2>1, <2>2, <2>3 DEF OnStep
<1>4. /\ stepRes'[s] = Reduced(stepRes[s], r)
      /\ \A x \in Artifacts : artRes'[s][x] = Reduced(artRes[s][x], r)
      /\ \A t \in Steps \ {s} : stepRes'[t] = stepRes[t] /\ artRes'[t] = artRes[t]
  BY <1>3, WholeNews DEF IInv
<1>5. Reduced(stepRes[s], r) = r
  BY <1>3, ReducedFacts
<1>6. StepInv(s)'
  <2>1. stepRes'[s] = r /\ \A x \in Artifacts : artRes'[s][x] = r
    BY <1>2, <1>4, <1>5 DEF WholeInv
  <2>2. WholeInv(s)'
    BY <1>1, <1>2, <1>3, <2>1 DEF WholeInv, Verdict
  <2>3. QED BY <1>1, <1>2, <2>2 DEF StepInv, IsWhole
<1>7. ASSUME NEW t \in Steps \ {s} PROVE StepInv(t)'
  <2>1. stepPc'[t] = stepPc[t]
    BY <1>1 DEF IInv, TypeOK
  <2>2. StepInv(t)
    BY DEF IInv, FlowInv
  <2>3. QED BY <1>1, <1>4, <2>1, <2>2, StepInvFrame
<1>8. IsNews(Only(s, r), OnAllArtifacts(s, r))
  BY NewsType
<1>9. ASSUME NEW t \in Steps PROVE OrderInv(t)'
  <2>1. /\ \A p \in Steps : IsFinal(stepRes[p]) => stepRes'[p] = stepRes[p]
        /\ \A p \in Steps, x \in Artifacts : IsFinal(artRes[p][x]) => artRes'[p][x] = artRes[p][x]
    BY <1>3, <1>8, DispatchEffect DEF IInv
  <2>2. stepPc'[t] # "waiting" => stepPc[t] # "waiting"
    BY <1>1 DEF IInv, TypeOK
  <2>3. OrderInv(t)
    BY DEF IInv, FlowInv
  <2>4. QED BY <1>1, <2>1, <2>2, <2>3, OrderInvFrame
<1>10. flowFinished' => \A t \in Steps : IsFinal(stepRes'[t])
  BY <1>3, <1>8, FinishedFrame
<1>11. QED BY <1>1, <1>6, <1>7, <1>9, <1>10 DEF FlowInv, SetUpInv

\* A delivery keeps the invariant: what it aborts was scheduled, and what it
\* wakes up has final parents in the store it leaves.
LEMMA DeliverFlowInv == IInv /\ Deliver => FlowInv'
<1> SUFFICES ASSUME IInv, Deliver PROVE FlowInv'
  OBVIOUS
<1> DEFINE batch == Head(inflight)
           aborted == GloballySkipped \cup WithoutArtifacts(batch)
           verdict(s) == IF s \in GloballySkipped THEN globalVerdict[s] ELSE "skippedAsPassed"
           sn == [s \in aborted |-> Aborted(verdict(s))]
           an == [x \in aborted \X Artifacts |-> Aborted(verdict(x[1]))]
           stepWakes(s) == /\ s \notin ArtifactSteps
                           /\ globalVerdict[s] = "shouldRun"
                           /\ stepPc[s] = "waiting"
                           /\ \E act \in batch : Passes(s, act)
                           /\ ParentStepsFinished(s)
           artifactWakes(s, a) == /\ s \in ArtifactSteps
                                  /\ globalVerdict[s] = "shouldRun"
                                  /\ artPc[s][a] = "waiting" /\ localRes[s][a] = Scheduled
                                  /\ \E act \in batch : Attempts(s, a, act)
                                  /\ ParentStepsFinishedOnArtifact(s, a)
<1>1. /\ Dispatch(sn, an)
      /\ stepPc' = [s \in Steps |-> IF s \in aborted THEN "finished"
                                    ELSE IF stepWakes(s) THEN StepCacheVerdict(s)
                                    ELSE stepPc[s]]
      /\ artPc' = [s \in Steps |-> [a \in Artifacts |->
                     IF artifactWakes(s, a) THEN ArtifactCacheVerdict(s, a)
                     ELSE artPc[s][a]]]
      /\ flow = "running" /\ UNCHANGED <<flow, globalVerdict, localRes>>
  BY DEF Deliver
<1>2. aborted \subseteq Steps /\ \A s \in aborted : verdict(s) \in Status
  BY StepsAssumption, VerdictStatus, StatusFacts DEF GloballySkipped, WithoutArtifacts, IInv, TypeOK
<1>3. IsNews(sn, an)
  BY <1>2, ResultFacts, FinalFacts DEF IsNews
<1>4. \A s \in aborted : IsWhole(s) /\ stepPc[s] = "waiting"
  BY DEF GloballySkipped, WithoutArtifacts, IsWhole
<1>5. ASSUME NEW s \in Steps PROVE StepInv(s)'
  <2>1. CASE s \in aborted
    <3>1. WholeInv(s) /\ stepRes[s] = Scheduled
      BY <1>4, <2>1 DEF IInv, FlowInv, StepInv, WholeInv
    <3>2. Aborted(verdict(s)) \in FinalResult /\ IsFinal(Aborted(verdict(s)))
      BY <1>2, <2>1, FinalFacts, ResultFacts
    <3>3. stepRes'[s] = Aborted(verdict(s))
      <4>1. s \in DOMAIN sn /\ sn[s] = Aborted(verdict(s))
        BY <2>1
      <4>2. stepRes'[s] = Reduced(stepRes[s], sn[s])
        BY <1>1, <1>3, <4>1, DispatchEffect DEF IInv
      <4>3. QED BY <3>1, <3>2, <4>1, <4>2, ReducedFacts
    <3>4. ASSUME NEW x \in Artifacts
          PROVE  artRes'[s][x] = Aborted(verdict(s)) /\ artPc'[s][x] = "waiting"
      <4>1. <<s, x>> \in DOMAIN an /\ an[<<s, x>>] = Aborted(verdict(s))
        BY <2>1
      <4>2. artRes'[s][x] = Reduced(artRes[s][x], an[<<s, x>>])
        BY <1>1, <1>3, <4>1, DispatchEffect DEF IInv
      <4>3. artRes[s][x] = Scheduled /\ artPc[s][x] = "waiting"
        BY <3>1 DEF WholeInv
      <4>4. ~artifactWakes(s, x)
        BY <2>1 DEF GloballySkipped, WithoutArtifacts
      <4>5. artPc'[s][x] = "waiting"
        BY <1>1, <4>3, <4>4
      <4>6. QED BY <3>2, <4>1, <4>2, <4>3, <4>5, ReducedFacts
    <3>5. stepPc'[s] = "finished"
      BY <1>1, <2>1
    <3>6. WholeInv(s)'
      BY <3>2, <3>3, <3>4, <3>5 DEF WholeInv, Verdict
    <3>7. QED BY <1>1, <1>4, <2>1, <3>6 DEF StepInv, IsWhole
  <2>2. CASE s \notin aborted
    <3>1. stepRes'[s] = stepRes[s] /\ artRes'[s] = artRes[s]
      BY <1>1, <1>3, <2>2, DispatchFrame DEF IInv
    <3>2. CASE IsWhole(s)
      <4>1. WholeInv(s)
        BY <3>2 DEF IInv, FlowInv, StepInv
      <4>2. \A x \in Artifacts : artPc'[s][x] = artPc[s][x]
        BY <1>1, <3>2 DEF IsWhole
      <4>3. \/ stepPc'[s] = stepPc[s]
            \/ stepPc[s] = "waiting" /\ stepPc'[s] \in Verdict
        BY <1>1, <2>2, CacheVerdictType
      <4>4. WholeInv(s)'
        BY <3>1, <4>1, <4>2, <4>3 DEF WholeInv, Verdict
      <4>5. QED BY <1>1, <3>2, <4>4 DEF StepInv, IsWhole
    <3>3. CASE ~IsWhole(s)
      <4>1. ByArtifactInv(s)
        BY <3>3 DEF IInv, FlowInv, StepInv
      <4>2. stepPc'[s] = "waiting"
        BY <1>1, <2>2, <3>3, <4>1 DEF IsWhole, ByArtifactInv
      <4>3. \A x \in Artifacts : \/ artPc'[s][x] = artPc[s][x]
                                 \/ artPc[s][x] = "waiting" /\ artPc'[s][x] \in Verdict
        BY <1>1, CacheVerdictType
      <4>4. \A x \in Artifacts : ArtifactInv(s, x)'
        BY <1>1, <3>1, <4>1, <4>3 DEF ByArtifactInv, ArtifactInv, Verdict
      <4>5. \A x \in Artifacts : artPc'[s][x] = "afterAll" => artPc[s][x] = "afterAll"
        BY <4>3 DEF Verdict
      <4>6. ByArtifactInv(s)'
        BY <1>1, <3>1, <4>1, <4>2, <4>4, <4>5
           DEF ByArtifactInv, AllFinal, StepResultOf, AllAborted, CombinedStatusOf
      <4>7. QED BY <1>1, <3>3, <4>6 DEF StepInv, IsWhole
    <3>4. QED BY <3>2, <3>3
  <2>3. QED BY <2>1, <2>2
<1>6. ASSUME NEW s \in Steps PROVE OrderInv(s)'
  <2>1. /\ \A p \in Steps : IsFinal(stepRes[p]) => stepRes'[p] = stepRes[p]
        /\ \A p \in Steps, x \in Artifacts : IsFinal(artRes[p][x]) => artRes'[p][x] = artRes[p][x]
    BY <1>1, <1>3, DispatchEffect DEF IInv
  <2>2. /\ StepAncestors[s] \subseteq Steps /\ StepParents[s] \subseteq Steps
        /\ \A x \in Artifacts : ArtifactParents[x] \subseteq Artifacts
    BY GraphAssumption DEF StepAncestors
  <2>3. OrderInv(s) /\ globalVerdict'[s] = globalVerdict[s]
    BY <1>1 DEF IInv, FlowInv
  <2>4. ASSUME globalVerdict[s] = "shouldRun", s \notin ArtifactSteps, stepPc'[s] # "waiting"
        PROVE  MayStart(s)'
    <3>1. s \notin aborted
      BY <2>4 DEF GloballySkipped, WithoutArtifacts
    <3>2. CASE stepWakes(s)
      BY <3>2 DEF ParentStepsFinished, MayStart, IsFinal
    <3>3. CASE ~stepWakes(s)
      <4>1. MayStart(s)
        BY <1>1, <2>3, <2>4, <3>1, <3>3 DEF OrderInv
      <4>2. QED BY <2>1, <2>2, <4>1 DEF MayStart, IsFinal
    <3>4. QED BY <3>2, <3>3
  <2>5. ASSUME globalVerdict[s] = "shouldRun", s \in ArtifactSteps,
               NEW x \in Artifacts, artPc'[s][x] # "waiting"
        PROVE  MayStartOnArtifact(s, x)'
    <3>1. CASE artifactWakes(s, x)
      BY <3>1 DEF ParentStepsFinishedOnArtifact, Attempts, ArtifactParentsFinishedParentSteps,
                  MayStartOnArtifact, IsFinal
    <3>2. CASE ~artifactWakes(s, x)
      <4>1. MayStartOnArtifact(s, x)
        BY <1>1, <2>3, <2>5, <3>2 DEF OrderInv
      <4>2. QED BY <2>1, <2>2, <4>1 DEF MayStartOnArtifact, IsFinal
    <3>3. QED BY <3>1, <3>2
  <2>6. QED BY <2>3, <2>4, <2>5 DEF OrderInv
<1>7. flowFinished' => \A s \in Steps : IsFinal(stepRes'[s])
  BY <1>1, <1>3, FinishedFrame
<1>8. QED BY <1>1, <1>5, <1>6, <1>7 DEF FlowInv, SetUpInv

\* A step one of whose artifacts woke up works on each artifact by itself.
LEMMA AwakeByArtifact ==
  ASSUME IInv, NEW s \in Steps, NEW x \in Artifacts, artPc[s][x] # "waiting"
  PROVE  ~IsWhole(s) /\ ByArtifactInv(s)
BY DEF IInv, FlowInv, StepInv, WholeInv

\* A turn of artifact x in step s keeps the invariant when it keeps the part
\* about s: it is about nothing else and wakes up nobody.
LEMMA ArtifactFrame ==
  ASSUME IInv, NEW s \in Steps, NEW x \in Artifacts, artPc[s][x] # "waiting",
         NEW stepNews, NEW artNews, IsNews(stepNews, artNews), Dispatch(stepNews, artNews),
         DOMAIN stepNews \subseteq {s}, DOMAIN artNews \subseteq {<<s, x>>},
         UNCHANGED <<globalVerdict, stepPc>>,
         artPc' = [artPc EXCEPT ![s][x] = artPc'[s][x]],
         \A t \in Steps \ {s} : localRes'[t] = localRes[t],
         flow' \notin {"setup", "setupFailed"},
         ByArtifactInv(s)'
  PROVE  FlowInv'
<1>1. ASSUME NEW t \in Steps PROVE StepInv(t)'
  <2>1. CASE t = s
    <3>1. ~IsWhole(s)
      BY AwakeByArtifact
    <3>2. QED BY <2>1, <3>1 DEF StepInv, IsWhole
  <2>2. CASE t # s
    <3>1. stepRes'[t] = stepRes[t] /\ artRes'[t] = artRes[t]
      BY <2>2, DispatchFrame DEF IInv
    <3>2. artPc'[t] = artPc[t]
      BY <2>2 DEF IInv, TypeOK
    <3>3. StepInv(t)
      BY DEF IInv, FlowInv
    <3>4. localRes'[t] = localRes[t]
      BY <2>2
    <3>5. globalVerdict'[t] = globalVerdict[t] /\ stepPc'[t] = stepPc[t]
      OBVIOUS
    <3>6. QED BY <3>1, <3>2, <3>3, <3>4, <3>5, StepInvFrame
  <2>3. QED BY <2>1, <2>2
<1>2. ASSUME NEW t \in Steps PROVE OrderInv(t)'
  <2>1. /\ \A p \in Steps : IsFinal(stepRes[p]) => stepRes'[p] = stepRes[p]
        /\ \A p \in Steps, y \in Artifacts : IsFinal(artRes[p][y]) => artRes'[p][y] = artRes[p][y]
    BY DispatchEffect DEF IInv
  <2>2. ASSUME NEW y \in Artifacts
        PROVE  artPc'[t][y] # "waiting" => artPc[t][y] # "waiting"
    <3>1. CASE t = s /\ y = x
      BY <3>1
    <3>2. CASE ~(t = s /\ y = x)
      <4>1. artPc'[t][y] = artPc[t][y]
        BY <3>2 DEF IInv, TypeOK
      <4>2. QED BY <4>1
    <3>3. QED BY <3>1, <3>2
  <2>3. OrderInv(t)
    BY DEF IInv, FlowInv
  <2>4. globalVerdict'[t] = globalVerdict[t] /\ stepPc'[t] = stepPc[t]
    OBVIOUS
  <2>5. QED BY <2>1, <2>2, <2>3, <2>4, OrderInvFrame
<1>3. flowFinished' => \A t \in Steps : IsFinal(stepRes'[t])
  BY FinishedFrame
<1>4. QED BY <1>1, <1>2, <1>3 DEF FlowInv, SetUpInv

\* An artifact that is skipped, and closes its step when it is the last one.
LEMMA ArtifactSkipsFlowInv ==
  ASSUME IInv, NEW s \in Steps, NEW x \in Artifacts, ArtifactSkips(s, x)
  PROVE  FlowInv'
<1>1. PICK v \in Verdict \ {"shouldRun"} :
        /\ ArtifactConstrained(s, x, v)
        /\ localRes' = [localRes EXCEPT ![s][x] = Aborted(v)]
        /\ LET results == localRes'[s]
               closes == AllFinal(results) /\ ~CantBeHereAfterSkip(results)
           IN /\ Dispatch(IF closes THEN Only(s, StepResultOf(results)) ELSE None,
                          Only(<<s, x>>, Aborted(v)))
              /\ flow' = IF AllFinal(results) /\ CantBeHereAfterSkip(results)
                         THEN "cantBeHere8" ELSE flow
  BY DEF ArtifactSkips
<1>2. /\ artPc' = [artPc EXCEPT ![s][x] = "finished"] /\ UNCHANGED <<globalVerdict, stepPc>>
      /\ artPc[s][x] \in Verdict /\ artPc[s][x] # "waiting" /\ flow = "running"
  BY <1>1 DEF ArtifactSkips, ArtifactConstrained, Verdict
<1>3. ByArtifactInv(s)
  BY <1>2, AwakeByArtifact
<1>4. /\ artRes[s][x] = Scheduled /\ localRes[s][x] = Scheduled
      /\ stepRes[s] \in {Scheduled, Running}
      /\ \A y \in Artifacts : artPc[s][y] # "afterAll"
  BY <1>2, <1>3, ResultFacts DEF ByArtifactInv, ArtifactInv, AllFinal, IInv, TypeOK
<1>5. Aborted(v) \in FinalResult /\ Aborted(v) \in Result /\ IsFinal(Aborted(v))
  BY VerdictStatus, FinalFacts, ResultFacts
<1>6. localRes' \in [Steps -> [Artifacts -> Result]] /\ localRes'[s][x] = Aborted(v)
  BY <1>1, <1>5 DEF IInv, TypeOK
<1> DEFINE results == localRes'[s]
<1>7. StepResultOf(results) \in FinalResult /\ StepResultOf(results) \in Result
  BY <1>6, StepResultType, ResultFacts
<1>8. PICK news \in {Only(s, StepResultOf(results)), None} :
        /\ Dispatch(news, Only(<<s, x>>, Aborted(v)))
        /\ news = None \/ (news = Only(s, StepResultOf(results)) /\ AllFinal(results))
        /\ flow' \in {flow, "cantBeHere8"}
  <2>1. CASE AllFinal(results) /\ ~CantBeHereAfterSkip(results)
    BY <1>1, <2>1
  <2>2. CASE ~(AllFinal(results) /\ ~CantBeHereAfterSkip(results))
    BY <1>1, <2>2
  <2>3. QED BY <2>1, <2>2
<1>9. IsNews(news, Only(<<s, x>>, Aborted(v)))
  BY <1>5, <1>7, <1>8, NewsType
<1>10. /\ DOMAIN news \subseteq {s} /\ DOMAIN Only(<<s, x>>, Aborted(v)) \subseteq {<<s, x>>}
       /\ s \in DOMAIN news => news[s] = StepResultOf(results) /\ AllFinal(results)
  BY <1>8 DEF Only, None
<1>11. /\ s \in DOMAIN news => stepRes'[s] = Reduced(stepRes[s], news[s])
       /\ s \notin DOMAIN news => stepRes'[s] = stepRes[s]
       /\ artRes'[s][x] = Reduced(artRes[s][x], Aborted(v))
       /\ \A y \in Artifacts \ {x} : artRes'[s][y] = artRes[s][y]
  BY <1>5, <1>8, <1>9, <1>10, ArtifactNews DEF IInv
<1>12. artRes'[s][x] = Aborted(v)
  BY <1>4, <1>5, <1>11, ReducedFacts
<1>13. IsFinal(stepRes'[s]) => AllFinal(results) /\ stepRes'[s] = StepResultOf(results)
  BY <1>4, <1>7, <1>10, <1>11, ReducedFacts, ResultFacts
<1>14. \A y \in Artifacts : ArtifactInv(s, y)'
  BY <1>1, <1>2, <1>3, <1>5, <1>6, <1>11, <1>12 DEF ByArtifactInv, ArtifactInv, Verdict, IInv, TypeOK
<1>15. \A y \in Artifacts : artPc'[s][y] # "afterAll"
  BY <1>2, <1>4 DEF IInv, TypeOK
<1>16. ByArtifactInv(s)'
  <2>1. (AllFinal(localRes[s]))' = AllFinal(results) /\ StepResultOf(localRes[s])' = StepResultOf(results)
    BY DEF AllFinal, StepResultOf, AllAborted, CombinedStatusOf
  <2>2. QED BY <1>2, <1>3, <1>13, <1>14, <1>15, <2>1 DEF ByArtifactInv
<1>17. artPc' = [artPc EXCEPT ![s][x] = artPc'[s][x]]
  BY <1>2 DEF IInv, TypeOK
<1>18. \A t \in Steps \ {s} : localRes'[t] = localRes[t]
  BY <1>1 DEF IInv, TypeOK
<1>19. flow' \notin {"setup", "setupFailed"}
  BY <1>2, <1>8
<1>20. QED BY <1>2, <1>8, <1>9, <1>10, <1>16, <1>17, <1>18, <1>19, ArtifactFrame

\* An artifact that starts; the first one starts the step.
LEMMA ArtifactStartsFlowInv ==
  ASSUME IInv, NEW s \in Steps, NEW x \in Artifacts, ArtifactStarts(s, x)
  PROVE  FlowInv'
<1>1. /\ localRes' = [localRes EXCEPT ![s][x] = Running]
      /\ artPc' = [artPc EXCEPT ![s][x] = "running"]
      /\ UNCHANGED <<flow, globalVerdict, stepPc>>
      /\ artPc[s][x] \in Verdict /\ artPc[s][x] # "waiting" /\ flow = "running"
  BY DEF ArtifactStarts, ArtifactConstrained, Verdict
<1>2. PICK news \in {Only(s, Running), None} : Dispatch(news, Only(<<s, x>>, Running))
  BY DEF ArtifactStarts
<1>3. IsNews(news, Only(<<s, x>>, Running))
  BY <1>2, NewsType, ResultFacts
<1>4. /\ DOMAIN news \subseteq {s} /\ DOMAIN Only(<<s, x>>, Running) \subseteq {<<s, x>>}
      /\ s \in DOMAIN news => news[s] = Running
  BY <1>2 DEF Only, None
<1>5. ByArtifactInv(s)
  BY <1>1, AwakeByArtifact
<1>6. /\ artRes[s][x] = Scheduled /\ localRes[s][x] = Scheduled
      /\ stepRes[s] \in {Scheduled, Running}
      /\ \A y \in Artifacts : artPc[s][y] # "afterAll"
  BY <1>1, <1>5, ResultFacts DEF ByArtifactInv, ArtifactInv, AllFinal, IInv, TypeOK
<1>7. /\ s \in DOMAIN news => stepRes'[s] = Reduced(stepRes[s], news[s])
      /\ s \notin DOMAIN news => stepRes'[s] = stepRes[s]
      /\ artRes'[s][x] = Reduced(artRes[s][x], Running)
      /\ \A y \in Artifacts \ {x} : artRes'[s][y] = artRes[s][y]
  BY <1>2, <1>3, <1>4, ResultFacts, ArtifactNews DEF IInv
<1>8. artRes'[s][x] = Running /\ ~IsFinal(stepRes'[s])
  BY <1>4, <1>6, <1>7, ReducedFacts, ResultFacts
<1>9. \A y \in Artifacts : ArtifactInv(s, y)'
  BY <1>1, <1>5, <1>7, <1>8 DEF ByArtifactInv, ArtifactInv, Verdict, IInv, TypeOK
<1>10. \A y \in Artifacts : artPc'[s][y] # "afterAll"
  BY <1>1, <1>6 DEF IInv, TypeOK
<1>11. ByArtifactInv(s)'
  BY <1>1, <1>5, <1>8, <1>9, <1>10 DEF ByArtifactInv
<1>12. artPc' = [artPc EXCEPT ![s][x] = artPc'[s][x]]
  BY <1>1 DEF IInv, TypeOK
<1>13. \A t \in Steps \ {s} : localRes'[t] = localRes[t]
  BY <1>1 DEF IInv, TypeOK
<1>14. QED BY <1>1, <1>2, <1>3, <1>4, <1>11, <1>12, <1>13, ArtifactFrame

\* An artifact that ends; the one that ends last calls onAfterArtifacts.
LEMMA ArtifactEndsFlowInv ==
  ASSUME IInv, NEW s \in Steps, NEW x \in Artifacts, ArtifactEnds(s, x)
  PROVE  FlowInv'
<1>1. PICK r \in UserResults[s] : /\ Dispatch(None, Only(<<s, x>>, r))
                                 /\ localRes' = [localRes EXCEPT ![s][x] = r]
  BY DEF ArtifactEnds
<1>2. /\ artPc' = [artPc EXCEPT ![s][x] = IF AllFinal(localRes'[s]) THEN "afterAll"
                                          ELSE "finished"]
      /\ UNCHANGED <<flow, globalVerdict, stepPc>>
      /\ artPc[s][x] = "running" /\ flow = "running"
  BY DEF ArtifactEnds
<1>3. r \in FinalResult /\ r \in Result /\ IsFinal(r)
  BY StepsAssumption, ResultFacts
<1>4. /\ IsNews(None, Only(<<s, x>>, r)) /\ DOMAIN None \subseteq {s} /\ s \notin DOMAIN None
      /\ DOMAIN Only(<<s, x>>, r) \subseteq {<<s, x>>}
  BY <1>3, NewsType DEF Only, None
<1>5. ByArtifactInv(s)
  BY <1>2, AwakeByArtifact
<1>6. /\ artRes[s][x] = Running /\ localRes[s][x] = Running
      /\ stepRes[s] \in {Scheduled, Running} /\ ~IsFinal(stepRes[s])
      /\ \A y \in Artifacts : artPc[s][y] # "afterAll"
  BY <1>2, <1>5, ResultFacts DEF ByArtifactInv, ArtifactInv, AllFinal, IInv, TypeOK
<1>7. /\ stepRes'[s] = stepRes[s]
      /\ artRes'[s][x] = Reduced(artRes[s][x], r)
      /\ \A y \in Artifacts \ {x} : artRes'[s][y] = artRes[s][y]
  BY <1>1, <1>3, <1>4, ArtifactNews DEF IInv
<1>8. artRes'[s][x] = r /\ ~IsFinal(stepRes'[s])
  BY <1>3, <1>6, <1>7, ReducedFacts
<1>9. \A y \in Artifacts \ {x} : artPc'[s][y] = artPc[s][y] /\ localRes'[s][y] = localRes[s][y]
  BY <1>1, <1>2 DEF IInv, TypeOK
<1>10. /\ localRes'[s][x] = r
       /\ artPc'[s][x] \in {"afterAll", "finished"}
       /\ artPc'[s][x] = "afterAll" => AllFinal(localRes'[s])
  BY <1>1, <1>2 DEF IInv, TypeOK
<1>11. \A y \in Artifacts : ArtifactInv(s, y)'
  BY <1>3, <1>5, <1>7, <1>8, <1>9, <1>10 DEF ByArtifactInv, ArtifactInv, Verdict
<1>12. ByArtifactInv(s)'
  <2>1. (AllFinal(localRes[s]))' = AllFinal(localRes'[s])
    BY DEF AllFinal
  <2>2. \A y \in Artifacts : artPc'[s][y] = "afterAll" => y = x
    BY <1>6, <1>9
  <2>3. QED BY <1>2, <1>5, <1>8, <1>10, <1>11, <2>1, <2>2 DEF ByArtifactInv
<1>13. artPc' = [artPc EXCEPT ![s][x] = artPc'[s][x]]
  BY <1>2 DEF IInv, TypeOK
<1>14. \A t \in Steps \ {s} : localRes'[t] = localRes[t]
  BY <1>1 DEF IInv, TypeOK
<1>15. artPc[s][x] # "waiting" /\ flow' \notin {"setup", "setupFailed"}
  BY <1>2
<1>16. QED BY <1>1, <1>2, <1>4, <1>12, <1>13, <1>14, <1>15, ArtifactFrame

\* onAfterArtifacts settles, and the step takes the result its artifacts have.
LEMMA AfterAllEndsFlowInv ==
  ASSUME IInv, NEW s \in Steps, NEW x \in Artifacts, AfterAllEnds(s, x)
  PROVE  FlowInv'
<1>1. /\ artPc' = [artPc EXCEPT ![s][x] = "finished"]
      /\ UNCHANGED <<globalVerdict, stepPc, localRes>>
      /\ artPc[s][x] = "afterAll" /\ flow = "running"
      /\ flow' \in {"cantBeHere9", "cantBeHere10", "running"}
  BY DEF AfterAllEnds
<1> DEFINE result == StepResultOf(localRes[s])
<1>2. PICK news \in {Only(s, result), None} : Dispatch(news, None)
  BY DEF AfterAllEnds
<1>3. result \in FinalResult /\ result \in Result
  BY StepResultType, ResultFacts DEF IInv, TypeOK
<1>4. IsNews(news, None)
  BY <1>2, <1>3, NewsType
<1>5. /\ DOMAIN news \subseteq {s} /\ DOMAIN None \subseteq {<<s, x>>}
      /\ s \in DOMAIN news => news[s] = result
      /\ \A y \in Artifacts : <<s, y>> \notin DOMAIN None
  BY <1>2 DEF Only, None
<1>6. ByArtifactInv(s)
  BY <1>1, AwakeByArtifact
<1>7. /\ AllFinal(localRes[s]) /\ stepRes[s] \in {Scheduled, Running}
      /\ \A y \in Artifacts \ {x} : artPc[s][y] # "afterAll"
  BY <1>1, <1>6, ResultFacts DEF ByArtifactInv, IInv, TypeOK
<1>8. /\ s \in DOMAIN news => stepRes'[s] = Reduced(stepRes[s], news[s])
      /\ s \notin DOMAIN news => stepRes'[s] = stepRes[s]
      /\ \A y \in Artifacts : artRes'[s][y] = artRes[s][y]
  BY ZenonT(30), <1>2, <1>4, <1>5, DispatchEffect DEF IInv
<1>9. IsFinal(stepRes'[s]) => stepRes'[s] = result
  BY <1>3, <1>5, <1>7, <1>8, ReducedFacts, ResultFacts
<1>10. /\ artPc'[s][x] = "finished"
       /\ \A y \in Artifacts \ {x} : artPc'[s][y] = artPc[s][y]
  BY <1>1 DEF IInv, TypeOK
<1>11. \A y \in Artifacts : ArtifactInv(s, y)'
  BY <1>1, <1>6, <1>8, <1>10 DEF ByArtifactInv, ArtifactInv, Verdict
<1>12. ByArtifactInv(s)'
  <2>1. localRes'[s] = localRes[s] /\ AllFinal(localRes[s])' /\ StepResultOf(localRes[s])' = result
    BY <1>1, <1>7 DEF AllFinal, StepResultOf, AllAborted, CombinedStatusOf
  <2>2. \A y \in Artifacts : artPc'[s][y] # "afterAll"
    BY <1>7, <1>10
  <2>3. QED BY <1>1, <1>6, <1>9, <1>11, <2>1, <2>2 DEF ByArtifactInv
<1>13. artPc' = [artPc EXCEPT ![s][x] = artPc'[s][x]]
  BY <1>1 DEF IInv, TypeOK
<1>14. artPc[s][x] # "waiting" /\ flow' \notin {"setup", "setupFailed"}
  BY <1>1
<1>15. QED BY <1>1, <1>2, <1>4, <1>5, <1>12, <1>13, <1>14, ArtifactFrame

\* The steps that change neither the store nor a callback keep the invariant.
LEMMA QuietFlowInv ==
  ASSUME IInv, UNCHANGED <<globalVerdict, store, stepPc, artPc, localRes>>,
         flow' = flow \/ flow' \notin {"setup", "setupFailed"} \/ flow = "setup"
  PROVE  FlowInv'
<1>1. \A t \in Steps : StepInv(t)'
  BY StepInvFrame DEF IInv, FlowInv, store
<1>2. \A t \in Steps : OrderInv(t)'
  BY DEF IInv, FlowInv, OrderInv, MayStart, MayStartOnArtifact, IsFinal, store
<1>3. SetUpInv'
  BY DEF IInv, FlowInv, SetUpInv, store
<1>4. QED BY <1>1, <1>2, <1>3 DEF IInv, FlowInv, store, IsFinal

\* The store and the callbacks of the steps never part (see FlowInv), for every
\* graph of steps and artifacts and whatever the constrains and the user's
\* functions come to.
THEOREM InductiveInvariant == Spec => []IInv
<1>1. Init => IInv
  BY TypeInit, FlowInvInit DEF IInv
<1>2. IInv /\ [Next]_vars => IInv'
  <2> SUFFICES ASSUME IInv, [Next]_vars PROVE FlowInv'
    BY TypeStep DEF IInv
  <2>1. CASE SetUp
    BY <2>1, SetUpFlowInv
  <2>2. CASE SetUpFails \/ RedisFails \/ Return \/ Flush
    BY <2>2, QuietFlowInv DEF SetUpFails, RedisFails, Return, Flush, onArtifactState
  <2>3. CASE EmptyTick \/ Terminated \/ UNCHANGED vars
    BY <2>3, QuietFlowInv DEF EmptyTick, Terminated, vars, store
  <2>4. CASE Deliver
    BY <2>4, DeliverFlowInv
  <2>5. CASE \E s \in Steps : OnStep(s)
    BY <2>5, OnStepFlowInv
  <2>6. CASE \E s \in Steps : BeforeAllEnds(s)
    BY <2>6, QuietFlowInv DEF BeforeAllEnds
  <2>7. CASE \E s \in Steps, x \in Artifacts : OnArtifact(s, x)
    BY <2>7, ArtifactSkipsFlowInv, ArtifactStartsFlowInv, ArtifactEndsFlowInv,
       AfterAllEndsFlowInv DEF OnArtifact
  <2>8. QED BY <2>1, <2>2, <2>3, <2>4, <2>5, <2>6, <2>7 DEF Next
<1>3. QED BY <1>1, <1>2, PTL DEF Spec

-----------------------------------------------------------------------------
(* What follows from the invariant.                                         *)

\* A step that is final has only final artifacts; one whose artifacts have
\* results of their own has the result they come to together.
LEMMA FinalStep ==
  ASSUME IInv, NEW s \in Steps, IsFinal(stepRes[s])
  PROVE  /\ \A x \in Artifacts : IsFinal(artRes[s][x])
         /\ IsWhole(s) => \A x \in Artifacts : artRes[s][x] = stepRes[s]
         /\ ~IsWhole(s) => stepRes[s] = StepResultOf(artRes[s])
<1>1. CASE IsWhole(s)
  BY <1>1 DEF IInv, FlowInv, StepInv, WholeInv
<1>2. CASE ~IsWhole(s)
  <2>1. /\ AllFinal(localRes[s]) /\ stepRes[s] = StepResultOf(localRes[s])
        /\ \A x \in Artifacts : localRes[s][x] = artRes[s][x]
    BY <1>2 DEF IInv, FlowInv, StepInv, ByArtifactInv, ArtifactInv
  <2>2. localRes[s] = artRes[s]
    BY <2>1 DEF IInv, TypeOK
  <2>3. QED BY <1>2, <2>1, <2>2 DEF AllFinal
<1>3. QED BY <1>1, <1>2

\* What a step believes of its artifacts is what the store holds of them, for
\* every graph: none of its own actions is ever dropped as late.
THEOREM LocalAgrees == Spec => []LocalAgreesWithStore
<1>1. IInv => LocalAgreesWithStore
  <2> SUFFICES ASSUME IInv, NEW s \in ArtifactSteps \cap Enabled PROVE localRes[s] = artRes[s]
    BY DEF LocalAgreesWithStore
  <2>1. s \in Steps /\ globalVerdict[s] = "shouldRun"
    BY DEF Enabled
  <2>2. \A x \in Artifacts : localRes[s][x] = artRes[s][x]
    BY <2>1 DEF IInv, FlowInv, StepInv, IsWhole, ByArtifactInv, ArtifactInv
  <2>3. QED BY <2>1, <2>2 DEF IInv, TypeOK
<1>2. QED BY <1>1, InductiveInvariant, PTL

\* No artifact is touched in a step before the parent steps are done with it,
\* for every graph of steps and artifacts.
THEOREM ParentsFirst == Spec => []ParentsFinishFirst
<1>1. IInv => ParentsFinishFirst
  <2> SUFFICES ASSUME IInv, NEW s \in Enabled, NEW p \in Steps, p \in StepAncestors[s]
               PROVE  /\ \A x \in Artifacts : artRes[s][x] # Scheduled => IsFinal(artRes[p][x])
                      /\ s \notin ArtifactSteps /\ stepRes[s] # Scheduled => IsFinal(stepRes[p])
    BY DEF ParentsFinishFirst
  <2>1. s \in Steps /\ globalVerdict[s] = "shouldRun" /\ StepInv(s) /\ OrderInv(s)
    BY DEF Enabled, IInv, FlowInv
  <2>2. CASE s \notin ArtifactSteps
    <3>1. WholeInv(s)
      BY <2>1, <2>2 DEF StepInv, IsWhole
    <3>2. stepRes[s] # Scheduled => IsFinal(stepRes[p])
      BY <2>1, <2>2, <3>1 DEF WholeInv, OrderInv, MayStart
    <3>3. QED BY <3>1, <3>2, FinalStep DEF WholeInv
  <2>3. CASE s \in ArtifactSteps
    <3>1. ASSUME NEW x \in Artifacts, artRes[s][x] # Scheduled PROVE artPc[s][x] # "waiting"
      BY <2>1, <2>3, <3>1 DEF StepInv, IsWhole, ByArtifactInv, ArtifactInv
    <3>2. QED BY <2>1, <2>3, <3>1 DEF OrderInv, MayStartOnArtifact
  <2>4. QED BY <2>2, <2>3
<1>2. QED BY <1>1, InductiveInvariant, PTL

\* A step with waitUntilArtifactParentsFinishedParentSteps does wait for them,
\* for every graph of steps and artifacts.
THEOREM ArtifactParentsFirst == Spec => []WaitsForArtifactParents
<1>1. IInv => WaitsForArtifactParents
  <2> SUFFICES ASSUME IInv, NEW s \in WaitSteps \cap Enabled, NEW x \in Artifacts,
                      artRes[s][x] # Scheduled
               PROVE  \A p \in StepParents[s], y \in ArtifactParents[x] : IsFinal(artRes[p][y])
    BY DEF WaitsForArtifactParents
  <2>1. /\ s \in Steps /\ s \in ArtifactSteps /\ globalVerdict[s] = "shouldRun"
        /\ StepInv(s) /\ OrderInv(s)
    BY StepsAssumption DEF Enabled, IInv, FlowInv
  <2>2. artPc[s][x] # "waiting"
    BY <2>1 DEF StepInv, IsWhole, ByArtifactInv, ArtifactInv
  <2>3. QED BY <2>1, <2>2 DEF OrderInv, MayStartOnArtifact
<1>2. QED BY <1>1, InductiveInvariant, PTL

\* When the store is marked finished no callback is at work, for every graph:
\* nothing is dispatched to the completed stream of actions.
THEOREM FinishedIsIdle == Spec => []FinishedMeansIdle
<1>1. IInv => FinishedMeansIdle
  <2> SUFFICES ASSUME IInv, flowFinished, NEW s \in Steps
               PROVE  /\ stepPc[s] \in {"waiting", "finished"}
                      /\ \A x \in Artifacts : artPc[s][x] \in {"waiting", "finished"}
    BY DEF FinishedMeansIdle
  <2>1. IsFinal(stepRes[s]) /\ StepInv(s) /\ \A x \in Artifacts : IsFinal(artRes[s][x])
    BY FinalStep DEF IInv, FlowInv
  <2>2. CASE IsWhole(s)
    BY <2>1, <2>2, ResultFacts DEF StepInv, WholeInv, IInv, TypeOK, Pc
  <2>3. CASE ~IsWhole(s)
    <3>1. \A x \in Artifacts : artPc[s][x] \notin {"running", "afterAll"} \cup Verdict
      BY <2>1, <2>3, ResultFacts DEF StepInv, ByArtifactInv, ArtifactInv
    <3>2. QED BY <2>3, <2>1, <3>1 DEF StepInv, ByArtifactInv, IInv, TypeOK, Pc
  <2>4. QED BY <2>2, <2>3
<1>2. QED BY <1>1, InductiveInvariant, PTL

\* The result of a step is the one its artifacts come to together, for every
\* number of artifacts and whatever the user's functions return.
THEOREM StepAgrees == Spec => []StepAgreesWithArtifacts
<1>1. IInv => StepAgreesWithArtifacts
  <2> SUFFICES ASSUME IInv, NEW s \in Steps, IsFinal(stepRes[s])
               PROVE  /\ \A x \in Artifacts : IsFinal(artRes[s][x])
                      /\ Artifacts # {} =>
                           /\ IsAborted(stepRes[s]) <=> \A x \in Artifacts : IsAborted(artRes[s][x])
                           /\ stepRes[s].status = CombinedStatus({artRes[s][x].status : x \in Artifacts})
    BY DEF StepAgreesWithArtifacts
  <2>1. \A x \in Artifacts : IsFinal(artRes[s][x]) /\ artRes[s][x] \in FinalResult
    BY ZenonT(30), FinalStep, ResultFacts DEF IInv, TypeOK
  <2>2. stepRes[s] \in FinalResult
    BY ResultFacts DEF IInv, TypeOK
  <2> SUFFICES ASSUME Artifacts # {}
               PROVE  /\ IsAborted(stepRes[s]) <=> \A x \in Artifacts : IsAborted(artRes[s][x])
                      /\ stepRes[s].status = CombinedStatus({artRes[s][x].status : x \in Artifacts})
    BY <2>1
  <2>3. CASE IsWhole(s)
    <3>1. \A x \in Artifacts : artRes[s][x] = stepRes[s]
      BY <2>3, FinalStep
    <3>2. {artRes[s][x].status : x \in Artifacts} = {stepRes[s].status}
      BY <3>1
    <3>3. QED BY <2>2, <3>1, <3>2, FinalFacts, CombinedStatusFacts
  <2>4. CASE ~IsWhole(s)
    <3>1. stepRes[s] = StepResultOf(artRes[s])
      BY <2>4, FinalStep
    <3>2. {artRes[s][x].status : x \in {y \in Artifacts : IsFinal(artRes[s][y])}}
            = {artRes[s][x].status : x \in Artifacts}
      BY <2>1
    <3>3. CombinedStatusOf(artRes[s]) = CombinedStatus({artRes[s][x].status : x \in Artifacts})
      BY <3>2 DEF CombinedStatusOf
    <3>4. CombinedStatusOf(artRes[s]) \in Status
      <4>1. {artRes[s][x].status : x \in Artifacts} \subseteq Status
        BY <2>1, FinalFacts
      <4>2. QED BY <3>3, <4>1, CombinedStatusFacts
    <3>5. QED BY <3>1, <3>3, <3>4, FinalFacts DEF StepResultOf, AllAborted
  <2>5. QED BY <2>3, <2>4
<1>2. QED BY <1>1, InductiveInvariant, PTL

-----------------------------------------------------------------------------
(* What is published, and what the cache holds in the end.                  *)

\* The news are about steps and artifacts that are not final.
IsFresh(stepNews, artNews) ==
  /\ \A s \in DOMAIN stepNews : ~IsFinal(stepRes[s])
  /\ \A s \in Steps, x \in Artifacts : <<s, x>> \in DOMAIN artNews => ~IsFinal(artRes[s][x])

\* The two kinds of news the turns of a running step dispatch.
LEMMA FreshIfNotFinal ==
  /\ IsFresh(None, None)
  /\ \A s \in Steps, r \in Result :
       /\ ~IsFinal(stepRes[s]) => IsFresh(Only(s, r), None)
       /\ ~IsFinal(stepRes[s]) /\ (\A x \in Artifacts : ~IsFinal(artRes[s][x]))
            => IsFresh(Only(s, r), OnAllArtifacts(s, r))
  /\ \A s \in Steps, x \in Artifacts, r \in Result, q \in Result :
       ~IsFinal(artRes[s][x]) =>
         /\ IsFresh(None, Only(<<s, x>>, r))
         /\ ~IsFinal(stepRes[s]) => IsFresh(Only(s, q), Only(<<s, x>>, r))
BY DEF IsFresh, None, Only, OnAllArtifacts

\* A delivery aborts only what is still scheduled.
LEMMA DeliverFresh ==
  ASSUME IInv, Deliver
  PROVE  \E sn, an : IsNews(sn, an) /\ Dispatch(sn, an) /\ IsFresh(sn, an)
<1> DEFINE aborted == GloballySkipped \cup WithoutArtifacts(Head(inflight))
           verdict(s) == IF s \in GloballySkipped THEN globalVerdict[s] ELSE "skippedAsPassed"
           sn == [s \in aborted |-> Aborted(verdict(s))]
           an == [x \in aborted \X Artifacts |-> Aborted(verdict(x[1]))]
<1>1. aborted \subseteq Steps /\ \A s \in aborted : verdict(s) \in Status
  BY StepsAssumption, VerdictStatus, StatusFacts DEF GloballySkipped, WithoutArtifacts, IInv, TypeOK
<1>2. IsNews(sn, an)
  BY <1>1, ResultFacts, FinalFacts DEF IsNews
<1>3. \A s \in aborted : IsWhole(s) /\ stepPc[s] = "waiting"
  BY DEF GloballySkipped, WithoutArtifacts, IsWhole
<1>4. \A s \in aborted : /\ stepRes[s] = Scheduled
                         /\ \A x \in Artifacts : artRes[s][x] = Scheduled
  BY <1>1, <1>3 DEF IInv, FlowInv, StepInv, WholeInv
<1>5. IsFresh(sn, an)
  BY <1>4, ResultFacts DEF IsFresh
<1>6. Dispatch(sn, an)
  BY DEF Deliver
<1>7. QED BY <1>2, <1>5, <1>6

\* A turn of a whole step is about a step that is scheduled or runs.
LEMMA OnStepFresh ==
  ASSUME IInv, NEW s \in Steps, OnStep(s)
  PROVE  \E sn, an : IsNews(sn, an) /\ Dispatch(sn, an) /\ IsFresh(sn, an)
<1>1. \E r \in Result : Dispatch(Only(s, r), OnAllArtifacts(s, r))
  BY ResultFacts, FinalFacts, VerdictStatus, StepsAssumption DEF OnStep, StepSkips, StepStarts, StepEnds
<1>2. stepPc[s] \in {"running"} \cup Verdict
  BY DEF OnStep, StepSkips, StepStarts, StepEnds, StepConstrained
<1>3. WholeInv(s)
  BY <1>2 DEF IInv, FlowInv, StepInv, ByArtifactInv, Verdict
<1>4. ~IsFinal(stepRes[s]) /\ \A x \in Artifacts : ~IsFinal(artRes[s][x])
  BY <1>2, <1>3, ResultFacts DEF WholeInv
<1>5. QED BY <1>1, <1>4, NewsType, FreshIfNotFinal

\* A turn of an artifact is about an artifact, or a step, that is not final.
LEMMA OnArtifactFresh ==
  ASSUME IInv, NEW s \in Steps, NEW x \in Artifacts, OnArtifact(s, x)
  PROVE  \E sn, an : IsNews(sn, an) /\ Dispatch(sn, an) /\ IsFresh(sn, an)
<1>1. artPc[s][x] \in {"running", "afterAll"} \cup Verdict
  BY DEF OnArtifact, ArtifactSkips, ArtifactStarts, ArtifactEnds, AfterAllEnds, ArtifactConstrained
<1>2. ByArtifactInv(s)
  BY <1>1, AwakeByArtifact DEF Verdict
<1>3. ~IsFinal(stepRes[s]) /\ (artPc[s][x] # "afterAll" => ~IsFinal(artRes[s][x]))
  BY <1>1, <1>2, ResultFacts DEF ByArtifactInv, ArtifactInv, AllFinal
<1>4. CASE ArtifactSkips(s, x)
  <2>1. PICK v \in Verdict \ {"shouldRun"} :
          /\ localRes' = [localRes EXCEPT ![s][x] = Aborted(v)]
          /\ \E news \in {Only(s, StepResultOf(localRes'[s])), None} :
               Dispatch(news, Only(<<s, x>>, Aborted(v)))
    BY <1>4 DEF ArtifactSkips
  <2>2. Aborted(v) \in Result
    BY VerdictStatus, FinalFacts, ResultFacts
  <2>3. StepResultOf(localRes'[s]) \in Result
    BY <2>1, <2>2, StepResultType, ResultFacts DEF IInv, TypeOK
  <2>4. artPc[s][x] # "afterAll"
    BY <1>4 DEF ArtifactSkips, ArtifactConstrained, Verdict
  <2>5. QED BY <1>3, <2>1, <2>2, <2>3, <2>4, NewsType, FreshIfNotFinal
<1>5. CASE ArtifactStarts(s, x)
  <2>1. \E news \in {Only(s, Running), None} : Dispatch(news, Only(<<s, x>>, Running))
    BY <1>5 DEF ArtifactStarts
  <2>2. artPc[s][x] # "afterAll"
    BY <1>5 DEF ArtifactStarts, ArtifactConstrained, Verdict
  <2>3. QED BY <1>3, <2>1, <2>2, NewsType, FreshIfNotFinal, ResultFacts
<1>6. CASE ArtifactEnds(s, x)
  <2>1. \E r \in Result : Dispatch(None, Only(<<s, x>>, r))
    BY <1>6, StepsAssumption, ResultFacts DEF ArtifactEnds
  <2>2. artPc[s][x] # "afterAll"
    BY <1>6 DEF ArtifactEnds
  <2>3. QED BY <1>3, <2>1, <2>2, NewsType, FreshIfNotFinal
<1>7. CASE AfterAllEnds(s, x)
  <2>1. StepResultOf(localRes[s]) \in Result
    BY StepResultType, ResultFacts DEF IInv, TypeOK
  <2>2. \E news \in {Only(s, StepResultOf(localRes[s])), None} : Dispatch(news, None)
    BY <1>7 DEF AfterAllEnds
  <2>3. QED BY <1>3, <2>1, <2>2, NewsType, FreshIfNotFinal
<1>8. QED BY <1>4, <1>5, <1>6, <1>7 DEF OnArtifact

\* Setting up announces steps that are scheduled.
LEMMA SetUpFresh ==
  ASSUME IInv, SetUp
  PROVE  LET sn == [s \in Steps |-> Scheduled]
             an == [x \in Steps \X Artifacts |-> Scheduled]
         IN IsNews(sn, an) /\ Dispatch(sn, an) /\ IsFresh(sn, an)
BY ResultFacts DEF SetUp, IsNews, IsFresh, IInv, FlowInv, SetUpInv

\* Every step of the flow dispatches fresh news or leaves the store alone and
\* publishes nothing.
LEMMA EveryTurnIsFresh ==
  ASSUME IInv, [Next]_vars
  PROVE  \/ \E sn, an : IsNews(sn, an) /\ Dispatch(sn, an) /\ IsFresh(sn, an)
         \/ UNCHANGED store /\ buffer' \subseteq buffer
<1>1. CASE \/ SetUpFails \/ Flush \/ EmptyTick \/ RedisFails \/ Return \/ Terminated
           \/ UNCHANGED vars \/ \E s \in Steps : BeforeAllEnds(s)
  BY <1>1 DEF SetUpFails, Flush, EmptyTick, RedisFails, Return, Terminated, vars, BeforeAllEnds, store
<1>2. CASE SetUp
  BY <1>2, SetUpFresh
<1>3. CASE Deliver
  BY <1>3, DeliverFresh
<1>4. CASE \E s \in Steps : OnStep(s)
  BY <1>4, OnStepFresh
<1>5. CASE \E s \in Steps, x \in Artifacts : OnArtifact(s, x)
  BY <1>5, OnArtifactFresh
<1>6. QED BY <1>1, <1>2, <1>3, <1>4, <1>5 DEF Next

\* At most one final event is published about a step, and about an artifact in
\* a step, for every graph and every verdict of the constrains.
THEOREM OneFinalEvent == Spec => NothingPublishedAfterFinal
<1>1. ASSUME IInv, [Next]_vars PROVE PublishesOnlyNews
  <2>1. CASE UNCHANGED store /\ buffer' \subseteq buffer
    BY <2>1 DEF PublishesOnlyNews
  <2>2. CASE \E sn, an : IsNews(sn, an) /\ Dispatch(sn, an) /\ IsFresh(sn, an)
    <3>1. PICK sn, an : IsNews(sn, an) /\ Dispatch(sn, an) /\ IsFresh(sn, an)
      BY <2>2
    <3>2. buffer' \ buffer \subseteq ActionsAbout(sn, an)
      BY <3>1 DEF Dispatch
    <3>3. ASSUME NEW act \in ActionsAbout(sn, an)
          PROVE  \/ \E s \in DOMAIN sn : act = StepAction(s, sn[s])
                 \/ \E s \in Steps, x \in Artifacts :
                      <<s, x>> \in DOMAIN an /\ act = ArtifactAction(s, x, an[<<s, x>>])
      BY <3>1 DEF ActionsAbout, IsNews
    <3>4. ASSUME NEW act \in ActionsAbout(sn, an)
          PROVE  /\ act.type = "step" => ~IsFinal(stepRes[act.step])
                 /\ act.type = "artifactStep" => ~IsFinal(artRes[act.step][act.artifact])
      <4>1. CASE \E s \in DOMAIN sn : act = StepAction(s, sn[s])
        <5>1. PICK s \in DOMAIN sn : act = StepAction(s, sn[s])
          BY <4>1
        <5>2. act.type = "step" /\ act.step = s
          BY <5>1 DEF StepAction
        <5>3. QED BY <3>1, <5>2 DEF IsFresh
      <4>2. CASE \E s \in Steps, x \in Artifacts :
                   <<s, x>> \in DOMAIN an /\ act = ArtifactAction(s, x, an[<<s, x>>])
        <5>1. PICK s \in Steps, x \in Artifacts :
                <<s, x>> \in DOMAIN an /\ act = ArtifactAction(s, x, an[<<s, x>>])
          BY <4>2
        <5>2. act.type = "artifactStep" /\ act.step = s /\ act.artifact = x
          BY <5>1 DEF ArtifactAction
        <5>3. QED BY <3>1, <5>1, <5>2 DEF IsFresh
      <4>3. QED BY <3>3, <4>1, <4>2
    <3>5. QED BY <3>2, <3>4 DEF PublishesOnlyNews
  <2>3. QED BY <1>1, <2>1, <2>2, EveryTurnIsFresh
<1>2. QED BY <1>1, InductiveInvariant, PTL DEF Spec, NothingPublishedAfterFinal

\* Whatever the store holds is in redis, or will be at the next tick.
NothingForgotten ==
  flow \notin {"setup", "setupFailed"} => \A s \in Steps :
    /\ stepRes[s] \in stepCache[s] \/ StepAction(s, stepRes[s]) \in buffer
    /\ \A x \in Artifacts : \/ artRes[s][x] \in artCache[s][x]
                            \/ ArtifactAction(s, x, artRes[s][x]) \in buffer

\* runAllSteps returns when every step is final and nothing is buffered.
ReturnedComplete == flow = "finished" => flowFinished /\ buffer = {}

\* The news that reach the store reach the buffer.
LEMMA NewsAreBuffered ==
  ASSUME IInv, NothingForgotten, flow \notin {"setup", "setupFailed"}, UNCHANGED redis,
         NEW sn, NEW an, IsNews(sn, an), Dispatch(sn, an), IsFresh(sn, an)
  PROVE  NothingForgotten'
<1> SUFFICES ASSUME NEW s \in Steps
             PROVE  /\ stepRes'[s] \in stepCache[s] \/ StepAction(s, stepRes'[s]) \in buffer'
                    /\ \A x \in Artifacts : \/ artRes'[s][x] \in artCache[s][x]
                                            \/ ArtifactAction(s, x, artRes'[s][x]) \in buffer'
  BY DEF NothingForgotten, redis, StepAction, ArtifactAction
<1>1. buffer \subseteq buffer' /\ (~flowFinished => ActionsAbout(sn, an) \subseteq buffer')
  BY DEF Dispatch
<1>2. /\ stepRes[s] \in stepCache[s] \/ StepAction(s, stepRes[s]) \in buffer
      /\ \A x \in Artifacts : \/ artRes[s][x] \in artCache[s][x]
                              \/ ArtifactAction(s, x, artRes[s][x]) \in buffer
  BY DEF NothingForgotten
<1>3. stepRes'[s] \in stepCache[s] \/ StepAction(s, stepRes'[s]) \in buffer'
  <2>1. CASE stepRes'[s] = stepRes[s]
    BY <1>1, <1>2, <2>1
  <2>2. CASE stepRes'[s] # stepRes[s]
    <3>1. s \in DOMAIN sn /\ stepRes'[s] = sn[s]
      BY <2>2, DispatchEffect DEF IInv, Reduced
    <3>2. ~flowFinished
      BY <3>1 DEF IsFresh, IInv, FlowInv
    <3>3. StepAction(s, sn[s]) \in ActionsAbout(sn, an)
      BY <3>1 DEF ActionsAbout
    <3>4. QED BY <1>1, <3>1, <3>2, <3>3
  <2>3. QED BY <2>1, <2>2
<1>4. ASSUME NEW x \in Artifacts
      PROVE  artRes'[s][x] \in artCache[s][x] \/ ArtifactAction(s, x, artRes'[s][x]) \in buffer'
  <2>1. CASE artRes'[s][x] = artRes[s][x]
    BY <1>1, <1>2, <2>1
  <2>2. CASE artRes'[s][x] # artRes[s][x]
    <3>1. <<s, x>> \in DOMAIN an /\ artRes'[s][x] = an[<<s, x>>]
      <4>1. <<s, x>> \in DOMAIN an
        BY <2>2, DispatchEffect DEF IInv
      <4>2. artRes'[s][x] = Reduced(artRes[s][x], an[<<s, x>>])
        BY <4>1, DispatchEffect DEF IInv
      <4>3. QED BY <2>2, <4>1, <4>2 DEF Reduced
    <3>2. ~IsFinal(stepRes[s])
      BY <3>1, FinalStep DEF IsFresh
    <3>3. ~flowFinished
      BY <3>2 DEF IInv, FlowInv
    <3>4. ArtifactAction(s, x, an[<<s, x>>]) \in ActionsAbout(sn, an)
      <4>1. ArtifactAction(s, x, an[<<s, x>>])
              = ArtifactAction(<<s, x>>[1], <<s, x>>[2], an[<<s, x>>])
        OBVIOUS
      <4>2. QED BY <3>1, <4>1 DEF ActionsAbout
    <3>5. QED BY <1>1, <3>1, <3>3, <3>4
  <2>3. QED BY <2>1, <2>2
<1>5. QED BY <1>3, <1>4

\* The first announcement of every step and artifact is buffered.
LEMMA SetUpIsBuffered ==
  ASSUME IInv, SetUp
  PROVE  NothingForgotten'
<1> DEFINE sn == [s \in Steps |-> Scheduled]
           an == [x \in Steps \X Artifacts |-> Scheduled]
<1>1. IsNews(sn, an) /\ Dispatch(sn, an)
  BY SetUpFresh
<1>2. SetUpInv /\ flow = "setup"
  BY DEF IInv, FlowInv, SetUp
<1> SUFFICES ASSUME NEW s \in Steps
             PROVE  /\ StepAction(s, stepRes'[s]) \in buffer'
                    /\ \A x \in Artifacts : ArtifactAction(s, x, artRes'[s][x]) \in buffer'
  BY DEF NothingForgotten, StepAction, ArtifactAction
<1>3. ~flowFinished
  BY <1>2, ResultFacts DEF IInv, FlowInv, SetUpInv
<1>4. ActionsAbout(sn, an) \subseteq buffer'
  BY <1>1, <1>3 DEF Dispatch
<1>5. StepAction(s, stepRes'[s]) \in buffer'
  <2>1. s \in DOMAIN sn /\ sn[s] = Scheduled
    OBVIOUS
  <2>2. stepRes'[s] = Scheduled
    BY <1>1, <1>2, <2>1, DispatchEffect, ReducedFacts DEF IInv, SetUpInv
  <2>3. StepAction(s, sn[s]) \in ActionsAbout(sn, an)
    BY <2>1 DEF ActionsAbout
  <2>4. QED BY <1>4, <2>1, <2>2, <2>3
<1>6. ASSUME NEW x \in Artifacts PROVE ArtifactAction(s, x, artRes'[s][x]) \in buffer'
  <2>1. <<s, x>> \in DOMAIN an /\ an[<<s, x>>] = Scheduled
    OBVIOUS
  <2>2. artRes'[s][x] = Reduced(artRes[s][x], an[<<s, x>>])
    BY <1>1, <2>1, DispatchEffect DEF IInv
  <2>3. artRes'[s][x] = Scheduled
    BY <1>2, <2>1, <2>2, ReducedFacts DEF SetUpInv
  <2>4. ArtifactAction(s, x, an[<<s, x>>]) \in ActionsAbout(sn, an)
    <3>1. ArtifactAction(s, x, an[<<s, x>>])
            = ArtifactAction(<<s, x>>[1], <<s, x>>[2], an[<<s, x>>])
      OBVIOUS
    <3>2. QED BY <2>1, <3>1 DEF ActionsAbout
  <2>5. QED BY <1>4, <2>1, <2>3, <2>4
<1>7. QED BY <1>5, <1>6

\* The tick takes everything from the buffer to redis.
LEMMA FlushForgetsNothing ==
  ASSUME IInv, NothingForgotten, Flush
  PROVE  NothingForgotten'
<1> SUFFICES ASSUME NEW s \in Steps
             PROVE  /\ stepRes[s] \in stepCache'[s]
                    /\ \A x \in Artifacts : artRes[s][x] \in artCache'[s][x]
  BY DEF NothingForgotten, Flush, store, StepAction, ArtifactAction
<1>1. /\ stepRes[s] \in stepCache[s] \/ StepAction(s, stepRes[s]) \in buffer
      /\ \A x \in Artifacts : \/ artRes[s][x] \in artCache[s][x]
                              \/ ArtifactAction(s, x, artRes[s][x]) \in buffer
  BY DEF NothingForgotten, Flush
<1>2. stepRes[s] \in stepCache'[s]
  <2>1. stepCache'[s] = stepCache[s] \cup
          {act.result : act \in {b \in buffer : b.type = "step" /\ b.step = s}}
    BY DEF Flush
  <2>2. /\ StepAction(s, stepRes[s]).type = "step" /\ StepAction(s, stepRes[s]).step = s
        /\ StepAction(s, stepRes[s]).result = stepRes[s]
    BY DEF StepAction
  <2>3. CASE StepAction(s, stepRes[s]) \in buffer
    BY <2>1, <2>2, <2>3
  <2>4. QED BY <1>1, <2>1, <2>3
<1>3. ASSUME NEW x \in Artifacts PROVE artRes[s][x] \in artCache'[s][x]
  <2>1. artCache'[s][x] = artCache[s][x] \cup
          {act.result : act \in {b \in buffer : /\ b.type = "artifactStep"
                                                /\ b.step = s
                                                /\ b.artifact = x}}
    BY DEF Flush
  <2> DEFINE about == ArtifactAction(s, x, artRes[s][x])
  <2>2. /\ about.type = "artifactStep" /\ about.step = s /\ about.artifact = x
        /\ about.result = artRes[s][x]
    BY DEF ArtifactAction
  <2>3. CASE about \in buffer
    BY <2>1, <2>2, <2>3
  <2>4. QED BY <1>1, <2>1, <2>3
<1>4. QED BY <1>2, <1>3

\* The cache is complete when runAllSteps has returned, and it has returned
\* only after every step was final (see NothingForgotten and ReturnedComplete).
LEMMA CompleteInvariant == Spec => [](IInv /\ NothingForgotten /\ ReturnedComplete)
<1> DEFINE Complete == NothingForgotten /\ ReturnedComplete
<1>1. Init => Complete
  BY DEF Init, NothingForgotten, ReturnedComplete
<1>2. IInv /\ Complete /\ [Next]_vars => Complete'
  <2> SUFFICES ASSUME IInv, Complete, [Next]_vars PROVE Complete'
    OBVIOUS
  <2>1. CASE SetUp
    BY <2>1, SetUpIsBuffered DEF SetUp, ReturnedComplete
  <2>2. CASE Flush
    BY <2>2, FlushForgetsNothing DEF Flush, ReturnedComplete
  <2>3. CASE \/ SetUpFails \/ EmptyTick \/ RedisFails \/ Return \/ Terminated
             \/ UNCHANGED vars \/ \E s \in Steps : BeforeAllEnds(s)
    <3>1. UNCHANGED <<store, buffer, redis>>
      BY <2>3 DEF SetUpFails, EmptyTick, RedisFails, Return, Terminated, vars, BeforeAllEnds, store, redis
    <3>2. flow' \in {"setup", "setupFailed"} \/ flow \notin {"setup", "setupFailed"}
      BY <2>3 DEF SetUpFails, EmptyTick, RedisFails, Return, Terminated, vars, BeforeAllEnds, Fatal
    <3>3. NothingForgotten'
      BY <3>1, <3>2, <2>3 DEF NothingForgotten, store, redis, StepAction, ArtifactAction,
         SetUpFails, EmptyTick, RedisFails, Return, Terminated, vars, BeforeAllEnds
    <3>4. flow' = "finished" => Return \/ flow = "finished"
      BY <2>3 DEF SetUpFails, EmptyTick, RedisFails, Terminated, vars, BeforeAllEnds
    <3>5. QED BY <3>1, <3>3, <3>4 DEF ReturnedComplete, Return, store
  <2>4. CASE Deliver \/ (\E s \in Steps : OnStep(s)) \/ (\E s \in Steps, x \in Artifacts : OnArtifact(s, x))
    <3>1. \E sn, an : IsNews(sn, an) /\ Dispatch(sn, an) /\ IsFresh(sn, an)
      BY <2>4, DeliverFresh, OnStepFresh, OnArtifactFresh
    <3>2. flow = "running" /\ flow' # "finished" /\ UNCHANGED redis
      BY ZenonT(30), <2>4 DEF Deliver, OnStep, StepSkips, StepStarts, StepEnds, StepConstrained, OnArtifact,
         ArtifactSkips, ArtifactStarts, ArtifactEnds, AfterAllEnds, ArtifactConstrained
    <3>3. QED BY <3>1, <3>2, NewsAreBuffered DEF ReturnedComplete
  <2>5. QED BY <2>1, <2>2, <2>3, <2>4 DEF Next
<1>3. QED BY <1>1, <1>2, InductiveInvariant, PTL DEF Spec

\* When the flow has returned, redis holds every final result, for every graph:
\* the next flow, and the reports, can rely on it.
THEOREM CacheComplete == Spec => []CacheHoldsEveryResult
<1>1. NothingForgotten /\ ReturnedComplete => CacheHoldsEveryResult
  BY DEF NothingForgotten, ReturnedComplete, CacheHoldsEveryResult
<1>2. QED BY <1>1, CompleteInvariant, PTL

-----------------------------------------------------------------------------
(* The end of the flow.                                                     *)

\* In a repository that has artifacts, whatever the graph of the steps, a flow
\* exits with 1 exactly when some step did not pass.
THEOREM ExitCodeIsRight ==
  ASSUME Artifacts # {}
  PROVE  Spec => []ExitCodeTellsFailure
<1>1. ASSUME IInv, ReturnedComplete, StepAgreesWithArtifacts PROVE ExitCodeTellsFailure
  <2> SUFFICES ASSUME flow = "finished"
               PROVE  ExitCode = 1 <=> \E s \in Steps : ~DidPassOrSkippedAsPassed(stepRes[s].status)
    BY DEF ExitCodeTellsFailure
  <2> DEFINE statusesOf(s) == {artRes[s][x].status : x \in Artifacts}
             statuses == UNION {statusesOf(s) : s \in Steps}
  <2>1. \A s \in Steps : IsFinal(stepRes[s])
    BY <1>1 DEF IInv, FlowInv, ReturnedComplete
  <2>2. \A s \in Steps : statusesOf(s) \subseteq Status
    <3> SUFFICES ASSUME NEW s \in Steps, NEW x \in Artifacts PROVE artRes[s][x].status \in Status
      OBVIOUS
    <3>1. IsFinal(artRes[s][x]) /\ artRes[s][x] \in Result
      BY <1>1, <2>1 DEF StepAgreesWithArtifacts, IInv, TypeOK
    <3>2. QED BY <3>1, ResultFacts, FinalFacts
  <2>3. \A s \in Steps : stepRes[s].status = CombinedStatus(statusesOf(s))
    BY <1>1, <2>1, Artifacts # {} DEF StepAgreesWithArtifacts
  <2>4. statuses \in SUBSET Status
    BY <2>2
  <2>5. ExitCode = IF DidPassOrSkippedAsPassed(CombinedStatus(statuses)) THEN 0 ELSE 1
    <3> DEFINE counted(s) == IF IsFinal(stepRes[s]) THEN statusesOf(s) ELSE {"failed"}
    <3>1. \A s \in Steps : counted(s) = statusesOf(s)
      BY <2>1
    <3>2. UNION {counted(s) : s \in Steps} = statuses
      <4> HIDE DEF counted, statusesOf
      <4>1. {counted(s) : s \in Steps} = {statusesOf(s) : s \in Steps}
        BY <3>1
      <4>2. QED BY <4>1
    <3>3. ExitCode = IF DidPassOrSkippedAsPassed(CombinedStatus(UNION {counted(s) : s \in Steps}))
                     THEN 0 ELSE 1
      BY DEF ExitCode
    <3>4. QED BY <3>2, <3>3
  <2>6. ExitCode = 1 <=> statuses \cap {"failed", "skippedAsFailed"} # {}
    BY SMTT(30), <2>4, <2>5, CombinedPass
  <2>7. \A s \in Steps : ~DidPassOrSkippedAsPassed(stepRes[s].status)
                           <=> statusesOf(s) \cap {"failed", "skippedAsFailed"} # {}
    BY <2>2, <2>3, CombinedPass
  <2>8. statuses \cap {"failed", "skippedAsFailed"} # {}
          <=> \E s \in Steps : statusesOf(s) \cap {"failed", "skippedAsFailed"} # {}
    <3> HIDE DEF statusesOf
    <3>1. \A st : st \in statuses <=> \E s \in Steps : st \in statusesOf(s)
      OBVIOUS
    <3>2. QED BY <3>1
  <2>9. QED BY <2>6, <2>7, <2>8
<1>2. QED BY <1>1, CompleteInvariant, StepAgrees, PTL

\* Expected results never combine to one the engine takes for impossible.
LEMMA ExpectedNeverClash ==
  ASSUME Artifacts # {}, NEW results \in [Artifacts -> ExpectedResults]
  PROVE  /\ ~CantBeHereAfterSkip(results)
         /\ ~CantBeHere9(results)
         /\ ~CantBeHere10(results)
<1> DEFINE S == {results[x].status : x \in Artifacts}
<1>1. \A r \in ExpectedResults :
        /\ IsFinal(r)
        /\ IsAborted(r) <=> r.status \in {"skippedAsPassed", "skippedAsFailed"}
        /\ ~IsAborted(r) <=> r.status \in {"passed", "failed"}
  BY DEF ExpectedResults, IsFinal, IsAborted, Done, Aborted
<1>2. CombinedStatusOf(results) = CombinedStatus(S)
  <2>1. {x \in Artifacts : IsFinal(results[x])} = Artifacts
    BY <1>1
  <2>2. QED BY <2>1 DEF CombinedStatusOf
<1>3. S \subseteq {"passed", "failed", "skippedAsPassed", "skippedAsFailed"}
  BY <1>1
<1>4. CASE AllAborted(results)
  <2>1. S \subseteq {"skippedAsPassed", "skippedAsFailed"}
    BY <1>1, <1>4 DEF AllAborted
  <2>2. CombinedStatus(S) \in {"skippedAsPassed", "skippedAsFailed"}
    BY <2>1 DEF CombinedStatus
  <2>3. QED BY <1>2, <1>4, <2>2 DEF CantBeHereAfterSkip, CantBeHere9, CantBeHere10
<1>5. CASE ~AllAborted(results)
  <2>1. S \cap {"passed", "failed"} # {}
    BY <1>1, <1>5 DEF AllAborted
  <2>2. CombinedStatus(S) \in {"passed", "failed"}
    BY <1>3, <2>1 DEF CombinedStatus
  <2>3. QED BY <1>2, <1>5, <2>2 DEF CantBeHereAfterSkip, CantBeHere9, CantBeHere10
<1>6. QED BY <1>4, <1>5

\* Results that clash hold one that is not expected.
LEMMA ClashIsOdd ==
  ASSUME Artifacts # {}, NEW results \in [Artifacts -> Result],
         CantBeHereAfterSkip(results) \/ CantBeHere9(results) \/ CantBeHere10(results)
  PROVE  \E x \in Artifacts : results[x] \notin ExpectedResults
<1> SUFFICES ASSUME \A x \in Artifacts : results[x] \in ExpectedResults PROVE FALSE
  OBVIOUS
<1>1. results \in [Artifacts -> ExpectedResults]
  OBVIOUS
<1>2. QED BY <1>1, ExpectedNeverClash

\* Step s cannot say what its artifacts came to, and one of them came to an odd result.
LeftOpen(s) ==
  /\ ~IsFinal(stepRes[s]) /\ \A x \in Artifacts : IsFinal(artRes[s][x])
  /\ \E x \in Artifacts : artRes[s][x] \notin ExpectedResults

\* A turn of an artifact that raises one of the errors leaves its step open.
LEMMA RaisedLeavesOpen ==
  ASSUME IInv, IInv', NEW s \in Steps, NEW x \in Artifacts,
         ArtifactSkips(s, x) \/ AfterAllEnds(s, x), ~NeverCantBeHere'
  PROVE  s \in ArtifactSteps \cap Enabled' /\ LeftOpen(s)'
<1>1. flow = "running" /\ artPc[s][x] # "waiting" /\ artPc'[s][x] = "finished" /\ UNCHANGED globalVerdict
  BY DEF ArtifactSkips, AfterAllEnds, ArtifactConstrained, Verdict, IInv, TypeOK
<1>2. ~IsWhole(s) /\ ByArtifactInv(s)
  BY <1>1, AwakeByArtifact
<1>3. ByArtifactInv(s)'
  BY <1>1 DEF IInv, FlowInv, StepInv, WholeInv
<1>4. localRes'[s] \in [Artifacts -> Result] /\ artRes'[s] = localRes'[s]
  <2>1. localRes'[s] \in [Artifacts -> Result] /\ artRes'[s] \in [Artifacts -> Result]
    BY DEF IInv, TypeOK
  <2>2. \A y \in Artifacts : localRes'[s][y] = artRes'[s][y]
    BY <1>3 DEF ByArtifactInv, ArtifactInv
  <2>3. QED BY <2>1, <2>2
<1>5. /\ ~IsFinal(stepRes[s]) /\ AllFinal(localRes'[s])
      /\ \/ CantBeHereAfterSkip(localRes'[s])
         \/ CantBeHere9(localRes'[s]) \/ CantBeHere10(localRes'[s])
      /\ \E an : Dispatch(None, an)
  <2>1. CASE ArtifactSkips(s, x)
    <3>1. localRes[s][x] = Scheduled /\ ~IsFinal(Scheduled)
      BY <1>2, <2>1, ResultFacts DEF ArtifactSkips, ArtifactConstrained, ByArtifactInv, ArtifactInv
    <3>2. ~IsFinal(stepRes[s])
      BY <1>2, <3>1 DEF ByArtifactInv, AllFinal
    <3>3. AllFinal(localRes'[s]) /\ CantBeHereAfterSkip(localRes'[s])
      BY <1>1, <2>1 DEF ArtifactSkips, NeverCantBeHere
    <3>4. \E an : Dispatch(None, an)
      BY <2>1, <3>3 DEF ArtifactSkips
    <3>5. QED BY <3>2, <3>3, <3>4
  <2>2. CASE AfterAllEnds(s, x)
    <3>1. ~IsFinal(stepRes[s]) /\ AllFinal(localRes[s]) /\ localRes' = localRes
      BY <1>2, <2>2 DEF AfterAllEnds, ByArtifactInv
    <3>2. flow' # "running"
      BY DEF NeverCantBeHere
    <3>3. CantBeHere9(localRes[s]) \/ CantBeHere10(localRes[s])
      BY <2>2, <3>2 DEF AfterAllEnds
    <3>4. Dispatch(None, None)
      BY <2>2, <3>2 DEF AfterAllEnds
    <3>5. QED BY <3>1, <3>3, <3>4
  <2>3. QED BY <2>1, <2>2
<1>6. stepRes'[s] = stepRes[s]
  BY <1>5 DEF Dispatch, None
<1>7. \E y \in Artifacts : artRes'[s][y] \notin ExpectedResults
  BY <1>4, <1>5, ClashIsOdd
<1>8. s \in ArtifactSteps \cap Enabled'
  BY <1>1, <1>2 DEF IsWhole, Enabled
<1>9. QED BY <1>4, <1>5, <1>6, <1>7, <1>8 DEF LeftOpen, AllFinal

\* Whatever the functions of the user come to, for every graph of steps and artifacts: a
\* flow fails with "we can't be here" only in a step that was given, of one of its
\* artifacts, a result that is not one of the four expected.
THEOREM OnlyOddResults == Spec => []OnlyOddResultsCantBeHere
<1>1. Init => OnlyOddResultsCantBeHere
  BY DEF Init, OnlyOddResultsCantBeHere, NeverCantBeHere
<1>2. IInv /\ IInv' /\ OnlyOddResultsCantBeHere /\ [Next]_vars => OnlyOddResultsCantBeHere'
  <2> SUFFICES ASSUME IInv, IInv', OnlyOddResultsCantBeHere, [Next]_vars, ~NeverCantBeHere'
               PROVE  \E s \in ArtifactSteps \cap Enabled' : LeftOpen(s)'
    BY DEF OnlyOddResultsCantBeHere, LeftOpen
  <2>1. CASE ~NeverCantBeHere
    <3>1. flow \notin {"setup", "running"}
      BY <2>1 DEF NeverCantBeHere
    <3>2. ~(SetUp \/ SetUpFails \/ Flush \/ EmptyTick \/ RedisFails \/ Deliver \/ Return)
      BY <3>1 DEF SetUp, SetUpFails, Flush, EmptyTick, RedisFails, Deliver, Return
    <3>3. \A s \in Steps : ~OnStep(s) /\ ~BeforeAllEnds(s)
      BY <3>1 DEF OnStep, StepSkips, StepStarts, StepEnds, StepConstrained, BeforeAllEnds
    <3>4. \A s \in Steps, x \in Artifacts : ~OnArtifact(s, x)
      BY <3>1 DEF OnArtifact, ArtifactSkips, ArtifactStarts, ArtifactEnds, AfterAllEnds, ArtifactConstrained
    <3>5. UNCHANGED vars
      BY <3>2, <3>3, <3>4 DEF Next, Terminated
    <3>6. \E s \in ArtifactSteps \cap Enabled : LeftOpen(s)
      BY <2>1 DEF OnlyOddResultsCantBeHere, LeftOpen
    <3>7. QED BY <3>5, <3>6 DEF vars, Enabled, LeftOpen
  <2>2. CASE NeverCantBeHere
    <3>1. PICK s \in Steps, x \in Artifacts : ArtifactSkips(s, x) \/ AfterAllEnds(s, x)
      BY ZenonT(30), <2>2 DEF NeverCantBeHere, vars, Next, SetUp, SetUpFails, Flush, EmptyTick, RedisFails, Deliver,
         OnStep, StepSkips, StepStarts, StepEnds, BeforeAllEnds, OnArtifact,
         ArtifactStarts, ArtifactEnds, Return, Terminated
    <3>2. s \in ArtifactSteps \cap Enabled' /\ LeftOpen(s)'
      BY <3>1, RaisedLeavesOpen
    <3>3. QED BY <3>2
  <2>3. QED BY <2>1, <2>2
<1>3. QED BY <1>1, <1>2, InductiveInvariant, PTL DEF Spec

-----------------------------------------------------------------------------
(* The engine implements FlowPromise.                                       *)

\* Both modules speak of the same statuses.
LEMMA SameStatuses ==
  /\ Promise!Scheduled = Scheduled /\ Promise!Running = Running
  /\ Promise!FinalResult = FinalResult
  /\ \A r : Promise!IsFinal(r) <=> IsFinal(r)
  /\ \A r : Promise!IsAborted(r) <=> IsAborted(r)
  /\ \A st : Promise!Done(st) = Done(st) /\ Promise!Aborted(st) = Aborted(st)
  /\ \A S : Promise!CombinedStatus(S) = CombinedStatus(S)
BY DEF Promise!Scheduled, Promise!Running, Promise!FinalResult, Promise!IsFinal, Promise!IsAborted,
   Promise!Done, Promise!Aborted, Promise!CombinedStatus, Promise!NoStatus, Promise!Status,
   Scheduled, Running, FinalResult, IsFinal, IsAborted, Done, Aborted, CombinedStatus, NoStatus, Status

\* Final results come together to what the step computes of them.
LEMMA TogetherIsStepResult ==
  ASSUME NEW results, \A x \in Artifacts : IsFinal(results[x])
  PROVE  Promise!Together(results) = StepResultOf(results)
<1>1. {results[x].status : x \in {y \in Artifacts : IsFinal(results[y])}}
        = {results[x].status : x \in Artifacts}
  OBVIOUS
<1> QED
  BY <1>1, SameStatuses DEF Promise!Together, StepResultOf, AllAborted, CombinedStatusOf

\* Who works on the whole repository, and who has announced that the step runs.
WorkInv ==
  \A s \in Steps :
    /\ stepPc[s] \in {"running"} \cup Verdict => s \notin ArtifactSteps /\ globalVerdict[s] = "shouldRun"
    /\ didSendStepRunning[s] => stepRes[s] # Scheduled
    /\ \A x \in Artifacts : artPc[s][x] \in {"running", "afterAll"} => didSendStepRunning[s]

\* No result becomes scheduled again.
LEMMA NeverScheduledAgain ==
  ASSUME NEW old \in Result, NEW new \in Result, Reduced(old, new) = Scheduled
  PROVE  old = Scheduled
BY DEF Reduced, Rank, Result, FinalResult, Scheduled, Running

\* WorkInv is kept by every step.
LEMMA WorkStep ==
  ASSUME IInv, WorkInv, [Next]_vars
  PROVE  WorkInv'
<1>1. \A s \in Steps : stepRes[s] # Scheduled => stepRes'[s] # Scheduled
  <2>1. CASE UNCHANGED store
    BY <2>1 DEF store
  <2>2. CASE \E sn, an : IsNews(sn, an) /\ Dispatch(sn, an)
    <3>1. PICK sn, an : IsNews(sn, an) /\ Dispatch(sn, an)
      BY <2>2
    <3> SUFFICES ASSUME NEW s \in Steps, stepRes[s] # Scheduled PROVE stepRes'[s] # Scheduled
      OBVIOUS
    <3>2. CASE s \in DOMAIN sn
      <4>1. stepRes'[s] = Reduced(stepRes[s], sn[s]) /\ sn[s] \in Result /\ stepRes[s] \in Result
        BY <3>1, <3>2, DispatchEffect DEF IsNews, IInv, TypeOK
      <4> QED
        BY <4>1, NeverScheduledAgain
    <3>3. CASE s \notin DOMAIN sn
      BY <3>1, <3>3, DispatchEffect DEF IInv
    <3> QED
      BY <3>2, <3>3
  <2> QED
    BY <2>1, <2>2, EveryTurnIsFresh
<1>2. CASE \/ SetUpFails \/ Flush \/ EmptyTick \/ RedisFails \/ Return \/ Terminated
           \/ UNCHANGED vars \/ \E s \in Steps : BeforeAllEnds(s)
  <2>1. UNCHANGED <<stepPc, globalVerdict, didSendStepRunning, artPc>>
    BY <1>2 DEF SetUpFails, Flush, EmptyTick, RedisFails, Return, Terminated, vars, BeforeAllEnds,
       onArtifactState
  <2> QED
    BY <1>1, <2>1 DEF WorkInv
<1>3. CASE SetUp
  <2>1. UNCHANGED <<stepPc, didSendStepRunning, artPc>> /\ \A s \in Steps : stepPc[s] = "waiting"
    BY <1>3 DEF SetUp, onArtifactState, IInv, FlowInv, SetUpInv
  <2> QED
    BY <1>1, <2>1 DEF WorkInv, Verdict
<1>4. CASE Deliver
  <2>1. UNCHANGED <<globalVerdict, didSendStepRunning>>
    BY <1>4 DEF Deliver
  <2>2. \A s \in Steps : \/ stepPc'[s] = stepPc[s] \/ stepPc'[s] = "finished"
                         \/ s \notin ArtifactSteps /\ globalVerdict[s] = "shouldRun"
    BY <1>4 DEF Deliver, IInv, TypeOK
  <2>3. \A s \in Steps, x \in Artifacts : artPc'[s][x] = artPc[s][x] \/ artPc'[s][x] \in Verdict
    BY <1>4, CacheVerdictType DEF Deliver, IInv, TypeOK
  <2> QED
    BY <1>1, <2>1, <2>2, <2>3 DEF WorkInv, Verdict
<1>5. ASSUME NEW t \in Steps, OnStep(t) PROVE WorkInv'
  <2>1. UNCHANGED <<globalVerdict, didSendStepRunning, artPc>>
    BY <1>5 DEF OnStep, StepSkips, StepStarts, StepEnds, onArtifactState
  <2>2. stepPc[t] \in {"running"} \cup Verdict
    BY <1>5 DEF OnStep, StepSkips, StepStarts, StepEnds, StepConstrained
  <2>3. \A s \in Steps \ {t} : stepPc'[s] = stepPc[s]
    BY <1>5 DEF OnStep, StepSkips, StepStarts, StepEnds, IInv, TypeOK
  <2> QED
    BY <1>1, <2>1, <2>2, <2>3 DEF WorkInv
<1>6. ASSUME NEW t \in Steps, NEW y \in Artifacts, OnArtifact(t, y) PROVE WorkInv'
  <2>1. UNCHANGED <<globalVerdict, stepPc>>
    BY <1>6 DEF OnArtifact, ArtifactSkips, ArtifactStarts, ArtifactEnds, AfterAllEnds
  <2>2. \A s \in Steps, x \in Artifacts : <<s, x>> # <<t, y>> => artPc'[s][x] = artPc[s][x]
    BY <1>6 DEF OnArtifact, ArtifactSkips, ArtifactStarts, ArtifactEnds, AfterAllEnds, IInv, TypeOK
  <2>3. CASE ArtifactStarts(t, y)
    <3>1. didSendStepRunning' = [didSendStepRunning EXCEPT ![t] = TRUE]
      BY <2>3 DEF ArtifactStarts
    <3>2. stepRes'[t] # Scheduled
      <4>1. PICK news \in {Only(t, Running), None} :
              /\ Dispatch(news, Only(<<t, y>>, Running))
              /\ news = IF didSendStepRunning[t] THEN None ELSE Only(t, Running)
        BY <2>3 DEF ArtifactStarts
      <4>2. CASE didSendStepRunning[t]
        BY <1>1, <4>2 DEF WorkInv
      <4>3. CASE ~didSendStepRunning[t]
        <5>1. Dispatch(Only(t, Running), Only(<<t, y>>, Running)) /\ IsNews(Only(t, Running), Only(<<t, y>>, Running))
          BY <4>1, <4>3, NewsType, ResultFacts
        <5>2. t \in DOMAIN Only(t, Running) /\ Only(t, Running)[t] = Running
          BY DEF Only
        <5>3. stepRes'[t] = Reduced(stepRes[t], Running)
          BY <5>1, <5>2, DispatchEffect DEF IInv
        <5> QED
          BY SMTT(30), <5>3, ReducedFacts, ResultFacts DEF IInv, TypeOK
      <4> QED
        BY <4>2, <4>3
    <3> QED
      BY <1>1, <2>1, <2>2, <3>1, <3>2 DEF WorkInv, IInv, TypeOK
  <2>4. CASE ~ArtifactStarts(t, y)
    <3>1. didSendStepRunning' = didSendStepRunning
      BY <1>6, <2>4 DEF OnArtifact, ArtifactSkips, ArtifactEnds, AfterAllEnds
    <3>2. artPc'[t][y] \in {"running", "afterAll"} => artPc[t][y] = "running"
      BY <1>6, <2>4 DEF OnArtifact, ArtifactSkips, ArtifactEnds, AfterAllEnds, IInv, TypeOK
    <3> QED
      BY <1>1, <2>1, <2>2, <3>1, <3>2 DEF WorkInv
  <2> QED
    BY <2>3, <2>4
<1> QED
  BY <1>2, <1>3, <1>4, <1>5, <1>6 DEF Next

\* Where the flow is, and what is told of it.
LEMMA FlowStates ==
  /\ flow \in {"setup", "running"} => FlowState = "running"
  /\ flow \in Fatal => FlowState = "failed"
  /\ flow = "finished" => FlowState = "finished"
BY DEF FlowState, Fatal

\* A delivery skips steps at once, or shows nothing.
LEMMA DeliverKeeps ==
  ASSUME IInv, Deliver
  PROVE  \E S \in SUBSET Steps : Promise!SkipAtOnce(S)
<1> DEFINE aborted == GloballySkipped \cup WithoutArtifacts(Head(inflight))
           verdict(s) == IF s \in GloballySkipped THEN globalVerdict[s] ELSE "skippedAsPassed"
           sn == [s \in aborted |-> Aborted(verdict(s))]
           an == [x \in aborted \X Artifacts |-> Aborted(verdict(x[1]))]
<1>1. /\ aborted \in SUBSET Steps
      /\ \A s \in aborted : verdict(s) \in {"skippedAsPassed", "skippedAsFailed"}
  BY StepsAssumption DEF GloballySkipped, WithoutArtifacts, IInv, TypeOK, Verdict
<1>2. \A s \in aborted : Aborted(verdict(s)) \in FinalResult
  BY <1>1, FinalFacts, StatusFacts
<1>3. IsNews(sn, an)
  BY <1>1, <1>2, ResultFacts DEF IsNews
<1>4. \A s \in aborted : stepRes[s] = Scheduled /\ \A x \in Artifacts : artRes[s][x] = Scheduled
  BY <1>1 DEF GloballySkipped, WithoutArtifacts, IsWhole, IInv, FlowInv, StepInv, WholeInv
<1>5. Dispatch(sn, an)
  BY DEF Deliver
<1>6. stepRes' = [s \in Steps |-> IF s \in aborted THEN Aborted(verdict(s)) ELSE stepRes[s]]
  <2>1. \A s \in Steps : stepRes'[s] = IF s \in aborted THEN Aborted(verdict(s)) ELSE stepRes[s]
    BY <1>2, <1>3, <1>4, <1>5, DispatchEffect, ReducedFacts DEF IInv
  <2> QED
    BY <2>1, <1>5 DEF Dispatch
<1>7. artRes' = [s \in Steps |-> [x \in Artifacts |->
                  IF s \in aborted THEN Aborted(verdict(s)) ELSE artRes[s][x]]]
  <2>1. \A s \in Steps, x \in Artifacts :
          artRes'[s][x] = IF s \in aborted THEN Aborted(verdict(s)) ELSE artRes[s][x]
    <3> SUFFICES ASSUME NEW s \in Steps, NEW x \in Artifacts
                 PROVE  artRes'[s][x] = IF s \in aborted THEN Aborted(verdict(s)) ELSE artRes[s][x]
      OBVIOUS
    <3>1. <<s, x>> \in DOMAIN an <=> s \in aborted
      OBVIOUS
    <3>2. s \in aborted => an[<<s, x>>] = Aborted(verdict(s))
      OBVIOUS
    <3>3. artRes'[s][x] = IF <<s, x>> \in DOMAIN an THEN Reduced(artRes[s][x], an[<<s, x>>])
                                                    ELSE artRes[s][x]
      BY <1>5 DEF Dispatch
    <3> QED
      BY <1>2, <1>4, <3>1, <3>2, <3>3, ReducedFacts
  <2> QED
    BY <2>1, <1>5 DEF Dispatch
<1>8. FlowState = "running" /\ FlowState' = "running"
  BY DEF Deliver, FlowState, Fatal
<1>9. [s \in aborted |-> verdict(s)] \in [aborted -> Promise!Skips]
  BY <1>1 DEF Promise!Skips
<1>10. \A s \in aborted : Promise!Untouched(s)
  BY <1>4, SameStatuses DEF Promise!Untouched
<1>11. Promise!SkipAtOnce(aborted)
  <2> DEFINE v == [s \in aborted |-> verdict(s)]
  <2>1. stepRes' = [s \in Steps |-> IF s \in aborted THEN Promise!Aborted(v[s]) ELSE stepRes[s]]
    BY <1>6, SameStatuses
  <2>2. artRes' = [s \in Steps |-> [x \in Artifacts |->
                    IF s \in aborted THEN Promise!Aborted(v[s]) ELSE artRes[s][x]]]
    BY <1>7, SameStatuses
  <2> HIDE DEF v, aborted
  <2> QED
    BY <1>8, <1>9, <1>10, <2>1, <2>2 DEF Promise!SkipAtOnce, v
<1> QED
  BY <1>1, <1>11

\* A turn of a whole step begins it or ends it.
LEMMA OnStepKeeps ==
  ASSUME IInv, WorkInv, NEW s \in Steps, OnStep(s)
  PROVE  Promise!BeginStep(s) \/ Promise!EndStep(s)
<1>1. /\ stepPc[s] \in {"running"} \cup Verdict
      /\ flow = "running" /\ flow' = "running"
  BY DEF OnStep, StepSkips, StepStarts, StepEnds, StepConstrained
<1>2. s \notin ArtifactSteps /\ globalVerdict[s] = "shouldRun" /\ WholeInv(s) /\ MayStart(s)
  BY <1>1 DEF WorkInv, IInv, FlowInv, StepInv, IsWhole, OrderInv, Verdict
<1>3. ASSUME NEW r \in Result \ {Scheduled}, Dispatch(Only(s, r), OnAllArtifacts(s, r)),
             stepRes[s] = Scheduled \/ (stepRes[s] = Running /\ r \in FinalResult)
      PROVE  Promise!ChangeStep(s, r)
  <2>1. Reduced(stepRes[s], r) = r
    BY <1>3, ReducedFacts, ResultFacts
  <2>2. /\ stepRes'[s] = r /\ \A x \in Artifacts : artRes'[s][x] = r
        /\ \A t \in Steps \ {s} : stepRes'[t] = stepRes[t] /\ artRes'[t] = artRes[t]
    BY <1>2, <1>3, <2>1, WholeNews DEF IInv, WholeInv
  <2>3. /\ stepRes \in [Steps -> Result] /\ stepRes' \in [Steps -> Result]
        /\ artRes \in [Steps -> [Artifacts -> Result]] /\ artRes' \in [Steps -> [Artifacts -> Result]]
    BY <1>3, DispatchType, NewsType DEF IInv, TypeOK
  <2>4. artRes'[s] = [x \in Artifacts |-> r]
    BY <2>2, <2>3
  <2>5. FlowState = "running" /\ FlowState' = "running"
    BY <1>1 DEF FlowState, Fatal
  <2>6. stepRes' = [stepRes EXCEPT ![s] = r]
    BY <2>2, <2>3
  <2>7. artRes' = [artRes EXCEPT ![s] = [x \in Artifacts |-> r]]
    BY <2>2, <2>3, <2>4
  <2> QED
    BY <1>2, <2>5, <2>6, <2>7 DEF Promise!ChangeStep
<1>4. CASE stepPc[s] \in Verdict
  <2>1. stepRes[s] = Scheduled /\ \A x \in Artifacts : artRes[s][x] = Scheduled
    BY <1>2, <1>4 DEF WholeInv
  <2>2. \E r \in {Running} \cup {Aborted(v) : v \in Verdict \ {"shouldRun"}} :
          Dispatch(Only(s, r), OnAllArtifacts(s, r))
    BY <1>4 DEF OnStep, StepSkips, StepStarts, StepEnds, Verdict
  <2>3. PICK r \in {Promise!Running} \cup {Promise!Aborted(v) : v \in Promise!Skips} : Promise!ChangeStep(s, r)
    <3>1. PICK r \in {Running} \cup {Aborted(v) : v \in Verdict \ {"shouldRun"}} :
            Dispatch(Only(s, r), OnAllArtifacts(s, r))
      BY <2>2
    <3>2. r \in Result \ {Scheduled}
      BY VerdictStatus, FinalFacts, ResultFacts
    <3>3. r \in {Promise!Running} \cup {Promise!Aborted(v) : v \in Promise!Skips}
      BY SameStatuses DEF Promise!Skips, Verdict
    <3> QED
      BY <1>3, <2>1, <3>1, <3>2, <3>3
  <2>4. Promise!Untouched(s) /\ \A p \in StepAncestors[s] : Promise!IsFinal(stepRes[p])
    BY <1>2, <2>1, SameStatuses DEF Promise!Untouched, MayStart
  <2> QED
    BY <2>3, <2>4 DEF Promise!BeginStep
<1>5. CASE stepPc[s] = "running"
  <2>1. stepRes[s] = Running
    BY <1>2, <1>5 DEF WholeInv
  <2>2. PICK r \in UserResults[s] : Dispatch(Only(s, r), OnAllArtifacts(s, r))
    BY <1>5 DEF OnStep, StepSkips, StepStarts, StepEnds, StepConstrained, Verdict
  <2>3. r \in FinalResult /\ r \in Result \ {Scheduled}
    BY StepsAssumption, ResultFacts
  <2>4. Promise!ChangeStep(s, r)
    BY <1>3, <2>1, <2>2, <2>3
  <2> QED
    BY <2>1, <2>3, <2>4, SameStatuses DEF Promise!EndStep
<1> QED
  BY <1>1, <1>4, <1>5

\* The store after the news about one artifact, and perhaps about its step.
LEMMA ArtifactStore ==
  ASSUME TypeOK, NEW s \in Steps, NEW x \in Artifacts, NEW r \in Result, NEW q \in Result,
         NEW stepNews \in {None, Only(s, q)}, Dispatch(stepNews, Only(<<s, x>>, r)),
         Reduced(artRes[s][x], r) = r, Reduced(stepRes[s], q) = q
  PROVE  /\ artRes' = [artRes EXCEPT ![s][x] = r]
         /\ stepNews = None => stepRes' = stepRes
         /\ stepNews = Only(s, q) => stepRes' = [stepRes EXCEPT ![s] = q]
<1>1. IsNews(stepNews, Only(<<s, x>>, r)) /\ DOMAIN stepNews \subseteq {s}
  <2>1. IsNews(None, Only(<<s, x>>, r)) /\ IsNews(Only(s, q), Only(<<s, x>>, r))
    BY NewsType
  <2>2. DOMAIN None \subseteq {s} /\ DOMAIN Only(s, q) \subseteq {s}
    BY DEF None, Only
  <2> QED
    BY <2>1, <2>2
<1>2. /\ s \in DOMAIN stepNews => stepRes'[s] = Reduced(stepRes[s], stepNews[s])
      /\ s \notin DOMAIN stepNews => stepRes'[s] = stepRes[s]
      /\ artRes'[s][x] = r
      /\ \A y \in Artifacts \ {x} : artRes'[s][y] = artRes[s][y]
      /\ \A t \in Steps \ {s} : stepRes'[t] = stepRes[t] /\ artRes'[t] = artRes[t]
  BY <1>1, ArtifactNews
<1>3. /\ stepRes \in [Steps -> Result] /\ stepRes' \in [Steps -> Result]
      /\ artRes \in [Steps -> [Artifacts -> Result]] /\ artRes' \in [Steps -> [Artifacts -> Result]]
  BY <1>1, DispatchType DEF TypeOK
<1>4. artRes' = [artRes EXCEPT ![s][x] = r]
  <2>1. artRes'[s] = [artRes[s] EXCEPT ![x] = r]
    BY <1>2, <1>3
  <2> QED
    BY <1>2, <1>3, <2>1
<1>5. ASSUME stepNews = None PROVE stepRes' = stepRes
  <2>1. stepRes'[s] = stepRes[s]
    BY <1>2, <1>5 DEF None
  <2> QED
    BY <1>2, <1>3, <2>1
<1>6. ASSUME stepNews = Only(s, q) PROVE stepRes' = [stepRes EXCEPT ![s] = q]
  <2>1. s \in DOMAIN stepNews /\ stepNews[s] = q
    BY <1>6 DEF Only
  <2> QED
    BY <1>2, <1>3, <2>1
<1> QED
  BY <1>4, <1>5, <1>6

\* A turn of an artifact skips, begins or ends it, or closes its step.
LEMMA OnArtifactKeeps ==
  ASSUME IInv, WorkInv, NEW s \in Steps, NEW x \in Artifacts, OnArtifact(s, x)
  PROVE  \/ Promise!SkipArtifact(s, x) \/ Promise!BeginArtifact(s, x) \/ Promise!EndArtifact(s, x)
         \/ Promise!CloseStep(s) \/ Promise!Fail
<1>1. flow = "running" /\ artPc[s][x] \in {"running", "afterAll"} \cup Verdict
  BY DEF OnArtifact, ArtifactSkips, ArtifactStarts, ArtifactEnds, AfterAllEnds, ArtifactConstrained
<1>2. ~IsWhole(s) /\ ByArtifactInv(s) /\ s \in ArtifactSteps /\ globalVerdict[s] = "shouldRun"
  BY <1>1, AwakeByArtifact DEF IsWhole, Verdict
<1>3. FlowState = "running" /\ (flow' = "running" => FlowState' = "running")
      /\ (flow' \in Fatal => FlowState' = "failed")
  BY <1>1 DEF FlowState, Fatal
<1>4. /\ stepRes \in [Steps -> Result] /\ artRes \in [Steps -> [Artifacts -> Result]]
      /\ localRes \in [Steps -> [Artifacts -> Result]]
      /\ \A y \in Artifacts : localRes[s][y] = artRes[s][y]
  BY <1>2 DEF IInv, TypeOK, ByArtifactInv, ArtifactInv
<1>5. localRes[s] = artRes[s]
  BY <1>4
<1>6. ASSUME artPc[s][x] \in Verdict PROVE Promise!IsReady(s, x) /\ artRes[s][x] = Scheduled
  <2>1. artRes[s][x] = Scheduled
    BY <1>2, <1>6 DEF ByArtifactInv, ArtifactInv
  <2>2. MayStartOnArtifact(s, x)
    BY <1>2, <1>6 DEF IInv, FlowInv, OrderInv, Verdict
  <2>3. \A z \in FinalFirst(s, x) : IsFinal(artRes[z[1]][z[2]])
    BY <2>2 DEF FinalFirst, MayStartOnArtifact
  <2> QED
    BY <1>2, <1>3, <2>1, <2>3, SameStatuses DEF Promise!IsReady
<1>7. ASSUME ArtifactSkips(s, x) PROVE Promise!SkipArtifact(s, x)
  <2>1. PICK v \in Verdict \ {"shouldRun"} :
          /\ ArtifactConstrained(s, x, v)
          /\ localRes' = [localRes EXCEPT ![s][x] = Aborted(v)]
          /\ LET results == localRes'[s]
                 closes == AllFinal(results) /\ ~CantBeHereAfterSkip(results)
             IN /\ Dispatch(IF closes THEN Only(s, StepResultOf(results)) ELSE None,
                            Only(<<s, x>>, Aborted(v)))
                /\ flow' = IF AllFinal(results) /\ CantBeHereAfterSkip(results)
                           THEN "cantBeHere8" ELSE flow
    BY <1>7 DEF ArtifactSkips
  <2> DEFINE results == localRes'[s]
             q == StepResultOf(results)
             closes == AllFinal(results) /\ ~CantBeHereAfterSkip(results)
             news == IF closes THEN Only(s, q) ELSE None
  <2>2. Promise!IsReady(s, x) /\ artRes[s][x] = Scheduled
    BY <1>6, <2>1 DEF ArtifactConstrained
  <2>3. Aborted(v) \in FinalResult /\ Aborted(v) \in Result
    BY VerdictStatus, FinalFacts, ResultFacts
  <2>4. q \in FinalResult /\ q \in Result
    <3>1. results \in [Artifacts -> Result]
      BY <1>4, <2>1, <2>3
    <3> QED
      BY <3>1, StepResultType, ResultFacts
  <2>5. stepRes[s] \in {Scheduled, Running}
    BY <1>2, <1>4, <1>5, <2>2, ResultFacts DEF ByArtifactInv, AllFinal
  <2>6. Reduced(artRes[s][x], Aborted(v)) = Aborted(v) /\ Reduced(stepRes[s], q) = q
    BY <2>2, <2>3, <2>4, <2>5, ReducedFacts
  <2>7. /\ artRes' = [artRes EXCEPT ![s][x] = Aborted(v)]
        /\ ~closes => stepRes' = stepRes
        /\ closes => stepRes' = [stepRes EXCEPT ![s] = q]
    <3>1. news \in {None, Only(s, q)} /\ Dispatch(news, Only(<<s, x>>, Aborted(v)))
      BY <2>1
    <3>2. (~closes => news = None) /\ (closes => news = Only(s, q))
      OBVIOUS
    <3> HIDE DEF news, closes, q, results
    <3> QED
      BY <2>3, <2>4, <2>6, <3>1, <3>2, ArtifactStore DEF IInv
  <2>8. results = artRes'[s]
    BY <1>4, <1>5, <2>1, <2>7
  <2>9. AllFinal(results) <=> \A y \in Artifacts : Promise!IsFinal(artRes'[s][y])
    BY <2>8, SameStatuses DEF AllFinal
  <2>10. AllFinal(results) => q = Promise!Together(artRes'[s])
    BY <2>8, TogetherIsStepResult DEF AllFinal
  <2>11. v \in Promise!Skips /\ Aborted(v) = Promise!Aborted(v)
    BY SameStatuses DEF Promise!Skips, Verdict
  <2>12. /\ AllFinal(results) /\ closes => FlowState' = "running"
         /\ AllFinal(results) /\ ~closes => FlowState' = "failed"
         /\ ~AllFinal(results) => FlowState' = "running" /\ ~closes
    BY <1>1, <1>3, <2>1 DEF Fatal
  <2> HIDE DEF results, q, closes, news
  <2>13. \E w \in Promise!Skips : artRes' = [artRes EXCEPT ![s][x] = Promise!Aborted(w)]
    BY <2>7, <2>11
  <2> QED
    BY <1>3, <2>2, <2>7, <2>9, <2>10, <2>12, <2>13 DEF Promise!SkipArtifact
<1>8. ASSUME ArtifactStarts(s, x) PROVE Promise!BeginArtifact(s, x)
  <2>1. Promise!IsReady(s, x) /\ artRes[s][x] = Scheduled
    BY <1>6, <1>8 DEF ArtifactStarts, ArtifactConstrained
  <2>2. PICK news \in {None, Only(s, Running)} :
          /\ Dispatch(news, Only(<<s, x>>, Running))
          /\ news = IF didSendStepRunning[s] THEN None ELSE Only(s, Running)
    BY <1>8 DEF ArtifactStarts
  <2>3. stepRes[s] \in {Scheduled, Running} /\ (didSendStepRunning[s] => stepRes[s] = Running)
    BY <1>2, <1>4, <1>5, <2>1, ResultFacts DEF ByArtifactInv, AllFinal, WorkInv
  <2>4. Reduced(artRes[s][x], Running) = Running /\ Reduced(stepRes[s], Running) = Running
    BY <2>1, <2>3, ReducedFacts
  <2>5. /\ artRes' = [artRes EXCEPT ![s][x] = Running]
        /\ news = None => stepRes' = stepRes
        /\ news = Only(s, Running) => stepRes' = [stepRes EXCEPT ![s] = Running]
    BY <2>2, <2>4, ArtifactStore, ResultFacts DEF IInv
  <2>6. stepRes' = [stepRes EXCEPT ![s] = Running]
    <3>1. CASE didSendStepRunning[s]
      BY <1>4, <2>2, <2>3, <2>5, <3>1
    <3>2. CASE ~didSendStepRunning[s]
      BY <2>2, <2>5, <3>2
    <3> QED
      BY <3>1, <3>2
  <2>7. FlowState' = FlowState
    BY <1>8 DEF ArtifactStarts, FlowState
  <2> QED
    BY <2>1, <2>5, <2>6, <2>7, SameStatuses DEF Promise!BeginArtifact
<1>9. ASSUME ArtifactEnds(s, x) PROVE Promise!EndArtifact(s, x)
  <2>1. PICK r \in UserResults[s] : Dispatch(None, Only(<<s, x>>, r))
    BY <1>9 DEF ArtifactEnds
  <2>2. artRes[s][x] = Running /\ r \in FinalResult /\ r \in Result
    BY <1>2, <1>9, StepsAssumption, ResultFacts DEF ArtifactEnds, ByArtifactInv, ArtifactInv
  <2>3. IsNews(None, Only(<<s, x>>, r)) /\ DOMAIN None \subseteq {s} /\ s \notin DOMAIN None
    BY <2>2, NewsType DEF None
  <2>4. Reduced(artRes[s][x], r) = r
    BY <2>2, ReducedFacts
  <2>5. artRes' = [artRes EXCEPT ![s][x] = r] /\ stepRes' = stepRes
    <3>1. /\ stepRes'[s] = stepRes[s] /\ artRes'[s][x] = r
          /\ \A y \in Artifacts \ {x} : artRes'[s][y] = artRes[s][y]
          /\ \A t \in Steps \ {s} : stepRes'[t] = stepRes[t] /\ artRes'[t] = artRes[t]
      BY <2>1, <2>2, <2>3, <2>4, ArtifactNews DEF IInv
    <3>2. stepRes' \in [Steps -> Result] /\ artRes' \in [Steps -> [Artifacts -> Result]]
      BY <2>1, <2>3, DispatchType DEF IInv
    <3>3. artRes'[s] = [artRes[s] EXCEPT ![x] = r]
      BY <1>4, <3>1, <3>2
    <3> QED
      BY <1>4, <3>1, <3>2, <3>3
  <2>6. FlowState' = FlowState
    BY <1>9 DEF ArtifactEnds, FlowState
  <2> QED
    BY <1>2, <1>3, <2>2, <2>5, <2>6, SameStatuses DEF Promise!EndArtifact
<1>10. ASSUME AfterAllEnds(s, x) PROVE Promise!CloseStep(s) \/ Promise!Fail
  <2> DEFINE q == StepResultOf(localRes[s])
  <2>1. /\ AllFinal(artRes[s]) /\ stepRes[s] = Running
    BY <1>2, <1>4, <1>5, <1>10, ResultFacts DEF AfterAllEnds, ByArtifactInv, WorkInv
  <2>2. q \in Result /\ q \in FinalResult
    BY <1>4, StepResultType, ResultFacts
  <2>3. PICK news \in {None, Only(s, q)} :
          /\ Dispatch(news, None)
          /\ \/ news = Only(s, q) /\ flow' = "running"
             \/ news = None /\ flow' \in {"cantBeHere9", "cantBeHere10"}
    <3>1. CASE CantBeHere9(localRes[s])
      BY <1>10, <3>1 DEF AfterAllEnds
    <3>2. CASE ~CantBeHere9(localRes[s]) /\ CantBeHere10(localRes[s])
      BY <1>10, <3>2 DEF AfterAllEnds
    <3>3. CASE ~CantBeHere9(localRes[s]) /\ ~CantBeHere10(localRes[s])
      BY <1>10, <3>3 DEF AfterAllEnds
    <3> QED
      BY <3>1, <3>2, <3>3
  <2>4. IsNews(news, None)
    BY <2>2, <2>3, NewsType
  <2>5. /\ stepRes' \in [Steps -> Result] /\ artRes' \in [Steps -> [Artifacts -> Result]]
        /\ \A t \in Steps, y \in Artifacts : <<t, y>> \notin DOMAIN None
    BY <2>3, <2>4, DispatchType DEF IInv, None
  <2>6. artRes' = artRes
    <3>1. ASSUME NEW t \in Steps, NEW y \in Artifacts PROVE artRes'[t][y] = artRes[t][y]
      <4>1. <<t, y>> \notin DOMAIN None /\ Dispatch(news, None) /\ TypeOK
        BY <2>3, <2>5 DEF IInv
      <4> QED
        BY <2>4, <4>1, DispatchEffect
    <3>2. \A t \in Steps : artRes'[t] = artRes[t]
      BY <1>4, <2>5, <3>1
    <3> QED
      BY <1>4, <2>5, <3>2
  <2>7. \A t \in Steps : /\ t \in DOMAIN news => stepRes'[t] = Reduced(stepRes[t], news[t])
                         /\ t \notin DOMAIN news => stepRes'[t] = stepRes[t]
    BY <2>3, <2>4, DispatchEffect DEF IInv
  <2>8. CASE news = Only(s, q) /\ flow' = "running"
    <3>1. DOMAIN news = {s} /\ news[s] = q
      BY <2>8 DEF Only
    <3>2. stepRes'[s] = q
      BY <2>1, <2>2, <2>7, <3>1, ReducedFacts
    <3>3. stepRes' = [stepRes EXCEPT ![s] = q]
      BY <1>4, <2>5, <2>7, <3>1, <3>2
    <3>4. q = Promise!Together(artRes[s])
      BY <1>5, <2>1, TogetherIsStepResult DEF AllFinal
    <3>5. FlowState' = FlowState
      BY <1>3, <2>8
    <3>6. \A y \in Artifacts : Promise!IsFinal(artRes[s][y])
      BY <2>1, SameStatuses DEF AllFinal
    <3> QED
      BY <1>2, <1>3, <2>1, <2>6, <3>3, <3>4, <3>5, <3>6, SameStatuses DEF Promise!CloseStep
  <2>9. CASE news = None /\ flow' \in {"cantBeHere9", "cantBeHere10"}
    <3>1. DOMAIN news = {}
      BY <2>9 DEF None
    <3>2. stepRes' = stepRes
      BY <1>4, <2>5, <2>7, <3>1
    <3>3. FlowState' = "failed"
      BY <1>3, <2>9 DEF Fatal
    <3> QED
      BY <1>3, <2>6, <3>2, <3>3 DEF Promise!Fail
  <2> QED
    BY <2>3, <2>8, <2>9
<1> QED
  BY <1>7, <1>8, <1>9, <1>10 DEF OnArtifact

\* Every step of the engine is a step of the promise, or shows nothing.
LEMMA EveryTurnKeeps ==
  ASSUME IInv, WorkInv, [Next]_vars
  PROVE  [Promise!Next]_(Promise!vars)
<1>1. CASE SetUp
  <2> DEFINE sn == [s \in Steps |-> Scheduled]
             an == [x \in Steps \X Artifacts |-> Scheduled]
  <2>1. IsNews(sn, an) /\ Dispatch(sn, an)
    BY <1>1, SetUpFresh
  <2>2. SetUpInv /\ flow = "setup" /\ flow' = "running"
    BY <1>1 DEF SetUp, IInv, FlowInv
  <2>3. \A s \in Steps : stepRes'[s] = stepRes[s] /\ \A x \in Artifacts : artRes'[s][x] = artRes[s][x]
    <3> SUFFICES ASSUME NEW s \in Steps
                 PROVE  stepRes'[s] = stepRes[s] /\ \A x \in Artifacts : artRes'[s][x] = artRes[s][x]
      OBVIOUS
    <3>1. s \in DOMAIN sn /\ sn[s] = Scheduled
      OBVIOUS
    <3>2. \A x \in Artifacts : <<s, x>> \in DOMAIN an /\ an[<<s, x>>] = Scheduled
      OBVIOUS
    <3>3. stepRes'[s] = Reduced(stepRes[s], sn[s])
      BY <2>1, <3>1, DispatchEffect DEF IInv
    <3>4. \A x \in Artifacts : artRes'[s][x] = Reduced(artRes[s][x], an[<<s, x>>])
      BY <2>1, <3>2, DispatchEffect DEF IInv
    <3> QED
      BY <2>2, <3>1, <3>2, <3>3, <3>4, ReducedFacts DEF SetUpInv
  <2>4. /\ stepRes \in [Steps -> Result] /\ stepRes' \in [Steps -> Result]
        /\ artRes \in [Steps -> [Artifacts -> Result]] /\ artRes' \in [Steps -> [Artifacts -> Result]]
    BY <2>1, DispatchType DEF IInv, TypeOK
  <2>5. stepRes' = stepRes /\ \A s \in Steps : artRes'[s] = artRes[s]
    BY <2>3, <2>4
  <2>6. artRes' = artRes
    BY <2>4, <2>5
  <2>7. FlowState' = FlowState
    BY <2>2 DEF FlowState, Fatal
  <2> QED
    BY <2>5, <2>6, <2>7 DEF Promise!vars
<1>2. CASE SetUpFails \/ RedisFails
  <2>1. UNCHANGED <<stepRes, artRes>> /\ FlowState = "running" /\ FlowState' = "failed"
    BY <1>2 DEF SetUpFails, RedisFails, store, FlowState, Fatal
  <2> QED
    BY <2>1 DEF Promise!Fail, Promise!Next
<1>3. CASE Return
  <2>1. UNCHANGED <<stepRes, artRes>> /\ FlowState = "running" /\ FlowState' = "finished"
    BY <1>3 DEF Return, store, FlowState, Fatal
  <2>2. \A s \in Steps : Promise!IsFinal(stepRes[s])
    BY <1>3, SameStatuses DEF Return, IInv, FlowInv
  <2> QED
    BY <2>1, <2>2 DEF Promise!Finish, Promise!Next
<1>4. CASE Flush \/ EmptyTick \/ Terminated \/ UNCHANGED vars \/ \E s \in Steps : BeforeAllEnds(s)
  <2>1. UNCHANGED <<flow, stepRes, artRes>>
    BY <1>4 DEF Flush, EmptyTick, Terminated, vars, BeforeAllEnds, store
  <2> QED
    BY <2>1 DEF Promise!vars, FlowState
<1>5. CASE Deliver
  BY <1>5, DeliverKeeps DEF Promise!Next
<1>6. CASE \E s \in Steps : OnStep(s)
  BY <1>6, OnStepKeeps DEF Promise!Next
<1>7. CASE \E s \in Steps, x \in Artifacts : OnArtifact(s, x)
  BY <1>7, OnArtifactKeeps DEF Promise!Next
<1> QED
  BY <1>1, <1>2, <1>3, <1>4, <1>5, <1>6, <1>7 DEF Next

\* The engine implements FlowPromise, for every graph, every verdict and every
\* failure: whoever looks at the state of the flow sees the steps and the
\* artifacts begin in the order of the graph and end with one result.
THEOREM ImplementsFlowPromise == Spec => KeepsFlowPromise
<1>1. Init => WorkInv
  BY DEF Init, WorkInv, Verdict
<1>2. Init => Promise!Init
  <2> SUFFICES ASSUME Init PROVE Promise!Init
    OBVIOUS
  <2>1. FlowState = IF Steps = {} THEN "finished" ELSE "running"
    BY DEF Init, FlowState, Fatal
  <2> QED
    BY <2>1, SameStatuses DEF Init, Promise!Init
<1>3. IInv /\ WorkInv /\ [Next]_vars => WorkInv'
  BY WorkStep
<1>4. IInv /\ WorkInv /\ [Next]_vars => [Promise!Next]_(Promise!vars)
  BY EveryTurnKeeps
<1> QED
  BY <1>1, <1>2, <1>3, <1>4, InductiveInvariant, PTL DEF Spec, KeepsFlowPromise, Promise!Spec

-----------------------------------------------------------------------------
(* What has passed is not run again.                                        *)

\* What waits for redis is final only of what is final in the store.
BufferInv ==
  \A act \in buffer : IsFinal(act.result) =>
    /\ act.type = "step" => IsFinal(stepRes[act.step])
    /\ act.type = "artifactStep" => IsFinal(artRes[act.step][act.artifact])

\* Who is about to run, or may skip as failed, has found no pass in the cache.
Unpassed == {"shouldRun", "skippedAsFailed", "running"}

NoPassInv ==
  \A s \in Steps : s \in PassChecks[s] =>
    /\ s \in ArtifactSteps => \A x \in Artifacts :
         artPc[s][x] \in Unpassed => ~PassedInCache(artCache[s][x])
    /\ s \notin ArtifactSteps /\ stepPc[s] \in Unpassed => ~PassedInCache(stepCache[s])

\* BufferInv is kept by every step.
LEMMA BufferStep ==
  ASSUME IInv, BufferInv, [Next]_vars
  PROVE  BufferInv'
<1>1. CASE UNCHANGED store /\ buffer' \subseteq buffer
  BY <1>1 DEF BufferInv, store
<1>2. CASE \E sn, an : IsNews(sn, an) /\ Dispatch(sn, an)
  <2>1. PICK sn, an : IsNews(sn, an) /\ Dispatch(sn, an)
    BY <1>2
  <2>2. /\ \A s \in Steps : IsFinal(stepRes[s]) => IsFinal(stepRes'[s])
        /\ \A s \in Steps, x \in Artifacts : IsFinal(artRes[s][x]) => IsFinal(artRes'[s][x])
    BY <2>1, DispatchEffect DEF IInv
  <2>3. \A old, new \in Result : IsFinal(new) => IsFinal(Reduced(old, new))
    BY ReducedFacts, ResultFacts
  <2>4. \A act \in buffer : act \in Actions
    BY DEF IInv, TypeOK
  <2>5. ASSUME NEW act \in buffer', IsFinal(act.result)
        PROVE  /\ act.type = "step" => IsFinal(stepRes'[act.step])
               /\ act.type = "artifactStep" => IsFinal(artRes'[act.step][act.artifact])
    <3>1. CASE act \in buffer
      <4>1. /\ act.type = "step" => act.step \in Steps
            /\ act.type = "artifactStep" => act.step \in Steps /\ act.artifact \in Artifacts
        BY <2>4, <3>1 DEF Actions
      <4> QED
        BY <2>2, <2>5, <3>1, <4>1 DEF BufferInv
    <3>2. CASE act \in ActionsAbout(sn, an)
      <4>1. CASE \E s \in DOMAIN sn : act = StepAction(s, sn[s])
        <5>1. PICK s \in DOMAIN sn : act = StepAction(s, sn[s])
          BY <4>1
        <5>2. s \in Steps /\ sn[s] \in Result /\ stepRes[s] \in Result
          BY <2>1 DEF IsNews, IInv, TypeOK
        <5>3. act.type = "step" /\ act.step = s /\ act.result = sn[s]
          BY <5>1 DEF StepAction
        <5>4. stepRes'[s] = Reduced(stepRes[s], sn[s])
          BY <2>1, <5>2, DispatchEffect DEF IInv
        <5> QED
          BY <2>3, <2>5, <5>2, <5>3, <5>4
      <4>2. CASE \E s \in Steps, x \in Artifacts :
                   <<s, x>> \in DOMAIN an /\ act = ArtifactAction(s, x, an[<<s, x>>])
        <5>1. PICK s \in Steps, x \in Artifacts :
                <<s, x>> \in DOMAIN an /\ act = ArtifactAction(s, x, an[<<s, x>>])
          BY <4>2
        <5>2. an[<<s, x>>] \in Result /\ artRes[s][x] \in Result
          BY <2>1, <5>1 DEF IsNews, IInv, TypeOK
        <5>3. /\ act.type = "artifactStep" /\ act.step = s /\ act.artifact = x
              /\ act.result = an[<<s, x>>]
          BY <5>1 DEF ArtifactAction
        <5>4. artRes'[s][x] = Reduced(artRes[s][x], an[<<s, x>>])
          BY <2>1, <5>1, DispatchEffect DEF IInv
        <5> QED
          BY <2>3, <2>5, <5>2, <5>3, <5>4
      <4> QED
        BY <2>1, <3>2, <4>1, <4>2 DEF ActionsAbout, IsNews
    <3> QED
      BY <2>1, <2>5, <3>1, <3>2 DEF Dispatch
  <2> QED
    BY <2>5 DEF BufferInv
<1> QED
  BY <1>1, <1>2, EveryTurnIsFresh

\* A tick brings no pass of what is about to run.
LEMMA FlushNoPass ==
  ASSUME IInv, BufferInv, NoPassInv, Flush
  PROVE  NoPassInv'
<1> SUFFICES ASSUME NEW s \in Steps, s \in PassChecks[s]
             PROVE  /\ s \in ArtifactSteps => \A x \in Artifacts :
                         artPc[s][x] \in Unpassed => ~PassedInCache(artCache'[s][x])
                    /\ s \notin ArtifactSteps /\ stepPc[s] \in Unpassed => ~PassedInCache(stepCache'[s])
  BY DEF NoPassInv, Flush, onArtifactState
<1>1. \A r : r \in {Done("passed"), Aborted("skippedAsPassed")} => IsFinal(r)
  BY DEF Done, Aborted, IsFinal
<1>2. ASSUME NEW x \in Artifacts, s \in ArtifactSteps, artPc[s][x] \in Unpassed
      PROVE  ~PassedInCache(artCache'[s][x])
  <2>1. ~IsFinal(artRes[s][x])
    <3>1. artPc[s][x] # "waiting"
      BY <1>2 DEF Unpassed
    <3> QED
      BY <1>2, <3>1, AwakeByArtifact, ResultFacts DEF ByArtifactInv, ArtifactInv, Unpassed, Verdict
  <2>2. artCache'[s][x] = artCache[s][x] \cup
          {act.result : act \in {b \in buffer : /\ b.type = "artifactStep"
                                                /\ b.step = s
                                                /\ b.artifact = x}}
    BY DEF Flush
  <2>3. \A act \in buffer : act.type = "artifactStep" /\ act.step = s /\ act.artifact = x
                            => ~IsFinal(act.result)
    BY <2>1 DEF BufferInv
  <2>4. ~PassedInCache(artCache[s][x])
    BY <1>2 DEF NoPassInv
  <2> QED
    BY <1>1, <2>2, <2>3, <2>4 DEF PassedInCache
<1>3. ASSUME s \notin ArtifactSteps, stepPc[s] \in Unpassed
      PROVE  ~PassedInCache(stepCache'[s])
  <2>1. ~IsFinal(stepRes[s])
    BY <1>3, ResultFacts DEF IInv, FlowInv, StepInv, IsWhole, WholeInv, Unpassed, Verdict
  <2>2. stepCache'[s] = stepCache[s] \cup
          {act.result : act \in {b \in buffer : b.type = "step" /\ b.step = s}}
    BY DEF Flush
  <2>3. \A act \in buffer : act.type = "step" /\ act.step = s => ~IsFinal(act.result)
    BY <2>1 DEF BufferInv
  <2>4. ~PassedInCache(stepCache[s])
    BY <1>3 DEF NoPassInv
  <2> QED
    BY <1>1, <2>2, <2>3, <2>4 DEF PassedInCache
<1> QED
  BY <1>2, <1>3

\* Who wakes up reads the cache.
LEMMA DeliverNoPass ==
  ASSUME IInv, NoPassInv, Deliver
  PROVE  NoPassInv'
<1> SUFFICES ASSUME NEW s \in Steps, s \in PassChecks[s]
             PROVE  /\ s \in ArtifactSteps => \A x \in Artifacts :
                         artPc'[s][x] \in Unpassed => ~PassedInCache(artCache[s][x])
                    /\ s \notin ArtifactSteps /\ stepPc'[s] \in Unpassed => ~PassedInCache(stepCache[s])
  BY DEF NoPassInv, Deliver, redis
<1>1. PassedInCache(stepCache[s]) => StepCacheVerdict(s) = "skippedAsPassed"
  BY DEF StepCacheVerdict, CacheVerdict, CombinedVerdict
<1>2. \A x \in Artifacts : PassedInCache(artCache[s][x]) => ArtifactCacheVerdict(s, x) = "skippedAsPassed"
  BY DEF ArtifactCacheVerdict, CacheVerdict, CombinedVerdict
<1>3. \A x \in Artifacts : artPc'[s][x] \in {artPc[s][x], ArtifactCacheVerdict(s, x)}
  BY DEF Deliver
<1>4. stepPc'[s] \in {stepPc[s], "finished", StepCacheVerdict(s)}
  BY DEF Deliver
<1> QED
  BY <1>1, <1>2, <1>3, <1>4 DEF NoPassInv, Unpassed

\* What the constrains say together is a run only if none says that it passed.
LEMMA RunsUnpassed ==
  ASSUME NEW v \in Verdict, NEW own, CombinedVerdict({v, own}) = "shouldRun"
  PROVE  v \in Unpassed
BY DEF CombinedVerdict, Verdict, Unpassed

\* With a constrain to skip what has passed, no step runs (on an artifact) when
\* the cache holds a pass of it, for every graph and whatever earlier flows and
\* this one have written while the constrains were at work.
THEOREM NeverRunAgain == Spec => []NotRunAgainAfterPass
<1>1. Init => BufferInv /\ NoPassInv
  BY DEF Init, BufferInv, NoPassInv, Unpassed
<1>2. IInv /\ BufferInv /\ NoPassInv /\ [Next]_vars => (BufferInv /\ NoPassInv)'
  <2> SUFFICES ASSUME IInv, BufferInv, NoPassInv, [Next]_vars PROVE NoPassInv'
    BY BufferStep
  <2>1. CASE Flush
    BY <2>1, FlushNoPass
  <2>2. CASE Deliver
    BY <2>2, DeliverNoPass
  <2>3. CASE \/ SetUp \/ SetUpFails \/ EmptyTick \/ RedisFails \/ Return \/ Terminated
             \/ UNCHANGED vars \/ \E s \in Steps : BeforeAllEnds(s)
    <3>1. UNCHANGED <<artCache, stepCache, artPc, stepPc>>
      BY <2>3 DEF SetUp, SetUpFails, EmptyTick, RedisFails, Return, Terminated, vars, BeforeAllEnds,
         redis, onArtifactState
    <3> QED
      BY <3>1 DEF NoPassInv
  <2>4. ASSUME NEW t \in Steps, OnStep(t) PROVE NoPassInv'
    <3>1. UNCHANGED <<artCache, stepCache, artPc>>
      BY <2>4 DEF OnStep, StepSkips, StepStarts, StepEnds, redis, onArtifactState
    <3>2. \A s \in Steps : stepPc'[s] \in Unpassed => stepPc[s] \in Unpassed
      <4>1. CASE StepStarts(t)
        <5>1. stepPc[t] \in Unpassed
          BY <4>1, RunsUnpassed DEF StepStarts, StepConstrained
        <5> QED
          BY <4>1, <5>1 DEF StepStarts, IInv, TypeOK
      <4>2. CASE StepSkips(t) \/ StepEnds(t)
        BY <4>2 DEF StepSkips, StepEnds, IInv, TypeOK, Unpassed
      <4> QED
        BY <2>4, <4>1, <4>2 DEF OnStep
    <3> QED
      BY <3>1, <3>2 DEF NoPassInv
  <2>5. ASSUME NEW t \in Steps, NEW y \in Artifacts, OnArtifact(t, y) PROVE NoPassInv'
    <3>1. UNCHANGED <<artCache, stepCache, stepPc>>
      BY <2>5 DEF OnArtifact, ArtifactSkips, ArtifactStarts, ArtifactEnds, AfterAllEnds, redis
    <3>2. \A s \in Steps, x \in Artifacts : artPc'[s][x] \in Unpassed => artPc[s][x] \in Unpassed
      <4>1. CASE ArtifactStarts(t, y)
        <5>1. artPc[t][y] \in Unpassed
          BY <4>1, RunsUnpassed DEF ArtifactStarts, ArtifactConstrained
        <5> QED
          BY <4>1, <5>1 DEF ArtifactStarts, IInv, TypeOK
      <4>2. CASE ArtifactSkips(t, y) \/ ArtifactEnds(t, y) \/ AfterAllEnds(t, y)
        <5>1. \E pc \in {"finished", "afterAll"} : artPc' = [artPc EXCEPT ![t][y] = pc]
          BY <4>2 DEF ArtifactSkips, ArtifactEnds, AfterAllEnds
        <5> QED
          BY <5>1 DEF IInv, TypeOK, Unpassed
      <4> QED
        BY <2>5, <4>1, <4>2 DEF OnArtifact
    <3> QED
      BY <3>1, <3>2 DEF NoPassInv
  <2> QED
    BY <2>1, <2>2, <2>3, <2>4, <2>5 DEF Next
<1>3. NoPassInv => NotRunAgainAfterPass
  BY DEF NoPassInv, NotRunAgainAfterPass, Unpassed
<1> QED
  BY <1>1, <1>2, <1>3, InductiveInvariant, PTL DEF Spec

-----------------------------------------------------------------------------
(* What keeps a flow going.  FlowSettles is for TLC to check; that no state  *)
(* of a flow is a dead end, and that every turn brings the flow forward, is  *)
(* proved here.                                                              *)

\* When no news is on its way, no step (artifact) sleeps whose parents are all final:
\* the batch that made the last of them final, or the step's own announcement, woke it.
NoLostWakeUp ==
  flow = "running" /\ buffer = {} /\ inflight = <<>> => \A s \in Steps :
    /\ s \notin Enabled \/ (s \in ArtifactSteps /\ Artifacts = {}) => stepPc[s] # "waiting"
    /\ s \in Enabled =>
         /\ s \notin ArtifactSteps /\ MayStart(s) => stepPc[s] # "waiting"
         /\ s \in ArtifactSteps => \A a \in Artifacts :
              MayStartOnArtifact(s, a) => artPc[s][a] # "waiting"

\* Some part of the flow has its guard fulfilled: the timer of the buffer has something
\* to send, an answer of redis, a constrain or a function of the user is under way, or
\* runAllSteps may return.
TurnIsDue ==
  \/ flow = "setup"
  \/ /\ flow = "running"
     /\ \/ buffer # {} \/ inflight # <<>>
        \/ \E s \in Steps : stepPc[s] \in Verdict \cup {"running"} \/ beforeAll[s] = "running"
        \/ \E s \in Steps, a \in Artifacts :
             \/ artPc[s][a] \in Verdict \cup {"afterAll"}
             \/ artPc[s][a] = "running" /\ beforeAll[s] = "finished"
        \/ /\ flowFinished
           /\ \A s \in Steps : /\ stepPc[s] \in {"waiting", "finished"}
                               /\ \A a \in Artifacts : artPc[s][a] \in {"waiting", "finished"}

\* A flow that has not ended is never stuck: it is not left with a timer that ticks
\* for ever and nothing to wait for.
NeverStuck == flow \in {"setup", "running"} => TurnIsDue

\* The news that have not reached the steps yet.
Coming == buffer \cup UNION {inflight[i] : i \in 1..Len(inflight)}

\* The news that make step s try artifact x.
TriesArtifact(s, x, act) ==
  /\ act.type = "artifactStep"
  /\ Passes(s, act)
  /\ act.artifact = x \/ (s \in WaitSteps /\ act.artifact \in ArtifactParents[x])

\* The steps that abort on the first news they see.
AbortsAtOnce(s) == s \notin Enabled \/ (s \in ArtifactSteps /\ Artifacts = {})

\* Whatever may start and has not is about to be woken up.
WakeUpInv(s) ==
  /\ AbortsAtOnce(s) /\ stepPc[s] = "waiting" => StepAction(s, Scheduled) \in Coming
  /\ s \in Enabled \ ArtifactSteps /\ MayStart(s) /\ stepPc[s] = "waiting" =>
       \E act \in Coming : Passes(s, act)
  /\ s \in Enabled \cap ArtifactSteps => \A x \in Artifacts :
       MayStartOnArtifact(s, x) /\ artPc[s][x] = "waiting" =>
         \E act \in Coming : TriesArtifact(s, x, act)

WakeUps == flow = "running" => \A s \in Steps : WakeUpInv(s)

\* The tick moves the news on, a delivery takes one batch of them away.
LEMMA ComingFacts ==
  ASSUME TypeOK
  PROVE  /\ Flush => Coming' = Coming
         /\ Deliver => Coming \subseteq Coming' \cup Head(inflight)
         /\ inflight' = inflight => (buffer \subseteq buffer' => Coming \subseteq Coming')
         /\ buffer' \subseteq Coming'
<1>1. inflight \in Seq(SUBSET Actions)
  BY DEF TypeOK
<1>2. ASSUME Flush PROVE Coming' = Coming
  <2>1. inflight' = Append(inflight, buffer) /\ buffer' = {}
    BY <1>2 DEF Flush
  <2>2. /\ Len(inflight') = Len(inflight) + 1 /\ Len(inflight) \in Nat
        /\ inflight'[Len(inflight) + 1] = buffer
        /\ \A i \in 1..Len(inflight) : inflight'[i] = inflight[i]
    BY <1>1, <2>1
  <2>3. ASSUME NEW act \in Coming PROVE act \in Coming'
    <3>1. CASE act \in buffer
      BY <2>2, <3>1 DEF Coming
    <3>2. CASE \E i \in 1..Len(inflight) : act \in inflight[i]
      BY <2>2, <3>2 DEF Coming
    <3> QED BY <3>1, <3>2 DEF Coming
  <2>4. ASSUME NEW act \in Coming' PROVE act \in Coming
    <3>1. PICK i \in 1..Len(inflight') : act \in inflight'[i]
      BY <2>1 DEF Coming
    <3>2. i \in 1..Len(inflight) \/ i = Len(inflight) + 1
      BY <2>2
    <3> QED BY <2>2, <3>1, <3>2 DEF Coming
  <2> QED BY <2>3, <2>4
<1>3. ASSUME Deliver PROVE Coming \subseteq Coming' \cup Head(inflight)
  <2>1. inflight # <<>> /\ inflight' = Tail(inflight) /\ buffer \subseteq buffer'
    BY <1>3 DEF Deliver, Dispatch
  <2>2. /\ Len(inflight) \in Nat /\ Len(inflight') = Len(inflight) - 1
        /\ Head(inflight) = inflight[1]
        /\ \A i \in 1..Len(inflight') : inflight'[i] = inflight[i + 1]
    BY <1>1, <2>1
  <2>3. ASSUME NEW i \in 1..Len(inflight), NEW act \in inflight[i]
        PROVE  act \in Coming' \cup Head(inflight)
    <3>1. CASE i = 1
      BY <2>2, <3>1
    <3>2. CASE i # 1
      <4>1. i - 1 \in 1..Len(inflight') /\ inflight'[i - 1] = inflight[i]
        BY <2>2, <3>2
      <4> QED BY <4>1 DEF Coming
    <3> QED BY <3>1, <3>2
  <2> QED BY <2>1, <2>3 DEF Coming
<1>4. inflight' = inflight => (buffer \subseteq buffer' => Coming \subseteq Coming')
  BY DEF Coming
<1> QED BY <1>2, <1>3, <1>4 DEF Coming

\* What a dispatch makes final is among the news to come.
LEMMA FinalIsNews ==
  ASSUME IInv, NEW sn, NEW an, IsNews(sn, an), Dispatch(sn, an), IsFresh(sn, an)
  PROVE  /\ buffer \subseteq buffer'
         /\ \A p \in Steps : IsFinal(stepRes'[p]) /\ ~IsFinal(stepRes[p]) =>
              \E act \in buffer' : act.type = "step" /\ act.step = p
         /\ \A p \in Steps, x \in Artifacts : IsFinal(artRes'[p][x]) /\ ~IsFinal(artRes[p][x]) =>
              \E act \in buffer' : act.type = "artifactStep" /\ act.step = p /\ act.artifact = x
<1>1. buffer \subseteq buffer' /\ (~flowFinished => ActionsAbout(sn, an) \subseteq buffer')
  BY DEF Dispatch
<1>2. ASSUME NEW p \in Steps, IsFinal(stepRes'[p]), ~IsFinal(stepRes[p])
      PROVE  \E act \in buffer' : act.type = "step" /\ act.step = p
  <2>1. p \in DOMAIN sn
    BY <1>2, DispatchEffect DEF IInv
  <2>2. ~flowFinished
    BY <1>2 DEF IInv, FlowInv
  <2>3. StepAction(p, sn[p]) \in ActionsAbout(sn, an)
    BY <2>1 DEF ActionsAbout
  <2> QED BY <1>1, <2>2, <2>3 DEF StepAction
<1>3. ASSUME NEW p \in Steps, NEW x \in Artifacts, IsFinal(artRes'[p][x]), ~IsFinal(artRes[p][x])
      PROVE  \E act \in buffer' : act.type = "artifactStep" /\ act.step = p /\ act.artifact = x
  <2>1. <<p, x>> \in DOMAIN an
    BY <1>3, DispatchEffect DEF IInv
  <2>2. ~flowFinished
    BY <1>3, FinalStep DEF IInv, FlowInv
  <2>3. ArtifactAction(p, x, an[<<p, x>>]) \in ActionsAbout(sn, an)
    <3>1. ArtifactAction(p, x, an[<<p, x>>]) = ArtifactAction(<<p, x>>[1], <<p, x>>[2], an[<<p, x>>])
      OBVIOUS
    <3> QED BY <2>1, <3>1 DEF ActionsAbout
  <2> QED BY <1>1, <2>2, <2>3 DEF ArtifactAction
<1> QED BY <1>1, <1>2, <1>3

\* A step that is about to be woken up stays so, or wakes up: what may start either might
\* before, or might not and the news of the last parent are still to come.
LEMMA StillWoken ==
  ASSUME IInv, NEW s \in Steps, WakeUpInv(s), globalVerdict' = globalVerdict,
         stepPc'[s] = "waiting" => stepPc[s] = "waiting",
         \A x \in Artifacts : artPc'[s][x] = "waiting" => artPc[s][x] = "waiting",
         \A p \in Steps : IsFinal(stepRes'[p]) /\ ~IsFinal(stepRes[p]) =>
           \E act \in Coming' : act.type = "step" /\ act.step = p,
         \A p \in Steps, x \in Artifacts : IsFinal(artRes'[p][x]) /\ ~IsFinal(artRes[p][x]) =>
           \E act \in Coming' : act.type = "artifactStep" /\ act.step = p /\ act.artifact = x,
         \A act \in Coming \ Coming' :
           /\ AbortsAtOnce(s) /\ act = StepAction(s, Scheduled) => stepPc'[s] # "waiting"
           /\ s \in Enabled \ ArtifactSteps /\ Passes(s, act) /\ MayStart(s)' =>
                stepPc'[s] # "waiting"
           /\ s \in Enabled \cap ArtifactSteps => \A x \in Artifacts :
                TriesArtifact(s, x, act) /\ MayStartOnArtifact(s, x)' => artPc'[s][x] # "waiting"
  PROVE  WakeUpInv(s)'
<1>1. Enabled' = Enabled
  BY DEF Enabled
<1>2. /\ StepAncestors[s] \subseteq Steps /\ StepParents[s] \subseteq StepAncestors[s]
      /\ \A x \in Artifacts : ArtifactParents[x] \subseteq Artifacts
  BY GraphAssumption DEF StepAncestors
<1>3. (AbortsAtOnce(s) /\ stepPc[s] = "waiting" => StepAction(s, Scheduled) \in Coming)'
  BY <1>1 DEF WakeUpInv, AbortsAtOnce, StepAction, Scheduled
<1>4. ASSUME s \in Enabled \ ArtifactSteps, MayStart(s)', stepPc'[s] = "waiting"
      PROVE  \E act \in Coming' : Passes(s, act)
  <2>1. CASE MayStart(s)
    BY <1>4, <2>1 DEF WakeUpInv
  <2>2. CASE ~MayStart(s)
    <3>1. PICK p \in StepAncestors[s] : ~IsFinal(stepRes[p])
      BY <2>2 DEF MayStart
    <3>2. IsFinal(stepRes'[p])
      BY <1>4, <3>1 DEF MayStart, IsFinal
    <3> QED BY <1>2, <3>1, <3>2 DEF Passes
  <2> QED BY <2>1, <2>2
<1>5. ASSUME s \in Enabled \cap ArtifactSteps, NEW x \in Artifacts,
             MayStartOnArtifact(s, x)', artPc'[s][x] = "waiting"
      PROVE  \E act \in Coming' : TriesArtifact(s, x, act)
  <2>1. CASE MayStartOnArtifact(s, x)
    BY <1>5, <2>1 DEF WakeUpInv
  <2>2. CASE \E p \in StepAncestors[s] : ~IsFinal(artRes[p][x])
    <3>1. PICK p \in StepAncestors[s] : ~IsFinal(artRes[p][x])
      BY <2>2
    <3>2. IsFinal(artRes'[p][x])
      BY <1>5, <3>1 DEF MayStartOnArtifact, IsFinal
    <3> QED BY <1>2, <3>1, <3>2 DEF Passes, TriesArtifact
  <2>3. CASE s \in WaitSteps /\ \E p \in StepParents[s], b \in ArtifactParents[x] : ~IsFinal(artRes[p][b])
    <3>1. PICK p \in StepParents[s], b \in ArtifactParents[x] : ~IsFinal(artRes[p][b])
      BY <2>3
    <3>2. IsFinal(artRes'[p][b])
      BY <1>5, <2>3, <3>1 DEF MayStartOnArtifact, IsFinal
    <3> QED BY <1>2, <2>3, <3>1, <3>2 DEF Passes, TriesArtifact
  <2> QED BY <2>1, <2>2, <2>3 DEF MayStartOnArtifact
<1> QED BY <1>1, <1>3, <1>4, <1>5 DEF WakeUpInv, Passes, TriesArtifact

\* Setting up announces every step and every artifact in it.
LEMMA SetUpAnnounces ==
  ASSUME IInv, SetUp
  PROVE  \A s \in Steps : /\ StepAction(s, Scheduled) \in buffer'
                          /\ \A x \in Artifacts : ArtifactAction(s, x, Scheduled) \in buffer'
<1> DEFINE sn == [s \in Steps |-> Scheduled]
           an == [x \in Steps \X Artifacts |-> Scheduled]
<1>1. IsNews(sn, an) /\ Dispatch(sn, an)
  BY SetUpFresh
<1> SUFFICES ASSUME NEW s \in Steps
             PROVE  /\ StepAction(s, Scheduled) \in buffer'
                    /\ \A x \in Artifacts : ArtifactAction(s, x, Scheduled) \in buffer'
  OBVIOUS
<1>2. ~flowFinished
  BY ResultFacts DEF IInv, FlowInv, SetUpInv, SetUp
<1>3. ActionsAbout(sn, an) \subseteq buffer'
  BY <1>1, <1>2 DEF Dispatch
<1>4. StepAction(s, sn[s]) \in ActionsAbout(sn, an)
  BY DEF ActionsAbout
<1>5. ASSUME NEW x \in Artifacts PROVE ArtifactAction(s, x, Scheduled) \in ActionsAbout(sn, an)
  <2>1. <<s, x>> \in DOMAIN an /\ an[<<s, x>>] = Scheduled
    OBVIOUS
  <2>2. ArtifactAction(s, x, an[<<s, x>>]) = ArtifactAction(<<s, x>>[1], <<s, x>>[2], an[<<s, x>>])
    OBVIOUS
  <2> QED BY <2>1, <2>2 DEF ActionsAbout
<1> QED BY <1>3, <1>4, <1>5

\* A delivered batch wakes up, or aborts, whatever it was to wake up.
LEMMA DeliverWakes ==
  ASSUME IInv, FlowInv', TypeOK', Deliver, NEW s \in Steps, NEW act \in Head(inflight)
  PROVE  /\ AbortsAtOnce(s) /\ act = StepAction(s, Scheduled) => stepPc'[s] # "waiting"
         /\ s \in Enabled \ ArtifactSteps /\ Passes(s, act) /\ MayStart(s)' =>
              stepPc'[s] # "waiting"
         /\ s \in Enabled \cap ArtifactSteps => \A x \in Artifacts :
              TriesArtifact(s, x, act) /\ MayStartOnArtifact(s, x)' => artPc'[s][x] # "waiting"
<1> DEFINE batch == Head(inflight)
           aborted == GloballySkipped \cup WithoutArtifacts(batch)
           stepWakes(t) == /\ t \notin ArtifactSteps
                           /\ globalVerdict[t] = "shouldRun"
                           /\ stepPc[t] = "waiting"
                           /\ \E b \in batch : Passes(t, b)
                           /\ ParentStepsFinished(t)
           artifactWakes(t, x) == /\ t \in ArtifactSteps
                                  /\ globalVerdict[t] = "shouldRun"
                                  /\ artPc[t][x] = "waiting" /\ localRes[t][x] = Scheduled
                                  /\ \E b \in batch : Attempts(t, x, b)
                                  /\ ParentStepsFinishedOnArtifact(t, x)
<1>1. /\ stepPc'[s] = IF s \in aborted THEN "finished"
                      ELSE IF stepWakes(s) THEN StepCacheVerdict(s) ELSE stepPc[s]
      /\ \A x \in Artifacts : artPc'[s][x] = IF artifactWakes(s, x) THEN ArtifactCacheVerdict(s, x)
                                             ELSE artPc[s][x]
      /\ UNCHANGED <<globalVerdict, localRes>>
  BY DEF Deliver
<1>2. StepCacheVerdict(s) # "waiting" /\ \A x \in Artifacts : ArtifactCacheVerdict(s, x) # "waiting"
  BY CacheVerdictType DEF Verdict
<1>3. /\ StepAncestors[s] \subseteq Steps /\ StepParents[s] \subseteq StepAncestors[s]
      /\ \A x \in Artifacts : ArtifactParents[x] \subseteq Artifacts
  BY GraphAssumption DEF StepAncestors
<1>4. ASSUME AbortsAtOnce(s), act = StepAction(s, Scheduled), stepPc'[s] = "waiting" PROVE FALSE
  <2>1. stepPc[s] = "waiting"
    BY <1>1, <1>2, <1>4
  <2>2. Passes(s, act)
    BY <1>4 DEF Passes, StepAction, Scheduled
  <2>3. s \in aborted
    BY <1>4, <2>1, <2>2 DEF AbortsAtOnce, Enabled, GloballySkipped, WithoutArtifacts
  <2> QED BY <1>1, <1>4, <2>3
<1>5. ASSUME s \in Enabled \ ArtifactSteps, Passes(s, act), MayStart(s)', stepPc'[s] = "waiting"
      PROVE  FALSE
  <2>1. stepPc[s] = "waiting"
    BY <1>1, <1>2, <1>5
  <2>2. ParentStepsFinished(s)
    BY <1>5 DEF MayStart, ParentStepsFinished, IsFinal
  <2>3. stepWakes(s)
    BY <1>5, <2>1, <2>2 DEF Enabled
  <2> QED BY <1>1, <1>2, <1>5, <2>3
<1>6. ASSUME s \in Enabled \cap ArtifactSteps, NEW x \in Artifacts, TriesArtifact(s, x, act),
             MayStartOnArtifact(s, x)', artPc'[s][x] = "waiting"
      PROVE  FALSE
  <2>1. artPc[s][x] = "waiting"
    BY <1>1, <1>2, <1>6
  <2>2. ~IsWhole(s) /\ ~IsWhole(s)'
    BY <1>1, <1>6 DEF IsWhole, Enabled
  <2>3. artRes[s][x] = Scheduled /\ localRes[s][x] = Scheduled
    BY <2>1, <2>2 DEF IInv, FlowInv, StepInv, ByArtifactInv, ArtifactInv
  <2>4. artRes'[s][x] = Scheduled
    BY <1>6, <2>2 DEF FlowInv, StepInv, ByArtifactInv, ArtifactInv, Scheduled
  <2>5. ParentStepsFinishedOnArtifact(s, x)
    BY <1>6 DEF MayStartOnArtifact, ParentStepsFinishedOnArtifact, IsFinal
  <2>6. s \in WaitSteps => ArtifactParentsFinishedParentSteps(s, x)
    BY <1>6 DEF MayStartOnArtifact, ArtifactParentsFinishedParentSteps, IsFinal
  <2>7. Attempts(s, x, act)
    BY <1>6, <2>4, <2>6 DEF TriesArtifact, Attempts, Scheduled
  <2>8. artifactWakes(s, x)
    BY <1>6, <2>1, <2>3, <2>5, <2>7 DEF Enabled
  <2> QED BY <1>1, <1>2, <1>6, <2>8
<1> QED BY <1>4, <1>5, <1>6

\* Every step keeps what is about to wake up about to wake up.
LEMMA WakeUpStep == IInv /\ IInv' /\ WakeUps /\ [Next]_vars => WakeUps'
<1> SUFFICES ASSUME IInv, IInv', WakeUps, [Next]_vars, flow' = "running", NEW s \in Steps
             PROVE  WakeUpInv(s)'
  BY DEF WakeUps
<1>1. CASE SetUp
  <2>1. StepAction(s, Scheduled) \in Coming'
    BY <1>1, SetUpAnnounces, ComingFacts DEF IInv
  <2>2. \A x \in Artifacts : ArtifactAction(s, x, Scheduled) \in Coming'
    BY <1>1, SetUpAnnounces, ComingFacts DEF IInv
  <2>3. Passes(s, StepAction(s, Scheduled))
    BY DEF Passes, StepAction, Scheduled
  <2>4. \A x \in Artifacts : TriesArtifact(s, x, ArtifactAction(s, x, Scheduled))
    BY DEF TriesArtifact, Passes, ArtifactAction, Scheduled
  <2> QED BY <2>1, <2>2, <2>3, <2>4 DEF WakeUpInv, StepAction, Scheduled, Passes, TriesArtifact
<1>2. CASE Flush
  <2>1. Coming' = Coming
    BY <1>2, ComingFacts DEF IInv
  <2>2. flow = "running" /\ UNCHANGED <<globalVerdict, store, stepPc, artPc>>
    BY <1>2 DEF Flush, onArtifactState
  <2>3. WakeUpInv(s)
    BY <2>2 DEF WakeUps
  <2> QED BY <2>1, <2>2, <2>3, StillWoken DEF store
<1>3. CASE \/ SetUpFails \/ EmptyTick \/ RedisFails \/ Return \/ Terminated \/ UNCHANGED vars
           \/ \E t \in Steps : BeforeAllEnds(t)
  <2>1. /\ flow = "running"
        /\ UNCHANGED <<globalVerdict, store, buffer, inflight, stepPc, artPc>>
    BY <1>3 DEF SetUpFails, EmptyTick, RedisFails, Return, Terminated, vars, BeforeAllEnds, store,
       onArtifactState
  <2>2. Coming \subseteq Coming' /\ WakeUpInv(s)
    BY <2>1, ComingFacts DEF IInv, WakeUps
  <2> QED BY <2>1, <2>2, StillWoken DEF store
<1>4. CASE (\E t \in Steps : OnStep(t)) \/ (\E t \in Steps, x \in Artifacts : OnArtifact(t, x))
  <2>1. PICK sn, an : IsNews(sn, an) /\ Dispatch(sn, an) /\ IsFresh(sn, an)
    BY <1>4, OnStepFresh, OnArtifactFresh
  <2>2. flow = "running" /\ UNCHANGED <<globalVerdict, inflight>>
    BY ZenonT(30), <1>4 DEF OnStep, StepSkips, StepStarts, StepEnds, StepConstrained, OnArtifact,
       ArtifactSkips, ArtifactStarts, ArtifactEnds, AfterAllEnds, ArtifactConstrained
  <2>3. stepPc'[s] = "waiting" => stepPc[s] = "waiting"
    BY <1>4 DEF OnStep, StepSkips, StepStarts, StepEnds, OnArtifact, ArtifactSkips,
       ArtifactStarts, ArtifactEnds, AfterAllEnds, IInv, TypeOK
  <2>4. ASSUME NEW x \in Artifacts, artPc'[s][x] = "waiting" PROVE artPc[s][x] = "waiting"
    <3>1. CASE \E t \in Steps : OnStep(t)
      BY <2>4, <3>1 DEF OnStep, StepSkips, StepStarts, StepEnds, onArtifactState
    <3>2. CASE \E t \in Steps, y \in Artifacts : OnArtifact(t, y)
      <4>1. PICK t \in Steps, y \in Artifacts, pc \in {"running", "afterAll", "finished"} :
              artPc' = [artPc EXCEPT ![t][y] = pc]
        BY <3>2 DEF OnArtifact, ArtifactSkips, ArtifactStarts, ArtifactEnds, AfterAllEnds
      <4> QED BY <2>4, <4>1 DEF IInv, TypeOK
    <3> QED BY <1>4, <3>1, <3>2
  <2>5. buffer \subseteq buffer' /\ Coming \subseteq Coming' /\ buffer' \subseteq Coming'
    BY <2>1, <2>2, FinalIsNews, ComingFacts DEF IInv
  <2>6. WakeUpInv(s)
    BY <2>2 DEF WakeUps
  <2>7. /\ \A p \in Steps : IsFinal(stepRes'[p]) /\ ~IsFinal(stepRes[p]) =>
             \E act \in Coming' : act.type = "step" /\ act.step = p
        /\ \A p \in Steps, x \in Artifacts : IsFinal(artRes'[p][x]) /\ ~IsFinal(artRes[p][x]) =>
             \E act \in Coming' : act.type = "artifactStep" /\ act.step = p /\ act.artifact = x
    BY <2>1, <2>5, FinalIsNews
  <2> QED BY <2>2, <2>3, <2>4, <2>5, <2>6, <2>7, StillWoken
<1>5. CASE Deliver
  <2>1. PICK sn, an : IsNews(sn, an) /\ Dispatch(sn, an) /\ IsFresh(sn, an)
    BY <1>5, DeliverFresh
  <2>2. flow = "running" /\ UNCHANGED globalVerdict
    BY <1>5 DEF Deliver
  <2>3. stepPc'[s] = "waiting" => stepPc[s] = "waiting"
    BY <1>5, CacheVerdictType DEF Deliver, Verdict
  <2>4. ASSUME NEW x \in Artifacts, artPc'[s][x] = "waiting" PROVE artPc[s][x] = "waiting"
    BY <1>5, <2>4, CacheVerdictType DEF Deliver, Verdict
  <2>5. buffer' \subseteq Coming' /\ Coming \ Coming' \subseteq Head(inflight)
    BY <1>5, ComingFacts DEF IInv
  <2>6. WakeUpInv(s)
    BY <2>2 DEF WakeUps
  <2>7. /\ \A p \in Steps : IsFinal(stepRes'[p]) /\ ~IsFinal(stepRes[p]) =>
             \E act \in Coming' : act.type = "step" /\ act.step = p
        /\ \A p \in Steps, x \in Artifacts : IsFinal(artRes'[p][x]) /\ ~IsFinal(artRes[p][x]) =>
             \E act \in Coming' : act.type = "artifactStep" /\ act.step = p /\ act.artifact = x
    BY <2>1, <2>5, FinalIsNews
  <2>8. \A act \in Coming \ Coming' :
          /\ AbortsAtOnce(s) /\ act = StepAction(s, Scheduled) => stepPc'[s] # "waiting"
          /\ s \in Enabled \ ArtifactSteps /\ Passes(s, act) /\ MayStart(s)' =>
               stepPc'[s] # "waiting"
          /\ s \in Enabled \cap ArtifactSteps => \A x \in Artifacts :
               TriesArtifact(s, x, act) /\ MayStartOnArtifact(s, x)' => artPc'[s][x] # "waiting"
    BY <1>5, <2>5, DeliverWakes DEF IInv
  <2> QED BY <2>2, <2>3, <2>4, <2>6, <2>7, <2>8, StillWoken
<1> QED BY <1>1, <1>2, <1>3, <1>4, <1>5 DEF Next

\* No wake-up is lost, for every graph of steps and artifacts, be the artifact graph
\* even cyclic: a step that waits is one whose parents are not final, though it looks at
\* the store only when a batch of news happens to reach it.
THEOREM WakeUpsAreNotLost == Spec => []NoLostWakeUp
<1>1. Init => WakeUps
  BY DEF Init, WakeUps
<1>2. IInv /\ WakeUps => NoLostWakeUp
  <2>1. buffer = {} /\ inflight = <<>> => Coming = {}
    BY DEF Coming
  <2> QED BY <2>1 DEF WakeUps, WakeUpInv, NoLostWakeUp, AbortsAtOnce
<1> QED BY <1>1, <1>2, WakeUpStep, InductiveInvariant, PTL DEF Spec

-----------------------------------------------------------------------------
(* No state of a flow is a dead end.                                        *)

\* The last artifact of a step closes the step, or is on its way to.
ClosesInv(s) ==
  ~IsWhole(s) /\ AllFinal(localRes[s]) =>
    IsFinal(stepRes[s]) \/ \E x \in Artifacts : artPc[s][x] = "afterAll"

\* A step closes with its last artifact, an artifact that runs has had onBeforeArtifacts
\* called, and the flow is marked finished by the action that makes the last step final.
CloseInv ==
  /\ flow = "running" => \A s \in Steps :
       /\ ClosesInv(s)
       /\ \A x \in Artifacts : artPc[s][x] = "running" => beforeAll[s] # "notCalled"
  /\ (\A s \in Steps : IsFinal(stepRes[s])) => flowFinished

\* The turn of the artifact that is the last one of its step.
LEMMA ArtifactCloses ==
  ASSUME IInv, NEW s \in Steps, NEW x \in Artifacts, OnArtifact(s, x), flow' = "running"
  PROVE  ClosesInv(s)'
<1>1. artPc[s][x] \in {"running", "afterAll"} \cup Verdict /\ artPc[s][x] # "waiting"
  BY DEF OnArtifact, ArtifactSkips, ArtifactStarts, ArtifactEnds, AfterAllEnds, ArtifactConstrained,
         Verdict
<1>2. ByArtifactInv(s)
  BY <1>1, AwakeByArtifact
<1>3. stepRes[s] \in {Scheduled, Running}
  BY <1>1, <1>2, ResultFacts DEF ByArtifactInv, ArtifactInv, AllFinal, IInv, TypeOK, Verdict
<1>4. ASSUME NEW r \in FinalResult, NEW an, IsNews(Only(s, r), an), Dispatch(Only(s, r), an)
      PROVE  IsFinal(stepRes'[s])
  <2>1. s \in DOMAIN Only(s, r) /\ Only(s, r)[s] = r
    BY DEF Only
  <2>2. stepRes'[s] = Reduced(stepRes[s], r)
    BY <1>4, <2>1, DispatchEffect DEF IInv
  <2> QED BY <1>3, <2>2, ReducedFacts, ResultFacts
<1>5. (ClosesInv(s))' <=> (~IsWhole(s)' /\ AllFinal(localRes'[s]) =>
         IsFinal(stepRes'[s]) \/ \E y \in Artifacts : artPc'[s][y] = "afterAll")
  BY DEF ClosesInv, AllFinal, IsFinal
<1>6. CASE ArtifactSkips(s, x)
  <2>1. PICK v \in Verdict \ {"shouldRun"} :
          /\ localRes' = [localRes EXCEPT ![s][x] = Aborted(v)]
          /\ LET results == localRes'[s]
                 closes == AllFinal(results) /\ ~CantBeHereAfterSkip(results)
             IN /\ Dispatch(IF closes THEN Only(s, StepResultOf(results)) ELSE None,
                            Only(<<s, x>>, Aborted(v)))
                /\ flow' = IF AllFinal(results) /\ CantBeHereAfterSkip(results)
                           THEN "cantBeHere8" ELSE flow
    BY <1>6 DEF ArtifactSkips
  <2>2. Aborted(v) \in Result
    BY VerdictStatus, FinalFacts, ResultFacts
  <2>3. localRes' \in [Steps -> [Artifacts -> Result]]
    BY <2>1, <2>2 DEF IInv, TypeOK
  <2>4. StepResultOf(localRes'[s]) \in FinalResult /\ StepResultOf(localRes'[s]) \in Result
    BY <2>3, StepResultType, ResultFacts
  <2>5. ASSUME AllFinal(localRes'[s]) PROVE IsFinal(stepRes'[s])
    <3>1. Dispatch(Only(s, StepResultOf(localRes'[s])), Only(<<s, x>>, Aborted(v)))
      BY <2>1, <2>5
    <3>2. IsNews(Only(s, StepResultOf(localRes'[s])), Only(<<s, x>>, Aborted(v)))
      BY <2>2, <2>4, NewsType
    <3> QED BY <1>4, <2>4, <3>1, <3>2
  <2> QED BY <1>5, <2>5
<1>7. CASE ArtifactStarts(s, x)
  <2>1. localRes'[s][x] = Running
    BY <1>7 DEF ArtifactStarts, IInv, TypeOK
  <2> QED BY <1>5, <2>1, ResultFacts DEF AllFinal
<1>8. CASE ArtifactEnds(s, x)
  <2>1. AllFinal(localRes'[s]) => artPc'[s][x] = "afterAll"
    BY <1>8 DEF ArtifactEnds, IInv, TypeOK
  <2> QED BY <1>5, <2>1
<1>9. CASE AfterAllEnds(s, x)
  <2>1. StepResultOf(localRes[s]) \in FinalResult /\ StepResultOf(localRes[s]) \in Result
    BY StepResultType, ResultFacts DEF IInv, TypeOK
  <2>2. Dispatch(Only(s, StepResultOf(localRes[s])), None)
    BY <1>9 DEF AfterAllEnds
  <2>3. IsFinal(stepRes'[s])
    BY <1>4, <2>1, <2>2, NewsType
  <2> QED BY <1>5, <2>3
<1> QED BY <1>6, <1>7, <1>8, <1>9 DEF OnArtifact

\* A turn about something else leaves a step as closed as it was.
LEMMA ClosesFrame ==
  ASSUME NEW t \in Steps, ClosesInv(t), globalVerdict'[t] = globalVerdict[t],
         localRes'[t] = localRes[t], IsFinal(stepRes[t]) => stepRes'[t] = stepRes[t],
         \A x \in Artifacts : artPc[t][x] = "afterAll" => artPc'[t][x] = "afterAll"
  PROVE  ClosesInv(t)'
BY DEF ClosesInv, IsWhole, AllFinal, IsFinal

\* Every step of the flow keeps CloseInv.
LEMMA CloseStep == IInv /\ IInv' /\ CloseInv /\ [Next]_vars => CloseInv'
<1> SUFFICES ASSUME IInv, IInv', CloseInv, [Next]_vars PROVE CloseInv'
  OBVIOUS
<1>1. (\A s \in Steps : IsFinal(stepRes'[s])) => flowFinished'
  <2>1. CASE UNCHANGED store
    BY <2>1 DEF CloseInv, store, IsFinal
  <2>2. CASE \E sn, an : Dispatch(sn, an)
    BY <2>2 DEF Dispatch, AllStepsFinished
  <2> QED BY <2>1, <2>2, EveryTurnIsFresh
<1>2. ASSUME flow' = "running", NEW s \in Steps
      PROVE  /\ ClosesInv(s)'
             /\ \A x \in Artifacts : artPc'[s][x] = "running" => beforeAll'[s] # "notCalled"
  <2>1. CASE SetUp
    <3>1. \A x \in Artifacts : localRes'[s][x] = Scheduled /\ artPc'[s][x] = "waiting"
      BY <2>1 DEF SetUp, onArtifactState, IInv, FlowInv, SetUpInv
    <3>2. ~IsWhole(s)' => Artifacts # {}
      BY DEF IsWhole
    <3> QED BY <3>1, <3>2, ResultFacts DEF ClosesInv, AllFinal, IsFinal
  <2>2. CASE \/ SetUpFails \/ EmptyTick \/ RedisFails \/ Return \/ Flush \/ Terminated
             \/ UNCHANGED vars
    <3>1. flow = "running" /\ UNCHANGED <<globalVerdict, store, artPc, localRes, beforeAll>>
      BY <1>2, <2>2 DEF SetUpFails, EmptyTick, RedisFails, Return, Flush, Terminated, vars, store,
         onArtifactState
    <3> QED BY <3>1, ClosesFrame DEF CloseInv, store
  <2>3. CASE \E t \in Steps : BeforeAllEnds(t)
    <3>1. /\ flow = "running" /\ UNCHANGED <<globalVerdict, store, artPc, localRes>>
          /\ beforeAll'[s] = "notCalled" => beforeAll[s] = "notCalled"
      BY <2>3 DEF BeforeAllEnds, store, IInv, TypeOK
    <3> QED BY <3>1, ClosesFrame DEF CloseInv, store
  <2>4. CASE Deliver
    <3>1. PICK sn, an : IsNews(sn, an) /\ Dispatch(sn, an)
      BY <2>4, DeliverFresh
    <3>2. IsFinal(stepRes[s]) => stepRes'[s] = stepRes[s]
      BY <3>1, DispatchEffect DEF IInv
    <3>3. flow = "running" /\ UNCHANGED <<globalVerdict, localRes, beforeAll>>
      BY <2>4 DEF Deliver
    <3>4. \A x \in Artifacts : artPc'[s][x] = artPc[s][x]
                               \/ (artPc[s][x] = "waiting" /\ artPc'[s][x] \in Verdict)
      BY <2>4, CacheVerdictType DEF Deliver
    <3> QED BY <3>2, <3>3, <3>4, ClosesFrame DEF CloseInv, Verdict
  <2>5. CASE \E t \in Steps : OnStep(t)
    <3>1. PICK sn, an : IsNews(sn, an) /\ Dispatch(sn, an)
      BY <2>5, OnStepFresh
    <3>2. IsFinal(stepRes[s]) => stepRes'[s] = stepRes[s]
      BY <3>1, DispatchEffect DEF IInv
    <3>3. flow = "running" /\ UNCHANGED <<globalVerdict, onArtifactState>>
      BY <2>5 DEF OnStep, StepSkips, StepStarts, StepEnds, StepConstrained
    <3> QED BY <3>2, <3>3, ClosesFrame DEF CloseInv, onArtifactState
  <2>6. CASE \E t \in Steps, y \in Artifacts : OnArtifact(t, y)
    <3>1. PICK t \in Steps, y \in Artifacts : OnArtifact(t, y)
      BY <2>6
    <3>2. PICK sn, an : IsNews(sn, an) /\ Dispatch(sn, an)
      BY <3>1, OnArtifactFresh
    <3>3. IsFinal(stepRes[s]) => stepRes'[s] = stepRes[s]
      BY <3>2, DispatchEffect DEF IInv
    <3>4. flow = "running" /\ UNCHANGED globalVerdict
      BY <3>1 DEF OnArtifact, ArtifactSkips, ArtifactStarts, ArtifactEnds, AfterAllEnds,
         ArtifactConstrained
    <3>5. PICK pc \in {"running", "afterAll", "finished"}, r \in Result :
            /\ artPc' = [artPc EXCEPT ![t][y] = pc]
            /\ localRes' = localRes \/ localRes' = [localRes EXCEPT ![t][y] = r]
            /\ pc = "running" => ArtifactStarts(t, y)
      BY <3>1, VerdictStatus, FinalFacts, ResultFacts, StepsAssumption
         DEF OnArtifact, ArtifactSkips, ArtifactStarts, ArtifactEnds, AfterAllEnds
    <3>6. ClosesInv(s)'
      <4>1. CASE s = t
        BY <1>2, <3>1, <4>1, ArtifactCloses
      <4>2. CASE s # t
        <5>1. artPc'[s] = artPc[s] /\ localRes'[s] = localRes[s]
          BY <3>5, <4>2 DEF IInv, TypeOK
        <5> QED BY <3>3, <3>4, <5>1, ClosesFrame DEF CloseInv
      <4> QED BY <4>1, <4>2
    <3>7. /\ beforeAll'[s] = "notCalled" => beforeAll[s] = "notCalled"
          /\ ArtifactStarts(t, y) => beforeAll'[t] # "notCalled"
      BY <3>1 DEF OnArtifact, ArtifactSkips, ArtifactStarts, ArtifactEnds, AfterAllEnds, IInv, TypeOK
    <3>8. ASSUME NEW x \in Artifacts, artPc'[s][x] = "running" PROVE beforeAll'[s] # "notCalled"
      <4>1. CASE s = t /\ x = y
        BY <3>5, <3>7, <3>8, <4>1 DEF IInv, TypeOK
      <4>2. CASE ~(s = t /\ x = y)
        <5>1. artPc'[s][x] = artPc[s][x]
          BY <3>5, <4>2 DEF IInv, TypeOK
        <5> QED BY <3>4, <3>7, <3>8, <5>1 DEF CloseInv
      <4> QED BY <4>1, <4>2
    <3> QED BY <3>6, <3>8
  <2> QED BY <2>1, <2>2, <2>3, <2>4, <2>5, <2>6 DEF Next
<1> QED BY <1>1, <1>2 DEF CloseInv

\* In a finite graph, among the steps of a set there is one without ancestors in it.
LEMMA FirstStep ==
  ASSUME IsFiniteSet(Steps), NEW T \in SUBSET Steps, T # {}
  PROVE  \E s \in T : StepAncestors[s] \cap T = {}
<1> DEFINE R == StrictSubsetOrdering(Steps)
<1>1. IsWellFoundedOn(R, SUBSET Steps)
  BY FS_StrictSubsetOrderingWellFounded, FS_FiniteSubsetsOfFinite
<1>2. \A s \in Steps : StepAncestors[s] \in SUBSET Steps
  BY DEF StepAncestors
<1>3. PICK A \in {StepAncestors[s] : s \in T} :
        \A B \in {StepAncestors[s] : s \in T} : ~(<<B, A>> \in R)
  <2>1. {StepAncestors[s] : s \in T} \subseteq SUBSET Steps /\ {StepAncestors[s] : s \in T} # {}
    BY <1>2
  <2> HIDE DEF R
  <2> QED BY <1>1, <2>1, WFMin
<1>4. PICK s \in T : A = StepAncestors[s]
  BY <1>3
<1>5. ASSUME NEW p \in StepAncestors[s] \cap T PROVE FALSE
  <2>1. p \in Steps /\ s \in Steps
    OBVIOUS
  <2>2. StepAncestors[p] \subseteq StepAncestors[s]
    BY <2>1 DEF StepAncestors
  <2>3. p \in StepAncestors[s] /\ p \notin StepAncestors[p]
    BY <2>1, GraphAssumption
  <2>4. <<StepAncestors[p], A>> \in R
    BY <1>2, <1>4, <2>1, <2>2, <2>3 DEF StrictSubsetOrdering
  <2> QED BY <1>3, <2>4
<1> QED BY <1>5

\* Where the callbacks are when no turn of theirs is due.
LEMMA AsleepOrDone ==
  ASSUME IInv, CloseInv, flow = "running", ~TurnIsDue, NEW s \in Steps
  PROVE  /\ stepPc[s] \in {"waiting", "finished"}
         /\ \A x \in Artifacts : artPc[s][x] \in {"waiting", "finished"}
<1>1. stepPc[s] \in Pc /\ stepPc[s] # "afterAll"
  BY DEF IInv, TypeOK, FlowInv, StepInv, WholeInv, ByArtifactInv
<1>2. stepPc[s] \in {"waiting", "finished"}
  BY <1>1 DEF TurnIsDue, Pc
<1>3. ASSUME NEW x \in Artifacts PROVE artPc[s][x] \in {"waiting", "finished"}
  <2>1. artPc[s][x] \in Pc /\ beforeAll[s] \in {"notCalled", "running", "finished"}
    BY DEF IInv, TypeOK
  <2>2. artPc[s][x] # "running"
    BY <2>1 DEF TurnIsDue, CloseInv
  <2> QED BY <2>1, <2>2 DEF TurnIsDue, Pc
<1> QED BY <1>2, <1>3

\* A step whose ancestors are final has work that is due, or is final.
LEMMA NextStepGoesOn ==
  ASSUME IInv, CloseInv, NoLostWakeUp, flow = "running", ~TurnIsDue, NEW s \in Steps,
         \A p \in StepAncestors[s] : IsFinal(stepRes[p])
  PROVE  IsFinal(stepRes[s])
<1>1. /\ stepPc[s] \in {"waiting", "finished"}
      /\ \A x \in Artifacts : artPc[s][x] \in {"waiting", "finished"}
  BY AsleepOrDone
<1>2. buffer = {} /\ inflight = <<>>
  BY DEF TurnIsDue
<1>3. StepInv(s)
  BY DEF IInv, FlowInv
<1>4. CASE IsWhole(s)
  <2>1. stepPc[s] # "waiting"
    BY <1>2, <1>4 DEF NoLostWakeUp, IsWhole, Enabled, MayStart
  <2> QED BY <1>1, <1>3, <1>4, <2>1 DEF StepInv, WholeInv
<1>5. CASE ~IsWhole(s)
  <2>1. s \in Enabled \cap ArtifactSteps
    BY <1>5 DEF IsWhole, Enabled
  <2>2. StepAncestors[s] \subseteq Steps /\ StepParents[s] \subseteq StepAncestors[s]
        /\ \A x \in Artifacts : ArtifactParents[x] \subseteq Artifacts
    BY GraphAssumption DEF StepAncestors
  <2>3. \A p \in StepAncestors[s], x \in Artifacts : IsFinal(artRes[p][x])
    BY <2>2, FinalStep
  <2>4. \A x \in Artifacts : MayStartOnArtifact(s, x)
    BY <2>2, <2>3 DEF MayStartOnArtifact
  <2>5. \A x \in Artifacts : artPc[s][x] = "finished"
    BY <1>1, <1>2, <2>1, <2>4 DEF NoLostWakeUp
  <2>6. AllFinal(localRes[s])
    BY <1>3, <1>5, <2>5 DEF StepInv, ByArtifactInv, ArtifactInv, AllFinal
  <2>7. ClosesInv(s)
    BY DEF CloseInv
  <2> QED BY <1>5, <2>5, <2>6, <2>7 DEF ClosesInv
<1> QED BY <1>4, <1>5

\* A flow of finitely many steps never gets stuck before it has ended, for every graph of
\* them and every graph of artifacts: of the steps that are not final, one without such
\* ancestors is at work or about to be woken up, and when all are final the flow knows.
THEOREM FlowIsNeverStuck ==
  ASSUME IsFiniteSet(Steps)
  PROVE  Spec => []NeverStuck
<1>1. Init => CloseInv
  <2> SUFFICES ASSUME Init PROVE CloseInv
    OBVIOUS
  <2>1. flow # "running"
    BY DEF Init
  <2>2. (\A s \in Steps : IsFinal(stepRes[s])) => flowFinished
    BY ResultFacts DEF Init
  <2> QED BY <2>1, <2>2 DEF CloseInv
<1>2. IInv /\ CloseInv /\ NoLostWakeUp => NeverStuck
  <2> SUFFICES ASSUME IInv, CloseInv, NoLostWakeUp, flow = "running", ~TurnIsDue PROVE FALSE
    BY DEF NeverStuck, TurnIsDue
  <2> DEFINE T == {s \in Steps : ~IsFinal(stepRes[s])}
  <2>1. T = {}
    <3> SUFFICES ASSUME T # {} PROVE FALSE
      OBVIOUS
    <3>1. PICK s \in T : StepAncestors[s] \cap T = {}
      BY FirstStep
    <3>2. \A p \in StepAncestors[s] : IsFinal(stepRes[p])
      BY <3>1 DEF StepAncestors
    <3> QED BY <3>2, NextStepGoesOn
  <2>2. flowFinished
    BY <2>1 DEF CloseInv
  <2> QED BY <2>2, AsleepOrDone DEF TurnIsDue
<1> QED BY <1>1, <1>2, CloseStep, InductiveInvariant, WakeUpsAreNotLost, PTL DEF Spec

-----------------------------------------------------------------------------
(* No flow goes round in circles.                                           *)

\* How far the callback of a step or of an artifact is.
PhaseOf(pc) ==
  CASE pc = "waiting"  -> 0
    [] pc \in Verdict  -> 1
    [] pc = "running"  -> 2
    [] pc = "afterAll" -> 3
    [] pc = "finished" -> 4

\* How far onBeforeArtifacts, and runAllSteps, are.
BeforeAllPhase(pc) ==
  CASE pc = "notCalled" -> 0
    [] pc = "running"   -> 1
    [] pc = "finished"  -> 2

FlowPhase(pc) ==
  CASE pc = "setup"   -> 0
    [] pc = "running" -> 1
    [] OTHER          -> 2

\* The way of the news that are left: to be sent, and to be delivered.
Backlog == Len(inflight) + (IF buffer = {} THEN 0 ELSE 2)

\* Nothing goes back to an earlier phase.
NothingGoesBack ==
  /\ FlowPhase(flow) <= FlowPhase(flow')
  /\ \A s \in Steps :
       /\ PhaseOf(stepPc[s]) <= PhaseOf(stepPc'[s])
       /\ BeforeAllPhase(beforeAll[s]) <= BeforeAllPhase(beforeAll'[s])
       /\ \A a \in Artifacts : PhaseOf(artPc[s][a]) <= PhaseOf(artPc'[s][a])

\* Something reaches a later phase.
SomethingAdvances ==
  \/ FlowPhase(flow) < FlowPhase(flow')
  \/ \E s \in Steps :
       \/ PhaseOf(stepPc[s]) < PhaseOf(stepPc'[s])
       \/ BeforeAllPhase(beforeAll[s]) < BeforeAllPhase(beforeAll'[s])
       \/ \E a \in Artifacts : PhaseOf(artPc[s][a]) < PhaseOf(artPc'[s][a])

\* Every turn brings a callback or the flow forward, or else the news nearer to the steps,
\* and none undoes what another did: news about news cannot keep a flow alive for ever.
EveryTurnGoesForward == [][NothingGoesBack /\ (SomethingAdvances \/ Backlog' < Backlog)]_vars

\* The phases in the order the callbacks go through them.
LEMMA PhaseFacts ==
  /\ \A pc \in Pc : PhaseOf(pc) \in 0..4
  /\ PhaseOf("waiting") = 0 /\ PhaseOf("running") = 2
  /\ PhaseOf("afterAll") = 3 /\ PhaseOf("finished") = 4
  /\ \A v \in Verdict : PhaseOf(v) = 1
  /\ \A pc \in {"notCalled", "running", "finished"} : BeforeAllPhase(pc) \in 0..2
  /\ BeforeAllPhase("notCalled") = 0 /\ BeforeAllPhase("running") = 1
  /\ BeforeAllPhase("finished") = 2
BY DEF PhaseOf, Pc, Verdict, BeforeAllPhase

\* The phases of what a turn leaves alone.
LEMMA SamePhases ==
  ASSUME TypeOK
  PROVE  /\ UNCHANGED stepPc => \A s \in Steps : PhaseOf(stepPc[s]) <= PhaseOf(stepPc'[s])
         /\ UNCHANGED beforeAll =>
              \A s \in Steps : BeforeAllPhase(beforeAll[s]) <= BeforeAllPhase(beforeAll'[s])
         /\ UNCHANGED artPc =>
              \A s \in Steps, x \in Artifacts : PhaseOf(artPc[s][x]) <= PhaseOf(artPc'[s][x])
         /\ UNCHANGED flow => FlowPhase(flow) <= FlowPhase(flow')
<1>1. \A s \in Steps : /\ PhaseOf(stepPc[s]) \in 0..4 /\ BeforeAllPhase(beforeAll[s]) \in 0..2
                       /\ \A x \in Artifacts : PhaseOf(artPc[s][x]) \in 0..4
  BY PhaseFacts DEF TypeOK
<1>2. FlowPhase(flow) \in 0..2
  BY DEF FlowPhase
<1> QED BY <1>1, <1>2

\* A delivery wakes up and aborts what waits; what it does not, it brings nearer.
LEMMA DeliverGoesForward ==
  ASSUME IInv, Deliver
  PROVE  NothingGoesBack /\ (SomethingAdvances \/ Backlog' < Backlog)
<1> DEFINE aborted == GloballySkipped \cup WithoutArtifacts(Head(inflight))
<1>1. /\ flow' = flow /\ flow = "running" /\ beforeAll' = beforeAll
      /\ inflight # <<>> /\ inflight' = Tail(inflight)
  BY DEF Deliver
<1>2. \A s \in Steps : stepPc'[s] = stepPc[s] \/ (stepPc[s] = "waiting" /\ stepPc'[s] \in Pc)
  BY CacheVerdictType DEF Deliver, GloballySkipped, WithoutArtifacts, Pc
<1>3. \A s \in Steps, x \in Artifacts :
        artPc'[s][x] = artPc[s][x] \/ (artPc[s][x] = "waiting" /\ artPc'[s][x] \in Verdict)
  BY CacheVerdictType DEF Deliver
<1>4. /\ \A s \in Steps : PhaseOf(stepPc[s]) <= PhaseOf(stepPc'[s])
      /\ \A s \in Steps, x \in Artifacts : PhaseOf(artPc[s][x]) <= PhaseOf(artPc'[s][x])
  <2>1. ASSUME NEW s \in Steps PROVE PhaseOf(stepPc[s]) <= PhaseOf(stepPc'[s])
    <3>1. stepPc[s] \in Pc /\ PhaseOf(stepPc[s]) \in 0..4
      BY PhaseFacts DEF IInv, TypeOK
    <3>2. stepPc'[s] \in Pc => PhaseOf(stepPc'[s]) \in 0..4
      BY PhaseFacts
    <3> QED BY <1>2, <3>1, <3>2, PhaseFacts
  <2>2. ASSUME NEW s \in Steps, NEW x \in Artifacts PROVE PhaseOf(artPc[s][x]) <= PhaseOf(artPc'[s][x])
    <3>1. artPc[s][x] \in Pc /\ PhaseOf(artPc[s][x]) \in 0..4
      BY PhaseFacts DEF IInv, TypeOK
    <3>2. artPc'[s][x] \in Verdict => PhaseOf(artPc'[s][x]) = 1
      BY PhaseFacts
    <3> QED BY <1>3, <3>1, <3>2, PhaseFacts
  <2> QED BY <2>1, <2>2
<1>5. NothingGoesBack
  BY <1>1, <1>4, SamePhases DEF NothingGoesBack, IInv
<1>6. CASE aborted = {}
  <2>1. Dispatch(None, None)
    <3>1. /\ [s \in aborted |-> Aborted(IF s \in GloballySkipped THEN globalVerdict[s]
                                        ELSE "skippedAsPassed")] = None
          /\ [x \in aborted \X Artifacts |->
                Aborted(IF x[1] \in GloballySkipped THEN globalVerdict[x[1]]
                        ELSE "skippedAsPassed")] = None
      BY <1>6 DEF None
    <3> QED BY <3>1 DEF Deliver
  <2>2. buffer' = buffer
    BY <2>1 DEF Dispatch, ActionsAbout, None
  <2>3. Len(inflight') = Len(inflight) - 1 /\ Len(inflight) \in Nat
    BY <1>1 DEF IInv, TypeOK
  <2> QED BY <1>5, <2>2, <2>3 DEF Backlog
<1>7. CASE aborted # {}
  <2>1. PICK s \in aborted : s \in Steps
    BY <1>7, StepsAssumption DEF GloballySkipped, WithoutArtifacts
  <2>2. stepPc[s] = "waiting" /\ stepPc'[s] = "finished"
    BY <2>1 DEF Deliver, GloballySkipped, WithoutArtifacts
  <2> QED BY <1>5, <2>1, <2>2, PhaseFacts DEF SomethingAdvances
<1> QED BY <1>6, <1>7

\* A turn of a step goes on to a later phase of its callback.
LEMMA OnStepGoesForward ==
  ASSUME IInv, NEW s \in Steps, OnStep(s)
  PROVE  NothingGoesBack /\ SomethingAdvances
<1>1. PICK pc \in {"running", "finished"} : /\ stepPc' = [stepPc EXCEPT ![s] = pc]
                                            /\ pc = "running" => stepPc[s] \in Verdict
  BY DEF OnStep, StepSkips, StepStarts, StepEnds, StepConstrained
<1>2. stepPc[s] \in {"running"} \cup Verdict
  BY DEF OnStep, StepSkips, StepStarts, StepEnds, StepConstrained
<1>3. PhaseOf(stepPc[s]) < PhaseOf(stepPc'[s])
  <2>1. stepPc'[s] = pc
    BY <1>1 DEF IInv, TypeOK
  <2> QED BY <1>1, <1>2, <2>1, PhaseFacts
<1>4. \A t \in Steps : PhaseOf(stepPc[t]) <= PhaseOf(stepPc'[t])
  <2>1. \A t \in Steps \ {s} : stepPc'[t] = stepPc[t] /\ PhaseOf(stepPc[t]) \in 0..4
    BY <1>1, PhaseFacts DEF IInv, TypeOK
  <2>2. PhaseOf(stepPc[s]) \in 0..4 /\ PhaseOf(stepPc'[s]) \in 0..4
    BY <1>1, PhaseFacts DEF IInv, TypeOK, Pc
  <2> QED BY <1>3, <2>1, <2>2
<1>5. UNCHANGED <<flow, onArtifactState>>
  BY DEF OnStep, StepSkips, StepStarts, StepEnds
<1> QED BY <1>3, <1>4, <1>5, SamePhases DEF NothingGoesBack, SomethingAdvances, IInv, onArtifactState

\* A turn of an artifact goes on to a later phase of its work.
LEMMA OnArtifactGoesForward ==
  ASSUME IInv, NEW s \in Steps, NEW x \in Artifacts, OnArtifact(s, x)
  PROVE  NothingGoesBack /\ SomethingAdvances
<1>1. PICK pc \in {"running", "afterAll", "finished"} :
        /\ artPc' = [artPc EXCEPT ![s][x] = pc]
        /\ pc = "running" => artPc[s][x] \in Verdict
        /\ pc = "afterAll" => artPc[s][x] = "running"
  BY DEF OnArtifact, ArtifactSkips, ArtifactStarts, ArtifactEnds, AfterAllEnds, ArtifactConstrained
<1>2. artPc[s][x] \in {"running", "afterAll"} \cup Verdict
  BY DEF OnArtifact, ArtifactSkips, ArtifactStarts, ArtifactEnds, AfterAllEnds, ArtifactConstrained
<1>3. PhaseOf(artPc[s][x]) < PhaseOf(artPc'[s][x])
  <2>1. artPc'[s][x] = pc
    BY <1>1 DEF IInv, TypeOK
  <2> QED BY <1>1, <1>2, <2>1, PhaseFacts
<1>4. \A t \in Steps, y \in Artifacts : PhaseOf(artPc[t][y]) <= PhaseOf(artPc'[t][y])
  <2> SUFFICES ASSUME NEW t \in Steps, NEW y \in Artifacts
               PROVE  PhaseOf(artPc[t][y]) <= PhaseOf(artPc'[t][y])
    OBVIOUS
  <2>1. PhaseOf(artPc[t][y]) \in 0..4
    <3>1. artPc[t][y] \in Pc
      BY DEF IInv, TypeOK
    <3> QED BY <3>1, PhaseFacts
  <2>2. CASE t = s /\ y = x
    <3>1. artPc'[t][y] = pc
      BY <1>1, <2>2 DEF IInv, TypeOK
    <3> QED BY <1>1, <1>2, <2>2, <3>1, PhaseFacts
  <2>3. CASE ~(t = s /\ y = x)
    <3>1. artPc'[t][y] = artPc[t][y]
      BY <1>1, <2>3 DEF IInv, TypeOK
    <3> QED BY <2>1, <3>1
  <2> QED BY <2>2, <2>3
<1>5. \A t \in Steps : BeforeAllPhase(beforeAll[t]) <= BeforeAllPhase(beforeAll'[t])
  <2>1. \A t \in Steps : \/ beforeAll'[t] = beforeAll[t]
                         \/ beforeAll[t] = "notCalled" /\ beforeAll'[t] = "running"
    BY DEF OnArtifact, ArtifactSkips, ArtifactStarts, ArtifactEnds, AfterAllEnds, IInv, TypeOK
  <2>2. \A t \in Steps : BeforeAllPhase(beforeAll[t]) \in 0..2
    BY PhaseFacts DEF IInv, TypeOK
  <2>3. ASSUME NEW t \in Steps PROVE BeforeAllPhase(beforeAll[t]) <= BeforeAllPhase(beforeAll'[t])
    BY <2>1, <2>2, PhaseFacts
  <2> QED BY <2>3
<1>6. UNCHANGED stepPc /\ flow = "running" /\ flow' # "setup"
  BY DEF OnArtifact, ArtifactSkips, ArtifactStarts, ArtifactEnds, AfterAllEnds, ArtifactConstrained
<1>7. FlowPhase(flow) <= FlowPhase(flow')
  BY <1>6 DEF FlowPhase
<1> QED BY <1>3, <1>4, <1>5, <1>6, <1>7, SamePhases DEF NothingGoesBack, SomethingAdvances, IInv

\* No turn of a flow undoes another, and every one of them leaves less to be done, for every
\* graph: with FlowIsNeverStuck, what is left of the liveness of the engine is that its
\* timers, redis and the functions of the user come to an end.
THEOREM FlowGoesForward == Spec => EveryTurnGoesForward
<1> DEFINE Forward == NothingGoesBack /\ (SomethingAdvances \/ Backlog' < Backlog)
<1>1. ASSUME IInv, [Next]_vars, ~UNCHANGED vars PROVE Forward
  <2>1. CASE SetUp
    <3>1. FlowPhase(flow) = 0 /\ FlowPhase(flow') = 1 /\ UNCHANGED <<stepPc, artPc, beforeAll>>
      BY <2>1 DEF SetUp, FlowPhase, onArtifactState
    <3> QED BY <1>1, <3>1, SamePhases DEF NothingGoesBack, SomethingAdvances, IInv
  <2>2. CASE SetUpFails \/ RedisFails \/ Return
    <3>1. FlowPhase(flow) < FlowPhase(flow') /\ UNCHANGED <<stepPc, artPc, beforeAll>>
      BY <2>2 DEF SetUpFails, RedisFails, Return, FlowPhase, onArtifactState
    <3>2. FlowPhase(flow) \in 0..2 /\ FlowPhase(flow') \in 0..2
      BY DEF FlowPhase
    <3> QED BY <1>1, <3>1, <3>2, SamePhases DEF NothingGoesBack, SomethingAdvances, IInv
  <2>3. CASE Flush
    <3>1. /\ UNCHANGED <<flow, stepPc, artPc, beforeAll>>
          /\ buffer # {} /\ buffer' = {} /\ inflight' = Append(inflight, buffer)
      BY <2>3 DEF Flush, onArtifactState
    <3>2. Len(inflight') = Len(inflight) + 1 /\ Len(inflight) \in Nat
      BY <1>1, <3>1 DEF IInv, TypeOK
    <3>3. Backlog' < Backlog
      BY <3>1, <3>2 DEF Backlog
    <3> QED BY <1>1, <3>1, <3>3, SamePhases DEF NothingGoesBack, IInv
  <2>4. CASE EmptyTick \/ Terminated
    BY <1>1, <2>4 DEF EmptyTick, Terminated
  <2>5. CASE Deliver
    BY <1>1, <2>5, DeliverGoesForward
  <2>6. CASE \E s \in Steps : OnStep(s)
    BY <1>1, <2>6, OnStepGoesForward
  <2>7. CASE \E s \in Steps : BeforeAllEnds(s)
    <3>1. PICK s \in Steps : BeforeAllEnds(s)
      BY <2>7
    <3>2. /\ UNCHANGED <<flow, stepPc, artPc>>
          /\ BeforeAllPhase(beforeAll[s]) = 1 /\ BeforeAllPhase(beforeAll'[s]) = 2
          /\ \A t \in Steps \ {s} : beforeAll'[t] = beforeAll[t]
      BY <1>1, <3>1, PhaseFacts DEF BeforeAllEnds, IInv, TypeOK
    <3>3. \A t \in Steps : BeforeAllPhase(beforeAll[t]) \in 0..2
      BY <1>1, PhaseFacts DEF IInv, TypeOK
    <3>4. \A t \in Steps : BeforeAllPhase(beforeAll[t]) <= BeforeAllPhase(beforeAll'[t])
      BY <3>2, <3>3
    <3> QED BY <1>1, <3>2, <3>4, SamePhases DEF NothingGoesBack, SomethingAdvances, IInv
  <2>8. CASE \E s \in Steps, x \in Artifacts : OnArtifact(s, x)
    BY <1>1, <2>8, OnArtifactGoesForward
  <2> QED BY <1>1, <2>1, <2>2, <2>3, <2>4, <2>5, <2>6, <2>7, <2>8 DEF Next
<1>2. IInv /\ [Next]_vars => [Forward]_vars
  BY <1>1
<1> QED BY <1>2, InductiveInvariant, PTL DEF Spec, EveryTurnGoesForward
=============================================================================
