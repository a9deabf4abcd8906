------------------------------ MODULE Statuses ------------------------------
(***************************************************************************)
(* The status algebra of the CI: the statuses of a step or of an artifact  *)
(* in a step, the rule that combines several statuses into one, the rank   *)
(* by which the store orders execution statuses, and the rule by which the *)
(* results of several constrains become one verdict.                       *)
(*                                                                         *)
(* The code combines arrays; the order and the multiplicity of the entries *)
(* never matter, so the operators here take sets.                          *)
(***************************************************************************)
EXTENDS Naturals

Status == {"passed", "skippedAsPassed", "skippedAsFailed", "failed"}

\* A result that is not final has no status.
NoStatus == "none"

ExecutionStatus == {"scheduled", "running", "done", "aborted"}

Scheduled  == [executionStatus |-> "scheduled", status |-> NoStatus]
Running    == [executionStatus |-> "running",   status |-> NoStatus]
Done(st)    == [executionStatus |-> "done",     status |-> st]
Aborted(st) == [executionStatus |-> "aborted",  status |-> st]

\* What a user function may resolve to: a final result.
FinalResult == [executionStatus : {"done", "aborted"}, status : Status]

Result == {Scheduled, Running} \cup FinalResult

IsFinal(r)   == r.executionStatus \in {"done", "aborted"}
IsAborted(r) == r.executionStatus = "aborted"

-----------------------------------------------------------------------------
\* Mutant: a pass does not turn a skip-as-failed into a failure.
SkipWinsStatus(statuses) ==
  CASE "failed" \in statuses          -> "failed"
    [] /\ "failed" \notin statuses
       /\ "skippedAsFailed" \in statuses -> "skippedAsFailed"
    [] OTHER -> IF "passed" \in statuses THEN "passed" ELSE "skippedAsPassed"

\* calculateCombinedStatus
CombinedStatus(statuses) ==
  CASE \/ "failed" \in statuses
       \/ {"passed", "skippedAsFailed"} \subseteq statuses -> "failed"
    [] /\ statuses \cap {"failed", "skippedAsFailed"} = {}
       /\ "passed" \in statuses                            -> "passed"
    [] /\ statuses \cap {"failed", "passed"} = {}
       /\ "skippedAsFailed" \in statuses                   -> "skippedAsFailed"
    [] OTHER                                               -> "skippedAsPassed"

DidPassOrSkippedAsPassed(st) == st \in {"passed", "skippedAsPassed"}

\* calculateExecutionStatus
CombinedExecutionStatus(executionStatuses) ==
  CASE executionStatuses \subseteq {"aborted"}             -> "aborted"
    [] /\ "done" \in executionStatuses
       /\ executionStatuses \subseteq {"done", "aborted"}  -> "done"
    [] /\ executionStatuses # {}
       /\ executionStatuses \subseteq {"scheduled"}        -> "scheduled"
    [] OTHER                                               -> "running"

-----------------------------------------------------------------------------
\* Mutant: aborted is not final.
RankOfAbortedIsRunning(executionStatus) ==
  CASE executionStatus = "scheduled"              -> 0
    [] executionStatus \in {"running", "aborted"} -> 1
    [] OTHER                                      -> 2

\* numbericExecutionStatus: done and aborted have the same rank, both are final.
Rank(executionStatus) ==
  CASE executionStatus = "scheduled" -> 0
    [] executionStatus = "running"   -> 1
    [] OTHER                         -> 2

\* What the store holds after an action with result new reached it: an action
\* that is not ahead of the store came too late and is dropped.
Reduced(old, new) ==
  IF Rank(old.executionStatus) >= Rank(new.executionStatus) THEN old ELSE new

-----------------------------------------------------------------------------
\* What a list of constrains says: run, or abort with one of the two skip
\* statuses.  "Ignore this constrain" says the same as "run".
Verdict == {"shouldRun", "skippedAsPassed", "skippedAsFailed"}

\* getCombinedResult: one skip-as-passed overrules every skip-as-failed.
CombinedVerdict(results) ==
  CASE "skippedAsPassed" \in results -> "skippedAsPassed"
    [] /\ "skippedAsPassed" \notin results
       /\ "skippedAsFailed" \in results -> "skippedAsFailed"
    [] OTHER -> "shouldRun"

-----------------------------------------------------------------------------
\* The two questions a cache constrain asks about the results found under a
\* key.  A "done" result whose status is a skip status answers neither.
FailedInCache(results) ==
  \E r \in results : \/ IsFinal(r) /\ r.status = "failed"
                     \/ r = Aborted("skippedAsFailed")

PassedInCache(results) ==
  \E r \in results : r \in {Done("passed"), Aborted("skippedAsPassed")}
=============================================================================
