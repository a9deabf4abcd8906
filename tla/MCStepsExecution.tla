-------------------------- MODULE MCStepsExecution --------------------------
(***************************************************************************)
(* Small graphs of steps and artifacts for the engine.  The names of the   *)
(* steps are those of packages/steps they are cut out of.                  *)
(***************************************************************************)
EXTENDS FlowProperties

CONSTANTS a, b

Passed == Done("passed")
Failed == Done("failed")
Nothing == {}
AllFailures == {"setup", "redis"}

\* Two artifacts; b may depend on a.
TwoArtifacts == {a, b}
OneArtifact  == {a}
Unrelated    == [x \in Artifacts |-> {}]
BDependsOnA  == [x \in Artifacts |-> IF x = b THEN {a} ELSE {}]

-----------------------------------------------------------------------------
\* test on each artifact, then a docker image of each artifact, which waits for the
\* tests of the artifacts it depends on and may be disabled, then a release of the
\* whole repository, a recursive child of test.  Each step is skipped as failed after
\* a failure of its parent, and what an earlier flow tested is not tested again.
FlowSteps      == {"test", "image", "release"}
FlowParents    == [s \in FlowSteps |-> CASE s = "test"    -> {}
                                         [] s = "image"   -> {"test"}
                                         [] s = "release" -> {"image"}]
FlowOnArtifact == {"test", "image"}
FlowWaits      == {"image"}
FlowPassChecks == [s \in FlowSteps |-> IF s = "test" THEN {"test"} ELSE {}]
FlowGlobal     == [s \in FlowSteps |-> {"shouldRun"} \cup
                                         (IF s = "image" THEN {"skippedAsPassed"} ELSE {})]
FlowOwn        == [s \in FlowSteps |-> {"shouldRun"}]
FlowEarlier    == {Passed}
FlowTested     == {"test"}

\* Besides a pass, test comes to what a job that bee-queue gave up comes to.
GivenUp     == Aborted("failed")
FlowResults == [s \in FlowSteps |-> {Passed} \cup (IF s = "test" THEN {GivenUp} ELSE {})]

-----------------------------------------------------------------------------
\* test, then npm-publish, on one artifact.  A split test, when all of its parts were in
\* workers whose before-all command failed, is done and skipped as failed (test.ts:179).
PublishSteps    == {"test", "publish"}
PublishParents  == [s \in PublishSteps |-> IF s = "publish" THEN {"test"} ELSE {}]
PublishNoChecks == [s \in PublishSteps |-> {}]
PublishVerdicts == [s \in PublishSteps |-> {"shouldRun"}]
PublishResults  == [s \in PublishSteps |-> {Passed, Failed}]
NotTested       == Done("skippedAsFailed")
SplitResults    == [s \in PublishSteps |-> {Passed, Failed} \cup
                                             (IF s = "test" THEN {GivenUp, NotTested} ELSE {})]
=============================================================================
