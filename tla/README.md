# A verification development of era-ci

era-ci runs the CI of a JavaScript monorepo: a *flow* runs a graph of *steps*
(install, build, lint, test, publish, deploy) over the *artifacts* (packages) of the
repository, skips what an earlier flow has already done, and exits with a code. This
directory holds TLA+ modules that model its core, the TLC configurations that check
them on small instances, and TLAPS proofs of their main properties for every instance.
Paths below are relative to `src/packages/`.

## 1. Inventory

| component | state it keeps | operations | talks to |
|---|---|---|---|
| status algebra (`utils`, `core/create-constrain`) | none | combine statuses, rank, reduce, combine constrains | everything |
| flow engine (`core/steps-execution`, `core/create-step`) | redux store, 100ms buffer, transactions in flight; per step: flags, private results of its artifacts | `runAllSteps`, reducer, middleware, `setupStepCallback`, `setupArtifactCallback` | redis, constrains, functions of the user |
| constrains (`constrains`) | none | read the results of steps from the cache, or configuration | immutable cache |
| immutable cache, redis client (`core`) | redis: sets of results by hash of the package or repository, flow logs | `multi`, `getResults`, `buildSaveResultRedisCommands` | redis |
| run of the program (`core/ci-logic.ts`, `core/utils.ts`) | exit code, fatal error, lists of clean-ups | `ci`, `getExitCode`, `finishFlow` | every other part |
| local sequential queue (`task-queues`) | two in-memory queues, `isQueueKilled` | `addTasksToQueue`, `startTask`, `cleanup` | steps, by events |
| task-worker queue and worker (`task-queues`, `task-worker`) | jobs in redis, `WorkerState`, groups, a flag and a counter in redis | `addTasksToQueue`, `processTask`, `isWorkerFinished`, `cleanup` | bee-queue, redis, steps |
| quay builds queue (`task-queues`) | map of tasks, `isQueueActive` | `addTasksToQueue`, `buildImage`, `onQuayBuildStatusChanged`, `cleanup` | quay, helper service, redis topic |
| quay client, quay helper service | retries; list of polls | REST calls with retry, webhook and polling to redis topic | quay, redis |
| publishing steps (`steps`) | the registry, outside | npm-publish, docker-publish, quay-docker-publish | registry, redis, quay queue |
| k8s deployment (`steps/k8s`) | the deployment, outside; per flow two watches, `deploymentSuccess`, `podsSuccess`, `alreadyListeningToPodsEvents` | `deployAndWait` | API server of the cluster |
| other steps (`steps`) | none | install, build, lint, test, validate, reports | task-worker queue |
| artifact hash (`artifact-hash`) | none | hash of a package over what it depends on | git |
| graphs of steps (`steps-graph`) | none | linear and tree graphs | engine |
| configuration, command lines, loggers, reports | none | parse, format, print | - |

What is hard in it:

* **The store is ahead of redis.** An action is reduced at once, waits for the next
  tick, is written, and is delivered when redis replies. Steps decide *when* to start
  from the store and *whether* to start from redis.
* **Wake-ups.** Nothing polls: a step looks at the store when an action that passes its
  filter is delivered. A filter that is too narrow leaves a step waiting for ever.
* **Completion.** The stream of actions completes when the last step is final; what is
  dispatched afterwards is lost.
* **Several artifacts per step**, in any order, some skipped, some aborted, one of
  which must close the step.
* **Cancellation races** in the queues: clean-up against tasks that start, end, fail or
  are reported by someone else.
* **Publishing in two systems.** A content is published in a registry and its name is left
  in redis, by two requests; other flows come between them, and flows die there.
* **A deployment is watched by two streams**, one inside the other: while the pods are listened to,
  `concatMap` holds the events of the deployment back, and others deploy meanwhile.
* **The order of closing.** Whatever fails, the queues have to be closed after the steps that use
  them and before the connection they use, and the exit code must tell what happened.
* **The order in which hashes are combined** decides what the hash of a package covers, and
  with it what the next flows skip.

What has to be true of each part:

* *engine*: what is seen of a flow goes through the graph as if there were no redis
  (`FlowPromise`); a step begins only when what it waits for is final and always does begin
  then; its result is the one its artifacts come to; one final event each; every result
  in the cache when the flow ends; an exit code that tells a failure;
* *queues*: the promise of `TaskEvents` to every subscriber, one last event for every
  task that was accepted, with cleanup too; the order of the local queue; results that
  tell what the command, or the build, came to;
* *artifact hash*: it holds what the package depends on, the root files, and nothing else;
* *publishing*: a name in redis is one under which that content was published; a flow that
  passes has published or found its content; a rerun publishes nothing; versions ascend;
* *k8s deployment*: a deployment that passed was rolled out in the generation of its own patch; every
  deployment is answered, by its deadline at the latest;
* *run of the program*: things are closed after what uses them; exit code 0 means that all passed;
  it settles;
* *workers*: before-all commands once on each worker and before the commands of their
  group; workers that leave when they are not needed and not before; their exit code.

The hazards, each at its line with the properties that are about it, are listed in
`PROJECT.json`.

## 2. The modules

| module | models | lines it stands for |
|---|---|---|
| `Statuses` | the status algebra and the questions put to the cache | `utils/src/{types,utils}.ts`, `core/src/create-constrain/run-contrains.ts`, `constrains/src/*-in-cache-constrain.ts`, `reducer.ts:63-124` |
| `StepsExecution` | `runAllSteps` with the callbacks of `createStep` | `core/src/steps-execution/*`, `core/src/create-step/*` |
| `FlowPromise` | what a flow promises to those who look at its state: the abstract specification of the engine | `core/src/steps-execution/*` as seen from `getState` |
| `FlowProperties` | `getExitCode`, the properties and the inductive invariant of the engine, and how it maps to `FlowPromise` | `core/src/utils.ts:33-55` |
| `TaskEvents` | what a queue promises of the events of one task | `core/src/create-task-queue/*` |
| `LocalSequentalTaskQueue` | the queue of functions of the process of the flow | `task-queues/src/local-sequental-task-queue.ts` |
| `CiLogic` | a run of the program around the local queue | `core/src/ci-logic.ts`, `core/src/utils.ts:153-195` |
| `TaskWorker` | the queue of shell commands and its workers | `task-queues/src/task-worker-task-queue.ts`, `task-worker/src/{index,utils}.ts` |
| `QuayBuildsTaskQueue` | the queue of image builds, its client, the helper service, quay | `task-queues/src/quay-builds-task-queue.ts`, `quay-client/src/index.ts`, `quay-helper-service/src/*` |
| `ArtifactHash` | the graph of the packages and their hashes | `artifact-hash/src/index.ts` |
| `Publishing` | npm-publish, docker-publish and quay-docker-publish of several flows | `steps/src/{npm-publish,docker-publish,quay-docker-publish,utils}.ts`, `calculateNewVersion` of `utils/src/utils.ts`, `get` and `set` of `core/src/immutable-cache.ts` |
| `K8sDeployment` | `deployAndWait` of several flows on one deployment | `steps/src/k8s/{utils,k8s-deployment,types}.ts` |
| `MC...` | instances for TLC | - |
| `...Proofs` | proofs | - |

There are two abstract specifications. `FlowPromise` has only the state of the flow and the results
of steps and artifacts; `FlowProperties`, which extends `StepsExecution`, which extends `Statuses`,
instantiates it (`Promise`, with `FlowState` for the state and the graph of the steps for `Ancestors`
and `Needs`), and `KeepsFlowPromise` says that the engine implements it. `TaskEvents` is what a step
sees of a task. Each queue extends it and shares its variable `lastEvent` with it; the local queue and
the queue of the task workers implement its `EventsSpec`, and the quay queue does so with one
exception (`EventsGoForward`, see section 3).

Three compositions. `CiLogic` extends `LocalSequentalTaskQueue`: a step of the program is a step of the
queue, of which all holds that was shown of the queue, or one of `ci` and `finishFlow`. The engine and
the queues meet in the results of the tasks: the engine takes them from the constant `UserResults`,
and what the queues can answer (`result`, `lastEvent`) is what the instances of the engine put there.
`Publishing` and `K8sDeployment` extend `Statuses` and put several flows together that meet in a
registry and a cache, or in a deployment: they are what happens between `ArtifactStarts` and
`ArtifactEnds` of one step. `ArtifactHash` stands alone: what the other modules call the key, or the
content, of an artifact is its result.

Operators whose comment begins with *Mutant* are faulty variants of the operator that
follows. No specification uses them: each is there to show that a property notices a
fault of that kind.

### StepsExecution

One TLA+ step is one synchronous turn of the event loop together with the promise jobs
it enqueues that do no I/O: between two such turns any other callback may run, inside
one none may.

| variable | code |
|---|---|
| `flow` | where `runAllSteps` is, or the error it was rejected with |
| `globalVerdict` | what the global constrains of each step said (`create-step/index.ts:48`) |
| `stepRes`, `artRes`, `flowFinished` | the redux store |
| `buffer` | the actions `bufferTime(100)` holds |
| `inflight` | the batches whose `redisClient.multi` has not resolved |
| `stepCache`, `artCache` | the sets in redis, by key; the hash in the key is fixed in a flow, so a key is a step, or a step and an artifact |
| `stepPc`, `artPc` | which `await` of the callback the work of a step, or of a step on an artifact, is at (`didRun`, `didArtifactRunConstain` are `# "waiting"`) |
| `localRes` | `artifactResultsOnCurrentStep` |
| `didSendStepRunning`, `beforeAll` | the variables of the same names, and `didRunBeforeAll` |

| action | code |
|---|---|
| `SetUp`, `SetUpFails` | steps are set up, global constrains evaluated, the scheduled actions dispatched |
| `Flush`, `EmptyTick` | the tick: the transaction of the buffer is sent |
| `Deliver`, `RedisFails` | redis replied: the batch reaches every callback, which look at the store, set their flags and send their reads of the cache |
| `StepSkips`, `StepStarts`, `StepEnds` | `on-step.ts` |
| `ArtifactSkips`, `ArtifactStarts`, `BeforeAllEnds`, `ArtifactEnds`, `AfterAllEnds` | `on-artifact.ts` |
| `Return` | `await flowFinishedPromise` |

Choices that need a word:

* A dispatch that does not change the state is not published (the middleware compares
  states). A scheduled action leaves a scheduled result in the state but immer builds a
  new state for the scheduled actions of the set-up, so those are published; the reducer
  drops only actions that come too late.
* The order inside a batch cannot be observed: all of its commands are one transaction,
  and all of its actions are delivered in one turn. The buffer is a set.
* There is one connection to redis and it is first-in first-out: a transaction that was
  sent is executed before any read sent later. The caches are updated by `Flush`.
* The reads of the cache are sent in the turn in which a step wakes up, so what they
  return is decided in `Deliver`. The constrains that do not read the cache are
  evaluated later and their verdict is chosen when it is used.
* After a fatal error nothing is dispatched any more: the subscription is gone.
* When the last step becomes final the buffer is flushed at once by the code; the model
  leaves it to `Flush`, which allows every behaviour of the code and a few more.
* `onBeforeArtifacts` is called by an async queue that swallows its rejection, so its
  success and its failure are one action.

One bound is named: `MaxInflight`, how many batches were sent to redis before it answered the first
(a tick is 100 ms). It is a guard of `Flush`, and what is proved holds for every value of it. The
engine has no counter otherwise; a flow has finitely many steps and artifacts and each is worked on
once.

### FlowPromise

| variable | code |
|---|---|
| `state` | the flow is running, finished, or failed: `flowFinished` of the store, and the rejection of `runAllSteps` (`FlowState`) |
| `stepRes`, `artRes` | the redux store |

A step that is disabled, or has no artifacts, is skipped without waiting (`SkipAtOnce`); a step on the
repository begins and ends with all its artifacts (`BeginStep`, `EndStep`); a step on artifacts begins
and ends on each (`SkipArtifact`, `BeginArtifact`, `EndArtifact`) and is closed once they all have
(`CloseStep`), or by the one that is skipped last. `Finish` and `Fail` end the flow, after which
nothing changes. There is no buffer, no redis, no delivery, no callback and no constrain in it:
`Deliver`, `Flush` and everything the callbacks do to themselves are stutters.

### LocalSequentalTaskQueue

| variable | code |
|---|---|
| `lastEvent` | what the event emitter last emitted of a task, with the result in it |
| `calls` | how many of the given calls of `addTasksToQueue` were made |
| `pending`, `internalIdle` | `internalTaskQueue`, which announces tasks in a later turn |
| `taskQueue`, `workersList` | the `async.queue` with concurrency 1: its backlog and its worker |
| `isQueueKilled`, `cleanup` | the flag, and how far the first call of `cleanup` has come |

`AddTasksToQueue`, `Announce`, `StartTask`, `TaskEnds` and `Cleanup` are its turns. When the
internal queue drains while `cleanup` waits for it, the rest of `cleanup` is a promise job of
the same turn, so `Announce` includes it. A task is in one call only: its id is a fresh
random one.

### CiLogic

| variable | code |
|---|---|
| `pc` | the `await` that `ci`, or `finishFlow`, is at |
| `steps` | whether the callbacks of the steps are at work: they go on when `runAllSteps` was rejected |
| `fatalError`, `processExitCode` | the variables of `ci`; `exitCode` is that of the process |
| `connection`, `others` | the connection to redis; each other queue: being created, open, failed, closing, closed |
| `registered` | `cleanups` holds the clean-ups of the queues |

| action | code |
|---|---|
| `StartUpFails`, `FoundUncommitted`, `Connect` | up to the creation of the queues |
| `QueueCreated`, `QueueFails`, `QueuesCreated` | the `Promise.all` of the queues, which forgets those that are created after the first failed |
| `PackageJsonRead` | the `package.json` of the root |
| `StepsAddTasks`, `QueueGoesOn` | the steps and the local queue, while `runAllSteps` runs and after it was rejected |
| `RunReturns`, `RunRejects` | `runAllSteps` |
| `LogsSaved`, `LogsNotSaved`, `QueueCloses`, `AllClosed` | `finishFlow`: the logs, all clean-ups at once, the connection, the exit code |

The local queue is there turn by turn; of another queue there is that its creation and its clean-up
are requests. That a flow returns only when the tasks of its steps have ended, and with 0 only when
they passed, is what the engine does with the results of its steps (`RunReturns`); it is checked there
(`FinishedMeansIdle`, `ExitCodeTellsFailure`). Of the built-in steps several name the local queue
and none adds a task to it; the steps that users of the library write may, and those of the tests do.

### TaskWorker

| variable | code |
|---|---|
| `isQueueActive`, `cleanup` | the flag of the queue, and how far its `cleanup` has come |
| `isFlowFinished` | the key in redis that workers read |
| `place`, `worker`, `result` | where a job is: recorded, being saved, waiting in redis, at work in a worker (at its before-all command or at its own), answered, told; who took it; the answer |
| `tasksByGroupId` | what each worker knows of the before-all command of a group |
| `receivedFirstTask`, `isRunningTaskNow`, `allTasksSucceed`, `terminatingWorker` | `WorkerState`, each field as the set of workers in which it holds |
| `life`, `exitCode` | of the process of a worker |

The queue is `AddTasksToQueue`, `Announce`, `Saved`, `Deliver`, `CleanupBegins`, `FlagSet`,
`Drained`, `CleanupReturns`; `processTask` is `TakeJob`, `BeforeAllEnds`, `CommandEnds`;
`isWorkerFinished` is `IdleTimeout` and `FlagSeen`, `worker.cleanup` is `Terminate` and
`WorkerCloses`. bee-queue is external: it saves a job, gives it to one worker that is up and
not at work, and delivers the answer. Jobs are not promised an order. Nobody calls
`checkStalledJobs`, so the job of a machine that goes away is not run again. The time a
worker must be idle is abstracted to *any* time, which includes the one of the configuration.

### QuayBuildsTaskQueue

| variable | code |
|---|---|
| `isQueueActive`, `cleanup` | the flag, and how far `cleanup` has come |
| `pc`, `cancelled` | the request at which `buildImage` of a task is; whether `cleanup` cancelled it |
| `own`, `inMap`, `hasBuildId` | `lastEmittedTaskExecutionStatus` in the object `buildImage` holds and in the object of the map; whether the second is a new one |
| `retrying`, `topic` | events about unknown builds that wait a second; events published in redis |
| `build` | the builds in quay |
| `poller` | the polls of the helper service |
| `ends` | history: how many events that end the task were emitted |

There are two objects for one task: the one `buildImage` was given, and the one with a build
id that replaces it in the map (399-405). The model keeps the field both have. The actions are
the requests of `buildImage` in their order, each of which may be refused, cancelled or
answered; `Handle`, which is `onQuayBuildStatusChanged`; the two halves of `cleanup`; and what
quay and the helper service do. An event about an unknown build is retried without end, since
the counter is not passed on (143). A response 429 only delays a request. `ForeignWebhook` is an event
of the build of another flow: the helper service publishes those of all flows in one topic, with any
status (`quay-helper-service/src/index.ts:72`), and each queue tells its own by the id of the build.
`MaxForeign` bounds how many of them are on their way at a time.

### ArtifactHash

| variable | code |
|---|---|
| `parents` | `parentsIndexes` of the packages |
| `elsewhere` | the packages that are not in the directory `packages` |
| `packageHash` | `packageHash`: the set of what it was computed from |
| `queue`, `seen` | the variables of the same names |
| `repoHash` | what `calculateArtifactsHash` returns; empty before |

`Init` is everything up to the loop: the dependencies that are packages of the repository, and
the hashes of the files of each package. `Visit` is one turn of the loop, `Finish` what comes
after it. The files of every package that lies outside of `packages` are taken for root files
(`artifact-hash/src/index.ts:75`), so such a package is in all hashes (`RootInput`). A hash is the set of the inputs that went into it: two hashes of different inputs
differ (224 bits, of which 32 are kept), so a change of one input changes exactly the hashes
that hold it. That a package is visited twice, and hashed again over its own hash, adds nothing
to the set.

### Publishing

| variable | code |
|---|---|
| `target`, `job` | the step, and for each flow the commit, the hash of the package and the version in its `package.json` |
| `registry`, `latest`, `removed` | the versions or tags, what they hold, the tag *latest* of npm; what was removed from the registry |
| `cache` | `npm-version-of-...`, `image-tag-of-...` |
| `pc`, `name`, `listed` | the request at which the step of a flow is, and what it has read or chosen before |
| `result` | what the step returned |

| action | code |
|---|---|
| `ReadVersion`, `LookUp` | `customConstrain`: the cache, then the registry |
| `Calculate`, `PublishVersion`, `Confirm`, `Save` | `onArtifact` of npm-publish: `npm view`, `npm publish`, the loop of two minutes, `immutableCache.set` |
| `ListTags`, `ReadTag`, `PublishImage`, `Save` | `chooseTagAndPublish`: the tags, the cache, the build and push, `immutableCache.set` |
| `RequestFails`, `Killed`, `Remove` | a request fails, before or after it had its effect; the flow is killed; somebody removes from the registry |

A version is a number, and the patch after it the next number: `semver` orders them in the same
way. The commit is a part of the job because the tag of an image is cut out of it; a flow
begins only when all its changes are committed (`checkIfAllChangesCommitted`), so one commit has
one content (`JobsAssumption`), while a content may be that of many commits. `latest` is the last
version that was published, and the highest that is left after a removal. `Confirm` has no condition:
npm-publish asks 24 times whether its version is the latest and goes on whatever it was told.

### K8sDeployment

| variable | code |
|---|---|
| `wanted`, `failOnPodError` | the image of each flow, `failDeplomentOnPodError` |
| `pc`, `result` | where `deployAndWait` of a flow is, and what it came to |
| `tracked` | `metadata.generation` in the answer to its patch |
| `events`, `podEvents` | what its two watches have told and the streams have not taken |
| `listened`, `deploymentSuccess`, `podsSuccess` | `alreadyListeningToPodsEvents` and the flags of the same names |
| `podsReady`, `podError` | what `scan` keeps of the pods |
| `image`, `cause`, `generation`, `status`, `exists`, `replicaSets`, `pod` | the deployment, its annotation *change-cause*, its replica sets and their pods, in the cluster |
| `rolledOut` | history: the generations that the controller has told to be complete |

`Deploy` is the patch and the look at its answer, which is either *nothing new* or begins a watch;
`TakeEvent` is one event through `concatMap`, `TakePodEvent` one through the `scan` of the pods, with
what follows; `Rejected` is a request that fails, or a watch of pods that the server closes (`first()`
makes an error of that). A watch of the deployment that the server closes (`WatchCloses`) is an event
like the others: those before it are still taken, and pods still listened to. The rest is the
cluster: the controller (`CreateReplicaSet`, `Observe`, `Complete`, `PodsLost`, `DeadlineExceeded`), the
pods (`PodChanges`) and other people (`PatchedByOthers`, `Touched`, `Deleted`), modelled from what the
code reads of them (`getUpdatedDeploymentStatus`, the watch of the pods). An event carries the deployment
as it was when it was told; the replica set is looked up when it is taken.

The patch of a flow also sets the annotation, which names the image (`steps/src/k8s/utils.ts:115`);
others deploy without it. So an image that was first deployed by others gets a new generation, and no
new pods: the first status that the controller tells of it (`Observe`) may be complete already.

## 3. The runs

| run | instance | asks |
|---|---|---|
| `Flow` | test, then an image of each artifact that waits for the tests of what it depends on and may be disabled, then a release of the repository; the set-up or redis may fail; an earlier flow may have passed test | do store, private copies, cache and exit code agree; order, events, repetition; does the flow settle; does it implement `FlowPromise` |
| `SplitTest` | test, npm-publish, one artifact; test may be split | **violated**: "we can't be here10" is raised |
| `StaleCache` | test, npm-publish, one artifact | **violated**: published although its tests failed |
| `Ci` | four tasks in four calls, one of them empty; two other queues; everything may fail | order of tasks, aborts, order of closing, exit code, the promise of the queue, does `ci` settle |
| `Workers` | three tasks, two in one group; the worker of the flow and one that may go away | before-all commands, the promise, do tasks end and workers stop |
| `Quay` | one image, every fault, and a build of another flow of which any status may be told | does the task get the result of its build, does cleanup forget none and return, does the build end |
| `Hashes` | all 4096 graphs of four packages, those with cycles too; at most one package outside of `packages` | what does a hash hold |
| `StaleHash` | the same | **violated**: the hash of a package does not follow those of its parents |
| `Publish` | three flows on up to three commits, npm or docker, f2 after f1 and f3 at any time, every fault | the cache, the registry and the results tell the same; reruns, versions, does a flow end |
| `SameCommit` | two flows on one commit, docker, no fault | **violated**: one of them fails |
| `Deploy` | one flow, two images, two pods, every disturbance; the image of the flow may be up before it | does a deployment that passed run; is every deployment answered |
| `SameImage` | two flows, one replica, no disturbance | **violated**: skipped as passed though the image does not run |

The instances of the engine are graphs cut out of the steps of `packages/steps`; `a` and `b`
are two packages.

The bounds. *Engine*: two artifacts are needed and enough for "the last one closes the step"
and for one artifact that depends on another; three levels of steps for *recursive* parents: the
release has test and image above it, and where image is disabled test is the one it waits for.
The user functions return what the functions of `packages/steps` return: in `Flow` test passes or is
given up by bee-queue (`GivenUp`), which fails it; in `SplitTest` test may also fail, or come to what a split
test does that no worker could begin (`NotTested`); the theorems hold for any results. `MaxInflight` is 2, so that a batch
is sent while another is on its way. *Local queue*: calls with two tasks, one, none
and one give every way in which a call can find the queue idle, announcing, or at work; two other
queues are one that fails to be created and one that is forgotten then. *Workers*: two tasks of a
group meet on one worker or on two, the third has no group; more workers than two would only repeat
the second. *Quay*: tasks share the flag, the internal queue and the topic, and are otherwise
independent; what another task could do to one is done by the foreign build and by `cleanup`; of the
foreign build one event is on its way at a time (`MaxForeign`), and what is proved holds for any
number of tasks, builds and events. *Hashes*: a package that is combined too early needs a head and
a chain of two beside it, and one more below to be stale for, which is four packages; with three
every hash is right. *Publishing*: a flow, one that comes after it and a third that comes in between
are what the properties speak of; the commits are two with the same content and one with another,
whose version is the same, higher or lower. *Deployment*: others are `PatchedByOthers`, so one flow is
enough where nothing compares two flows; two pods are "one is up and one is not". Its bounds are
named: `MaxGeneration`, up to which others deploy, is 3, so that a flow meets a deployment by somebody
else before it and after it; `MaxEvents`, how many events of pods, of pods that a complete rollout
misses, and of changes outside the template wait for one flow, is 1; `SomebodyWaits`: what others do, and
what goes wrong after a complete rollout, is followed while some flow has not begun or hears of it; the
pods of an image are followed while a flow waits for it. Nothing else is bounded: no other module has a counter that grows, and
the state space is finite because a flow has finitely many steps, artifacts and tasks, each worked on
once; a version is chosen once in a flow.

Fairness. All of it is weak: these actions stay enabled until they happen. *Engine*: the timer
of the buffer ticks (`Flush`), redis replies (`Deliver`), the set-up and the functions of the
user settle, `runAllSteps` notices (`Return`). Of these, and of what the queue and the workers of
`TaskWorker` do, it is enough that as long as something can happen something does: nothing is assumed of
what goes first.
`EmptyTick` keeps a flow in which nobody works from being a deadlock, as the timer does for the
process; that there is no such flow is what `FlowSettles` says. *Run of the program*: requests
settle, one way or the other, the event loop goes on, and functions settle; the steps need not add
tasks and redis need not fail. *Queues*: the event loop goes on, functions and commands settle,
requests settle, builds end, the poll sees it, redis delivers. Nobody must add a task or clean up, a
machine need not go away, quay need not send a webhook. *Publishing*: a request that a flow has sent
is answered or fails (the time limits are those of the npm, docker and redis clients); nothing is
assumed of the order of the flows. *Deployment*: the controller works, the deadline of the
deployment passes, events arrive; pods need not come up, fail or go, and no watch need be closed.

The queues, the runs of the program, the flows that publish or deploy, and the loop of the hashes
may stop (`CHECK_DEADLOCK FALSE`): a queue without tasks waits for the next call, and what has ended
has ended.

What the violated runs show:

* `SplitTest`. When every part of a split test was on a worker whose before-all command failed, the
  queue tells each part as *done, skipped as failed*, and test returns the same of the artifact
  (`steps/src/test.ts:179`). The engine takes that for impossible, raises "we can't be here10"
  (`core/src/create-step/on-artifact.ts:343`), and the whole flow fails instead of one step. A part that
  bee-queue gives up comes to *aborted, failed*, which raises "we can't be here8" where all other
  artifacts were skipped and the last one after it. For any graph the errors are raised for no other
  reason: `OnlyOddResultsCantBeHere`.
* `StaleCache`. A step decides *when* to start from the store and *whether* to from redis. The
  running action of test, delivered late, wakes npm-publish in a turn in which the store
  already says that test failed and redis does not yet. `NotRunAgainAfterPass` is not open to
  this: what it asks is written before the flow, or by the step itself.
* `StaleHash`. The queue is breadth-first, but a package is queued when the *first* of its
  parents was visited. Take d that depends on c and on a, c that depends on b, b that depends on a:
  a queues b and d, d is combined before c is, is marked as seen, and is not queued by c. Its
  hash does not hold b, so a change of b leaves the cached results of d valid. Where all ways to a
  package are equally long it does not happen (`LayeredHashFollowsParents`).
* `SameCommit`. The reads are *tags, then cache* and the writes are *registry, then cache*: a flow
  whose two reads fall between the two writes of another finds the tag and not its name.
  With npm the same interleaving makes one flow fail at `npm publish`, or publish the content
  twice, under two versions.
* `SameImage`. A patch that changes nothing is answered with `generation = observedGeneration` as soon
  as the controller has *seen* the generation (`steps/src/k8s/utils.ts:641`). A flow that is run
  again while the rollout is under way, or after it was late or failed, is *skipped as passed*.

What else was found and is stated as an exception of a property, or as an assumption, because the
code is known to do otherwise:

* a function that settles while `cleanup` of the local queue waits for the internal queue is told
  neither done nor aborted (`local-sequental-task-queue.ts:131`). `WaitingTasksAborted` speaks of
  the tasks that did not run, and by `Sequential` only one does;
* `sendAbortEvent` looks at the object that is not in the map any more
  (`quay-builds-task-queue.ts:399`): when the helper service cannot be reached after the build was
  triggered, a task that was told to be aborted may be told to be done, and the other way round, so it
  is told to have ended twice. It is the exception of `EventsGoForward` (`EndsTwice`), which counts these
  events: each object ends once, and there are two of them;
* `isRunningTaskNow` stays set on two early returns of `processTask` (`task-worker/src/utils.ts:128`),
  so a worker whose before-all command failed never stops by itself: the exception of
  `IdleHealthyWorkersStop`;
* `immutableCache.set` does not override: after a version was removed from the registry the cache
  keeps its name, later flows publish the content again each time, and an image fails on the tag
  of its own commit. `RerunPublishesNothing` has the removal as its exception;
* when one queue cannot be created those that were, or still are going to be, are never closed: their
  clean-ups are registered only when all of them exist (`ci-logic.ts:130`). It is the exception of
  `ClosedInOrder`. When the logs cannot be saved, `finishFlow` rejects before any clean-up and before
  it sets the exit code (`core/src/utils.ts:180`): `pc` is *rejected* then, of which only `CiSettles`
  speaks;
* while the pods are listened to no event of the deployment is taken, so neither the deadline nor the
  deployment by somebody else is seen when pods neither come up nor fail (`steps/src/k8s/utils.ts:426`):
  the first exception of `OnlySilentPodsKeepWaiting` (`ListensToSilentPods`);
* with `failDeplomentOnPodError`, a flow whose *first* status is complete keeps `deploymentSuccess`, listens
  to no pods, and waits for `podsSuccess`, which only they set (`steps/src/k8s/utils.ts:537`). The
  annotation makes such a status possible without other faults: the pods of an image that others
  deployed are up when the flow names it. The deployment does not change any more, so the flow hangs; a
  test asks that it should not (`happy-flows.spec.ts:297`), with a deployment by a flow before it,
  where the annotation is the same. It is the second exception (`KnowsButNeverListens`).

Two more are visible in the constants: the constrain on
install-root that `steps/src/test.ts:43` puts under a name the engine does not know, and the
exit code 0 of a failed step in a repository without packages (`core/src/utils.ts:33`), which
is why `ExitCodeIsRight` assumes an artifact.

## 4. What is proved

`StepsExecutionProofs` proves, for every finite or infinite set of steps and artifacts,
every acyclic graph of steps, every choice of constrains and results allowed by
`GraphAssumption` and `StepsAssumption`:

| theorem | says |
|---|---|
| `TypeCorrect` | `Spec => []TypeOK` |
| `InductiveInvariant` | `Spec => []IInv` |
| `LocalAgrees` | the private copy a step keeps is what the store holds |
| `StepAgrees` | a final step has the result its artifacts come to |
| `ParentsFirst`, `ArtifactParentsFirst` | nothing begins before what it waits for is final |
| `FinishedIsIdle` | nobody works when the stream of actions completes |
| `OneFinalEvent` | nothing is published about what is final already |
| `CacheComplete` | a flow that ended left every final result in the cache |
| `ExitCodeIsRight` | with at least one artifact the exit code is right |
| `OnlyOddResults` | whatever the user functions return, *we can't be here* is raised only in a step of which one artifact came to a result that is not one of the four expected |
| `NeverRunAgain` | what passed, in an earlier flow or in this one, is not run again |
| `ImplementsFlowPromise` | `Spec => KeepsFlowPromise`: the engine implements `FlowPromise` |
| `WakeUpsAreNotLost` | what waits has parents that are not final, or is about to be woken up |
| `FlowIsNeverStuck` | with finitely many steps, a flow that has not ended has a turn to take |
| `FlowGoesForward` | every turn advances something, and none takes anything back |

The argument. `IInv` is `TypeOK /\ FlowInv`. None of the properties is inductive by
itself: what the store holds of a step follows from where its callback is. `FlowInv`
says so for steps whose artifacts always have the result of the step (`WholeInv`) and for
those that work on each artifact (`ByArtifactInv`): the private copy is the store, at
most one artifact is calling `onAfterArtifacts`, and the step is final only after it. To
this it adds that whatever woke up has final parents (`OrderInv`), which is stable because
final results never change. `CacheComplete` needs a second invariant, that every final
result is in the buffer or in the cache. `OnlyOddResults` assumes nothing of the user functions: the turn
that raises an error leaves its step open with all artifacts final (`RaisedLeavesOpen`), and results
that are all expected never clash (`ClashIsOdd`), by cases on the statuses they combine to.
`NeverRunAgain` needs that who is about to run has found no pass in the cache and that none was written
since (`NoPassInv`), which rests on the buffer holding final results only of what is final in the store
(`BufferInv`). `ImplementsFlowPromise` maps each turn to one abstract step or to none. Most turns
change one step; the turn that delivers a batch may skip many at once, which is `SkipAtOnce`. The
guards follow from `FlowInv`, and what it needs beyond is `WorkInv`: who works on the whole
repository, and who has announced that its step runs.

The last three are the safety half of `FlowSettles` (see *No dead ends* below). A
step looks at the store only when a batch of news passes the filter of its trigger, and then only once:
`WakeUps` says that if its parents are final and it still waits, the news that will wake it is in the
buffer or in a batch on its way (`Coming`); `NoLostWakeUp` is what is left of it when both are empty. This holds even for cyclic graphs of artifacts. With it, of the steps that
are not final one without such ancestors (`FirstStep`, by well-founded induction on the number of ancestors)
is at work, and `CloseInv` says that what ends a step, and the flow, is not left out by the last
artifact. `FlowGoesForward` compares phases of callbacks, results and the buffer.

`ExitCodeIsRight` assumes an artifact, without which the code tells another exit code (see above).

`LocalSequentalTaskQueueProofs`, for every set of tasks and every sequence of calls in which no
task occurs twice (`CallsAssumption`):

| theorem | says |
|---|---|
| `QueuesInvariant` | `Spec => [](TypeOK /\ QueuesInv)` |
| `WaitingAreAborted` | after cleanup no accepted task is left without an event |
| `OrderInvariant`, `RunsInOrder` | tasks run one at a time, in the order of the calls |
| `KeepsPromise` | `Spec => EventsSpec`: the queue implements `TaskEvents` |
| `NoTaskForgotten` | a queue that is open and has no turn to take has answered every task |
| `CleanupIsNeverStuck` | `cleanup` does not wait for a queue that is idle already |
| `QueueGoesForward` | no step goes back |

`QueuesInv` says that every accepted task is in one place, once, and that the place and the
last event tell each other. The refinement needs it: that `Announce` emits *scheduled* only
of tasks nobody heard of is not visible in the step itself. `OrderInv` says that what is in the two
queues, one after the other, is in the order of the calls, and that what has begun was before it.
`NoTaskForgotten` is about an open queue on purpose: a task whose function still runs when `cleanup` drains is
told nothing more, so "after cleanup every task had its end" is false of this queue.

`CiLogicProofs`, for every set of other queues, and the tasks and calls as above:

| theorem | says |
|---|---|
| `QueueInCi` | `CiSpec => Spec`: a run of the program is a run of the local queue, for which all of the above holds |
| `CiTypeCorrect`, `CiInvariant` | `CiSpec => []CiTypeOK`, `CiSpec => []CiInv` |
| `ClosesInOrder` | the connection is closed after everything that uses it; what was created is closed |
| `AbortsAreFatal` | a task is aborted only in a flow that failed unexpectedly |
| `ZeroIsTrue` | exit code 0 means no fatal error, and that every accepted task passed |
| `CiIsNeverStuck` | at every `await` something it waits for can happen, or has |
| `CiGoesForward` | every step advances `ci`, another queue or the local queue |

`CiInv` says what is open at each `await` (`PhaseInv`) and how the flow ended (`ResultInv`); with
`QueuesInv` it gives the three. That `cleanup` finds a queue without tasks unless there was a fatal error is
what makes `OnlyFatalFlowsAbort` inductive. The last two rest on those of the local queue: `QueueInCi` carries
`NoTaskForgotten` and `CleanupIsNeverStuck` over to the run of the program.

`TaskWorkerProofs`, for every set of tasks, workers and groups (`WorkersAssumption`):

| theorem | says |
|---|---|
| `TypeCorrect`, `WorkersInvariant` | `Spec => []TypeOK`, `Spec => []WorkersInv` |
| `BeforeAllRunsOnce` | a before-all command runs once on a worker, before the commands of its group |
| `ExitCodesAreRight` | the exit code of a worker tells whether something it ran failed |
| `KeepsPromise` | `Spec => EventsSpec` |
| `WorkersStay` | the worker of the flow stays until the flow has finished, no worker closes over a job |
| `JobsAreNeverStuck` | a job without a result can go on until the flow cleans up; `cleanup` can end |
| `AbortsAreExplained` | only a worker that leaves, or a failed before-all command, aborts a task |
| `WorkersGoForward` | no step goes back |

`ExitCodesAreRight` states `WorkerExitCode`, which is not repeated in the run.
`WorkersInv` relates the place of a job to its event and its answer (`EventsFollowPlace`), gives
each worker one job (`OneJob`), and counts failures (`FailuresCount`); `BeforeAllOnce` follows
from the second and from what a worker knows of the group of the job it has (`BeforeAllKnown`).
`JobsAreNeverStuck` leaves out one case, which the code leaves out too: the job of a worker whose machine went
away waits for whoever may start that machine again. It needs that the worker of the flow is there as long
as jobs wait (`LivesInv`), whatever the idle timeouts of the other workers do.

`QuayBuildsTaskQueueProofs`, for any tasks, foreign builds and faults:

| theorem | says |
|---|---|
| `TypeCorrect`, `QueueInvariant` | `Spec => []TypeOK`, `Spec => []QueueInv` |
| `ResultsAreTrue` | a task is told to have passed, or failed, only when its build did |
| `CleanupEndsAll` | after cleanup every task that was added has had its last event |
| `EventsDoGoForward` | events go forward and a task is told once that it ended, but for `EndsTwice`, after a failed request to the helper service |
| `AnswersAreNotLost` | the end of a build with an id is told, polled for or on its way |
| `BuildsAreNeverStuck` | while the queue is open, a task has ended or something can end it |

`QueueInv` has three parts: what the two objects of a task hold of its last event, by the request at
which it is, and that a task ended as often as an object of it did (`TaskInv`); that the events on their way tell what the builds are (`TrueEvents`); and that
a queue that has cleaned up is closed. `AnswersInv` is about the race of the webhook with the answer to the request
that began the build: an event that comes before its task has an id is tried again until it has
(`retrying`). The two exceptions of `BuildsAreNeverStuck` are in the code: no event tells that a build was cancelled by
somebody, and the helper service stops polling for a build that quay does not know. There is no theorem
that this queue goes forward, because it need not: webhooks repeat, and an event of a foreign build is tried
again as long as the queue is open.

`ArtifactHashProofs`, for every set of packages and every set of graphs:

| theorem | says |
|---|---|
| `TypeCorrect` | `Spec => []TypeOK` |
| `NothingElse` | a hash holds only what the package depends on, and the root files, which are those of packages outside of `packages` too |
| `CoversParents` | if the graph has no cycle, a finished hash holds the package, its direct dependencies and the root files |
| `LayersFollow` | where all ways to a package are equally long, its hash holds what those of its parents hold |

`CoversParents` needs the invariant of the loop: a package without dependencies, and a child of a
package that was seen, was seen or is queued. When the queue is empty the packages that were not seen would be
a set in which each depends on another, which `Acyclic` forbids. `LayersFollow` needs that the queue is
sorted by depth and holds two depths at most (`LayerInv`).

`PublishingProofs`, for any flows, contents, order of the flows and faults (`JobsAssumption`,
`TargetsAssumption`, `CommitsAssumption`):

| theorem | says |
|---|---|
| `PublishingInvariant`, `TypeCorrect` | `Spec => [](TypeOK /\ PublishInv)` |
| `CacheTellsWhatWasPublished` | a name in the cache is one under which that content was published |
| `PassesArePublished` | a flow passes only when its content was published under the name it tells |
| `RerunInvariant`, `RerunIsSkipped` | a flow that comes after one that passed with its content publishes nothing |
| `VersionsDoAscend` | a flow publishes a higher version than those it comes after |
| `SequentialFlowsAgree` | no faults, flows one after the other: what a flow has read is still so when it is used |
| `SequentialFlowsPass` | ... and every flow passes |
| `SequentialFlowsPublishOnce` | ... and a content is published once, under one name |

`PublishInv` adds to the two properties in the middle what makes them inductive: the requests at
which a name is known to be published (`NameWasPublished`), that results come with the end
(`ResultsFollowRequests`), and what names are (`NamesFollowTarget`): an image pushed over an
existing tag replaces the same content, because one commit has one content. Types are not
inductive alone, since a name is taken from the cache. `RerunInv` then needs that a flow begins
when those it comes after are over, that what passed is cached, that the cache never changes a
name, and that a name which is not in `removed` is still in the registry. `VersionsAscend` is no
matter of one flow: that the highest published version exists at all rests on the registry being
bounded, and is the lemma `HighestFacts`, by well-founded induction on numbers.

The last three assume `Faults = {}` and `OneAfterAnother`: of any two flows, `After` orders them. They are the other
side of the finding of `SameCommit`: the same formula, `ParallelFlowsPass`, that two flows in parallel violate
holds of any number of flows in a row, on either registry, whatever their commits and versions. The
invariant (`SequentialInv`) says that what is in the registry is in the cache, but for the flow that has
just published it, and that a tag found in the list is the one of the same content.

`K8sDeploymentProofs`, for any flows, images, pods, replicas and disturbances (`ClusterAssumption`):

| theorem | says |
|---|---|
| `TypeCorrect` | `Spec => []TypeOK` |
| `PassedRolledOut` | a deployment that passed was rolled out in the generation of its own patch |
| `NoEventIsMissed` | a flow that has no event to take waits for something the controller still has to do, or is the one that knows of its success and never listens |
| `NoPodEventIsMissed` | a flow that has no event of pods to take waits for pods that have not failed and are not all up |
| `UndisturbedFlowsGoOn` | undisturbed, a flow gives up only for a later deployment |

The invariant (`RolloutInv`) says that every status that is told, the one in the cluster and those in
the events, is complete only for a generation that was rolled out (`Truthful`, `EventsAreTrue`), that no
event of a flow is older than its patch, that `deploymentSuccess` was set by such an event
(`TrackedFacts`), and that a new generation was not rolled out before (`RolloutsSoFar`).

While a flow listens to pods `concatMap` keeps the events of the deployment back, and the flow takes them
afterwards. `WatchInv` says that none it needs has passed by: the last event that was not taken is what
the deployment is, and where all were taken nothing has answered the flow yet (`ToldWhatIs`); a flow
whose generation was ever complete knows of it or has the event before it (`HeardOfRollout`); and a flow
listens once, for the sake of `failDeplomentOnPodError`, and comes back with all pods up (`ListensOnce`).
What is left is the flow that was told of its success *before* it listened, which waits with nothing to
come: the exception of `NoEventIsMissed`, and of `OnlySilentPodsKeepWaiting`. A flow whose events go on
after a complete rollout, because a pod was lost, is no exception: its success is an event it has taken
or has yet to take.

`ListenInv` says of each pod that its last event is how it is, and where there is none the flow has
counted it (`PodIsTold`). `NoPodEventIsMissed` assumes at least one replica: with none there is no event of a
pod, and a flow with `failDeplomentOnPodError` listens for ever. `UndisturbedFlowsGoOn` assumes `Disturbances = {}`; it
excludes that an event of the flow's own generation comes before the replica set that `TakeEvent` looks for, which
a change by somebody (`Touched`) can bring about: then the flow ends with an error.

**No dead ends.** What must eventually happen is a matter of fairness, which is TLC's part. What the
code adds to it is proved: no reachable state is a dead end, where nobody has anything to do and somebody still
waits, and every step goes forward, so that nothing is done over and over again.

| liveness (TLC) | no dead end (proved) | forward (proved) |
|---|---|---|
| `FlowSettles` | `FlowIsNeverStuck` | `FlowGoesForward` |
| `CiSettles` | `CiIsNeverStuck` | `CiGoesForward` |
| `TasksEnd`, `WorkersStop`, `IdleHealthyWorkersStop` | `JobsAreNeverStuck` | `WorkersGoForward` |
| `BuildsEnd` | `BuildsAreNeverStuck` | no: webhooks and retries repeat |
| `OnlySilentPodsKeepWaiting` | `NoEventIsMissed`, `NoPodEventIsMissed` | no: the deployment may change for ever |
| `PublishingEnds`, `CleanupEnds` | not needed: each step waits for the answer to one request only | not stated |

That these states have an enabled action is said by the guards (a turn is due, a job has a worker), because
ENABLED is out of the prover's reach. The invariants of these theorems are no properties of the runs; before each was
proved, TLC confirmed it on the instance of the run of its module, with two flows where that has one
(`K8sDeployment`), and with flows in a row and no faults for those of `Publishing`.

The inductive invariants and the types are proved for every value of the constants and are not
repeated in the runs. All safety properties of the passing runs are proved, `ExitCodeTellsFailure` under
the assumption named above. So is `ParallelFlowsPass`, which the code violates without its assumptions.

Only model-checked, because liveness under fairness is out of the prover's reach: `FlowSettles`,
`CiSettles`, `TasksEnd`, `WorkersStop`, `IdleHealthyWorkersStop`, `CleanupEnds`, `BuildsEnd`,
`PublishingEnds`, `OnlySilentPodsKeepWaiting`.

## 5. Not modelled, and why

* Reports, loggers, configuration, command lines: formatting and plain I/O.
* Steps on the root and validation (`install-root`, `lint-root`, `build-root`, `validate-packages`): one
  command each, whose result is a constant of the engine.
* Time to live of the cache: no flow waits that long. (It is computed in milliseconds
  and given to a command that takes seconds, `core/src/ci-logic.ts:109`.)
* Duration, notes and errors of results: no decision reads them.
* The constrains that read `package.json` or the configuration: their verdicts are
  constants (`GlobalVerdicts`, `OwnVerdicts`).
* A lost connection to redis: the code has no handling of it, beyond failing.
* The counter of workers in redis (`task-worker`): nobody reads it.
* What a worker, or quay, does with what the flow has forgotten: a build that quay accepted in a
  request that was cancelled runs on and nobody cancels it (`quay-builds-task-queue.ts:383`); tasks
  that wait in redis when the flow cleans up get no last event (`task-worker-task-queue.ts:142`, a
  TODO there). The end of a build is published once, and lost if nobody listens at that moment
  (`quay-helper-service/src/index.ts:159`); the model has subscribers that are there.
* The splitting of one test step into several tasks (`steps/src/test.ts:132`): the results it may
  combine to are in `UserResults` of `Flow` and `SplitTest`.
* The lag of the npm registry: `npm view` is taken to tell what was published. Where it lags for more
  than the two minutes of the loop of npm-publish (`steps/src/npm-publish.ts:371`), a later flow may compute its
  version from a list that misses the last one.

## 6. Plan

1. *done* `Statuses`, `StepsExecution`, their properties and proofs.
2. *done* `TaskEvents`, what a queue promises to its subscribers; `LocalSequentalTaskQueue`,
   `TaskWorker`, `QuayBuildsTaskQueue`, each shown to implement it, or where it does not.
3. *done* `ArtifactHash`, the hash over the graph of the packages; `Publishing`, several flows, one
   registry and one cache.
4. *done* `FlowPromise`, the abstract specification of a flow, and the proof that `StepsExecution`
   implements it.
5. *done* `CiLogic`, a run of the program around the local queue, with its proofs.
6. *done* `K8sDeployment`, several flows on one deployment, with its proofs.
7. *done* Proofs of what the first modules left to TLC: repetition, the order of the local queue, the
   hashes of layers, the quay queue.

8. *done* No dead ends and no steps back in the engine, the queues, the program and the deployment; what parallel
   flows lose, and flows in a row do not.

What is left: two whole flows of the engine on one cache, which multiplies two state spaces that are
large alone, and for which the step on which they meet is modelled (`Publishing`); the engine with a queue
inside it, action by action, which would say again what `RunReturns` of `CiLogic` and `UserResults`
take from one for the other.
