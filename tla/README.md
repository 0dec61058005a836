# Formal models of the satellite-cloud backend

This directory holds TLA+ models of the task processing of satellite-cloud, the
configurations that check them with TLC, and theorems about them that TLAPS
checks. Paths without a prefix are relative to `src/backend/`; `service.go` is
`internal/remotesensing/service.go` unless said otherwise.

1. [The system](#1-the-system)
2. [What makes it hard](#2-what-makes-it-hard)
3. [Modules and how they correspond to the code](#3-modules-and-how-they-correspond-to-the-code)
4. [Runs, bounds and what they show](#4-runs-bounds-and-what-they-show)
5. [Fairness](#5-fairness)
6. [What is proved](#6-what-is-proved)
7. [Where code and documents disagree](#7-where-code-and-documents-disagree)
8. [What is not modelled](#8-what-is-not-modelled)
9. [Plan](#9-plan)

To check a run: `tlc -workers 2 -config <file>.cfg <module>` in this directory; to
check the proofs of a module: `tlapm <module>.tla`. `PROJECT.json` lists the
components, the runs with their properties, the map from definitions to source
lines, the mutants that show each property can fail, the hazards and the theorems.

## 1. The system

A client asks for the processing of a satellite image. The pipeline has ten stages
(`stageDefinitions`, service.go:51): nine prepare a fused image, the tenth detects
objects in it. Components, the state each keeps, and how they interact:

| Component | State | Operations | Interacts with |
|---|---|---|---|
| API process (`cmd/server`, `internal/api`) | subscribers of stage events | create a task, queries, at its start re-enqueue pending tasks | database; appends to `rs.jobs` |
| Remote sensing service (`internal/remotesensing/service.go`) | task rows, stage rows, artifact rows, log rows in the database | `CreateTask`, `runPipeline` (claim, resume, stages with retries), `updateStageStatus`, `finishTask…` | called by all three kinds of process |
| Job streams (`internal/queue`) | Redis streams `rs.jobs`, `od.jobs`, their consumer groups | XADD, XREADGROUP, XAUTOCLAIM, XACK, XGROUP CREATE | API and rs-workers append, workers read |
| rs-worker (`cmd/rs-worker`) | semaphore, messages it holds | start (group, re-enqueue running tasks), read loop, reclaim loop, process, acknowledge, hand back | streams, service |
| od-worker (`cmd/od-worker`) | semaphore | start, read loop with group repair, process, acknowledge | `od.jobs`, service |
| Satellite-aware queue (`worker_satellite.go`) | – | decide whether a job is for this satellite | rs-worker |
| Parallel stage executors (service.go:854, 1152) | goroutines, semaphore, `workers` and output directories | groups of areas or bands, one program each, copies, cleaning | file system |
| PAN RPC through Argo (`pan_rpc_argo.go`, `internal/argo`) | workflow objects, NFS directories | resume tests, submit, wait, merge | Argo controller and its Pods |
| Stage executors and fusion artifacts (service.go:823–1408, `taskpaths.go`, `od_dispatch.go:147`) | files on a Pod's scratch volume and on NFS, artifact rows | run a program in directories, copy to NFS in the foreground or background, rewrite paths | later stages, a resumed run, od-workers, the API |
| Detection artifacts (`detection_stage.go`, `internal/objectdetection/artifacts.go`) | files of a detection, artifact rows | insert after a detection, bring in line in every GET | detection statistics |
| Stage events (service.go:734) | subscriber channels | subscribe, cancel, publish | SSE handlers |
| Object detection service (`internal/objectdetection`) | task, stage and artifact rows, a queue in memory | request, start, claim, one stage with retries, finish | database |
| Topology import (`internal/topology`) | delays, satellite states, router nodes and links | import jobs, import at start, import when a request finds no nodes | database |
| Router graph (`internal/api/handlers/topology.go`) | none | search from a center, layout; the CSV files if the database has no graph | topology tables |
| Placement, pilot cluster mapping | columns of the task row; none | write the node a task runs on; map names | workers |

The database and Redis are shared by all processes; nothing else keeps two of them
from working on one task. In production
(`src/k8s/phase5/rs-worker-daemonset.yaml`) there is one rs-worker per satellite
node with concurrency 1, Argo and the satellite-aware queue are on, and od-workers
are scaled automatically.

### What makes each component correct

* **Pipeline.** A task is completed only when all its stages have been carried out;
  it is not forgotten; it never leaves a final status; its rows agree with it;
  detection happens exactly for those who asked for it; every task ends.
* **Streams and workers.** A message reaches one goroutine at a time unless it was
  declared idle; it stays deliverable until its task is claimed.
* **Parallel executors.** Success means all parts, complete; the number of programs
  is bounded by the memory budget; the first error ends all groups; what a failed
  attempt leaves behind does not make the retry fail.
* **Argo.** Success means all parts, whichever way they got there; a restart does
  not make the stage fail or compute again what is merged.
* **Object detection.** One worker per task; pending, running, then one final status
  for good; pending tasks are taken up again after a restart.
* **Stage files and fusion artifacts.** A stage finds the files of the stages before it,
  also when it resumes elsewhere; a path on NFS that a row or a job names leads to a
  whole file.
* **Detection artifacts.** A file has one row, whatever requests and detections did;
  a request repairs what others left.
* **Stage events.** A subscriber misses nothing that was not given up; a send on a
  closed channel has one cause only; a stuck client does not stop the pipeline.
* **Topology import.** However imports overlap, the tables hold whole imports, a
  request shows the links of the files, and nobody waits for ever.
* **Router graph.** Hops are distances up to the limit; each pair of linked routers has
  one edge, each router a place.

## 2. What makes it hard

* Redelivery: XAUTOCLAIM takes over any message delivered more than two minutes
  ago, and a stage runs for longer. Every rs-worker that starts re-enqueues *all*
  running tasks. So two goroutines on one task are normal, and the claim in
  `runPipeline` deliberately lets the second one resume.
* No transactions: a status change is two UPDATEs, creating a task is up to twelve
  statements and an XADD, handing a job back is an XACK and an XADD.
* Skipping: a resumed run reads the successful stages once and skips them while
  somebody else may be changing them.
* Files: directories are shared between attempts, and without path isolation also
  between tasks; a killed process leaves any mixture of them behind.
* Contexts: a timeout or the first error of a group cancels goroutines that stand
  anywhere.
* Volumes: a scratch directory goes with its Pod, NFS stays; which of the two a path
  means depends on two settings, and stage rows survive both.
* Requests that write: a GET of the artifacts inserts and deletes rows, a GET of the
  router links may import the topology; any number of them overlap.

The 40 hazards in `PROJECT.json` give the line at which each of these bites and the
properties that would notice.

## 3. Modules and how they correspond to the code

```
RedisStream ──► TaskPipeline ──► TaskPipelineMC
                     └─► TaskPipelineProofs ──► TaskPipelineSafety
StagedTask ◄── TaskPipeline
TaskLifecycle ◄── ObjectDetectionTasks ──► ObjectDetectionTasksMC
PanRpcArgo ──► PanRpcArgoMC, PanRpcArgoProofs
PanRpcArgoProofs ──► ObjectDetectionProofs; TaskPipelineSafety ──► StageFilesProofs
ParallelParts ──► ParallelPartsMC, ParallelPartsProofs
ObjectDetectionTasks + PanRpcArgo ──► RestartsMC ──► ObjectDetectionProofs
StageFiles + DetectionArtifacts + StageEvents + TaskPipeline ──► StageFilesMC ──► StageFilesProofs
RouterGraph + TopologyImport ──► TopologyMC ──► TopologyProofs
TopologyImport ──► TopologyImportProofs ──► TopologyProofs
```

Three MC modules hold several specifications (`A + B`); the instance of TaskPipeline in
StageFilesMC is a deployment without od-workers. The parts share no variable: the first
state chooses one, the others stand still. A behaviour is therefore a behaviour of one part,
with that part's fairness (`WF_…(chosen = "…" /\ …)` asks nothing of the others), and
a property of one part says the same as in a run of its own. Interactions are inside
the modules, not between the parts of such a composition. The parts' sizes are constants
of the composing module (`Images`, `BufferSize`, `Csv`, …) to which the `.cfg` gives
values, so that the theorems about a composition hold for every value too; only the
stages, retries and hazards of TaskPipeline in StageFilesMC and of PanRpcArgo in RestartsMC
are fixed there.

### RedisStream

A stream is a sequence of entries; an entry has its job (a task and the
`enable_detection` flag) and its delivery state in the consumer group: new,
pending with fresh or long idle time, acknowledged. Operators stand for the
commands: `XAdd`, `Deliver` (XREADGROUP with `>`), `AutoClaim` (XAUTOCLAIM),
`XAck`, `Regroup` (a lost group created again from id 0: everything is new once
more), `GrowIdle`. Idle time has two values because the code asks only whether it
exceeds two minutes.

### TaskPipeline

API process, any number of rs-workers and od-workers with their receivers (the read
and the reclaim loop) and their job goroutines (one per place of the semaphore). A
goroutine is a record whose `pc` names the next database write, Redis command or
program; each of these is one action.

| Actions | Code |
|---|---|
| `CreateTask`, `CreateStage`, `DeleteTask`, `EnqueueTask` | `CreateTask`, `createStagesForTask`, `enqueueTask`: row, stage rows, delete on error (stage rows go with it, ON DELETE CASCADE), XADD |
| `Restart`, `BootEnqueue`, `BootDone`, `Crash` | process start: `bootstrapPendingToRedis` (API), `BootstrapStaleRunningTasks` (rs-worker), one job per step |
| `ReadJob`, `RebuildGroup`, `ReclaimStaleRSJobs`, `ProcessJob`, `AckJob` | the loops of both workers; `ProcessJob` blocks while no place is free |
| `ReleaseAck`, `ReleaseAdd` | `ReleaseRSJobForOtherConsumer`: first XACK, then XADD |
| `ClaimTask`, `CheckRunning`, `SuccessStages`, `SkipStage`, `DropSkip` | `runPipeline` up to the first stage: conditional UPDATE, resume of a running task, the set of successful stages, `stageOutputStillValid` |
| `SkipDetection`, `EnqueueOD` | end of an rs-worker's run: detection not asked for, or handed to od-workers with retries |
| `ShouldSkipODJob`, `ODRowSuccess`, `ODRowOther` | `shouldSkipODJob`, `RunDetectionFromJob` |
| `BeginStage`, `ExecSuccess`, `ExecFailure`, `Succeed`, `RecordArtifacts`, `FailStageRow`, `FailTaskRow` | `runStage` and the two UPDATEs of `updateStageStatus` |
| `FinishTaskWithError`, `FinishTaskCompleted` | unconditional UPDATE of the task |
| `IdleOrphan`, `IdleHeld`, `LoseGroup` | environment: time passes for a message nobody, or somebody, works on; Redis loses a group |

`done` is a history variable: the stages whose work was carried out. `wants` is the
flag of the request, `row` the column it became. Every command of the code may fail
(hazard `fault`). `Serves` stands for `ShouldProcessRSJob`: with the filter off it
maps every worker to all tasks. A worker of another satellite that gets a job
(`foreign`) hands it back.

### StagedTask

The abstract promise of the pipeline, without processes, streams and rows: a request
becomes a pending task (`Accept`) or comes to nothing (`Withdraw`); `Start` is the claim;
`Carry` carries out a stage after those before it; `Complete` needs all of them; `Fail`
needs a started task. While all is `calm` each stage is carried out once, while the task is
running, and the task ends once; otherwise stages may be repeated, even after the end,
and one end may replace the other, since `finishTaskCompleted` and `finishTaskWithError`
are unconditional. `Staged` in TaskPipeline is the refinement: `status` is the task column
(without a row `none` or, once the request is answered or undone, `withdrawn`), `work` is `done`,
`calm` is `Undisturbed`. Its states have no goroutines, so it also says what a client may
conclude from the status alone: no work on a pending task, all work behind a completed one.

### TaskLifecycle and ObjectDetectionTasks

`TaskLifecycle` is the abstract promise: none, pending, running, then completed or
failed, each for good; a request may be withdrawn before it is started.
`ObjectDetectionTasks` is the service: several servers that overlap during a rolling
update, each with a bounded queue in memory and workers; `CreateTask`, `CreateStage`,
`DeleteTask`, `EnqueueTask` for requests (the send on a full channel blocks),
`StartServer`, `BootEnqueue`, `BootDone`, `Crash` for servers, `TakeJob`, `ClaimTask`,
`BeginStage` … `FinishTaskCompleted` for workers. `Lifecycle` is the refinement:
`INSTANCE TaskLifecycle WITH status <- …`, where a task without a row is `none` or,
after its request was answered or undone, `withdrawn`.

### PanRpcArgo

One stage of one task: the parts under `workers` and in the output directory, the
workflow objects, and executors that go through `executePanRpcViaArgo` step by step:
`CheckMerged`, `PrepareWorkerDirs`, `CheckWorkerParts`, `LatestWorkflow`,
`SubmitWorkflow`, `WaitWorkflow`, `MergeArea` (one rename each), `CleanWorkers`. Without
path isolation `PrepareWorkerDirs` removes the parts in `workers` first. The controller and the Pods are external:
a part appears as a whole, `rename` is atomic, workflows are not deleted, and which
workflow comes last in a list (`last`) is arbitrary, as the code takes the last item
of a list ordered by generated names.

### ParallelParts

`executePanRpc` without Argo and `executePansharpenParallel` are the same program
with different data; `mode` says which. A goroutine per group: `Acquire`/`GiveWay`
(the select statement; when a place is free and the context is done either is
taken), `MakeDir`, `StartProgram`, `EndProgram`, `FailProgram`, `OpenPart`,
`CopyPart` (`copyFile` truncates the destination when it opens it), `RemoveDir`;
`GroupError` sends to `errCh` and cancels. The executor: `StartGroups`, `Gather`,
`Tidy`, `Conclude` (`ensurePansharpenOutputs`, only for pansharpening), with
`runStage`'s retries and timeout around it. Files are absent, torn or full. A second
executor stands for a redelivered job or, without path isolation, for another task
on the same input files: it removes, truncates and overwrites what the first uses.

### StageFiles

Each rs-worker Pod has a scratch volume, all share NFS; `files` says which product of
which task is in which volume, `rows` whether the artifact rows name the scratch or the
NFS path. `PlaceOf` is `scratchDir` with `panRadToaOutputDir` and
`panWarpQuartersInputDir`: the volume of a product, by `cfg.isolated` and `cfg.argo`.
`Needs` and `Writes` are the directories that each executor gives its program.
`OutputStillValid` looks, as the code does, at a whole directory: without isolation an
entry of any task will do. `Claim`, `SkipStage`, `BeginStage`, `ExecSuccess`,
`ExecFailure` follow `runPipeline` and `runStage`; `RecordArtifacts` inserts the rows and
starts the copy, for which the run waits if an od-worker will need it (`CopyReturns`);
`OpenDat`, `CopyDat`, `CopyPreview`, `RewritePaths` are the copy, each with its error.
`Restart` ends a worker's process, `Replace` its Pod too. A task has one Pod at a time,
and a program fails only when it lacks its input: duplicates and other failures are
TaskPipeline's.

### DetectionArtifacts

`StartDetection`, `WriteFile`, `CollectDetected`, `InsertDetected`, `FinishDetection`
are a detection, `StartGet` … `Respond` a GET with `syncDetectionArtifactsFromDisk`:
each SELECT, INSERT, UPDATE and DELETE is a step, and rows carry the process that
inserted them, which with the path is their id (`SameRow`), so that two rows of one path
stay two and a row read before an UPDATE is still the one that is deleted after it.
`overlapped` is a history variable for the properties.

### StageEvents

`Subscribe`, `Read` and `Cancel` are the handler of one client, `Publish` copies the
list, `Send`, `Wait`, `GiveUp` are the two nested selects for the first of the copied
channels, `Panic` is the send on a channel that was closed meanwhile; it ends the
process, and no action follows.

### TopologyImport and RouterGraph

TopologyImport has the statements of an import one by one. A DELETE first finds rows
(`Find`), then waits for their locks and passes over those that are gone (`Delete`); an
INSERT of a router waits for transactions that hold its key (`Holders`) and fails on a
committed one (`DuplicateKey`); circles of waiting transactions are broken
(`BreakDeadlock`). A row carries the import that inserted it. A request counts, perhaps
imports, reads nodes and links in two statements (`ReadTable`) and responds.

Reading the files may fail in two ways. A directory that cannot be read ends an import
(`Fail`), but not a request: without nodes in the tables it logs the error and answers
200 with no links (`FromNothing`, topology.go:357). A single file that cannot be opened or
read is passed over by both, so an import commits the router without its links
(importer.go:336) and a request answers without them (`FromCSV`). `missing` and `hidden`
keep which files these were; `Fragile` bounds which may be.

RouterGraph is the handler of one request: lookup, fallback to other links, the search
with `Dequeue` and one `Follow` per link, `Draw` per router in any order (the code ranges
over a map), layout.

## 4. Runs, bounds and what they show

Every hazard is bounded (`Budget`, `MaxFaults`, `MaxCrashes`): it may strike at any
moment, but only so often. `MaxKinds` bounds how many *kinds* strike in one
behaviour, `Together` (ParallelParts) which ones may be combined. Deadlock is not
checked because every system here may come to rest: its tasks are finished.

| Run | Instance | Shows |
|---|---|---|
| `pipeline_workers` | 1 task, 2 rs-workers, 1 od-worker, 1 preparing stage, any 2 kinds of hazards | `CompletedRanEveryStage`, `PendingNotForgotten`, `SingleDelivery`, `FinishedRowsAgree`, `DetectionAsRequested`, `Staged`, types |
| `pipeline_live` | 3 rs-workers, one of another satellite, an od-worker, 2 preparing stages, restarts, redelivery, lost output, lost `od.jobs` group, foreign delivery | `EveryTaskFinishes`, `DetectionNotReopened` (one detection goroutine) |
| `detection_servers` | 2 servers, 2 tasks, queue of 1, 1 retry, 1 fault, 1 killed server | `SingleExecutor`, `PendingIsScheduled`, `FinishedRowsAgree`, `Lifecycle` |
| `argo_hazards` | 2 executors, 2 areas, no isolation, every hazard once | `SuccessHasAllParts` |
| `restarts` | detection: 2 servers, 2 tasks, queue of 1, 1 killed server; Argo: 1 executor, 4 areas, 1 retry, 2 restarts | `EveryTaskEnds`; `MergedIsNotRecomputed`, `StageSucceeds` |
| `parallel_parts` | 2 executors; PAN RPC 3 areas in groups of 2 and 1, 2 places; pansharpening 2 bands, 1 place; 1 retry; each hazard once | `SuccessHasAllParts`, `ProgramsBounded`, `FailsForAReason`, `StageEnds` |
| `stage_outputs` | files: 3 deployments, 1 task, 2 Pods, a restart, a replaced Pod and a failing copy; rows: 2 detections, 2 requests, summary and an image, 1 failing statement; events: 2 clients, buffer of 2, 4 events; detection in the rs-worker: 2 rs-workers and one of another satellite, 1 retry, API crashes, any 1 kind of hazard | `InputsPresent`, `NamedFilesPresent`; `CountedOnceIfAlone`, `SyncedIfAlone`; `StreamsComplete`, `ClosedOnlyWhilePublishing`, `PublishingEnds`; `InlineSound`; types |
| `topology` | graph: all graphs of at most 3 links between 4 routers, a chain of 5, a double way, limit 3; import: 2 imports, 1 request, 2 versions of the files with a router in common, empty or filled tables, 1 failure: of a statement, of the directory or of one router's file | `HopsAreDistances`, `DrawnOnce`; `ImportsAreWhole`, `OneVersionShown`, `EverybodyEnds`; types |
| `pipeline_od_race`, `pipeline_handback`, `pipeline_flag`, `argo_merge_crash` | smallest instances | the disagreements of section 7 |

Why these bounds are enough to be interesting:

* Tasks share nothing but the streams and the semaphores, and a duplicate message of
  one task competes for both as a second task would. So one task with duplicates
  exercises what two would; two tasks are used where they compete for a queue
  (object detection).
* Two rs-workers with one place each give two goroutines on one task; a third
  rs-worker gives the foreign delivery. One preparing stage suffices for skips and
  the hand-over; two are used where the order of stages matters.
* Two kinds of hazards at once give the cases where one failure spoils the recovery
  from another. A single kind is enough with three workers, where more would not
  finish.
* Two areas give a merge that is half done; four areas are the code's number. Groups
  of two and one area give a goroutine with several parts; two bands and one place
  give one that waits.
* In StageFiles tasks meet only in directories that `OutputStillValid` looks at, and
  that matters in resumed runs without isolation, of which the properties claim
  nothing; the theorems hold for any number of tasks. Two Pods give a resumed run that
  finds nothing on its scratch volume. The three deployments are that of the manifests,
  Argo without isolation, and a worker that detects itself.
* A buffer of two and four events fill a channel, give up an event and go on; the code's
  eight would only take longer. A chain one longer than the limit and a router with ways
  of two and three hops are what a wrong order or limit gets wrong. Two imports and a
  request that may import are three transactions, enough for a circle, for an import
  that deletes while another inserts, and for one that finds the tables empty in between.
  One failure makes an import miss a file, or be undone, or leaves a request without the
  directory, next to an import undone by the unique index; the theorems have any number.
  Only the file of one router may fail in the run (`Fragile`), the one that has the only
  link of its version, so that missing it shows.

What the properties except, they except by name, and the exceptions are facts about
the code that TLC exhibits when they are removed:

* `PendingNotForgotten` needs that no command failed: an error of the claim or of
  XADD leaves a pending task until the API restarts.
* `SingleDelivery` needs that no job was held for more than two minutes and that the
  group was not lost.
* `FinishedRowsAgree` (pipeline) needs an undisturbed system: between "success" and
  the artifact rows there is no transaction. In the object detection service it
  excepts a task taken up by a starting server before its request had inserted the
  stage row.
* `EveryTaskEnds` names `Interrupted`: a running detection task whose server died is
  never recovered.
* `SuccessHasAllParts` (ParallelParts) needs that nobody else worked in the
  directories and, for completeness, that the attempt did not time out: after the
  timeout a goroutine that had no place yet returns *without* an error
  (service.go:909), so PAN RPC may report success with parts missing, and
  pansharpening may accept a band that an earlier, broken copy left torn.
* `InputsPresent` and `NamedFilesPresent` hold with path isolation whatever happens, and
  without it only while no worker ended and no copy failed. Otherwise a resumed run may
  skip a stage whose own files are gone, because the directory has an entry of another
  task or of another stage (the log line at service.go:486 suggests that it is executed
  again); and a second copy truncates the file that a rewritten row names.
* `CountedOnceIfAlone` and `SyncedIfAlone` except requests that overlapped another
  process: two of them insert a file's row twice, and until a later GET removes it the
  statistics (detection_stats.go:91) count the tile twice. The early return compares
  paths only (detection_stage.go:101), so a row's type may stay that of an earlier
  detection; nothing is claimed of types.
* `OneVersionShown` is about one version of the files. When they change, a request that
  found the tables empty may replace what an import has filled meanwhile
  (importer.go:415), with files it read before or after. And of files that could not be
  read it claims no links: those of a committed import, and those of the request's own
  fallback, are named in the property; all others must be shown.
* A center the database does not know sends a request to the CSV graph even when the
  database has another version (topology.go:301); `Fallback` has it.
* `EveryTaskFinishes` is checked without od-worker crashes: an od-worker killed after
  reading a message leaves the task running until some rs-worker starts.

## 5. Fairness

Weak fairness of: every request handler, start and goroutine (the Go scheduler runs
what can run; a program ends because of the stage timeout, `stageTimeoutFor`);
restarts (Kubernetes replaces a killed Pod); the read and reclaim loops (they poll
with a period); time for messages nobody holds (`IdleOrphan`). In PanRpcArgo the
workflow controller works on every workflow. In ParallelParts a stage is begun by
someone, and each executor process runs one of its goroutines if any can run: weak
fairness of the process, which is less than the scheduler gives each goroutine. In
StageEvents the publisher goes on (its waits end after a second); readers need not. In
TopologyImport every process goes on, PostgreSQL grants a lock that is free and breaks
deadlocks (`deadlock_timeout`). No fairness is assumed
of clients, of hazards, or of Redis in choosing a consumer; deliveries to other
satellites are bounded by the budget of `foreign`, which is an assumption (the code
would pass a job round for ever if Redis did).

## 6. What is proved

All proofs hold for arbitrary sets of tasks, workers, executors, requests, clients and
routers, any number of stages, areas and parts, any files and graphs, and any budget of
hazards (the two deployments fixed in section 3 apart), under the `ASSUME`s of the modules:
sizes are natural numbers, different kinds of processes are different, and, for the
imports, two versions of the router files share a router (`ImportAssumption`; new files
replace positions and links of the same satellites, and two versions without a common key
could be imported side by side). The property of
each theorem below is one that a run of section 4 checks.

| Module | Theorem | States |
|---|---|---|
| `TaskPipelineProofs` | `TypeCorrect` | `[]TypeOK`; with the types: every message a receiver or goroutine holds is in the stream it will be acknowledged on and names the goroutine's task |
| `TaskPipelineSafety` | `CompletionIsEarned` | `[]CompletedRanEveryStage` |
| | `PipelineIsStaged` | `Staged`, the refinement |
| | `DeliveredToOne` | `[]SingleDelivery` |
| | `NothingForgotten` | `[]PendingNotForgotten` |
| | `FinishedRowsTell` | `[]FinishedRowsAgree` |
| | `DetectionWasAsked` | `[]DetectionAsRequested` |
| | `DetectionStaysClosed` | `DetectionNotReopened`, if one goroutine detects, every request asks for detection and no command fails |
| `ObjectDetectionProofs` | `DetectionIsLifecycle` | `Lifecycle`, the refinement |
| | `OneExecutor`, `PendingAwaited`, `FinishedRowsTell` | `[]SingleExecutor`, `[]PendingIsScheduled`, `[]FinishedRowsAgree` |
| | `DetectionTypeCorrect` | `[]TypeOK` |
| | `MergedSurvivesRestarts` | `MergedIsNotRecomputed` of the run `restarts` |
| `PanRpcArgoProofs` | `SuccessIsComplete` | `[]SuccessHasAllParts` |
| | `MergedIsKept` | one executor: no workflow is submitted once all parts were merged |
| | `ArgoTypeCorrect` | `[]TypeOK` |
| `ParallelPartsProofs` | `PartsSuccess` | `[]SuccessHasAllParts` |
| | `ProgramsLimited`, `AttemptsFailForAReason` | `[]ProgramsBounded`, `[]FailsForAReason` |
| | `PartsTypeCorrect` | `[]TypeOK` |
| `StageFilesProofs` | `StagesFindInputs`, `NamedFilesThere` | `[]InputsPresent`, `[]NamedFilesPresent` |
| | `CountedOnce`, `SyncedAlone` | `[]CountedOnceIfAlone`, `SyncedIfAlone` |
| | `EventsInOrder`, `LeaversNotSentTo` | `[]StreamsComplete`, `ClosedOnlyWhilePublishing` |
| | `FilesTypeCorrect` | `[]TypesOK` |
| | `InlinePipelineSound` | `[]InlineSound` |
| `TopologyImportProofs` | `ImportTypeCorrect`, `ImportsStayWhole`, `FilesShown` | `[]TypeOK`, `[]ImportsAreWhole`, `[]OneVersionShown` of TopologyImport |
| `TopologyProofs` | `HopsShortest`, `EachDrawnOnce`, `GraphTypeCorrect` | `[]HopsAreDistances`, `[]DrawnOnce`, `[]TypeOK` of RouterGraph |
| | `TypesCorrect`, `ImportsWhole`, `FilesLinksShown` | the properties of the run `topology`, from both |

### Pipeline

* **Completion.** `CompletedRanEveryStage` is not inductive: a completion rests on
  evidence spread over rows, goroutines and messages. `Earned` collects it: a stage
  row says success only for work done (`SuccessEarned`); detection came after the
  others (`DetectionLast`); a message on `od.jobs` promises that the preparing stages
  are done (`ODJobsReady`); a goroutine at stage *k* has the stages before *k* done and
  skips only done ones (`Justified`). Work once done stays done, so a goroutine that
  does not move stays justified; that is why duplicates, resumes and crashes do no
  harm. One lemma per group of actions.
* **Refinement.** Every step maps to a step of `StagedTask` or to a stutter. That a stage has
  the earlier ones behind it, and a completion all of them, is `Earned`. That nothing is
  done for a task before its claim is `ClaimedFirst`: a goroutine past its claim
  or its check, and a message on `od.jobs`, have seen the task claimed, and
  a claimed task stays so. It could lose that only by `DeleteTask`, but until its
  `CreateTask` call has ended no message names the task and no process is about to
  enqueue it (`Unstarted`), and an API process that is down serves no request. The claim
  is the only way to running and takes pending tasks only, so an end is final. What the
  promise adds for a calm system needs one goroutine per task (`OneCarrier`) at the place
  its rows show (`InStep`), and `WorkRecorded`: work is in the stage row or
  about to be written there, so that no stage is begun twice.
* **One holder.** Two workers hold a message only if Redis gave it twice. `OneHolder`
  says of every place a holder can be, a receiver's buffer or a goroutine, that its
  message counts as taken and fresh; so XREADGROUP, which gives new ones, and XAUTOCLAIM,
  which gives idle ones, give it to nobody else. The theorem is about the runs where no
  job of a live worker became idle and no group was lost, which are the two ways out.
* **No task is forgotten.** `NotForgotten` follows the job of a pending task from hand
  to hand: the `CreateTask` call that will append it, an entry of the stream that is not
  acknowledged, a receiver, a goroutine before its claim, a worker between the XACK and
  the XADD of a hand-back, a starting process that has the task on its list.
* **The rows of a finished task.** `InStep` is the course of a run: for each program
  counter the stage and artifact rows it finds. It holds because, while nothing goes
  wrong, a task has one job, in one place (`OneCarrier`), which needs the two before.
* **The flag.** `AsAsked`: while nothing was restarted the flag of the request is the one in
  the message and in the goroutine. A restart builds the job from the row, which is
  the disagreement `pipeline_flag`.
* **Detection stays closed.** `DetectedFirst`: whoever may complete a task finds its
  detection row successful (or its rows gone), and whoever may set that row running finds
  it not so. With one goroutine for detection nobody else changes the row in between.
  The hypotheses (`SoleDetector`) are those of the run `pipeline_live`. Without the first,
  `pipeline_od_race` shows the violation; `shouldSkipODJob` does not skip when its query
  fails; and a job rebuilt from the row can have another flag than the message.

### Object detection

`LifeInv`: no two workers execute the same task; a task being executed is running, or
its row is gone, or only the last UPDATE of a failure is left; and a row was inserted by
a request. The conditional UPDATE of the claim establishes it, whatever the queues
hold. Each step then maps to a step of `TaskLifecycle` or to a stutter. A pending task is
followed from its request to a queue and to a worker as above, and `InStep` says what a
worker finds in the rows.

### Argo and parallel parts

* **All areas.** Nothing is ever removed from the output directory. So the areas before the
  one an executor merges next are there (`Progress`), although other executors move
  parts out of the same `workers` directory; an executor that succeeds has passed the
  last area or found them all.
* **Nothing is computed twice.** Parts are merged in order, so that the last one in the
  output directory stands for all (`MergedForGood`), and after that `CheckMerged`
  returns early. This is proved for a task with one executor: with two, TLC shows one
  that looked before the other's last rename and submits a workflow after it.
* **Parallel parts.** `PartsInv` follows the one executor through an attempt without
  error: a goroutine between program and copy has its directory complete and the
  parts it has passed in the output; an ended goroutine has delivered its group
  (`Piece`). Cancellation occurs only with an error (`Cancels`), so a goroutine that
  gave way before the timeout belongs to an attempt that fails. Goroutines of an
  executor exist only while it waits (`Quiet`), so nobody writes after `wg.Wait`.
* **Programs.** The places that are taken are counted against the goroutines that hold one: their
  number is the cardinality of a set, and every step that takes or gives a place adds a
  goroutine to it or removes one (`HoldingBounded`).
* **Every failure has a reason.** `PaidInv`: an attempt that has failed, or whose
  executor has an error, a cancelled context or an incomplete part, is paid for by a hazard spent,
  and no hazard pays for two attempts. So torn files of a
  killed executor or of an earlier attempt make no later attempt fail.

### What a task leaves

* **Stage files.** A Pod at a stage can read whatever the stages before it write
  (`BeforeMade`). With isolation that follows from the rows: the files of a stage whose row
  says success are on NFS, from which nothing is removed, since copies, the only steps
  that truncate, are not made. Without isolation and while nothing has struck, no run is
  resumed, so a run has executed every earlier stage itself, on the same volumes. There
  a task's image is recorded once and copied once, and nothing names the copy before it
  is over (`Calm`).
* **Artifact rows.** Whoever is busy and has met nobody is the only one busy (`Alone`),
  so the files and rows stay as they are between the steps of a lone request.
  `SyncingBy` is the loop invariant of `syncDetectionArtifactsFromDisk`: the entries it
  has passed have a row, the rows of the others are those it read; while it deletes, a row
  without a file is on its list or is one of several for its path. For the early return, as many rows as
  entries and a row for each entry leave no row for anything else: an injection between
  finite sets of one size is a bijection. `OneRowEach` adds that a lone detection inserts
  a path once.
  The proof corrected a property: `SyncedIfAlone` used to allow a row without a file
  only next to another such row *that is still there*. With three or more rows of one path
  the map `existingByPath` keeps one of them and the request deletes only that one; with two
  rows, all that the run's two requests can make, one is left, without the other. The
  property now says what the code does: a row without a file stays only if the request had
  read several for its path.
* **Events.** The list has the clients that are there, each once (`Listed`; taking a
  channel off a list without repetition removes exactly it, a lemma about `RemoveFirst`),
  and a client that is still to be sent to subscribed before the event was published (`Since`).
  Then a send appends a number larger than all in the stream, a send that is given up is in `late`, and
  what a client reads moves from its buffer to `got` without changing the stream.

### Topology

* **Hops.** The queue is sorted by hops, and its first and last differ by at
  most one (`QueueInOrder`, `RestOfCur`); every reachable router that is neither in the
  queue nor the current one has its links followed unless it is at the limit
  (`LinksFollowed`). So a router that a link finds already reachable has at most one hop
  more than the router the link starts from (`HopsAreTight`). That tight hops are
  distances is an induction on the length of ways; it is done with sets, as the provers
  take no theorem with an operator parameter: a set of numbers without a least element is
  empty, from `NatLessThanWellFounded`.
* **Drawing.** `Drawing` says what the edges are while routers are drawn one by one, in any
  order: those between routers that are drawn.
* **Imports.** Rows are found, deleted and committed an import at a time (`AllWhole`),
  and an import that has not committed is in nobody's rows (`Unseen`); so a DELETE that
  passes over rows another transaction has deleted passes over whole imports. Inserted
  keys are nobody else's until the end of the transaction (`KeysHeld`), and two versions
  share a key, so the last of two overlapping imports either fails on the unique index
  or has deleted what the first left (`CommitReplaces`, `OneImport`). A request reads
  nodes and links at two moments; `FirstVersion` says what the nodes it has read still
  tell when it reads the links: the tables have all links of the files but for those that a
  committed import could not read (`Known`), and that only grows fewer (`UnreadGrows`).
* The theorems about imports are about TopologyImport on its own. TopologyProofs carries
  them over to the run's scenario, whose steps are those of the module (`SameNext`).
  `InlinePipelineSound` and `MergedSurvivesRestarts` carry over the theorems about TaskPipeline
  and PanRpcArgo in the same way to the deployments in the runs `stage_outputs` and
  `restarts`: the constants of the scenario satisfy the module's assumptions, its first state
  is one of the module's, and so is each step.

### Only model-checked

* Liveness, the only properties of the runs without a theorem: `EveryTaskFinishes`,
  `EveryTaskEnds`, `StageSucceeds`, `StageEnds`, `PublishingEnds`, `EverybodyEnds`. They rest on fairness and `ENABLED`, which are
  beyond the proof system.
* That the code lines behind an external definition behave as modelled (Redis, PostgreSQL,
  the Argo controller, the Go runtime).

No module declares a RECURSIVE operator.

## 7. Where code and documents disagree

Each is a run that TLC finds violated; `PROJECT.json` quotes the document.

* `pipeline_od_race`: the comment on `shouldSkipODJob` says that a repeated `od.jobs`
  message must not set the detection stage of a completed task back to running. With
  two detection goroutines it can: the test and the UPDATE are separate.
* `pipeline_handback`: a job of another satellite is "handed back to the stream" by an
  acknowledgement followed by an append; killed in between, the worker loses it, and
  the task waits until the API restarts.
* `pipeline_flag`: detection is said to be issued when `enable_detection` is set. The
  column has a default of true and gorm omits a false, so after a restart the job
  built from the row asks for detection nobody wanted.
* `argo_merge_crash`: resuming after a Pod restart is described as repaired; a restart
  in the middle of the renames makes the stage fail in every retry.

The comment on `ReclaimStaleRSJobs` speaks of the orphans of a Pod restart; the idle
time counts from the delivery, so jobs that merely run for long are taken over too.
The models contain this (`IdleHeld`, hazard `slow`), and the safety properties hold
with it.

## 8. What is not modelled

* The in-process queue of the pipeline (`SATELLITE_USE_INPROCESS_PIPELINE=true`, off in
  the manifests): the form of the object detection service's queue.
* What the programs compute, file contents, logs, metrics; the header file that is
  copied between the fused image and its preview.
* Placement columns: an unconditional UPDATE that nothing in the backend decides by.
* Pilot cluster mapping, path normalisation, request decoding, detection statistics and
  archives: they read or compute and keep no state.
* The HTTP handlers other than those named in section 3: one query each.
* Storage back ends, the frontend, deployment scripts: no state that the system's
  correctness depends on; they supply sizes and restart policies.
* Reads of the database by a request that fail (it answers with an error) and, in
  TopologyImport, a scenario that does not exist. Reads of the CSV files that fail are
  modelled (section 3).

## 9. Plan

Done, in this order: RedisStream, TaskPipeline (the core) and StagedTask, their proofs,
ObjectDetectionTasks as a refinement of TaskLifecycle, PanRpcArgo, ParallelParts,
StageFiles, StageEvents, DetectionArtifacts, TopologyImport and RouterGraph.

Next modules: the in-process queue as a second instance of the task queue; pilot cluster
mapping, `chunkAreaIndexes` and path normalisation as functions checked against reference
definitions; StageFiles with duplicate runs, composed with the claims of TaskPipeline.

Done as proofs: every safety property that a passing run checks, and the two refinements,
of TaskLifecycle by ObjectDetectionTasks and of StagedTask by TaskPipeline.

Next proofs: what a resumed run finds without isolation (a weaker `InputsPresent`).
