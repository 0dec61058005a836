---------------------------- MODULE TaskPipeline ----------------------------
(***************************************************************************)
(* The remote sensing task pipeline in its Redis mode                      *)
(* (SATELLITE_USE_INPROCESS_PIPELINE=false).  The API process creates a    *)
(* task and its stage rows and puts a job on rs.jobs; rs-worker processes  *)
(* run the stages and, with UseODWorker, put a job for the last stage,     *)
(* object detection, on od.jobs, which the od-worker processes consume.    *)
(* All processes share one database and one Redis; nothing else keeps      *)
(* two of them from working on the same task.                              *)
(*                                                                         *)
(* Each database write, each Redis command and each external program is a  *)
(* step of its own.  A process may crash between any two steps and is then *)
(* restarted.                                                              *)
(*                                                                         *)
(* With SATELLITE_RS_SATELLITE_AWARE_QUEUE an rs-worker hands the jobs of  *)
(* other satellites back to the stream.                                    *)
(*                                                                         *)
(* Left out: file contents and artifact paths, the columns current_stage,  *)
(* host_node_name and executed_sat_id, stage events.                       *)
(***************************************************************************)
EXTENDS RedisStream, FiniteSets

CONSTANTS
    Tasks,           \* the tasks that may be requested
    NoTask,          \* the task of a goroutine that has none
    API,             \* the API server process
    RSWorkers,       \* rs-worker processes
    ODWorkers,       \* od-worker processes
    RSConcurrency,   \* SATELLITE_RS_WORKER_CONCURRENCY
    ODConcurrency,   \* SATELLITE_OD_WORKER_CONCURRENCY
    Serves,          \* the tasks whose jobs each rs-worker's satellite may process
    NumPrep,         \* number of stages before object detection (9 in the code)
    StageMaxRetries, \* retries of one stage after its first attempt
    UseODWorker,     \* SATELLITE_USE_OD_WORKER
    DetectRequests,  \* the values of enableDetection clients ask for
    Budget,          \* how often each hazard may strike, see Hazards
    MaxKinds         \* how many kinds of hazards may strike in one behaviour

\* What the environment may do, each bounded by Budget:
\*   fault     a database or Redis command of the code returns an error
\*   apiCrash, rsCrash, odCrash   a process of that kind is killed
\*   slow      a job still being worked on has been pending over two minutes
\*   output    the output file of a successful stage is gone
\*   rsGroup, odGroup   Redis loses the consumer group but not the stream
\*   handBack  an rs-worker is killed while it hands a job back to the stream
\*   foreign   Redis delivers a job to a worker of another satellite; no failure,
\*             and not counted by MaxKinds
Hazards == {"fault", "apiCrash", "rsCrash", "odCrash", "slow", "output",
            "rsGroup", "odGroup", "handBack", "foreign"}

ASSUME ConstantsAssumption ==
    /\ NoTask \notin Tasks
    /\ RSWorkers \cap ODWorkers = {}
    /\ API \notin RSWorkers \cup ODWorkers
    /\ RSConcurrency \in Nat \ {0} /\ ODConcurrency \in Nat \ {0}
    /\ Serves \in [RSWorkers -> SUBSET Tasks]
    /\ NumPrep \in Nat \ {0}
    /\ StageMaxRetries \in Nat
    /\ UseODWorker \in BOOLEAN
    /\ DetectRequests \subseteq BOOLEAN
    /\ Budget \in [Hazards -> Nat]
    /\ MaxKinds \in Nat

OD      == NumPrep + 1          \* StageObjectDetection
Prep    == 1 .. NumPrep         \* the stages that produce its input
Stages  == 1 .. OD              \* stageDefinitions, in order

Workers == RSWorkers \cup ODWorkers
Procs   == Workers \cup {API}

\* Places for job goroutines: one per unit of a worker's semaphore.
Slots == (RSWorkers \X (1 .. RSConcurrency)) \cup (ODWorkers \X (1 .. ODConcurrency))
IsRS(s) == s[1] \in RSWorkers

Queues == {"rs", "od"}          \* the streams rs.jobs and od.jobs

\* The goroutines of a worker that receive messages and hand them to processJob.
Receivers == (Workers \X {"read"}) \cup (RSWorkers \X {"reclaim"})
QueueOf(w) == IF w \in RSWorkers THEN "rs" ELSE "od"

TaskStatus  == {"absent", "pending", "running", "completed", "failed"}
StageStatus == {"absent", "pending", "running", "success", "failed"}
Terminal    == {"completed", "failed"}

VARIABLES
    task,      \* status column of each task's row, "absent" before the insert
    wants,     \* enableDetection of the request that created the task
    row,       \* enable_detection column of the task's row
    stage,     \* status column of each stage row
    artifact,  \* stages whose artifact rows have been inserted
    done,      \* history: stages whose work has been carried out
    handler,   \* where the CreateTask call of each task stands
    queue,     \* the two streams
    group,     \* whether their consumer groups exist
    proc,      \* "up", "boot" (re-enqueueing at start) or "down"
    todo,      \* tasks a booting process has still to enqueue
    inbox,     \* messages a receiver holds and has not started
    release,   \* the message a receiver has acknowledged to hand it back
    run,       \* job goroutines
    spent      \* hazards that have struck

vars == <<task, wants, row, stage, artifact, done, handler, queue, group,
          proc, todo, inbox, release, run, spent>>
rows == <<wants, row, artifact, done>>
api  == <<handler, proc, todo, release>>

-----------------------------------------------------------------------------
(* A job goroutine.  pc says which step of runPipeline or                  *)
(* RunDetectionFromJob it performs next, k which stage it is at, skip the  *)
(* stages a resumed run found successful, attempt counts executor calls.   *)

PC == {"free", "claim", "check", "snapshot", "stage", "odRow", "odAdd", "begin",
       "exec", "succeed", "record", "failRow", "failTask", "fail", "finish", "ack"}

Run == [pc : PC, msg : Nat, task : Tasks \cup {NoTask}, detect : BOOLEAN,
        k : Stages, skip : SUBSET Stages, attempt : Nat]

Free == [pc |-> "free", msg |-> 0, task |-> NoTask, detect |-> FALSE,
         k |-> 1, skip |-> {}, attempt |-> 0]

\* runPipeline starts with the claim, RunDetectionFromJob with the stage itself.
NewRun(s, m, e) ==
    [Free EXCEPT !.pc = IF IsRS(s) THEN "claim" ELSE "stage",
                 !.msg = m, !.task = e.task, !.detect = e.detect,
                 !.k = IF IsRS(s) THEN 1 ELSE OD]

At(s, pc)   == run[s].pc = pc
Goto(s, pc) == run' = [run EXCEPT ![s].pc = pc]

\* Mutants: the loop does not stop at the last stage, or stops before it.
NextStagePastEnd(r)  == [r EXCEPT !.pc = "stage", !.k = @ + 1, !.attempt = 0]
NextStageShort(r) == IF r.k = NumPrep THEN [r EXCEPT !.pc = "finish"]
                     ELSE [r EXCEPT !.pc = "stage", !.k = @ + 1, !.attempt = 0]

\* The loop head for the stage after the one just left; after the last one the
\* task is finished.
NextStage(r) == IF r.k = OD THEN [r EXCEPT !.pc = "finish"]
                ELSE [r EXCEPT !.pc = "stage", !.k = @ + 1, !.attempt = 0]
Advance(s) == run' = [run EXCEPT ![s] = NextStage(@)]

\* A hazard strikes, or none does.
Spend(h) ==
    /\ spent[h] < Budget[h]
    /\ Cardinality(({g \in Hazards : spent[g] > 0} \cup {h}) \ {"foreign"}) <= MaxKinds
    /\ spent' = [spent EXCEPT ![h] = @ + 1]
Fault     == Spend("fault")
NoFault   == UNCHANGED spent

\* UPDATE of a status column; updating a stage row that does not exist changes
\* nothing and is no error.
SetTask(t, v)     == task' = [task EXCEPT ![t] = v]
SetStage(t, k, v) == stage' = [stage EXCEPT ![t][k] = IF @ = "absent" THEN @ ELSE v]

\* What gorm stores for a boolean column tagged default:true: the zero value in
\* the struct is taken for "not set" and replaced by the default.
Stored(flag) == IF flag = FALSE THEN TRUE ELSE flag

-----------------------------------------------------------------------------
(* The API process: CreateTask, one step per row or command.               *)

Init ==
    /\ task = [t \in Tasks |-> "absent"]
    /\ wants = [t \in Tasks |-> FALSE]
    /\ row = [t \in Tasks |-> FALSE]
    /\ stage = [t \in Tasks |-> [k \in Stages |-> "absent"]]
    /\ artifact = [t \in Tasks |-> {}]
    /\ done = [t \in Tasks |-> {}]
    /\ handler = [t \in Tasks |-> "none"]
    /\ queue = [q \in Queues |-> <<>>]
    /\ group = [q \in Queues |-> TRUE]
    /\ proc = [p \in Procs |-> "up"]
    /\ todo = [p \in Procs |-> {}]
    /\ inbox = [c \in Receivers |-> {}]
    /\ release = [c \in Receivers |-> {}]
    /\ run = [s \in Slots |-> Free]
    /\ spent = [h \in Hazards |-> 0]

\* A valid request arrives and the task row is inserted.  On a database error
\* nothing was created and the client gets the error.
CreateTask(t, d) ==
    /\ proc[API] = "up"
    /\ handler[t] = "none"
    /\ wants' = [wants EXCEPT ![t] = d]
    /\ \/ /\ SetTask(t, "pending")
          /\ row' = [row EXCEPT ![t] = Stored(d)]
          /\ handler' = [handler EXCEPT ![t] = "stages"]
          /\ NoFault
       \/ /\ Fault
          /\ handler' = [handler EXCEPT ![t] = "ended"]
          /\ UNCHANGED <<task, row>>
    /\ UNCHANGED <<stage, artifact, done, queue, group, proc, todo, inbox, release, run>>

\* createStagesForTask inserts the stage rows in order.
CreateStage(t) ==
    /\ handler[t] = "stages"
    /\ \E k \in Stages :
          /\ stage[t][k] = "absent"
          /\ \A j \in 1 .. (k - 1) : stage[t][j] # "absent"
          /\ \/ /\ stage' = [stage EXCEPT ![t][k] = "pending"]
                /\ handler' = [handler EXCEPT ![t] = IF k = OD THEN "enqueue" ELSE @]
                /\ NoFault
             \/ /\ Fault
                /\ handler' = [handler EXCEPT ![t] = "undo"]
                /\ UNCHANGED stage
    /\ UNCHANGED <<task, rows, queue, group, proc, todo, inbox, release, run>>

\* A stage row could not be inserted: the task row is deleted, its stage rows
\* with it (ON DELETE CASCADE); an error of the delete is ignored.
DeleteTask(t) ==
    /\ handler[t] = "undo"
    /\ handler' = [handler EXCEPT ![t] = "ended"]
    /\ \/ /\ SetTask(t, "absent")
          /\ stage' = [stage EXCEPT ![t] = [k \in Stages |-> "absent"]]
          /\ NoFault
       \/ Fault /\ UNCHANGED <<task, stage>>
    /\ UNCHANGED <<rows, queue, group, proc, todo, inbox, release, run>>

\* Mutant: the job is built from the row, as a restart does.
JobOfRow(t) == XAdd(queue["rs"], t, row[t])

\* rs.jobs with the job of a new task, which carries the flag of the request.
JobOfRequest(t) == XAdd(queue["rs"], t, wants[t])

\* enqueueTask: a Redis error is only logged.
EnqueueTask(t) ==
    /\ handler[t] = "enqueue"
    /\ handler' = [handler EXCEPT ![t] = "ended"]
    /\ \/ /\ queue' = [queue EXCEPT !["rs"] = JobOfRequest(t)]
          /\ NoFault
       \/ Fault /\ UNCHANGED queue
    /\ UNCHANGED <<task, rows, stage, group, proc, todo, inbox, release, run>>

-----------------------------------------------------------------------------
(* Start, restart and crash of the processes.                              *)

\* Mutant: the API, too, looks for running tasks.
BootStatusRunning(p) == "running"

\* The status of the tasks a process puts back on rs.jobs when it starts:
\* bootstrapPendingToRedis for the API, BootstrapStaleRunningTasks for a worker.
BootStatus(p) == IF p = API THEN "pending" ELSE "running"

\* A worker makes sure that the consumer group of its stream exists.
EnsureGroup(q) ==
    IF group[q] THEN UNCHANGED <<group, queue>>
    ELSE /\ group' = [group EXCEPT ![q] = TRUE]
         /\ queue' = [queue EXCEPT ![q] = Regroup(@)]

\* A process starts again.  The list of tasks to enqueue is read once; an error
\* of that query is logged and the list taken for empty.
Restart(p) ==
    /\ proc[p] = "down"
    /\ IF p = API THEN UNCHANGED <<group, queue>> ELSE EnsureGroup(QueueOf(p))
    /\ IF p \in ODWorkers
       THEN /\ proc' = [proc EXCEPT ![p] = "up"]
            /\ NoFault
            /\ UNCHANGED todo
       ELSE /\ proc' = [proc EXCEPT ![p] = "boot"]
            /\ \/ /\ todo' = [todo EXCEPT ![p] = {t \in Tasks : task[t] = BootStatus(p)}]
                  /\ NoFault
               \/ Fault /\ UNCHANGED todo
    /\ UNCHANGED <<task, rows, stage, handler, inbox, release, run>>

\* One task of the list is enqueued with the flag of its row (in the code the
\* oldest first, here in any order); a Redis error is logged.
BootEnqueue(p) ==
    /\ proc[p] = "boot"
    /\ \E t \in todo[p] :
          /\ todo' = [todo EXCEPT ![p] = @ \ {t}]
          /\ \/ /\ queue' = [queue EXCEPT !["rs"] = XAdd(@, t, row[t])]
                /\ NoFault
             \/ Fault /\ UNCHANGED queue
    /\ UNCHANGED <<task, rows, stage, handler, group, proc, inbox, release, run>>

BootDone(p) ==
    /\ proc[p] = "boot"
    /\ todo[p] = {}
    /\ proc' = [proc EXCEPT ![p] = "up"]
    /\ UNCHANGED <<task, rows, stage, handler, queue, group, todo, inbox, release, run, spent>>

HandsBack(p) == \E c \in Receivers : c[1] = p /\ release[c] # {}

CrashKind(p) ==
    CASE p = API                          -> "apiCrash"
      [] p \in RSWorkers /\ HandsBack(p)  -> "handBack"
      [] p \in RSWorkers /\ ~HandsBack(p) -> "rsCrash"
      [] p \in ODWorkers                  -> "odCrash"

\* A process is killed: its goroutines, the messages they hold and the requests
\* being served are gone; what was written stays.
Crash(p) ==
    /\ proc[p] # "down"
    /\ Spend(CrashKind(p))
    /\ proc' = [proc EXCEPT ![p] = "down"]
    /\ todo' = [todo EXCEPT ![p] = {}]
    /\ handler' = IF p = API
                  THEN [t \in Tasks |-> IF handler[t] = "none" THEN "none" ELSE "ended"]
                  ELSE handler
    /\ inbox' = [c \in Receivers |-> IF c[1] = p THEN {} ELSE inbox[c]]
    /\ release' = [c \in Receivers |-> IF c[1] = p THEN {} ELSE release[c]]
    /\ run' = [s \in Slots |-> IF s[1] = p THEN Free ELSE run[s]]
    /\ UNCHANGED <<task, rows, stage, queue, group>>

-----------------------------------------------------------------------------
(* Redis.                                                                  *)

\* The message is held by a receiver or worked on by a goroutine.
Held(q, i) ==
    \/ \E c \in Receivers : QueueOf(c[1]) = q /\ i \in inbox[c]
    \/ \E s \in Slots : QueueOf(s[1]) = q /\ ~At(s, "free") /\ run[s].msg = i

\* Two minutes pass.  For a message somebody holds this is the hazard "slow"; a
\* message nobody holds just waits.
IdleOrphan(i) ==
    /\ group["rs"]
    /\ i \in DOMAIN queue["rs"]
    /\ queue["rs"][i].st = "pending" /\ ~queue["rs"][i].idle
    /\ ~Held("rs", i)
    /\ queue' = [queue EXCEPT !["rs"] = GrowIdle(@, i)]
    /\ UNCHANGED <<task, rows, stage, api, group, inbox, run, spent>>

IdleHeld(i) ==
    /\ group["rs"]
    /\ i \in DOMAIN queue["rs"]
    /\ queue["rs"][i].st = "pending" /\ ~queue["rs"][i].idle
    /\ Held("rs", i)
    /\ Spend("slow")
    /\ queue' = [queue EXCEPT !["rs"] = GrowIdle(@, i)]
    /\ UNCHANGED <<task, rows, stage, api, group, inbox, run>>

\* Redis restarts, keeps the stream and loses its consumer group.
LoseGroup(q) ==
    /\ group[q]
    /\ Spend(IF q = "rs" THEN "rsGroup" ELSE "odGroup")
    /\ group' = [group EXCEPT ![q] = FALSE]
    /\ UNCHANGED <<task, rows, stage, api, queue, inbox, run>>

\* The od-worker's read loop finds the group missing and creates it; the
\* rs-worker's read loop has no such branch.
RebuildGroup(w) ==
    /\ w \in ODWorkers
    /\ proc[w] = "up"
    /\ inbox[<<w, "read">>] = {}
    /\ ~group["od"]
    /\ EnsureGroup("od")
    /\ UNCHANGED <<task, rows, stage, api, inbox, run, spent>>

-----------------------------------------------------------------------------
(* Receiving jobs.                                                         *)

\* ShouldProcessRSJob: the job is bound to no satellite, to that of the worker's
\* node, or the filter is off.  An od-worker has no filter.
ShouldProcess(w, i) == w \in RSWorkers => queue["rs"][i].task \in Serves[w]

\* A receiver takes the next messages when it has dealt with those before.
Waiting(c) == proc[c[1]] = "up" /\ inbox[c] = {} /\ release[c] = {}

\* Worker w gets the messages ms; Foreign bounds how often they are not its own.
Foreign(w, ms) ==
    IF \A i \in ms : ShouldProcess(w, i) THEN NoFault ELSE Spend("foreign")

\* The read loop of a worker.
ReadJob(w) ==
    /\ Waiting(<<w, "read">>)
    /\ group[QueueOf(w)]
    /\ \E i \in Undelivered(queue[QueueOf(w)]) :
          /\ Foreign(w, {i})
          /\ queue' = [queue EXCEPT ![QueueOf(w)] = Deliver(@, i)]
          /\ inbox' = [inbox EXCEPT ![<<w, "read">>] = {i}]
    /\ UNCHANGED <<task, rows, stage, api, group, run>>

\* The reclaim loop of an rs-worker claims every entry past the idle limit,
\* whoever holds it.
ReclaimStaleRSJobs(w) ==
    /\ w \in RSWorkers
    /\ Waiting(<<w, "reclaim">>)
    /\ group["rs"]
    /\ Claimable(queue["rs"]) # {}
    /\ Foreign(w, Claimable(queue["rs"]))
    /\ inbox' = [inbox EXCEPT ![<<w, "reclaim">>] = Claimable(queue["rs"])]
    /\ queue' = [queue EXCEPT !["rs"] = AutoClaim(@)]
    /\ UNCHANGED <<task, rows, stage, api, group, run>>

\* The message processJob is called with.
Oldest(c, i) == proc[c[1]] = "up" /\ i \in inbox[c] /\ \A j \in inbox[c] : i <= j

\* processJob, a job of this worker, or one whose satellite cannot be looked up:
\* it gets a free place of the semaphore and a goroutine; until there is one the
\* receiver blocks.
ProcessJob(c) ==
    /\ release[c] = {}
    /\ \E i \in inbox[c], s \in Slots :
          /\ Oldest(c, i)
          /\ IF ShouldProcess(c[1], i) THEN NoFault ELSE Fault
          /\ s[1] = c[1]
          /\ At(s, "free")
          /\ run' = [run EXCEPT ![s] = NewRun(s, i, queue[QueueOf(c[1])][i])]
          /\ inbox' = [inbox EXCEPT ![c] = @ \ {i}]
    /\ UNCHANGED <<task, rows, stage, api, queue, group>>

\* Mutant: the job is only acknowledged.
ReleaseAckOnly(c) ==
    /\ release[c] = {}
    /\ \E i \in inbox[c] :
          /\ Oldest(c, i)
          /\ ~ShouldProcess(c[1], i)
          /\ inbox' = [inbox EXCEPT ![c] = @ \ {i}]
          /\ queue' = [queue EXCEPT !["rs"] = XAck(@, i)]
    /\ UNCHANGED <<task, rows, stage, api, group, run, spent>>

\* processJob, a job of another satellite, ReleaseRSJobForOtherConsumer: it is
\* acknowledged first.  If that fails it stays pending.
ReleaseAck(c) ==
    /\ release[c] = {}
    /\ \E i \in inbox[c] :
          /\ Oldest(c, i)
          /\ ~ShouldProcess(c[1], i)
          /\ inbox' = [inbox EXCEPT ![c] = @ \ {i}]
          /\ \/ /\ release' = [release EXCEPT ![c] = {i}]
                /\ queue' = IF group["rs"] THEN [queue EXCEPT !["rs"] = XAck(@, i)]
                             ELSE queue
                /\ NoFault
             \/ Fault /\ UNCHANGED <<queue, release>>
    /\ UNCHANGED <<task, rows, stage, handler, proc, todo, group, run>>

\* Then it is appended again, for a worker of its satellite.
ReleaseAdd(c) ==
    /\ \E i \in release[c] :
          LET job == queue["rs"][i] IN
          \/ /\ queue' = [queue EXCEPT !["rs"] = XAdd(@, job.task, job.detect)]
             /\ NoFault
          \/ Fault /\ UNCHANGED queue
    /\ release' = [release EXCEPT ![c] = {}]
    /\ UNCHANGED <<task, rows, stage, handler, proc, todo, group, inbox, run>>

-----------------------------------------------------------------------------
(* runPipeline, from the claim of the task to the loop over its stages.    *)

\* Mutant: failed tasks may be claimed for another try.
UnclaimedOrFailed(t) == task[t] \in {"pending", "failed"}

\* The WHERE clause of the claim.
Unclaimed(t) == task[t] = "pending"

\* UPDATE ... SET status = running WHERE status = pending.  One row changed: a
\* fresh run.  None: look why.  An error ends the run, and the job with it.
ClaimTask(s) ==
    /\ At(s, "claim")
    /\ LET t == run[s].task IN
       \/ Unclaimed(t) /\ SetTask(t, "running") /\ Goto(s, "stage") /\ NoFault
       \/ ~Unclaimed(t) /\ Goto(s, "check") /\ NoFault /\ UNCHANGED task
       \/ Fault /\ Goto(s, "ack") /\ UNCHANGED task
    /\ UNCHANGED <<rows, stage, api, queue, group, inbox>>

\* A task that is running is resumed, whoever set it running; any other ends
\* the run.
CheckRunning(s) ==
    /\ At(s, "check")
    /\ \/ Goto(s, IF task[run[s].task] = "running" THEN "snapshot" ELSE "ack") /\ NoFault
       \/ Goto(s, "ack") /\ Fault
    /\ UNCHANGED <<task, rows, stage, api, queue, group, inbox>>

\* successStages: what a resumed run may skip; nothing if the query fails.
SuccessStages(s) ==
    /\ At(s, "snapshot")
    /\ LET found == {k \in Stages : stage[run[s].task][k] = "success"} IN
       \/ run' = [run EXCEPT ![s].pc = "stage", ![s].skip = found] /\ NoFault
       \/ Goto(s, "stage") /\ Fault
    /\ UNCHANGED <<task, rows, stage, api, queue, group, inbox>>

\* stageOutputStillValid holds: the row still says success and the file is
\* there.  It never holds for object detection, whose output path is empty or
\* relative to another root than the one it is looked up in.
SkipStage(s) ==
    /\ At(s, "stage")
    /\ run[s].k \in run[s].skip \cap Prep
    /\ stage[run[s].task][run[s].k] = "success"
    /\ Advance(s)
    /\ UNCHANGED <<task, rows, stage, api, queue, group, inbox, spent>>

\* stageOutputStillValid does not hold: the stage is executed again.
DropSkip(s) ==
    /\ At(s, "stage")
    /\ run[s].k \in run[s].skip
    /\ IF run[s].k \in Prep /\ stage[run[s].task][run[s].k] = "success"
       THEN Spend("output") \/ Fault
       ELSE NoFault
    /\ run' = [run EXCEPT ![s].skip = @ \ {run[s].k}]
    /\ UNCHANGED <<task, rows, stage, api, queue, group, inbox>>

\* The run is at stage k and does not skip it.
AtStage(s) == At(s, "stage") /\ run[s].k \notin run[s].skip

\* Detection not asked for: the stage is marked successful without running.
\* updateStageStatus writes the stage row and then the task row; an error of
\* either fails the task.
SkipDetection(s) ==
    /\ AtStage(s)
    /\ run[s].k = OD /\ ~run[s].detect
    /\ LET t == run[s].task IN
       \/ /\ SetStage(t, OD, "success")
          /\ done' = [done EXCEPT ![t] = @ \cup {OD}]
          /\ Advance(s)
          /\ NoFault
       \/ /\ Fault
          /\ \/ SetStage(t, OD, "success") /\ done' = [done EXCEPT ![t] = @ \cup {OD}]
             \/ UNCHANGED <<stage, done>>
          /\ Goto(s, "fail")
    /\ UNCHANGED <<task, wants, row, artifact, api, queue, group, inbox>>

\* Mutant: RunDetectionFromJob does not ask.
SkipAskedByRSOnly(s) ==
    /\ AtStage(s)
    /\ run[s].k = OD /\ run[s].detect
    /\ UseODWorker
    /\ Goto(s, IF ~IsRS(s) THEN "begin"
               ELSE IF task[run[s].task] = "completed" THEN "ack" ELSE "odRow")
    /\ UNCHANGED <<task, rows, stage, api, queue, group, inbox, spent>>

\* shouldSkipODJob, first query: a completed task needs no detection.  Asked by
\* an rs-worker before it puts a job on od.jobs and by an od-worker before it
\* runs one.  If the query fails the answer is "do not skip".
ShouldSkipODJob(s) ==
    /\ AtStage(s)
    /\ run[s].k = OD /\ run[s].detect
    /\ UseODWorker
    /\ \/ Goto(s, IF task[run[s].task] = "completed" THEN "ack" ELSE "odRow") /\ NoFault
       \/ Goto(s, IF IsRS(s) THEN "odAdd" ELSE "begin") /\ Fault
    /\ UNCHANGED <<task, rows, stage, api, queue, group, inbox>>

\* shouldSkipODJob, second query: if the detection stage is already successful
\* the task is set completed (an error of that update is ignored); an rs-worker
\* then completes it once more.
ODRowSuccess(s) ==
    /\ At(s, "odRow")
    /\ stage[run[s].task][OD] = "success"
    /\ \/ SetTask(run[s].task, "completed") /\ NoFault
       \/ UNCHANGED task /\ Fault
    /\ Goto(s, IF IsRS(s) THEN "finish" ELSE "ack")
    /\ UNCHANGED <<rows, stage, api, queue, group, inbox>>

ODRowOther(s) ==
    /\ At(s, "odRow")
    /\ IF stage[run[s].task][OD] = "success" THEN Fault ELSE NoFault
    /\ Goto(s, IF IsRS(s) THEN "odAdd" ELSE "begin")
    /\ UNCHANGED <<task, rows, stage, api, queue, group, inbox>>

\* enqueueODWithRetry: the run ends and the job goes on in od.jobs.  An error
\* fails the task, also when Redis had already appended the job.
EnqueueOD(s) ==
    /\ At(s, "odAdd")
    /\ LET added == queue' = [queue EXCEPT !["od"] = XAdd(@, run[s].task, TRUE)] IN
       \/ added /\ Goto(s, "ack") /\ NoFault
       \/ (added \/ UNCHANGED queue) /\ Goto(s, "fail") /\ Fault
    /\ UNCHANGED <<task, rows, stage, api, group, inbox>>

-----------------------------------------------------------------------------
(* runStage.                                                               *)

\* The stage is marked running: by runPipeline for the stages before detection
\* and, without od-workers, for detection; by RunDetectionFromJob after
\* shouldSkipODJob.
BeginStage(s) ==
    /\ \/ AtStage(s) /\ (run[s].k \in Prep \/ (run[s].detect /\ ~UseODWorker))
       \/ At(s, "begin")
    /\ \/ /\ SetStage(run[s].task, run[s].k, "running")
          /\ run' = [run EXCEPT ![s].pc = "exec", ![s].attempt = 1]
          /\ NoFault
       \/ /\ Fault
          /\ SetStage(run[s].task, run[s].k, "running") \/ UNCHANGED stage
          /\ Goto(s, "fail")
    /\ UNCHANGED <<task, rows, api, queue, group, inbox>>

\* The stage's program succeeds.
ExecSuccess(s) ==
    /\ At(s, "exec")
    /\ done' = [done EXCEPT ![run[s].task] = @ \cup {run[s].k}]
    /\ Goto(s, "succeed")
    /\ UNCHANGED <<task, wants, row, stage, artifact, api, queue, group, inbox, spent>>

\* Mutant: the error of the last attempt is lost.
ExecFailureSwallowed(s) ==
    /\ At(s, "exec")
    /\ IF run[s].attempt <= StageMaxRetries
       THEN run' = [run EXCEPT ![s].attempt = @ + 1]
       ELSE Goto(s, "succeed")
    /\ UNCHANGED <<task, rows, stage, api, queue, group, inbox, spent>>

\* It fails or runs into the stage timeout, and is tried again up to
\* StageMaxRetries times.
ExecFailure(s) ==
    /\ At(s, "exec")
    /\ IF run[s].attempt <= StageMaxRetries
       THEN run' = [run EXCEPT ![s].attempt = @ + 1]
       ELSE Goto(s, "failRow")
    /\ UNCHANGED <<task, rows, stage, api, queue, group, inbox, spent>>

\* Mutant: the artifact rows are forgotten.
SucceedWithoutArtifacts(s) ==
    /\ At(s, "succeed")
    /\ SetStage(run[s].task, run[s].k, "success")
    /\ Advance(s)
    /\ UNCHANGED <<task, rows, api, queue, group, inbox, spent>>

\* The stage is marked successful; if that fails, so does the task.
Succeed(s) ==
    /\ At(s, "succeed")
    /\ \/ SetStage(run[s].task, run[s].k, "success") /\ Goto(s, "record") /\ NoFault
       \/ /\ Fault
          /\ SetStage(run[s].task, run[s].k, "success") \/ UNCHANGED stage
          /\ Goto(s, "fail")
    /\ UNCHANGED <<task, rows, api, queue, group, inbox>>

\* Its artifact rows are inserted, errors only logged, and the loop goes on.
RecordArtifacts(s) ==
    /\ At(s, "record")
    /\ \/ /\ artifact' = [artifact EXCEPT ![run[s].task] = @ \cup {run[s].k}]
          /\ NoFault
       \/ Fault /\ UNCHANGED artifact
    /\ Advance(s)
    /\ UNCHANGED <<task, wants, row, done, stage, api, queue, group, inbox>>

\* Mutant: the stage row is left running.
FailWithoutRow(s) ==
    /\ At(s, "failRow")
    /\ Goto(s, "fail")
    /\ UNCHANGED <<task, rows, stage, api, queue, group, inbox, spent>>

\* The last attempt failed: updateStageStatus(failed) writes the stage row and
\* then the task row, and stops at an error.
FailStageRow(s) ==
    /\ At(s, "failRow")
    /\ \/ SetStage(run[s].task, run[s].k, "failed") /\ Goto(s, "failTask") /\ NoFault
       \/ UNCHANGED stage /\ Goto(s, "fail") /\ Fault
    /\ UNCHANGED <<task, rows, api, queue, group, inbox>>

FailTaskRow(s) ==
    /\ At(s, "failTask")
    /\ \/ SetTask(run[s].task, "failed") /\ NoFault
       \/ UNCHANGED task /\ Fault
    /\ Goto(s, "fail")
    /\ UNCHANGED <<rows, stage, api, queue, group, inbox>>

\* finishTaskWithError: whatever the status is now.
FinishTaskWithError(s) ==
    /\ At(s, "fail")
    /\ \/ SetTask(run[s].task, "failed") /\ NoFault
       \/ UNCHANGED task /\ Fault
    /\ Goto(s, "ack")
    /\ UNCHANGED <<rows, stage, api, queue, group, inbox>>

\* finishTaskCompleted: whatever the status is now.
FinishTaskCompleted(s) ==
    /\ At(s, "finish")
    /\ \/ SetTask(run[s].task, "completed") /\ NoFault
       \/ UNCHANGED task /\ Fault
    /\ Goto(s, "ack")
    /\ UNCHANGED <<rows, stage, api, queue, group, inbox>>

\* The message is acknowledged and the place of the semaphore freed.  The XACK
\* fails after the shutdown signal, whose context it uses, or when Redis fails.
AckJob(s) ==
    /\ At(s, "ack")
    /\ LET q == QueueOf(s[1]) IN
       \/ /\ queue' = IF group[q] THEN [queue EXCEPT ![q] = XAck(@, run[s].msg)]
                      ELSE queue
          /\ NoFault
       \/ Fault /\ UNCHANGED queue
    /\ run' = [run EXCEPT ![s] = Free]
    /\ UNCHANGED <<task, rows, stage, api, group, inbox>>

-----------------------------------------------------------------------------

HandlerStep(t) == CreateStage(t) \/ DeleteTask(t) \/ EnqueueTask(t)

ProcStep(p) == Restart(p) \/ BootEnqueue(p) \/ BootDone(p)

ReceiveStep(w) == ReadJob(w) \/ ReclaimStaleRSJobs(w) \/ RebuildGroup(w)

HandleStep(c) == ProcessJob(c) \/ ReleaseAck(c) \/ ReleaseAdd(c)

PipelineStep(s) ==
    \/ ClaimTask(s) \/ CheckRunning(s) \/ SuccessStages(s)
    \/ SkipStage(s) \/ DropSkip(s) \/ SkipDetection(s)
    \/ ShouldSkipODJob(s) \/ ODRowSuccess(s) \/ ODRowOther(s) \/ EnqueueOD(s)

StageStep(s) ==
    \/ BeginStage(s) \/ ExecSuccess(s) \/ ExecFailure(s)
    \/ Succeed(s) \/ RecordArtifacts(s)
    \/ FailStageRow(s) \/ FailTaskRow(s)

EndStep(s) == FinishTaskWithError(s) \/ FinishTaskCompleted(s) \/ AckJob(s)

RunStep(s) == PipelineStep(s) \/ StageStep(s) \/ EndStep(s)

Next ==
    \/ \E t \in Tasks, d \in DetectRequests : CreateTask(t, d)
    \/ \E t \in Tasks : HandlerStep(t)
    \/ \E p \in Procs : ProcStep(p) \/ Crash(p)
    \/ \E i \in DOMAIN queue["rs"] : IdleOrphan(i) \/ IdleHeld(i)
    \/ \E q \in Queues : LoseGroup(q)
    \/ \E w \in Workers : ReceiveStep(w)
    \/ \E c \in Receivers : HandleStep(c)
    \/ \E s \in Slots : RunStep(s)

Spec == Init /\ [][Next]_vars

\* Every goroutine keeps running, Kubernetes restarts a killed process, and time
\* passes for a message nobody holds.  A stage's program ends because of the
\* stage timeout.  Redis does not deliver a job to other satellites for ever
\* (Budget of foreign).  Nothing makes clients create tasks, and no hazard must strike.
Fairness ==
    /\ \A t \in Tasks : WF_vars(HandlerStep(t))
    /\ \A p \in Procs : WF_vars(Restart(p)) /\ WF_vars(BootEnqueue(p) \/ BootDone(p))
    /\ \A w \in Workers : WF_vars(ReadJob(w)) /\ WF_vars(RebuildGroup(w))
    /\ \A w \in RSWorkers : WF_vars(ReclaimStaleRSJobs(w))
    /\ \A c \in Receivers : WF_vars(HandleStep(c))
    /\ \A s \in Slots : WF_vars(RunStep(s))
    /\ WF_vars(\E i \in DOMAIN queue["rs"] : IdleOrphan(i))

FairSpec == Spec /\ Fairness

-----------------------------------------------------------------------------
(* Properties.                                                             *)

\* The database rows, and the history of the work done.
RowTypes ==
    /\ task \in [Tasks -> TaskStatus]
    /\ wants \in [Tasks -> BOOLEAN]
    /\ row \in [Tasks -> BOOLEAN]
    /\ stage \in [Tasks -> [Stages -> StageStatus]]
    /\ artifact \in [Tasks -> SUBSET Stages]
    /\ done \in [Tasks -> SUBSET Stages]

\* The processes, the requests they serve and the hazards so far.
ProcTypes ==
    /\ handler \in [Tasks -> {"none", "stages", "undo", "enqueue", "ended"}]
    /\ proc \in [Procs -> {"up", "boot", "down"}]
    /\ todo \in [Procs -> SUBSET Tasks]
    /\ spent \in [Hazards -> Nat]

\* The streams; a receiver holds only messages of the stream it reads.
StreamTypes ==
    /\ queue \in [Queues -> Seq(Entry(Tasks))]
    /\ group \in [Queues -> BOOLEAN]
    /\ inbox \in [Receivers -> SUBSET Nat]
    /\ release \in [Receivers -> SUBSET Nat]
    /\ \A c \in Receivers :
          /\ inbox[c] \subseteq DOMAIN queue[QueueOf(c[1])]
          /\ release[c] \subseteq DOMAIN queue["rs"]

\* The goroutines; one that is not free works on a message of its stream, and on
\* the task that message names.
RunTypes ==
    /\ run \in [Slots -> Run]
    /\ \A s \in Slots : ~At(s, "free") =>
          /\ run[s].msg \in DOMAIN queue[QueueOf(s[1])]
          /\ run[s].task = queue[QueueOf(s[1])][run[s].msg].task

\* Every variable has its type, and whatever holds a message holds one that is in
\* the stream it is acknowledged on.
TypeOK == RowTypes /\ ProcTypes /\ StreamTypes /\ RunTypes

\* A task is reported completed only if the work of every one of its stages has
\* been carried out, whatever was skipped, redelivered, resumed or crashed in
\* between (runPipeline's skips, shouldSkipODJob, RunDetectionFromJob).
CompletedRanEveryStage ==
    \A t \in Tasks : task[t] = "completed" => done[t] = Stages

\* Some entry of rs.jobs that is not acknowledged names the task, or a receiver
\* is about to append one.
Scheduled(t) ==
    \/ \E i \in Outstanding(queue["rs"]) : queue["rs"][i].task = t
    \/ \E c \in Receivers : \E i \in release[c] : queue["rs"][i].task = t

\* The task waits, its creation has ended and the API runs.
Waits(t) == task[t] = "pending" /\ handler[t] = "ended" /\ proc[API] = "up"

\* As long as no database or Redis command has failed and no worker was killed
\* while it handed a job back, a pending task is not forgotten (CreateTask,
\* bootstrapPendingToRedis and the rule that a job is acknowledged only after the
\* claim).
PendingNotForgotten ==
    (spent["fault"] = 0 /\ spent["handBack"] = 0) =>
        \A t \in Tasks : Waits(t) => Scheduled(t)

\* A job of another satellite is handed back to the stream for another node, so
\* no restart makes it forgotten, what the comment on ShouldProcessRSJob says.
HandedBackNotLost ==
    spent["fault"] = 0 => \A t \in Tasks : Waits(t) => Scheduled(t)

\* Two goroutines work on the same message of rs.jobs only after a message was
\* held for longer than the idle limit or the consumer group was lost: a crash
\* alone redelivers a message, but not to two of them at a time.
SingleDelivery ==
    (spent["slow"] = 0 /\ spent["rsGroup"] = 0) =>
        \A s1, s2 \in Slots :
            (IsRS(s1) /\ IsRS(s2) /\ ~At(s1, "free") /\ ~At(s2, "free")
               /\ run[s1].msg = run[s2].msg) => s1 = s2

\* No command failed, no process was killed, no message was redelivered.
Undisturbed == \A h \in Hazards \ {"output", "foreign"} : spent[h] = 0

\* In an undisturbed system a completed task is consistent with its rows: every
\* stage row says success and the artifact rows of the stages before detection
\* are there; and a failed task has a failed stage.
FinishedRowsAgree ==
    Undisturbed =>
        \A t \in Tasks :
            /\ task[t] = "completed" => /\ \A k \in Stages : stage[t][k] = "success"
                                        /\ Prep \subseteq artifact[t]
            /\ task[t] = "failed" => \E k \in Stages : stage[t][k] = "failed"

\* As long as no process has been restarted, no detection job is issued for a
\* task whose request did not ask for detection.
DetectionAsRequested ==
    (spent["apiCrash"] = 0 /\ spent["rsCrash"] = 0 /\ spent["handBack"] = 0) =>
        \A i \in DOMAIN queue["od"] : wants[queue["od"][i].task]

\* The status a client is shown; a task without a row was not accepted.
StatusOf(t) == IF task[t] # "absent" THEN task[t]
               ELSE IF handler[t] = "none" THEN "none" ELSE "withdrawn"

Shown == [t \in Tasks |-> StatusOf(t)]

Abstract == INSTANCE StagedTask WITH
    status <- Shown, work <- done, calm <- Undisturbed, Last <- OD

\* The pipeline keeps the promises of StagedTask: the stages of a task are carried out in
\* order and after the claim, before it is reported completed, and what has ended does
\* not run again (the claim of runPipeline is the only transition to running); and while
\* nothing goes wrong, every stage once, by the one run there is.
Staged == Abstract!StagedSpec

\* The detection stage of a completed task is not set back to running, what
\* shouldSkipODJob is there for.
DetectionNotReopened ==
    [][\A t \in Tasks : (task[t] = "completed" /\ stage[t][OD] # "running")
                            => stage'[t][OD] # "running"]_vars

\* Detection is executed only for tasks that asked for it.
DetectionOnlyIfRequested ==
    \A i \in DOMAIN queue["od"] : wants[queue["od"][i].task]

\* Every task that was created ends completed or failed.
EveryTaskFinishes ==
    \A t \in Tasks : task[t] = "pending" ~> task[t] \in Terminal
=============================================================================
