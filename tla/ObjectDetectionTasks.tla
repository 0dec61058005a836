------------------------ MODULE ObjectDetectionTasks ------------------------
(***************************************************************************)
(* The object detection service (internal/objectdetection): tasks with one *)
(* stage, executed by worker goroutines of the API server that created     *)
(* them.  Each server has its own bounded queue in memory; the database is *)
(* shared.  Servers are the Pods of one deployment: during an update the   *)
(* new one starts while the old one still works, and a Pod may be killed   *)
(* at any step and is then replaced.                                       *)
(*                                                                         *)
(* A server starts its workers, puts every pending task it finds in the    *)
(* database into its queue and only then serves requests; nothing takes up *)
(* tasks that were running when a server died.                             *)
(***************************************************************************)
EXTENDS Naturals, Sequences, FiniteSets

CONSTANTS
    Tasks,           \* the tasks that may be requested
    NoTask,          \* the task of an idle worker
    Servers,         \* API server processes
    Concurrency,     \* SATELLITE_OBJECT_DETECTION_WORKER_CONCURRENCY
    QueueSize,       \* SATELLITE_OBJECT_DETECTION_WORKER_QUEUE_SIZE
    StageMaxRetries, \* retries of the stage after its first attempt
    MaxFaults,       \* bound on failing database commands
    MaxCrashes       \* bound on killed servers

ASSUME ServiceAssumption ==
    /\ NoTask \notin Tasks
    /\ Concurrency \in Nat \ {0}
    /\ QueueSize \in Nat \ {0}
    /\ StageMaxRetries \in Nat
    /\ MaxFaults \in Nat /\ MaxCrashes \in Nat

Workers == Servers \X (1 .. Concurrency)

TaskStatus  == {"absent", "pending", "running", "completed", "failed"}
StageStatus == {"absent", "pending", "running", "success", "failed"}
Terminal    == {"completed", "failed"}
Attempts    == 0 .. (StageMaxRetries + 1)
HandlerPC   == {"none", "stages", "undo", "enqueue", "ended"}
WorkerPC    == {"idle", "claim", "begin", "exec", "succeed", "record",
                "failRow", "failTask", "fail", "complete"}

VARIABLES
    task,      \* status column of each task's row, "absent" without a row
    stage,     \* status column of its stage row
    artifact,  \* tasks whose artifact rows have been inserted
    handler,   \* where the CreateTask call of each task stands
    host,      \* the server that serves that call
    queue,     \* the queue of each server
    proc,      \* "up", "boot" or "down"
    todo,      \* pending tasks a booting server has still to enqueue
    pc,        \* the next step of each worker
    job,       \* the task it works on
    attempt,   \* calls of executeDetect for it
    faults,    \* failed database commands so far
    crashes    \* killed servers so far

vars == <<task, stage, artifact, handler, host, queue, proc, todo,
          pc, job, attempt, faults, crashes>>
db      == <<task, stage, artifact>>
request == <<handler, host>>
server  == <<queue, proc, todo, crashes>>
worker  == <<pc, job, attempt>>

Init ==
    /\ task = [t \in Tasks |-> "absent"]
    /\ stage = [t \in Tasks |-> "absent"]
    /\ artifact = {}
    /\ handler = [t \in Tasks |-> "none"]
    /\ host \in [Tasks -> Servers]
    /\ queue = [p \in Servers |-> <<>>]
    /\ proc = [p \in Servers |-> "down"]
    /\ todo = [p \in Servers |-> {}]
    /\ pc = [w \in Workers |-> "idle"]
    /\ job = [w \in Workers |-> NoTask]
    /\ attempt = [w \in Workers |-> 0]
    /\ faults = 0
    /\ crashes = 0

\* A database command fails, or not.
Fault   == faults < MaxFaults /\ faults' = faults + 1
NoFault == UNCHANGED faults

\* UPDATE of a column by id: no row, no effect.
SetTask(t, v)  == task' = [task EXCEPT ![t] = IF @ = "absent" THEN @ ELSE v]
SetStage(t, v) == stage' = [stage EXCEPT ![t] = IF @ = "absent" THEN @ ELSE v]

Goto(w, s) == pc' = [pc EXCEPT ![w] = s]

\* workerLoop waits for the next job.
Idle(w) ==
    /\ Goto(w, "idle")
    /\ job' = [job EXCEPT ![w] = NoTask]
    /\ attempt' = [attempt EXCEPT ![w] = 0]

-----------------------------------------------------------------------------
(* CreateTask.                                                             *)

\* A valid request arrives at its server; the task row is inserted or the
\* client gets the error.
CreateTask(t) ==
    /\ handler[t] = "none"
    /\ proc[host[t]] = "up"
    /\ \/ /\ task' = [task EXCEPT ![t] = "pending"]
          /\ handler' = [handler EXCEPT ![t] = "stages"]
          /\ NoFault
       \/ /\ Fault
          /\ handler' = [handler EXCEPT ![t] = "ended"]
          /\ UNCHANGED task
    /\ UNCHANGED <<stage, artifact, host, server, worker>>

CreateStage(t) ==
    /\ handler[t] = "stages"
    /\ \/ /\ stage' = [stage EXCEPT ![t] = "pending"]
          /\ handler' = [handler EXCEPT ![t] = "enqueue"]
          /\ NoFault
       \/ /\ Fault
          /\ handler' = [handler EXCEPT ![t] = "undo"]
          /\ UNCHANGED stage
    /\ UNCHANGED <<task, artifact, host, server, worker>>

\* The stage row could not be inserted: the task row is deleted, whatever its
\* status is now, with the rows that refer to it.
DeleteTask(t) ==
    /\ handler[t] = "undo"
    /\ handler' = [handler EXCEPT ![t] = "ended"]
    /\ \/ /\ task' = [task EXCEPT ![t] = "absent"]
          /\ stage' = [stage EXCEPT ![t] = "absent"]
          /\ artifact' = artifact \ {t}
          /\ NoFault
       \/ Fault /\ UNCHANGED db
    /\ UNCHANGED <<host, server, worker>>

\* Mutant: a full queue drops the job.
EnqueueOrDrop(t) ==
    /\ handler[t] = "enqueue"
    /\ queue' = IF Len(queue[host[t]]) < QueueSize
                THEN [queue EXCEPT ![host[t]] = Append(@, t)]
                ELSE queue
    /\ handler' = [handler EXCEPT ![t] = "ended"]
    /\ UNCHANGED <<db, host, proc, todo, crashes, worker, faults>>

\* enqueueTask: the request waits while the queue is full.
EnqueueTask(t) ==
    /\ handler[t] = "enqueue"
    /\ Len(queue[host[t]]) < QueueSize
    /\ queue' = [queue EXCEPT ![host[t]] = Append(@, t)]
    /\ handler' = [handler EXCEPT ![t] = "ended"]
    /\ UNCHANGED <<db, host, proc, todo, crashes, worker, faults>>

-----------------------------------------------------------------------------
(* NewObjectDetectionService and the end of a server.                      *)

\* Mutant: nothing is taken up.
LeftAlone == {}

\* The tasks bootstrapPendingTasks finds.
LeftPending == {t \in Tasks : task[t] = "pending"}

\* The queue is empty and the workers run; the pending tasks are read once.
StartServer(p) ==
    /\ proc[p] = "down"
    /\ proc' = [proc EXCEPT ![p] = "boot"]
    /\ \/ todo' = [todo EXCEPT ![p] = LeftPending] /\ NoFault
       \/ Fault /\ UNCHANGED todo
    /\ UNCHANGED <<db, request, queue, crashes, worker>>

\* The constructor waits while the queue is full.
BootEnqueue(p) ==
    /\ proc[p] = "boot"
    /\ Len(queue[p]) < QueueSize
    /\ \E t \in todo[p] :
          /\ queue' = [queue EXCEPT ![p] = Append(@, t)]
          /\ todo' = [todo EXCEPT ![p] = @ \ {t}]
    /\ UNCHANGED <<db, request, proc, crashes, worker, faults>>

BootDone(p) ==
    /\ proc[p] = "boot"
    /\ todo[p] = {}
    /\ proc' = [proc EXCEPT ![p] = "up"]
    /\ UNCHANGED <<db, request, queue, todo, crashes, worker, faults>>

\* A server is killed, or shut down, which does not wait for its workers: its
\* queue, workers and requests are gone.
Crash(p) ==
    /\ proc[p] # "down"
    /\ crashes < MaxCrashes
    /\ crashes' = crashes + 1
    /\ proc' = [proc EXCEPT ![p] = "down"]
    /\ queue' = [queue EXCEPT ![p] = <<>>]
    /\ todo' = [todo EXCEPT ![p] = {}]
    /\ handler' = [t \in Tasks |-> IF host[t] = p /\ handler[t] # "none"
                                   THEN "ended" ELSE handler[t]]
    /\ pc' = [w \in Workers |-> IF w[1] = p THEN "idle" ELSE pc[w]]
    /\ job' = [w \in Workers |-> IF w[1] = p THEN NoTask ELSE job[w]]
    /\ attempt' = [w \in Workers |-> IF w[1] = p THEN 0 ELSE attempt[w]]
    /\ UNCHANGED <<db, host, faults>>

-----------------------------------------------------------------------------
(* workerLoop, runPipeline and runStage.                                   *)

TakeJob(w) ==
    /\ pc[w] = "idle"
    /\ queue[w[1]] # <<>>
    /\ job' = [job EXCEPT ![w] = Head(queue[w[1]])]
    /\ queue' = [queue EXCEPT ![w[1]] = Tail(@)]
    /\ Goto(w, "claim")
    /\ UNCHANGED <<db, request, proc, todo, crashes, attempt, faults>>

\* Mutant: a task somebody else has started is started again.
ClaimAnyOpen(w) ==
    /\ pc[w] = "claim"
    /\ \/ /\ task[job[w]] \in {"pending", "running"}
          /\ task' = [task EXCEPT ![job[w]] = "running"]
          /\ Goto(w, "begin")
          /\ NoFault
          /\ UNCHANGED <<job, attempt>>
       \/ task[job[w]] \notin {"pending", "running"} /\ Idle(w) /\ NoFault /\ UNCHANGED task
       \/ Fault /\ Idle(w) /\ UNCHANGED task
    /\ UNCHANGED <<stage, artifact, request, server>>

\* UPDATE ... SET status = running WHERE status = pending; if no row changed, or
\* the command failed, the job is dropped.
ClaimTask(w) ==
    /\ pc[w] = "claim"
    /\ \/ /\ task[job[w]] = "pending"
          /\ task' = [task EXCEPT ![job[w]] = "running"]
          /\ Goto(w, "begin")
          /\ NoFault
          /\ UNCHANGED <<job, attempt>>
       \/ task[job[w]] # "pending" /\ Idle(w) /\ NoFault /\ UNCHANGED task
       \/ Fault /\ Idle(w) /\ UNCHANGED task
    /\ UNCHANGED <<stage, artifact, request, server>>

\* The stage is marked running.  An error, of the stage row's write or of the task
\* row's, fails the task.
BeginStage(w) ==
    /\ pc[w] = "begin"
    /\ \/ SetStage(job[w], "running") /\ Goto(w, "exec") /\ NoFault
       \/ /\ Fault
          /\ SetStage(job[w], "running") \/ UNCHANGED stage
          /\ Goto(w, "fail")
    /\ attempt' = [attempt EXCEPT ![w] = 1]
    /\ UNCHANGED <<task, artifact, request, server, job>>

ExecSuccess(w) ==
    /\ pc[w] = "exec"
    /\ Goto(w, "succeed")
    /\ UNCHANGED <<db, request, server, job, attempt, faults>>

\* Mutant: one retry too many.
ExecFailureOneMore(w) ==
    /\ pc[w] = "exec"
    /\ IF attempt[w] <= StageMaxRetries + 1
       THEN attempt' = [attempt EXCEPT ![w] = @ + 1] /\ UNCHANGED pc
       ELSE Goto(w, "failRow") /\ UNCHANGED attempt
    /\ UNCHANGED <<db, request, server, job, faults>>

\* The detector fails or runs into the stage timeout, and is tried again up to
\* StageMaxRetries times.
ExecFailure(w) ==
    /\ pc[w] = "exec"
    /\ IF attempt[w] <= StageMaxRetries
       THEN attempt' = [attempt EXCEPT ![w] = @ + 1] /\ UNCHANGED pc
       ELSE Goto(w, "failRow") /\ UNCHANGED attempt
    /\ UNCHANGED <<db, request, server, job, faults>>

Succeed(w) ==
    /\ pc[w] = "succeed"
    /\ \/ SetStage(job[w], "success") /\ Goto(w, "record") /\ NoFault
       \/ /\ Fault
          /\ SetStage(job[w], "success") \/ UNCHANGED stage
          /\ Goto(w, "fail")
    /\ UNCHANGED <<task, artifact, request, server, job, attempt>>

\* The artifact rows are inserted if the task still exists; errors are logged.
RecordArtifacts(w) ==
    /\ pc[w] = "record"
    /\ \/ /\ artifact' = IF task[job[w]] = "absent" THEN artifact
                         ELSE artifact \cup {job[w]}
          /\ NoFault
       \/ Fault /\ UNCHANGED artifact
    /\ Goto(w, "complete")
    /\ UNCHANGED <<task, stage, request, server, job, attempt>>

\* updateStageStatus(failed): the stage row, then the task row.
FailStageRow(w) ==
    /\ pc[w] = "failRow"
    /\ \/ SetStage(job[w], "failed") /\ Goto(w, "failTask") /\ NoFault
       \/ UNCHANGED stage /\ Goto(w, "fail") /\ Fault
    /\ UNCHANGED <<task, artifact, request, server, job, attempt>>

FailTaskRow(w) ==
    /\ pc[w] = "failTask"
    /\ \/ SetTask(job[w], "failed") /\ NoFault
       \/ UNCHANGED task /\ Fault
    /\ Goto(w, "fail")
    /\ UNCHANGED <<stage, artifact, request, server, job, attempt>>

\* finishTaskWithError and finishTaskCompleted: whatever the status is now.
FinishTaskWithError(w) ==
    /\ pc[w] = "fail"
    /\ \/ SetTask(job[w], "failed") /\ NoFault
       \/ UNCHANGED task /\ Fault
    /\ Idle(w)
    /\ UNCHANGED <<stage, artifact, request, server>>

\* Mutant: the stage's error is forgotten.
FinishAnyway(w) ==
    /\ pc[w] \in {"complete", "fail"}
    /\ \/ SetTask(job[w], "completed") /\ NoFault
       \/ UNCHANGED task /\ Fault
    /\ Idle(w)
    /\ UNCHANGED <<stage, artifact, request, server>>

FinishTaskCompleted(w) ==
    /\ pc[w] = "complete"
    /\ \/ SetTask(job[w], "completed") /\ NoFault
       \/ UNCHANGED task /\ Fault
    /\ Idle(w)
    /\ UNCHANGED <<stage, artifact, request, server>>

-----------------------------------------------------------------------------

RequestStep(t) == CreateStage(t) \/ DeleteTask(t) \/ EnqueueTask(t)

BootStep(p) == BootEnqueue(p) \/ BootDone(p)

WorkerStep(w) ==
    \/ TakeJob(w) \/ ClaimTask(w) \/ BeginStage(w)
    \/ ExecSuccess(w) \/ ExecFailure(w) \/ Succeed(w) \/ RecordArtifacts(w)
    \/ FailStageRow(w) \/ FailTaskRow(w)
    \/ FinishTaskWithError(w) \/ FinishTaskCompleted(w)

Next ==
    \/ \E t \in Tasks : CreateTask(t) \/ RequestStep(t)
    \/ \E p \in Servers : StartServer(p) \/ BootStep(p) \/ Crash(p)
    \/ \E w \in Workers : WorkerStep(w)

Spec == Init /\ [][Next]_vars

\* Goroutines keep running, a detector ends because of the stage timeout, and the
\* deployment replaces a Pod that is gone.
Fairness ==
    /\ \A t \in Tasks : WF_vars(RequestStep(t))
    /\ \A p \in Servers : WF_vars(StartServer(p)) /\ WF_vars(BootStep(p))
    /\ \A w \in Workers : WF_vars(WorkerStep(w))

FairSpec == Spec /\ Fairness

-----------------------------------------------------------------------------
(* Properties.                                                             *)

TypeOK ==
    /\ task \in [Tasks -> TaskStatus]
    /\ stage \in [Tasks -> StageStatus]
    /\ artifact \subseteq Tasks
    /\ handler \in [Tasks -> HandlerPC]
    /\ host \in [Tasks -> Servers]
    /\ queue \in [Servers -> Seq(Tasks)]
    /\ proc \in [Servers -> {"up", "boot", "down"}]
    /\ todo \in [Servers -> SUBSET Tasks]
    /\ pc \in [Workers -> WorkerPC]
    /\ job \in [Workers -> Tasks \cup {NoTask}]
    /\ \A w \in Workers : pc[w] # "idle" => job[w] \in Tasks
    /\ attempt \in [Workers -> Attempts]
    /\ faults \in Nat
    /\ crashes \in Nat

\* The worker has claimed the task of its job.
Executing(w) == pc[w] \notin {"idle", "claim"}

\* A task is in the hands of at most one worker of all servers, also when several
\* servers have it in their queues after a restart (the claim of runPipeline).
SingleExecutor ==
    \A w1, w2 \in Workers :
        (Executing(w1) /\ Executing(w2) /\ job[w1] = job[w2]) => w1 = w2

\* Some server has the task in its queue or will put it there, or a worker is about
\* to claim it.
Scheduled(t) ==
    \/ \E p \in Servers : t \in todo[p] \/ (\E i \in DOMAIN queue[p] : queue[p][i] = t)
    \/ \E w \in Workers : pc[w] = "claim" /\ job[w] = t

\* While every server runs and no command has failed, a pending task whose creation
\* has ended will be claimed: a server that dies with the task in its queue takes it
\* up again when it starts (bootstrapPendingTasks).
PendingIsScheduled ==
    (faults = 0 /\ \A p \in Servers : proc[p] # "down") =>
        \A t \in Tasks : (task[t] = "pending" /\ handler[t] = "ended") => Scheduled(t)

\* In a system where no command failed the rows of a finished task agree with its
\* status (updateStageStatus, createArtifact and the finish functions).  Excepted
\* is a task that a starting server took up before its request had inserted the
\* stage row: the updates of that row have no effect, and it stays pending, or is
\* never inserted if the request's server died.
FinishedRowsAgree ==
    faults = 0 => \A t \in Tasks : stage[t] \notin {"absent", "pending"} =>
        /\ task[t] = "completed" => stage[t] = "success" /\ t \in artifact
        /\ task[t] = "failed" => stage[t] = "failed"

\* No worker will finish the task: its server died.
Interrupted(t) == task[t] = "running" /\ \A w \in Workers : job[w] # t

\* Without failing commands every pending task ends, or is left running by a server
\* that died, however small the queue is: a full queue delays the requests and the
\* start of a server but locks up neither.
EveryTaskEnds ==
    \A t \in Tasks : task[t] = "pending" ~> (task[t] \in Terminal \/ Interrupted(t))

\* The abstract life of a task.  A task whose request was answered without a row,
\* and a task whose row was deleted, is withdrawn.
StatusOf(t) == IF task[t] # "absent" THEN task[t]
               ELSE IF handler[t] = "none" THEN "none" ELSE "withdrawn"

Abstract == INSTANCE TaskLifecycle WITH status <- [t \in Tasks |-> StatusOf(t)]

\* The service implements the life of a task: started once, ended once, and never
\* taken from one final status to the other, through restarts, several servers and
\* failing commands.
Lifecycle == Abstract!LifecycleSpec
=============================================================================
