------------------------ MODULE ObjectDetectionProofs ------------------------
(***************************************************************************)
(* The object detection service, for any number of tasks, servers, workers,*)
(* failures and crashes:                                                   *)
(*                                                                         *)
(*   OneExecutor           a task is in the hands of one worker;           *)
(*   PendingAwaited        a pending task will be claimed;                 *)
(*   FinishedRowsTell      the rows of a finished task agree;              *)
(*   DetectionIsLifecycle  every behavior is a life of its tasks: it       *)
(*                         implements TaskLifecycle.                       *)
(*                                                                         *)
(* A worker past its claim is alone with its task, which is then running,  *)
(* or gone, or, when only finishTaskWithError is left to do, already failed*)
(* (LifeInv).  The third adds what each step of the worker finds in the    *)
(* stage row and in the artifact rows (InStep).                            *)
(*                                                                         *)
(* The scenario of RestartsMC joins the service with an executor of Argo   *)
(* workflows; what PanRpcArgoProofs says of that one is carried over.      *)
(***************************************************************************)
EXTENDS RestartsMC, TLAPS

-----------------------------------------------------------------------------
(* Type correctness, in the parts that the steps below need.               *)

RowTypes ==
    /\ task \in [Tasks -> TaskStatus]
    /\ stage \in [Tasks -> StageStatus]
    /\ artifact \subseteq Tasks
    /\ handler \in [Tasks -> HandlerPC]
    /\ host \in [Tasks -> Servers]

ServerTypes ==
    /\ queue \in [Servers -> Seq(Tasks)]
    /\ proc \in [Servers -> {"up", "boot", "down"}]
    /\ todo \in [Servers -> SUBSET Tasks]
    /\ faults \in Nat
    /\ crashes \in Nat

WorkerTypes ==
    /\ pc \in [Workers -> WorkerPC]
    /\ job \in [Workers -> Tasks \cup {NoTask}]
    /\ \A w \in Workers : pc[w] # "idle" => job[w] \in Tasks
    /\ attempt \in [Workers -> Attempts]

LEMMA TypeParts == TypeOK <=> RowTypes /\ ServerTypes /\ WorkerTypes
  BY DEF TypeOK, RowTypes, ServerTypes, WorkerTypes

LEMMA AttemptNumbers == 0 \in Attempts /\ 1 \in Attempts
  BY ServiceAssumption DEF Attempts

LEMMA WorkerServer == \A w \in Workers : w[1] \in Servers
  BY DEF Workers

LEMMA InitTypes == Init => TypeOK
<1> SUFFICES ASSUME Init PROVE TypeOK
  OBVIOUS
<1>1. RowTypes
  BY DEF Init, RowTypes, TaskStatus, StageStatus, HandlerPC
<1>2. ServerTypes
  BY DEF Init, ServerTypes
<1>3. WorkerTypes
  BY AttemptNumbers DEF Init, WorkerTypes, WorkerPC
<1> QED
  BY <1>1, <1>2, <1>3, TypeParts

\* The rows stay typed whatever single column a step writes.
LEMMA SetTaskType ==
    ASSUME RowTypes, NEW t \in Tasks, NEW v \in TaskStatus, SetTask(t, v)
    PROVE  task' \in [Tasks -> TaskStatus]
  BY DEF RowTypes, SetTask, TaskStatus

LEMMA SetStageType ==
    ASSUME RowTypes, NEW t \in Tasks, NEW v \in StageStatus, SetStage(t, v)
    PROVE  stage' \in [Tasks -> StageStatus]
  BY DEF RowTypes, SetStage, StageStatus

LEMMA FaultType ==
    ASSUME ServerTypes, Fault \/ NoFault
    PROVE  faults' \in Nat
  BY DEF ServerTypes, Fault, NoFault

\* A worker that gives its job up stays typed.
LEMMA IdleTypes ==
    ASSUME WorkerTypes, NEW w \in Workers, Idle(w)
    PROVE  WorkerTypes'
<1>1. pc' \in [Workers -> WorkerPC]
  BY DEF WorkerTypes, Idle, Goto, WorkerPC
<1>2. job' \in [Workers -> Tasks \cup {NoTask}]
  BY DEF WorkerTypes, Idle
<1>3. attempt' \in [Workers -> Attempts]
  BY AttemptNumbers DEF WorkerTypes, Idle
<1>4. ASSUME NEW x \in Workers, pc'[x] # "idle"
      PROVE  job'[x] \in Tasks
  <2>1. x # w
    BY <1>4 DEF WorkerTypes, Idle, Goto
  <2>2. pc'[x] = pc[x] /\ job'[x] = job[x]
    BY <2>1 DEF WorkerTypes, Idle, Goto
  <2> QED
    BY <1>4, <2>2 DEF WorkerTypes
<1> QED
  BY <1>1, <1>2, <1>3, <1>4 DEF WorkerTypes

-----------------------------------------------------------------------------

LEMMA RequestTypes ==
    ASSUME TypeOK, NEW t \in Tasks, CreateTask(t) \/ RequestStep(t)
    PROVE  TypeOK'
<1>0. RowTypes /\ ServerTypes /\ WorkerTypes
  BY TypeParts
<1>1. WorkerTypes'
  BY <1>0 DEF CreateTask, RequestStep, CreateStage, DeleteTask, EnqueueTask,
              worker, WorkerTypes
<1>2. ServerTypes'
  <2>1. faults' \in Nat /\ crashes' \in Nat
    BY <1>0, FaultType DEF CreateTask, RequestStep, CreateStage, DeleteTask,
                           EnqueueTask, server, ServerTypes
  <2>2. UNCHANGED <<proc, todo>>
    BY DEF CreateTask, RequestStep, CreateStage, DeleteTask, EnqueueTask, server
  <2>3. queue' \in [Servers -> Seq(Tasks)]
    <3>1. CASE EnqueueTask(t)
      <4>1. queue' = [queue EXCEPT ![host[t]] = Append(queue[host[t]], t)]
        BY <3>1 DEF EnqueueTask
      <4>2. host[t] \in Servers
        BY <1>0 DEF RowTypes
      <4>3. Append(queue[host[t]], t) \in Seq(Tasks)
        BY <1>0, <4>2 DEF ServerTypes
      <4> QED
        BY <1>0, <4>1, <4>3 DEF ServerTypes
    <3>2. CASE ~EnqueueTask(t)
      BY <1>0, <3>2 DEF CreateTask, RequestStep, CreateStage, DeleteTask, server, ServerTypes
    <3> QED
      BY <3>1, <3>2
  <2> QED
    BY <1>0, <2>1, <2>2, <2>3 DEF ServerTypes
<1>3. RowTypes'
  <2>1. task' \in [Tasks -> TaskStatus]
    BY <1>0 DEF CreateTask, RequestStep, CreateStage, DeleteTask, EnqueueTask, db,
                RowTypes, TaskStatus
  <2>2. stage' \in [Tasks -> StageStatus]
    BY <1>0 DEF CreateTask, RequestStep, CreateStage, DeleteTask, EnqueueTask, db,
                RowTypes, StageStatus
  <2>3. artifact' \subseteq Tasks
    BY <1>0 DEF CreateTask, RequestStep, CreateStage, DeleteTask, EnqueueTask, db, RowTypes
  <2>4. handler' \in [Tasks -> HandlerPC]
    BY <1>0 DEF CreateTask, RequestStep, CreateStage, DeleteTask, EnqueueTask,
                RowTypes, HandlerPC
  <2>5. UNCHANGED host
    BY DEF CreateTask, RequestStep, CreateStage, DeleteTask, EnqueueTask
  <2> QED
    BY <1>0, <2>1, <2>2, <2>3, <2>4, <2>5 DEF RowTypes
<1> QED
  BY <1>1, <1>2, <1>3 DEF TypeOK, RowTypes, ServerTypes, WorkerTypes

LEMMA ServerStepTypes ==
    ASSUME TypeOK, NEW p \in Servers, StartServer(p) \/ BootStep(p) \/ Crash(p)
    PROVE  TypeOK'
<1>0. RowTypes /\ ServerTypes /\ WorkerTypes
  BY TypeParts
<1>1. RowTypes'
  <2>1. UNCHANGED <<task, stage, artifact, host>>
    BY DEF StartServer, BootStep, BootEnqueue, BootDone, Crash, db, request
  <2>2. handler' \in [Tasks -> HandlerPC]
    BY <1>0 DEF StartServer, BootStep, BootEnqueue, BootDone, Crash, request,
                RowTypes, HandlerPC
  <2> QED
    BY <1>0, <2>1, <2>2 DEF RowTypes
<1>2. WorkerTypes'
  <2>1. CASE UNCHANGED worker
    BY <1>0, <2>1 DEF worker, WorkerTypes
  <2>2. CASE Crash(p)
    <3>1. pc' \in [Workers -> WorkerPC] /\ attempt' \in [Workers -> Attempts]
      BY <1>0, <2>2, AttemptNumbers DEF Crash, WorkerTypes, WorkerPC
    <3>2. job' \in [Workers -> Tasks \cup {NoTask}]
      BY <1>0, <2>2 DEF Crash, WorkerTypes
    <3>3. \A w \in Workers : pc'[w] # "idle" => job'[w] \in Tasks
      BY <1>0, <2>2 DEF Crash, WorkerTypes
    <3> QED
      BY <3>1, <3>2, <3>3 DEF WorkerTypes
  <2> QED
    BY <2>1, <2>2 DEF StartServer, BootStep, BootEnqueue, BootDone
<1>3. ServerTypes'
  <2>1. faults' \in Nat /\ crashes' \in Nat
    BY <1>0, FaultType DEF StartServer, BootStep, BootEnqueue, BootDone, Crash, ServerTypes
  <2>2. proc' \in [Servers -> {"up", "boot", "down"}]
    BY <1>0 DEF StartServer, BootStep, BootEnqueue, BootDone, Crash, ServerTypes
  <2>3. todo' \in [Servers -> SUBSET Tasks]
    BY <1>0 DEF StartServer, BootStep, BootEnqueue, BootDone, Crash, ServerTypes, LeftPending
  <2>4. queue' \in [Servers -> Seq(Tasks)]
    <3>1. CASE BootEnqueue(p)
      <4>1. PICK t \in todo[p] : queue' = [queue EXCEPT ![p] = Append(queue[p], t)]
        BY <3>1 DEF BootEnqueue
      <4>2. Append(queue[p], t) \in Seq(Tasks)
        BY <1>0 DEF ServerTypes
      <4> QED
        BY <1>0, <4>1, <4>2 DEF ServerTypes
    <3>2. CASE ~BootEnqueue(p)
      <4>1. UNCHANGED queue \/ queue' = [queue EXCEPT ![p] = <<>>]
        BY <3>2 DEF StartServer, BootStep, BootDone, Crash
      <4>2. <<>> \in Seq(Tasks)
        OBVIOUS
      <4> QED
        BY <1>0, <4>1, <4>2 DEF ServerTypes
    <3> QED
      BY <3>1, <3>2
  <2> QED
    BY <2>1, <2>2, <2>3, <2>4 DEF ServerTypes
<1> QED
  BY <1>1, <1>2, <1>3 DEF TypeOK, RowTypes, ServerTypes, WorkerTypes

LEMMA WorkerStepTypes ==
    ASSUME TypeOK, NEW w \in Workers, WorkerStep(w)
    PROVE  TypeOK'
<1>0. RowTypes /\ ServerTypes /\ WorkerTypes
  BY TypeParts
<1>1. CASE TakeJob(w)
  <2>1. /\ queue[w[1]] \in Seq(Tasks) /\ queue[w[1]] # <<>>
        /\ w[1] \in Servers
    BY <1>0, <1>1, WorkerServer DEF TakeJob, ServerTypes
  <2>2. Head(queue[w[1]]) \in Tasks /\ Tail(queue[w[1]]) \in Seq(Tasks)
    BY <2>1
  <2>3. ServerTypes'
    <3>1. queue' = [queue EXCEPT ![w[1]] = Tail(queue[w[1]])]
      BY <1>1 DEF TakeJob
    <3>2. queue' \in [Servers -> Seq(Tasks)]
      BY <1>0, <2>1, <2>2, <3>1 DEF ServerTypes
    <3> QED
      BY <1>0, <1>1, <3>2 DEF TakeJob, ServerTypes
  <2>4. WorkerTypes'
    <3>1. /\ job' = [job EXCEPT ![w] = Head(queue[w[1]])]
          /\ pc' = [pc EXCEPT ![w] = "claim"]
          /\ attempt' = attempt
      BY <1>1 DEF TakeJob, Goto
    <3>2. job' \in [Workers -> Tasks \cup {NoTask}]
      BY <1>0, <2>2, <3>1 DEF WorkerTypes
    <3>3. pc' \in [Workers -> WorkerPC]
      BY <1>0, <3>1 DEF WorkerTypes, WorkerPC
    <3>4. \A x \in Workers : pc'[x] # "idle" => job'[x] \in Tasks
      BY <1>0, <2>2, <3>1 DEF WorkerTypes
    <3> QED
      BY <1>0, <3>1, <3>2, <3>3, <3>4 DEF WorkerTypes
  <2>5. RowTypes'
    BY <1>0, <1>1 DEF TakeJob, db, request, RowTypes
  <2> QED
    BY <2>3, <2>4, <2>5 DEF TypeOK, RowTypes, ServerTypes, WorkerTypes
<1>2. CASE ~TakeJob(w)
  <2>0. pc[w] # "idle" /\ job[w] \in Tasks
    BY <1>0, <1>2 DEF WorkerStep, ClaimTask, BeginStage, ExecSuccess, ExecFailure,
           Succeed, RecordArtifacts, FailStageRow, FailTaskRow, FinishTaskWithError,
           FinishTaskCompleted, WorkerTypes
  <2>1. ServerTypes'
    <3>1. /\ UNCHANGED server
          /\ Fault \/ NoFault
      BY <1>2 DEF WorkerStep, ClaimTask, BeginStage, ExecSuccess, ExecFailure, Succeed,
           RecordArtifacts, FailStageRow, FailTaskRow, FinishTaskWithError,
           FinishTaskCompleted, NoFault
    <3> QED
      BY <1>0, <3>1, FaultType DEF server, ServerTypes
  <2>2. RowTypes'
    <3>1. task' \in [Tasks -> TaskStatus]
      <4>1. \/ UNCHANGED task
            \/ \E v \in TaskStatus : SetTask(job[w], v)
            \/ task' = [task EXCEPT ![job[w]] = "running"]
        BY <1>2 DEF WorkerStep, ClaimTask, BeginStage, ExecSuccess, ExecFailure, Succeed,
             RecordArtifacts, FailStageRow, FailTaskRow, FinishTaskWithError,
             FinishTaskCompleted, db, TaskStatus
      <4> QED
        BY <1>0, <2>0, <4>1, SetTaskType DEF RowTypes, TaskStatus
    <3>2. stage' \in [Tasks -> StageStatus]
      <4>1. \/ UNCHANGED stage
            \/ \E v \in StageStatus : SetStage(job[w], v)
        BY <1>2 DEF WorkerStep, ClaimTask, BeginStage, ExecSuccess, ExecFailure, Succeed,
             RecordArtifacts, FailStageRow, FailTaskRow, FinishTaskWithError,
             FinishTaskCompleted, db, StageStatus
      <4> QED
        BY <1>0, <2>0, <4>1, SetStageType DEF RowTypes
    <3>3. artifact' \subseteq Tasks
      BY <1>0, <1>2, <2>0 DEF WorkerStep, ClaimTask, BeginStage, ExecSuccess, ExecFailure,
           Succeed, RecordArtifacts, FailStageRow, FailTaskRow, FinishTaskWithError,
           FinishTaskCompleted, db, RowTypes
    <3>4. UNCHANGED request
      BY <1>2 DEF WorkerStep, ClaimTask, BeginStage, ExecSuccess, ExecFailure, Succeed,
           RecordArtifacts, FailStageRow, FailTaskRow, FinishTaskWithError,
           FinishTaskCompleted
    <3> QED
      BY <1>0, <3>1, <3>2, <3>3, <3>4 DEF request, RowTypes
  <2>3. WorkerTypes'
    <3>1. CASE Idle(w)
      BY <1>0, <3>1, IdleTypes
    <3>2. CASE ~Idle(w)
      <4>1. /\ UNCHANGED job
            /\ \/ UNCHANGED pc
               \/ \E s \in WorkerPC : Goto(w, s)
        BY <1>2, <3>2 DEF WorkerStep, ClaimTask, BeginStage, ExecSuccess, ExecFailure,
             Succeed, RecordArtifacts, FailStageRow, FailTaskRow, FinishTaskWithError,
             FinishTaskCompleted, WorkerPC
      <4>2. attempt' \in [Workers -> Attempts]
        <5>1. CASE ExecFailure(w)
          <6>1. \/ UNCHANGED attempt
                \/ /\ attempt[w] <= StageMaxRetries
                   /\ attempt' = [attempt EXCEPT ![w] = attempt[w] + 1]
            BY <5>1 DEF ExecFailure
          <6>2. attempt[w] \in Attempts
            BY <1>0 DEF WorkerTypes
          <6>3. attempt[w] <= StageMaxRetries => attempt[w] + 1 \in Attempts
            BY <6>2, ServiceAssumption DEF Attempts
          <6> QED
            BY <1>0, <6>1, <6>3 DEF WorkerTypes
        <5>2. CASE ~ExecFailure(w)
          <6>1. UNCHANGED attempt \/ attempt' = [attempt EXCEPT ![w] = 1]
            BY <1>2, <3>2, <5>2 DEF WorkerStep, ClaimTask, BeginStage, ExecSuccess, Succeed,
                 RecordArtifacts, FailStageRow, FailTaskRow, FinishTaskWithError,
                 FinishTaskCompleted
          <6> QED
            BY <1>0, <6>1, AttemptNumbers DEF WorkerTypes
        <5> QED
          BY <5>1, <5>2
      <4>3. pc' \in [Workers -> WorkerPC]
        BY <1>0, <4>1 DEF Goto, WorkerTypes
      <4>4. \A x \in Workers : pc'[x] # "idle" => job'[x] \in Tasks
        BY <1>0, <2>0, <4>1 DEF Goto, WorkerTypes
      <4> QED
        BY <1>0, <4>1, <4>2, <4>3, <4>4 DEF WorkerTypes
    <3> QED
      BY <3>1, <3>2
  <2> QED
    BY <2>1, <2>2, <2>3 DEF TypeOK, RowTypes, ServerTypes, WorkerTypes
<1> QED
  BY <1>1, <1>2

\* Every variable keeps its type.
THEOREM DetectionTypeCorrect == Spec => []TypeOK
<1>1. TypeOK /\ [Next]_vars => TypeOK'
  <2> SUFFICES ASSUME TypeOK, [Next]_vars PROVE TypeOK'
    OBVIOUS
  <2>1. CASE UNCHANGED vars
    BY <2>1 DEF vars, TypeOK
  <2>2. ASSUME NEW t \in Tasks, CreateTask(t) \/ RequestStep(t) PROVE TypeOK'
    BY <2>2, RequestTypes
  <2>3. ASSUME NEW p \in Servers, StartServer(p) \/ BootStep(p) \/ Crash(p) PROVE TypeOK'
    BY <2>3, ServerStepTypes
  <2>4. ASSUME NEW w \in Workers, WorkerStep(w) PROVE TypeOK'
    BY <2>4, WorkerStepTypes
  <2> QED
    BY <2>1, <2>2, <2>3, <2>4 DEF Next
<1> QED
  BY <1>1, InitTypes, PTL DEF Spec

-----------------------------------------------------------------------------
(* The worker and its task.                                                *)

\* A task that a worker has claimed was requested, and is running, or its row is
\* gone, or only finishTaskWithError is left to do.
Claimed ==
    \A w \in Workers : Executing(w) =>
        /\ handler[job[w]] # "none"
        /\ \/ task[job[w]] \in {"running", "absent"}
           \/ task[job[w]] = "failed" /\ pc[w] = "fail"

\* A row was inserted by a request.
Requested == \A t \in Tasks : task[t] # "absent" => handler[t] # "none"

LifeInv == SingleExecutor /\ Claimed /\ Requested

LEMMA InitLife == Init => LifeInv
  BY DEF Init, LifeInv, SingleExecutor, Claimed, Requested, Executing

\* The workers go on with their jobs, and their tasks stay, or lose their row.
LEMMA LifeKept ==
    ASSUME LifeInv, WorkerTypes,
           \A w \in Workers : Executing(w)' =>
               Executing(w) /\ job'[w] = job[w] /\ (pc'[w] = pc[w] \/ task'[job[w]] # "failed"),
           \A t \in Tasks : task'[t] \in {task[t], "absent"} \/ handler[t] = "none",
           \A t \in Tasks : handler[t] # "none" => handler'[t] # "none",
           Requested'
    PROVE  LifeInv'
<1>1. SingleExecutor'
  <2> SUFFICES ASSUME NEW w1 \in Workers, NEW w2 \in Workers,
                      Executing(w1)', Executing(w2)', job'[w1] = job'[w2]
               PROVE  w1 = w2
    BY DEF SingleExecutor
  <2>1. Executing(w1) /\ Executing(w2) /\ job[w1] = job[w2]
    OBVIOUS
  <2> QED
    BY <2>1 DEF LifeInv, SingleExecutor
<1>2. Claimed'
  <2> SUFFICES ASSUME NEW w \in Workers, Executing(w)'
               PROVE  /\ handler'[job'[w]] # "none"
                      /\ \/ task'[job'[w]] \in {"running", "absent"}
                         \/ task'[job'[w]] = "failed" /\ pc'[w] = "fail"
    BY DEF Claimed
  <2>1. /\ Executing(w) /\ job'[w] = job[w]
        /\ pc'[w] = pc[w] \/ task'[job[w]] # "failed"
    OBVIOUS
  <2>2. job[w] \in Tasks
    BY <2>1 DEF Executing, WorkerTypes
  <2>3. /\ handler[job[w]] # "none"
        /\ \/ task[job[w]] \in {"running", "absent"}
           \/ task[job[w]] = "failed" /\ pc[w] = "fail"
    BY <2>1 DEF LifeInv, Claimed
  <2> QED
    BY <2>1, <2>2, <2>3
<1> QED
  BY <1>1, <1>2 DEF LifeInv

LEMMA RequestLife ==
    ASSUME TypeOK, LifeInv, NEW t \in Tasks, CreateTask(t) \/ RequestStep(t)
    PROVE  LifeInv'
<1>1. WorkerTypes /\ RowTypes
  BY TypeParts
<1>2. UNCHANGED <<pc, job>>
  BY DEF CreateTask, RequestStep, CreateStage, DeleteTask, EnqueueTask, worker
<1>3. \A u \in Tasks : task'[u] \in {task[u], "absent"} \/ handler[u] = "none"
  BY <1>1 DEF CreateTask, RequestStep, CreateStage, DeleteTask, EnqueueTask, db, RowTypes
<1>4. \A u \in Tasks : handler[u] # "none" => handler'[u] # "none"
  BY <1>1 DEF CreateTask, RequestStep, CreateStage, DeleteTask, EnqueueTask, RowTypes
<1>5. Requested'
  BY <1>1 DEF CreateTask, RequestStep, CreateStage, DeleteTask, EnqueueTask, db, RowTypes,
              LifeInv, Requested
<1>6. \A w \in Workers : Executing(w)' =>
          Executing(w) /\ job'[w] = job[w] /\ (pc'[w] = pc[w] \/ task'[job[w]] # "failed")
  BY <1>2 DEF Executing
<1> QED
  BY <1>1, <1>3, <1>4, <1>5, <1>6, LifeKept

\* The start and the end of a server let no worker go on but where it is.
LEMMA ServerStops ==
    ASSUME TypeOK, NEW p \in Servers, StartServer(p) \/ BootStep(p) \/ Crash(p)
    PROVE  \A w \in Workers : Executing(w)' =>
               Executing(w) /\ job'[w] = job[w] /\ pc'[w] = pc[w]
<1>0. WorkerTypes
  BY TypeParts
<1> SUFFICES ASSUME NEW w \in Workers, Executing(w)'
             PROVE  Executing(w) /\ job'[w] = job[w] /\ pc'[w] = pc[w]
  OBVIOUS
<1>1. CASE Crash(p)
  BY <1>0, <1>1 DEF Crash, Executing, WorkerTypes
<1>2. CASE ~Crash(p)
  BY <1>2 DEF StartServer, BootStep, BootEnqueue, BootDone, worker, Executing
<1> QED
  BY <1>1, <1>2

LEMMA ServerLife ==
    ASSUME TypeOK, LifeInv, NEW p \in Servers, StartServer(p) \/ BootStep(p) \/ Crash(p)
    PROVE  LifeInv'
<1>1. WorkerTypes /\ RowTypes
  BY TypeParts
<1>2. UNCHANGED task
  BY DEF StartServer, BootStep, BootEnqueue, BootDone, Crash, db
<1>3. \A u \in Tasks : handler[u] # "none" => handler'[u] # "none"
  BY <1>1 DEF StartServer, BootStep, BootEnqueue, BootDone, Crash, request, RowTypes
<1>4. Requested'
  BY <1>2, <1>3 DEF LifeInv, Requested
<1> QED
  BY <1>1, <1>2, <1>3, <1>4, ServerStops, LifeKept

\* What a step of a worker past its claim does to the task of its job, and where the
\* worker is then.
LEMMA ExecutingStep ==
    ASSUME TypeOK, LifeInv, NEW w \in Workers, WorkerStep(w), Executing(w)
    PROVE  /\ job[w] \in Tasks
           /\ \A u \in Tasks \ {job[w]} : task'[u] = task[u]
           /\ UNCHANGED handler
           /\ \A x \in Workers \ {w} : pc'[x] = pc[x] /\ job'[x] = job[x]
           /\ \/ Executing(w)' /\ job'[w] = job[w]
              \/ ~Executing(w)'
           /\ \/ task'[job[w]] = task[job[w]] /\ (task[job[w]] = "failed" => ~Executing(w)')
              \/ /\ task[job[w]] = "running" /\ task'[job[w]] = "failed"
                 /\ pc'[w] = "fail" \/ ~Executing(w)'
              \/ /\ task[job[w]] = "running" /\ task'[job[w]] = "completed"
                 /\ ~Executing(w)'
<1>0. WorkerTypes /\ RowTypes
  BY TypeParts
<1>1. job[w] \in Tasks /\ task[job[w]] \in TaskStatus
  BY <1>0 DEF Executing, WorkerTypes, RowTypes
<1>2. \/ task[job[w]] \in {"running", "absent"}
      \/ task[job[w]] = "failed" /\ pc[w] = "fail"
  BY DEF LifeInv, Claimed
<1>3. UNCHANGED handler
  BY DEF Executing, WorkerStep, TakeJob, ClaimTask, BeginStage, ExecSuccess, ExecFailure,
         Succeed, RecordArtifacts, FailStageRow, FailTaskRow, FinishTaskWithError,
         FinishTaskCompleted, request
<1>4. \A x \in Workers \ {w} : pc'[x] = pc[x] /\ job'[x] = job[x]
  BY <1>0 DEF Executing, WorkerStep, TakeJob, ClaimTask, BeginStage, ExecSuccess,
         ExecFailure, Succeed, RecordArtifacts, FailStageRow, FailTaskRow,
         FinishTaskWithError, FinishTaskCompleted, Goto, Idle, WorkerTypes
<1>5. \/ Executing(w)' /\ job'[w] = job[w]
      \/ ~Executing(w)'
  BY <1>0 DEF Executing, WorkerStep, TakeJob, ClaimTask, BeginStage, ExecSuccess,
         ExecFailure, Succeed, RecordArtifacts, FailStageRow, FailTaskRow,
         FinishTaskWithError, FinishTaskCompleted, Goto, Idle, WorkerTypes
<1>6. CASE FailTaskRow(w)
  <2>1. /\ pc[w] = "failTask" /\ pc'[w] = "fail"
        /\ SetTask(job[w], "failed") \/ UNCHANGED task
    BY <1>0, <1>6 DEF FailTaskRow, Goto, WorkerTypes
  <2>2. /\ \A u \in Tasks \ {job[w]} : task'[u] = task[u]
        /\ \/ task'[job[w]] = task[job[w]]
           \/ task[job[w]] = "running" /\ task'[job[w]] = "failed"
    BY <1>0, <1>1, <1>2, <2>1 DEF SetTask, RowTypes
  <2> QED
    BY <1>1, <1>2, <1>3, <1>4, <1>5, <2>1, <2>2
<1>7. CASE FinishTaskWithError(w) \/ FinishTaskCompleted(w)
  <2>1. /\ pc'[w] = "idle"
        /\ \/ SetTask(job[w], "failed") /\ pc[w] = "fail"
           \/ SetTask(job[w], "completed") /\ pc[w] = "complete"
           \/ UNCHANGED task
    BY <1>0, <1>7 DEF FinishTaskWithError, FinishTaskCompleted, Idle, Goto, WorkerTypes
  <2>2. ~Executing(w)'
    BY <2>1 DEF Executing
  <2>3. /\ \A u \in Tasks \ {job[w]} : task'[u] = task[u]
        /\ \/ task'[job[w]] = task[job[w]]
           \/ task[job[w]] = "running" /\ task'[job[w]] \in {"failed", "completed"}
    BY <1>0, <1>1, <1>2, <2>1 DEF SetTask, RowTypes
  <2> QED
    BY <1>1, <1>3, <1>4, <2>2, <2>3
<1>8. CASE ~(FailTaskRow(w) \/ FinishTaskWithError(w) \/ FinishTaskCompleted(w))
  <2>1. UNCHANGED task /\ pc[w] # "fail"
    BY <1>8 DEF Executing, WorkerStep, TakeJob, ClaimTask, BeginStage, ExecSuccess,
       ExecFailure, Succeed, RecordArtifacts, FailStageRow, db
  <2> QED
    BY <1>1, <1>2, <1>3, <1>4, <1>5, <2>1
<1> QED
  BY <1>6, <1>7, <1>8

\* A worker that takes a job, or does not get the task of its job, changes no task.  A
\* worker that claims a task finds it pending.
LEMMA OtherWorkerStep ==
    ASSUME TypeOK, LifeInv, NEW w \in Workers, WorkerStep(w), ~Executing(w)
    PROVE  /\ UNCHANGED handler
           /\ \A x \in Workers \ {w} : pc'[x] = pc[x] /\ job'[x] = job[x]
           /\ \/ UNCHANGED task /\ ~Executing(w)'
              \/ /\ job[w] \in Tasks /\ task[job[w]] = "pending"
                 /\ job'[w] = job[w] /\ pc'[w] = "begin"
                 /\ task' = [task EXCEPT ![job[w]] = "running"]
<1>0. WorkerTypes /\ RowTypes
  BY TypeParts
<1>1. TakeJob(w) \/ ClaimTask(w)
  BY DEF Executing, WorkerStep, ClaimTask, BeginStage, ExecSuccess, ExecFailure, Succeed,
         RecordArtifacts, FailStageRow, FailTaskRow, FinishTaskWithError,
         FinishTaskCompleted
<1>2. CASE TakeJob(w)
  BY <1>0, <1>2 DEF TakeJob, Goto, Executing, WorkerTypes, db, request
<1>3. CASE ClaimTask(w)
  <2>1. pc[w] = "claim" /\ job[w] \in Tasks
    BY <1>0, <1>3 DEF ClaimTask, WorkerTypes
  <2>2. UNCHANGED handler
    BY <1>3 DEF ClaimTask, request
  <2>3. CASE Idle(w)
    <3>1. UNCHANGED task
      BY <1>0, <1>3, <2>1, <2>3 DEF ClaimTask, Idle, Goto, WorkerTypes
    <3>2. pc'[w] = "idle" /\ \A x \in Workers \ {w} : pc'[x] = pc[x] /\ job'[x] = job[x]
      BY <1>0, <2>3 DEF Idle, Goto, WorkerTypes
    <3> QED
      BY <2>2, <3>1, <3>2 DEF Executing
  <2>4. CASE ~Idle(w)
    <3>1. /\ task[job[w]] = "pending" /\ UNCHANGED job
          /\ task' = [task EXCEPT ![job[w]] = "running"]
          /\ Goto(w, "begin")
      BY <1>3, <2>4 DEF ClaimTask
    <3> QED
      BY <1>0, <2>1, <2>2, <3>1 DEF Goto, WorkerTypes
  <2> QED
    BY <2>3, <2>4
<1> QED
  BY <1>1, <1>2, <1>3

LEMMA WorkerLife ==
    ASSUME TypeOK, LifeInv, NEW w \in Workers, WorkerStep(w)
    PROVE  LifeInv'
<1>0. WorkerTypes /\ RowTypes
  BY TypeParts
<1>1. CASE Executing(w)
  <2>1. /\ job[w] \in Tasks
        /\ \A u \in Tasks \ {job[w]} : task'[u] = task[u]
        /\ UNCHANGED handler
        /\ \A x \in Workers \ {w} : pc'[x] = pc[x] /\ job'[x] = job[x]
        /\ (Executing(w)' /\ job'[w] = job[w]) \/ ~Executing(w)'
        /\ \/ task'[job[w]] = task[job[w]] /\ (task[job[w]] = "failed" => ~Executing(w)')
           \/ task[job[w]] = "running" /\ (pc'[w] = "fail" \/ ~Executing(w)')
              /\ task'[job[w]] = "failed"
           \/ task[job[w]] = "running" /\ ~Executing(w)' /\ task'[job[w]] = "completed"
    BY <1>1, ExecutingStep
  <2>2. \A x \in Workers : Executing(x)' => Executing(x) /\ job'[x] = job[x]
    BY <1>1, <2>1 DEF Executing
  <2>3. SingleExecutor'
    <3> SUFFICES ASSUME NEW w1 \in Workers, NEW w2 \in Workers,
                        Executing(w1)', Executing(w2)', job'[w1] = job'[w2]
                 PROVE  w1 = w2
      BY DEF SingleExecutor
    <3> QED
      BY <2>2 DEF LifeInv, SingleExecutor
  <2>4. Claimed'
    <3> SUFFICES ASSUME NEW x \in Workers, Executing(x)'
                 PROVE  /\ handler'[job'[x]] # "none"
                        /\ \/ task'[job'[x]] \in {"running", "absent"}
                           \/ task'[job'[x]] = "failed" /\ pc'[x] = "fail"
      BY DEF Claimed
    <3>1. /\ Executing(x) /\ job'[x] = job[x] /\ job[x] \in Tasks
          /\ handler[job[x]] # "none"
          /\ \/ task[job[x]] \in {"running", "absent"}
             \/ task[job[x]] = "failed" /\ pc[x] = "fail"
      BY <1>0, <2>2 DEF LifeInv, Claimed, Executing, WorkerTypes
    <3>2. CASE x = w
      BY <2>1, <3>1, <3>2
    <3>3. CASE x # w
      <4>1. job[x] # job[w]
        BY <1>1, <3>1, <3>3 DEF LifeInv, SingleExecutor
      <4> QED
        BY <2>1, <3>1, <3>3, <4>1
    <3> QED
      BY <3>2, <3>3
  <2>5. Requested'
    BY <1>0, <2>1 DEF LifeInv, Requested
  <2> QED
    BY <2>3, <2>4, <2>5 DEF LifeInv
<1>2. CASE ~Executing(w) /\ UNCHANGED task /\ ~Executing(w)'
  <2>1. UNCHANGED handler /\ \A x \in Workers \ {w} : pc'[x] = pc[x] /\ job'[x] = job[x]
    BY <1>2, OtherWorkerStep
  <2>2. \A x \in Workers : Executing(x)' =>
            Executing(x) /\ job'[x] = job[x] /\ pc'[x] = pc[x]
    BY <1>2, <2>1 DEF Executing
  <2>3. Requested'
    BY <1>2, <2>1 DEF LifeInv, Requested
  <2> QED
    BY <1>0, <1>2, <2>1, <2>2, <2>3, LifeKept
<1>3. CASE ~Executing(w) /\ ~(UNCHANGED task /\ ~Executing(w)')
  <2>1. /\ UNCHANGED handler
        /\ \A x \in Workers \ {w} : pc'[x] = pc[x] /\ job'[x] = job[x]
        /\ job[w] \in Tasks /\ task[job[w]] = "pending"
        /\ job'[w] = job[w] /\ pc'[w] = "begin"
        /\ task' = [task EXCEPT ![job[w]] = "running"]
    BY <1>3, OtherWorkerStep, Zenon
  <2>2. \A u \in Tasks : task'[u] = IF u = job[w] THEN "running" ELSE task[u]
    BY <1>0, <2>1 DEF RowTypes
  <2>3. ASSUME NEW x \in Workers, Executing(x)', x # w
        PROVE  /\ Executing(x) /\ job'[x] = job[x] /\ job[x] \in Tasks
               /\ job[x] # job[w] /\ task'[job[x]] = task[job[x]]
    <3>1. Executing(x) /\ job'[x] = job[x] /\ job[x] \in Tasks
      BY <1>0, <2>1, <2>3 DEF Executing, WorkerTypes
    <3>2. task[job[x]] # "pending"
      BY <3>1 DEF LifeInv, Claimed
    <3> QED
      BY <2>1, <2>2, <3>1, <3>2
  <2>4. SingleExecutor'
    <3> SUFFICES ASSUME NEW w1 \in Workers, NEW w2 \in Workers,
                        Executing(w1)', Executing(w2)', job'[w1] = job'[w2], w1 # w2
                 PROVE  FALSE
      BY DEF SingleExecutor
    <3>1. w1 # w /\ w2 # w
      BY <2>1, <2>3
    <3> QED
      BY <2>3, <3>1 DEF LifeInv, SingleExecutor
  <2>5. Claimed'
    <3> SUFFICES ASSUME NEW x \in Workers, Executing(x)'
                 PROVE  /\ handler'[job'[x]] # "none"
                        /\ \/ task'[job'[x]] \in {"running", "absent"}
                           \/ task'[job'[x]] = "failed" /\ pc'[x] = "fail"
      BY DEF Claimed
    <3>1. CASE x = w
      BY <2>1, <2>2, <3>1 DEF LifeInv, Requested
    <3>2. CASE x # w
      BY <2>1, <2>3, <3>2 DEF LifeInv, Claimed
    <3> QED
      BY <3>1, <3>2
  <2>6. Requested'
    BY <2>1, <2>2 DEF LifeInv, Requested
  <2> QED
    BY <2>4, <2>5, <2>6 DEF LifeInv
<1> QED
  BY <1>1, <1>2, <1>3

LEMMA LifeInvariant == Spec => [](TypeOK /\ LifeInv)
<1>1. TypeOK /\ LifeInv /\ [Next]_vars => LifeInv'
  <2> SUFFICES ASSUME TypeOK, LifeInv, [Next]_vars PROVE LifeInv'
    OBVIOUS
  <2>1. CASE UNCHANGED vars
    BY <2>1 DEF vars, LifeInv, SingleExecutor, Claimed, Requested, Executing
  <2>2. ASSUME NEW t \in Tasks, CreateTask(t) \/ RequestStep(t) PROVE LifeInv'
    BY <2>2, RequestLife
  <2>3. ASSUME NEW p \in Servers, StartServer(p) \/ BootStep(p) \/ Crash(p) PROVE LifeInv'
    BY <2>3, ServerLife
  <2>4. ASSUME NEW w \in Workers, WorkerStep(w) PROVE LifeInv'
    BY <2>4, WorkerLife
  <2> QED
    BY <2>1, <2>2, <2>3, <2>4 DEF Next
<1> QED
  BY <1>1, InitLife, DetectionTypeCorrect, PTL DEF Spec

\* A task is in the hands of at most one worker of all servers: runPipeline's
\* conditional update lets one of the workers that hold its job pass.
THEOREM OneExecutor == Spec => []SingleExecutor
<1>1. LifeInv => SingleExecutor
  BY DEF LifeInv
<1> QED
  BY <1>1, LifeInvariant, PTL

-----------------------------------------------------------------------------
(* Pending tasks are scheduled.                                            *)

\* A step that counts no fault was not a failing command.
LEMMA StillNoFault ==
    ASSUME ServerTypes, faults' = 0
    PROVE  ~Fault /\ (Fault \/ NoFault => faults = 0)
  BY DEF ServerTypes, Fault, NoFault

\* A queue that grows keeps its jobs where they are and has the new one at its end.
LEMMA QueueGrows ==
    ASSUME ServerTypes, NEW p \in Servers, NEW t \in Tasks,
           queue' = [queue EXCEPT ![p] = Append(@, t)]
    PROVE  /\ \A o \in Servers : \A i \in DOMAIN queue[o] :
                  i \in DOMAIN queue'[o] /\ queue'[o][i] = queue[o][i]
           /\ \E i \in DOMAIN queue'[p] : queue'[p][i] = t
<1>1. queue \in [Servers -> Seq(Tasks)]
  BY DEF ServerTypes
<1>2. \A o \in Servers : queue'[o] = IF o = p THEN Append(queue[p], t) ELSE queue[o]
  BY <1>1
<1>3. queue[p] \in Seq(Tasks)
  BY <1>1
<1>4. /\ DOMAIN Append(queue[p], t) = DOMAIN queue[p] \cup {Len(queue[p]) + 1}
      /\ \A i \in DOMAIN queue[p] : Append(queue[p], t)[i] = queue[p][i]
      /\ Append(queue[p], t)[Len(queue[p]) + 1] = t
  BY <1>3
<1> QED
  BY <1>2, <1>4

\* A queue whose head is taken keeps the jobs behind it.
LEMMA QueueShrinks ==
    ASSUME NEW q \in Seq(Tasks), q # <<>>, NEW i \in DOMAIN q, q[i] # Head(q)
    PROVE  \E j \in DOMAIN Tail(q) : Tail(q)[j] = q[i]
<1>1. i \in 1 .. Len(q) /\ i # 1
  OBVIOUS
<1>2. i - 1 \in DOMAIN Tail(q) /\ Tail(q)[i - 1] = q[i]
  BY <1>1
<1> QED
  BY <1>2

\* What is scheduled in the queues and with the servers stays so if they keep it.
LEMMA StaysScheduled ==
    ASSUME NEW t \in Tasks, Scheduled(t),
           \A p \in Servers : t \in todo[p] => t \in todo'[p],
           \A p \in Servers : \A i \in DOMAIN queue[p] :
               i \in DOMAIN queue'[p] /\ queue'[p][i] = queue[p][i],
           \A w \in Workers : pc[w] = "claim" /\ job[w] = t => pc'[w] = "claim" /\ job'[w] = t
    PROVE  Scheduled(t)'
  BY DEF Scheduled

LEMMA RequestScheduled ==
    ASSUME TypeOK, PendingIsScheduled, NEW t \in Tasks, CreateTask(t) \/ RequestStep(t)
    PROVE  PendingIsScheduled'
<1>0. RowTypes /\ ServerTypes
  BY TypeParts
<1> SUFFICES ASSUME faults' = 0, \A p \in Servers : proc'[p] # "down",
                    NEW u \in Tasks, task'[u] = "pending", handler'[u] = "ended"
             PROVE  Scheduled(u)'
  BY DEF PendingIsScheduled
<1>1. UNCHANGED <<proc, todo, pc, job>>
  BY DEF CreateTask, RequestStep, CreateStage, DeleteTask, EnqueueTask, server, worker
<1>2. ~Fault /\ faults = 0
  BY <1>0, StillNoFault
     DEF CreateTask, RequestStep, CreateStage, DeleteTask, EnqueueTask, NoFault
<1>3. ASSUME u # t
      PROVE  Scheduled(u)
  <2>1. task[u] = "pending" /\ handler[u] = "ended"
    BY <1>0, <1>3 DEF CreateTask, RequestStep, CreateStage, DeleteTask, EnqueueTask, db,
                      RowTypes
  <2> QED
    BY <1>1, <1>2, <2>1 DEF PendingIsScheduled
<1>4. CASE EnqueueTask(t)
  <2>1. /\ queue' = [queue EXCEPT ![host[t]] = Append(@, t)]
        /\ host[t] \in Servers
    BY <1>0, <1>4 DEF EnqueueTask, RowTypes
  <2>2. /\ \A o \in Servers : \A i \in DOMAIN queue[o] :
               i \in DOMAIN queue'[o] /\ queue'[o][i] = queue[o][i]
        /\ \E i \in DOMAIN queue'[host[t]] : queue'[host[t]][i] = t
    BY <1>0, <2>1, QueueGrows
  <2>3. CASE u = t
    BY <2>1, <2>2, <2>3 DEF Scheduled
  <2>4. CASE u # t
    BY <1>1, <1>3, <2>2, <2>4, StaysScheduled
  <2> QED
    BY <2>3, <2>4
<1>5. CASE ~EnqueueTask(t)
  <2>1. UNCHANGED queue
    BY <1>5 DEF CreateTask, RequestStep, CreateStage, DeleteTask, server
  <2>2. u # t
    BY <1>0, <1>2, <1>5 DEF CreateTask, RequestStep, CreateStage, DeleteTask, RowTypes
  <2> QED
    BY <1>1, <1>3, <2>1, <2>2, StaysScheduled
<1> QED
  BY <1>4, <1>5

LEMMA ServerScheduled ==
    ASSUME TypeOK, PendingIsScheduled,
           NEW p \in Servers, StartServer(p) \/ BootStep(p) \/ Crash(p)
    PROVE  PendingIsScheduled'
<1>0. RowTypes /\ ServerTypes
  BY TypeParts
<1> SUFFICES ASSUME faults' = 0, \A o \in Servers : proc'[o] # "down",
                    NEW u \in Tasks, task'[u] = "pending", handler'[u] = "ended"
             PROVE  Scheduled(u)'
  BY DEF PendingIsScheduled
<1>1. UNCHANGED task
  BY DEF StartServer, BootStep, BootEnqueue, BootDone, Crash, db
<1>2. ~Crash(p)
  BY <1>0 DEF Crash, ServerTypes
<1>3. CASE StartServer(p)
  <2>1. todo' = [todo EXCEPT ![p] = LeftPending]
    BY <1>0, <1>3, StillNoFault DEF StartServer
  <2>2. u \in todo'[p]
    BY <1>0, <1>1, <2>1 DEF ServerTypes, LeftPending
  <2> QED
    BY <2>2 DEF Scheduled
<1>4. CASE BootStep(p)
  <2>1. /\ UNCHANGED <<faults, handler, pc, job>>
        /\ proc[p] = "boot" /\ \A o \in Servers \ {p} : proc'[o] = proc[o]
    BY <1>0, <1>4 DEF BootStep, BootEnqueue, BootDone, request, worker, ServerTypes
  <2>2. Scheduled(u)
    BY <1>1, <2>1 DEF PendingIsScheduled
  <2>3. CASE BootDone(p)
    BY <2>1, <2>2, <2>3, StaysScheduled DEF BootDone
  <2>4. CASE BootEnqueue(p)
    <3>1. PICK t \in todo[p] : /\ queue' = [queue EXCEPT ![p] = Append(@, t)]
                               /\ todo' = [todo EXCEPT ![p] = @ \ {t}]
      BY <2>4 DEF BootEnqueue
    <3>2. t \in Tasks
      BY <1>0 DEF ServerTypes
    <3>3. /\ \A o \in Servers : \A i \in DOMAIN queue[o] :
                 i \in DOMAIN queue'[o] /\ queue'[o][i] = queue[o][i]
          /\ \E i \in DOMAIN queue'[p] : queue'[p][i] = t
      BY <1>0, <3>1, <3>2, QueueGrows
    <3>4. CASE u = t
      BY <3>3, <3>4 DEF Scheduled
    <3>5. CASE u # t
      <4>1. \A o \in Servers : u \in todo[o] => u \in todo'[o]
        BY <1>0, <3>1, <3>5 DEF ServerTypes
      <4> QED
        BY <2>1, <2>2, <3>3, <4>1, StaysScheduled
    <3> QED
      BY <3>4, <3>5
  <2> QED
    BY <1>4, <2>3, <2>4 DEF BootStep
<1> QED
  BY <1>2, <1>3, <1>4

LEMMA WorkerScheduled ==
    ASSUME TypeOK, PendingIsScheduled, NEW w \in Workers, WorkerStep(w)
    PROVE  PendingIsScheduled'
<1>0. RowTypes /\ ServerTypes /\ WorkerTypes
  BY TypeParts
<1> SUFFICES ASSUME faults' = 0, \A p \in Servers : proc'[p] # "down",
                    NEW u \in Tasks, task'[u] = "pending", handler'[u] = "ended"
             PROVE  Scheduled(u)'
  BY DEF PendingIsScheduled
<1>1. UNCHANGED <<handler, proc, todo>>
  BY DEF WorkerStep, TakeJob, ClaimTask, BeginStage, ExecSuccess, ExecFailure, Succeed,
         RecordArtifacts, FailStageRow, FailTaskRow, FinishTaskWithError,
         FinishTaskCompleted, request, server
<1>2. \A x \in Workers \ {w} : pc'[x] = pc[x] /\ job'[x] = job[x]
  BY <1>0 DEF WorkerStep, TakeJob, ClaimTask, BeginStage, ExecSuccess,
         ExecFailure, Succeed, RecordArtifacts, FailStageRow, FailTaskRow,
         FinishTaskWithError, FinishTaskCompleted, Goto, Idle, WorkerTypes
<1>3. Fault \/ NoFault
  BY DEF WorkerStep, TakeJob, ClaimTask, BeginStage, ExecSuccess, ExecFailure, Succeed,
         RecordArtifacts, FailStageRow, FailTaskRow, FinishTaskWithError,
         FinishTaskCompleted, NoFault
<1>4. ~Fault /\ faults = 0
  BY <1>0, <1>3, StillNoFault
<1>5. task[u] = "pending"
  <2>1. \/ UNCHANGED task
        \/ \E v \in Terminal : SetTask(job[w], v)
        \/ task' = [task EXCEPT ![job[w]] = "running"]
    BY DEF WorkerStep, TakeJob, ClaimTask, BeginStage, ExecSuccess, ExecFailure, Succeed,
       RecordArtifacts, FailStageRow, FailTaskRow, FinishTaskWithError,
       FinishTaskCompleted, db, Terminal
  <2> QED
    BY <1>0, <2>1 DEF RowTypes, SetTask, Terminal
<1>6. Scheduled(u)
  BY <1>1, <1>4, <1>5 DEF PendingIsScheduled
<1>7. CASE TakeJob(w)
  <2>1. /\ pc[w] = "idle" /\ pc'[w] = "claim"
        /\ job'[w] = Head(queue[w[1]])
        /\ queue[w[1]] # <<>> /\ queue[w[1]] \in Seq(Tasks)
        /\ \A p \in Servers : queue'[p] = IF p = w[1] THEN Tail(queue[p]) ELSE queue[p]
    BY <1>0, <1>7, WorkerServer DEF TakeJob, Goto, WorkerTypes, ServerTypes
  <2>2. CASE u = Head(queue[w[1]])
    BY <2>1, <2>2 DEF Scheduled
  <2>3. CASE u # Head(queue[w[1]])
    <3>1. ASSUME NEW p \in Servers, NEW i \in DOMAIN queue[p], queue[p][i] = u
          PROVE  \E j \in DOMAIN queue'[p] : queue'[p][j] = u
      <4>1. CASE p = w[1]
        <5>1. /\ queue[p] \in Seq(Tasks) /\ queue[p] # <<>>
              /\ queue[p][i] # Head(queue[p]) /\ queue'[p] = Tail(queue[p])
          BY <2>1, <2>3, <3>1, <4>1
        <5>2. \E j \in DOMAIN Tail(queue[p]) : Tail(queue[p])[j] = queue[p][i]
          BY <5>1, QueueShrinks
        <5> QED
          BY <3>1, <5>1, <5>2
      <4>2. CASE p # w[1]
        BY <2>1, <3>1, <4>2
      <4> QED
        BY <4>1, <4>2
    <3>2. \A x \in Workers : pc[x] = "claim" /\ job[x] = u => pc'[x] = "claim" /\ job'[x] = u
      BY <1>2, <2>1
    <3> QED
      BY <1>1, <1>6, <3>1, <3>2 DEF Scheduled
  <2> QED
    BY <2>2, <2>3
<1>8. CASE ~TakeJob(w)
  <2>1. UNCHANGED queue
    BY <1>8 DEF WorkerStep, ClaimTask, BeginStage, ExecSuccess, ExecFailure, Succeed,
       RecordArtifacts, FailStageRow, FailTaskRow, FinishTaskWithError,
       FinishTaskCompleted, server
  <2>2. ~(pc[w] = "claim" /\ job[w] = u)
    <3> SUFFICES ASSUME pc[w] = "claim", job[w] = u PROVE FALSE
      OBVIOUS
    <3>1. ClaimTask(w)
      BY <1>8 DEF WorkerStep, BeginStage, ExecSuccess, ExecFailure, Succeed,
         RecordArtifacts, FailStageRow, FailTaskRow, FinishTaskWithError,
         FinishTaskCompleted
    <3>2. task' = [task EXCEPT ![u] = "running"]
      BY <1>4, <1>5, <3>1 DEF ClaimTask
    <3> QED
      BY <1>0, <3>2 DEF RowTypes
  <2> QED
    BY <1>1, <1>2, <1>6, <2>1, <2>2, StaysScheduled
<1> QED
  BY <1>7, <1>8

\* While every server runs and no command has failed, a pending task will be claimed:
\* a restarted server finds in the database what was in the queue of the one that died,
\* and a worker drops a job only if its task is not pending.
THEOREM PendingAwaited == Spec => []PendingIsScheduled
<1>1. Init => PendingIsScheduled
  BY DEF Init, PendingIsScheduled
<1>2. TypeOK /\ PendingIsScheduled /\ [Next]_vars => PendingIsScheduled'
  <2> SUFFICES ASSUME TypeOK, PendingIsScheduled, [Next]_vars PROVE PendingIsScheduled'
    OBVIOUS
  <2>1. CASE UNCHANGED vars
    BY <2>1 DEF vars, PendingIsScheduled, Scheduled
  <2>2. ASSUME NEW t \in Tasks, CreateTask(t) \/ RequestStep(t) PROVE PendingIsScheduled'
    BY <2>2, RequestScheduled
  <2>3. ASSUME NEW p \in Servers, StartServer(p) \/ BootStep(p) \/ Crash(p)
        PROVE  PendingIsScheduled'
    BY <2>3, ServerScheduled
  <2>4. ASSUME NEW w \in Workers, WorkerStep(w) PROVE PendingIsScheduled'
    BY <2>4, WorkerScheduled
  <2> QED
    BY <2>1, <2>2, <2>3, <2>4 DEF Next
<1> QED
  BY <1>1, <1>2, DetectionTypeCorrect, PTL DEF Spec

-----------------------------------------------------------------------------
(* The rows of a finished task agree.                                      *)

\* The stage row is not there yet, or as the request inserted it.
Unset == {"absent", "pending"}

\* The rows that a worker past its claim has left behind it.  The stage row may be
\* inserted at any time, because a starting server takes up a task whose request still
\* has that to do.
OnCourse(w) ==
    LET t == job[w] IN
    /\ task[t] # "absent"
    /\ pc[w] = "begin" => stage[t] \in Unset
    /\ pc[w] \in {"exec", "succeed", "failRow"} => stage[t] \in Unset \cup {"running"}
    /\ pc[w] \in {"record", "complete"} => stage[t] \in Unset \cup {"success"}
    /\ pc[w] = "complete" => t \in artifact
    /\ pc[w] \in {"failTask", "fail"} => stage[t] \in Unset \cup {"failed"}

Agreed(t) ==
    stage[t] \notin Unset =>
        /\ task[t] = "completed" => stage[t] = "success" /\ t \in artifact
        /\ task[t] = "failed" => stage[t] = "failed"

\* As long as no command fails, no request undoes its task, nobody works on the stage
\* before the task is claimed, and every worker is on course.
InStep ==
    faults = 0 =>
        /\ \A t \in Tasks : /\ handler[t] # "undo"
                            /\ task[t] \in {"absent", "pending"} => stage[t] \in Unset
                            /\ Agreed(t)
        /\ \A w \in Workers : Executing(w) => OnCourse(w)

\* A worker stays on course if its rows stay, or its stage row is inserted.
LEMMA StaysOnCourse ==
    ASSUME NEW w \in Workers, OnCourse(w), pc'[w] = pc[w], job'[w] = job[w],
           job[w] \in Tasks, task'[job[w]] = task[job[w]],
           stage'[job[w]] \in {stage[job[w]], "pending"},
           job[w] \in artifact => job[w] \in artifact'
    PROVE  OnCourse(w)'
  BY DEF OnCourse, Unset

LEMMA RequestInStep ==
    ASSUME TypeOK, LifeInv, InStep, NEW t \in Tasks, CreateTask(t) \/ RequestStep(t)
    PROVE  InStep'
<1>0. RowTypes /\ ServerTypes /\ WorkerTypes
  BY TypeParts
<1> SUFFICES ASSUME faults' = 0
             PROVE  /\ \A u \in Tasks : /\ handler'[u] # "undo"
                                        /\ task'[u] \in {"absent", "pending"}
                                              => stage'[u] \in Unset
                                        /\ Agreed(u)'
                    /\ \A w \in Workers : Executing(w)' => OnCourse(w)'
  BY DEF InStep, Unset
<1>1. ~Fault /\ faults = 0
  BY <1>0, StillNoFault
     DEF CreateTask, RequestStep, CreateStage, DeleteTask, EnqueueTask, NoFault
<1>2. /\ handler[t] # "undo"
      /\ task[t] \in {"absent", "pending"} => stage[t] \in Unset
  BY <1>1 DEF InStep
<1>3. /\ UNCHANGED <<artifact, pc, job>>
      /\ handler'[t] # "undo"
      /\ \A u \in Tasks \ {t} : task'[u] = task[u] /\ stage'[u] = stage[u]
                                /\ handler'[u] = handler[u]
      /\ \/ task'[t] = task[t]
         \/ /\ handler[t] = "none" /\ task'[t] = "pending"
      /\ \/ stage'[t] = stage[t] \/ stage'[t] = "pending"
  BY <1>0, <1>1, <1>2 DEF CreateTask, RequestStep, CreateStage, DeleteTask, EnqueueTask, db,
                          worker, RowTypes
<1>4. handler[t] = "none" => task[t] = "absent"
  BY DEF LifeInv, Requested
<1>5. ASSUME NEW u \in Tasks
      PROVE  /\ handler'[u] # "undo"
             /\ task'[u] \in {"absent", "pending"} => stage'[u] \in Unset
             /\ Agreed(u)'
  <2>1. CASE u = t
    BY <1>1, <1>2, <1>3, <1>4, <2>1 DEF InStep, Agreed, Unset
  <2>2. CASE u # t
    BY <1>1, <1>3, <2>2 DEF InStep, Agreed, Unset
  <2> QED
    BY <2>1, <2>2
<1>6. ASSUME NEW w \in Workers, Executing(w)'
      PROVE  OnCourse(w)'
  <2>1. Executing(w) /\ job[w] \in Tasks /\ OnCourse(w)
    BY <1>0, <1>1, <1>3, <1>6 DEF Executing, WorkerTypes, InStep
  <2>2. handler[job[w]] # "none"
    BY <2>1 DEF LifeInv, Claimed
  <2>3. task'[job[w]] = task[job[w]] /\ stage'[job[w]] \in {stage[job[w]], "pending"}
    BY <1>3, <2>1, <2>2
  <2> QED
    BY <1>3, <2>1, <2>3, StaysOnCourse
<1> QED
  BY <1>5, <1>6

LEMMA ServerInStep ==
    ASSUME TypeOK, InStep, NEW p \in Servers, StartServer(p) \/ BootStep(p) \/ Crash(p)
    PROVE  InStep'
<1>0. RowTypes /\ ServerTypes /\ WorkerTypes
  BY TypeParts
<1>1. UNCHANGED db
  BY DEF StartServer, BootStep, BootEnqueue, BootDone, Crash
<1>2. \A u \in Tasks : handler'[u] \in {handler[u], "ended"}
  BY <1>0 DEF StartServer, BootStep, BootEnqueue, BootDone, Crash, request, RowTypes
<1>3. faults' = 0 => faults = 0
  BY <1>0, StillNoFault DEF StartServer, BootStep, BootEnqueue, BootDone, Crash, NoFault
<1>4. ASSUME NEW w \in Workers, Executing(w)', faults = 0
      PROVE  OnCourse(w)'
  <2>1. Executing(w) /\ job'[w] = job[w] /\ pc'[w] = pc[w]
    BY <1>4, ServerStops
  <2>2. job[w] \in Tasks /\ OnCourse(w)
    BY <1>0, <1>4, <2>1 DEF Executing, WorkerTypes, InStep
  <2> QED
    BY <1>1, <2>1, <2>2, StaysOnCourse DEF db
<1> QED
  BY <1>1, <1>2, <1>3, <1>4 DEF InStep, Agreed, Unset, db

\* A step of a worker past its claim leaves the rows of the other tasks, and those of
\* its own task as the next step expects them, or agreed.
LEMMA ExecutingRows ==
    ASSUME TypeOK, LifeInv, InStep, NEW w \in Workers, WorkerStep(w), Executing(w),
           NEW t \in Tasks, t = job[w], faults' = 0
    PROVE  /\ faults = 0
           /\ \A u \in Tasks \ {t} :
                  stage'[u] = stage[u] /\ (u \in artifact' <=> u \in artifact)
           /\ task'[t] # "absent" /\ task'[t] # "pending"
           /\ Agreed(t)'
           /\ Executing(w)' => OnCourse(w)'
<1>0. RowTypes /\ ServerTypes /\ WorkerTypes
  BY TypeParts
<1>1. Fault \/ NoFault
  BY DEF WorkerStep, TakeJob, ClaimTask, BeginStage, ExecSuccess, ExecFailure, Succeed,
         RecordArtifacts, FailStageRow, FailTaskRow, FinishTaskWithError,
         FinishTaskCompleted, NoFault
<1>2. ~Fault /\ faults = 0
  BY <1>0, <1>1, StillNoFault
<1>3. t \in Tasks /\ OnCourse(w)
  BY <1>0, <1>2 DEF Executing, WorkerTypes, InStep
<1>4. task[t] = "running" \/ (task[t] = "failed" /\ pc[w] = "fail")
  BY <1>3 DEF LifeInv, Claimed, OnCourse
<1>5. task[t] # "absent" /\ stage[t] \in StageStatus /\ Agreed(t)
  BY <1>2, <1>3, <1>4 DEF RowTypes, InStep, TypeOK
<1>6. \A v : SetTask(t, v) => task'[t] = v
  BY <1>0, <1>3, <1>5 DEF SetTask, RowTypes
<1>7. \A v : SetStage(t, v) =>
          /\ stage'[t] = IF stage[t] = "absent" THEN "absent" ELSE v
          /\ \A u \in Tasks \ {t} : stage'[u] = stage[u]
  BY <1>0, <1>3 DEF SetStage, RowTypes
<1>8. \A v : Goto(w, v) => pc'[w] = v
  BY <1>0 DEF Goto, WorkerTypes
<1>9. Idle(w) => pc'[w] = "idle"
  BY <1>8 DEF Idle
<1>10. CASE BeginStage(w)
  <2>1. /\ pc[w] = "begin" /\ pc'[w] = "exec" /\ UNCHANGED <<task, artifact, job>>
        /\ SetStage(t, "running")
    BY <1>2, <1>8, <1>10 DEF BeginStage
  <2> QED
    BY <1>2, <1>3, <1>4, <1>7, <2>1 DEF OnCourse, Agreed, Unset
<1>11. CASE ExecSuccess(w) \/ ExecFailure(w)
  <2>1. /\ pc[w] = "exec" /\ pc'[w] \in {"exec", "succeed", "failRow"}
        /\ UNCHANGED <<task, stage, artifact, job>>
    BY <1>8, <1>11 DEF ExecSuccess, ExecFailure, db
  <2> QED
    BY <1>2, <1>3, <1>4, <2>1 DEF OnCourse, Agreed, Unset
<1>12. CASE Succeed(w)
  <2>1. /\ pc[w] = "succeed" /\ pc'[w] = "record" /\ UNCHANGED <<task, artifact, job>>
        /\ SetStage(t, "success")
    BY <1>2, <1>8, <1>12 DEF Succeed
  <2> QED
    BY <1>2, <1>3, <1>4, <1>7, <2>1 DEF OnCourse, Agreed, Unset
<1>13. CASE RecordArtifacts(w)
  <2>1. /\ pc[w] = "record" /\ pc'[w] = "complete" /\ UNCHANGED <<task, stage, job>>
        /\ artifact' = artifact \cup {t}
    BY <1>2, <1>5, <1>8, <1>13 DEF RecordArtifacts
  <2> QED
    BY <1>2, <1>3, <1>4, <2>1 DEF OnCourse, Agreed, Unset
<1>14. CASE FailStageRow(w)
  <2>1. /\ pc[w] = "failRow" /\ pc'[w] = "failTask" /\ UNCHANGED <<task, artifact, job>>
        /\ SetStage(t, "failed")
    BY <1>2, <1>8, <1>14 DEF FailStageRow
  <2> QED
    BY <1>2, <1>3, <1>4, <1>7, <2>1 DEF OnCourse, Agreed, Unset
<1>15. CASE FailTaskRow(w)
  <2>1. /\ pc[w] = "failTask" /\ pc'[w] = "fail" /\ UNCHANGED <<stage, artifact, job>>
        /\ task'[t] = "failed"
    BY <1>2, <1>6, <1>8, <1>15 DEF FailTaskRow
  <2> QED
    BY <1>2, <1>3, <2>1 DEF OnCourse, Agreed, Unset
<1>16. CASE FinishTaskWithError(w)
  <2>1. /\ pc[w] = "fail" /\ pc'[w] = "idle" /\ UNCHANGED <<stage, artifact>>
        /\ task'[t] = "failed"
    BY <1>2, <1>6, <1>9, <1>16 DEF FinishTaskWithError
  <2> QED
    BY <1>2, <1>3, <1>5, <2>1 DEF OnCourse, Agreed, Unset, Executing, StageStatus
<1>17. CASE FinishTaskCompleted(w)
  <2>1. /\ pc[w] = "complete" /\ pc'[w] = "idle" /\ UNCHANGED <<stage, artifact>>
        /\ task'[t] = "completed"
    BY <1>2, <1>6, <1>9, <1>17 DEF FinishTaskCompleted
  <2> QED
    BY <1>2, <1>3, <1>5, <2>1 DEF OnCourse, Agreed, Unset, Executing, StageStatus
<1>18. ~TakeJob(w) /\ ~ClaimTask(w)
  BY DEF Executing, TakeJob, ClaimTask
<1> QED
  BY <1>10, <1>11, <1>12, <1>13, <1>14, <1>15, <1>16, <1>17, <1>18 DEF WorkerStep

LEMMA WorkerInStep ==
    ASSUME TypeOK, LifeInv, InStep, NEW w \in Workers, WorkerStep(w)
    PROVE  InStep'
<1>0. RowTypes /\ ServerTypes /\ WorkerTypes
  BY TypeParts
<1> SUFFICES ASSUME faults' = 0
             PROVE  /\ \A u \in Tasks : /\ handler'[u] # "undo"
                                        /\ task'[u] \in {"absent", "pending"}
                                              => stage'[u] \in Unset
                                        /\ Agreed(u)'
                    /\ \A x \in Workers : Executing(x)' => OnCourse(x)'
  BY DEF InStep, Unset
<1>1. CASE Executing(w)
  <2>0. PICK t \in Tasks : t = job[w]
    BY <1>1, ExecutingStep
  <2>1. /\ \A u \in Tasks \ {t} : task'[u] = task[u]
        /\ UNCHANGED handler
        /\ \A x \in Workers \ {w} : pc'[x] = pc[x] /\ job'[x] = job[x]
    BY <1>1, <2>0, ExecutingStep
  <2>2. /\ faults = 0
        /\ \A u \in Tasks \ {t} :
               stage'[u] = stage[u] /\ (u \in artifact' <=> u \in artifact)
        /\ task'[t] # "absent" /\ task'[t] # "pending"
        /\ Agreed(t)'
        /\ Executing(w)' => OnCourse(w)'
    BY <1>1, <2>0, ExecutingRows
  <2>3. ASSUME NEW u \in Tasks
        PROVE  /\ handler'[u] # "undo"
               /\ task'[u] \in {"absent", "pending"} => stage'[u] \in Unset
               /\ Agreed(u)'
    <3>1. CASE u = t
      <4>1. handler[u] # "undo"
        BY <2>2 DEF InStep
      <4>2. Agreed(u)'
        BY <2>2, <3>1 DEF Agreed
      <4> QED
        BY <2>1, <2>2, <3>1, <4>1, <4>2
    <3>2. CASE u # t
      BY <2>1, <2>2, <3>2 DEF InStep, Agreed, Unset
    <3> QED
      BY <3>1, <3>2
  <2>4. ASSUME NEW x \in Workers, Executing(x)', x # w
        PROVE  OnCourse(x)'
    <3>1. Executing(x) /\ job[x] \in Tasks /\ OnCourse(x)
      BY <1>0, <2>1, <2>2, <2>4 DEF Executing, WorkerTypes, InStep
    <3>2. job[x] # t
      BY <1>1, <2>0, <2>4, <3>1 DEF LifeInv, SingleExecutor
    <3> QED
      BY <2>1, <2>2, <2>4, <3>1, <3>2, StaysOnCourse
  <2> QED
    BY <2>2, <2>3, <2>4
<1>2. CASE ~Executing(w)
  <2>1. /\ TakeJob(w) \/ ClaimTask(w)
        /\ UNCHANGED <<stage, artifact>>
    BY <1>2 DEF Executing, WorkerStep, TakeJob, ClaimTask, BeginStage, ExecSuccess,
           ExecFailure, Succeed, RecordArtifacts, FailStageRow, FailTaskRow,
           FinishTaskWithError, FinishTaskCompleted, db
  <2>2. faults = 0
    BY <1>0, <2>1, StillNoFault DEF TakeJob, ClaimTask, NoFault
  <2>3. /\ UNCHANGED handler
        /\ \A x \in Workers \ {w} : pc'[x] = pc[x] /\ job'[x] = job[x]
        /\ \/ UNCHANGED task /\ ~Executing(w)'
           \/ /\ job[w] \in Tasks /\ task[job[w]] = "pending"
              /\ job'[w] = job[w] /\ pc'[w] = "begin"
              /\ task' = [task EXCEPT ![job[w]] = "running"]
    BY <1>2, OtherWorkerStep, Zenon
  <2>4. \A u \in Tasks :
            task'[u] = task[u] \/ (task[u] = "pending" /\ task'[u] = "running")
    BY <1>0, <2>3 DEF RowTypes
  <2>5. ASSUME NEW u \in Tasks
        PROVE  /\ handler'[u] # "undo"
               /\ task'[u] \in {"absent", "pending"} => stage'[u] \in Unset
               /\ Agreed(u)'
    BY <2>1, <2>2, <2>3, <2>4 DEF InStep, Agreed, Unset
  <2>6. ASSUME NEW x \in Workers, Executing(x)', x # w
        PROVE  OnCourse(x)'
    <3>1. Executing(x) /\ job[x] \in Tasks /\ OnCourse(x)
      BY <1>0, <2>2, <2>3, <2>6 DEF Executing, WorkerTypes, InStep
    <3>2. task[job[x]] # "pending"
      BY <3>1 DEF LifeInv, Claimed
    <3>3. task'[job[x]] = task[job[x]]
      BY <2>4, <3>1, <3>2
    <3> QED
      BY <2>1, <2>3, <2>6, <3>1, <3>3, StaysOnCourse
  <2>7. ASSUME Executing(w)'
        PROVE  OnCourse(w)'
    <3>1. /\ job[w] \in Tasks /\ task[job[w]] = "pending"
          /\ job'[w] = job[w] /\ pc'[w] = "begin"
          /\ task' = [task EXCEPT ![job[w]] = "running"]
      BY <2>3, <2>7
    <3>2. task'[job[w]] = "running" /\ stage[job[w]] \in Unset
      BY <1>0, <2>2, <3>1 DEF RowTypes, InStep
    <3> QED
      BY <2>1, <3>1, <3>2 DEF OnCourse, Unset
  <2> QED
    BY <2>5, <2>6, <2>7
<1> QED
  BY <1>1, <1>2

\* In a system where no command failed the rows of a finished task agree with its
\* status: updateStageStatus, createArtifact and the finish functions write in an order
\* in which none of them is overtaken, through restarts and with several servers.
THEOREM FinishedRowsTell == Spec => []FinishedRowsAgree
<1>1. Init => InStep
  BY DEF Init, InStep, Agreed, Unset, Executing
<1>2. TypeOK /\ LifeInv /\ InStep /\ [Next]_vars => InStep'
  <2> SUFFICES ASSUME TypeOK, LifeInv, InStep, [Next]_vars PROVE InStep'
    OBVIOUS
  <2>1. CASE UNCHANGED vars
    BY <2>1 DEF vars, InStep, Agreed, Unset, Executing, OnCourse
  <2>2. ASSUME NEW t \in Tasks, CreateTask(t) \/ RequestStep(t) PROVE InStep'
    BY <2>2, RequestInStep
  <2>3. ASSUME NEW p \in Servers, StartServer(p) \/ BootStep(p) \/ Crash(p) PROVE InStep'
    BY <2>3, ServerInStep
  <2>4. ASSUME NEW w \in Workers, WorkerStep(w) PROVE InStep'
    BY <2>4, WorkerInStep
  <2> QED
    BY <2>1, <2>2, <2>3, <2>4 DEF Next
<1>3. InStep => FinishedRowsAgree
  BY DEF InStep, FinishedRowsAgree, Agreed, Unset
<1> QED
  BY <1>1, <1>2, <1>3, LifeInvariant, PTL DEF Spec

-----------------------------------------------------------------------------
(* The refinement.                                                         *)

Bar == [t \in Tasks |-> StatusOf(t)]

\* One task's status changes.
LEMMA Becomes ==
    ASSUME NEW t \in Tasks, NEW v, StatusOf(t)' = v,
           \A u \in Tasks \ {t} : StatusOf(u)' = StatusOf(u)
    PROVE  Bar' = [Bar EXCEPT ![t] = v]
  BY DEF Bar

\* No task's status changes.
LEMMA Stutters ==
    ASSUME \A u \in Tasks : StatusOf(u)' = StatusOf(u)
    PROVE  Bar' = Bar
  BY DEF Bar

LEMMA SameStatus ==
    ASSUME NEW u \in Tasks, task'[u] = task[u], (handler'[u] = "none") = (handler[u] = "none")
    PROVE  StatusOf(u)' = StatusOf(u)
  BY DEF StatusOf

LEMMA RequestRefines ==
    ASSUME TypeOK, LifeInv, NEW t \in Tasks, CreateTask(t) \/ RequestStep(t)
    PROVE  [Abstract!LifecycleNext]_Bar
<1>0. RowTypes
  BY TypeParts
<1>1. \A u \in Tasks \ {t} : StatusOf(u)' = StatusOf(u)
  <2>1. \A u \in Tasks \ {t} : task'[u] = task[u] /\ handler'[u] = handler[u]
    BY <1>0 DEF CreateTask, RequestStep, CreateStage, DeleteTask, EnqueueTask, db, RowTypes
  <2> QED
    BY <2>1, SameStatus
<1>2. CASE CreateTask(t)
  <2>1. /\ handler[t] = "none" /\ handler'[t] # "none"
        /\ task'[t] = "pending" \/ task'[t] = task[t]
    BY <1>0, <1>2 DEF CreateTask, RowTypes
  <2>2. task[t] = "absent"
    BY <2>1 DEF LifeInv, Requested
  <2>3. StatusOf(t) = "none" /\ StatusOf(t)' \in {"pending", "withdrawn"}
    BY <2>1, <2>2 DEF StatusOf
  <2>4. Bar[t] = "none" /\ Bar' = [Bar EXCEPT ![t] = StatusOf(t)']
    BY <1>1, <2>3, Becomes DEF Bar
  <2>5. Abstract!Accept(t)
    BY <2>3, <2>4 DEF Abstract!Accept, Abstract!Become, Bar
  <2> QED
    BY <2>5 DEF Abstract!LifecycleNext
<1>3. CASE DeleteTask(t)
  <2>1. /\ handler[t] = "undo" /\ handler'[t] = "ended"
        /\ task'[t] = "absent" \/ task'[t] = task[t]
    BY <1>0, <1>3 DEF DeleteTask, db, RowTypes
  <2>2. CASE task'[t] = "absent"
    <3>1. StatusOf(t) # "none" /\ StatusOf(t)' = "withdrawn"
      BY <1>0, <2>1, <2>2 DEF StatusOf, RowTypes, TaskStatus
    <3>2. Bar[t] # "none" /\ Bar' = [Bar EXCEPT ![t] = "withdrawn"]
      BY <1>1, <3>1, Becomes DEF Bar
    <3>3. Abstract!Withdraw(t)
      BY <3>2 DEF Abstract!Withdraw, Abstract!Become, Bar
    <3> QED
      BY <3>3 DEF Abstract!LifecycleNext
  <2>3. CASE task'[t] = task[t]
    <3>1. StatusOf(t)' = StatusOf(t)
      BY <2>1, <2>3, SameStatus
    <3> QED
      BY <1>1, <3>1, Stutters
  <2> QED
    BY <2>1, <2>2, <2>3
<1>4. CASE CreateStage(t) \/ EnqueueTask(t)
  <2>1. /\ handler[t] # "none" /\ handler'[t] # "none"
        /\ task'[t] = task[t]
    BY <1>0, <1>4 DEF CreateStage, EnqueueTask, db, RowTypes
  <2>2. StatusOf(t)' = StatusOf(t)
    BY <2>1, SameStatus
  <2> QED
    BY <1>1, <2>2, Stutters
<1> QED
  BY <1>2, <1>3, <1>4 DEF RequestStep

LEMMA ServerRefines ==
    ASSUME TypeOK, NEW p \in Servers, StartServer(p) \/ BootStep(p) \/ Crash(p)
    PROVE  Bar' = Bar
<1>1. RowTypes
  BY TypeParts
<1>2. UNCHANGED task
  BY DEF StartServer, BootStep, BootEnqueue, BootDone, Crash, db
<1>3. \A u \in Tasks : (handler'[u] = "none") = (handler[u] = "none")
  BY <1>1 DEF StartServer, BootStep, BootEnqueue, BootDone, Crash, request, RowTypes
<1> QED
  BY <1>2, <1>3, SameStatus, Stutters

LEMMA WorkerRefines ==
    ASSUME TypeOK, LifeInv, NEW w \in Workers, WorkerStep(w)
    PROVE  [Abstract!LifecycleNext]_Bar
<1>0. RowTypes
  BY TypeParts
<1>1. CASE UNCHANGED <<task, handler>>
  <2>1. \A u \in Tasks : StatusOf(u)' = StatusOf(u)
    BY <1>1, SameStatus
  <2> QED
    BY <2>1, Stutters
<1>2. CASE ~UNCHANGED <<task, handler>>
  <2>0. job[w] \in Tasks
    BY <1>2, ExecutingStep, OtherWorkerStep
  <2> DEFINE Moves(t) ==
               /\ UNCHANGED handler
               /\ \A u \in Tasks \ {t} : task'[u] = task[u]
               /\ \/ task[t] = "pending" /\ task'[t] = "running"
                  \/ task[t] = "running" /\ task'[t] \in {"completed", "failed"}
  <2>1. PICK t \in Tasks : Moves(t)
    <3>0. PICK t \in Tasks : t = job[w]
      BY <2>0
    <3>1. CASE Executing(w)
      <4>1. /\ UNCHANGED handler
            /\ \A u \in Tasks \ {t} : task'[u] = task[u]
            /\ \/ task'[t] = task[t]
               \/ task[t] = "running" /\ task'[t] \in {"completed", "failed"}
        BY <3>0, <3>1, ExecutingStep
      <4>2. task'[t] # task[t]
        <5> SUFFICES ASSUME task'[t] = task[t] PROVE FALSE
          OBVIOUS
        <5>1. \A u \in Tasks : task'[u] = task[u]
          BY <4>1
        <5>2. task' \in [Tasks -> TaskStatus]
          BY WorkerStepTypes DEF TypeOK
        <5>3. task' = task
          BY <1>0, <5>1, <5>2 DEF RowTypes
        <5> QED
          BY <1>2, <4>1, <5>3
      <4> QED
        BY <4>1, <4>2
    <3>2. CASE ~Executing(w)
      <4>1. /\ UNCHANGED handler /\ task[t] = "pending"
            /\ task' = [task EXCEPT ![t] = "running"]
        BY <1>2, <3>0, <3>2, OtherWorkerStep
      <4> QED
        BY <1>0, <4>1 DEF RowTypes
    <3> QED
      BY <3>1, <3>2
  <2>2. \A u \in Tasks \ {t} : StatusOf(u)' = StatusOf(u)
    BY <2>1, SameStatus
  <2>3. StatusOf(t) = task[t] /\ StatusOf(t)' = task'[t]
    <3>1. task[t] # "absent" /\ task'[t] # "absent"
      BY <2>1
    <3> QED
      BY <3>1 DEF StatusOf
  <2>4. Bar[t] = task[t] /\ Bar' = [Bar EXCEPT ![t] = task'[t]]
    <3>1. Bar[t] = task[t]
      BY <2>1, <2>3 DEF Bar
    <3>2. t \in Tasks /\ StatusOf(t)' = task'[t]
      BY <2>1, <2>3
    <3> QED
      BY <2>2, <3>1, <3>2, Becomes
  <2>5. Abstract!Start(t) \/ Abstract!End(t)
    BY <2>1, <2>4 DEF Abstract!Start, Abstract!End, Abstract!Become, Bar
  <2> QED
    BY <2>1, <2>5 DEF Abstract!LifecycleNext
<1> QED
  BY <1>1, <1>2

\* The service implements the life of a task, whatever servers crash and whatever
\* database commands fail.
THEOREM DetectionIsLifecycle == Spec => Lifecycle
<1>1. Init => Abstract!LifecycleInit
  BY DEF Init, StatusOf, Abstract!LifecycleInit
<1>2. ASSUME TypeOK, LifeInv, [Next]_vars
      PROVE  [Abstract!LifecycleNext]_Bar
  <2>1. CASE UNCHANGED vars
    <3>1. \A u \in Tasks : StatusOf(u)' = StatusOf(u)
      BY <2>1 DEF vars, StatusOf
    <3> QED
      BY <3>1, Stutters
  <2>2. ASSUME NEW t \in Tasks, CreateTask(t) \/ RequestStep(t)
        PROVE  [Abstract!LifecycleNext]_Bar
    BY <1>2, <2>2, RequestRefines
  <2>3. ASSUME NEW p \in Servers, StartServer(p) \/ BootStep(p) \/ Crash(p)
        PROVE  [Abstract!LifecycleNext]_Bar
    BY <1>2, <2>3, ServerRefines
  <2>4. ASSUME NEW w \in Workers, WorkerStep(w)
        PROVE  [Abstract!LifecycleNext]_Bar
    BY <1>2, <2>4, WorkerRefines
  <2> QED
    BY <1>2, <2>1, <2>2, <2>3, <2>4 DEF Next
<1>3. TypeOK /\ LifeInv /\ [Next]_vars => [Abstract!LifecycleNext]_[t \in Tasks |-> StatusOf(t)]
  BY <1>2 DEF Bar
<1> QED
  BY <1>1, <1>3, LifeInvariant, PTL DEF Spec, Lifecycle, Abstract!LifecycleSpec
-----------------------------------------------------------------------------
(* The executor of the run restarts is one of PanRpcArgo, whose theorem is *)
(* MergedIsKept.                                                           *)

ArgoProofs == INSTANCE PanRpcArgoProofs WITH
    Executors <- {Executor}, NumAreas <- 4, StageMaxRetries <- 1, TaskPathIsolation <- TRUE,
    Budget <- [crash |-> 2, mergeCrash |-> 0, fault |-> 0, workflow |-> 0, timeout |-> 0],
    stage <- wStage, workers <- wWorkers, merged <- wMerged, wf <- wWf, last <- wLast,
    pc <- wPc, attempt <- wAttempt, seen <- wSeen, area <- wArea, spent <- wSpent

LEMMA SameAssumption == ArgoProofs!ArgoAssumption
  BY DEF ArgoProofs!ArgoAssumption, ArgoProofs!Hazards

LEMMA SameInit == Argo!Init => ArgoProofs!Init
  BY DEF Argo!Hazards, ArgoProofs!Hazards, Argo!Areas, ArgoProofs!Areas, Argo!Init, ArgoProofs!Init

LEMMA SameNext == Argo!Next => ArgoProofs!Next
  BY DEF Argo!Hazards, ArgoProofs!Hazards, Argo!Areas, ArgoProofs!Areas, Argo!vars,
         ArgoProofs!vars, Argo!files, ArgoProofs!files, Argo!argo, ArgoProofs!argo,
         Argo!Strike, ArgoProofs!Strike, Argo!NoHazard, ArgoProofs!NoHazard, Argo!Goto,
         ArgoProofs!Goto, Argo!AttemptFails, ArgoProofs!AttemptFails, Argo!CallFails,
         ArgoProofs!CallFails, Argo!StartMerge, ArgoProofs!StartMerge, Argo!Begin,
         ArgoProofs!Begin, Argo!MergedPartsExist, ArgoProofs!MergedPartsExist,
         Argo!CheckMerged, ArgoProofs!CheckMerged, Argo!PrepareWorkerDirs,
         ArgoProofs!PrepareWorkerDirs, Argo!CheckWorkerParts, ArgoProofs!CheckWorkerParts,
         Argo!LatestPhase, ArgoProofs!LatestPhase, Argo!LatestWorkflow,
         ArgoProofs!LatestWorkflow, Argo!CreateWorkflow, ArgoProofs!CreateWorkflow,
         Argo!SubmitWorkflow, ArgoProofs!SubmitWorkflow, Argo!WaitWorkflow,
         ArgoProofs!WaitWorkflow, Argo!MergeArea, ArgoProofs!MergeArea, Argo!CleanWorkers,
         ArgoProofs!CleanWorkers, Argo!Succeed, ArgoProofs!Succeed, Argo!GiveUp,
         ArgoProofs!GiveUp, Argo!MidMerge, ArgoProofs!MidMerge, Argo!Crash,
         ArgoProofs!Crash, Argo!SetPhase, ArgoProofs!SetPhase, Argo!StartWorkflow,
         ArgoProofs!StartWorkflow, Argo!WritePart, ArgoProofs!WritePart, Argo!EndWorkflow,
         ArgoProofs!EndWorkflow, Argo!FailWorkflow, ArgoProofs!FailWorkflow,
         Argo!ExecutorStep, ArgoProofs!ExecutorStep, Argo!ControllerStep,
         ArgoProofs!ControllerStep, Argo!Next, ArgoProofs!Next, Argo!Cardinality,
         ArgoProofs!Cardinality

LEMMA ExecutorOfScenario == EitherSpec => ArgoProofs!Spec
<1>1. EitherInit => ArgoProofs!Init
  BY SameInit DEF EitherInit
<1>2. [EitherNext]_<<vars, workflowVars, chosen>> => [ArgoProofs!Next]_(ArgoProofs!vars)
  BY SameNext DEF EitherNext, workflowVars, ArgoProofs!vars, ArgoProofs!files, ArgoProofs!argo
<1> QED
  BY <1>1, <1>2, PTL DEF EitherSpec, ArgoProofs!Spec

\* The executor is killed and begins again: once all parts are merged it submits no
\* workflow (mergePanRpcOnPersist, the first resume branch of executePanRpcViaArgo).
THEOREM MergedSurvivesRestarts == EitherSpec => MergedIsNotRecomputed
<1>1. \A d, e \in {Executor} : d = e
  OBVIOUS
<1>2. ArgoProofs!Spec => ArgoProofs!MergedIsNotRecomputed
  BY <1>1, SameAssumption, ArgoProofs!MergedIsKept
<1>3. ArgoProofs!MergedIsNotRecomputed => MergedIsNotRecomputed
  BY PTL DEF MergedIsNotRecomputed, Argo!MergedIsNotRecomputed, ArgoProofs!MergedIsNotRecomputed,
     Argo!vars, ArgoProofs!vars, Argo!files, ArgoProofs!files, Argo!argo, ArgoProofs!argo,
     Argo!Areas, ArgoProofs!Areas
<1> QED
  BY <1>2, <1>3, ExecutorOfScenario
=============================================================================
