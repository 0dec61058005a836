------------------------- MODULE TaskPipelineSafety -------------------------
(***************************************************************************)
(* What a task of TaskPipeline has behind it, for all values of the        *)
(* constants:                                                              *)
(*                                                                         *)
(*   CompletionIsEarned   a completed task ran every stage;                *)
(*   PipelineIsStaged     the pipeline implements StagedTask: stages in    *)
(*                        order and after the claim, completed only after  *)
(*                        all of them, and an end that is final;           *)
(*   DetectionWasAsked    detection runs only for tasks whose request asked*)
(*                        for it, as long as nothing was restarted.        *)
(*                                                                         *)
(* None is inductive.  What a completion rests on is spread over rows,     *)
(* goroutines and messages: a stage row that says success was earned, a    *)
(* goroutine at stage k has the stages before k behind it, and a message   *)
(* on od.jobs promises that the stages before detection were carried out.  *)
(* Earned is the conjunction of these.  That nobody works on a task which  *)
(* CreateTask may still delete is Unstarted; that whoever works on a task  *)
(* found it claimed is ClaimedFirst.  WorkRecorded says for an undisturbed *)
(* system that a stage's work is in its row or about to be written there,  *)
(* so that no stage is carried out twice.                                  *)
(* The flag of the request travels with the job from CreateTask to the     *)
(* goroutine; AsAsked says that it does so unchanged.                      *)
(*                                                                         *)
(*   DetectionStaysClosed   with one goroutine for detection and no failing*)
(*                          command, a completed task's detection row is   *)
(*                          not set running again.                         *)
(*                                                                         *)
(* That one rests on DetectedFirst: whoever may complete a task finds its  *)
(* detection row successful, and whoever may set that row finds it not so. *)
(*                                                                         *)
(* And who holds its job:                                                  *)
(*                                                                         *)
(*   DeliveredToOne     no two workers have the same message, unless a     *)
(*                      claim or a new group took it from a live holder;   *)
(*   NothingForgotten   while no command fails and no worker dies with a   *)
(*                      job, a pending task has its job scheduled;         *)
(*   FinishedRowsTell   while nothing at all goes wrong, the stage rows of *)
(*                      a finished task say what its own row says.         *)
(*                                                                         *)
(* OneHolder adds to the first that Redis counts a held message as taken   *)
(* and not idle, in every place a holder can be: buffer, or goroutine.     *)
(* NotForgotten follows the job of a pending task from the CreateTask call *)
(* through stream, buffer, goroutine and hand-back.  InStep is the course  *)
(* of a run, step by step: for each program counter the rows it finds; it  *)
(* holds because a task has at most one job (OneCarrier), which is why it  *)
(* builds on the other two.                                                *)
(***************************************************************************)
EXTENDS TaskPipelineProofs

\* A stage row says success only if the stage's work was carried out.
SuccessEarned == \A t \in Tasks, k \in Stages : stage[t][k] = "success" => k \in done[t]

\* Detection was carried out only after the stages before it.
DetectionLast == \A t \in Tasks : OD \in done[t] => Prep \subseteq done[t]

\* A job on od.jobs is for a task whose stages before detection were carried out.
ODJobsReady == \A i \in DOMAIN queue["od"] : Prep \subseteq done[queue["od"][i].task]

\* What a goroutine that is not free relies on.
Justified(s) ==
    ~At(s, "free") =>
        /\ run[s].skip \subseteq done[run[s].task]
        /\ 1 .. (run[s].k - 1) \subseteq done[run[s].task]
        /\ run[s].pc \in {"succeed", "record"} => run[s].k \in done[run[s].task]
        /\ At(s, "finish") => done[run[s].task] = Stages
        /\ run[s].pc \in {"odRow", "odAdd", "begin"} => run[s].k = OD

Earned ==
    /\ SuccessEarned
    /\ DetectionLast
    /\ ODJobsReady
    /\ \A s \in Slots : Justified(s)
    /\ CompletedRanEveryStage

\* Until the CreateTask call of a task has ended, its row is as that call left it,
\* and no job names the task and no process is about to enqueue one.
Untouched(t) ==
    /\ task[t] = IF handler[t] = "none" THEN "absent" ELSE "pending"
    /\ \A q \in Queues : \A i \in DOMAIN queue[q] : queue[q][i].task # t
    /\ \A p \in Procs : t \notin todo[p]

\* An API process that is not up serves no request.
Unstarted ==
    /\ \A t \in Tasks : handler[t] # "ended" => Untouched(t)
    /\ proc[API] # "up" => \A t \in Tasks : handler[t] \in {"none", "ended"}

\* No process that reads the flag of the row when it starts was restarted.
NoRestart == spent["apiCrash"] = 0 /\ spent["rsCrash"] = 0 /\ spent["handBack"] = 0

AllServe == \A p \in Procs : proc[p] = "up" \/ (p \in ODWorkers /\ proc[p] = "down")

\* The flag of every job is what the request of its task asked for.
JobsAsAsked ==
    /\ \A i \in DOMAIN queue["rs"] : queue["rs"][i].detect = wants[queue["rs"][i].task]
    /\ \A i \in DOMAIN queue["od"] : wants[queue["od"][i].task]

RunsAsAsked ==
    \A s \in Slots : ~At(s, "free") =>
        /\ IsRS(s) => run[s].detect = wants[run[s].task]
        /\ At(s, "odRow") \/ At(s, "odAdd") => run[s].detect
        /\ At(s, "odAdd") => IsRS(s)

AsAsked == NoRestart => AllServe /\ JobsAsAsked /\ RunsAsAsked

-----------------------------------------------------------------------------
(* Earned is inductive.                                                    *)

LEMMA InitEarned == Init => Earned
<1> SUFFICES ASSUME Init
             PROVE  Earned
  OBVIOUS
<1>1. SuccessEarned /\ DetectionLast /\ CompletedRanEveryStage
  BY DEF Init, SuccessEarned, DetectionLast, CompletedRanEveryStage
<1>2. ODJobsReady
  BY DEF Init, ODJobsReady, Queues
<1>3. \A s \in Slots : Justified(s)
  BY FreeType DEF Init, Justified, At
<1> QED
  BY <1>1, <1>2, <1>3 DEF Earned

\* Work once carried out stays so, hence goroutines that do not move stay justified.
LEMMA EarnedKept ==
    ASSUME TypeOK, TypeOK', Earned, \A t \in Tasks : done[t] \subseteq done'[t],
           \A x \in Slots : run'[x] = run[x] \/ Justified(x)',
           SuccessEarned', DetectionLast', ODJobsReady', CompletedRanEveryStage'
    PROVE  Earned'
<1>1. ASSUME NEW x \in Slots, run'[x] = run[x], ~At(x, "free")
      PROVE  Justified(x)'
  <2> DEFINE t == run[x].task
  <2>1. t \in Tasks /\ done[t] \subseteq done'[t] /\ done'[t] \subseteq Stages
    BY <1>1, BusyRun DEF TypeOK, RowTypes
  <2>2. /\ run[x].skip \subseteq done[t]
        /\ 1 .. (run[x].k - 1) \subseteq done[t]
        /\ run[x].pc \in {"succeed", "record"} => run[x].k \in done[t]
        /\ run[x].pc = "finish" => done[t] = Stages
        /\ run[x].pc \in {"odRow", "odAdd", "begin"} => run[x].k = OD
    BY <1>1 DEF Earned, Justified, At
  <2> HIDE DEF t
  <2>3. /\ run[x].skip \subseteq done'[t]
        /\ 1 .. (run[x].k - 1) \subseteq done'[t]
        /\ run[x].pc \in {"succeed", "record"} => run[x].k \in done'[t]
        /\ run[x].pc = "finish" => done'[t] = Stages
    BY <2>1, <2>2
  <2> QED
    BY <1>1, <2>2, <2>3 DEF Justified, At, t
<1>2. ASSUME NEW x \in Slots, run'[x] = run[x], At(x, "free")
      PROVE  Justified(x)'
  BY <1>2 DEF Justified, At
<1> QED
  BY <1>1, <1>2 DEF Earned

LEMMA QuietEarned ==
    ASSUME TypeOK, TypeOK', Earned, NEW s \in Slots,
           UNCHANGED <<task, stage, done, queue>>,
           Justified(s)' /\ \A x \in Slots \ {s} : run'[x] = run[x]
    PROVE  Earned'
<1>1. SuccessEarned' /\ DetectionLast' /\ ODJobsReady' /\ CompletedRanEveryStage'
  BY DEF Earned, SuccessEarned, DetectionLast, ODJobsReady, CompletedRanEveryStage
<1> QED
  BY <1>1, EarnedKept

\* Where a goroutine may go.
LEMMA JustifiedTo ==
    ASSUME NEW s \in Slots, NEW p, NEW n, NEW m, NEW a, RunTo(s, p, n, m, a),
           m \subseteq done'[run[s].task],
           1 .. (n - 1) \subseteq done'[run[s].task],
           p \in {"succeed", "record"} => n \in done'[run[s].task],
           p = "finish" => done'[run[s].task] = Stages,
           p \in {"odRow", "odAdd", "begin"} => n = OD
    PROVE  Justified(s)' /\ \A x \in Slots \ {s} : run'[x] = run[x]
  BY DEF RunTo, Justified, At

\* A goroutine whose stage was carried out may go on to the next.
LEMMA JustifiedAdvance ==
    ASSUME TypeOK, Earned, NEW s \in Slots, ~At(s, "free"), Advance(s),
           done' \in [Tasks -> SUBSET Stages],
           done[run[s].task] \subseteq done'[run[s].task],
           run[s].k \in done'[run[s].task]
    PROVE  Justified(s)' /\ \A x \in Slots \ {s} : run'[x] = run[x]
<1> DEFINE r == run[s]
           ds == done'[r.task]
<1>1. r \in Run /\ r.task \in Tasks /\ r.k \in Stages /\ run \in [Slots -> Run]
  BY BusyRun, RunFields DEF TypeOK, RunTypes
<1>2. r.skip \subseteq ds /\ 1 .. (r.k - 1) \subseteq ds /\ ds \subseteq Stages
  BY <1>1 DEF Earned, Justified
<1>3. r.k \in Nat /\ 1 .. r.k \subseteq ds
  BY <1>1, <1>2, StageNumbers DEF Stages, OD
<1>4. CASE r.k = OD /\ RunTo(s, "finish", r.k, r.skip, r.attempt)
  <2>1. ds = Stages
    BY <1>2, <1>3, <1>4 DEF Stages
  <2> QED
    BY <1>2, <1>4, <2>1, JustifiedTo
<1>5. CASE RunTo(s, "stage", r.k + 1, r.skip, 0)
  <2>1. 1 .. ((r.k + 1) - 1) \subseteq ds
    BY <1>3
  <2> QED
    BY <1>2, <1>5, <2>1, JustifiedTo
<1> QED
  BY <1>1, <1>4, <1>5, AdvanceRunTo

\* A goroutine that only changes its pc, to one that promises nothing new.
LEMMA JustifiedGoto ==
    ASSUME TypeOK, Earned, NEW s \in Slots, ~At(s, "free"), NEW p \in PC, Goto(s, p),
           done[run[s].task] \subseteq done'[run[s].task],
           p \in {"succeed", "record"} => run[s].k \in done'[run[s].task],
           p = "finish" => done'[run[s].task] = Stages,
           p \in {"odRow", "odAdd", "begin"} => run[s].k = OD
    PROVE  Justified(s)' /\ \A x \in Slots \ {s} : run'[x] = run[x]
<1>1. RunTo(s, p, run[s].k, run[s].skip, run[s].attempt)
  BY GotoRunTo DEF TypeOK, RunTypes
<1>2. /\ run[s].skip \subseteq done'[run[s].task]
      /\ 1 .. (run[s].k - 1) \subseteq done'[run[s].task]
  BY DEF Earned, Justified
<1> QED
  BY <1>1, <1>2, JustifiedTo

\* XADD, as a statement about the positions of a stream.
LEMMA XAddJobs ==
    ASSUME NEW a \in Seq(Entry(Tasks)), NEW t \in Tasks, NEW d \in BOOLEAN
    PROVE  /\ DOMAIN XAdd(a, t, d) = DOMAIN a \cup {Len(a) + 1}
           /\ \A i \in DOMAIN a : XAdd(a, t, d)[i] = a[i]
           /\ XAdd(a, t, d)[Len(a) + 1].task = t
<1> DEFINE e == [task |-> t, detect |-> d, st |-> "new", idle |-> FALSE]
<1>1. XAdd(a, t, d) = Append(a, e) /\ e.task = t
  BY DEF XAdd
<1> HIDE DEF e
<1> QED
  BY <1>1

\* Jobs on od.jobs name tasks.
LEMMA ODJobTasks ==
    ASSUME TypeOK
    PROVE  \A i \in DOMAIN queue["od"] : queue["od"][i].task \in Tasks
<1>1. queue["od"] \in Seq(Entry(Tasks))
  BY DEF TypeOK, StreamTypes, Queues
<1>2. \A i \in DOMAIN queue["od"] : queue["od"][i] \in Entry(Tasks)
  BY <1>1
<1>3. \A e \in Entry(Tasks) : e.task \in Tasks
  BY DEF Entry
<1> QED
  BY <1>2, <1>3

\* ODJobsReady is about the jobs, not their delivery.
LEMMA ODJobsReadyKept ==
    ASSUME TypeOK, ODJobsReady, UNCHANGED done, NEW q \in Queues, NEW b,
           SameJobs(Tasks, queue[q], b),
           UNCHANGED queue \/ queue' = [queue EXCEPT ![q] = b]
    PROVE  ODJobsReady'
<1>1. CASE UNCHANGED queue
  BY <1>1 DEF ODJobsReady
<1>2. CASE queue' = [queue EXCEPT ![q] = b] /\ q = "od"
  <2>1. queue'["od"] = b
    BY <1>2 DEF TypeOK, StreamTypes
  <2> QED
    BY <1>2, <2>1 DEF SameJobs, ODJobsReady
<1>3. CASE queue' = [queue EXCEPT ![q] = b] /\ q # "od"
  <2>1. queue'["od"] = queue["od"]
    BY <1>3 DEF TypeOK, StreamTypes, Queues
  <2> QED
    BY <2>1 DEF ODJobsReady
<1> QED
  BY <1>1, <1>2, <1>3

\* Writing a stage row keeps SuccessEarned, if a success was earned.
LEMMA SetStageEarned ==
    ASSUME SuccessEarned, stage \in [Tasks -> [Stages -> StageStatus]],
           \A u \in Tasks : done[u] \subseteq done'[u],
           NEW t \in Tasks, NEW k \in Stages, NEW v \in StageStatus,
           SetStage(t, k, v) \/ UNCHANGED stage,
           v = "success" => k \in done'[t]
    PROVE  SuccessEarned'
<1>1. CASE UNCHANGED stage
  BY <1>1 DEF SuccessEarned
<1>2. CASE SetStage(t, k, v)
  <2>1. /\ stage'[t][k] \in {stage[t][k], v}
        /\ \A u \in Tasks, j \in Stages : u # t \/ j # k => stage'[u][j] = stage[u][j]
    BY <1>2, SetStageType
  <2> QED
    BY <2>1 DEF SuccessEarned
<1> QED
  BY <1>1, <1>2

LEMMA PipelineStepEarned ==
    ASSUME TypeOK, TypeOK', Earned, NEW s \in Slots, PipelineStep(s)
    PROVE  Earned'
<1> DEFINE r == run[s]
           t == run[s].task
<1>b. ~At(s, "free")
  BY DEF PipelineStep, ClaimTask, CheckRunning, SuccessStages, SkipStage, DropSkip,
         SkipDetection, ShouldSkipODJob, ODRowSuccess, ODRowOther, EnqueueOD, AtStage, At
<1>c. /\ r \in Run /\ t \in Tasks /\ r.k \in Stages
      /\ run \in [Slots -> Run]
      /\ task \in [Tasks -> TaskStatus]
      /\ stage \in [Tasks -> [Stages -> StageStatus]]
      /\ done \in [Tasks -> SUBSET Stages]
      /\ done' \in [Tasks -> SUBSET Stages]
  BY <1>b, BusyRun, RunFields DEF TypeOK, RowTypes, RunTypes
<1>d. /\ r.skip \subseteq done[t]
      /\ 1 .. (r.k - 1) \subseteq done[t]
      /\ r.k = OD => Prep \subseteq done[t]
  BY <1>b, StageNumbers DEF Earned, Justified, OD, Prep
<1>e. SuccessEarned /\ DetectionLast /\ ODJobsReady /\ CompletedRanEveryStage /\ Justified(s)
  BY DEF Earned
<1>1. CASE ClaimTask(s)
  <2>1. PICK p \in PC : Goto(s, p) /\ p \notin {"succeed", "record", "finish", "odRow", "odAdd", "begin"}
    BY <1>1, PCs DEF ClaimTask
  <2>2. UNCHANGED <<stage, done, queue>>
    BY <1>1 DEF ClaimTask, rows
  <2>3. SetTask(t, "running") \/ UNCHANGED task
    BY <1>1 DEF ClaimTask
  <2>4. CompletedRanEveryStage'
    BY <1>c, <1>e, <2>2, <2>3, SetTaskType DEF CompletedRanEveryStage, TaskStatus
  <2>5. SuccessEarned' /\ DetectionLast' /\ ODJobsReady'
    BY <1>e, <2>2 DEF SuccessEarned, DetectionLast, ODJobsReady
  <2>6. Justified(s)' /\ \A x \in Slots \ {s} : run'[x] = run[x]
    BY <1>b, <2>1, <2>2, JustifiedGoto
  <2> QED
    BY <2>2, <2>4, <2>5, <2>6, EarnedKept
<1>2. CASE CheckRunning(s)
  <2>1. PICK p \in PC : Goto(s, p) /\ p \notin {"succeed", "record", "finish", "odRow", "odAdd", "begin"}
    BY <1>2, PCs DEF CheckRunning, AtStage
  <2>2. UNCHANGED <<task, stage, done, queue>>
    BY <1>2 DEF CheckRunning, rows
  <2> QED
    BY <1>b, <2>1, <2>2, JustifiedGoto, QuietEarned
<1>3. CASE SuccessStages(s)
  <2> DEFINE found == {k \in Stages : stage[t][k] = "success"}
  <2>1. UNCHANGED <<task, stage, done, queue>>
    BY <1>3, Zenon DEF SuccessStages, rows
  <2>2. Justified(s)' /\ \A x \in Slots \ {s} : run'[x] = run[x]
    <3>1. CASE Goto(s, "stage")
      BY <1>b, <2>1, <3>1, PCs, JustifiedGoto
    <3>2. CASE run' = [run EXCEPT ![s].pc = "stage", ![s].skip = found]
      <4>1. found \in SUBSET Stages /\ found \subseteq done[t]
        BY <1>c, <1>e DEF SuccessEarned
      <4> HIDE DEF found
      <4>2. RunTo(s, "stage", r.k, found, r.attempt)
        BY <1>c, <3>2, <4>1, PCs, SkipRunTo, Zenon
      <4> QED
        BY <1>d, <2>1, <4>1, <4>2, JustifiedTo
    <3> QED
      BY <1>3, <3>1, <3>2, Zenon DEF SuccessStages
  <2> QED
    BY <2>1, <2>2, QuietEarned
<1>4. CASE SkipStage(s)
  <2>1. UNCHANGED <<task, stage, done, queue>> /\ Advance(s) /\ r.k \in r.skip
    BY <1>4 DEF SkipStage, rows
  <2> QED
    BY <1>b, <1>c, <1>d, <2>1, JustifiedAdvance, QuietEarned
<1>5. CASE DropSkip(s)
  <2> DEFINE m == r.skip \ {r.k}
  <2>1. UNCHANGED <<task, stage, done, queue>>
    BY <1>5, Zenon DEF DropSkip, rows
  <2>2. r.pc = "stage"
    BY <1>5, Zenon DEF DropSkip, At
  <2>3. m \in SUBSET Stages /\ m \subseteq done[t]
    BY <1>c, <1>d, RunFields
  <2>4. run' = [run EXCEPT ![s].skip = m]
    BY <1>5, Zenon DEF DropSkip
  <2> HIDE DEF m
  <2>5. RunTo(s, r.pc, r.k, m, r.attempt)
    BY <1>c, <2>3, <2>4, RunFields, SkipRunTo, Zenon
  <2>6. Justified(s)' /\ \A x \in Slots \ {s} : run'[x] = run[x]
    BY <1>d, <2>1, <2>2, <2>3, <2>5, JustifiedTo
  <2> QED
    BY <2>1, <2>6, QuietEarned
<1>6. CASE SkipDetection(s)
  <2>1. r.k = OD /\ UNCHANGED <<task, queue>>
    BY <1>6 DEF SkipDetection
  <2>2. \/ done' = [done EXCEPT ![t] = done[t] \cup {OD}]
        \/ UNCHANGED <<stage, done>>
    BY <1>6 DEF SkipDetection
  <2>3. \A u \in Tasks : done[u] \subseteq done'[u]
    BY <1>c, <2>2
  <2>4. SuccessEarned'
    <3>1. CASE UNCHANGED stage
      BY <1>e, <2>3, <3>1 DEF SuccessEarned
    <3>2. CASE SetStage(t, OD, "success") /\ OD \in done'[t]
      <4>1. "success" \in StageStatus /\ OD \in Stages
        BY StageNumbers DEF StageStatus
      <4> QED
        BY <1>c, <1>e, <2>3, <3>2, <4>1, SetStageEarned
    <3>3. \/ UNCHANGED stage
          \/ /\ SetStage(t, OD, "success")
             /\ done' = [done EXCEPT ![t] = done[t] \cup {OD}]
      BY <1>6 DEF SkipDetection
    <3> QED
      BY <1>c, <3>1, <3>2, <3>3
  <2>5. DetectionLast'
    BY <1>c, <1>d, <1>e, <2>1, <2>2, StageNumbers DEF DetectionLast
  <2>6. ODJobsReady'
    BY <1>e, <2>1, <2>3, ODJobTasks DEF ODJobsReady
  <2>7. CompletedRanEveryStage'
    BY <1>c, <1>e, <2>1, <2>3 DEF CompletedRanEveryStage
  <2>8. Justified(s)' /\ \A x \in Slots \ {s} : run'[x] = run[x]
    <3>1. CASE Goto(s, "fail")
      BY <1>b, <1>c, <2>3, <3>1, PCs, JustifiedGoto
    <3>2. CASE Advance(s) /\ done' = [done EXCEPT ![t] = done[t] \cup {OD}]
      BY <1>b, <1>c, <2>1, <2>3, <3>2, JustifiedAdvance
    <3>3. \/ Goto(s, "fail")
          \/ Advance(s) /\ done' = [done EXCEPT ![t] = done[t] \cup {OD}]
      BY <1>6 DEF SkipDetection
    <3> QED
      BY <3>1, <3>2, <3>3
  <2> QED
    BY <2>3, <2>4, <2>5, <2>6, <2>7, <2>8, EarnedKept
<1>7. CASE ShouldSkipODJob(s)
  <2>1. PICK p \in PC : Goto(s, p) /\ p \notin {"succeed", "record", "finish"} /\ r.k = OD
    BY <1>7, PCs DEF ShouldSkipODJob
  <2>2. UNCHANGED <<task, stage, done, queue>>
    BY <1>7 DEF ShouldSkipODJob, rows
  <2> QED
    BY <1>b, <2>1, <2>2, JustifiedGoto, QuietEarned
<1>8. CASE ODRowSuccess(s)
  <2>1. PICK p \in PC : Goto(s, p) /\ p \in {"finish", "ack"}
    BY <1>8, PCs DEF ODRowSuccess
  <2>2. UNCHANGED <<stage, done, queue>> /\ stage[t][OD] = "success"
    BY <1>8 DEF ODRowSuccess, rows
  <2>3. done[t] = Stages
    BY <1>c, <1>e, <2>2, StageNumbers DEF SuccessEarned, DetectionLast
  <2>4. SetTask(t, "completed") \/ UNCHANGED task
    BY <1>8 DEF ODRowSuccess
  <2>5. CompletedRanEveryStage'
    BY <1>c, <1>e, <2>2, <2>3, <2>4, SetTaskType DEF CompletedRanEveryStage, TaskStatus
  <2>6. SuccessEarned' /\ DetectionLast' /\ ODJobsReady'
    BY <1>e, <2>2 DEF SuccessEarned, DetectionLast, ODJobsReady
  <2>7. Justified(s)' /\ \A x \in Slots \ {s} : run'[x] = run[x]
    BY <1>b, <2>1, <2>2, <2>3, JustifiedGoto
  <2> QED
    BY <2>2, <2>5, <2>6, <2>7, EarnedKept
<1>9. CASE ODRowOther(s)
  <2>1. PICK p \in PC : Goto(s, p) /\ p \in {"odAdd", "begin"}
    BY <1>9, PCs DEF ODRowOther
  <2>2. UNCHANGED <<task, stage, done, queue>> /\ r.pc = "odRow"
    BY <1>9 DEF ODRowOther, rows, At
  <2>3. r.k = OD
    BY <1>b, <1>e, <2>2 DEF Justified
  <2> QED
    BY <1>b, <2>1, <2>2, <2>3, JustifiedGoto, QuietEarned
<1>10. CASE EnqueueOD(s)
  <2>1. PICK p \in PC : Goto(s, p) /\ p \in {"ack", "fail"}
    BY <1>10, PCs DEF EnqueueOD
  <2>2. UNCHANGED <<task, stage, done>> /\ r.pc = "odAdd"
    BY <1>10 DEF EnqueueOD, rows, At
  <2>3. Prep \subseteq done[t]
    BY <1>b, <1>d, <1>e, <2>2 DEF Justified
  <2>4. ODJobsReady'
    <3> DEFINE a == queue["od"]
    <3>1. a \in Seq(Entry(Tasks)) /\ "od" \in Queues
      BY DEF TypeOK, StreamTypes, Queues
    <3>2. /\ DOMAIN XAdd(a, t, TRUE) = DOMAIN a \cup {Len(a) + 1}
          /\ \A i \in DOMAIN a : XAdd(a, t, TRUE)[i] = a[i]
          /\ XAdd(a, t, TRUE)[Len(a) + 1].task = t
      BY <1>c, <3>1, XAddJobs
    <3>3. UNCHANGED queue \/ queue'["od"] = XAdd(a, t, TRUE)
      BY <1>10, <3>1 DEF EnqueueOD, TypeOK, StreamTypes
    <3> HIDE DEF a
    <3> QED
      BY <1>e, <2>2, <2>3, <3>2, <3>3 DEF ODJobsReady, a
  <2>5. SuccessEarned' /\ DetectionLast' /\ CompletedRanEveryStage'
    BY <1>e, <2>2 DEF SuccessEarned, DetectionLast, CompletedRanEveryStage
  <2>6. Justified(s)' /\ \A x \in Slots \ {s} : run'[x] = run[x]
    BY <1>b, <2>1, <2>2, JustifiedGoto
  <2> QED
    BY <2>2, <2>4, <2>5, <2>6, EarnedKept
<1> QED
  BY <1>1, <1>2, <1>3, <1>4, <1>5, <1>6, <1>7, <1>8, <1>9, <1>10 DEF PipelineStep

LEMMA StageStepEarned ==
    ASSUME TypeOK, TypeOK', Earned, NEW s \in Slots, StageStep(s)
    PROVE  Earned'
<1> DEFINE r == run[s]
           t == run[s].task
<1>b. ~At(s, "free")
  BY DEF StageStep, BeginStage, ExecSuccess, ExecFailure, Succeed, RecordArtifacts,
         FailStageRow, FailTaskRow, AtStage, At
<1>c. /\ r \in Run /\ t \in Tasks /\ r.k \in Stages
      /\ run \in [Slots -> Run]
      /\ task \in [Tasks -> TaskStatus]
      /\ stage \in [Tasks -> [Stages -> StageStatus]]
      /\ done \in [Tasks -> SUBSET Stages]
      /\ done' \in [Tasks -> SUBSET Stages]
  BY <1>b, BusyRun, RunFields DEF TypeOK, RowTypes, RunTypes
<1>d. /\ r.skip \subseteq done[t]
      /\ 1 .. (r.k - 1) \subseteq done[t]
      /\ r.k = OD => Prep \subseteq done[t]
  BY <1>b, StageNumbers DEF Earned, Justified, OD, Prep
<1>e. SuccessEarned /\ DetectionLast /\ ODJobsReady /\ CompletedRanEveryStage /\ Justified(s)
  BY DEF Earned
<1>1. CASE BeginStage(s)
  <2>2. UNCHANGED <<task, done, queue>>
    BY <1>1, Zenon DEF BeginStage, rows
  <2>3. SetStage(t, r.k, "running") \/ UNCHANGED stage
    BY <1>1, Zenon DEF BeginStage
  <2>4. SuccessEarned'
    BY <1>c, <1>e, <2>2, <2>3, SetStageEarned DEF StageStatus
  <2>5. DetectionLast' /\ ODJobsReady' /\ CompletedRanEveryStage'
    BY <1>e, <2>2 DEF DetectionLast, ODJobsReady, CompletedRanEveryStage
  <2>6. Justified(s)' /\ \A x \in Slots \ {s} : run'[x] = run[x]
    <3>1. CASE Goto(s, "fail")
      BY <1>b, <2>2, <3>1, PCs, JustifiedGoto
    <3>2. CASE run' = [run EXCEPT ![s].pc = "exec", ![s].attempt = 1]
      <4>1. RunTo(s, "exec", r.k, r.skip, 1)
        BY <1>c, <3>2, PCs, AttemptRunTo
      <4> QED
        BY <1>d, <2>2, <4>1, JustifiedTo
    <3> QED
      BY <1>1, <3>1, <3>2, Zenon DEF BeginStage
  <2> QED
    BY <2>2, <2>4, <2>5, <2>6, EarnedKept
<1>2. CASE ExecSuccess(s)
  <2>1. Goto(s, "succeed") /\ UNCHANGED <<task, stage, queue>>
    BY <1>2 DEF ExecSuccess
  <2>2. done' = [done EXCEPT ![t] = done[t] \cup {r.k}]
    BY <1>2 DEF ExecSuccess
  <2>3. (\A u \in Tasks : done[u] \subseteq done'[u]) /\ r.k \in done'[t]
    BY <1>c, <2>2
  <2>4. SuccessEarned' /\ CompletedRanEveryStage'
    <3>0. stage' = stage /\ task' = task
      BY <2>1
    <3>1. SuccessEarned'
      BY <1>e, <2>3, <3>0 DEF SuccessEarned
    <3>2. CompletedRanEveryStage'
      <4>1. ASSUME NEW u \in Tasks, task[u] = "completed"
            PROVE  done'[u] = Stages
        <5>1. done[u] = Stages
          BY <1>e, <4>1 DEF CompletedRanEveryStage
        <5>2. done'[u] \in SUBSET Stages /\ done[u] \subseteq done'[u]
          BY <1>c, <2>3
        <5> QED
          BY <5>1, <5>2
      <4> QED
        BY <3>0, <4>1 DEF CompletedRanEveryStage
    <3> QED
      BY <3>1, <3>2
  <2>5. DetectionLast'
    BY <1>c, <1>d, <1>e, <2>2, StageNumbers DEF DetectionLast
  <2>6. ODJobsReady'
    BY <1>e, <2>1, <2>3, ODJobTasks DEF ODJobsReady
  <2>7. Justified(s)' /\ \A x \in Slots \ {s} : run'[x] = run[x]
    BY <1>b, <1>c, <2>1, <2>3, PCs, JustifiedGoto
  <2> QED
    BY <2>3, <2>4, <2>5, <2>6, <2>7, EarnedKept
<1>3. CASE ExecFailure(s)
  <2>1. UNCHANGED <<task, stage, done, queue>>
    BY <1>3, Zenon DEF ExecFailure, rows
  <2>2. r.pc = "exec" /\ r.attempt + 1 \in Nat
    <3>1. r.pc = "exec"
      BY <1>3, Zenon DEF ExecFailure, At
    <3> QED
      BY <1>c, <3>1, RunFields
  <2>3. Justified(s)' /\ \A x \in Slots \ {s} : run'[x] = run[x]
    <3>1. CASE Goto(s, "failRow")
      BY <1>b, <2>1, <3>1, PCs, JustifiedGoto
    <3>2. CASE run' = [run EXCEPT ![s].attempt = r.attempt + 1]
      <4> DEFINE a == r.attempt + 1
      <4>1. run' = [run EXCEPT ![s].attempt = a] /\ a \in Nat
        BY <2>2, <3>2, Zenon
      <4> HIDE DEF a
      <4>2. RunTo(s, r.pc, r.k, r.skip, a)
        BY <1>c, <4>1, RunFields, AttemptRunTo, Zenon
      <4> QED
        BY <1>d, <2>1, <2>2, <4>2, JustifiedTo
    <3> QED
      BY <1>3, <3>1, <3>2, Zenon DEF ExecFailure
  <2> QED
    BY <2>1, <2>3, QuietEarned
<1>4. CASE Succeed(s)
  <2>0. r.k \in done[t]
    BY <1>4, <1>b, <1>e DEF Succeed, Justified, At
  <2>1. PICK p \in PC : Goto(s, p) /\ p \in {"record", "fail"}
    BY <1>4, PCs DEF Succeed
  <2>2. UNCHANGED <<task, done, queue>>
    BY <1>4, Zenon DEF Succeed, rows
  <2>3. SetStage(t, r.k, "success") \/ UNCHANGED stage
    BY <1>4, Zenon DEF Succeed
  <2>4. SuccessEarned'
    BY <1>c, <1>e, <2>2, <2>3, <2>0, SetStageEarned DEF StageStatus
  <2>5. DetectionLast' /\ ODJobsReady' /\ CompletedRanEveryStage'
    BY <1>e, <2>2 DEF DetectionLast, ODJobsReady, CompletedRanEveryStage
  <2>6. Justified(s)' /\ \A x \in Slots \ {s} : run'[x] = run[x]
    BY <1>b, <2>0, <2>1, <2>2, JustifiedGoto
  <2> QED
    BY <2>2, <2>4, <2>5, <2>6, EarnedKept
<1>5. CASE RecordArtifacts(s)
  <2>1. UNCHANGED <<task, stage, done, queue>> /\ Advance(s) /\ r.pc = "record"
    BY <1>5 DEF RecordArtifacts, At
  <2>2. r.k \in done[t]
    BY <1>b, <1>e, <2>1 DEF Justified
  <2> QED
    BY <1>b, <1>c, <2>1, <2>2, JustifiedAdvance, QuietEarned
<1>6. CASE FailStageRow(s)
  <2>1. PICK p \in PC : Goto(s, p) /\ p \in {"failTask", "fail"}
    BY <1>6, PCs DEF FailStageRow
  <2>2. UNCHANGED <<task, done, queue>>
    BY <1>6, Zenon DEF FailStageRow, rows
  <2>3. SetStage(t, r.k, "failed") \/ UNCHANGED stage
    BY <1>6, Zenon DEF FailStageRow
  <2>4. SuccessEarned'
    BY <1>c, <1>e, <2>2, <2>3, SetStageEarned DEF StageStatus
  <2>5. DetectionLast' /\ ODJobsReady' /\ CompletedRanEveryStage'
    BY <1>e, <2>2 DEF DetectionLast, ODJobsReady, CompletedRanEveryStage
  <2>6. Justified(s)' /\ \A x \in Slots \ {s} : run'[x] = run[x]
    BY <1>b, <2>1, <2>2, JustifiedGoto
  <2> QED
    BY <2>2, <2>4, <2>5, <2>6, EarnedKept
<1>7. CASE FailTaskRow(s)
  <2>1. PICK p \in PC : Goto(s, p) /\ p \in {"fail"}
    BY <1>7, PCs DEF FailTaskRow
  <2>2. UNCHANGED <<stage, done, queue>>
    BY <1>7 DEF FailTaskRow, rows
  <2>3. SetTask(t, "failed") \/ UNCHANGED task
    BY <1>7 DEF FailTaskRow
  <2>4. CompletedRanEveryStage'
    BY <1>c, <1>e, <2>2, <2>3, SetTaskType DEF CompletedRanEveryStage, TaskStatus
  <2>5. SuccessEarned' /\ DetectionLast' /\ ODJobsReady'
    BY <1>e, <2>2 DEF SuccessEarned, DetectionLast, ODJobsReady
  <2>6. Justified(s)' /\ \A x \in Slots \ {s} : run'[x] = run[x]
    BY <1>b, <2>1, <2>2, JustifiedGoto
  <2> QED
    BY <2>2, <2>4, <2>5, <2>6, EarnedKept
<1> QED
  BY <1>1, <1>2, <1>3, <1>4, <1>5, <1>6, <1>7 DEF StageStep

LEMMA EndStepEarned ==
    ASSUME TypeOK, TypeOK', Earned, NEW s \in Slots, EndStep(s)
    PROVE  Earned'
<1> DEFINE r == run[s]
           t == run[s].task
<1>b. ~At(s, "free")
  BY DEF EndStep, FinishTaskWithError, FinishTaskCompleted, AckJob, At
<1>c. /\ r \in Run /\ t \in Tasks /\ r.k \in Stages
      /\ run \in [Slots -> Run]
      /\ task \in [Tasks -> TaskStatus]
      /\ stage \in [Tasks -> [Stages -> StageStatus]]
      /\ done \in [Tasks -> SUBSET Stages]
      /\ done' \in [Tasks -> SUBSET Stages]
  BY <1>b, BusyRun, RunFields DEF TypeOK, RowTypes, RunTypes
<1>d. /\ r.skip \subseteq done[t]
      /\ 1 .. (r.k - 1) \subseteq done[t]
      /\ r.k = OD => Prep \subseteq done[t]
  BY <1>b, StageNumbers DEF Earned, Justified, OD, Prep
<1>e. SuccessEarned /\ DetectionLast /\ ODJobsReady /\ CompletedRanEveryStage /\ Justified(s)
  BY DEF Earned
<1>1. CASE FinishTaskWithError(s)
  <2>1. PICK p \in PC : Goto(s, p) /\ p \in {"ack"}
    BY <1>1, PCs DEF FinishTaskWithError
  <2>2. UNCHANGED <<stage, done, queue>>
    BY <1>1 DEF FinishTaskWithError, rows
  <2>3. SetTask(t, "failed") \/ UNCHANGED task
    BY <1>1 DEF FinishTaskWithError
  <2>4. CompletedRanEveryStage'
    BY <1>c, <1>e, <2>2, <2>3, SetTaskType DEF CompletedRanEveryStage, TaskStatus
  <2>5. SuccessEarned' /\ DetectionLast' /\ ODJobsReady'
    BY <1>e, <2>2 DEF SuccessEarned, DetectionLast, ODJobsReady
  <2>6. Justified(s)' /\ \A x \in Slots \ {s} : run'[x] = run[x]
    BY <1>b, <2>1, <2>2, JustifiedGoto
  <2> QED
    BY <2>2, <2>4, <2>5, <2>6, EarnedKept
<1>2. CASE FinishTaskCompleted(s)
  <2>0. done[t] = Stages
    BY <1>2, <1>b, <1>e DEF FinishTaskCompleted, Justified
  <2>1. PICK p \in PC : Goto(s, p) /\ p \in {"ack"}
    BY <1>2, PCs DEF FinishTaskCompleted
  <2>2. UNCHANGED <<stage, done, queue>>
    BY <1>2 DEF FinishTaskCompleted, rows
  <2>3. SetTask(t, "completed") \/ UNCHANGED task
    BY <1>2 DEF FinishTaskCompleted
  <2>4. CompletedRanEveryStage'
    BY <1>c, <1>e, <2>2, <2>3, <2>0, SetTaskType DEF CompletedRanEveryStage, TaskStatus
  <2>5. SuccessEarned' /\ DetectionLast' /\ ODJobsReady'
    BY <1>e, <2>2 DEF SuccessEarned, DetectionLast, ODJobsReady
  <2>6. Justified(s)' /\ \A x \in Slots \ {s} : run'[x] = run[x]
    BY <1>b, <2>1, <2>2, JustifiedGoto
  <2> QED
    BY <2>2, <2>4, <2>5, <2>6, EarnedKept
<1>3. CASE AckJob(s)
  <2>1. run' = [run EXCEPT ![s] = Free] /\ UNCHANGED <<task, stage, done>>
    BY <1>3 DEF AckJob, rows
  <2>2. Justified(s)' /\ \A x \in Slots \ {s} : run'[x] = run[x]
    BY <1>c, <2>1, FreeType DEF Justified, At
  <2>3. ODJobsReady'
    <3> DEFINE q == QueueOf(s[1])
    <3>1. q \in Queues /\ queue[q] \in Seq(Entry(Tasks))
      BY QueueOfQueues DEF TypeOK, StreamTypes
    <3>2. SameJobs(Tasks, queue[q], XAck(queue[q], run[s].msg))
      BY <1>b, <3>1, BusyRun, XAckSame
    <3>3. UNCHANGED queue \/ queue' = [queue EXCEPT ![q] = XAck(queue[q], run[s].msg)]
      BY <1>3 DEF AckJob
    <3> QED
      BY <1>e, <2>1, <3>1, <3>2, <3>3, ODJobsReadyKept
  <2>4. SuccessEarned' /\ DetectionLast' /\ CompletedRanEveryStage'
    BY <1>e, <2>1 DEF SuccessEarned, DetectionLast, CompletedRanEveryStage
  <2> QED
    BY <2>1, <2>2, <2>3, <2>4, EarnedKept
<1> QED
  BY <1>1, <1>2, <1>3 DEF EndStep

\* A step that moves no goroutine on, and writes no status the invariant is about.
LEMMA ElsewhereEarned ==
    ASSUME TypeOK, TypeOK', Earned, UNCHANGED done,
           \A x \in Slots : run'[x] = run[x] \/ Justified(x)',
           \A t \in Tasks : task'[t] \in {task[t], "pending", "absent"},
           \A t \in Tasks, k \in Stages : stage'[t][k] \in {stage[t][k], "pending", "absent"},
           NEW q \in Queues, NEW b, q = "rs" \/ SameJobs(Tasks, queue[q], b),
           UNCHANGED queue \/ queue' = [queue EXCEPT ![q] = b]
    PROVE  Earned'
<1>1. SuccessEarned' /\ DetectionLast' /\ CompletedRanEveryStage'
  BY DEF Earned, SuccessEarned, DetectionLast, CompletedRanEveryStage
<1>2. ODJobsReady'
  <2>1. CASE UNCHANGED queue
    BY <2>1 DEF Earned, ODJobsReady
  <2>2. CASE q = "rs" /\ queue' = [queue EXCEPT ![q] = b]
    <3>1. queue'["od"] = queue["od"]
      BY <2>2 DEF TypeOK, StreamTypes, Queues
    <3> QED
      BY <3>1 DEF Earned, ODJobsReady
  <2>3. CASE SameJobs(Tasks, queue[q], b)
    BY <2>3, ODJobsReadyKept DEF Earned
  <2> QED
    BY <2>1, <2>2, <2>3
<1> QED
  BY <1>1, <1>2, EarnedKept

LEMMA HandlerEarned ==
    ASSUME TypeOK, TypeOK', Earned, NEW t \in Tasks,
           HandlerStep(t) \/ \E d \in DetectRequests : CreateTask(t, d)
    PROVE  Earned'
<1>1. CASE CreateStage(t)
  <2>1. UNCHANGED <<task, done, queue, run>>
    BY <1>1 DEF CreateStage, rows
  <2>2. \A u \in Tasks, k \in Stages : stage'[u][k] \in {stage[u][k], "pending", "absent"}
    <3>1. PICK j \in Stages : \/ UNCHANGED stage
                               \/ stage' = [stage EXCEPT ![t][j] = "pending"]
      BY <1>1 DEF CreateStage
    <3>2. stage \in [Tasks -> [Stages -> StageStatus]]
      BY DEF TypeOK, RowTypes
    <3>3. CASE stage' = [stage EXCEPT ![t][j] = "pending"]
      <4> SUFFICES ASSUME NEW u \in Tasks, NEW k \in Stages
                   PROVE  stage'[u][k] \in {stage[u][k], "pending", "absent"}
        OBVIOUS
      <4> QED
        BY <3>2, <3>3
    <3> QED
      BY <3>1, <3>3
  <2> QED
    BY <2>1, <2>2, RSQueue, ElsewhereEarned
<1>2. CASE DeleteTask(t)
  <2>1. UNCHANGED <<done, queue, run>>
    BY <1>2 DEF DeleteTask, rows
  <2>2. \A u \in Tasks : task'[u] \in {task[u], "pending", "absent"}
    BY <1>2 DEF DeleteTask, SetTask, TypeOK, RowTypes
  <2>3. \A u \in Tasks, k \in Stages : stage'[u][k] \in {stage[u][k], "pending", "absent"}
    <3>1. \/ UNCHANGED stage
          \/ stage' = [stage EXCEPT ![t] = [k \in Stages |-> "absent"]]
      BY <1>2 DEF DeleteTask
    <3>2. stage \in [Tasks -> [Stages -> StageStatus]]
      BY DEF TypeOK, RowTypes
    <3>3. CASE stage' = [stage EXCEPT ![t] = [k \in Stages |-> "absent"]]
      <4> SUFFICES ASSUME NEW u \in Tasks, NEW k \in Stages
                   PROVE  stage'[u][k] \in {stage[u][k], "pending", "absent"}
        OBVIOUS
      <4>1. CASE u = t
        BY <3>2, <3>3, <4>1
      <4>2. CASE u # t
        BY <3>2, <3>3, <4>2
      <4> QED
        BY <4>1, <4>2
    <3> QED
      BY <3>1, <3>3
  <2> QED
    BY <2>1, <2>2, <2>3, RSQueue, ElsewhereEarned
<1>3. CASE EnqueueTask(t)
  <2>1. UNCHANGED <<task, stage, done, run>>
    BY <1>3 DEF EnqueueTask, rows
  <2>2. UNCHANGED queue \/ queue' = [queue EXCEPT !["rs"] = JobOfRequest(t)]
    BY <1>3 DEF EnqueueTask
  <2> QED
    BY <2>1, <2>2, RSQueue, ElsewhereEarned
<1>4. ASSUME NEW d \in DetectRequests, CreateTask(t, d)
      PROVE  Earned'
  <2>1. UNCHANGED <<stage, done, queue, run>>
    BY <1>4 DEF CreateTask
  <2>2. \A u \in Tasks : task'[u] \in {task[u], "pending", "absent"}
    BY <1>4 DEF CreateTask, SetTask, TypeOK, RowTypes
  <2> QED
    BY <2>1, <2>2, RSQueue, ElsewhereEarned
<1> QED
  BY <1>1, <1>2, <1>3, <1>4 DEF HandlerStep

LEMMA ProcEarned ==
    ASSUME TypeOK, TypeOK', Earned, NEW p \in Procs, ProcStep(p) \/ Crash(p)
    PROVE  Earned'
<1>1. CASE Restart(p)
  <2> DEFINE q == QueueOf(p)
  <2>1. UNCHANGED <<task, stage, done, run>>
    BY <1>1 DEF Restart, rows
  <2>2. UNCHANGED queue \/ queue' = [queue EXCEPT ![q] = Regroup(queue[q])]
    BY <1>1 DEF Restart, EnsureGroup
  <2>3. q \in Queues /\ SameJobs(Tasks, queue[q], Regroup(queue[q]))
    BY QueueOfQueues, RegroupSame DEF TypeOK, StreamTypes
  <2> HIDE DEF q
  <2> QED
    BY <2>1, <2>2, <2>3, ElsewhereEarned
<1>2. CASE BootEnqueue(p)
  <2>1. UNCHANGED <<task, stage, done, run>>
    BY <1>2 DEF BootEnqueue, rows
  <2>2. \E b : UNCHANGED queue \/ queue' = [queue EXCEPT !["rs"] = b]
    BY <1>2, Zenon DEF BootEnqueue
  <2> QED
    BY <2>1, <2>2, RSQueue, ElsewhereEarned
<1>3. CASE BootDone(p)
  <2>1. UNCHANGED <<task, stage, done, queue, run>>
    BY <1>3 DEF BootDone, rows
  <2> QED
    BY <2>1, RSQueue, ElsewhereEarned
<1>4. CASE Crash(p)
  <2>1. UNCHANGED <<task, stage, done, queue>>
    BY <1>4 DEF Crash, rows
  <2>2. \A x \in Slots : run'[x] = run[x] \/ Justified(x)'
    BY <1>4, FreeType DEF Crash, Justified, At
  <2> QED
    BY <2>1, <2>2, RSQueue, ElsewhereEarned
<1> QED
  BY <1>1, <1>2, <1>3, <1>4 DEF ProcStep

\* Redis and the receivers change how jobs are delivered, never the jobs.
LEMMA RedisSameJobs ==
    ASSUME TypeOK,
           \/ \E i \in DOMAIN queue["rs"] : IdleOrphan(i) \/ IdleHeld(i)
           \/ \E q \in Queues : LoseGroup(q)
           \/ \E w \in Workers : ReceiveStep(w)
    PROVE  \E q \in Queues : \E b :
              /\ SameJobs(Tasks, queue[q], b)
              /\ UNCHANGED queue \/ queue' = [queue EXCEPT ![q] = b]
              /\ UNCHANGED <<task, rows, stage, api, run>>
<1> DEFINE Goal == \E q \in Queues : \E b :
                      /\ SameJobs(Tasks, queue[q], b)
                      /\ UNCHANGED queue \/ queue' = [queue EXCEPT ![q] = b]
                      /\ UNCHANGED <<task, rows, stage, api, run>>
<1>0. \A q \in Queues : queue[q] \in Seq(Entry(Tasks))
  BY DEF TypeOK, StreamTypes
<1>1. ASSUME NEW i \in DOMAIN queue["rs"], IdleOrphan(i) \/ IdleHeld(i)
      PROVE  Goal
  <2>1. /\ queue' = [queue EXCEPT !["rs"] = GrowIdle(queue["rs"], i)]
        /\ UNCHANGED <<task, rows, stage, api, run>>
    BY <1>1 DEF IdleOrphan, IdleHeld
  <2>2. SameJobs(Tasks, queue["rs"], GrowIdle(queue["rs"], i))
    BY <1>0, RSQueue, GrowIdleSame
  <2> QED
    BY <2>1, <2>2, RSQueue
<1>2. ASSUME NEW q \in Queues, LoseGroup(q)
      PROVE  Goal
  <2>1. UNCHANGED <<task, rows, stage, api, run, queue>>
    BY <1>2 DEF LoseGroup
  <2>2. SameJobs(Tasks, queue["rs"], Regroup(queue["rs"]))
    BY <1>0, RSQueue, RegroupSame
  <2> QED
    BY <2>1, <2>2, RSQueue
<1>3. ASSUME NEW w \in Workers, ReceiveStep(w)
      PROVE  Goal
  <2> DEFINE q == QueueOf(w)
  <2>0. q \in Queues
    BY QueueOfQueues
  <2>1. UNCHANGED <<task, rows, stage, api, run>>
    BY <1>3 DEF ReceiveStep, ReadJob, ReclaimStaleRSJobs, RebuildGroup
  <2>2. CASE ReadJob(w)
    <3>1. PICK i \in Undelivered(queue[q]) : queue' = [queue EXCEPT ![q] = Deliver(queue[q], i)]
      BY <2>2 DEF ReadJob
    <3>2. SameJobs(Tasks, queue[q], Deliver(queue[q], i))
      BY <1>0, <2>0, DeliverSame DEF Undelivered
    <3> HIDE DEF q
    <3> QED
      BY <2>0, <2>1, <3>1, <3>2
  <2>3. CASE ReclaimStaleRSJobs(w)
    <3>1. queue' = [queue EXCEPT !["rs"] = AutoClaim(queue["rs"])]
      BY <2>3 DEF ReclaimStaleRSJobs
    <3>2. SameJobs(Tasks, queue["rs"], AutoClaim(queue["rs"]))
      BY <1>0, RSQueue, AutoClaimSame
    <3> QED
      BY <2>1, <3>1, <3>2, RSQueue
  <2>4. CASE RebuildGroup(w)
    <3>1. UNCHANGED queue \/ queue' = [queue EXCEPT !["od"] = Regroup(queue["od"])]
      BY <2>4 DEF RebuildGroup, EnsureGroup
    <3>2. SameJobs(Tasks, queue["od"], Regroup(queue["od"]))
      BY <1>0, RSQueue, RegroupSame
    <3> QED
      BY <2>1, <3>1, <3>2, RSQueue
  <2> QED
    BY <1>3, <2>2, <2>3, <2>4 DEF ReceiveStep
<1> QED
  BY <1>1, <1>2, <1>3

LEMMA RedisEarned ==
    ASSUME TypeOK, TypeOK', Earned,
           \/ \E i \in DOMAIN queue["rs"] : IdleOrphan(i) \/ IdleHeld(i)
           \/ \E q \in Queues : LoseGroup(q)
           \/ \E w \in Workers : ReceiveStep(w)
    PROVE  Earned'
<1>1. PICK q \in Queues : \E b : /\ SameJobs(Tasks, queue[q], b)
                                 /\ UNCHANGED queue \/ queue' = [queue EXCEPT ![q] = b]
                                 /\ UNCHANGED <<task, rows, stage, api, run>>
  BY RedisSameJobs
<1> QED
  BY <1>1, ElsewhereEarned DEF rows

LEMMA ProcessJobEarned ==
    ASSUME TypeOK, TypeOK', Earned, NEW c \in Receivers, ProcessJob(c)
    PROVE  Earned'
<1> DEFINE q == QueueOf(c[1])
<1>1. PICK i \in inbox[c], s \in Slots :
            /\ s[1] = c[1]
            /\ run' = [run EXCEPT ![s] = NewRun(s, i, queue[q][i])]
  BY DEF ProcessJob
<1>2. i \in DOMAIN queue[q] /\ queue[q] \in Seq(Entry(Tasks))
  BY QueueOfQueues DEF TypeOK, StreamTypes
<1>3. i \in Nat /\ queue[q][i] \in Entry(Tasks)
  BY <1>2
<1> DEFINE new == NewRun(s, i, queue[q][i])
<1>4. /\ new.pc = IF IsRS(s) THEN "claim" ELSE "stage"
      /\ new.task = queue[q][i].task
      /\ new.k = IF IsRS(s) THEN 1 ELSE OD
      /\ new.skip = {}
  <2> DEFINE e == queue[q][i]
  <2>1. e \in Entry(Tasks) /\ i \in Nat
    BY <1>3
  <2> HIDE DEF e
  <2>2. /\ NewRun(s, i, e).pc = IF IsRS(s) THEN "claim" ELSE "stage"
        /\ NewRun(s, i, e).task = e.task
        /\ NewRun(s, i, e).k = IF IsRS(s) THEN 1 ELSE OD
        /\ NewRun(s, i, e).skip = {}
    BY <2>1, NewRunType
  <2> QED
    BY <2>2 DEF e
<1>5. UNCHANGED <<task, stage, done, queue>>
  BY DEF ProcessJob, rows
<1>6. 1 .. (new.k - 1) \subseteq done[new.task]
  <2>1. CASE IsRS(s)
    BY <1>4, <2>1
  <2>2. CASE ~IsRS(s)
    <3>1. q = "od"
      BY <1>1, <2>2 DEF QueueOf, IsRS
    <3>2. Prep \subseteq done[queue[q][i].task]
      BY <1>2, <3>1 DEF Earned, ODJobsReady
    <3> HIDE DEF new, q
    <3> QED
      BY <1>4, <2>2, <3>2, StageNumbers DEF OD, Prep
  <2> QED
    BY <2>1, <2>2
<1>7. run'[s] = new /\ \A x \in Slots \ {s} : run'[x] = run[x]
  BY <1>1 DEF TypeOK, RunTypes
<1> HIDE DEF new
<1>8. Justified(s)'
  BY <1>4, <1>5, <1>6, <1>7 DEF Justified, At
<1> QED
  BY <1>5, <1>7, <1>8, QuietEarned

\* Handing a job back changes rs.jobs only.
LEMMA ReleaseEarned ==
    ASSUME TypeOK, TypeOK', Earned, NEW c \in Receivers, ReleaseAck(c) \/ ReleaseAdd(c)
    PROVE  Earned'
<1>1. UNCHANGED <<task, stage, done, run>>
  BY DEF ReleaseAck, ReleaseAdd, rows
<1>2. \E b : UNCHANGED queue \/ queue' = [queue EXCEPT !["rs"] = b]
  BY Zenon DEF ReleaseAck, ReleaseAdd
<1> QED
  BY <1>1, <1>2, RSQueue, ElsewhereEarned

LEMMA NextEarned == TypeOK /\ TypeOK' /\ Earned /\ [Next]_vars => Earned'
<1> SUFFICES ASSUME TypeOK, TypeOK', Earned, [Next]_vars
             PROVE  Earned'
  OBVIOUS
<1>1. ASSUME NEW t \in Tasks, HandlerStep(t) \/ \E d \in DetectRequests : CreateTask(t, d)
      PROVE  Earned'
  BY <1>1, HandlerEarned
<1>2. ASSUME NEW p \in Procs, ProcStep(p) \/ Crash(p)
      PROVE  Earned'
  BY <1>2, ProcEarned
<1>3. ASSUME \/ \E i \in DOMAIN queue["rs"] : IdleOrphan(i) \/ IdleHeld(i)
             \/ \E q \in Queues : LoseGroup(q)
             \/ \E w \in Workers : ReceiveStep(w)
      PROVE  Earned'
  BY <1>3, RedisEarned
<1>4. ASSUME NEW c \in Receivers, HandleStep(c)
      PROVE  Earned'
  BY <1>4, ProcessJobEarned, ReleaseEarned DEF HandleStep
<1>5. ASSUME NEW s \in Slots, RunStep(s)
      PROVE  Earned'
  BY <1>5, PipelineStepEarned, StageStepEarned, EndStepEarned DEF RunStep
<1>6. ASSUME UNCHANGED vars
      PROVE  Earned'
  BY <1>6, RSQueue, ElsewhereEarned DEF vars
<1> QED
  BY <1>1, <1>2, <1>3, <1>4, <1>5, <1>6 DEF Next

\* A task is reported completed only after the work of every stage has been carried
\* out: resuming with skipped stages, redelivered or duplicated jobs, several workers
\* on one task, failing writes and crashes never let runPipeline, shouldSkipODJob or
\* RunDetectionFromJob complete a task too early.
THEOREM CompletionIsEarned == Spec => []CompletedRanEveryStage
<1>1. Spec => [](TypeOK /\ Earned)
  <2>1. Init => TypeOK /\ Earned
    BY InitType, InitEarned
  <2>2. (TypeOK /\ Earned) /\ [Next]_vars => (TypeOK /\ Earned)'
    BY NextType, NextEarned
  <2> QED
    BY <2>1, <2>2, PTL DEF Spec
<1>2. Earned => CompletedRanEveryStage
  BY DEF Earned
<1> QED
  BY <1>1, <1>2, PTL

-----------------------------------------------------------------------------
(* Unstarted is inductive.                                                 *)

\* The streams gained no job but ones that name t.
OnlyJobsOf(t) ==
    \A q \in Queues : \A i \in DOMAIN queue'[q] :
        \/ i \in DOMAIN queue[q] /\ queue'[q][i].task = queue[q][i].task
        \/ queue'[q][i].task = t

LEMMA SameOnlyJobs ==
    ASSUME TypeOK, NEW t, NEW q \in Queues, NEW b, SameJobs(Tasks, queue[q], b),
           UNCHANGED queue \/ queue' = [queue EXCEPT ![q] = b]
    PROVE  OnlyJobsOf(t)
  BY DEF TypeOK, StreamTypes, SameJobs, OnlyJobsOf

LEMMA XAddOnlyJobs ==
    ASSUME TypeOK, NEW t \in Tasks, NEW d \in BOOLEAN, NEW q \in Queues,
           UNCHANGED queue \/ queue' = [queue EXCEPT ![q] = XAdd(queue[q], t, d)]
    PROVE  OnlyJobsOf(t)
<1> DEFINE a == queue[q]
           b == XAdd(a, t, d)
<1>1. a \in Seq(Entry(Tasks)) /\ queue \in [Queues -> Seq(Entry(Tasks))]
  BY DEF TypeOK, StreamTypes
<1>2. /\ DOMAIN XAdd(a, t, d) = DOMAIN a \cup {Len(a) + 1}
      /\ \A i \in DOMAIN a : XAdd(a, t, d)[i] = a[i]
      /\ XAdd(a, t, d)[Len(a) + 1].task = t
  BY <1>1, XAddJobs
<1>3. \A i \in DOMAIN b : (i \in DOMAIN a /\ b[i].task = a[i].task) \/ b[i].task = t
  BY <1>2
<1> HIDE DEF b
<1>4. CASE queue' = [queue EXCEPT ![q] = b]
  BY <1>1, <1>3, <1>4 DEF OnlyJobsOf
<1>5. CASE UNCHANGED queue
  BY <1>5 DEF OnlyJobsOf
<1> QED
  BY <1>4, <1>5 DEF b

\* A task whose CreateTask call has not ended and that the step leaves alone.
LEMMA UntouchedKept ==
    ASSUME NEW t \in Tasks, NEW u \in Tasks, t # u, Untouched(t),
           handler'[t] = handler[t], task'[t] = task[t], OnlyJobsOf(u),
           \A p \in Procs : t \in todo'[p] => t \in todo[p]
    PROVE  Untouched(t)'
  BY DEF Untouched, OnlyJobsOf

\* What a goroutine does to a task: nothing, the claim of a pending one, or the end.
\* It enqueues no job but for the task of its message, which is no longer untouched.
LEMMA RunStepTask ==
    ASSUME TypeOK, NEW s \in Slots, RunStep(s)
    PROVE  /\ ~At(s, "free")
           /\ UNCHANGED <<handler, proc, todo>>
           /\ \/ UNCHANGED task
              \/ \E v \in Terminal : SetTask(run[s].task, v)
              \/ task[run[s].task] = "pending" /\ SetTask(run[s].task, "running")
           /\ OnlyJobsOf(run[s].task)
<1>1. ~At(s, "free")
  BY DEF RunStep, PipelineStep, StageStep, EndStep, ClaimTask, CheckRunning, SuccessStages,
         SkipStage, DropSkip, SkipDetection, ShouldSkipODJob, ODRowSuccess, ODRowOther,
         EnqueueOD, BeginStage, ExecSuccess, ExecFailure, Succeed, RecordArtifacts,
         FailStageRow, FailTaskRow, FinishTaskWithError, FinishTaskCompleted, AckJob,
         AtStage, At
<1>2. UNCHANGED api
  BY Zenon
     DEF RunStep, PipelineStep, StageStep, EndStep, ClaimTask, CheckRunning, SuccessStages,
         SkipStage, DropSkip, SkipDetection, ShouldSkipODJob, ODRowSuccess, ODRowOther,
         EnqueueOD, BeginStage, ExecSuccess, ExecFailure, Succeed, RecordArtifacts,
         FailStageRow, FailTaskRow, FinishTaskWithError, FinishTaskCompleted, AckJob
<1>3. \/ UNCHANGED task
      \/ \E v \in Terminal : SetTask(run[s].task, v)
      \/ task[run[s].task] = "pending" /\ SetTask(run[s].task, "running")
  <2>1. CASE PipelineStep(s)
    <3>1. \/ UNCHANGED task
          \/ SetTask(run[s].task, "completed")
          \/ task[run[s].task] = "pending" /\ SetTask(run[s].task, "running")
      BY <2>1, Zenon
         DEF PipelineStep, ClaimTask, CheckRunning, SuccessStages, SkipStage, DropSkip,
             SkipDetection, ShouldSkipODJob, ODRowSuccess, ODRowOther, EnqueueOD, Unclaimed
    <3> QED
      BY <3>1 DEF Terminal
  <2>2. CASE StageStep(s)
    <3>1. UNCHANGED task \/ SetTask(run[s].task, "failed")
      BY <2>2, Zenon
         DEF StageStep, BeginStage, ExecSuccess, ExecFailure, Succeed, RecordArtifacts,
             FailStageRow, FailTaskRow
    <3> QED
      BY <3>1 DEF Terminal
  <2>3. CASE EndStep(s)
    <3>1. \/ UNCHANGED task
          \/ SetTask(run[s].task, "failed") \/ SetTask(run[s].task, "completed")
      BY <2>3, Zenon DEF EndStep, FinishTaskWithError, FinishTaskCompleted, AckJob
    <3> QED
      BY <3>1 DEF Terminal
  <2> QED
    BY <2>1, <2>2, <2>3 DEF RunStep
<1>4. OnlyJobsOf(run[s].task)
  <2> DEFINE q == QueueOf(s[1])
             b == XAck(queue[q], run[s].msg)
  <2>1. \/ UNCHANGED queue
        \/ queue' = [queue EXCEPT !["od"] = XAdd(queue["od"], run[s].task, TRUE)]
        \/ queue' = [queue EXCEPT ![q] = b]
    <3>1. CASE PipelineStep(s)
      BY <3>1, Zenon
         DEF PipelineStep, ClaimTask, CheckRunning, SuccessStages, SkipStage, DropSkip,
             SkipDetection, ShouldSkipODJob, ODRowSuccess, ODRowOther, EnqueueOD
    <3>2. CASE StageStep(s)
      BY <3>2, Zenon
         DEF StageStep, BeginStage, ExecSuccess, ExecFailure, Succeed, RecordArtifacts,
             FailStageRow, FailTaskRow
    <3>3. CASE EndStep(s)
      BY <3>3 DEF EndStep, FinishTaskWithError, FinishTaskCompleted, AckJob
    <3> QED
      BY <3>1, <3>2, <3>3 DEF RunStep
  <2>2. run[s].task \in Tasks
    BY <1>1, BusyRun
  <2>3. q \in Queues /\ queue[q] \in Seq(Entry(Tasks))
    BY QueueOfQueues DEF TypeOK, StreamTypes
  <2>4. SameJobs(Tasks, queue[q], b)
    BY <1>1, <2>3, BusyRun, XAckSame
  <2> HIDE DEF q, b
  <2> QED
    BY <2>1, <2>2, <2>3, <2>4, RSQueue, SameOnlyJobs, XAddOnlyJobs
<1> QED
  BY <1>1, <1>2, <1>3, <1>4 DEF api

\* A job names a task whose CreateTask call has ended, and so does a list of tasks
\* still to enqueue.
LEMMA JobsStarted ==
    ASSUME TypeOK, Unstarted
    PROVE  /\ \A s \in Slots : ~At(s, "free") => handler[run[s].task] = "ended"
           /\ \A p \in Procs : \A t \in todo[p] : t \in Tasks /\ handler[t] = "ended"
<1>1. ASSUME NEW s \in Slots, ~At(s, "free")
      PROVE  handler[run[s].task] = "ended"
  <2> DEFINE q == QueueOf(s[1])
  <2>1. /\ q \in Queues /\ run[s].msg \in DOMAIN queue[q]
        /\ run[s].task = queue[q][run[s].msg].task
        /\ run[s].task \in Tasks
    BY <1>1, BusyRun, QueueOfQueues DEF TypeOK, RunTypes
  <2> HIDE DEF q
  <2> QED
    BY <2>1 DEF Unstarted, Untouched
<1>2. ASSUME NEW p \in Procs, NEW t \in todo[p]
      PROVE  t \in Tasks /\ handler[t] = "ended"
  BY DEF Unstarted, Untouched, TypeOK, ProcTypes
<1> QED
  BY <1>1, <1>2

\* A step that touches at most task u, whose CreateTask call has or now is ended.
LEMMA UnstartedKept ==
    ASSUME TypeOK, Unstarted, NEW u,
           \A t \in Tasks : handler'[t] # "ended" =>
               /\ t # u
               /\ handler'[t] = handler[t]
               /\ task'[t] = task[t],
           OnlyJobsOf(u),
           \A p \in Procs : todo'[p] \subseteq todo[p],
           proc'[API] = "up" \/ proc[API] # "up"
    PROVE  Unstarted'
<1>1. ASSUME NEW t \in Tasks, handler'[t] # "ended"
      PROVE  Untouched(t)'
  <2>1. Untouched(t) /\ t # u /\ handler'[t] = handler[t] /\ task'[t] = task[t]
    BY <1>1 DEF Unstarted
  <2> QED
    BY <2>1 DEF Untouched, OnlyJobsOf
<1>2. ASSUME proc'[API] # "up", NEW t \in Tasks
      PROVE  handler'[t] \in {"none", "ended"}
  BY <1>2 DEF Unstarted
<1> QED
  BY <1>1, <1>2 DEF Unstarted

\* While a CreateTask call is under way the API is up, and nobody else knows the task.
LEMMA HandlerUnstarted ==
    ASSUME TypeOK, Unstarted, NEW t \in Tasks,
           HandlerStep(t) \/ \E d \in DetectRequests : CreateTask(t, d)
    PROVE  Unstarted'
<1>0. /\ handler \in [Tasks -> {"none", "stages", "undo", "enqueue", "ended"}]
      /\ task \in [Tasks -> TaskStatus]
  BY DEF TypeOK, RowTypes, ProcTypes
<1>1. CASE CreateStage(t)
  <2>1. /\ handler[t] = "stages"
        /\ UNCHANGED <<task, queue, proc, todo>>
        /\ \A u \in Tasks \ {t} : handler'[u] = handler[u]
        /\ handler'[t] \in {"stages", "enqueue", "undo"}
    BY <1>0, <1>1 DEF CreateStage
  <2>2. proc[API] = "up" /\ Untouched(t)
    BY <2>1 DEF Unstarted
  <2>3. \A u \in Tasks : handler'[u] # "ended" => Untouched(u)'
    BY <2>1, <2>2 DEF Unstarted, Untouched
  <2> QED
    BY <2>1, <2>2, <2>3 DEF Unstarted
<1>2. CASE DeleteTask(t)
  <2>1. /\ UNCHANGED <<queue, proc, todo>>
        /\ handler' = [handler EXCEPT ![t] = "ended"]
        /\ \A u \in Tasks \ {t} : task'[u] = task[u]
    BY <1>0, <1>2 DEF DeleteTask, SetTask
  <2>2. OnlyJobsOf(t)
    BY <2>1 DEF OnlyJobsOf
  <2> QED
    BY <1>0, <2>1, <2>2, UnstartedKept DEF Unstarted
<1>3. CASE EnqueueTask(t)
  <2>1. /\ UNCHANGED <<task, proc, todo>>
        /\ handler' = [handler EXCEPT ![t] = "ended"]
    BY <1>3 DEF EnqueueTask
  <2>2. OnlyJobsOf(t)
    <3>1. UNCHANGED queue \/ queue' = [queue EXCEPT !["rs"] = XAdd(queue["rs"], t, wants[t])]
      BY <1>3 DEF EnqueueTask, JobOfRequest
    <3>2. wants[t] \in BOOLEAN
      BY DEF TypeOK, RowTypes
    <3> QED
      BY <3>1, <3>2, RSQueue, XAddOnlyJobs
  <2> QED
    BY <1>0, <2>1, <2>2, UnstartedKept DEF Unstarted
<1>4. ASSUME NEW d \in DetectRequests, CreateTask(t, d)
      PROVE  Unstarted'
  <2>1. /\ handler[t] = "none" /\ proc[API] = "up"
        /\ UNCHANGED <<queue, proc, todo>>
        /\ \A u \in Tasks \ {t} : handler'[u] = handler[u] /\ task'[u] = task[u]
        /\ \/ handler'[t] = "stages" /\ task'[t] = "pending"
           \/ handler'[t] = "ended"
    BY <1>0, <1>4 DEF CreateTask, SetTask
  <2>2. \A u \in Tasks : handler'[u] # "ended" => Untouched(u)'
    BY <2>1 DEF Unstarted, Untouched
  <2> QED
    BY <2>1, <2>2 DEF Unstarted
<1> QED
  BY <1>1, <1>2, <1>3, <1>4 DEF HandlerStep

LEMMA ProcUnstarted ==
    ASSUME TypeOK, Unstarted, NEW p \in Procs, ProcStep(p) \/ Crash(p)
    PROVE  Unstarted'
<1>0. /\ proc \in [Procs -> {"up", "boot", "down"}] /\ todo \in [Procs -> SUBSET Tasks]
      /\ API \in Procs /\ API \notin ODWorkers
  BY ConstantsAssumption DEF TypeOK, ProcTypes, Procs, Workers
<1>1. CASE Restart(p)
  <2> DEFINE found == {t \in Tasks : task[t] = BootStatus(p)}
             q == QueueOf(p)
  <2>1. /\ UNCHANGED <<task, handler>>
        /\ todo' = todo \/ (p \notin ODWorkers /\ todo' = [todo EXCEPT ![p] = found])
        /\ proc[p] = "down"
        /\ \E v : proc' = [proc EXCEPT ![p] = v]
        /\ UNCHANGED queue \/ queue' = [queue EXCEPT ![q] = Regroup(queue[q])]
    BY <1>1 DEF Restart, EnsureGroup
  <2>2. \A u \in Tasks : OnlyJobsOf(u)
    <3>1. q \in Queues /\ SameJobs(Tasks, queue[q], Regroup(queue[q]))
      BY QueueOfQueues, RegroupSame DEF TypeOK, StreamTypes
    <3> HIDE DEF q
    <3> QED
      BY <2>1, <3>1, SameOnlyJobs
  <2>3. \A u \in Tasks : handler[u] # "ended" => u \notin found
    <3> SUFFICES ASSUME NEW u \in Tasks, handler[u] # "ended"
                 PROVE  task[u] # BootStatus(p)
      OBVIOUS
    <3>1. task[u] = IF handler[u] = "none" THEN "absent" ELSE "pending"
      BY DEF Unstarted, Untouched
    <3>2. CASE p = API
      BY <2>1, <3>1, <3>2 DEF Unstarted, BootStatus
    <3>3. CASE p # API
      BY <3>1, <3>3 DEF BootStatus
    <3> QED
      BY <3>2, <3>3
  <2>4. ASSUME NEW u \in Tasks, handler'[u] # "ended"
        PROVE  Untouched(u)'
    <3>1. Untouched(u) /\ u \notin found
      BY <2>1, <2>3, <2>4 DEF Unstarted
    <3> HIDE DEF found
    <3>2. \A x \in Procs : u \notin todo'[x]
      BY <1>0, <2>1, <3>1 DEF Untouched
    <3>3. \A x \in Queues : \A i \in DOMAIN queue'[x] : queue'[x][i].task # u
      <4>1. q \in Queues /\ SameJobs(Tasks, queue[q], Regroup(queue[q]))
        BY QueueOfQueues, RegroupSame DEF TypeOK, StreamTypes
      <4> HIDE DEF q
      <4> SUFFICES ASSUME NEW x \in Queues, NEW i \in DOMAIN queue'[x]
                   PROVE  queue'[x][i].task # u
        OBVIOUS
      <4>2. CASE x = q
        <5>1. queue'[x] = queue[x] \/ queue'[x] = Regroup(queue[x])
          BY <2>1, <4>1, <4>2 DEF TypeOK, StreamTypes
        <5>2. i \in DOMAIN queue[x] /\ queue'[x][i].task = queue[x][i].task
          BY <4>1, <4>2, <5>1 DEF SameJobs
        <5> QED
          BY <3>1, <5>2 DEF Untouched
      <4>3. CASE x # q
        <5>1. queue'[x] = queue[x]
          BY <2>1, <4>1, <4>3 DEF TypeOK, StreamTypes
        <5> QED
          BY <3>1, <5>1 DEF Untouched
      <4> QED
        BY <4>2, <4>3
    <3> QED
      BY <2>1, <3>1, <3>2, <3>3 DEF Untouched
  <2>5. proc'[API] # "up" => proc[API] # "up"
    BY <1>0, <2>1
  <2> QED
    BY <2>1, <2>4, <2>5 DEF Unstarted
<1>2. CASE BootEnqueue(p)
  <2>1. PICK t \in todo[p] :
              /\ todo' = [todo EXCEPT ![p] = todo[p] \ {t}]
              /\ UNCHANGED queue \/ queue' = [queue EXCEPT !["rs"] = XAdd(queue["rs"], t, row[t])]
    BY <1>2, Zenon DEF BootEnqueue
  <2>2. UNCHANGED <<task, handler, proc>>
    BY <1>2 DEF BootEnqueue
  <2>3. t \in Tasks /\ handler[t] = "ended"
    BY JobsStarted
  <2>4. row[t] \in BOOLEAN
    BY <2>3 DEF TypeOK, RowTypes
  <2>5. OnlyJobsOf(t)
    BY <2>1, <2>3, <2>4, RSQueue, XAddOnlyJobs
  <2> QED
    BY <1>0, <2>1, <2>2, <2>3, <2>5, UnstartedKept DEF Unstarted
<1>3. CASE BootDone(p)
  <2>1. /\ UNCHANGED <<task, handler, queue, todo>>
        /\ proc[p] = "boot" /\ proc' = [proc EXCEPT ![p] = "up"]
    BY <1>3 DEF BootDone
  <2>2. proc'[API] = "up" \/ proc[API] # "up" \/ proc'[API] = proc[API]
    BY <1>0, <2>1
  <2> QED
    BY <2>1, <2>2 DEF Unstarted, Untouched
<1>4. CASE Crash(p)
  <2>1. /\ UNCHANGED <<task, queue>>
        /\ todo' = [todo EXCEPT ![p] = {}]
        /\ proc' = [proc EXCEPT ![p] = "down"]
        /\ handler' = IF p = API
                      THEN [t \in Tasks |-> IF handler[t] = "none" THEN "none" ELSE "ended"]
                      ELSE handler
    BY <1>4 DEF Crash
  <2>2. \A t \in Tasks : handler'[t] # "ended" => handler'[t] = handler[t]
    BY <2>1
  <2>3. \A t \in Tasks : handler'[t] # "ended" => Untouched(t)'
    BY <1>0, <2>1, <2>2 DEF Unstarted, Untouched
  <2>4. proc'[API] # "up" => \A t \in Tasks : handler'[t] \in {"none", "ended"}
    BY <1>0, <2>1 DEF Unstarted
  <2> QED
    BY <2>3, <2>4 DEF Unstarted
<1> QED
  BY <1>1, <1>2, <1>3, <1>4 DEF ProcStep

LEMMA SharedUnstarted ==
    ASSUME TypeOK, Unstarted,
           \/ \E i \in DOMAIN queue["rs"] : IdleOrphan(i) \/ IdleHeld(i)
           \/ \E q \in Queues : LoseGroup(q)
           \/ \E w \in Workers : ReceiveStep(w)
           \/ \E c \in Receivers : ProcessJob(c)
    PROVE  Unstarted'
<1>1. CASE \E c \in Receivers : ProcessJob(c)
  <2>1. UNCHANGED <<task, api, queue>>
    BY <1>1, Zenon DEF ProcessJob
  <2> QED
    BY <2>1 DEF Unstarted, Untouched, api
<1>2. ASSUME NEW q \in Queues, NEW b, SameJobs(Tasks, queue[q], b),
             UNCHANGED queue \/ queue' = [queue EXCEPT ![q] = b],
             UNCHANGED <<task, rows, stage, api, run>>
      PROVE  Unstarted'
  <2>1. UNCHANGED <<task, handler, proc, todo>>
    BY <1>2 DEF api
  <2>2. ASSUME NEW t \in Tasks, handler[t] # "ended"
        PROVE  Untouched(t)'
    <3>1. Untouched(t)
      BY <2>2 DEF Unstarted
    <3>2. \A x \in Queues : \A i \in DOMAIN queue'[x] : queue'[x][i].task # t
      BY <1>2, <3>1 DEF Untouched, SameJobs, TypeOK, StreamTypes
    <3> QED
      BY <2>1, <3>1, <3>2 DEF Untouched
  <2> QED
    BY <2>1, <2>2 DEF Unstarted
<1> QED
  BY <1>1, <1>2, RedisSameJobs

\* The job handed back names a task whose CreateTask call has ended.
LEMMA ReleaseUnstarted ==
    ASSUME TypeOK, Unstarted, NEW c \in Receivers, ReleaseAck(c) \/ ReleaseAdd(c)
    PROVE  Unstarted'
<1>0. queue["rs"] \in Seq(Entry(Tasks))
  BY RSQueue DEF TypeOK, StreamTypes
<1>1. UNCHANGED <<task, handler, proc, todo>>
  BY DEF ReleaseAck, ReleaseAdd
<1>2. ASSUME NEW u, u \notin Tasks \/ handler[u] = "ended", OnlyJobsOf(u)
      PROVE  Unstarted'
  BY <1>1, <1>2, UnstartedKept
<1>3. CASE ReleaseAck(c)
  <2>1. PICK i \in inbox[c] :
              /\ c[1] \in RSWorkers
              /\ UNCHANGED queue \/ queue' = [queue EXCEPT !["rs"] = XAck(queue["rs"], i)]
    BY <1>3 DEF ReleaseAck, ShouldProcess
  <2>2. i \in DOMAIN queue["rs"]
    BY <2>1 DEF TypeOK, StreamTypes, QueueOf
  <2>3. OnlyJobsOf(NoTask)
    BY <1>0, <2>1, <2>2, RSQueue, XAckSame, SameOnlyJobs
  <2> QED
    BY <1>2, <2>3, ConstantsAssumption
<1>4. CASE ReleaseAdd(c)
  <2>1. PICK i \in release[c] :
              \/ UNCHANGED queue
              \/ queue' = [queue EXCEPT !["rs"] = XAdd(queue["rs"], queue["rs"][i].task,
                                                     queue["rs"][i].detect)]
    BY <1>4 DEF ReleaseAdd
  <2>2. i \in DOMAIN queue["rs"] /\ queue["rs"][i] \in Entry(Tasks)
    BY <1>0 DEF TypeOK, StreamTypes
  <2>3. queue["rs"][i].task \in Tasks /\ queue["rs"][i].detect \in BOOLEAN
    BY <2>2 DEF Entry
  <2>4. OnlyJobsOf(queue["rs"][i].task)
    BY <2>1, <2>3, RSQueue, XAddOnlyJobs
  <2>5. handler[queue["rs"][i].task] = "ended"
    BY <2>2, <2>3, RSQueue DEF Unstarted, Untouched
  <2> QED
    BY <1>2, <2>4, <2>5
<1> QED
  BY <1>3, <1>4

LEMMA RunUnstarted ==
    ASSUME TypeOK, Unstarted, NEW s \in Slots, RunStep(s)
    PROVE  Unstarted'
<1> DEFINE u == run[s].task
<1>1. /\ handler[u] = "ended" /\ u \in Tasks
      /\ UNCHANGED <<handler, proc, todo>>
      /\ OnlyJobsOf(u)
  BY RunStepTask, JobsStarted, BusyRun
<1>2. \A t \in Tasks \ {u} : task'[t] = task[t]
  BY RunStepTask DEF SetTask, TypeOK, RowTypes
<1> HIDE DEF u
<1> QED
  BY <1>1, <1>2, UnstartedKept DEF Unstarted

LEMMA InitUnstarted == Init => Unstarted
  BY ConstantsAssumption DEF Init, Unstarted, Untouched, Procs

LEMMA NextUnstarted == TypeOK /\ Unstarted /\ [Next]_vars => Unstarted'
<1> SUFFICES ASSUME TypeOK, Unstarted, [Next]_vars
             PROVE  Unstarted'
  OBVIOUS
<1>1. ASSUME NEW t \in Tasks, HandlerStep(t) \/ \E d \in DetectRequests : CreateTask(t, d)
      PROVE  Unstarted'
  BY <1>1, HandlerUnstarted
<1>2. ASSUME NEW p \in Procs, ProcStep(p) \/ Crash(p)
      PROVE  Unstarted'
  BY <1>2, ProcUnstarted
<1>3. ASSUME \/ \E i \in DOMAIN queue["rs"] : IdleOrphan(i) \/ IdleHeld(i)
             \/ \E q \in Queues : LoseGroup(q)
             \/ \E w \in Workers : ReceiveStep(w)
             \/ \E c \in Receivers : ProcessJob(c)
      PROVE  Unstarted'
  BY <1>3, SharedUnstarted
<1>6. ASSUME NEW c \in Receivers, ReleaseAck(c) \/ ReleaseAdd(c)
      PROVE  Unstarted'
  BY <1>6, ReleaseUnstarted
<1>4. ASSUME NEW s \in Slots, RunStep(s)
      PROVE  Unstarted'
  BY <1>4, RunUnstarted
<1>5. ASSUME UNCHANGED vars
      PROVE  Unstarted'
  BY <1>5 DEF vars, Unstarted, Untouched
<1> QED
  BY <1>1, <1>2, <1>3, <1>4, <1>5, <1>6 DEF Next, HandleStep

-----------------------------------------------------------------------------
(* AsAsked is inductive.                                                   *)

LEMMA RestartsStay ==
    ASSUME TypeOK, [Next]_vars, NoRestart'
    PROVE  /\ NoRestart
           /\ ~Spend("apiCrash") /\ ~Spend("rsCrash") /\ ~Spend("handBack")
<1>1. "apiCrash" \in Hazards /\ "rsCrash" \in Hazards /\ "handBack" \in Hazards
  BY DEF Hazards
<1> QED
  BY <1>1, StillZero, SpendStrikes DEF NoRestart

LEMMA MarkedAsAsked ==
    ASSUME JobsAsAsked, UNCHANGED wants, NEW q \in Queues, NEW S, NEW v,
           Marked(q, S, v) \/ UNCHANGED queue
    PROVE  JobsAsAsked'
<1>1. \A p \in Queues : /\ DOMAIN queue'[p] = DOMAIN queue[p]
                        /\ \A j \in DOMAIN queue[p] : /\ queue'[p][j].task = queue[p][j].task
                                                      /\ queue'[p][j].detect = queue[p][j].detect
  BY DEF Marked
<1> QED
  BY <1>1, RSQueue DEF JobsAsAsked

LEMMA AgedAsAsked ==
    ASSUME JobsAsAsked, UNCHANGED wants, NEW i, Aged(i)
    PROVE  JobsAsAsked'
  BY DEF JobsAsAsked, Aged

LEMMA AppendedAsAsked ==
    ASSUME JobsAsAsked, UNCHANGED wants, NEW q \in Queues, NEW t, NEW d, Appended(q, t, d),
           q = "rs" => d = wants[t],
           q = "od" => wants[t]
    PROVE  JobsAsAsked'
<1>1. CASE q = "rs"
  <2>1. queue'["od"] = queue["od"]
    BY <1>1, RSQueue DEF Appended
  <2> QED
    BY <1>1, <2>1 DEF JobsAsAsked, Appended
<1>2. CASE q = "od"
  <2>1. queue'["rs"] = queue["rs"]
    BY <1>2, RSQueue DEF Appended
  <2> QED
    BY <1>2, <2>1 DEF JobsAsAsked, Appended
<1> QED
  BY <1>1, <1>2 DEF Queues

\* CreateTask sets wants before the task has a job, and enqueues it with that flag.
LEMMA HandlerAsAsked ==
    ASSUME TypeOK, Unstarted, AllServe, JobsAsAsked, RunsAsAsked, NEW t \in Tasks,
           HandlerStep(t) \/ \E d \in DetectRequests : CreateTask(t, d)
    PROVE  AllServe' /\ JobsAsAsked' /\ RunsAsAsked'
<1>1. UNCHANGED <<proc, run>>
  BY Zenon DEF HandlerStep, CreateTask, CreateStage, DeleteTask, EnqueueTask
<1>2. CASE HandlerStep(t)
  <2>1. UNCHANGED wants
    BY <1>2, Zenon DEF HandlerStep, CreateStage, DeleteTask, EnqueueTask, rows
  <2>2. UNCHANGED queue \/ Appended("rs", t, wants[t])
    BY <1>2, EnqueueShape DEF HandlerStep, CreateStage, DeleteTask
  <2>3. JobsAsAsked'
    BY <2>1, <2>2, MarkedAsAsked, AppendedAsAsked, RSQueue
  <2> QED
    BY <1>1, <2>1, <2>3 DEF AllServe, RunsAsAsked, At
<1>3. ASSUME NEW d \in DetectRequests, CreateTask(t, d)
      PROVE  AllServe' /\ JobsAsAsked' /\ RunsAsAsked'
  <2>1. /\ UNCHANGED queue /\ handler[t] = "none"
        /\ \A u \in Tasks \ {t} : wants'[u] = wants[u]
    BY <1>3 DEF CreateTask, TypeOK, RowTypes
  <2>2. \A q \in Queues : \A i \in DOMAIN queue[q] : queue[q][i].task # t
    BY <2>1 DEF Unstarted, Untouched
  <2>3. \A q \in Queues : \A i \in DOMAIN queue[q] : queue[q][i].task \in Tasks
    <3>1. \A q \in Queues : queue[q] \in Seq(Entry(Tasks))
      BY DEF TypeOK, StreamTypes
    <3>2. \A e \in Entry(Tasks) : e.task \in Tasks
      BY DEF Entry
    <3> QED
      BY <3>1, <3>2
  <2>4. \A s \in Slots : ~At(s, "free") => run[s].task # t /\ run[s].task \in Tasks
    BY <2>1, JobsStarted, BusyRun
  <2>5. JobsAsAsked'
    BY <2>1, <2>2, <2>3, RSQueue DEF JobsAsAsked
  <2>6. RunsAsAsked'
    BY <1>1, <2>1, <2>4 DEF RunsAsAsked, At
  <2> QED
    BY <1>1, <2>5, <2>6 DEF AllServe
<1> QED
  BY <1>2, <1>3

\* Only od-workers are killed and started again, and they enqueue nothing.
LEMMA ProcAsAsked ==
    ASSUME TypeOK, AllServe, JobsAsAsked, RunsAsAsked,
           ~Spend("apiCrash") /\ ~Spend("rsCrash") /\ ~Spend("handBack"),
           NEW p \in Procs, ProcStep(p) \/ Crash(p)
    PROVE  AllServe' /\ JobsAsAsked' /\ RunsAsAsked'
<1>0. proc \in [Procs -> {"up", "boot", "down"}]
  BY DEF TypeOK, ProcTypes
<1>1. CASE Restart(p)
  <2>1. p \in ODWorkers
    BY <1>1, ConstantsAssumption DEF Restart, AllServe
  <2>2. proc' = [proc EXCEPT ![p] = "up"] /\ UNCHANGED <<wants, run>>
    BY <1>1, <2>1 DEF Restart, rows
  <2>3. JobsAsAsked'
    BY <1>1, <2>2, RestartShape, MarkedAsAsked, QueueOfQueues, RSQueue
  <2> QED
    BY <1>0, <2>2, <2>3 DEF AllServe, RunsAsAsked, At
<1>2. CASE BootEnqueue(p) \/ BootDone(p)
  BY <1>2 DEF BootEnqueue, BootDone, AllServe
<1>3. CASE Crash(p)
  <2>1. p \in ODWorkers
    BY <1>3, CrashKinds DEF Crash, Procs, Workers
  <2>2. /\ proc' = [proc EXCEPT ![p] = "down"] /\ UNCHANGED <<wants, queue>>
        /\ run' = [s \in Slots |-> IF s[1] = p THEN Free ELSE run[s]]
    BY <1>3 DEF Crash, rows
  <2>3. JobsAsAsked'
    BY <2>2, MarkedAsAsked, RSQueue
  <2>4. AllServe'
    BY <1>0, <2>1, <2>2 DEF AllServe
  <2>5. \A s \in Slots : run'[s] = run[s] \/ run'[s].pc = "free"
    BY <2>2, FreeType
  <2>6. RunsAsAsked'
    BY <2>2, <2>5 DEF RunsAsAsked, At
  <2> QED
    BY <2>3, <2>4, <2>6
<1> QED
  BY <1>1, <1>2, <1>3 DEF ProcStep

LEMMA SharedAsAsked ==
    ASSUME TypeOK, AllServe, JobsAsAsked, RunsAsAsked,
           \/ \E i \in DOMAIN queue["rs"] : IdleOrphan(i) \/ IdleHeld(i)
           \/ \E q \in Queues : LoseGroup(q)
           \/ \E w \in Workers : ReceiveStep(w)
    PROVE  AllServe' /\ JobsAsAsked' /\ RunsAsAsked'
<1>1. UNCHANGED <<wants, proc, run>>
  BY RedisSameJobs DEF api, rows
<1>2. JobsAsAsked'
  <2>1. ASSUME NEW i \in DOMAIN queue["rs"], IdleOrphan(i) \/ IdleHeld(i)
        PROVE  JobsAsAsked'
    BY <1>1, <2>1, IdleShape, AgedAsAsked
  <2>2. ASSUME NEW q \in Queues, LoseGroup(q)
        PROVE  JobsAsAsked'
    BY <1>1, <2>2, MarkedAsAsked DEF LoseGroup
  <2>3. ASSUME NEW w \in Workers, ReceiveStep(w)
        PROVE  JobsAsAsked'
    <3>0. \A q \in Queues : \A S, v : Marked(q, S, v) => JobsAsAsked'
      BY <1>1, MarkedAsAsked
    <3>1. CASE ReadJob(w)
      BY <3>0, <3>1, ReadShape, QueueOfQueues, Zenon
    <3>2. CASE ReclaimStaleRSJobs(w)
      BY <3>0, <3>2, ReclaimShape, RSQueue, Zenon
    <3>3. CASE RebuildGroup(w)
      BY <3>0, <3>3, RebuildShape, RSQueue, Zenon
    <3> QED
      BY <2>3, <3>1, <3>2, <3>3 DEF ReceiveStep
  <2> QED
    BY <2>1, <2>2, <2>3
<1> QED
  BY <1>1, <1>2 DEF AllServe, RunsAsAsked, At

\* A goroutine takes over the flag of its job, a job handed back keeps it.
LEMMA HandleAsAsked ==
    ASSUME TypeOK, AllServe, JobsAsAsked, RunsAsAsked, NEW c \in Receivers, HandleStep(c)
    PROVE  AllServe' /\ JobsAsAsked' /\ RunsAsAsked'
<1>1. UNCHANGED <<wants, proc>>
  BY Zenon DEF HandleStep, ProcessJob, ReleaseAck, ReleaseAdd, api, rows
<1>2. CASE ProcessJob(c)
  <2>1. UNCHANGED queue
    BY <1>2, Zenon DEF ProcessJob
  <2>2. PICK i, s :
          /\ s \in Slots /\ i \in DOMAIN queue[QueueOf(c[1])]
          /\ s[1] = c[1]
          /\ \A x \in Slots \ {s} : run'[x] = run[x]
          /\ run'[s].pc = IF IsRS(s) THEN "claim" ELSE "stage"
          /\ run'[s].task = queue[QueueOf(c[1])][i].task
          /\ run'[s].detect = queue[QueueOf(c[1])][i].detect
    BY <1>2, ProcessShape
  <2>3. IsRS(s) => run'[s].detect = wants[run'[s].task]
    BY <2>2 DEF IsRS, QueueOf, JobsAsAsked
  <2>4. RunsAsAsked'
    BY <1>1, <2>2, <2>3 DEF RunsAsAsked, At, IsRS
  <2> QED
    BY <1>1, <2>1, <2>4, MarkedAsAsked, RSQueue DEF AllServe
<1>3. CASE ReleaseAck(c) \/ ReleaseAdd(c)
  <2>1. UNCHANGED run
    BY <1>3, Zenon DEF ReleaseAck, ReleaseAdd
  <2>2. JobsAsAsked'
    <3>1. CASE ReleaseAck(c)
      BY <1>1, <3>1, ReleaseAckShape, MarkedAsAsked, RSQueue
    <3>2. CASE ReleaseAdd(c)
      <4>1. PICK i \in DOMAIN queue["rs"] :
              UNCHANGED queue \/ Appended("rs", queue["rs"][i].task, queue["rs"][i].detect)
        BY <3>2, ReleaseAddShape
      <4>2. queue["rs"][i].detect = wants[queue["rs"][i].task]
        BY DEF JobsAsAsked
      <4> QED
        BY <1>1, <4>1, <4>2, MarkedAsAsked, AppendedAsAsked, RSQueue
    <3> QED
      BY <1>3, <3>1, <3>2
  <2> QED
    BY <1>1, <2>1, <2>2 DEF AllServe, RunsAsAsked, At
<1> QED
  BY <1>2, <1>3 DEF HandleStep

\* A detection job is enqueued by a goroutine whose flag is set.
LEMMA RunAsAsked ==
    ASSUME TypeOK, AllServe, JobsAsAsked, RunsAsAsked, NEW s \in Slots, RunStep(s)
    PROVE  AllServe' /\ JobsAsAsked' /\ RunsAsAsked'
<1>0. UNCHANGED <<wants, proc>> /\ ~At(s, "free")
  BY RunStepShape
<1>1. CASE AckJob(s)
  <2>1. /\ run'[s] = Free
        /\ \A x \in Slots \ {s} : run'[x] = run[x]
        /\ \/ UNCHANGED queue
           \/ Marked(QueueOf(s[1]), {run[s].msg}, AckState(QueueOf(s[1]), run[s].msg))
    BY <1>1, AckShape
  <2>2. JobsAsAsked'
    BY <1>0, <2>1, MarkedAsAsked, QueueOfQueues, RSQueue
  <2>3. RunsAsAsked'
    BY <1>0, <2>1, FreeType DEF RunsAsAsked, At
  <2> QED
    BY <1>0, <2>2, <2>3 DEF AllServe
<1>2. CASE Onward(s) /\ (UNCHANGED queue \/ (At(s, "odAdd") /\ Appended("od", run[s].task, TRUE)))
  <2>1. At(s, "odAdd") => wants[run[s].task]
    BY <1>0 DEF RunsAsAsked
  <2>2. JobsAsAsked'
    BY <1>0, <1>2, <2>1, MarkedAsAsked, AppendedAsAsked, RSQueue
  <2>3. /\ \A x \in Slots \ {s} : run'[x] = run[x]
        /\ run'[s].task = run[s].task /\ run'[s].detect = run[s].detect
        /\ run'[s].pc = "odRow" => run[s].detect
        /\ run'[s].pc = "odAdd" => IsRS(s) /\ (run[s].detect \/ At(s, "odRow"))
    BY <1>2 DEF Onward, RunTo
  <2>4. RunsAsAsked'
    BY <1>0, <2>3 DEF RunsAsAsked, At, IsRS
  <2> QED
    BY <1>0, <2>2, <2>4 DEF AllServe
<1> QED
  BY <1>1, <1>2, RunStepShape

LEMMA NextAsAsked == TypeOK /\ Unstarted /\ AsAsked /\ [Next]_vars => AsAsked'
<1> SUFFICES ASSUME TypeOK, Unstarted, AsAsked, [Next]_vars, NoRestart'
             PROVE  AllServe' /\ JobsAsAsked' /\ RunsAsAsked'
  BY DEF AsAsked
<1>1. /\ AllServe /\ JobsAsAsked /\ RunsAsAsked
      /\ ~Spend("apiCrash") /\ ~Spend("rsCrash") /\ ~Spend("handBack")
  BY RestartsStay DEF AsAsked
<1>2. CASE UNCHANGED vars
  BY <1>1, <1>2 DEF vars, AllServe, JobsAsAsked, RunsAsAsked, At
<1>3. CASE Next
  BY <1>1, <1>3, HandlerAsAsked, ProcAsAsked, SharedAsAsked, HandleAsAsked, RunAsAsked
     DEF Next
<1> QED
  BY <1>2, <1>3

LEMMA InitAsAsked == Init => AsAsked
<1> SUFFICES ASSUME Init
             PROVE  AllServe /\ JobsAsAsked /\ RunsAsAsked
  BY DEF AsAsked
<1>1. /\ \A p \in Procs : proc[p] = "up"
      /\ queue["rs"] = <<>> /\ queue["od"] = <<>>
      /\ \A s \in Slots : At(s, "free")
  BY FreeType, RSQueue DEF Init, At
<1> QED
  BY <1>1 DEF AllServe, JobsAsAsked, RunsAsAsked

\* While neither the API nor an rs-worker was restarted, which reads the flag of the
\* row, every job of od.jobs is for a task whose request asked for detection: the flag
\* is the same in the request, the job, the goroutine and a job handed back
\* (EnqueueRSJob, ReleaseRSJobForOtherConsumer, shouldSkipODJob, EnqueueODJob).
THEOREM DetectionWasAsked == Spec => []DetectionAsRequested
<1>1. Init => TypeOK /\ Unstarted /\ AsAsked
  BY InitType, InitUnstarted, InitAsAsked
<1>2. (TypeOK /\ Unstarted /\ AsAsked) /\ [Next]_vars => (TypeOK /\ Unstarted /\ AsAsked)'
  BY NextType, NextUnstarted, NextAsAsked
<1>3. AsAsked => DetectionAsRequested
  BY DEF AsAsked, NoRestart, JobsAsAsked, DetectionAsRequested
<1> QED
  BY <1>1, <1>2, <1>3, PTL DEF Spec

-----------------------------------------------------------------------------
(* Delivery: who holds the job of a task.                                  *)

\* No delivery of stream q was repeated behind its holder's back.
Punctual(q) ==
    IF q = "rs" THEN spent["slow"] = 0 /\ spent["rsGroup"] = 0 ELSE spent["odGroup"] = 0

\* The entry is pending and its time has been reset since.
Taken(q, i) == queue[q][i].st = "pending" /\ ~queue[q][i].idle

\* Whoever holds a message of q holds it alone, and Redis knows it as taken.
HeldOnce(q) ==
    /\ group[q]
    /\ \A i \in DOMAIN queue[q] : Held(q, i) => Taken(q, i)
    /\ \A c, d \in Receivers :
          (QueueOf(c[1]) = q /\ QueueOf(d[1]) = q /\ inbox[c] \cap inbox[d] # {}) => c = d
    /\ \A c \in Receivers, s \in Slots :
          (QueueOf(c[1]) = q /\ QueueOf(s[1]) = q /\ ~At(s, "free")) => run[s].msg \notin inbox[c]
    /\ \A r, s \in Slots :
          (QueueOf(r[1]) = q /\ QueueOf(s[1]) = q /\ ~At(r, "free") /\ ~At(s, "free")
             /\ run[r].msg = run[s].msg) => r = s

OneHolder == \A q \in Queues : Punctual(q) => HeldOnce(q)

\* No command failed, and no worker was killed with a job in its hands.
NoLoss == spent["fault"] = 0 /\ spent["handBack"] = 0

\* The task's job is still to come from somewhere.
Expected(t) ==
    \/ handler[t] # "ended"
    \/ Scheduled(t)
    \/ proc[API] = "down"
    \/ proc[API] = "boot" /\ t \in todo[API]

\* A goroutine of an rs-worker that is past the claim does not work on a pending task.
RunsClaimed ==
    \A s \in Slots : IsRS(s) /\ run[s].pc \notin {"free", "claim"} => task[run[s].task] # "pending"

\* Only rs-workers hand jobs back, each of their receivers one at a time.
OneHandedBack ==
    \A c \in Receivers : /\ c[1] \in ODWorkers => release[c] = {}
                         /\ \A i, j \in release[c] : i = j

NotForgotten ==
    /\ OneHandedBack
    /\ NoLoss => RunsClaimed /\ \A t \in Tasks : task[t] = "pending" => Expected(t)

\* The stages before k are recorded as successful, the ones after it untouched.
Behind(t, k) == \A j \in Stages : j < k => stage[t][j] = "success" /\ j \in artifact[t]
Ahead(t, k)  == \A j \in Stages : j > k => stage[t][j] = "pending"

\* The rows of task t are those of a run at stage k that is to perform step pc.
Course(t, pc, k, skip) ==
    /\ skip = {} /\ Behind(t, k) /\ Ahead(t, k)
    /\ pc \notin {"free", "check", "snapshot", "ack"}
    /\ pc = "claim" => k = 1 /\ task[t] = "pending"
    /\ pc = "fail" => task[t] \in {"running", "failed"}
    /\ pc \notin {"claim", "fail"} => task[t] = "running"
    /\ pc \in {"odRow", "odAdd", "begin", "finish"} => k = OD
    /\ pc \in {"claim", "stage", "odRow", "odAdd", "begin"} => stage[t][k] = "pending"
    /\ pc \in {"exec", "succeed", "failRow"} => stage[t][k] = "running"
    /\ pc \in {"record", "finish"} => stage[t][k] = "success"
    /\ pc \in {"failTask", "fail"} => stage[t][k] = "failed"

\* The rows a job of queue q starts from: those of a new task, or those of a task whose
\* stages before detection are done.
Ready(q, t) == IF q = "rs" THEN Course(t, "claim", 1, {}) ELSE Course(t, "stage", OD, {})

WorkedOn(q, i) == \E s \in Slots : QueueOf(s[1]) = q /\ ~At(s, "free") /\ run[s].msg = i

\* The task's job is in stream q at i and not done, or in the hands of receiver c.
Live(q, i) ==
    /\ queue[q][i].st # "acked"
    /\ \A s \in Slots : QueueOf(s[1]) = q /\ At(s, "ack") => run[s].msg # i
InStream(t, q, i) == i \in DOMAIN queue[q] /\ Live(q, i) /\ queue[q][i].task = t
InHand(t, c, i)   == i \in release[c] /\ queue["rs"][i].task = t

\* A task has at most one job.
OneCarrier(t) ==
    /\ \A q, p \in Queues : \A i \in DOMAIN queue[q], j \in DOMAIN queue[p] :
          InStream(t, q, i) /\ InStream(t, p, j) => q = p /\ i = j
    /\ \A c, d \in Receivers : \A i \in release[c], j \in release[d] :
          InHand(t, c, i) /\ InHand(t, d, j) => c = d /\ i = j
    /\ \A q \in Queues, c \in Receivers : \A i \in DOMAIN queue[q], j \in release[c] :
          ~(InStream(t, q, i) /\ InHand(t, c, j))

\* The stage rows while CreateTask inserts them.
Created(t) ==
    /\ handler[t] # "undo"
    /\ handler[t] \in {"none", "stages"} =>
          \A k \in Stages : stage[t][k] \in {"absent", "pending"}
    /\ handler[t] = "enqueue" => \A k \in Stages : stage[t][k] = "pending"

Agreed(t) ==
    /\ task[t] = "completed" => /\ \A k \in Stages : stage[t][k] = "success"
                                /\ Prep \subseteq artifact[t]
    /\ task[t] = "failed" => \E k \in Stages : stage[t][k] = "failed"

Serving      == \A p \in Procs : proc[p] = "up" /\ todo[p] = {}
TasksInStep  == \A t \in Tasks : Created(t) /\ Agreed(t) /\ OneCarrier(t)
JobsInStep   == \A q \in Queues : \A i \in DOMAIN queue[q] :
                   queue[q][i].st # "acked" /\ ~WorkedOn(q, i) => Ready(q, queue[q][i].task)
HandsInStep  == \A c \in Receivers : \A i \in release[c] : Ready("rs", queue["rs"][i].task)
RunsInStep   == \A s \in Slots : ~At(s, "free") /\ ~At(s, "ack") =>
                   Course(run[s].task, run[s].pc, run[s].k, run[s].skip)

\* While nothing goes wrong, a task is in one pair of hands, which know its rows.
InStep == Serving /\ TasksInStep /\ JobsInStep /\ HandsInStep /\ RunsInStep

-----------------------------------------------------------------------------
(* OneHolder is inductive.                                                 *)

\* What is held stays held by the same one, or is let go.
HoldersShrink(q) ==
    /\ \A c \in Receivers : QueueOf(c[1]) = q => inbox'[c] \subseteq inbox[c]
    /\ \A x \in Slots : QueueOf(x[1]) = q /\ ~At(x, "free")' =>
                            ~At(x, "free") /\ run'[x].msg = run[x].msg

LEMMA HeldOnceKept ==
    ASSUME NEW q \in Queues, HeldOnce(q), group'[q], HoldersShrink(q),
           \A i \in DOMAIN queue'[q] : Held(q, i)' => Taken(q, i)'
    PROVE  HeldOnce(q)'
<1>1. \A c, d \in Receivers :
        (QueueOf(c[1]) = q /\ QueueOf(d[1]) = q /\ inbox'[c] \cap inbox'[d] # {}) => c = d
  BY DEF HeldOnce, HoldersShrink
<1>2. \A c \in Receivers, s \in Slots :
        (QueueOf(c[1]) = q /\ QueueOf(s[1]) = q /\ ~At(s, "free")') => run'[s].msg \notin inbox'[c]
  BY DEF HeldOnce, HoldersShrink
<1>3. \A r, s \in Slots :
        (QueueOf(r[1]) = q /\ QueueOf(s[1]) = q /\ ~At(r, "free")' /\ ~At(s, "free")'
           /\ run'[r].msg = run'[s].msg) => r = s
  BY DEF HeldOnce, HoldersShrink
<1> QED
  BY <1>1, <1>2, <1>3 DEF HeldOnce

\* Only what was held is held.
LEMMA HeldBefore ==
    ASSUME NEW q \in Queues, HoldersShrink(q), NEW i, Held(q, i)'
    PROVE  Held(q, i)
  BY DEF Held, HoldersShrink

\* What is held is in the stream.
LEMMA HeldInStream ==
    ASSUME TypeOK, NEW q \in Queues, NEW i, Held(q, i)
    PROVE  i \in DOMAIN queue[q]
  BY DEF Held, TypeOK, StreamTypes, RunTypes

\* An update of a stream that spares the messages held after it.
LEMMA MarkedHeldOnce ==
    ASSUME TypeOK, NEW q \in Queues, HeldOnce(q), group'[q], HoldersShrink(q),
           NEW p \in Queues, NEW S, NEW v, Marked(p, S, v),
           p = q => \A i \in S : ~Held(q, i)'
    PROVE  HeldOnce(q)'
<1> SUFFICES ASSUME NEW i \in DOMAIN queue'[q], Held(q, i)'
             PROVE  Taken(q, i)'
  BY HeldOnceKept
<1>1. Held(q, i) /\ i \in DOMAIN queue[q]
  BY HeldBefore, HeldInStream
<1>2. Taken(q, i)
  BY <1>1 DEF HeldOnce
<1>3. CASE p = q
  BY <1>1, <1>2, <1>3 DEF Marked, Taken
<1>4. CASE p # q
  BY <1>2, <1>4 DEF Marked, Taken
<1> QED
  BY <1>3, <1>4

LEMMA AppendedHeldOnce ==
    ASSUME TypeOK, NEW q \in Queues, HeldOnce(q), group'[q], HoldersShrink(q),
           NEW p \in Queues, NEW t, NEW d, Appended(p, t, d) \/ UNCHANGED queue
    PROVE  HeldOnce(q)'
<1> SUFFICES ASSUME NEW i \in DOMAIN queue'[q], Held(q, i)'
             PROVE  Taken(q, i)'
  BY HeldOnceKept
<1>1. Held(q, i) /\ i \in DOMAIN queue[q]
  BY HeldBefore, HeldInStream
<1>2. Taken(q, i)
  BY <1>1 DEF HeldOnce
<1>3. queue'[q][i] = queue[q][i]
  BY <1>1 DEF Appended
<1> QED
  BY <1>2, <1>3 DEF Taken

\* CreateTask, starts and crashes.
LEMMA ElsewhereHeldOnce ==
    ASSUME TypeOK, NEW q \in Queues, HeldOnce(q),
           \/ \E t \in Tasks : HandlerStep(t) \/ \E d \in DetectRequests : CreateTask(t, d)
           \/ \E p \in Procs : ProcStep(p) \/ Crash(p)
    PROVE  HeldOnce(q)'
<1>0. group[q] /\ group \in [Queues -> BOOLEAN]
  BY DEF HeldOnce, TypeOK, StreamTypes
<1>1. ASSUME NEW t \in Tasks, HandlerStep(t) \/ \E d \in DetectRequests : CreateTask(t, d)
      PROVE  HeldOnce(q)'
  <2>1. UNCHANGED <<group, inbox, run>>
    BY <1>1, Zenon DEF HandlerStep, CreateTask, CreateStage, DeleteTask, EnqueueTask
  <2>2. UNCHANGED queue \/ \E u, d : Appended("rs", u, d)
    BY <1>1, EnqueueShape DEF HandlerStep, CreateTask, CreateStage, DeleteTask
  <2>3. HoldersShrink(q)
    BY <2>1 DEF HoldersShrink, At
  <2> QED
    BY <1>0, <2>1, <2>2, <2>3, AppendedHeldOnce, RSQueue
<1>2. ASSUME NEW p \in Procs, Restart(p)
      PROVE  HeldOnce(q)'
  <2>1. UNCHANGED <<inbox, run>>
    BY <1>2, Zenon DEF Restart
  <2>2. HoldersShrink(q)
    BY <2>1 DEF HoldersShrink, At
  <2>3. CASE UNCHANGED <<group, queue>>
    BY <1>0, <2>2, <2>3, AppendedHeldOnce, RSQueue
  <2>4. CASE /\ p \in Workers /\ ~group[QueueOf(p)]
             /\ group' = [group EXCEPT ![QueueOf(p)] = TRUE]
             /\ Marked(QueueOf(p), DOMAIN queue[QueueOf(p)], "new")
    <3>1. QueueOf(p) # q /\ group'[q]
      BY <1>0, <2>4
    <3> QED
      BY <2>2, <2>4, <3>1, MarkedHeldOnce, QueueOfQueues
  <2> QED
    BY <1>2, <2>3, <2>4, RestartShape
<1>3. ASSUME NEW p \in Procs, BootEnqueue(p) \/ BootDone(p)
      PROVE  HeldOnce(q)'
  <2>1. UNCHANGED <<group, inbox, run>>
    BY <1>3, Zenon DEF BootEnqueue, BootDone
  <2>2. UNCHANGED queue \/ \E u, d : Appended("rs", u, d)
    BY <1>3, BootShape DEF BootDone
  <2>3. HoldersShrink(q)
    BY <2>1 DEF HoldersShrink, At
  <2> QED
    BY <1>0, <2>1, <2>2, <2>3, AppendedHeldOnce, RSQueue
<1>4. ASSUME NEW p \in Procs, Crash(p)
      PROVE  HeldOnce(q)'
  <2>1. /\ UNCHANGED <<queue, group>>
        /\ inbox' = [c \in Receivers |-> IF c[1] = p THEN {} ELSE inbox[c]]
        /\ run' = [s \in Slots |-> IF s[1] = p THEN Free ELSE run[s]]
    BY <1>4 DEF Crash
  <2>2. HoldersShrink(q)
    <3>1. \A c \in Receivers : inbox'[c] \subseteq inbox[c]
      BY <2>1
    <3>2. \A x \in Slots : run'[x].pc # "free" => run'[x] = run[x]
      BY <2>1, FreeType
    <3> QED
      BY <3>1, <3>2 DEF HoldersShrink, At
  <2> QED
    BY <1>0, <2>1, <2>2, AppendedHeldOnce, RSQueue
<1> QED
  BY <1>1, <1>2, <1>3, <1>4 DEF ProcStep

\* Time and Redis.
LEMMA RedisHeldOnce ==
    ASSUME TypeOK, NEW q \in Queues, HeldOnce(q), Punctual(q)',
           \/ \E i \in DOMAIN queue["rs"] : IdleOrphan(i) \/ IdleHeld(i)
           \/ \E p \in Queues : LoseGroup(p)
    PROVE  HeldOnce(q)'
<1>0. group[q] /\ group \in [Queues -> BOOLEAN]
  BY DEF HeldOnce, TypeOK, StreamTypes
<1>1. ASSUME NEW i \in DOMAIN queue["rs"], IdleOrphan(i) \/ IdleHeld(i)
      PROVE  HeldOnce(q)'
  <2>1. UNCHANGED <<group, inbox, run>>
    BY <1>1 DEF IdleOrphan, IdleHeld
  <2>2. HoldersShrink(q)
    BY <2>1 DEF HoldersShrink, At
  <2>3. Aged(i) /\ (~Held("rs", i) \/ Spend("slow"))
    BY <1>1, IdleShape
  <2>4. q = "rs" => ~Held("rs", i)
    <3>1. "slow" \in Hazards
      BY DEF Hazards
    <3> QED
      BY <2>3, <3>1, SpendStrikes DEF Punctual
  <2>5. ASSUME NEW j \in DOMAIN queue'[q], Held(q, j)'
        PROVE  Taken(q, j)'
    <3>1. Held(q, j) /\ j \in DOMAIN queue[q]
      BY <2>2, <2>5, HeldBefore, HeldInStream
    <3>2. Taken(q, j)
      BY <3>1 DEF HeldOnce
    <3>3. CASE q = "rs"
      BY <2>3, <2>4, <3>1, <3>2, <3>3 DEF Aged, Taken
    <3>4. CASE q = "od"
      BY <2>3, <3>2, <3>4 DEF Aged, Taken
    <3> QED
      BY <3>3, <3>4 DEF Queues
  <2> QED
    BY <1>0, <2>1, <2>2, <2>5, HeldOnceKept
<1>2. ASSUME NEW p \in Queues, LoseGroup(p)
      PROVE  HeldOnce(q)'
  <2>1. /\ UNCHANGED <<inbox, run, queue>>
        /\ group' = [group EXCEPT ![p] = FALSE]
        /\ Spend(IF p = "rs" THEN "rsGroup" ELSE "odGroup")
    BY <1>2 DEF LoseGroup
  <2>2. p # q
    <3>1. "rsGroup" \in Hazards /\ "odGroup" \in Hazards
      BY DEF Hazards
    <3> QED
      BY <2>1, <3>1, SpendStrikes DEF Punctual
  <2>3. HoldersShrink(q) /\ group'[q]
    BY <1>0, <2>1, <2>2 DEF HoldersShrink, At
  <2> QED
    BY <2>1, <2>3, AppendedHeldOnce, RSQueue
<1> QED
  BY <1>1, <1>2

\* A receiver takes messages that nobody holds.
LEMMA TakeHeldOnce ==
    ASSUME TypeOK, NEW q \in Queues, HeldOnce(q), group'[q], NEW c \in Receivers,
           QueueOf(c[1]) = q, NEW S, S \subseteq DOMAIN queue[q],
           inbox' = [inbox EXCEPT ![c] = S], UNCHANGED run,
           \A i \in S : ~Held(q, i), Marked(q, S, "pending")
    PROVE  HeldOnce(q)'
<1>0. inbox \in [Receivers -> SUBSET Nat]
  BY DEF TypeOK, StreamTypes
<1>1. /\ inbox'[c] = S
      /\ \A d \in Receivers \ {c} : inbox'[d] = inbox[d]
      /\ \A x : At(x, "free")' = At(x, "free")
  BY <1>0 DEF At
<1>2. ASSUME NEW i \in DOMAIN queue'[q], Held(q, i)'
      PROVE  Taken(q, i)'
  <2>1. i \in S \/ Held(q, i)
    BY <1>1, <1>2 DEF Held, At
  <2>2. i \in DOMAIN queue[q]
    BY <1>2 DEF Marked
  <2>3. CASE i \in S
    BY <2>2, <2>3 DEF Marked, Taken
  <2>4. CASE i \notin S
    <3>1. Taken(q, i)
      BY <2>1, <2>2, <2>4 DEF HeldOnce
    <3> QED
      BY <2>2, <2>4, <3>1 DEF Marked, Taken
  <2> QED
    BY <2>3, <2>4
<1>3. ASSUME NEW d \in Receivers, NEW e \in Receivers, QueueOf(d[1]) = q, QueueOf(e[1]) = q,
             NEW i \in inbox'[d], i \in inbox'[e]
      PROVE  d = e
  <2>1. d # c => Held(q, i)
    BY <1>1, <1>3 DEF Held
  <2>2. e # c => Held(q, i)
    BY <1>1, <1>3 DEF Held
  <2>3. CASE d # c /\ e # c
    BY <1>1, <1>3, <2>3 DEF HeldOnce
  <2> QED
    BY <1>1, <1>3, <2>1, <2>2, <2>3
<1>4. ASSUME NEW d \in Receivers, NEW s \in Slots, QueueOf(d[1]) = q, QueueOf(s[1]) = q,
             ~At(s, "free")
      PROVE  run[s].msg \notin inbox'[d]
  <2>1. Held(q, run[s].msg)
    BY <1>4 DEF Held
  <2> QED
    BY <1>1, <1>4, <2>1 DEF HeldOnce
<1> QED
  BY <1>1, <1>2, <1>3, <1>4 DEF HeldOnce

\* The read and the reclaim loop.
LEMMA ReceiveHeldOnce ==
    ASSUME TypeOK, NEW q \in Queues, HeldOnce(q), NEW w \in Workers, ReceiveStep(w)
    PROVE  HeldOnce(q)'
<1>0. /\ group[q] /\ group \in [Queues -> BOOLEAN]
      /\ inbox \in [Receivers -> SUBSET Nat]
  BY DEF HeldOnce, TypeOK, StreamTypes
<1>1. CASE ReadJob(w)
  <2> DEFINE c == <<w, "read">>
  <2>1. PICK i \in DOMAIN queue[QueueOf(w)] :
              /\ c \in Receivers
              /\ queue[QueueOf(w)][i].st = "new"
              /\ Marked(QueueOf(w), {i}, "pending")
              /\ inbox' = [inbox EXCEPT ![c] = {i}]
    BY <1>1, ReadShape, Zenon
  <2>2. UNCHANGED <<group, run>> /\ c[1] = w
    BY <1>1, Zenon DEF ReadJob
  <2> HIDE DEF c
  <2>3. CASE QueueOf(w) = q
    <3>1. i \in DOMAIN queue[q] /\ ~Held(q, i) /\ Marked(q, {i}, "pending")
      BY <2>1, <2>3 DEF HeldOnce, Taken
    <3>2. {i} \subseteq DOMAIN queue[q] /\ (\A j \in {i} : ~Held(q, j)) /\ group'[q]
      BY <1>0, <2>2, <3>1
    <3> QED
      BY <2>1, <2>2, <2>3, <3>1, <3>2, TakeHeldOnce
  <2>4. CASE QueueOf(w) # q
    <3>1. HoldersShrink(q)
      BY <1>0, <2>1, <2>2, <2>4 DEF HoldersShrink, At
    <3> QED
      BY <1>0, <2>1, <2>2, <2>4, <3>1, MarkedHeldOnce, QueueOfQueues
  <2> QED
    BY <2>3, <2>4
<1>2. CASE ReclaimStaleRSJobs(w)
  <2> DEFINE c == <<w, "reclaim">>
             S == Claimable(queue["rs"])
  <2>1. /\ c \in Receivers /\ w \in RSWorkers
        /\ Marked("rs", S, "pending")
        /\ inbox' = [inbox EXCEPT ![c] = S]
    BY <1>2, ReclaimShape, Zenon
  <2>2. UNCHANGED <<group, run>> /\ c[1] = w /\ QueueOf(w) = "rs"
    BY <1>2, <2>1, Zenon DEF ReclaimStaleRSJobs, QueueOf
  <2>3. S \subseteq DOMAIN queue["rs"] /\ \A i \in S : queue["rs"][i].idle
    BY DEF Claimable
  <2> HIDE DEF c, S
  <2>4. CASE q = "rs"
    <3>1. \A i \in S : ~Held(q, i)
      BY <2>3, <2>4 DEF HeldOnce, Taken
    <3> QED
      BY <1>0, <2>1, <2>2, <2>3, <2>4, <3>1, TakeHeldOnce
  <2>5. CASE q # "rs"
    <3>1. HoldersShrink(q)
      BY <1>0, <2>1, <2>2, <2>5 DEF HoldersShrink, At
    <3> QED
      BY <1>0, <2>1, <2>2, <2>5, <3>1, MarkedHeldOnce, RSQueue
  <2> QED
    BY <2>4, <2>5
<1>3. CASE RebuildGroup(w)
  <2>1. /\ ~group["od"] /\ group' = [group EXCEPT !["od"] = TRUE]
        /\ Marked("od", DOMAIN queue["od"], "new")
        /\ UNCHANGED <<inbox, run>>
    BY <1>3, RebuildShape DEF RebuildGroup
  <2>2. HoldersShrink(q) /\ group'[q] /\ q # "od"
    BY <1>0, <2>1 DEF HoldersShrink, At
  <2> QED
    BY <2>1, <2>2, MarkedHeldOnce, RSQueue
<1> QED
  BY <1>1, <1>2, <1>3 DEF ReceiveStep

\* A message goes from the receiver's hands to a goroutine, or back to the stream.
LEMMA HandleHeldOnce ==
    ASSUME TypeOK, NEW q \in Queues, HeldOnce(q), NEW c \in Receivers, HandleStep(c)
    PROVE  HeldOnce(q)'
<1>0. /\ group[q] /\ group \in [Queues -> BOOLEAN]
      /\ inbox \in [Receivers -> SUBSET Nat]
  BY DEF HeldOnce, TypeOK, StreamTypes
<1>1. CASE ProcessJob(c)
  <2>1. PICK i \in inbox[c], s \in Slots :
              /\ i \in DOMAIN queue[QueueOf(c[1])]
              /\ s[1] = c[1] /\ At(s, "free")
              /\ \A x \in Slots \ {s} : run'[x] = run[x]
              /\ run'[s].msg = i
              /\ inbox' = [inbox EXCEPT ![c] = inbox[c] \ {i}]
    BY <1>1, ProcessShape
  <2>2. UNCHANGED <<queue, group>>
    BY <1>1 DEF ProcessJob
  <2>3. CASE QueueOf(c[1]) # q
    <3>1. HoldersShrink(q)
      BY <1>0, <2>1, <2>3 DEF HoldersShrink, At
    <3> QED
      BY <1>0, <2>2, <3>1, AppendedHeldOnce, RSQueue
  <2>4. CASE QueueOf(c[1]) = q
    <3>1. /\ inbox'[c] = inbox[c] \ {i}
          /\ \A d \in Receivers \ {c} : inbox'[d] = inbox[d]
      BY <1>0, <2>1
    <3>2. \A j : Held(q, j)' => Held(q, j)
      BY <2>1, <2>4, <3>1 DEF Held, At
    <3>3. \A j \in DOMAIN queue'[q] : Held(q, j)' => Taken(q, j)'
      BY <2>2, <3>2 DEF HeldOnce, Taken
    <3>4. \A d, e \in Receivers :
            (QueueOf(d[1]) = q /\ QueueOf(e[1]) = q /\ inbox'[d] \cap inbox'[e] # {}) => d = e
      BY <3>1 DEF HeldOnce
    <3>5. ASSUME NEW d \in Receivers, QueueOf(d[1]) = q
          PROVE  i \notin inbox'[d]
      <4>1. d # c => inbox[d] \cap inbox[c] = {}
        BY <2>4, <3>5 DEF HeldOnce
      <4> QED
        BY <2>1, <3>1, <4>1
    <3>6. ASSUME NEW x \in Slots, QueueOf(x[1]) = q, ~At(x, "free"), run[x].msg = i
          PROVE  FALSE
      BY <2>1, <2>4, <3>6 DEF HeldOnce
    <3>7. \A d \in Receivers, x \in Slots :
            (QueueOf(d[1]) = q /\ QueueOf(x[1]) = q /\ ~At(x, "free")') => run'[x].msg \notin inbox'[d]
      BY <2>1, <3>1, <3>5 DEF HeldOnce, At
    <3>8. \A r, x \in Slots :
            (QueueOf(r[1]) = q /\ QueueOf(x[1]) = q /\ ~At(r, "free")' /\ ~At(x, "free")'
               /\ run'[r].msg = run'[x].msg) => r = x
      BY <2>1, <3>6 DEF HeldOnce, At
    <3> QED
      BY <1>0, <2>2, <3>3, <3>4, <3>7, <3>8 DEF HeldOnce
  <2> QED
    BY <2>3, <2>4
<1>2. CASE ReleaseAck(c)
  <2>1. PICK i \in inbox[c] :
              /\ c[1] \in RSWorkers
              /\ i \in DOMAIN queue["rs"]
              /\ inbox' = [inbox EXCEPT ![c] = inbox[c] \ {i}]
              /\ UNCHANGED queue \/ Marked("rs", {i}, AckState("rs", i))
    BY <1>2, ReleaseAckShape, Zenon
  <2>2. UNCHANGED <<group, run>>
    BY <1>2 DEF ReleaseAck
  <2>3. /\ inbox'[c] = inbox[c] \ {i} /\ \A d \in Receivers \ {c} : inbox'[d] = inbox[d]
        /\ HoldersShrink(q)
    BY <1>0, <2>1, <2>2 DEF HoldersShrink, At
  <2>4. q = "rs" => ~Held(q, i)'
    <3> SUFFICES ASSUME q = "rs"
                 PROVE  ~Held(q, i)'
      OBVIOUS
    <3>1. QueueOf(c[1]) = q
      BY <2>1 DEF QueueOf
    <3>2. \A d \in Receivers : QueueOf(d[1]) = q => i \notin inbox'[d]
      BY <2>1, <2>3, <3>1 DEF HeldOnce
    <3>3. \A x \in Slots : QueueOf(x[1]) = q /\ ~At(x, "free") => run[x].msg # i
      BY <2>1, <3>1 DEF HeldOnce
    <3> QED
      BY <2>2, <3>2, <3>3 DEF Held, At
  <2>5. CASE UNCHANGED queue
    BY <1>0, <2>2, <2>3, <2>5, AppendedHeldOnce, RSQueue
  <2>6. CASE Marked("rs", {i}, AckState("rs", i))
    BY <1>0, <2>2, <2>3, <2>4, <2>6, MarkedHeldOnce, RSQueue
  <2> QED
    BY <2>1, <2>5, <2>6
<1>3. CASE ReleaseAdd(c)
  <2>1. UNCHANGED queue \/ \E t, d : Appended("rs", t, d)
    BY <1>3, ReleaseAddShape
  <2>2. UNCHANGED <<group, inbox, run>>
    BY <1>3, Zenon DEF ReleaseAdd
  <2>3. HoldersShrink(q)
    BY <2>2 DEF HoldersShrink, At
  <2> QED
    BY <1>0, <2>1, <2>2, <2>3, AppendedHeldOnce, RSQueue
<1> QED
  BY <1>1, <1>2, <1>3 DEF HandleStep

\* A goroutine goes on, or acknowledges the message that it alone held.
LEMMA RunHeldOnce ==
    ASSUME TypeOK, NEW q \in Queues, HeldOnce(q), NEW s \in Slots, RunStep(s)
    PROVE  HeldOnce(q)'
<1>0. group[q] /\ UNCHANGED <<group, inbox>> /\ ~At(s, "free")
  BY RunStepShape DEF HeldOnce
<1>1. CASE AckJob(s)
  <2> DEFINE p == QueueOf(s[1])
  <2>1. PICK i, v : /\ i = run[s].msg
                    /\ run'[s] = Free
                    /\ \A x \in Slots \ {s} : run'[x] = run[x]
                    /\ p \in Queues
                    /\ UNCHANGED queue \/ Marked(p, {i}, v)
    BY <1>1, AckShape, QueueOfQueues
  <2>2. HoldersShrink(q)
    BY <1>0, <2>1, FreeType DEF HoldersShrink, At
  <2>3. p = q => ~Held(q, i)'
    <3> SUFFICES ASSUME p = q
                 PROVE  ~Held(q, i)'
      OBVIOUS
    <3>1. \A d \in Receivers : QueueOf(d[1]) = q => i \notin inbox[d]
      BY <1>0, <2>1 DEF HeldOnce
    <3>2. \A x \in Slots \ {s} : QueueOf(x[1]) = q /\ ~At(x, "free") => run[x].msg # i
      BY <1>0, <2>1 DEF HeldOnce
    <3> QED
      BY <1>0, <2>1, <3>1, <3>2, FreeType DEF Held, At
  <2>4. CASE UNCHANGED queue
    BY <1>0, <2>2, <2>4, AppendedHeldOnce, RSQueue
  <2>5. CASE Marked(p, {i}, v)
    <3>1. group'[q] /\ (p = q => \A j \in {i} : ~Held(q, j)')
      BY <1>0, <2>3
    <3> QED
      BY <2>1, <2>2, <2>5, <3>1, MarkedHeldOnce
  <2> QED
    BY <2>1, <2>4, <2>5
<1>2. CASE Onward(s) /\ (UNCHANGED queue \/ \E t, d : Appended("od", t, d))
  <2>1. HoldersShrink(q)
    BY <1>0, <1>2 DEF HoldersShrink, Onward, RunTo, At
  <2> QED
    BY <1>0, <1>2, <2>1, AppendedHeldOnce, RSQueue
<1> QED
  BY <1>1, <1>2, RunStepShape

LEMMA NextOneHolder == TypeOK /\ OneHolder /\ [Next]_vars => OneHolder'
<1> SUFFICES ASSUME TypeOK, OneHolder, [Next]_vars, NEW q \in Queues, Punctual(q)'
             PROVE  HeldOnce(q)'
  BY DEF OneHolder
<1>1. Punctual(q)
  <2>1. "slow" \in Hazards /\ "rsGroup" \in Hazards /\ "odGroup" \in Hazards
    BY DEF Hazards
  <2> QED
    BY <2>1, StillZero DEF Punctual
<1>2. HeldOnce(q)
  BY <1>1 DEF OneHolder
<1>3. CASE UNCHANGED vars
  BY <1>2, <1>3 DEF vars, HeldOnce, Held, Taken, At
<1>4. CASE Next
  BY <1>2, <1>4, ElsewhereHeldOnce, RedisHeldOnce, ReceiveHeldOnce, HandleHeldOnce,
     RunHeldOnce DEF Next
<1> QED
  BY <1>3, <1>4

LEMMA InitOneHolder == Init => OneHolder
<1> SUFFICES ASSUME Init, NEW q \in Queues
             PROVE  HeldOnce(q)
  BY DEF OneHolder
<1>1. /\ group[q]
      /\ \A c \in Receivers : inbox[c] = {}
      /\ \A s \in Slots : At(s, "free")
  BY FreeType DEF Init, At
<1> QED
  BY <1>1 DEF HeldOnce, Held

\* Two goroutines work on the same message of rs.jobs only after one of them kept it
\* longer than the idle limit or Redis lost the group: restarts, crashes, hand-backs and
\* failing commands redeliver a message, but never to a second one while the first still
\* holds it (ReadRSJob, ReclaimStaleRSJobs, AckRSJob).
THEOREM DeliveredToOne == Spec => []SingleDelivery
<1>1. Spec => [](TypeOK /\ OneHolder)
  <2>1. Init => TypeOK /\ OneHolder
    BY InitType, InitOneHolder
  <2>2. (TypeOK /\ OneHolder) /\ [Next]_vars => (TypeOK /\ OneHolder)'
    BY NextType, NextOneHolder
  <2> QED
    BY <2>1, <2>2, PTL DEF Spec
<1>2. OneHolder => SingleDelivery
  <2> SUFFICES ASSUME OneHolder, spent["slow"] = 0, spent["rsGroup"] = 0,
                      NEW s1 \in Slots, NEW s2 \in Slots, IsRS(s1), IsRS(s2),
                      ~At(s1, "free"), ~At(s2, "free"), run[s1].msg = run[s2].msg
               PROVE  s1 = s2
    BY DEF SingleDelivery
  <2>1. HeldOnce("rs")
    BY RSQueue DEF OneHolder, Punctual
  <2>2. QueueOf(s1[1]) = "rs" /\ QueueOf(s2[1]) = "rs"
    BY DEF QueueOf, IsRS
  <2> QED
    BY <2>1, <2>2 DEF HeldOnce
<1> QED
  BY <1>1, <1>2, PTL

-----------------------------------------------------------------------------
(* NotForgotten is inductive.                                              *)

\* No entry that names t is acknowledged.
Spares(t) ==
    \A i \in DOMAIN queue["rs"] :
        /\ i \in DOMAIN queue'["rs"]
        /\ queue'["rs"][i].task = queue["rs"][i].task
        /\ (queue["rs"][i].task = t /\ queue["rs"][i].st # "acked") => queue'["rs"][i].st # "acked"

LEMMA MarkedSpares ==
    ASSUME NEW q \in Queues, NEW S, NEW v, Marked(q, S, v), NEW t,
           \/ q # "rs"
           \/ v # "acked"
           \/ \A i \in S \cap DOMAIN queue["rs"] : queue["rs"][i].task # t
    PROVE  Spares(t)
<1>1. CASE q = "rs"
  BY <1>1 DEF Marked, Spares
<1>2. CASE q # "rs"
  <2>1. queue'["rs"] = queue["rs"]
    BY <1>2, RSQueue DEF Marked
  <2> QED
    BY <2>1 DEF Spares
<1> QED
  BY <1>1, <1>2

LEMMA AgedSpares ==
    ASSUME NEW i, Aged(i), NEW t
    PROVE  Spares(t)
  BY DEF Aged, Spares

LEMMA AppendedSpares ==
    ASSUME NEW q \in Queues, NEW u, NEW d, Appended(q, u, d) \/ UNCHANGED queue, NEW t
    PROVE  Spares(t)
<1>1. CASE Appended(q, u, d) /\ q = "rs"
  BY <1>1 DEF Appended, Spares
<1>2. CASE UNCHANGED queue \/ (Appended(q, u, d) /\ q # "rs")
  <2>1. queue'["rs"] = queue["rs"]
    BY <1>2, RSQueue DEF Appended
  <2> QED
    BY <2>1 DEF Spares
<1> QED
  BY <1>1, <1>2

\* The job of t that was expected still is.
LEMMA ScheduledKept ==
    ASSUME TypeOK, NEW t, Scheduled(t), Spares(t),
           \A c \in Receivers : \A i \in release[c] :
              queue["rs"][i].task = t => \E d \in Receivers : i \in release'[d]
    PROVE  Scheduled(t)'
<1>1. CASE \E i \in Outstanding(queue["rs"]) : queue["rs"][i].task = t
  <2>1. PICK i \in Outstanding(queue["rs"]) : queue["rs"][i].task = t
    BY <1>1
  <2>2. i \in DOMAIN queue["rs"] /\ queue["rs"][i].st # "acked"
    BY DEF Outstanding
  <2> QED
    BY <2>1, <2>2 DEF Spares, Scheduled, Outstanding
<1>2. CASE \E c \in Receivers : \E i \in release[c] : queue["rs"][i].task = t
  <2>0. PICK c \in Receivers : \E i \in release[c] : queue["rs"][i].task = t
    BY <1>2
  <2>1. PICK i \in release[c] : queue["rs"][i].task = t
    BY <2>0
  <2>2. i \in DOMAIN queue["rs"]
    BY DEF TypeOK, StreamTypes
  <2> QED
    BY <2>1, <2>2 DEF Spares, Scheduled
<1> QED
  BY <1>1, <1>2 DEF Scheduled

LEMMA AppendedScheduled ==
    ASSUME TypeOK, NEW t, NEW d, Appended("rs", t, d)
    PROVE  Scheduled(t)'
<1> DEFINE n == Len(queue["rs"]) + 1
<1>1. n \in DOMAIN queue'["rs"] /\ queue'["rs"][n].task = t /\ queue'["rs"][n].st = "new"
  BY DEF Appended
<1> HIDE DEF n
<1>2. n \in Outstanding(queue["rs"])'
  BY <1>1 DEF Outstanding
<1> QED
  BY <1>1, <1>2 DEF Scheduled

\* A step that leaves the tasks and the goroutines of rs-workers alone, or ends them.
LEMMA QuietNotForgotten ==
    ASSUME TypeOK, NotForgotten, NoLoss' => NoLoss, OneHandedBack',
           UNCHANGED task,
           \A x \in Slots : run'[x] = run[x] \/ run'[x].pc \in {"free", "claim"},
           NoLoss' => \A t \in Tasks : task[t] = "pending" /\ Expected(t) => Expected(t)'
    PROVE  NotForgotten'
<1>1. ASSUME NoLoss'
      PROVE  RunsClaimed'
  BY <1>1 DEF NotForgotten, RunsClaimed, IsRS
<1> QED
  BY <1>1 DEF NotForgotten

LEMMA LossStays ==
    ASSUME TypeOK, [Next]_vars, NoLoss'
    PROVE  NoLoss /\ ~Fault
<1>1. "fault" \in Hazards /\ "handBack" \in Hazards
  BY DEF Hazards
<1> QED
  BY <1>1, StillZero, SpendStrikes DEF NoLoss, Fault

\* CreateTask.
LEMMA HandlerNotForgotten ==
    ASSUME TypeOK, Unstarted, NotForgotten, [Next]_vars, NEW t \in Tasks,
           HandlerStep(t) \/ \E d \in DetectRequests : CreateTask(t, d)
    PROVE  NotForgotten'
<1>0. /\ handler \in [Tasks -> {"none", "stages", "undo", "enqueue", "ended"}]
      /\ task \in [Tasks -> TaskStatus]
  BY DEF TypeOK, RowTypes, ProcTypes
<1>1. UNCHANGED <<proc, todo, release, run>>
  BY Zenon DEF HandlerStep, CreateTask, CreateStage, DeleteTask, EnqueueTask
<1>2. OneHandedBack'
  BY <1>1 DEF NotForgotten, OneHandedBack
<1>3. UNCHANGED queue \/ \E d : Appended("rs", t, d)
  BY EnqueueShape DEF HandlerStep, CreateTask, CreateStage, DeleteTask
<1>4. ASSUME NEW u \in Tasks, Scheduled(u)
      PROVE  Scheduled(u)'
  BY <1>1, <1>3, <1>4, AppendedSpares, ScheduledKept, RSQueue
<1>5. handler[t] # "ended"
  BY DEF HandlerStep, CreateTask, CreateStage, DeleteTask, EnqueueTask
<1>6. \A u \in Tasks \ {t} : handler'[u] = handler[u] /\ task'[u] = task[u]
  BY <1>0 DEF HandlerStep, CreateTask, CreateStage, DeleteTask, EnqueueTask, SetTask
<1>7. ASSUME NoLoss'
      PROVE  RunsClaimed'
  <2>1. RunsClaimed
    BY <1>7, LossStays DEF NotForgotten
  <2>2. \A s \in Slots : ~At(s, "free") => run[s].task # t /\ run[s].task \in Tasks
    BY <1>5, JobsStarted, BusyRun
  <2> QED
    BY <1>1, <1>6, <2>1, <2>2 DEF RunsClaimed, At, IsRS
<1>8. ASSUME NoLoss', NEW u \in Tasks, u # t, task'[u] = "pending"
      PROVE  Expected(u)'
  <2>1. Expected(u)
    BY <1>6, <1>8, LossStays DEF NotForgotten
  <2> QED
    BY <1>1, <1>4, <1>6, <1>8, <2>1 DEF Expected
<1>9. ASSUME NoLoss', task'[t] = "pending"
      PROVE  Expected(t)'
  <2>1. ~Fault
    BY <1>9, LossStays
  <2>2. CASE EnqueueTask(t)
    <3>1. Appended("rs", t, wants[t])
      BY <2>1, <2>2, EnqueueShape
    <3> QED
      BY <3>1, AppendedScheduled DEF Expected
  <2>3. CASE DeleteTask(t)
    BY <1>0, <1>9, <2>1, <2>3 DEF DeleteTask, SetTask
  <2>4. CASE CreateStage(t)
    <3>1. handler'[t] # "ended"
      BY <1>0, <2>4 DEF CreateStage
    <3> QED
      BY <3>1 DEF Expected
  <2>5. ASSUME NEW d \in DetectRequests, CreateTask(t, d)
        PROVE  Expected(t)'
    <3>1. handler'[t] # "ended"
      BY <1>0, <2>1, <2>5 DEF CreateTask
    <3> QED
      BY <3>1 DEF Expected
  <2> QED
    BY <2>2, <2>3, <2>4, <2>5 DEF HandlerStep
<1> QED
  BY <1>2, <1>7, <1>8, <1>9 DEF NotForgotten

\* Starts: the API looks for pending tasks itself.
LEMMA ProcNotForgotten ==
    ASSUME TypeOK, Unstarted, NotForgotten, [Next]_vars, NEW p \in Procs,
           ProcStep(p) \/ Crash(p)
    PROVE  NotForgotten'
<1>0. /\ proc \in [Procs -> {"up", "boot", "down"}] /\ todo \in [Procs -> SUBSET Tasks]
      /\ API \in Procs /\ API \notin ODWorkers /\ API \notin RSWorkers
      /\ release \in [Receivers -> SUBSET Nat]
  BY ConstantsAssumption DEF TypeOK, ProcTypes, StreamTypes, Procs, Workers
<1>1. CASE Restart(p)
  <2>1. UNCHANGED <<task, handler, release, run>>
    BY <1>1, Zenon DEF Restart
  <2>2. OneHandedBack'
    BY <2>1 DEF NotForgotten, OneHandedBack
  <2>3. \A t : Spares(t)
    BY <1>1, RestartShape, AppendedSpares, MarkedSpares, QueueOfQueues, RSQueue
  <2>4. ASSUME NEW t \in Tasks, Scheduled(t)
        PROVE  Scheduled(t)'
    BY <2>1, <2>3, <2>4, ScheduledKept
  <2>5. ASSUME NoLoss', NEW t \in Tasks, task[t] = "pending", Expected(t)
        PROVE  Expected(t)'
    <3>1. CASE p = API
      <4>1. /\ proc' = [proc EXCEPT ![API] = "boot"]
            /\ todo' = [todo EXCEPT ![API] = {u \in Tasks : task[u] = "pending"}]
        BY <1>0, <1>1, <2>5, <3>1, LossStays DEF Restart, BootStatus
      <4>2. proc'[API] = "boot" /\ t \in todo'[API]
        BY <1>0, <2>5, <4>1
      <4> QED
        BY <4>2 DEF Expected
    <3>2. CASE p # API
      <4>1. /\ \E v : proc' = [proc EXCEPT ![p] = v]
            /\ todo' = todo \/ \E v : todo' = [todo EXCEPT ![p] = v]
        BY <1>1 DEF Restart
      <4>2. proc'[API] = proc[API] /\ todo'[API] = todo[API]
        BY <1>0, <3>2, <4>1
      <4> QED
        BY <2>1, <2>4, <2>5, <4>2 DEF Expected
    <3> QED
      BY <3>1, <3>2
  <2> QED
    BY <2>1, <2>2, <2>5, LossStays, QuietNotForgotten
<1>2. CASE BootEnqueue(p)
  <2>1. UNCHANGED <<task, handler, proc, release, run>>
    BY <1>2, Zenon DEF BootEnqueue
  <2>2. OneHandedBack'
    BY <2>1 DEF NotForgotten, OneHandedBack
  <2>3. PICK u \in Tasks : /\ todo' = [todo EXCEPT ![p] = todo[p] \ {u}]
                            /\ \/ Fault /\ UNCHANGED queue
                               \/ NoFault /\ Appended("rs", u, row[u])
    BY <1>2, BootShape
  <2>4. ASSUME NEW t \in Tasks, Scheduled(t)
        PROVE  Scheduled(t)'
    BY <2>1, <2>3, <2>4, AppendedSpares, RSQueue, ScheduledKept
  <2>5. ASSUME NoLoss', NEW t \in Tasks, Expected(t)
        PROVE  Expected(t)'
    <3>1. CASE t = u
      BY <2>3, <2>5, <3>1, LossStays, AppendedScheduled DEF Expected
    <3>2. CASE t # u
      <4>1. t \in todo[API] => t \in todo'[API]
        BY <1>0, <2>3, <3>2
      <4> QED
        BY <2>1, <2>4, <2>5, <4>1 DEF Expected
    <3> QED
      BY <3>1, <3>2
  <2> QED
    BY <2>1, <2>2, <2>5, LossStays, QuietNotForgotten
<1>3. CASE BootDone(p)
  <2>1. /\ UNCHANGED <<task, handler, queue, todo, release, run, spent>>
        /\ proc[p] = "boot" /\ todo[p] = {} /\ proc' = [proc EXCEPT ![p] = "up"]
    BY <1>3 DEF BootDone
  <2>2. OneHandedBack'
    BY <2>1 DEF NotForgotten, OneHandedBack
  <2>3. ASSUME NEW t \in Tasks, Expected(t)
        PROVE  Expected(t)'
    <3>1. Scheduled(t) => Scheduled(t)'
      BY <2>1, AppendedSpares, RSQueue, ScheduledKept
    <3>2. CASE p = API
      BY <1>0, <2>1, <2>3, <3>1, <3>2 DEF Expected
    <3>3. CASE p # API
      BY <1>0, <2>1, <2>3, <3>1, <3>3 DEF Expected
    <3> QED
      BY <3>2, <3>3
  <2> QED
    BY <2>1, <2>2, <2>3, LossStays, QuietNotForgotten
<1>4. CASE Crash(p)
  <2>1. /\ UNCHANGED <<task, queue>>
        /\ Spend(CrashKind(p))
        /\ proc' = [proc EXCEPT ![p] = "down"]
        /\ todo' = [todo EXCEPT ![p] = {}]
        /\ handler' = IF p = API
                      THEN [t \in Tasks |-> IF handler[t] = "none" THEN "none" ELSE "ended"]
                      ELSE handler
        /\ release' = [c \in Receivers |-> IF c[1] = p THEN {} ELSE release[c]]
        /\ run' = [s \in Slots |-> IF s[1] = p THEN Free ELSE run[s]]
    BY <1>4 DEF Crash
  <2>2. OneHandedBack'
    BY <2>1 DEF NotForgotten, OneHandedBack
  <2>3. \A x \in Slots : run'[x] = run[x] \/ run'[x].pc = "free"
    BY <2>1, FreeType
  <2>4. ASSUME NoLoss', NEW t \in Tasks, Expected(t)
        PROVE  Expected(t)'
    <3>1. CASE p = API
      BY <1>0, <2>1, <3>1 DEF Expected
    <3>2. CASE p # API
      <4>1. proc'[API] = proc[API] /\ todo'[API] = todo[API] /\ UNCHANGED handler
        BY <1>0, <2>1, <3>2
      <4>2. \A c \in Receivers : c[1] = p => release[c] = {}
        <5>1. CASE p \in ODWorkers
          BY <5>1 DEF NotForgotten, OneHandedBack
        <5>2. CASE p \in RSWorkers
          <6>1. ~HandsBack(p)
            BY <2>1, <2>4, <5>2, CrashKinds, SpendStrikes DEF NoLoss
          <6> QED
            BY <6>1 DEF HandsBack
        <5> QED
          BY <3>2, <5>1, <5>2 DEF Procs, Workers
      <4>3. release' = release
        BY <1>0, <2>1, <4>2
      <4>4. Scheduled(t) => Scheduled(t)'
        BY <2>1, <4>3 DEF Scheduled
      <4> QED
        BY <2>4, <4>1, <4>4 DEF Expected
    <3> QED
      BY <3>1, <3>2
  <2> QED
    BY <2>1, <2>2, <2>3, <2>4, LossStays, QuietNotForgotten
<1> QED
  BY <1>1, <1>2, <1>3, <1>4 DEF ProcStep

\* Redis and the receivers acknowledge no job but one they hand back.
LEMMA SharedNotForgotten ==
    ASSUME TypeOK, NotForgotten, [Next]_vars,
           \/ \E i \in DOMAIN queue["rs"] : IdleOrphan(i) \/ IdleHeld(i)
           \/ \E q \in Queues : LoseGroup(q)
           \/ \E w \in Workers : ReceiveStep(w)
    PROVE  NotForgotten'
<1>1. UNCHANGED <<task, handler, proc, todo, release, run>>
  BY RedisSameJobs DEF api
<1>2. \A t : Spares(t)
  <2>1. ASSUME NEW i \in DOMAIN queue["rs"], IdleOrphan(i) \/ IdleHeld(i)
        PROVE  \A t : Spares(t)
    BY <2>1, IdleShape, AgedSpares
  <2>2. ASSUME NEW q \in Queues, LoseGroup(q)
        PROVE  \A t : Spares(t)
    BY <2>2, AppendedSpares DEF LoseGroup
  <2>3. ASSUME NEW w \in Workers, ReceiveStep(w)
        PROVE  \A t : Spares(t)
    <3>0. \A q \in Queues : \A S : Marked(q, S, "pending") => \A t : Spares(t)
      BY MarkedSpares
    <3>1. CASE ReadJob(w)
      BY <3>0, <3>1, ReadShape, QueueOfQueues, Zenon
    <3>2. CASE ReclaimStaleRSJobs(w)
      BY <3>0, <3>2, ReclaimShape, RSQueue, Zenon
    <3>3. CASE RebuildGroup(w)
      BY <3>3, RebuildShape, MarkedSpares, RSQueue
    <3> QED
      BY <2>3, <3>1, <3>2, <3>3 DEF ReceiveStep
  <2> QED
    BY <2>1, <2>2, <2>3
<1>3. OneHandedBack'
  BY <1>1 DEF NotForgotten, OneHandedBack
<1>4. \A t \in Tasks : Expected(t) => Expected(t)'
  BY <1>1, <1>2, ScheduledKept DEF Expected
<1> QED
  BY <1>1, <1>3, <1>4, LossStays, QuietNotForgotten

\* A job handed back is in the receiver's hands between the two commands.
LEMMA HandleNotForgotten ==
    ASSUME TypeOK, NotForgotten, [Next]_vars, NEW c \in Receivers, HandleStep(c)
    PROVE  NotForgotten'
<1>0. release \in [Receivers -> SUBSET Nat] /\ RSWorkers \cap ODWorkers = {}
  BY ConstantsAssumption DEF TypeOK, StreamTypes
<1>1. UNCHANGED <<task, handler, proc, todo>>
  BY Zenon DEF HandleStep, ProcessJob, ReleaseAck, ReleaseAdd, api
<1>2. CASE ProcessJob(c)
  <2>1. UNCHANGED <<queue, release>>
    BY <1>2, Zenon DEF ProcessJob, api
  <2>2. \A x \in Slots : run'[x] = run[x] \/ run'[x].pc \in {"free", "claim"} \/ ~IsRS(x)
    BY <1>2, ProcessShape
  <2>3. OneHandedBack'
    BY <2>1 DEF NotForgotten, OneHandedBack
  <2>4. \A t \in Tasks : Expected(t) => Expected(t)'
    BY <1>1, <2>1 DEF Expected, Scheduled
  <2>5. NoLoss' => RunsClaimed'
    BY <1>1, <2>2, LossStays DEF NotForgotten, RunsClaimed, IsRS
  <2> QED
    BY <1>1, <2>3, <2>4, <2>5, LossStays DEF NotForgotten
<1>3. CASE ReleaseAck(c)
  <2>1. UNCHANGED run
    BY <1>3 DEF ReleaseAck
  <2>2. /\ c[1] \in RSWorkers /\ release[c] = {}
        /\ \A d \in Receivers \ {c} : release'[d] = release[d]
        /\ \A i, j \in release'[c] : i = j
    <3>1. /\ c[1] \in RSWorkers /\ release[c] = {}
          /\ UNCHANGED release \/ \E i : release' = [release EXCEPT ![c] = {i}]
      BY <1>3, ReleaseAckShape
    <3> QED
      BY <1>0, <3>1
  <2>3. OneHandedBack'
    BY <1>0, <2>2 DEF NotForgotten, OneHandedBack
  <2>4. ASSUME NoLoss', NEW t \in Tasks, Scheduled(t)
        PROVE  Scheduled(t)'
    <3>1. PICK i \in inbox[c] :
                /\ i \in DOMAIN queue["rs"]
                /\ release' = [release EXCEPT ![c] = {i}]
                /\ UNCHANGED queue \/ Marked("rs", {i}, AckState("rs", i))
      BY <1>3, <2>4, LossStays, ReleaseAckShape
    <3>2. CASE queue["rs"][i].task = t
      <4>1. queue'["rs"][i].task = t /\ i \in release'[c]
        BY <1>0, <3>1, <3>2 DEF Marked
      <4> QED
        BY <4>1 DEF Scheduled
    <3>3. CASE queue["rs"][i].task # t
      <4>1. Spares(t)
        BY <3>1, <3>3, MarkedSpares, AppendedSpares, RSQueue
      <4> QED
        BY <2>2, <2>4, <4>1, ScheduledKept
    <3> QED
      BY <3>2, <3>3
  <2>5. NoLoss' => \A t \in Tasks : Expected(t) => Expected(t)'
    BY <1>1, <2>4 DEF Expected
  <2> QED
    BY <1>1, <2>1, <2>3, <2>5, LossStays, QuietNotForgotten
<1>4. CASE ReleaseAdd(c)
  <2>1. UNCHANGED run
    BY <1>4, Zenon DEF ReleaseAdd
  <2>2. release' = [release EXCEPT ![c] = {}]
    BY <1>4, ReleaseAddShape
  <2>3. OneHandedBack'
    BY <1>0, <2>2 DEF NotForgotten, OneHandedBack
  <2>4. ASSUME NoLoss', NEW t \in Tasks, Scheduled(t)
        PROVE  Scheduled(t)'
    <3>1. PICK i \in release[c] :
                /\ i \in DOMAIN queue["rs"]
                /\ Appended("rs", queue["rs"][i].task, queue["rs"][i].detect)
      BY <1>4, <2>4, LossStays, ReleaseAddShape
    <3>2. release[c] = {i}
      BY <3>1 DEF NotForgotten, OneHandedBack
    <3>3. CASE queue["rs"][i].task = t
      BY <3>1, <3>3, AppendedScheduled
    <3>4. CASE queue["rs"][i].task # t
      <4>1. \A d \in Receivers : \A j \in release[d] :
              queue["rs"][j].task = t => \E e \in Receivers : j \in release'[e]
        BY <1>0, <2>2, <3>2, <3>4
      <4> QED
        BY <2>4, <3>1, <4>1, AppendedSpares, ScheduledKept, RSQueue
    <3> QED
      BY <3>3, <3>4
  <2>5. NoLoss' => \A t \in Tasks : Expected(t) => Expected(t)'
    BY <1>1, <2>4 DEF Expected
  <2> QED
    BY <1>1, <2>1, <2>3, <2>5, LossStays, QuietNotForgotten
<1> QED
  BY <1>2, <1>3, <1>4 DEF HandleStep

\* The claim takes the task out of "pending" before the job can be acknowledged.
LEMMA RunNotForgotten ==
    ASSUME TypeOK, NotForgotten, [Next]_vars, NEW s \in Slots, RunStep(s)
    PROVE  NotForgotten'
<1>0. /\ UNCHANGED <<handler, proc, todo, release>> /\ ~At(s, "free")
      /\ task \in [Tasks -> TaskStatus] /\ run[s].task \in Tasks
  BY RunStepShape, BusyRun DEF TypeOK, RowTypes
<1>1. OneHandedBack'
  BY <1>0 DEF NotForgotten, OneHandedBack
<1>2. \A x \in Slots \ {s} : run'[x] = run[x]
  BY RunStepShape, AckShape DEF Onward, RunTo
<1>3. \A t \in Tasks : task'[t] = "pending" => task[t] = "pending"
  <2>1. \/ UNCHANGED task
        \/ \E v \in {"completed", "failed", "running"} :
              task' = [task EXCEPT ![run[s].task] = v]
    BY RunStepTask DEF SetTask, Terminal
  <2> QED
    BY <1>0, <2>1
<1>4. ASSUME NoLoss'
      PROVE  RunsClaimed'
  <2>0. RunsClaimed /\ ~Fault
    BY <1>4, LossStays DEF NotForgotten
  <2>1. CASE AckJob(s)
    BY <1>2, <1>3, <2>0, <2>1, AckShape, FreeType, BusyRun DEF RunsClaimed, At
  <2>2. CASE Onward(s)
    <3>1. run'[s].task = run[s].task
      BY <2>2 DEF Onward, RunTo
    <3>2. IsRS(s) => task'[run[s].task] # "pending"
      <4>1. CASE ClaimTask(s)
        BY <1>0, <2>0, <4>1 DEF ClaimTask, Unclaimed, SetTask
      <4>2. CASE ~At(s, "claim")
        BY <1>0, <1>3, <2>0, <4>2 DEF RunsClaimed, At
      <4>3. At(s, "claim") => ClaimTask(s)
        BY DEF RunStep, PipelineStep, StageStep, EndStep, CheckRunning, SuccessStages, SkipStage,
               DropSkip, SkipDetection, ShouldSkipODJob, ODRowSuccess, ODRowOther, EnqueueOD,
               BeginStage, ExecSuccess, ExecFailure, Succeed, RecordArtifacts, FailStageRow,
               FailTaskRow, FinishTaskWithError, FinishTaskCompleted, AckJob, AtStage, At
      <4> QED
        BY <4>1, <4>2, <4>3
    <3>3. \A x \in Slots \ {s} : IsRS(x) /\ run[x].pc \notin {"free", "claim"}
                                    => task'[run[x].task] # "pending"
      BY <1>3, <2>0, BusyRun DEF RunsClaimed, At
    <3> QED
      BY <1>2, <3>1, <3>2, <3>3 DEF RunsClaimed, IsRS
  <2> QED
    BY <2>1, <2>2, RunStepShape
<1>5. ASSUME NoLoss', NEW t \in Tasks, task'[t] = "pending"
      PROVE  Expected(t)'
  <2>0. /\ RunsClaimed /\ Expected(t) /\ task[t] = "pending"
    BY <1>3, <1>5, LossStays DEF NotForgotten
  <2>1. Spares(t)
    <3>1. CASE AckJob(s)
      <4> DEFINE q == QueueOf(s[1])
                 S == {run[s].msg}
      <4>1. At(s, "ack") /\ (UNCHANGED queue \/ Marked(q, S, AckState(q, run[s].msg)))
        BY <3>1, AckShape
      <4>2. q \in Queues /\ queue[q][run[s].msg].task = run[s].task
        BY <1>0, BusyRun, QueueOfQueues DEF TypeOK, RunTypes
      <4>3. q = "rs" => run[s].task # t
        BY <2>0, <4>1 DEF RunsClaimed, At, QueueOf, IsRS
      <4>4. q # "rs" \/ \A i \in S : queue["rs"][i].task # t
        BY <4>2, <4>3
      <4> HIDE DEF q, S
      <4> QED
        BY <4>1, <4>2, <4>4, MarkedSpares, AppendedSpares, RSQueue
    <3>2. CASE UNCHANGED queue \/ Appended("od", run[s].task, TRUE)
      BY <3>2, AppendedSpares, RSQueue
    <3> QED
      BY <3>1, <3>2, RunStepShape
  <2>2. Scheduled(t) => Scheduled(t)'
    BY <1>0, <2>1, ScheduledKept
  <2> QED
    BY <1>0, <2>0, <2>2 DEF Expected
<1> QED
  BY <1>1, <1>4, <1>5 DEF NotForgotten

LEMMA NextNotForgotten ==
    TypeOK /\ Unstarted /\ NotForgotten /\ [Next]_vars => NotForgotten'
<1> SUFFICES ASSUME TypeOK, Unstarted, NotForgotten, [Next]_vars
             PROVE  NotForgotten'
  OBVIOUS
<1>1. CASE UNCHANGED vars
  BY <1>1 DEF vars, NotForgotten, OneHandedBack, NoLoss, RunsClaimed, Expected, Scheduled,
              Outstanding
<1>2. CASE Next
  BY <1>2, HandlerNotForgotten, ProcNotForgotten, SharedNotForgotten, HandleNotForgotten,
     RunNotForgotten DEF Next
<1> QED
  BY <1>1, <1>2

LEMMA InitNotForgotten == Init => NotForgotten
<1> SUFFICES ASSUME Init
             PROVE  NotForgotten
  OBVIOUS
<1>1. \A s \in Slots : run[s].pc = "free"
  BY FreeType DEF Init
<1> QED
  BY <1>1 DEF Init, NotForgotten, OneHandedBack, RunsClaimed

\* While no command fails and no worker is killed with a job in its hands, a pending
\* task whose creation has ended has a job on rs.jobs or in a receiver's hands, whatever
\* is redelivered, restarted or handed back (CreateTask, bootstrapPendingToRedis, the
\* claim before the acknowledgement, ReleaseRSJobForOtherConsumer).
THEOREM NothingForgotten == Spec => []PendingNotForgotten
<1>1. Init => TypeOK /\ Unstarted /\ NotForgotten
  BY InitType, InitUnstarted, InitNotForgotten
<1>2. (TypeOK /\ Unstarted /\ NotForgotten) /\ [Next]_vars
        => (TypeOK /\ Unstarted /\ NotForgotten)'
  BY NextType, NextUnstarted, NextNotForgotten
<1>3. NotForgotten => PendingNotForgotten
  BY DEF NotForgotten, PendingNotForgotten, NoLoss, Waits, Expected
<1> QED
  BY <1>1, <1>2, <1>3, PTL DEF Spec

-----------------------------------------------------------------------------
(* What a step that does not concern a task leaves of it.                  *)

SameRows(t) == task'[t] = task[t] /\ stage'[t] = stage[t] /\ artifact'[t] = artifact[t]

LEMMA SameCourse ==
    ASSUME NEW t, SameRows(t)
    PROVE  /\ \A p, k, m : Course(t, p, k, m)' <=> Course(t, p, k, m)
           /\ \A q : Ready(q, t)' <=> Ready(q, t)
           /\ Agreed(t)' <=> Agreed(t)
<1>1. ASSUME NEW p, NEW k, NEW m
      PROVE  Course(t, p, k, m)' <=> Course(t, p, k, m)
  <2>1. /\ Behind(t, k)' <=> Behind(t, k)
        /\ Ahead(t, k)' <=> Ahead(t, k)
    BY DEF SameRows, Behind, Ahead
  <2> QED
    BY <2>1 DEF SameRows, Course
<1>2. ASSUME NEW q
      PROVE  Ready(q, t)' <=> Ready(q, t)
  BY <1>1 DEF Ready
<1>3. Agreed(t)' <=> Agreed(t)
  BY DEF SameRows, Agreed
<1> QED
  BY <1>1, <1>2, <1>3

LEMMA SameCreated ==
    ASSUME NEW t, handler'[t] = handler[t], stage'[t] = stage[t] \/ handler[t] = "ended"
    PROVE  Created(t)' <=> Created(t)
  BY DEF Created

\* No new carrier.
LEMMA FewerCarriers ==
    ASSUME NEW t, OneCarrier(t),
           \A q \in Queues : \A i \in DOMAIN queue'[q] : InStream(t, q, i)' => InStream(t, q, i),
           \A c \in Receivers : \A i \in release'[c] : InHand(t, c, i)' => InHand(t, c, i)
    PROVE  OneCarrier(t)'
<1>1. \A q, i : InStream(t, q, i) => i \in DOMAIN queue[q]
  BY DEF InStream
<1>2. \A c, i : InHand(t, c, i) => i \in release[c]
  BY DEF InHand
<1> QED
  BY <1>1, <1>2 DEF OneCarrier

\* One carrier, which is in a stream, or in somebody's hands.
LEMMA StreamCarrier ==
    ASSUME NEW t, NEW q, NEW i,
           \A p \in Queues : \A j \in DOMAIN queue'[p] : InStream(t, p, j)' => p = q /\ j = i,
           \A c \in Receivers : \A j \in release'[c] : ~InHand(t, c, j)'
    PROVE  OneCarrier(t)'
  BY DEF OneCarrier

LEMMA HandCarrier ==
    ASSUME NEW t, NEW c, NEW i,
           \A p \in Queues : \A j \in DOMAIN queue'[p] : ~InStream(t, p, j)',
           \A d \in Receivers : \A j \in release'[d] : InHand(t, d, j)' => d = c /\ j = i
    PROVE  OneCarrier(t)'
  BY DEF OneCarrier

\* A goroutine that has not come to the end carries its task.
LEMMA RunCarries ==
    ASSUME TypeOK, NEW s \in Slots, HeldOnce(QueueOf(s[1])), ~At(s, "free"), ~At(s, "ack")
    PROVE  InStream(run[s].task, QueueOf(s[1]), run[s].msg)
<1> DEFINE q == QueueOf(s[1])
<1>1. /\ run[s].msg \in DOMAIN queue[q] /\ queue[q][run[s].msg].task = run[s].task
  BY DEF TypeOK, RunTypes
<1>2. Held(q, run[s].msg)
  BY DEF Held
<1>3. queue[q][run[s].msg].st = "pending"
  BY <1>1, <1>2 DEF HeldOnce, Taken
<1>4. \A x \in Slots : QueueOf(x[1]) = q /\ At(x, "ack") => run[x].msg # run[s].msg
  BY DEF HeldOnce, At
<1> QED
  BY <1>1, <1>3, <1>4 DEF InStream, Live

\* So nobody else works on that task, waits with a job for it, or hands one back.
LEMMA Alone ==
    ASSUME TypeOK, HeldOnce("rs"), HeldOnce("od"), InStep,
           NEW s \in Slots, ~At(s, "free"), ~At(s, "ack")
    PROVE  /\ \A x \in Slots \ {s} : ~At(x, "free") /\ ~At(x, "ack") => run[x].task # run[s].task
           /\ \A q \in Queues : \A i \in DOMAIN queue[q] :
                 InStream(run[s].task, q, i) => q = QueueOf(s[1]) /\ i = run[s].msg
           /\ \A c \in Receivers : \A i \in release[c] : queue["rs"][i].task # run[s].task
<1> DEFINE t == run[s].task
           p == QueueOf(s[1])
           n == run[s].msg
<1>1. \A q \in Queues : HeldOnce(q)
  BY DEF Queues
<1>2. InStream(t, p, n) /\ p \in Queues /\ n \in DOMAIN queue[p] /\ t \in Tasks
  BY <1>1, RunCarries, QueueOfQueues, BusyRun
<1>3. OneCarrier(t)
  BY <1>2 DEF InStep, TasksInStep
<1>4. \A q \in Queues : \A i \in DOMAIN queue[q] : InStream(t, q, i) => q = p /\ i = n
  <2> HIDE DEF t, p, n
  <2> QED
    BY <1>2, <1>3 DEF OneCarrier
<1>5. \A c \in Receivers : \A i \in release[c] : queue["rs"][i].task # t
  <2> HIDE DEF t, p, n
  <2> QED
    BY <1>2, <1>3 DEF OneCarrier, InHand
<1>6. ASSUME NEW x \in Slots \ {s}, ~At(x, "free"), ~At(x, "ack")
      PROVE  run[x].task # t
  <2>1. InStream(run[x].task, QueueOf(x[1]), run[x].msg) /\ QueueOf(x[1]) \in Queues
    BY <1>1, <1>6, RunCarries, QueueOfQueues
  <2>2. ~(QueueOf(x[1]) = p /\ run[x].msg = n)
    BY <1>1, <1>2, <1>6 DEF HeldOnce
  <2> QED
    BY <1>4, <2>1, <2>2 DEF InStream
<1> QED
  BY <1>4, <1>5, <1>6

\* Every entry names a task.
LEMMA JobTasks ==
    ASSUME TypeOK
    PROVE  \A q \in Queues : \A i \in DOMAIN queue[q] : queue[q][i].task \in Tasks
<1>1. \A q \in Queues : queue[q] \in Seq(Entry(Tasks))
  BY DEF TypeOK, StreamTypes
<1>2. \A e \in Entry(Tasks) : e.task \in Tasks
  BY DEF Entry
<1> QED
  BY <1>1, <1>2

-----------------------------------------------------------------------------
(* InStep is kept, one kind of step after the other.                       *)

\* No job is appended or acknowledged.
KeepsJobs ==
    \A q \in Queues : /\ DOMAIN queue'[q] = DOMAIN queue[q]
                      /\ \A i \in DOMAIN queue[q] :
                            /\ queue'[q][i].task = queue[q][i].task
                            /\ queue'[q][i].st = "acked" <=> queue[q][i].st = "acked"

LEMMA MarkedKeepsJobs ==
    ASSUME NEW q \in Queues, NEW S, NEW v, Marked(q, S, v), v # "acked",
           \A i \in S \cap DOMAIN queue[q] : queue[q][i].st # "acked"
    PROVE  KeepsJobs
  BY DEF Marked, KeepsJobs

\* Delivery moves no job: Redis, and the receivers that get messages from it.
LEMMA DeliveryInStep ==
    ASSUME InStep, UNCHANGED <<task, stage, artifact, handler, proc, todo, release, run>>,
           KeepsJobs, \A c \in Receivers : release[c] \subseteq DOMAIN queue["rs"]
    PROVE  InStep'
<1>0. \A q \in Queues : /\ DOMAIN queue'[q] = DOMAIN queue[q]
                        /\ \A i \in DOMAIN queue[q] :
                              /\ queue'[q][i].task = queue[q][i].task
                              /\ queue'[q][i].st = "acked" <=> queue[q][i].st = "acked"
  BY DEF KeepsJobs
<1>1. \A t : SameRows(t)
  BY DEF SameRows
<1>2. \A t : /\ \A q : Ready(q, t)' <=> Ready(q, t)
             /\ \A p, k, m : Course(t, p, k, m)' <=> Course(t, p, k, m)
             /\ Agreed(t)' <=> Agreed(t)
             /\ Created(t)' <=> Created(t)
  BY <1>1, SameCourse, SameCreated
<1>3. \A q \in Queues : \A i \in DOMAIN queue[q] : /\ WorkedOn(q, i)' <=> WorkedOn(q, i)
                                                   /\ Live(q, i)' <=> Live(q, i)
  BY <1>0 DEF WorkedOn, Live, At
<1>4. ASSUME NEW t \in Tasks
      PROVE  OneCarrier(t)'
  <2>1. OneCarrier(t)
    BY DEF InStep, TasksInStep
  <2>2. \A q \in Queues : \A i \in DOMAIN queue'[q] : InStream(t, q, i)' => InStream(t, q, i)
    BY <1>0, <1>3 DEF InStream
  <2>3. \A c \in Receivers : \A i \in release'[c] : InHand(t, c, i)' => InHand(t, c, i)
    BY <1>0, RSQueue DEF InHand
  <2> QED
    BY <2>1, <2>2, <2>3, FewerCarriers
<1>5. Serving' /\ TasksInStep'
  BY <1>2, <1>4 DEF InStep, Serving, TasksInStep
<1>6. JobsInStep'
  BY <1>0, <1>2, <1>3 DEF InStep, JobsInStep
<1>7. HandsInStep'
  BY <1>0, <1>2, RSQueue DEF InStep, HandsInStep
<1>8. RunsInStep'
  BY <1>2 DEF InStep, RunsInStep, At
<1> QED
  BY <1>5, <1>6, <1>7, <1>8 DEF InStep

\* CreateTask writes the rows of a task that has no job yet.
LEMMA RowsInStep ==
    ASSUME TypeOK, Unstarted, InStep, NEW t \in Tasks, handler[t] # "ended",
           UNCHANGED <<queue, release, run, proc, todo>>,
           \A u \in Tasks \ {t} : SameRows(u) /\ handler'[u] = handler[u],
           Created(t)', Agreed(t)'
    PROVE  InStep'
<1>1. \A u \in Tasks \ {t} : /\ \A q : Ready(q, u)' <=> Ready(q, u)
                             /\ \A p, k, m : Course(u, p, k, m)' <=> Course(u, p, k, m)
                             /\ Agreed(u)' <=> Agreed(u)
                             /\ Created(u)' <=> Created(u)
  BY SameCourse, SameCreated DEF SameRows
<1>2. \A q \in Queues : \A i \in DOMAIN queue[q] : queue[q][i].task # t
  BY DEF Unstarted, Untouched
<1>3. \A q \in Queues : \A i \in DOMAIN queue[q] : queue[q][i].task \in Tasks
  BY JobTasks
<1>4. \A c \in Receivers : release[c] \subseteq DOMAIN queue["rs"]
  BY DEF TypeOK, StreamTypes
<1>5. \A s \in Slots : ~At(s, "free") => run[s].task # t /\ run[s].task \in Tasks
  BY JobsStarted, BusyRun
<1>6. ASSUME NEW u \in Tasks
      PROVE  OneCarrier(u)'
  BY DEF InStep, TasksInStep, OneCarrier, InStream, InHand, Live, At
<1>7. Serving' /\ TasksInStep'
  BY <1>1, <1>6 DEF InStep, Serving, TasksInStep
<1>8. JobsInStep'
  BY <1>1, <1>2, <1>3 DEF InStep, JobsInStep, WorkedOn, At
<1>9. HandsInStep'
  BY <1>1, <1>2, <1>3, <1>4, RSQueue DEF InStep, HandsInStep
<1>10. RunsInStep'
  BY <1>1, <1>5 DEF InStep, RunsInStep, At
<1> QED
  BY <1>7, <1>8, <1>9, <1>10 DEF InStep

\* A job is appended for a task whose rows are ready for it and whose job it is now.
LEMMA AppendInStep ==
    ASSUME TypeOK, InStep, UNCHANGED <<task, stage, artifact, proc, todo>>,
           \A u \in Tasks : Created(u)',
           NEW q \in Queues, NEW t \in Tasks, NEW d, Appended(q, t, d), Ready(q, t),
           \A x \in Slots : \/ run'[x] = run[x]
                            \/ ~At(x, "free") /\ run'[x].pc = "ack" /\ run'[x].msg = run[x].msg,
           \A c \in Receivers : release'[c] \subseteq release[c],
           \A p \in Queues : \A i \in DOMAIN queue[p] : InStream(t, p, i) =>
              \E s \in Slots : QueueOf(s[1]) = p /\ run'[s].pc = "ack" /\ run'[s].msg = i,
           \A c \in Receivers : \A i \in release'[c] : queue["rs"][i].task # t
    PROVE  InStep'
<1> DEFINE n == Len(queue[q]) + 1
<1>1. /\ \A p \in Queues \ {q} : queue'[p] = queue[p]
      /\ DOMAIN queue'[q] = DOMAIN queue[q] \cup {n}
      /\ \A j \in DOMAIN queue[q] : queue'[q][j] = queue[q][j]
      /\ queue'[q][n].task = t
      /\ n \notin DOMAIN queue[q]
  <2>1. queue[q] \in Seq(Entry(Tasks))
    BY DEF TypeOK, StreamTypes
  <2>2. n \notin DOMAIN queue[q]
    BY <2>1
  <2> QED
    BY <2>2 DEF Appended
<1> HIDE DEF n
<1>2. \A p \in Queues : /\ DOMAIN queue[p] \subseteq DOMAIN queue'[p]
                        /\ \A j \in DOMAIN queue'[p] : \/ j \in DOMAIN queue[p]
                                                       \/ p = q /\ j = n
                        /\ \A j \in DOMAIN queue[p] : queue'[p][j] = queue[p][j]
  BY <1>1
<1>3. \A u : SameRows(u)
  BY DEF SameRows
<1>4. \A u : /\ \A p : Ready(p, u)' <=> Ready(p, u)
             /\ \A p, k, m : Course(u, p, k, m)' <=> Course(u, p, k, m)
             /\ Agreed(u)' <=> Agreed(u)
  BY <1>3, SameCourse
<1>5. \A p \in Queues : \A i \in DOMAIN queue[p] : /\ WorkedOn(p, i)' <=> WorkedOn(p, i)
                                                   /\ Live(p, i)' => Live(p, i)
  <2>1. \A x \in Slots : ~At(x, "free")' <=> ~At(x, "free")
    BY PCs DEF At
  <2>2. \A x \in Slots : /\ run'[x].msg = run[x].msg
                         /\ At(x, "ack") => At(x, "ack")'
    BY DEF At
  <2>3. \A p \in Queues : \A i \in DOMAIN queue[p] : WorkedOn(p, i)' <=> WorkedOn(p, i)
    BY <2>1, <2>2 DEF WorkedOn
  <2>4. \A p \in Queues : \A i \in DOMAIN queue[p] : Live(p, i)' => Live(p, i)
    BY <1>2, <2>2 DEF Live
  <2> QED
    BY <2>3, <2>4
<1>6. \A c \in Receivers : \A i \in release'[c] :
         /\ i \in release[c] /\ i \in DOMAIN queue["rs"]
         /\ queue'["rs"][i] = queue["rs"][i]
  BY <1>2, RSQueue DEF TypeOK, StreamTypes
<1>7. OneCarrier(t)'
  <2>1. ASSUME NEW p \in Queues, NEW j \in DOMAIN queue'[p], InStream(t, p, j)'
        PROVE  p = q /\ j = n
    <3>1. CASE j \in DOMAIN queue[p]
      <4>1. InStream(t, p, j)
        BY <1>2, <1>5, <2>1, <3>1 DEF InStream
      <4> QED
        BY <2>1, <3>1, <4>1 DEF InStream, Live, At
    <3> QED
      BY <1>2, <3>1
  <2>2. \A c \in Receivers : \A i \in release'[c] : ~InHand(t, c, i)'
    BY <1>6 DEF InHand
  <2> QED
    BY <2>1, <2>2, StreamCarrier
<1>8. ASSUME NEW u \in Tasks, u # t
      PROVE  OneCarrier(u)'
  <2>1. \A p \in Queues : \A i \in DOMAIN queue'[p] : InStream(u, p, i)' => InStream(u, p, i)
    BY <1>1, <1>2, <1>5, <1>8 DEF InStream
  <2>2. \A c \in Receivers : \A i \in release'[c] : InHand(u, c, i)' => InHand(u, c, i)
    BY <1>6 DEF InHand
  <2> QED
    BY <2>1, <2>2, FewerCarriers DEF InStep, TasksInStep
<1>9. Serving' /\ TasksInStep'
  BY <1>4, <1>7, <1>8 DEF InStep, Serving, TasksInStep
<1>10. JobsInStep'
  <2> SUFFICES ASSUME NEW p \in Queues, NEW i \in DOMAIN queue'[p],
                      queue'[p][i].st # "acked", ~WorkedOn(p, i)'
               PROVE  Ready(p, queue[p][i].task)'
    BY DEF JobsInStep
  <2>1. PICK u : u = queue'[p][i].task
    OBVIOUS
  <2>2. Ready(p, u)
    <3>1. CASE i \in DOMAIN queue[p]
      <4>1. queue'[p][i] = queue[p][i] /\ ~WorkedOn(p, i)
        BY <1>2, <1>5, <3>1
      <4> QED
        BY <2>1, <3>1, <4>1 DEF InStep, JobsInStep
    <3>2. CASE p = q /\ i = n
      BY <1>1, <2>1, <3>2
    <3> QED
      BY <1>2, <3>1, <3>2
  <2> QED
    BY <1>4, <2>1, <2>2
<1>11. HandsInStep'
  BY <1>4, <1>6 DEF InStep, HandsInStep
<1>12. RunsInStep'
  BY <1>4 DEF InStep, RunsInStep, At
<1> QED
  BY <1>9, <1>10, <1>11, <1>12 DEF InStep

\* A receiver starts a goroutine on a job.
LEMMA ProcessInStep ==
    ASSUME TypeOK, HeldOnce("rs"), HeldOnce("od"), InStep, NEW c \in Receivers, ProcessJob(c)
    PROVE  InStep'
<1>1. UNCHANGED <<task, stage, artifact, handler, proc, todo, queue, release>>
  BY Zenon DEF ProcessJob, api, rows
<1>2. PICK i \in inbox[c] : \E s \in Slots :
        /\ i \in DOMAIN queue[QueueOf(c[1])]
        /\ s[1] = c[1] /\ At(s, "free")
        /\ \A x \in Slots \ {s} : run'[x] = run[x]
        /\ run'[s].pc = IF IsRS(s) THEN "claim" ELSE "stage"
        /\ run'[s].msg = i
        /\ run'[s].task = queue[QueueOf(c[1])][i].task
        /\ run'[s].detect = queue[QueueOf(c[1])][i].detect
        /\ run'[s].k = IF IsRS(s) THEN 1 ELSE OD
        /\ run'[s].skip = {}
        /\ inbox' = [inbox EXCEPT ![c] = inbox[c] \ {i}]
  BY ProcessShape, Zenon
<1>3. PICK s \in Slots :
        /\ i \in DOMAIN queue[QueueOf(c[1])]
        /\ s[1] = c[1] /\ At(s, "free")
        /\ \A x \in Slots \ {s} : run'[x] = run[x]
        /\ run'[s].pc = IF IsRS(s) THEN "claim" ELSE "stage"
        /\ run'[s].msg = i
        /\ run'[s].task = queue[QueueOf(c[1])][i].task
        /\ run'[s].detect = queue[QueueOf(c[1])][i].detect
        /\ run'[s].k = IF IsRS(s) THEN 1 ELSE OD
        /\ run'[s].skip = {}
        /\ inbox' = [inbox EXCEPT ![c] = inbox[c] \ {i}]
  BY <1>2
<1>4. PICK q : q = QueueOf(c[1])
  OBVIOUS
<1>5. q \in Queues /\ HeldOnce(q)
  BY <1>4, QueueOfQueues DEF Queues
<1>6. \A t : SameRows(t)
  BY <1>1 DEF SameRows
<1>7. \A t : /\ \A p : Ready(p, t)' <=> Ready(p, t)
             /\ \A p, k, m : Course(t, p, k, m)' <=> Course(t, p, k, m)
             /\ Agreed(t)' <=> Agreed(t)
             /\ Created(t)' <=> Created(t)
  BY <1>1, <1>6, SameCourse, SameCreated
<1>8. Held(q, i)
  BY <1>3, <1>4 DEF Held
<1>9. queue[q][i].st # "acked" /\ ~WorkedOn(q, i)
  BY <1>3, <1>4, <1>5, <1>8 DEF HeldOnce, Taken, WorkedOn
<1>10. Ready(q, queue[q][i].task)
  BY <1>3, <1>4, <1>5, <1>9 DEF InStep, JobsInStep
<1>11. \A p \in Queues : \A j : /\ WorkedOn(p, j) => WorkedOn(p, j)'
                                /\ Live(p, j)' => Live(p, j)
  <2>1. \A x \in Slots : ~At(x, "free") => ~At(x, "free")' /\ run'[x].msg = run[x].msg
    BY <1>3 DEF At
  <2>2. \A x \in Slots : At(x, "ack") => At(x, "ack")' /\ run'[x].msg = run[x].msg
    BY <1>3 DEF At
  <2>3. \A p \in Queues : \A j : WorkedOn(p, j) => WorkedOn(p, j)'
    BY <2>1 DEF WorkedOn
  <2>4. \A p \in Queues : \A j : Live(p, j)' => Live(p, j)
    BY <1>1, <2>2 DEF Live
  <2> QED
    BY <2>3, <2>4
<1>12. ASSUME NEW t \in Tasks
       PROVE  OneCarrier(t)'
  <2>1. \A p \in Queues : \A j \in DOMAIN queue'[p] : InStream(t, p, j)' => InStream(t, p, j)
    BY <1>1, <1>11 DEF InStream
  <2>2. \A d \in Receivers : \A j \in release'[d] : InHand(t, d, j)' => InHand(t, d, j)
    BY <1>1 DEF InHand
  <2> QED
    BY <2>1, <2>2, FewerCarriers DEF InStep, TasksInStep
<1>13. Serving' /\ TasksInStep'
  BY <1>1, <1>7, <1>12 DEF InStep, Serving, TasksInStep
<1>14. JobsInStep'
  BY <1>1, <1>7, <1>11 DEF InStep, JobsInStep
<1>15. HandsInStep'
  BY <1>1, <1>7 DEF InStep, HandsInStep
<1>16. RunsInStep'
  <2> SUFFICES ASSUME NEW x \in Slots, ~At(x, "free")', ~At(x, "ack")'
               PROVE  Course(run[x].task, run[x].pc, run[x].k, run[x].skip)'
    BY DEF RunsInStep
  <2>1. PICK t, p, k, m : /\ t = run'[x].task /\ p = run'[x].pc
                          /\ k = run'[x].k /\ m = run'[x].skip
    OBVIOUS
  <2>2. Course(t, p, k, m)
    <3>1. CASE x = s
      <4>1. q = (IF IsRS(s) THEN "rs" ELSE "od")
        BY <1>3, <1>4 DEF QueueOf, IsRS
      <4> QED
        BY <1>3, <1>4, <1>10, <2>1, <3>1, <4>1 DEF Ready
    <3>2. CASE x # s
      BY <1>3, <2>1, <3>2 DEF InStep, RunsInStep, At
    <3> QED
      BY <3>1, <3>2
  <2> QED
    BY <1>7, <2>1, <2>2
<1> QED
  BY <1>13, <1>14, <1>15, <1>16 DEF InStep

\* A receiver takes a job out of the stream to hand it back.
LEMMA ReleaseAckInStep ==
    ASSUME TypeOK, HeldOnce("rs"), InStep, ~Fault, NEW c \in Receivers, ReleaseAck(c)
    PROVE  InStep'
<1>0. release \in [Receivers -> SUBSET Nat]
  BY DEF TypeOK, StreamTypes
<1>1. UNCHANGED <<task, stage, artifact, handler, proc, todo, run>>
  BY Zenon DEF ReleaseAck, rows
<1>2. PICK i : /\ i \in inbox[c] /\ i \in DOMAIN queue["rs"]
               /\ c[1] \in RSWorkers /\ release[c] = {}
               /\ release' = [release EXCEPT ![c] = {i}]
               /\ Marked("rs", {i}, AckState("rs", i))
  BY ReleaseAckShape DEF HeldOnce
<1>3. queue["rs"][i].st = "pending" /\ ~WorkedOn("rs", i) /\ Live("rs", i)
  <2>1. QueueOf(c[1]) = "rs"
    BY <1>2 DEF QueueOf
  <2>2. Held("rs", i)
    BY <1>2, <2>1 DEF Held
  <2>3. queue["rs"][i].st = "pending"
    BY <1>2, <2>2 DEF HeldOnce, Taken
  <2>4. ~WorkedOn("rs", i)
    BY <1>2, <2>1 DEF HeldOnce, WorkedOn
  <2> QED
    BY <2>3, <2>4 DEF Live, WorkedOn, At
<1>4. PICK t \in Tasks : t = queue["rs"][i].task
  BY <1>2, JobTasks, RSQueue
<1>5. Ready("rs", t)
  BY <1>2, <1>3, <1>4, RSQueue DEF InStep, JobsInStep
<1>6. InStream(t, "rs", i) /\ OneCarrier(t)
  BY <1>2, <1>3, <1>4 DEF InStream, InStep, TasksInStep
<1>7. /\ queue'["od"] = queue["od"] /\ DOMAIN queue'["rs"] = DOMAIN queue["rs"]
      /\ \A j \in DOMAIN queue["rs"] : queue'["rs"][j].task = queue["rs"][j].task
      /\ \A j \in DOMAIN queue["rs"] \ {i} : queue'["rs"][j].st = queue["rs"][j].st
      /\ queue'["rs"][i].st = "acked"
  BY <1>2, <1>3, RSQueue DEF Marked, AckState
<1>8. \A u : SameRows(u)
  BY <1>1 DEF SameRows
<1>9. \A u : /\ \A p : Ready(p, u)' <=> Ready(p, u)
             /\ \A p, k, m : Course(u, p, k, m)' <=> Course(u, p, k, m)
             /\ Agreed(u)' <=> Agreed(u)
             /\ Created(u)' <=> Created(u)
  BY <1>1, <1>8, SameCourse, SameCreated
<1>10. \A p \in Queues : /\ DOMAIN queue'[p] = DOMAIN queue[p]
                         /\ \A j \in DOMAIN queue[p] :
                               /\ WorkedOn(p, j)' <=> WorkedOn(p, j)
                               /\ queue'[p][j].task = queue[p][j].task
                               /\ queue'[p][j].st # "acked" => queue[p][j].st # "acked"
                               /\ Live(p, j)' => Live(p, j) /\ ~(p = "rs" /\ j = i)
  <2>1. \A p \in Queues : \A j : WorkedOn(p, j)' <=> WorkedOn(p, j)
    BY <1>1 DEF WorkedOn, At
  <2>2. \A p \in Queues : \A j \in DOMAIN queue[p] : Live(p, j)' => Live(p, j) /\ ~(p = "rs" /\ j = i)
    BY <1>1, <1>7 DEF Live, At, Queues
  <2> QED
    BY <1>7, <2>1, <2>2 DEF Queues
<1>11. \A d \in Receivers : \A j \in release'[d] :
          \/ j \in release[d] /\ j \in DOMAIN queue["rs"]
          \/ d = c /\ j = i
  BY <1>0, <1>2 DEF TypeOK, StreamTypes
<1>12. OneCarrier(t)'
  <2>1. ASSUME NEW p \in Queues, NEW j \in DOMAIN queue'[p], InStream(t, p, j)'
        PROVE  FALSE
    <3>1. InStream(t, p, j) /\ ~(p = "rs" /\ j = i) /\ j \in DOMAIN queue[p]
      BY <1>10, <2>1 DEF InStream
    <3> QED
      BY <1>2, <1>6, <3>1, RSQueue DEF OneCarrier
  <2>2. ASSUME NEW d \in Receivers, NEW j \in release'[d], InHand(t, d, j)'
        PROVE  d = c /\ j = i
    <3>1. CASE j \in release[d] /\ j \in DOMAIN queue["rs"]
      <4>1. InHand(t, d, j)
        BY <1>7, <2>2, <3>1 DEF InHand
      <4> QED
        BY <1>2, <1>6, <3>1, <4>1, RSQueue DEF OneCarrier
    <3> QED
      BY <1>11, <3>1
  <2> QED
    BY <2>1, <2>2, HandCarrier
<1>13. ASSUME NEW u \in Tasks, u # t
       PROVE  OneCarrier(u)'
  <2>1. \A p \in Queues : \A j \in DOMAIN queue'[p] : InStream(u, p, j)' => InStream(u, p, j)
    BY <1>10 DEF InStream
  <2>2. \A d \in Receivers : \A j \in release'[d] : InHand(u, d, j)' => InHand(u, d, j)
    BY <1>2, <1>4, <1>7, <1>11, <1>13 DEF InHand
  <2> QED
    BY <2>1, <2>2, FewerCarriers DEF InStep, TasksInStep
<1>14. Serving' /\ TasksInStep'
  BY <1>1, <1>9, <1>12, <1>13 DEF InStep, Serving, TasksInStep
<1>15. JobsInStep'
  BY <1>9, <1>10 DEF InStep, JobsInStep
<1>16. HandsInStep'
  <2> SUFFICES ASSUME NEW d \in Receivers, NEW j \in release'[d]
               PROVE  Ready("rs", queue["rs"][j].task)'
    BY DEF HandsInStep
  <2>1. PICK u : u = queue'["rs"][j].task
    OBVIOUS
  <2>2. Ready("rs", u)
    BY <1>2, <1>4, <1>5, <1>7, <1>11, <2>1 DEF InStep, HandsInStep
  <2> QED
    BY <1>9, <2>1, <2>2
<1>17. RunsInStep'
  BY <1>1, <1>9 DEF InStep, RunsInStep, At
<1> QED
  BY <1>14, <1>15, <1>16, <1>17 DEF InStep

-----------------------------------------------------------------------------
(* A goroutine that knows the rows of its task still knows them after its  *)
(* next step, if no command fails.                                         *)

\* Goroutine s goes on and is on course afterwards, or has come to the end.
Goes(s, t) ==
    \E p \in PC \ {"free"} : \E n, m, a :
        /\ RunTo(s, p, n, m, a)
        /\ p = "ack" \/ Course(t, p, n, m)'
        /\ Agreed(t)'

LEMMA GotoGoes ==
    ASSUME TypeOK, NEW s \in Slots, NEW k, k = run[s].k, run[s].skip = {},
           NEW p \in PC, p # "free", Goto(s, p),
           NEW t, p = "ack" \/ Course(t, p, k, {})', Agreed(t)'
    PROVE  Goes(s, t)
<1>1. RunTo(s, p, k, {}, run[s].attempt)
  BY GotoRunTo DEF TypeOK, RunTypes
<1> QED
  BY <1>1 DEF Goes

LEMMA AdvanceGoes ==
    ASSUME TypeOK, NEW s \in Slots, NEW k, k = run[s].k, run[s].skip = {}, Advance(s),
           NEW t, k = OD => Course(t, "finish", k, {})',
           k # OD => Course(t, "stage", k + 1, {})', Agreed(t)'
    PROVE  Goes(s, t)
<1>1. \/ k = OD /\ RunTo(s, "finish", k, {}, run[s].attempt)
      \/ k # OD /\ RunTo(s, "stage", k + 1, {}, 0)
  BY AdvanceRunTo DEF TypeOK, RunTypes
<1>2. CASE k = OD
  BY <1>1, <1>2, PCs DEF Goes
<1>3. CASE k # OD
  BY <1>1, <1>3, PCs DEF Goes
<1> QED
  BY <1>2, <1>3

\* Only the row of stage k changes, and artifact rows are only added.
LEMMA OtherStages ==
    ASSUME NEW t, NEW k, Behind(t, k), Ahead(t, k),
           \A j \in Stages \ {k} : stage'[t][j] = stage[t][j],
           artifact[t] \subseteq artifact'[t]
    PROVE  Behind(t, k)' /\ Ahead(t, k)'
<1>1. \A j \in Stages : j < k \/ j > k => j # k
  BY DEF Stages
<1> QED
  BY <1>1 DEF Behind, Ahead

LEMMA SetStageRow ==
    ASSUME TypeOK, NEW t \in Tasks, NEW k \in Stages, stage[t][k] # "absent",
           NEW v, SetStage(t, k, v)
    PROVE  /\ stage'[t][k] = v
           /\ \A j \in Stages \ {k} : stage'[t][j] = stage[t][j]
           /\ \A u \in Tasks \ {t} : stage'[u] = stage[u]
  BY DEF TypeOK, RowTypes, SetStage

LEMMA PipelineGoes ==
    ASSUME TypeOK, ~Fault, NEW s \in Slots, ~At(s, "ack"), PipelineStep(s),
           NEW t \in Tasks, t = run[s].task, NEW k \in Stages, k = run[s].k,
           Course(t, run[s].pc, k, run[s].skip)
    PROVE  Goes(s, t) /\ \A u \in Tasks \ {t} : SameRows(u)
<1>0. /\ run[s].skip = {} /\ Behind(t, k) /\ Ahead(t, k)
      /\ task \in [Tasks -> TaskStatus]
  BY DEF Course, TypeOK, RowTypes
<1>1. CASE ClaimTask(s)
  <2>1. /\ At(s, "claim") /\ k = 1 /\ task[t] = "pending" /\ stage[t][k] = "pending"
        /\ UNCHANGED <<stage, artifact>>
    BY <1>1 DEF ClaimTask, At, Course, rows
  <2>2. task' = [task EXCEPT ![t] = "running"] /\ Goto(s, "stage")
    BY <1>1, <2>1 DEF ClaimTask, Unclaimed, SetTask
  <2>3. Behind(t, k)' /\ Ahead(t, k)'
    BY <1>0, <2>1, OtherStages
  <2>4. task'[t] = "running" /\ \A u \in Tasks \ {t} : SameRows(u)
    BY <1>0, <2>1, <2>2 DEF SameRows
  <2>5. Course(t, "stage", k, {})' /\ Agreed(t)'
    BY <2>1, <2>3, <2>4 DEF Course, Agreed
  <2> QED
    BY <1>0, <2>2, <2>4, <2>5, GotoGoes, PCs
<1>2. CASE CheckRunning(s) \/ SuccessStages(s) \/ SkipStage(s) \/ DropSkip(s)
  BY <1>0, <1>2 DEF CheckRunning, SuccessStages, SkipStage, DropSkip, At, Course
<1>3. CASE SkipDetection(s)
  <2>1. /\ At(s, "stage") /\ k = OD /\ task[t] = "running" /\ stage[t][k] = "pending"
        /\ SetStage(t, k, "success") /\ Advance(s) /\ UNCHANGED <<task, artifact>>
    BY <1>3 DEF SkipDetection, AtStage, At, Course
  <2>2. /\ stage'[t][k] = "success"
        /\ \A j \in Stages \ {k} : stage'[t][j] = stage[t][j]
        /\ \A u \in Tasks \ {t} : stage'[u] = stage[u]
    BY <2>1, SetStageRow
  <2>3. Behind(t, k)' /\ Ahead(t, k)'
    BY <1>0, <2>1, <2>2, OtherStages
  <2>4. Course(t, "finish", k, {})' /\ Agreed(t)'
    BY <2>1, <2>2, <2>3 DEF Course, Agreed
  <2>5. \A u \in Tasks \ {t} : SameRows(u)
    BY <2>1, <2>2 DEF SameRows
  <2> QED
    BY <1>0, <2>1, <2>4, <2>5, AdvanceGoes
<1>4. CASE ODRowSuccess(s)
  BY <1>4 DEF ODRowSuccess, At, Course
<1>5. CASE ShouldSkipODJob(s) \/ ODRowOther(s) \/ EnqueueOD(s)
  <2>1. /\ \A u : SameRows(u)
        /\ k = OD /\ task[t] = "running" /\ stage[t][k] = "pending"
    BY <1>5 DEF ShouldSkipODJob, ODRowOther, EnqueueOD, AtStage, At, Course, rows, SameRows
  <2>2. PICK p \in {"odRow", "odAdd", "begin", "ack"} : Goto(s, p)
    BY <1>5, <2>1 DEF ShouldSkipODJob, ODRowOther, EnqueueOD
  <2>3. Course(t, p, k, {}) \/ p = "ack"
    BY <1>0, <2>1, <2>2 DEF Course
  <2>4. Agreed(t)
    BY <2>1 DEF Agreed
  <2>5. (p = "ack" \/ Course(t, p, k, {})') /\ Agreed(t)'
    BY <2>1, <2>3, <2>4, SameCourse
  <2> QED
    BY <1>0, <2>1, <2>2, <2>5, GotoGoes, PCs
<1> QED
  BY <1>1, <1>2, <1>3, <1>4, <1>5 DEF PipelineStep

LEMMA StageGoes ==
    ASSUME TypeOK, ~Fault, NEW s \in Slots, ~At(s, "ack"), StageStep(s),
           NEW t \in Tasks, t = run[s].task, NEW k \in Stages, k = run[s].k,
           Course(t, run[s].pc, k, run[s].skip)
    PROVE  Goes(s, t) /\ \A u \in Tasks \ {t} : SameRows(u)
<1>0. /\ run[s].skip = {} /\ Behind(t, k) /\ Ahead(t, k)
      /\ task \in [Tasks -> TaskStatus] /\ run \in [Slots -> Run]
      /\ artifact \in [Tasks -> SUBSET Stages]
  BY DEF Course, TypeOK, RowTypes, RunTypes
<1>1. CASE BeginStage(s)
  <2>1. /\ task[t] = "running" /\ stage[t][k] = "pending"
        /\ SetStage(t, k, "running") /\ UNCHANGED <<task, artifact>>
        /\ run' = [run EXCEPT ![s].pc = "exec", ![s].attempt = 1]
    BY <1>1 DEF BeginStage, AtStage, At, Course, rows
  <2>2. /\ stage'[t][k] = "running"
        /\ \A j \in Stages \ {k} : stage'[t][j] = stage[t][j]
        /\ \A u \in Tasks \ {t} : stage'[u] = stage[u]
    BY <2>1, SetStageRow
  <2>3. Behind(t, k)' /\ Ahead(t, k)'
    BY <1>0, <2>1, <2>2, OtherStages
  <2>4. Course(t, "exec", k, {})' /\ Agreed(t)'
    BY <2>1, <2>2, <2>3 DEF Course, Agreed
  <2>5. RunTo(s, "exec", k, {}, 1)
    BY <1>0, <2>1, PCs, AttemptRunTo
  <2> QED
    BY <2>1, <2>2, <2>4, <2>5, PCs DEF SameRows, Goes
<1>2. CASE ExecSuccess(s) \/ ExecFailure(s)
  <2>1. /\ task[t] = "running" /\ stage[t][k] = "running" /\ run[s].pc = "exec"
        /\ \A u : SameRows(u)
    BY <1>2 DEF ExecSuccess, ExecFailure, At, Course, rows, SameRows
  <2>2. \A p \in {"exec", "succeed", "failRow"} : Course(t, p, k, {})
    BY <1>0, <2>1 DEF Course
  <2>3. Agreed(t)
    BY <2>1 DEF Agreed
  <2>4. (\A p \in {"exec", "succeed", "failRow"} : Course(t, p, k, {})') /\ Agreed(t)'
    BY <2>1, <2>2, <2>3, SameCourse
  <2>5. CASE \E p \in {"succeed", "failRow"} : Goto(s, p)
    BY <1>0, <2>1, <2>4, <2>5, GotoGoes, PCs
  <2>6. CASE run' = [run EXCEPT ![s].attempt = run[s].attempt + 1]
    <3> DEFINE a == run[s].attempt + 1
    <3>1. a \in Nat
      BY <1>0, RunFields
    <3>2. run' = [run EXCEPT ![s].attempt = a]
      BY <2>6
    <3> HIDE DEF a
    <3>3. RunTo(s, run[s].pc, k, {}, a)
      BY <1>0, <3>1, <3>2, PCs, AttemptRunTo, Zenon
    <3> QED
      BY <2>1, <2>4, <3>3, PCs DEF Goes
  <2> QED
    BY <1>2, <2>1, <2>5, <2>6, Zenon DEF ExecSuccess, ExecFailure
<1>3. CASE Succeed(s) \/ FailStageRow(s)
  <2>1. PICK v, p : /\ SetStage(t, k, v) /\ Goto(s, p) /\ UNCHANGED <<task, artifact>>
                    /\ stage[t][k] = "running" /\ task[t] = "running"
                    /\ \/ v = "success" /\ p = "record"
                       \/ v = "failed" /\ p = "failTask"
    BY <1>3 DEF Succeed, FailStageRow, At, Course, rows
  <2>2. /\ stage'[t][k] = v
        /\ \A j \in Stages \ {k} : stage'[t][j] = stage[t][j]
        /\ \A u \in Tasks \ {t} : stage'[u] = stage[u]
    BY <2>1, SetStageRow
  <2>3. Behind(t, k)' /\ Ahead(t, k)'
    BY <1>0, <2>1, <2>2, OtherStages
  <2>4. Course(t, p, k, {})' /\ Agreed(t)'
    BY <2>1, <2>2, <2>3 DEF Course, Agreed
  <2>5. \A u \in Tasks \ {t} : SameRows(u)
    BY <2>1, <2>2 DEF SameRows
  <2> QED
    BY <1>0, <2>1, <2>4, <2>5, GotoGoes, PCs
<1>4. CASE RecordArtifacts(s)
  <2>1. /\ artifact' = [artifact EXCEPT ![t] = @ \cup {k}]
        /\ Advance(s) /\ UNCHANGED <<task, stage>>
        /\ task[t] = "running" /\ stage[t][k] = "success"
    BY <1>4 DEF RecordArtifacts, At, Course
  <2>2. /\ artifact'[t] = artifact[t] \cup {k}
        /\ \A u \in Tasks \ {t} : SameRows(u)
    BY <1>0, <2>1 DEF SameRows
  <2>3. Behind(t, k)' /\ Ahead(t, k)'
    BY <1>0, <2>1, <2>2, OtherStages
  <2>4. Agreed(t)' /\ (k = OD => Course(t, "finish", k, {})')
    BY <2>1, <2>3 DEF Course, Agreed
  <2>5. k # OD => Course(t, "stage", k + 1, {})'
    <3> SUFFICES ASSUME k # OD
                 PROVE  Course(t, "stage", k + 1, {})'
      OBVIOUS
    <3>1. /\ \A j \in Stages : j < k + 1 => j < k \/ j = k
          /\ \A j \in Stages : j > k + 1 => j > k
          /\ k + 1 \in Stages /\ k + 1 > k
      BY StageNumbers DEF Stages
    <3> DEFINE n == k + 1
    <3> HIDE DEF n
    <3>2. Behind(t, n)'
      BY <2>1, <2>2, <2>3, <3>1 DEF Behind, n
    <3>3. Ahead(t, n)' /\ stage'[t][n] = "pending"
      BY <2>3, <3>1 DEF Ahead, n
    <3>4. Course(t, "stage", n, {})'
      BY <2>1, <3>2, <3>3 DEF Course
    <3> QED
      BY <3>4 DEF n
  <2> QED
    BY <1>0, <2>1, <2>2, <2>4, <2>5, AdvanceGoes
<1>5. CASE FailTaskRow(s)
  <2>1. /\ task' = [task EXCEPT ![t] = "failed"] /\ Goto(s, "fail")
        /\ UNCHANGED <<stage, artifact>> /\ stage[t][k] = "failed"
    BY <1>5 DEF FailTaskRow, SetTask, At, Course, rows
  <2>2. task'[t] = "failed" /\ \A u \in Tasks \ {t} : SameRows(u)
    BY <1>0, <2>1 DEF SameRows
  <2>3. Behind(t, k)' /\ Ahead(t, k)'
    BY <1>0, <2>1, OtherStages
  <2>4. Course(t, "fail", k, {})' /\ Agreed(t)'
    BY <2>1, <2>2, <2>3 DEF Course, Agreed
  <2> QED
    BY <1>0, <2>1, <2>2, <2>4, GotoGoes, PCs
<1> QED
  BY <1>1, <1>2, <1>3, <1>4, <1>5 DEF StageStep

LEMMA EndGoes ==
    ASSUME TypeOK, ~Fault, NEW s \in Slots, ~At(s, "ack"), EndStep(s),
           NEW t \in Tasks, t = run[s].task, NEW k \in Stages, k = run[s].k,
           Course(t, run[s].pc, k, run[s].skip)
    PROVE  Goes(s, t) /\ \A u \in Tasks \ {t} : SameRows(u)
<1>0. /\ run[s].skip = {} /\ Behind(t, k) /\ task \in [Tasks -> TaskStatus]
  BY DEF Course, TypeOK, RowTypes
<1>1. PICK v : /\ task' = [task EXCEPT ![t] = v] /\ Goto(s, "ack")
               /\ UNCHANGED <<stage, artifact>>
               /\ \/ v = "failed" /\ stage[t][k] = "failed"
                  \/ v = "completed" /\ k = OD /\ stage[t][k] = "success"
  BY DEF EndStep, FinishTaskWithError, FinishTaskCompleted, AckJob, SetTask, At, Course, rows
<1>2. task'[t] = v /\ \A u \in Tasks \ {t} : SameRows(u)
  BY <1>0, <1>1 DEF SameRows
<1>3. Agreed(t)'
  <2>1. CASE v = "failed"
    BY <1>1, <1>2, <2>1 DEF Agreed
  <2>2. CASE v = "completed"
    <3>1. \A j \in Stages : j < OD \/ j = OD
      BY StageNumbers DEF Stages, OD
    <3>2. \A j \in Prep : j \in Stages /\ j < OD
      BY StageNumbers DEF Prep, Stages, OD
    <3> QED
      BY <1>0, <1>1, <1>2, <2>2, <3>1, <3>2 DEF Agreed, Behind
  <2> QED
    BY <1>1, <2>1, <2>2
<1> QED
  BY <1>0, <1>1, <1>2, <1>3, GotoGoes, PCs

\* A goroutine takes a step with its task and its message.
LEMMA GoInStep ==
    ASSUME TypeOK, Unstarted, HeldOnce("rs"), HeldOnce("od"), InStep,
           NEW s \in Slots, ~At(s, "free"), ~At(s, "ack"),
           UNCHANGED <<handler, proc, todo, release>>,
           NEW t, t = run[s].task, Goes(s, t), \A u \in Tasks \ {t} : SameRows(u),
           UNCHANGED queue
    PROVE  InStep'
<1>1. PICK p, n, m : /\ p # "free"
                     /\ p = "ack" \/ Course(t, p, n, m)'
                     /\ Agreed(t)'
                     /\ \A x \in Slots \ {s} : run'[x] = run[x]
                     /\ run'[s].pc = p /\ run'[s].k = n /\ run'[s].skip = m
                     /\ run'[s].task = t /\ run'[s].msg = run[s].msg
  BY DEF Goes, RunTo
<1>2. t \in Tasks /\ handler[t] = "ended"
  BY BusyRun, JobsStarted
<1>3. \A u \in Tasks \ {t} : /\ \A q : Ready(q, u)' <=> Ready(q, u)
                             /\ \A pc, k, skip : Course(u, pc, k, skip)' <=> Course(u, pc, k, skip)
                             /\ Agreed(u)' <=> Agreed(u)
  BY SameCourse
<1>4. \A u \in Tasks : Created(u)' <=> Created(u)
  BY <1>2, SameCreated DEF SameRows
<1>5. \A q \in Queues : \A i : /\ WorkedOn(q, i)' <=> WorkedOn(q, i)
                               /\ Live(q, i)' => Live(q, i)
  <2>1. \A x \in Slots : (~At(x, "free")' <=> ~At(x, "free")) /\ run'[x].msg = run[x].msg
    BY <1>1 DEF At
  <2>2. \A x \in Slots : At(x, "ack") => At(x, "ack")'
    BY <1>1 DEF At
  <2> QED
    BY <2>1, <2>2 DEF WorkedOn, Live
<1>6. ASSUME NEW u \in Tasks
      PROVE  OneCarrier(u)'
  <2>1. \A q \in Queues : \A i \in DOMAIN queue'[q] : InStream(u, q, i)' => InStream(u, q, i)
    BY <1>5 DEF InStream
  <2>2. \A c \in Receivers : \A i \in release'[c] : InHand(u, c, i)' => InHand(u, c, i)
    BY DEF InHand
  <2> QED
    BY <2>1, <2>2, FewerCarriers DEF InStep, TasksInStep
<1>7. Serving' /\ TasksInStep'
  BY <1>1, <1>3, <1>4, <1>6 DEF InStep, Serving, TasksInStep
<1>8. JobsInStep'
  <2> SUFFICES ASSUME NEW q \in Queues, NEW i \in DOMAIN queue[q],
                      queue[q][i].st # "acked", ~WorkedOn(q, i)
               PROVE  Ready(q, queue[q][i].task)'
    BY <1>5 DEF JobsInStep
  <2>1. Live(q, i) /\ ~(q = QueueOf(s[1]) /\ i = run[s].msg)
    BY DEF Live, WorkedOn, At
  <2>2. PICK u \in Tasks : u = queue[q][i].task
    BY JobTasks
  <2>3. u # t
    BY <2>1, <2>2, Alone DEF InStream
  <2>4. Ready(q, u)
    BY <2>2 DEF InStep, JobsInStep
  <2> QED
    BY <1>3, <2>2, <2>3, <2>4
<1>9. HandsInStep'
  <2> SUFFICES ASSUME NEW c \in Receivers, NEW i \in release[c]
               PROVE  Ready("rs", queue["rs"][i].task)'
    BY DEF HandsInStep
  <2>1. PICK u \in Tasks : u = queue["rs"][i].task
    BY JobTasks, RSQueue DEF TypeOK, StreamTypes
  <2>2. u # t /\ Ready("rs", u)
    BY <2>1, Alone DEF InStep, HandsInStep
  <2> QED
    BY <1>3, <2>1, <2>2
<1>10. RunsInStep'
  <2> SUFFICES ASSUME NEW x \in Slots, ~At(x, "free")', ~At(x, "ack")'
               PROVE  Course(run[x].task, run[x].pc, run[x].k, run[x].skip)'
    BY DEF RunsInStep
  <2>1. CASE x = s
    BY <1>1, <2>1 DEF At
  <2>2. CASE x # s
    <3>1. run'[x] = run[x] /\ ~At(x, "free") /\ ~At(x, "ack")
      BY <1>1, <2>2 DEF At
    <3>2. PICK u, pc, k, skip : /\ u = run[x].task /\ pc = run[x].pc
                                /\ k = run[x].k /\ skip = run[x].skip
      OBVIOUS
    <3>3. u \in Tasks \ {t} /\ Course(u, pc, k, skip)
      BY <2>2, <3>1, <3>2, Alone, BusyRun DEF InStep, RunsInStep
    <3> QED
      BY <1>3, <3>1, <3>2, <3>3
  <2> QED
    BY <2>1, <2>2
<1> QED
  BY <1>7, <1>8, <1>9, <1>10 DEF InStep

\* A goroutine ends and its message is acknowledged.
LEMMA AckInStep ==
    ASSUME TypeOK, HeldOnce("rs"), HeldOnce("od"), InStep, ~Fault,
           NEW s \in Slots, AckJob(s),
           UNCHANGED <<handler, proc, todo, release>>
    PROVE  InStep'
<1>1. PICK q \in Queues : q = QueueOf(s[1])
  BY QueueOfQueues
<1>2. PICK n : n = run[s].msg
  OBVIOUS
<1>3. HeldOnce(q) /\ UNCHANGED <<task, stage, artifact>>
  BY Zenon DEF Queues, AckJob, rows
<1>4. /\ At(s, "ack") /\ run'[s] = Free
      /\ \A x \in Slots \ {s} : run'[x] = run[x]
      /\ n \in DOMAIN queue[q]
      /\ Marked(q, {n}, AckState(q, n))
  BY <1>1, <1>2, <1>3, AckShape DEF HeldOnce
<1>5. queue[q][n].st = "pending"
  BY <1>1, <1>2, <1>3, <1>4 DEF HeldOnce, Taken, Held, At
<1>6. /\ \A p \in Queues : DOMAIN queue'[p] = DOMAIN queue[p]
      /\ \A p \in Queues : \A j \in DOMAIN queue[p] :
            /\ queue'[p][j].task = queue[p][j].task
            /\ queue'[p][j].st = IF p = q /\ j = n THEN "acked" ELSE queue[p][j].st
  BY <1>4, <1>5 DEF Marked, AckState
<1>7. \A t : SameRows(t)
  BY <1>3 DEF SameRows
<1>8. \A t : /\ \A p : Ready(p, t)' <=> Ready(p, t)
             /\ \A p, k, m : Course(t, p, k, m)' <=> Course(t, p, k, m)
             /\ Agreed(t)' <=> Agreed(t)
             /\ Created(t)' <=> Created(t)
  BY <1>3, <1>7, SameCourse, SameCreated
<1>9. ASSUME NEW p \in Queues, NEW j \in DOMAIN queue[p], queue'[p][j].st # "acked"
      PROVE  /\ queue[p][j].st # "acked"
             /\ WorkedOn(p, j) => WorkedOn(p, j)'
             /\ Live(p, j)' => Live(p, j)
  <2>1. queue[p][j].st # "acked" /\ ~(p = q /\ j = n)
    BY <1>6, <1>9
  <2>2. \A x \in Slots : QueueOf(x[1]) = p /\ ~At(x, "free") /\ run[x].msg = j
           => /\ ~At(x, "free")' /\ run'[x].msg = j
              /\ At(x, "ack") => At(x, "ack")'
    BY <1>1, <1>2, <1>4, <2>1 DEF At
  <2>3. WorkedOn(p, j) => WorkedOn(p, j)'
    BY <2>2 DEF WorkedOn
  <2>4. Live(p, j)' => Live(p, j)
    BY <2>1, <2>2 DEF Live, At
  <2> QED
    BY <2>1, <2>3, <2>4
<1>10. ASSUME NEW t \in Tasks
       PROVE  OneCarrier(t)'
  <2>1. \A p \in Queues : \A j \in DOMAIN queue'[p] : InStream(t, p, j)' => InStream(t, p, j)
    BY <1>6, <1>9 DEF InStream, Live
  <2>2. \A c \in Receivers : \A i \in release'[c] : InHand(t, c, i)' => InHand(t, c, i)
    BY <1>6, RSQueue DEF InHand, TypeOK, StreamTypes
  <2> QED
    BY <2>1, <2>2, FewerCarriers DEF InStep, TasksInStep
<1>11. Serving' /\ TasksInStep'
  BY <1>8, <1>10 DEF InStep, Serving, TasksInStep
<1>12. JobsInStep'
  <2> SUFFICES ASSUME NEW p \in Queues, NEW i \in DOMAIN queue[p],
                      queue'[p][i].st # "acked", ~WorkedOn(p, i)'
               PROVE  Ready(p, queue[p][i].task)'
    BY <1>6 DEF JobsInStep
  <2>1. PICK u : u = queue[p][i].task
    OBVIOUS
  <2>2. Ready(p, u)
    BY <1>9, <2>1 DEF InStep, JobsInStep
  <2> QED
    BY <1>6, <1>8, <2>1, <2>2
<1>13. HandsInStep'
  <2>1. \A c \in Receivers : \A i \in release[c] : queue'["rs"][i].task = queue["rs"][i].task
    BY <1>6, RSQueue DEF TypeOK, StreamTypes
  <2> QED
    BY <1>8, <2>1 DEF InStep, HandsInStep
<1>14. RunsInStep'
  BY <1>4, <1>8, FreeType DEF InStep, RunsInStep, At
<1> QED
  BY <1>11, <1>12, <1>13, <1>14 DEF InStep

\* The steps of CreateTask.
LEMMA CreationInStep ==
    ASSUME TypeOK, Unstarted, InStep, ~Fault, NEW t \in Tasks,
           HandlerStep(t) \/ \E d \in DetectRequests : CreateTask(t, d)
    PROVE  InStep'
<1>0. /\ handler \in [Tasks -> {"none", "stages", "undo", "enqueue", "ended"}]
      /\ task \in [Tasks -> TaskStatus] /\ stage \in [Tasks -> [Stages -> StageStatus]]
      /\ Created(t)
  BY DEF TypeOK, RowTypes, ProcTypes, InStep, TasksInStep
<1>1. CASE \E d \in DetectRequests : CreateTask(t, d)
  <2>1. /\ UNCHANGED <<stage, artifact, queue, release, run, proc, todo>>
        /\ task' = [task EXCEPT ![t] = "pending"]
        /\ handler[t] = "none" /\ handler' = [handler EXCEPT ![t] = "stages"]
    BY <1>1 DEF CreateTask, SetTask
  <2>2. task'[t] = "pending" /\ handler'[t] = "stages"
    BY <1>0, <2>1
  <2>3. Created(t)' /\ Agreed(t)'
    BY <1>0, <2>1, <2>2 DEF Created, Agreed
  <2>4. \A u \in Tasks \ {t} : SameRows(u) /\ handler'[u] = handler[u]
    BY <1>0, <2>1 DEF SameRows
  <2> QED
    BY <2>1, <2>3, <2>4, RowsInStep
<1>2. CASE CreateStage(t)
  <2>1. PICK k \in Stages :
          /\ \A j \in 1 .. (k - 1) : stage[t][j] # "absent"
          /\ stage' = [stage EXCEPT ![t][k] = "pending"]
          /\ handler' = [handler EXCEPT ![t] = IF k = OD THEN "enqueue" ELSE handler[t]]
    BY <1>2 DEF CreateStage
  <2>2. UNCHANGED <<task, artifact, queue, release, run, proc, todo>> /\ handler[t] = "stages"
    BY <1>2 DEF CreateStage, rows
  <2>3. /\ stage'[t][k] = "pending"
        /\ \A j \in Stages \ {k} : stage'[t][j] = stage[t][j]
        /\ \A u \in Tasks \ {t} : stage'[u] = stage[u] /\ handler'[u] = handler[u]
        /\ handler'[t] = IF k = OD THEN "enqueue" ELSE "stages"
    BY <1>0, <2>1, <2>2
  <2>4. \A j \in Stages : stage[t][j] \in {"absent", "pending"}
    BY <1>0, <2>2 DEF Created
  <2>5. k = OD => \A j \in Stages \ {k} : stage[t][j] = "pending"
    <3>1. \A j \in Stages \ {OD} : j \in 1 .. (OD - 1)
      BY StageNumbers DEF Stages, OD
    <3> QED
      BY <2>1, <2>4, <3>1
  <2>6. Created(t)'
    BY <2>3, <2>4, <2>5 DEF Created
  <2>7. Agreed(t)'
    BY <2>2 DEF Unstarted, Untouched, Agreed
  <2> QED
    BY <2>2, <2>3, <2>6, <2>7, RowsInStep DEF SameRows
<1>3. CASE DeleteTask(t)
  BY <1>0, <1>3 DEF DeleteTask, Created
<1>4. CASE EnqueueTask(t)
  <2>1. /\ UNCHANGED <<task, stage, artifact, proc, todo, release, run>>
        /\ handler[t] = "enqueue" /\ handler' = [handler EXCEPT ![t] = "ended"]
    BY <1>4, Zenon DEF EnqueueTask, rows
  <2>2. Appended("rs", t, wants[t])
    BY <1>4, EnqueueShape
  <2>3. \A u \in Tasks : Created(u)'
    BY <1>0, <2>1 DEF Created, InStep, TasksInStep
  <2>4. task[t] = "pending" /\ \A q \in Queues : \A i \in DOMAIN queue[q] : queue[q][i].task # t
    BY <2>1 DEF Unstarted, Untouched
  <2>5. Ready("rs", t)
    <3>1. \A k \in Stages : stage[t][k] = "pending"
      BY <1>0, <2>1 DEF Created
    <3>2. Behind(t, 1) /\ Ahead(t, 1)
      BY <3>1 DEF Behind, Ahead, Stages
    <3> QED
      BY <2>4, <3>1, <3>2, StageNumbers DEF Ready, Course
  <2>6. \A c \in Receivers : \A i \in release'[c] : queue["rs"][i].task # t
    BY <2>1, <2>4, RSQueue DEF TypeOK, StreamTypes
  <2>7. \A p \in Queues : \A i \in DOMAIN queue[p] : ~InStream(t, p, i)
    BY <2>4 DEF InStream
  <2> QED
    BY <2>1, <2>2, <2>3, <2>5, <2>6, <2>7, RSQueue, AppendInStep
<1> QED
  BY <1>1, <1>2, <1>3, <1>4 DEF HandlerStep

\* A job handed back is in the stream again.
LEMMA ReleaseAddInStep ==
    ASSUME TypeOK, InStep, ~Fault, NEW c \in Receivers, ReleaseAdd(c),
           \A j, i \in release[c] : i = j
    PROVE  InStep'
<1>1. UNCHANGED <<task, stage, artifact, handler, proc, todo, run>>
  BY Zenon DEF ReleaseAdd, rows
<1>2. PICK i \in release[c] :
        /\ i \in DOMAIN queue["rs"]
        /\ release' = [release EXCEPT ![c] = {}]
        /\ Appended("rs", queue["rs"][i].task, queue["rs"][i].detect)
  BY ReleaseAddShape
<1>3. PICK t \in Tasks : t = queue["rs"][i].task
  BY <1>2, JobTasks, RSQueue
<1>4. PICK d : d = queue["rs"][i].detect
  OBVIOUS
<1>5. Ready("rs", t) /\ InHand(t, c, i) /\ OneCarrier(t)
  BY <1>3 DEF InStep, HandsInStep, InHand, TasksInStep
<1>6. \A u \in Tasks : Created(u)'
  BY <1>1 DEF Created, InStep, TasksInStep
<1>7. \A e \in Receivers : release'[e] = IF e = c THEN {} ELSE release[e]
  BY <1>2 DEF TypeOK, StreamTypes
<1>8. \A p \in Queues : \A j \in DOMAIN queue[p] : ~InStream(t, p, j)
  BY <1>5 DEF OneCarrier
<1>9. \A e \in Receivers : \A j \in release'[e] : queue["rs"][j].task # t
  BY <1>5, <1>7 DEF OneCarrier, InHand
<1> QED
  BY <1>1, <1>2, <1>3, <1>4, <1>5, <1>6, <1>7, <1>8, <1>9, RSQueue, AppendInStep

\* An rs-worker puts the detection job of its task on od.jobs and is done with it.
LEMMA EnqueueODInStep ==
    ASSUME TypeOK, HeldOnce("rs"), HeldOnce("od"), InStep, ~Fault,
           NEW s \in Slots, ~At(s, "free"), EnqueueOD(s), Appended("od", run[s].task, TRUE),
           UNCHANGED <<handler, proc, todo, release>>
    PROVE  InStep'
<1>1. /\ UNCHANGED <<task, stage, artifact>> /\ At(s, "odAdd") /\ Goto(s, "ack")
  BY Zenon DEF EnqueueOD, rows
<1>2. PICK t \in Tasks : t = run[s].task
  BY BusyRun
<1>3. PICK k : k = run[s].k
  OBVIOUS
<1>4. /\ run'[s].pc = "ack" /\ run'[s].msg = run[s].msg
      /\ \A x \in Slots \ {s} : run'[x] = run[x]
  BY <1>1, GotoRunTo, PCs DEF RunTo, TypeOK, RunTypes
<1>5. Course(t, "odAdd", k, {})
  BY <1>1, <1>2, <1>3 DEF InStep, RunsInStep, At, Course
<1>6. Ready("od", t)
  BY <1>5 DEF Ready, Course
<1>7. \A u \in Tasks : Created(u)'
  BY <1>1 DEF Created, InStep, TasksInStep
<1>8. /\ \A q \in Queues : \A i \in DOMAIN queue[q] :
            InStream(t, q, i) => q = QueueOf(s[1]) /\ i = run[s].msg
      /\ \A c \in Receivers : \A i \in release[c] : queue["rs"][i].task # t
  BY <1>1, <1>2, Alone DEF At
<1>9. \A q \in Queues : \A i \in DOMAIN queue[q] : InStream(t, q, i) =>
         \E x \in Slots : QueueOf(x[1]) = q /\ run'[x].pc = "ack" /\ run'[x].msg = i
  BY <1>4, <1>8
<1>10. Appended("od", t, TRUE)
  BY <1>2
<1>11. \A x \in Slots : \/ run'[x] = run[x]
                        \/ ~At(x, "free") /\ run'[x].pc = "ack" /\ run'[x].msg = run[x].msg
  BY <1>4
<1>12. /\ \A c \in Receivers : release'[c] \subseteq release[c]
       /\ \A c \in Receivers : \A i \in release'[c] : queue["rs"][i].task # t
       /\ "od" \in Queues
  BY <1>8, RSQueue
<1> QED
  BY <1>1, <1>6, <1>7, <1>9, <1>10, <1>11, <1>12, AppendInStep

LEMMA UndisturbedStays ==
    ASSUME TypeOK, [Next]_vars, Undisturbed'
    PROVE  /\ Undisturbed
           /\ \A h \in Hazards \ {"output", "foreign"} : ~Spend(h)
           /\ Punctual("rs") /\ Punctual("od") /\ ~Fault
<1>1. \A h \in Hazards \ {"output", "foreign"} : spent[h] = 0 /\ ~Spend(h)
  BY StillZero, SpendStrikes DEF Undisturbed
<1> QED
  BY <1>1 DEF Undisturbed, Punctual, Hazards, Fault

LEMMA NextInStep ==
    ASSUME TypeOK, Unstarted, OneHolder, NotForgotten, Undisturbed => InStep, [Next]_vars
    PROVE  (Undisturbed => InStep)'
<1> SUFFICES ASSUME Undisturbed'
             PROVE  InStep'
  OBVIOUS
<1>0. /\ InStep /\ HeldOnce("rs") /\ HeldOnce("od") /\ ~Fault
      /\ \A h \in Hazards \ {"output", "foreign"} : ~Spend(h)
  BY UndisturbedStays, RSQueue DEF OneHolder
<1>1. \A c \in Receivers : release[c] \subseteq DOMAIN queue["rs"]
  BY DEF TypeOK, StreamTypes
<1>2. CASE UNCHANGED vars
  <2>1. UNCHANGED <<task, stage, artifact, handler, proc, todo, queue, release, run>>
    BY <1>2 DEF vars
  <2>2. KeepsJobs
    BY <2>1 DEF KeepsJobs
  <2> QED
    BY <1>0, <1>1, <2>1, <2>2, DeliveryInStep
<1>3. ASSUME NEW t \in Tasks, HandlerStep(t) \/ \E d \in DetectRequests : CreateTask(t, d)
      PROVE  InStep'
  BY <1>0, <1>3, CreationInStep
<1>4. ASSUME NEW p \in Procs, ProcStep(p) \/ Crash(p)
      PROVE  InStep'
  <2>1. proc[p] = "up"
    BY <1>0 DEF InStep, Serving
  <2>2. CrashKind(p) \in Hazards \ {"output", "foreign"}
    BY CrashKinds DEF Procs, Workers
  <2> QED
    BY <1>0, <1>4, <2>1, <2>2 DEF ProcStep, Restart, BootEnqueue, BootDone, Crash
<1>5. ASSUME \/ \E i \in DOMAIN queue["rs"] : IdleOrphan(i) \/ IdleHeld(i)
             \/ \E q \in Queues : LoseGroup(q)
             \/ \E w \in Workers : ReceiveStep(w)
      PROVE  InStep'
  <2>1. UNCHANGED <<task, stage, artifact, handler, proc, todo, release, run>>
    BY <1>5, RedisSameJobs DEF api, rows
  <2>2. KeepsJobs
    <3>1. ASSUME NEW i \in DOMAIN queue["rs"], IdleOrphan(i) \/ IdleHeld(i)
          PROVE  KeepsJobs
      BY <3>1, IdleShape DEF Aged, Queues, KeepsJobs
    <3>2. ASSUME NEW q \in Queues, LoseGroup(q)
          PROVE  KeepsJobs
      BY <3>2 DEF LoseGroup, KeepsJobs
    <3>3. ASSUME NEW w \in Workers, ReadJob(w)
          PROVE  KeepsJobs
      <4>1. PICK q, i : /\ q \in Queues /\ i \in DOMAIN queue[q]
                        /\ queue[q][i].st = "new" /\ Marked(q, {i}, "pending")
        BY <3>3, ReadShape, QueueOfQueues
      <4>2. \A j \in {i} \cap DOMAIN queue[q] : queue[q][j].st # "acked"
        BY <4>1
      <4> QED
        BY <4>1, <4>2, MarkedKeepsJobs
    <3>4. ASSUME NEW w \in Workers, ReclaimStaleRSJobs(w)
          PROVE  KeepsJobs
      <4>1. PICK S : S = Claimable(queue["rs"]) /\ Marked("rs", S, "pending")
        BY <3>4, ReclaimShape
      <4>2. \A i \in S \cap DOMAIN queue["rs"] : queue["rs"][i].st # "acked"
        BY <4>1 DEF Claimable
      <4> QED
        BY <4>1, <4>2, RSQueue, MarkedKeepsJobs
    <3>5. ASSUME NEW w \in Workers, RebuildGroup(w)
          PROVE  KeepsJobs
      BY <1>0, <3>5 DEF RebuildGroup, HeldOnce
    <3> QED
      BY <1>5, <3>1, <3>2, <3>3, <3>4, <3>5 DEF ReceiveStep
  <2> QED
    BY <1>0, <1>1, <2>1, <2>2, DeliveryInStep
<1>6. ASSUME NEW c \in Receivers, HandleStep(c)
      PROVE  InStep'
  BY <1>0, <1>6, ProcessInStep, ReleaseAckInStep, ReleaseAddInStep
     DEF HandleStep, NotForgotten, OneHandedBack
<1>7. ASSUME NEW s \in Slots, RunStep(s)
      PROVE  InStep'
  <2>1. ~At(s, "free") /\ UNCHANGED <<handler, proc, todo, release>>
    BY <1>7, RunStepShape
  <2>2. CASE AckJob(s)
    BY <1>0, <2>1, <2>2, AckInStep
  <2>3. CASE EnqueueOD(s) /\ Appended("od", run[s].task, TRUE)
    BY <1>0, <2>1, <2>3, EnqueueODInStep
  <2>4. CASE ~AckJob(s) /\ UNCHANGED queue
    <3>1. ~At(s, "ack")
      BY <1>7, <2>4
         DEF RunStep, PipelineStep, StageStep, EndStep, ClaimTask, CheckRunning,
             SuccessStages, SkipStage, DropSkip, SkipDetection, ShouldSkipODJob,
             ODRowSuccess, ODRowOther, EnqueueOD, BeginStage, ExecSuccess, ExecFailure,
             Succeed, RecordArtifacts, FailStageRow, FailTaskRow, FinishTaskWithError,
             FinishTaskCompleted, AtStage, At
    <3>2. PICK t, k : /\ t = run[s].task /\ k = run[s].k
                      /\ t \in Tasks /\ k \in Stages
      BY <2>1, BusyRun, RunFields
    <3>3. Course(t, run[s].pc, k, run[s].skip)
      BY <1>0, <2>1, <3>1, <3>2 DEF InStep, RunsInStep
    <3>4. Goes(s, t) /\ \A u \in Tasks \ {t} : SameRows(u)
      BY <1>0, <1>7, <3>1, <3>2, <3>3, PipelineGoes, StageGoes, EndGoes DEF RunStep
    <3> QED
      BY <1>0, <2>1, <2>4, <3>1, <3>2, <3>4, GoInStep
  <2>5. At(s, "odAdd") => EnqueueOD(s)
    BY <1>7
       DEF RunStep, PipelineStep, StageStep, EndStep, ClaimTask, CheckRunning,
           SuccessStages, SkipStage, DropSkip, SkipDetection, ShouldSkipODJob,
           ODRowSuccess, ODRowOther, BeginStage, ExecSuccess, ExecFailure,
           Succeed, RecordArtifacts, FailStageRow, FailTaskRow, FinishTaskWithError,
           FinishTaskCompleted, AckJob, AtStage, At
  <2> QED
    BY <1>7, <2>2, <2>3, <2>4, <2>5, RunStepShape
<1> QED
  BY <1>2, <1>3, <1>4, <1>5, <1>6, <1>7 DEF Next

LEMMA InitInStep == Init => InStep
<1> SUFFICES ASSUME Init
             PROVE  InStep
  OBVIOUS
<1>1. /\ \A q \in Queues : queue[q] = <<>>
      /\ \A c \in Receivers : release[c] = {}
      /\ \A s \in Slots : At(s, "free")
      /\ \A p \in Procs : proc[p] = "up" /\ todo[p] = {}
  BY FreeType DEF Init, At
<1>2. \A t \in Tasks : /\ task[t] = "absent" /\ handler[t] = "none"
                       /\ \A k \in Stages : stage[t][k] = "absent"
  BY DEF Init
<1>3. \A q \in Queues : DOMAIN queue[q] = {}
  BY <1>1
<1>4. \A t \in Tasks : Created(t) /\ Agreed(t) /\ OneCarrier(t)
  BY <1>1, <1>2, <1>3 DEF Created, Agreed, OneCarrier
<1> QED
  BY <1>1, <1>3, <1>4 DEF InStep, Serving, TasksInStep, JobsInStep, HandsInStep, RunsInStep

\* In a system where no command fails, no process is killed and no message is delivered
\* twice, the rows of a finished task agree: completed means that every stage row says
\* success and the artifact rows of the stages before detection exist, failed means that
\* some stage row says so (runStage, updateStageStatus, finishTask).  Jobs of other
\* satellites may be handed back and output files may disappear.
THEOREM FinishedRowsTell == Spec => []FinishedRowsAgree
<1> DEFINE Inv == Undisturbed => InStep
<1>1. Init => TypeOK /\ Unstarted /\ OneHolder /\ NotForgotten /\ Inv
  BY InitType, InitUnstarted, InitOneHolder, InitNotForgotten, InitInStep
<1>2. (TypeOK /\ Unstarted /\ OneHolder /\ NotForgotten /\ Inv) /\ [Next]_vars
        => (TypeOK /\ Unstarted /\ OneHolder /\ NotForgotten /\ Inv)'
  BY NextType, NextUnstarted, NextOneHolder, NextNotForgotten, NextInStep
<1>3. Inv => FinishedRowsAgree
  BY DEF InStep, TasksInStep, Agreed, FinishedRowsAgree
<1> HIDE DEF Inv
<1> QED
  BY <1>1, <1>2, <1>3, PTL DEF Spec

-----------------------------------------------------------------------------
(* The pipeline implements StagedTask.                                     *)

\* The statuses from the claim on.
Begun == {"running"} \cup Terminal

\* Where a goroutine is that does no work on its task, yet or any more.
Early == {"free", "claim", "check", "ack"}

\* Whoever works on a task found it claimed, and a detection job is for a claimed task.
ClaimedFirst ==
    /\ \A i \in DOMAIN queue["od"] : task[queue["od"][i].task] \in Begun
    /\ \A s \in Slots : run[s].pc \notin Early => task[run[s].task] \in Begun

\* The work of a stage is in its row, or in the hands of a goroutine about to write it.
Recorded(t, k) ==
    \/ stage[t][k] = "success"
    \/ \E s \in Slots : At(s, "succeed") /\ run[s].task = t /\ run[s].k = k

WorkRecorded == \A t \in Tasks : \A k \in done[t] : Recorded(t, k)

\* A task that was claimed is not touched by CreateTask or by another claim.
LEMMA BegunStays ==
    ASSUME TypeOK, Unstarted, [Next]_vars, NEW t \in Tasks, task[t] \in Begun
    PROVE  task'[t] \in Begun
<1>0. task \in [Tasks -> TaskStatus]
  BY DEF TypeOK, RowTypes
<1>1. ASSUME NEW u \in Tasks, HandlerStep(u) \/ \E d \in DetectRequests : CreateTask(u, d)
      PROVE  task'[t] \in Begun
  <2>1. handler[u] # "ended"
    BY <1>1 DEF HandlerStep, CreateStage, DeleteTask, EnqueueTask, CreateTask
  <2>2. task[u] \in {"absent", "pending"}
    BY <2>1 DEF Unstarted, Untouched
  <2>3. t # u
    BY <2>2 DEF Begun, Terminal
  <2>4. UNCHANGED task \/ \E v : SetTask(u, v)
    BY <1>1 DEF HandlerStep, CreateStage, DeleteTask, EnqueueTask, CreateTask
  <2> QED
    BY <1>0, <2>3, <2>4 DEF SetTask
<1>2. ASSUME NEW s \in Slots, RunStep(s)
      PROVE  task'[t] \in Begun
  <2>1. run[s].task \in Tasks
    BY <1>2, RunStepTask, BusyRun
  <2>2. UNCHANGED task \/ \E v \in Begun : SetTask(run[s].task, v)
    BY <1>2, RunStepTask DEF Begun
  <2> QED
    BY <1>0, <2>1, <2>2 DEF SetTask
<1>3. ASSUME NEW p \in Procs, ProcStep(p) \/ Crash(p)
      PROVE  UNCHANGED task
  BY <1>3, Zenon DEF ProcStep, Restart, BootEnqueue, BootDone, Crash
<1>4. ASSUME \/ \E i \in DOMAIN queue["rs"] : IdleOrphan(i) \/ IdleHeld(i)
             \/ \E q \in Queues : LoseGroup(q)
             \/ \E w \in Workers : ReceiveStep(w)
      PROVE  UNCHANGED task
  BY <1>4, RedisSameJobs
<1>5. ASSUME NEW c \in Receivers, HandleStep(c)
      PROVE  UNCHANGED task
  BY <1>5, Zenon DEF HandleStep, ProcessJob, ReleaseAck, ReleaseAdd
<1>6. ASSUME UNCHANGED vars
      PROVE  UNCHANGED task
  BY <1>6 DEF vars
<1> QED
  BY <1>1, <1>2, <1>3, <1>4, <1>5, <1>6 DEF Next

\* A goroutine takes the step of its program counter.
LEMMA FirstSteps ==
    ASSUME NEW s \in Slots, RunStep(s)
    PROVE  /\ At(s, "claim") => ClaimTask(s)
           /\ At(s, "check") => CheckRunning(s)
           /\ At(s, "ack") => AckJob(s)
  BY DEF RunStep, PipelineStep, StageStep, EndStep, ClaimTask, CheckRunning, SuccessStages,
         SkipStage, DropSkip, SkipDetection, ShouldSkipODJob, ODRowSuccess, ODRowOther,
         EnqueueOD, BeginStage, ExecSuccess, ExecFailure, Succeed, RecordArtifacts,
         FailStageRow, FailTaskRow, FinishTaskWithError, FinishTaskCompleted, AckJob,
         AtStage, At

LEMMA ClaimedFirstKept ==
    ASSUME TypeOK, ClaimedFirst,
           \A t \in Tasks : task[t] \in Begun => task'[t] \in Begun,
           \A i \in DOMAIN queue'["od"] :
              \/ i \in DOMAIN queue["od"] /\ queue'["od"][i].task = queue["od"][i].task
              \/ task'[queue'["od"][i].task] \in Begun,
           \A s \in Slots : \/ run'[s] = run[s]
                            \/ run'[s].pc \in Early
                            \/ task'[run'[s].task] \in Begun
    PROVE  ClaimedFirst'
<1>1. ASSUME NEW i \in DOMAIN queue'["od"]
      PROVE  task'[queue'["od"][i].task] \in Begun
  <2>1. CASE i \in DOMAIN queue["od"] /\ queue'["od"][i].task = queue["od"][i].task
    BY <2>1, JobTasks, RSQueue DEF ClaimedFirst
  <2> QED
    BY <1>1, <2>1
<1>2. ASSUME NEW s \in Slots, run'[s].pc \notin Early
      PROVE  task'[run'[s].task] \in Begun
  <2>1. CASE run'[s] = run[s]
    <3>1. run[s].pc \notin Early
      BY <1>2, <2>1
    <3>2. run[s].task \in Tasks
      BY <3>1, BusyRun DEF Early, At
    <3> QED
      BY <2>1, <3>1, <3>2 DEF ClaimedFirst
  <2> QED
    BY <1>2, <2>1
<1> QED
  BY <1>1, <1>2 DEF ClaimedFirst

LEMMA NextClaimedFirst ==
    TypeOK /\ Unstarted /\ ClaimedFirst /\ [Next]_vars => ClaimedFirst'
<1> SUFFICES ASSUME TypeOK, Unstarted, ClaimedFirst, [Next]_vars
             PROVE  ClaimedFirst'
  OBVIOUS
<1>0. \A t \in Tasks : task[t] \in Begun => task'[t] \in Begun
  BY BegunStays
<1>1. ASSUME \/ UNCHANGED queue
             \/ \E q \in Queues : \E S, v : Marked(q, S, v)
             \/ \E t, d : Appended("rs", t, d),
             \A s \in Slots : run'[s] = run[s] \/ run'[s].pc \in Early
      PROVE  ClaimedFirst'
  <2>1. \A i \in DOMAIN queue'["od"] :
           i \in DOMAIN queue["od"] /\ queue'["od"][i].task = queue["od"][i].task
    BY <1>1, RSQueue DEF Marked, Appended
  <2> QED
    BY <1>0, <1>1, <2>1, ClaimedFirstKept
<1>2. ASSUME NEW t \in Tasks, HandlerStep(t) \/ \E d \in DetectRequests : CreateTask(t, d)
      PROVE  ClaimedFirst'
  <2>1. UNCHANGED run
    BY <1>2, Zenon DEF HandlerStep, CreateTask, CreateStage, DeleteTask, EnqueueTask
  <2>2. UNCHANGED queue \/ Appended("rs", t, wants[t])
    BY <1>2, EnqueueShape DEF HandlerStep, CreateTask, CreateStage, DeleteTask
  <2> QED
    BY <1>1, <2>1, <2>2
<1>3. ASSUME NEW p \in Procs, ProcStep(p) \/ Crash(p)
      PROVE  ClaimedFirst'
  <2>1. \A s \in Slots : run'[s] = run[s] \/ run'[s].pc \in Early
    BY <1>3, FreeType DEF ProcStep, Restart, BootEnqueue, BootDone, Crash, Early
  <2>2. CASE Restart(p)
    BY <1>1, <2>1, <2>2, RestartShape, QueueOfQueues
  <2>3. CASE BootEnqueue(p)
    BY <1>1, <2>1, <2>3, BootShape
  <2>4. CASE BootDone(p) \/ Crash(p)
    BY <1>1, <2>1, <2>4 DEF BootDone, Crash
  <2> QED
    BY <1>3, <2>2, <2>3, <2>4 DEF ProcStep
<1>4. ASSUME \/ \E i \in DOMAIN queue["rs"] : IdleOrphan(i) \/ IdleHeld(i)
             \/ \E q \in Queues : LoseGroup(q)
             \/ \E w \in Workers : ReceiveStep(w)
      PROVE  ClaimedFirst'
  <2>1. PICK q, b : /\ q \in Queues /\ SameJobs(Tasks, queue[q], b)
                    /\ UNCHANGED queue \/ queue' = [queue EXCEPT ![q] = b]
                    /\ UNCHANGED run
    BY <1>4, RedisSameJobs
  <2>2. \A i \in DOMAIN queue'["od"] :
           i \in DOMAIN queue["od"] /\ queue'["od"][i].task = queue["od"][i].task
    BY <2>1, RSQueue DEF SameJobs, TypeOK, StreamTypes
  <2> QED
    BY <1>0, <2>1, <2>2, ClaimedFirstKept
<1>5. ASSUME NEW c \in Receivers, HandleStep(c)
      PROVE  ClaimedFirst'
  <2>1. CASE ProcessJob(c)
    <3>1. PICK i, s : /\ s \in Slots /\ i \in DOMAIN queue[QueueOf(c[1])]
                      /\ s[1] = c[1]
                      /\ \A x \in Slots \ {s} : run'[x] = run[x]
                      /\ run'[s].pc = IF IsRS(s) THEN "claim" ELSE "stage"
                      /\ run'[s].task = queue[QueueOf(c[1])][i].task
      BY <2>1, ProcessShape
    <3>2. UNCHANGED <<queue, task>>
      BY <2>1 DEF ProcessJob
    <3>3. run'[s].pc \in Early \/ task'[run'[s].task] \in Begun
      BY <3>1, <3>2 DEF ClaimedFirst, IsRS, QueueOf, Early
    <3> QED
      BY <1>0, <3>1, <3>2, <3>3, ClaimedFirstKept
  <2>2. CASE ReleaseAck(c)
    <3>1. UNCHANGED run
      BY <2>2, Zenon DEF ReleaseAck
    <3> QED
      BY <1>1, <2>2, <3>1, ReleaseAckShape, RSQueue
  <2>3. CASE ReleaseAdd(c)
    <3>1. UNCHANGED run
      BY <2>3, Zenon DEF ReleaseAdd
    <3> QED
      BY <1>1, <2>3, <3>1, ReleaseAddShape
  <2> QED
    BY <1>5, <2>1, <2>2, <2>3 DEF HandleStep
<1>6. ASSUME NEW s \in Slots, RunStep(s)
      PROVE  ClaimedFirst'
  <2> DEFINE t == run[s].task
  <2>0. ~At(s, "free") /\ t \in Tasks /\ task \in [Tasks -> TaskStatus]
    BY <1>6, RunStepShape, BusyRun DEF TypeOK, RowTypes
  <2>1. CASE AckJob(s)
    <3>1. \A x \in Slots : run'[x] = run[x] \/ run'[x].pc \in Early
      BY <2>1, AckShape, FreeType DEF Early
    <3> QED
      BY <1>1, <2>1, <3>1, AckShape, QueueOfQueues
  <2>2. CASE /\ Onward(s) /\ ~At(s, "ack")
             /\ UNCHANGED queue \/ (At(s, "odAdd") /\ Appended("od", t, TRUE))
    <3>1. /\ \A x \in Slots \ {s} : run'[x] = run[x]
          /\ run'[s].task = t
      BY <2>2 DEF Onward, RunTo
    <3>2. run'[s].pc \in Early \/ task'[t] \in Begun
      <4>0. \A p : Goto(s, p) => run'[s].pc = p
        BY DEF Goto, TypeOK, RunTypes, Run
      <4>1. CASE At(s, "claim")
        <5>1. \/ task' = [task EXCEPT ![t] = "running"]
              \/ Goto(s, "check") \/ Goto(s, "ack")
          BY <1>6, <4>1, FirstSteps DEF ClaimTask, SetTask
        <5> QED
          BY <2>0, <4>0, <5>1 DEF Early, Begun
      <4>2. CASE At(s, "check")
        <5>1. \/ task[t] = "running" /\ UNCHANGED task
              \/ Goto(s, "ack")
          BY <1>6, <4>2, FirstSteps DEF CheckRunning
        <5> QED
          BY <4>0, <5>1 DEF Early, Begun
      <4>3. CASE run[s].pc \notin Early
        BY <1>0, <2>0, <4>3 DEF ClaimedFirst
      <4> QED
        BY <2>0, <2>2, <4>1, <4>2, <4>3 DEF At, Early
    <3>3. \A i \in DOMAIN queue'["od"] :
             \/ i \in DOMAIN queue["od"] /\ queue'["od"][i].task = queue["od"][i].task
             \/ task'[queue'["od"][i].task] \in Begun
      <4>1. At(s, "odAdd") => task'[t] \in Begun
        BY <1>0, <2>0 DEF ClaimedFirst, At, Early
      <4> QED
        BY <2>2, <4>1, RSQueue DEF Appended
    <3> HIDE DEF t
    <3> QED
      BY <1>0, <3>1, <3>2, <3>3, ClaimedFirstKept
  <2> QED
    BY <1>6, <2>1, <2>2, RunStepShape, FirstSteps
<1>7. CASE UNCHANGED vars
  BY <1>1, <1>7 DEF vars
<1> QED
  BY <1>2, <1>3, <1>4, <1>5, <1>6, <1>7 DEF Next

LEMMA InitClaimedFirst == Init => ClaimedFirst
<1> SUFFICES ASSUME Init
             PROVE  ClaimedFirst
  OBVIOUS
<1>1. \A s \in Slots : run[s].pc = "free"
  BY FreeType DEF Init
<1>2. DOMAIN queue["od"] = {}
  BY RSQueue DEF Init
<1> QED
  BY <1>1, <1>2 DEF ClaimedFirst, Early

\* What a goroutine on course does to stage rows and to the history of the work.
LEMMA RunWork ==
    ASSUME TypeOK, ~Fault, NEW s \in Slots, RunStep(s), ~At(s, "ack"),
           NEW t \in Tasks, t = run[s].task, NEW k \in Stages, k = run[s].k,
           Course(t, run[s].pc, k, run[s].skip)
    PROVE  \/ UNCHANGED <<stage, done>> /\ ~At(s, "succeed")
           \/ ExecSuccess(s)
           \/ /\ At(s, "stage") /\ task[t] = "running" /\ stage[t][k] = "pending" /\ k = OD
              /\ SetStage(t, k, "success")
              /\ done' = [done EXCEPT ![t] = @ \cup {k}]
           \/ \E v : /\ stage[t][k] \in {"pending", "running"} /\ SetStage(t, k, v)
                     /\ At(s, "succeed") => v = "success"
                     /\ UNCHANGED done
<1>1. CASE PipelineStep(s)
  <2>1. CASE SkipDetection(s)
    BY <2>1 DEF SkipDetection, AtStage, At, Course
  <2>2. CASE ~SkipDetection(s)
    BY <1>1, <2>2 DEF PipelineStep, ClaimTask, CheckRunning, SuccessStages, SkipStage,
         DropSkip, ShouldSkipODJob, ODRowSuccess, ODRowOther, EnqueueOD, AtStage, At, rows
  <2> QED
    BY <2>1, <2>2
<1>2. CASE StageStep(s)
  <2>1. CASE BeginStage(s)
    BY <2>1 DEF BeginStage, AtStage, At, Course, rows
  <2>2. CASE Succeed(s) \/ FailStageRow(s)
    BY <2>2 DEF Succeed, FailStageRow, At, Course, rows
  <2>3. CASE ExecFailure(s) \/ RecordArtifacts(s) \/ FailTaskRow(s)
    BY <2>3 DEF ExecFailure, RecordArtifacts, FailTaskRow, At, rows
  <2> QED
    BY <1>2, <2>1, <2>2, <2>3 DEF StageStep
<1>3. CASE EndStep(s)
  BY <1>3 DEF EndStep, FinishTaskWithError, FinishTaskCompleted, AckJob, At, rows
<1> QED
  BY <1>1, <1>2, <1>3 DEF RunStep

\* The step leaves what is recorded, and the goroutines about to record.
LEMMA QuietRecorded ==
    ASSUME WorkRecorded, UNCHANGED done,
           \A t \in Tasks : \A k \in done[t] :
              stage[t][k] = "success" => stage'[t][k] = "success",
           \A s \in Slots : At(s, "succeed") => run'[s] = run[s]
    PROVE  WorkRecorded'
  BY DEF WorkRecorded, Recorded, At

LEMMA RunRecorded ==
    ASSUME TypeOK, ~Fault, InStep, WorkRecorded, NEW s \in Slots, RunStep(s)
    PROVE  WorkRecorded'
<1>0. /\ ~At(s, "free")
      /\ stage \in [Tasks -> [Stages -> StageStatus]] /\ done \in [Tasks -> SUBSET Stages]
      /\ run \in [Slots -> Run]
  BY RunStepShape DEF TypeOK, RowTypes, RunTypes
<1>1. CASE At(s, "ack")
  <2>1. UNCHANGED <<stage, done>> /\ \A x \in Slots \ {s} : run'[x] = run[x]
    BY <1>1, FirstSteps, AckShape DEF AckJob, rows
  <2> QED
    BY <1>1, <2>1, QuietRecorded DEF At
<1>2. CASE ~At(s, "ack")
  <2>1. PICK t, k : /\ t = run[s].task /\ k = run[s].k
                    /\ t \in Tasks /\ k \in Stages
    BY <1>0, BusyRun, RunFields
  <2>2. Course(t, run[s].pc, k, run[s].skip)
    BY <1>0, <1>2, <2>1 DEF InStep, RunsInStep
  <2>3. \A x \in Slots \ {s} : run'[x] = run[x]
    BY RunStepShape, AckShape DEF Onward, RunTo
  <2>4. CASE UNCHANGED <<stage, done>> /\ ~At(s, "succeed")
    BY <2>3, <2>4, QuietRecorded
  <2>5. CASE ExecSuccess(s)
    <3>1. /\ UNCHANGED stage /\ done' = [done EXCEPT ![t] = done[t] \cup {k}]
          /\ At(s, "exec") /\ Goto(s, "succeed")
      BY <2>1, <2>5 DEF ExecSuccess
    <3>2. At(s, "succeed")' /\ run'[s].task = t /\ run'[s].k = k
      BY <1>0, <2>1, <3>1, PCs, GotoRunTo DEF RunTo, At
    <3>3. \A x \in Slots : At(x, "succeed") => run'[x] = run[x]
      BY <2>3, <3>1 DEF At
    <3>4. \A u \in Tasks, j \in Stages : Recorded(u, j) => Recorded(u, j)'
      BY <3>1, <3>3 DEF Recorded, At
    <3>5. Recorded(t, k)'
      BY <3>2 DEF Recorded
    <3> QED
      BY <1>0, <2>1, <3>1, <3>4, <3>5 DEF WorkRecorded
  <2>6. ASSUME NEW v, SetStage(t, k, v), stage[t][k] \in {"pending", "running"},
               v = "success" \/ (UNCHANGED done /\ ~At(s, "succeed")),
               \A u \in Tasks : \A j \in done'[u] : j \in done[u] \/ (u = t /\ j = k)
        PROVE  WorkRecorded'
    <3>1. /\ stage'[t][k] = v
          /\ \A j \in Stages \ {k} : stage'[t][j] = stage[t][j]
          /\ \A u \in Tasks \ {t} : stage'[u] = stage[u]
      BY <2>1, <2>6, SetStageRow
    <3>2. ASSUME NEW u \in Tasks, NEW j \in done[u], ~(u = t /\ j = k)
          PROVE  Recorded(u, j)'
      <4>1. j \in Stages /\ Recorded(u, j)
        BY <1>0 DEF WorkRecorded
      <4>2. stage'[u][j] = stage[u][j]
        BY <3>1, <3>2, <4>1
      <4>3. \A x \in Slots : run[x].task = u /\ run[x].k = j => run'[x] = run[x]
        BY <2>1, <2>3, <3>2
      <4> QED
        BY <4>1, <4>2, <4>3 DEF Recorded, At
    <3>3. ASSUME k \in done'[t]
          PROVE  Recorded(t, k)'
      <4>1. CASE v = "success"
        BY <3>1, <4>1 DEF Recorded
      <4>2. CASE UNCHANGED done /\ ~At(s, "succeed")
        <5>1. Recorded(t, k) /\ stage[t][k] # "success"
          BY <2>1, <2>6, <3>3, <4>2 DEF WorkRecorded
        <5> QED
          BY <2>3, <4>2, <5>1 DEF Recorded, At
      <4> QED
        BY <2>6, <4>1, <4>2
    <3> QED
      BY <2>6, <3>2, <3>3 DEF WorkRecorded
  <2>7. CASE done' = [done EXCEPT ![t] = @ \cup {k}] /\ SetStage(t, k, "success")
                /\ stage[t][k] = "pending"
    <3>1. \A u \in Tasks : \A j \in done'[u] : j \in done[u] \/ (u = t /\ j = k)
      BY <1>0, <2>1, <2>7
    <3> QED
      BY <2>6, <2>7, <3>1
  <2>8. CASE \E v : /\ stage[t][k] \in {"pending", "running"} /\ SetStage(t, k, v)
                    /\ At(s, "succeed") => v = "success"
                    /\ UNCHANGED done
    BY <2>6, <2>8
  <2> QED
    BY <1>2, <2>1, <2>2, <2>4, <2>5, <2>7, <2>8, RunWork
<1> QED
  BY <1>1, <1>2

LEMMA NextRecorded ==
    ASSUME TypeOK, OneHolder, Undisturbed => InStep /\ WorkRecorded, [Next]_vars
    PROVE  (Undisturbed => WorkRecorded)'
<1> SUFFICES ASSUME Undisturbed'
             PROVE  WorkRecorded'
  OBVIOUS
<1>0. /\ InStep /\ WorkRecorded /\ ~Fault
      /\ \A h \in Hazards \ {"output", "foreign"} : ~Spend(h)
  BY UndisturbedStays
<1>1. CASE UNCHANGED vars
  BY <1>0, <1>1, QuietRecorded DEF vars, rows
<1>2. ASSUME NEW t \in Tasks, HandlerStep(t) \/ \E d \in DetectRequests : CreateTask(t, d)
      PROVE  WorkRecorded'
  <2>1. UNCHANGED <<done, run>>
    BY <1>2, Zenon DEF HandlerStep, CreateTask, CreateStage, DeleteTask, EnqueueTask, rows
  <2>2. ~DeleteTask(t)
    BY <1>0 DEF DeleteTask, InStep, TasksInStep, Created
  <2>3. UNCHANGED stage \/ \E k \in Stages : stage' = [stage EXCEPT ![t][k] = "pending"]
                                             /\ stage[t][k] = "absent"
    BY <1>2, <2>2, Zenon DEF HandlerStep, CreateTask, CreateStage, EnqueueTask
  <2>4. \A u \in Tasks : \A k \in done[u] : stage[u][k] = "success" => stage'[u][k] = "success"
    BY <2>3 DEF TypeOK, RowTypes
  <2> QED
    BY <1>0, <2>1, <2>4, QuietRecorded
<1>3. ASSUME NEW p \in Procs, ProcStep(p) \/ Crash(p)
      PROVE  WorkRecorded'
  <2>1. proc[p] = "up"
    BY <1>0 DEF InStep, Serving
  <2>2. CrashKind(p) \in Hazards \ {"output", "foreign"}
    BY CrashKinds DEF Procs, Workers
  <2> QED
    BY <1>0, <1>3, <2>1, <2>2 DEF ProcStep, Restart, BootEnqueue, BootDone, Crash
<1>4. ASSUME \/ \E i \in DOMAIN queue["rs"] : IdleOrphan(i) \/ IdleHeld(i)
             \/ \E q \in Queues : LoseGroup(q)
             \/ \E w \in Workers : ReceiveStep(w)
             \/ \E c \in Receivers : ReleaseAck(c) \/ ReleaseAdd(c)
      PROVE  WorkRecorded'
  <2>1. UNCHANGED <<stage, done, run>>
    BY <1>4, RedisSameJobs DEF ReleaseAck, ReleaseAdd, rows
  <2> QED
    BY <1>0, <2>1, QuietRecorded
<1>5. ASSUME NEW c \in Receivers, ProcessJob(c)
      PROVE  WorkRecorded'
  <2>1. UNCHANGED <<stage, done>>
    BY <1>5 DEF ProcessJob, rows
  <2>2. \A x \in Slots : At(x, "succeed") => run'[x] = run[x]
    BY <1>5, ProcessShape DEF At
  <2> QED
    BY <1>0, <2>1, <2>2, QuietRecorded
<1>6. ASSUME NEW s \in Slots, RunStep(s)
      PROVE  WorkRecorded'
  BY <1>0, <1>6, RunRecorded
<1> QED
  BY <1>1, <1>2, <1>3, <1>4, <1>5, <1>6 DEF Next, HandleStep

\* What the status shown to clients is after a step that concerns at most task t.
LEMMA ShownSet ==
    ASSUME NEW t \in Tasks, NEW v, StatusOf(t)' = v,
           \A u \in Tasks \ {t} : task'[u] = task[u] /\ handler'[u] = handler[u]
    PROVE  Shown' = [Shown EXCEPT ![t] = v]
<1>1. \A u \in Tasks \ {t} : StatusOf(u)' = StatusOf(u)
  BY DEF StatusOf
<1> QED
  BY <1>1 DEF Shown

LEMMA ShownSame ==
    ASSUME \A t \in Tasks : StatusOf(t)' = StatusOf(t)
    PROVE  Shown' = Shown
  BY DEF Shown

\* What a step is for the tasks in terms of StagedTask.
TaskMoves ==
    \/ \E t \in Tasks :
          \/ Abstract!Accept(t) \/ Abstract!Withdraw(t) \/ Abstract!Start(t)
          \/ \E k \in 1 .. OD : Abstract!Carry(t, k)
          \/ Abstract!Complete(t) \/ Abstract!Fail(t)
    \/ UNCHANGED <<Shown, done>>

\* The CreateTask call: the task is accepted, or withdrawn after an error.
LEMMA HandlerStaged ==
    ASSUME TypeOK, Unstarted, Undisturbed => InStep, Undisturbed' => Undisturbed /\ ~Fault,
           NEW t \in Tasks, HandlerStep(t) \/ \E d \in DetectRequests : CreateTask(t, d)
    PROVE  TaskMoves
<1>0. /\ handler \in [Tasks -> {"none", "stages", "undo", "enqueue", "ended"}]
      /\ task \in [Tasks -> TaskStatus]
  BY DEF TypeOK, RowTypes, ProcTypes
<1>1. UNCHANGED done
  BY Zenon DEF HandlerStep, CreateTask, CreateStage, DeleteTask, EnqueueTask, rows
<1>2. task[t] = IF handler[t] = "none" THEN "absent" ELSE "pending"
  BY DEF HandlerStep, CreateTask, CreateStage, DeleteTask, EnqueueTask, Unstarted, Untouched
<1>3. ASSUME NEW d \in DetectRequests, CreateTask(t, d)
      PROVE  TaskMoves
  <2>1. /\ handler[t] = "none"
        /\ \A u \in Tasks \ {t} : task'[u] = task[u] /\ handler'[u] = handler[u]
        /\ \/ task'[t] = "pending"
           \/ task'[t] = task[t] /\ handler'[t] = "ended" /\ Fault
    BY <1>0, <1>3 DEF CreateTask, SetTask
  <2>2. Shown[t] = "none"
    BY <1>2, <2>1 DEF Shown, StatusOf
  <2>3. StatusOf(t)' = "pending" \/ (StatusOf(t)' = "withdrawn" /\ ~Undisturbed')
    BY <1>2, <2>1 DEF StatusOf
  <2>4. \/ Shown' = [Shown EXCEPT ![t] = "pending"]
        \/ ~Undisturbed' /\ Shown' = [Shown EXCEPT ![t] = "withdrawn"]
    BY <2>1, <2>3, ShownSet
  <2>5. Abstract!Accept(t)
    BY <1>1, <2>2, <2>4 DEF Abstract!Accept, Abstract!Become
  <2> QED
    BY <2>5 DEF TaskMoves
<1>4. CASE DeleteTask(t)
  <2>1. /\ handler[t] = "undo" /\ handler'[t] = "ended"
        /\ \A u \in Tasks \ {t} : task'[u] = task[u] /\ handler'[u] = handler[u]
        /\ task'[t] = "absent" \/ task'[t] = task[t]
    BY <1>0, <1>4 DEF DeleteTask, SetTask
  <2>2. ~Undisturbed'
    BY <2>1 DEF InStep, TasksInStep, Created
  <2>3. Shown[t] = "pending" /\ StatusOf(t) = "pending"
    BY <1>2, <2>1 DEF Shown, StatusOf
  <2>4. CASE task'[t] = "absent"
    <3>1. StatusOf(t)' = "withdrawn"
      BY <2>1, <2>4 DEF StatusOf
    <3>2. Shown' = [Shown EXCEPT ![t] = "withdrawn"]
      BY <2>1, <3>1, ShownSet
    <3>3. Abstract!Withdraw(t)
      BY <1>1, <2>2, <2>3, <3>2 DEF Abstract!Withdraw, Abstract!Become
    <3> QED
      BY <3>3 DEF TaskMoves
  <2>5. CASE task'[t] = task[t]
    <3>1. \A u \in Tasks : StatusOf(u)' = StatusOf(u)
      BY <1>2, <2>1, <2>5 DEF StatusOf
    <3> QED
      BY <1>1, <3>1, ShownSame DEF TaskMoves
  <2> QED
    BY <2>1, <2>4, <2>5
<1>5. CASE CreateStage(t) \/ EnqueueTask(t)
  <2>1. /\ UNCHANGED task /\ handler[t] # "none" /\ handler'[t] # "none"
        /\ \A u \in Tasks \ {t} : handler'[u] = handler[u]
    BY <1>0, <1>5 DEF CreateStage, EnqueueTask
  <2>2. \A u \in Tasks : StatusOf(u)' = StatusOf(u)
    BY <2>1 DEF StatusOf
  <2> QED
    BY <1>1, <2>2, ShownSame DEF TaskMoves
<1> QED
  BY <1>3, <1>4, <1>5 DEF HandlerStep

\* What the steps of a goroutine are for its task, on which it may rely.
LEMMA WorkMoves ==
    ASSUME TypeOK, NEW s \in Slots, NEW t \in Tasks, UNCHANGED handler,
           t = run[s].task, NEW k, k = run[s].k,
           \/ UNCHANGED <<task, done>>
           \/ /\ task[t] = "pending" /\ SetTask(t, "running") /\ UNCHANGED done
           \/ /\ task[t] \in Begun /\ UNCHANGED task
              /\ k \in Stages /\ 1 .. (k - 1) \subseteq done[t]
              /\ Undisturbed' => task[t] = "running" /\ k \notin done[t]
              /\ done' = [done EXCEPT ![t] = @ \cup {k}]
           \/ /\ task[t] \in Begun /\ UNCHANGED done
              /\ SetTask(t, "completed") /\ done[t] = Stages
              /\ Undisturbed' => task[t] = "running"
           \/ /\ task[t] \in Begun /\ UNCHANGED done /\ SetTask(t, "failed")
              /\ Undisturbed' => task[t] \in {"running", "failed"}
    PROVE  TaskMoves
<1>0. task \in [Tasks -> TaskStatus]
  BY DEF TypeOK, RowTypes
<1>1. ASSUME NEW v, v # "absent", SetTask(t, v)
      PROVE  Shown' = [Shown EXCEPT ![t] = v]
  <2>1. StatusOf(t)' = v /\ \A u \in Tasks \ {t} : task'[u] = task[u]
    BY <1>0, <1>1 DEF SetTask, StatusOf
  <2> QED
    BY <2>1, ShownSet
<1>2. UNCHANGED task => Shown' = Shown
  BY ShownSame DEF StatusOf
<1>3. task[t] # "absent" => Shown[t] = task[t]
  BY DEF Shown, StatusOf
<1>4. task[t] \in Begun => Abstract!Started(t)
  BY <1>3 DEF Abstract!Started, Begun, Terminal
<1>5. CASE task[t] = "pending" /\ SetTask(t, "running") /\ UNCHANGED done
  <2>1. Abstract!Start(t)
    BY <1>1, <1>3, <1>5 DEF Abstract!Start, Abstract!Become
  <2> QED
    BY <2>1 DEF TaskMoves
<1>6. CASE /\ task[t] \in Begun /\ UNCHANGED task
           /\ k \in Stages /\ 1 .. (k - 1) \subseteq done[t]
           /\ Undisturbed' => task[t] = "running" /\ k \notin done[t]
           /\ done' = [done EXCEPT ![t] = @ \cup {k}]
  <2>1. Abstract!Carry(t, k)
    BY <1>2, <1>3, <1>4, <1>6 DEF Abstract!Carry
  <2> QED
    BY <1>6, <2>1 DEF TaskMoves, Stages
<1>7. CASE /\ task[t] \in Begun /\ UNCHANGED done
           /\ SetTask(t, "completed") /\ done[t] = Stages
           /\ Undisturbed' => task[t] = "running"
  <2>1. Abstract!Complete(t)
    BY <1>1, <1>3, <1>4, <1>7 DEF Abstract!Complete, Abstract!Become, Stages
  <2> QED
    BY <2>1 DEF TaskMoves
<1>8. CASE /\ task[t] \in Begun /\ UNCHANGED done /\ SetTask(t, "failed")
           /\ Undisturbed' => task[t] \in {"running", "failed"}
  <2>1. CASE Undisturbed' => task[t] = "running"
    <3>1. Abstract!Fail(t)
      BY <1>1, <1>3, <1>4, <1>8, <2>1 DEF Abstract!Fail, Abstract!Become
    <3> QED
      BY <3>1 DEF TaskMoves
  <2>2. CASE task[t] = "failed"
    <3>1. UNCHANGED task
      BY <1>0, <1>8, <2>2 DEF SetTask
    <3> QED
      BY <1>2, <1>8, <3>1 DEF TaskMoves
  <2> QED
    BY <1>8, <2>1, <2>2
<1> QED
  BY <1>2, <1>5, <1>6, <1>7, <1>8 DEF TaskMoves

\* While nothing goes wrong a stage is not carried out twice: its row still says
\* running, and no other goroutine works on the task.
LEMMA FirstTime ==
    ASSUME TypeOK, HeldOnce("rs"), HeldOnce("od"), InStep, WorkRecorded,
           NEW s \in Slots, run[s].pc \notin {"free", "ack", "succeed"},
           stage[run[s].task][run[s].k] # "success"
    PROVE  run[s].k \notin done[run[s].task]
<1>1. run[s].task \in Tasks
  BY BusyRun DEF At
<1>2. \A x \in Slots \ {s} : At(x, "succeed") => run[x].task # run[s].task
  BY Alone DEF At
<1>3. ~Recorded(run[s].task, run[s].k)
  BY <1>2 DEF Recorded, At
<1> QED
  BY <1>1, <1>3 DEF WorkRecorded

LEMMA RunStaged ==
    ASSUME TypeOK, Earned, ClaimedFirst, OneHolder, Undisturbed => InStep /\ WorkRecorded,
           [Next]_vars, NEW s \in Slots, RunStep(s)
    PROVE  TaskMoves
<1>0. /\ ~At(s, "free") /\ UNCHANGED handler
      /\ run[s].pc \notin Early => task[run[s].task] \in Begun
  BY RunStepShape DEF ClaimedFirst
<1>1. PICK t, k : /\ t = run[s].task /\ k = run[s].k /\ t \in Tasks /\ k \in Stages
  BY <1>0, BusyRun, RunFields
<1>2. /\ 1 .. (k - 1) \subseteq done[t]
      /\ At(s, "finish") => done[t] = Stages
      /\ At(s, "odRow") => k = OD
  BY <1>0, <1>1 DEF Earned, Justified, At
<1>3. ASSUME Undisturbed', ~At(s, "ack")
      PROVE  /\ ~Fault /\ Course(t, run[s].pc, k, run[s].skip)
             /\ stage[t][k] # "success" /\ ~At(s, "succeed") => k \notin done[t]
  <2>1. /\ ~Fault /\ InStep /\ WorkRecorded /\ HeldOnce("rs") /\ HeldOnce("od")
    BY <1>3, UndisturbedStays, RSQueue DEF OneHolder
  <2> QED
    BY <1>0, <1>1, <1>3, <2>1, FirstTime DEF InStep, RunsInStep, At
<1>4. CASE PipelineStep(s)
  <2>1. CASE ClaimTask(s)
    BY <1>0, <1>1, <2>1, WorkMoves DEF ClaimTask, Unclaimed, rows
  <2>2. CASE SkipDetection(s)
    <3>1. /\ At(s, "stage") /\ k = OD /\ UNCHANGED task
          /\ UNCHANGED done \/ done' = [done EXCEPT ![t] = @ \cup {k}]
      BY <1>1, <2>2 DEF SkipDetection, AtStage
    <3>2. task[t] \in Begun
      BY <1>0, <1>1, <3>1 DEF At, Early
    <3>3. Undisturbed' => task[t] = "running" /\ k \notin done[t]
      BY <1>3, <3>1 DEF At, Course
    <3> QED
      BY <1>0, <1>1, <1>2, <3>1, <3>2, <3>3, WorkMoves
  <2>3. CASE ODRowSuccess(s)
    <3>1. /\ At(s, "odRow") /\ stage[t][OD] = "success" /\ UNCHANGED done
          /\ UNCHANGED task \/ SetTask(t, "completed")
      BY <1>1, <2>3 DEF ODRowSuccess, rows
    <3>2. task[t] \in Begun
      BY <1>0, <1>1, <3>1 DEF At, Early
    <3>3. ~Undisturbed'
      BY <1>2, <1>3, <3>1 DEF At, Course
    <3>4. done[t] = Stages
      <4>1. OD \in done[t] /\ done[t] \in SUBSET Stages
        BY <1>1, <3>1, StageNumbers DEF Earned, SuccessEarned, TypeOK, RowTypes
      <4>2. Stages = 1 .. (OD - 1) \cup {OD}
        BY StageNumbers DEF Stages, OD
      <4> QED
        BY <1>2, <3>1, <4>1, <4>2
    <3> QED
      BY <1>0, <1>1, <3>1, <3>2, <3>3, <3>4, WorkMoves
  <2>4. CASE ~ClaimTask(s) /\ ~SkipDetection(s) /\ ~ODRowSuccess(s)
    <3>1. UNCHANGED <<task, done>>
      BY <1>4, <2>4 DEF PipelineStep, CheckRunning, SuccessStages, SkipStage, DropSkip,
                        ShouldSkipODJob, ODRowOther, EnqueueOD, rows
    <3> QED
      BY <1>0, <1>1, <3>1, WorkMoves
  <2> QED
    BY <2>1, <2>2, <2>3, <2>4
<1>5. CASE StageStep(s)
  <2>1. CASE ExecSuccess(s)
    <3>1. /\ At(s, "exec") /\ UNCHANGED task
          /\ done' = [done EXCEPT ![t] = @ \cup {k}]
      BY <1>1, <2>1 DEF ExecSuccess
    <3>2. task[t] \in Begun
      BY <1>0, <1>1, <3>1 DEF At, Early
    <3>3. Undisturbed' => task[t] = "running" /\ k \notin done[t]
      BY <1>3, <3>1 DEF At, Course
    <3> QED
      BY <1>0, <1>1, <1>2, <3>1, <3>2, <3>3, WorkMoves
  <2>2. CASE FailTaskRow(s)
    <3>1. /\ At(s, "failTask") /\ UNCHANGED done
          /\ UNCHANGED task \/ SetTask(t, "failed")
      BY <1>1, <2>2 DEF FailTaskRow, rows
    <3>2. task[t] \in Begun /\ (Undisturbed' => task[t] = "running")
      BY <1>0, <1>1, <1>3, <3>1 DEF At, Early, Course
    <3> QED
      BY <1>0, <1>1, <3>1, <3>2, WorkMoves
  <2>3. CASE ~ExecSuccess(s) /\ ~FailTaskRow(s)
    <3>1. UNCHANGED <<task, done>>
      BY <1>5, <2>3 DEF StageStep, BeginStage, ExecFailure, Succeed, RecordArtifacts,
                        FailStageRow, rows
    <3> QED
      BY <1>0, <1>1, <3>1, WorkMoves
  <2> QED
    BY <2>1, <2>2, <2>3
<1>6. CASE EndStep(s)
  <2>1. CASE FinishTaskWithError(s)
    <3>1. /\ At(s, "fail") /\ UNCHANGED done
          /\ UNCHANGED task \/ SetTask(t, "failed")
      BY <1>1, <2>1 DEF FinishTaskWithError, rows
    <3>2. task[t] \in Begun /\ (Undisturbed' => task[t] \in {"running", "failed"})
      BY <1>0, <1>1, <1>3, <3>1 DEF At, Early, Course
    <3> QED
      BY <1>0, <1>1, <3>1, <3>2, WorkMoves
  <2>2. CASE FinishTaskCompleted(s)
    <3>1. /\ At(s, "finish") /\ UNCHANGED done
          /\ UNCHANGED task \/ SetTask(t, "completed")
      BY <1>1, <2>2 DEF FinishTaskCompleted, rows
    <3>2. task[t] \in Begun /\ (Undisturbed' => task[t] = "running")
      BY <1>0, <1>1, <1>3, <3>1 DEF At, Early, Course
    <3> QED
      BY <1>0, <1>1, <1>2, <3>1, <3>2, WorkMoves
  <2>3. CASE AckJob(s)
    <3>1. UNCHANGED <<task, done>>
      BY <2>3 DEF AckJob, rows
    <3> QED
      BY <1>0, <1>1, <3>1, WorkMoves
  <2> QED
    BY <1>6, <2>1, <2>2, <2>3 DEF EndStep
<1> QED
  BY <1>4, <1>5, <1>6 DEF RunStep

\* Everybody else leaves the rows of the tasks alone.
LEMMA OthersStaged ==
    ASSUME TypeOK,
           \/ \E p \in Procs : ProcStep(p) \/ Crash(p)
           \/ \E i \in DOMAIN queue["rs"] : IdleOrphan(i) \/ IdleHeld(i)
           \/ \E q \in Queues : LoseGroup(q)
           \/ \E w \in Workers : ReceiveStep(w)
           \/ \E c \in Receivers : HandleStep(c)
           \/ UNCHANGED vars
    PROVE  TaskMoves
<1>1. ASSUME NEW p \in Procs, ProcStep(p) \/ Crash(p)
      PROVE  /\ UNCHANGED <<task, done>>
             /\ \A t \in Tasks : handler'[t] = "none" <=> handler[t] = "none"
  <2>1. UNCHANGED <<task, done>>
    BY <1>1, Zenon DEF ProcStep, Restart, BootEnqueue, BootDone, Crash, rows
  <2>2. \/ UNCHANGED handler
        \/ handler' = [t \in Tasks |-> IF handler[t] = "none" THEN "none" ELSE "ended"]
    BY <1>1 DEF ProcStep, Restart, BootEnqueue, BootDone, Crash
  <2> QED
    BY <2>1, <2>2
<1>2. ASSUME NEW c \in Receivers, HandleStep(c)
      PROVE  UNCHANGED <<task, done, handler>>
  BY <1>2, Zenon DEF HandleStep, ProcessJob, ReleaseAck, ReleaseAdd, rows, api
<1>3. /\ UNCHANGED <<task, done>>
      /\ \A t \in Tasks : handler'[t] = "none" <=> handler[t] = "none"
  BY <1>1, <1>2, RedisSameJobs DEF rows, api, vars
<1>4. \A t \in Tasks : StatusOf(t)' = StatusOf(t)
  BY <1>3 DEF StatusOf
<1> QED
  BY <1>3, <1>4, ShownSame DEF TaskMoves

\* What the steps of the pipeline rest on, and so the tasks' moves.
StagedInv ==
    /\ TypeOK /\ Unstarted /\ Earned /\ OneHolder /\ NotForgotten /\ ClaimedFirst
    /\ Undisturbed => InStep /\ WorkRecorded

LEMMA StagedStep ==
    StagedInv /\ [Next]_vars => [Abstract!StagedNext]_<<Shown, done, Undisturbed>>
<1> SUFFICES ASSUME StagedInv, [Next]_vars
             PROVE  Abstract!StagedNext
  OBVIOUS
<1>1. Undisturbed' => Undisturbed /\ ~Fault
  BY UndisturbedStays DEF StagedInv
<1>2. TaskMoves
  BY <1>1, HandlerStaged, RunStaged, OthersStaged DEF StagedInv, Next
<1>3. Undisturbed' \in {Undisturbed, FALSE}
  BY <1>1 DEF Undisturbed
<1> QED
  BY <1>2, <1>3 DEF TaskMoves, Abstract!StagedNext

LEMMA StagedStart == Init => Abstract!StagedInit
<1> SUFFICES ASSUME Init
             PROVE  Abstract!StagedInit
  OBVIOUS
<1>1. Shown = [t \in Tasks |-> "none"] /\ done = [t \in Tasks |-> {}]
  BY DEF Init, Shown, StatusOf
<1>2. Undisturbed = TRUE
  BY DEF Init, Undisturbed
<1> QED
  BY <1>1, <1>2 DEF Abstract!StagedInit

\* The pipeline implements StagedTask.  Its stages are carried out in order, none before
\* runPipeline's claim; a task is reported completed when all were carried out, and a task
\* that has ended never runs again, whatever is redelivered, restarted or lost.  While
\* nothing goes wrong every stage is carried out once, by a run that ends the task once.
THEOREM PipelineIsStaged == Spec => Staged
<1>1. Init => StagedInv
  <2>1. Init => WorkRecorded
    BY DEF Init, WorkRecorded
  <2> QED
    BY <2>1, InitType, InitUnstarted, InitEarned, InitOneHolder, InitNotForgotten,
       InitClaimedFirst, InitInStep DEF StagedInv
<1>2. StagedInv /\ [Next]_vars => StagedInv'
  <2> SUFFICES ASSUME StagedInv, [Next]_vars
               PROVE  StagedInv'
    OBVIOUS
  <2>1. TypeOK' /\ Unstarted' /\ Earned' /\ OneHolder' /\ NotForgotten' /\ ClaimedFirst'
    BY NextType, NextUnstarted, NextEarned, NextOneHolder, NextNotForgotten,
       NextClaimedFirst DEF StagedInv
  <2>2. (Undisturbed => InStep)' /\ (Undisturbed => WorkRecorded)'
    BY NextInStep, NextRecorded DEF StagedInv
  <2> QED
    BY <2>1, <2>2 DEF StagedInv
<1>3. StagedInv /\ [Next]_vars => [Abstract!StagedNext]_<<Shown, done, Undisturbed>>
  BY StagedStep
<1> QED
  BY <1>1, <1>2, <1>3, StagedStart, PTL DEF Spec, Staged, Abstract!StagedSpec

-----------------------------------------------------------------------------
(* What shouldSkipODJob keeps, and when.                                   *)

\* One goroutine at a time detects objects, in an od-worker; every request asks for
\* detection; and no command fails.
SoleDetector ==
    /\ UseODWorker
    /\ \A r, s \in Slots : ~IsRS(r) /\ ~IsRS(s) => r = s
    /\ DetectRequests \subseteq {TRUE}
    /\ Budget["fault"] = 0

\* The flag is set wherever it is kept.
FlagSet ==
    /\ \A t \in Tasks : handler[t] # "none" => wants[t] /\ row[t]
    /\ \A q \in Queues : \A i \in DOMAIN queue[q] : queue[q][i].detect
    /\ \A s \in Slots : ~At(s, "free") => run[s].detect

\* The detection row will not change any more, or there is none to change.
Over(t) == stage[t][OD] \in {"success", "absent"}

\* The goroutine is about to set the detection row, or has set it running.
InDetection(s) ==
    At(s, "begin") \/ (run[s].k = OD /\ run[s].pc \in {"exec", "succeed", "failRow"})

\* A goroutine begins detection only before the detection row says success, and brings
\* its task to completion only after.
Orderly(s) ==
    ~At(s, "free") =>
        /\ ~IsRS(s) => run[s].k = OD
        /\ InDetection(s) => ~IsRS(s) /\ stage[run[s].task][OD] # "success"
        /\ At(s, "finish") \/ (At(s, "record") /\ run[s].k = OD) => Over(run[s].task)

DetectedFirst ==
    /\ \A s \in Slots : Orderly(s)
    /\ \A t \in Tasks : task[t] = "completed" => Over(t)

\* The detection row of a completed task is not set running in this step.
StaysClosed ==
    \A t \in Tasks : (task[t] = "completed" /\ stage[t][OD] # "running")
                        => stage'[t][OD] # "running"

LEMMA NothingFails == ASSUME TypeOK, SoleDetector PROVE ~Fault
<1>1. spent["fault"] \in Nat
  BY DEF TypeOK, ProcTypes, Hazards
<1> QED
  BY <1>1 DEF SoleDetector, Fault, Spend

LEMMA FlaggedKept ==
    ASSUME \A q \in Queues : \A i \in DOMAIN queue[q] : queue[q][i].detect,
           NEW q \in Queues, NEW t, NEW d, NEW i, NEW S, NEW v,
           \/ UNCHANGED queue
           \/ Marked(q, S, v)
           \/ Aged(i)
           \/ Appended(q, t, d) /\ d
    PROVE  \A p \in Queues : \A j \in DOMAIN queue'[p] : queue'[p][j].detect
<1>1. CASE UNCHANGED queue
  BY <1>1
<1>2. CASE Marked(q, S, v)
  BY <1>2 DEF Marked
<1>3. CASE Aged(i)
  BY <1>3, RSQueue DEF Aged, Queues
<1>4. CASE Appended(q, t, d) /\ d
  BY <1>4 DEF Appended
<1> QED
  BY <1>1, <1>2, <1>3, <1>4

\* A step that neither takes a goroutine on nor appends a job without the flag.
LEMMA FlagKept ==
    ASSUME FlagSet, UNCHANGED <<wants, row>>,
           \A t \in Tasks : handler[t] = "none" => handler'[t] = "none",
           \A p \in Queues : \A j \in DOMAIN queue'[p] : queue'[p][j].detect,
           \A s \in Slots : run'[s] = run[s] \/ run'[s].pc = "free"
    PROVE  FlagSet'
  BY DEF FlagSet, At

LEMMA HandlerFlagSet ==
    ASSUME TypeOK, SoleDetector, FlagSet, NEW t \in Tasks,
           HandlerStep(t) \/ \E d \in DetectRequests : CreateTask(t, d)
    PROVE  FlagSet'
<1>0. /\ handler \in [Tasks -> {"none", "stages", "undo", "enqueue", "ended"}]
      /\ wants \in [Tasks -> BOOLEAN] /\ row \in [Tasks -> BOOLEAN]
      /\ ~Fault /\ UNCHANGED run
  BY NothingFails, Zenon
     DEF TypeOK, RowTypes, ProcTypes, HandlerStep, CreateTask, CreateStage, DeleteTask,
         EnqueueTask
<1>1. ASSUME NEW d \in DetectRequests, CreateTask(t, d)
      PROVE  FlagSet'
  <2>1. /\ wants' = [wants EXCEPT ![t] = TRUE] /\ row' = [row EXCEPT ![t] = TRUE]
        /\ handler' = [handler EXCEPT ![t] = "stages"] /\ UNCHANGED queue
    BY <1>0, <1>1 DEF CreateTask, SoleDetector, Stored
  <2> QED
    BY <1>0, <2>1 DEF FlagSet, At
<1>2. CASE HandlerStep(t)
  <2>1. /\ UNCHANGED <<wants, row>> /\ handler[t] # "none"
        /\ \E v : handler' = [handler EXCEPT ![t] = v]
    BY <1>0, <1>2 DEF HandlerStep, CreateStage, DeleteTask, EnqueueTask, rows
  <2>2. UNCHANGED queue \/ Appended("rs", t, wants[t])
    BY <1>2, EnqueueShape DEF HandlerStep, CreateStage, DeleteTask
  <2>3. wants[t]
    BY <2>1 DEF FlagSet
  <2>4. \A p \in Queues : \A j \in DOMAIN queue'[p] : queue'[p][j].detect
    BY <2>2, <2>3, RSQueue, FlaggedKept DEF FlagSet
  <2> QED
    BY <1>0, <2>1, <2>4, FlagKept
<1> QED
  BY <1>1, <1>2

LEMMA ProcFlagSet ==
    ASSUME TypeOK, Unstarted, FlagSet, NEW p \in Procs, ProcStep(p) \/ Crash(p)
    PROVE  FlagSet'
<1>0. UNCHANGED <<wants, row>>
  BY Zenon DEF ProcStep, Restart, BootEnqueue, BootDone, Crash, rows
<1>1. CASE Restart(p)
  <2>1. \A q \in Queues : \A j \in DOMAIN queue'[q] : queue'[q][j].detect
    BY <1>1, RestartShape, QueueOfQueues, RSQueue, FlaggedKept DEF FlagSet
  <2>2. UNCHANGED <<handler, run>>
    BY <1>1 DEF Restart
  <2> QED
    BY <1>0, <2>1, <2>2, FlagKept
<1>2. CASE BootEnqueue(p)
  <2>1. PICK t \in Tasks : t \in todo[p] /\ (UNCHANGED queue \/ Appended("rs", t, row[t]))
    BY <1>2, BootShape
  <2>2. row[t]
    BY <2>1, JobsStarted DEF FlagSet
  <2>3. \A q \in Queues : \A j \in DOMAIN queue'[q] : queue'[q][j].detect
    BY <2>1, <2>2, RSQueue, FlaggedKept DEF FlagSet
  <2>4. UNCHANGED <<handler, run>>
    BY <1>2 DEF BootEnqueue
  <2> QED
    BY <1>0, <2>3, <2>4, FlagKept
<1>3. CASE BootDone(p)
  BY <1>3 DEF BootDone, FlagSet, At, rows
<1>4. CASE Crash(p)
  <2>1. /\ \A t \in Tasks : handler[t] = "none" => handler'[t] = "none"
        /\ \A s \in Slots : run'[s] = run[s] \/ run'[s].pc = "free"
        /\ UNCHANGED queue
    BY <1>4, FreeType DEF Crash
  <2> QED
    BY <1>0, <2>1, FlagKept DEF FlagSet
<1> QED
  BY <1>1, <1>2, <1>3, <1>4 DEF ProcStep

LEMMA RedisFlagSet ==
    ASSUME TypeOK, FlagSet,
           \/ \E i \in DOMAIN queue["rs"] : IdleOrphan(i) \/ IdleHeld(i)
           \/ \E q \in Queues : LoseGroup(q)
           \/ \E w \in Workers : ReceiveStep(w)
    PROVE  FlagSet'
<1>1. UNCHANGED <<wants, row, handler, run>>
  BY RedisSameJobs DEF api, rows
<1>2. \A q \in Queues : \A j \in DOMAIN queue'[q] : queue'[q][j].detect
  <2>1. ASSUME NEW i \in DOMAIN queue["rs"], IdleOrphan(i) \/ IdleHeld(i)
        PROVE  \A q \in Queues : \A j \in DOMAIN queue'[q] : queue'[q][j].detect
    BY <2>1, IdleShape, RSQueue, FlaggedKept DEF FlagSet
  <2>2. ASSUME NEW q \in Queues, LoseGroup(q)
        PROVE  UNCHANGED queue
    BY <2>2 DEF LoseGroup
  <2>3. ASSUME NEW w \in Workers, ReceiveStep(w)
        PROVE  \E q \in Queues : \E S, v : Marked(q, S, v)
    BY <2>3, ReadShape, ReclaimShape, RebuildShape, QueueOfQueues, RSQueue, Zenon
       DEF ReceiveStep
  <2> QED
    BY <2>1, <2>2, <2>3, RSQueue, FlaggedKept DEF FlagSet
<1> QED
  BY <1>1, <1>2, FlagKept

LEMMA HandleFlagSet ==
    ASSUME TypeOK, FlagSet, NEW c \in Receivers, HandleStep(c)
    PROVE  FlagSet'
<1>1. UNCHANGED <<wants, row, handler>>
  BY Zenon DEF HandleStep, ProcessJob, ReleaseAck, ReleaseAdd, api, rows
<1>2. CASE ProcessJob(c)
  <2>1. UNCHANGED queue
    BY <1>2, Zenon DEF ProcessJob
  <2>2. PICK i, s :
          /\ s \in Slots /\ i \in DOMAIN queue[QueueOf(c[1])]
          /\ \A x \in Slots \ {s} : run'[x] = run[x]
          /\ run'[s].detect = queue[QueueOf(c[1])][i].detect
    BY <1>2, ProcessShape
  <2>3. run'[s].detect
    BY <2>2, QueueOfQueues DEF FlagSet
  <2> QED
    BY <1>1, <2>1, <2>2, <2>3 DEF FlagSet, At
<1>3. CASE ReleaseAck(c) \/ ReleaseAdd(c)
  <2>1. UNCHANGED run
    BY <1>3, Zenon DEF ReleaseAck, ReleaseAdd
  <2>2. \A q \in Queues : \A j \in DOMAIN queue'[q] : queue'[q][j].detect
    <3>1. CASE ReleaseAck(c)
      BY <3>1, ReleaseAckShape, RSQueue, FlaggedKept DEF FlagSet
    <3>2. CASE ReleaseAdd(c)
      <4>1. PICK i \in DOMAIN queue["rs"] :
              UNCHANGED queue \/ Appended("rs", queue["rs"][i].task, queue["rs"][i].detect)
        BY <3>2, ReleaseAddShape
      <4>2. queue["rs"][i].detect
        BY RSQueue DEF FlagSet
      <4> QED
        BY <4>1, <4>2, RSQueue, FlaggedKept DEF FlagSet
    <3> QED
      BY <1>3, <3>1, <3>2
  <2> QED
    BY <1>1, <2>1, <2>2, FlagKept
<1> QED
  BY <1>2, <1>3 DEF HandleStep

LEMMA RunFlagSet ==
    ASSUME TypeOK, FlagSet, NEW s \in Slots, RunStep(s)
    PROVE  FlagSet'
<1>0. UNCHANGED <<wants, row, handler>> /\ ~At(s, "free")
  BY RunStepShape
<1>1. CASE AckJob(s)
  <2>1. /\ run'[s].pc = "free" /\ \A x \in Slots \ {s} : run'[x] = run[x]
        /\ \/ UNCHANGED queue
           \/ Marked(QueueOf(s[1]), {run[s].msg}, AckState(QueueOf(s[1]), run[s].msg))
    BY <1>1, AckShape, FreeType
  <2>2. \A q \in Queues : \A j \in DOMAIN queue'[q] : queue'[q][j].detect
    BY <2>1, QueueOfQueues, FlaggedKept DEF FlagSet
  <2> QED
    BY <1>0, <2>1, <2>2, FlagKept
<1>2. CASE Onward(s) /\ (UNCHANGED queue \/ (At(s, "odAdd") /\ Appended("od", run[s].task, TRUE)))
  <2>1. \A q \in Queues : \A j \in DOMAIN queue'[q] : queue'[q][j].detect
    BY <1>2, RSQueue, FlaggedKept DEF FlagSet
  <2>2. /\ \A x \in Slots \ {s} : run'[x] = run[x]
        /\ run'[s].detect = run[s].detect
    BY <1>2 DEF Onward, RunTo
  <2> QED
    BY <1>0, <2>1, <2>2 DEF FlagSet, At
<1> QED
  BY <1>1, <1>2, RunStepShape

LEMMA NextFlagSet ==
    ASSUME TypeOK, Unstarted, SoleDetector, FlagSet, Next
    PROVE  FlagSet'
  BY HandlerFlagSet, ProcFlagSet, RedisFlagSet, HandleFlagSet, RunFlagSet DEF Next

\* A step that at most ends goroutines, and changes only the rows of a task that nobody
\* works on and that is not completed.
LEMMA RowsElsewhere ==
    ASSUME TypeOK, DetectedFirst, NEW t,
           \A s \in Slots : run'[s] = run[s] \/ run'[s].pc = "free",
           \A s \in Slots : ~At(s, "free") => run[s].task # t,
           \A u \in Tasks \ {t} : task'[u] = task[u] /\ stage'[u] = stage[u],
           t \in Tasks => task[t] # "completed" /\ task'[t] # "completed"
    PROVE  DetectedFirst' /\ StaysClosed
<1>1. ASSUME NEW s \in Slots
      PROVE  Orderly(s)'
  <2>1. CASE run'[s].pc = "free"
    BY <2>1 DEF Orderly, At
  <2>2. CASE run'[s] = run[s] /\ ~At(s, "free")
    <3>1. run[s].task \in Tasks \ {t}
      BY <2>2, BusyRun
    <3>2. stage'[run[s].task] = stage[run[s].task]
      BY <3>1
    <3> QED
      BY <2>2, <3>2 DEF DetectedFirst, Orderly, InDetection, Over, At
  <2> QED
    BY <2>1, <2>2 DEF At
<1>2. \A u \in Tasks : task'[u] = "completed" => Over(u)'
  BY DEF DetectedFirst, Over
<1>3. StaysClosed
  BY DEF StaysClosed
<1> QED
  BY <1>1, <1>2, <1>3 DEF DetectedFirst

\* Goroutine s takes a step.  If it changes the detection row of its task it is the only
\* one that may.
LEMMA SlotMoves ==
    ASSUME TypeOK, DetectedFirst, NEW s \in Slots, NEW t \in Tasks, t = run[s].task,
           \A x \in Slots \ {s} : run'[x] = run[x],
           Orderly(s)',
           \A u \in Tasks \ {t} : task'[u] = task[u] /\ stage'[u][OD] = stage[u][OD],
           task'[t] = "completed" => Over(t)',
           \/ stage'[t][OD] = stage[t][OD]
           \/ /\ \A x \in Slots : ~IsRS(x) => x = s
              /\ stage'[t][OD] = "running" => ~Over(t)
              /\ Over(t) => Over(t)'
    PROVE  DetectedFirst' /\ StaysClosed
<1>1. ASSUME NEW x \in Slots
      PROVE  Orderly(x)'
  <2>1. CASE x = s \/ At(x, "free")
    BY <2>1 DEF Orderly, At
  <2>2. CASE x # s /\ ~At(x, "free")
    <3>1. run[x].task \in Tasks /\ run'[x] = run[x] /\ Orderly(x)
      BY <2>2, BusyRun DEF DetectedFirst
    <3>2. CASE stage'[run[x].task][OD] = stage[run[x].task][OD]
      BY <3>1, <3>2 DEF Orderly, InDetection, Over, At
    <3>3. CASE stage'[run[x].task][OD] # stage[run[x].task][OD]
      <4>1. run[x].task = t /\ IsRS(x) /\ (Over(t) => Over(t)')
        BY <2>2, <3>1, <3>3
      <4> QED
        BY <2>2, <3>1, <4>1 DEF Orderly, InDetection, Over, At
    <3> QED
      BY <3>2, <3>3
  <2> QED
    BY <2>1, <2>2
<1>2. \A u \in Tasks : task'[u] = "completed" => Over(u)'
  BY DEF DetectedFirst, Over
<1>3. StaysClosed
  BY DEF StaysClosed, DetectedFirst
<1> QED
  BY <1>1, <1>2, <1>3 DEF DetectedFirst

\* A goroutine at pc p and stage n is in order.
OrderlyAt(s, p, n) ==
    /\ ~IsRS(s) => n = OD
    /\ p = "begin" \/ (n = OD /\ p \in {"exec", "succeed", "failRow"})
          => ~IsRS(s) /\ stage[run[s].task][OD] # "success"
    /\ p = "finish" \/ (p = "record" /\ n = OD) => Over(run[s].task)

\* It goes on without touching a stage row.
LEMMA MovesOn ==
    ASSUME TypeOK, DetectedFirst, NEW s \in Slots, NEW t \in Tasks, t = run[s].task,
           NEW p, NEW n, NEW m, NEW a, RunTo(s, p, n, m, a), OrderlyAt(s, p, n),
           UNCHANGED stage,
           UNCHANGED task \/ \E v : SetTask(t, v) /\ (v = "completed" => Over(t))
    PROVE  DetectedFirst' /\ StaysClosed
<1>1. /\ \A x \in Slots \ {s} : run'[x] = run[x]
      /\ run'[s].pc = p /\ run'[s].k = n /\ run'[s].task = t
  BY DEF RunTo
<1>2. Orderly(s)'
  BY <1>1 DEF Orderly, OrderlyAt, InDetection, Over, At
<1>3. /\ \A u \in Tasks \ {t} : task'[u] = task[u]
      /\ task'[t] = "completed" => Over(t)
  BY DEF SetTask, DetectedFirst, TypeOK, RowTypes
<1>4. task'[t] = "completed" => Over(t)'
  BY <1>3 DEF Over
<1> QED
  BY <1>1, <1>2, <1>3, <1>4, SlotMoves

LEMMA GotoMoves ==
    ASSUME TypeOK, DetectedFirst, NEW s \in Slots, ~At(s, "free"),
           NEW p \in PC, Goto(s, p), OrderlyAt(s, p, run[s].k),
           UNCHANGED stage,
           \/ UNCHANGED task
           \/ \E v : SetTask(run[s].task, v) /\ (v = "completed" => Over(run[s].task))
    PROVE  DetectedFirst' /\ StaysClosed
<1>1. RunTo(s, p, run[s].k, run[s].skip, run[s].attempt)
  BY GotoRunTo DEF TypeOK, RunTypes
<1> QED
  BY <1>1, BusyRun, MovesOn

\* The loop head: only an od-worker's goroutine leaves the last stage here.
LEMMA AdvanceMoves ==
    ASSUME TypeOK, DetectedFirst, NEW s \in Slots, ~At(s, "free"), Advance(s),
           run[s].k = OD => Over(run[s].task), UNCHANGED <<task, stage>>
    PROVE  DetectedFirst' /\ StaysClosed
<1>0. ~IsRS(s) => run[s].k = OD
  BY DEF DetectedFirst, Orderly
<1>1. CASE run[s].k = OD /\ RunTo(s, "finish", run[s].k, run[s].skip, run[s].attempt)
  <2>1. OrderlyAt(s, "finish", run[s].k)
    BY <1>1 DEF OrderlyAt
  <2> QED
    BY <1>1, <2>1, BusyRun, MovesOn
<1>2. CASE run[s].k # OD /\ RunTo(s, "stage", run[s].k + 1, run[s].skip, 0)
  <2>1. OrderlyAt(s, "stage", run[s].k + 1)
    BY <1>0, <1>2 DEF OrderlyAt
  <2> QED
    BY <1>2, <2>1, BusyRun, MovesOn
<1> QED
  BY <1>1, <1>2, AdvanceRunTo DEF TypeOK, RunTypes

\* The row of stage k, once it exists, gets the value; nothing else changes.
LEMMA StageSet ==
    ASSUME TypeOK, NEW t \in Tasks, NEW k \in Stages, NEW v, SetStage(t, k, v)
    PROVE  /\ stage'[t][k] = IF stage[t][k] = "absent" THEN "absent" ELSE v
           /\ k # OD => stage'[t][OD] = stage[t][OD]
           /\ \A u \in Tasks \ {t} : stage'[u] = stage[u]
  BY StageNumbers DEF TypeOK, RowTypes, SetStage

LEMMA PipelineDetected ==
    ASSUME TypeOK, SoleDetector, FlagSet, DetectedFirst, NEW s \in Slots, PipelineStep(s)
    PROVE  DetectedFirst' /\ StaysClosed
<1>0. /\ ~At(s, "free") /\ ~Fault /\ run \in [Slots -> Run]
      /\ run[s].detect /\ Orderly(s)
  BY RunStepShape, NothingFails DEF RunStep, TypeOK, RunTypes, FlagSet, DetectedFirst
<1>k. (~IsRS(s) => run[s].k = OD) /\ run[s].task \in Tasks
  BY <1>0, BusyRun DEF Orderly
<1>1. \A p \in {"stage", "check", "snapshot", "ack", "odRow", "odAdd"} :
         p \in PC /\ OrderlyAt(s, p, run[s].k)
  BY <1>k, PCs DEF OrderlyAt
<1>2. CASE ClaimTask(s)
  <2>1. /\ \E p \in {"stage", "check"} : Goto(s, p)
        /\ UNCHANGED stage
        /\ \/ UNCHANGED task
           \/ \E v : SetTask(run[s].task, v) /\ (v = "completed" => Over(run[s].task))
    BY <1>0, <1>2 DEF ClaimTask
  <2> QED
    BY <1>0, <1>1, <2>1, GotoMoves
<1>3. CASE CheckRunning(s) \/ ShouldSkipODJob(s) \/ EnqueueOD(s)
  <2>1. /\ \E p \in {"snapshot", "ack", "odRow"} : Goto(s, p)
        /\ UNCHANGED <<task, stage>>
    BY <1>0, <1>3 DEF CheckRunning, ShouldSkipODJob, EnqueueOD
  <2> QED
    BY <1>0, <1>1, <2>1, GotoMoves
<1>4. CASE SuccessStages(s)
  <2> DEFINE found == {k \in Stages : stage[run[s].task][k] = "success"}
  <2>1. run' = [run EXCEPT ![s].pc = "stage", ![s].skip = found] /\ UNCHANGED <<task, stage>>
    BY <1>0, <1>4 DEF SuccessStages
  <2>2. found \in SUBSET Stages
    OBVIOUS
  <2> HIDE DEF found
  <2>3. RunTo(s, "stage", run[s].k, found, run[s].attempt)
    BY <1>0, <2>1, <2>2, PCs, SkipRunTo, Zenon
  <2> QED
    BY <1>k, <1>1, <2>1, <2>3, MovesOn
<1>5. CASE SkipStage(s)
  <2>1. Advance(s) /\ run[s].k # OD /\ UNCHANGED <<task, stage>>
    BY <1>5, StageNumbers DEF SkipStage, Prep, OD
  <2> QED
    BY <1>0, <2>1, AdvanceMoves
<1>6. CASE DropSkip(s)
  <2> DEFINE m == run[s].skip \ {run[s].k}
  <2>1. run' = [run EXCEPT ![s].skip = m] /\ run[s].pc = "stage" /\ UNCHANGED <<task, stage>>
    BY <1>6, Zenon DEF DropSkip, At
  <2>2. m \in SUBSET Stages
    BY <1>0, RunFields
  <2> HIDE DEF m
  <2>3. RunTo(s, run[s].pc, run[s].k, m, run[s].attempt)
    BY <1>0, <2>1, <2>2, PCs, SkipRunTo, Zenon
  <2> QED
    BY <1>k, <1>1, <2>1, <2>3, MovesOn
<1>7. CASE SkipDetection(s)
  BY <1>0, <1>7 DEF SkipDetection
<1>8. CASE ODRowSuccess(s)
  <2>1. /\ \E p \in {"finish", "ack"} : Goto(s, p)
        /\ UNCHANGED stage /\ Over(run[s].task)
        /\ SetTask(run[s].task, "completed")
    BY <1>0, <1>8 DEF ODRowSuccess, Over
  <2>2. "finish" \in PC /\ OrderlyAt(s, "finish", run[s].k)
    BY <1>k, <2>1, PCs DEF OrderlyAt
  <2> QED
    BY <1>0, <1>1, <2>1, <2>2, GotoMoves
<1>9. CASE ODRowOther(s)
  <2>1. /\ Goto(s, IF IsRS(s) THEN "odAdd" ELSE "begin")
        /\ stage[run[s].task][OD] # "success"
        /\ UNCHANGED <<task, stage>>
    BY <1>0, <1>9 DEF ODRowOther
  <2>2. CASE IsRS(s)
    BY <1>0, <1>1, <2>1, <2>2, GotoMoves
  <2>3. CASE ~IsRS(s)
    <3>1. "begin" \in PC /\ OrderlyAt(s, "begin", run[s].k)
      BY <1>k, <2>1, <2>3, PCs DEF OrderlyAt
    <3> QED
      BY <1>0, <2>1, <2>3, <3>1, GotoMoves
  <2> QED
    BY <2>2, <2>3
<1> QED
  BY <1>2, <1>3, <1>4, <1>5, <1>6, <1>7, <1>8, <1>9 DEF PipelineStep

\* A goroutine of an od-worker sets the detection row.
LEMMA DetectionMoves ==
    ASSUME TypeOK, SoleDetector, DetectedFirst, NEW s \in Slots, InDetection(s),
           NEW p, NEW m, NEW a, RunTo(s, p, OD, m, a),
           p \in {"exec", "record", "failTask"},
           UNCHANGED task, NEW v, SetStage(run[s].task, OD, v),
           p = "exec" => v = "running", p = "record" => v = "success"
    PROVE  DetectedFirst' /\ StaysClosed
<1>0. ~At(s, "free")
  BY DEF InDetection, At
<1>t. PICK t \in Tasks : t = run[s].task
  BY <1>0, BusyRun
<1>1. ~IsRS(s) /\ stage[t][OD] # "success"
  BY <1>0, <1>t DEF DetectedFirst, Orderly
<1>2. /\ stage'[t][OD] = IF stage[t][OD] = "absent" THEN "absent" ELSE v
      /\ \A u \in Tasks \ {t} : stage'[u] = stage[u]
  BY <1>t, StageNumbers, StageSet
<1>3. /\ \A x \in Slots \ {s} : run'[x] = run[x]
      /\ run'[s].pc = p /\ run'[s].k = OD /\ run'[s].task = t
  BY <1>t DEF RunTo
<1>4. Over(t) => Over(t)'
  BY <1>1, <1>2 DEF Over
<1>5. Orderly(s)'
  BY <1>1, <1>2, <1>3 DEF Orderly, InDetection, Over, At, IsRS
<1>6. \A x \in Slots : ~IsRS(x) => x = s
  BY <1>1 DEF SoleDetector
<1>7. task'[t] = "completed" => Over(t)'
  BY <1>1, <1>4 DEF DetectedFirst
<1>8. stage'[t][OD] = "running" => ~Over(t)
  BY <1>1, <1>2 DEF Over
<1> QED
  BY <1>t, <1>2, <1>3, <1>4, <1>5, <1>6, <1>7, <1>8, SlotMoves

\* Another stage's row.
LEMMA OtherStageMoves ==
    ASSUME TypeOK, DetectedFirst, NEW s \in Slots, ~At(s, "free"), run[s].k # OD,
           NEW p, NEW m, NEW a, RunTo(s, p, run[s].k, m, a),
           p \in {"exec", "record", "failTask"},
           UNCHANGED task, NEW v, SetStage(run[s].task, run[s].k, v)
    PROVE  DetectedFirst' /\ StaysClosed
<1>t. PICK t \in Tasks, k \in Stages : t = run[s].task /\ k = run[s].k
  BY BusyRun, RunFields
<1>1. IsRS(s) /\ k # OD
  BY <1>t DEF DetectedFirst, Orderly
<1>2. /\ stage'[t][OD] = stage[t][OD]
      /\ \A u \in Tasks \ {t} : stage'[u] = stage[u]
  BY <1>t, <1>1, StageSet
<1>3. /\ \A x \in Slots \ {s} : run'[x] = run[x]
      /\ run'[s].pc = p /\ run'[s].k = k /\ run'[s].task = t
  BY <1>t DEF RunTo
<1>5. Orderly(s)'
  BY <1>1, <1>3 DEF Orderly, InDetection, Over, At, IsRS
<1>7. task'[t] = "completed" => Over(t)'
  BY <1>1, <1>2 DEF DetectedFirst, Over
<1> QED
  BY <1>t, <1>2, <1>3, <1>5, <1>7, SlotMoves

LEMMA StageDetected ==
    ASSUME TypeOK, SoleDetector, DetectedFirst, NEW s \in Slots, StageStep(s)
    PROVE  DetectedFirst' /\ StaysClosed
<1>0. /\ ~At(s, "free") /\ ~Fault /\ run \in [Slots -> Run] /\ Orderly(s)
      /\ run[s].task \in Tasks
  BY RunStepShape, NothingFails, BusyRun DEF RunStep, TypeOK, RunTypes, DetectedFirst
<1>1. CASE BeginStage(s)
  <2>1. /\ SetStage(run[s].task, run[s].k, "running") /\ UNCHANGED task
        /\ run' = [run EXCEPT ![s].pc = "exec", ![s].attempt = 1]
    BY <1>0, <1>1 DEF BeginStage
  <2>2. RunTo(s, "exec", run[s].k, run[s].skip, 1)
    BY <1>0, <2>1, PCs, AttemptRunTo
  <2>3. CASE run[s].k = OD
    <3>1. InDetection(s)
      BY <1>1, <2>3, StageNumbers DEF BeginStage, SoleDetector, InDetection, Prep, OD
    <3> QED
      BY <2>1, <2>2, <2>3, <3>1, DetectionMoves
  <2>4. CASE run[s].k # OD
    BY <1>0, <2>1, <2>2, <2>4, OtherStageMoves
  <2> QED
    BY <2>3, <2>4
<1>2. CASE ExecSuccess(s) \/ ExecFailure(s)
  <2>1. run[s].pc = "exec" /\ UNCHANGED <<task, stage>>
    BY <1>2 DEF ExecSuccess, ExecFailure, At
  <2>2. \A p \in {"exec", "succeed", "failRow"} : p \in PC /\ OrderlyAt(s, p, run[s].k)
    BY <1>0, <2>1, PCs DEF Orderly, OrderlyAt, InDetection
  <2>3. CASE \E p \in {"succeed", "failRow"} : Goto(s, p)
    BY <1>0, <2>1, <2>2, <2>3, GotoMoves
  <2>4. CASE run' = [run EXCEPT ![s].attempt = run[s].attempt + 1]
    <3> DEFINE a == run[s].attempt + 1
    <3>1. a \in Nat
      BY <1>0, RunFields
    <3>2. run' = [run EXCEPT ![s].attempt = a]
      BY <2>4
    <3> HIDE DEF a
    <3>3. RunTo(s, run[s].pc, run[s].k, run[s].skip, a)
      BY <1>0, <3>1, <3>2, PCs, AttemptRunTo, Zenon
    <3> QED
      BY <1>0, <2>1, <2>2, <3>3, MovesOn
  <2> QED
    BY <1>2, <2>3, <2>4, Zenon DEF ExecSuccess, ExecFailure
<1>3. CASE Succeed(s) \/ FailStageRow(s)
  <2>1. PICK v, p : /\ SetStage(run[s].task, run[s].k, v) /\ Goto(s, p) /\ UNCHANGED task
                    /\ run[s].pc \in {"succeed", "failRow"}
                    /\ \/ v = "success" /\ p = "record"
                       \/ v = "failed" /\ p = "failTask"
    BY <1>0, <1>3 DEF Succeed, FailStageRow, At
  <2>2. RunTo(s, p, run[s].k, run[s].skip, run[s].attempt)
    BY <1>0, <2>1, PCs, GotoRunTo
  <2>3. CASE run[s].k = OD
    BY <2>1, <2>2, <2>3, DetectionMoves DEF InDetection
  <2>4. CASE run[s].k # OD
    BY <1>0, <2>1, <2>2, <2>4, OtherStageMoves
  <2> QED
    BY <2>3, <2>4
<1>4. CASE RecordArtifacts(s)
  <2>1. Advance(s) /\ At(s, "record") /\ UNCHANGED <<task, stage>>
    BY <1>4 DEF RecordArtifacts
  <2> QED
    BY <1>0, <2>1, AdvanceMoves DEF Orderly
<1>5. CASE FailTaskRow(s)
  <2>1. /\ Goto(s, "fail") /\ UNCHANGED stage
        /\ \E v : SetTask(run[s].task, v) /\ (v = "completed" => Over(run[s].task))
    BY <1>0, <1>5 DEF FailTaskRow
  <2>2. "fail" \in PC /\ OrderlyAt(s, "fail", run[s].k)
    BY <1>0, PCs DEF Orderly, OrderlyAt
  <2> QED
    BY <1>0, <2>1, <2>2, GotoMoves
<1> QED
  BY <1>1, <1>2, <1>3, <1>4, <1>5 DEF StageStep

LEMMA EndDetected ==
    ASSUME TypeOK, DetectedFirst, NEW s \in Slots, EndStep(s)
    PROVE  DetectedFirst' /\ StaysClosed
<1>0. ~At(s, "free") /\ Orderly(s) /\ run[s].task \in Tasks
  BY RunStepShape, BusyRun DEF RunStep, DetectedFirst
<1>1. CASE FinishTaskWithError(s) \/ FinishTaskCompleted(s)
  <2>1. /\ Goto(s, "ack") /\ UNCHANGED stage
        /\ \/ UNCHANGED task
           \/ \E v : SetTask(run[s].task, v) /\ (v = "completed" => Over(run[s].task))
    BY <1>0, <1>1 DEF FinishTaskWithError, FinishTaskCompleted, Orderly
  <2>2. "ack" \in PC /\ OrderlyAt(s, "ack", run[s].k)
    BY <1>0, PCs DEF Orderly, OrderlyAt
  <2> QED
    BY <1>0, <2>1, <2>2, GotoMoves
<1>2. CASE AckJob(s)
  <2>1. \A x \in Slots : run'[x] = run[x] \/ run'[x].pc = "free"
    BY <1>2, AckShape, FreeType
  <2>2. UNCHANGED <<task, stage>>
    BY <1>2 DEF AckJob
  <2>3. \A x \in Slots : ~At(x, "free") => run[x].task # NoTask
    BY BusyRun, ConstantsAssumption
  <2> QED
    BY <2>1, <2>2, <2>3, RowsElsewhere, ConstantsAssumption
<1> QED
  BY <1>1, <1>2 DEF EndStep

\* The CreateTask call of a task nobody works on yet.
LEMMA HandlerDetected ==
    ASSUME TypeOK, Unstarted, DetectedFirst, NEW t \in Tasks,
           HandlerStep(t) \/ \E d \in DetectRequests : CreateTask(t, d)
    PROVE  DetectedFirst' /\ StaysClosed
<1>1. handler[t] # "ended" /\ UNCHANGED run
  BY Zenon DEF HandlerStep, CreateTask, CreateStage, DeleteTask, EnqueueTask
<1>2. task[t] \in {"absent", "pending"} /\ \A s \in Slots : ~At(s, "free") => run[s].task # t
  BY <1>1, JobsStarted DEF Unstarted, Untouched
<1>3. UNCHANGED task \/ \E v \in {"pending", "absent"} : SetTask(t, v)
  BY DEF HandlerStep, CreateTask, CreateStage, DeleteTask, EnqueueTask
<1>4. \/ UNCHANGED stage
      \/ \E k \in Stages : stage' = [stage EXCEPT ![t][k] = "pending"]
      \/ stage' = [stage EXCEPT ![t] = [k \in Stages |-> "absent"]]
  BY Zenon DEF HandlerStep, CreateTask, CreateStage, DeleteTask, EnqueueTask
<1>5. /\ \A u \in Tasks \ {t} : task'[u] = task[u] /\ stage'[u] = stage[u]
      /\ task'[t] # "completed"
  BY <1>2, <1>3, <1>4 DEF SetTask, TypeOK, RowTypes
<1> QED
  BY <1>1, <1>2, <1>5, RowsElsewhere

\* A goroutine starts in order.
LEMMA ProcessDetected ==
    ASSUME TypeOK, DetectedFirst, NEW c \in Receivers, ProcessJob(c)
    PROVE  DetectedFirst' /\ StaysClosed
<1>1. PICK s \in Slots :
        /\ \A x \in Slots \ {s} : run'[x] = run[x]
        /\ run'[s].pc = IF IsRS(s) THEN "claim" ELSE "stage"
        /\ run'[s].k = IF IsRS(s) THEN 1 ELSE OD
  BY ProcessShape
<1>2. UNCHANGED <<task, stage>>
  BY DEF ProcessJob
<1>3. Orderly(s)'
  BY <1>1 DEF Orderly, InDetection, At, IsRS
<1>4. \A x \in Slots \ {s} : Orderly(x)'
  BY <1>1, <1>2 DEF DetectedFirst, Orderly, InDetection, Over, At
<1> QED
  BY <1>2, <1>3, <1>4 DEF DetectedFirst, Over, StaysClosed

LEMMA NextDetected ==
    ASSUME TypeOK, Unstarted, SoleDetector, FlagSet, DetectedFirst, [Next]_vars
    PROVE  DetectedFirst' /\ StaysClosed
<1>0. \A x \in Slots : ~At(x, "free") => run[x].task # NoTask
  BY BusyRun, ConstantsAssumption
<1>1. ASSUME UNCHANGED <<task, stage>>,
             \A x \in Slots : run'[x] = run[x] \/ run'[x].pc = "free"
      PROVE  DetectedFirst' /\ StaysClosed
  BY <1>0, <1>1, RowsElsewhere, ConstantsAssumption
<1>2. ASSUME NEW p \in Procs, ProcStep(p) \/ Crash(p)
      PROVE  DetectedFirst' /\ StaysClosed
  <2>1. UNCHANGED <<task, stage>>
    BY <1>2, Zenon DEF ProcStep, Restart, BootEnqueue, BootDone, Crash
  <2>2. \A x \in Slots : run'[x] = run[x] \/ run'[x].pc = "free"
    BY <1>2, FreeType DEF ProcStep, Restart, BootEnqueue, BootDone, Crash
  <2> QED
    BY <1>1, <2>1, <2>2
<1>3. ASSUME \/ \E i \in DOMAIN queue["rs"] : IdleOrphan(i) \/ IdleHeld(i)
             \/ \E q \in Queues : LoseGroup(q)
             \/ \E w \in Workers : ReceiveStep(w)
             \/ \E c \in Receivers : ReleaseAck(c) \/ ReleaseAdd(c)
             \/ UNCHANGED vars
      PROVE  DetectedFirst' /\ StaysClosed
  <2>1. UNCHANGED <<task, stage, run>>
    BY <1>3, RedisSameJobs DEF ReleaseAck, ReleaseAdd, vars
  <2> QED
    BY <1>1, <2>1
<1>4. ASSUME NEW s \in Slots, RunStep(s)
      PROVE  DetectedFirst' /\ StaysClosed
  BY <1>4, PipelineDetected, StageDetected, EndDetected DEF RunStep
<1> QED
  BY <1>2, <1>3, <1>4, HandlerDetected, ProcessDetected DEF Next, HandleStep

LEMMA InitDetected == Init => FlagSet /\ DetectedFirst
<1> SUFFICES ASSUME Init
             PROVE  FlagSet /\ DetectedFirst
  OBVIOUS
<1>1. \A s \in Slots : At(s, "free")
  BY FreeType DEF Init, At
<1>2. \A t \in Tasks : handler[t] = "none" /\ task[t] = "absent"
  BY DEF Init
<1>3. \A q \in Queues : DOMAIN queue[q] = {}
  BY DEF Init
<1> QED
  BY <1>1, <1>2, <1>3 DEF FlagSet, DetectedFirst, Orderly

\* With one od-worker that detects for one task at a time, and while no command fails, a
\* completed task's detection row is never set back to running, whatever is redelivered,
\* killed or enqueued twice: shouldSkipODJob keeps what its comment promises.  With a
\* second od-worker it does not (the race between its queries and the UPDATE).
THEOREM DetectionStaysClosed == SoleDetector => (Spec => DetectionNotReopened)
<1> SUFFICES ASSUME SoleDetector
             PROVE  Spec => DetectionNotReopened
  OBVIOUS
<1> DEFINE Inv == TypeOK /\ Unstarted /\ FlagSet /\ DetectedFirst
<1>1. Init => Inv
  BY InitType, InitUnstarted, InitDetected
<1>2. Inv /\ [Next]_vars => Inv' /\ StaysClosed
  <2>1. Inv /\ UNCHANGED vars => FlagSet'
    BY DEF vars, FlagSet, At
  <2> QED
    BY <2>1, NextType, NextUnstarted, NextFlagSet, NextDetected
<1>3. Inv /\ [Next]_vars
        => [\A t \in Tasks : (task[t] = "completed" /\ stage[t][OD] # "running")
                                => stage'[t][OD] # "running"]_vars
  BY <1>2 DEF StaysClosed
<1> HIDE DEF Inv
<1> QED
  BY <1>1, <1>2, <1>3, PTL DEF Spec, DetectionNotReopened
=============================================================================
