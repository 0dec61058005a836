------------------------- MODULE TaskPipelineProofs -------------------------
(***************************************************************************)
(* TaskPipeline is type-correct, for any number of tasks, workers, places, *)
(* stages and retries and for any budget of hazards.                       *)
(*                                                                         *)
(* The first part says what the stream commands and the updates of one row *)
(* and one goroutine do, the second proves TypeOK, and the third gives each*)
(* step its shape: what it does to the two streams, to the receivers and to*)
(* the places.  TaskPipelineSafety uses them all.                          *)
(***************************************************************************)
EXTENDS TaskPipeline, TLAPS

-----------------------------------------------------------------------------
(* Helpers: the stream commands.  None of them loses, moves or changes a   *)
(* job; XADD alone lets a stream grow.                                      *)

\* Stream b holds the jobs of stream a, at the same positions.
SameJobs(Task, a, b) ==
    /\ b \in Seq(Entry(Task))
    /\ DOMAIN b = DOMAIN a
    /\ \A i \in DOMAIN a : b[i].task = a[i].task

\* A function on the positions of a stream, with entries as values, is a stream.
LEMMA FunctionIsStream ==
    ASSUME NEW Task, NEW a \in Seq(Entry(Task)), NEW b \in [DOMAIN a -> Entry(Task)]
    PROVE  b \in Seq(Entry(Task)) /\ DOMAIN b = DOMAIN a
<1>1. DOMAIN a = 1 .. Len(a) /\ Len(a) \in Nat
  OBVIOUS
<1> QED
  BY <1>1

\* Every stream is such a function.
LEMMA StreamIsFunction ==
    ASSUME NEW Task, NEW a \in Seq(Entry(Task))
    PROVE  a \in [DOMAIN a -> Entry(Task)]
  OBVIOUS

\* Resetting the idle flag of an entry, with or without its delivery state, leaves
\* an entry that names the same task (the updates of ReadRSJob, AckRSJob and
\* ReclaimStaleRSJobs).
LEMMA EntryUpdate ==
    ASSUME NEW Task, NEW e \in Entry(Task), NEW st \in EntryState, NEW idle \in BOOLEAN
    PROVE  /\ [e EXCEPT !.st = st, !.idle = idle] \in Entry(Task)
           /\ [e EXCEPT !.st = st, !.idle = idle].task = e.task
           /\ [e EXCEPT !.idle = idle] \in Entry(Task)
           /\ [e EXCEPT !.idle = idle].task = e.task
  BY Zenon DEF Entry

\* XREADGROUP delivers without changing the jobs (ReadRSJob, ReadODJob).
LEMMA DeliverSame ==
    ASSUME NEW Task, NEW a \in Seq(Entry(Task)), NEW i \in DOMAIN a
    PROVE  SameJobs(Task, a, Deliver(a, i))
<1>1. a \in [DOMAIN a -> Entry(Task)] /\ "pending" \in EntryState
  BY StreamIsFunction DEF EntryState
<1>2. Deliver(a, i) \in [DOMAIN a -> Entry(Task)]
  BY <1>1, Zenon DEF Deliver, Entry
<1>3. \A j \in DOMAIN a : Deliver(a, i)[j].task = a[j].task
  BY <1>1, Zenon DEF Deliver, Entry
<1> QED
  BY <1>2, <1>3, FunctionIsStream DEF SameJobs

\* An entry grows idle without changing the jobs.
LEMMA GrowIdleSame ==
    ASSUME NEW Task, NEW a \in Seq(Entry(Task)), NEW i \in DOMAIN a
    PROVE  SameJobs(Task, a, GrowIdle(a, i))
<1>1. a \in [DOMAIN a -> Entry(Task)]
  BY StreamIsFunction
<1>2. GrowIdle(a, i) \in [DOMAIN a -> Entry(Task)]
  BY <1>1, Zenon DEF GrowIdle, Entry
<1>3. \A j \in DOMAIN a : GrowIdle(a, i)[j].task = a[j].task
  BY <1>1, Zenon DEF GrowIdle, Entry
<1> QED
  BY <1>2, <1>3, FunctionIsStream DEF SameJobs

\* XACK changes no job, whatever the state of the entry (AckRSJob, AckODJob).
LEMMA XAckSame ==
    ASSUME NEW Task, NEW a \in Seq(Entry(Task)), NEW i \in DOMAIN a
    PROVE  SameJobs(Task, a, XAck(a, i))
<1> DEFINE st == IF a[i].st = "pending" THEN "acked" ELSE a[i].st
           e == [a[i] EXCEPT !.st = st, !.idle = FALSE]
<1>1. a \in [DOMAIN a -> Entry(Task)]
  BY StreamIsFunction
<1>2. a[i].st \in EntryState
  BY <1>1 DEF Entry
<1>3. st \in EntryState
  BY <1>2 DEF EntryState
<1>4. a[i] \in Entry(Task)
  BY <1>1
<1>5. e \in Entry(Task) /\ e.task = a[i].task
  BY <1>3, <1>4, EntryUpdate, ZenonT(60)
<1>6. XAck(a, i) = [a EXCEPT ![i] = e]
  <2>1. \A x : [a EXCEPT ![i].st = x, ![i].idle = FALSE]
                  = [a EXCEPT ![i] = [a[i] EXCEPT !.st = x, !.idle = FALSE]]
    BY <1>1, Zenon
  <2> QED
    BY <2>1, Zenon DEF XAck
<1> HIDE DEF e
<1>7. XAck(a, i) \in [DOMAIN a -> Entry(Task)]
  BY <1>1, <1>5, <1>6
<1>8. \A j \in DOMAIN a : XAck(a, i)[j].task = a[j].task
  BY <1>1, <1>5, <1>6
<1> QED
  BY <1>7, <1>8, FunctionIsStream DEF SameJobs

\* XAUTOCLAIM changes no job (ReclaimStaleRSJobs).
LEMMA AutoClaimSame ==
    ASSUME NEW Task, NEW a \in Seq(Entry(Task))
    PROVE  SameJobs(Task, a, AutoClaim(a))
<1>1. \A j \in DOMAIN a : /\ AutoClaim(a)[j] \in Entry(Task)
                          /\ AutoClaim(a)[j].task = a[j].task
  <2> SUFFICES ASSUME NEW j \in DOMAIN a
               PROVE  /\ AutoClaim(a)[j] \in Entry(Task)
                      /\ AutoClaim(a)[j].task = a[j].task
    OBVIOUS
  <2>1. a[j] \in Entry(Task) /\ "new" \in EntryState
    BY StreamIsFunction DEF EntryState
  <2>2. CASE j \in Claimable(a)
    <3>1. AutoClaim(a)[j] = [a[j] EXCEPT !.idle = FALSE]
      BY <2>2, Zenon DEF AutoClaim
    <3> QED
      BY <2>1, <3>1, EntryUpdate, Zenon
  <2>3. CASE j \notin Claimable(a)
    BY <2>1, <2>3, Zenon DEF AutoClaim
  <2> QED
    BY <2>2, <2>3
<1>2. AutoClaim(a) \in [DOMAIN a -> Entry(Task)]
  BY <1>1, Zenon DEF AutoClaim
<1> QED
  BY <1>1, <1>2, FunctionIsStream DEF SameJobs

\* Creating the group again makes entries new and changes no job
\* (EnsureRSConsumerGroup, EnsureODConsumerGroup).
LEMMA RegroupSame ==
    ASSUME NEW Task, NEW a \in Seq(Entry(Task))
    PROVE  SameJobs(Task, a, Regroup(a))
<1>1. \A j \in DOMAIN a : /\ Regroup(a)[j] \in Entry(Task)
                          /\ Regroup(a)[j].task = a[j].task
  <2> SUFFICES ASSUME NEW j \in DOMAIN a
               PROVE  /\ Regroup(a)[j] \in Entry(Task)
                      /\ Regroup(a)[j].task = a[j].task
    OBVIOUS
  <2>1. a[j] \in Entry(Task) /\ "new" \in EntryState
    BY StreamIsFunction DEF EntryState
  <2>2. Regroup(a)[j] = [a[j] EXCEPT !.st = "new", !.idle = FALSE]
    BY Zenon DEF Regroup
  <2> QED
    BY <2>1, <2>2, Zenon DEF Entry
<1>2. Regroup(a) \in [DOMAIN a -> Entry(Task)]
  BY <1>1, Zenon DEF Regroup
<1> QED
  BY <1>1, <1>2, FunctionIsStream DEF SameJobs

\* XADD appends one job and keeps the others (EnqueueRSJob, EnqueueODJob).
LEMMA XAddGrows ==
    ASSUME NEW Task, NEW a \in Seq(Entry(Task)), NEW t \in Task, NEW d \in BOOLEAN
    PROVE  /\ XAdd(a, t, d) \in Seq(Entry(Task))
           /\ DOMAIN XAdd(a, t, d) = DOMAIN a \cup {Len(a) + 1}
           /\ \A i \in DOMAIN a : XAdd(a, t, d)[i] = a[i]
           /\ XAdd(a, t, d)[Len(a) + 1].task = t
<1> DEFINE e == [task |-> t, detect |-> d, st |-> "new", idle |-> FALSE]
<1>1. e \in Entry(Task) /\ e.task = t
  BY DEF Entry, EntryState
<1>2. XAdd(a, t, d) = Append(a, e)
  BY DEF XAdd
<1> HIDE DEF e
<1> QED
  BY <1>1, <1>2

-----------------------------------------------------------------------------
(* Helpers: how the single steps change one row, one goroutine, one stream.*)

LEMMA StageNumbers ==
    /\ NumPrep \in Nat
    /\ OD \in Stages /\ 1 \in Stages /\ Prep \subseteq Stages
    /\ \A k \in Stages : k # OD => k + 1 \in Stages
    /\ Stages = Prep \cup {OD}
  BY ConstantsAssumption DEF OD, Prep, Stages

LEMMA SpendType ==
    ASSUME spent \in [Hazards -> Nat], NEW h \in Hazards, Spend(h)
    PROVE  spent' \in [Hazards -> Nat]
  BY DEF Spend

LEMMA FaultType ==
    ASSUME spent \in [Hazards -> Nat], Fault \/ NoFault
    PROVE  spent' \in [Hazards -> Nat]
<1>1. "fault" \in Hazards
  BY DEF Hazards
<1> QED
  BY <1>1, SpendType DEF Fault, NoFault

LEMMA SetTaskType ==
    ASSUME task \in [Tasks -> TaskStatus], NEW t \in Tasks, NEW v \in TaskStatus,
           SetTask(t, v)
    PROVE  /\ task' \in [Tasks -> TaskStatus]
           /\ task'[t] = v
           /\ \A u \in Tasks \ {t} : task'[u] = task[u]
  BY DEF SetTask

LEMMA SetStageType ==
    ASSUME stage \in [Tasks -> [Stages -> StageStatus]],
           NEW t \in Tasks, NEW k \in Stages, NEW v \in StageStatus, SetStage(t, k, v)
    PROVE  /\ stage' \in [Tasks -> [Stages -> StageStatus]]
           /\ stage'[t][k] \in {stage[t][k], v}
           /\ \A u \in Tasks, j \in Stages : 
                 u # t \/ j # k => stage'[u][j] = stage[u][j]
  BY DEF SetStage

\* Goroutine s has gone on to pc p, stage n, skip set m and attempt a.
RunTo(s, p, n, m, a) ==
    /\ run' \in [Slots -> Run]
    /\ \A x \in Slots \ {s} : run'[x] = run[x]
    /\ run'[s].pc = p
    /\ run'[s].k = n
    /\ run'[s].skip = m
    /\ run'[s].attempt = a
    /\ run'[s].msg = run[s].msg
    /\ run'[s].task = run[s].task
    /\ run'[s].detect = run[s].detect

LEMMA RunFields ==
    ASSUME NEW r \in Run
    PROVE  /\ r.pc \in PC /\ r.msg \in Nat /\ r.task \in Tasks \cup {NoTask}
           /\ r.detect \in BOOLEAN /\ r.k \in Stages /\ r.skip \in SUBSET Stages
           /\ r.attempt \in Nat
  BY DEF Run

LEMMA GotoRunTo ==
    ASSUME run \in [Slots -> Run], NEW s \in Slots, NEW p \in PC, Goto(s, p)
    PROVE  RunTo(s, p, run[s].k, run[s].skip, run[s].attempt)
  BY Zenon DEF Goto, RunTo, Run

LEMMA AdvanceRunTo ==
    ASSUME run \in [Slots -> Run], NEW s \in Slots, Advance(s)
    PROVE  \/ run[s].k = OD /\ RunTo(s, "finish", run[s].k, run[s].skip, run[s].attempt)
           \/ run[s].k # OD /\ RunTo(s, "stage", run[s].k + 1, run[s].skip, 0)
<1> DEFINE n == run[s].k + 1
<1>1. {"finish", "stage"} \subseteq PC /\ 0 \in Nat /\ run[s] \in Run
  BY DEF PC
<1>2. CASE run[s].k = OD
  <2>1. run' = [run EXCEPT ![s] = [run[s] EXCEPT !.pc = "finish"]]
    BY <1>2, Zenon DEF Advance, NextStage
  <2>2. RunTo(s, "finish", run[s].k, run[s].skip, run[s].attempt)
    BY <1>1, <2>1, Zenon DEF RunTo, Run
  <2> QED
    BY <1>2, <2>2
<1>3. CASE run[s].k # OD
  <2>1. n \in Stages
    BY <1>1, <1>3, RunFields, StageNumbers
  <2>2. run' = [run EXCEPT ![s] = [run[s] EXCEPT !.pc = "stage", !.k = n, !.attempt = 0]]
    BY <1>3, Zenon DEF Advance, NextStage
  <2> HIDE DEF n
  <2>3. RunTo(s, "stage", n, run[s].skip, 0)
    BY <1>1, <2>1, <2>2, Zenon DEF RunTo, Run
  <2> QED
    BY <1>3, <2>3 DEF n
<1> QED
  BY <1>2, <1>3

\* The remaining updates: of the skip set, and of the number of attempts.
LEMMA SkipRunTo ==
    ASSUME run \in [Slots -> Run], NEW s \in Slots, NEW p \in PC, NEW m \in SUBSET Stages
    PROVE  /\ run' = [run EXCEPT ![s].pc = p, ![s].skip = m]
                => RunTo(s, p, run[s].k, m, run[s].attempt)
           /\ run' = [run EXCEPT ![s].skip = m]
                => RunTo(s, run[s].pc, run[s].k, m, run[s].attempt)
<1>1. ASSUME run' = [run EXCEPT ![s].pc = p, ![s].skip = m]
      PROVE  RunTo(s, p, run[s].k, m, run[s].attempt)
  BY <1>1, Zenon DEF RunTo, Run
<1>2. ASSUME run' = [run EXCEPT ![s].skip = m]
      PROVE  RunTo(s, run[s].pc, run[s].k, m, run[s].attempt)
  BY <1>2, Zenon DEF RunTo, Run
<1> QED
  BY <1>1, <1>2

LEMMA AttemptRunTo ==
    ASSUME run \in [Slots -> Run], NEW s \in Slots, NEW p \in PC, NEW a \in Nat
    PROVE  /\ run' = [run EXCEPT ![s].pc = p, ![s].attempt = a]
                => RunTo(s, p, run[s].k, run[s].skip, a)
           /\ run' = [run EXCEPT ![s].attempt = a]
                => RunTo(s, run[s].pc, run[s].k, run[s].skip, a)
<1>1. ASSUME run' = [run EXCEPT ![s].pc = p, ![s].attempt = a]
      PROVE  RunTo(s, p, run[s].k, run[s].skip, a)
  BY <1>1, Zenon DEF RunTo, Run
<1>2. ASSUME run' = [run EXCEPT ![s].attempt = a]
      PROVE  RunTo(s, run[s].pc, run[s].k, run[s].skip, a)
  BY <1>2, Zenon DEF RunTo, Run
<1> QED
  BY <1>1, <1>2

LEMMA FreeType == Free \in Run /\ Free.pc = "free" /\ Free.skip = {}
<1>1. "free" \in PC /\ 0 \in Nat
  BY DEF PC
<1>2. 1 \in Stages /\ {} \in SUBSET Stages
  BY StageNumbers
<1> QED
  BY <1>1, <1>2 DEF Run, Free

LEMMA NewRunType ==
    ASSUME NEW s \in Slots, NEW m \in Nat, NEW e \in Entry(Tasks)
    PROVE  /\ NewRun(s, m, e) \in Run
           /\ NewRun(s, m, e).pc = IF IsRS(s) THEN "claim" ELSE "stage"
           /\ NewRun(s, m, e).msg = m
           /\ NewRun(s, m, e).task = e.task
           /\ NewRun(s, m, e).k = IF IsRS(s) THEN 1 ELSE OD
           /\ NewRun(s, m, e).skip = {}
<1> DEFINE p == IF IsRS(s) THEN "claim" ELSE "stage"
           n == IF IsRS(s) THEN 1 ELSE OD
<1>1. p \in PC /\ n \in Stages
  BY StageNumbers DEF PC
<1>2. e.task \in Tasks \cup {NoTask} /\ e.detect \in BOOLEAN
  BY DEF Entry
<1>3. NewRun(s, m, e) = [Free EXCEPT !.pc = p, !.msg = m, !.task = e.task,
                                     !.detect = e.detect, !.k = n]
  BY Zenon DEF NewRun
<1> HIDE DEF p, n
<1>4. /\ NewRun(s, m, e) \in Run
      /\ NewRun(s, m, e).pc = p /\ NewRun(s, m, e).msg = m
      /\ NewRun(s, m, e).task = e.task /\ NewRun(s, m, e).k = n
      /\ NewRun(s, m, e).skip = Free.skip
  BY <1>1, <1>2, <1>3, FreeType, ZenonT(60) DEF Run
<1> QED
  BY <1>4, FreeType DEF p, n

-----------------------------------------------------------------------------
(* Type correctness.                                                       *)

\* No stream loses or changes a job.
StreamsGrow ==
    /\ queue' \in [Queues -> Seq(Entry(Tasks))]
    /\ \A q \in Queues : /\ DOMAIN queue[q] \subseteq DOMAIN queue'[q]
                         /\ \A i \in DOMAIN queue[q] :
                               queue'[q][i].task = queue[q][i].task

LEMMA QueueOfQueues == \A w : QueueOf(w) \in Queues
  BY DEF QueueOf, Queues

LEMMA UnchangedGrows ==
    ASSUME StreamTypes, UNCHANGED queue
    PROVE  StreamsGrow
  BY DEF StreamTypes, StreamsGrow

LEMMA SameJobsGrows ==
    ASSUME StreamTypes, NEW q \in Queues, NEW b, SameJobs(Tasks, queue[q], b),
           queue' = [queue EXCEPT ![q] = b]
    PROVE  StreamsGrow
<1>1. /\ b \in Seq(Entry(Tasks))
      /\ \A i \in DOMAIN queue[q] : i \in DOMAIN b /\ b[i].task = queue[q][i].task
  BY DEF SameJobs
<1>2. queue' \in [Queues -> Seq(Entry(Tasks))]
  BY <1>1 DEF StreamTypes
<1>3. ASSUME NEW x \in Queues, NEW i \in DOMAIN queue[x]
      PROVE  i \in DOMAIN queue'[x] /\ queue'[x][i].task = queue[x][i].task
  <2>1. CASE x = q
    <3>1. queue'[x] = b
      BY <2>1 DEF StreamTypes
    <3> QED
      BY <1>1, <1>3, <2>1, <3>1
  <2>2. CASE x # q
    <3>1. queue'[x] = queue[x]
      BY <2>2 DEF StreamTypes
    <3> QED
      BY <1>3, <3>1
  <2> QED
    BY <2>1, <2>2
<1> QED
  BY <1>2, <1>3 DEF StreamsGrow

LEMMA XAddStreamsGrow ==
    ASSUME StreamTypes, NEW q \in Queues, NEW t \in Tasks, NEW d \in BOOLEAN,
           queue' = [queue EXCEPT ![q] = XAdd(queue[q], t, d)]
    PROVE  StreamsGrow
<1> DEFINE a == queue[q]
           b == XAdd(a, t, d)
<1>1. a \in Seq(Entry(Tasks))
  BY DEF StreamTypes
<1>2. /\ b \in Seq(Entry(Tasks))
      /\ DOMAIN b = DOMAIN a \cup {Len(a) + 1}
      /\ \A i \in DOMAIN a : b[i] = a[i]
  <2> HIDE DEF a
  <2>1. XAdd(a, t, d) \in Seq(Entry(Tasks))
    BY <1>1, XAddGrows
  <2>2. DOMAIN XAdd(a, t, d) = DOMAIN a \cup {Len(a) + 1}
    BY <1>1, XAddGrows, ZenonT(60)
  <2>3. \A i \in DOMAIN a : XAdd(a, t, d)[i] = a[i]
    BY <1>1 DEF XAdd
  <2> QED
    BY <2>1, <2>2, <2>3 DEF b
<1>3. queue' = [queue EXCEPT ![q] = b]
  OBVIOUS
<1> HIDE DEF b
<1>4. \A i \in DOMAIN queue[q] : i \in DOMAIN b /\ b[i].task = queue[q][i].task
  BY <1>2
<1>5. queue' \in [Queues -> Seq(Entry(Tasks))]
  BY <1>2, <1>3 DEF StreamTypes
<1>6. ASSUME NEW x \in Queues, NEW i \in DOMAIN queue[x]
      PROVE  i \in DOMAIN queue'[x] /\ queue'[x][i].task = queue[x][i].task
  <2>1. CASE x = q
    <3>1. queue'[x] = b
      BY <1>3, <2>1 DEF StreamTypes
    <3> QED
      BY <1>4, <1>6, <2>1, <3>1
  <2>2. CASE x # q
    <3>1. queue'[x] = queue[x]
      BY <1>3, <2>2 DEF StreamTypes
    <3> QED
      BY <1>6, <3>1
  <2> QED
    BY <2>1, <2>2
<1> QED
  BY <1>5, <1>6 DEF StreamsGrow

\* A goroutine that is not free has a task, and its message is in its stream.
LEMMA BusyRun ==
    ASSUME TypeOK, NEW s \in Slots, ~At(s, "free")
    PROVE  /\ run[s] \in Run
           /\ run[s].task \in Tasks
           /\ run[s].msg \in DOMAIN queue[QueueOf(s[1])]
<1>1. run[s].msg \in DOMAIN queue[QueueOf(s[1])]
  BY DEF TypeOK, RunTypes
<1>2. queue[QueueOf(s[1])] \in Seq(Entry(Tasks))
  BY QueueOfQueues DEF TypeOK, StreamTypes
<1>3. queue[QueueOf(s[1])][run[s].msg] \in Entry(Tasks)
  BY <1>1, <1>2
<1>4. queue[QueueOf(s[1])][run[s].msg].task \in Tasks
  BY <1>3 DEF Entry
<1>5. run[s].task = queue[QueueOf(s[1])][run[s].msg].task
  BY DEF TypeOK, RunTypes
<1>6. run[s] \in Run
  BY DEF TypeOK, RunTypes
<1> QED
  BY <1>1, <1>4, <1>5, <1>6

\* If no stream loses a job, receivers and goroutines keep what they hold.
LEMMA HeldKept ==
    ASSUME StreamTypes, RunTypes, StreamsGrow, group' \in [Queues -> BOOLEAN],
           inbox' \in [Receivers -> SUBSET Nat],
           release' \in [Receivers -> SUBSET Nat],
           \A c \in Receivers : /\ inbox'[c] \subseteq DOMAIN queue[QueueOf(c[1])]
                                /\ release'[c] \subseteq DOMAIN queue["rs"],
           run' \in [Slots -> Run],
           \A x \in Slots : \/ run'[x].pc = "free"
                            \/ run'[x] = run[x]
                            \/ /\ run[x].pc # "free"
                               /\ run'[x].msg = run[x].msg
                               /\ run'[x].task = run[x].task
    PROVE  StreamTypes' /\ RunTypes'
<1>0. "rs" \in Queues
  BY DEF Queues
<1>1. StreamTypes'
  BY <1>0, QueueOfQueues DEF StreamTypes, StreamsGrow
<1>2. ASSUME NEW x \in Slots, run'[x].pc # "free"
      PROVE  /\ run'[x].msg \in DOMAIN queue'[QueueOf(x[1])]
             /\ run'[x].task = queue'[QueueOf(x[1])][run'[x].msg].task
  <2> DEFINE q == QueueOf(x[1])
  <2>1. /\ run[x].pc # "free"
        /\ run'[x].msg = run[x].msg
        /\ run'[x].task = run[x].task
    BY <1>2
  <2>2. /\ run[x].msg \in DOMAIN queue[q]
        /\ run[x].task = queue[q][run[x].msg].task
    BY <2>1 DEF RunTypes, At
  <2>3. q \in Queues
    BY QueueOfQueues
  <2> HIDE DEF q
  <2>4. /\ run[x].msg \in DOMAIN queue'[q]
        /\ queue'[q][run[x].msg].task = queue[q][run[x].msg].task
    BY <2>2, <2>3 DEF StreamsGrow
  <2> QED
    BY <2>1, <2>2, <2>4 DEF q
<1>3. RunTypes'
  BY <1>2 DEF RunTypes, At
<1> QED
  BY <1>1, <1>3

\* What is left to show of a step of a goroutine.
LEMMA RunStepType ==
    ASSUME TypeOK, NEW s \in Slots, ~At(s, "free"),
           UNCHANGED <<wants, row, handler, proc, todo, release, group, inbox>>,
           task' \in [Tasks -> TaskStatus],
           stage' \in [Tasks -> [Stages -> StageStatus]],
           artifact' \in [Tasks -> SUBSET Stages],
           done' \in [Tasks -> SUBSET Stages],
           spent' \in [Hazards -> Nat],
           StreamsGrow,
           NEW p, NEW n, NEW m, NEW a, RunTo(s, p, n, m, a)
    PROVE  TypeOK'
<1>1. RowTypes' /\ ProcTypes'
  BY DEF TypeOK, RowTypes, ProcTypes
<1>2. StreamTypes' /\ RunTypes'
  <2>1. \A c \in Receivers : /\ inbox'[c] \subseteq DOMAIN queue[QueueOf(c[1])]
                             /\ release'[c] \subseteq DOMAIN queue["rs"]
    BY DEF TypeOK, StreamTypes
  <2>2. /\ group' \in [Queues -> BOOLEAN]
        /\ inbox' \in [Receivers -> SUBSET Nat]
        /\ release' \in [Receivers -> SUBSET Nat]
        /\ run' \in [Slots -> Run]
    BY DEF TypeOK, StreamTypes, RunTo
  <2>3. \A x \in Slots : \/ run'[x] = run[x]
                         \/ /\ run[x].pc # "free"
                            /\ run'[x].msg = run[x].msg
                            /\ run'[x].task = run[x].task
    BY DEF RunTo, At
  <2> QED
    BY <2>1, <2>2, <2>3, HeldKept DEF TypeOK
<1> QED
  BY <1>1, <1>2 DEF TypeOK

LEMMA PCs ==
    /\ "free" \in PC /\ "claim" \in PC /\ "check" \in PC /\ "snapshot" \in PC
    /\ "stage" \in PC /\ "odRow" \in PC /\ "odAdd" \in PC /\ "begin" \in PC
    /\ "exec" \in PC /\ "succeed" \in PC /\ "record" \in PC /\ "failRow" \in PC
    /\ "failTask" \in PC /\ "fail" \in PC /\ "finish" \in PC /\ "ack" \in PC
  BY DEF PC

LEMMA PipelineStepType ==
    ASSUME TypeOK, NEW s \in Slots, PipelineStep(s)
    PROVE  TypeOK'
<1> DEFINE r == run[s]
           t == run[s].task
<1>0. /\ run \in [Slots -> Run]
      /\ task \in [Tasks -> TaskStatus]
      /\ stage \in [Tasks -> [Stages -> StageStatus]]
      /\ artifact \in [Tasks -> SUBSET Stages]
      /\ done \in [Tasks -> SUBSET Stages]
      /\ spent \in [Hazards -> Nat]
      /\ StreamTypes
  BY DEF TypeOK, RunTypes, RowTypes, ProcTypes
<1>b. ~At(s, "free")
  BY DEF PipelineStep, ClaimTask, CheckRunning, SuccessStages, SkipStage, DropSkip,
         SkipDetection, ShouldSkipODJob, ODRowSuccess, ODRowOther, EnqueueOD, AtStage, At
<1>c. r \in Run /\ t \in Tasks
  BY <1>b, BusyRun
<1>1. CASE ClaimTask(s)
  <2>1. PICK p \in PC : Goto(s, p)
    BY <1>1, PCs DEF ClaimTask
  <2>2. task' \in [Tasks -> TaskStatus]
    BY <1>0, <1>1, <1>c, StageNumbers DEF ClaimTask, SetTask, TaskStatus
  <2>3. spent' \in [Hazards -> Nat]
    BY <1>0, <1>1, FaultType DEF ClaimTask
  <2> QED
    BY <1>0, <1>1, <1>b, <2>1, <2>2, <2>3, GotoRunTo, UnchangedGrows, RunStepType
       DEF ClaimTask, rows, api
<1>2. CASE CheckRunning(s)
  <2>1. PICK p \in PC : Goto(s, p)
    BY <1>2, PCs DEF CheckRunning
  <2>2. spent' \in [Hazards -> Nat]
    BY <1>0, <1>2, FaultType DEF CheckRunning
  <2> QED
    BY <1>0, <1>2, <1>b, <2>1, <2>2, GotoRunTo, UnchangedGrows, RunStepType
       DEF CheckRunning, rows, api
<1>3. CASE SuccessStages(s)
  <2> DEFINE found == {k \in Stages : stage[t][k] = "success"}
  <2>1. \E p, n, m, a : RunTo(s, p, n, m, a)
    <3>1. CASE Goto(s, "stage")
      BY <1>0, <3>1, PCs, GotoRunTo
    <3>2. CASE run' = [run EXCEPT ![s].pc = "stage", ![s].skip = found]
      <4>1. found \in SUBSET Stages
        OBVIOUS
      <4> HIDE DEF found
      <4>2. RunTo(s, "stage", r.k, found, r.attempt)
        BY <1>0, <3>2, <4>1, PCs, SkipRunTo, Zenon
      <4> QED
        BY <4>2
    <3> QED
      BY <1>3, <3>1, <3>2, Zenon DEF SuccessStages
  <2>2. spent' \in [Hazards -> Nat]
    BY <1>0, <1>3, FaultType, Zenon DEF SuccessStages
  <2>3. UNCHANGED <<task, rows, stage, api, queue, group, inbox>>
    BY <1>3, Zenon DEF SuccessStages
  <2> QED
    BY <1>0, <1>b, <2>1, <2>2, <2>3, UnchangedGrows, RunStepType DEF rows, api
<1>4. CASE SkipStage(s)
  <2>1. \E p, n, a : RunTo(s, p, n, r.skip, a)
    BY <1>0, <1>4, AdvanceRunTo DEF SkipStage
  <2> QED
    BY <1>0, <1>4, <1>b, <2>1, UnchangedGrows, RunStepType
       DEF SkipStage, rows, api
<1>5. CASE DropSkip(s)
  <2>1. \E p, n, m, a : RunTo(s, p, n, m, a)
    <3> DEFINE m == r.skip \ {r.k}
    <3>1. m \in SUBSET Stages
      BY <1>c, RunFields
    <3>2. run' = [run EXCEPT ![s].skip = m]
      BY <1>5, Zenon DEF DropSkip
    <3> HIDE DEF m
    <3>3. RunTo(s, r.pc, r.k, m, r.attempt)
      BY <1>0, <1>c, <3>1, <3>2, RunFields, SkipRunTo, Zenon
    <3> QED
      BY <3>3
  <2>2. spent' \in [Hazards -> Nat]
    <3>1. Spend("output") \/ Fault \/ NoFault
      BY <1>5, Zenon DEF DropSkip
    <3> QED
      BY <1>0, <3>1, FaultType, SpendType DEF Hazards
  <2>3. UNCHANGED <<task, rows, stage, api, queue, group, inbox>>
    BY <1>5, Zenon DEF DropSkip
  <2> QED
    BY <1>0, <1>b, <2>1, <2>2, <2>3, UnchangedGrows, RunStepType DEF rows, api
<1>6. CASE SkipDetection(s)
  <2>1. \E p, n, m, a : RunTo(s, p, n, m, a)
    <3>1. CASE Advance(s)
      BY <1>0, <3>1, AdvanceRunTo
    <3>2. CASE Goto(s, "fail")
      BY <1>0, <3>2, PCs, GotoRunTo
    <3>3. Advance(s) \/ Goto(s, "fail")
      BY <1>6 DEF SkipDetection
    <3> QED
      BY <3>1, <3>2, <3>3
  <2>2. stage' \in [Tasks -> [Stages -> StageStatus]]
    <3>1. SetStage(t, OD, "success") \/ UNCHANGED stage
      BY <1>6 DEF SkipDetection
    <3> QED
      BY <1>0, <1>c, <3>1, StageNumbers, SetStageType DEF StageStatus
  <2>3. done' \in [Tasks -> SUBSET Stages]
    BY <1>0, <1>6, <1>c, StageNumbers DEF SkipDetection
  <2>4. spent' \in [Hazards -> Nat]
    BY <1>0, <1>6, FaultType DEF SkipDetection
  <2> QED
    BY <1>0, <1>6, <1>b, <2>1, <2>2, <2>3, <2>4, UnchangedGrows, RunStepType
       DEF SkipDetection, rows, api
<1>7. CASE ShouldSkipODJob(s)
  <2>1. PICK p \in PC : Goto(s, p)
    BY <1>7, PCs DEF ShouldSkipODJob
  <2>2. spent' \in [Hazards -> Nat]
    BY <1>0, <1>7, FaultType DEF ShouldSkipODJob
  <2> QED
    BY <1>0, <1>7, <1>b, <2>1, <2>2, GotoRunTo, UnchangedGrows, RunStepType
       DEF ShouldSkipODJob, rows, api
<1>8. CASE ODRowSuccess(s)
  <2>1. PICK p \in PC : Goto(s, p)
    BY <1>8, PCs DEF ODRowSuccess
  <2>2. task' \in [Tasks -> TaskStatus]
    BY <1>0, <1>8, <1>c, StageNumbers DEF ODRowSuccess, SetTask, TaskStatus
  <2>3. spent' \in [Hazards -> Nat]
    BY <1>0, <1>8, FaultType DEF ODRowSuccess
  <2> QED
    BY <1>0, <1>8, <1>b, <2>1, <2>2, <2>3, GotoRunTo, UnchangedGrows, RunStepType
       DEF ODRowSuccess, rows, api
<1>9. CASE ODRowOther(s)
  <2>1. PICK p \in PC : Goto(s, p)
    BY <1>9, PCs DEF ODRowOther
  <2>2. spent' \in [Hazards -> Nat]
    BY <1>0, <1>9, FaultType DEF ODRowOther
  <2> QED
    BY <1>0, <1>9, <1>b, <2>1, <2>2, GotoRunTo, UnchangedGrows, RunStepType
       DEF ODRowOther, rows, api
<1>10. CASE EnqueueOD(s)
  <2>1. PICK p \in PC : Goto(s, p)
    BY <1>10, PCs DEF EnqueueOD
  <2>2. StreamsGrow
    <3>1. "od" \in Queues /\ TRUE \in BOOLEAN
      BY DEF Queues
    <3>2. CASE UNCHANGED queue
      BY <1>0, <3>2, UnchangedGrows
    <3>3. CASE queue' = [queue EXCEPT !["od"] = XAdd(queue["od"], t, TRUE)]
      BY <1>0, <1>c, <3>1, <3>3, XAddStreamsGrow, Zenon
    <3> QED
      BY <1>10, <3>2, <3>3 DEF EnqueueOD
  <2>3. spent' \in [Hazards -> Nat]
    BY <1>0, <1>10, FaultType DEF EnqueueOD
  <2> QED
    BY <1>0, <1>10, <1>b, <2>1, <2>2, <2>3, GotoRunTo, RunStepType
       DEF EnqueueOD, rows, api
<1> QED
  BY <1>1, <1>2, <1>3, <1>4, <1>5, <1>6, <1>7, <1>8, <1>9, <1>10 DEF PipelineStep

LEMMA StageStepType ==
    ASSUME TypeOK, NEW s \in Slots, StageStep(s)
    PROVE  TypeOK'
<1> DEFINE r == run[s]
           t == run[s].task
<1>0. /\ run \in [Slots -> Run]
      /\ task \in [Tasks -> TaskStatus]
      /\ stage \in [Tasks -> [Stages -> StageStatus]]
      /\ artifact \in [Tasks -> SUBSET Stages]
      /\ done \in [Tasks -> SUBSET Stages]
      /\ spent \in [Hazards -> Nat]
      /\ StreamTypes
  BY DEF TypeOK, RunTypes, RowTypes, ProcTypes
<1>b. ~At(s, "free")
  BY DEF StageStep, BeginStage, ExecSuccess, ExecFailure, Succeed, RecordArtifacts,
         FailStageRow, FailTaskRow, AtStage, At
<1>c. r \in Run /\ t \in Tasks /\ r.k \in Stages /\ r.attempt + 1 \in Nat
  BY <1>b, BusyRun, RunFields
<1>1. CASE BeginStage(s)
  <2>1. \E p, n, m, a : RunTo(s, p, n, m, a)
    <3>1. CASE Goto(s, "fail")
      BY <1>0, <3>1, PCs, GotoRunTo
    <3>2. CASE run' = [run EXCEPT ![s].pc = "exec", ![s].attempt = 1]
      <4>1. RunTo(s, "exec", r.k, r.skip, 1)
        BY <1>0, <3>2, PCs, AttemptRunTo
      <4> QED
        BY <4>1
    <3> QED
      BY <1>1, <3>1, <3>2, Zenon DEF BeginStage
  <2>2. stage' \in [Tasks -> [Stages -> StageStatus]]
    <3>1. SetStage(t, r.k, "running") \/ UNCHANGED stage
      BY <1>1, Zenon DEF BeginStage
    <3> QED
      BY <1>0, <1>c, <3>1, RunFields, SetStageType DEF StageStatus
  <2>3. spent' \in [Hazards -> Nat]
    BY <1>0, <1>1, FaultType, Zenon DEF BeginStage
  <2>4. UNCHANGED <<task, rows, api, queue, group, inbox>>
    BY <1>1, Zenon DEF BeginStage
  <2> QED
    BY <1>0, <1>b, <2>1, <2>2, <2>3, <2>4, UnchangedGrows, RunStepType DEF rows, api
<1>2. CASE ExecSuccess(s)
  <2>1. PICK p \in PC : Goto(s, p)
    BY <1>2, PCs DEF ExecSuccess
  <2>2. done' \in [Tasks -> SUBSET Stages]
    BY <1>0, <1>2, <1>c DEF ExecSuccess
  <2> QED
    BY <1>0, <1>2, <1>b, <2>1, <2>2, GotoRunTo, UnchangedGrows, RunStepType
       DEF ExecSuccess, rows, api
<1>3. CASE ExecFailure(s)
  <2>1. \E p, n, m, a : RunTo(s, p, n, m, a)
    <3>1. CASE Goto(s, "failRow")
      BY <1>0, <3>1, PCs, GotoRunTo
    <3>2. CASE run' = [run EXCEPT ![s].attempt = r.attempt + 1]
      <4> DEFINE a == r.attempt + 1
      <4>1. run' = [run EXCEPT ![s].attempt = a] /\ a \in Nat
        BY <1>c, <3>2, Zenon
      <4> HIDE DEF a
      <4>2. RunTo(s, r.pc, r.k, r.skip, a)
        BY <1>0, <1>c, <4>1, RunFields, AttemptRunTo, Zenon
      <4> QED
        BY <4>2
    <3> QED
      BY <1>3, <3>1, <3>2, Zenon DEF ExecFailure
  <2>2. UNCHANGED <<task, rows, stage, api, queue, group, inbox, spent>>
    BY <1>3, Zenon DEF ExecFailure
  <2> QED
    BY <1>0, <1>b, <2>1, <2>2, UnchangedGrows, RunStepType DEF rows, api
<1>4. CASE Succeed(s)
  <2>1. PICK p \in PC : Goto(s, p)
    BY <1>4, PCs DEF Succeed
  <2>2. stage' \in [Tasks -> [Stages -> StageStatus]]
    <3>1. SetStage(t, r.k, "success") \/ UNCHANGED stage
      BY <1>4 DEF Succeed
    <3> QED
      BY <1>0, <1>c, <3>1, RunFields, SetStageType DEF StageStatus
  <2>3. spent' \in [Hazards -> Nat]
    BY <1>0, <1>4, FaultType DEF Succeed
  <2> QED
    BY <1>0, <1>4, <1>b, <2>1, <2>2, <2>3, GotoRunTo, UnchangedGrows, RunStepType
       DEF Succeed, rows, api
<1>5. CASE RecordArtifacts(s)
  <2>1. \E p, n, m, a : RunTo(s, p, n, m, a)
    BY <1>0, <1>5, AdvanceRunTo DEF RecordArtifacts
  <2>2. artifact' \in [Tasks -> SUBSET Stages]
    BY <1>0, <1>5, <1>c DEF RecordArtifacts
  <2>3. spent' \in [Hazards -> Nat]
    BY <1>0, <1>5, FaultType DEF RecordArtifacts
  <2> QED
    BY <1>0, <1>5, <1>b, <2>1, <2>2, <2>3, UnchangedGrows, RunStepType
       DEF RecordArtifacts, rows, api
<1>6. CASE FailStageRow(s)
  <2>1. PICK p \in PC : Goto(s, p)
    BY <1>6, PCs DEF FailStageRow
  <2>2. stage' \in [Tasks -> [Stages -> StageStatus]]
    <3>1. SetStage(t, r.k, "failed") \/ UNCHANGED stage
      BY <1>6 DEF FailStageRow
    <3> QED
      BY <1>0, <1>c, <3>1, RunFields, SetStageType DEF StageStatus
  <2>3. spent' \in [Hazards -> Nat]
    BY <1>0, <1>6, FaultType DEF FailStageRow
  <2> QED
    BY <1>0, <1>6, <1>b, <2>1, <2>2, <2>3, GotoRunTo, UnchangedGrows, RunStepType
       DEF FailStageRow, rows, api
<1>7. CASE FailTaskRow(s)
  <2>1. PICK p \in PC : Goto(s, p)
    BY <1>7, PCs DEF FailTaskRow
  <2>2. task' \in [Tasks -> TaskStatus]
    BY <1>0, <1>7, <1>c DEF FailTaskRow, SetTask, TaskStatus
  <2>3. spent' \in [Hazards -> Nat]
    BY <1>0, <1>7, FaultType DEF FailTaskRow
  <2> QED
    BY <1>0, <1>7, <1>b, <2>1, <2>2, <2>3, GotoRunTo, UnchangedGrows, RunStepType
       DEF FailTaskRow, rows, api
<1> QED
  BY <1>1, <1>2, <1>3, <1>4, <1>5, <1>6, <1>7 DEF StageStep

LEMMA EndStepType ==
    ASSUME TypeOK, NEW s \in Slots, EndStep(s)
    PROVE  TypeOK'
<1> DEFINE t == run[s].task
<1>0. /\ run \in [Slots -> Run]
      /\ task \in [Tasks -> TaskStatus]
      /\ stage \in [Tasks -> [Stages -> StageStatus]]
      /\ artifact \in [Tasks -> SUBSET Stages]
      /\ done \in [Tasks -> SUBSET Stages]
      /\ spent \in [Hazards -> Nat]
      /\ StreamTypes
  BY DEF TypeOK, RunTypes, RowTypes, ProcTypes
<1>b. ~At(s, "free")
  BY DEF EndStep, FinishTaskWithError, FinishTaskCompleted, AckJob, At
<1>c. t \in Tasks
  BY <1>b, BusyRun
<1>1. CASE FinishTaskWithError(s)
  <2>1. PICK p \in PC : Goto(s, p)
    BY <1>1, PCs DEF FinishTaskWithError
  <2>2. task' \in [Tasks -> TaskStatus]
    BY <1>0, <1>1, <1>c DEF FinishTaskWithError, SetTask, TaskStatus
  <2>3. spent' \in [Hazards -> Nat]
    BY <1>0, <1>1, FaultType DEF FinishTaskWithError
  <2> QED
    BY <1>0, <1>1, <1>b, <2>1, <2>2, <2>3, GotoRunTo, UnchangedGrows, RunStepType
       DEF FinishTaskWithError, rows, api
<1>2. CASE FinishTaskCompleted(s)
  <2>1. PICK p \in PC : Goto(s, p)
    BY <1>2, PCs DEF FinishTaskCompleted
  <2>2. task' \in [Tasks -> TaskStatus]
    BY <1>0, <1>2, <1>c DEF FinishTaskCompleted, SetTask, TaskStatus
  <2>3. spent' \in [Hazards -> Nat]
    BY <1>0, <1>2, FaultType DEF FinishTaskCompleted
  <2> QED
    BY <1>0, <1>2, <1>b, <2>1, <2>2, <2>3, GotoRunTo, UnchangedGrows, RunStepType
       DEF FinishTaskCompleted, rows, api
<1>3. CASE AckJob(s)
  <2>1. StreamsGrow
    <3> DEFINE q == QueueOf(s[1])
               b == XAck(queue[q], run[s].msg)
    <3>1. q \in Queues /\ queue[q] \in Seq(Entry(Tasks))
      BY <1>0, QueueOfQueues DEF StreamTypes
    <3>2. SameJobs(Tasks, queue[q], b)
      BY <1>b, <3>1, BusyRun, XAckSame
    <3>3. UNCHANGED queue \/ queue' = [queue EXCEPT ![q] = b]
      BY <1>3 DEF AckJob
    <3> HIDE DEF q, b
    <3> QED
      BY <1>0, <3>1, <3>2, <3>3, UnchangedGrows, SameJobsGrows
  <2>2. /\ run' = [run EXCEPT ![s] = Free]
        /\ spent' \in [Hazards -> Nat]
        /\ UNCHANGED <<task, rows, stage, api, group, inbox>>
    BY <1>0, <1>3, FaultType DEF AckJob
  <2>3. RowTypes' /\ ProcTypes'
    BY <2>2 DEF TypeOK, RowTypes, ProcTypes, rows, api
  <2>4. /\ run' \in [Slots -> Run]
        /\ \A x \in Slots : run'[x].pc = "free" \/ run'[x] = run[x]
    BY <1>0, <2>2, FreeType
  <2>5. StreamTypes' /\ RunTypes'
    BY <1>0, <2>1, <2>2, <2>4, HeldKept DEF TypeOK, StreamTypes, api
  <2> QED
    BY <2>3, <2>5 DEF TypeOK
<1> QED
  BY <1>1, <1>2, <1>3 DEF EndStep

\* The steps of CreateTask.
LEMMA CreateTaskType ==
    ASSUME TypeOK, NEW t \in Tasks, NEW d \in DetectRequests, CreateTask(t, d)
    PROVE  TypeOK'
<1>1. d \in BOOLEAN /\ Stored(d) \in BOOLEAN
  BY ConstantsAssumption DEF Stored
<1>2. spent' \in [Hazards -> Nat]
  BY FaultType DEF CreateTask, TypeOK, ProcTypes
<1>4. UNCHANGED <<stage, artifact, done, queue, group, proc, todo, inbox, release, run>>
  BY DEF CreateTask
<1>5. task' \in [Tasks -> TaskStatus]
  BY DEF CreateTask, SetTask, TaskStatus, TypeOK, RowTypes
<1>6. wants' \in [Tasks -> BOOLEAN] /\ row' \in [Tasks -> BOOLEAN]
  <2>1. wants' = [wants EXCEPT ![t] = d]
    BY DEF CreateTask
  <2>2. row' = [row EXCEPT ![t] = Stored(d)] \/ row' = row
    BY DEF CreateTask
  <2> QED
    BY <1>1, <2>1, <2>2 DEF TypeOK, RowTypes
<1>7. handler' \in [Tasks -> {"none", "stages", "undo", "enqueue", "ended"}]
  BY DEF CreateTask, TypeOK, ProcTypes
<1>3. RowTypes' /\ ProcTypes'
  BY <1>2, <1>4, <1>5, <1>6, <1>7 DEF TypeOK, RowTypes, ProcTypes
<1> QED
  BY <1>3, <1>4 DEF TypeOK, StreamTypes, RunTypes, At

LEMMA HandlerStepType ==
    ASSUME TypeOK, NEW t \in Tasks, HandlerStep(t)
    PROVE  TypeOK'
<1>1. CASE CreateStage(t)
  <2>1. spent' \in [Hazards -> Nat]
    BY <1>1, FaultType DEF CreateStage, TypeOK, ProcTypes
  <2>2. UNCHANGED <<task, rows, queue, group, proc, todo, inbox, release, run>>
    BY <1>1 DEF CreateStage
  <2>3. stage' \in [Tasks -> [Stages -> StageStatus]]
    <3>1. stage \in [Tasks -> [Stages -> StageStatus]]
      BY DEF TypeOK, RowTypes
    <3>2. PICK k \in Stages :
             stage' = [stage EXCEPT ![t][k] = "pending"] \/ stage' = stage
      BY <1>1 DEF CreateStage
    <3> QED
      BY <3>1, <3>2 DEF StageStatus
  <2>4. handler' \in [Tasks -> {"none", "stages", "undo", "enqueue", "ended"}]
    BY <1>1 DEF CreateStage, TypeOK, ProcTypes
  <2>5. RowTypes' /\ ProcTypes'
    BY <2>1, <2>2, <2>3, <2>4 DEF TypeOK, RowTypes, ProcTypes, rows
  <2> QED
    BY <2>2, <2>5 DEF TypeOK, StreamTypes, RunTypes, At
<1>2. CASE DeleteTask(t)
  <2>1. spent' \in [Hazards -> Nat]
    BY <1>2, FaultType DEF DeleteTask, TypeOK, ProcTypes
  <2>3. UNCHANGED <<rows, queue, group, proc, todo, inbox, release, run>>
    BY <1>2 DEF DeleteTask
  <2>4. task' \in [Tasks -> TaskStatus]
    BY <1>2 DEF DeleteTask, SetTask, TaskStatus, TypeOK, RowTypes
  <2>5. stage' \in [Tasks -> [Stages -> StageStatus]]
    BY <1>2 DEF DeleteTask, StageStatus, TypeOK, RowTypes
  <2>6. handler' \in [Tasks -> {"none", "stages", "undo", "enqueue", "ended"}]
    BY <1>2 DEF DeleteTask, TypeOK, ProcTypes
  <2>2. RowTypes' /\ ProcTypes'
    BY <2>1, <2>3, <2>4, <2>5, <2>6 DEF TypeOK, RowTypes, ProcTypes, rows
  <2> QED
    BY <2>2, <2>3 DEF TypeOK, StreamTypes, RunTypes, At
<1>3. CASE EnqueueTask(t)
  <2>1. spent' \in [Hazards -> Nat]
    BY <1>3, FaultType DEF EnqueueTask, TypeOK, ProcTypes
  <2>2. RowTypes' /\ ProcTypes'
    BY <1>3, <2>1 DEF EnqueueTask, TypeOK, RowTypes, ProcTypes, rows
  <2>3. StreamsGrow
    <3>1. "rs" \in Queues /\ wants[t] \in BOOLEAN
      BY DEF Queues, TypeOK, RowTypes
    <3>2. UNCHANGED queue \/ queue' = [queue EXCEPT !["rs"] = XAdd(queue["rs"], t, wants[t])]
      BY <1>3 DEF EnqueueTask, JobOfRequest
    <3> QED
      BY <3>1, <3>2, UnchangedGrows, XAddStreamsGrow, Zenon DEF TypeOK
  <2>4. UNCHANGED <<group, inbox, release, run>>
    BY <1>3 DEF EnqueueTask
  <2> QED
    BY <2>2, <2>3, <2>4, HeldKept DEF TypeOK, StreamTypes, RunTypes
<1> QED
  BY <1>1, <1>2, <1>3 DEF HandlerStep

LEMMA RegroupGrows ==
    ASSUME StreamTypes, NEW q \in Queues, EnsureGroup(q)
    PROVE  StreamsGrow /\ group' \in [Queues -> BOOLEAN]
<1>1. queue[q] \in Seq(Entry(Tasks))
  BY DEF StreamTypes
<1>2. SameJobs(Tasks, queue[q], Regroup(queue[q]))
  BY <1>1, RegroupSame
<1>3. \/ UNCHANGED <<group, queue>>
      \/ /\ group' = [group EXCEPT ![q] = TRUE]
         /\ queue' = [queue EXCEPT ![q] = Regroup(queue[q])]
  BY DEF EnsureGroup
<1>4. group' \in [Queues -> BOOLEAN]
  BY <1>3 DEF StreamTypes
<1> QED
  BY <1>2, <1>3, <1>4, UnchangedGrows, SameJobsGrows

LEMMA ProcStepType ==
    ASSUME TypeOK, NEW p \in Procs, ProcStep(p)
    PROVE  TypeOK'
<1>1. CASE Restart(p)
  <2>1. spent' \in [Hazards -> Nat]
    BY <1>1, FaultType DEF Restart, TypeOK, ProcTypes
  <2>5. UNCHANGED <<task, rows, stage, handler, inbox, release, run>>
    BY <1>1 DEF Restart
  <2>6. proc' \in [Procs -> {"up", "boot", "down"}]
    BY <1>1 DEF Restart, TypeOK, ProcTypes
  <2>7. todo' \in [Procs -> SUBSET Tasks]
    <3> DEFINE found == {t \in Tasks : task[t] = BootStatus(p)}
    <3>1. todo' = [todo EXCEPT ![p] = found] \/ todo' = todo
      BY <1>1 DEF Restart
    <3>2. found \in SUBSET Tasks
      OBVIOUS
    <3> HIDE DEF found
    <3> QED
      BY <3>1, <3>2 DEF TypeOK, ProcTypes
  <2>2. RowTypes' /\ ProcTypes'
    BY <2>1, <2>5, <2>6, <2>7 DEF TypeOK, RowTypes, ProcTypes, rows
  <2>3. StreamsGrow /\ group' \in [Queues -> BOOLEAN]
    <3>1. UNCHANGED <<group, queue>> \/ EnsureGroup(QueueOf(p))
      BY <1>1 DEF Restart
    <3>2. StreamTypes
      BY DEF TypeOK
    <3> QED
      BY <3>1, <3>2, UnchangedGrows, RegroupGrows, QueueOfQueues DEF StreamTypes
  <2>4. UNCHANGED <<inbox, release, run>>
    BY <1>1 DEF Restart
  <2> QED
    BY <2>2, <2>3, <2>4, HeldKept DEF TypeOK, StreamTypes, RunTypes
<1>2. CASE BootEnqueue(p)
  <2>1. PICK t \in todo[p] :
              /\ todo' = [todo EXCEPT ![p] = @ \ {t}]
              /\ \/ /\ queue' = [queue EXCEPT !["rs"] = XAdd(@, t, row[t])]
                    /\ NoFault
                 \/ Fault /\ UNCHANGED queue
    BY <1>2, Zenon DEF BootEnqueue
  <2>2. t \in Tasks
    BY DEF TypeOK, ProcTypes
  <2>3. spent' \in [Hazards -> Nat]
    BY <2>1, FaultType DEF TypeOK, ProcTypes
  <2>4. UNCHANGED <<task, rows, stage, handler, group, proc, inbox, release, run>>
    BY <1>2 DEF BootEnqueue
  <2>5. RowTypes' /\ ProcTypes'
    BY <2>1, <2>3, <2>4 DEF TypeOK, RowTypes, ProcTypes, rows
  <2>6. StreamsGrow
    <3>1. "rs" \in Queues /\ row[t] \in BOOLEAN
      BY <2>2 DEF Queues, TypeOK, RowTypes
    <3>2. UNCHANGED queue \/ queue' = [queue EXCEPT !["rs"] = XAdd(queue["rs"], t, row[t])]
      BY <2>1
    <3> QED
      BY <2>2, <3>1, <3>2, UnchangedGrows, XAddStreamsGrow, Zenon DEF TypeOK
  <2> QED
    BY <2>4, <2>5, <2>6, HeldKept DEF TypeOK, StreamTypes, RunTypes
<1>3. CASE BootDone(p)
  <2>1. RowTypes' /\ ProcTypes'
    BY <1>3 DEF BootDone, TypeOK, RowTypes, ProcTypes, rows
  <2>2. UNCHANGED <<queue, group, inbox, release, run>>
    BY <1>3 DEF BootDone
  <2> QED
    BY <2>1, <2>2 DEF TypeOK, StreamTypes, RunTypes, At
<1> QED
  BY <1>1, <1>2, <1>3 DEF ProcStep

LEMMA CrashType ==
    ASSUME TypeOK, NEW p \in Procs, Crash(p)
    PROVE  TypeOK'
<1>1. CrashKind(p) \in Hazards
  BY DEF CrashKind, Hazards, Procs, Workers
<1>2. spent' \in [Hazards -> Nat]
  BY <1>1, SpendType DEF Crash, TypeOK, ProcTypes
<1>3. RowTypes' /\ ProcTypes'
  BY <1>2 DEF Crash, TypeOK, RowTypes, ProcTypes, rows
<1>4. /\ run' \in [Slots -> Run]
      /\ \A x \in Slots : run'[x].pc = "free" \/ run'[x] = run[x]
  BY FreeType DEF Crash, TypeOK, RunTypes
<1>5. /\ inbox' \in [Receivers -> SUBSET Nat]
      /\ release' \in [Receivers -> SUBSET Nat]
      /\ \A c \in Receivers : inbox'[c] \subseteq inbox[c] /\ release'[c] \subseteq release[c]
  BY DEF Crash, TypeOK, StreamTypes
<1>6. UNCHANGED <<queue, group>>
  BY DEF Crash
<1>7. StreamTypes /\ RunTypes /\ group' \in [Queues -> BOOLEAN] /\ StreamsGrow
  BY <1>6, UnchangedGrows DEF TypeOK, StreamTypes
<1>8. \A c \in Receivers : /\ inbox'[c] \subseteq DOMAIN queue[QueueOf(c[1])]
                           /\ release'[c] \subseteq DOMAIN queue["rs"]
  BY <1>5 DEF TypeOK, StreamTypes
<1> QED
  BY <1>3, <1>4, <1>5, <1>7, <1>8, HeldKept DEF TypeOK

\* What happens to Redis and to what receivers hold.
LEMMA IdleType ==
    ASSUME TypeOK, NEW i \in DOMAIN queue["rs"], IdleOrphan(i) \/ IdleHeld(i)
    PROVE  TypeOK'
<1>1. spent' \in [Hazards -> Nat]
  <2>1. Spend("slow") \/ UNCHANGED spent
    BY DEF IdleOrphan, IdleHeld
  <2> QED
    BY <2>1, SpendType DEF TypeOK, ProcTypes, Hazards
<1>2. /\ queue' = [queue EXCEPT !["rs"] = GrowIdle(queue["rs"], i)]
      /\ UNCHANGED <<task, rows, stage, api, group, inbox, run>>
  BY DEF IdleOrphan, IdleHeld
<1>3. RowTypes' /\ ProcTypes'
  BY <1>1, <1>2 DEF TypeOK, RowTypes, ProcTypes, rows, api
<1>4. StreamsGrow
  <2>1. "rs" \in Queues /\ queue["rs"] \in Seq(Entry(Tasks))
    BY DEF Queues, TypeOK, StreamTypes
  <2>2. SameJobs(Tasks, queue["rs"], GrowIdle(queue["rs"], i))
    BY <2>1, GrowIdleSame
  <2> QED
    BY <1>2, <2>1, <2>2, SameJobsGrows DEF TypeOK
<1> QED
  BY <1>2, <1>3, <1>4, HeldKept DEF TypeOK, StreamTypes, RunTypes, api

LEMMA LoseGroupType ==
    ASSUME TypeOK, NEW q \in Queues, LoseGroup(q)
    PROVE  TypeOK'
<1>1. spent' \in [Hazards -> Nat]
  <2>1. PICK h \in Hazards : Spend(h)
    BY DEF LoseGroup, Hazards
  <2> QED
    BY <2>1, SpendType DEF TypeOK, ProcTypes
<1>2. /\ group' \in [Queues -> BOOLEAN]
      /\ UNCHANGED <<task, rows, stage, api, queue, inbox, run>>
  BY DEF LoseGroup, TypeOK, StreamTypes
<1>3. RowTypes' /\ ProcTypes'
  BY <1>1, <1>2 DEF TypeOK, RowTypes, ProcTypes, rows, api
<1> QED
  BY <1>2, <1>3 DEF TypeOK, StreamTypes, RunTypes, At, api

\* Receiving messages of another satellite counts as one more of them.
LEMMA ForeignType ==
    ASSUME spent \in [Hazards -> Nat], NEW w, NEW ms, Foreign(w, ms)
    PROVE  spent' \in [Hazards -> Nat]
<1>1. "foreign" \in Hazards
  BY DEF Hazards
<1> QED
  BY <1>1, SpendType DEF Foreign, NoFault

LEMMA ReceiveStepType ==
    ASSUME TypeOK, NEW w \in Workers, ReceiveStep(w)
    PROVE  TypeOK'
<1> DEFINE c == <<w, "read">>
           q == QueueOf(w)
<1>0. q \in Queues /\ queue[q] \in Seq(Entry(Tasks)) /\ StreamTypes
  BY QueueOfQueues DEF TypeOK, StreamTypes
<1>b. UNCHANGED <<task, rows, stage, api, run>>
  BY DEF ReceiveStep, ReadJob, ReclaimStaleRSJobs, RebuildGroup
<1>e. spent' \in [Hazards -> Nat]
  <2>1. spent \in [Hazards -> Nat]
    BY DEF TypeOK, ProcTypes
  <2>2. UNCHANGED spent \/ \E ms : Foreign(w, ms)
    BY DEF ReceiveStep, ReadJob, ReclaimStaleRSJobs, RebuildGroup
  <2> QED
    BY <2>1, <2>2, ForeignType
<1>c. RowTypes' /\ ProcTypes'
  BY <1>b, <1>e DEF TypeOK, RowTypes, ProcTypes, rows, api
<1>d. QueueOf(c[1]) = q
  OBVIOUS
<1>1. CASE ReadJob(w)
  <2>1. PICK i \in Undelivered(queue[q]) :
              /\ queue' = [queue EXCEPT ![q] = Deliver(queue[q], i)]
              /\ inbox' = [inbox EXCEPT ![c] = {i}]
    BY <1>1 DEF ReadJob
  <2>2. i \in DOMAIN queue[q]
    BY DEF Undelivered
  <2>3. StreamsGrow
    BY <1>0, <2>1, <2>2, DeliverSame, SameJobsGrows
  <2>4. i \in Nat
    BY <1>0, <2>2
  <2>5. /\ inbox' \in [Receivers -> SUBSET Nat]
        /\ \A x \in Receivers : inbox'[x] \subseteq DOMAIN queue[QueueOf(x[1])]
    <3> HIDE DEF c, q
    <3> QED
      BY <1>d, <2>1, <2>2, <2>4 DEF TypeOK, StreamTypes
  <2>6. group' = group
    BY <1>1 DEF ReadJob
  <2> QED
    BY <1>b, <1>c, <2>3, <2>5, <2>6, HeldKept DEF TypeOK, StreamTypes, RunTypes, api
<1>2. CASE ReclaimStaleRSJobs(w)
  <2> DEFINE d == <<w, "reclaim">>
             m == Claimable(queue["rs"])
  <2>1. /\ w \in RSWorkers
        /\ inbox' = [inbox EXCEPT ![d] = m]
        /\ queue' = [queue EXCEPT !["rs"] = AutoClaim(queue["rs"])]
        /\ group' = group
    BY <1>2 DEF ReclaimStaleRSJobs
  <2>2. q = "rs" /\ QueueOf(d[1]) = q
    BY <2>1 DEF QueueOf
  <2>3. StreamsGrow
    BY <1>0, <2>1, <2>2, AutoClaimSame, SameJobsGrows
  <2>4. m \subseteq DOMAIN queue[q] /\ m \in SUBSET Nat
    BY <1>0, <2>2 DEF Claimable
  <2>5. /\ inbox' \in [Receivers -> SUBSET Nat]
        /\ \A x \in Receivers : inbox'[x] \subseteq DOMAIN queue[QueueOf(x[1])]
    <3> HIDE DEF d, q, m
    <3> QED
      BY <2>1, <2>2, <2>4 DEF TypeOK, StreamTypes
  <2> QED
    BY <1>b, <1>c, <2>1, <2>3, <2>5, HeldKept DEF TypeOK, StreamTypes, RunTypes, api
<1>3. CASE RebuildGroup(w)
  <2>1. "od" \in Queues /\ EnsureGroup("od") /\ inbox' = inbox
    BY <1>3 DEF RebuildGroup, Queues
  <2>2. StreamsGrow /\ group' \in [Queues -> BOOLEAN]
    BY <1>0, <2>1, RegroupGrows
  <2> QED
    BY <1>b, <1>c, <2>1, <2>2, HeldKept DEF TypeOK, StreamTypes, RunTypes, api
<1> QED
  BY <1>1, <1>2, <1>3 DEF ReceiveStep

LEMMA ProcessJobType ==
    ASSUME TypeOK, NEW c \in Receivers, ProcessJob(c)
    PROVE  TypeOK'
<1> DEFINE q == QueueOf(c[1])
<1>1. PICK i \in inbox[c], s \in Slots :
            /\ s[1] = c[1]
            /\ run' = [run EXCEPT ![s] = NewRun(s, i, queue[q][i])]
            /\ inbox' = [inbox EXCEPT ![c] = inbox[c] \ {i}]
  BY DEF ProcessJob
<1>2. i \in DOMAIN queue[q] /\ queue[q] \in Seq(Entry(Tasks)) /\ QueueOf(s[1]) = q
  BY <1>1, QueueOfQueues DEF TypeOK, StreamTypes
<1>3. i \in Nat /\ queue[q][i] \in Entry(Tasks)
  BY <1>2
<1> DEFINE new == NewRun(s, i, queue[q][i])
<1>4. new \in Run /\ new.msg = i /\ new.task = queue[q][i].task
  BY <1>3, NewRunType
<1>5. UNCHANGED <<task, rows, stage, api, queue, group>>
  BY DEF ProcessJob
<1>9. spent' \in [Hazards -> Nat]
  BY FaultType DEF ProcessJob, TypeOK, ProcTypes
<1>6. RowTypes' /\ ProcTypes'
  BY <1>5, <1>9 DEF TypeOK, RowTypes, ProcTypes, rows, api
<1>7. StreamTypes'
  BY <1>1, <1>5 DEF TypeOK, StreamTypes, api
<1>8. RunTypes'
  <2>1. run' = [run EXCEPT ![s] = new]
    BY <1>1
  <2> HIDE DEF new, q
  <2>2. run' \in [Slots -> Run]
    BY <1>4, <2>1 DEF TypeOK, RunTypes
  <2>3. ASSUME NEW x \in Slots, run'[x].pc # "free"
        PROVE  /\ run'[x].msg \in DOMAIN queue[QueueOf(x[1])]
               /\ run'[x].task = queue[QueueOf(x[1])][run'[x].msg].task
    <3>1. CASE x = s
      BY <1>2, <1>4, <2>1, <3>1 DEF TypeOK, RunTypes
    <3>2. CASE x # s
      BY <2>1, <2>3, <3>2 DEF TypeOK, RunTypes, At
    <3> QED
      BY <3>1, <3>2
  <2> QED
    BY <1>5, <2>2, <2>3 DEF RunTypes, At
<1> QED
  BY <1>6, <1>7, <1>8 DEF TypeOK

\* What a receiver does to hand a job back.
LEMMA ReleaseType ==
    ASSUME TypeOK, NEW c \in Receivers, ReleaseAck(c) \/ ReleaseAdd(c)
    PROVE  TypeOK'
<1>0. "rs" \in Queues /\ queue["rs"] \in Seq(Entry(Tasks)) /\ StreamTypes
  BY DEF Queues, TypeOK, StreamTypes
<1>1. /\ UNCHANGED <<task, rows, stage, handler, proc, todo, group, run>>
      /\ spent' \in [Hazards -> Nat]
  BY FaultType DEF ReleaseAck, ReleaseAdd, TypeOK, ProcTypes
<1>2. RowTypes' /\ ProcTypes'
  BY <1>1 DEF TypeOK, RowTypes, ProcTypes, rows
<1>3. CASE ReleaseAck(c)
  <2>1. PICK i \in inbox[c] :
              /\ ~ShouldProcess(c[1], i)
              /\ inbox' = [inbox EXCEPT ![c] = inbox[c] \ {i}]
              /\ release' = [release EXCEPT ![c] = {i}] \/ UNCHANGED release
              /\ UNCHANGED queue \/ queue' = [queue EXCEPT !["rs"] = XAck(queue["rs"], i)]
    BY <1>3 DEF ReleaseAck
  <2>2. QueueOf(c[1]) = "rs"
    BY <2>1 DEF ShouldProcess, QueueOf
  <2>3. i \in DOMAIN queue["rs"] /\ i \in Nat
    BY <2>2, <1>0 DEF StreamTypes
  <2>4. StreamsGrow
    BY <1>0, <2>1, <2>3, UnchangedGrows, XAckSame, SameJobsGrows
  <2>5. /\ inbox' \in [Receivers -> SUBSET Nat]
        /\ release' \in [Receivers -> SUBSET Nat]
        /\ \A x \in Receivers : /\ inbox'[x] \subseteq DOMAIN queue[QueueOf(x[1])]
                                /\ release'[x] \subseteq DOMAIN queue["rs"]
    <3>1. /\ inbox' \in [Receivers -> SUBSET Nat]
          /\ \A x \in Receivers : inbox'[x] \subseteq inbox[x]
      BY <1>0, <2>1 DEF StreamTypes
    <3>2. /\ release' \in [Receivers -> SUBSET Nat]
          /\ \A x \in Receivers : release'[x] \subseteq release[x] \cup {i}
      <4>1. release \in [Receivers -> SUBSET Nat]
        BY <1>0 DEF StreamTypes
      <4>2. CASE UNCHANGED release
        BY <4>1, <4>2
      <4>3. CASE release' = [release EXCEPT ![c] = {i}]
        BY <4>1, <4>3, <2>3
      <4> QED
        BY <2>1, <4>2, <4>3
    <3> QED
      BY <1>0, <2>3, <3>1, <3>2 DEF StreamTypes
  <2> QED
    BY <1>1, <1>2, <2>4, <2>5, HeldKept DEF TypeOK, StreamTypes, RunTypes
<1>4. CASE ReleaseAdd(c)
  <2>1. PICK i \in release[c] :
              \/ UNCHANGED queue
              \/ queue' = [queue EXCEPT !["rs"] = XAdd(queue["rs"], queue["rs"][i].task,
                                                     queue["rs"][i].detect)]
    BY <1>4 DEF ReleaseAdd
  <2>2. queue["rs"][i] \in Entry(Tasks)
    BY <1>0, <2>1 DEF StreamTypes
  <2>3. queue["rs"][i].task \in Tasks /\ queue["rs"][i].detect \in BOOLEAN
    BY <2>2 DEF Entry
  <2>4. StreamsGrow
    BY <1>0, <2>1, <2>3, UnchangedGrows, XAddStreamsGrow
  <2>5. inbox' = inbox /\ release' = [release EXCEPT ![c] = {}]
    BY <1>4 DEF ReleaseAdd
  <2>6. /\ inbox' \in [Receivers -> SUBSET Nat]
        /\ release' \in [Receivers -> SUBSET Nat]
        /\ \A x \in Receivers : /\ inbox'[x] \subseteq DOMAIN queue[QueueOf(x[1])]
                                /\ release'[x] \subseteq DOMAIN queue["rs"]
    BY <1>0, <2>5 DEF StreamTypes
  <2> QED
    BY <1>1, <1>2, <2>4, <2>6, HeldKept DEF TypeOK, StreamTypes, RunTypes
<1> QED
  BY <1>3, <1>4

LEMMA InitType == Init => TypeOK
<1> SUFFICES ASSUME Init
             PROVE  TypeOK
  OBVIOUS
<1>1. RowTypes
  BY DEF Init, RowTypes, TaskStatus, StageStatus
<1>2. ProcTypes
  BY DEF Init, ProcTypes
<1>3. StreamTypes
  BY QueueOfQueues DEF Init, StreamTypes
<1>4. RunTypes
  BY FreeType DEF Init, RunTypes, At
<1> QED
  BY <1>1, <1>2, <1>3, <1>4 DEF TypeOK

LEMMA NextType == TypeOK /\ [Next]_vars => TypeOK'
<1> SUFFICES ASSUME TypeOK, [Next]_vars
             PROVE  TypeOK'
  OBVIOUS
<1>1. ASSUME NEW t \in Tasks, NEW d \in DetectRequests, CreateTask(t, d)
      PROVE  TypeOK'
  BY <1>1, CreateTaskType
<1>2. ASSUME NEW t \in Tasks, HandlerStep(t)
      PROVE  TypeOK'
  BY <1>2, HandlerStepType
<1>3. ASSUME NEW p \in Procs, ProcStep(p) \/ Crash(p)
      PROVE  TypeOK'
  BY <1>3, ProcStepType, CrashType
<1>4. ASSUME NEW i \in DOMAIN queue["rs"], IdleOrphan(i) \/ IdleHeld(i)
      PROVE  TypeOK'
  BY <1>4, IdleType
<1>5. ASSUME NEW q \in Queues, LoseGroup(q)
      PROVE  TypeOK'
  BY <1>5, LoseGroupType
<1>6. ASSUME NEW w \in Workers, ReceiveStep(w)
      PROVE  TypeOK'
  BY <1>6, ReceiveStepType
<1>7. ASSUME NEW c \in Receivers, HandleStep(c)
      PROVE  TypeOK'
  BY <1>7, ProcessJobType, ReleaseType DEF HandleStep
<1>8. ASSUME NEW s \in Slots, RunStep(s)
      PROVE  TypeOK'
  BY <1>8, PipelineStepType, StageStepType, EndStepType DEF RunStep
<1>9. ASSUME UNCHANGED vars
      PROVE  TypeOK'
  BY <1>9 DEF vars, TypeOK, RowTypes, ProcTypes, StreamTypes, RunTypes, At
<1> QED
  BY <1>1, <1>2, <1>3, <1>4, <1>5, <1>6, <1>7, <1>8, <1>9 DEF Next

\* Whatever is requested, crashes, fails or is redelivered, the rows keep legal
\* status values, and every message a receiver or goroutine holds is one of the
\* stream it acknowledges on and names the task the goroutine works on.
THEOREM TypeCorrect == Spec => []TypeOK
  BY InitType, NextType, PTL DEF Spec

-----------------------------------------------------------------------------
(* What the steps do to the two streams, entry by entry.                   *)

LEMMA RSQueue == "rs" \in Queues /\ "od" \in Queues
  BY DEF Queues

\* Entries S of stream q get delivery state v and are no longer idle; nothing else
\* changes in either stream.
Marked(q, S, v) ==
    /\ \A p \in Queues \ {q} : queue'[p] = queue[p]
    /\ DOMAIN queue'[q] = DOMAIN queue[q]
    /\ \A j \in DOMAIN queue[q] :
          /\ queue'[q][j].task = queue[q][j].task
          /\ queue'[q][j].detect = queue[q][j].detect
          /\ queue'[q][j].st = IF j \in S THEN v ELSE queue[q][j].st
          /\ queue'[q][j].idle = IF j \in S THEN FALSE ELSE queue[q][j].idle

\* Entry i of rs.jobs is idle now.
Aged(i) ==
    /\ queue'["od"] = queue["od"]
    /\ DOMAIN queue'["rs"] = DOMAIN queue["rs"]
    /\ \A j \in DOMAIN queue["rs"] :
          /\ queue'["rs"][j].task = queue["rs"][j].task
          /\ queue'["rs"][j].detect = queue["rs"][j].detect
          /\ queue'["rs"][j].st = queue["rs"][j].st
          /\ queue'["rs"][j].idle = IF j = i THEN TRUE ELSE queue["rs"][j].idle

\* A job is appended to stream q.
Appended(q, t, d) ==
    /\ \A p \in Queues \ {q} : queue'[p] = queue[p]
    /\ DOMAIN queue'[q] = DOMAIN queue[q] \cup {Len(queue[q]) + 1}
    /\ \A j \in DOMAIN queue[q] : queue'[q][j] = queue[q][j]
    /\ queue'[q][Len(queue[q]) + 1].task = t
    /\ queue'[q][Len(queue[q]) + 1].detect = d
    /\ queue'[q][Len(queue[q]) + 1].st = "new"
    /\ queue'[q][Len(queue[q]) + 1].idle = FALSE

\* Stream b is stream a with entries S in delivery state v and no longer idle.
MarkedIn(a, b, S, v) ==
    /\ DOMAIN b = DOMAIN a
    /\ \A j \in DOMAIN a :
          /\ b[j].task = a[j].task
          /\ b[j].detect = a[j].detect
          /\ b[j].st = IF j \in S THEN v ELSE a[j].st
          /\ b[j].idle = IF j \in S THEN FALSE ELSE a[j].idle

LEMMA EntryMarked ==
    ASSUME NEW a \in Seq(Entry(Tasks)), NEW i \in DOMAIN a, NEW v
    PROVE  MarkedIn(a, [a EXCEPT ![i].st = v, ![i].idle = FALSE], {i}, v)
<1> DEFINE b == [a EXCEPT ![i].st = v, ![i].idle = FALSE]
<1>1. a \in [DOMAIN a -> Entry(Tasks)]
  BY StreamIsFunction
<1>2. ASSUME NEW j \in DOMAIN a, j # i
      PROVE  b[j] = a[j]
  BY <1>1, <1>2, Zenon DEF Entry
<1>3. b[i] = [a[i] EXCEPT !.st = v, !.idle = FALSE]
  BY <1>1, Zenon DEF Entry
<1>4. a[i] \in Entry(Tasks)
  BY <1>1
<1>5. b[i].task = a[i].task /\ b[i].detect = a[i].detect /\ b[i].st = v /\ b[i].idle = FALSE
  BY <1>3, <1>4, Zenon DEF Entry
<1>6. DOMAIN b = DOMAIN a
  BY <1>1, Zenon
<1> HIDE DEF b
<1>7. MarkedIn(a, b, {i}, v)
  BY <1>2, <1>5, <1>6 DEF MarkedIn
<1> QED
  BY <1>7 DEF b

LEMMA MarkedBy ==
    ASSUME TypeOK, NEW q \in Queues, NEW b, NEW S, NEW v,
           queue' = [queue EXCEPT ![q] = b], MarkedIn(queue[q], b, S, v)
    PROVE  Marked(q, S, v)
<1>1. /\ queue'[q] = b
      /\ \A p \in Queues \ {q} : queue'[p] = queue[p]
  BY DEF TypeOK, StreamTypes
<1> QED
  BY <1>1 DEF Marked, MarkedIn

\* XREADGROUP.
LEMMA ReadMarks ==
    ASSUME TypeOK, NEW q \in Queues, NEW i \in DOMAIN queue[q],
           queue' = [queue EXCEPT ![q] = Deliver(queue[q], i)]
    PROVE  Marked(q, {i}, "pending")
<1>1. queue[q] \in Seq(Entry(Tasks))
  BY DEF TypeOK, StreamTypes
<1>2. MarkedIn(queue[q], Deliver(queue[q], i), {i}, "pending")
  BY <1>1, EntryMarked, Zenon DEF Deliver
<1> QED
  BY <1>2, MarkedBy, Zenon

\* XACK: only a pending entry becomes acknowledged.
AckState(q, i) == IF queue[q][i].st = "pending" THEN "acked" ELSE queue[q][i].st

LEMMA AckMarks ==
    ASSUME TypeOK, NEW q \in Queues, NEW i \in DOMAIN queue[q],
           queue' = [queue EXCEPT ![q] = XAck(queue[q], i)]
    PROVE  Marked(q, {i}, AckState(q, i))
<1>1. queue[q] \in Seq(Entry(Tasks))
  BY DEF TypeOK, StreamTypes
<1>2. XAck(queue[q], i) = [queue[q] EXCEPT ![i].st = AckState(q, i), ![i].idle = FALSE]
  <2>1. queue[q] \in [DOMAIN queue[q] -> Entry(Tasks)]
    BY <1>1, StreamIsFunction
  <2> QED
    BY <2>1, Zenon DEF XAck, AckState
<1>3. MarkedIn(queue[q], XAck(queue[q], i), {i}, AckState(q, i))
  BY <1>1, <1>2, EntryMarked, Zenon
<1> QED
  BY <1>3, MarkedBy, Zenon

\* XAUTOCLAIM.
LEMMA ClaimMarks ==
    ASSUME TypeOK, queue' = [queue EXCEPT !["rs"] = AutoClaim(queue["rs"])]
    PROVE  Marked("rs", Claimable(queue["rs"]), "pending")
<1> DEFINE a == queue["rs"]
           b == AutoClaim(a)
           S == Claimable(a)
<1>1. DOMAIN b = DOMAIN a
  BY DEF AutoClaim
<1>2. ASSUME NEW j \in DOMAIN a
      PROVE  /\ b[j].task = a[j].task /\ b[j].detect = a[j].detect
             /\ b[j].st = IF j \in S THEN "pending" ELSE a[j].st
             /\ b[j].idle = IF j \in S THEN FALSE ELSE a[j].idle
  <2>1. a[j] \in Entry(Tasks)
    BY RSQueue DEF TypeOK, StreamTypes
  <2>2. CASE j \in S
    <3>1. b[j] = [a[j] EXCEPT !.idle = FALSE] /\ a[j].st = "pending"
      BY <2>2 DEF AutoClaim, Claimable
    <3> QED
      BY <2>1, <2>2, <3>1, Zenon DEF Entry
  <2>3. CASE j \notin S
    BY <2>3 DEF AutoClaim
  <2> QED
    BY <2>2, <2>3
<1> HIDE DEF b, S
<1>3. MarkedIn(a, b, S, "pending")
  BY <1>1, <1>2 DEF MarkedIn
<1> QED
  BY <1>3, MarkedBy, RSQueue, Zenon DEF b, S

\* XGROUP CREATE.
LEMMA RegroupMarks ==
    ASSUME TypeOK, NEW q \in Queues, queue' = [queue EXCEPT ![q] = Regroup(queue[q])]
    PROVE  Marked(q, DOMAIN queue[q], "new")
<1> DEFINE a == queue[q]
           b == Regroup(a)
<1>1. DOMAIN b = DOMAIN a
  BY DEF Regroup
<1>2. ASSUME NEW j \in DOMAIN a
      PROVE  /\ b[j].task = a[j].task /\ b[j].detect = a[j].detect
             /\ b[j].st = "new" /\ b[j].idle = FALSE
  <2>1. a[j] \in Entry(Tasks)
    BY DEF TypeOK, StreamTypes
  <2>2. b[j] = [a[j] EXCEPT !.st = "new", !.idle = FALSE]
    BY DEF Regroup
  <2> QED
    BY <2>1, <2>2, Zenon DEF Entry
<1> HIDE DEF b
<1>3. MarkedIn(a, b, DOMAIN a, "new")
  BY <1>1, <1>2 DEF MarkedIn
<1> QED
  BY <1>3, MarkedBy, Zenon DEF b

LEMMA UnchangedMarks ==
    ASSUME UNCHANGED queue, NEW q \in Queues, NEW v
    PROVE  Marked(q, {}, v)
  BY DEF Marked

\* Two minutes pass.
LEMMA IdleAges ==
    ASSUME TypeOK, NEW i \in DOMAIN queue["rs"],
           queue' = [queue EXCEPT !["rs"] = GrowIdle(queue["rs"], i)]
    PROVE  Aged(i)
<1> DEFINE a == queue["rs"]
           b == GrowIdle(a, i)
<1>1. a \in [DOMAIN a -> Entry(Tasks)]
  BY RSQueue, StreamIsFunction DEF TypeOK, StreamTypes
<1>2. ASSUME NEW j \in DOMAIN a, j # i
      PROVE  b[j] = a[j]
  BY <1>1, <1>2, Zenon DEF GrowIdle, Entry
<1>3. b[i] = [a[i] EXCEPT !.idle = TRUE]
  BY <1>1, Zenon DEF GrowIdle, Entry
<1>4. a[i] \in Entry(Tasks)
  BY <1>1
<1>5. b[i].task = a[i].task /\ b[i].detect = a[i].detect /\ b[i].st = a[i].st /\ b[i].idle = TRUE
  BY <1>3, <1>4, Zenon DEF Entry
<1>6. DOMAIN b = DOMAIN a
  BY <1>1, Zenon DEF GrowIdle
<1>7. queue'["rs"] = b /\ queue'["od"] = queue["od"]
  BY RSQueue DEF TypeOK, StreamTypes
<1> HIDE DEF b
<1>8. \A j \in DOMAIN a : /\ b[j].task = a[j].task /\ b[j].detect = a[j].detect
                          /\ b[j].st = a[j].st
                          /\ b[j].idle = IF j = i THEN TRUE ELSE a[j].idle
  BY <1>2, <1>5
<1> QED
  BY <1>6, <1>7, <1>8, Zenon DEF Aged

\* XADD.
LEMMA AddAppends ==
    ASSUME TypeOK, NEW q \in Queues, NEW t \in Tasks, NEW d \in BOOLEAN,
           queue' = [queue EXCEPT ![q] = XAdd(queue[q], t, d)]
    PROVE  Appended(q, t, d)
<1> DEFINE a == queue[q]
           e == [task |-> t, detect |-> d, st |-> "new", idle |-> FALSE]
           b == XAdd(a, t, d)
<1>1. a \in Seq(Entry(Tasks))
  BY DEF TypeOK, StreamTypes
<1>2. b = Append(a, e)
  BY DEF XAdd
<1>3. e.task = t /\ e.detect = d /\ e.st = "new" /\ e.idle = FALSE
  OBVIOUS
<1>4. queue'[q] = b /\ \A p \in Queues \ {q} : queue'[p] = queue[p]
  BY DEF TypeOK, StreamTypes
<1> HIDE DEF e, b
<1>5. /\ DOMAIN b = DOMAIN a \cup {Len(a) + 1}
      /\ \A j \in DOMAIN a : b[j] = a[j]
      /\ b[Len(a) + 1] = e
  <2> HIDE DEF a
  <2> QED
    BY <1>1, <1>2
<1> QED
  BY <1>3, <1>4, <1>5 DEF Appended

-----------------------------------------------------------------------------
(* What a step of a goroutine does besides writing rows.                   *)

\* The goroutine goes on with its job.  It reaches the second query of shouldSkipODJob
\* only with a job that asks for detection, and the enqueueing of a detection job only
\* in an rs-worker.
Onward(s) ==
    \E p \in PC \ {"free", "claim"} : \E n, m, a :
        /\ RunTo(s, p, n, m, a)
        /\ p = "odRow" => run[s].detect
        /\ p = "odAdd" => IsRS(s) /\ (run[s].detect \/ At(s, "odRow"))

LEMMA GotoOnward ==
    ASSUME run \in [Slots -> Run], NEW s \in Slots, NEW p \in PC, Goto(s, p),
           p \notin {"free", "claim", "odRow", "odAdd"}
    PROVE  Onward(s)
  BY GotoRunTo, Zenon DEF Onward

LEMMA AdvanceOnward ==
    ASSUME run \in [Slots -> Run], NEW s \in Slots, Advance(s)
    PROVE  Onward(s)
  BY AdvanceRunTo, PCs DEF Onward

LEMMA PipelineOnward ==
    ASSUME TypeOK, NEW s \in Slots, PipelineStep(s)
    PROVE  Onward(s)
<1>0. run \in [Slots -> Run]
  BY DEF TypeOK, RunTypes
<1>1. CASE ClaimTask(s)
  <2>1. \E p \in {"stage", "check", "ack"} : Goto(s, p)
    BY <1>1 DEF ClaimTask
  <2> QED
    BY <1>0, <2>1, GotoOnward, PCs
<1>2. CASE CheckRunning(s)
  <2>1. \E p \in {"snapshot", "ack"} : Goto(s, p)
    BY <1>2 DEF CheckRunning
  <2> QED
    BY <1>0, <2>1, GotoOnward, PCs
<1>3. CASE SuccessStages(s)
  <2> DEFINE found == {k \in Stages : stage[run[s].task][k] = "success"}
  <2>1. CASE Goto(s, "stage")
    BY <1>0, <2>1, GotoOnward, PCs
  <2>2. CASE run' = [run EXCEPT ![s].pc = "stage", ![s].skip = found]
    <3>1. found \in SUBSET Stages
      OBVIOUS
    <3> HIDE DEF found
    <3>2. RunTo(s, "stage", run[s].k, found, run[s].attempt)
      BY <1>0, <2>2, <3>1, PCs, SkipRunTo, Zenon
    <3> QED
      BY <3>2, PCs DEF Onward
  <2> QED
    BY <1>3, <2>1, <2>2, Zenon DEF SuccessStages
<1>4. CASE SkipStage(s)
  BY <1>0, <1>4, AdvanceOnward DEF SkipStage
<1>5. CASE DropSkip(s)
  <2> DEFINE m == run[s].skip \ {run[s].k}
  <2>1. m \in SUBSET Stages
    BY <1>0, RunFields
  <2>2. run' = [run EXCEPT ![s].skip = m] /\ run[s].pc = "stage"
    BY <1>5, Zenon DEF DropSkip, At
  <2> HIDE DEF m
  <2>3. RunTo(s, run[s].pc, run[s].k, m, run[s].attempt)
    BY <1>0, <2>1, <2>2, PCs, SkipRunTo, Zenon
  <2> QED
    BY <2>2, <2>3, PCs DEF Onward
<1>6. CASE SkipDetection(s)
  BY <1>0, <1>6, AdvanceOnward, GotoOnward, PCs DEF SkipDetection
<1>7. CASE ShouldSkipODJob(s)
  <2>1. /\ run[s].detect
        /\ \E p \in {"ack", "odRow", "odAdd", "begin"} : Goto(s, p) /\ (p = "odAdd" => IsRS(s))
    BY <1>7 DEF ShouldSkipODJob
  <2> QED
    BY <1>0, <2>1, GotoRunTo, PCs DEF Onward
<1>8. CASE ODRowSuccess(s)
  <2>1. \E p \in {"finish", "ack"} : Goto(s, p)
    BY <1>8 DEF ODRowSuccess
  <2> QED
    BY <1>0, <2>1, GotoOnward, PCs
<1>9. CASE ODRowOther(s)
  <2>1. /\ At(s, "odRow")
        /\ \E p \in {"odAdd", "begin"} : Goto(s, p) /\ (p = "odAdd" => IsRS(s))
    BY <1>9 DEF ODRowOther
  <2> QED
    BY <1>0, <2>1, GotoRunTo, PCs DEF Onward
<1>10. CASE EnqueueOD(s)
  <2>1. \E p \in {"ack", "fail"} : Goto(s, p)
    BY <1>10 DEF EnqueueOD
  <2> QED
    BY <1>0, <2>1, GotoOnward, PCs
<1> QED
  BY <1>1, <1>2, <1>3, <1>4, <1>5, <1>6, <1>7, <1>8, <1>9, <1>10 DEF PipelineStep

LEMMA StageOnward ==
    ASSUME TypeOK, NEW s \in Slots, StageStep(s)
    PROVE  Onward(s)
<1>0. run \in [Slots -> Run]
  BY DEF TypeOK, RunTypes
<1>1. CASE BeginStage(s)
  <2>1. CASE Goto(s, "fail")
    BY <1>0, <2>1, GotoOnward, PCs
  <2>2. CASE run' = [run EXCEPT ![s].pc = "exec", ![s].attempt = 1]
    <3>1. RunTo(s, "exec", run[s].k, run[s].skip, 1)
      BY <1>0, <2>2, PCs, AttemptRunTo
    <3> QED
      BY <3>1, PCs DEF Onward
  <2> QED
    BY <1>1, <2>1, <2>2, Zenon DEF BeginStage
<1>2. CASE ExecFailure(s)
  <2>1. CASE Goto(s, "failRow")
    BY <1>0, <2>1, GotoOnward, PCs
  <2>2. CASE run' = [run EXCEPT ![s].attempt = run[s].attempt + 1]
    <3> DEFINE a == run[s].attempt + 1
    <3>1. a \in Nat
      BY <1>0, RunFields
    <3>2. run' = [run EXCEPT ![s].attempt = a] /\ run[s].pc = "exec"
      BY <1>2, <2>2, Zenon DEF ExecFailure, At
    <3> HIDE DEF a
    <3>3. RunTo(s, run[s].pc, run[s].k, run[s].skip, a)
      BY <1>0, <3>1, <3>2, PCs, AttemptRunTo, Zenon
    <3> QED
      BY <3>2, <3>3, PCs DEF Onward
  <2> QED
    BY <1>2, <2>1, <2>2, Zenon DEF ExecFailure
<1>3. CASE RecordArtifacts(s)
  BY <1>0, <1>3, AdvanceOnward DEF RecordArtifacts
<1>4. CASE ExecSuccess(s) \/ Succeed(s) \/ FailStageRow(s) \/ FailTaskRow(s)
  <2>1. \E p \in {"succeed", "record", "fail", "failTask"} : Goto(s, p)
    BY <1>4 DEF ExecSuccess, Succeed, FailStageRow, FailTaskRow
  <2> QED
    BY <1>0, <2>1, GotoOnward, PCs
<1> QED
  BY <1>1, <1>2, <1>3, <1>4 DEF StageStep

\* A step of a goroutine: it acknowledges its message and ends, or goes on; the only
\* job it enqueues is a detection job for its task.
LEMMA RunStepShape ==
    ASSUME TypeOK, NEW s \in Slots, RunStep(s)
    PROVE  /\ ~At(s, "free")
           /\ UNCHANGED <<wants, row, handler, proc, todo, release, group, inbox>>
           /\ NoFault \/ Fault \/ Spend("output")
           /\ \/ AckJob(s)
              \/ /\ Onward(s)
                 /\ UNCHANGED queue \/ (At(s, "odAdd") /\ Appended("od", run[s].task, TRUE))
<1>1. ~At(s, "free")
  BY DEF RunStep, PipelineStep, StageStep, EndStep, ClaimTask, CheckRunning, SuccessStages,
         SkipStage, DropSkip, SkipDetection, ShouldSkipODJob, ODRowSuccess, ODRowOther,
         EnqueueOD, BeginStage, ExecSuccess, ExecFailure, Succeed, RecordArtifacts,
         FailStageRow, FailTaskRow, FinishTaskWithError, FinishTaskCompleted, AckJob,
         AtStage, At
<1>2. UNCHANGED <<wants, row, api, group, inbox>>
  <2>1. CASE PipelineStep(s)
    BY <2>1, Zenon
       DEF PipelineStep, ClaimTask, CheckRunning, SuccessStages, SkipStage, DropSkip,
           SkipDetection, ShouldSkipODJob, ODRowSuccess, ODRowOther, EnqueueOD, rows
  <2>2. CASE StageStep(s)
    BY <2>2, Zenon
       DEF StageStep, BeginStage, ExecSuccess, ExecFailure, Succeed, RecordArtifacts,
           FailStageRow, FailTaskRow, rows
  <2>3. CASE EndStep(s)
    BY <2>3, Zenon DEF EndStep, FinishTaskWithError, FinishTaskCompleted, AckJob, rows
  <2> QED
    BY <2>1, <2>2, <2>3 DEF RunStep
<1>3. NoFault \/ Fault \/ Spend("output")
  <2>1. CASE PipelineStep(s)
    BY <2>1, Zenon
       DEF PipelineStep, ClaimTask, CheckRunning, SuccessStages, SkipStage, DropSkip,
           SkipDetection, ShouldSkipODJob, ODRowSuccess, ODRowOther, EnqueueOD, NoFault
  <2>2. CASE StageStep(s)
    BY <2>2, Zenon
       DEF StageStep, BeginStage, ExecSuccess, ExecFailure, Succeed, RecordArtifacts,
           FailStageRow, FailTaskRow, NoFault
  <2>3. CASE EndStep(s)
    BY <2>3, Zenon DEF EndStep, FinishTaskWithError, FinishTaskCompleted, AckJob, NoFault
  <2> QED
    BY <2>1, <2>2, <2>3 DEF RunStep
<1>4. \/ AckJob(s)
      \/ UNCHANGED queue
      \/ /\ At(s, "odAdd")
         /\ queue' = [queue EXCEPT !["od"] = XAdd(queue["od"], run[s].task, TRUE)]
  <2>1. CASE PipelineStep(s)
    BY <2>1, Zenon
       DEF PipelineStep, ClaimTask, CheckRunning, SuccessStages, SkipStage, DropSkip,
           SkipDetection, ShouldSkipODJob, ODRowSuccess, ODRowOther, EnqueueOD
  <2>2. CASE StageStep(s)
    BY <2>2, Zenon
       DEF StageStep, BeginStage, ExecSuccess, ExecFailure, Succeed, RecordArtifacts,
           FailStageRow, FailTaskRow
  <2>3. CASE EndStep(s)
    BY <2>3, Zenon DEF EndStep, FinishTaskWithError, FinishTaskCompleted
  <2> QED
    BY <2>1, <2>2, <2>3 DEF RunStep
<1>5. AckJob(s) \/ Onward(s)
  <2>1. run \in [Slots -> Run]
    BY DEF TypeOK, RunTypes
  <2>2. CASE FinishTaskWithError(s) \/ FinishTaskCompleted(s)
    BY <2>1, <2>2, GotoOnward, PCs DEF FinishTaskWithError, FinishTaskCompleted
  <2> QED
    BY <2>2, PipelineOnward, StageOnward DEF RunStep, EndStep
<1>6. run[s].task \in Tasks
  BY <1>1, BusyRun
<1> QED
  BY <1>1, <1>2, <1>3, <1>4, <1>5, <1>6, AddAppends, RSQueue, Zenon DEF api

\* The end of a goroutine: its message is acknowledged, unless Redis or the group fails.
LEMMA AckShape ==
    ASSUME TypeOK, NEW s \in Slots, AckJob(s)
    PROVE  /\ At(s, "ack")
           /\ run'[s] = Free
           /\ \A x \in Slots \ {s} : run'[x] = run[x]
           /\ run[s].msg \in DOMAIN queue[QueueOf(s[1])]
           /\ UNCHANGED task
           /\ \/ UNCHANGED queue /\ (~group[QueueOf(s[1])] \/ Fault)
              \/ Marked(QueueOf(s[1]), {run[s].msg}, AckState(QueueOf(s[1]), run[s].msg))
<1> DEFINE q == QueueOf(s[1])
           i == run[s].msg
<1>1. At(s, "ack")
  BY DEF AckJob
<1>2. i \in DOMAIN queue[q] /\ q \in Queues
  BY <1>1, BusyRun, QueueOfQueues DEF At
<1>3. run' = [run EXCEPT ![s] = Free]
  BY DEF AckJob
<1>4. /\ UNCHANGED task
      /\ \/ queue' = [queue EXCEPT ![q] = XAck(queue[q], i)]
         \/ UNCHANGED queue /\ (~group[q] \/ Fault)
  BY Zenon DEF AckJob
<1> HIDE DEF q, i
<1>5. \/ UNCHANGED queue /\ (~group[q] \/ Fault)
      \/ Marked(q, {i}, AckState(q, i))
  BY <1>2, <1>4, AckMarks
<1> QED
  BY <1>1, <1>2, <1>3, <1>4, <1>5 DEF TypeOK, RunTypes, q, i

-----------------------------------------------------------------------------
(* What the other steps do to the streams, the receivers and the places.   *)

\* A hazard that strikes has struck, and none is ever taken back.
LEMMA SpendStrikes ==
    ASSUME TypeOK, NEW g \in Hazards, Spend(g)
    PROVE  /\ spent'[g] # 0
           /\ \A h \in Hazards : h # g => spent'[h] = spent[h]
           /\ \A h \in Hazards : spent'[h] = 0 => spent[h] = 0
<1>1. spent \in [Hazards -> Nat]
  BY DEF TypeOK, ProcTypes
<1>2. spent' = [spent EXCEPT ![g] = spent[g] + 1]
  BY DEF Spend
<1> QED
  BY <1>1, <1>2

LEMMA CrashKinds ==
    ASSUME NEW p \in Procs
    PROVE  /\ CrashKind(p) \in Hazards
           /\ p = API => CrashKind(p) = "apiCrash"
           /\ p \in RSWorkers /\ HandsBack(p) => CrashKind(p) = "handBack"
           /\ p \in RSWorkers /\ ~HandsBack(p) => CrashKind(p) = "rsCrash"
           /\ p \in ODWorkers => CrashKind(p) = "odCrash"
<1>0. p = API \/ p \in RSWorkers \/ p \in ODWorkers
  BY DEF Procs, Workers
<1>1. CASE p = API
  BY <1>1, ConstantsAssumption DEF CrashKind, Hazards
<1>2. CASE p \in RSWorkers /\ HandsBack(p)
  BY <1>2, ConstantsAssumption DEF CrashKind, Hazards
<1>3. CASE p \in RSWorkers /\ ~HandsBack(p)
  BY <1>3, ConstantsAssumption DEF CrashKind, Hazards
<1>4. CASE p \in ODWorkers
  BY <1>4, ConstantsAssumption DEF CrashKind, Hazards
<1> QED
  BY <1>0, <1>1, <1>2, <1>3, <1>4

LEMMA NextSpends ==
    ASSUME TypeOK, Next
    PROVE  NoFault \/ \E h \in Hazards : Spend(h)
<1>0. \A h \in {"fault", "output", "slow", "rsGroup", "odGroup", "foreign"} : h \in Hazards
  BY DEF Hazards
<1>1. ASSUME NEW t \in Tasks, HandlerStep(t) \/ \E d \in DetectRequests : CreateTask(t, d)
      PROVE  NoFault \/ Fault
  BY <1>1 DEF HandlerStep, CreateTask, CreateStage, DeleteTask, EnqueueTask
<1>2. ASSUME NEW p \in Procs, ProcStep(p) \/ Crash(p)
      PROVE  NoFault \/ Fault \/ Spend(CrashKind(p))
  BY <1>2, Zenon DEF ProcStep, Restart, BootEnqueue, BootDone, Crash, NoFault
<1>3. ASSUME NEW i \in DOMAIN queue["rs"], IdleOrphan(i) \/ IdleHeld(i)
      PROVE  NoFault \/ Spend("slow")
  BY <1>3 DEF IdleOrphan, IdleHeld, NoFault
<1>4. ASSUME NEW q \in Queues, LoseGroup(q)
      PROVE  Spend("rsGroup") \/ Spend("odGroup")
  BY <1>4 DEF LoseGroup
<1>5. ASSUME NEW w \in Workers, ReceiveStep(w)
      PROVE  NoFault \/ Spend("foreign")
  BY <1>5 DEF ReceiveStep, ReadJob, ReclaimStaleRSJobs, RebuildGroup, Foreign, NoFault
<1>6. ASSUME NEW c \in Receivers, HandleStep(c)
      PROVE  NoFault \/ Fault
  BY <1>6, Zenon DEF HandleStep, ProcessJob, ReleaseAck, ReleaseAdd
<1>7. ASSUME NEW s \in Slots, RunStep(s)
      PROVE  NoFault \/ Fault \/ Spend("output")
  BY <1>7, RunStepShape
<1> QED
  BY <1>0, <1>1, <1>2, <1>3, <1>4, <1>5, <1>6, <1>7, CrashKinds DEF Next, Fault

\* What has not struck after a step had not struck before it.
LEMMA StillZero ==
    ASSUME TypeOK, [Next]_vars, NEW h \in Hazards, spent'[h] = 0
    PROVE  spent[h] = 0
  BY NextSpends, SpendStrikes DEF NoFault, vars

\* CreateTask's last step.
LEMMA EnqueueShape ==
    ASSUME TypeOK, NEW t \in Tasks, EnqueueTask(t)
    PROVE  \/ Fault /\ UNCHANGED queue
           \/ NoFault /\ Appended("rs", t, wants[t])
<1>1. wants[t] \in BOOLEAN
  BY DEF TypeOK, RowTypes
<1>2. queue' = [queue EXCEPT !["rs"] = XAdd(queue["rs"], t, wants[t])]
         => Appended("rs", t, wants[t])
  BY <1>1, AddAppends, RSQueue
<1>3. \/ Fault /\ UNCHANGED queue
      \/ NoFault /\ queue' = [queue EXCEPT !["rs"] = XAdd(queue["rs"], t, wants[t])]
  BY DEF EnqueueTask, JobOfRequest
<1> QED
  BY <1>2, <1>3

\* A process that starts makes sure of the group of its stream.
LEMMA RestartShape ==
    ASSUME TypeOK, NEW p \in Procs, Restart(p)
    PROVE  \/ UNCHANGED <<group, queue>> /\ (p = API \/ group[QueueOf(p)])
           \/ /\ p \in Workers /\ ~group[QueueOf(p)]
              /\ group' = [group EXCEPT ![QueueOf(p)] = TRUE]
              /\ Marked(QueueOf(p), DOMAIN queue[QueueOf(p)], "new")
  BY RegroupMarks, QueueOfQueues, Zenon DEF Restart, EnsureGroup, Procs

LEMMA BootShape ==
    ASSUME TypeOK, NEW p \in Procs, BootEnqueue(p)
    PROVE  \E t \in Tasks :
              /\ t \in todo[p]
              /\ todo' = [todo EXCEPT ![p] = todo[p] \ {t}]
              /\ \/ Fault /\ UNCHANGED queue
                 \/ NoFault /\ Appended("rs", t, row[t])
<1>1. PICK t \in todo[p] :
            /\ todo' = [todo EXCEPT ![p] = todo[p] \ {t}]
            /\ \/ queue' = [queue EXCEPT !["rs"] = XAdd(queue["rs"], t, row[t])] /\ NoFault
               \/ Fault /\ UNCHANGED queue
  BY Zenon DEF BootEnqueue
<1>2. t \in Tasks /\ row[t] \in BOOLEAN
  BY DEF TypeOK, ProcTypes, RowTypes
<1>3. queue' = [queue EXCEPT !["rs"] = XAdd(queue["rs"], t, row[t])]
         => Appended("rs", t, row[t])
  BY <1>2, AddAppends, RSQueue
<1> QED
  BY <1>1, <1>2, <1>3

LEMMA IdleShape ==
    ASSUME TypeOK, NEW i \in DOMAIN queue["rs"], IdleOrphan(i) \/ IdleHeld(i)
    PROVE  /\ Aged(i)
           /\ ~Held("rs", i) \/ Spend("slow")
  BY IdleAges, Zenon DEF IdleOrphan, IdleHeld

\* The receivers of w after a read.
LEMMA ReadShape ==
    ASSUME TypeOK, NEW w \in Workers, ReadJob(w)
    PROVE  /\ <<w, "read">> \in Receivers
           /\ \E i \in DOMAIN queue[QueueOf(w)] :
                 /\ queue[QueueOf(w)][i].st = "new"
                 /\ Marked(QueueOf(w), {i}, "pending")
                 /\ inbox' = [inbox EXCEPT ![<<w, "read">>] = {i}]
<1>1. PICK i \in Undelivered(queue[QueueOf(w)]) :
            /\ queue' = [queue EXCEPT ![QueueOf(w)] = Deliver(queue[QueueOf(w)], i)]
            /\ inbox' = [inbox EXCEPT ![<<w, "read">>] = {i}]
  BY Zenon DEF ReadJob
<1>2. i \in DOMAIN queue[QueueOf(w)] /\ queue[QueueOf(w)][i].st = "new"
  BY DEF Undelivered
<1>3. <<w, "read">> \in Receivers
  BY DEF Receivers
<1> QED
  BY <1>1, <1>2, <1>3, ReadMarks, QueueOfQueues, Zenon

LEMMA ReclaimShape ==
    ASSUME TypeOK, NEW w \in Workers, ReclaimStaleRSJobs(w)
    PROVE  /\ <<w, "reclaim">> \in Receivers /\ w \in RSWorkers
           /\ Marked("rs", Claimable(queue["rs"]), "pending")
           /\ inbox' = [inbox EXCEPT ![<<w, "reclaim">>] = Claimable(queue["rs"])]
<1>1. /\ w \in RSWorkers
      /\ queue' = [queue EXCEPT !["rs"] = AutoClaim(queue["rs"])]
      /\ inbox' = [inbox EXCEPT ![<<w, "reclaim">>] = Claimable(queue["rs"])]
  BY Zenon DEF ReclaimStaleRSJobs
<1> QED
  BY <1>1, ClaimMarks, Zenon DEF Receivers

LEMMA RebuildShape ==
    ASSUME TypeOK, NEW w \in Workers, RebuildGroup(w)
    PROVE  /\ ~group["od"] /\ group' = [group EXCEPT !["od"] = TRUE]
           /\ Marked("od", DOMAIN queue["od"], "new")
           /\ UNCHANGED inbox
  BY RegroupMarks, RSQueue, Zenon DEF RebuildGroup, EnsureGroup

\* A goroutine starts on a message.
LEMMA ProcessShape ==
    ASSUME TypeOK, NEW c \in Receivers, ProcessJob(c)
    PROVE  \E i \in inbox[c] : \E s \in Slots :
              /\ i \in DOMAIN queue[QueueOf(c[1])]
              /\ s[1] = c[1] /\ At(s, "free")
              /\ \A x \in Slots \ {s} : run'[x] = run[x]
              /\ run'[s].pc = IF IsRS(s) THEN "claim" ELSE "stage"
              /\ run'[s].msg = i
              /\ run'[s].task = queue[QueueOf(c[1])][i].task
              /\ run'[s].detect = queue[QueueOf(c[1])][i].detect
              /\ run'[s].k = IF IsRS(s) THEN 1 ELSE OD
              /\ run'[s].skip = {}
              /\ inbox' = [inbox EXCEPT ![c] = inbox[c] \ {i}]
<1> DEFINE q == QueueOf(c[1])
<1>1. PICK i \in inbox[c], s \in Slots :
            /\ s[1] = c[1] /\ At(s, "free")
            /\ run' = [run EXCEPT ![s] = NewRun(s, i, queue[q][i])]
            /\ inbox' = [inbox EXCEPT ![c] = inbox[c] \ {i}]
  BY DEF ProcessJob
<1>2. i \in DOMAIN queue[q] /\ queue[q] \in Seq(Entry(Tasks))
  BY QueueOfQueues DEF TypeOK, StreamTypes
<1> DEFINE e == queue[q][i]
           new == NewRun(s, i, e)
<1>3. e \in Entry(Tasks) /\ i \in Nat
  BY <1>2
<1>4. run'[s] = new /\ \A x \in Slots \ {s} : run'[x] = run[x]
  BY <1>1 DEF TypeOK, RunTypes
<1>5. i \in DOMAIN queue[q]
  BY <1>2
<1>6. /\ new.pc = IF IsRS(s) THEN "claim" ELSE "stage"
      /\ new.msg = i
      /\ new.task = e.task
      /\ new.k = IF IsRS(s) THEN 1 ELSE OD
      /\ new.skip = {}
  <2> HIDE DEF e
  <2> QED
    BY <1>3, NewRunType
<1>7. new.detect = e.detect
  <2> HIDE DEF e
  <2> QED
    BY <1>3, FreeType, Zenon DEF NewRun, Run
<1> HIDE DEF new
<1> QED
  BY <1>1, <1>4, <1>5, <1>6, <1>7

\* A job of another satellite is acknowledged and kept in hand, or stays as it is.
LEMMA ReleaseAckShape ==
    ASSUME TypeOK, NEW c \in Receivers, ReleaseAck(c)
    PROVE  /\ c[1] \in RSWorkers
           /\ release[c] = {}
           /\ \E i \in inbox[c] :
                 /\ i \in DOMAIN queue["rs"]
                 /\ inbox' = [inbox EXCEPT ![c] = inbox[c] \ {i}]
                 /\ \/ Fault /\ UNCHANGED <<queue, release>>
                    \/ /\ NoFault
                       /\ release' = [release EXCEPT ![c] = {i}]
                       /\ \/ ~group["rs"] /\ UNCHANGED queue
                          \/ group["rs"] /\ Marked("rs", {i}, AckState("rs", i))
<1>1. PICK i \in inbox[c] :
            /\ ~ShouldProcess(c[1], i)
            /\ inbox' = [inbox EXCEPT ![c] = inbox[c] \ {i}]
            /\ \/ /\ release' = [release EXCEPT ![c] = {i}]
                  /\ queue' = IF group["rs"] THEN [queue EXCEPT !["rs"] = XAck(queue["rs"], i)]
                              ELSE queue
                  /\ NoFault
               \/ Fault /\ UNCHANGED <<queue, release>>
  BY Zenon DEF ReleaseAck
<1>2. c[1] \in RSWorkers
  BY <1>1 DEF ShouldProcess
<1>3. i \in DOMAIN queue["rs"]
  BY <1>2 DEF TypeOK, StreamTypes, QueueOf
<1>4. release[c] = {}
  BY DEF ReleaseAck
<1>5. queue' = [queue EXCEPT !["rs"] = XAck(queue["rs"], i)]
         => Marked("rs", {i}, AckState("rs", i))
  BY <1>3, AckMarks, RSQueue
<1>6. \/ Fault /\ UNCHANGED <<queue, release>>
      \/ /\ NoFault /\ release' = [release EXCEPT ![c] = {i}]
         /\ \/ ~group["rs"] /\ UNCHANGED queue
            \/ group["rs"] /\ queue' = [queue EXCEPT !["rs"] = XAck(queue["rs"], i)]
  BY <1>1, Zenon
<1> QED
  BY <1>1, <1>2, <1>3, <1>4, <1>5, <1>6, Zenon

LEMMA ReleaseAddShape ==
    ASSUME TypeOK, NEW c \in Receivers, ReleaseAdd(c)
    PROVE  /\ release' = [release EXCEPT ![c] = {}]
           /\ \E i \in release[c] :
                 /\ i \in DOMAIN queue["rs"]
                 /\ \/ Fault /\ UNCHANGED queue
                    \/ NoFault /\ Appended("rs", queue["rs"][i].task, queue["rs"][i].detect)
<1>1. PICK i \in release[c] :
            \/ /\ queue' = [queue EXCEPT !["rs"] = XAdd(queue["rs"], queue["rs"][i].task,
                                                       queue["rs"][i].detect)]
               /\ NoFault
            \/ Fault /\ UNCHANGED queue
  BY Zenon DEF ReleaseAdd
<1>2. i \in DOMAIN queue["rs"] /\ queue["rs"][i] \in Entry(Tasks)
  BY RSQueue DEF TypeOK, StreamTypes
<1>3. queue["rs"][i].task \in Tasks /\ queue["rs"][i].detect \in BOOLEAN
  BY <1>2 DEF Entry
<1>4. queue' = [queue EXCEPT !["rs"] = XAdd(queue["rs"], queue["rs"][i].task,
                                            queue["rs"][i].detect)]
         => Appended("rs", queue["rs"][i].task, queue["rs"][i].detect)
  BY <1>3, AddAppends, RSQueue, Zenon
<1> QED
  BY <1>1, <1>2, <1>4, Zenon DEF ReleaseAdd
=============================================================================
