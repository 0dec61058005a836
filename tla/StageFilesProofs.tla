-------------------------- MODULE StageFilesProofs --------------------------
(***************************************************************************)
(* What a task leaves for others, for every value of the constants: the    *)
(* program of a stage finds its inputs (InputsPresent), and the files that *)
(* jobs and artifact rows name are on NFS (NamedFilesPresent); a detected  *)
(* file has one row (CountedOnceIfAlone), and a lone request brings the    *)
(* rows in line with the files (SyncedIfAlone); a client gets the events   *)
(* in order (StreamsComplete), and only one that leaves while an event is  *)
(* published is sent to afterwards (ClosedOnlyWhilePublishing).            *)
(*                                                                         *)
(* The files.  The invariant: a Pod that is at a stage can read what all   *)
(* the stages before it wrote.  With isolation this is so because the      *)
(* files of a successful stage stay on NFS, where every Pod reads them     *)
(* (SuccessMade, SkipMade); without isolation and disturbances because no  *)
(* run begins in the middle (NoResume).  There a task has one run, which   *)
(* records its image once, so that the one copy of it is over before       *)
(* anything names the file on NFS that the copy truncates (Calm).          *)
(*                                                                         *)
(* The artifact rows.  A request that has met no one runs alone (Alone),   *)
(* so nobody changes the files or the rows between its steps (Syncing).    *)
(*                                                                         *)
(* The events.  The list holds the clients that are there, each once       *)
(* (Listed), and what is being sent was published after they subscribed    *)
(* (Since), so that a send continues the stream in order.                  *)
(*                                                                         *)
(* The pipeline without od-workers is an instance of TaskPipeline, whose   *)
(* theorems give InlineSound.                                              *)
(***************************************************************************)
EXTENDS StageFilesMC, FiniteSetTheorems, SequenceTheorems, WellFoundedInduction, TLAPS

-----------------------------------------------------------------------------
(* The files.                                                              *)

\* A worker of Pod p can read all that the j-th stage writes for task t.
Made(t, j, p) == \A q \in Writes(StageDefinitions[j]) : Present(t, q, p)

\* Stage k has written its files of task t to NFS.
OnNFS(t, k) == \A q \in Writes(k) : <<t, q>> \in files[NFS]

AtFusion == \A p \in Pods : pc[p] \in {"record", "copy"} => at[p] = 9

BeforeMade ==
    Undisturbed => \A p \in Pods : pc[p] # "idle" =>
        \A j \in 1 .. Last : j < at[p] => Made(job[p], j, p)

FusionMade ==
    Undisturbed => \A p \in Pods : pc[p] \in {"record", "copy"} => Made(job[p], 9, p)

NoResume ==
    (Undisturbed /\ ~cfg.isolated) => left = {} /\ \A p \in Pods : skip[p] = {}

SuccessMade ==
    cfg.isolated => \A t \in Tasks, k \in Stages : stage[t][k] = "success" => OnNFS(t, k)

SkipMade == cfg.isolated => \A p \in Pods : \A k \in skip[p] : OnNFS(job[p], k)

NoCopies == cfg.isolated => \A p \in Pods, t \in Tasks : copy[p][t] = "none"

Inv ==
    /\ TypeOK
    /\ AtFusion
    /\ BeforeMade
    /\ FusionMade
    /\ NoResume
    /\ SuccessMade
    /\ SkipMade
    /\ NoCopies
    /\ cfg.isolated => NamedFilesPresent

-----------------------------------------------------------------------------
(* The stages.                                                             *)

LEMMA StageFacts ==
    /\ \A i \in 1 .. Last : StageDefinitions[i] \in Stages
    /\ \A i \in 1 .. Last : StageDefinitions[i] = "fusion_stack_envi" <=> i = 9
    /\ \A i \in 1 .. Last : StageDefinitions[i] = "object_detection" <=> i = 10
    /\ "fusion_stack_envi" \in Stages /\ "object_detection" \in Stages
<1>1. \A i \in 1 .. Last : i = 1 \/ i = 2 \/ i = 3 \/ i = 4 \/ i = 5 \/ i = 6 \/ i = 7
                           \/ i = 8 \/ i = 9 \/ i = 10
    BY DEF Last
<1>2. \A i \in 1 .. Last : StageDefinitions[i] \in Stages
    BY DEF Stages
<1>3. 9 \in 1 .. Last /\ 10 \in 1 .. Last
    BY DEF Last
<1> QED
    BY <1>1, <1>2, <1>3 DEF StageDefinitions

\* What a stage needs has been written by a stage before it.
LEMMA NeedsMet ==
    ASSUME NEW i \in 1 .. Last, NEW q \in Needs(StageDefinitions[i])
    PROVE  \E j \in 1 .. Last : j < i /\ q \in Writes(StageDefinitions[j])
<1> USE DEF Needs, Writes, StageDefinitions, Last
<1>1. CASE i \in {1, 2, 3, 4, 5}
    BY <1>1
<1>2. CASE i \in {6, 7}
    BY <1>2
<1>3. CASE i \in {8, 9}
    BY <1>3
<1>4. CASE i = 10
    BY <1>4
<1> QED
    BY <1>1, <1>2, <1>3, <1>4

\* Hence a Pod at a stage can read what the stage needs, which is what is to be shown.
LEMMA InputsMade ==
    ASSUME Inv, Undisturbed, NEW p \in Pods, pc[p] # "idle"
    PROVE  HasInputs(job[p], Stage(p), p)
<1> SUFFICES ASSUME NEW q \in Needs(Stage(p)) PROVE Present(job[p], q, p)
    BY DEF HasInputs
<1>1. at[p] \in 1 .. Last
    BY DEF Inv, TypeOK
<1>2. PICK j \in 1 .. Last : j < at[p] /\ q \in Writes(StageDefinitions[j])
    BY <1>1, NeedsMet DEF Stage
<1> QED
    BY <1>2 DEF Inv, BeforeMade, Made

LEMMA InvImplies == Inv => InputsPresent
    BY InputsMade DEF InputsPresent

-----------------------------------------------------------------------------
(* The steps.                                                              *)

LEMMA PlaceIsPlace ==
    ASSUME NEW q, NEW p \in Pods
    PROVE  PlaceOf(q, p) \in Places /\ (cfg.isolated => PlaceOf(q, p) = NFS)
    BY DEF PlaceOf, Places

\* When files only appear, what could be read still can.
LEMMA Keeps ==
    ASSUME cfg' = cfg, \A v \in Places : files[v] \subseteq files'[v]
    PROVE  \A t, q : \A p \in Pods : Present(t, q, p) => Present(t, q, p)'
    BY PlaceIsPlace DEF Present, PlaceOf

LEMMA MadeIsKept ==
    ASSUME cfg' = cfg, \A t, q : \A p \in Pods : Present(t, q, p) => Present(t, q, p)'
    PROVE  \A t, j : \A p \in Pods : Made(t, j, p) => Made(t, j, p)'
    BY DEF Made, Writes

\* With isolation the Pods read NFS.
LEMMA ReadsNFS ==
    ASSUME cfg.isolated, NEW t, NEW j \in 1 .. Last, NEW p \in Pods
    PROVE  OnNFS(t, StageDefinitions[j]) <=> Made(t, j, p)
    BY PlaceIsPlace DEF OnNFS, Made, Present

LEMMA InitInv == Init => Inv
<1> SUFFICES ASSUME Init PROVE Inv
    OBVIOUS
<1> USE FilesAssumption
<1>1. TypeOK
  <2>1. cfg \in Settings /\ spent \in [Hazards -> Nat]
      BY DEF Init
  <2>2. job \in [Pods -> Tasks]
      BY DEF Init
  <2> QED
      BY <2>1, <2>2 DEF Init, TypeOK, Last, CopyStep, Places
<1> QED
    BY <1>1 DEF Init, Inv, AtFusion, BeforeMade, FusionMade, NoResume, SuccessMade, SkipMade,
                NoCopies, NamedFilesPresent

\* A Pod stays at its stage, or goes on from one that has written its files.
LEMMA GoesOn ==
    ASSUME Inv, NEW p \in Pods, pc[p] # "idle",
           cfg' = cfg, job' = job, Undisturbed' => Undisturbed,
           \A t, q : \A r \in Pods : Present(t, q, r) => Present(t, q, r)',
           \A r \in Pods \ {p} : pc'[r] = pc[r] /\ at'[r] = at[r],
           \/ at'[p] = at[p]
           \/ /\ at'[p] = at[p] + 1
              /\ \A i \in 1 .. Last : (Undisturbed' /\ i = at[p]) => Made(job[p], i, p)'
    PROVE  BeforeMade'
<1> SUFFICES ASSUME Undisturbed', NEW r \in Pods, pc'[r] # "idle", NEW j \in 1 .. Last, j < at'[r]
             PROVE  Made(job[r], j, r)'
    BY DEF BeforeMade
<1>1. at[r] \in 1 .. Last /\ j \in Nat /\ pc[r] # "idle"
    BY DEF Inv, TypeOK, Last
<1>2. CASE j < at[r]
  <2>1. Made(job[r], j, r)
      BY <1>1, <1>2 DEF Inv, BeforeMade
  <2> QED
      BY <2>1, MadeIsKept
<1>3. CASE r = p /\ j = at[p] /\ at'[p] = at[p] + 1
    BY <1>3
<1> QED
    BY <1>1, <1>2, <1>3 DEF Last

\* What a step keeps when the files, the runs' tasks and the deployment stay.
LEMMA Unmoved ==
    ASSUME cfg' = cfg, files' = files
    PROVE  /\ \A t, q : \A p \in Pods : Present(t, q, p)' <=> Present(t, q, p)
           /\ \A t, k : OnNFS(t, k)' <=> OnNFS(t, k)
           /\ \A t, j, p : Made(t, j, p)' <=> Made(t, j, p)
    BY DEF Present, OnNFS, Made, PlaceOf, Writes

\* A step of a run that leaves the files alone.
LEMMA RunStep ==
    ASSUME Inv, NEW p \in Pods, pc[p] # "idle",
           UNCHANGED <<cfg, files, job, skip, left, spent>>,
           \A r \in Pods \ {p} : pc'[r] = pc[r] /\ at'[r] = at[r],
           pc'[p] \in {"record", "copy"} => pc[p] \in {"record", "copy"} /\ at'[p] = at[p],
           at'[p] = at[p] \/ (at'[p] = at[p] + 1 /\ (Undisturbed => Made(job[p], at[p], p))),
           \A t \in Tasks, k \in Stages \ {"object_detection"} :
               stage'[t][k] = "success" => stage[t][k] = "success"
    PROVE  AtFusion' /\ BeforeMade' /\ FusionMade' /\ NoResume' /\ SuccessMade' /\ SkipMade'
<1>1. Undisturbed' <=> Undisturbed
    BY DEF Undisturbed
<1>2. BeforeMade'
  <2>1. \A i \in 1 .. Last : (Undisturbed' /\ i = at[p]) => at'[p] = at[p] \/ Made(job[p], i, p)'
      BY <1>1, Unmoved
  <2>2. \A t, q : \A r \in Pods : Present(t, q, r) => Present(t, q, r)'
      BY Unmoved
  <2> QED
      BY <1>1, <2>1, <2>2, GoesOn
<1>3. \A r \in Pods : pc'[r] \in {"record", "copy"} =>
          pc[r] \in {"record", "copy"} /\ at'[r] = at[r]
    OBVIOUS
<1>4. AtFusion' /\ FusionMade'
    BY <1>1, <1>3, Unmoved DEF Inv, AtFusion, FusionMade
<1>5. NoResume' /\ SkipMade'
    BY <1>1, Unmoved DEF Inv, NoResume, SkipMade
<1>6. \A t : OnNFS(t, "object_detection")
    BY DEF OnNFS, Writes
<1>7. SuccessMade'
  <2> SUFFICES ASSUME cfg.isolated, NEW t \in Tasks, NEW k \in Stages, stage'[t][k] = "success"
               PROVE  OnNFS(t, k)
      BY Unmoved DEF SuccessMade
  <2> QED
      BY <1>6 DEF Inv, SuccessMade
<1> QED
    BY <1>2, <1>4, <1>5, <1>7

\* The type of the new stage rows.
LEMMA SetStageType ==
    ASSUME TypeOK, NEW t \in Tasks, NEW k \in Stages,
           NEW x \in {"pending", "running", "success", "failed"}, SetStage(t, k, x)
    PROVE  /\ stage' \in [Tasks -> [Stages -> {"pending", "running", "success", "failed"}]]
           /\ \A u \in Tasks, l \in Stages :
                 stage'[u][l] = IF u = t /\ l = k THEN x ELSE stage[u][l]
    BY DEF TypeOK, SetStage

LEMMA SkipStageInv == ASSUME Inv, NEW p \in Pods, SkipStage(p) PROVE Inv'
<1>1. /\ UNCHANGED <<cfg, wants, task, stage, files, rows, job, skip, left, copy, odJobs, spent>>
      /\ pc[p] = "next" /\ pc' = [pc EXCEPT ![p] = "next"] /\ at' = [at EXCEPT ![p] = @ + 1]
    BY DEF SkipStage, NextStage, Goto
<1>2. TypeOK /\ pc \in [Pods -> {"idle", "next", "exec", "record", "copy", "ack"}]
      /\ at \in [Pods -> 1 .. Last]
    BY DEF Inv, TypeOK
<1>3. Stage(p) \in skip[p] /\ Stage(p) # "object_detection"
    BY DEF SkipStage, MaySkip, OutputStillValid
<1>4. at[p] \in 1 .. Last /\ at[p] + 1 \in 1 .. Last
    BY <1>2, <1>3, StageFacts DEF Stage, Last
<1>5. TypeOK'
    BY <1>1, <1>2, <1>4 DEF TypeOK
<1>6. Undisturbed => Made(job[p], at[p], p)
  <2>1. CASE cfg.isolated
    <3>1. OnNFS(job[p], Stage(p))
        BY <1>3, <2>1 DEF Inv, SkipMade
    <3> QED
        BY <3>1, <2>1, <1>4, ReadsNFS DEF Stage
  <2>2. CASE Undisturbed /\ ~cfg.isolated
      BY <2>2, <1>3 DEF Inv, NoResume
  <2> QED
      BY <2>1, <2>2
<1>7. AtFusion' /\ BeforeMade' /\ FusionMade' /\ NoResume' /\ SuccessMade' /\ SkipMade'
  <2>1. pc' = pc /\ at'[p] = at[p] + 1 /\ \A r \in Pods \ {p} : at'[r] = at[r]
      BY <1>1, <1>2
  <2> QED
      BY <1>1, <1>6, <2>1, RunStep
<1>8. NoCopies' /\ (cfg.isolated => NamedFilesPresent)'
    BY <1>1 DEF Inv, NoCopies, NamedFilesPresent, Undisturbed
<1> QED
    BY <1>5, <1>7, <1>8 DEF Inv

LEMMA BeginStageInv == ASSUME Inv, NEW p \in Pods, BeginStage(p) PROVE Inv'
<1>1. /\ UNCHANGED <<cfg, wants, task, files, rows, job, at, skip, left, copy, odJobs, spent>>
      /\ pc[p] = "next" /\ pc' = [pc EXCEPT ![p] = "exec"]
      /\ SetStage(job[p], Stage(p), "running")
    BY DEF BeginStage, Goto
<1>2. TypeOK /\ pc \in [Pods -> {"idle", "next", "exec", "record", "copy", "ack"}]
      /\ job[p] \in Tasks /\ Stage(p) \in Stages
    BY StageFacts DEF Inv, TypeOK, Stage
<1>3. /\ stage' \in [Tasks -> [Stages -> {"pending", "running", "success", "failed"}]]
      /\ \A t \in Tasks, k \in Stages : stage'[t][k] = "success" => stage[t][k] = "success"
    BY <1>1, <1>2, SetStageType
<1>4. pc' \in [Pods -> {"idle", "next", "exec", "record", "copy", "ack"}]
      /\ pc'[p] = "exec" /\ \A r \in Pods \ {p} : pc'[r] = pc[r]
    BY <1>1, <1>2
<1>5. TypeOK'
    BY <1>1, <1>2, <1>3, <1>4 DEF TypeOK
<1>6. AtFusion' /\ BeforeMade' /\ FusionMade' /\ NoResume' /\ SuccessMade' /\ SkipMade'
    BY <1>1, <1>3, <1>4, RunStep
<1>7. NoCopies' /\ (cfg.isolated => NamedFilesPresent)'
    BY <1>1 DEF Inv, NoCopies, NamedFilesPresent, Undisturbed
<1> QED
    BY <1>5, <1>6, <1>7 DEF Inv

\* A run that ends at its stage: ExecFailure, SkipDetection.
LEMMA FinishInv ==
    ASSUME Inv, NEW p \in Pods, pc[p] # "idle",
           UNCHANGED <<cfg, wants, files, rows, job, at, skip, left, copy, odJobs, spent>>,
           NEW x \in {"completed", "failed"}, task' = [task EXCEPT ![job[p]] = x],
           NEW y \in {"success", "failed"}, SetStage(job[p], Stage(p), y),
           y = "success" => Stage(p) = "object_detection",
           Goto(p, "idle")
    PROVE  Inv'
<1>1. TypeOK /\ pc \in [Pods -> {"idle", "next", "exec", "record", "copy", "ack"}]
      /\ job[p] \in Tasks /\ Stage(p) \in Stages
    BY StageFacts DEF Inv, TypeOK, Stage
<1>2. /\ stage' \in [Tasks -> [Stages -> {"pending", "running", "success", "failed"}]]
      /\ \A t \in Tasks, k \in Stages \ {"object_detection"} :
            stage'[t][k] = "success" => stage[t][k] = "success"
    BY <1>1, SetStageType
<1>3. pc' \in [Pods -> {"idle", "next", "exec", "record", "copy", "ack"}]
      /\ pc'[p] = "idle" /\ \A r \in Pods \ {p} : pc'[r] = pc[r]
    BY <1>1 DEF Goto
<1>4. task' \in [Tasks -> {"pending", "running", "completed", "failed"}]
    BY <1>1 DEF TypeOK
<1>5. TypeOK'
    BY <1>1, <1>2, <1>3, <1>4 DEF TypeOK
<1>6. AtFusion' /\ BeforeMade' /\ FusionMade' /\ NoResume' /\ SuccessMade' /\ SkipMade'
    BY <1>2, <1>3, RunStep
<1>7. NoCopies' /\ (cfg.isolated => NamedFilesPresent)'
    BY DEF Inv, NoCopies, NamedFilesPresent, Undisturbed
<1> QED
    BY <1>5, <1>6, <1>7 DEF Inv

LEMMA ExecFailureInv == ASSUME Inv, NEW p \in Pods, ExecFailure(p) PROVE Inv'
    BY FinishInv DEF ExecFailure

LEMMA SkipDetectionInv == ASSUME Inv, NEW p \in Pods, SkipDetection(p) PROVE Inv'
    BY FinishInv DEF SkipDetection

LEMMA AckInv == ASSUME Inv, NEW p \in Pods, Ack(p) PROVE Inv'
<1>1. /\ UNCHANGED <<cfg, wants, task, stage, files, rows, job, at, skip, left, copy, odJobs, spent>>
      /\ pc[p] = "ack" /\ pc' = [pc EXCEPT ![p] = "idle"]
    BY DEF Ack, Goto
<1>2. TypeOK /\ pc \in [Pods -> {"idle", "next", "exec", "record", "copy", "ack"}]
    BY DEF Inv, TypeOK
<1>3. pc' \in [Pods -> {"idle", "next", "exec", "record", "copy", "ack"}]
      /\ pc'[p] = "idle" /\ \A r \in Pods \ {p} : pc'[r] = pc[r]
    BY <1>1, <1>2
<1>4. TypeOK'
    BY <1>1, <1>2, <1>3 DEF TypeOK
<1>5. AtFusion' /\ BeforeMade' /\ FusionMade' /\ NoResume' /\ SuccessMade' /\ SkipMade'
    BY <1>1, <1>3, RunStep
<1>6. NoCopies' /\ (cfg.isolated => NamedFilesPresent)'
    BY <1>1 DEF Inv, NoCopies, NamedFilesPresent, Undisturbed
<1> QED
    BY <1>4, <1>5, <1>6 DEF Inv

LEMMA EnqueueODInv == ASSUME Inv, NEW p \in Pods, EnqueueOD(p) PROVE Inv'
<1>1. /\ UNCHANGED <<cfg, wants, task, stage, files, rows, job, at, skip, left, copy, spent>>
      /\ pc[p] = "next" /\ pc' = [pc EXCEPT ![p] = "ack"]
      /\ Stage(p) = "object_detection"
      /\ odJobs' \subseteq odJobs \cup {job[p]}
    BY DEF EnqueueOD, Goto
<1>2. TypeOK /\ pc \in [Pods -> {"idle", "next", "exec", "record", "copy", "ack"}]
      /\ job[p] \in Tasks /\ odJobs \subseteq Tasks
    BY DEF Inv, TypeOK
<1>3. pc' \in [Pods -> {"idle", "next", "exec", "record", "copy", "ack"}]
      /\ pc'[p] = "ack" /\ \A r \in Pods \ {p} : pc'[r] = pc[r]
    BY <1>1, <1>2
<1>4. TypeOK'
    BY <1>1, <1>2, <1>3 DEF TypeOK
<1>5. AtFusion' /\ BeforeMade' /\ FusionMade' /\ NoResume' /\ SuccessMade' /\ SkipMade'
    BY <1>1, <1>3, RunStep
<1>6. NoCopies'
    BY <1>1 DEF Inv, NoCopies
<1>7. (cfg.isolated => NamedFilesPresent)'
  <2> SUFFICES ASSUME cfg.isolated
               PROVE  NamedFilesPresent'
      BY <1>1
  <2>1. <<job[p], "dat">> \in files[NFS]
    <3>1. HasInputs(job[p], "object_detection", p)
        BY <1>1, InputsMade DEF Undisturbed
    <3> QED
        BY <3>1, PlaceIsPlace DEF HasInputs, Needs, Present
  <2> QED
      BY <1>1, <2>1 DEF Inv, NamedFilesPresent, Undisturbed
<1> QED
    BY <1>4, <1>5, <1>6, <1>7 DEF Inv

LEMMA CopyReturnsInv == ASSUME Inv, NEW p \in Pods, CopyReturns(p) PROVE Inv'
<1>1. /\ UNCHANGED <<cfg, wants, task, stage, files, rows, job, skip, left, copy, odJobs, spent>>
      /\ pc[p] = "copy" /\ pc' = [pc EXCEPT ![p] = "next"] /\ at' = [at EXCEPT ![p] = @ + 1]
    BY DEF CopyReturns, NextStage, Goto
<1>2. TypeOK /\ pc \in [Pods -> {"idle", "next", "exec", "record", "copy", "ack"}]
      /\ at \in [Pods -> 1 .. Last] /\ at[p] = 9
    BY <1>1 DEF Inv, TypeOK, AtFusion
<1>3. /\ pc' \in [Pods -> {"idle", "next", "exec", "record", "copy", "ack"}]
      /\ at' \in [Pods -> 1 .. Last]
      /\ pc'[p] = "next" /\ at'[p] = at[p] + 1
      /\ \A r \in Pods \ {p} : pc'[r] = pc[r] /\ at'[r] = at[r]
    BY <1>1, <1>2 DEF Last
<1>4. TypeOK'
    BY <1>1, <1>2, <1>3 DEF TypeOK
<1>5. Undisturbed => Made(job[p], at[p], p)
    BY <1>1, <1>2 DEF Inv, FusionMade
<1>6. AtFusion' /\ BeforeMade' /\ FusionMade' /\ NoResume' /\ SuccessMade' /\ SkipMade'
    BY <1>1, <1>3, <1>5, RunStep
<1>7. NoCopies' /\ (cfg.isolated => NamedFilesPresent)'
    BY <1>1 DEF Inv, NoCopies, NamedFilesPresent, Undisturbed
<1> QED
    BY <1>4, <1>6, <1>7 DEF Inv

LEMMA RecordArtifactsInv == ASSUME Inv, NEW p \in Pods, RecordArtifacts(p) PROVE Inv'
<1>1. /\ UNCHANGED <<cfg, wants, task, stage, files, job, skip, left, odJobs, spent>>
      /\ pc[p] = "record"
      /\ rows' = [rows EXCEPT ![job[p]] =
                    @ \cup {IF cfg.isolated THEN "nfs" ELSE "scratch"}]
      /\ copy' = IF cfg.isolated THEN copy ELSE [copy EXCEPT ![p][job[p]] = "dat"]
      /\ \/ pc' = [pc EXCEPT ![p] = "copy"] /\ at' = at
         \/ pc' = [pc EXCEPT ![p] = "next"] /\ at' = [at EXCEPT ![p] = @ + 1]
    BY DEF RecordArtifacts, NextStage, Goto
<1>2. TypeOK /\ pc \in [Pods -> {"idle", "next", "exec", "record", "copy", "ack"}]
      /\ at \in [Pods -> 1 .. Last] /\ at[p] = 9 /\ job[p] \in Tasks
      /\ rows \in [Tasks -> SUBSET {"scratch", "nfs"}]
      /\ copy \in [Pods -> [Tasks -> CopyStep]]
    BY <1>1 DEF Inv, TypeOK, AtFusion
<1>3. /\ pc' \in [Pods -> {"idle", "next", "exec", "record", "copy", "ack"}]
      /\ at' \in [Pods -> 1 .. Last]
      /\ \A r \in Pods \ {p} : pc'[r] = pc[r] /\ at'[r] = at[r]
      /\ \/ pc'[p] = "copy" /\ at'[p] = at[p]
         \/ pc'[p] = "next" /\ at'[p] = at[p] + 1
  <2> USE <1>2 DEF Last
  <2>1. CASE pc' = [pc EXCEPT ![p] = "copy"] /\ at' = at
      BY <2>1
  <2>2. CASE pc' = [pc EXCEPT ![p] = "next"] /\ at' = [at EXCEPT ![p] = @ + 1]
      BY <2>2
  <2> QED
      BY <2>1, <2>2, <1>1
<1>4. rows' \in [Tasks -> SUBSET {"scratch", "nfs"}]
      /\ copy' \in [Pods -> [Tasks -> CopyStep]]
  <2>1. rows' \in [Tasks -> SUBSET {"scratch", "nfs"}]
      BY <1>1, <1>2
  <2>2. copy' \in [Pods -> [Tasks -> CopyStep]]
      BY <1>1, <1>2 DEF CopyStep
  <2> QED
      BY <2>1, <2>2
<1>5. TypeOK'
    BY <1>1, <1>2, <1>3, <1>4 DEF TypeOK
<1>6. Undisturbed => Made(job[p], at[p], p)
    BY <1>1, <1>2 DEF Inv, FusionMade
<1>7. AtFusion' /\ BeforeMade' /\ FusionMade' /\ NoResume' /\ SuccessMade' /\ SkipMade'
    BY <1>1, <1>3, <1>6, RunStep
<1>8. NoCopies'
    BY <1>1 DEF Inv, NoCopies
<1>9. (cfg.isolated => NamedFilesPresent)'
  <2> SUFFICES ASSUME cfg.isolated
               PROVE  NamedFilesPresent'
      BY <1>1
  <2>1. Undisturbed /\ NamedFilesPresent
      BY DEF Inv, Undisturbed
  <2>2. Made(job[p], 8, p) /\ Made(job[p], 9, p)
    <3>1. 8 \in 1 .. Last /\ 8 < at[p]
        BY <1>2 DEF Last
    <3> QED
        BY <1>1, <1>2, <1>6, <2>1, <3>1 DEF Inv, BeforeMade
  <2>3. {"dat", "preview"} \subseteq Writes("pansharpen_fusion") \cup Writes("fusion_stack_envi")
      BY DEF Writes
  <2>4. {<<job[p], "dat">>, <<job[p], "preview">>} \subseteq files[NFS]
      BY <2>2, <2>3, PlaceIsPlace DEF Made, Present, StageDefinitions
  <2>5. \A t \in Tasks : t # job[p] => rows'[t] = rows[t]
      BY <1>1, <1>2
  <2> QED
      BY <1>1, <2>1, <2>4, <2>5 DEF NamedFilesPresent
<1> QED
    BY <1>5, <1>7, <1>8, <1>9 DEF Inv

LEMMA DetectionFromJobInv == ASSUME Inv, NEW t \in Tasks, DetectionFromJob(t) PROVE Inv'
<1>1. UNCHANGED <<cfg, wants, files, rows, run, copy, spent>> /\ odJobs' \subseteq odJobs
    BY DEF DetectionFromJob
<1>2. TypeOK /\ odJobs \subseteq Tasks
      /\ task \in [Tasks -> {"pending", "running", "completed", "failed"}]
      /\ stage \in [Tasks -> [Stages -> {"pending", "running", "success", "failed"}]]
    BY DEF Inv, TypeOK
<1>3. /\ stage' \in [Tasks -> [Stages -> {"pending", "running", "success", "failed"}]]
      /\ task' \in [Tasks -> {"pending", "running", "completed", "failed"}]
      /\ \A u \in Tasks, k \in Stages \ {"object_detection"} : stage'[u][k] = stage[u][k]
  <2>1. CASE UNCHANGED <<task, stage>>
      BY <2>1, <1>2
  <2>2. CASE SetStage(t, "object_detection", "success") /\ task' = [task EXCEPT ![t] = "completed"]
      BY <2>2, <1>2, StageFacts, SetStageType
  <2>3. CASE SetStage(t, "object_detection", "failed") /\ task' = [task EXCEPT ![t] = "failed"]
      BY <2>3, <1>2, StageFacts, SetStageType
  <2> QED
      BY <2>1, <2>2, <2>3 DEF DetectionFromJob
<1>4. TypeOK'
    BY <1>1, <1>2, <1>3 DEF TypeOK, run
<1>5. AtFusion' /\ BeforeMade' /\ FusionMade' /\ NoResume' /\ SkipMade'
    BY <1>1, Unmoved DEF Inv, AtFusion, BeforeMade, FusionMade, NoResume, SkipMade, run, Undisturbed
<1>6. SuccessMade'
  <2> SUFFICES ASSUME cfg.isolated, NEW u \in Tasks, NEW k \in Stages, stage'[u][k] = "success"
               PROVE  OnNFS(u, k)
      BY <1>1, Unmoved DEF SuccessMade
  <2>1. CASE k = "object_detection"
      BY <2>1 DEF OnNFS, Writes
  <2>2. CASE k # "object_detection"
      BY <2>2, <1>3 DEF Inv, SuccessMade
  <2> QED
      BY <2>1, <2>2
<1>7. NoCopies' /\ (cfg.isolated => NamedFilesPresent)'
    BY <1>1 DEF Inv, NoCopies, NamedFilesPresent, Undisturbed
<1> QED
    BY <1>4, <1>5, <1>6, <1>7 DEF Inv

LEMMA ClaimInv == ASSUME Inv, NEW p \in Pods, NEW t \in Tasks, Claim(p, t) PROVE Inv'
<1>1. /\ UNCHANGED <<cfg, wants, stage, files, rows, copy, odJobs, spent>>
      /\ task[t] = "pending" \/ (task[t] = "running" /\ t \in left)
      /\ task' = [task EXCEPT ![t] = "running"]
      /\ pc' = [pc EXCEPT ![p] = "next"] /\ job' = [job EXCEPT ![p] = t]
      /\ at' = [at EXCEPT ![p] = 1]
      /\ skip' = [skip EXCEPT ![p] =
            IF task[t] = "running" THEN {k \in Stages : stage[t][k] = "success"} ELSE {}]
      /\ left' \subseteq left
    BY DEF Claim, Goto
<1>2. TypeOK /\ task \in [Tasks -> {"pending", "running", "completed", "failed"}]
      /\ pc \in [Pods -> {"idle", "next", "exec", "record", "copy", "ack"}]
      /\ job \in [Pods -> Tasks] /\ at \in [Pods -> 1 .. Last]
      /\ skip \in [Pods -> SUBSET Stages]
    BY DEF Inv, TypeOK
<1>3. /\ task' \in [Tasks -> {"pending", "running", "completed", "failed"}]
      /\ pc' \in [Pods -> {"idle", "next", "exec", "record", "copy", "ack"}]
      /\ job' \in [Pods -> Tasks] /\ at' \in [Pods -> 1 .. Last]
    BY <1>1, <1>2 DEF Last
<1>4. skip' \in [Pods -> SUBSET Stages]
    BY <1>1, <1>2
<1>5. TypeOK'
    BY <1>1, <1>2, <1>3, <1>4 DEF TypeOK
<1>6. /\ pc'[p] = "next" /\ at'[p] = 1 /\ job'[p] = t
      /\ \A r \in Pods \ {p} : pc'[r] = pc[r] /\ at'[r] = at[r] /\ job'[r] = job[r]
                               /\ skip'[r] = skip[r]
      /\ \A k \in skip'[p] : task[t] = "running" /\ k \in Stages /\ stage[t][k] = "success"
    BY <1>1, <1>2
<1>7. Undisturbed' <=> Undisturbed
    BY <1>1 DEF Undisturbed
<1>8. AtFusion'
    BY <1>6 DEF Inv, AtFusion
<1>9. BeforeMade'
  <2> SUFFICES ASSUME Undisturbed, NEW r \in Pods, pc'[r] # "idle",
                      NEW j \in 1 .. Last, j < at'[r]
               PROVE  Made(job[r], j, r)'
      BY <1>7 DEF BeforeMade
  <2>1. r # p
      BY <1>6 DEF Last
  <2>2. Made(job[r], j, r)
      BY <1>6, <2>1 DEF Inv, BeforeMade
  <2> QED
      BY <1>1, <1>6, <2>1, <2>2, Unmoved
<1>10. FusionMade'
  <2> SUFFICES ASSUME Undisturbed, NEW r \in Pods, pc'[r] \in {"record", "copy"}
               PROVE  Made(job[r], 9, r)'
      BY <1>7 DEF FusionMade
  <2>1. r # p
      BY <1>6
  <2>2. Made(job[r], 9, r)
      BY <1>6, <2>1 DEF Inv, FusionMade
  <2> QED
      BY <1>1, <1>6, <2>1, <2>2, Unmoved
<1>11. NoResume'
  <2> SUFFICES ASSUME Undisturbed, ~cfg.isolated
               PROVE  left' = {} /\ \A r \in Pods : skip'[r] = {}
      BY <1>1, <1>7 DEF NoResume
  <2>1. left = {} /\ \A r \in Pods : skip[r] = {}
      BY DEF Inv, NoResume
  <2> QED
      BY <1>1, <1>6, <2>1
<1>12. SuccessMade'
    BY <1>1, Unmoved DEF Inv, SuccessMade
<1>13. SkipMade'
  <2> SUFFICES ASSUME cfg.isolated, NEW r \in Pods, NEW k \in skip'[r]
               PROVE  OnNFS(job'[r], k)
      BY <1>1, Unmoved DEF SkipMade
  <2>1. CASE r = p
      BY <2>1, <1>6 DEF Inv, SuccessMade
  <2>2. CASE r # p
      BY <2>2, <1>6 DEF Inv, SkipMade
  <2> QED
      BY <2>1, <2>2
<1>14. NoCopies' /\ (cfg.isolated => NamedFilesPresent)'
    BY <1>1 DEF Inv, NoCopies, NamedFilesPresent, Undisturbed
<1> QED
    BY <1>5, <1>8, <1>9, <1>10, <1>11, <1>12, <1>13, <1>14 DEF Inv

-----------------------------------------------------------------------------
(* The steps that change files.                                            *)

LEMMA ExecSuccessInv == ASSUME Inv, NEW p \in Pods, ExecSuccess(p) PROVE Inv'
<1> DEFINE t == job[p]
           k == Stage(p)
<1>1. /\ UNCHANGED <<cfg, wants, rows, job, skip, left, copy, odJobs, spent>>
      /\ pc[p] = "exec"
      /\ files' = [v \in Places |->
                     files[v] \cup {<<t, q>> : q \in {w \in Writes(k) : PlaceOf(w, p) = v}}]
      /\ SetStage(t, k, "success")
    BY DEF ExecSuccess
<1>2. \/ k = "fusion_stack_envi" /\ pc' = [pc EXCEPT ![p] = "record"] /\ at' = at /\ task' = task
      \/ /\ k = "object_detection" /\ pc' = [pc EXCEPT ![p] = "idle"] /\ at' = at
         /\ task' = [task EXCEPT ![t] = "completed"]
      \/ /\ k \notin {"fusion_stack_envi", "object_detection"}
         /\ pc' = [pc EXCEPT ![p] = "next"] /\ at' = [at EXCEPT ![p] = @ + 1] /\ task' = task
    BY DEF ExecSuccess, NextStage, Goto
<1>3. /\ TypeOK /\ task \in [Tasks -> {"pending", "running", "completed", "failed"}]
      /\ pc \in [Pods -> {"idle", "next", "exec", "record", "copy", "ack"}]
      /\ at \in [Pods -> 1 .. Last] /\ t \in Tasks
      /\ files \in [Places -> SUBSET (Tasks \X Products)]
    BY DEF Inv, TypeOK
<1>4. k \in Stages /\ at[p] \in 1 .. Last /\ k = StageDefinitions[at[p]]
    BY <1>3, StageFacts DEF Stage
<1>5. /\ k = "fusion_stack_envi" <=> at[p] = 9
      /\ k = "object_detection" <=> at[p] = 10
    BY <1>4, StageFacts
<1>6. /\ pc' \in [Pods -> {"idle", "next", "exec", "record", "copy", "ack"}]
      /\ at' \in [Pods -> 1 .. Last]
      /\ task' \in [Tasks -> {"pending", "running", "completed", "failed"}]
  <2>1. CASE k = "fusion_stack_envi"
      BY <2>1, <1>2, <1>3
  <2>2. CASE k = "object_detection"
      BY <2>2, <1>2, <1>3
  <2>3. CASE k \notin {"fusion_stack_envi", "object_detection"}
    <3>1. at[p] + 1 \in 1 .. Last
        BY <2>3, <1>4, <1>5 DEF Last
    <3> QED
        BY <2>3, <3>1, <1>2, <1>3
  <2> QED
      BY <2>1, <2>2, <2>3
<1>7. Writes(k) \subseteq Products
    BY <1>4 DEF Writes, Products
<1>8. files' \in [Places -> SUBSET (Tasks \X Products)]
    BY <1>1, <1>3, <1>7
<1>9. /\ stage' \in [Tasks -> [Stages -> {"pending", "running", "success", "failed"}]]
      /\ \A u \in Tasks, l \in Stages :
            stage'[u][l] = IF u = t /\ l = k THEN "success" ELSE stage[u][l]
    BY <1>1, <1>3, <1>4, SetStageType
<1>10. TypeOK'
    BY <1>1, <1>3, <1>6, <1>8, <1>9 DEF TypeOK
<1>11. \A v \in Places : files[v] \subseteq files'[v]
    BY <1>1
<1>12. \A u, q : \A r \in Pods : Present(u, q, r) => Present(u, q, r)'
    BY <1>1, <1>11, Keeps
<1>13. \A i \in 1 .. Last : i = at[p] => Made(job[p], i, p)'
  <2> SUFFICES ASSUME NEW q \in Writes(k)
               PROVE  <<t, q>> \in files'[PlaceOf(q, p)']
      BY <1>1, <1>4 DEF Made, Present, Writes
  <2>1. PlaceOf(q, p)' = PlaceOf(q, p) /\ PlaceOf(q, p) \in Places
      BY <1>1, PlaceIsPlace DEF PlaceOf
  <2> QED
      BY <1>1, <2>1
<1>14. Undisturbed' <=> Undisturbed
    BY <1>1 DEF Undisturbed
<1>15. \A r \in Pods \ {p} : pc'[r] = pc[r] /\ at'[r] = at[r]
    BY <1>2, <1>3
<1>16. BeforeMade'
  <2>1. at'[p] = at[p] \/ at'[p] = at[p] + 1
      BY <1>2, <1>3
  <2> QED
      BY <1>1, <1>12, <1>13, <1>14, <1>15, <2>1, GoesOn
<1>17. pc'[p] \in {"record", "copy"} => at'[p] = 9 /\ at[p] = 9
    BY <1>2, <1>3, <1>5
<1>18. AtFusion'
    BY <1>15, <1>17 DEF Inv, AtFusion
<1>19. FusionMade'
  <2> SUFFICES ASSUME Undisturbed, NEW r \in Pods, pc'[r] \in {"record", "copy"}
               PROVE  Made(job[r], 9, r)'
      BY <1>14 DEF FusionMade
  <2>1. CASE r = p
      BY <2>1, <1>13, <1>17 DEF Last
  <2>2. CASE r # p
    <3>1. Made(job[r], 9, r)
        BY <2>2, <1>15 DEF Inv, FusionMade
    <3> QED
        BY <3>1, <1>1, <1>12, MadeIsKept
  <2> QED
      BY <2>1, <2>2
<1>20. NoResume'
    BY <1>1, <1>14 DEF Inv, NoResume
<1>21. \A u, l : OnNFS(u, l) => OnNFS(u, l)'
    BY <1>1, <1>11 DEF OnNFS, Writes, Places
<1>22. SuccessMade'
  <2> SUFFICES ASSUME cfg.isolated, NEW u \in Tasks, NEW l \in Stages, stage'[u][l] = "success"
               PROVE  OnNFS(u, l)'
      BY <1>1 DEF SuccessMade
  <2>1. CASE stage[u][l] = "success"
      BY <2>1, <1>21 DEF Inv, SuccessMade
  <2>2. CASE u = t /\ l = k
    <3>1. NFS \in Places /\ \A q \in Writes(k) : PlaceOf(q, p) = NFS
        BY PlaceIsPlace DEF Places
    <3>2. \A q \in Writes(k) : <<t, q>> \in files'[NFS]
        BY <3>1, <1>1
    <3> QED
        BY <2>2, <3>2, <1>1 DEF OnNFS, Writes
  <2> QED
      BY <2>1, <2>2, <1>9
<1>23. SkipMade'
    BY <1>1, <1>21 DEF Inv, SkipMade
<1>24. NoCopies'
    BY <1>1 DEF Inv, NoCopies
<1>25. (cfg.isolated => NamedFilesPresent)'
    BY <1>1, <1>11, <1>14 DEF Inv, NamedFilesPresent, Places
<1> QED
    BY <1>10, <1>16, <1>18, <1>19, <1>20, <1>22, <1>23, <1>24, <1>25 DEF Inv

\* A hazard that strikes leaves nothing to be shown without isolation.
LEMMA StrikeFacts ==
    ASSUME Inv, NEW h \in Hazards, Strike(h), cfg' = cfg
    PROVE  spent' \in [Hazards -> Nat] /\ (Undisturbed' => cfg.isolated)
    BY DEF Inv, TypeOK, Strike, Undisturbed

\* The end of a worker, with or without its volume.
LEMMA DiesInv ==
    ASSUME Inv, NEW p \in Pods, NEW h \in Hazards, Strike(h), Dies(p),
           files' \in [Places -> SUBSET (Tasks \X Products)],
           \A v \in Places \ {p} : files'[v] = files[v]
    PROVE  Inv'
<1>1. /\ UNCHANGED <<cfg, wants, task, stage, rows, job, at, skip, odJobs>>
      /\ pc' = [pc EXCEPT ![p] = "idle"]
      /\ left' \subseteq left \cup {job[p]}
      /\ copy' = [copy EXCEPT ![p] = [t \in Tasks |-> "none"]]
    BY DEF Dies, Goto
<1>2. /\ TypeOK /\ pc \in [Pods -> {"idle", "next", "exec", "record", "copy", "ack"}]
      /\ copy \in [Pods -> [Tasks -> CopyStep]]
      /\ job \in [Pods -> Tasks] /\ left \subseteq Tasks
    BY DEF Inv, TypeOK
<1>3. spent' \in [Hazards -> Nat] /\ (Undisturbed' => cfg.isolated)
    BY <1>1, StrikeFacts
<1>4. /\ pc' \in [Pods -> {"idle", "next", "exec", "record", "copy", "ack"}]
      /\ left' \subseteq Tasks
    BY <1>1, <1>2
<1>5. copy' \in [Pods -> [Tasks -> CopyStep]]
    BY <1>1, <1>2 DEF CopyStep
<1>6. TypeOK'
    BY <1>1, <1>2, <1>3, <1>4, <1>5 DEF TypeOK
<1>7. \A r \in Pods : pc'[r] # "idle" => pc'[r] = pc[r]
    BY <1>1, <1>2
<1>8. files'[NFS] = files[NFS]
    BY FilesAssumption DEF Places
<1>9. \A t, k : OnNFS(t, k)' <=> OnNFS(t, k)
    BY <1>1, <1>8 DEF OnNFS, Writes
<1>10. cfg.isolated => \A t, j, r : Made(t, j, r)' <=> Made(t, j, r)
    BY <1>1, <1>8 DEF Made, Present, PlaceOf, Writes
<1>11. AtFusion'
    BY <1>1, <1>7 DEF Inv, AtFusion
<1>12. BeforeMade' /\ FusionMade'
    BY <1>1, <1>3, <1>7, <1>10 DEF Inv, BeforeMade, FusionMade, Undisturbed
<1>13. NoResume' /\ SuccessMade' /\ SkipMade'
    BY <1>1, <1>3, <1>9 DEF Inv, NoResume, SuccessMade, SkipMade
<1>14. NoCopies'
    BY <1>1, <1>2 DEF Inv, NoCopies
<1>15. (cfg.isolated => NamedFilesPresent)'
    BY <1>1, <1>8 DEF Inv, NamedFilesPresent, Undisturbed
<1> QED
    BY <1>6, <1>11, <1>12, <1>13, <1>14, <1>15 DEF Inv

LEMMA RestartInv == ASSUME Inv, NEW p \in Pods, Restart(p) PROVE Inv'
<1>1. files' \in [Places -> SUBSET (Tasks \X Products)] /\ files' = files
    BY DEF Inv, TypeOK, Restart
<1> QED
    BY <1>1, DiesInv DEF Restart, Hazards

LEMMA ReplaceInv == ASSUME Inv, NEW p \in Pods, Replace(p) PROVE Inv'
<1>1. files' = [files EXCEPT ![p] = {}]
    BY DEF Replace
<1>2. files \in [Places -> SUBSET (Tasks \X Products)]
    BY DEF Inv, TypeOK
<1>3. files' \in [Places -> SUBSET (Tasks \X Products)] /\ \A v \in Places \ {p} : files'[v] = files[v]
    BY <1>1, <1>2
<1> QED
    BY <1>3, DiesInv DEF Replace, Hazards

\* Without isolation the Pods do not read the fused image from NFS.
LEMMA OwnDat ==
    ASSUME Inv, cfg' = cfg, ~cfg.isolated, NEW t, files' = [files EXCEPT ![NFS] = @ \ {<<t,
           "dat">>}]
    PROVE  \A u, q : \A p \in Pods : Present(u, q, p) => Present(u, q, p)'
<1> SUFFICES ASSUME NEW u, NEW q, NEW p \in Pods, Present(u, q, p)
             PROVE  Present(u, q, p)'
    OBVIOUS
<1>1. p # NFS /\ files \in [Places -> SUBSET (Tasks \X Products)]
    BY FilesAssumption DEF Inv, TypeOK
<1>2. CASE q \in {"pan_rad_toa", "pan_rpc_warp_quarters"}
    BY <1>1, <1>2, PlaceIsPlace DEF Present, PlaceOf
<1>3. CASE q \notin {"pan_rad_toa", "pan_rpc_warp_quarters"}
    BY <1>1, <1>3, PlaceIsPlace DEF Present, PlaceOf
<1> QED
    BY <1>2, <1>3

\* A step of a copy, which a system with isolation does not take.
LEMMA CopyStepInv ==
    ASSUME Inv, UNCHANGED <<cfg, wants, task, stage, run, odJobs>>,
           NEW p \in Pods, NEW t \in Tasks, copy[p][t] # "none",
           NEW s \in CopyStep, SetCopy(p, t, s),
           UNCHANGED spent \/ Strike("copy"),
           rows' \in [Tasks -> SUBSET {"scratch", "nfs"}],
           files' \in [Places -> SUBSET (Tasks \X Products)],
           \A u, q : \A r \in Pods : Present(u, q, r) => Present(u, q, r)'
    PROVE  Inv'
<1>1. ~cfg.isolated
    BY DEF Inv, NoCopies
<1>2. /\ UNCHANGED <<pc, job, at, skip, left>>
      /\ TypeOK /\ copy \in [Pods -> [Tasks -> CopyStep]] /\ spent \in [Hazards -> Nat]
    BY DEF Inv, TypeOK, run
<1>3. spent' \in [Hazards -> Nat] /\ (Undisturbed' => Undisturbed)
  <2>1. CASE UNCHANGED spent
      BY <2>1, <1>2 DEF Undisturbed
  <2>2. CASE Strike("copy")
      BY <2>2, StrikeFacts DEF Hazards, Undisturbed
  <2> QED
      BY <2>1, <2>2
<1>4. copy' \in [Pods -> [Tasks -> CopyStep]]
    BY <1>2 DEF SetCopy
<1>5. TypeOK'
    BY <1>2, <1>3, <1>4 DEF TypeOK
<1>6. \A u, j : \A r \in Pods : Made(u, j, r) => Made(u, j, r)'
    BY MadeIsKept
<1>7. AtFusion' /\ BeforeMade' /\ FusionMade' /\ NoResume'
    BY <1>2, <1>3, <1>6 DEF Inv, AtFusion, BeforeMade, FusionMade, NoResume
<1>8. SuccessMade' /\ SkipMade' /\ NoCopies' /\ (cfg.isolated => NamedFilesPresent)'
    BY <1>1 DEF SuccessMade, SkipMade, NoCopies
<1> QED
    BY <1>5, <1>7, <1>8 DEF Inv

LEMMA CopyingInv ==
    ASSUME Inv, NEW p \in Pods, NEW t \in Tasks, Copying(p, t)
    PROVE  Inv'
<1>1. /\ rows \in [Tasks -> SUBSET {"scratch", "nfs"}]
      /\ files \in [Places -> SUBSET (Tasks \X Products)]
      /\ {"dat", "preview"} \subseteq Products
      /\ {"none", "open", "preview", "paths"} \subseteq CopyStep
    BY DEF Inv, TypeOK, Products, CopyStep
<1>2. copy[p][t] # "none"
    BY DEF Copying, OpenDat, CopyDat, CopyPreview, RewritePaths
<1>3. ~cfg.isolated
    BY <1>2 DEF Inv, NoCopies
<1>4. CASE OpenDat(p, t)
  <2>1. CASE files' = [files EXCEPT ![NFS] = @ \ {<<t, "dat">>}]
    <3>1. files' \in [Places -> SUBSET (Tasks \X Products)]
        BY <2>1, <1>1
    <3>2. \A u, q : \A r \in Pods : Present(u, q, r) => Present(u, q, r)'
        BY <2>1, <1>3, <1>4, OwnDat DEF OpenDat
    <3> QED
        BY <3>1, <3>2, <1>1, <1>2, <1>4, CopyStepInv DEF OpenDat
  <2>2. CASE UNCHANGED files
    <3>1. \A u, q : \A r \in Pods : Present(u, q, r) => Present(u, q, r)'
        BY <2>2, <1>4, Unmoved DEF OpenDat
    <3> QED
        BY <2>2, <3>1, <1>1, <1>2, <1>4, CopyStepInv DEF OpenDat
  <2> QED
      BY <2>1, <2>2, <1>4 DEF OpenDat
<1>5. CASE CopyDat(p, t)
  <2>1. files' \in [Places -> SUBSET (Tasks \X Products)] /\ \A v \in Places : files[v] \subseteq files'[v]
      BY <1>1, <1>5 DEF CopyDat
  <2>2. \A u, q : \A r \in Pods : Present(u, q, r) => Present(u, q, r)'
      BY <2>1, <1>5, Keeps DEF CopyDat
  <2> QED
      BY <2>1, <2>2, <1>1, <1>2, <1>5, CopyStepInv DEF CopyDat
<1>6. CASE CopyPreview(p, t)
  <2>1. files' \in [Places -> SUBSET (Tasks \X Products)] /\ \A v \in Places : files[v] \subseteq files'[v]
      BY <1>1, <1>6 DEF CopyPreview
  <2>2. \A u, q : \A r \in Pods : Present(u, q, r) => Present(u, q, r)'
      BY <2>1, <1>6, Keeps DEF CopyPreview
  <2> QED
      BY <2>1, <2>2, <1>1, <1>2, <1>6, CopyStepInv DEF CopyPreview
<1>7. CASE RewritePaths(p, t)
  <2>1. rows' \in [Tasks -> SUBSET {"scratch", "nfs"}]
      BY <1>1, <1>7 DEF RewritePaths
  <2>2. \A u, q : \A r \in Pods : Present(u, q, r) => Present(u, q, r)'
      BY <1>7, Unmoved DEF RewritePaths
  <2> QED
      BY <2>1, <2>2, <1>1, <1>2, <1>7, CopyStepInv DEF RewritePaths
<1> QED
    BY <1>4, <1>5, <1>6, <1>7 DEF Copying

LEMMA StutterInv == ASSUME Inv, UNCHANGED vars PROVE Inv'
<1>1. TypeOK'
    BY DEF vars, Inv, TypeOK
<1>2. AtFusion' /\ BeforeMade' /\ FusionMade' /\ NoResume'
    BY Unmoved DEF vars, Inv, AtFusion, BeforeMade, FusionMade, NoResume, Undisturbed
<1>3. SuccessMade' /\ SkipMade' /\ NoCopies' /\ (cfg.isolated => NamedFilesPresent)'
    BY Unmoved DEF vars, Inv, SuccessMade, SkipMade, NoCopies, NamedFilesPresent, Undisturbed
<1> QED
    BY <1>1, <1>2, <1>3 DEF Inv

LEMMA NextInv == Inv /\ [Next]_vars => Inv'
<1> SUFFICES ASSUME Inv, [Next]_vars PROVE Inv'
    OBVIOUS
<1>1. CASE \E p \in Pods : PodStep(p)
  <2>1. PICK p \in Pods : PodStep(p)
      BY <1>1
  <2> QED
      BY <2>1, SkipStageInv, BeginStageInv, ExecSuccessInv, ExecFailureInv, RecordArtifactsInv,
         CopyReturnsInv, SkipDetectionInv, EnqueueODInv, AckInv DEF PodStep
<1>2. CASE \E p \in Pods : Restart(p) \/ Replace(p)
    BY <1>2, RestartInv, ReplaceInv
<1>3. CASE \E p \in Pods, t \in Tasks : Claim(p, t) \/ Copying(p, t)
    BY <1>3, ClaimInv, CopyingInv
<1>4. CASE \E t \in Tasks : DetectionFromJob(t)
    BY <1>4, DetectionFromJobInv
<1>5. CASE UNCHANGED vars
    BY <1>5, StutterInv
<1> QED
    BY <1>1, <1>2, <1>3, <1>4, <1>5 DEF Next

LEMMA InvAlways == Spec => []Inv
    BY InitInv, NextInv, PTL DEF Spec

-----------------------------------------------------------------------------
(* The names, when nothing disturbs a system without isolation.            *)

\* Without isolation, and nothing has struck.
Quiet == ~cfg.isolated /\ \A h \in Hazards : spent[h] = 0

\* Nothing is recorded of the fused image of a task.
Unrecorded(t) == rows[t] = {} /\ t \notin odJobs /\ \A p \in Pods : copy[p][t] = "none"

\* A task has one run, which records the image once.
RunOnce ==
    /\ \A p, q \in Pods : pc[p] # "idle" /\ pc[q] # "idle" /\ job[p] = job[q] => p = q
    /\ \A p \in Pods : pc[p] # "idle" => task[job[p]] # "pending"
    /\ \A t \in Tasks : task[t] = "pending" => Unrecorded(t)
    /\ \A p \in Pods : pc[p] \in {"next", "exec", "record"} /\ at[p] # 10 => Unrecorded(job[p])

\* While p copies the image of t nobody has been told of it.
CopyBeforeName(p, t) ==
    /\ \A q \in Pods : copy[q][t] # "none" => q = p
    /\ t \notin odJobs /\ "nfs" \notin rows[t]
    /\ Waits(t) => pc[p] = "copy" /\ job[p] = t
    /\ copy[p][t] \in {"preview", "paths"} => <<t, "dat">> \in files[NFS]
    /\ copy[p][t] = "paths" => <<t, "preview">> \in files[NFS]

CopyOnce == \A p \in Pods, t \in Tasks : copy[p][t] # "none" => CopyBeforeName(p, t)

\* When the run goes on, the image that an od-worker will need is on NFS.
CopyDone ==
    \A p \in Pods :
        (/\ pc[p] # "idle" /\ Waits(job[p])
         /\ at[p] = 10 \/ (pc[p] = "copy" /\ copy[p][job[p]] = "none"))
        => <<job[p], "dat">> \in files[NFS]

Calm == Quiet => RunOnce /\ CopyOnce /\ CopyDone /\ NamedFilesPresent

LEMMA InitCalm == Init => Calm
<1> SUFFICES ASSUME Init PROVE RunOnce /\ CopyOnce /\ CopyDone /\ NamedFilesPresent
    BY DEF Calm
<1>1. \A t \in Tasks : Unrecorded(t)
    BY DEF Init, Unrecorded
<1> QED
    BY <1>1 DEF Init, RunOnce, CopyOnce, CopyDone, NamedFilesPresent

\* What a strike has disturbed stays disturbed.
LEMMA StruckIsNotQuiet ==
    ASSUME Inv, NEW h \in Hazards, Strike(h)
    PROVE  ~Quiet'
    BY DEF Inv, TypeOK, Strike, Quiet

\* A step of a run that names no file.
LEMMA CalmRun ==
    ASSUME Inv, Calm, Quiet, NEW p \in Pods, pc[p] # "idle",
           UNCHANGED <<cfg, wants, rows, job, copy, odJobs, spent>>,
           files[NFS] \subseteq files'[NFS],
           \A r \in Pods \ {p} : pc'[r] = pc[r] /\ at'[r] = at[r],
           \A t \in Tasks : task'[t] = "pending" => task[t] = "pending",
           (pc'[p] \in {"next", "exec", "record"} /\ at'[p] # 10) =>
               pc[p] \in {"next", "exec", "record"} /\ at[p] # 10,
           pc[p] = "copy" => pc'[p] = "copy" \/ copy[p][job[p]] = "none",
           (/\ pc'[p] # "idle" /\ Waits(job[p])
            /\ at'[p] = 10 \/ (pc'[p] = "copy" /\ copy[p][job[p]] = "none"))
           => at[p] = 10 \/ (pc[p] = "copy" /\ copy[p][job[p]] = "none")
    PROVE  Calm'
<1>1. RunOnce /\ CopyOnce /\ CopyDone /\ NamedFilesPresent /\ Undisturbed
    BY DEF Calm, Quiet, Undisturbed
<1>2. /\ \A t : Waits(t)' <=> Waits(t)
      /\ \A t : Unrecorded(t)' <=> Unrecorded(t)
      /\ Undisturbed' <=> Undisturbed
      /\ \A r \in Pods : job[r] \in Tasks
    BY DEF Waits, Unrecorded, Undisturbed, Inv, TypeOK
<1>3. \A r \in Pods : pc'[r] # "idle" => pc[r] # "idle"
    OBVIOUS
<1>4. RunOnce'
    BY <1>1, <1>2, <1>3 DEF RunOnce
<1>5. CopyOnce'
  <2> SUFFICES ASSUME NEW r \in Pods, NEW t \in Tasks, copy[r][t] # "none"
               PROVE  CopyBeforeName(r, t)'
      BY DEF CopyOnce
  <2>1. CopyBeforeName(r, t)
      BY <1>1 DEF CopyOnce
  <2>2. Waits(t) => pc'[r] = "copy" /\ job[r] = t
      BY <2>1 DEF CopyBeforeName
  <2> QED
      BY <1>2, <2>1, <2>2 DEF CopyBeforeName
<1>6. CopyDone'
  <2> SUFFICES ASSUME NEW r \in Pods, pc'[r] # "idle", Waits(job[r]),
                      at'[r] = 10 \/ (pc'[r] = "copy" /\ copy[r][job[r]] = "none")
               PROVE  <<job[r], "dat">> \in files[NFS]
      BY <1>2 DEF CopyDone
  <2>1. at[r] = 10 \/ (pc[r] = "copy" /\ copy[r][job[r]] = "none")
      OBVIOUS
  <2> QED
      BY <1>1, <1>3, <2>1 DEF CopyDone
<1>7. NamedFilesPresent'
    BY <1>1, <1>2 DEF NamedFilesPresent
<1> QED
    BY <1>4, <1>5, <1>6, <1>7 DEF Calm

\* The steps of a run but RecordArtifacts and EnqueueOD.
LEMMA CalmPodStep ==
    ASSUME Inv, Calm, Quiet, NEW p \in Pods,
           \/ SkipStage(p) \/ BeginStage(p) \/ ExecSuccess(p) \/ ExecFailure(p)
           \/ CopyReturns(p) \/ SkipDetection(p) \/ Ack(p)
    PROVE  Calm'
<1>1. /\ pc \in [Pods -> {"idle", "next", "exec", "record", "copy", "ack"}]
      /\ at \in [Pods -> 1 .. Last] /\ job[p] \in Tasks
      /\ task \in [Tasks -> {"pending", "running", "completed", "failed"}]
      /\ NFS \in Places
    BY DEF Inv, TypeOK, Places
<1>2. at[p] \in 1 .. 10 /\ (pc[p] = "copy" => at[p] = 9)
    BY <1>1 DEF Inv, AtFusion, Last
<1> USE DEF Goto, NextStage
<1>3. CASE SkipStage(p)
    BY <1>3 DEF SkipStage, MaySkip, Inv, NoResume, Quiet, Undisturbed
<1>4. CASE BeginStage(p)
  <2>1. /\ pc[p] = "next" /\ pc' = [pc EXCEPT ![p] = "exec"]
        /\ UNCHANGED <<cfg, wants, task, files, rows, job, at, copy, odJobs, spent>>
      BY <1>4 DEF BeginStage
  <2>2. pc'[p] = "exec" /\ \A r \in Pods \ {p} : pc'[r] = pc[r] /\ at'[r] = at[r]
      BY <1>1, <2>1
  <2> QED
      BY <2>1, <2>2, CalmRun
<1>5. CASE ExecSuccess(p)
  <2>1. /\ pc[p] = "exec"
        /\ UNCHANGED <<cfg, wants, rows, job, copy, odJobs, spent>>
        /\ files[NFS] \subseteq files'[NFS]
      BY <1>1, <1>5 DEF ExecSuccess
  <2>2. \/ Stage(p) = "fusion_stack_envi" /\ pc' = [pc EXCEPT ![p] = "record"]
           /\ at' = at /\ task' = task
        \/ pc' = [pc EXCEPT ![p] = "idle"] /\ at' = at
           /\ task' = [task EXCEPT ![job[p]] = "completed"]
        \/ /\ Stage(p) \notin {"fusion_stack_envi", "object_detection"}
           /\ pc' = [pc EXCEPT ![p] = "next"] /\ at' = [at EXCEPT ![p] = @ + 1] /\ task' = task
      BY <1>5 DEF ExecSuccess
  <2>3. Stage(p) \notin {"fusion_stack_envi", "object_detection"} => at[p] \in 1 .. 8
      BY <1>1, <1>2, StageFacts DEF Stage
  <2>4. Stage(p) = "fusion_stack_envi" => at[p] = 9
      BY <1>1, <1>2, StageFacts DEF Stage
  <2>5. /\ \A r \in Pods \ {p} : pc'[r] = pc[r] /\ at'[r] = at[r]
        /\ \A t \in Tasks : task'[t] = "pending" => task[t] = "pending"
      BY <1>1, <2>2
  <2>6. \/ pc'[p] = "record" /\ at'[p] = 9 /\ at[p] = 9
        \/ pc'[p] = "idle"
        \/ pc'[p] = "next" /\ at'[p] = at[p] + 1 /\ at[p] \in 1 .. 8
      BY <1>1, <2>2, <2>3, <2>4
  <2>7. at'[p] # 10 \/ pc'[p] = "idle"
      BY <2>6
  <2> QED
      BY <2>1, <2>5, <2>6, <2>7, CalmRun
<1>6. ASSUME pc[p] # "idle", pc' = [pc EXCEPT ![p] = "idle"],
             UNCHANGED <<cfg, wants, files, rows, job, at, copy, odJobs, spent>>,
             pc[p] # "copy",
             task' = task \/ \E x \in {"completed", "failed"} : task' = [task EXCEPT ![job[p]] = x]
      PROVE  Calm'
  <2>1. /\ pc'[p] = "idle" /\ \A r \in Pods \ {p} : pc'[r] = pc[r] /\ at'[r] = at[r]
        /\ \A t \in Tasks : task'[t] = "pending" => task[t] = "pending"
      BY <1>1, <1>6
  <2> QED
      BY <1>6, <2>1, CalmRun
<1>7. CASE ExecFailure(p)
    BY <1>6, <1>7 DEF ExecFailure
<1>8. CASE SkipDetection(p)
    BY <1>6, <1>8 DEF SkipDetection
<1>9. CASE Ack(p)
    BY <1>6, <1>9 DEF Ack
<1>10. CASE CopyReturns(p)
  <2>1. /\ pc[p] = "copy" /\ copy[p][job[p]] = "none"
        /\ pc' = [pc EXCEPT ![p] = "next"] /\ at' = [at EXCEPT ![p] = @ + 1]
        /\ UNCHANGED <<cfg, wants, task, files, rows, job, copy, odJobs, spent>>
      BY <1>10 DEF CopyReturns
  <2>2. /\ pc'[p] = "next" /\ at'[p] = 10
        /\ \A r \in Pods \ {p} : pc'[r] = pc[r] /\ at'[r] = at[r]
      BY <1>1, <1>2, <2>1
  <2> QED
      BY <2>1, <2>2, CalmRun
<1> QED
    BY <1>3, <1>4, <1>5, <1>7, <1>8, <1>9, <1>10

LEMMA CalmClaim ==
    ASSUME Inv, Calm, Quiet, NEW p \in Pods, NEW t \in Tasks, Claim(p, t)
    PROVE  Calm'
<1>1. RunOnce /\ CopyOnce /\ CopyDone /\ NamedFilesPresent /\ Undisturbed /\ left = {}
    BY DEF Calm, Quiet, Undisturbed, Inv, NoResume
<1>2. /\ pc \in [Pods -> {"idle", "next", "exec", "record", "copy", "ack"}]
      /\ at \in [Pods -> 1 .. Last] /\ job \in [Pods -> Tasks]
      /\ task \in [Tasks -> {"pending", "running", "completed", "failed"}]
    BY DEF Inv, TypeOK
<1>3. /\ pc[p] = "idle" /\ task[t] = "pending"
      /\ task' = [task EXCEPT ![t] = "running"]
      /\ pc' = [pc EXCEPT ![p] = "next"]
      /\ job' = [job EXCEPT ![p] = t]
      /\ at' = [at EXCEPT ![p] = 1]
      /\ UNCHANGED <<cfg, wants, files, rows, copy, odJobs, spent>>
    BY <1>1 DEF Claim, Goto
<1>4. /\ pc'[p] = "next" /\ job'[p] = t /\ at'[p] = 1
      /\ \A r \in Pods \ {p} : pc'[r] = pc[r] /\ job'[r] = job[r] /\ at'[r] = at[r]
      /\ \A u \in Tasks : task'[u] = IF u = t THEN "running" ELSE task[u]
    BY <1>2, <1>3
<1>5. /\ \A u : Waits(u)' <=> Waits(u)
      /\ \A u : Unrecorded(u)' <=> Unrecorded(u)
      /\ Undisturbed' <=> Undisturbed
    BY <1>3 DEF Waits, Unrecorded, Undisturbed
<1>6. \A r \in Pods : pc[r] # "idle" => job[r] # t
    BY <1>1, <1>3 DEF RunOnce
<1>7. RunOnce'
  <2>1. ASSUME NEW q \in Pods, NEW r \in Pods, pc'[q] # "idle", pc'[r] # "idle", job'[q] = job'[r]
        PROVE  q = r
      BY <1>1, <1>4, <1>6, <2>1 DEF RunOnce
  <2>2. \A q \in Pods : pc'[q] # "idle" => task'[job'[q]] # "pending"
      BY <1>1, <1>2, <1>4 DEF RunOnce
  <2>3. \A u \in Tasks : task'[u] = "pending" => Unrecorded(u)
      BY <1>1, <1>4 DEF RunOnce
  <2>4. \A q \in Pods : pc'[q] \in {"next", "exec", "record"} /\ at'[q] # 10 => Unrecorded(job'[q])
      BY <1>1, <1>3, <1>4 DEF RunOnce
  <2> QED
      BY <1>5, <2>1, <2>2, <2>3, <2>4 DEF RunOnce
<1>8. CopyOnce'
  <2> SUFFICES ASSUME NEW r \in Pods, NEW u \in Tasks, copy[r][u] # "none"
               PROVE  CopyBeforeName(r, u)'
      BY <1>3 DEF CopyOnce
  <2>1. CopyBeforeName(r, u)
      BY <1>1 DEF CopyOnce
  <2>2. Waits(u) => pc'[r] = "copy" /\ job'[r] = u
      BY <1>3, <1>4, <2>1 DEF CopyBeforeName
  <2> QED
      BY <1>3, <1>5, <2>1, <2>2 DEF CopyBeforeName
<1>9. CopyDone'
    BY <1>1, <1>3, <1>4, <1>5 DEF CopyDone
<1>10. NamedFilesPresent'
    BY <1>1, <1>3, <1>5 DEF NamedFilesPresent
<1> QED
    BY <1>7, <1>8, <1>9, <1>10 DEF Calm

\* The image is recorded, and its copy begins.
LEMMA CalmRecord ==
    ASSUME Inv, Calm, Quiet, NEW p \in Pods, RecordArtifacts(p)
    PROVE  Calm'
<1> DEFINE t == job[p]
<1>1. RunOnce /\ CopyOnce /\ CopyDone /\ NamedFilesPresent /\ Undisturbed /\ ~cfg.isolated
    BY DEF Calm, Quiet, Undisturbed
<1>2. /\ pc \in [Pods -> {"idle", "next", "exec", "record", "copy", "ack"}]
      /\ at \in [Pods -> 1 .. Last] /\ job \in [Pods -> Tasks] /\ t \in Tasks
      /\ rows \in [Tasks -> SUBSET {"scratch", "nfs"}]
      /\ copy \in [Pods -> [Tasks -> CopyStep]]
    BY DEF Inv, TypeOK
<1>3. /\ pc[p] = "record"
      /\ rows' = [rows EXCEPT ![t] = @ \cup {"scratch"}]
      /\ copy' = [copy EXCEPT ![p][t] = "dat"]
      /\ \/ Waits(t) /\ pc' = [pc EXCEPT ![p] = "copy"] /\ at' = at
         \/ ~Waits(t) /\ pc' = [pc EXCEPT ![p] = "next"] /\ at' = [at EXCEPT ![p] = @ + 1]
      /\ UNCHANGED <<cfg, wants, task, files, job, odJobs, spent>>
    BY <1>1 DEF RecordArtifacts, Goto, NextStage
<1>4. at[p] = 9 /\ Unrecorded(t)
    BY <1>1, <1>3 DEF Inv, AtFusion, RunOnce
<1>5. /\ \/ Waits(t) /\ pc'[p] = "copy" /\ at'[p] = 9
         \/ ~Waits(t) /\ pc'[p] = "next" /\ at'[p] = 10
      /\ \A r \in Pods \ {p} : pc'[r] = pc[r] /\ at'[r] = at[r]
  <2>1. CASE Waits(t)
      BY <1>2, <1>3, <1>4, <2>1
  <2>2. CASE ~Waits(t)
      BY <1>2, <1>3, <1>4, <2>2
  <2> QED
      BY <2>1, <2>2
<1>6. /\ \A r \in Pods, u \in Tasks : copy'[r][u] = IF r = p /\ u = t THEN "dat" ELSE copy[r][u]
      /\ \A u \in Tasks \ {t} : rows'[u] = rows[u]
      /\ rows'[t] = {"scratch"}
    BY <1>2, <1>3, <1>4 DEF Unrecorded
<1>7. /\ \A u : Waits(u)' <=> Waits(u)
      /\ \A u \in Tasks \ {t} : Unrecorded(u) => Unrecorded(u)'
      /\ Undisturbed' <=> Undisturbed
    BY <1>3, <1>6 DEF Waits, Unrecorded, Undisturbed
<1>8. \A r \in Pods \ {p} : pc[r] # "idle" => job[r] # t
    BY <1>1, <1>3 DEF RunOnce
<1>9. RunOnce'
  <2>1. \A q \in Pods : pc'[q] # "idle" <=> pc[q] # "idle"
      BY <1>3, <1>5
  <2>2. task[t] # "pending"
      BY <1>1, <1>3 DEF RunOnce
  <2>3. \A u \in Tasks : task'[u] = "pending" => Unrecorded(u)'
      BY <1>1, <1>3, <1>7, <2>2 DEF RunOnce
  <2>4. ASSUME NEW q \in Pods, pc'[q] \in {"next", "exec", "record"}, at'[q] # 10
        PROVE  Unrecorded(job[q])'
    <3>1. q # p
        BY <1>5, <2>4
    <3>2. job[q] \in Tasks \ {t}
        BY <1>2, <1>5, <1>8, <2>4, <3>1
    <3>3. Unrecorded(job[q])
        BY <1>1, <1>5, <2>4, <3>1 DEF RunOnce
    <3>4. PICK u \in Tasks \ {t} : u = job[q]
        BY <3>2
    <3>5. Unrecorded(u)'
        BY <1>7, <3>3, <3>4
    <3>6. u = job'[q]
        BY <1>3, <3>4
    <3> QED
        BY <3>5, <3>6 DEF Unrecorded
  <2>5. \A q \in Pods : pc'[q] \in {"next", "exec", "record"} /\ at'[q] # 10 => Unrecorded(job[q])'
      BY <2>4
  <2> QED
      BY <1>1, <1>3, <2>1, <2>3, <2>5 DEF RunOnce
<1>10. CopyOnce'
  <2> SUFFICES ASSUME NEW r \in Pods, NEW u \in Tasks, copy'[r][u] # "none"
               PROVE  CopyBeforeName(r, u)'
      BY DEF CopyOnce
  <2>1. CASE u = t
    <3>1. r = p /\ copy'[r][u] = "dat" /\ \A q \in Pods : copy'[q][u] # "none" => q = p
        BY <1>2, <1>4, <1>6, <2>1 DEF Unrecorded
    <3>2. u \notin odJobs /\ "nfs" \notin rows'[u]
        BY <1>4, <1>6, <2>1 DEF Unrecorded
    <3> QED
        BY <1>3, <1>5, <1>7, <2>1, <3>1, <3>2 DEF CopyBeforeName
  <2>2. CASE u # t
    <3>1. copy'[r][u] = copy[r][u] /\ CopyBeforeName(r, u) /\ rows'[u] = rows[u]
        BY <1>1, <1>6, <2>2 DEF CopyOnce
    <3>2. Waits(u) => pc'[r] = "copy" /\ job[r] = u
        BY <1>3, <1>5, <2>2, <3>1 DEF CopyBeforeName
    <3>3. \A q \in Pods : copy'[q][u] # "none" => q = r
        BY <1>6, <2>2, <3>1 DEF CopyBeforeName
    <3> QED
        BY <1>3, <1>7, <3>1, <3>2, <3>3 DEF CopyBeforeName
  <2> QED
      BY <2>1, <2>2
<1>11. CopyDone'
  <2> SUFFICES ASSUME NEW r \in Pods, pc'[r] # "idle", Waits(job[r]),
                      at'[r] = 10 \/ (pc'[r] = "copy" /\ copy'[r][job[r]] = "none")
               PROVE  <<job[r], "dat">> \in files[NFS]
      BY <1>3, <1>7 DEF CopyDone
  <2>1. r # p
    <3>1. copy'[p][t] = "dat"
        BY <1>2, <1>6
    <3> QED
        BY <1>5, <3>1
  <2>2. job[r] \in Tasks /\ copy'[r][job[r]] = copy[r][job[r]] /\ pc'[r] = pc[r] /\ at'[r] = at[r]
      BY <1>2, <1>5, <1>6, <2>1
  <2> QED
      BY <1>1, <2>2 DEF CopyDone
<1>12. NamedFilesPresent'
  <2> SUFFICES ASSUME Undisturbed', NEW u \in Tasks
               PROVE  /\ u \in odJobs' => <<u, "dat">> \in files'[NFS]
                      /\ "nfs" \in rows'[u] =>
                             {<<u, "dat">>, <<u, "preview">>} \subseteq files'[NFS]
      BY DEF NamedFilesPresent
  <2>1. /\ u \in odJobs => <<u, "dat">> \in files[NFS]
        /\ "nfs" \in rows[u] => {<<u, "dat">>, <<u, "preview">>} \subseteq files[NFS]
      BY <1>1, <1>7 DEF NamedFilesPresent
  <2>2. files' = files /\ odJobs' = odJobs
      BY <1>3
  <2>3. "nfs" \in rows'[u] => "nfs" \in rows[u]
    <3>1. CASE u = t
        BY <1>6, <3>1
    <3>2. CASE u # t
        BY <1>6, <3>2
    <3> QED
        BY <3>1, <3>2
  <2> QED
      BY <2>1, <2>2, <2>3
<1> QED
    BY <1>9, <1>10, <1>11, <1>12 DEF Calm

\* The detection job follows the copy.
LEMMA CalmEnqueue ==
    ASSUME Inv, Calm, Quiet, NEW p \in Pods, EnqueueOD(p)
    PROVE  Calm'
<1> DEFINE t == job[p]
<1>1. RunOnce /\ CopyOnce /\ CopyDone /\ NamedFilesPresent /\ Undisturbed /\ ~cfg.isolated
    BY DEF Calm, Quiet, Undisturbed
<1>2. /\ pc \in [Pods -> {"idle", "next", "exec", "record", "copy", "ack"}]
      /\ at[p] \in 1 .. Last /\ job \in [Pods -> Tasks] /\ t \in Tasks
    BY DEF Inv, TypeOK
<1>3. /\ pc[p] = "next" /\ pc' = [pc EXCEPT ![p] = "ack"]
      /\ Waits(t) /\ at[p] = 10
      /\ odJobs' \subseteq odJobs \cup {t}
      /\ UNCHANGED <<cfg, wants, task, files, rows, job, at, copy, spent>>
    BY <1>1, <1>2, StageFacts DEF EnqueueOD, Goto, Waits, Stage
<1>4. pc'[p] = "ack" /\ \A r \in Pods \ {p} : pc'[r] = pc[r]
    BY <1>2, <1>3
<1>5. /\ \A u : Waits(u)' <=> Waits(u)
      /\ Undisturbed' <=> Undisturbed
      /\ \A u \in Tasks \ {t} : Unrecorded(u) => Unrecorded(u)'
    BY <1>3 DEF Waits, Undisturbed, Unrecorded
<1>6. <<t, "dat">> \in files[NFS]
    BY <1>1, <1>3 DEF CopyDone
<1>7. \A r \in Pods : copy[r][t] = "none"
  <2> SUFFICES ASSUME NEW r \in Pods, copy[r][t] # "none" PROVE FALSE
      OBVIOUS
  <2>a. CopyBeforeName(r, t)
      BY <1>1, <1>2 DEF CopyOnce
  <2>b. Waits(t)
      BY <1>3
  <2>1. pc[r] = "copy" /\ job[r] = t
      BY <2>a, <2>b DEF CopyBeforeName
  <2>2. r = p
      BY <1>1, <1>3, <2>1 DEF RunOnce
  <2> QED
      BY <1>3, <2>1, <2>2
<1>8. \A r \in Pods \ {p} : pc[r] # "idle" => job[r] # t
    BY <1>1, <1>3 DEF RunOnce
<1>9. RunOnce'
  <2>1. \A q \in Pods : pc'[q] # "idle" <=> pc[q] # "idle"
      BY <1>3, <1>4
  <2>2. \A u \in Tasks : task'[u] = "pending" => Unrecorded(u)'
      BY <1>1, <1>3, <1>5 DEF RunOnce
  <2>3. ASSUME NEW q \in Pods, pc'[q] \in {"next", "exec", "record"}, at[q] # 10
        PROVE  Unrecorded(job[q])'
    <3>1. q # p /\ pc'[q] = pc[q]
        BY <1>4, <2>3
    <3>2. job[q] \in Tasks \ {t} /\ Unrecorded(job[q])
        BY <1>1, <1>2, <1>8, <2>3, <3>1 DEF RunOnce
    <3>3. PICK u \in Tasks \ {t} : u = job[q]
        BY <3>2
    <3>4. Unrecorded(u)'
        BY <1>5, <3>2, <3>3
    <3>5. u = job'[q]
        BY <1>3, <3>3
    <3> QED
        BY <3>4, <3>5 DEF Unrecorded
  <2>4. \A q \in Pods : pc'[q] \in {"next", "exec", "record"} /\ at[q] # 10 => Unrecorded(job[q])'
      BY <2>3
  <2> QED
      BY <1>1, <1>3, <2>1, <2>2, <2>4 DEF RunOnce
<1>10. CopyOnce'
  <2> SUFFICES ASSUME NEW r \in Pods, NEW u \in Tasks, copy[r][u] # "none"
               PROVE  CopyBeforeName(r, u)'
      BY <1>3 DEF CopyOnce
  <2>1. u # t /\ CopyBeforeName(r, u)
      BY <1>1, <1>7 DEF CopyOnce
  <2>2. Waits(u) => pc'[r] = "copy" /\ job[r] = u
      BY <1>3, <1>4, <2>1 DEF CopyBeforeName
  <2> QED
      BY <1>3, <1>5, <2>1, <2>2 DEF CopyBeforeName
<1>11. CopyDone'
    BY <1>1, <1>3, <1>4, <1>5, <1>6 DEF CopyDone
<1>12. NamedFilesPresent'
    BY <1>1, <1>3, <1>5, <1>6 DEF NamedFilesPresent
<1> QED
    BY <1>9, <1>10, <1>11, <1>12 DEF Calm

\* The copy goes on: only its last step names the files, and only its first removes one.
LEMMA CalmCopying ==
    ASSUME Inv, Calm, Quiet, NEW p \in Pods, NEW t \in Tasks, Copying(p, t), UNCHANGED spent
    PROVE  Calm'
<1>1. RunOnce /\ CopyOnce /\ CopyDone /\ NamedFilesPresent /\ Undisturbed
    BY DEF Calm, Quiet, Undisturbed
<1>2. /\ rows \in [Tasks -> SUBSET {"scratch", "nfs"}]
      /\ copy \in [Pods -> [Tasks -> CopyStep]]
      /\ files \in [Places -> SUBSET (Tasks \X Products)]
      /\ job \in [Pods -> Tasks] /\ NFS \in Places
    BY DEF Inv, TypeOK, Places
<1>3. /\ UNCHANGED <<cfg, wants, task, pc, job, at, odJobs, spent>>
      /\ copy[p][t] # "none"
    BY DEF Copying, OpenDat, CopyDat, CopyPreview, RewritePaths, run
<1>4. CopyBeforeName(p, t)
    BY <1>1, <1>3 DEF CopyOnce
<1>5. /\ \A u : Waits(u)' <=> Waits(u)
      /\ Undisturbed' <=> Undisturbed
    BY <1>3 DEF Waits, Undisturbed
<1>6. PICK s \in CopyStep : copy' = [copy EXCEPT ![p][t] = s]
    BY DEF Copying, OpenDat, CopyDat, CopyPreview, RewritePaths, SetCopy, CopyStep
<1>7. \A r \in Pods, u \in Tasks : copy'[r][u] = IF r = p /\ u = t THEN s ELSE copy[r][u]
    BY <1>2, <1>6
<1>n. ASSUME NEW h \in Hazards, Strike(h) PROVE FALSE
    BY <1>3, <1>n DEF Strike, Inv, TypeOK
<1>8. \/ /\ copy[p][t] = "dat" /\ s = "open" /\ rows' = rows
         /\ files'[NFS] = files[NFS] \ {<<t, "dat">>}
      \/ /\ copy[p][t] = "open" /\ s = "preview" /\ rows' = rows
         /\ files'[NFS] = files[NFS] \cup {<<t, "dat">>}
      \/ /\ copy[p][t] = "preview" /\ s = "paths" /\ rows' = rows
         /\ files'[NFS] = files[NFS] \cup {<<t, "preview">>}
      \/ /\ copy[p][t] = "paths" /\ s = "none" /\ files' = files
         /\ rows' = [rows EXCEPT ![t] = {IF x = "scratch" THEN "nfs" ELSE x : x \in @}]
  <2>1. \A z \in CopyStep : copy' = [copy EXCEPT ![p][t] = z] => z = s
      BY <1>2, <1>6
  <2>2. "copy" \in Hazards /\ {"open", "preview", "paths", "none"} \subseteq CopyStep
      BY DEF Hazards, CopyStep
  <2>3. CASE OpenDat(p, t)
      BY <1>2, <1>n, <2>1, <2>2, <2>3 DEF OpenDat, SetCopy
  <2>4. CASE CopyDat(p, t)
      BY <1>2, <1>n, <2>1, <2>2, <2>4 DEF CopyDat, SetCopy
  <2>5. CASE CopyPreview(p, t)
      BY <1>2, <1>n, <2>1, <2>2, <2>5 DEF CopyPreview, SetCopy
  <2>6. CASE RewritePaths(p, t)
      BY <1>n, <2>1, <2>2, <2>6 DEF RewritePaths, SetCopy
  <2> QED
      BY <2>3, <2>4, <2>5, <2>6 DEF Copying
<1>9. /\ \A u \in Tasks \ {t} : rows'[u] = rows[u]
      /\ \A u, q : u # t => (<<u, q>> \in files'[NFS] <=> <<u, q>> \in files[NFS])
      /\ s # "none" => rows' = rows
    BY <1>2, <1>8
<1>10. \A u \in Tasks : Unrecorded(u) => Unrecorded(u)'
  <2> SUFFICES ASSUME NEW u \in Tasks, Unrecorded(u) PROVE Unrecorded(u)'
      OBVIOUS
  <2>1. u # t
      BY <1>3 DEF Unrecorded
  <2> QED
      BY <1>3, <1>7, <1>9, <2>1 DEF Unrecorded
<1>11. RunOnce'
  <2>1. ASSUME NEW q \in Pods, pc[q] \in {"next", "exec", "record"}, at[q] # 10
        PROVE  Unrecorded(job[q])'
    <3>1. PICK u \in Tasks : u = job[q]
        BY <1>2
    <3>2. Unrecorded(u)'
        BY <1>1, <1>10, <2>1, <3>1 DEF RunOnce
    <3>3. u = job'[q]
        BY <1>3, <3>1
    <3> QED
        BY <3>2, <3>3 DEF Unrecorded
  <2>2. \A u \in Tasks : task[u] = "pending" => Unrecorded(u)'
      BY <1>1, <1>10 DEF RunOnce
  <2> QED
      BY <1>1, <1>3, <2>1, <2>2 DEF RunOnce
<1>12. CopyOnce'
  <2> SUFFICES ASSUME NEW r \in Pods, NEW u \in Tasks, copy'[r][u] # "none"
               PROVE  CopyBeforeName(r, u)'
      BY DEF CopyOnce
  <2>1. CASE u = t
    <3>1. r = p /\ s # "none" /\ \A q \in Pods : copy'[q][u] # "none" => q = p
        BY <1>4, <1>7, <2>1 DEF CopyBeforeName
    <3>2. copy'[r][u] = s
        BY <1>7, <2>1, <3>1
    <3>3. /\ s \in {"preview", "paths"} => <<t, "dat">> \in files'[NFS]
          /\ s = "paths" => <<t, "preview">> \in files'[NFS]
        BY <1>4, <1>8 DEF CopyBeforeName
    <3> QED
        BY <1>3, <1>4, <1>5, <1>9, <2>1, <3>1, <3>2, <3>3 DEF CopyBeforeName
  <2>2. CASE u # t
    <3>1. copy'[r][u] = copy[r][u] /\ CopyBeforeName(r, u) /\ rows'[u] = rows[u]
        BY <1>1, <1>7, <1>9, <2>2 DEF CopyOnce
    <3>2. \A q \in Pods : copy'[q][u] # "none" => q = r
        BY <1>7, <2>2, <3>1 DEF CopyBeforeName
    <3> QED
        BY <1>3, <1>5, <1>9, <2>2, <3>1, <3>2 DEF CopyBeforeName
  <2> QED
      BY <2>1, <2>2
<1>13. CopyDone'
  <2> SUFFICES ASSUME NEW r \in Pods, pc[r] # "idle", Waits(job[r]),
                      at[r] = 10 \/ (pc[r] = "copy" /\ copy'[r][job[r]] = "none")
               PROVE  <<job[r], "dat">> \in files'[NFS]
      BY <1>3, <1>5 DEF CopyDone
  <2>1. CASE job[r] # t
      BY <1>1, <1>2, <1>7, <1>9, <2>1 DEF CopyDone
  <2>2. CASE job[r] = t
    <3>1. pc[p] = "copy" /\ job[p] = t
        BY <1>4, <2>2 DEF CopyBeforeName
    <3>2. r = p
        BY <1>1, <2>2, <3>1 DEF RunOnce
    <3>3. at[p] = 9
        BY <3>1 DEF Inv, AtFusion
    <3>4. s = "none"
        BY <1>7, <2>2, <3>2, <3>3
    <3> QED
        BY <1>4, <1>8, <2>2, <3>4 DEF CopyBeforeName
  <2> QED
      BY <2>1, <2>2
<1>14. NamedFilesPresent'
  <2> SUFFICES ASSUME NEW u \in Tasks
               PROVE  /\ u \in odJobs => <<u, "dat">> \in files'[NFS]
                      /\ "nfs" \in rows'[u] =>
                            {<<u, "dat">>, <<u, "preview">>} \subseteq files'[NFS]
      BY <1>3 DEF NamedFilesPresent
  <2>1. CASE u # t
      BY <1>1, <1>9, <2>1 DEF NamedFilesPresent
  <2>2. CASE u = t
    <3>1. u \notin odJobs /\ "nfs" \notin rows[u]
        BY <1>4, <2>2 DEF CopyBeforeName
    <3>2. s = "none" => {<<u, "dat">>, <<u, "preview">>} \subseteq files'[NFS]
        BY <1>4, <1>8, <2>2 DEF CopyBeforeName
    <3> QED
        BY <1>9, <3>1, <3>2
  <2> QED
      BY <2>1, <2>2
<1> QED
    BY <1>11, <1>12, <1>13, <1>14 DEF Calm

LEMMA CalmDetection ==
    ASSUME Inv, Calm, Quiet, NEW t \in Tasks, DetectionFromJob(t)
    PROVE  Calm'
<1>1. RunOnce /\ CopyOnce /\ CopyDone /\ NamedFilesPresent /\ Undisturbed
    BY DEF Calm, Quiet, Undisturbed
<1>2. /\ UNCHANGED <<cfg, wants, files, rows, pc, job, at, copy, spent>>
      /\ odJobs' \subseteq odJobs
      /\ \A u \in Tasks : task'[u] = "pending" => task[u] = "pending"
    BY DEF DetectionFromJob, run, Inv, TypeOK
<1>3. /\ \A u : Waits(u)' <=> Waits(u)
      /\ Undisturbed' <=> Undisturbed
      /\ \A u : Unrecorded(u) => Unrecorded(u)'
      /\ \A r \in Pods : job[r] \in Tasks
    BY <1>2 DEF Waits, Undisturbed, Unrecorded, Inv, TypeOK
<1>4. RunOnce'
    BY <1>1, <1>2, <1>3 DEF RunOnce
<1>5. CopyOnce'
    BY <1>1, <1>2, <1>3 DEF CopyOnce, CopyBeforeName
<1>6. CopyDone' /\ NamedFilesPresent'
    BY <1>1, <1>2, <1>3 DEF CopyDone, NamedFilesPresent
<1> QED
    BY <1>4, <1>5, <1>6 DEF Calm

LEMMA CalmStep == Inv /\ Calm /\ [Next]_vars => Calm'
<1> SUFFICES ASSUME Inv, Calm, [Next]_vars, Quiet' PROVE Calm'
    BY DEF Calm
<1>1. ASSUME NEW h \in Hazards, Strike(h) PROVE FALSE
    BY <1>1, StruckIsNotQuiet
<1>2. ASSUME cfg' = cfg, spent' = spent PROVE Quiet
    BY <1>2 DEF Quiet
<1>3. ASSUME NEW p \in Pods, PodStep(p) PROVE Calm'
  <2>1. cfg' = cfg /\ spent' = spent
      BY <1>3 DEF PodStep, SkipStage, BeginStage, ExecSuccess, ExecFailure, RecordArtifacts,
                  CopyReturns, SkipDetection, EnqueueOD, Ack
  <2> QED
      BY <1>2, <1>3, <2>1, CalmPodStep, CalmRecord, CalmEnqueue DEF PodStep
<1>4. ASSUME NEW p \in Pods, Restart(p) \/ Replace(p) PROVE Calm'
    BY <1>1, <1>4 DEF Restart, Replace, Hazards
<1>5. ASSUME NEW p \in Pods, NEW t \in Tasks, Claim(p, t) PROVE Calm'
    BY <1>2, <1>5, CalmClaim DEF Claim
<1>6. ASSUME NEW p \in Pods, NEW t \in Tasks, Copying(p, t) PROVE Calm'
  <2>1. cfg' = cfg /\ (spent' = spent \/ Strike("copy"))
      BY <1>6 DEF Copying, OpenDat, CopyDat, CopyPreview, RewritePaths
  <2>2. spent' = spent
      BY <1>1, <2>1 DEF Hazards
  <2> QED
      BY <1>2, <1>6, <2>1, <2>2, CalmCopying
<1>7. ASSUME NEW t \in Tasks, DetectionFromJob(t) PROVE Calm'
    BY <1>2, <1>7, CalmDetection DEF DetectionFromJob
<1>8. CASE UNCHANGED vars
  <2>1. UNCHANGED <<cfg, wants, task, files, rows, pc, job, at, copy, odJobs, spent>>
      BY <1>8 DEF vars
  <2>2. Quiet
      BY <1>2, <2>1
  <2>3. RunOnce /\ CopyOnce /\ CopyDone /\ NamedFilesPresent
      BY <2>2 DEF Calm
  <2>4. RunOnce' /\ CopyOnce' /\ CopyDone'
      BY <2>1, <2>3 DEF RunOnce, Unrecorded, CopyOnce, CopyBeforeName, CopyDone, Waits
  <2>5. NamedFilesPresent'
      BY <2>1, <2>3 DEF NamedFilesPresent, Undisturbed
  <2> QED
      BY <2>4, <2>5 DEF Calm
<1> QED
    BY <1>3, <1>4, <1>5, <1>6, <1>7, <1>8 DEF Next

-----------------------------------------------------------------------------
(* The artifact rows.                                                      *)

\* A set of natural numbers has a least element.
LEMMA Least ==
    ASSUME NEW T, T \subseteq Nat, T # {}
    PROVE  \E p \in T : \A q \in T : p <= q
<1>1. PICK p \in T : \A q \in T : ~(<<q, p>> \in OpToRel(<, Nat))
    BY NatLessThanWellFounded, WFMin
<1>2. \A q \in T : ~(q < p)
    BY <1>1 DEF OpToRel
<1> QED
    BY <1>2

LEMMA FirstIsOne ==
    ASSUME Artifacts!ArtifactsAssumption, NEW ps, ps \subseteq Artifacts!Paths, ps # {}
    PROVE  Artifacts!First(ps) \in ps
<1>1. ps \subseteq Nat
    BY DEF Artifacts!Paths, Artifacts!Summary, Artifacts!ArtifactsAssumption
<1> QED
    BY <1>1, Least DEF Artifacts!First

\* Whoever runs and has met no one runs alone.
Alone == \A p \in Artifacts!Busy \ overlapped : Artifacts!Busy = {p}

FinitelyMany == IsFiniteSet(disk) /\ IsFiniteSet(artifactRows)

RowsAt(some, p) == {r \in some : r.path = p}

\* How far a request has brought the rows in line.
SyncingBy(g) ==
    /\ apc[g] \in {"read", "sync", "prune"} => entries[g] = disk
    /\ apc[g] = "sync" =>
          /\ todo[g] \subseteq entries[g]
          /\ \A p \in entries[g] \ todo[g] : Artifacts!Has(p, artifactRows)
          /\ \A p : (p \in todo[g] \/ p \notin entries[g]) =>
                 RowsAt(artifactRows, p) = RowsAt(existing[g], p)
    /\ apc[g] = "prune" =>
          /\ todo[g] \cap entries[g] = {}
          /\ \A p \in entries[g] : Artifacts!Has(p, artifactRows)
          /\ \A r \in artifactRows : r.path \notin entries[g] =>
                 /\ r \in existing[g]
                 /\ r.path \in todo[g] \/ \E x \in existing[g] \ {r} : x.path = r.path

Syncing == \A g \in Gets \ overlapped : SyncingBy(g)

\* Nothing is there before a detection has ended.
Begun ==
    /\ artifactRows # {} => \E d \in Detections : apc[d] \in {"insert", "done"}
    /\ completed => \E d \in Detections : apc[d] = "done"
    /\ \A g \in Gets : apc[g] # "start" => completed
    /\ \A d \in Detections : apc[d] \in {"start", "run", "insert", "done"}
    /\ \A g \in Gets : apc[g] \in {"start", "collect", "read", "sync", "prune", "done"}

OneDetection == \A d, e \in Detections : apc[d] # "start" /\ apc[e] # "start" => d = e

OneRowEach ==
    (overlapped = {} /\ OneDetection) =>
        /\ \A r, s \in artifactRows : r.path = s.path => r = s
        /\ \A d \in Detections : apc[d] = "run" => artifactRows = {}
        /\ \A d \in Detections : apc[d] = "insert" => \A r \in artifactRows : r.path \notin todo[d]

ArtifactsInv ==
    /\ Artifacts!ArtifactsAssumption
    /\ Artifacts!TypeOK
    /\ Alone
    /\ FinitelyMany
    /\ Syncing
    /\ Begun
    /\ OneRowEach

LEMMA ArtifactsInit == Artifacts!ArtifactsAssumption /\ Artifacts!Init => ArtifactsInv
<1> SUFFICES ASSUME Artifacts!ArtifactsAssumption, Artifacts!Init PROVE ArtifactsInv
    OBVIOUS
<1>1. Artifacts!TypeOK
  <2>1. apc \in [Artifacts!Procs -> {"start"}] /\ MaxErrors \in Nat
      BY DEF Artifacts!Init, Artifacts!ArtifactsAssumption
  <2>2. errors \in 0 .. MaxErrors
      BY <2>1 DEF Artifacts!Init
  <2>3. \A S : {} \in SUBSET S
      OBVIOUS
  <2> QED
      BY <2>1, <2>2, <2>3 DEF Artifacts!Init, Artifacts!TypeOK
<1>2. Alone /\ Syncing /\ Begun /\ OneRowEach
    BY DEF Artifacts!Init, Alone, Artifacts!Busy, Syncing, SyncingBy, Begun, OneRowEach,
           Artifacts!Procs
<1>3. FinitelyMany
    BY FS_EmptySet DEF Artifacts!Init, FinitelyMany
<1> QED
    BY <1>1, <1>2, <1>3 DEF ArtifactsInv

LEMMA ArtifactsTypeStep ==
    ASSUME Artifacts!ArtifactsAssumption, Artifacts!TypeOK, [Artifacts!Next]_(Artifacts!vars)
    PROVE  Artifacts!TypeOK'
<1> USE DEF Artifacts!TypeOK, Artifacts!Goto
<1>0. \A p, ps : Artifacts!TypeOf(p, ps) \in {"summary", "preview", "tile"}
    BY DEF Artifacts!TypeOf
<1>1. ASSUME NEW d \in Detections, Artifacts!StartDetection(d) PROVE Artifacts!TypeOK'
    BY <1>1 DEF Artifacts!StartDetection, Artifacts!Begins, Artifacts!Busy, Artifacts!Procs,
                Artifacts!Paths
<1>2. ASSUME NEW d \in Detections, Artifacts!WriteFile(d) PROVE Artifacts!TypeOK'
    BY <1>2 DEF Artifacts!WriteFile, Artifacts!Procs
<1>3. ASSUME NEW d \in Detections, Artifacts!CollectDetected(d) PROVE Artifacts!TypeOK'
    BY <1>3 DEF Artifacts!CollectDetected, Artifacts!CollectArtifactEntries, Artifacts!Procs
<1>4. ASSUME NEW p \in Artifacts!Procs, NEW file \in Artifacts!Paths, Artifacts!Insert(p, file)
      PROVE  artifactRows' \subseteq Artifacts!Row
    BY <1>0, <1>4 DEF Artifacts!Insert, Artifacts!Row
<1>5. ASSUME NEW d \in Detections, Artifacts!InsertDetected(d) PROVE Artifacts!TypeOK'
  <2>1. /\ d \in Artifacts!Procs /\ todo[d] \subseteq Artifacts!Paths
        /\ Artifacts!First(todo[d]) \in todo[d]
      BY <1>5, FirstIsOne DEF Artifacts!InsertDetected, Artifacts!Procs
  <2>2. artifactRows' \subseteq Artifacts!Row
      BY <1>4, <1>5, <2>1 DEF Artifacts!InsertDetected
  <2>3. errors' \in 0 .. MaxErrors
      BY <1>5 DEF Artifacts!InsertDetected, Artifacts!ArtifactsAssumption
  <2>4. todo' \in [Artifacts!Procs -> SUBSET Artifacts!Paths]
      BY <1>5, <2>1 DEF Artifacts!InsertDetected
  <2> QED
      BY <1>5, <2>2, <2>3, <2>4 DEF Artifacts!InsertDetected
<1>6. ASSUME NEW d \in Detections, Artifacts!FinishDetection(d) PROVE Artifacts!TypeOK'
    BY <1>6 DEF Artifacts!FinishDetection, Artifacts!Procs
<1>7. ASSUME NEW g \in Gets, Artifacts!StartGet(g) PROVE Artifacts!TypeOK'
    BY <1>7 DEF Artifacts!StartGet, Artifacts!Begins, Artifacts!Busy, Artifacts!Procs
<1>8. ASSUME NEW g \in Gets, Artifacts!CollectOnDisk(g) PROVE Artifacts!TypeOK'
    BY <1>8 DEF Artifacts!CollectOnDisk, Artifacts!CollectArtifactEntries, Artifacts!Procs
<1>9. ASSUME NEW g \in Gets, Artifacts!ReadRows(g) PROVE Artifacts!TypeOK'
    BY <1>9 DEF Artifacts!ReadRows, Artifacts!Procs
<1>10. ASSUME NEW g \in Gets, Artifacts!SyncEntry(g) PROVE Artifacts!TypeOK'
  <2>1. /\ g \in Artifacts!Procs /\ todo[g] \subseteq Artifacts!Paths
        /\ Artifacts!First(todo[g]) \in todo[g]
      BY <1>10, FirstIsOne DEF Artifacts!SyncEntry, Artifacts!Procs
  <2>2. ASSUME NEW r, Artifacts!Update(g, r) PROVE artifactRows' \subseteq Artifacts!Row
      BY <1>0, <2>2 DEF Artifacts!Update, Artifacts!Row
  <2>3. artifactRows' \subseteq Artifacts!Row
      BY <1>4, <1>10, <2>1, <2>2 DEF Artifacts!SyncEntry
  <2>4. todo' \in [Artifacts!Procs -> SUBSET Artifacts!Paths]
      BY <1>10, <2>1 DEF Artifacts!SyncEntry
  <2> QED
      BY <1>10, <2>3, <2>4 DEF Artifacts!SyncEntry
<1>11. ASSUME NEW g \in Gets, Artifacts!SyncEntriesDone(g) PROVE Artifacts!TypeOK'
  <2>1. {r.path : r \in existing[g]} \subseteq Artifacts!Paths
      BY DEF Artifacts!Row, Artifacts!Procs
  <2> QED
      BY <1>11, <2>1 DEF Artifacts!SyncEntriesDone, Artifacts!Procs
<1>12. ASSUME NEW g \in Gets, Artifacts!DeleteRow(g) PROVE Artifacts!TypeOK'
    BY <1>12 DEF Artifacts!DeleteRow, Artifacts!Procs
<1>13. ASSUME NEW g \in Gets, Artifacts!Respond(g) PROVE Artifacts!TypeOK'
    BY <1>13 DEF Artifacts!Respond, Artifacts!Procs
<1>14. ASSUME NEW g \in Gets, Artifacts!SyncError(g) PROVE Artifacts!TypeOK'
    BY <1>14 DEF Artifacts!SyncError, Artifacts!Procs, Artifacts!ArtifactsAssumption
<1>15. CASE UNCHANGED Artifacts!vars
    BY <1>15 DEF Artifacts!vars
<1> QED
    BY <1>1, <1>2, <1>3, <1>5, <1>6, <1>7, <1>8, <1>9, <1>10, <1>11, <1>12, <1>13, <1>14, <1>15
    DEF Artifacts!Next

\* A step of p: it begins, or it was busy; nobody else moves.
ArtifactStepOf(p) ==
    /\ \A q \in Artifacts!Procs \ {p} :
          /\ apc'[q] = apc[q] /\ entries'[q] = entries[q]
          /\ existing'[q] = existing[q] /\ todo'[q] = todo[q]
    /\ \/ apc[p] = "start" /\ apc'[p] \notin {"start", "done"} /\ Artifacts!Begins(p)
       \/ p \in Artifacts!Busy /\ apc'[p] # "start" /\ UNCHANGED overlapped
    /\ overlapped \subseteq overlapped'

DetectionStep(d) ==
    \/ Artifacts!StartDetection(d) \/ Artifacts!WriteFile(d) \/ Artifacts!CollectDetected(d)
    \/ Artifacts!InsertDetected(d) \/ Artifacts!FinishDetection(d)
RequestStep(g) ==
    \/ Artifacts!StartGet(g) \/ Artifacts!CollectOnDisk(g) \/ Artifacts!ReadRows(g)
    \/ Artifacts!SyncEntry(g) \/ Artifacts!SyncEntriesDone(g) \/ Artifacts!DeleteRow(g)
    \/ Artifacts!Respond(g) \/ Artifacts!SyncError(g)

LEMMA SomebodysStep ==
    ASSUME Artifacts!TypeOK, Artifacts!Next
    PROVE  \/ \E d \in Detections : DetectionStep(d) /\ ArtifactStepOf(d)
           \/ \E g \in Gets : RequestStep(g) /\ ArtifactStepOf(g)
<1> USE DEF Artifacts!TypeOK, Artifacts!Goto, ArtifactStepOf, Artifacts!Begins, Artifacts!Busy,
            Artifacts!Procs
<1>1. ASSUME NEW d \in Detections, DetectionStep(d) PROVE ArtifactStepOf(d)
    BY <1>1
    DEF DetectionStep, Artifacts!StartDetection, Artifacts!WriteFile,
        Artifacts!CollectDetected, Artifacts!InsertDetected, Artifacts!FinishDetection
<1>2. ASSUME NEW g \in Gets, RequestStep(g) PROVE ArtifactStepOf(g)
    BY <1>2
    DEF RequestStep, Artifacts!StartGet, Artifacts!CollectOnDisk, Artifacts!ReadRows,
        Artifacts!SyncEntry, Artifacts!SyncEntriesDone, Artifacts!DeleteRow, Artifacts!Respond,
        Artifacts!SyncError
<1> QED
    BY <1>1, <1>2 DEF Artifacts!Next, DetectionStep, RequestStep

LEMMA AloneStep ==
    ASSUME Artifacts!TypeOK, Alone, [Artifacts!Next]_(Artifacts!vars)
    PROVE  Alone'
<1>1. CASE Artifacts!Next
  <2>1. PICK p \in Artifacts!Procs : ArtifactStepOf(p)
      BY <1>1, SomebodysStep DEF Artifacts!Procs
  <2>2. Artifacts!Busy' \subseteq Artifacts!Busy \cup {p}
      BY <2>1 DEF ArtifactStepOf, Artifacts!Busy
  <2>3. CASE p \in Artifacts!Busy /\ UNCHANGED overlapped
      BY <2>2, <2>3 DEF Alone
  <2>4. CASE apc[p] = "start" /\ Artifacts!Begins(p)
      BY <2>2, <2>4 DEF Alone, Artifacts!Begins
  <2> QED
      BY <2>1, <2>3, <2>4 DEF ArtifactStepOf
<1>2. CASE UNCHANGED Artifacts!vars
    BY <1>2 DEF Artifacts!vars, Alone, Artifacts!Busy
<1> QED
    BY <1>1, <1>2

LEMMA ImageFinite ==
    ASSUME NEW S, IsFiniteSet(S), NEW f
    PROVE  IsFiniteSet({f[x] : x \in S})
<1> DEFINE h == [x \in S |-> f[x]]
<1>1. h \in Surjection(S, {f[x] : x \in S})
    BY DEF Surjection
<1> QED
    BY <1>1, FS_Surjection

LEMMA FiniteStep ==
    ASSUME FinitelyMany, [Artifacts!Next]_(Artifacts!vars)
    PROVE  FinitelyMany'
<1>1. ASSUME NEW p, NEW file, Artifacts!Insert(p, file) PROVE IsFiniteSet(artifactRows')
    BY <1>1, FS_AddElement DEF Artifacts!Insert, FinitelyMany
<1>2. ASSUME NEW g, NEW r, Artifacts!Update(g, r) PROVE IsFiniteSet(artifactRows')
  <2> DEFINE f == [s \in artifactRows |->
                      IF Artifacts!SameRow(s, r)
                      THEN [s EXCEPT !.type = Artifacts!TypeOf(s.path, entries[g])] ELSE s]
  <2>1. artifactRows' = {f[s] : s \in artifactRows}
      BY <1>2 DEF Artifacts!Update
  <2>2. IsFiniteSet(artifactRows)
      BY DEF FinitelyMany
  <2>3. IsFiniteSet({f[s] : s \in artifactRows})
    <3> HIDE DEF f
    <3> QED
        BY <2>2, ImageFinite
  <2> QED
      BY <2>1, <2>3
<1>3. CASE \E d \in Detections : Artifacts!StartDetection(d) \/ Artifacts!WriteFile(d)
  <2>1. /\ artifactRows' = artifactRows
        /\ disk' = disk \/ disk' = {} \/ \E p : disk' = disk \cup {p}
      BY <1>3 DEF Artifacts!StartDetection, Artifacts!WriteFile
  <2>2. IsFiniteSet(disk')
    <3>1. IsFiniteSet(disk) /\ IsFiniteSet({})
        BY FS_EmptySet DEF FinitelyMany
    <3>2. \A p : IsFiniteSet(disk \cup {p})
        BY <3>1, FS_AddElement
    <3> QED
        BY <2>1, <3>1, <3>2
  <2> QED
      BY <2>1, <2>2 DEF FinitelyMany
<1>4. CASE \E d \in Detections : Artifacts!InsertDetected(d)
    BY <1>1, <1>4 DEF Artifacts!InsertDetected, FinitelyMany
<1>5. CASE \E g \in Gets : Artifacts!SyncEntry(g)
    BY <1>1, <1>2, <1>5 DEF Artifacts!SyncEntry, FinitelyMany
<1>6. CASE \E g \in Gets : Artifacts!DeleteRow(g)
  <2>1. artifactRows' \in SUBSET artifactRows /\ disk' = disk
      BY <1>6 DEF Artifacts!DeleteRow
  <2> QED
      BY <2>1, FS_Subset DEF FinitelyMany
<1>7. CASE UNCHANGED <<disk, artifactRows>>
    BY <1>7 DEF FinitelyMany
<1> QED
    BY <1>3, <1>4, <1>5, <1>6, <1>7
    DEF Artifacts!Next, Artifacts!CollectDetected, Artifacts!FinishDetection,
        Artifacts!StartGet, Artifacts!CollectOnDisk, Artifacts!ReadRows,
        Artifacts!SyncEntriesDone,
        Artifacts!Respond, Artifacts!SyncError, Artifacts!vars

LEMMA BegunStep ==
    ASSUME Artifacts!ArtifactsAssumption, Artifacts!TypeOK, Begun,
           [Artifacts!Next]_(Artifacts!vars)
    PROVE  Begun'
<1> USE DEF Artifacts!TypeOK, Artifacts!Goto, Artifacts!Procs, Artifacts!ArtifactsAssumption,
            Begun
<1>1. ASSUME NEW d \in Detections, Artifacts!StartDetection(d) PROVE Begun'
    BY <1>1 DEF Artifacts!StartDetection
<1>2. ASSUME NEW d \in Detections, Artifacts!WriteFile(d) PROVE Begun'
    BY <1>2 DEF Artifacts!WriteFile
<1>3. ASSUME NEW d \in Detections, Artifacts!CollectDetected(d) PROVE Begun'
    BY <1>3 DEF Artifacts!CollectDetected
<1>5. ASSUME NEW d \in Detections, Artifacts!InsertDetected(d) PROVE Begun'
    BY <1>5 DEF Artifacts!InsertDetected
<1>6. ASSUME NEW d \in Detections, Artifacts!FinishDetection(d) PROVE Begun'
    BY <1>6 DEF Artifacts!FinishDetection
<1>7. ASSUME NEW g \in Gets, Artifacts!StartGet(g) PROVE Begun'
    BY <1>7 DEF Artifacts!StartGet
<1>8. ASSUME NEW g \in Gets,
             \/ Artifacts!CollectOnDisk(g) \/ Artifacts!ReadRows(g)
             \/ Artifacts!SyncEntriesDone(g) \/ Artifacts!Respond(g) \/ Artifacts!SyncError(g)
      PROVE  Begun'
    BY <1>8 DEF Artifacts!CollectOnDisk, Artifacts!ReadRows, Artifacts!SyncEntriesDone,
                Artifacts!Respond, Artifacts!SyncError
<1>10. ASSUME NEW g \in Gets, Artifacts!SyncEntry(g) \/ Artifacts!DeleteRow(g) PROVE Begun'
    BY <1>10 DEF Artifacts!SyncEntry, Artifacts!DeleteRow
<1>15. CASE UNCHANGED Artifacts!vars
    BY <1>15 DEF Artifacts!vars
<1> QED
    BY <1>1, <1>2, <1>3, <1>5, <1>6, <1>7, <1>8, <1>10, <1>15 DEF Artifacts!Next

\* A step of another, or of a request that has just begun.
LEMMA OthersSync ==
    ASSUME Artifacts!ArtifactsAssumption, Artifacts!TypeOK, Alone, Syncing, Artifacts!Next,
           NEW g \in Gets, g \notin overlapped',
           NEW p \in Artifacts!Procs \ {g}, ArtifactStepOf(p)
    PROVE  SyncingBy(g)'
<1>1. g \in Artifacts!Procs /\ g \notin overlapped /\ SyncingBy(g)
    BY DEF Syncing, Artifacts!Procs, ArtifactStepOf
<1>2. apc[g] \in {"read", "sync", "prune"} => g \in Artifacts!Busy
    BY <1>1 DEF Artifacts!Busy
<1>3. CASE g \in Artifacts!Busy
  <2>1. Artifacts!Busy = {g}
      BY <1>1, <1>3 DEF Alone
  <2>2. Artifacts!Begins(p)
      BY <2>1 DEF ArtifactStepOf
  <2> QED
      BY <2>1, <2>2 DEF Artifacts!Begins
<1>4. CASE g \notin Artifacts!Busy
    BY <1>1, <1>2, <1>4 DEF ArtifactStepOf, SyncingBy
<1> QED
    BY <1>3, <1>4

LEMMA SyncEntryKeeps ==
    ASSUME Artifacts!ArtifactsAssumption, Artifacts!TypeOK, NEW g \in Gets, SyncingBy(g),
           Artifacts!SyncEntry(g)
    PROVE  SyncingBy(g)'
<1> DEFINE p == Artifacts!First(todo[g])
<1>1. g \in Artifacts!Procs /\ p \in todo[g] /\ p \in Artifacts!Paths
    BY FirstIsOne DEF Artifacts!SyncEntry, Artifacts!Procs, Artifacts!TypeOK
<1>2. /\ entries[g] = disk /\ todo[g] \subseteq entries[g]
      /\ \A q \in entries[g] \ todo[g] : Artifacts!Has(q, artifactRows)
      /\ \A q : (q \in todo[g] \/ q \notin entries[g]) =>
             RowsAt(artifactRows, q) = RowsAt(existing[g], q)
    BY DEF SyncingBy, Artifacts!SyncEntry
<1>3. /\ apc[g] = "sync" /\ todo'[g] = todo[g] \ {p} /\ todo[g] # {}
      /\ UNCHANGED <<disk, apc, entries, existing>>
    BY <1>1 DEF Artifacts!SyncEntry, Artifacts!TypeOK
<1> HIDE DEF p
<1>4. /\ Artifacts!Has(p, artifactRows')
      /\ \A q : q # p => RowsAt(artifactRows', q) = RowsAt(artifactRows, q)
  <2>1. CASE Artifacts!Insert(g, p)
    <3>1. PICK r : r.path = p /\ artifactRows' = artifactRows \cup {r}
        BY <2>1 DEF Artifacts!Insert
    <3> QED
        BY <3>1 DEF Artifacts!Has, RowsAt
  <2>2. ASSUME NEW r \in existing[g], r.path = p, Artifacts!Update(g, r)
        PROVE  /\ Artifacts!Has(p, artifactRows')
               /\ \A q : q # p => RowsAt(artifactRows', q) = RowsAt(artifactRows, q)
    <3>1. ASSUME NEW s \in artifactRows
          PROVE  [s EXCEPT !.type = Artifacts!TypeOf(s.path, entries[g])].path = s.path
        BY DEF Artifacts!TypeOK, Artifacts!Row
    <3>2. r \in artifactRows
        BY <1>1, <1>2, <2>2 DEF RowsAt
    <3>3. Artifacts!Has(p, artifactRows')
        BY <2>2, <3>1, <3>2 DEF Artifacts!Has, Artifacts!Update, Artifacts!SameRow
    <3>4. ASSUME NEW q, q # p PROVE RowsAt(artifactRows', q) \subseteq RowsAt(artifactRows, q)
        BY <2>2, <3>1, <3>4 DEF RowsAt, Artifacts!Update, Artifacts!SameRow
    <3>5. ASSUME NEW q, q # p PROVE RowsAt(artifactRows, q) \subseteq RowsAt(artifactRows', q)
        BY <2>2, <3>1, <3>5 DEF RowsAt, Artifacts!Update, Artifacts!SameRow
    <3>6. ASSUME NEW q, q # p PROVE RowsAt(artifactRows', q) = RowsAt(artifactRows, q)
      <4>1. /\ RowsAt(artifactRows', q) \subseteq RowsAt(artifactRows, q)
            /\ RowsAt(artifactRows, q) \subseteq RowsAt(artifactRows', q)
          BY <3>4, <3>5, <3>6
      <4> QED
          BY <4>1
    <3> QED
        BY <3>3, <3>6
  <2> QED
      BY <2>1, <2>2 DEF Artifacts!SyncEntry, p
<1>5. \A q \in entries[g] \ todo'[g] : Artifacts!Has(q, artifactRows')
  <2>1. \A q : q # p /\ Artifacts!Has(q, artifactRows) => Artifacts!Has(q, artifactRows')
      BY <1>4 DEF Artifacts!Has, RowsAt
  <2> QED
      BY <1>2, <1>3, <1>4, <2>1
<1> QED
    BY <1>1, <1>2, <1>3, <1>4, <1>5 DEF SyncingBy, RowsAt

LEMMA SyncingStep ==
    ASSUME Artifacts!ArtifactsAssumption, Artifacts!TypeOK, Alone, Syncing,
           [Artifacts!Next]_(Artifacts!vars)
    PROVE  Syncing'
<1>1. CASE UNCHANGED Artifacts!vars
    BY <1>1 DEF Artifacts!vars, Syncing, SyncingBy, RowsAt
<1>2. CASE Artifacts!Next
  <2> SUFFICES ASSUME NEW g \in Gets, g \notin overlapped' PROVE SyncingBy(g)'
      BY DEF Syncing
  <2>1. \A p \in Artifacts!Procs \ {g} : ArtifactStepOf(p) => SyncingBy(g)'
      BY <1>2, OthersSync
  <2>2. ASSUME NEW d \in Detections, ArtifactStepOf(d) PROVE SyncingBy(g)'
      BY <2>1, <2>2 DEF Artifacts!Procs, Artifacts!ArtifactsAssumption
  <2>3. CASE RequestStep(g) /\ ArtifactStepOf(g)
    <3> USE DEF Artifacts!TypeOK, Artifacts!Goto, Artifacts!Procs, Artifacts!ArtifactsAssumption
    <3>1. SyncingBy(g) /\ g \in Artifacts!Procs /\ apc'[g] # "start"
        BY <2>3 DEF Syncing, ArtifactStepOf, Artifacts!Busy
    <3>3. CASE Artifacts!StartGet(g)
        BY <3>1, <3>3 DEF Artifacts!StartGet, SyncingBy
    <3>4. CASE Artifacts!CollectOnDisk(g)
        BY <3>1, <3>4 DEF Artifacts!CollectOnDisk, Artifacts!CollectArtifactEntries, SyncingBy
    <3>5. CASE Artifacts!ReadRows(g)
        BY <3>1, <3>5 DEF Artifacts!ReadRows, SyncingBy, RowsAt
    <3>6. CASE Artifacts!SyncEntry(g)
        BY <3>1, <3>6, SyncEntryKeeps
    <3>7. CASE Artifacts!SyncEntriesDone(g)
      <4>1. /\ apc[g] = "sync" /\ todo[g] = {} /\ apc'[g] = "prune"
            /\ todo'[g] = {r.path : r \in existing[g]} \ entries[g]
            /\ UNCHANGED <<disk, artifactRows, entries, existing>>
          BY <3>1, <3>7 DEF Artifacts!SyncEntriesDone
      <4>2. \A r \in artifactRows : r.path \notin entries[g] => r \in existing[g]
          BY <3>1, <4>1 DEF SyncingBy, RowsAt
      <4> QED
          BY <3>1, <4>1, <4>2 DEF SyncingBy, Artifacts!Has
    <3>8. CASE Artifacts!DeleteRow(g)
      <4>1. PICK r \in existing[g] :
               /\ r.path \in todo[g]
               /\ artifactRows' = {s \in artifactRows : ~Artifacts!SameRow(s, r)}
               /\ todo'[g] = todo[g] \ {r.path}
          BY <3>1, <3>8 DEF Artifacts!DeleteRow
      <4>2. apc[g] = "prune" /\ UNCHANGED <<disk, apc, entries, existing>>
          BY <3>8 DEF Artifacts!DeleteRow
      <4>3. r.path \notin entries[g]
          BY <3>1, <4>1, <4>2 DEF SyncingBy
      <4>4. \A q \in entries[g] : Artifacts!Has(q, artifactRows')
          BY <3>1, <4>1, <4>2, <4>3 DEF SyncingBy, Artifacts!Has, Artifacts!SameRow
      <4>5. ASSUME NEW s \in artifactRows', s.path \notin entries[g]
            PROVE  /\ s \in existing[g]
                   /\ s.path \in todo'[g] \/ \E x \in existing[g] \ {s} : x.path = s.path
        <5>1. s \in artifactRows /\ s # r
            BY <4>1 DEF Artifacts!SameRow
        <5> QED
            BY <3>1, <4>1, <4>2, <4>5, <5>1 DEF SyncingBy
      <4> QED
          BY <3>1, <4>1, <4>2, <4>4, <4>5 DEF SyncingBy
    <3>9. CASE Artifacts!Respond(g) \/ Artifacts!SyncError(g)
        BY <3>1, <3>9 DEF Artifacts!Respond, Artifacts!SyncError, SyncingBy
    <3> QED
        BY <2>3, <3>3, <3>4, <3>5, <3>6, <3>7, <3>8, <3>9 DEF RequestStep
  <2> QED
      BY <1>2, <2>1, <2>2, <2>3, SomebodysStep DEF Artifacts!Procs
<1> QED
    BY <1>1, <1>2

LEMMA OneRowStep ==
    ASSUME Artifacts!ArtifactsAssumption, Artifacts!TypeOK, Alone, Syncing, Begun, OneRowEach,
           [Artifacts!Next]_(Artifacts!vars)
    PROVE  OneRowEach'
<1>1. CASE UNCHANGED Artifacts!vars
    BY <1>1 DEF Artifacts!vars, OneRowEach, OneDetection
<1> SUFFICES ASSUME Artifacts!Next, overlapped' = {}, OneDetection'
             PROVE  (/\ \A r, s \in artifactRows : r.path = s.path => r = s
                     /\ \A d \in Detections : apc[d] = "run" => artifactRows = {}
                     /\ \A d \in Detections : apc[d] = "insert" =>
                            \A r \in artifactRows : r.path \notin todo[d])'
    BY <1>1 DEF OneRowEach
<1> USE DEF Artifacts!TypeOK, Artifacts!Goto, Artifacts!Procs, Artifacts!ArtifactsAssumption
<1>2. ASSUME NEW p \in Artifacts!Procs, ArtifactStepOf(p)
      PROVE  /\ overlapped = {}
             /\ OneDetection
             /\ \A q \in Artifacts!Procs \ {p} : apc[q] \in {"start", "done"} /\ apc'[q] = apc[q]
             /\ \A r, s \in artifactRows : r.path = s.path => r = s
             /\ \A d \in Detections : apc[d] = "run" => artifactRows = {}
             /\ \A d \in Detections : apc[d] = "insert" =>
                    \A r \in artifactRows : r.path \notin todo[d]
  <2>1. overlapped = {}
      BY <1>2 DEF ArtifactStepOf
  <2>2. \A q \in Artifacts!Procs : apc[q] # "start" => apc'[q] # "start"
      BY <1>2 DEF ArtifactStepOf, Artifacts!Busy
  <2>3. OneDetection
      BY <2>2 DEF OneDetection
  <2>4. \A q \in Artifacts!Procs \ {p} : q \notin Artifacts!Busy
    <3>1. CASE p \in Artifacts!Busy
        BY <2>1, <3>1 DEF Alone
    <3>2. CASE Artifacts!Begins(p)
        BY <3>2 DEF Artifacts!Begins
    <3> QED
        BY <1>2, <3>1, <3>2 DEF ArtifactStepOf
  <2> QED
      BY <1>2, <2>1, <2>3, <2>4 DEF ArtifactStepOf, Artifacts!Busy, OneRowEach
<1>3. ASSUME NEW d \in Detections, DetectionStep(d), ArtifactStepOf(d)
      PROVE  (/\ \A r, s \in artifactRows : r.path = s.path => r = s
              /\ \A e \in Detections : apc[e] = "run" => artifactRows = {}
              /\ \A e \in Detections : apc[e] = "insert" =>
                     \A r \in artifactRows : r.path \notin todo[e])'
  <2>1. d \in Artifacts!Procs
      OBVIOUS
  <2>2. /\ \A e \in Detections \ {d} : apc'[e] \in {"start", "done"}
        /\ \A r, s \in artifactRows : r.path = s.path => r = s
        /\ apc[d] = "run" => artifactRows = {}
        /\ apc[d] = "insert" => \A r \in artifactRows : r.path \notin todo[d]
      BY <1>2, <1>3, <2>1
  <2>3. CASE Artifacts!StartDetection(d)
    <3>1. \A e \in Detections : apc[e] = "start"
        BY <2>1, <2>3 DEF Artifacts!StartDetection, OneDetection
    <3>2. artifactRows = {} /\ artifactRows' = artifactRows
        BY <2>3, <3>1 DEF Begun, Artifacts!StartDetection
    <3> QED
        BY <3>2
  <2>4. CASE Artifacts!WriteFile(d)
      BY <2>2, <2>4 DEF Artifacts!WriteFile
  <2>5. CASE Artifacts!CollectDetected(d)
      BY <2>1, <2>2, <2>5 DEF Artifacts!CollectDetected
  <2>6. CASE Artifacts!InsertDetected(d)
    <3> DEFINE p == Artifacts!First(todo[d])
    <3>1. /\ apc[d] = "insert" /\ apc' = apc /\ todo'[d] = todo[d] \ {p} /\ p \in todo[d]
          /\ artifactRows' = artifactRows \/ Artifacts!Insert(d, p)
        BY <2>1, <2>6, FirstIsOne DEF Artifacts!InsertDetected
    <3> HIDE DEF p
    <3>2. artifactRows' = artifactRows \/ \E r : r.path = p /\ artifactRows' = artifactRows \cup {r}
        BY <3>1 DEF Artifacts!Insert
    <3> QED
        BY <2>2, <3>1, <3>2
  <2>7. CASE Artifacts!FinishDetection(d)
      BY <2>1, <2>2, <2>7 DEF Artifacts!FinishDetection
  <2> QED
      BY <1>3, <2>3, <2>4, <2>5, <2>6, <2>7 DEF DetectionStep
<1>4. ASSUME NEW g \in Gets, RequestStep(g), ArtifactStepOf(g)
      PROVE  (/\ \A r, s \in artifactRows : r.path = s.path => r = s
              /\ \A e \in Detections : apc[e] = "run" => artifactRows = {}
              /\ \A e \in Detections : apc[e] = "insert" =>
                     \A r \in artifactRows : r.path \notin todo[e])'
  <2>1. g \in Artifacts!Procs /\ \A e \in Detections : e \in Artifacts!Procs \ {g}
      OBVIOUS
  <2>2. /\ \A e \in Detections : apc'[e] \in {"start", "done"}
        /\ \A r, s \in artifactRows : r.path = s.path => r = s
        /\ SyncingBy(g)
      BY <1>2, <1>4, <2>1 DEF Syncing
  <2>3. CASE Artifacts!SyncEntry(g)
    <3> DEFINE p == Artifacts!First(todo[g])
    <3>1. apc[g] = "sync" /\ p \in todo[g]
        BY <2>1, <2>3, FirstIsOne DEF Artifacts!SyncEntry
    <3>2. RowsAt(artifactRows, p) = RowsAt(existing[g], p)
        BY <2>2, <3>1 DEF SyncingBy
    <3> HIDE DEF p
    <3>3. CASE Artifacts!Missing(g, p) /\ Artifacts!Insert(g, p)
      <4>1. \A r \in artifactRows : r.path # p
          BY <3>2, <3>3 DEF Artifacts!Missing, Artifacts!Has, RowsAt
      <4>2. PICK r : r.path = p /\ artifactRows' = artifactRows \cup {r}
          BY <3>3 DEF Artifacts!Insert
      <4> QED
          BY <2>2, <4>1, <4>2
    <3>4. ASSUME NEW r, Artifacts!Update(g, r)
          PROVE  \A x, y \in artifactRows' : x.path = y.path => x = y
      <4>1. ASSUME NEW s \in artifactRows
            PROVE  [s EXCEPT !.type = Artifacts!TypeOf(s.path, entries[g])].path = s.path
          BY DEF Artifacts!Row
      <4>2. ASSUME NEW x \in artifactRows'
            PROVE  \E a \in artifactRows : /\ x.path = a.path
                                   /\ x = IF Artifacts!SameRow(a, r)
                                          THEN [a EXCEPT !.type = Artifacts!TypeOf(a.path, entries[g])]
                                          ELSE a
          BY <3>4, <4>1 DEF Artifacts!Update
      <4> QED
          BY <2>2, <4>2
    <3> QED
        BY <2>2, <2>3, <3>3, <3>4 DEF Artifacts!SyncEntry, p
  <2>4. CASE Artifacts!DeleteRow(g)
      BY <2>2, <2>4 DEF Artifacts!DeleteRow
  <2>5. CASE artifactRows' = artifactRows
      BY <2>2, <2>5
  <2> QED
      BY <1>4, <2>3, <2>4, <2>5
      DEF RequestStep, Artifacts!StartGet, Artifacts!CollectOnDisk, Artifacts!ReadRows,
          Artifacts!SyncEntriesDone, Artifacts!Respond, Artifacts!SyncError
<1> QED
    BY <1>3, <1>4, SomebodysStep

LEMMA ArtifactsInvStep == ArtifactsInv /\ [Artifacts!Next]_(Artifacts!vars) => ArtifactsInv'
<1> SUFFICES ASSUME ArtifactsInv, [Artifacts!Next]_(Artifacts!vars) PROVE ArtifactsInv'
    OBVIOUS
<1>1. /\ Artifacts!ArtifactsAssumption /\ Artifacts!TypeOK /\ Alone /\ FinitelyMany
      /\ Syncing /\ Begun /\ OneRowEach
    BY DEF ArtifactsInv
<1>2. Artifacts!TypeOK' /\ Alone' /\ FinitelyMany'
    BY <1>1, ArtifactsTypeStep, AloneStep, FiniteStep
<1>3. Syncing' /\ Begun' /\ OneRowEach'
    BY <1>1, SyncingStep, BegunStep, OneRowStep
<1> QED
    BY <1>1, <1>2, <1>3 DEF ArtifactsInv, Artifacts!ArtifactsAssumption

\* As many rows as entries, each of which has one: nothing else has a row.
LEMMA InSyncMeans ==
    ASSUME NEW g, IsFiniteSet(entries[g]), IsFiniteSet(artifactRows), Artifacts!InSync(g),
           NEW r \in artifactRows
    PROVE  r.path \in entries[g]
<1> DEFINE f == [p \in entries[g] |-> CHOOSE s \in artifactRows : s.path = p]
<1>1. \A p \in entries[g] : f[p] \in artifactRows /\ f[p].path = p
    BY DEF Artifacts!InSync, Artifacts!Has
<1> HIDE DEF f
<1>2. f \in Injection(entries[g], artifactRows)
  <2>1. f \in [entries[g] -> artifactRows]
      BY <1>1 DEF f
  <2> QED
      BY <1>1, <2>1 DEF Injection, IsInjective
<1>3. f \in Surjection(entries[g], artifactRows)
  <2>1. Cardinality(entries[g]) = Cardinality(artifactRows)
      BY DEF Artifacts!InSync, Artifacts!Cardinality, Cardinality
  <2> QED
      BY <1>2, <2>1, FS_Injection
<1>4. PICK p \in entries[g] : f[p] = r
    BY <1>3 DEF Surjection
<1> QED
    BY <1>1, <1>4

-----------------------------------------------------------------------------
(* Lists without repetition.                                               *)

Distinct(s) == \A i, j \in 1 .. Len(s) : s[i] = s[j] => i = j

LEMMA Appended ==
    ASSUME NEW S, NEW s \in Seq(S), NEW x \in S
    PROVE  /\ \A y : Events!Contains(Append(s, x), y) <=> Events!Contains(s, y) \/ y = x
           /\ Distinct(s) /\ ~Events!Contains(s, x) => Distinct(Append(s, x))
<1>1. /\ Len(Append(s, x)) = Len(s) + 1 /\ Len(s) \in Nat
      /\ \A i \in 1 .. Len(s) : Append(s, x)[i] = s[i]
      /\ Append(s, x)[Len(s) + 1] = x
    BY AppendProperties, LenProperties
<1>2. 1 .. Len(Append(s, x)) = (1 .. Len(s)) \cup {Len(s) + 1}
    BY <1>1
<1>3. \A y : Events!Contains(Append(s, x), y) <=> Events!Contains(s, y) \/ y = x
    BY <1>1, <1>2 DEF Events!Contains
<1>4. ASSUME Distinct(s), ~Events!Contains(s, x) PROVE Distinct(Append(s, x))
    BY <1>1, <1>2, <1>4 DEF Distinct, Events!Contains
<1> QED
    BY <1>3, <1>4

LEMMA TailOf ==
    ASSUME NEW S, NEW s \in Seq(S), s # <<>>
    PROVE  /\ Head(s) \in S /\ Tail(s) \in Seq(S) /\ Events!Contains(s, Head(s))
           /\ \A y : Events!Contains(s, y) <=> Events!Contains(Tail(s), y) \/ y = Head(s)
           /\ Distinct(s) => Distinct(Tail(s)) /\ ~Events!Contains(Tail(s), Head(s))
<1>1. /\ Head(s) \in S /\ Tail(s) \in Seq(S) /\ Len(Tail(s)) = Len(s) - 1
      /\ \A i \in 1 .. Len(Tail(s)) : Tail(s)[i] = s[i + 1]
      /\ Len(s) \in Nat \ {0} /\ Head(s) = s[1]
    BY HeadTailProperties, EmptySeq
<1>2. \A y : Events!Contains(Tail(s), y) => Events!Contains(s, y)
    BY <1>1 DEF Events!Contains
<1>3. Events!Contains(s, Head(s))
    BY <1>1 DEF Events!Contains
<1>4. ASSUME NEW y, Events!Contains(s, y) PROVE Events!Contains(Tail(s), y) \/ y = Head(s)
  <2>1. PICK i \in 1 .. Len(s) : s[i] = y
      BY <1>4 DEF Events!Contains
  <2>2. CASE i = 1
      BY <1>1, <2>1, <2>2
  <2>3. CASE i # 1
    <3>1. i - 1 \in 1 .. Len(Tail(s)) /\ Tail(s)[i - 1] = y
        BY <1>1, <2>1, <2>3
    <3> QED
        BY <3>1 DEF Events!Contains
  <2> QED
      BY <2>2, <2>3
<1>5. ASSUME Distinct(s) PROVE Distinct(Tail(s)) /\ ~Events!Contains(Tail(s), Head(s))
  <2>1. ASSUME NEW i \in 1 .. Len(Tail(s)) PROVE i + 1 \in 1 .. Len(s) /\ Tail(s)[i] = s[i + 1]
      BY <1>1
  <2>2. Distinct(Tail(s))
      BY <1>1, <1>5, <2>1 DEF Distinct
  <2>3. ~Events!Contains(Tail(s), Head(s))
      BY <1>1, <1>5, <2>1 DEF Distinct, Events!Contains
  <2> QED
      BY <2>2, <2>3
<1> QED
    BY <1>1, <1>2, <1>3, <1>4, <1>5

LEMMA Removed ==
    ASSUME NEW S, NEW s \in Seq(S), Distinct(s), NEW x
    PROVE  /\ Events!RemoveFirst(s, x) \in Seq(S) /\ Distinct(Events!RemoveFirst(s, x))
           /\ \A y : Events!Contains(Events!RemoveFirst(s, x), y) <=> Events!Contains(s, y) /\ y # x
<1>1. CASE ~Events!Contains(s, x)
    BY <1>1 DEF Events!RemoveFirst, Events!Contains
<1>2. CASE Events!Contains(s, x)
  <2>1. PICK n \in 1 .. Len(s) : s[n] = x /\ Events!RemoveFirst(s, x) = Events!RemoveAt(s, n)
    <3> DEFINE I == {i \in 1 .. Len(s) : s[i] = x}
    <3>1. I # {} /\ I \subseteq Nat
        BY <1>2, LenProperties DEF Events!Contains
    <3>2. \E m \in I : \A q \in I : m <= q
        BY <3>1, Least
    <3>3. Events!Min(I) \in I
        BY <3>2 DEF Events!Min
    <3>4. Events!RemoveFirst(s, x) = Events!RemoveAt(s, Events!Min(I))
        BY <1>2, <3>1 DEF Events!RemoveFirst, Events!SelectInSeq, Events!Contains
    <3> QED
        BY <3>3, <3>4
  <2> DEFINE a == SubSeq(s, 1, n - 1)
             b == SubSeq(s, n + 1, Len(s))
             r == Events!RemoveFirst(s, x)
  <2>0. Len(s) \in Nat /\ \A i \in 1 .. Len(s) : s[i] \in S
      BY LenProperties, ElementOfSeq
  <2>2. /\ a \in Seq(S) /\ Len(a) = n - 1
        /\ \A i \in 1 .. n - 1 : a[i] = s[i]
    <3>1. \A i \in 1 .. n - 1 : s[i] \in S /\ s[1 + i - 1] = s[i]
        BY <2>0, <2>1
    <3>2. /\ a \in Seq(S) /\ Len(a) = (IF 1 <= n - 1 THEN n - 1 - 1 + 1 ELSE 0)
          /\ \A i \in 1 .. (n - 1) - 1 + 1 : a[i] = s[1 + i - 1]
        BY <2>0, <2>1, <3>1, SubSeqProperties
    <3> QED
        BY <2>0, <2>1, <3>2
  <2>3. /\ b \in Seq(S) /\ Len(b) = Len(s) - n
        /\ \A i \in 1 .. Len(s) - n : b[i] = s[n + i]
    <3>1. \A i \in n + 1 .. Len(s) : s[i] \in S
        BY <2>0, <2>1
    <3>2. /\ b \in Seq(S) /\ Len(b) = (IF n + 1 <= Len(s) THEN Len(s) - (n + 1) + 1 ELSE 0)
          /\ \A i \in 1 .. Len(s) - (n + 1) + 1 : b[i] = s[n + 1 + i - 1]
        BY <2>0, <2>1, <3>1, SubSeqProperties
    <3> QED
        BY <2>0, <2>1, <3>2
  <2>4. r = a \o b
      BY <2>1 DEF Events!RemoveAt
  <2> HIDE DEF a, b, r
  <2>5. /\ r \in Seq(S) /\ Len(r) = Len(s) - 1
        /\ \A i \in 1 .. Len(s) - 1 : r[i] = IF i < n THEN s[i] ELSE s[i + 1]
    <3>1. /\ r \in Seq(S) /\ Len(r) = Len(a) + Len(b)
          /\ \A i \in 1 .. Len(a) + Len(b) : r[i] = IF i <= Len(a) THEN a[i] ELSE b[i - Len(a)]
        BY <2>2, <2>3, <2>4, ConcatProperties
    <3>0. Len(a) = n - 1 /\ Len(b) = Len(s) - n /\ Len(s) \in Nat /\ n \in 1 .. Len(s)
        BY <2>0, <2>1, <2>2, <2>3
    <3>2. ASSUME NEW i \in 1 .. Len(s) - 1 PROVE r[i] = IF i < n THEN s[i] ELSE s[i + 1]
      <4>1. CASE i < n
        <5>1. i \in 1 .. n - 1 /\ i <= Len(a) /\ i \in 1 .. Len(a) + Len(b)
            BY <3>0, <4>1
        <5>2. r[i] = a[i]
            BY <3>1, <5>1
        <5>3. a[i] = s[i]
            BY <2>2, <5>1
        <5> QED
            BY <4>1, <5>2, <5>3
      <4>2. CASE i >= n
        <5>1. ~(i <= Len(a)) /\ i \in 1 .. Len(a) + Len(b) /\ i - Len(a) = i - (n - 1)
            BY <3>0, <4>2
        <5>2. r[i] = b[i - (n - 1)]
            BY <3>1, <5>1
        <5>3. i - (n - 1) \in 1 .. Len(s) - n /\ n + (i - (n - 1)) = i + 1
            BY <3>0, <4>2
        <5>4. b[i - (n - 1)] = s[n + (i - (n - 1))]
            BY <2>3, <5>3
        <5>5. ~(i < n)
            BY <3>0, <4>2
        <5> QED
            BY <5>2, <5>3, <5>4, <5>5
      <4> QED
          BY <3>0, <4>1, <4>2
    <3> QED
        BY <3>0, <3>1, <3>2
  <2>6. Distinct(r)
      BY <2>0, <2>1, <2>5 DEF Distinct
  <2>7. ASSUME NEW y, Events!Contains(r, y) PROVE Events!Contains(s, y) /\ y # x
      BY <2>0, <2>1, <2>5, <2>7 DEF Distinct, Events!Contains
  <2>8. ASSUME NEW y, Events!Contains(s, y), y # x PROVE Events!Contains(r, y)
    <3>1. PICK i \in 1 .. Len(s) : s[i] = y
        BY <2>8 DEF Events!Contains
    <3>2. CASE i < n
        BY <2>0, <2>1, <2>5, <3>1, <3>2 DEF Events!Contains
    <3>3. CASE i > n
      <4>1. i - 1 \in 1 .. Len(s) - 1 /\ r[i - 1] = y
          BY <2>0, <2>1, <2>5, <3>1, <3>3
      <4> QED
          BY <2>5, <4>1 DEF Events!Contains
    <3> QED
        BY <2>1, <2>8, <3>1, <3>2, <3>3
  <2> QED
      BY <2>5, <2>6, <2>7, <2>8 DEF r
<1> QED
    BY <1>1, <1>2

-----------------------------------------------------------------------------
(* Streams.                                                                *)

\* An event that is read stays in the stream.
LEMMA ReadStream ==
    ASSUME NEW g \in Seq(Nat), NEW b \in Seq(Nat), b # <<>>
    PROVE  Append(g, Head(b)) \o Tail(b) = g \o b
<1>1. Head(b) \in Nat /\ Tail(b) \in Seq(Nat) /\ <<Head(b)>> \in Seq(Nat)
    BY HeadTailProperties
<1>2. Append(g, Head(b)) = g \o <<Head(b)>>
    BY <1>1, AppendIsConcat
<1>3. <<Head(b)>> \o Tail(b) = b
  <2>1. /\ Len(<<Head(b)>>) = 1 /\ <<Head(b)>>[1] = b[1]
        /\ Len(Tail(b)) = Len(b) - 1 /\ Len(b) \in Nat \ {0}
        /\ \A i \in 1 .. Len(Tail(b)) : Tail(b)[i] = b[i + 1]
      BY HeadTailProperties, EmptySeq
  <2>2. /\ <<Head(b)>> \o Tail(b) \in Seq(Nat) /\ Len(<<Head(b)>> \o Tail(b)) = 1 + Len(Tail(b))
        /\ \A i \in 1 .. 1 + Len(Tail(b)) :
               (<<Head(b)>> \o Tail(b))[i] = IF i <= 1 THEN <<Head(b)>>[i] ELSE Tail(b)[i - 1]
      BY <1>1, <2>1, ConcatProperties
  <2>3. ASSUME NEW i \in 1 .. Len(b) PROVE (<<Head(b)>> \o Tail(b))[i] = b[i]
    <3>1. CASE i = 1
        BY <2>1, <2>2, <3>1
    <3>2. CASE i # 1
        BY <2>1, <2>2, <3>2
    <3> QED
        BY <3>1, <3>2
  <2> QED
      BY <2>1, <2>2, <2>3, SeqEqual
<1>4. (g \o <<Head(b)>>) \o Tail(b) = g \o (<<Head(b)>> \o Tail(b))
    BY <1>1, ConcatAssociative
<1> QED
    BY <1>2, <1>3, <1>4, Zenon

\* Events are numbers.
LEMMA Numbers ==
    ASSUME NEW n \in Nat, NEW s \in Seq(1 .. n)
    PROVE  s \in Seq(Nat)
<1>1. Len(s) \in Nat /\ s \in [1 .. Len(s) -> 1 .. n]
    BY LenProperties
<1>2. s \in [1 .. Len(s) -> Nat]
    BY <1>1
<1> QED
    BY <1>1, <1>2, SeqDef

\* A sent event comes last.
LEMMA SentStream ==
    ASSUME NEW g \in Seq(Nat), NEW b \in Seq(Nat), NEW e \in Nat
    PROVE  g \o Append(b, e) = Append(g \o b, e)
<1>1. <<e>> \in Seq(Nat) /\ g \o b \in Seq(Nat)
    BY ConcatProperties
<1>2. Append(b, e) = b \o <<e>> /\ Append(g \o b, e) = (g \o b) \o <<e>>
    BY <1>1, AppendIsConcat
<1> QED
    BY <1>1, <1>2, ConcatAssociative

LEMMA LaterEvent ==
    ASSUME NEW s \in Seq(Nat), NEW e \in Nat, Events!InOrder(s), \A x \in Events!Range(s) : x < e
    PROVE  Events!InOrder(Append(s, e)) /\ Events!Range(Append(s, e)) = Events!Range(s) \cup {e}
<1>1. /\ Append(s, e) \in Seq(Nat) /\ Len(Append(s, e)) = Len(s) + 1 /\ Len(s) \in Nat
      /\ \A i \in 1 .. Len(s) : Append(s, e)[i] = s[i]
      /\ Append(s, e)[Len(s) + 1] = e
      /\ DOMAIN s = 1 .. Len(s)
    BY AppendProperties, LenProperties
<1>2. DOMAIN Append(s, e) = (1 .. Len(s)) \cup {Len(s) + 1}
    BY <1>1, LenProperties
<1>3. \A i \in 1 .. Len(s) : s[i] \in Events!Range(s)
    BY <1>1 DEF Events!Range
<1>4. Events!InOrder(Append(s, e))
    BY <1>1, <1>2, <1>3 DEF Events!InOrder
<1>5. Events!Range(Append(s, e)) = Events!Range(s) \cup {e}
    BY <1>1, <1>2 DEF Events!Range
<1> QED
    BY <1>4, <1>5

-----------------------------------------------------------------------------
(* The invariant.                                                          *)

\* The list has the clients that are there.
Listed ==
    /\ \A c \in Clients : hpc[c] = "streaming" <=> Events!Contains(subscribers, c)
    /\ Distinct(subscribers) /\ Distinct(sending)

\* What has been sent, given up and is being sent are events since the subscription.
Since ==
    /\ \A c \in Clients :
          /\ hpc[c] = "away" => got[c] = <<>> /\ buffer[c] = <<>>
          /\ hpc[c] # "away" => since[c] \in 1 .. event + 1
          /\ Events!Contains(sending, c) => hpc[c] # "away" /\ since[c] <= event
    /\ \A l \in late : l[2] <= event /\ (l[2] = event => ~Events!Contains(sending, l[1]))
    /\ waiting => sending # <<>>

EventsInv ==
    /\ Events!EventsAssumption
    /\ Events!TypeOK
    /\ Listed
    /\ Since
    /\ Events!StreamsComplete

LEMMA EventsInit == Events!EventsAssumption /\ Events!Init => EventsInv
<1> SUFFICES ASSUME Events!EventsAssumption, Events!Init PROVE EventsInv
    OBVIOUS
<1>1. /\ <<>> \in Seq(Clients) /\ <<>> \in Seq(1 .. MaxEvents) /\ Len(<<>>) = 0
      /\ \A x : ~Events!Contains(<<>>, x)
    BY DEF Events!Contains
<1>2. Events!TypeOK
  <2>1. /\ buffer \in [Clients -> Seq(1 .. MaxEvents)] /\ got \in [Clients -> Seq(1 .. MaxEvents)]
        /\ \A c \in Clients : Len(buffer[c]) = 0
      BY <1>1 DEF Events!Init
  <2>2. /\ hpc \in [Clients -> {"away"}] /\ since \in [Clients -> {0}]
        /\ MaxEvents \in Nat /\ BufferSize \in Nat
      BY DEF Events!Init, Events!EventsAssumption
  <2>3. event = 0 /\ 0 \in 0 .. MaxEvents /\ late = {} /\ ~waiting /\ ~panicked
      BY <2>2 DEF Events!Init
  <2>4. subscribers \in Seq(Clients) /\ sending \in Seq(Clients)
      BY <1>1 DEF Events!Init
  <2>5. waiting \in BOOLEAN /\ panicked \in BOOLEAN
      BY DEF Events!Init
  <2>6. \A c \in Clients : Len(buffer[c]) <= BufferSize
      BY <2>1, <2>2 DEF Events!EventsAssumption
  <2>7. /\ hpc \in [Clients -> {"away", "streaming", "closed"}]
        /\ since \in [Clients -> 0 .. MaxEvents + 1]
      BY <2>2
  <2> QED
      BY <2>1, <2>3, <2>4, <2>5, <2>6, <2>7 DEF Events!TypeOK
<1>3. Listed
    BY <1>1 DEF Events!Init, Listed, Distinct
<1>4. Since
    BY <1>1 DEF Events!Init, Since
<1>5. Events!StreamsComplete
    BY DEF Events!Init, Events!StreamsComplete
<1> QED
    BY <1>2, <1>3, <1>4, <1>5 DEF EventsInv

\* An event that is being sent was published after the subscription.
LEMMA Published ==
    ASSUME Events!EventsAssumption, Events!TypeOK, Since, sending # <<>>
    PROVE  /\ Head(sending) \in Clients /\ Events!Contains(sending, Head(sending))
           /\ event \in 1 .. MaxEvents /\ since[Head(sending)] \in 1 .. event
<1>1. Head(sending) \in Clients /\ Events!Contains(sending, Head(sending))
    BY TailOf DEF Events!TypeOK
<1>2. /\ since[Head(sending)] \in 1 .. event + 1 /\ since[Head(sending)] <= event
      /\ event \in 0 .. MaxEvents /\ MaxEvents \in Nat
    BY <1>1 DEF Since, Events!TypeOK, Events!EventsAssumption
<1> QED
    BY <1>1, <1>2

LEMMA EventsTypeStep ==
    ASSUME Events!EventsAssumption, Events!TypeOK, Listed, Since, [Events!Next]_(Events!vars)
    PROVE  Events!TypeOK'
<1> USE DEF Events!TypeOK, Events!EventsAssumption, Events!handlers
<1>0. ASSUME NEW s \in Seq(Clients), s # <<>> PROVE Head(s) \in Clients /\ Tail(s) \in Seq(Clients)
    BY <1>0, TailOf
<1>1. ASSUME NEW c \in Clients, Events!Subscribe(c) PROVE Events!TypeOK'
    BY <1>1, AppendProperties DEF Events!Subscribe
<1>2. ASSUME NEW c \in Clients, Events!Read(c) PROVE Events!TypeOK'
  <2>1. /\ Head(buffer[c]) \in 1 .. MaxEvents /\ Tail(buffer[c]) \in Seq(1 .. MaxEvents)
        /\ Len(Tail(buffer[c])) = Len(buffer[c]) - 1
      BY <1>2, HeadTailProperties DEF Events!Read
  <2>2. Append(got[c], Head(buffer[c])) \in Seq(1 .. MaxEvents)
      BY <2>1, AppendProperties
  <2>3. Len(Tail(buffer[c])) <= BufferSize
    <3>1. Len(buffer[c]) \in Nat /\ Len(buffer[c]) <= BufferSize
        BY LenProperties
    <3> QED
        BY <2>1, <3>1
  <2>4. /\ buffer' = [buffer EXCEPT ![c] = Tail(buffer[c])]
        /\ got' = [got EXCEPT ![c] = Append(got[c], Head(buffer[c]))]
        /\ UNCHANGED <<subscribers, hpc, since, event, sending, waiting, late, panicked>>
      BY <1>2 DEF Events!Read
  <2>5. buffer' \in [Clients -> Seq(1 .. MaxEvents)] /\ got' \in [Clients -> Seq(1 .. MaxEvents)]
      BY <2>1, <2>2, <2>4
  <2>6. ASSUME NEW d \in Clients PROVE Len(buffer'[d]) <= BufferSize
    <3>1. CASE d = c
      <4>1. buffer'[d] = Tail(buffer[c])
          BY <2>4, <3>1
      <4> QED
          BY <2>3, <4>1, Zenon
    <3>2. CASE d # c
        BY <2>4, <3>2
    <3> QED
        BY <3>1, <3>2
  <2> QED
      BY <2>4, <2>5, <2>6
<1>3. ASSUME NEW c \in Clients, Events!Cancel(c) PROVE Events!TypeOK'
    BY <1>3, Removed DEF Events!Cancel, Events!Without, Listed
<1>4. CASE Events!Publish
    BY <1>4 DEF Events!Publish
<1>5. CASE Events!Send
  <2>1. /\ Head(sending) \in Clients /\ Tail(sending) \in Seq(Clients)
        /\ sending' = Tail(sending) /\ waiting' = FALSE
        /\ Len(buffer[Head(sending)]) < BufferSize
        /\ buffer' = [buffer EXCEPT ![Head(sending)] = Append(buffer[Head(sending)], event)]
        /\ UNCHANGED <<subscribers, hpc, since, got, event, late, panicked>>
      BY <1>0, <1>5 DEF Events!Send, Events!Sent, Events!HasRoom
  <2>2. PICK c \in Clients : c = Head(sending)
      BY <2>1
  <2>3. event \in 1 .. MaxEvents
      BY <1>5, Published DEF Events!Send
  <2>4. /\ Append(buffer[c], event) \in Seq(1 .. MaxEvents)
        /\ Len(Append(buffer[c], event)) = Len(buffer[c]) + 1
        /\ Len(buffer[c]) \in Nat
      BY <2>3, AppendProperties, LenProperties
  <2>5. Len(Append(buffer[c], event)) <= BufferSize
      BY <2>1, <2>2, <2>4
  <2>6. buffer' \in [Clients -> Seq(1 .. MaxEvents)]
      BY <2>1, <2>2, <2>4
  <2>7. ASSUME NEW d \in Clients PROVE Len(buffer'[d]) <= BufferSize
    <3>1. CASE d = c
      <4>1. buffer'[d] = Append(buffer[c], event)
          BY <2>1, <2>2, <3>1
      <4> QED
          BY <2>5, <4>1, Zenon
    <3>2. CASE d # c
        BY <2>1, <2>2, <3>2
    <3> QED
        BY <3>1, <3>2
  <2> QED
      BY <2>1, <2>6, <2>7
<1>6. CASE Events!Wait \/ Events!Panic
    BY <1>6 DEF Events!Wait, Events!Panic
<1>7. CASE Events!GiveUp
  <2>1. /\ sending # <<>> /\ sending' = Tail(sending) /\ waiting' = FALSE
        /\ late' = late \cup {<<Head(sending), event>>}
        /\ UNCHANGED <<subscribers, hpc, since, buffer, got, event, panicked>>
      BY <1>7 DEF Events!GiveUp, Events!Sent, Since
  <2>2. Head(sending) \in Clients /\ Tail(sending) \in Seq(Clients) /\ event \in 1 .. MaxEvents
      BY <1>0, <2>1, Published
  <2>3. late' \subseteq Clients \X (1 .. MaxEvents)
    <3>1. <<Head(sending), event>> \in Clients \X (1 .. MaxEvents)
        BY <2>2
    <3> QED
        BY <2>1, <3>1
  <2>4. sending' \in Seq(Clients) /\ waiting' \in BOOLEAN
      BY <2>1, <2>2
  <2> QED
      BY <2>1, <2>3, <2>4
<1>8. CASE UNCHANGED Events!vars
    BY <1>8 DEF Events!vars
<1> QED
    BY <1>1, <1>2, <1>3, <1>4, <1>5, <1>6, <1>7, <1>8 DEF Events!Next, Events!Publishing

\* A step of the publisher or of a handler, by its effect on the two lists.
LEMMA ListedStep ==
    ASSUME Events!TypeOK, Listed, Since, [Events!Next]_(Events!vars)
    PROVE  Listed'
<1> USE DEF Events!handlers
<1>0. /\ hpc \in [Clients -> {"away", "streaming", "closed"}]
      /\ subscribers \in Seq(Clients) /\ sending \in Seq(Clients)
    BY DEF Events!TypeOK
<1>1. ASSUME NEW c \in Clients, Events!Subscribe(c) PROVE Listed'
  <2>1. /\ subscribers' = Append(subscribers, c) /\ hpc' = [hpc EXCEPT ![c] = "streaming"]
        /\ hpc[c] = "away" /\ sending' = sending
      BY <1>1 DEF Events!Subscribe
  <2>2. /\ \A y : Events!Contains(subscribers', y) <=> Events!Contains(subscribers, y) \/ y = c
        /\ Distinct(subscribers')
      BY <1>0, <2>1, Appended DEF Listed
  <2> QED
      BY <1>0, <2>1, <2>2 DEF Listed
<1>2. ASSUME NEW c \in Clients, Events!Cancel(c) PROVE Listed'
  <2>1. /\ subscribers' = Events!RemoveFirst(subscribers, c) /\ hpc' = [hpc EXCEPT ![c] = "closed"]
        /\ hpc[c] = "streaming" /\ sending' = sending
      BY <1>2 DEF Events!Cancel, Events!Without
  <2>2. /\ \A y : Events!Contains(subscribers', y) <=> Events!Contains(subscribers, y) /\ y # c
        /\ Distinct(subscribers')
      BY <1>0, <2>1, Removed DEF Listed
  <2> QED
      BY <1>0, <2>1, <2>2 DEF Listed
<1>3. CASE Events!Publish
    BY <1>3 DEF Events!Publish, Listed
<1>4. ASSUME sending # <<>>, sending' = Tail(sending), UNCHANGED <<hpc, subscribers>>
      PROVE  Listed'
  <2>1. Distinct(sending')
      BY <1>0, <1>4, TailOf DEF Listed
  <2> QED
      BY <1>4, <2>1 DEF Listed
<1>5. CASE Events!Send
    BY <1>4, <1>5 DEF Events!Send, Events!Sent
<1>6. CASE Events!GiveUp
    BY <1>4, <1>6 DEF Events!GiveUp, Events!Sent, Since
<1>7. ASSUME UNCHANGED <<hpc, subscribers, sending>> PROVE Listed'
    BY <1>7 DEF Listed
<1>8. ASSUME NEW c \in Clients, Events!Read(c) PROVE Listed'
    BY <1>7, <1>8 DEF Events!Read
<1>9. CASE Events!Wait \/ Events!Panic \/ UNCHANGED Events!vars
    BY <1>7, <1>9 DEF Events!Wait, Events!Panic, Events!vars
<1> QED
    BY <1>1, <1>2, <1>3, <1>5, <1>6, <1>8, <1>9 DEF Events!Next, Events!Publishing

LEMMA SinceStep ==
    ASSUME Events!EventsAssumption, Events!TypeOK, Listed, Since, [Events!Next]_(Events!vars)
    PROVE  Since'
<1> USE DEF Events!handlers
<1>0. /\ hpc \in [Clients -> {"away", "streaming", "closed"}]
      /\ event \in Nat /\ since \in [Clients -> Nat]
      /\ got \in [Clients -> Seq(1 .. MaxEvents)] /\ buffer \in [Clients -> Seq(1 .. MaxEvents)]
      /\ late \subseteq Clients \X (1 .. MaxEvents)
      /\ sending \in Seq(Clients)
    BY DEF Events!TypeOK, Events!EventsAssumption
<1>1. ASSUME NEW c \in Clients, Events!Subscribe(c) PROVE Since'
  <2>1. /\ hpc' = [hpc EXCEPT ![c] = "streaming"] /\ since' = [since EXCEPT ![c] = event + 1]
        /\ hpc[c] = "away" /\ UNCHANGED <<buffer, got, event, sending, waiting, late>>
      BY <1>1 DEF Events!Subscribe
  <2> QED
      BY <1>0, <2>1 DEF Since
<1>2. ASSUME NEW c \in Clients, Events!Read(c) PROVE Since'
  <2>1. /\ hpc[c] = "streaming" /\ got' = [got EXCEPT ![c] = Append(got[c], Head(buffer[c]))]
        /\ buffer' = [buffer EXCEPT ![c] = Tail(buffer[c])]
        /\ UNCHANGED <<hpc, since, event, sending, waiting, late>>
      BY <1>2 DEF Events!Read
  <2> QED
      BY <1>0, <2>1 DEF Since
<1>3. ASSUME NEW c \in Clients, Events!Cancel(c) PROVE Since'
  <2>1. /\ hpc[c] = "streaming" /\ hpc' = [hpc EXCEPT ![c] = "closed"]
        /\ UNCHANGED <<buffer, got, since, event, sending, waiting, late>>
      BY <1>3 DEF Events!Cancel
  <2> QED
      BY <1>0, <2>1 DEF Since
<1>4. CASE Events!Publish
  <2>1. /\ sending = <<>> /\ sending' = subscribers /\ event' = event + 1
        /\ UNCHANGED <<hpc, since, buffer, got, waiting, late>>
      BY <1>4 DEF Events!Publish
  <2>2. \A c \in Clients : Events!Contains(sending', c) => hpc[c] = "streaming"
      BY <2>1 DEF Listed
  <2>3. ~waiting
      BY <2>1 DEF Since
  <2>4. \A c \in Clients :
            /\ hpc[c] = "away" => got[c] = <<>> /\ buffer[c] = <<>>
            /\ hpc[c] # "away" => since[c] \in 1 .. event + 1
      BY DEF Since
  <2>5. ASSUME NEW c \in Clients
        PROVE  /\ hpc'[c] = "away" => got'[c] = <<>> /\ buffer'[c] = <<>>
               /\ hpc'[c] # "away" => since'[c] \in 1 .. event' + 1
               /\ Events!Contains(sending', c) => hpc'[c] # "away" /\ since'[c] <= event'
      BY <1>0, <2>1, <2>2, <2>4
  <2>6. ASSUME NEW l \in late' PROVE l[2] <= event' /\ l[2] # event'
    <3>1. l[2] \in 1 .. MaxEvents /\ l[2] <= event
        BY <1>0, <2>1 DEF Since
    <3> QED
        BY <1>0, <2>1, <3>1 DEF Events!EventsAssumption
  <2> QED
      BY <2>1, <2>3, <2>5, <2>6 DEF Since
<1>5. CASE Events!Send
  <2>1. /\ sending # <<>> /\ sending' = Tail(sending) /\ waiting' = FALSE
        /\ hpc[Head(sending)] = "streaming"
        /\ buffer' = [buffer EXCEPT ![Head(sending)] = Append(buffer[Head(sending)], event)]
        /\ UNCHANGED <<hpc, since, got, event, late>>
      BY <1>5 DEF Events!Send, Events!Sent
  <2>2. /\ Head(sending) \in Clients
        /\ \A c : Events!Contains(sending', c) => Events!Contains(sending, c)
      BY <1>0, <2>1, TailOf
  <2> QED
      BY <1>0, <2>1, <2>2 DEF Since
<1>6. CASE Events!GiveUp
  <2>1. /\ sending # <<>> /\ sending' = Tail(sending) /\ waiting' = FALSE
        /\ late' = late \cup {<<Head(sending), event>>}
        /\ UNCHANGED <<hpc, since, got, buffer, event>>
      BY <1>6 DEF Events!GiveUp, Events!Sent, Since
  <2>2. /\ Head(sending) \in Clients /\ ~Events!Contains(sending', Head(sending))
        /\ \A c : Events!Contains(sending', c) => Events!Contains(sending, c)
      BY <1>0, <2>1, TailOf DEF Listed
  <2>3. ASSUME NEW l \in late'
        PROVE  l[2] <= event' /\ (l[2] = event' => ~Events!Contains(sending', l[1]))
    <3>1. CASE l \in late
        BY <2>1, <2>2, <3>1 DEF Since
    <3>2. CASE l = <<Head(sending), event>>
        BY <1>0, <2>1, <2>2, <3>2
    <3> QED
        BY <2>1, <3>1, <3>2
  <2> QED
      BY <1>0, <2>1, <2>2, <2>3 DEF Since
<1>7. CASE Events!Wait \/ Events!Panic
    BY <1>7 DEF Events!Wait, Events!Panic, Since
<1>8. CASE UNCHANGED Events!vars
    BY <1>8 DEF Events!vars, Since
<1> QED
    BY <1>1, <1>2, <1>3, <1>4, <1>5, <1>6, <1>7, <1>8 DEF Events!Next, Events!Publishing

LEMMA StreamsStep ==
    ASSUME EventsInv, Since', [Events!Next]_(Events!vars)
    PROVE  Events!StreamsComplete'
<1> USE DEF Events!handlers
<1>0. /\ hpc \in [Clients -> {"away", "streaming", "closed"}]
      /\ event \in Nat /\ since \in [Clients -> Nat]
      /\ got \in [Clients -> Seq(1 .. MaxEvents)] /\ buffer \in [Clients -> Seq(1 .. MaxEvents)]
      /\ late \subseteq Clients \X (1 .. MaxEvents)
      /\ sending \in Seq(Clients) /\ 1 .. MaxEvents \subseteq Nat
    BY DEF EventsInv, Events!TypeOK, Events!EventsAssumption
\* What the property says of one client.
<1> DEFINE Complete(c) ==
              Events!InOrder(Events!Stream(c)) /\ Events!Range(Events!Stream(c)) = Events!Due(c)
<1>a. \A c \in Clients : hpc[c] = "streaming" => Complete(c)
    BY DEF EventsInv, Events!StreamsComplete
<1>b. SUFFICES ASSUME NEW c \in Clients, hpc'[c] = "streaming" PROVE Complete(c)'
    BY DEF Events!StreamsComplete
<1>d. got[c] \in Seq(Nat) /\ buffer[c] \in Seq(Nat)
  <2>1. MaxEvents \in Nat /\ got[c] \in Seq(1 .. MaxEvents) /\ buffer[c] \in Seq(1 .. MaxEvents)
      BY <1>0 DEF EventsInv, Events!EventsAssumption
  <2> QED
      BY <2>1, Numbers
<1>c. ASSUME UNCHANGED <<got[c], buffer[c], since[c], event, late>>, hpc[c] = "streaming",
             Events!Contains(sending', c) <=> Events!Contains(sending, c)
      PROVE  Complete(c)'
  <2>1. Events!Stream(c)' = Events!Stream(c)
      BY <1>c DEF Events!Stream
  <2>2. Events!Due(c)' = Events!Due(c)
      BY <1>c DEF Events!Due
  <2> QED
      BY <1>a, <1>c, <2>1, <2>2 DEF Events!InOrder
<1>1. ASSUME NEW d \in Clients, Events!Subscribe(d) PROVE Complete(c)'
  <2>1. /\ hpc' = [hpc EXCEPT ![d] = "streaming"] /\ since' = [since EXCEPT ![d] = event + 1]
        /\ hpc[d] = "away" /\ UNCHANGED <<buffer, got, event, sending, waiting, late>>
      BY <1>1 DEF Events!Subscribe
  <2>2. CASE c = d
    <3>1. Events!Stream(c)' = <<>> /\ Events!Range(<<>>) = {} /\ Events!InOrder(<<>>)
      <4>1. got'[c] = <<>> /\ buffer'[c] = <<>>
          BY <2>1, <2>2 DEF EventsInv, Since
      <4>2. <<>> \o <<>> = <<>>
          OBVIOUS
      <4> QED
          BY <4>1, <4>2 DEF Events!Stream, Events!Range, Events!InOrder
    <3>2. Events!Due(c)' = {}
        BY <1>0, <2>1, <2>2 DEF Events!Due
    <3> QED
        BY <3>1, <3>2 DEF Events!InOrder
  <2>3. CASE c # d
      BY <1>0, <1>b, <1>c, <2>1, <2>3
  <2> QED
      BY <2>2, <2>3
<1>2. ASSUME NEW d \in Clients, Events!Read(d) PROVE Complete(c)'
  <2>1. /\ hpc[d] = "streaming" /\ buffer[d] # <<>>
        /\ got' = [got EXCEPT ![d] = Append(got[d], Head(buffer[d]))]
        /\ buffer' = [buffer EXCEPT ![d] = Tail(buffer[d])]
        /\ UNCHANGED <<hpc, since, event, sending, waiting, late>>
      BY <1>2 DEF Events!Read
  <2>2. CASE c = d
    <3>1. got'[c] = Append(got[c], Head(buffer[c])) /\ buffer'[c] = Tail(buffer[c])
        BY <1>0, <2>1, <2>2
    <3>2. Append(got[c], Head(buffer[c])) \o Tail(buffer[c]) = got[c] \o buffer[c]
        BY <1>d, <2>1, <2>2, ReadStream
    <3>3. Events!Stream(c)' = Events!Stream(c)
        BY <3>1, <3>2 DEF Events!Stream
    <3>4. Events!Due(c)' = Events!Due(c)
        BY <2>1 DEF Events!Due
    <3> QED
        BY <1>a, <2>1, <2>2, <3>3, <3>4 DEF Events!InOrder
  <2>3. CASE c # d
      BY <1>0, <1>b, <1>c, <2>1, <2>3
  <2> QED
      BY <2>2, <2>3
<1>3. ASSUME NEW d \in Clients, Events!Cancel(d) PROVE Complete(c)'
  <2>1. /\ hpc' = [hpc EXCEPT ![d] = "closed"]
        /\ UNCHANGED <<buffer, got, since, event, sending, waiting, late>>
      BY <1>3 DEF Events!Cancel
  <2>2. hpc[c] = "streaming"
      BY <1>0, <1>b, <2>1
  <2> QED
      BY <1>c, <2>1, <2>2
<1>4. CASE Events!Publish
  <2>1. /\ sending = <<>> /\ sending' = subscribers /\ event' = event + 1
        /\ UNCHANGED <<hpc, since, buffer, got, waiting, late>>
      BY <1>4 DEF Events!Publish
  <2>2. hpc[c] = "streaming" /\ Events!Contains(sending', c) /\ ~Events!Contains(sending, c)
      BY <1>b, <2>1 DEF EventsInv, Listed, Events!Contains
  <2>3. Events!Stream(c)' = Events!Stream(c)
      BY <2>1 DEF Events!Stream
  <2>4. Events!Due(c)' = {e \in since[c] .. event + 1 : <<c, e>> \notin late /\ e # event + 1}
      BY <2>1, <2>2 DEF Events!Due
  <2>5. Events!Due(c) = {e \in since[c] .. event : <<c, e>> \notin late}
      BY <2>2 DEF Events!Due
  <2>6. {e \in since[c] .. event + 1 : e # event + 1} = since[c] .. event
      BY <1>0
  <2>7. Events!Due(c)' = Events!Due(c)
      BY <2>4, <2>5, <2>6
  <2> QED
      BY <1>a, <2>2, <2>3, <2>7 DEF Events!InOrder
<1>5. CASE Events!Send
  <2>1. /\ sending # <<>> /\ sending' = Tail(sending)
        /\ hpc[Head(sending)] = "streaming"
        /\ buffer' = [buffer EXCEPT ![Head(sending)] = Append(buffer[Head(sending)], event)]
        /\ UNCHANGED <<hpc, since, got, event, late>>
      BY <1>5 DEF Events!Send, Events!Sent
  <2>2. /\ Head(sending) \in Clients /\ ~Events!Contains(sending', Head(sending))
        /\ Events!Contains(sending, Head(sending))
        /\ \A y : Events!Contains(sending, y) <=> Events!Contains(sending', y) \/ y = Head(sending)
      BY <1>0, <2>1, TailOf DEF EventsInv, Listed
  <2>3. CASE c = Head(sending)
    <3>1. got[c] \in Seq(Nat) /\ buffer[c] \in Seq(Nat) /\ Events!Stream(c) \in Seq(Nat)
      <4>1. got[c] \o buffer[c] \in Seq(Nat)
          BY <1>d, ConcatProperties
      <4> QED
          BY <1>d, <4>1 DEF Events!Stream
    <3>2. Events!Stream(c)' = Append(Events!Stream(c), event)
      <4>1. got'[c] = got[c] /\ buffer'[c] = Append(buffer[c], event)
          BY <1>0, <2>1, <2>3
      <4> QED
          BY <1>0, <3>1, <4>1, SentStream DEF Events!Stream
    <3>3. Complete(c) /\ Events!Due(c) = {e \in since[c] .. event : <<c, e>> \notin late /\ e # event}
        BY <1>a, <1>b, <2>1, <2>2, <2>3 DEF Events!Due
    <3>4. \A x \in Events!Range(Events!Stream(c)) : x < event
        BY <1>0, <3>3
    <3>5. /\ Events!InOrder(Append(Events!Stream(c), event))
          /\ Events!Range(Append(Events!Stream(c), event)) = Events!Due(c) \cup {event}
        BY <1>0, <3>1, <3>3, <3>4, LaterEvent
    <3>6. Events!Due(c)' = {e \in since[c] .. event : <<c, e>> \notin late}
        BY <2>1, <2>2, <2>3 DEF Events!Due
    <3>7. <<c, event>> \notin late /\ event \in since[c] .. event
      <4>1. since[c] <= event
          BY <2>2, <2>3 DEF EventsInv, Since
      <4>2. ASSUME <<c, event>> \in late PROVE FALSE
          BY <2>2, <2>3, <4>2 DEF EventsInv, Since
      <4> QED
          BY <1>0, <4>1, <4>2
    <3>8. Events!Due(c)' = Events!Due(c) \cup {event}
        BY <3>3, <3>6, <3>7
    <3> QED
        BY <3>2, <3>5, <3>8 DEF Events!InOrder
  <2>4. CASE c # Head(sending)
      BY <1>0, <1>b, <1>c, <2>1, <2>2, <2>4
  <2> QED
      BY <2>3, <2>4
<1>6. CASE Events!GiveUp
  <2>1. /\ sending # <<>> /\ sending' = Tail(sending)
        /\ late' = late \cup {<<Head(sending), event>>}
        /\ UNCHANGED <<hpc, since, got, buffer, event>>
      BY <1>6 DEF Events!GiveUp, Events!Sent, EventsInv, Since
  <2>2. /\ Head(sending) \in Clients /\ ~Events!Contains(sending', Head(sending))
        /\ Events!Contains(sending, Head(sending))
        /\ \A y : Events!Contains(sending, y) <=> Events!Contains(sending', y) \/ y = Head(sending)
      BY <1>0, <2>1, TailOf DEF EventsInv, Listed
  <2>3. Events!Stream(c)' = Events!Stream(c)
      BY <2>1 DEF Events!Stream
  <2>4. Events!Due(c)' = Events!Due(c)
    <3>1. CASE c = Head(sending)
      <4>1. Events!Due(c) = {e \in since[c] .. event : <<c, e>> \notin late /\ e # event}
          BY <2>2, <3>1 DEF Events!Due
      <4>2. Events!Due(c)' = {e \in since[c] .. event : <<c, e>> \notin late'}
          BY <2>1, <2>2, <3>1 DEF Events!Due
      <4>3. \A e : <<c, e>> \notin late' <=> <<c, e>> \notin late /\ e # event
          BY <2>1, <3>1
      <4> QED
          BY <4>1, <4>2, <4>3
    <3>2. CASE c # Head(sending)
      <4>1. \A e : <<c, e>> \in late' <=> <<c, e>> \in late
          BY <2>1, <3>2
      <4> QED
          BY <2>1, <2>2, <3>2, <4>1 DEF Events!Due
    <3> QED
        BY <3>1, <3>2
  <2> QED
      BY <1>a, <1>b, <2>1, <2>3, <2>4 DEF Events!InOrder
<1>7. CASE Events!Wait \/ Events!Panic
  <2>1. UNCHANGED <<hpc, since, got, buffer, event, late, sending>>
      BY <1>7 DEF Events!Wait, Events!Panic
  <2> QED
      BY <1>b, <1>c, <2>1
<1>8. CASE UNCHANGED Events!vars
  <2>1. UNCHANGED <<hpc, since, got, buffer, event, late, sending>>
      BY <1>8 DEF Events!vars
  <2> QED
      BY <1>b, <1>c, <2>1
<1> HIDE DEF Complete
<1> QED
    BY <1>1, <1>2, <1>3, <1>4, <1>5, <1>6, <1>7, <1>8 DEF Events!Next, Events!Publishing,
        EventsInv

LEMMA EventsInvStep == EventsInv /\ [Events!Next]_(Events!vars) => EventsInv'
<1> SUFFICES ASSUME EventsInv, [Events!Next]_(Events!vars) PROVE EventsInv'
    OBVIOUS
<1>1. Events!EventsAssumption' /\ Events!TypeOK' /\ Listed' /\ Since'
    BY EventsTypeStep, ListedStep, SinceStep DEF EventsInv, Events!EventsAssumption
<1>2. Events!StreamsComplete'
    BY <1>1, StreamsStep
<1> QED
    BY <1>1, <1>2 DEF EventsInv

LEMMA SentToListed ==
    ASSUME EventsInv, [Events!Next]_(Events!vars)
    PROVE  [\A c \in Clients : (sending = <<>> /\ hpc[c] = "closed") =>
               ~Events!Contains(sending', c)]_(Events!vars)
<1> SUFFICES ASSUME Events!Next, NEW c \in Clients, sending = <<>>, hpc[c] = "closed"
             PROVE  ~Events!Contains(sending', c)
    OBVIOUS
<1>1. ~Events!Contains(sending, c)
    BY DEF Events!Contains
<1>2. CASE Events!Publish
    BY <1>2 DEF Events!Publish, EventsInv, Listed
<1>3. CASE sending' = sending
    BY <1>1, <1>3
<1>4. CASE Events!Publishing
    BY <1>3, <1>4 DEF Events!Publishing, Events!Send, Events!Wait, Events!GiveUp, Events!Panic,
                      EventsInv, Since, Events!handlers
<1> QED
    BY <1>2, <1>3, <1>4 DEF Events!Next, Events!Subscribe, Events!Read, Events!Cancel,
                            Events!handlers

-----------------------------------------------------------------------------
(* The theorems.  Each of the parts behaves as it does on its own.         *)

LEMMA EachSpec == AnySpec => Spec /\ Artifacts!Spec /\ Events!Spec
<1>1. AnyInit => Init /\ Artifacts!Init /\ Events!Init
    BY DEF AnyInit
<1>2. [AnyNext]_allVars =>
          [Next]_vars /\ [Artifacts!Next]_(Artifacts!vars) /\ [Events!Next]_(Events!vars)
  <2> USE DEF vars, Artifacts!vars, Events!vars, Events!handlers, artifactVars, eventVars
  <2>1. CASE AnyNext
      BY <2>1 DEF AnyNext
  <2>2. CASE UNCHANGED allVars
      BY <2>2 DEF allVars
  <2> QED
      BY <2>1, <2>2
<1> QED
    BY <1>1, <1>2, PTL DEF AnySpec, Spec, Artifacts!Spec, Events!Spec

LEMMA ArtifactsAlways == AnySpec => []ArtifactsInv
    BY OthersAssumption, EachSpec, ArtifactsInit, ArtifactsInvStep, PTL DEF Artifacts!Spec

LEMMA EventsAlways == AnySpec => []EventsInv
    BY OthersAssumption, EachSpec, EventsInit, EventsInvStep, PTL DEF Events!Spec

\* The state stays well-typed.
THEOREM FilesTypeCorrect == AnySpec => []TypesOK
<1>1. Inv /\ ArtifactsInv /\ EventsInv => TypesOK
    BY DEF Inv, ArtifactsInv, EventsInv, TypesOK
<1> QED
    BY <1>1, EachSpec, InvAlways, ArtifactsAlways, EventsAlways, PTL

\* The program of a stage finds what the stages before it wrote: with path isolation
\* whatever restarts, is replaced or is resumed, and without it as long as nothing is
\* (runPipeline, stageOutputStillValid, scratchDir).
THEOREM StagesFindInputs == Spec => []InputsPresent
    BY InvAlways, InvImplies, PTL

\* Detection jobs and artifact rows name files that are on NFS as a whole: with path
\* isolation whatever happens, and without it as long as nothing is disturbed
\* (persistFusionArtifactsSync before enqueueODWithRetry, createArtifact, and the UPDATE of
\* the paths after both copies).
THEOREM NamedFilesThere == Spec => []NamedFilesPresent
<1>1. Inv /\ Calm => NamedFilesPresent
    BY DEF Inv, Calm, Quiet, NamedFilesPresent, Undisturbed
<1>2. Init => Calm
    BY InitCalm
<1>3. Inv /\ Calm /\ [Next]_vars => Calm'
    BY CalmStep
<1> QED
    BY <1>1, <1>2, <1>3, InvAlways, PTL DEF Spec

\* After one detection that no request overlapped, requests that did not overlap each other
\* leave one row for a file, so that GetDetectionStats counts it once
\* (syncDetectionArtifactsFromDisk, createArtifact).
THEOREM CountedOnce == AnySpec => []CountedOnceIfAlone
<1>1. ArtifactsInv => CountedOnceIfAlone
    BY DEF ArtifactsInv, OneRowEach, OneDetection, Artifacts!CountedOnceIfAlone, CountedOnceIfAlone
<1> QED
    BY <1>1, ArtifactsAlways, PTL

\* A request that runs alone and without an error leaves a row for every file, and one without
\* a file only where it found several rows for the path (syncDetectionArtifactsFromDisk).
THEOREM SyncedAlone == AnySpec => SyncedIfAlone
<1> DEFINE Goal ==
      \A g \in Gets \ overlapped :
         (apc[g] # "done" /\ apc'[g] = "done" /\ errors' = errors) =>
             /\ \A p \in disk : Artifacts!Has(p, artifactRows')
             /\ \A r \in artifactRows' : r.path \notin disk =>
                    \E x \in existing'[g] \ {r} : x.path = r.path
<1>1. ArtifactsInv /\ [Artifacts!Next]_(Artifacts!vars) => [Goal]_(Artifacts!vars)
  <2> SUFFICES ASSUME ArtifactsInv, Artifacts!Next, NEW g \in Gets \ overlapped,
                      apc[g] # "done", apc'[g] = "done", errors' = errors
               PROVE  /\ \A p \in disk : Artifacts!Has(p, artifactRows')
                      /\ \A r \in artifactRows' : r.path \notin disk =>
                             \E x \in existing'[g] \ {r} : x.path = r.path
      OBVIOUS
  <2> USE DEF ArtifactsInv, Artifacts!TypeOK, Artifacts!Goto, Artifacts!Procs,
              Artifacts!ArtifactsAssumption
  <2>1. SyncingBy(g) /\ FinitelyMany
      BY DEF Syncing
  <2>2. CASE RequestStep(g)
    <3>1. CASE Artifacts!ReadRows(g)
      <4>1. Artifacts!InSync(g) /\ apc[g] = "read" /\ artifactRows' = artifactRows
          BY <3>1 DEF Artifacts!ReadRows
      <4>2. entries[g] = disk /\ IsFiniteSet(entries[g]) /\ IsFiniteSet(artifactRows)
          BY <2>1, <4>1 DEF SyncingBy, FinitelyMany
      <4>3. \A r \in artifactRows : r.path \in disk
          BY <4>1, <4>2, InSyncMeans
      <4> QED
          BY <4>1, <4>2, <4>3 DEF Artifacts!InSync, Artifacts!Has
    <3>2. CASE Artifacts!Respond(g)
        BY <2>1, <3>2 DEF Artifacts!Respond, SyncingBy, Artifacts!Has
    <3> QED
        BY <2>2, <3>1, <3>2
        DEF RequestStep, Artifacts!StartGet, Artifacts!CollectOnDisk, Artifacts!SyncEntry,
            Artifacts!SyncEntriesDone, Artifacts!DeleteRow, Artifacts!SyncError
  <2>3. CASE \E p \in Artifacts!Procs \ {g} : ArtifactStepOf(p)
      BY <2>3 DEF ArtifactStepOf
  <2> QED
      BY <2>2, <2>3, SomebodysStep
<1> QED
    BY <1>1, EachSpec, ArtifactsAlways, PTL
    DEF Artifacts!Spec, Artifacts!SyncedIfAlone, SyncedIfAlone

\* A client that is there has each event since it subscribed, in order and once, except for
\* those that were given up and the one it is being sent (Subscribe, publishStageEvent).
THEOREM EventsInOrder == AnySpec => []StreamsComplete
<1>1. EventsInv => StreamsComplete
    BY DEF EventsInv, StreamsComplete
<1> QED
    BY <1>1, EventsAlways, PTL

\* A channel that was closed between two events is not sent to: the list that
\* publishStageEvent copies has only clients that are there (Subscribe's unsubscribe).
THEOREM LeaversNotSentTo == AnySpec => ClosedOnlyWhilePublishing
<1>1. EventsInv /\ [Events!Next]_(Events!vars) =>
          [\A c \in Clients : (sending = <<>> /\ hpc[c] = "closed") =>
               ~Events!Contains(sending', c)]_(Events!vars)
    BY SentToListed
<1> QED
    BY <1>1, EachSpec, EventsAlways, PTL
    DEF Events!Spec, Events!ClosedOnlyWhilePublishing, ClosedOnlyWhilePublishing
-----------------------------------------------------------------------------
(* The pipeline without od-workers.  Its theorems are those of             *)
(* TaskPipelineSafety, which hold for every deployment; what is left is    *)
(* that this deployment is one of them.                                    *)

Pipeline == INSTANCE TaskPipelineSafety WITH
    RSWorkers <- Pods \cup {p3}, ODWorkers <- {}, RSConcurrency <- 1, ODConcurrency <- 1,
    Serves <- [w \in Pods \cup {p3} |-> IF w = p3 THEN {} ELSE Tasks],
    NumPrep <- 1, StageMaxRetries <- 1, UseODWorker <- FALSE, DetectRequests <- BOOLEAN,
    Budget <- [h \in {"fault", "apiCrash", "rsCrash", "odCrash", "slow", "output", "rsGroup",
                      "odGroup", "handBack", "foreign"} |-> 1], MaxKinds <- 1,
    task <- iTask, wants <- iWants, row <- iRow, stage <- iStage, artifact <- iArtifact,
    done <- iDone, handler <- iHandler, queue <- iQueue, group <- iGroup, proc <- iProc,
    todo <- iTodo, inbox <- iInbox, release <- iRelease, run <- iRun, spent <- iSpent

LEMMA SameAssumption == Pipeline!ConstantsAssumption
BY OthersAssumption
DEF Inline!Hazards, Pipeline!Hazards, Inline!ConstantsAssumption, Pipeline!ConstantsAssumption

LEMMA SameInit == Inline!Init => Pipeline!Init
BY DEF Inline!OD, Pipeline!OD, Inline!Prep, Pipeline!Prep, Inline!Stages, Pipeline!Stages,
       Inline!Workers, Pipeline!Workers, Inline!Procs, Pipeline!Procs, Inline!Slots,
       Pipeline!Slots, Inline!Queues, Pipeline!Queues, Inline!Receivers,
       Pipeline!Receivers, Inline!Hazards, Pipeline!Hazards, Inline!Free, Pipeline!Free,
       Inline!Init, Pipeline!Init

LEMMA SameNext == Inline!Next => Pipeline!Next
BY DEF Inline!Cardinality, Pipeline!Cardinality, Inline!XAdd, Pipeline!XAdd, Inline!Undelivered,
       Pipeline!Undelivered, Inline!Deliver, Pipeline!Deliver, Inline!Claimable,
       Pipeline!Claimable, Inline!AutoClaim, Pipeline!AutoClaim, Inline!GrowIdle,
       Pipeline!GrowIdle, Inline!XAck, Pipeline!XAck, Inline!Regroup, Pipeline!Regroup,
       Inline!Hazards, Pipeline!Hazards, Inline!OD, Pipeline!OD, Inline!Prep,
       Pipeline!Prep, Inline!Stages, Pipeline!Stages, Inline!Workers, Pipeline!Workers,
       Inline!Procs, Pipeline!Procs, Inline!Slots, Pipeline!Slots, Inline!IsRS,
       Pipeline!IsRS, Inline!Queues, Pipeline!Queues, Inline!Receivers,
       Pipeline!Receivers, Inline!QueueOf, Pipeline!QueueOf, Inline!rows, Pipeline!rows,
       Inline!api, Pipeline!api, Inline!Free, Pipeline!Free, Inline!NewRun,
       Pipeline!NewRun, Inline!At, Pipeline!At, Inline!Goto, Pipeline!Goto,
       Inline!NextStage, Pipeline!NextStage, Inline!Advance, Pipeline!Advance,
       Inline!Spend, Pipeline!Spend, Inline!Fault, Pipeline!Fault, Inline!NoFault,
       Pipeline!NoFault, Inline!SetTask, Pipeline!SetTask, Inline!SetStage,
       Pipeline!SetStage, Inline!Stored, Pipeline!Stored, Inline!CreateTask,
       Pipeline!CreateTask, Inline!CreateStage, Pipeline!CreateStage, Inline!DeleteTask,
       Pipeline!DeleteTask, Inline!JobOfRequest, Pipeline!JobOfRequest,
       Inline!EnqueueTask, Pipeline!EnqueueTask, Inline!BootStatus, Pipeline!BootStatus,
       Inline!EnsureGroup, Pipeline!EnsureGroup, Inline!Restart, Pipeline!Restart,
       Inline!BootEnqueue, Pipeline!BootEnqueue, Inline!BootDone, Pipeline!BootDone,
       Inline!HandsBack, Pipeline!HandsBack, Inline!CrashKind, Pipeline!CrashKind,
       Inline!Crash, Pipeline!Crash, Inline!Held, Pipeline!Held, Inline!IdleOrphan,
       Pipeline!IdleOrphan, Inline!IdleHeld, Pipeline!IdleHeld, Inline!LoseGroup,
       Pipeline!LoseGroup, Inline!RebuildGroup, Pipeline!RebuildGroup,
       Inline!ShouldProcess, Pipeline!ShouldProcess, Inline!Waiting, Pipeline!Waiting,
       Inline!Foreign, Pipeline!Foreign, Inline!ReadJob, Pipeline!ReadJob,
       Inline!ReclaimStaleRSJobs, Pipeline!ReclaimStaleRSJobs, Inline!Oldest,
       Pipeline!Oldest, Inline!ProcessJob, Pipeline!ProcessJob, Inline!ReleaseAck,
       Pipeline!ReleaseAck, Inline!ReleaseAdd, Pipeline!ReleaseAdd, Inline!Unclaimed,
       Pipeline!Unclaimed, Inline!ClaimTask, Pipeline!ClaimTask, Inline!CheckRunning,
       Pipeline!CheckRunning, Inline!SuccessStages, Pipeline!SuccessStages,
       Inline!SkipStage, Pipeline!SkipStage, Inline!DropSkip, Pipeline!DropSkip,
       Inline!AtStage, Pipeline!AtStage, Inline!SkipDetection, Pipeline!SkipDetection,
       Inline!ShouldSkipODJob, Pipeline!ShouldSkipODJob, Inline!ODRowSuccess,
       Pipeline!ODRowSuccess, Inline!ODRowOther, Pipeline!ODRowOther, Inline!EnqueueOD,
       Pipeline!EnqueueOD, Inline!BeginStage, Pipeline!BeginStage, Inline!ExecSuccess,
       Pipeline!ExecSuccess, Inline!ExecFailure, Pipeline!ExecFailure, Inline!Succeed,
       Pipeline!Succeed, Inline!RecordArtifacts, Pipeline!RecordArtifacts,
       Inline!FailStageRow, Pipeline!FailStageRow, Inline!FailTaskRow,
       Pipeline!FailTaskRow, Inline!FinishTaskWithError, Pipeline!FinishTaskWithError,
       Inline!FinishTaskCompleted, Pipeline!FinishTaskCompleted, Inline!AckJob,
       Pipeline!AckJob, Inline!HandlerStep, Pipeline!HandlerStep, Inline!ProcStep,
       Pipeline!ProcStep, Inline!ReceiveStep, Pipeline!ReceiveStep, Inline!HandleStep,
       Pipeline!HandleStep, Inline!PipelineStep, Pipeline!PipelineStep, Inline!StageStep,
       Pipeline!StageStep, Inline!EndStep, Pipeline!EndStep, Inline!RunStep,
       Pipeline!RunStep, Inline!Next, Pipeline!Next

LEMMA InlineOfScenario == AnySpec => Pipeline!Spec
<1>1. AnyInit => Pipeline!Init
    BY SameInit DEF AnyInit
<1>2. [AnyNext]_allVars => [Pipeline!Next]_(Pipeline!vars)
    BY SameNext DEF AnyNext, allVars, inlineVars, Pipeline!vars
<1> QED
    BY <1>1, <1>2, PTL DEF AnySpec, Pipeline!Spec

\* Where the rs-workers detect themselves, too, a task is completed after all its work
\* only, is not forgotten while it is pending, and its rows agree (runPipeline with
\* UseODWorker off, ReleaseRSJobForOtherConsumer).
THEOREM InlinePipelineSound == AnySpec => []InlineSound
<1>1. /\ Pipeline!CompletedRanEveryStage
      /\ Pipeline!PendingNotForgotten
      /\ Pipeline!FinishedRowsAgree
      => InlineSound
    BY DEF InlineSound, Inline!CompletedRanEveryStage, Pipeline!CompletedRanEveryStage,
           Inline!PendingNotForgotten, Pipeline!PendingNotForgotten,
           Inline!FinishedRowsAgree, Pipeline!FinishedRowsAgree, Inline!Waits,
           Pipeline!Waits, Inline!Scheduled, Pipeline!Scheduled, Inline!Outstanding,
           Pipeline!Outstanding, Inline!Undisturbed, Pipeline!Undisturbed, Inline!Stages,
           Pipeline!Stages, Inline!Prep, Pipeline!Prep, Inline!OD, Pipeline!OD,
           Inline!Hazards, Pipeline!Hazards, Inline!Receivers, Pipeline!Receivers,
           Inline!Workers, Pipeline!Workers
<1> QED
    BY <1>1, InlineOfScenario, SameAssumption, Pipeline!CompletionIsEarned,
       Pipeline!NothingForgotten, Pipeline!FinishedRowsTell, PTL
=============================================================================
