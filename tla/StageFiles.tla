----------------------------- MODULE StageFiles -----------------------------
(***************************************************************************)
(* Where the stages of the remote sensing pipeline leave their files and   *)
(* where later stages, a resumed run, the od-worker and the API server     *)
(* look for them (internal/remotesensing: the stage executors, recovery.go,*)
(* taskpaths.go, the two persistFusionArtifacts functions).                *)
(*                                                                         *)
(* An rs-worker Pod has a scratch volume of its own, an emptyDir; all Pods *)
(* and the API server mount the NFS volume.  With path isolation the       *)
(* stages work on NFS, in directories of the task; without it they work in *)
(* scratch directories that all tasks of the Pod share, except for two     *)
(* directories that Argo workflows use.                                    *)
(*                                                                         *)
(* A Pod runs one task at a time and a task is run by one Pod at a time;   *)
(* TaskPipeline has the claims, the redelivery and the failing programs.   *)
(* Tasks have different file prefixes.  The files of a program appear      *)
(* together, when it ends; copyFile truncates its destination first.       *)
(***************************************************************************)
EXTENDS Naturals, FiniteSets, Sequences

CONSTANTS
    Tasks,
    Pods,         \* rs-worker Pods
    NFS,          \* the shared volume
    Deployments,  \* settings the workers may be deployed with
    Budget        \* how often each hazard may strike

\* isolated  SATELLITE_RS_TASK_PATH_ISOLATION
\* argo      SATELLITE_USE_ARGO_PAN_RPC
\* direct    fusion_direct_enabled: stage 8 writes the fused image itself
\* odWorker  SATELLITE_USE_OD_WORKER
Settings == [isolated : BOOLEAN, argo : BOOLEAN, direct : BOOLEAN, odWorker : BOOLEAN]

Hazards == {"restart",  \* a worker process ends and its container is started again
            "replace",  \* its Pod is replaced by one with an empty scratch volume
            "copy"}     \* a copy to NFS or the update of an artifact row fails

ASSUME FilesAssumption ==
    /\ Tasks # {} /\ NFS \notin Pods
    /\ Deployments \subseteq Settings
    /\ Budget \in [Hazards -> Nat]

\* stageDefinitions.
StageDefinitions ==
    << "tiff_to_envi_mss", "tiff_to_envi_pan", "pan_rad_toa", "pan_rpc_warp_quarters",
       "pan_merge_warp_square", "mss_rad_quac_rpc", "mss_coregister_to_pan",
       "pansharpen_fusion", "fusion_stack_envi", "object_detection" >>

Last   == 10
Stages == {StageDefinitions[i] : i \in 1 .. Last}

\* What stages write for others: the files of a stage bear its name, except for the
\* fused image and its preview.
Products == (Stages \ {"fusion_stack_envi", "object_detection"}) \cup {"dat", "preview"}

Places == Pods \cup {NFS}

CopyStep == {"none", "dat", "open", "preview", "paths"}

VARIABLES
    cfg,    \* the settings
    wants,  \* tasks with enable_detection
    task,   \* status of each task
    stage,  \* status of its stage rows
    files,  \* <<task, product>> in each volume
    rows,   \* paths in the artifact rows of the fused image and its preview
    pc,     \* what each Pod does next
    job,    \* the task it runs
    at,     \* the index of the stage it is at
    skip,   \* skipStages of its run
    left,   \* tasks whose run ended with its worker's process
    copy,   \* its copying of a task's fused image to NFS
    odJobs, \* tasks with an entry in od.jobs
    spent   \* hazards so far

vars == <<cfg, wants, task, stage, files, rows, pc, job, at, skip, left, copy, odJobs, spent>>
run  == <<pc, job, at, skip, left>>

Init ==
    /\ cfg \in Deployments
    /\ wants \in SUBSET Tasks
    /\ task = [t \in Tasks |-> "pending"]
    /\ stage = [t \in Tasks |-> [k \in Stages |-> "pending"]]
    /\ files = [v \in Places |-> {}]
    /\ rows = [t \in Tasks |-> {}]
    /\ pc = [p \in Pods |-> "idle"]
    /\ job \in [Pods -> {CHOOSE t \in Tasks : TRUE}]
    /\ at = [p \in Pods |-> 1]
    /\ skip = [p \in Pods |-> {}]
    /\ left = {}
    /\ copy = [p \in Pods |-> [t \in Tasks |-> "none"]]
    /\ odJobs = {}
    /\ spent = [h \in Hazards |-> 0]

Strike(h) == spent[h] < Budget[h] /\ spent' = [spent EXCEPT ![h] = @ + 1]

-----------------------------------------------------------------------------
(* Directories.                                                            *)

\* Mutant: the scratch directory in spite of the isolation.
ScratchPlace(q, p) ==
    IF cfg.argo /\ q \in {"pan_rad_toa", "pan_rpc_warp_quarters"} THEN NFS ELSE p

\* scratchDir, panRadToaOutputDir, panWarpQuartersInputDir: the volume on which a
\* worker of Pod p writes and reads a product.
PlaceOf(q, p) ==
    IF cfg.isolated \/ (cfg.argo /\ q \in {"pan_rad_toa", "pan_rpc_warp_quarters"})
    THEN NFS ELSE p

\* The directory a product is in.
DirOf(q) ==
    CASE q \in {"tiff_to_envi_mss", "tiff_to_envi_pan"} -> "tiff_to_envi"
      [] q = "dat"     -> "fusion_envi"
      [] q = "preview" -> "imgshow"
      [] OTHER         -> q

\* The files that each executor's program reads, and those it writes.
Needs(k) ==
    CASE k = "pan_rad_toa"           -> {"tiff_to_envi_pan"}
      [] k = "pan_rpc_warp_quarters" -> {"pan_rad_toa"}
      [] k = "pan_merge_warp_square" -> {"pan_rpc_warp_quarters"}
      [] k = "mss_rad_quac_rpc"      -> {"tiff_to_envi_mss"}
      [] k = "mss_coregister_to_pan" -> {"pan_merge_warp_square", "mss_rad_quac_rpc"}
      [] k = "pansharpen_fusion"     -> {"pan_merge_warp_square", "mss_coregister_to_pan"}
      [] k = "fusion_stack_envi"     -> IF cfg.direct THEN {"dat"} ELSE {"pansharpen_fusion"}
      [] k = "object_detection"      -> {"dat"}
      [] OTHER                       -> {}

Writes(k) ==
    CASE k = "pansharpen_fusion" -> IF cfg.direct THEN {"dat"} ELSE {"pansharpen_fusion"}
      [] k = "fusion_stack_envi" -> IF cfg.direct THEN {"preview"} ELSE {"dat", "preview"}
      [] k = "object_detection"  -> {}
      [] OTHER                   -> {k}

\* OutputPath of an executor's result.
OutputDir(k) ==
    IF k = "fusion_stack_envi" \/ (k = "pansharpen_fusion" /\ cfg.direct)
    THEN "fusion_envi" ELSE DirOf(k)

Present(t, q, p) == <<t, q>> \in files[PlaceOf(q, p)]
HasInputs(t, k, p) == \A q \in Needs(k) : Present(t, q, p)

\* The volume of the output directory.
OutputPlace(k, p) ==
    PlaceOf(IF k \in {"fusion_stack_envi"} THEN "dat" ELSE k, p)

\* stageOutputStillValid: the output directory has some entry.  The path of the
\* detection stage is relative to another root and never found; so is that of a
\* detection that was skipped, which is empty.
OutputStillValid(t, k, p) ==
    /\ k # "object_detection"
    /\ \E f \in files[OutputPlace(k, p)] :
          DirOf(f[2]) = OutputDir(k) /\ (cfg.isolated => f[1] = t)

-----------------------------------------------------------------------------
(* A run of a task in an rs-worker.                                        *)

Goto(p, s) == pc' = [pc EXCEPT ![p] = s]
Stage(p)   == StageDefinitions[at[p]]

SetStage(t, k, s) == stage' = [stage EXCEPT ![t][k] = s]

NextStage(p) == Goto(p, "next") /\ at' = [at EXCEPT ![p] = @ + 1]

\* runPipeline claims a pending task, or resumes, without its successStages, one that
\* was running when its worker ended.
Claim(p, t) ==
    /\ pc[p] = "idle"
    /\ task[t] = "pending" \/ (task[t] = "running" /\ t \in left)
    /\ task' = [task EXCEPT ![t] = "running"]
    /\ Goto(p, "next")
    /\ job' = [job EXCEPT ![p] = t]
    /\ at' = [at EXCEPT ![p] = 1]
    /\ skip' = [skip EXCEPT ![p] =
                  IF task[t] = "running" THEN {k \in Stages : stage[t][k] = "success"} ELSE {}]
    /\ left' = left \ {t}
    /\ UNCHANGED <<cfg, wants, stage, files, rows, copy, odJobs, spent>>

\* The stage was successful in an earlier run and its output is still there.
MaySkip(p) == Stage(p) \in skip[p] /\ OutputStillValid(job[p], Stage(p), p)

SkipStage(p) ==
    /\ pc[p] = "next"
    /\ MaySkip(p)
    /\ NextStage(p)
    /\ UNCHANGED <<cfg, wants, task, stage, files, rows, job, skip, left, copy, odJobs, spent>>

\* runStage begins: the row is set to running.
BeginStage(p) ==
    /\ pc[p] = "next"
    /\ ~MaySkip(p)
    /\ Stage(p) = "object_detection" => job[p] \in wants /\ ~cfg.odWorker
    /\ SetStage(job[p], Stage(p), "running")
    /\ Goto(p, "exec")
    /\ UNCHANGED <<cfg, wants, task, files, rows, job, at, skip, left, copy, odJobs, spent>>

\* The executor's program finds its inputs and writes its files; the row is set to
\* success.
ExecSuccess(p) ==
    LET t == job[p]
        k == Stage(p)
    IN  /\ pc[p] = "exec"
        /\ HasInputs(t, k, p)
        /\ files' = [v \in Places |->
                       files[v] \cup {<<t, q>> : q \in {w \in Writes(k) : PlaceOf(w, p) = v}}]
        /\ SetStage(t, k, "success")
        /\ CASE k = "fusion_stack_envi" -> Goto(p, "record") /\ UNCHANGED <<at, task>>
             [] k = "object_detection"  ->
                    /\ Goto(p, "idle") /\ UNCHANGED at
                    /\ task' = [task EXCEPT ![t] = "completed"]
             [] OTHER                   -> NextStage(p) /\ UNCHANGED task
        /\ UNCHANGED <<cfg, wants, rows, job, skip, left, copy, odJobs, spent>>

\* It does not find them, in no attempt; finishTaskWithError.
ExecFailure(p) ==
    /\ pc[p] = "exec"
    /\ ~HasInputs(job[p], Stage(p), p)
    /\ SetStage(job[p], Stage(p), "failed")
    /\ task' = [task EXCEPT ![job[p]] = "failed"]
    /\ Goto(p, "idle")
    /\ UNCHANGED <<cfg, wants, files, rows, job, at, skip, left, copy, odJobs, spent>>

\* Mutant: the copies are always made in the background.
NeverWaits(t) == FALSE

\* An od-worker will need the fused image.
Waits(t) == ~cfg.isolated /\ cfg.odWorker /\ t \in wants

\* The artifact rows of the fusion stage are inserted, with scratch paths, which are
\* paths on NFS when tasks are isolated.  Then the files are copied to NFS, while the
\* run waits if an od-worker will need them, in the background otherwise.
RecordArtifacts(p) ==
    LET t == job[p]
    IN  /\ pc[p] = "record"
        /\ rows' = [rows EXCEPT ![t] = @ \cup {IF cfg.isolated THEN "nfs" ELSE "scratch"}]
        /\ copy' = IF cfg.isolated THEN copy ELSE [copy EXCEPT ![p][t] = "dat"]
        /\ IF Waits(t)
           THEN Goto(p, "copy") /\ UNCHANGED at
           ELSE NextStage(p)
        /\ UNCHANGED <<cfg, wants, task, stage, files, job, skip, left, odJobs, spent>>

\* persistFusionArtifactsSync returns, with an error or not.
CopyReturns(p) ==
    /\ pc[p] = "copy"
    /\ copy[p][job[p]] = "none"
    /\ NextStage(p)
    /\ UNCHANGED <<cfg, wants, task, stage, files, rows, job, skip, left, copy, odJobs, spent>>

\* The detection stage of a task that did not ask for it.
SkipDetection(p) ==
    /\ pc[p] = "next"
    /\ Stage(p) = "object_detection" /\ job[p] \notin wants
    /\ SetStage(job[p], Stage(p), "success")
    /\ task' = [task EXCEPT ![job[p]] = "completed"]
    /\ Goto(p, "idle")
    /\ UNCHANGED <<cfg, wants, files, rows, job, at, skip, left, copy, odJobs, spent>>

\* A job with the path of the fused image on NFS (fusionDatRelPersist) is put on
\* od.jobs, unless shouldSkipODJob.
EnqueueOD(p) ==
    /\ pc[p] = "next"
    /\ Stage(p) = "object_detection" /\ job[p] \in wants /\ cfg.odWorker
    /\ odJobs' = odJobs \cup {t \in {job[p]} : task[t] # "completed"}
    /\ Goto(p, "ack")
    /\ UNCHANGED <<cfg, wants, task, stage, files, rows, job, at, skip, left, copy, spent>>

\* The message of a task that waits for its detection is acknowledged.
Ack(p) ==
    /\ pc[p] = "ack"
    /\ Goto(p, "idle")
    /\ UNCHANGED <<cfg, wants, task, stage, files, rows, job, at, skip, left, copy, odJobs, spent>>

-----------------------------------------------------------------------------
(* The copy to NFS: persistFusionArtifactsSync and persistFusionArtifactsAsync.
   It ends at the first error.                                             *)

SetCopy(p, t, s) == copy' = [copy EXCEPT ![p][t] = s]

\* copyFile opens, and truncates, its destination.
OpenDat(p, t) ==
    /\ copy[p][t] = "dat"
    /\ \/ /\ Present(t, "dat", p)
          /\ files' = [files EXCEPT ![NFS] = @ \ {<<t, "dat">>}]
          /\ SetCopy(p, t, "open")
          /\ UNCHANGED spent
       \/ Strike("copy") /\ SetCopy(p, t, "none") /\ UNCHANGED files
    /\ UNCHANGED <<cfg, wants, task, stage, rows, run, odJobs>>

CopyDat(p, t) ==
    /\ copy[p][t] = "open"
    /\ \/ /\ files' = [files EXCEPT ![NFS] = @ \cup {<<t, "dat">>}]
          /\ SetCopy(p, t, "preview")
          /\ UNCHANGED spent
       \/ Strike("copy") /\ SetCopy(p, t, "none") /\ UNCHANGED files
    /\ UNCHANGED <<cfg, wants, task, stage, rows, run, odJobs>>

CopyPreview(p, t) ==
    /\ copy[p][t] = "preview"
    /\ \/ /\ files' = [files EXCEPT ![NFS] = @ \cup {<<t, "preview">>}]
          /\ SetCopy(p, t, "paths")
          /\ UNCHANGED spent
       \/ Strike("copy") /\ SetCopy(p, t, "none") /\ UNCHANGED files
    /\ UNCHANGED <<cfg, wants, task, stage, rows, run, odJobs>>

\* UPDATE ... SET path WHERE path is the scratch path; an error is not looked at.
RewritePaths(p, t) ==
    /\ copy[p][t] = "paths"
    /\ \/ /\ rows' = [rows EXCEPT ![t] = {IF x = "scratch" THEN "nfs" ELSE x : x \in @}]
          /\ UNCHANGED spent
       \/ Strike("copy") /\ UNCHANGED rows
    /\ SetCopy(p, t, "none")
    /\ UNCHANGED <<cfg, wants, task, stage, files, run, odJobs>>

Copying(p, t) == OpenDat(p, t) \/ CopyDat(p, t) \/ CopyPreview(p, t) \/ RewritePaths(p, t)

-----------------------------------------------------------------------------

\* RunDetectionFromJob in an od-worker, which reads NFS.
DetectionFromJob(t) ==
    /\ t \in odJobs
    /\ odJobs' = odJobs \ {t}
    /\ IF task[t] = "completed"
       THEN UNCHANGED <<task, stage>>
       ELSE IF <<t, "dat">> \in files[NFS]
       THEN SetStage(t, "object_detection", "success") /\ task' = [task EXCEPT ![t] = "completed"]
       ELSE SetStage(t, "object_detection", "failed")  /\ task' = [task EXCEPT ![t] = "failed"]
    /\ UNCHANGED <<cfg, wants, files, rows, run, copy, spent>>

\* The worker's process ends, with its background copies; its scratch volume stays, or
\* goes with the Pod.
Dies(p) ==
    /\ Goto(p, "idle")
    /\ left' = left \cup {t \in {job[p]} : pc[p] # "idle"}
    /\ copy' = [copy EXCEPT ![p] = [t \in Tasks |-> "none"]]
    /\ UNCHANGED <<cfg, wants, task, stage, rows, job, at, skip, odJobs>>

Restart(p) == Strike("restart") /\ Dies(p) /\ UNCHANGED files
Replace(p) == Strike("replace") /\ Dies(p) /\ files' = [files EXCEPT ![p] = {}]

PodStep(p) ==
    \/ SkipStage(p) \/ BeginStage(p) \/ ExecSuccess(p) \/ ExecFailure(p)
    \/ RecordArtifacts(p) \/ CopyReturns(p) \/ SkipDetection(p) \/ EnqueueOD(p) \/ Ack(p)

Next ==
    \/ \E p \in Pods : PodStep(p) \/ Restart(p) \/ Replace(p)
    \/ \E p \in Pods, t \in Tasks : Claim(p, t) \/ Copying(p, t)
    \/ \E t \in Tasks : DetectionFromJob(t)

Spec == Init /\ [][Next]_vars

-----------------------------------------------------------------------------
(* Properties.                                                             *)

TypeOK ==
    /\ cfg \in Settings
    /\ wants \subseteq Tasks
    /\ task \in [Tasks -> {"pending", "running", "completed", "failed"}]
    /\ stage \in [Tasks -> [Stages -> {"pending", "running", "success", "failed"}]]
    /\ files \in [Places -> SUBSET (Tasks \X Products)]
    /\ rows \in [Tasks -> SUBSET {"scratch", "nfs"}]
    /\ pc \in [Pods -> {"idle", "next", "exec", "record", "copy", "ack"}]
    /\ job \in [Pods -> Tasks]
    /\ at \in [Pods -> 1 .. Last]
    /\ skip \in [Pods -> SUBSET Stages]
    /\ left \subseteq Tasks
    /\ copy \in [Pods -> [Tasks -> CopyStep]]
    /\ odJobs \subseteq Tasks
    /\ spent \in [Hazards -> Nat]

\* Path isolation, or a system in which no worker ended and no copy failed.
Undisturbed == cfg.isolated \/ \A h \in Hazards : spent[h] = 0

\* The program of a stage finds the files of the stages before it, also in a run that
\* another worker resumes (runPipeline with stageOutputStillValid, scratchDir).
InputsPresent ==
    Undisturbed => \A p \in Pods : pc[p] = "exec" => HasInputs(job[p], Stage(p), p)

\* A file on NFS that a detection job or an artifact row names is there, as a whole: the
\* job follows the copy (persistFusionArtifactsSync before enqueueODWithRetry), and a path
\* is rewritten after both copies, by a copy in the background too.
NamedFilesPresent ==
    Undisturbed => \A t \in Tasks :
        /\ t \in odJobs => <<t, "dat">> \in files[NFS]
        /\ "nfs" \in rows[t] => {<<t, "dat">>, <<t, "preview">>} \subseteq files[NFS]
=============================================================================
