----------------------------- MODULE PanRpcArgo -----------------------------
(***************************************************************************)
(* The PAN RPC stage of one task through Argo workflows                    *)
(* (internal/remotesensing/pan_rpc_argo.go, internal/argo/client.go).      *)
(*                                                                         *)
(* A workflow computes one part file per area into the workers directory   *)
(* of the task; the executor waits for it and moves the parts into the     *)
(* output directory (merge).  An executor, a goroutine of an rs-worker,    *)
(* may be killed at any step; the stage is then executed again from the    *)
(* beginning and resumes from what it finds: merged parts, worker parts,   *)
(* or an earlier workflow.  A second executor exists when the job of the   *)
(* task has been delivered twice.                                          *)
(*                                                                         *)
(* The workflow controller, the Pods of a workflow and the order in which  *)
(* the Kubernetes API lists workflows are outside the repository.  A part  *)
(* appears as a whole.                                                     *)
(***************************************************************************)
EXTENDS Naturals, Sequences, FiniteSets

CONSTANTS
    Executors,         \* goroutines that may execute the stage
    NumAreas,          \* parts of the image (four)
    StageMaxRetries,   \* retries of the stage after its first attempt
    TaskPathIsolation, \* SATELLITE_RS_TASK_PATH_ISOLATION
    Budget             \* how often each hazard may strike

Hazards == {"crash",       \* the executor's process ends, not while it merges
            "mergeCrash",  \* it ends when some parts are merged and some are not
            "fault",       \* a call to the file system or the API server fails
            "workflow",    \* a workflow fails
            "timeout"}     \* the stage timeout ends the wait for a workflow

ASSUME ArgoAssumption ==
    /\ NumAreas \in Nat \ {0}
    /\ StageMaxRetries \in Nat
    /\ TaskPathIsolation \in BOOLEAN
    /\ Budget \in [Hazards -> Nat]

Areas == 1 .. NumAreas

\* Phases of a workflow: "" until the controller has seen it.
Phase == {"", "Running", "Succeeded", "Failed"}
Workflow == [phase : Phase, left : SUBSET Areas]

ExecutorPC == {"idle", "check", "prepare", "parts", "latest", "submit", "wait",
               "merge", "clean", "succeed", "fail", "done"}

VARIABLES
    stage,    \* status of the stage row
    workers,  \* areas with a part in the workers directory
    merged,   \* areas with a part in the output directory
    wf,       \* the task's workflows in the order of their creation
    last,     \* the one the API server lists last, 0 if there is none
    pc,       \* the next step of each executor
    attempt,  \* its calls of executePanRpcViaArgo
    seen,     \* the workflow it waits for
    area,     \* the area it merges next
    spent     \* hazards so far

vars == <<stage, workers, merged, wf, last, pc, attempt, seen, area, spent>>
files == <<workers, merged>>
argo  == <<wf, last>>

Init ==
    /\ stage = "pending"
    /\ workers = {}
    /\ merged = {}
    /\ wf = <<>>
    /\ last = 0
    /\ pc = [e \in Executors |-> "idle"]
    /\ attempt = [e \in Executors |-> 0]
    /\ seen = [e \in Executors |-> 0]
    /\ area = [e \in Executors |-> 1]
    /\ spent = [h \in Hazards |-> 0]

Strike(h) == spent[h] < Budget[h] /\ spent' = [spent EXCEPT ![h] = @ + 1]
NoHazard  == UNCHANGED spent

Goto(e, s) == pc' = [pc EXCEPT ![e] = s]

\* Mutant: one attempt too many.
AttemptFailsOnceMore(e) ==
    IF attempt[e] <= StageMaxRetries + 1
    THEN Goto(e, "check") /\ attempt' = [attempt EXCEPT ![e] = @ + 1]
    ELSE Goto(e, "fail") /\ UNCHANGED attempt

\* An attempt ends with an error; runStage makes another one or gives up.
AttemptFails(e) ==
    IF attempt[e] <= StageMaxRetries
    THEN Goto(e, "check") /\ attempt' = [attempt EXCEPT ![e] = @ + 1]
    ELSE Goto(e, "fail") /\ UNCHANGED attempt

\* A call fails.
CallFails(e) == Strike("fault") /\ AttemptFails(e)

\* mergePanRpcOnPersist begins.
StartMerge(e) == Goto(e, "merge") /\ area' = [area EXCEPT ![e] = 1]

-----------------------------------------------------------------------------
(* The executor.                                                           *)

\* The job is delivered, or taken up again after a restart; a stage that has
\* ended is skipped, and a failed task is not run.
Begin(e) ==
    /\ pc[e] = "idle"
    /\ stage \in {"pending", "running"}
    /\ stage' = "running"
    /\ Goto(e, "check")
    /\ attempt' = [attempt EXCEPT ![e] = 1]
    /\ UNCHANGED <<files, argo, seen, area, spent>>

\* Mutant: one merged part is enough.
FirstPartMerged == 1 \in merged

\* Mutant: the merged parts are not looked at.
NeverMerged == FALSE

\* panRpcMergedPartsExist.
MergedPartsExist == merged = Areas

\* The DEM file is looked for and the API client is set up, then the stage is resumed
\* from merged parts if it can be.
CheckMerged(e) ==
    /\ pc[e] = "check"
    /\ \/ /\ Goto(e, IF MergedPartsExist THEN "succeed" ELSE "prepare")
          /\ NoHazard
          /\ UNCHANGED attempt
       \/ CallFails(e)
    /\ UNCHANGED <<stage, files, argo, seen, area>>

\* preparePanRpcPersistWorkerDirs: without path isolation the parts in the workers
\* directory are removed.
PrepareWorkerDirs(e) ==
    /\ pc[e] = "prepare"
    /\ \/ /\ Goto(e, "parts")
          /\ NoHazard
          /\ workers' = IF TaskPathIsolation THEN workers ELSE {}
          /\ UNCHANGED attempt
       \/ CallFails(e) /\ UNCHANGED workers
    /\ UNCHANGED <<stage, merged, argo, seen, area>>

\* panRpcWorkerPartsReady: the parts of an earlier workflow are complete.
CheckWorkerParts(e) ==
    /\ pc[e] = "parts"
    /\ IF workers = Areas THEN StartMerge(e) ELSE Goto(e, "latest") /\ UNCHANGED area
    /\ UNCHANGED <<stage, files, argo, attempt, seen, spent>>

\* LatestWorkflowForTask: the phase of the workflow listed last.
LatestPhase == IF last = 0 THEN "" ELSE wf[last].phase

\* Mutant: a running workflow is not waited for.
LatestWithoutWaiting(e) ==
    /\ pc[e] = "latest"
    /\ \/ /\ IF LatestPhase \in {"Succeeded", "Running"}
             THEN StartMerge(e)
             ELSE Goto(e, "submit") /\ UNCHANGED area
          /\ NoHazard
          /\ UNCHANGED attempt
       \/ CallFails(e) /\ UNCHANGED area
    /\ UNCHANGED <<stage, files, argo, seen>>

\* The decision of executePanRpcViaArgo on that phase.
LatestWorkflow(e) ==
    /\ pc[e] = "latest"
    /\ \/ /\ LatestPhase = "Succeeded"
          /\ StartMerge(e)
          /\ NoHazard
          /\ UNCHANGED <<attempt, seen>>
       \/ /\ LatestPhase = "Running"
          /\ seen' = [seen EXCEPT ![e] = last]
          /\ Goto(e, "wait")
          /\ NoHazard
          /\ UNCHANGED <<attempt, area>>
       \/ /\ LatestPhase \in {"", "Failed"}
          /\ Goto(e, "submit")
          /\ NoHazard
          /\ UNCHANGED <<attempt, seen, area>>
       \/ CallFails(e) /\ UNCHANGED <<seen, area>>
    /\ UNCHANGED <<stage, files, argo>>

\* A workflow is created.  Its name is generated, so it may be listed last or not.
CreateWorkflow ==
    /\ wf' = Append(wf, [phase |-> "", left |-> Areas])
    /\ last' \in {Len(wf) + 1} \cup ({last} \ {0})

\* SubmitPanRPCWorkflow: an error may hide that the workflow was created.
SubmitWorkflow(e) ==
    /\ pc[e] = "submit"
    /\ \/ /\ CreateWorkflow
          /\ seen' = [seen EXCEPT ![e] = Len(wf) + 1]
          /\ Goto(e, "wait")
          /\ NoHazard
          /\ UNCHANGED attempt
       \/ /\ CallFails(e)
          /\ CreateWorkflow \/ UNCHANGED argo
          /\ UNCHANGED seen
    /\ UNCHANGED <<stage, files, area>>

\* WaitWorkflowCompleted.
WaitWorkflow(e) ==
    /\ pc[e] = "wait"
    /\ \/ /\ wf[seen[e]].phase = "Succeeded"
          /\ StartMerge(e)
          /\ NoHazard
          /\ UNCHANGED attempt
       \/ /\ wf[seen[e]].phase = "Failed"
          /\ AttemptFails(e)
          /\ NoHazard
          /\ UNCHANGED area
       \/ Strike("timeout") /\ AttemptFails(e) /\ UNCHANGED area
       \/ CallFails(e) /\ UNCHANGED area
    /\ UNCHANGED <<stage, files, argo, seen>>

\* One pass of the loop of mergePanRpcOnPersist: the part is moved, or the merge ends
\* with an error because the part is not among the workers' files.
MergeArea(e) ==
    /\ pc[e] = "merge"
    /\ \/ /\ area[e] \in workers
          /\ workers' = workers \ {area[e]}
          /\ merged' = merged \cup {area[e]}
          /\ IF area[e] = NumAreas
             THEN Goto(e, "clean") /\ UNCHANGED area
             ELSE area' = [area EXCEPT ![e] = @ + 1] /\ UNCHANGED pc
          /\ NoHazard
          /\ UNCHANGED attempt
       \/ area[e] \notin workers /\ AttemptFails(e) /\ NoHazard /\ UNCHANGED <<files, area>>
       \/ CallFails(e) /\ UNCHANGED <<files, area>>
    /\ UNCHANGED <<stage, argo, seen>>

\* The workers directory is removed; an error is logged.
CleanWorkers(e) ==
    /\ pc[e] = "clean"
    /\ \/ workers' = {} /\ NoHazard
       \/ UNCHANGED workers /\ Strike("fault")
    /\ Goto(e, "succeed")
    /\ UNCHANGED <<stage, merged, argo, attempt, seen, area>>

\* updateStageStatus of runStage.
Succeed(e) ==
    /\ pc[e] = "succeed"
    /\ stage' = "success"
    /\ Goto(e, "done")
    /\ UNCHANGED <<files, argo, attempt, seen, area, spent>>

GiveUp(e) ==
    /\ pc[e] = "fail"
    /\ stage' = "failed"
    /\ Goto(e, "done")
    /\ UNCHANGED <<files, argo, attempt, seen, area, spent>>

\* The executor is between two renames.
MidMerge(e) == pc[e] = "merge" /\ area[e] > 1

\* The process of the executor ends; the job will be taken up again.
Crash(e) ==
    /\ pc[e] \notin {"idle", "done"}
    /\ Strike(IF MidMerge(e) THEN "mergeCrash" ELSE "crash")
    /\ Goto(e, "idle")
    /\ UNCHANGED <<stage, files, argo, attempt, seen, area>>

-----------------------------------------------------------------------------
(* The workflow controller and its Pods.                                   *)

SetPhase(w, p) == wf' = [wf EXCEPT ![w].phase = p]

StartWorkflow(w) ==
    /\ wf[w].phase = ""
    /\ SetPhase(w, "Running")
    /\ UNCHANGED <<stage, files, last, pc, attempt, seen, area, spent>>

\* The step of one area has written its part.
WritePart(w) ==
    /\ wf[w].phase = "Running"
    /\ \E a \in wf[w].left :
          /\ workers' = workers \cup {a}
          /\ wf' = [wf EXCEPT ![w].left = @ \ {a}]
    /\ UNCHANGED <<stage, merged, last, pc, attempt, seen, area, spent>>

EndWorkflow(w) ==
    /\ wf[w].phase = "Running"
    /\ wf[w].left = {}
    /\ SetPhase(w, "Succeeded")
    /\ UNCHANGED <<stage, files, last, pc, attempt, seen, area, spent>>

FailWorkflow(w) ==
    /\ wf[w].phase \in {"", "Running"}
    /\ Strike("workflow")
    /\ SetPhase(w, "Failed")
    /\ UNCHANGED <<stage, files, last, pc, attempt, seen, area>>

-----------------------------------------------------------------------------

ExecutorStep(e) ==
    \/ Begin(e) \/ CheckMerged(e) \/ PrepareWorkerDirs(e) \/ CheckWorkerParts(e)
    \/ LatestWorkflow(e) \/ SubmitWorkflow(e) \/ WaitWorkflow(e)
    \/ MergeArea(e) \/ CleanWorkers(e) \/ Succeed(e) \/ GiveUp(e)

ControllerStep(w) == StartWorkflow(w) \/ WritePart(w) \/ EndWorkflow(w)

Next ==
    \/ \E e \in Executors : ExecutorStep(e) \/ Crash(e)
    \/ \E w \in DOMAIN wf : ControllerStep(w) \/ FailWorkflow(w)

Spec == Init /\ [][Next]_vars

\* Goroutines keep running, jobs are delivered again after a crash, and the controller
\* works on every workflow.
Fairness ==
    /\ \A e \in Executors : WF_vars(ExecutorStep(e))
    /\ WF_vars(\E w \in DOMAIN wf : ControllerStep(w))

FairSpec == Spec /\ Fairness

-----------------------------------------------------------------------------
(* Properties.                                                             *)

TypeOK ==
    /\ stage \in {"pending", "running", "success", "failed"}
    /\ workers \subseteq Areas /\ merged \subseteq Areas
    /\ wf \in Seq(Workflow)
    /\ last \in 0 .. Len(wf) /\ (last = 0 => wf = <<>>)
    /\ pc \in [Executors -> ExecutorPC]
    /\ attempt \in [Executors -> 0 .. (StageMaxRetries + 1)]
    /\ seen \in [Executors -> 0 .. Len(wf)]
    /\ \A e \in Executors : pc[e] = "wait" => seen[e] # 0
    /\ area \in [Executors -> Areas]
    /\ spent \in [Hazards -> Nat]

\* When an executor reports success every area has its part in the output directory,
\* whichever way the parts got there and whoever else works on the stage
\* (mergePanRpcOnPersist and the resume of executePanRpcViaArgo).
SuccessHasAllParts ==
    (stage = "success" \/ \E e \in Executors : pc[e] = "succeed") => merged = Areas

\* Without a failing call, a failing workflow or a timeout the stage does not fail:
\* an executor that is killed is replaced by one that resumes (the
\* resume branches of executePanRpcViaArgo).
FailsForAReason ==
    (\A h \in {"fault", "workflow", "timeout"} : spent[h] = 0) => stage # "failed"

\* Once all parts are merged nobody has them computed again, also when the executor is
\* killed before it could report the success (the first resume branch).
MergedIsNotRecomputed ==
    [][merged = Areas => Len(wf') = Len(wf)]_vars

\* The stage gets its success in the end when the hazards that strike are restarts.
StageSucceeds == <>(stage = "success")
=============================================================================
