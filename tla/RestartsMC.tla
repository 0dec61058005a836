----------------------------- MODULE RestartsMC -----------------------------
(* What a killed process leaves behind is finished by others: the tasks of *)
(* a detection server (ObjectDetectionTasks) and the stage of an executor  *)
(* of Argo workflows (PanRpcArgo).  The two share no state; the first state*)
(* chooses one of them, and the other takes no step.                       *)
EXTENDS ObjectDetectionTasks

CONSTANT Executor   \* of the Argo workflows

VARIABLES
    chosen,
    wStage, wWorkers, wMerged, wWf, wLast, wPc, wAttempt, wSeen, wArea, wSpent

workflowVars == <<wStage, wWorkers, wMerged, wWf, wLast, wPc, wAttempt, wSeen, wArea, wSpent>>

\* Isolated directories, a retry, the four areas of the code; the executor's process may
\* be killed twice, not while it merges.
Argo == INSTANCE PanRpcArgo WITH
    Executors <- {Executor}, NumAreas <- 4, StageMaxRetries <- 1, TaskPathIsolation <- TRUE,
    Budget <- [crash |-> 2, mergeCrash |-> 0, fault |-> 0, workflow |-> 0, timeout |-> 0],
    stage <- wStage, workers <- wWorkers, merged <- wMerged, wf <- wWf, last <- wLast,
    pc <- wPc, attempt <- wAttempt, seen <- wSeen, area <- wArea, spent <- wSpent

EitherInit == chosen \in {"detection", "workflows"} /\ Init /\ Argo!Init

EitherNext ==
    /\ \/ chosen = "detection" /\ Next /\ UNCHANGED workflowVars
       \/ chosen = "workflows" /\ Argo!Next /\ UNCHANGED vars
    /\ UNCHANGED chosen

\* The fairness of both modules.
EitherSpec ==
    /\ EitherInit /\ [][EitherNext]_<<vars, workflowVars, chosen>>
    /\ \A t \in Tasks : WF_vars(chosen = "detection" /\ RequestStep(t))
    /\ \A p \in Servers :
          /\ WF_vars(chosen = "detection" /\ StartServer(p))
          /\ WF_vars(chosen = "detection" /\ BootStep(p))
    /\ \A w \in Workers : WF_vars(chosen = "detection" /\ WorkerStep(w))
    /\ WF_workflowVars(chosen = "workflows" /\ Argo!ExecutorStep(Executor))
    /\ WF_workflowVars(chosen = "workflows" /\ \E w \in DOMAIN wWf : Argo!ControllerStep(w))

\* EveryTaskEnds is a property of ObjectDetectionTasks; these are of PanRpcArgo.

\* MergedIsNotRecomputed: merged parts are not computed again.
MergedIsNotRecomputed == Argo!MergedIsNotRecomputed

\* StageSucceeds: the stage gets its success in the end.
StageSucceeds == <>(chosen = "detection" \/ wStage = "success")
=============================================================================
