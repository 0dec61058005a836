---------------------------- MODULE StageFilesMC ----------------------------
(* What a task leaves for others, in one run: the files of its stages      *)
(* (StageFiles), the artifact rows of its detection (DetectionArtifacts),  *)
(* its events (StageEvents), and its rows where the rs-workers detect      *)
(* themselves (TaskPipeline without UseODWorker).  The four share no state;*)
(* the first state chooses one of them, and the others take no step.       *)
EXTENDS StageFiles

CONSTANTS
    Detections, Gets, Images, MaxErrors,  \* DetectionArtifacts
    Clients, BufferSize, MaxEvents,       \* StageEvents
    NoTask, API, p3                       \* TaskPipeline

VARIABLES
    chosen,
    disk, artifactRows, completed, apc, out, entries, existing, todo, overlapped, errors,
    subscribers, buffer, hpc, got, event, sending, waiting, since, late, panicked,
    iTask, iWants, iRow, iStage, iArtifact, iDone, iHandler, iQueue, iGroup,
    iProc, iTodo, iInbox, iRelease, iRun, iSpent

artifactVars == <<disk, artifactRows, completed, apc, out, entries, existing, todo,
                  overlapped, errors>>
eventVars == <<subscribers, buffer, hpc, got, event, sending, waiting, since, late, panicked>>
inlineVars == <<iTask, iWants, iRow, iStage, iArtifact, iDone, iHandler, iQueue, iGroup,
                iProc, iTodo, iInbox, iRelease, iRun, iSpent>>
allVars   == <<chosen, vars, artifactVars, eventVars, inlineVars>>

Deployed(i, a, d, o) == [isolated |-> i, argo |-> a, direct |-> d, odWorker |-> o]

\* The deployment of the manifests, one with Argo and an od-worker but without isolation,
\* and one where the rs-worker detects.
SomeDeployments == {Deployed(TRUE, TRUE, TRUE, TRUE), Deployed(FALSE, TRUE, FALSE, TRUE),
                    Deployed(FALSE, FALSE, TRUE, FALSE)}
EachOnce == [h \in Hazards |-> 1]
OneImage == {1}

Artifacts == INSTANCE DetectionArtifacts WITH rows <- artifactRows, pc <- apc

Events == INSTANCE StageEvents WITH pc <- hpc

\* The Pods are rs-workers, with one more of another satellite; one stage before the
\* detection and a retry; one kind of hazard.
Inline == INSTANCE TaskPipeline WITH
    RSWorkers <- Pods \cup {p3}, ODWorkers <- {}, RSConcurrency <- 1, ODConcurrency <- 1,
    Serves <- [w \in Pods \cup {p3} |-> IF w = p3 THEN {} ELSE Tasks],
    NumPrep <- 1, StageMaxRetries <- 1, UseODWorker <- FALSE, DetectRequests <- BOOLEAN,
    Budget <- [h \in {"fault", "apiCrash", "rsCrash", "odCrash", "slow", "output", "rsGroup",
                      "odGroup", "handBack", "foreign"} |-> 1], MaxKinds <- 1,
    task <- iTask, wants <- iWants, row <- iRow, stage <- iStage, artifact <- iArtifact,
    done <- iDone, handler <- iHandler, queue <- iQueue, group <- iGroup, proc <- iProc,
    todo <- iTodo, inbox <- iInbox, release <- iRelease, run <- iRun, spent <- iSpent

ASSUME OthersAssumption ==
    Artifacts!ArtifactsAssumption /\ Events!EventsAssumption /\ Inline!ConstantsAssumption

AnyInit ==
    /\ chosen \in {"files", "artifacts", "events", "inline"}
    /\ Init /\ Artifacts!Init /\ Events!Init /\ Inline!Init
    /\ chosen # "files" => wants = {} /\ cfg.isolated

AnyNext ==
    /\ \/ chosen = "files" /\ Next /\ UNCHANGED <<artifactVars, eventVars, inlineVars>>
       \/ chosen = "artifacts" /\ Artifacts!Next /\ UNCHANGED <<vars, eventVars, inlineVars>>
       \/ chosen = "events" /\ Events!Next /\ UNCHANGED <<vars, artifactVars, inlineVars>>
       \/ chosen = "inline" /\ Inline!Next /\ UNCHANGED <<vars, artifactVars, eventVars>>
    /\ UNCHANGED chosen

\* The fairness of StageEvents; nothing is asked of the others that needs any.
AnySpec ==
    /\ AnyInit /\ [][AnyNext]_allVars
    /\ WF_eventVars(chosen = "events" /\ Events!Publishing)

\* The types of the first three; TypeOK of TaskPipeline is checked in its own run.
TypesOK == TypeOK /\ Artifacts!TypeOK /\ Events!TypeOK

\* InputsPresent and NamedFilesPresent are properties of StageFiles; these are of the others.

\* After one detection and requests that did not overlap, a file has one row.
CountedOnceIfAlone == Artifacts!CountedOnceIfAlone

\* A request that runs alone brings the rows in line with the files.
SyncedIfAlone == Artifacts!SyncedIfAlone

\* A subscriber gets every event, in order, that was not given up.
StreamsComplete == Events!StreamsComplete

\* Only a client that leaves during a publication is sent to after it left.
ClosedOnlyWhilePublishing == Events!ClosedOnlyWhilePublishing

\* A publication ends, although clients may not read.
PublishingEnds == Events!PublishingEnds

\* Without od-workers, too, a task is completed after all its work only, is not forgotten
\* while it is pending, though a worker may hand its job back, and its rows agree.
InlineSound ==
    /\ Inline!CompletedRanEveryStage
    /\ Inline!PendingNotForgotten
    /\ Inline!FinishedRowsAgree
=============================================================================
