------------------------ MODULE ObjectDetectionTasksMC ------------------------
(* Instances of ObjectDetectionTasks for TLC: the tasks are interchangeable. *)
EXTENDS ObjectDetectionTasks, TLC

CONSTANTS t1, t2   \* tasks

MCTasks == {t1, t2}
MCTaskSymmetry == Permutations(MCTasks)
=============================================================================
