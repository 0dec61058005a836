--------------------------- MODULE TaskPipelineMC ---------------------------
(* Instances of TaskPipeline for TLC: which rs-workers belong to other      *)
(* satellites than the tasks, and how often each hazard may strike.         *)
EXTENDS TaskPipeline, TLC

CONSTANT Elsewhere  \* rs-workers of other satellites

OwnJobs == [w \in RSWorkers |-> IF w \in Elsewhere THEN {} ELSE Tasks]

\* Each hazard in the set may strike once, the others not at all.
Once(hs) == [h \in Hazards |-> IF h \in hs THEN 1 ELSE 0]

AnyHazard     == Once(Hazards)
WorkerHazards == Once(Hazards \ {"apiCrash"})

\* Restarts and redelivery, no failing command: what the code recovers from.
Recoverable   == Once({"apiCrash", "rsCrash", "slow", "output", "odGroup",
                       "foreign"})

\* A worker is killed while it hands a job back.
HandingBack   == Once({"handBack", "foreign"})

Symmetry == Permutations(RSWorkers \ Elsewhere)
=============================================================================
