-------------------------- MODULE ParallelPartsMC --------------------------
(* Instances of ParallelParts for TLC.                                      *)
EXTENDS ParallelParts

\* PAN RPC with groups of two areas and of one, pansharpening with a band that
\* waits for its place.
FewParts == [rpc |-> 3, sharpen |-> 2]
Places   == [rpc |-> 2, sharpen |-> 1]

EachOnce == [h \in Hazards |-> 1]

\* Two executors, or one that meets any of the other hazards.
SharedOrNot == {{"duplicate"}, Hazards \ {"duplicate"}}
=============================================================================
