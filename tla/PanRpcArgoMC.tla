----------------------------- MODULE PanRpcArgoMC -----------------------------
(* Instances of PanRpcArgo for TLC: how often each hazard may strike.      *)
EXTENDS PanRpcArgo, TLC

NoHazards  == [h \in Hazards |-> 0]
MergeCrash == [NoHazards EXCEPT !["mergeCrash"] = 1]
AllOnce    == [h \in Hazards |-> 1]

Symmetry == Permutations(Executors)
=============================================================================
