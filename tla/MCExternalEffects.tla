--------------------------- MODULE MCExternalEffects ---------------------------
(* Instances of ExternalEffects for TLC. *)
EXTENDS ExternalEffects, TLC

CONSTANTS w1, w2, r1, r2

OneWorker   == {w1}
TwoWorkers  == {w1, w2}
OneRequest  == {r1}
TwoRequests == {r1, r2}
OneTool     == [r \in Requests |-> "send"]
ToolEach    == [r \in Requests |-> IF r = r1 THEN "send" ELSE "post"]

WorkersAlike == Permutations(Workers)
=============================================================================
