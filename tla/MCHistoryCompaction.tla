------------------------ MODULE MCHistoryCompaction ------------------------
(* Instances of HistoryCompaction for TLC. *)
EXTENDS HistoryCompaction, TLC

CONSTANTS c1, c2
TwoCalls == {c1, c2}
Alike == Permutations(TwoCalls)
=============================================================================
