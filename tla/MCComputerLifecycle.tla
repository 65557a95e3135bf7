------------------------- MODULE MCComputerLifecycle -------------------------
(* Instances of ComputerLifecycle for TLC. *)
EXTENDS ComputerLifecycle, TLC

CONSTANTS b1, b2, r1, r2, c1, c2, x1, x2

OneBot  == {b1}
TwoBots == {b1, b2}
OneRun  == {r1}
TwoRuns == {r1, r2}
TwoCalls == {c1, c2}
TwoBoxes == {x1, x2}

SameBot == r1 :> b1 @@ r2 :> b1
OwnBot  == r1 :> b1 @@ r2 :> b2
OneOwn  == r1 :> b1

Alike == Permutations(Calls) \union Permutations(Boxes)

\* With OwnBot the two bots are alike, each with its run.
Swapped == b1 :> b2 @@ b2 :> b1 @@ r1 :> r2 @@ r2 :> r1
AlikeBots == Alike \union {Swapped}
=============================================================================
