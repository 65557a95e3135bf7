--------------------------- MODULE MCRunLifecycle ---------------------------
(* Instances of RunLifecycle for TLC. *)
EXTENDS RunLifecycle, TLC

CONSTANTS r1, r2, r3, h1, h2, w1, w2

OneRun    == {r1}
TwoRuns   == {r1, r2}
ThreeRuns == {r1, r2, r3}
OneHandler  == {h1}
TwoHandlers == {h1, h2}
OneWorker   == {w1}
TwoWorkers  == {w1, w2}

\* One call; a process for each call; one process that runs both.
OneProcess    == h1 :> w1
OwnProcess    == h1 :> w1 @@ h2 :> w2
SharedProcess == h1 :> w1 @@ h2 :> w1

RunsAlike == Permutations(Runs)
=============================================================================
