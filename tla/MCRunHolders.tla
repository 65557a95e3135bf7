---------------------------- MODULE MCRunHolders ----------------------------
(* The instances of MCRunLifecycle, with the history of the run's holders. *)
EXTENDS MCRunLifecycle, RunHolders
=============================================================================
