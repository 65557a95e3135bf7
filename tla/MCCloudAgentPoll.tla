--------------------------- MODULE MCCloudAgentPoll ---------------------------
(* Instances of CloudAgentPoll for TLC. *)
EXTENDS CloudAgentPoll, TLC

CONSTANTS p1, p2

OnePoll  == {p1}
TwoPolls == {p1, p2}

PollsAlike == Permutations(Polls)

CloudLiveSpec == CloudSpec /\ CloudFairness
=============================================================================
