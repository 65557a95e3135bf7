----------------------------- MODULE RunHolders -----------------------------
(***************************************************************************)
(* What the end of a turn does to the messages the turn was given.  A      *)
(* worker process runs several calls of continueRun under one workerId, so *)
(* that two of them can hold one run with the same owner and fence (see    *)
(* ReclaimRaisesFence).  Each then writes for the other, and no property   *)
(* of a turn holds.  The history variable paired remembers which calls     *)
(* this has happened to, so that the properties can speak of all others,   *)
(* in any number of processes with any number of calls.                    *)
(***************************************************************************)
EXTENDS RunLifecycle

VARIABLE paired  \* the calls that have held their run together with another call

holdersVars == <<vars, paired>>

\* The writes of the call for its run are accepted.
Holds(h) == handler[h].at \in {"started", "setup", "begun", "working"} /\ Owns(h)

HoldTogether(g, h) == g # h /\ handler[g].run = handler[h].run /\ Holds(g) /\ Holds(h)

\* A call is new when it is idle.
Remember ==
  paired' = {h \in Handlers : /\ handler'[h].at # "idle"
                             /\ \/ h \in paired
                                \/ \E g \in Handlers : HoldTogether(g, h)'}

HoldersInit == Init /\ paired = {}
HoldersNext == Next /\ Remember
HoldersSpec == HoldersInit /\ [][HoldersNext]_holdersVars

-----------------------------------------------------------------------------
(* Properties *)

\* A call that held its run alone completes it.
Completes(h) ==
  LET r == handler[h].run IN
  /\ h \notin paired
  /\ handler[h].at = "working" /\ handler'[h].at = "idle"
  /\ run[r].status = "running" /\ run'[r].status = "completed"

\* Completing a run settles no message that was not given to the turn that
\* completes it: not one that arrived late, nor one given to a lost attempt.
CompletedConsumesOnlyTold ==
  [][\A h \in Handlers : Completes(h) =>
       \A m \in Messages :
         steering[m].live /\ ~ steering'[m].live => m \in handler[h].told]_holdersVars

\* A message that a failed run gave back with its claim: a turn beside that run is
\* given it and does not bind it.
FreedClaimed(m) == steering[m].run = NoRun /\ steering[m].claimed

\* Completing a run settles all that was given to its turn: no later run is
\* given a message that a completed run has taken up.
CompletedSettlesTold ==
  [][\A h \in Handlers : Completes(h) =>
       \A m \in handler[h].told : steering'[m].live => FreedClaimed(m)]_holdersVars
=============================================================================
