---------------------------- MODULE ComputerLease ----------------------------
(***************************************************************************)
(* The execution lease: one row per bot of a Team computer.  Taking it is  *)
(* a read of the computer, a write of the lease and a second read of the   *)
(* computer; whoever suspends the computer looks for live leases in the    *)
(* write that claims it.  A released row stays, so that its fence grows.   *)
(***************************************************************************)
EXTENDS ComputerState

\* (wrong: the lease carries the bot)
OwnerIsTheBot(c) == call[c].bot

\* The runId a call's lease carries.
Owner(c) == IF call[c].op = "run" THEN call[c].run ELSE c

HoldsLease(c) ==
  /\ call[c].fence > 0
  /\ lease[call[c].bot].owner = Owner(c)
  /\ lease[call[c].bot].fence = call[c].fence

\* The heartbeat of a run finds its run or its lease gone, and aborts the call.
Aborted(c) ==
  /\ call[c].op = "run"
  /\ ~HoldsRun(c) \/ (Team /\ ~(HoldsLease(c) /\ lease[call[c].bot].live))

\* No live lease but the call's own.
HeldByNobodyElse(c) ==
  \A b \in Bots : lease[b].live => b = call[c].bot /\ HoldsLease(c)

\* No live lease of another bot.
NoForeignLease(c) == \A b \in Bots \ {call[c].bot} : ~lease[b].live

NoLiveLease == \A b \in Bots : ~lease[b].live

\* Where a call goes once it has its lease, or needs none.
Leased(c) == IF call[c].op = "reset" THEN "reset.look" ELSE "boot.look"

\* acquireComputerExecutionLease: a private computer needs no lease; one that is
\* being suspended gives none.
AskForLease(c) ==
  /\ call[c].at = "lease.ask"
  /\ \/ ~Team /\ GoTo(c, Leased(c))
     \/ Team /\ LiveSuspending /\ GiveUp(c)
     \/ Team /\ ~LiveSuspending /\ GoTo(c, "lease.take")
  /\ UNCHANGED <<computer, lease, run, box, screen, upsets>>

\* The row is created, or an expired one is taken over with a higher fence; if it
\* is live the creation fails on the unique key.
TakeLease(c) ==
  LET b == call[c].bot IN
  /\ call[c].at = "lease.take"
  /\ \/ /\ ~lease[b].live /\ lease[b].fence < MaxFence
        /\ lease' = [lease EXCEPT ![b] = [owner |-> Owner(c), fence |-> @.fence + 1,
                                          live |-> TRUE]]
        /\ Set(c, [call[c] EXCEPT !.at = "lease.validate", !.fence = lease[b].fence + 1])
     \/ lease[b].live /\ GiveUp(c) /\ UNCHANGED lease
  /\ UNCHANGED <<computer, run, box, screen, upsets>>

\* validateAcquiredComputerLease: a suspension that began in between wins.
ValidateLease(c) ==
  /\ call[c].at = "lease.validate"
  /\ GoTo(c, IF LiveSuspending THEN "lease.refused" ELSE Leased(c))
  /\ UNCHANGED <<computer, lease, run, box, screen, upsets>>

Expired(c) ==
  IF HoldsLease(c) THEN [lease EXCEPT ![call[c].bot].live = FALSE] ELSE lease

\* The lease is given back and the call is refused.
RefuseLease(c) ==
  /\ call[c].at = "lease.refused"
  /\ lease' = Expired(c)
  /\ Set(c, [GivenUp(c) EXCEPT !.fence = 0])
  /\ UNCHANGED <<computer, run, box, screen, upsets>>

\* (wrong: the row is deleted, so the next holder starts at fence 1)
LeaveNoTombstone(c) ==
  /\ call[c].at = "leave"
  /\ lease' = IF HoldsLease(c) THEN [lease EXCEPT ![call[c].bot] = NoLease] ELSE lease
  /\ Return(c)
  /\ UNCHANGED <<computer, run, box, screen, upsets>>

\* releaseComputerExecutionLease in the finally block of every caller: the row
\* stays as an expired tombstone.
Leave(c) ==
  /\ call[c].at = "leave"
  /\ lease' = Expired(c)
  /\ Return(c)
  /\ UNCHANGED <<computer, run, box, screen, upsets>>

\* A lease lapses: its holder is gone; or it is a manual one, which nobody renews,
\* of a slow call; or the process of the run's call stalls.
LeaseLapses(b) ==
  /\ lease[b].live
  /\ LET holders == {c \in Calls : Busy(c) /\ call[c].bot = b /\ HoldsLease(c)} IN
     \/ /\ \A c \in holders : call[c].op # "run" /\ call[c].op \in SlowOperations
        /\ UNCHANGED upsets
     \/ Fault("stall")
  /\ lease' = [lease EXCEPT ![b].live = FALSE]
  /\ UNCHANGED <<computer, run, box, screen, call>>

LeaseStep(c) ==
  \/ AskForLease(c) \/ TakeLease(c) \/ ValidateLease(c) \/ RefuseLease(c) \/ Leave(c)

=============================================================================
