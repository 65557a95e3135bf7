---------------------------- MODULE ComputerState ----------------------------
(***************************************************************************)
(* One computer of the bot server: the row that names its sandbox, the     *)
(* execution leases of the bots that share it, the sandboxes at the        *)
(* provider, the runs of those bots, and the calls (of continueRun, of     *)
(* computer.boot, computer.reset and computer.stop, of the sleep job) that *)
(* work on all of them with nothing but compare-and-swaps on the row.      *)
(*                                                                         *)
(* This module holds the state and what several operations share.  The     *)
(* operations are in ComputerLease (the execution lease), ComputerBoot     *)
(* (provisionComputer) and ComputerShutdown (sleep, stop, reset and the    *)
(* checkpoint of a run); ComputerLifecycle puts them together.             *)
(*                                                                         *)
(* The row's updatedAt is its CLAIM STAMP.  The code only ever compares it *)
(* with one a call read or wrote before, and with the clock: so each call  *)
(* knows whether the stamp it remembers is CURRENT, and "older than        *)
(* BOOT_CLAIM_STALE_MS" is a flag of the row.  An expiry is likewise the   *)
(* answer to "expiresAt > now".  Maintenance, user control and the         *)
(* archiving of bots are left to modules of their own.                     *)
(***************************************************************************)
EXTENDS Naturals

CONSTANTS
  Bots,        \* the bots that use the computer
  Runs,        \* the runs that may be created
  BotOf,       \* the bot of a run
  Calls,       \* the calls that may be under way
  Boxes,       \* the sandboxes the provider may make
  Team,        \* whether the computer is shared (scope "team")
  Mounted,     \* whether its provider mounts the workspace (kind "docker")
  Operations,  \* the operations that occur
  SlowOperations, \* those that may outlast BOOT_CLAIM_STALE_MS while alive
  Faults,      \* the kinds of faults that occur
  MaxFence,    \* bound: how often the lease of one bot is taken
  MaxUpsets,   \* bound: how many faults there are
  NoBox, Nobody, Dead

\* In a pause a run waits for its user; clear and halt end it from outside; the others
\* are calls.
AllOperations == {"run", "boot", "reset", "sleep", "stop", "pause", "clear", "halt"}
AllFaults     == {"crash", "stall", "provider", "rollback", "screen", "vanish"}

ASSUME BotOfType    == BotOf \in [Runs -> Bots]
ASSUME SwitchesType == /\ Team \in BOOLEAN /\ Mounted \in BOOLEAN
                       /\ Operations \subseteq AllOperations
                       /\ SlowOperations \subseteq Operations
                       /\ Faults \subseteq AllFaults
ASSUME BoundsNat    == MaxFence \in Nat /\ MaxUpsets \in Nat
ASSUME NullsAreNew  == /\ NoBox \notin Boxes
                       /\ Nobody # Dead
                       /\ {Nobody, Dead} \cap (Runs \union Calls) = {}
                       /\ Runs \cap Calls = {}

VARIABLES
  computer,  \* the row: state, providerRef, and whether updatedAt is old
  lease,     \* the execution lease of each bot
  run,       \* the runs, and which call holds each one's worker lease
  box,       \* the sandboxes at the provider
  screen,    \* the last screen lease each bot's screen was claimed with
  call,      \* the local variables of each call
  upsets     \* how much of the fault budget is spent

vars == <<computer, lease, run, box, screen, call, upsets>>

-----------------------------------------------------------------------------
(* Types *)

States == {"stopped", "booting", "running", "suspending", "suspended", "error"}

Computer == [state: States, ref: Boxes \union {NoBox}, aged: BOOLEAN]

NewRow == [state |-> "stopped", ref |-> NoBox, aged |-> FALSE]

\* An owner is a runId: a run, or a manual id made up by a call of its own.
Lease   == [owner: Runs \union Calls \union {Nobody}, fence: Nat, live: BOOLEAN]
NoLease == [owner |-> Nobody, fence |-> 0, live |-> FALSE]

\* A paused run waits for input.  A halting one is cancelled, and its lease is yet to
\* be expired.
RunRow == [status: {"absent", "active", "paused", "halting", "over"}, holder: Calls \union {Nobody, Dead}]

Screen   == [box: Boxes \union {NoBox}, owner: Runs \union {Nobody}, fence: Nat]
NoScreen == [box |-> NoBox, owner |-> Nobody, fence |-> 0]

Places ==
  {"idle", "lease.ask", "lease.take", "lease.validate", "lease.refused",
   "boot.look", "boot.foreign", "boot.wait", "boot.reclaim", "boot.claim",
   "boot.provision", "boot.prepare", "boot.activate", "boot.rollback",
   "boot.evicted", "boot.record",
   "run.work", "run.save", "run.saved", "run.close", "run.requeue",
   "sleep.look", "sleep.ask", "sleep.claim", "sleep.export", "sleep.save",
   "sleep.recheck", "sleep.recheckRuns", "sleep.recheckClaim", "sleep.stop",
   "sleep.record", "sleep.unclaim",
   "stop.look", "stop.claim", "stop.ask", "stop.restore", "stop.forget",
   "stop.export", "stop.stop", "stop.record", "stop.fail",
   "reset.look", "reset.check", "reset.claim", "reset.recheck", "reset.restore",
   "reset.destroy", "reset.record", "reset.fail",
   "leave"}

\* op, bot, run: what the call does, for whom (run is Nobody unless op is "run").
\* fence: its execution lease, 0 for none.  seen: the row as it was read; mark:
\* what a boot that has to wait read first.  current: the row still carries the
\* stamp of that first read or, after its claim, of that.  box, fresh: what the
\* provider returned.
CallState ==
  [at: Places, op: AllOperations \union {"none"}, bot: Bots \union {Nobody},
   run: Runs \union {Nobody}, fence: Nat, seen: Computer, mark: Computer,
   current: BOOLEAN, box: Boxes \union {NoBox}, fresh: BOOLEAN]

IdleCall == [at |-> "idle", op |-> "none", bot |-> Nobody, run |-> Nobody,
             fence |-> 0, seen |-> NewRow, mark |-> NewRow, current |-> FALSE,
             box |-> NoBox, fresh |-> FALSE]

Init ==
  /\ computer = NewRow
  /\ lease = [b \in Bots |-> NoLease]
  /\ run = [r \in Runs |-> [status |-> "absent", holder |-> Nobody]]
  /\ box = [x \in Boxes |-> "none"]
  /\ screen = [b \in Bots |-> NoScreen]
  /\ call = [c \in Calls |-> IdleCall]
  /\ upsets = 0

-----------------------------------------------------------------------------
(* The locals of a call *)

Busy(c) == call[c].at # "idle"

Set(c, new) == call' = [call EXCEPT ![c] = new]

GoTo(c, place) == Set(c, [call[c] EXCEPT !.at = place])

Return(c) == Set(c, IdleCall)

\* The call goes on and keeps nothing but whom it is for and its lease.
Only(c, place) ==
  [IdleCall EXCEPT !.at = place, !.op = call[c].op, !.bot = call[c].bot,
                   !.run = call[c].run, !.fence = call[c].fence]

\* Where a call goes whose boot or reset failed or was refused.  A run is put
\* back in the queue; the others answer "Computer is busy" or with the error.
GivenUp(c) == Only(c, IF call[c].op = "run" THEN "run.requeue" ELSE "leave")
GiveUp(c)  == Set(c, GivenUp(c))

-----------------------------------------------------------------------------
(* Writing the row *)

\* (wrong: the write restores the stamp)
WriteKeepsTheStamp(c, state, ref, new) ==
  /\ computer' = [state |-> state, ref |-> ref, aged |-> FALSE]
  /\ Set(c, new)

\* A write of the row, and the locals of the call that writes.  Prisma's @updatedAt
\* moves the stamp with any write, so what the other calls remember is outdated.
Write(c, state, ref, new) ==
  /\ computer' = [state |-> state, ref |-> ref, aged |-> FALSE]
  /\ call' = [d \in Calls |-> IF d = c THEN new ELSE [call[d] EXCEPT !.current = FALSE]]

\* A write whose stamp the call goes on to work under.
Claim(c, state, place) ==
  Write(c, state, computer.ref, [call[c] EXCEPT !.at = place, !.current = TRUE])

\* A private computer, or one whose workspace is mounted, is not claimed for the
\* checkpoint of a run.
Exclusive == Team /\ ~Mounted

\* Where a call works under a claim of its own.
ClaimedPlaces ==
  {"boot.provision", "boot.prepare", "boot.activate", "boot.rollback", "boot.evicted",
   "boot.record", "sleep.export", "sleep.save", "sleep.recheck", "sleep.recheckRuns",
   "sleep.recheckClaim", "sleep.stop", "sleep.record", "sleep.unclaim",
   "stop.ask", "stop.restore", "stop.forget", "stop.export", "stop.stop", "stop.record",
   "stop.fail", "reset.recheck", "reset.restore", "reset.destroy", "reset.record",
   "reset.fail"} \union (IF Exclusive THEN {"run.save", "run.saved"} ELSE {})

Claimed(c) == call[c].at \in ClaimedPlaces

\* The row still carries the claim of this call.
HasClaim(c) == Claimed(c) /\ call[c].current

Active(r)     == run[r].status \in {"active", "paused"}
HoldsRun(c)   == call[c].run # Nobody /\ run[call[c].run].holder = c
ActiveRun     == \E r \in Runs : Active(r)

\* A live worker lease on another run that uses this computer.
LiveForeignRunLease(c) ==
  \E r \in Runs : Active(r) /\ run[r].holder # Nobody /\ r # call[c].run

IsUp == computer.state = "running" /\ computer.ref # NoBox

LiveSuspending == computer.state = "suspending" /\ ~computer.aged

Fault(kind) ==
  /\ kind \in Faults
  /\ upsets < MaxUpsets
  /\ upsets' = upsets + 1

=============================================================================
