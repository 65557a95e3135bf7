-------------------------- MODULE ComputerLifecycle --------------------------
(***************************************************************************)
(* One computer and everybody who uses it: the calls that boot it and take *)
(* it down, the runs that work on it, and what goes wrong around them.     *)
(***************************************************************************)
EXTENDS ComputerShutdown

-----------------------------------------------------------------------------
(* Calls begin *)

\* A run of a bot is created.
CreateRun(r) ==
  /\ run[r].status = "absent"
  /\ run' = [run EXCEPT ![r].status = "active"]
  /\ UNCHANGED <<computer, lease, box, screen, call, upsets>>

\* continueRun claims a run nobody holds and asks for the bot's lease.
BeginRun(c, r) ==
  /\ "run" \in Operations
  /\ ~Busy(c)
  /\ run[r].status = "active" /\ run[r].holder = Nobody
  /\ run' = [run EXCEPT ![r].holder = c]
  /\ Set(c, [IdleCall EXCEPT !.at = "lease.ask", !.op = "run", !.run = r, !.bot = BotOf[r]])
  /\ UNCHANGED <<computer, lease, box, screen, upsets>>

\* A user boots, resets or stops the computer of a bot; the sleep job is due.
BeginOther(c, op, b) ==
  /\ op \in Operations
  /\ ~Busy(c)
  /\ op = "boot" => ~IsUp
  /\ Set(c, [IdleCall EXCEPT !.op = op, !.bot = IF op = "sleep" THEN Nobody ELSE b,
               !.at = CASE op = "sleep" -> "sleep.look"
                        [] op = "stop"  -> "stop.look"
                        [] OTHER        -> "lease.ask"])
  /\ UNCHANGED <<computer, lease, run, box, screen, upsets>>

-----------------------------------------------------------------------------
(* The work of a run *)

\* canTakeScreenLease: the same lease again, or a higher fence.
CanTakeScreen(c) ==
  LET s == screen[call[c].bot] IN
  \/ s.box # call[c].box
  \/ s.owner = call[c].run /\ s.fence = call[c].fence
  \/ call[c].fence > s.fence

\* A graphical tool claims the bot's screen in the sandbox.
OpenScreen(c) ==
  /\ Team
  /\ call[c].at = "run.work"
  /\ box[call[c].box] = "up"
  /\ CanTakeScreen(c)
  /\ screen' = [screen EXCEPT ![call[c].bot] =
                  [box |-> call[c].box, owner |-> call[c].run, fence |-> call[c].fence]]
  /\ UNCHANGED <<computer, lease, run, box, call, upsets>>

\* The turn ends the run.
EndRun(c) ==
  /\ call[c].at = "run.work"
  /\ HoldsRun(c)
  /\ run' = [run EXCEPT ![call[c].run] = [status |-> "over", holder |-> Nobody]]
  /\ GoTo(c, "run.close")
  /\ UNCHANGED <<computer, lease, box, screen, upsets>>

\* The turn asks the user: the run waits, active still, and gives the computer back.
PauseRun(c) ==
  /\ "pause" \in Operations
  /\ call[c].at = "run.work"
  /\ HoldsRun(c)
  /\ run' = [run EXCEPT ![call[c].run] = [status |-> "paused", holder |-> Nobody]]
  /\ GoTo(c, "run.close")
  /\ UNCHANGED <<computer, lease, box, screen, upsets>>

\* The user answers, and the run is queued again.
AnswerRun(r) ==
  /\ run[r].status = "paused"
  /\ run' = [run EXCEPT ![r].status = "active"]
  /\ UNCHANGED <<computer, lease, box, screen, call, upsets>>

\* The heartbeat stops the turn.
AbortRun(c) ==
  /\ call[c].at = "run.work"
  /\ Aborted(c)
  /\ GoTo(c, "run.close")
  /\ UNCHANGED <<computer, lease, run, box, screen, upsets>>

\* releaseScreen in the finally block, best effort.
CloseScreen(c) ==
  LET s == screen[call[c].bot] IN
  /\ call[c].at = "run.close"
  /\ \/ /\ screen' = IF s.box = call[c].box /\ s.owner = call[c].run /\ s.fence <= call[c].fence
                       THEN [screen EXCEPT ![call[c].bot] = NoScreen] ELSE screen
        /\ UNCHANGED upsets
     \/ Fault("screen") /\ UNCHANGED screen
  /\ GoTo(c, "leave")
  /\ UNCHANGED <<computer, lease, run, box>>

\* requeueComputerRun: the run is put back, if the call still holds it.
RequeueRun(c) ==
  /\ call[c].at = "run.requeue"
  /\ run' = IF HoldsRun(c) THEN [run EXCEPT ![call[c].run].holder = Nobody] ELSE run
  /\ GoTo(c, "leave")
  /\ UNCHANGED <<computer, lease, box, screen, upsets>>

ExpiredOf(r) ==
  [b \in Bots |-> IF lease[b].owner = r THEN [lease[b] EXCEPT !.live = FALSE] ELSE lease[b]]

\* The user clears the thread: in one transaction the run is cancelled and its lease
\* expired as a tombstone.
CancelRun(r) ==
  /\ "clear" \in Operations
  /\ Active(r)
  /\ run' = [run EXCEPT ![r] = [status |-> "over", holder |-> Nobody]]
  /\ lease' = ExpiredOf(r)
  /\ UNCHANGED <<computer, box, screen, call, upsets>>

\* stopThreadRuns: the run is cancelled; then its screen is released, best effort;
\* then its lease is expired, whoever asked for it in between.
HaltRun(r) ==
  /\ "halt" \in Operations
  /\ Active(r)
  /\ run' = [run EXCEPT ![r] = [status |-> "halting", holder |-> Nobody]]
  /\ UNCHANGED <<computer, lease, box, screen, call, upsets>>

ReleaseHalted(r) ==
  /\ run[r].status = "halting"
  /\ screen' = [b \in Bots |-> IF screen[b].owner = r THEN NoScreen ELSE screen[b]]
  /\ UNCHANGED <<computer, lease, run, box, call, upsets>>

ExpireHalted(r) ==
  /\ run[r].status = "halting"
  /\ run' = [run EXCEPT ![r].status = "over"]
  /\ lease' = ExpiredOf(r)
  /\ UNCHANGED <<computer, box, screen, call, upsets>>

RunStep(c) ==
  \/ OpenScreen(c) \/ EndRun(c) \/ PauseRun(c) \/ AbortRun(c) \/ CloseScreen(c) \/ RequeueRun(c)

-----------------------------------------------------------------------------
(* Time and faults *)

\* The process of a call dies; its leases and its claim live on for a while.
Crash(c) ==
  /\ Busy(c)
  /\ Fault("crash")
  /\ run' = [r \in Runs |-> IF run[r].holder = c THEN [run[r] EXCEPT !.holder = Dead]
                            ELSE run[r]]
  /\ Return(c)
  /\ UNCHANGED <<computer, lease, box, screen>>

\* The worker lease of a run lapses: its process is gone, or stalls.
RunLapses(r) ==
  /\ run[r].holder # Nobody
  /\ \/ run[r].holder = Dead /\ UNCHANGED upsets
     \/ run[r].holder # Dead /\ Fault("stall")
  /\ run' = [run EXCEPT ![r].holder = Nobody]
  /\ UNCHANGED <<computer, lease, box, screen, call>>

\* The stamp of a claim grows older than BOOT_CLAIM_STALE_MS.  Every call that works
\* under a claim has claimed the row before that, so it is slow.
ClaimAges ==
  /\ computer.state \in {"booting", "suspending"}
  /\ ~computer.aged
  /\ \A c \in Calls : Claimed(c) => call[c].op \in SlowOperations
  /\ computer' = [computer EXCEPT !.aged = TRUE]
  /\ UNCHANGED <<lease, run, box, screen, call, upsets>>

\* The provider loses a sandbox.
BoxVanishes(x) ==
  /\ box[x] # "none"
  /\ Fault("vanish")
  /\ box' = [box EXCEPT ![x] = "none"]
  /\ UNCHANGED <<computer, lease, run, screen, call>>

Environment ==
  \/ \E r \in Runs : CreateRun(r) \/ AnswerRun(r) \/ CancelRun(r) \/ RunLapses(r)
  \/ \E r \in Runs : HaltRun(r) \/ ReleaseHalted(r) \/ ExpireHalted(r)
  \/ \E b \in Bots : LeaseLapses(b)
  \/ \E c \in Calls : Crash(c)
  \/ ClaimAges
  \/ \E x \in Boxes : BoxVanishes(x)

-----------------------------------------------------------------------------
Begin(c) ==
  \/ \E r \in Runs : BeginRun(c, r)
  \/ \E op \in {"boot", "reset", "sleep", "stop"}, b \in Bots : BeginOther(c, op, b)

Step(c) ==
  \/ LeaseStep(c) \/ BootStep(c) \/ SleepStep(c) \/ StopStep(c) \/ ResetStep(c)
  \/ CheckpointStep(c) \/ RunStep(c)

Next == Environment \/ \E c \in Calls : Begin(c) \/ Step(c)

Spec == Init /\ [][Next]_vars

\* Calls go on, an expired lease lapses, a claim ages, and a run that was put back
\* is picked up again, which is strongly fair: that calls run out is a bound of the
\* model, the worker's queue is served whatever users do.  Nothing is assumed of
\* users, of the sleep job, of faults, or of when runs are created or end.
LiveSpec ==
  /\ Spec
  /\ \A c \in Calls : WF_vars(LeaseStep(c) \/ BootStep(c) \/ SleepStep(c) \/ StopStep(c)
                              \/ ResetStep(c) \/ RequeueRun(c) \/ CloseScreen(c))
  /\ SF_vars(\E c \in Calls, r \in Runs : BeginRun(c, r))
  /\ \A r \in Runs : WF_vars(run[r].holder = Dead /\ RunLapses(r))
  /\ WF_vars(ClaimAges)

-----------------------------------------------------------------------------
(* Properties *)

\* The tables and the calls have their types, and whoever asks for an execution lease
\* asks for a bot: the sleep job, which has none, never does.
TypeOK ==
  /\ computer \in Computer
  /\ lease \in [Bots -> Lease]
  /\ run \in [Runs -> RunRow]
  /\ box \in [Boxes -> {"none", "up", "stopped"}]
  /\ screen \in [Bots -> Screen]
  /\ call \in [Calls -> CallState]
  /\ \A c \in Calls : call[c].at \in {"lease.ask", "lease.take"} => call[c].bot \in Bots
  /\ upsets \in Nat

\* Calls that are between the claim of a boot and its end, and were not aborted.
Provisioners ==
  {c \in Calls : /\ call[c].at \in {"boot.provision", "boot.prepare", "boot.activate"}
                 /\ ~Aborted(c)}

\* At most one call provisions the computer at a time: whoever takes a booting row
\* over has seen that its claim is old, that no run heartbeats and nobody leases it.
OneProvisioner == \A c, d \in Provisioners : c = d

\* Of all the calls that work under a claim the row carries the claim of one, so only
\* that one may finish: updatedAt is a fencing token, whatever is reclaimed or reset.
OneClaim == \A c, d \in Calls : HasClaim(c) /\ HasClaim(d) => c = d

InTransition == computer.state \in {"booting", "suspending"}

\* As long as no process dies, a computer is only ever booting or suspending under the
\* claim of a call that goes on: each error path undoes the state its claim wrote.
ClaimHasOwner ==
  InTransition => \E c \in Calls : HasClaim(c)

\* A row that is running names a sandbox that is up: no failed boot or sleep leaves it
\* running over a sandbox it took down.
RunningIsUp == computer.state = "running" => computer.ref # NoBox /\ box[computer.ref] = "up"

\* A boot that undoes itself (rollbackProvisionedComputer) does not take down the
\* sandbox of a computer that is running, which another boot has won.
RollbackSparesTheWinner ==
  [][RunningIsUp /\ (\E c \in Calls : /\ call[c].at \in {"boot.rollback", "boot.evicted"}
                                      /\ call'[c] # call[c])
       => RunningIsUp']_vars

\* A sandbox that is up is named by the row or in the hands of a call: provisioning
\* that fails or loses its claim destroys, stops or records what it was given.
NoSandboxLost ==
  \A x \in Boxes : box[x] = "up" => computer.ref = x \/ \E c \in Calls : call[c].box = x

\* A working call that has its leases.
Works(c) == call[c].at = "run.work" /\ ~Aborted(c)

\* Nobody takes down the sandbox of a working run: not the sleep job, not a reset,
\* not the rollback of a peer's boot.
WorkersKeepTheirSandbox ==
  [][\A c \in Calls :
       Works(c) /\ Works(c)' /\ box[call[c].box] = "up" => box'[call[c].box] = "up"]_vars

Exporting(c) == call[c].at = "sleep.export" \/ (Exclusive /\ call[c].at = "run.save")

\* Nobody works in the sandbox while the sleep job or another run's checkpoint exports
\* its workspace under a claim, whatever leases are taken meanwhile.
NobodyWorksDuringExport == \A c, d \in Calls : ~(Exporting(c) /\ Works(d))

\* A run that is active and has not got the computer.
RunWaits ==
  \E r \in Runs : /\ run[r].status = "active"
                  /\ \A c \in Calls : call[c].run = r =>
                       call[c].at \notin {"run.work", "run.save", "run.saved"}

\* Whoever died with the computer claimed, a run that waits for it gets it going: an
\* abandoned claim of a boot or a suspension is taken over once it is old.
WedgedComputerRecovers == (InTransition /\ RunWaits) ~> (~InTransition \/ ~RunWaits)

\* The holder of a bot's lease is not refused its screen as stale, though the screen of
\* an earlier run was never released: a lease's fence only grows.
HolderOwnsScreen == \A c \in Calls : Works(c) /\ Team => CanTakeScreen(c)

=============================================================================
