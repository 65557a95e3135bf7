-------------------------- MODULE ComputerShutdown --------------------------
(***************************************************************************)
(* What takes a computer down, or away from the others for a while.  All   *)
(* four claim the row with the state "suspending": the sleep job, which    *)
(* saves the workspace and stops an idle sandbox; computer.stop;           *)
(* computer.reset (replaceComputer), which destroys the sandbox and boots  *)
(* another; and the checkpoint of a run, which keeps the peers away while  *)
(* the workspace is exported.                                              *)
(***************************************************************************)
EXTENDS ComputerBoot

See(c, place) == Set(c, [call[c] EXCEPT !.at = place, !.seen = computer, !.current = TRUE])

\* SandboxProvider.stop of the sandbox the call read; it may be gone.
StopSeenBox(c) ==
  box' = [box EXCEPT ![call[c].seen.ref] = IF @ = "none" THEN "none" ELSE "stopped"]

-----------------------------------------------------------------------------
(* The sleep job: sleepComputerIfIdle *)

\* The suspension the job claimed still stands.
OwnsSuspension(c) ==
  /\ computer.state = "suspending"
  /\ computer.ref = call[c].seen.ref
  /\ call[c].current

SleepLook(c) ==
  /\ call[c].at = "sleep.look"
  /\ IF IsUp THEN See(c, "sleep.ask") ELSE Return(c)
  /\ UNCHANGED <<computer, lease, run, box, screen, upsets>>

\* No active run and, as far as the probe tells, no background work; else the job
\* is scheduled again.
SleepAsk(c) ==
  /\ call[c].at = "sleep.ask"
  /\ (~ActiveRun /\ GoTo(c, "sleep.claim")) \/ Return(c)
  /\ UNCHANGED <<computer, lease, run, box, screen, upsets>>

\* The claim: the row as it was read, and nobody has a live lease.
SleepMayClaim(c) ==
  /\ computer.state = "running"
  /\ computer.ref = call[c].seen.ref
  /\ call[c].current
  /\ NoLiveLease

SleepClaim(c) ==
  /\ call[c].at = "sleep.claim"
  /\ \/ SleepMayClaim(c) /\ Claim(c, "suspending", "sleep.export")
     \/ ~SleepMayClaim(c) /\ Return(c) /\ UNCHANGED computer
  /\ UNCHANGED <<lease, run, box, screen, upsets>>

\* The workspace is exported, which may fail.
SleepExport(c) ==
  /\ call[c].at = "sleep.export"
  /\ \/ GoTo(c, "sleep.save") /\ UNCHANGED upsets
     \/ Fault("provider") /\ GoTo(c, "sleep.unclaim")
  /\ UNCHANGED <<computer, lease, run, box, screen>>

\* The revision is recorded; the stamp is written back as it was.
SleepSave(c) ==
  /\ call[c].at = "sleep.save"
  /\ GoTo(c, IF OwnsSuspension(c) THEN "sleep.recheck" ELSE "sleep.unclaim")
  /\ UNCHANGED <<computer, lease, run, box, screen, upsets>>

\* The last check reads the runs and the row, in either order.
SleepRecheckRuns(c) ==
  /\ call[c].at \in {"sleep.recheck", "sleep.recheckRuns"}
  /\ GoTo(c, IF ActiveRun THEN "sleep.unclaim"
             ELSE IF call[c].at = "sleep.recheck" THEN "sleep.recheckClaim" ELSE "sleep.stop")
  /\ UNCHANGED <<computer, lease, run, box, screen, upsets>>

SleepRecheckClaim(c) ==
  /\ call[c].at \in {"sleep.recheck", "sleep.recheckClaim"}
  /\ GoTo(c, IF ~OwnsSuspension(c) THEN "sleep.unclaim"
             ELSE IF call[c].at = "sleep.recheck" THEN "sleep.recheckRuns" ELSE "sleep.stop")
  /\ UNCHANGED <<computer, lease, run, box, screen, upsets>>

SleepStop(c) ==
  /\ call[c].at = "sleep.stop"
  /\ \/ StopSeenBox(c) /\ GoTo(c, "sleep.record") /\ UNCHANGED upsets
     \/ Fault("provider") /\ GoTo(c, "sleep.unclaim") /\ UNCHANGED box
  /\ UNCHANGED <<computer, lease, run, screen>>

\* (wrong: a failed suspension stays claimed)
SleepRecordNoUnclaim(c) ==
  /\ call[c].at \in {"sleep.record", "sleep.unclaim"}
  /\ IF OwnsSuspension(c) /\ call[c].at = "sleep.record"
       THEN Write(c, "suspended", computer.ref, IdleCall)
       ELSE Return(c) /\ UNCHANGED computer
  /\ UNCHANGED <<lease, run, box, screen, upsets>>

\* The row is suspended, or put back to running, if the claim still stands.
SleepRecord(c) ==
  /\ call[c].at \in {"sleep.record", "sleep.unclaim"}
  /\ IF OwnsSuspension(c)
       THEN Write(c, IF call[c].at = "sleep.record" THEN "suspended" ELSE "running",
                  computer.ref, IdleCall)
       ELSE Return(c) /\ UNCHANGED computer
  /\ UNCHANGED <<lease, run, box, screen, upsets>>

SleepStep(c) ==
  \/ SleepLook(c) \/ SleepAsk(c) \/ SleepClaim(c) \/ SleepExport(c) \/ SleepSave(c)
  \/ SleepRecheckRuns(c) \/ SleepRecheckClaim(c) \/ SleepStop(c) \/ SleepRecord(c)

-----------------------------------------------------------------------------
(* computer.stop, for one bot of the computer *)

StopLook(c) ==
  /\ call[c].at = "stop.look"
  /\ Set(c, [call[c] EXCEPT !.at = "stop.claim", !.seen = computer])
  /\ UNCHANGED <<computer, lease, run, box, screen, upsets>>

\* The claim compares neither the reference nor the stamp that were read.
StopMayClaim(c) == computer.state # "suspending" /\ NoForeignLease(c)

StopClaim(c) ==
  /\ call[c].at = "stop.claim"
  /\ \/ StopMayClaim(c) /\ Claim(c, "suspending", "stop.ask")
     \/ ~StopMayClaim(c) /\ Return(c) /\ UNCHANGED computer
  /\ UNCHANGED <<lease, run, box, screen, upsets>>

\* Another bot's active run refuses the stop.
StopAsk(c) ==
  /\ call[c].at = "stop.ask"
  /\ GoTo(c, IF \E r \in Runs : Active(r) /\ BotOf[r] # call[c].bot
               THEN "stop.restore" ELSE "stop.forget")
  /\ UNCHANGED <<computer, lease, run, box, screen, upsets>>

\* The bot's own lease row is deleted.
StopForget(c) ==
  /\ call[c].at = "stop.forget"
  /\ lease' = [lease EXCEPT ![call[c].bot] = NoLease]
  /\ GoTo(c, IF call[c].seen.ref = NoBox THEN "stop.record" ELSE "stop.export")
  /\ UNCHANGED <<computer, run, box, screen, upsets>>

\* checkpointAndRecordComputerWorkspace: the revision is recorded whatever the
\* row's state, and moves its stamp.
StopExport(c) ==
  /\ call[c].at = "stop.export"
  /\ \/ Claim(c, computer.state, "stop.stop") /\ UNCHANGED upsets
     \/ Fault("provider") /\ GoTo(c, "stop.fail") /\ UNCHANGED computer
  /\ UNCHANGED <<lease, run, box, screen>>

StopStop(c) ==
  /\ call[c].at = "stop.stop"
  /\ \/ StopSeenBox(c) /\ GoTo(c, "stop.record") /\ UNCHANGED upsets
     \/ Fault("provider") /\ GoTo(c, "stop.fail") /\ UNCHANGED box
  /\ UNCHANGED <<computer, lease, run, screen>>

\* The end: stopped, whatever the row's state; if the stop was refused the state
\* that was read is put back, if it failed the row is in error, both only while
\* the row is suspending.
StopRecord(c) ==
  /\ call[c].at \in {"stop.record", "stop.restore", "stop.fail"}
  /\ IF call[c].at = "stop.record" \/ computer.state = "suspending"
       THEN Write(c, CASE call[c].at = "stop.record" -> "stopped"
                       [] call[c].at = "stop.fail"   -> "error"
                       [] OTHER                      -> call[c].seen.state,
                  computer.ref, IdleCall)
       ELSE Return(c) /\ UNCHANGED computer
  /\ UNCHANGED <<lease, run, box, screen, upsets>>

StopStep(c) ==
  \/ StopLook(c) \/ StopClaim(c) \/ StopAsk(c) \/ StopForget(c) \/ StopExport(c)
  \/ StopStop(c) \/ StopRecord(c)

-----------------------------------------------------------------------------
(* computer.reset: replaceComputer under the lease of the bot *)

ResetLook(c) ==
  /\ call[c].at = "reset.look"
  /\ See(c, IF computer.state \in {"booting", "suspending"} THEN "reset.check" ELSE "reset.claim")
  /\ UNCHANGED <<computer, lease, run, box, screen, upsets>>

\* The claim that was read is older than BOOT_CLAIM_STALE_MS by now.
SeenIsAbandoned(c) ==
  call[c].seen.aged \/ (call[c].current /\ computer.aged)

\* A booting or suspending row may be reset only if it was abandoned and no bot
\* or run uses the computer.
ResetMayTry(c) == NoForeignLease(c) /\ SeenIsAbandoned(c) /\ ~ActiveRun

ResetCheck(c) ==
  /\ call[c].at = "reset.check"
  /\ IF ResetMayTry(c) THEN GoTo(c, "reset.claim") ELSE GiveUp(c)
  /\ UNCHANGED <<computer, lease, run, box, screen, upsets>>

\* The reference that was read is not compared.
ResetMayClaim(c) ==
  /\ computer.state = call[c].seen.state
  /\ computer.state \in {"booting", "suspending"} => call[c].current
  /\ NoForeignLease(c)

ResetClaim(c) ==
  /\ call[c].at = "reset.claim"
  /\ \/ ResetMayClaim(c) /\ Claim(c, "suspending", "reset.recheck")
     \/ ~ResetMayClaim(c) /\ GiveUp(c) /\ UNCHANGED computer
  /\ UNCHANGED <<lease, run, box, screen, upsets>>

AfterResetCheck(c) == IF call[c].seen.ref = NoBox THEN "reset.record" ELSE "reset.destroy"

\* (wrong: no second look for active runs)
ResetRecheckNothing(c) ==
  /\ call[c].at = "reset.recheck"
  /\ GoTo(c, AfterResetCheck(c))
  /\ UNCHANGED <<computer, lease, run, box, screen, upsets>>

\* A run may have started since the row was read.
ResetRecheck(c) ==
  /\ call[c].at = "reset.recheck"
  /\ GoTo(c, IF ActiveRun THEN "reset.restore" ELSE AfterResetCheck(c))
  /\ UNCHANGED <<computer, lease, run, box, screen, upsets>>

ResetDestroy(c) ==
  /\ call[c].at = "reset.destroy"
  /\ \/ /\ box' = [box EXCEPT ![call[c].seen.ref] = "none"]
        /\ GoTo(c, "reset.record")
        /\ UNCHANGED upsets
     \/ Fault("provider") /\ GoTo(c, "reset.fail") /\ UNCHANGED box
  /\ UNCHANGED <<computer, lease, run, screen>>

\* The row is stopped and names no sandbox; its stamp stays.  Then the computer is
\* provisioned as for anybody.
ResetRecord(c) ==
  /\ call[c].at = "reset.record"
  /\ IF computer.state = "suspending" /\ call[c].current
       THEN /\ computer' = NewRow
            /\ Set(c, Only(c, "boot.look"))
       ELSE GoTo(c, "reset.fail") /\ UNCHANGED computer
  /\ UNCHANGED <<lease, run, box, screen, upsets>>

\* Refused: the state that was read is put back; failed: the row is in error,
\* whatever its state; both only while it carries the stamp of the claim.
ResetUndo(c) ==
  /\ call[c].at \in {"reset.restore", "reset.fail"}
  /\ IF call[c].current /\ (call[c].at = "reset.restore" => computer.state = "suspending")
       THEN Write(c, IF call[c].at = "reset.fail" THEN "error" ELSE call[c].seen.state,
                  computer.ref, Only(c, "leave"))
       ELSE Set(c, Only(c, "leave")) /\ UNCHANGED computer
  /\ UNCHANGED <<lease, run, box, screen, upsets>>

ResetStep(c) ==
  \/ ResetLook(c) \/ ResetCheck(c) \/ ResetClaim(c) \/ ResetRecheck(c)
  \/ ResetDestroy(c) \/ ResetRecord(c) \/ ResetUndo(c)

-----------------------------------------------------------------------------
(* The checkpoint of a run: checkpointRunComputerWorkspace *)

\* (wrong: the leases of the peers are not looked at)
RunCheckpointOverPeers(c) ==
  /\ call[c].at = "run.work"
  /\ \/ /\ Exclusive /\ computer.state = "running" /\ computer.ref = call[c].box
        /\ Claim(c, "suspending", "run.save")
     \/ ~Exclusive /\ GoTo(c, "run.save") /\ UNCHANGED computer
  /\ UNCHANGED <<lease, run, box, screen, upsets>>

\* The row is claimed for the export unless another bot has a live lease.
RunCheckpoint(c) ==
  /\ call[c].at = "run.work"
  /\ \/ /\ Exclusive /\ computer.state = "running" /\ computer.ref = call[c].box
        /\ HeldByNobodyElse(c)
        /\ Claim(c, "suspending", "run.save")
     \/ ~Exclusive /\ GoTo(c, "run.save") /\ UNCHANGED computer
  /\ UNCHANGED <<lease, run, box, screen, upsets>>

\* The revision is recorded whatever the row's state, or the export fails.
RunSave(c) ==
  /\ call[c].at = "run.save"
  /\ \/ /\ IF Exclusive THEN Claim(c, computer.state, "run.saved")
                        ELSE Write(c, computer.state, computer.ref, [call[c] EXCEPT !.at = "run.work"])
        /\ UNCHANGED upsets
     \/ /\ CallFails(c)
        /\ GoTo(c, IF Exclusive THEN "run.saved" ELSE "run.work")
        /\ UNCHANGED computer
  /\ UNCHANGED <<lease, run, box, screen>>

\* The finally block puts a suspending row back to running; it compares the
\* reference, not the stamp.
RunSaved(c) ==
  /\ call[c].at = "run.saved"
  /\ IF computer.state = "suspending" /\ computer.ref = call[c].box
       THEN Write(c, "running", computer.ref, [call[c] EXCEPT !.at = "run.work", !.current = FALSE])
       ELSE Set(c, [call[c] EXCEPT !.at = "run.work", !.current = FALSE]) /\ UNCHANGED computer
  /\ UNCHANGED <<lease, run, box, screen, upsets>>

CheckpointStep(c) == RunCheckpoint(c) \/ RunSave(c) \/ RunSaved(c)

=============================================================================
