---------------------------- MODULE ComputerBoot ----------------------------
(***************************************************************************)
(* provisionComputer: claim the row (state "booting" and a stamp of one's  *)
(* own), have the provider resume or make the sandbox, prepare it, and     *)
(* activate the row if the claim still stands; otherwise undo.             *)
(***************************************************************************)
EXTENDS ComputerLease

\* The call was given the sandbox of a computer that was up already.
Reconnecting(c) ==
  call[c].seen.ref # NoBox /\ call[c].seen.state \in {"running", "suspending"}

\* The provider fails, or the call's signal was aborted.
CallFails(c) == (Aborted(c) /\ UNCHANGED upsets) \/ Fault("provider")

\* (wrong: a booting row is never taken over)
BootLookNeverReclaims(c) ==
  /\ call[c].at = "boot.look"
  /\ \/ computer.state = "booting" /\ GiveUp(c)
     \/ /\ computer.state # "booting"
        /\ Set(c, [call[c] EXCEPT
             !.seen = computer, !.mark = computer, !.current = TRUE,
             !.at = IF computer.state = "suspending" THEN "boot.wait" ELSE "boot.claim"])
  /\ UNCHANGED <<computer, lease, run, box, screen, upsets>>

\* The row is read; a claim younger than BOOT_CLAIM_STALE_MS is left alone.
BootLook(c) ==
  /\ call[c].at = "boot.look"
  /\ \/ computer.state = "booting" /\ ~computer.aged /\ GiveUp(c)
     \/ /\ ~(computer.state = "booting" /\ ~computer.aged)
        /\ Set(c, [call[c] EXCEPT
             !.seen = computer, !.mark = computer, !.current = TRUE,
             !.at = CASE computer.state = "booting"    -> "boot.foreign"
                      [] computer.state = "suspending" -> "boot.wait"
                      [] OTHER                         -> "boot.claim"])
  /\ UNCHANGED <<computer, lease, run, box, screen, upsets>>

\* (wrong: the heartbeat of a run is not asked for)
BootAskNobody(c) ==
  /\ call[c].at \in {"boot.foreign", "boot.reclaim"}
  /\ GoTo(c, IF call[c].at = "boot.foreign" THEN "boot.wait" ELSE "boot.claim")
  /\ UNCHANGED <<computer, lease, run, box, screen, upsets>>

\* An old claim is still protected by the heartbeat of a run.
BootAskForeign(c) ==
  /\ call[c].at \in {"boot.foreign", "boot.reclaim"}
  /\ IF LiveForeignRunLease(c) THEN GiveUp(c)
     ELSE GoTo(c, IF call[c].at = "boot.foreign" THEN "boot.wait" ELSE "boot.claim")
  /\ UNCHANGED <<computer, lease, run, box, screen, upsets>>

\* What the wait must not have led to: the boot this call came to reclaim is done,
\* another boot began, or a suspension that was not old when first seen goes on.
Overtaken(mark, now) ==
  \/ mark.state = "booting" /\ now.state \in {"running", "suspending"}
  \/ mark.state = "suspending" /\ now.state = "booting"
  \/ mark.state = "suspending" /\ now.state = "suspending" /\ ~mark.aged

\* waitForComputerReady returns when the computer is ready or after ten seconds, or
\* throws when the call is aborted; the row it read last replaces the first one, the
\* first stamp is kept.
BootWait(c) ==
  /\ call[c].at = "boot.wait"
  /\ \/ (Overtaken(call[c].mark, computer) \/ Aborted(c)) /\ GiveUp(c)
     \/ /\ ~Overtaken(call[c].mark, computer)
        /\ Set(c, [call[c] EXCEPT
             !.seen = computer,
             !.at = IF computer.state \in {"booting", "suspending"}
                      THEN "boot.reclaim" ELSE "boot.claim"])
  /\ UNCHANGED <<computer, lease, run, box, screen, upsets>>

\* claimWhere: an abandoned claim is matched by the stamp seen first, and only if
\* nobody else holds the computer; any other row by its reference.
Claimable(c) ==
  LET seen == call[c].seen IN
  /\ computer.state = seen.state
  /\ \/ /\ seen.state \in {"booting", "suspending"}
        /\ call[c].current
        /\ seen.state = "suspending" => computer.ref = seen.ref
        /\ HeldByNobodyElse(c)
     \/ seen.state \notin {"booting", "suspending"} /\ computer.ref = seen.ref

\* The row is claimed for this boot.
BootClaim(c) ==
  /\ call[c].at = "boot.claim"
  /\ \/ /\ Claimable(c)
        /\ Claim(c, "booting", "boot.provision")
     \/ ~Claimable(c) /\ GiveUp(c) /\ UNCHANGED computer
  /\ UNCHANGED <<lease, run, box, screen, upsets>>

\* A sandbox nobody names may be given out under a new name.
Unnamed(x) ==
  /\ box[x] = "none"
  /\ computer.ref # x
  /\ \A c \in Calls : call[c].box # x /\ call[c].seen.ref # x
  /\ \A b \in Bots : screen[b].box # x

Exists(x) == x \in {y \in Boxes : box[y] # "none"}

\* SandboxProvider.provision: the named sandbox is resumed; if there is none, or
\* it is gone, another is made.
BootProvision(c) ==
  LET ref == call[c].seen.ref IN
  /\ call[c].at = "boot.provision"
  /\ \/ /\ Exists(ref)
        /\ box' = [box EXCEPT ![ref] = "up"]
        /\ Set(c, [call[c] EXCEPT !.at = "boot.prepare", !.box = ref])
        /\ UNCHANGED upsets
     \/ /\ ~Exists(ref)
        /\ \E x \in Boxes :
             /\ Unnamed(x)
             /\ box' = [box EXCEPT ![x] = "up"]
             /\ Set(c, [call[c] EXCEPT !.at = "boot.prepare", !.box = x, !.fresh = TRUE])
        /\ UNCHANGED upsets
     \/ CallFails(c) /\ GoTo(c, "boot.record") /\ UNCHANGED box
  /\ UNCHANGED <<computer, lease, run, screen>>

\* (wrong: a failed reconnect stops the sandbox it was given)
MustUndoAlways(c) == TRUE

\* A failed reconnect never owns a sandbox that was there before.
MustUndo(c) == ~Reconnecting(c) \/ call[c].fresh

\* The sandbox is prepared, its workspace restored and laid out.
BootPrepare(c) ==
  /\ call[c].at = "boot.prepare"
  /\ \/ box[call[c].box] = "up" /\ GoTo(c, "boot.activate") /\ UNCHANGED upsets
     \/ /\ (box[call[c].box] # "up" /\ UNCHANGED upsets) \/ CallFails(c)
        /\ GoTo(c, IF MustUndo(c) THEN "boot.rollback" ELSE "boot.record")
  /\ UNCHANGED <<computer, lease, run, box, screen>>

\* The row still carries the claim this call wrote.
OwnsBoot(c) ==
  /\ computer.state = "booting"
  /\ call[c].current
  /\ computer.ref = call[c].seen.ref

\* A boot is over: the call of a run goes to work, the others are done.
Booted(c) == IF call[c].op = "run" THEN [Only(c, "run.work") EXCEPT !.box = call[c].box]
                                   ELSE Only(c, "leave")

\* The row is activated, unless the claim was lost.
BootActivate(c) ==
  /\ call[c].at = "boot.activate"
  /\ \/ OwnsBoot(c) /\ Write(c, "running", call[c].box, Booted(c))
     \/ /\ ~OwnsBoot(c)
        /\ GoTo(c, IF MustUndo(c) THEN "boot.evicted" ELSE "boot.record")
        /\ UNCHANGED computer
  /\ UNCHANGED <<lease, run, box, screen, upsets>>

Undone(c) == Set(c, [call[c] EXCEPT !.at = "boot.record", !.box = NoBox])

\* (wrong: a rollback leaves a sandbox that was just made alone)
BootRollbackKeepsFresh(c) ==
  LET x == call[c].box IN
  /\ call[c].at \in {"boot.rollback", "boot.evicted"}
  /\ box' = [box EXCEPT ![x] = IF call[c].fresh \/ @ = "none" THEN @ ELSE "stopped"]
  /\ Undone(c)
  /\ UNCHANGED <<computer, lease, run, screen, upsets>>

\* rollbackProvisionedComputer: a fresh sandbox is destroyed, a resumed one is
\* stopped; if that fails and the claim was lost, it is destroyed too.
BootRollback(c) ==
  LET x == call[c].box IN
  /\ call[c].at \in {"boot.rollback", "boot.evicted"}
  /\ \/ /\ box' = [box EXCEPT ![x] = IF call[c].fresh \/ @ = "none" THEN "none" ELSE "stopped"]
        /\ Undone(c)
        /\ UNCHANGED upsets
     \/ /\ Fault("rollback")
        /\ \/ GoTo(c, "boot.record") /\ UNCHANGED box
           \/ /\ call[c].at = "boot.evicted" /\ ~call[c].fresh
              /\ box' = [box EXCEPT ![x] = "none"]
              /\ Undone(c)
  /\ UNCHANGED <<computer, lease, run, screen>>

\* A sandbox of this boot that could not be rolled back stays named by the row.
RecordedRef(c) ==
  IF ~Reconnecting(c) /\ call[c].box # NoBox THEN call[c].box ELSE computer.ref

\* The failure is recorded, if the claim still stands.
BootRecord(c) ==
  /\ call[c].at = "boot.record"
  /\ IF OwnsBoot(c)
       THEN Write(c, IF Reconnecting(c) THEN "running" ELSE "error", RecordedRef(c), GivenUp(c))
       ELSE GiveUp(c) /\ UNCHANGED computer
  /\ UNCHANGED <<lease, run, box, screen, upsets>>

BootStep(c) ==
  \/ BootLook(c) \/ BootAskForeign(c) \/ BootWait(c) \/ BootClaim(c)
  \/ BootProvision(c) \/ BootPrepare(c) \/ BootActivate(c) \/ BootRollback(c)
  \/ BootRecord(c)

=============================================================================
