------------------------ MODULE ComputerSafetyProofs ------------------------
(***************************************************************************)
(* The safety of the computer, for every number of bots, runs, calls and   *)
(* sandboxes.  Each theorem says under which operations and faults it      *)
(* holds; what goes wrong outside of them is in README.md.                 *)
(*                                                                         *)
(* The invariants build on one another:                                    *)
(*   OpInv     a call is where its operation leads it;                     *)
(*   FenceInv  no call and no screen has a fence beyond its bot's lease,   *)
(*             and who has the lease's fence has the lease;                *)
(*   HandInv   what a boot has in its hands;                               *)
(*   LostInv   a sandbox that is there is named by the row or in the hands *)
(*             of the boot that made it;                                   *)
(*   SoloInv   while no claim grows old under a living call, one call at a *)
(*             time works under a claim, and the row has that claim's      *)
(*             state;                                                      *)
(*   ExportInv leases (on a shared computer) or the stamp (on a private    *)
(*             one) keep runs away while the workspace is exported;        *)
(*   OwnedInv  a row in transition has an owner whose claim stands;        *)
(*   UpInv     a running row names a sandbox that is up;                   *)
(*   ProvInv   one call at a time provisions, though runs may be slow;     *)
(*   WorkInv   the row of a working run is claimed again only by a         *)
(*             reconnect, which does not take its sandbox down.            *)
(* Each is shown for the step of a call first, one lemma per kind of step, *)
(* then for the environment.  The lemmas at the beginning say what the     *)
(* assignments to a call's locals do, and where each step leads.           *)
(***************************************************************************)
EXTENDS ComputerLifecycleProofs

USE BotOfType, BoundsNat, SwitchesType, NullsAreNew

-----------------------------------------------------------------------------
(* What a step does to the locals of the calls, field by field *)

LEMMA SetIs ==
  ASSUME TypeOK, NEW c \in Calls, NEW new, Set(c, new)
  PROVE  call'[c] = new /\ \A d \in Calls : d # c => call'[d] = call[d]
  BY DEF TypeOK, Set

LEMMA GoToIs ==
  ASSUME TypeOK, NEW c \in Calls, NEW p, GoTo(c, p)
  PROVE  /\ call'[c].at = p
         /\ call'[c].op = call[c].op /\ call'[c].bot = call[c].bot
         /\ call'[c].run = call[c].run /\ call'[c].fence = call[c].fence
         /\ call'[c].seen = call[c].seen /\ call'[c].mark = call[c].mark
         /\ call'[c].current = call[c].current
         /\ call'[c].box = call[c].box /\ call'[c].fresh = call[c].fresh
         /\ \A d \in Calls : d # c => call'[d] = call[d]
<1>1. call[c] \in CallState
  BY DEF TypeOK
<1>2. call'[c] = [call[c] EXCEPT !.at = p]
  BY SetIs DEF GoTo
<1> QED
  BY <1>1, <1>2, SetIs DEF GoTo, CallState

LEMMA OnlyIs ==
  ASSUME NEW c \in Calls, NEW p
  PROVE  /\ Only(c, p).at = p
         /\ Only(c, p).op = call[c].op /\ Only(c, p).bot = call[c].bot
         /\ Only(c, p).run = call[c].run /\ Only(c, p).fence = call[c].fence
         /\ ~Only(c, p).current /\ ~Only(c, p).fresh /\ Only(c, p).box = NoBox
         /\ Only(c, p).seen = NewRow /\ Only(c, p).mark = NewRow
  BY DEF Only, IdleCall

LEMMA IdleIs ==
  /\ IdleCall.at = "idle" /\ IdleCall.op = "none" /\ IdleCall.bot = Nobody
  /\ IdleCall.run = Nobody /\ IdleCall.fence = 0 /\ ~IdleCall.current
  /\ ~IdleCall.fresh /\ IdleCall.box = NoBox
  /\ IdleCall.seen = NewRow /\ IdleCall.mark = NewRow
  BY DEF IdleCall

LEMMA GivenUpIs ==
  ASSUME NEW c \in Calls
  PROVE  /\ GivenUp(c).at = (IF call[c].op = "run" THEN "run.requeue" ELSE "leave")
         /\ GivenUp(c).op = call[c].op /\ GivenUp(c).bot = call[c].bot
         /\ GivenUp(c).run = call[c].run /\ GivenUp(c).fence = call[c].fence
         /\ ~GivenUp(c).current /\ ~GivenUp(c).fresh /\ GivenUp(c).box = NoBox
         /\ GivenUp(c).seen = NewRow /\ GivenUp(c).mark = NewRow
  BY OnlyIs DEF GivenUp

LEMMA BootedIs ==
  ASSUME NEW c \in Calls
  PROVE  /\ Booted(c).at = IF call[c].op = "run" THEN "run.work" ELSE "leave"
         /\ Booted(c).op = call[c].op /\ Booted(c).bot = call[c].bot
         /\ Booted(c).run = call[c].run /\ Booted(c).fence = call[c].fence
         /\ ~Booted(c).current /\ ~Booted(c).fresh
         /\ call[c].op = "run" => Booted(c).box = call[c].box
  BY DEF Booted, Only, IdleCall

LEMMA WriteIs ==
  ASSUME TypeOK, NEW c \in Calls, NEW state, NEW ref, NEW new, Write(c, state, ref, new)
  PROVE  /\ computer'.state = state /\ computer'.ref = ref /\ ~computer'.aged
         /\ call'[c] = new
         /\ \A d \in Calls : d # c =>
              /\ call'[d].at = call[d].at /\ call'[d].op = call[d].op
              /\ call'[d].bot = call[d].bot /\ call'[d].run = call[d].run
              /\ call'[d].fence = call[d].fence /\ call'[d].seen = call[d].seen
              /\ call'[d].mark = call[d].mark /\ ~call'[d].current
              /\ call'[d].box = call[d].box /\ call'[d].fresh = call[d].fresh
<1>1. \A d \in Calls : call[d] \in CallState
  BY DEF TypeOK
<1>2. \A d \in Calls : call'[d] = IF d = c THEN new ELSE [call[d] EXCEPT !.current = FALSE]
  BY DEF Write
<1> QED
  BY <1>1, <1>2 DEF Write, CallState

LEMMA ClaimIs ==
  ASSUME TypeOK, NEW c \in Calls, NEW state, NEW p, Claim(c, state, p)
  PROVE  /\ computer'.state = state /\ computer'.ref = computer.ref /\ ~computer'.aged
         /\ call'[c].at = p /\ call'[c].current
         /\ call'[c].op = call[c].op /\ call'[c].bot = call[c].bot
         /\ call'[c].run = call[c].run /\ call'[c].fence = call[c].fence
         /\ call'[c].seen = call[c].seen /\ call'[c].mark = call[c].mark
         /\ call'[c].box = call[c].box /\ call'[c].fresh = call[c].fresh
         /\ \A d \in Calls : d # c =>
              /\ call'[d].at = call[d].at /\ call'[d].op = call[d].op
              /\ call'[d].bot = call[d].bot /\ call'[d].run = call[d].run
              /\ call'[d].fence = call[d].fence /\ call'[d].seen = call[d].seen
              /\ call'[d].mark = call[d].mark /\ ~call'[d].current
              /\ call'[d].box = call[d].box /\ call'[d].fresh = call[d].fresh
<1>1. call[c] \in CallState
  BY DEF TypeOK
<1> DEFINE new == [call[c] EXCEPT !.at = p, !.current = TRUE]
<1>2. /\ new.at = p /\ new.current /\ new.op = call[c].op /\ new.bot = call[c].bot
      /\ new.run = call[c].run /\ new.fence = call[c].fence
      /\ new.seen = call[c].seen /\ new.mark = call[c].mark
      /\ new.box = call[c].box /\ new.fresh = call[c].fresh
  BY <1>1 DEF CallState
<1>3. Write(c, state, computer.ref, new)
  BY DEF Claim
<1> HIDE DEF new
<1> QED
  BY <1>2, <1>3, WriteIs

\* Everything of a call but the named locals.
SameCall(c) ==
  /\ call'[c].op = call[c].op /\ call'[c].bot = call[c].bot
  /\ call'[c].run = call[c].run /\ call'[c].fence = call[c].fence
SameMemory(c) ==
  /\ call'[c].seen = call[c].seen /\ call'[c].mark = call[c].mark
  /\ call'[c].current = call[c].current
SameHands(c) == call'[c].box = call[c].box /\ call'[c].fresh = call[c].fresh

OthersSame(c) == \A d \in Calls : d # c => call'[d] = call[d]

LEMMA GiveUpIs ==
  ASSUME TypeOK, NEW c \in Calls, GiveUp(c)
  PROVE  /\ call'[c].at = (IF call[c].op = "run" THEN "run.requeue" ELSE "leave")
         /\ SameCall(c) /\ ~call'[c].current /\ ~call'[c].fresh /\ call'[c].box = NoBox
         /\ OthersSame(c)
  BY SetIs, OnlyIs DEF GiveUp, GivenUp, SameCall, OthersSame

LEMMA ReturnIs ==
  ASSUME TypeOK, NEW c \in Calls, Return(c)
  PROVE  /\ call'[c].at = "idle" /\ call'[c].op = "none" /\ call'[c].fence = 0
         /\ call'[c].run = Nobody /\ call'[c].bot = Nobody
         /\ ~call'[c].current /\ ~call'[c].fresh /\ call'[c].box = NoBox
         /\ OthersSame(c)
  BY SetIs, IdleIs DEF Return, OthersSame

LEMMA TakeLeaseIs ==
  ASSUME TypeOK, NEW c \in Calls, TakeLease(c)
  PROVE  \/ GiveUp(c) /\ UNCHANGED lease
         \/ /\ call'[c].at = "lease.validate" /\ call'[c].fence = lease[call[c].bot].fence + 1
            /\ call'[c].op = call[c].op /\ call'[c].bot = call[c].bot /\ call'[c].run = call[c].run
            /\ SameMemory(c) /\ SameHands(c) /\ OthersSame(c)
            /\ call[c].bot \in Bots /\ ~lease[call[c].bot].live
            /\ lease' = [lease EXCEPT ![call[c].bot] =
                 [owner |-> Owner(c), fence |-> lease[call[c].bot].fence + 1, live |-> TRUE]]
<1>1. call[c] \in CallState /\ call[c].bot \in Bots /\ lease \in [Bots -> Lease]
  BY DEF TypeOK, TakeLease
<1> DEFINE f == lease[call[c].bot].fence + 1
           new == [call[c] EXCEPT !.at = "lease.validate", !.fence = f]
<1>2. /\ new.at = "lease.validate" /\ new.fence = f
      /\ new.op = call[c].op /\ new.bot = call[c].bot /\ new.run = call[c].run
      /\ new.seen = call[c].seen /\ new.mark = call[c].mark /\ new.current = call[c].current
      /\ new.box = call[c].box /\ new.fresh = call[c].fresh
  <2> HIDE DEF f
  <2> QED
    BY <1>1 DEF CallState
<1>3. CASE lease[call[c].bot].live
  BY <1>3 DEF TakeLease
<1>4. CASE ~lease[call[c].bot].live
  <2>1. Set(c, new) /\ lease' = [lease EXCEPT ![call[c].bot] =
                                   [owner |-> Owner(c), fence |-> f, live |-> TRUE]]
    BY <1>1, <1>4 DEF TakeLease
  <2> HIDE DEF new
  <2> QED
    BY <1>1, <1>2, <1>4, <2>1, SetIs DEF SameMemory, SameHands, OthersSame
<1> QED
  BY <1>3, <1>4

LEMMA RefuseLeaseIs ==
  ASSUME TypeOK, NEW c \in Calls, RefuseLease(c)
  PROVE  /\ call'[c].at = (IF call[c].op = "run" THEN "run.requeue" ELSE "leave")
         /\ call'[c].fence = 0
         /\ call'[c].op = call[c].op /\ call'[c].bot = call[c].bot /\ call'[c].run = call[c].run
         /\ ~call'[c].current /\ call'[c].box = NoBox /\ ~call'[c].fresh
         /\ OthersSame(c)
<1> DEFINE new == [GivenUp(c) EXCEPT !.fence = 0]
<1>1. /\ new.at = GivenUp(c).at /\ new.fence = 0
      /\ new.op = GivenUp(c).op /\ new.bot = GivenUp(c).bot /\ new.run = GivenUp(c).run
      /\ new.current = GivenUp(c).current /\ new.box = GivenUp(c).box /\ new.fresh = GivenUp(c).fresh
  BY DEF GivenUp, Only, IdleCall
<1>2. Set(c, new)
  BY DEF RefuseLease
<1> HIDE DEF new
<1> QED
  BY <1>1, <1>2, SetIs, GivenUpIs DEF OthersSame

LEMMA BootLookIs ==
  ASSUME TypeOK, NEW c \in Calls, BootLook(c)
  PROVE  \/ GiveUp(c)
         \/ /\ ~(computer.state = "booting" /\ ~computer.aged)
            /\ call'[c].at = CASE computer.state = "booting"    -> "boot.foreign"
                               [] computer.state = "suspending" -> "boot.wait"
                               [] OTHER                         -> "boot.claim"
            /\ call'[c].seen = computer /\ call'[c].mark = computer /\ call'[c].current
            /\ SameCall(c) /\ SameHands(c) /\ OthersSame(c)
<1>1. call[c] \in CallState
  BY DEF TypeOK
<1> DEFINE p == CASE computer.state = "booting"    -> "boot.foreign"
                  [] computer.state = "suspending" -> "boot.wait"
                  [] OTHER                         -> "boot.claim"
           new == [call[c] EXCEPT !.seen = computer, !.mark = computer, !.current = TRUE, !.at = p]
<1>2. /\ new.at = p /\ new.fence = call[c].fence
      /\ new.op = call[c].op /\ new.bot = call[c].bot /\ new.run = call[c].run
      /\ new.seen = computer /\ new.mark = computer /\ new.current = TRUE
      /\ new.box = call[c].box /\ new.fresh = call[c].fresh
  <2> HIDE DEF p
  <2> QED
    BY <1>1 DEF CallState
<1>3. \/ GiveUp(c)
      \/ ~(computer.state = "booting" /\ ~computer.aged) /\ Set(c, new)
  BY DEF BootLook
<1> HIDE DEF new
<1> QED
  BY <1>2, <1>3, SetIs DEF SameCall, SameHands, OthersSame

LEMMA BootWaitIs ==
  ASSUME TypeOK, NEW c \in Calls, BootWait(c)
  PROVE  \/ GiveUp(c)
         \/ /\ ~Overtaken(call[c].mark, computer)
            /\ call'[c].at = IF computer.state \in {"booting", "suspending"}
                               THEN "boot.reclaim" ELSE "boot.claim"
            /\ call'[c].seen = computer /\ call'[c].mark = call[c].mark
            /\ call'[c].current = call[c].current
            /\ SameCall(c) /\ SameHands(c) /\ OthersSame(c)
<1>1. call[c] \in CallState
  BY DEF TypeOK
<1> DEFINE p == IF computer.state \in {"booting", "suspending"} THEN "boot.reclaim" ELSE "boot.claim"
           new == [call[c] EXCEPT !.seen = computer, !.at = p]
<1>2. /\ new.at = p /\ new.fence = call[c].fence
      /\ new.op = call[c].op /\ new.bot = call[c].bot /\ new.run = call[c].run
      /\ new.seen = computer /\ new.mark = call[c].mark /\ new.current = call[c].current
      /\ new.box = call[c].box /\ new.fresh = call[c].fresh
  <2> HIDE DEF p
  <2> QED
    BY <1>1 DEF CallState
<1>3. GiveUp(c) \/ (~Overtaken(call[c].mark, computer) /\ Set(c, new))
  BY DEF BootWait
<1> HIDE DEF new
<1> QED
  BY <1>2, <1>3, SetIs DEF SameCall, SameHands, OthersSame

LEMMA BootProvisionIs ==
  ASSUME TypeOK, NEW c \in Calls, BootProvision(c)
  PROVE  \/ /\ Exists(call[c].seen.ref) /\ box' = [box EXCEPT ![call[c].seen.ref] = "up"]
            /\ call'[c].at = "boot.prepare" /\ call'[c].box = call[c].seen.ref
            /\ call'[c].fresh = call[c].fresh
            /\ SameCall(c) /\ SameMemory(c) /\ OthersSame(c)
         \/ /\ ~Exists(call[c].seen.ref)
            /\ \E x \in Boxes : /\ Unnamed(x) /\ box' = [box EXCEPT ![x] = "up"]
                                /\ call'[c].box = x
            /\ call'[c].at = "boot.prepare" /\ call'[c].fresh
            /\ SameCall(c) /\ SameMemory(c) /\ OthersSame(c)
         \/ CallFails(c) /\ GoTo(c, "boot.record") /\ UNCHANGED box
<1>1. call[c] \in CallState
  BY DEF TypeOK
<1> DEFINE ref == call[c].seen.ref
           old == [call[c] EXCEPT !.at = "boot.prepare", !.box = ref]
           new(x) == [call[c] EXCEPT !.at = "boot.prepare", !.box = x, !.fresh = TRUE]
<1>2. /\ old.at = "boot.prepare" /\ old.fence = call[c].fence
      /\ old.op = call[c].op /\ old.bot = call[c].bot /\ old.run = call[c].run
      /\ old.seen = call[c].seen /\ old.mark = call[c].mark /\ old.current = call[c].current
      /\ old.box = ref /\ old.fresh = call[c].fresh
  <2> HIDE DEF ref
  <2> QED
    BY <1>1 DEF CallState
<1>3. \A x : /\ new(x).at = "boot.prepare" /\ new(x).fence = call[c].fence
             /\ new(x).op = call[c].op /\ new(x).bot = call[c].bot /\ new(x).run = call[c].run
             /\ new(x).seen = call[c].seen /\ new(x).mark = call[c].mark
             /\ new(x).current = call[c].current
             /\ new(x).box = x /\ new(x).fresh
  BY <1>1 DEF CallState
<1>4. CASE Exists(ref) /\ box' = [box EXCEPT ![ref] = "up"] /\ Set(c, old)
  <2> HIDE DEF old
  <2> QED
    BY <1>2, <1>4, SetIs DEF SameCall, SameMemory, OthersSame
<1>5. ASSUME ~Exists(ref), NEW x \in Boxes, Unnamed(x), box' = [box EXCEPT ![x] = "up"], Set(c, new(x))
      PROVE  /\ call'[c].at = "boot.prepare" /\ call'[c].fresh /\ call'[c].box = x
             /\ SameCall(c) /\ SameMemory(c) /\ OthersSame(c)
  <2> HIDE DEF new
  <2> QED
    BY <1>3, <1>5, SetIs DEF SameCall, SameMemory, OthersSame
<1>6. \/ Exists(ref) /\ box' = [box EXCEPT ![ref] = "up"] /\ Set(c, old)
      \/ ~Exists(ref) /\ \E x \in Boxes : Unnamed(x) /\ box' = [box EXCEPT ![x] = "up"] /\ Set(c, new(x))
      \/ CallFails(c) /\ GoTo(c, "boot.record") /\ UNCHANGED box
  BY DEF BootProvision
<1> HIDE DEF old, new
<1> QED
  BY <1>4, <1>5, <1>6

LEMMA UndoneIs ==
  ASSUME TypeOK, NEW c \in Calls, Undone(c)
  PROVE  /\ call'[c].at = "boot.record" /\ call'[c].box = NoBox /\ call'[c].fresh = call[c].fresh
         /\ SameCall(c) /\ SameMemory(c) /\ OthersSame(c)
<1>1. call[c] \in CallState
  BY DEF TypeOK
<1> DEFINE new == [call[c] EXCEPT !.at = "boot.record", !.box = NoBox]
<1>2. /\ new.at = "boot.record" /\ new.fence = call[c].fence
      /\ new.op = call[c].op /\ new.bot = call[c].bot /\ new.run = call[c].run
      /\ new.seen = call[c].seen /\ new.mark = call[c].mark /\ new.current = call[c].current
      /\ new.box = NoBox /\ new.fresh = call[c].fresh
  BY <1>1 DEF CallState
<1>3. Set(c, new)
  BY DEF Undone
<1> HIDE DEF new
<1> QED
  BY <1>2, <1>3, SetIs DEF SameCall, SameMemory, OthersSame

LEMMA SeeIs ==
  ASSUME TypeOK, NEW c \in Calls, NEW p, See(c, p)
  PROVE  /\ call'[c].at = p /\ call'[c].seen = computer /\ call'[c].current
         /\ call'[c].mark = call[c].mark
         /\ SameCall(c) /\ SameHands(c) /\ OthersSame(c)
<1>1. call[c] \in CallState
  BY DEF TypeOK
<1> DEFINE new == [call[c] EXCEPT !.at = p, !.seen = computer, !.current = TRUE]
<1>2. /\ new.at = p /\ new.fence = call[c].fence
      /\ new.op = call[c].op /\ new.bot = call[c].bot /\ new.run = call[c].run
      /\ new.seen = computer /\ new.mark = call[c].mark /\ new.current = TRUE
      /\ new.box = call[c].box /\ new.fresh = call[c].fresh
  BY <1>1 DEF CallState
<1>3. Set(c, new)
  BY DEF See
<1> HIDE DEF new
<1> QED
  BY <1>2, <1>3, SetIs DEF SameCall, SameHands, OthersSame

LEMMA StopLookIs ==
  ASSUME TypeOK, NEW c \in Calls, StopLook(c)
  PROVE  /\ call'[c].at = "stop.claim" /\ call'[c].seen = computer
         /\ call'[c].mark = call[c].mark /\ call'[c].current = call[c].current
         /\ SameCall(c) /\ SameHands(c) /\ OthersSame(c)
<1>1. call[c] \in CallState
  BY DEF TypeOK
<1> DEFINE new == [call[c] EXCEPT !.at = "stop.claim", !.seen = computer]
<1>2. /\ new.at = "stop.claim" /\ new.fence = call[c].fence
      /\ new.op = call[c].op /\ new.bot = call[c].bot /\ new.run = call[c].run
      /\ new.seen = computer /\ new.mark = call[c].mark /\ new.current = call[c].current
      /\ new.box = call[c].box /\ new.fresh = call[c].fresh
  BY <1>1 DEF CallState
<1>3. Set(c, new)
  BY DEF StopLook
<1> HIDE DEF new
<1> QED
  BY <1>2, <1>3, SetIs DEF SameCall, SameHands, OthersSame

\* What a write leaves of the other calls.
OthersOutdated(c) ==
  \A d \in Calls : d # c =>
     /\ call'[d].at = call[d].at /\ call'[d].op = call[d].op
     /\ call'[d].bot = call[d].bot /\ call'[d].run = call[d].run
     /\ call'[d].fence = call[d].fence /\ call'[d].seen = call[d].seen
     /\ call'[d].mark = call[d].mark /\ ~call'[d].current
     /\ call'[d].box = call[d].box /\ call'[d].fresh = call[d].fresh

LEMMA RunSaveIs ==
  ASSUME TypeOK, NEW c \in Calls, RunSave(c)
  PROVE  \/ Exclusive /\ Claim(c, computer.state, "run.saved")
         \/ /\ ~Exclusive
            /\ computer'.state = computer.state /\ computer'.ref = computer.ref /\ ~computer'.aged
            /\ call'[c].at = "run.work" /\ SameCall(c) /\ SameMemory(c) /\ SameHands(c)
            /\ OthersOutdated(c)
         \/ GoTo(c, IF Exclusive THEN "run.saved" ELSE "run.work") /\ UNCHANGED computer
<1>1. call[c] \in CallState
  BY DEF TypeOK
<1> DEFINE new == [call[c] EXCEPT !.at = "run.work"]
<1>2. /\ new.at = "run.work" /\ new.fence = call[c].fence
      /\ new.op = call[c].op /\ new.bot = call[c].bot /\ new.run = call[c].run
      /\ new.seen = call[c].seen /\ new.mark = call[c].mark /\ new.current = call[c].current
      /\ new.box = call[c].box /\ new.fresh = call[c].fresh
  BY <1>1 DEF CallState
<1>3. \/ Exclusive /\ Claim(c, computer.state, "run.saved")
      \/ ~Exclusive /\ Write(c, computer.state, computer.ref, new)
      \/ GoTo(c, IF Exclusive THEN "run.saved" ELSE "run.work") /\ UNCHANGED computer
  BY DEF RunSave
<1> HIDE DEF new
<1> QED
  BY <1>2, <1>3, WriteIs DEF SameCall, SameMemory, SameHands, OthersOutdated

LEMMA RunSavedIs ==
  ASSUME TypeOK, NEW c \in Calls, RunSaved(c)
  PROVE  /\ call'[c].at = "run.work" /\ SameCall(c) /\ SameHands(c)
         /\ call'[c].seen = call[c].seen /\ call'[c].mark = call[c].mark /\ ~call'[c].current
         /\ \/ /\ computer.state = "suspending" /\ computer.ref = call[c].box
               /\ computer'.state = "running" /\ computer'.ref = computer.ref /\ ~computer'.aged
               /\ OthersOutdated(c)
            \/ /\ ~(computer.state = "suspending" /\ computer.ref = call[c].box)
               /\ UNCHANGED computer /\ OthersSame(c)
<1>1. call[c] \in CallState
  BY DEF TypeOK
<1> DEFINE new == [call[c] EXCEPT !.at = "run.work", !.current = FALSE]
<1>2. /\ new.at = "run.work" /\ new.fence = call[c].fence
      /\ new.op = call[c].op /\ new.bot = call[c].bot /\ new.run = call[c].run
      /\ new.seen = call[c].seen /\ new.mark = call[c].mark /\ new.current = FALSE
      /\ new.box = call[c].box /\ new.fresh = call[c].fresh
  BY <1>1 DEF CallState
<1>3. \/ /\ computer.state = "suspending" /\ computer.ref = call[c].box
         /\ Write(c, "running", computer.ref, new)
      \/ /\ ~(computer.state = "suspending" /\ computer.ref = call[c].box)
         /\ Set(c, new) /\ UNCHANGED computer
  BY DEF RunSaved
<1> HIDE DEF new
<1> QED
  BY <1>2, <1>3, WriteIs, SetIs DEF SameCall, SameHands, OthersOutdated, OthersSame

-----------------------------------------------------------------------------
(* Whom a call is for *)

RunPlaces   == {"run.work", "run.save", "run.saved", "run.close", "run.requeue"}
SleepPlaces == {"sleep.look", "sleep.ask", "sleep.claim", "sleep.export", "sleep.save",
                "sleep.recheck", "sleep.recheckRuns", "sleep.recheckClaim", "sleep.stop",
                "sleep.record", "sleep.unclaim"}
StopPlaces  == {"stop.look", "stop.claim", "stop.ask", "stop.restore", "stop.forget",
                "stop.export", "stop.stop", "stop.record", "stop.fail"}
ResetPlaces == {"reset.look", "reset.check", "reset.claim", "reset.recheck",
                "reset.restore", "reset.destroy", "reset.record", "reset.fail"}

Groups == RunPlaces \union SleepPlaces \union StopPlaces \union ResetPlaces

\* A call is where its operation leads it, and its operation is one that occurs.
Rightly(c) ==
  /\ call[c].op # "none" => call[c].op \in Operations
  /\ call[c].op = "run" => call[c].run \in Runs
  /\ call[c].at \in RunPlaces => call[c].op = "run"
  /\ call[c].at \in SleepPlaces => call[c].op = "sleep"
  /\ call[c].at \in StopPlaces => call[c].op = "stop"
  /\ call[c].at \in ResetPlaces => call[c].op = "reset"

OpInv == \A c \in Calls : Rightly(c)

\* What a step of one call leaves of the others: all but what they know of the stamp.
OthersKeep(c) ==
  \A d \in Calls : d # c =>
     /\ call'[d].at = call[d].at /\ call'[d].op = call[d].op
     /\ call'[d].bot = call[d].bot /\ call'[d].run = call[d].run
     /\ call'[d].fence = call[d].fence /\ call'[d].seen = call[d].seen
     /\ call'[d].mark = call[d].mark /\ (call'[d].current => call[d].current)
     /\ call'[d].box = call[d].box /\ call'[d].fresh = call[d].fresh

\* Where a step of a call may lead it.
Onward(c) ==
  \/ call'[c].at \notin Groups
  \/ call'[c].at \in RunPlaces /\ call[c].op = "run"
  \/ call'[c].at \in SleepPlaces /\ call[c].op = "sleep"
  \/ call'[c].at \in StopPlaces /\ call[c].op = "stop"
  \/ call'[c].at \in ResetPlaces /\ call[c].op = "reset"

\* A step of a call that goes on with its operation, or is done.
Within(c) ==
  /\ OthersKeep(c)
  /\ \/ call'[c].at = "idle" /\ call'[c].op = "none" /\ call'[c].fence = 0
     \/ /\ call'[c].op = call[c].op /\ call'[c].run = call[c].run /\ call'[c].bot = call[c].bot
        /\ call'[c].fence \in {call[c].fence, 0} \/ TakeLease(c)
        /\ Onward(c)

LEMMA KeptBySet ==
  ASSUME NEW c \in Calls, OthersSame(c) \/ OthersOutdated(c) PROVE OthersKeep(c)
  BY DEF OthersSame, OthersOutdated, OthersKeep

LEMMA WithinKeeps ==
  ASSUME OpInv, NEW c \in Calls, Within(c)
  PROVE  OpInv'
<1>1. \A d \in Calls : d # c => Rightly(d)'
  BY DEF OpInv, Rightly, Within, OthersKeep
<1>2. Rightly(c)'
  BY DEF OpInv, Rightly, Within, Onward, Groups, RunPlaces, SleepPlaces, StopPlaces, ResetPlaces
<1> QED
  BY <1>1, <1>2 DEF OpInv

LEMMA GoToWithin ==
  ASSUME TypeOK, NEW c \in Calls, NEW p, GoTo(c, p),
         \/ p \notin Groups
         \/ p \in RunPlaces /\ call[c].op = "run"
         \/ p \in SleepPlaces /\ call[c].op = "sleep"
         \/ p \in StopPlaces /\ call[c].op = "stop"
         \/ p \in ResetPlaces /\ call[c].op = "reset"
  PROVE  Within(c)
  BY GoToIs, KeptBySet DEF Within, Onward, OthersSame

LEMMA ClaimWithin ==
  ASSUME TypeOK, NEW c \in Calls, NEW state, NEW p, Claim(c, state, p),
         \/ p \notin Groups
         \/ p \in RunPlaces /\ call[c].op = "run"
         \/ p \in SleepPlaces /\ call[c].op = "sleep"
         \/ p \in StopPlaces /\ call[c].op = "stop"
         \/ p \in ResetPlaces /\ call[c].op = "reset"
  PROVE  Within(c)
  BY ClaimIs DEF Within, Onward, OthersKeep

LEMMA GiveUpWithin ==
  ASSUME TypeOK, NEW c \in Calls, GiveUp(c)
  PROVE  Within(c)
<1>1. "leave" \notin Groups /\ "run.requeue" \in RunPlaces
  BY DEF Groups, RunPlaces, SleepPlaces, StopPlaces, ResetPlaces
<1> QED
  BY <1>1, GiveUpIs, KeptBySet DEF Within, Onward, SameCall

LEMMA ReturnWithin ==
  ASSUME TypeOK, NEW c \in Calls, Return(c)
  PROVE  Within(c)
  BY ReturnIs, KeptBySet DEF Within

\* A call whose last write ends it.
LEMMA WriteWithin ==
  ASSUME TypeOK, OpInv, NEW c \in Calls, NEW state, NEW ref, NEW new, Write(c, state, ref, new),
         new \in {IdleCall, GivenUp(c), Booted(c), Only(c, "leave")}
  PROVE  Within(c)
<1>1. /\ "leave" \notin Groups /\ "run.requeue" \in RunPlaces /\ "run.work" \in RunPlaces
      /\ "idle" \notin Groups
  BY DEF Groups, RunPlaces, SleepPlaces, StopPlaces, ResetPlaces
<1>2. OthersKeep(c) /\ call'[c] = new
  BY WriteIs DEF OthersKeep
<1>3. CASE new = IdleCall
  BY <1>2, <1>3, IdleIs DEF Within
<1>4. CASE new = GivenUp(c)
  BY <1>1, <1>2, <1>4, OnlyIs DEF Within, Onward, GivenUp
<1>5. CASE new = Booted(c)
  BY <1>1, <1>2, <1>5, BootedIs DEF Within, Onward
<1>6. CASE new = Only(c, "leave")
  BY <1>1, <1>2, <1>6, OnlyIs DEF Within, Onward
<1> QED
  BY <1>3, <1>4, <1>5, <1>6

LEMMA LeaseStepWithin ==
  ASSUME TypeOK, OpInv, NEW c \in Calls, LeaseStep(c)
  PROVE  Within(c)
<1>0. /\ {"lease.take", "lease.validate", "lease.refused", "boot.look", "leave"} \cap Groups = {}
      /\ "reset.look" \in ResetPlaces /\ "run.requeue" \in RunPlaces
  BY DEF Groups, RunPlaces, SleepPlaces, StopPlaces, ResetPlaces
<1>1. CASE AskForLease(c)
  BY <1>0, <1>1, GoToWithin, GiveUpWithin DEF AskForLease, Leased
<1>2. CASE TakeLease(c)
  <2>1. CASE ~GiveUp(c)
    BY <1>0, <1>2, <2>1, TakeLeaseIs, KeptBySet DEF Within, Onward
  <2> QED
    BY <2>1, GiveUpWithin
<1>3. CASE ValidateLease(c)
  <2>1. CASE GoTo(c, "lease.refused")
    BY <1>0, <2>1, GoToWithin
  <2>2. CASE GoTo(c, Leased(c))
    BY <1>0, <2>2, GoToWithin DEF Leased
  <2> QED
    BY <1>3, <2>1, <2>2 DEF ValidateLease
<1>4. CASE RefuseLease(c)
  BY <1>0, <1>4, RefuseLeaseIs, KeptBySet DEF Within, Onward
<1>5. CASE Leave(c)
  BY <1>5, ReturnWithin DEF Leave
<1> QED
  BY <1>1, <1>2, <1>3, <1>4, <1>5 DEF LeaseStep

LEMMA BootStepWithin ==
  ASSUME TypeOK, OpInv, NEW c \in Calls, BootStep(c)
  PROVE  Within(c)
<1>0. {"boot.look", "boot.foreign", "boot.wait", "boot.reclaim", "boot.claim",
       "boot.provision", "boot.prepare", "boot.activate", "boot.rollback",
       "boot.evicted", "boot.record"} \cap Groups = {}
  BY DEF Groups, RunPlaces, SleepPlaces, StopPlaces, ResetPlaces
<1>1. CASE BootLook(c)
  <2>1. CASE ~GiveUp(c)
    BY <1>0, <1>1, <2>1, BootLookIs, KeptBySet DEF Within, Onward, SameCall
  <2> QED
    BY <2>1, GiveUpWithin
<1>2. CASE BootAskForeign(c)
  BY <1>0, <1>2, GoToWithin, GiveUpWithin DEF BootAskForeign
<1>3. CASE BootWait(c)
  <2>1. CASE ~GiveUp(c)
    BY <1>0, <1>3, <2>1, BootWaitIs, KeptBySet DEF Within, Onward, SameCall
  <2> QED
    BY <2>1, GiveUpWithin
<1>4. CASE BootClaim(c)
  BY <1>0, <1>4, ClaimWithin, GiveUpWithin DEF BootClaim
<1>5. CASE BootProvision(c)
  <2>1. CASE GoTo(c, "boot.record")
    BY <1>0, <2>1, GoToWithin
  <2>2. CASE ~GoTo(c, "boot.record")
    BY <1>0, <1>5, <2>2, BootProvisionIs, KeptBySet DEF Within, Onward, SameCall
  <2> QED
    BY <2>1, <2>2
<1>6. CASE BootPrepare(c)
  BY <1>0, <1>6, GoToWithin DEF BootPrepare
<1>7. CASE BootActivate(c)
  BY <1>0, <1>7, GoToWithin, WriteWithin DEF BootActivate
<1>8. CASE BootRollback(c)
  <2>1. CASE Undone(c)
    BY <1>0, <2>1, UndoneIs, KeptBySet DEF Within, Onward, SameCall
  <2>2. CASE GoTo(c, "boot.record")
    BY <1>0, <2>2, GoToWithin
  <2> QED
    BY <1>8, <2>1, <2>2 DEF BootRollback
<1>9. CASE BootRecord(c)
  BY <1>9, WriteWithin, GiveUpWithin DEF BootRecord
<1> QED
  BY <1>1, <1>2, <1>3, <1>4, <1>5, <1>6, <1>7, <1>8, <1>9 DEF BootStep

LEMMA SleepStepWithin ==
  ASSUME TypeOK, OpInv, NEW c \in Calls, SleepStep(c)
  PROVE  Within(c)
<1>0. call[c].at \in SleepPlaces /\ call[c].op = "sleep"
  BY DEF OpInv, Rightly, SleepPlaces, SleepStep, SleepLook, SleepAsk, SleepClaim, SleepExport,
         SleepSave, SleepRecheckRuns, SleepRecheckClaim, SleepStop, SleepRecord
<1>1. CASE SleepLook(c)
  <2>1. CASE See(c, "sleep.ask")
    <3>1. "sleep.ask" \in SleepPlaces
      BY DEF SleepPlaces
    <3> QED
      BY <1>0, <2>1, <3>1, SeeIs, KeptBySet DEF Within, Onward, SameCall
  <2> QED
    BY <1>1, <2>1, ReturnWithin DEF SleepLook
<1>2. CASE \E p \in SleepPlaces : GoTo(c, p)
  BY <1>0, <1>2, GoToWithin
<1>3. CASE \E p \in SleepPlaces : Claim(c, "suspending", p)
  BY <1>0, <1>3, ClaimWithin
<1>4. CASE SleepAsk(c)
  BY <1>2, <1>4, ReturnWithin DEF SleepAsk, SleepPlaces
<1>5. CASE SleepClaim(c)
  BY <1>3, <1>5, ReturnWithin DEF SleepClaim, SleepPlaces
<1>6. CASE SleepExport(c)
  BY <1>2, <1>6 DEF SleepExport, SleepPlaces
<1>7. CASE SleepSave(c)
  BY <1>2, <1>7 DEF SleepSave, SleepPlaces
<1>8. CASE SleepRecheckRuns(c)
  BY <1>2, <1>8 DEF SleepRecheckRuns, SleepPlaces
<1>9. CASE SleepRecheckClaim(c)
  BY <1>2, <1>9 DEF SleepRecheckClaim, SleepPlaces
<1>10. CASE SleepStop(c)
  BY <1>2, <1>10 DEF SleepStop, SleepPlaces
<1>11. CASE SleepRecord(c)
  BY <1>11, ReturnWithin, WriteWithin DEF SleepRecord
<1> QED
  BY <1>1, <1>4, <1>5, <1>6, <1>7, <1>8, <1>9, <1>10, <1>11 DEF SleepStep

LEMMA StopStepWithin ==
  ASSUME TypeOK, OpInv, NEW c \in Calls, StopStep(c)
  PROVE  Within(c)
<1>0. call[c].at \in StopPlaces /\ call[c].op = "stop"
  BY DEF OpInv, Rightly, StopPlaces, StopStep, StopLook, StopClaim, StopAsk, StopForget,
         StopExport, StopStop, StopRecord
<1>1. CASE StopLook(c)
  <2>1. "stop.claim" \in StopPlaces
    BY DEF StopPlaces
  <2> QED
    BY <1>0, <1>1, <2>1, StopLookIs, KeptBySet DEF Within, Onward, SameCall
<1>2. CASE \E p \in StopPlaces : GoTo(c, p)
  BY <1>0, <1>2, GoToWithin
<1>3. CASE \E p \in StopPlaces, state \in States : Claim(c, state, p)
  BY <1>0, <1>3, ClaimWithin
<1>4. CASE StopClaim(c)
  <2>1. "suspending" \in States /\ "stop.ask" \in StopPlaces
    BY DEF States, StopPlaces
  <2> QED
    BY <1>3, <1>4, <2>1, ReturnWithin DEF StopClaim
<1>5. CASE StopAsk(c)
  BY <1>2, <1>5 DEF StopAsk, StopPlaces
<1>6. CASE StopForget(c)
  BY <1>2, <1>6 DEF StopForget, StopPlaces
<1>7. CASE StopExport(c)
  <2>1. computer.state \in States
    BY DEF TypeOK, Computer
  <2> QED
    BY <1>2, <1>3, <1>7, <2>1 DEF StopExport, StopPlaces
<1>8. CASE StopStop(c)
  BY <1>2, <1>8 DEF StopStop, StopPlaces
<1>9. CASE StopRecord(c)
  BY <1>9, ReturnWithin, WriteWithin DEF StopRecord
<1> QED
  BY <1>1, <1>4, <1>5, <1>6, <1>7, <1>8, <1>9 DEF StopStep

LEMMA ResetStepWithin ==
  ASSUME TypeOK, OpInv, NEW c \in Calls, ResetStep(c)
  PROVE  Within(c)
<1>0. call[c].at \in ResetPlaces /\ call[c].op = "reset"
  BY DEF OpInv, Rightly, ResetPlaces, ResetStep, ResetLook, ResetCheck, ResetClaim, ResetRecheck,
         ResetDestroy, ResetRecord, ResetUndo
<1>l. "boot.look" \notin Groups /\ "leave" \notin Groups
  BY DEF Groups, RunPlaces, SleepPlaces, StopPlaces, ResetPlaces
<1>1. CASE ResetLook(c)
  <2>1. \E p \in ResetPlaces : See(c, p)
    BY <1>1 DEF ResetLook, ResetPlaces
  <2> QED
    BY <1>0, <2>1, SeeIs, KeptBySet DEF Within, Onward, SameCall
<1>2. CASE \E p \in ResetPlaces : GoTo(c, p)
  BY <1>0, <1>2, GoToWithin
<1>3. CASE ResetCheck(c)
  BY <1>2, <1>3, GiveUpWithin DEF ResetCheck, ResetPlaces
<1>4. CASE ResetClaim(c)
  <2>1. "reset.recheck" \in ResetPlaces
    BY DEF ResetPlaces
  <2> QED
    BY <1>0, <1>4, <2>1, ClaimWithin, GiveUpWithin DEF ResetClaim
<1>5. CASE ResetRecheck(c)
  BY <1>2, <1>5 DEF ResetRecheck, AfterResetCheck, ResetPlaces
<1>6. CASE ResetDestroy(c)
  BY <1>2, <1>6 DEF ResetDestroy, ResetPlaces
<1>7. CASE \E p \in {"boot.look", "leave"} : Set(c, Only(c, p))
  BY <1>7, <1>l, SetIs, OnlyIs, KeptBySet DEF Within, Onward, OthersSame
<1>8. CASE ResetRecord(c)
  BY <1>2, <1>7, <1>8 DEF ResetRecord, ResetPlaces
<1>9. CASE ResetUndo(c)
  BY <1>7, <1>9, WriteWithin DEF ResetUndo
<1> QED
  BY <1>1, <1>3, <1>4, <1>5, <1>6, <1>8, <1>9 DEF ResetStep

LEMMA CheckpointStepWithin ==
  ASSUME TypeOK, OpInv, NEW c \in Calls, CheckpointStep(c)
  PROVE  Within(c)
<1>0. /\ call[c].op = "run"
      /\ "run.work" \in RunPlaces /\ "run.save" \in RunPlaces /\ "run.saved" \in RunPlaces
  BY DEF OpInv, Rightly, RunPlaces, CheckpointStep, RunCheckpoint, RunSave, RunSaved
<1>1. CASE RunCheckpoint(c)
  BY <1>0, <1>1, ClaimWithin, GoToWithin DEF RunCheckpoint
<1>2. CASE RunSave(c)
  <2>1. CASE Claim(c, computer.state, "run.saved")
    BY <1>0, <2>1, ClaimWithin
  <2>2. CASE GoTo(c, IF Exclusive THEN "run.saved" ELSE "run.work")
    BY <1>0, <2>2, GoToWithin
  <2>3. CASE call'[c].at = "run.work" /\ SameCall(c) /\ OthersOutdated(c)
    BY <1>0, <2>3, KeptBySet DEF Within, Onward, SameCall
  <2> QED
    BY <1>2, <2>1, <2>2, <2>3, RunSaveIs
<1>3. CASE RunSaved(c)
  BY <1>0, <1>3, RunSavedIs, KeptBySet DEF Within, Onward, SameCall
<1> QED
  BY <1>1, <1>2, <1>3 DEF CheckpointStep

LEMMA RunStepWithin ==
  ASSUME TypeOK, OpInv, NEW c \in Calls, RunStep(c)
  PROVE  Within(c)
<1>0. /\ call[c].op = "run" /\ call[c].at \in RunPlaces
      /\ "run.close" \in RunPlaces /\ "leave" \notin Groups
  BY DEF OpInv, Rightly, Groups, RunPlaces, SleepPlaces, StopPlaces, ResetPlaces, RunStep,
         OpenScreen, EndRun, PauseRun, AbortRun, CloseScreen, RequeueRun
<1>1. CASE call' = call
  BY <1>0, <1>1 DEF Within, Onward, OthersKeep
<1>2. CASE GoTo(c, "run.close") \/ GoTo(c, "leave")
  BY <1>0, <1>2, GoToWithin
<1> QED
  BY <1>1, <1>2 DEF RunStep, OpenScreen, EndRun, PauseRun, AbortRun, CloseScreen, RequeueRun

LEMMA StepWithin ==
  ASSUME TypeOK, OpInv, NEW c \in Calls, Step(c)
  PROVE  Within(c)
  BY LeaseStepWithin, BootStepWithin, SleepStepWithin, StopStepWithin, ResetStepWithin,
     CheckpointStepWithin, RunStepWithin DEF Step

\* A call that begins is of an operation that occurs.
LEMMA BeginIs ==
  ASSUME TypeOK, NEW c \in Calls, Begin(c)
  PROVE  /\ call[c].at = "idle" /\ OthersSame(c)
         /\ call'[c].op \in Operations /\ call'[c].op # "none" /\ call'[c].fence = 0
         /\ call'[c].at = CASE call'[c].op = "sleep" -> "sleep.look"
                            [] call'[c].op = "stop"  -> "stop.look"
                            [] OTHER                 -> "lease.ask"
         /\ call'[c].op = "run" => /\ call'[c].run \in Runs
                                   /\ BeginRun(c, call'[c].run)
         /\ call'[c].op # "run" => UNCHANGED run
         /\ ~call'[c].current /\ ~call'[c].fresh /\ call'[c].box = NoBox
         /\ UNCHANGED <<computer, lease, box, screen, upsets>>
<1>1. ASSUME NEW r \in Runs, BeginRun(c, r)
      PROVE  /\ call'[c].op = "run" /\ call'[c].run = r /\ call'[c].at = "lease.ask"
             /\ call'[c].fence = 0 /\ ~call'[c].current /\ ~call'[c].fresh
             /\ call'[c].box = NoBox /\ OthersSame(c)
  <2> DEFINE new == [IdleCall EXCEPT !.at = "lease.ask", !.op = "run", !.run = r, !.bot = BotOf[r]]
  <2>1. /\ new.op = "run" /\ new.run = r /\ new.at = "lease.ask" /\ new.fence = 0
        /\ ~new.current /\ ~new.fresh /\ new.box = NoBox
    BY DEF IdleCall
  <2>2. Set(c, new)
    BY <1>1 DEF BeginRun
  <2> HIDE DEF new
  <2> QED
    BY <2>1, <2>2, SetIs DEF OthersSame
<1>2. ASSUME NEW op \in {"boot", "reset", "sleep", "stop"}, NEW b \in Bots, BeginOther(c, op, b)
      PROVE  /\ call'[c].op = op /\ call'[c].fence = 0 /\ ~call'[c].current
             /\ ~call'[c].fresh /\ call'[c].box = NoBox /\ OthersSame(c)
             /\ call'[c].at = CASE op = "sleep" -> "sleep.look"
                                [] op = "stop"  -> "stop.look"
                                [] OTHER        -> "lease.ask"
  <2> DEFINE p == CASE op = "sleep" -> "sleep.look"
                    [] op = "stop"  -> "stop.look"
                    [] OTHER        -> "lease.ask"
             for == IF op = "sleep" THEN Nobody ELSE b
             new == [IdleCall EXCEPT !.op = op, !.bot = for, !.at = p]
  <2>1. /\ new.op = op /\ new.at = p /\ new.fence = 0
        /\ ~new.current /\ ~new.fresh /\ new.box = NoBox
    <3> HIDE DEF p, for
    <3> QED
      BY DEF IdleCall
  <2>2. Set(c, new)
    BY <1>2 DEF BeginOther
  <2> HIDE DEF new
  <2> QED
    BY <2>1, <2>2, SetIs DEF OthersSame
<1> QED
  BY <1>1, <1>2 DEF Begin, BeginRun, BeginOther, Busy

\* What the steps of the environment leave of the calls: one may be gone.
LEMMA EnvironmentKeeps ==
  ASSUME TypeOK, Environment
  PROVE  \/ call' = call
         \/ \E c \in Calls : Crash(c) /\ Return(c) /\ Within(c)
<1>1. ASSUME NEW c \in Calls, Crash(c) PROVE Return(c) /\ Within(c)
  BY <1>1, ReturnWithin DEF Crash
<1> QED
  BY <1>1 DEF Environment, CreateRun, AnswerRun, CancelRun, RunLapses, HaltRun, ReleaseHalted,
              ExpireHalted, LeaseLapses, ClaimAges, BoxVanishes

LEMMA OpNext == TypeOK /\ OpInv /\ [Next]_vars => OpInv'
<1> SUFFICES ASSUME TypeOK, OpInv, [Next]_vars PROVE OpInv'
  OBVIOUS
<1>1. CASE call' = call
  BY <1>1 DEF OpInv, Rightly
<1>2. CASE Environment
  BY <1>1, <1>2, EnvironmentKeeps, WithinKeeps
<1>3. ASSUME NEW c \in Calls, Begin(c) PROVE OpInv'
  <2>1. \A d \in Calls : d # c => Rightly(d)'
    BY <1>3, BeginIs DEF OpInv, Rightly, OthersSame
  <2>2. Rightly(c)'
    BY <1>3, BeginIs DEF Rightly, RunPlaces, SleepPlaces, StopPlaces, ResetPlaces
  <2> QED
    BY <2>1, <2>2 DEF OpInv
<1>4. ASSUME NEW c \in Calls, Step(c) PROVE OpInv'
  BY <1>4, StepWithin, WithinKeeps
<1> QED
  BY <1>1, <1>2, <1>3, <1>4 DEF Next, vars

LEMMA OpInit == Init => OpInv
  BY DEF Init, OpInv, Rightly, IdleCall, RunPlaces, SleepPlaces, StopPlaces, ResetPlaces

-----------------------------------------------------------------------------
(* Execution leases fence the screens *)

\* The fence of a bot's lease only grows while nobody deletes its row.  So a call that
\* has the fence the row has is the one that took the lease last, no two calls have the
\* same, and a screen that carries it was claimed under that lease.
CallsAreFenced ==
  \A c \in Calls : call[c].fence > 0 =>
    /\ call[c].bot \in Bots
    /\ call[c].fence <= lease[call[c].bot].fence
    /\ call[c].fence = lease[call[c].bot].fence => lease[call[c].bot].owner = Owner(c)

FencesDiffer ==
  \A c, d \in Calls :
    call[c].fence > 0 /\ call[d].fence = call[c].fence /\ call[d].bot = call[c].bot => c = d

ScreensAreFenced ==
  \A b \in Bots :
    /\ screen[b].fence <= lease[b].fence
    /\ screen[b].fence > 0 /\ screen[b].fence = lease[b].fence => screen[b].owner = lease[b].owner

FenceInv == CallsAreFenced /\ FencesDiffer /\ ScreensAreFenced

\* Nobody takes a lease.
LeasesKeep ==
  \A b \in Bots : lease'[b].fence = lease[b].fence /\ lease'[b].owner = lease[b].owner

\* Whoever has a lease keeps it or gives it up.
FencesKeep ==
  \A c \in Calls : call'[c].fence > 0 =>
    /\ call'[c].fence = call[c].fence /\ call'[c].bot = call[c].bot
    /\ call'[c].op = call[c].op /\ call'[c].run = call[c].run

ScreensKeep == \A b \in Bots : screen'[b] \in {screen[b], NoScreen}

LEMMA QuietFences ==
  ASSUME TypeOK, FenceInv, LeasesKeep, FencesKeep
  PROVE  CallsAreFenced' /\ FencesDiffer'
<1>1. CallsAreFenced'
  BY DEF FenceInv, CallsAreFenced, LeasesKeep, FencesKeep, Owner
<1>2. FencesDiffer'
  BY DEF FenceInv, FencesDiffer, FencesKeep
<1> QED
  BY <1>1, <1>2

LEMMA QuietScreens ==
  ASSUME TypeOK, FenceInv, LeasesKeep, ScreensKeep
  PROVE  ScreensAreFenced'
<1>1. \A b \in Bots : lease[b].fence \in Nat
  BY DEF TypeOK, Lease
<1> QED
  BY <1>1 DEF FenceInv, ScreensAreFenced, LeasesKeep, ScreensKeep, NoScreen

LEMMA ExpiredKeeps ==
  ASSUME TypeOK, NEW c, NEW b \in Bots
  PROVE  /\ Expired(c)[b].fence = lease[b].fence /\ Expired(c)[b].owner = lease[b].owner
         /\ Expired(c)[b].live => lease[b].live
  BY DEF TypeOK, Lease, Expired

LEMMA ExpiredOfKeeps ==
  ASSUME TypeOK, NEW r, NEW b \in Bots
  PROVE  /\ ExpiredOf(r)[b].fence = lease[b].fence /\ ExpiredOf(r)[b].owner = lease[b].owner
         /\ ExpiredOf(r)[b].live => lease[b].live
  BY DEF TypeOK, Lease, ExpiredOf

LEMMA WithinFences ==
  ASSUME TypeOK, NEW c \in Calls, Within(c), ~TakeLease(c)
  PROVE  FencesKeep
<1>1. \A d \in Calls : call[d].fence \in Nat
  BY DEF TypeOK, CallState
<1> QED
  BY <1>1 DEF Within, OthersKeep, FencesKeep

\* Only taking a lease changes who has it, and only opening a screen who has that.
LEMMA StepTables ==
  ASSUME TypeOK, OpInv, "stop" \notin Operations, NEW c \in Calls, Step(c), ~TakeLease(c)
  PROVE  LeasesKeep /\ (ScreensKeep \/ OpenScreen(c))
<1>1. LeasesKeep \/ UNCHANGED lease
  <2>1. ~StopForget(c)
    BY DEF StopForget, OpInv, Rightly, StopPlaces
  <2>2. lease' = Expired(c) => LeasesKeep
    BY ExpiredKeeps DEF LeasesKeep
  <2> QED
    BY <2>1, <2>2 DEF Step, LeaseStep, BootStep, SleepStep, StopStep, ResetStep, CheckpointStep, RunStep,
         AskForLease, ValidateLease, RefuseLease, Leave,
         BootLook, BootAskForeign, BootWait, BootClaim, BootProvision, BootPrepare, BootActivate,
         BootRollback, BootRecord,
         SleepLook, SleepAsk, SleepClaim, SleepExport, SleepSave, SleepRecheckRuns,
         SleepRecheckClaim, SleepStop, SleepRecord,
         StopLook, StopClaim, StopAsk, StopExport, StopStop, StopRecord,
         ResetLook, ResetCheck, ResetClaim, ResetRecheck, ResetDestroy, ResetRecord, ResetUndo,
         RunCheckpoint, RunSave, RunSaved,
         OpenScreen, EndRun, PauseRun, AbortRun, CloseScreen, RequeueRun
<1>2. UNCHANGED screen \/ CloseScreen(c) \/ OpenScreen(c)
  BY DEF Step, LeaseStep, BootStep, SleepStep, StopStep, ResetStep, CheckpointStep, RunStep,
         AskForLease, ValidateLease, RefuseLease, Leave,
         BootLook, BootAskForeign, BootWait, BootClaim, BootProvision, BootPrepare, BootActivate,
         BootRollback, BootRecord,
         SleepLook, SleepAsk, SleepClaim, SleepExport, SleepSave, SleepRecheckRuns,
         SleepRecheckClaim, SleepStop, SleepRecord,
         StopLook, StopClaim, StopAsk, StopForget, StopExport, StopStop, StopRecord,
         ResetLook, ResetCheck, ResetClaim, ResetRecheck, ResetDestroy, ResetRecord, ResetUndo,
         RunCheckpoint, RunSave, RunSaved,
         EndRun, PauseRun, AbortRun, RequeueRun
<1>3. CloseScreen(c) => ScreensKeep
  BY DEF CloseScreen, ScreensKeep, TypeOK
<1> QED
  BY <1>1, <1>2, <1>3 DEF LeasesKeep, ScreensKeep

LEMMA TakeLeaseFences ==
  ASSUME TypeOK, FenceInv, NEW c \in Calls, TakeLease(c)
  PROVE  FenceInv'
<1>1. CASE GiveUp(c)
  <2>1. UNCHANGED <<lease, screen>>
    BY <1>1, TakeLeaseIs, GiveUpIs DEF TakeLease
  <2>2. FencesKeep
    BY <1>1, GiveUpIs DEF FencesKeep, SameCall, OthersSame
  <2> QED
    BY <2>1, <2>2, QuietFences, QuietScreens DEF FenceInv, LeasesKeep, ScreensKeep
<1>2. CASE ~GiveUp(c)
  <2> DEFINE b == call[c].bot
  <2>1. /\ b \in Bots /\ lease \in [Bots -> Lease] /\ lease[b].fence \in Nat
        /\ \A d \in Calls : call[d].fence \in Nat
        /\ \A a \in Bots : screen[a].fence \in Nat
    BY <1>2, TakeLeaseIs DEF TypeOK, Lease, CallState, Screen
  <2>2. /\ call'[c].fence = lease[b].fence + 1 /\ call'[c].bot = b
        /\ call'[c].op = call[c].op /\ call'[c].run = call[c].run
        /\ OthersSame(c)
        /\ lease'[b].owner = Owner(c) /\ lease'[b].fence = lease[b].fence + 1
        /\ \A a \in Bots : a # b => lease'[a] = lease[a]
        /\ UNCHANGED screen
    <3>1. UNCHANGED screen
      BY DEF TakeLease
    <3>2. lease' = [lease EXCEPT ![b] = [owner |-> Owner(c), fence |-> lease[b].fence + 1,
                                         live |-> TRUE]]
      BY <1>2, TakeLeaseIs
    <3>3. /\ lease'[b].owner = Owner(c) /\ lease'[b].fence = lease[b].fence + 1
          /\ \A a \in Bots : a # b => lease'[a] = lease[a]
      <4> HIDE DEF b
      <4> QED
        BY <2>1, <3>2
    <3> QED
      BY <1>2, <3>1, <3>3, TakeLeaseIs
  <2>3. CallsAreFenced'
    BY <2>1, <2>2 DEF FenceInv, CallsAreFenced, OthersSame, Owner
  <2>4. FencesDiffer'
    BY <2>1, <2>2 DEF FenceInv, CallsAreFenced, FencesDiffer, OthersSame
  <2>5. ScreensAreFenced'
    BY <2>1, <2>2 DEF FenceInv, ScreensAreFenced
  <2> QED
    BY <2>3, <2>4, <2>5 DEF FenceInv
<1> QED
  BY <1>1, <1>2

LEMMA OpenScreenFences ==
  ASSUME TypeOK, OpInv, FenceInv, NEW c \in Calls, OpenScreen(c)
  PROVE  FenceInv'
<1>1. LeasesKeep /\ FencesKeep
  BY DEF OpenScreen, LeasesKeep, FencesKeep
<1>2. call[c].op = "run" /\ call[c].fence \in Nat /\ screen \in [Bots -> Screen]
      /\ \A b \in Bots : lease[b].fence \in Nat
  BY DEF OpenScreen, OpInv, Rightly, RunPlaces, TypeOK, CallState, Lease
<1>3. ScreensAreFenced'
  BY <1>2 DEF OpenScreen, FenceInv, CallsAreFenced, ScreensAreFenced, Owner
<1> QED
  BY <1>1, <1>3, QuietFences DEF FenceInv

LEMMA FenceNext ==
  "stop" \notin Operations /\ TypeOK /\ OpInv /\ FenceInv /\ [Next]_vars => FenceInv'
<1> SUFFICES ASSUME "stop" \notin Operations, TypeOK, OpInv, FenceInv, [Next]_vars PROVE FenceInv'
  OBVIOUS
<1>q. LeasesKeep /\ FencesKeep /\ ScreensKeep => FenceInv'
  BY QuietFences, QuietScreens DEF FenceInv
<1>1. CASE UNCHANGED <<call, lease, screen>>
  BY <1>1, <1>q DEF LeasesKeep, FencesKeep, ScreensKeep
<1>2. CASE Environment
  <2>1. FencesKeep
    <3>1. CASE call' = call
      BY <3>1 DEF FencesKeep
    <3>2. ASSUME NEW c \in Calls, Return(c) PROVE FencesKeep
      BY <3>2, ReturnIs DEF FencesKeep, OthersSame
    <3> QED
      BY <1>2, <3>1, <3>2, EnvironmentKeeps
  <2>2. LeasesKeep
    <3>1. ASSUME NEW r \in Runs, lease' = ExpiredOf(r) PROVE LeasesKeep
      BY <3>1, ExpiredOfKeeps DEF LeasesKeep
    <3>2. ASSUME NEW b \in Bots, LeaseLapses(b) PROVE LeasesKeep
      BY <3>2 DEF LeaseLapses, LeasesKeep, TypeOK, Lease
    <3>3. CASE UNCHANGED lease
      BY <3>3 DEF LeasesKeep
    <3> QED
      BY <1>2, <3>1, <3>2, <3>3 DEF Environment, CreateRun, AnswerRun, CancelRun, RunLapses, HaltRun,
         ReleaseHalted, ExpireHalted, Crash, ClaimAges, BoxVanishes
  <2>3. ScreensKeep
    BY <1>2 DEF ScreensKeep, TypeOK, Environment, CreateRun, AnswerRun, CancelRun, RunLapses, HaltRun,
         ReleaseHalted, ExpireHalted, LeaseLapses, Crash, ClaimAges, BoxVanishes
  <2> QED
    BY <1>q, <2>1, <2>2, <2>3
<1>3. ASSUME NEW c \in Calls, Begin(c) PROVE FenceInv'
  <2>1. FencesKeep
    BY <1>3, BeginIs DEF FencesKeep, OthersSame
  <2> QED
    BY <1>3, <1>q, <2>1, BeginIs DEF LeasesKeep, ScreensKeep
<1>4. ASSUME NEW c \in Calls, Step(c) PROVE FenceInv'
  <2>1. CASE ~TakeLease(c) /\ ~OpenScreen(c)
    BY <1>4, <1>q, <2>1, StepWithin, WithinFences, StepTables
  <2> QED
    BY <2>1, TakeLeaseFences, OpenScreenFences
<1> QED
  BY <1>1, <1>2, <1>3, <1>4 DEF Next, vars

LEMMA FenceInit == Init => FenceInv
  BY DEF Init, FenceInv, CallsAreFenced, FencesDiffer, ScreensAreFenced, IdleCall, NoLease, NoScreen

LEMMA FencedScreens == OpInv /\ TypeOK /\ FenceInv => HolderOwnsScreen
<1> SUFFICES ASSUME OpInv, TypeOK, FenceInv, NEW c \in Calls, Works(c), Team
             PROVE  CanTakeScreen(c)
  BY DEF HolderOwnsScreen
<1>1. call[c].op = "run" /\ HoldsLease(c)
  BY DEF Works, Aborted, OpInv, Rightly, RunPlaces
<1>2. /\ call[c].bot \in Bots /\ call[c].fence \in Nat
      /\ \A b \in Bots : lease[b].fence \in Nat /\ screen[b].fence \in Nat
  BY <1>1 DEF FenceInv, CallsAreFenced, HoldsLease, TypeOK, CallState, Lease, Screen
<1> QED
  BY <1>1, <1>2 DEF HoldsLease, FenceInv, ScreensAreFenced, CanTakeScreen, Owner

\* On a shared computer that nobody stops, a run that has its bot's lease is never
\* refused the bot's screen as stale (canTakeScreenLease in screen-lease.ts), whatever
\* became of the runs before it: crashed, stalled, halted, or too slow, with their screens
\* released or not.
THEOREM HolderGetsScreen ==
  ASSUME "stop" \notin Operations
  PROVE  Spec => []HolderOwnsScreen
<1>1. Init => Inv /\ OpInv /\ FenceInv
  BY InitInv, OpInit, FenceInit
<1>2. (Inv /\ OpInv /\ FenceInv) /\ [Next]_vars => (Inv /\ OpInv /\ FenceInv)'
  BY NextInv, OpNext, FenceNext DEF Inv
<1>3. Inv /\ OpInv /\ FenceInv => HolderOwnsScreen
  BY FencedScreens DEF Inv
<1> QED
  BY <1>1, <1>2, <1>3, PTL DEF Spec

-----------------------------------------------------------------------------
(* Where the steps lead *)

To(c, places) == call'[c].at \in places

\* The end of a boot or a reset that failed.
Ends == {"run.requeue", "leave"}

LEMMA GoToLeads ==
  ASSUME TypeOK, NEW c \in Calls, NEW p,
         \/ GoTo(c, p) \/ See(c, p) \/ (\E state : Claim(c, state, p)) \/ Set(c, Only(c, p))
         \/ \E state, ref : Write(c, state, ref, Only(c, p))
  PROVE  To(c, {p})
  BY GoToIs, SeeIs, ClaimIs, SetIs, WriteIs, OnlyIs DEF To

LEMMA GiveUpLeads ==
  ASSUME TypeOK, NEW c \in Calls, GiveUp(c) \/ \E state, ref : Write(c, state, ref, GivenUp(c))
  PROVE  To(c, Ends)
  BY GiveUpIs, WriteIs, GivenUpIs DEF To, Ends

LEMMA ReturnLeads ==
  ASSUME TypeOK, NEW c \in Calls, Return(c) \/ \E state, ref : Write(c, state, ref, IdleCall)
  PROVE  To(c, {"idle"})
  BY ReturnIs, WriteIs, IdleIs DEF To

LEMMA LeaseLeads ==
  ASSUME TypeOK, NEW c \in Calls
  PROVE  LeaseStep(c) => To(c, {"lease.take", "lease.validate", "lease.refused", "boot.look",
                                "reset.look", "idle"} \union Ends)
  BY GoToLeads, GiveUpLeads, ReturnLeads, TakeLeaseIs, RefuseLeaseIs
  DEF LeaseStep, AskForLease, TakeLease, ValidateLease, Leave, Leased, To, Ends

LEMMA BootLeads ==
  ASSUME TypeOK, NEW c \in Calls
  PROVE  /\ BootLook(c) => To(c, {"boot.foreign", "boot.wait", "boot.claim"} \union Ends)
         /\ BootAskForeign(c) => To(c, {"boot.wait", "boot.claim"} \union Ends)
         /\ BootWait(c) => To(c, {"boot.reclaim", "boot.claim"} \union Ends)
         /\ BootClaim(c) => To(c, {"boot.provision"} \union Ends)
         /\ BootProvision(c) => To(c, {"boot.prepare", "boot.record"})
         /\ BootPrepare(c) => To(c, {"boot.activate", "boot.rollback", "boot.record"})
         /\ BootActivate(c) => To(c, {"run.work", "leave", "boot.evicted", "boot.record"})
         /\ BootRollback(c) => To(c, {"boot.record"})
         /\ BootRecord(c) => To(c, Ends)
<1>1. BootLook(c) => To(c, {"boot.foreign", "boot.wait", "boot.claim"} \union Ends)
  BY BootLookIs, GiveUpLeads DEF To
<1>2. BootAskForeign(c) => To(c, {"boot.wait", "boot.claim"} \union Ends)
  BY GoToLeads, GiveUpLeads DEF BootAskForeign, To
<1>3. BootWait(c) => To(c, {"boot.reclaim", "boot.claim"} \union Ends)
  BY BootWaitIs, GiveUpLeads DEF To
<1>4. BootClaim(c) => To(c, {"boot.provision"} \union Ends)
  BY GoToLeads, GiveUpLeads DEF BootClaim, To
<1>5. BootProvision(c) => To(c, {"boot.prepare", "boot.record"})
  BY BootProvisionIs, GoToLeads DEF To
<1>6. BootPrepare(c) => To(c, {"boot.activate", "boot.rollback", "boot.record"})
  BY GoToLeads DEF BootPrepare, To
<1>7. BootActivate(c) => To(c, {"run.work", "leave", "boot.evicted", "boot.record"})
  BY GoToLeads, WriteIs, BootedIs DEF BootActivate, To
<1>8. BootRollback(c) => To(c, {"boot.record"})
  BY GoToLeads, UndoneIs DEF BootRollback, To
<1>9. BootRecord(c) => To(c, Ends)
  BY GiveUpLeads DEF BootRecord
<1> QED
  BY <1>1, <1>2, <1>3, <1>4, <1>5, <1>6, <1>7, <1>8, <1>9

LEMMA SleepLeads ==
  ASSUME TypeOK, NEW c \in Calls
  PROVE  /\ SleepLook(c) => To(c, {"sleep.ask", "idle"})
         /\ SleepAsk(c) => To(c, {"sleep.claim", "idle"})
         /\ SleepClaim(c) => To(c, {"sleep.export", "idle"})
         /\ SleepExport(c) => To(c, {"sleep.save", "sleep.unclaim"})
         /\ SleepSave(c) => To(c, {"sleep.recheck", "sleep.unclaim"})
         /\ SleepRecheckRuns(c) => To(c, {"sleep.recheckClaim", "sleep.stop", "sleep.unclaim"})
         /\ SleepRecheckClaim(c) => To(c, {"sleep.recheckRuns", "sleep.stop", "sleep.unclaim"})
         /\ SleepStop(c) => To(c, {"sleep.record", "sleep.unclaim"})
         /\ SleepRecord(c) => To(c, {"idle"})
<1>1. SleepLook(c) => To(c, {"sleep.ask", "idle"})
  BY GoToLeads, ReturnLeads DEF SleepLook, To
<1>2. SleepAsk(c) => To(c, {"sleep.claim", "idle"})
  BY GoToLeads, ReturnLeads DEF SleepAsk, To
<1>3. SleepClaim(c) => To(c, {"sleep.export", "idle"})
  BY GoToLeads, ReturnLeads DEF SleepClaim, To
<1>4. SleepExport(c) => To(c, {"sleep.save", "sleep.unclaim"})
  BY GoToLeads DEF SleepExport, To
<1>5. SleepSave(c) => To(c, {"sleep.recheck", "sleep.unclaim"})
  BY GoToLeads DEF SleepSave, To
<1>6. SleepRecheckRuns(c) => To(c, {"sleep.recheckClaim", "sleep.stop", "sleep.unclaim"})
  BY GoToLeads DEF SleepRecheckRuns, To
<1>7. SleepRecheckClaim(c) => To(c, {"sleep.recheckRuns", "sleep.stop", "sleep.unclaim"})
  BY GoToLeads DEF SleepRecheckClaim, To
<1>8. SleepStop(c) => To(c, {"sleep.record", "sleep.unclaim"})
  BY GoToLeads DEF SleepStop, To
<1>9. SleepRecord(c) => To(c, {"idle"})
  BY ReturnLeads DEF SleepRecord
<1> QED
  BY <1>1, <1>2, <1>3, <1>4, <1>5, <1>6, <1>7, <1>8, <1>9

LEMMA StopLeads ==
  ASSUME TypeOK, NEW c \in Calls, StopStep(c)
  PROVE  To(c, StopPlaces \union {"idle"})
<1>1. CASE StopLook(c)
  BY <1>1, StopLookIs DEF To, StopPlaces
<1>2. CASE StopRecord(c)
  <2>1. Return(c) \/ \E state, ref : Write(c, state, ref, IdleCall)
    BY <1>2, Zenon DEF StopRecord
  <2> QED
    BY <2>1, ReturnLeads DEF To
<1> QED
  BY <1>1, <1>2, GoToLeads, ReturnLeads
  DEF StopStep, StopClaim, StopAsk, StopForget, StopExport, StopStop, StopPlaces, To

LEMMA ResetLeads ==
  ASSUME TypeOK, NEW c \in Calls
  PROVE  /\ ResetLook(c) => To(c, {"reset.check", "reset.claim"})
         /\ ResetCheck(c) => To(c, {"reset.claim"} \union Ends)
         /\ ResetClaim(c) => To(c, {"reset.recheck"} \union Ends)
         /\ ResetRecheck(c) => To(c, {"reset.restore", "reset.record", "reset.destroy"})
         /\ ResetDestroy(c) => To(c, {"reset.record", "reset.fail"})
         /\ ResetRecord(c) => To(c, {"boot.look", "reset.fail"})
         /\ ResetUndo(c) => To(c, {"leave"})
<1>1. ResetLook(c) => To(c, {"reset.check", "reset.claim"})
  BY GoToLeads DEF ResetLook, To
<1>2. ResetCheck(c) => To(c, {"reset.claim"} \union Ends)
  BY GoToLeads, GiveUpLeads DEF ResetCheck, To
<1>3. ResetClaim(c) => To(c, {"reset.recheck"} \union Ends)
  BY GoToLeads, GiveUpLeads DEF ResetClaim, To
<1>4. ResetRecheck(c) => To(c, {"reset.restore", "reset.record", "reset.destroy"})
  BY GoToLeads DEF ResetRecheck, AfterResetCheck, To
<1>5. ResetDestroy(c) => To(c, {"reset.record", "reset.fail"})
  BY GoToLeads DEF ResetDestroy, To
<1>6. ResetRecord(c) => To(c, {"boot.look", "reset.fail"})
  BY GoToLeads DEF ResetRecord, To
<1>7. ResetUndo(c) => To(c, {"leave"})
  BY GoToLeads DEF ResetUndo
<1> QED
  BY <1>1, <1>2, <1>3, <1>4, <1>5, <1>6, <1>7

LEMMA RunLeads ==
  ASSUME TypeOK, NEW c \in Calls
  PROVE  /\ RunCheckpoint(c) => To(c, {"run.save"})
         /\ RunSave(c) => To(c, IF Exclusive THEN {"run.saved"} ELSE {"run.work"})
         /\ RunSaved(c) => To(c, {"run.work"})
         /\ RunStep(c) => call' = call \/ To(c, {"run.close", "leave"})
<1>1. RunCheckpoint(c) => To(c, {"run.save"})
  BY GoToLeads DEF RunCheckpoint
<1>2. RunSave(c) => To(c, IF Exclusive THEN {"run.saved"} ELSE {"run.work"})
  BY RunSaveIs, GoToLeads DEF To
<1>3. RunSaved(c) => To(c, {"run.work"})
  BY RunSavedIs DEF To
<1>4. RunStep(c) => call' = call \/ To(c, {"run.close", "leave"})
  BY GoToLeads DEF RunStep, OpenScreen, EndRun, PauseRun, AbortRun, CloseScreen, RequeueRun, To
<1> QED
  BY <1>1, <1>2, <1>3, <1>4

-----------------------------------------------------------------------------
(* What a call has in its hands *)

\* Where a call was given no sandbox yet, and where a boot has one.
BarePlaces ==
  {"lease.ask", "lease.take", "lease.validate", "boot.look", "boot.foreign", "boot.wait",
   "boot.reclaim", "boot.claim", "boot.provision"} \union ResetPlaces
FullPlaces == {"boot.prepare", "boot.activate", "boot.rollback", "boot.evicted"}

\* A boot has the sandbox the row named when it was read, or a fresh one if that is gone.
Hand(c) ==
  /\ call[c].at \in BarePlaces => ~call[c].fresh /\ call[c].box = NoBox
  /\ call[c].at \in FullPlaces => IF call[c].fresh THEN ~Exists(call[c].seen.ref)
                                  ELSE call[c].box = call[c].seen.ref

HandInv == \A c \in Calls : Hand(c)

\* No sandbox comes back that the calls have found gone.
NoneAppears(c) ==
  \A d \in Calls : d # c => (Exists(call[d].seen.ref)' => Exists(call[d].seen.ref))

\* No sandbox is made.
BoxesShrink == \A x \in Boxes : box'[x] # "none" => box[x] # "none"

LEMMA ShrinkingAppears ==
  ASSUME NEW c \in Calls, OthersKeep(c), BoxesShrink
  PROVE  NoneAppears(c)
  BY DEF OthersKeep, BoxesShrink, NoneAppears, Exists

LEMMA OtherHands ==
  ASSUME HandInv, NEW c \in Calls, OthersKeep(c), NoneAppears(c), Hand(c)'
  PROVE  HandInv'
<1>1. ASSUME NEW d \in Calls, d # c PROVE Hand(d)'
  <2>1. /\ call'[d].at = call[d].at /\ call'[d].seen = call[d].seen
        /\ call'[d].box = call[d].box /\ call'[d].fresh = call[d].fresh
    BY <1>1 DEF OthersKeep
  <2>2. Exists(call[d].seen.ref)' => Exists(call[d].seen.ref)
    BY <1>1 DEF NoneAppears
  <2> QED
    BY <2>1, <2>2 DEF HandInv, Hand, Exists
<1> QED
  BY <1>1 DEF HandInv

\* A call moves among the places before a sandbox is provided.
LEMMA BareHand ==
  ASSUME HandInv, NEW c \in Calls, SameHands(c),
         call[c].at \in BarePlaces, call'[c].at \notin FullPlaces
  PROVE  Hand(c)'
  BY DEF HandInv, Hand, SameHands

LEMMA ElsewhereHand ==
  ASSUME NEW c \in Calls, call'[c].at \notin BarePlaces, call'[c].at \notin FullPlaces
  PROVE  Hand(c)'
  BY DEF Hand

LEMMA PlacesDiffer ==
  /\ "idle" \notin BarePlaces /\ "leave" \notin BarePlaces /\ "lease.refused" \notin BarePlaces
  /\ "boot.record" \notin BarePlaces /\ "boot.record" \notin FullPlaces
  /\ "idle" \notin FullPlaces /\ "leave" \notin FullPlaces /\ "lease.refused" \notin FullPlaces
  /\ BarePlaces \cap FullPlaces = {} /\ ResetPlaces \subseteq BarePlaces
  /\ RunPlaces \cap (BarePlaces \union FullPlaces) = {}
  /\ SleepPlaces \cap (BarePlaces \union FullPlaces) = {}
  /\ StopPlaces \cap (BarePlaces \union FullPlaces) = {}
  BY DEF BarePlaces, FullPlaces, RunPlaces, SleepPlaces, StopPlaces, ResetPlaces

LEMMA GiveUpHand ==
  ASSUME TypeOK, NEW c \in Calls, GiveUp(c)
  PROVE  Hand(c)'
<1>1. "run.requeue" \in RunPlaces
  BY DEF RunPlaces
<1> QED
  BY <1>1, GiveUpIs, ElsewhereHand, PlacesDiffer

LEMMA GoToHands ==
  ASSUME TypeOK, NEW c \in Calls, NEW p, GoTo(c, p)
  PROVE  SameHands(c) /\ call'[c].at = p /\ call'[c].seen = call[c].seen
  BY GoToIs DEF SameHands

LEMMA LeaseStepHand ==
  ASSUME TypeOK, HandInv, NEW c \in Calls, LeaseStep(c)
  PROVE  Hand(c)'
<1>0. /\ {"lease.ask", "lease.take", "lease.validate", "boot.look", "reset.look"} \subseteq BarePlaces
      /\ {"lease.take", "lease.validate", "lease.refused", "boot.look", "reset.look"} \cap FullPlaces = {}
      /\ "run.requeue" \in RunPlaces
  BY DEF BarePlaces, FullPlaces, ResetPlaces, RunPlaces
<1>1. CASE AskForLease(c)
  BY <1>0, <1>1, BareHand, GoToHands, GiveUpHand DEF AskForLease, Leased
<1>2. CASE TakeLease(c)
  <2>1. call[c].at = "lease.take"
    BY <1>2 DEF TakeLease
  <2> QED
    BY <1>0, <1>2, <2>1, BareHand, TakeLeaseIs, GiveUpHand
<1>3. CASE ValidateLease(c)
  <2>1. call[c].at = "lease.validate"
        /\ \E p \in {"lease.refused", "boot.look", "reset.look"} : GoTo(c, p)
    BY <1>3 DEF ValidateLease, Leased
  <2> QED
    BY <1>0, <2>1, BareHand, GoToHands
<1>4. CASE RefuseLease(c)
  BY <1>0, <1>4, RefuseLeaseIs, ElsewhereHand, PlacesDiffer
<1>5. CASE Leave(c)
  BY <1>5, ReturnIs, ElsewhereHand, PlacesDiffer DEF Leave
<1> QED
  BY <1>1, <1>2, <1>3, <1>4, <1>5 DEF LeaseStep

LEMMA BootBeginsHand ==
  ASSUME TypeOK, HandInv, NEW c \in Calls,
         BootLook(c) \/ BootAskForeign(c) \/ BootWait(c) \/ BootClaim(c)
  PROVE  Hand(c)'
<1>0. /\ {"boot.look", "boot.foreign", "boot.wait", "boot.reclaim", "boot.claim",
          "boot.provision"} \subseteq BarePlaces
      /\ {"boot.foreign", "boot.wait", "boot.reclaim", "boot.claim",
          "boot.provision"} \cap FullPlaces = {}
  BY DEF BarePlaces, FullPlaces
<1>1. CASE BootLook(c)
  <2>1. call[c].at = "boot.look"
    BY <1>1 DEF BootLook
  <2> QED
    BY <1>0, <1>1, <2>1, BootLookIs, GiveUpHand, BareHand
<1>2. CASE BootAskForeign(c)
  BY <1>0, <1>2, BareHand, GoToHands, GiveUpHand DEF BootAskForeign
<1>3. CASE BootWait(c)
  <2>1. call[c].at = "boot.wait"
    BY <1>3 DEF BootWait
  <2> QED
    BY <1>0, <1>3, <2>1, BootWaitIs, GiveUpHand, BareHand
<1>4. CASE BootClaim(c)
  <2>1. CASE Claim(c, "booting", "boot.provision")
    <3>1. SameHands(c) /\ call'[c].at = "boot.provision" /\ call[c].at = "boot.claim"
      BY <1>4, <2>1, ClaimIs DEF SameHands, BootClaim
    <3> QED
      BY <1>0, <3>1, BareHand
  <2> QED
    BY <1>4, <2>1, GiveUpHand DEF BootClaim
<1> QED
  BY <1>1, <1>2, <1>3, <1>4

LEMMA BootEndsHand ==
  ASSUME TypeOK, HandInv, NEW c \in Calls,
         BootPrepare(c) \/ BootActivate(c) \/ BootRollback(c) \/ BootRecord(c)
  PROVE  Hand(c)'
<1>0. /\ {"boot.prepare", "boot.activate", "boot.rollback", "boot.evicted"} \subseteq FullPlaces
      /\ {"run.work", "run.requeue"} \subseteq RunPlaces
      /\ {"boot.activate", "boot.rollback", "boot.evicted", "boot.record"} \cap BarePlaces = {}
  BY DEF FullPlaces, RunPlaces, BarePlaces, ResetPlaces
<1>1. ASSUME NEW p \in {"boot.activate", "boot.rollback", "boot.evicted", "boot.record"}, GoTo(c, p),
             box' = box, call[c].at \in FullPlaces
      PROVE  Hand(c)'
  BY <1>0, <1>1, GoToHands DEF HandInv, Hand, SameHands, Exists
<1>2. CASE BootPrepare(c)
  <2>1. \E p \in {"boot.activate", "boot.rollback", "boot.record"} : GoTo(c, p)
    BY <1>2 DEF BootPrepare
  <2> QED
    BY <1>0, <1>1, <1>2, <2>1 DEF BootPrepare
<1>3. CASE BootActivate(c)
  <2>1. CASE Write(c, "running", call[c].box, Booted(c))
    BY <1>0, <2>1, WriteIs, BootedIs, ElsewhereHand, PlacesDiffer
  <2>2. CASE \E p \in {"boot.evicted", "boot.record"} : GoTo(c, p)
    BY <1>0, <1>1, <1>3, <2>2 DEF BootActivate
  <2> QED
    BY <1>3, <2>1, <2>2 DEF BootActivate
<1>4. CASE BootRollback(c)
  <2>1. call'[c].at = "boot.record"
    BY <1>4, UndoneIs, GoToHands DEF BootRollback
  <2> QED
    BY <2>1, ElsewhereHand, PlacesDiffer
<1>5. CASE BootRecord(c)
  <2>1. CASE GiveUp(c)
    BY <2>1, GiveUpHand
  <2>2. CASE ~GiveUp(c)
    <3>1. call'[c] = GivenUp(c)
      BY <1>5, <2>2, WriteIs DEF BootRecord
    <3> QED
      BY <1>0, <3>1, GivenUpIs, ElsewhereHand, PlacesDiffer
  <2> QED
    BY <2>1, <2>2
<1> QED
  BY <1>2, <1>3, <1>4, <1>5

LEMMA ProvisionHand ==
  ASSUME TypeOK, HandInv, NEW c \in Calls, BootProvision(c)
  PROVE  Hand(c)' /\ NoneAppears(c)
<1>0. /\ "boot.provision" \in BarePlaces /\ "boot.prepare" \in FullPlaces
      /\ "boot.prepare" \notin BarePlaces
      /\ box \in [Boxes -> {"none", "up", "stopped"}]
      /\ call[c].at = "boot.provision"
  BY DEF BarePlaces, FullPlaces, ResetPlaces, TypeOK, BootProvision
<1>1. ~call[c].fresh /\ call[c].box = NoBox
  BY <1>0 DEF HandInv, Hand
<1> DEFINE ref == call[c].seen.ref
<1>2. CASE /\ Exists(ref) /\ box' = [box EXCEPT ![ref] = "up"]
           /\ call'[c].at = "boot.prepare" /\ call'[c].box = ref
           /\ call'[c].fresh = call[c].fresh
           /\ SameMemory(c) /\ OthersSame(c)
  <2>1. Hand(c)'
    BY <1>0, <1>1, <1>2 DEF Hand, SameMemory
  <2>2. NoneAppears(c)
    <3> HIDE DEF ref
    <3> QED
      BY <1>0, <1>2 DEF NoneAppears, OthersSame, Exists
  <2> QED
    BY <2>1, <2>2
<1>3. ASSUME NEW x \in Boxes, Unnamed(x), box' = [box EXCEPT ![x] = "up"], call'[c].box = x,
             ~Exists(ref), call'[c].at = "boot.prepare", call'[c].fresh,
             SameMemory(c), OthersSame(c)
      PROVE  Hand(c)' /\ NoneAppears(c)
  <2>1. \A d \in Calls : Exists(call[d].seen.ref)' => Exists(call[d].seen.ref)
    BY <1>0, <1>3 DEF Unnamed, Exists, SameMemory, OthersSame
  <2>2. ~Exists(call[c].seen.ref)'
    BY <1>3, <2>1
  <2> QED
    BY <1>0, <1>3, <2>1, <2>2 DEF Hand, NoneAppears
<1>4. CASE GoTo(c, "boot.record") /\ UNCHANGED box
  <2>1. call'[c].at = "boot.record" /\ \A d \in Calls : d # c => call'[d] = call[d]
    BY <1>4, GoToIs
  <2>2. NoneAppears(c)
    BY <1>4, <2>1 DEF NoneAppears, Exists
  <2> QED
    BY <2>1, <2>2, ElsewhereHand, PlacesDiffer
<1> QED
  BY <1>2, <1>3, <1>4, BootProvisionIs

LEMMA ResetStepHand ==
  ASSUME TypeOK, HandInv, NEW c \in Calls, ResetStep(c)
  PROVE  Hand(c)'
<1>0. /\ call[c].at \in ResetPlaces /\ "boot.look" \in BarePlaces /\ "boot.look" \notin FullPlaces
      /\ \A p \in ResetPlaces : p \in BarePlaces /\ p \notin FullPlaces
  BY DEF BarePlaces, FullPlaces, ResetPlaces, ResetStep, ResetLook, ResetCheck, ResetClaim,
         ResetRecheck, ResetDestroy, ResetRecord, ResetUndo
<1>1. ASSUME NEW p \in ResetPlaces, GoTo(c, p) \/ See(c, p) \/ Claim(c, "suspending", p)
      PROVE  Hand(c)'
  <2>1. SameHands(c) /\ call'[c].at = p
    BY <1>1, GoToHands, SeeIs, ClaimIs DEF SameHands
  <2> QED
    BY <1>0, <2>1, BareHand
<1>2. ASSUME NEW p \in {"boot.look", "leave"}, call'[c] = Only(c, p) PROVE Hand(c)'
  BY <1>0, <1>2, OnlyIs, PlacesDiffer DEF Hand
<1>3. CASE ResetLook(c)
  BY <1>1, <1>3 DEF ResetLook, ResetPlaces
<1>4. CASE ResetCheck(c)
  BY <1>1, <1>4, GiveUpHand DEF ResetCheck, ResetPlaces
<1>5. CASE ResetClaim(c)
  BY <1>1, <1>5, GiveUpHand DEF ResetClaim, ResetPlaces
<1>6. CASE ResetRecheck(c)
  BY <1>1, <1>6 DEF ResetRecheck, AfterResetCheck, ResetPlaces
<1>7. CASE ResetDestroy(c)
  BY <1>1, <1>7 DEF ResetDestroy, ResetPlaces
<1>8. CASE ResetRecord(c)
  BY <1>1, <1>2, <1>8, SetIs DEF ResetRecord, ResetPlaces
<1>9. CASE ResetUndo(c)
  BY <1>2, <1>9, SetIs, WriteIs DEF ResetUndo
<1> QED
  BY <1>3, <1>4, <1>5, <1>6, <1>7, <1>8, <1>9 DEF ResetStep

LEMMA RunsHand ==
  ASSUME TypeOK, NEW c \in Calls, SleepStep(c) \/ StopStep(c) \/ CheckpointStep(c) \/ RunStep(c)
  PROVE  call' = call \/ Hand(c)'
<1>1. CASE SleepStep(c)
  <2>1. To(c, SleepPlaces \union {"idle"})
    BY <1>1, SleepLeads DEF SleepStep, To, SleepPlaces
  <2> QED
    BY <2>1, ElsewhereHand, PlacesDiffer DEF To
<1>2. CASE StopStep(c)
  BY <1>2, StopLeads, ElsewhereHand, PlacesDiffer DEF To
<1>3. CASE CheckpointStep(c)
  <2>1. To(c, RunPlaces)
    BY <1>3, RunLeads DEF CheckpointStep, To, RunPlaces
  <2> QED
    BY <2>1, ElsewhereHand, PlacesDiffer DEF To
<1>4. CASE RunStep(c)
  <2>1. call' = call \/ To(c, RunPlaces \union {"leave"})
    BY <1>4, RunLeads DEF To, RunPlaces
  <2> QED
    BY <2>1, ElsewhereHand, PlacesDiffer DEF To
<1> QED
  BY <1>1, <1>2, <1>3, <1>4

\* Only a boot makes a sandbox.
LEMMA StepBoxes ==
  ASSUME TypeOK, NEW c \in Calls, Step(c), ~BootProvision(c)
  PROVE  BoxesShrink
<1>1. UNCHANGED box => BoxesShrink
  BY DEF BoxesShrink
<1>2. StopSeenBox(c) => BoxesShrink
  BY DEF StopSeenBox, BoxesShrink, TypeOK
<1>3. BootRollback(c) => BoxesShrink
  BY <1>1 DEF BootRollback, BoxesShrink, TypeOK
<1>4. ResetDestroy(c) => BoxesShrink
  BY <1>1 DEF ResetDestroy, BoxesShrink, TypeOK
<1> QED
  BY <1>1, <1>2, <1>3, <1>4 DEF Step, LeaseStep, BootStep, SleepStep, StopStep, ResetStep,
     CheckpointStep, RunStep,
     AskForLease, TakeLease, ValidateLease, RefuseLease, Leave,
     BootLook, BootAskForeign, BootWait, BootClaim, BootPrepare, BootActivate, BootRecord,
     SleepLook, SleepAsk, SleepClaim, SleepExport, SleepSave, SleepRecheckRuns,
     SleepRecheckClaim, SleepStop, SleepRecord,
     StopLook, StopClaim, StopAsk, StopForget, StopExport, StopStop, StopRecord,
     ResetLook, ResetCheck, ResetClaim, ResetRecheck, ResetRecord, ResetUndo,
     RunCheckpoint, RunSave, RunSaved,
     OpenScreen, EndRun, PauseRun, AbortRun, CloseScreen, RequeueRun

LEMMA StepHands ==
  ASSUME TypeOK, OpInv, HandInv, NEW c \in Calls, Step(c)
  PROVE  HandInv'
<1>1. OthersKeep(c)
  BY StepWithin DEF Within
<1>2. NoneAppears(c)
  BY <1>1, StepBoxes, ShrinkingAppears, ProvisionHand
<1>3. CASE call' = call
  <2>1. ~BootProvision(c)
    <3>1. BootProvision(c) => call[c].at = "boot.provision"
      BY DEF BootProvision
    <3>2. BootProvision(c) => call'[c].at \in {"boot.prepare", "boot.record"}
      BY BootProvisionIs, GoToIs
    <3> QED
      BY <1>3, <3>1, <3>2
  <2>2. BoxesShrink
    BY <2>1, StepBoxes
  <2> QED
    BY <1>3, <2>2 DEF HandInv, Hand, Exists, BoxesShrink
<1>4. CASE call' # call
  <2>1. Hand(c)'
    BY <1>4, LeaseStepHand, BootBeginsHand, ProvisionHand, BootEndsHand, ResetStepHand, RunsHand
    DEF Step, BootStep
  <2> QED
    BY <1>1, <1>2, <2>1, OtherHands
<1> QED
  BY <1>3, <1>4

LEMMA EnvironmentBoxes ==
  ASSUME TypeOK, Environment
  PROVE  BoxesShrink /\ (UNCHANGED box \/ \E x \in Boxes : BoxVanishes(x))
  BY DEF BoxesShrink, TypeOK, Environment, CreateRun, AnswerRun, CancelRun, RunLapses, HaltRun,
         ReleaseHalted, ExpireHalted, LeaseLapses, Crash, ClaimAges, BoxVanishes

LEMMA HandNext == TypeOK /\ OpInv /\ HandInv /\ [Next]_vars => HandInv'
<1> SUFFICES ASSUME TypeOK, OpInv, HandInv, [Next]_vars PROVE HandInv'
  OBVIOUS
<1>1. CASE UNCHANGED <<call, box>>
  BY <1>1 DEF HandInv, Hand, Exists
<1>2. CASE Environment
  <2>1. CASE call' = call
    BY <1>2, <2>1, EnvironmentBoxes DEF HandInv, Hand, Exists, BoxesShrink
  <2>2. ASSUME NEW c \in Calls, Return(c), Within(c) PROVE HandInv'
    BY <1>2, <2>2, EnvironmentBoxes, ShrinkingAppears, OtherHands, ReturnIs, ElsewhereHand,
       PlacesDiffer DEF Within
  <2> QED
    BY <1>2, <2>1, <2>2, EnvironmentKeeps
<1>3. ASSUME NEW c \in Calls, Begin(c) PROVE HandInv'
  <2>1. OthersSame(c) /\ OthersKeep(c) /\ BoxesShrink
    BY <1>3, BeginIs, KeptBySet DEF BoxesShrink
  <2>2. call'[c].at \in {"sleep.look", "stop.look", "lease.ask"} /\ ~call'[c].fresh /\ call'[c].box = NoBox
    BY <1>3, BeginIs
  <2>3. Hand(c)'
    BY <2>2 DEF Hand, FullPlaces
  <2> QED
    BY <2>1, <2>3, ShrinkingAppears, OtherHands
<1>4. ASSUME NEW c \in Calls, Step(c) PROVE HandInv'
  BY <1>4, StepHands
<1> QED
  BY <1>1, <1>2, <1>3, <1>4 DEF Next, vars

LEMMA HandInit == Init => HandInv
  BY DEF Init, HandInv, Hand, IdleCall, FullPlaces

-----------------------------------------------------------------------------
(* Who writes the row *)

\* A write moves the stamp, so what the other calls remember is outdated.
Stamps(c) == ~computer'.aged /\ OthersOutdated(c)

LEMMA ClaimStamps ==
  ASSUME TypeOK, NEW c \in Calls, NEW state, NEW p, Claim(c, state, p)
  PROVE  Stamps(c) /\ computer'.ref = computer.ref /\ computer'.state = state
  BY ClaimIs DEF Stamps, OthersOutdated

LEMMA WriteStamps ==
  ASSUME TypeOK, NEW c \in Calls, NEW state, NEW ref, NEW new, Write(c, state, ref, new)
  PROVE  Stamps(c) /\ computer'.ref = ref /\ computer'.state = state
  BY WriteIs DEF Stamps, OthersOutdated

LEMMA SetsSame ==
  ASSUME TypeOK, NEW c \in Calls
  PROVE  /\ \A new : Set(c, new) => OthersSame(c)
         /\ \A p : GoTo(c, p) \/ See(c, p) => OthersSame(c)
         /\ Return(c) \/ GiveUp(c) \/ Undone(c) \/ UNCHANGED call => OthersSame(c)
  BY SetIs DEF GoTo, See, Return, GiveUp, Undone, OthersSame

\* Only the end of a boot or a reset changes the sandbox the row names.
LEMMA StepRow ==
  ASSUME TypeOK, NEW c \in Calls, Step(c)
  PROVE  \/ computer' = computer /\ OthersSame(c)
         \/ Stamps(c) /\ (computer'.ref = computer.ref \/ BootActivate(c) \/ BootRecord(c))
         \/ ResetRecord(c) /\ computer' = NewRow /\ OthersSame(c)
<1>0. /\ \A new : Set(c, new) => OthersSame(c)
      /\ \A p : GoTo(c, p) \/ See(c, p) => OthersSame(c)
      /\ Return(c) \/ GiveUp(c) \/ Undone(c) \/ UNCHANGED call => OthersSame(c)
  BY SetsSame
<1>1. CASE LeaseStep(c) \/ RunStep(c)
  BY <1>0, <1>1, TakeLeaseIs DEF LeaseStep, RunStep,
     AskForLease, TakeLease, ValidateLease, RefuseLease, Leave,
     OpenScreen, EndRun, PauseRun, AbortRun, CloseScreen, RequeueRun
<1>2. CASE BootStep(c)
  <2>1. CASE BootActivate(c) \/ BootRecord(c)
    BY <1>0, <2>1, WriteStamps DEF BootActivate, BootRecord
  <2>2. CASE BootLook(c) \/ BootWait(c) \/ BootProvision(c)
    <3>1. OthersSame(c)
      BY <1>0, <2>2, BootLookIs, BootWaitIs, BootProvisionIs
    <3> QED
      BY <2>2, <3>1 DEF BootLook, BootWait, BootProvision
  <2> QED
    BY <1>0, <1>2, <2>1, <2>2, ClaimStamps DEF BootStep, BootAskForeign, BootClaim, BootPrepare,
       BootRollback
<1>3. CASE SleepStep(c)
  <2>1. CASE SleepRecord(c)
    BY <1>0, <2>1, WriteStamps DEF SleepRecord
  <2> QED
    BY <1>0, <1>3, <2>1, ClaimStamps DEF SleepStep, SleepLook, SleepAsk, SleepClaim, SleepExport,
       SleepSave, SleepRecheckRuns, SleepRecheckClaim, SleepStop
<1>4. CASE StopStep(c)
  <2>1. CASE StopRecord(c)
    BY <1>0, <2>1, WriteStamps, Zenon DEF StopRecord
  <2> QED
    BY <1>0, <1>4, <2>1, ClaimStamps DEF StopStep, StopLook, StopClaim, StopAsk, StopForget,
       StopExport, StopStop
<1>5. CASE ResetStep(c)
  <2>1. CASE ResetUndo(c)
    BY <1>0, <2>1, WriteStamps DEF ResetUndo
  <2>2. CASE ResetRecord(c)
    BY <1>0, <2>2 DEF ResetRecord
  <2> QED
    BY <1>0, <1>5, <2>1, <2>2, ClaimStamps DEF ResetStep, ResetLook, ResetCheck, ResetClaim,
       ResetRecheck, ResetDestroy
<1>6. CASE CheckpointStep(c)
  BY <1>0, <1>6, ClaimStamps, RunSaveIs, RunSavedIs DEF CheckpointStep, RunCheckpoint, Stamps
<1> QED
  BY <1>1, <1>2, <1>3, <1>4, <1>5, <1>6 DEF Step

-----------------------------------------------------------------------------
(* No sandbox is lost *)

InHand(c, x) == call[c].at \in FullPlaces /\ call[c].fresh /\ call[c].box = x

\* A sandbox that is there is the row's, or a boot that made it has it.
Named ==
  \A x \in Boxes : box[x] # "none" => computer.ref = x \/ \E c \in Calls : InHand(c, x)

\* A boot that records its failure has nothing to name in the row.
RecordsBare ==
  \A c \in Calls : call[c].at = "boot.record" => call[c].box = NoBox \/ Reconnecting(c)

LostInv == Named /\ RecordsBare

\* No process dies and no rollback fails; nobody resets the computer.
NothingIsAbandoned == {"crash", "rollback"} \cap Faults = {} /\ "reset" \notin Operations

LEMMA NamesKept ==
  ASSUME Named, BoxesShrink, computer'.ref = computer.ref,
         \A x \in Boxes, d \in Calls : InHand(d, x) => InHand(d, x)' \/ box'[x] = "none"
  PROVE  Named'
  BY DEF Named, BoxesShrink

LEMMA OthersInHand ==
  ASSUME NEW c \in Calls, OthersKeep(c), NEW d \in Calls, d # c
  PROVE  /\ \A x : InHand(d, x)' <=> InHand(d, x)
         /\ call'[d].at = call[d].at /\ call'[d].box = call[d].box
         /\ Reconnecting(d)' <=> Reconnecting(d)
  BY DEF OthersKeep, InHand, Reconnecting

LEMMA GoToInHand ==
  ASSUME TypeOK, NEW c \in Calls, NEW p, GoTo(c, p)
  PROVE  /\ call'[c].at = p /\ call'[c].box = call[c].box /\ call'[c].fresh = call[c].fresh
         /\ Reconnecting(c)' <=> Reconnecting(c)
  BY GoToIs DEF Reconnecting

LEMMA RecordsOther ==
  ASSUME RecordsBare, NEW c \in Calls, OthersKeep(c),
         call'[c].at = "boot.record" => call'[c].box = NoBox \/ Reconnecting(c)'
  PROVE  RecordsBare'
  BY OthersInHand DEF RecordsBare

LEMMA ProvisionLost ==
  ASSUME TypeOK, OpInv, HandInv, LostInv, NEW c \in Calls, BootProvision(c)
  PROVE  LostInv'
<1>0. /\ call[c].at = "boot.provision" /\ computer' = computer
      /\ box \in [Boxes -> {"none", "up", "stopped"}]
      /\ "boot.provision" \in BarePlaces /\ "boot.provision" \notin FullPlaces
      /\ "boot.prepare" \in FullPlaces
  BY DEF BootProvision, TypeOK, BarePlaces, FullPlaces
<1>1. OthersKeep(c) /\ Step(c)
  BY StepWithin DEF Within, Step, BootStep
<1>2. ~call[c].fresh /\ call[c].box = NoBox
  BY <1>0 DEF HandInv, Hand
<1>3. \A d \in Calls : \A x : InHand(d, x) => d # c /\ InHand(d, x)'
  BY <1>0, <1>1, OthersInHand DEF InHand
<1> DEFINE ref == call[c].seen.ref
<1>4. CASE /\ Exists(ref) /\ box' = [box EXCEPT ![ref] = "up"]
           /\ call'[c].at = "boot.prepare"
  <2>1. BoxesShrink
    <3> HIDE DEF ref
    <3> QED
      BY <1>0, <1>4 DEF BoxesShrink, Exists
  <2> QED
    BY <1>0, <1>1, <1>3, <1>4, <2>1, NamesKept, RecordsOther DEF LostInv
<1>5. ASSUME NEW x \in Boxes, box' = [box EXCEPT ![x] = "up"], call'[c].box = x,
             call'[c].at = "boot.prepare", call'[c].fresh
      PROVE  LostInv'
  <2>1. InHand(c, x)'
    BY <1>0, <1>5 DEF InHand
  <2>2. Named'
    BY <1>0, <1>3, <1>5, <2>1 DEF LostInv, Named
  <2> QED
    BY <1>1, <1>5, <2>2, RecordsOther DEF LostInv
<1>6. CASE GoTo(c, "boot.record") /\ UNCHANGED box
  <2>1. call'[c].box = NoBox
    BY <1>2, <1>6, GoToInHand
  <2> QED
    BY <1>0, <1>1, <1>3, <1>6, <2>1, NamesKept, RecordsOther DEF LostInv, BoxesShrink
<1> QED
  BY <1>4, <1>5, <1>6, BootProvisionIs

LEMMA UndoLost ==
  ASSUME NothingIsAbandoned, TypeOK, OpInv, HandInv, LostInv, NEW c \in Calls,
         BootPrepare(c) \/ BootRollback(c)
  PROVE  LostInv'
<1>0. /\ computer' = computer /\ box \in [Boxes -> {"none", "up", "stopped"}]
      /\ {"boot.prepare", "boot.activate", "boot.rollback", "boot.evicted"} = FullPlaces
  BY DEF BootPrepare, BootRollback, TypeOK, FullPlaces
<1>1. OthersKeep(c) /\ Step(c) /\ BoxesShrink
  <2>1. Step(c)
    BY DEF Step, BootStep
  <2>2. ~BootProvision(c)
    BY DEF BootPrepare, BootRollback, BootProvision
  <2> QED
    BY <2>1, <2>2, StepWithin, StepBoxes DEF Within
<1>2. \A d \in Calls : \A x : d # c /\ InHand(d, x) => InHand(d, x)'
  BY <1>1, OthersInHand
<1>3. CASE BootPrepare(c)
  <2>1. CASE \E p \in {"boot.activate", "boot.rollback"} : GoTo(c, p)
    <3>1. \A x : InHand(c, x) => InHand(c, x)'
      BY <1>0, <2>1, GoToInHand DEF InHand
    <3>2. call'[c].at # "boot.record"
      BY <2>1, GoToInHand
    <3> QED
      BY <1>0, <1>1, <1>2, <3>1, <3>2, NamesKept, RecordsOther DEF LostInv
  <2>2. CASE GoTo(c, "boot.record") /\ ~MustUndo(c)
    <3>1. ~call[c].fresh /\ Reconnecting(c)
      BY <2>2 DEF MustUndo
    <3>2. \A x : ~InHand(c, x)
      BY <3>1 DEF InHand
    <3> QED
      BY <1>0, <1>1, <1>2, <2>2, <3>1, <3>2, GoToInHand, NamesKept, RecordsOther DEF LostInv
  <2> QED
    BY <1>3, <2>1, <2>2 DEF BootPrepare
<1>4. CASE BootRollback(c)
  <2>1. /\ box' = [box EXCEPT ![call[c].box] =
                     IF call[c].fresh \/ @ = "none" THEN "none" ELSE "stopped"]
        /\ Undone(c)
    BY <1>4 DEF BootRollback, Fault, NothingIsAbandoned
  <2>2. \A x \in Boxes : InHand(c, x) => box'[x] = "none"
    BY <1>0, <2>1 DEF InHand
  <2> QED
    BY <1>0, <1>1, <1>2, <2>1, <2>2, UndoneIs, NamesKept, RecordsOther DEF LostInv
<1> QED
  BY <1>3, <1>4

LEMMA ActivateLost ==
  ASSUME TypeOK, OpInv, HandInv, LostInv, NEW c \in Calls, BootActivate(c)
  PROVE  LostInv'
<1>0. /\ box' = box /\ call[c].at = "boot.activate" /\ "boot.activate" \in FullPlaces
      /\ "boot.evicted" \in FullPlaces
  BY DEF BootActivate, FullPlaces
<1>1. OthersKeep(c)
  BY StepWithin DEF Within, Step, BootStep
<1>2. \A d \in Calls : \A x : d # c /\ InHand(d, x) => InHand(d, x)'
  BY <1>1, OthersInHand
<1>3. CASE OwnsBoot(c) /\ Write(c, "running", call[c].box, Booted(c))
  <2>1. /\ computer'.ref = call[c].box /\ call'[c].at # "boot.record"
        /\ computer.ref = call[c].seen.ref
    BY <1>3, WriteIs, BootedIs DEF OwnsBoot
  <2>2. CASE call[c].fresh
    <3>1. \A x \in Boxes : box[x] # "none" => computer.ref # x
      BY <1>0, <2>1, <2>2 DEF HandInv, Hand, Exists
    <3>2. \A x : InHand(c, x) => x = call[c].box
      BY DEF InHand
    <3> QED
      BY <1>0, <1>1, <1>2, <2>1, <3>1, <3>2, RecordsOther DEF LostInv, Named
  <2>3. CASE ~call[c].fresh
    <3>1. computer'.ref = computer.ref
      BY <1>0, <2>1, <2>3 DEF HandInv, Hand
    <3>2. \A x : ~InHand(c, x)
      BY <2>3 DEF InHand
    <3> QED
      BY <1>0, <1>1, <1>2, <2>1, <3>1, <3>2, NamesKept, RecordsOther DEF LostInv, BoxesShrink
  <2> QED
    BY <2>2, <2>3
<1>4. CASE GoTo(c, "boot.evicted") /\ UNCHANGED computer
  <2>1. \A x : InHand(c, x) => InHand(c, x)'
    BY <1>0, <1>4, GoToInHand DEF InHand
  <2> QED
    BY <1>0, <1>1, <1>2, <1>4, <2>1, GoToInHand, NamesKept, RecordsOther DEF LostInv, BoxesShrink
<1>5. CASE GoTo(c, "boot.record") /\ ~MustUndo(c) /\ UNCHANGED computer
  <2>1. Reconnecting(c) /\ \A x : ~InHand(c, x)
    BY <1>5 DEF MustUndo, InHand
  <2> QED
    BY <1>0, <1>1, <1>2, <1>5, <2>1, GoToInHand, NamesKept, RecordsOther DEF LostInv, BoxesShrink
<1> QED
  BY <1>3, <1>4, <1>5 DEF BootActivate

\* Every other step leaves what boots have in their hands, and the row's name.
LEMMA OtherLost ==
  ASSUME NothingIsAbandoned, TypeOK, OpInv, HandInv, LostInv, NEW c \in Calls, Step(c),
         ~BootProvision(c), ~BootPrepare(c), ~BootRollback(c), ~BootActivate(c)
  PROVE  LostInv'
<1>1. OthersKeep(c) /\ BoxesShrink
  BY StepWithin, StepBoxes DEF Within
<1>2. computer'.ref = computer.ref
  <2>1. ~ResetRecord(c)
    BY DEF ResetRecord, OpInv, Rightly, ResetPlaces, NothingIsAbandoned
  <2>2. CASE BootRecord(c)
    <3>1. RecordedRef(c) = computer.ref
      BY <2>2 DEF BootRecord, RecordedRef, LostInv, RecordsBare
    <3> QED
      BY <2>2, <3>1, WriteIs DEF BootRecord
  <2> QED
    BY <2>1, <2>2, StepRow
<1>3. call[c].at \notin FullPlaces
  BY DEF FullPlaces, Step, LeaseStep, BootStep, SleepStep, StopStep, ResetStep, CheckpointStep, RunStep,
     AskForLease, TakeLease, ValidateLease, RefuseLease, Leave,
     BootLook, BootAskForeign, BootWait, BootClaim, BootRecord,
     SleepLook, SleepAsk, SleepClaim, SleepExport, SleepSave, SleepRecheckRuns,
     SleepRecheckClaim, SleepStop, SleepRecord,
     StopLook, StopClaim, StopAsk, StopForget, StopExport, StopStop, StopRecord,
     ResetLook, ResetCheck, ResetClaim, ResetRecheck, ResetDestroy, ResetRecord, ResetUndo,
     RunCheckpoint, RunSave, RunSaved,
     OpenScreen, EndRun, PauseRun, AbortRun, CloseScreen, RequeueRun
<1>4. call'[c].at # "boot.record"
  <2>1. CASE LeaseStep(c)
    BY <2>1, LeaseLeads DEF To, Ends
  <2>2. CASE BootStep(c)
    BY <2>2, BootLeads DEF BootStep, To, Ends
  <2>3. CASE SleepStep(c)
    BY <2>3, SleepLeads DEF SleepStep, To
  <2>4. CASE StopStep(c)
    BY <2>4, StopLeads DEF To, StopPlaces
  <2>5. CASE ResetStep(c)
    BY <2>5, ResetLeads DEF ResetStep, To, Ends
  <2>6. CASE CheckpointStep(c)
    BY <2>6, RunLeads DEF CheckpointStep, To
  <2>7. CASE RunStep(c)
    <3>1. call[c].at # "boot.record"
      BY <2>7 DEF RunStep, OpenScreen, EndRun, PauseRun, AbortRun, CloseScreen, RequeueRun
    <3> QED
      BY <2>7, <3>1, RunLeads DEF To
  <2> QED
    BY <2>1, <2>2, <2>3, <2>4, <2>5, <2>6, <2>7 DEF Step
<1> QED
  BY <1>1, <1>2, <1>3, <1>4, OthersInHand, NamesKept, RecordsOther DEF LostInv, InHand

LEMMA LostNext ==
  ASSUME NothingIsAbandoned, TypeOK, OpInv, HandInv, LostInv, [Next]_vars
  PROVE  LostInv'
<1>1. CASE UNCHANGED <<call, box, computer>>
  BY <1>1 DEF LostInv, Named, RecordsBare, InHand, Reconnecting
<1>2. CASE Environment
  <2>1. ~\E c \in Calls : Crash(c)
    BY DEF Crash, Fault, NothingIsAbandoned
  <2>2. call' = call
    BY <1>2, <2>1, EnvironmentKeeps
  <2>3. computer'.ref = computer.ref
    BY <1>2 DEF Environment, CreateRun, AnswerRun, CancelRun, RunLapses, HaltRun, ReleaseHalted,
       ExpireHalted, LeaseLapses, Crash, ClaimAges, BoxVanishes, TypeOK, Computer
  <2> QED
    BY <1>2, <2>2, <2>3, EnvironmentBoxes, NamesKept DEF LostInv, RecordsBare, InHand, Reconnecting
<1>3. ASSUME NEW c \in Calls, Begin(c) PROVE LostInv'
  <2>1. /\ OthersKeep(c) /\ BoxesShrink /\ computer'.ref = computer.ref
        /\ call'[c].at # "boot.record" /\ call[c].at \notin FullPlaces
    BY <1>3, BeginIs, KeptBySet DEF BoxesShrink, FullPlaces
  <2> QED
    BY <2>1, OthersInHand, NamesKept, RecordsOther DEF LostInv, InHand
<1>4. ASSUME NEW c \in Calls, Step(c) PROVE LostInv'
  BY <1>4, ProvisionLost, UndoLost, ActivateLost, OtherLost
<1> QED
  BY <1>1, <1>2, <1>3, <1>4 DEF Next, vars

LEMMA LostInit == Init => LostInv
  BY DEF Init, LostInv, Named, RecordsBare, IdleCall

LEMMA NobodyLoses == LostInv => NoSandboxLost
  BY DEF LostInv, Named, InHand, NoSandboxLost

\* As long as no process dies in the middle, no rollback fails at the provider and nobody
\* resets the computer, every sandbox that exists is the one the row names or is in the
\* hands of the boot that made it: a boot that loses its claim, fails to prepare, is halted
\* or runs into a stop destroys what it was given (provisionComputer and
\* rollbackProvisionedComputer), however slow the calls and whatever vanishes.
THEOREM SandboxesAreNamed ==
  ASSUME NothingIsAbandoned
  PROVE  Spec => []NoSandboxLost
<1>1. Init => Inv /\ OpInv /\ HandInv /\ LostInv
  BY InitInv, OpInit, HandInit, LostInit
<1>2. (Inv /\ OpInv /\ HandInv /\ LostInv) /\ [Next]_vars => (Inv /\ OpInv /\ HandInv /\ LostInv)'
  BY NextInv, OpNext, HandNext, LostNext DEF Inv
<1>3. LostInv => NoSandboxLost
  BY NobodyLoses
<1> QED
  BY <1>1, <1>2, <1>3, PTL DEF Spec

-----------------------------------------------------------------------------
(* One call at a time works under a claim *)

\* No call outlasts BOOT_CLAIM_STALE_MS, and nobody stops the computer.
Prompt == SlowOperations = {} /\ "stop" \notin Operations

Trans(state) == state \in {"booting", "suspending"}

BootClaims == {"boot.provision", "boot.prepare", "boot.activate", "boot.rollback",
               "boot.evicted", "boot.record"}

\* The state a claim gave the row.
Expected(place) == IF place \in BootClaims THEN "booting" ELSE "suspending"

Alone  == \A c, d \in Calls : Claimed(c) /\ Claimed(d) => c = d
Marked == \A c \in Calls : Claimed(c) => ~computer.aged /\ computer.state = Expected(call[c].at)
SavesOnlyClaimed == \A c \in Calls : call[c].at = "run.saved" => Exclusive

\* Who takes a booting or suspending row over has seen its claim grow old, and the
\* stamp by which he finds it again is that claim's.
SawOld(c) ==
  /\ call[c].at = "boot.foreign" => call[c].mark.state = "booting" /\ call[c].mark.aged
  /\ call[c].at = "boot.wait" =>
       call[c].mark.state = "suspending" \/ (call[c].mark.state = "booting" /\ call[c].mark.aged)
  /\ call[c].at \in {"boot.reclaim", "boot.claim"} /\ Trans(call[c].seen.state) => call[c].mark.aged
  /\ /\ call[c].at \in {"boot.foreign", "boot.wait", "boot.reclaim", "boot.claim"}
     /\ call[c].current /\ call[c].mark.aged /\ InTransition
     => computer.aged
  /\ /\ call[c].at \in {"reset.check", "reset.claim"}
     /\ call[c].current /\ call[c].seen.aged /\ InTransition
     => computer.aged
  /\ call[c].at = "reset.claim" /\ call[c].current /\ Trans(call[c].seen.state) /\ InTransition
     => computer.aged

SoloInv == Alone /\ Marked /\ SavesOnlyClaimed /\ \A c \in Calls : SawOld(c)

LEMMA SawOldOthers ==
  ASSUME TypeOK, NEW c \in Calls, NEW d \in Calls, d # c, SawOld(d),
         \/ computer' = computer /\ OthersKeep(c)
         \/ Stamps(c)
         \/ computer' = NewRow /\ OthersSame(c)
  PROVE  SawOld(d)'
<1>1. CASE computer' = computer /\ OthersKeep(c)
  BY <1>1 DEF SawOld, OthersKeep, InTransition, Trans
<1>2. CASE Stamps(c)
  BY <1>2 DEF SawOld, Stamps, OthersOutdated, Trans
<1>3. CASE computer' = NewRow /\ OthersSame(c)
  BY <1>3 DEF SawOld, OthersSame, NewRow, InTransition, Trans
<1> QED
  BY <1>1, <1>2, <1>3

LEMMA BootSees ==
  ASSUME TypeOK, NEW c \in Calls, SawOld(c), BootLook(c) \/ BootAskForeign(c) \/ BootWait(c)
  PROVE  SawOld(c)'
<1>1. computer' = computer
  BY DEF BootLook, BootAskForeign, BootWait
<1>2. GiveUp(c) => SawOld(c)'
  BY GiveUpIs DEF SawOld
<1>3. CASE BootLook(c)
  BY <1>1, <1>2, <1>3, BootLookIs DEF SawOld, Trans, InTransition
<1>4. CASE BootAskForeign(c)
  <2>1. CASE GoTo(c, "boot.wait") /\ call[c].at = "boot.foreign"
    BY <1>1, <2>1, GoToIs DEF SawOld, InTransition
  <2>2. CASE GoTo(c, "boot.claim") /\ call[c].at = "boot.reclaim"
    BY <1>1, <2>2, GoToIs DEF SawOld, InTransition
  <2> QED
    BY <1>2, <1>4, <2>1, <2>2 DEF BootAskForeign
<1>5. CASE BootWait(c)
  <2>1. call[c].at = "boot.wait"
    BY <1>5 DEF BootWait
  <2> QED
    BY <1>1, <1>2, <1>5, <2>1, BootWaitIs DEF SawOld, Overtaken, Trans, InTransition
<1> QED
  BY <1>3, <1>4, <1>5

LEMMA ResetSees ==
  ASSUME TypeOK, NEW c \in Calls, SawOld(c), ResetLook(c) \/ ResetCheck(c)
  PROVE  SawOld(c)'
<1>1. computer' = computer
  BY DEF ResetLook, ResetCheck
<1>2. GiveUp(c) => SawOld(c)'
  BY GiveUpIs DEF SawOld
<1>3. CASE ResetLook(c)
  <2>1. /\ call'[c].seen = computer
        /\ call'[c].at = IF Trans(computer.state) THEN "reset.check" ELSE "reset.claim"
    BY <1>3, SeeIs DEF ResetLook, Trans
  <2> QED
    BY <1>1, <2>1 DEF SawOld, Trans, InTransition
<1>4. CASE ResetCheck(c)
  <2>1. CASE GoTo(c, "reset.claim") /\ SeenIsAbandoned(c) /\ call[c].at = "reset.check"
    BY <1>1, <2>1, GoToIs DEF SawOld, SeenIsAbandoned, InTransition
  <2> QED
    BY <1>2, <1>4, <2>1 DEF ResetCheck, ResetMayTry
<1> QED
  BY <1>3, <1>4

LEMMA ElsewhereSawOld ==
  ASSUME NEW c \in Calls,
         ~To(c, {"boot.foreign", "boot.wait", "boot.reclaim", "boot.claim", "reset.check",
                 "reset.claim"})
  PROVE  SawOld(c)'
  BY DEF SawOld, To

LEMMA StepSees ==
  ASSUME TypeOK, NEW c \in Calls, SawOld(c), Step(c)
  PROVE  SawOld(c)'
<1>1. CASE LeaseStep(c)
  BY <1>1, LeaseLeads, ElsewhereSawOld DEF To, Ends
<1>2. CASE BootStep(c)
  BY <1>2, BootSees, BootLeads, ElsewhereSawOld DEF BootStep, To, Ends
<1>3. CASE SleepStep(c)
  BY <1>3, SleepLeads, ElsewhereSawOld DEF SleepStep, To
<1>4. CASE StopStep(c)
  BY <1>4, StopLeads, ElsewhereSawOld DEF To, StopPlaces
<1>5. CASE ResetStep(c)
  BY <1>5, ResetSees, ResetLeads, ElsewhereSawOld DEF ResetStep, To, Ends
<1>6. CASE CheckpointStep(c)
  BY <1>6, RunLeads, ElsewhereSawOld DEF CheckpointStep, To
<1>7. CASE RunStep(c)
  <2>1. call[c].at \in RunPlaces
    BY <1>7 DEF RunStep, OpenScreen, EndRun, PauseRun, AbortRun, CloseScreen, RequeueRun, RunPlaces
  <2> QED
    BY <1>7, <2>1, RunLeads, ElsewhereSawOld DEF To, RunPlaces
<1> QED
  BY <1>1, <1>2, <1>3, <1>4, <1>5, <1>6, <1>7 DEF Step

\* What a step does about the claim of its call: there is none before it and after it;
\* or the step makes one while nobody has one; or it goes on under the same, or ends it.
ClaimMove(c) ==
  \/ ~Claimed(c) /\ ~Claimed(c)' /\ computer'.state = computer.state
     /\ (computer'.aged => computer.aged)
  \/ ~Claimed(c) /\ (\A d \in Calls : ~Claimed(d))
     /\ ~computer'.aged /\ computer'.state = Expected(call'[c].at)
  \/ Claimed(c) /\ (Claimed(c)' => /\ Expected(call'[c].at) = Expected(call[c].at)
                                   /\ computer'.state = computer.state
                                   /\ (computer'.aged => computer.aged))

LEMMA ClaimedAre ==
  /\ BootClaims \subseteq ClaimedPlaces
  /\ {"sleep.export", "sleep.save", "sleep.recheck", "sleep.recheckRuns", "sleep.recheckClaim",
      "sleep.stop", "sleep.record", "sleep.unclaim"} \subseteq ClaimedPlaces
  /\ {"reset.recheck", "reset.restore", "reset.destroy", "reset.record", "reset.fail"}
       \subseteq ClaimedPlaces
  /\ {"idle", "lease.ask", "lease.take", "lease.validate", "lease.refused", "leave",
      "boot.look", "boot.foreign", "boot.wait", "boot.reclaim", "boot.claim",
      "run.work", "run.close", "run.requeue", "sleep.look", "sleep.ask", "sleep.claim",
      "reset.look", "reset.check", "reset.claim"} \cap ClaimedPlaces = {}
  /\ Exclusive => "run.save" \in ClaimedPlaces /\ "run.saved" \in ClaimedPlaces
  /\ ~Exclusive => "run.save" \notin ClaimedPlaces /\ "run.saved" \notin ClaimedPlaces
  BY DEF BootClaims, ClaimedPlaces

\* Nobody has a claim of a row that is ready, or whose claim is old.
LEMMA FreeRow ==
  ASSUME SoloInv, ~InTransition \/ computer.aged, NEW d \in Calls
  PROVE  ~Claimed(d)
  BY DEF SoloInv, Marked, Expected, InTransition

LEMMA BootMoves ==
  ASSUME TypeOK, SoloInv, NEW c \in Calls, BootStep(c)
  PROVE  ClaimMove(c)
<1>1. CASE BootLook(c) \/ BootAskForeign(c) \/ BootWait(c)
  <2>1. ~Claimed(c) /\ computer' = computer
    BY <1>1, ClaimedAre DEF BootLook, BootAskForeign, BootWait, Claimed
  <2>2. ~Claimed(c)'
    BY <1>1, BootLeads, ClaimedAre DEF To, Ends, Claimed
  <2> QED
    BY <2>1, <2>2 DEF ClaimMove
<1>2. CASE BootClaim(c)
  <2>1. ~Claimed(c)
    BY <1>2, ClaimedAre DEF BootClaim, Claimed
  <2>2. CASE GiveUp(c) /\ UNCHANGED computer
    BY <2>1, <2>2, GiveUpIs, ClaimedAre DEF ClaimMove, Claimed
  <2>3. CASE Claimable(c) /\ Claim(c, "booting", "boot.provision")
    <3>1. ~InTransition \/ computer.aged
      BY <1>2, <2>3 DEF BootClaim, Claimable, SoloInv, SawOld, InTransition, Trans
    <3> QED
      BY <2>1, <2>3, <3>1, FreeRow, ClaimIs DEF ClaimMove, Expected, BootClaims
  <2> QED
    BY <1>2, <2>2, <2>3 DEF BootClaim
<1>3. CASE BootProvision(c) \/ BootPrepare(c) \/ BootRollback(c)
  <2>1. call[c].at \in BootClaims /\ computer' = computer
    BY <1>3 DEF BootProvision, BootPrepare, BootRollback, BootClaims
  <2>2. call'[c].at \in BootClaims
    BY <1>3, BootLeads DEF To, BootClaims
  <2> QED
    BY <2>1, <2>2, ClaimedAre DEF ClaimMove, Claimed, Expected
<1>4. CASE BootActivate(c) \/ BootRecord(c)
  <2>1. Claimed(c) /\ call[c].at \in BootClaims
    BY <1>4, ClaimedAre DEF BootActivate, BootRecord, Claimed, BootClaims
  <2>2. CASE UNCHANGED computer
    <3>1. To(c, BootClaims \union {"run.work", "leave", "run.requeue"})
      BY <1>4, BootLeads DEF To, Ends, BootClaims
    <3> QED
      BY <2>1, <2>2, <3>1, ClaimedAre DEF ClaimMove, Claimed, Expected, To
  <2>3. CASE ~Claimed(c)'
    BY <2>1, <2>3 DEF ClaimMove
  <2>4. UNCHANGED computer \/ ~Claimed(c)'
    <3>1. CASE BootActivate(c)
      BY <3>1, WriteIs, BootedIs, ClaimedAre DEF BootActivate, Claimed
    <3>2. CASE BootRecord(c)
      BY <3>2, BootLeads, ClaimedAre DEF To, Ends, Claimed
    <3> QED
      BY <1>4, <3>1, <3>2
  <2> QED
    BY <2>2, <2>3, <2>4
<1> QED
  BY <1>1, <1>2, <1>3, <1>4 DEF BootStep

SleepClaims == {"sleep.export", "sleep.save", "sleep.recheck", "sleep.recheckRuns",
                "sleep.recheckClaim", "sleep.stop", "sleep.record", "sleep.unclaim"}

LEMMA SleepMoves ==
  ASSUME TypeOK, SoloInv, NEW c \in Calls, SleepStep(c)
  PROVE  ClaimMove(c)
<1>1. CASE SleepLook(c) \/ SleepAsk(c)
  <2>1. ~Claimed(c) /\ computer' = computer
    BY <1>1, ClaimedAre DEF SleepLook, SleepAsk, Claimed
  <2>2. ~Claimed(c)'
    BY <1>1, SleepLeads, ClaimedAre DEF To, Claimed
  <2> QED
    BY <2>1, <2>2 DEF ClaimMove
<1>2. CASE SleepClaim(c)
  <2>1. ~Claimed(c)
    BY <1>2, ClaimedAre DEF SleepClaim, Claimed
  <2>2. CASE Return(c) /\ UNCHANGED computer
    BY <2>1, <2>2, ReturnIs, ClaimedAre DEF ClaimMove, Claimed
  <2>3. CASE SleepMayClaim(c) /\ Claim(c, "suspending", "sleep.export")
    <3>1. ~InTransition
      BY <2>3 DEF SleepMayClaim, InTransition
    <3> QED
      BY <2>1, <2>3, <3>1, FreeRow, ClaimIs DEF ClaimMove, Expected, BootClaims
  <2> QED
    BY <1>2, <2>2, <2>3 DEF SleepClaim
<1>3. CASE SleepRecord(c)
  <2>1. Claimed(c)
    BY <1>3, ClaimedAre DEF SleepRecord, Claimed
  <2>2. ~Claimed(c)'
    BY <1>3, SleepLeads, ClaimedAre DEF To, Claimed
  <2> QED
    BY <2>1, <2>2 DEF ClaimMove
<1>4. CASE SleepExport(c) \/ SleepSave(c) \/ SleepRecheckRuns(c) \/ SleepRecheckClaim(c) \/ SleepStop(c)
  <2>1. call[c].at \in SleepClaims /\ computer' = computer
    BY <1>4 DEF SleepExport, SleepSave, SleepRecheckRuns, SleepRecheckClaim, SleepStop, SleepClaims
  <2>2. call'[c].at \in SleepClaims
    BY <1>4, SleepLeads DEF To, SleepClaims
  <2>3. SleepClaims \cap BootClaims = {}
    BY DEF SleepClaims, BootClaims
  <2> QED
    BY <2>1, <2>2, <2>3, ClaimedAre DEF ClaimMove, Claimed, Expected, SleepClaims
<1> QED
  BY <1>1, <1>2, <1>3, <1>4 DEF SleepStep

LEMMA ResetMoves ==
  ASSUME TypeOK, SoloInv, NEW c \in Calls, ResetStep(c)
  PROVE  ClaimMove(c)
<1> DEFINE Claims == {"reset.recheck", "reset.restore", "reset.destroy", "reset.record", "reset.fail"}
<1>0. Claims \cap BootClaims = {} /\ Claims \subseteq ClaimedPlaces
  BY ClaimedAre DEF BootClaims
<1>1. CASE ResetLook(c) \/ ResetCheck(c)
  <2>1. ~Claimed(c) /\ computer' = computer
    BY <1>1, ClaimedAre DEF ResetLook, ResetCheck, Claimed
  <2>2. ~Claimed(c)'
    BY <1>1, ResetLeads, ClaimedAre DEF To, Ends, Claimed
  <2> QED
    BY <2>1, <2>2 DEF ClaimMove
<1>2. CASE ResetClaim(c)
  <2>1. ~Claimed(c)
    BY <1>2, ClaimedAre DEF ResetClaim, Claimed
  <2>2. CASE GiveUp(c) /\ UNCHANGED computer
    BY <2>1, <2>2, GiveUpIs, ClaimedAre DEF ClaimMove, Claimed
  <2>3. CASE ResetMayClaim(c) /\ Claim(c, "suspending", "reset.recheck")
    <3>1. ~InTransition \/ computer.aged
      BY <1>2, <2>3 DEF ResetClaim, ResetMayClaim, SoloInv, SawOld, InTransition, Trans
    <3> QED
      BY <2>1, <2>3, <3>1, FreeRow, ClaimIs DEF ClaimMove, Expected, BootClaims
  <2> QED
    BY <1>2, <2>2, <2>3 DEF ResetClaim
<1>3. CASE ResetRecheck(c) \/ ResetDestroy(c)
  <2>1. call[c].at \in Claims /\ computer' = computer
    BY <1>3 DEF ResetRecheck, ResetDestroy
  <2>2. call'[c].at \in Claims
    BY <1>3, ResetLeads DEF To
  <2> QED
    BY <1>0, <2>1, <2>2 DEF ClaimMove, Claimed, Expected
<1>4. CASE ResetRecord(c)
  <2>1. call[c].at \in Claims
    BY <1>4 DEF ResetRecord
  <2>2. CASE Set(c, Only(c, "boot.look"))
    <3>1. ~Claimed(c)'
      BY <2>2, SetIs, OnlyIs, ClaimedAre DEF Claimed
    <3> QED
      BY <1>0, <2>1, <3>1 DEF ClaimMove, Claimed
  <2>3. CASE GoTo(c, "reset.fail") /\ UNCHANGED computer
    <3>1. call'[c].at \in Claims
      BY <2>3, GoToIs
    <3> QED
      BY <1>0, <2>1, <2>3, <3>1 DEF ClaimMove, Claimed, Expected
  <2> QED
    BY <1>4, <2>2, <2>3 DEF ResetRecord
<1>5. CASE ResetUndo(c)
  <2>1. Claimed(c) /\ ~Claimed(c)'
    BY <1>0, <1>5, ResetLeads, ClaimedAre DEF ResetUndo, To, Claimed
  <2> QED
    BY <2>1 DEF ClaimMove
<1> QED
  BY <1>1, <1>2, <1>3, <1>4, <1>5 DEF ResetStep

LEMMA CheckpointMoves ==
  ASSUME TypeOK, SoloInv, NEW c \in Calls, CheckpointStep(c)
  PROVE  ClaimMove(c)
<1>0. {"run.save", "run.saved"} \cap BootClaims = {}
  BY DEF BootClaims
<1>1. CASE RunCheckpoint(c)
  <2>1. ~Claimed(c)
    BY <1>1, ClaimedAre DEF RunCheckpoint, Claimed
  <2>2. CASE ~Exclusive /\ GoTo(c, "run.save") /\ UNCHANGED computer
    BY <2>1, <2>2, GoToIs, ClaimedAre DEF ClaimMove, Claimed
  <2>3. CASE computer.state = "running" /\ Claim(c, "suspending", "run.save")
    <3>1. ~InTransition
      BY <2>3 DEF InTransition
    <3> QED
      BY <1>0, <2>1, <2>3, <3>1, FreeRow, ClaimIs DEF ClaimMove, Expected
  <2> QED
    BY <1>1, <2>2, <2>3 DEF RunCheckpoint
<1>2. CASE RunSave(c)
  <2>1. call[c].at = "run.save" /\ computer'.state = computer.state /\ (computer'.aged => computer.aged)
    BY <1>2, RunSaveIs, ClaimIs DEF RunSave
  <2>2. Exclusive => call'[c].at = "run.saved"
    BY <1>2, RunLeads DEF To
  <2>3. ~Exclusive => call'[c].at = "run.work"
    BY <1>2, RunLeads DEF To
  <2> QED
    BY <1>0, <2>1, <2>2, <2>3, ClaimedAre DEF ClaimMove, Claimed, Expected
<1>3. CASE RunSaved(c)
  <2>1. Exclusive /\ call[c].at = "run.saved"
    BY <1>3 DEF RunSaved, SoloInv, SavesOnlyClaimed
  <2>2. Claimed(c) /\ ~Claimed(c)'
    BY <1>3, <2>1, RunLeads, ClaimedAre DEF To, Claimed
  <2> QED
    BY <2>2 DEF ClaimMove
<1> QED
  BY <1>1, <1>2, <1>3 DEF CheckpointStep

LEMMA StepMoves ==
  ASSUME "stop" \notin Operations, TypeOK, OpInv, SoloInv, NEW c \in Calls, Step(c)
  PROVE  ClaimMove(c)
<1>1. CASE LeaseStep(c)
  <2>1. ~Claimed(c) /\ computer' = computer
    BY <1>1, ClaimedAre DEF LeaseStep, AskForLease, TakeLease, ValidateLease, RefuseLease, Leave, Claimed
  <2>2. ~Claimed(c)'
    BY <1>1, LeaseLeads, ClaimedAre DEF To, Ends, Claimed
  <2> QED
    BY <2>1, <2>2 DEF ClaimMove
<1>2. CASE RunStep(c)
  <2>1. ~Claimed(c) /\ computer' = computer
    BY <1>2, ClaimedAre DEF RunStep, OpenScreen, EndRun, PauseRun, AbortRun, CloseScreen, RequeueRun,
       Claimed
  <2>2. ~Claimed(c)'
    BY <1>2, <2>1, RunLeads, ClaimedAre DEF To, Claimed
  <2> QED
    BY <2>1, <2>2 DEF ClaimMove
<1>3. ~StopStep(c)
  BY DEF OpInv, Rightly, StopPlaces, StopStep, StopLook, StopClaim, StopAsk, StopForget,
     StopExport, StopStop, StopRecord
<1> QED
  BY <1>1, <1>2, <1>3, BootMoves, SleepMoves, ResetMoves, CheckpointMoves DEF Step

LEMMA MoveKeepsClaims ==
  ASSUME SoloInv, NEW c \in Calls, OthersKeep(c), ClaimMove(c)
  PROVE  Alone' /\ Marked'
<1>1. \A d \in Calls : d # c => (Claimed(d)' <=> Claimed(d)) /\ call'[d].at = call[d].at
  BY DEF OthersKeep, Claimed
<1>2. Alone'
  BY <1>1 DEF ClaimMove, SoloInv, Alone
<1>3. Marked'
  <2>1. CASE ~Claimed(c) /\ ~Claimed(c)'
    BY <1>1, <2>1 DEF ClaimMove, SoloInv, Marked
  <2>2. CASE (\A d \in Calls : ~Claimed(d)) /\ Claimed(c)'
    BY <1>1, <2>2 DEF ClaimMove, Marked
  <2>3. CASE Claimed(c)
    BY <1>1, <2>3 DEF ClaimMove, SoloInv, Marked, Alone
  <2> QED
    BY <2>1, <2>2, <2>3 DEF ClaimMove
<1> QED
  BY <1>2, <1>3

LEMMA StepSaves ==
  ASSUME TypeOK, SavesOnlyClaimed, NEW c \in Calls, OthersKeep(c), Step(c)
  PROVE  SavesOnlyClaimed'
<1>1. call'[c].at = "run.saved" => Exclusive
  <2>1. CASE LeaseStep(c)
    BY <2>1, LeaseLeads DEF To, Ends
  <2>2. CASE BootStep(c)
    BY <2>2, BootLeads DEF BootStep, To, Ends
  <2>3. CASE SleepStep(c)
    BY <2>3, SleepLeads DEF SleepStep, To
  <2>4. CASE StopStep(c)
    BY <2>4, StopLeads DEF To, StopPlaces
  <2>5. CASE ResetStep(c)
    BY <2>5, ResetLeads DEF ResetStep, To, Ends
  <2>6. CASE CheckpointStep(c)
    BY <2>6, RunLeads DEF CheckpointStep, To
  <2>7. CASE RunStep(c)
    BY <2>7, RunLeads DEF To, SavesOnlyClaimed
  <2> QED
    BY <2>1, <2>2, <2>3, <2>4, <2>5, <2>6, <2>7 DEF Step
<1> QED
  BY <1>1 DEF SavesOnlyClaimed, OthersKeep

LEMMA SoloStep ==
  ASSUME "stop" \notin Operations, TypeOK, OpInv, SoloInv, NEW c \in Calls, Step(c)
  PROVE  SoloInv'
<1>1. OthersKeep(c)
  BY StepWithin DEF Within
<1>2. Alone' /\ Marked'
  BY <1>1, StepMoves, MoveKeepsClaims
<1>3. SavesOnlyClaimed'
  BY <1>1, StepSaves DEF SoloInv
<1>4. \A d \in Calls : SawOld(d)'
  <2>1. SawOld(c)'
    BY StepSees DEF SoloInv
  <2>2. ASSUME NEW d \in Calls, d # c PROVE SawOld(d)'
    BY <1>1, <2>2, StepRow, SawOldOthers DEF SoloInv
  <2> QED
    BY <2>1, <2>2
<1> QED
  BY <1>2, <1>3, <1>4 DEF SoloInv

LEMMA SoloNext ==
  ASSUME Prompt, TypeOK, OpInv, SoloInv, [Next]_vars
  PROVE  SoloInv'
<1>1. CASE UNCHANGED <<call, computer>>
  BY <1>1 DEF SoloInv, Alone, Marked, SavesOnlyClaimed, SawOld, Claimed, InTransition
<1>2. CASE ClaimAges
  <2>1. /\ \A d \in Calls : ~Claimed(d)
        /\ computer'.aged /\ computer'.state = computer.state /\ call' = call
    BY <1>2 DEF ClaimAges, Prompt, TypeOK, Computer
  <2> QED
    BY <2>1 DEF SoloInv, Alone, Marked, SavesOnlyClaimed, SawOld, Claimed, InTransition
<1>3. ASSUME NEW c \in Calls, OthersKeep(c), computer' = computer,
             call'[c].at \in {"idle", "lease.ask", "sleep.look", "stop.look"}
      PROVE  SoloInv'
  <2>1. ~Claimed(c)'
    BY <1>3 DEF Claimed, ClaimedPlaces
  <2>2. \A d \in Calls : /\ Claimed(d)' => Claimed(d)
                         /\ d # c => call'[d].at = call[d].at
    BY <1>3, <2>1 DEF OthersKeep, Claimed
  <2>3. Alone' /\ Marked' /\ SavesOnlyClaimed'
    BY <1>3, <2>1, <2>2 DEF SoloInv, Alone, Marked, SavesOnlyClaimed
  <2>4. SawOld(c)'
    BY <1>3, ElsewhereSawOld DEF To
  <2> QED
    BY <1>3, <2>3, <2>4, SawOldOthers DEF SoloInv
<1>4. CASE Environment
  <2>1. ASSUME NEW c \in Calls, Crash(c), Return(c), Within(c) PROVE SoloInv'
    BY <1>3, <2>1, ReturnIs DEF Crash, Within
  <2>2. CASE call' = call
    BY <1>1, <1>2, <1>4, <2>2 DEF Environment, CreateRun, AnswerRun, CancelRun, RunLapses, HaltRun,
       ReleaseHalted, ExpireHalted, LeaseLapses, Crash, BoxVanishes
  <2> QED
    BY <1>4, <2>1, <2>2, EnvironmentKeeps
<1>5. ASSUME NEW c \in Calls, Begin(c) PROVE SoloInv'
  BY <1>3, <1>5, BeginIs, KeptBySet
<1>6. ASSUME NEW c \in Calls, Step(c) PROVE SoloInv'
  BY <1>6, SoloStep DEF Prompt
<1> QED
  BY <1>1, <1>4, <1>5, <1>6 DEF Next, vars

LEMMA SoloInit == Init => SoloInv
  BY DEF Init, SoloInv, Alone, Marked, SavesOnlyClaimed, SawOld, IdleCall, Claimed, ClaimedPlaces

-----------------------------------------------------------------------------
(* Who holds runs and leases *)

\* A run that somebody has claimed is active.
HeldIsActive == \A r \in Runs : run[r].holder # Nobody => run[r].status = "active"

\* Nobody but c comes to hold a run.
HoldsNoMore(c) ==
  \A r \in Runs, d \in Calls : d # c /\ run'[r].holder = d => run[r].holder = d

LEMMA StepHolders ==
  ASSUME TypeOK, NEW c \in Calls, Step(c)
  PROVE  /\ HeldIsActive => HeldIsActive'
         /\ \A r \in Runs, d \in Calls : run'[r].holder = d => run[r].holder = d
<1>0. run \in [Runs -> RunRow] /\ Nobody \notin Calls
  BY DEF TypeOK
<1>1. CASE UNCHANGED run
  BY <1>1 DEF HeldIsActive
<1>2. CASE EndRun(c) \/ PauseRun(c)
  <2>1. \A r \in Runs : run'[r] = run[r] \/ run'[r].holder = Nobody
    BY <1>0, <1>2 DEF EndRun, PauseRun
  <2> QED
    BY <1>0, <2>1 DEF HeldIsActive
<1>3. CASE RequeueRun(c)
  <2>1. \A r \in Runs : run'[r] = run[r] \/ run'[r].holder = Nobody
    BY <1>0, <1>3 DEF RequeueRun, RunRow
  <2> QED
    BY <1>0, <2>1 DEF HeldIsActive
<1> QED
  BY <1>1, <1>2, <1>3 DEF Step, LeaseStep, BootStep, SleepStep, StopStep, ResetStep,
     CheckpointStep, RunStep,
     AskForLease, TakeLease, ValidateLease, RefuseLease, Leave,
     BootLook, BootAskForeign, BootWait, BootClaim, BootProvision, BootPrepare, BootActivate,
     BootRollback, BootRecord,
     SleepLook, SleepAsk, SleepClaim, SleepExport, SleepSave, SleepRecheckRuns,
     SleepRecheckClaim, SleepStop, SleepRecord,
     StopLook, StopClaim, StopAsk, StopForget, StopExport, StopStop, StopRecord,
     ResetLook, ResetCheck, ResetClaim, ResetRecheck, ResetDestroy, ResetRecord, ResetUndo,
     RunCheckpoint, RunSave, RunSaved, OpenScreen, AbortRun, CloseScreen

LEMMA EnvironmentHolders ==
  ASSUME TypeOK, Environment
  PROVE  /\ HeldIsActive => HeldIsActive'
         /\ \A r \in Runs, d \in Calls : run'[r].holder = d => run[r].holder = d
<1>0. run \in [Runs -> RunRow] /\ Nobody \notin Calls /\ Dead \notin Calls
  BY DEF TypeOK
<1> DEFINE Fewer == /\ HeldIsActive => HeldIsActive'
                    /\ \A r \in Runs, d \in Calls : run'[r].holder = d => run[r].holder = d
<1>1. ASSUME NEW r \in Runs, CreateRun(r) \/ AnswerRun(r) \/ ExpireHalted(r) PROVE Fewer
  <2>1. \A q \in Runs : /\ run'[q].holder = run[q].holder
                        /\ run'[q].status \in {run[q].status, "active"} \/ run[q].status = "halting"
    BY <1>0, <1>1 DEF CreateRun, AnswerRun, ExpireHalted, RunRow
  <2> QED
    BY <2>1 DEF HeldIsActive
<1>2. ASSUME NEW r \in Runs, CancelRun(r) \/ HaltRun(r) \/ RunLapses(r) PROVE Fewer
  <2>1. \A q \in Runs : run'[q] = run[q] \/ run'[q].holder = Nobody
    BY <1>0, <1>2 DEF CancelRun, HaltRun, RunLapses, RunRow
  <2> QED
    BY <1>0, <2>1 DEF HeldIsActive
<1>3. ASSUME NEW c \in Calls, Crash(c) PROVE Fewer
  <2>1. \A q \in Runs : run'[q] = run[q] \/ (/\ run[q].holder = c /\ run'[q].holder = Dead
                                            /\ run'[q].status = run[q].status)
    BY <1>0, <1>3 DEF Crash, RunRow
  <2> QED
    BY <1>0, <2>1 DEF HeldIsActive
<1>4. UNCHANGED run => Fewer
  BY DEF HeldIsActive
<1> QED
  BY <1>1, <1>2, <1>3, <1>4 DEF Environment, ReleaseHalted, LeaseLapses, ClaimAges, BoxVanishes

LEMMA BeginHolders ==
  ASSUME TypeOK, NEW c \in Calls, Begin(c)
  PROVE  (HeldIsActive => HeldIsActive') /\ HoldsNoMore(c)
<1>0. run \in [Runs -> RunRow]
  BY DEF TypeOK
<1>1. ASSUME NEW r \in Runs, BeginRun(c, r) PROVE (HeldIsActive => HeldIsActive') /\ HoldsNoMore(c)
  <2>1. \A q \in Runs : \/ run'[q] = run[q]
                        \/ run'[q].holder = c /\ run'[q].status = "active"
    BY <1>0, <1>1 DEF BeginRun, RunRow
  <2> QED
    BY <2>1 DEF HeldIsActive, HoldsNoMore
<1>2. UNCHANGED run => (HeldIsActive => HeldIsActive') /\ HoldsNoMore(c)
  BY DEF HeldIsActive, HoldsNoMore
<1> QED
  BY <1>1, <1>2, BeginIs

LEMMA HeldNext == TypeOK /\ HeldIsActive /\ [Next]_vars => HeldIsActive'
<1>1. UNCHANGED run => (HeldIsActive => HeldIsActive')
  BY DEF HeldIsActive
<1> QED
  BY <1>1, EnvironmentHolders, BeginHolders, StepHolders DEF Next, vars

LEMMA HeldInit == Init => HeldIsActive
  BY DEF Init, HeldIsActive

\* The call has a lease that is good.
HasLease(c) == HoldsLease(c) /\ lease[call[c].bot].live

\* Leases only expire.
LeasesExpire ==
  \A b \in Bots : /\ lease'[b].fence = lease[b].fence /\ lease'[b].owner = lease[b].owner
                  /\ lease'[b].live => lease[b].live

LEMMA StepLeases ==
  ASSUME TypeOK, OpInv, "stop" \notin Operations, NEW c \in Calls, Step(c), ~TakeLease(c)
  PROVE  LeasesExpire
<1>1. LeasesExpire \/ UNCHANGED lease
  <2>1. ~StopForget(c)
    BY DEF StopForget, OpInv, Rightly, StopPlaces
  <2>2. lease' = Expired(c) => LeasesExpire
    BY ExpiredKeeps DEF LeasesExpire
  <2> QED
    BY <2>1, <2>2 DEF Step, LeaseStep, BootStep, SleepStep, StopStep, ResetStep, CheckpointStep, RunStep,
         AskForLease, ValidateLease, RefuseLease, Leave,
         BootLook, BootAskForeign, BootWait, BootClaim, BootProvision, BootPrepare, BootActivate,
         BootRollback, BootRecord,
         SleepLook, SleepAsk, SleepClaim, SleepExport, SleepSave, SleepRecheckRuns,
         SleepRecheckClaim, SleepStop, SleepRecord,
         StopLook, StopClaim, StopAsk, StopExport, StopStop, StopRecord,
         ResetLook, ResetCheck, ResetClaim, ResetRecheck, ResetDestroy, ResetRecord, ResetUndo,
         RunCheckpoint, RunSave, RunSaved,
         OpenScreen, EndRun, PauseRun, AbortRun, CloseScreen, RequeueRun
<1> QED
  BY <1>1 DEF LeasesExpire

LEMMA EnvironmentLeases ==
  ASSUME TypeOK, Environment
  PROVE  LeasesExpire
<1>1. ASSUME NEW r \in Runs, lease' = ExpiredOf(r) PROVE LeasesExpire
  BY <1>1, ExpiredOfKeeps DEF LeasesExpire
<1>2. ASSUME NEW b \in Bots, LeaseLapses(b) PROVE LeasesExpire
  BY <1>2 DEF LeaseLapses, LeasesExpire, TypeOK, Lease
<1>3. UNCHANGED lease => LeasesExpire
  BY DEF LeasesExpire
<1> QED
  BY <1>1, <1>2, <1>3 DEF Environment, CreateRun, AnswerRun, CancelRun, RunLapses, HaltRun,
     ReleaseHalted, ExpireHalted, Crash, ClaimAges, BoxVanishes

\* A call gets a lease only by taking it, and by that nobody else does.
LEMMA LeaseOfOther ==
  ASSUME TypeOK, FenceInv, NEW c \in Calls, OthersKeep(c), LeasesExpire \/ TakeLease(c),
         NEW d \in Calls, d # c, HasLease(d)'
  PROVE  HasLease(d)
<1>0. /\ call[d].fence > 0 /\ call[d].bot \in Bots
      /\ call[d].fence <= lease[call[d].bot].fence
      /\ call'[d].fence = call[d].fence /\ call'[d].bot = call[d].bot
      /\ Owner(d)' = Owner(d)
  BY DEF HasLease, HoldsLease, OthersKeep, FenceInv, CallsAreFenced, Owner
<1>1. CASE LeasesExpire
  BY <1>0, <1>1 DEF LeasesExpire, HasLease, HoldsLease
<1>2. CASE TakeLease(c)
  <2>1. CASE UNCHANGED lease
    BY <1>0, <2>1 DEF HasLease, HoldsLease
  <2>2. CASE lease' = [lease EXCEPT ![call[c].bot] =
                 [owner |-> Owner(c), fence |-> lease[call[c].bot].fence + 1, live |-> TRUE]]
    <3>1. lease \in [Bots -> Lease] /\ lease[call[d].bot].fence \in Nat
      BY <1>0 DEF TypeOK, Lease
    <3>2. CASE call[d].bot = call[c].bot
      <4>1. lease'[call[d].bot].fence = lease[call[d].bot].fence + 1
        BY <1>0, <2>2, <3>1, <3>2
      <4>2. call[d].fence \in Nat
        BY DEF TypeOK, CallState
      <4> QED
        BY <1>0, <3>1, <4>1, <4>2 DEF HasLease, HoldsLease
    <3>3. CASE call[d].bot # call[c].bot
      <4>1. lease'[call[d].bot] = lease[call[d].bot]
        BY <1>0, <2>2, <3>1, <3>3
      <4> QED
        BY <1>0, <4>1 DEF HasLease, HoldsLease
    <3> QED
      BY <3>2, <3>3
  <2> QED
    BY <1>2, <2>1, <2>2, TakeLeaseIs
<1> QED
  BY <1>1, <1>2

LEMMA LeaseOfActor ==
  ASSUME TypeOK, OpInv, FenceInv, "stop" \notin Operations, NEW c \in Calls, Step(c), HasLease(c)'
  PROVE  HasLease(c) \/ call'[c].at = "lease.validate"
<1>1. CASE TakeLease(c)
  <2>1. CASE GiveUp(c) /\ UNCHANGED lease
    BY <2>1, GiveUpIs DEF HasLease, HoldsLease, SameCall, Owner
  <2> QED
    BY <1>1, <2>1, TakeLeaseIs
<1>2. CASE ~TakeLease(c)
  <2>0. call'[c].fence > 0
    BY DEF HasLease, HoldsLease
  <2>1. /\ call'[c].fence = call[c].fence /\ call'[c].bot = call[c].bot
        /\ Owner(c)' = Owner(c)
    BY <1>2, <2>0, StepWithin DEF Within, Owner
  <2>2. LeasesExpire
    BY <1>2, StepLeases
  <2>3. call[c].bot \in Bots
    BY <2>0, <2>1 DEF FenceInv, CallsAreFenced
  <2> QED
    BY <2>1, <2>2, <2>3 DEF LeasesExpire, HasLease, HoldsLease
<1> QED
  BY <1>1, <1>2

-----------------------------------------------------------------------------
(* Nobody works during an export *)

ExportClaims == SleepClaims \union (IF Exclusive THEN {"run.save", "run.saved"} ELSE {})

\* On a shared computer, no lease is good while the workspace is exported under a claim
\* but one that is about to be given back.
Shielded ==
  Team => \A c, d \in Calls : call[c].at \in ExportClaims /\ d # c /\ HasLease(d)
            => call[d].at \in {"lease.validate", "lease.refused"}

AtWork(c) == call[c].at \in {"run.work", "run.save", "run.saved"} /\ HoldsRun(c)

\* On a private one the sleep job has found nobody at work, and what it read still stands.
Emptied ==
  ~Team => \A c, d \in Calls :
    call[c].at \in SleepClaims \/ (call[c].at = "sleep.claim" /\ call[c].current) => ~AtWork(d)

ExportInv == Shielded /\ Emptied

LEMMA ExportersAre ==
  ASSUME SoloInv, NEW c \in Calls, call[c].at \in ExportClaims
  PROVE  LiveSuspending /\ Claimed(c)
<1>1. Claimed(c) /\ call[c].at \notin BootClaims
  BY ClaimedAre DEF Claimed, ExportClaims, SleepClaims, BootClaims
<1> QED
  BY <1>1 DEF LiveSuspending, SoloInv, Marked, Expected

\* How a call comes to export.
LEMMA ExportBegins ==
  ASSUME TypeOK, OpInv, SoloInv, FenceInv, "stop" \notin Operations, NEW c \in Calls, Step(c),
         call'[c].at \in ExportClaims, call[c].at \notin ExportClaims
  PROVE  \/ SleepMayClaim(c) /\ call[c].at = "sleep.claim"
         \/ Team /\ HeldByNobodyElse(c)
<1>1. CASE LeaseStep(c)
  BY <1>1, LeaseLeads DEF To, Ends, ExportClaims, SleepClaims
<1>2. CASE BootStep(c)
  BY <1>2, BootLeads DEF BootStep, To, Ends, ExportClaims, SleepClaims
<1>3. CASE SleepStep(c)
  <2>1. CASE SleepClaim(c)
    BY <2>1, ReturnIs DEF SleepClaim, ExportClaims, SleepClaims
  <2>2. CASE SleepLook(c) \/ SleepAsk(c)
    BY <2>2, SleepLeads DEF To, ExportClaims, SleepClaims
  <2> QED
    BY <1>3, <2>1, <2>2 DEF SleepStep, SleepExport, SleepSave, SleepRecheckRuns, SleepRecheckClaim,
       SleepStop, SleepRecord, ExportClaims, SleepClaims
<1>4. CASE StopStep(c)
  BY <1>4, StopLeads DEF To, StopPlaces, ExportClaims, SleepClaims
<1>5. CASE ResetStep(c)
  BY <1>5, ResetLeads DEF ResetStep, To, Ends, ExportClaims, SleepClaims
<1>6. CASE CheckpointStep(c)
  <2>1. CASE RunCheckpoint(c)
    <3>1. Exclusive \/ call'[c].at \notin ExportClaims
      BY <2>1, RunLeads DEF To, ExportClaims, SleepClaims
    <3> QED
      BY <2>1, <3>1 DEF RunCheckpoint, Exclusive
  <2>2. CASE RunSave(c)
    <3>1. ~Exclusive
      BY <2>2 DEF RunSave, ExportClaims
    <3> QED
      BY <2>2, <3>1, RunLeads DEF To, ExportClaims, SleepClaims
  <2>3. CASE RunSaved(c)
    BY <2>3, RunLeads DEF To, ExportClaims, SleepClaims
  <2> QED
    BY <1>6, <2>1, <2>2, <2>3 DEF CheckpointStep
<1>7. CASE RunStep(c)
  BY <1>7, RunLeads DEF To, ExportClaims, SleepClaims
<1> QED
  BY <1>1, <1>2, <1>3, <1>4, <1>5, <1>6, <1>7 DEF Step

LEMMA ShieldStep ==
  ASSUME TypeOK, OpInv, SoloInv, FenceInv, ExportInv, "stop" \notin Operations, Team,
         NEW c \in Calls, Step(c)
  PROVE  Shielded'
<1>0. OthersKeep(c) /\ (LeasesExpire \/ TakeLease(c))
  BY StepWithin, StepLeases DEF Within
<1> SUFFICES ASSUME NEW e \in Calls, NEW d \in Calls,
                    call'[e].at \in ExportClaims, d # e, HasLease(d)'
             PROVE  call'[d].at \in {"lease.validate", "lease.refused"}
  BY DEF Shielded, ExportClaims, Exclusive
<1>1. d # c => HasLease(d) /\ call'[d].at = call[d].at
  BY <1>0, LeaseOfOther DEF OthersKeep
<1>2. e # c => call[e].at \in ExportClaims
  BY <1>0 DEF OthersKeep
<1>3. CASE e # c /\ d # c
  BY <1>1, <1>2, <1>3 DEF ExportInv, Shielded
<1>4. CASE d = c
  <2>1. LiveSuspending
    BY <1>2, <1>4, ExportersAre
  <2>2. CASE HasLease(c) /\ call'[c].at # "lease.validate"
    <3>1. call[c].at \in {"lease.validate", "lease.refused"}
      BY <1>2, <1>4, <2>2 DEF ExportInv, Shielded
    <3>2. ValidateLease(c) \/ RefuseLease(c)
      BY <3>1 DEF Step, LeaseStep, BootStep, SleepStep, StopStep, ResetStep, CheckpointStep, RunStep,
         AskForLease, TakeLease, Leave,
         BootLook, BootAskForeign, BootWait, BootClaim, BootProvision, BootPrepare, BootActivate,
         BootRollback, BootRecord,
         SleepLook, SleepAsk, SleepClaim, SleepExport, SleepSave, SleepRecheckRuns,
         SleepRecheckClaim, SleepStop, SleepRecord,
         StopLook, StopClaim, StopAsk, StopForget, StopExport, StopStop, StopRecord,
         ResetLook, ResetCheck, ResetClaim, ResetRecheck, ResetDestroy, ResetRecord, ResetUndo,
         RunCheckpoint, RunSave, RunSaved,
         OpenScreen, EndRun, PauseRun, AbortRun, CloseScreen, RequeueRun
    <3>3. ~RefuseLease(c)
      BY <1>4, RefuseLeaseIs DEF HasLease, HoldsLease
    <3> QED
      BY <1>4, <2>1, <3>2, <3>3, GoToIs DEF ValidateLease
  <2> QED
    BY <1>4, <2>2, LeaseOfActor
<1>5. CASE e = c
  <2>1. HasLease(d) /\ call'[d].at = call[d].at
    BY <1>1, <1>5
  <2>2. CASE call[c].at \in ExportClaims
    BY <1>5, <2>1, <2>2 DEF ExportInv, Shielded
  <2>3. CASE call[c].at \notin ExportClaims
    <3>1. call[d].bot \in Bots /\ lease[call[d].bot].live
      BY <2>1 DEF HasLease, HoldsLease, FenceInv, CallsAreFenced
    <3>2. HeldByNobodyElse(c)
      BY <1>5, <2>3, <3>1, ExportBegins DEF SleepMayClaim, NoLiveLease
    <3>3. call[d].bot = call[c].bot /\ HoldsLease(c)
      BY <3>1, <3>2 DEF HeldByNobodyElse
    <3>4. d = c
      BY <2>1, <3>3 DEF HasLease, HoldsLease, FenceInv, FencesDiffer
    <3> QED
      BY <1>5, <3>4
  <2> QED
    BY <2>2, <2>3
<1> QED
  BY <1>3, <1>4, <1>5

LEMMA HoldsOfOther ==
  ASSUME OpInv, NEW c \in Calls, OthersKeep(c), HoldsNoMore(c), NEW d \in Calls, d # c, AtWork(d)'
  PROVE  AtWork(d)
<1>1. call[d].op = "run" /\ call[d].run \in Runs
  BY DEF AtWork, OthersKeep, OpInv, Rightly, RunPlaces
<1> QED
  BY <1>1 DEF AtWork, HoldsRun, OthersKeep, HoldsNoMore

\* How a call gets to work: its boot is done.
LEMMA WorkBegins ==
  ASSUME TypeOK, OpInv, NEW c \in Calls, Step(c), AtWork(c)', ~AtWork(c)
  PROVE  /\ call[c].at = "boot.activate" /\ computer.state = "booting"
         /\ Write(c, "running", call[c].box, Booted(c)) /\ Stamps(c)
<1>1. CASE HoldsRun(c)
  <2>1. call[c].at \notin {"run.work", "run.save", "run.saved"}
    BY <1>1 DEF AtWork
  <2>2. call'[c].at \in {"run.work", "run.save", "run.saved"}
    BY DEF AtWork
  <2>3. BootActivate(c)
    <3>1. CASE LeaseStep(c)
      BY <2>2, <3>1, LeaseLeads DEF To, Ends
    <3>2. CASE BootStep(c)
      BY <2>2, <3>2, BootLeads DEF BootStep, To, Ends
    <3>3. CASE SleepStep(c)
      BY <2>2, <3>3, SleepLeads DEF SleepStep, To
    <3>4. CASE StopStep(c)
      BY <2>2, <3>4, StopLeads DEF To, StopPlaces
    <3>5. CASE ResetStep(c)
      BY <2>2, <3>5, ResetLeads DEF ResetStep, To, Ends
    <3>6. CASE CheckpointStep(c)
      BY <2>1, <3>6 DEF CheckpointStep, RunCheckpoint, RunSave, RunSaved
    <3>7. CASE RunStep(c)
      BY <2>1, <2>2, <3>7, RunLeads DEF To
    <3> QED
      BY <3>1, <3>2, <3>3, <3>4, <3>5, <3>6, <3>7 DEF Step
  <2>4. OwnsBoot(c) /\ Write(c, "running", call[c].box, Booted(c))
    BY <2>2, <2>3, GoToIs DEF BootActivate
  <2> QED
    BY <2>3, <2>4, WriteStamps DEF OwnsBoot, BootActivate
<1>2. CASE ~HoldsRun(c)
  <2>1. call'[c].run = call[c].run /\ call'[c].op = call[c].op /\ call'[c].op = "run"
    <3>1. call'[c].op = "run"
      BY OpNext DEF Next, AtWork, OpInv, Rightly, RunPlaces
    <3> QED
      BY <3>1, StepWithin DEF Within
  <2>2. call[c].run \in Runs
    BY <2>1 DEF OpInv, Rightly
  <2> QED
    BY <1>2, <2>1, <2>2, StepHolders DEF AtWork, HoldsRun
<1> QED
  BY <1>1, <1>2

LEMMA EmptyStep ==
  ASSUME TypeOK, OpInv, SoloInv, FenceInv, HeldIsActive, ExportInv, "stop" \notin Operations, ~Team,
         NEW c \in Calls, Step(c)
  PROVE  Emptied'
<1>0. OthersKeep(c) /\ HoldsNoMore(c)
  BY StepWithin, StepHolders DEF Within, HoldsNoMore
<1> SUFFICES ASSUME NEW e \in Calls, NEW d \in Calls, AtWork(d)',
                    call'[e].at \in SleepClaims \/ (call'[e].at = "sleep.claim" /\ call'[e].current)
             PROVE  FALSE
  BY DEF Emptied
<1>1. d # c => AtWork(d)
  BY <1>0, HoldsOfOther
<1>2. e # c => \/ call[e].at \in SleepClaims
               \/ call[e].at = "sleep.claim" /\ call[e].current /\ call'[e].current
  BY <1>0 DEF OthersKeep
<1>3. CASE e # c
  <2>1. ~AtWork(d)
    BY <1>2, <1>3 DEF ExportInv, Emptied
  <2>2. d = c /\ computer.state = "booting" /\ Stamps(c)
    BY <1>1, <2>1, WorkBegins
  <2>3. call[e].at \notin SleepClaims
    BY <2>2, ExportersAre DEF ExportClaims, LiveSuspending
  <2> QED
    BY <1>2, <1>3, <2>2, <2>3 DEF Stamps, OthersOutdated
<1>4. CASE e = c
  <2>1. call[c].op = "sleep" /\ call'[c].op = "sleep"
    <3>1. call'[c].op = "sleep"
      BY <1>4, OpNext DEF Next, OpInv, Rightly, SleepPlaces, SleepClaims
    <3> QED
      BY <3>1, StepWithin DEF Within
  <2>2. d # c /\ AtWork(d)
    <3>1. d # c
      BY <1>4 DEF AtWork, SleepClaims
    <3> QED
      BY <1>1, <3>1
  <2>3. CASE call[c].at \in SleepClaims
    BY <1>4, <2>2, <2>3 DEF ExportInv, Emptied
  <2>4. CASE call[c].at \notin SleepClaims /\ call'[c].at \in SleepClaims
    <3>1. call[c].at \notin ExportClaims /\ call'[c].at \in ExportClaims
      BY <2>1, <2>4 DEF ExportClaims, OpInv, Rightly, RunPlaces
    <3>2. SleepMayClaim(c) /\ call[c].at = "sleep.claim"
      BY <3>1, ExportBegins
    <3> QED
      BY <2>2, <3>2 DEF SleepMayClaim, ExportInv, Emptied
  <2>5. CASE call'[c].at = "sleep.claim"
    <3>1. SleepAsk(c)
      <4>1. SleepStep(c)
        <5>1. CASE LeaseStep(c)
          BY <2>5, <5>1, LeaseLeads DEF To, Ends
        <5>2. CASE BootStep(c)
          BY <2>5, <5>2, BootLeads DEF BootStep, To, Ends
        <5>3. CASE StopStep(c)
          BY <2>5, <5>3, StopLeads DEF To, StopPlaces
        <5>4. CASE ResetStep(c)
          BY <2>5, <5>4, ResetLeads DEF ResetStep, To, Ends
        <5>5. CASE CheckpointStep(c)
          BY <2>5, <5>5, RunLeads DEF CheckpointStep, To
        <5>6. CASE RunStep(c)
          <6>1. call[c].op = "run"
            BY <5>6 DEF RunStep, OpenScreen, EndRun, PauseRun, AbortRun, CloseScreen, RequeueRun,
               OpInv, Rightly, RunPlaces
          <6> QED
            BY <2>1, <6>1
        <5> QED
          BY <5>1, <5>2, <5>3, <5>4, <5>5, <5>6 DEF Step
      <4> QED
        BY <2>5, <4>1, SleepLeads DEF SleepStep, To
    <3>2. ~ActiveRun
      BY <2>5, <3>1, ReturnIs DEF SleepAsk
    <3>3. call[d].run \in Runs /\ run[call[d].run].holder = d /\ d # Nobody
      BY <2>2 DEF AtWork, HoldsRun, OpInv, Rightly, RunPlaces
    <3> QED
      BY <3>2, <3>3 DEF ActiveRun, Active, HeldIsActive
  <2> QED
    BY <1>4, <2>3, <2>4, <2>5
<1> QED
  BY <1>3, <1>4

LEMMA ExportNext ==
  ASSUME Prompt, TypeOK, OpInv, SoloInv, FenceInv, HeldIsActive, ExportInv, [Next]_vars
  PROVE  ExportInv'
<1>1. CASE UNCHANGED vars
  BY <1>1 DEF vars, ExportInv, Shielded, Emptied, HasLease, HoldsLease, Owner, AtWork, HoldsRun
<1>2. ASSUME NEW c \in Calls, OthersKeep(c), HoldsNoMore(c), LeasesExpire,
             call'[c].at \in {"idle", "lease.ask", "sleep.look", "stop.look"}, call'[c].fence = 0
      PROVE  ExportInv'
  <2>1. \A d \in Calls : HasLease(d)' => d # c /\ HasLease(d) /\ call'[d].at = call[d].at
    BY <1>2, LeaseOfOther DEF HasLease, HoldsLease, OthersKeep
  <2>2. \A d \in Calls : AtWork(d)' => AtWork(d)
    BY <1>2, HoldsOfOther DEF AtWork
  <2>3. \A d \in Calls : call'[d].at \in ExportClaims => call[d].at \in ExportClaims
    BY <1>2 DEF OthersKeep, ExportClaims, SleepClaims
  <2>4. \A d \in Calls : /\ call'[d].at \in SleepClaims => call[d].at \in SleepClaims
                         /\ call'[d].at = "sleep.claim" /\ call'[d].current
                              => call[d].at = "sleep.claim" /\ call[d].current
    BY <1>2 DEF OthersKeep, SleepClaims
  <2>5. Shielded'
    BY <2>1, <2>3 DEF ExportInv, Shielded
  <2>6. Emptied'
    BY <2>2, <2>4 DEF ExportInv, Emptied
  <2> QED
    BY <2>5, <2>6 DEF ExportInv
<1>3. CASE Environment
  <2>1. /\ LeasesExpire
        /\ \A r \in Runs, d \in Calls : run'[r].holder = d => run[r].holder = d
    BY <1>3, EnvironmentLeases, EnvironmentHolders
  <2>2. CASE call' = call
    <3>1. \A d \in Calls : HasLease(d)' => HasLease(d)
      BY <2>1, <2>2 DEF LeasesExpire, HasLease, HoldsLease, Owner, FenceInv, CallsAreFenced
    <3>2. \A d \in Calls : AtWork(d)' => AtWork(d)
      BY <2>1, <2>2 DEF AtWork, HoldsRun, OpInv, Rightly, RunPlaces
    <3> QED
      BY <2>2, <3>1, <3>2 DEF ExportInv, Shielded, Emptied
  <2>3. ASSUME NEW c \in Calls, Return(c), Within(c) PROVE ExportInv'
    BY <1>2, <2>1, <2>3, ReturnIs DEF Within, HoldsNoMore
  <2> QED
    BY <1>3, <2>2, <2>3, EnvironmentKeeps
<1>4. ASSUME NEW c \in Calls, Begin(c) PROVE ExportInv'
  BY <1>2, <1>4, BeginIs, BeginHolders, KeptBySet DEF LeasesExpire
<1>5. ASSUME NEW c \in Calls, Step(c) PROVE ExportInv'
  <2>1. CASE Team
    BY <1>5, <2>1, ShieldStep DEF Prompt, ExportInv, Emptied
  <2>2. CASE ~Team
    BY <1>5, <2>2, EmptyStep DEF Prompt, ExportInv, Shielded
  <2> QED
    BY <2>1, <2>2
<1> QED
  BY <1>1, <1>3, <1>4, <1>5 DEF Next

LEMMA ExportInit == Init => ExportInv
  BY DEF Init, ExportInv, Shielded, Emptied, IdleCall, ExportClaims, SleepClaims

LEMMA ExportersWorkAlone ==
  OpInv /\ ExportInv => NobodyWorksDuringExport
<1> SUFFICES ASSUME OpInv, ExportInv, NEW c \in Calls, NEW d \in Calls, Exporting(c), Works(d)
             PROVE  FALSE
  BY DEF NobodyWorksDuringExport
<1>1. d # c /\ call[c].at \in ExportClaims
  BY DEF Exporting, Works, ExportClaims, SleepClaims
<1>2. call[d].op = "run" /\ HoldsRun(d) /\ (Team => HasLease(d))
  BY DEF Works, Aborted, HasLease, OpInv, Rightly, RunPlaces
<1>3. CASE Team
  BY <1>1, <1>2, <1>3 DEF ExportInv, Shielded, Works
<1>4. CASE ~Team
  <2>1. call[c].at \in SleepClaims
    BY <1>4 DEF Exporting, Exclusive, SleepClaims
  <2> QED
    BY <1>2, <1>4, <2>1 DEF ExportInv, Emptied, AtWork, Works
<1> QED
  BY <1>3, <1>4

PromptInv == Inv /\ OpInv /\ FenceInv /\ SoloInv /\ HeldIsActive /\ ExportInv

LEMMA PromptHolds ==
  ASSUME Prompt
  PROVE  Spec => []PromptInv
<1>1. Init => PromptInv
  BY InitInv, OpInit, FenceInit, SoloInit, HeldInit, ExportInit DEF PromptInv
<1>2. PromptInv /\ [Next]_vars => PromptInv'
  BY NextInv, OpNext, FenceNext, SoloNext, HeldNext, ExportNext DEF PromptInv, Inv, Prompt
<1> QED
  BY <1>1, <1>2, PTL DEF Spec

\* While no call is so slow that its claim grows old, and nobody stops the computer, no
\* run works in the sandbox while the sleep job, or the checkpoint of another bot's run,
\* exports the workspace (sleepComputerIfIdle, checkpointRunComputerWorkspace): on a
\* shared computer the leases keep them apart, on a private one the row's stamp does;
\* and that although processes die, leases lapse and runs are halted at any time.
THEOREM ExportsAreQuiet ==
  ASSUME Prompt
  PROVE  Spec => []NobodyWorksDuringExport
<1>1. PromptInv => NobodyWorksDuringExport
  BY ExportersWorkAlone DEF PromptInv
<1> QED
  BY <1>1, PromptHolds, PTL

-----------------------------------------------------------------------------
(* A row in transition has an owner, and a running one a sandbox *)

\* A shared computer whose workspace is not mounted, nobody slow, nobody dead, no resets.
Attended == Exclusive /\ Prompt /\ "reset" \notin Operations /\ "crash" \notin Faults

\* The sandbox a call claimed the row with.
ClaimRef(c) == IF call[c].at \in {"run.save", "run.saved"} THEN call[c].box ELSE call[c].seen.ref

ClaimStands(c) ==
  Claimed(c) => /\ call[c].current
                /\ computer.ref = ClaimRef(c)
                /\ call[c].at \in BootClaims => ~Trans(call[c].seen.state)

OwnedInv ==
  /\ InTransition => \E c \in Calls : Claimed(c)
  /\ \A c \in Calls : ClaimStands(c)

\* With every write of the row under a claim, a call that has none before and after a
\* step leaves the row, the sandboxes and what the others remember alone.
LEMMA UnclaimedKeeps ==
  ASSUME Exclusive, TypeOK, OpInv, "stop" \notin Operations, NEW c \in Calls, Step(c),
         ~Claimed(c), ~Claimed(c)'
  PROVE  computer' = computer /\ OthersSame(c) /\ box' = box
<1>0. ~StopStep(c)
  BY DEF OpInv, Rightly, StopPlaces, StopStep, StopLook, StopClaim, StopAsk, StopForget,
     StopExport, StopStop, StopRecord
<1>1. computer' = computer /\ OthersSame(c)
  <2>1. CASE LeaseStep(c) \/ RunStep(c)
    BY <2>1, SetsSame, TakeLeaseIs DEF LeaseStep, RunStep, AskForLease, TakeLease, ValidateLease,
       RefuseLease, Leave, OpenScreen, EndRun, PauseRun, AbortRun, CloseScreen, RequeueRun
  <2>2. CASE BootStep(c)
    <3>1. BootLook(c) \/ BootAskForeign(c) \/ BootWait(c) \/ BootClaim(c)
      BY <2>2, ClaimedAre DEF BootStep, BootProvision, BootPrepare, BootActivate, BootRollback,
         BootRecord, Claimed, BootClaims
    <3>2. BootClaim(c) => GiveUp(c) /\ UNCHANGED computer
      BY ClaimIs, ClaimedAre DEF BootClaim, Claimed, BootClaims
    <3>3. BootLook(c) \/ BootWait(c) => OthersSame(c)
      BY SetsSame, BootLookIs, BootWaitIs
    <3> QED
      BY <3>1, <3>2, <3>3, SetsSame DEF BootLook, BootAskForeign, BootWait
  <2>3. CASE SleepStep(c)
    <3>1. SleepLook(c) \/ SleepAsk(c) \/ SleepClaim(c)
      BY <2>3, ClaimedAre DEF SleepStep, SleepExport, SleepSave, SleepRecheckRuns,
         SleepRecheckClaim, SleepStop, SleepRecord, Claimed
    <3>2. SleepClaim(c) => Return(c) /\ UNCHANGED computer
      BY ClaimIs, ClaimedAre DEF SleepClaim, Claimed
    <3> QED
      BY <3>1, <3>2, SetsSame DEF SleepLook, SleepAsk
  <2>4. CASE ResetStep(c)
    <3>1. ResetLook(c) \/ ResetCheck(c) \/ ResetClaim(c)
      BY <2>4, ClaimedAre DEF ResetStep, ResetRecheck, ResetDestroy, ResetRecord, ResetUndo, Claimed
    <3>2. ResetClaim(c) => GiveUp(c) /\ UNCHANGED computer
      BY ClaimIs, ClaimedAre DEF ResetClaim, Claimed
    <3> QED
      BY <3>1, <3>2, SetsSame DEF ResetLook, ResetCheck
  <2>5. CASE CheckpointStep(c)
    BY <2>5, ClaimIs, ClaimedAre DEF CheckpointStep, RunCheckpoint, RunSave, RunSaved, Claimed
  <2> QED
    BY <1>0, <2>1, <2>2, <2>3, <2>4, <2>5 DEF Step
<1>2. box' = box
  <2>2. ~BootProvision(c) /\ ~BootRollback(c) /\ ~SleepStop(c) /\ ~ResetDestroy(c)
    BY ClaimedAre DEF BootProvision, BootRollback, SleepStop, ResetDestroy, Claimed, BootClaims
  <2> QED
    BY <1>0, <2>2 DEF Step, LeaseStep, BootStep, SleepStep, ResetStep, CheckpointStep, RunStep,
       AskForLease, TakeLease, ValidateLease, RefuseLease, Leave,
       BootLook, BootAskForeign, BootWait, BootClaim, BootPrepare, BootActivate, BootRecord,
       SleepLook, SleepAsk, SleepClaim, SleepExport, SleepSave, SleepRecheckRuns,
       SleepRecheckClaim, SleepRecord,
       ResetLook, ResetCheck, ResetClaim, ResetRecheck, ResetRecord, ResetUndo,
       RunCheckpoint, RunSave, RunSaved,
       OpenScreen, EndRun, PauseRun, AbortRun, CloseScreen, RequeueRun
<1> QED
  BY <1>1, <1>2

\* The stages of the call that has the claim.
LEMMA OwnedBegins ==
  ASSUME Attended, TypeOK, OpInv, SoloInv, OwnedInv, NEW c \in Calls, Step(c),
         ~Claimed(c), Claimed(c)'
  PROVE  /\ ClaimStands(c)' /\ computer'.ref = computer.ref /\ box' = box
         /\ ~InTransition /\ (\A d \in Calls : ~Claimed(d))
         /\ \/ call'[c].at = "boot.provision" /\ call'[c].seen.state = computer.state
            \/ call'[c].at \in {"sleep.export", "run.save"} /\ computer.state = "running"
<1>0. /\ InTransition => ~computer.aged
      /\ ~Claimed(c) => call[c].at \notin {"run.save", "run.saved"}
  BY FreeRow, ClaimedAre DEF OwnedInv, Attended, Claimed
<1>1. CASE LeaseStep(c)
  BY <1>1, LeaseLeads, ClaimedAre DEF To, Ends, Claimed
<1>2. CASE BootStep(c)
  <2>1. BootClaim(c)
    <3>1. BootLook(c) \/ BootAskForeign(c) \/ BootWait(c) \/ BootClaim(c)
      BY <1>2, ClaimedAre DEF BootStep, BootProvision, BootPrepare, BootActivate, BootRollback,
         BootRecord, Claimed, BootClaims
    <3> QED
      BY <3>1, BootLeads, ClaimedAre DEF To, Ends, Claimed
  <2>2. Claimable(c) /\ Claim(c, "booting", "boot.provision") /\ box' = box
    BY <2>1, GiveUpIs, ClaimedAre DEF BootClaim, Claimed
  <2>3. ~InTransition /\ computer.state = call[c].seen.state /\ computer.ref = call[c].seen.ref
    BY <1>0, <2>1, <2>2 DEF BootClaim, Claimable, SoloInv, SawOld, InTransition, Trans
  <2> QED
    BY <2>2, <2>3, ClaimIs, FreeRow DEF ClaimStands, ClaimRef, InTransition, Trans
<1>3. CASE SleepStep(c)
  <2>1. SleepClaim(c)
    <3>1. SleepLook(c) \/ SleepAsk(c) \/ SleepClaim(c)
      BY <1>3, ClaimedAre DEF SleepStep, SleepExport, SleepSave, SleepRecheckRuns,
         SleepRecheckClaim, SleepStop, SleepRecord, Claimed
    <3> QED
      BY <3>1, SleepLeads, ClaimedAre DEF To, Claimed
  <2>2. SleepMayClaim(c) /\ Claim(c, "suspending", "sleep.export") /\ box' = box
    BY <2>1, ReturnIs, ClaimedAre DEF SleepClaim, Claimed
  <2>3. "sleep.export" \notin BootClaims
    BY DEF BootClaims
  <2> QED
    BY <2>2, <2>3, ClaimIs, FreeRow DEF SleepMayClaim, ClaimStands, ClaimRef, InTransition
<1>4. CASE ResetStep(c) \/ StopStep(c)
  BY <1>4 DEF Attended, Prompt, OpInv, Rightly, StopPlaces, ResetPlaces,
     StopStep, StopLook, StopClaim, StopAsk, StopForget, StopExport, StopStop, StopRecord,
     ResetStep, ResetLook, ResetCheck, ResetClaim, ResetRecheck, ResetDestroy, ResetRecord, ResetUndo
<1>5. CASE CheckpointStep(c)
  <2>1. RunCheckpoint(c)
    BY <1>0, <1>5 DEF CheckpointStep, RunSave, RunSaved
  <2>2. /\ computer.state = "running" /\ computer.ref = call[c].box
        /\ Claim(c, "suspending", "run.save") /\ box' = box
    BY <2>1 DEF RunCheckpoint, Attended
  <2>3. "run.save" \notin BootClaims
    BY DEF BootClaims
  <2> QED
    BY <2>2, <2>3, ClaimIs, FreeRow DEF ClaimStands, ClaimRef, InTransition
<1>6. CASE RunStep(c)
  BY <1>6, RunLeads, ClaimedAre DEF To, Claimed
<1> QED
  BY <1>1, <1>2, <1>3, <1>4, <1>5, <1>6 DEF Step

\* Nothing the call does under its claim loses it.
LEMMA OwnedGoesOn ==
  ASSUME Attended, TypeOK, OpInv, SoloInv, OwnedInv, NEW c \in Calls, Step(c),
         Claimed(c), Claimed(c)'
  PROVE  ClaimStands(c)' /\ computer'.ref = computer.ref
<1>0. /\ call[c].current /\ computer.ref = ClaimRef(c)
      /\ call[c].at \in BootClaims => ~Trans(call[c].seen.state)
      /\ {"run.save", "run.saved"} \cap BootClaims = {}
  BY DEF OwnedInv, ClaimStands, BootClaims
<1>1. CASE LeaseStep(c) \/ RunStep(c)
  BY <1>1, ClaimedAre DEF LeaseStep, AskForLease, TakeLease, ValidateLease, RefuseLease, Leave,
     RunStep, OpenScreen, EndRun, PauseRun, AbortRun, CloseScreen, RequeueRun, Claimed
<1>2. CASE BootStep(c)
  <2>1. call[c].at \in BootClaims
    BY <1>2, ClaimedAre DEF BootStep, BootLook, BootAskForeign, BootWait, BootClaim, BootProvision,
       BootPrepare, BootActivate, BootRollback, BootRecord, Claimed, BootClaims
  <2>2. call'[c].at \in BootClaims
    BY <1>2, <2>1, BootLeads, ClaimedAre DEF BootStep, BootLook, BootAskForeign, BootWait, BootClaim,
       To, Ends, Claimed, BootClaims
  <2>3. SameMemory(c) /\ computer' = computer
    <3>1. CASE BootProvision(c) \/ BootPrepare(c) \/ BootRollback(c)
      BY <3>1, BootProvisionIs, GoToIs, UndoneIs
      DEF BootProvision, BootPrepare, BootRollback, SameMemory
    <3>2. CASE BootActivate(c)
      <4>1. ~Write(c, "running", call[c].box, Booted(c))
        BY <2>2, WriteIs, BootedIs DEF BootClaims
      <4> QED
        BY <3>2, <4>1, GoToIs DEF BootActivate, SameMemory
    <3>3. ~BootRecord(c)
      BY <2>2, BootLeads DEF To, Ends, BootClaims
    <3> QED
      BY <1>2, <2>1, <3>1, <3>2, <3>3 DEF BootStep, BootLook, BootAskForeign, BootWait, BootClaim,
         BootClaims
  <2> QED
    BY <1>0, <2>1, <2>2, <2>3 DEF SameMemory, ClaimStands, ClaimRef
<1>3. CASE SleepStep(c)
  <2>1. /\ call[c].at \in SleepClaims /\ call'[c].at \in SleepClaims
    BY <1>3, SleepLeads, ClaimedAre DEF SleepStep, SleepLook, SleepAsk, SleepClaim, SleepExport,
       SleepSave, SleepRecheckRuns, SleepRecheckClaim, SleepStop, SleepRecord, Claimed, SleepClaims, To
  <2>2. computer' = computer /\ \E p : GoTo(c, p)
    BY <1>3, <2>1, SleepLeads DEF SleepStep, SleepLook, SleepAsk, SleepClaim, SleepExport,
       SleepSave, SleepRecheckRuns, SleepRecheckClaim, SleepStop, SleepClaims, To
  <2>3. call'[c].current = call[c].current /\ call'[c].seen = call[c].seen
    BY <2>2, GoToIs
  <2>4. SleepClaims \cap (BootClaims \union {"run.save", "run.saved"}) = {}
    BY DEF SleepClaims, BootClaims
  <2> QED
    BY <1>0, <2>1, <2>2, <2>3, <2>4 DEF ClaimStands, ClaimRef
<1>4. CASE ResetStep(c) \/ StopStep(c)
  BY <1>4 DEF Attended, Prompt, OpInv, Rightly, StopPlaces, ResetPlaces,
     StopStep, StopLook, StopClaim, StopAsk, StopForget, StopExport, StopStop, StopRecord,
     ResetStep, ResetLook, ResetCheck, ResetClaim, ResetRecheck, ResetDestroy, ResetRecord, ResetUndo
<1>5. CASE CheckpointStep(c)
  <2>1. RunSave(c) /\ call[c].at = "run.save" /\ call'[c].at = "run.saved"
    BY <1>5, RunLeads, ClaimedAre DEF CheckpointStep, RunCheckpoint, RunSave, Attended, Claimed, To
  <2>2. /\ call'[c].current /\ call'[c].box = call[c].box /\ computer'.ref = computer.ref
    BY <1>0, <2>1, RunSaveIs, ClaimIs, GoToIs DEF Attended
  <2> QED
    BY <1>0, <2>1, <2>2 DEF ClaimStands, ClaimRef
<1> QED
  BY <1>1, <1>2, <1>3, <1>4, <1>5 DEF Step

LEMMA OwnedEnds ==
  ASSUME Attended, TypeOK, OpInv, SoloInv, OwnedInv, NEW c \in Calls, Step(c),
         Claimed(c), ~Claimed(c)'
  PROVE  ~InTransition'
<1>0. /\ call[c].current /\ computer.ref = ClaimRef(c)
      /\ computer.state = Expected(call[c].at)
  BY DEF OwnedInv, ClaimStands, SoloInv, Marked
<1>1. CASE LeaseStep(c) \/ RunStep(c)
  BY <1>1, ClaimedAre DEF LeaseStep, AskForLease, TakeLease, ValidateLease, RefuseLease, Leave,
     RunStep, OpenScreen, EndRun, PauseRun, AbortRun, CloseScreen, RequeueRun, Claimed
<1>2. CASE BootStep(c)
  <2>1. CASE BootActivate(c)
    <3>1. Write(c, "running", call[c].box, Booted(c))
      BY <2>1, GoToIs, ClaimedAre DEF BootActivate, Claimed, BootClaims
    <3> QED
      BY <3>1, WriteIs DEF InTransition
  <2>2. CASE BootRecord(c)
    <3>1. OwnsBoot(c)
      BY <1>0, <2>2 DEF BootRecord, OwnsBoot, ClaimRef, Expected, BootClaims
    <3> QED
      BY <2>2, <3>1, WriteIs DEF BootRecord, InTransition
  <2>3. CASE BootProvision(c) \/ BootPrepare(c) \/ BootRollback(c)
    BY <2>3, BootLeads, ClaimedAre DEF To, Claimed, BootClaims
  <2> QED
    BY <1>2, <2>1, <2>2, <2>3, ClaimedAre DEF BootStep, BootLook, BootAskForeign, BootWait,
       BootClaim, Claimed
<1>3. CASE SleepStep(c)
  <2>1. SleepRecord(c)
    BY <1>3, SleepLeads, ClaimedAre DEF SleepStep, SleepLook, SleepAsk, SleepClaim, Claimed, To
  <2>2. OwnsSuspension(c)
    BY <1>0, <2>1 DEF SleepRecord, OwnsSuspension, ClaimRef, Expected, BootClaims
  <2> QED
    BY <2>1, <2>2, WriteIs DEF SleepRecord, InTransition
<1>4. CASE ResetStep(c) \/ StopStep(c)
  BY <1>4 DEF Attended, Prompt, OpInv, Rightly, StopPlaces, ResetPlaces,
     StopStep, StopLook, StopClaim, StopAsk, StopForget, StopExport, StopStop, StopRecord,
     ResetStep, ResetLook, ResetCheck, ResetClaim, ResetRecheck, ResetDestroy, ResetRecord, ResetUndo
<1>5. CASE CheckpointStep(c)
  <2>1. RunSaved(c)
    BY <1>5, RunLeads, ClaimedAre DEF CheckpointStep, RunCheckpoint, Attended, Claimed, To
  <2>2. computer.state = "suspending" /\ computer.ref = call[c].box
    BY <1>0, <2>1 DEF RunSaved, ClaimRef, Expected, BootClaims
  <2> QED
    BY <2>1, <2>2, RunSavedIs DEF InTransition
<1> QED
  BY <1>1, <1>2, <1>3, <1>4, <1>5 DEF Step

\* While a call has the claim, or gets it, no other has.
LEMMA OthersUnclaimed ==
  ASSUME SoloInv, NEW c \in Calls, OthersKeep(c), ClaimMove(c), Claimed(c) \/ Claimed(c)',
         NEW d \in Calls, d # c
  PROVE  ~Claimed(d) /\ ~Claimed(d)'
  BY DEF SoloInv, Alone, OthersKeep, Claimed, ClaimMove

LEMMA OwnedStep ==
  ASSUME Attended, TypeOK, OpInv, SoloInv, OwnedInv, NEW c \in Calls, Step(c)
  PROVE  OwnedInv'
<1>0. OthersKeep(c) /\ ClaimMove(c)
  BY StepWithin, StepMoves DEF Within, Attended, Prompt
<1>1. CASE ~Claimed(c) /\ ~Claimed(c)'
  <2>1. computer' = computer /\ OthersSame(c)
    BY <1>1, UnclaimedKeeps DEF Attended, Prompt
  <2>2. \A d \in Calls : Claimed(d)' <=> Claimed(d)
    BY <1>1, <2>1 DEF OthersSame, Claimed
  <2>3. \A d \in Calls : ClaimStands(d)'
    BY <1>1, <2>1, <2>2 DEF OwnedInv, ClaimStands, ClaimRef, OthersSame
  <2> QED
    BY <2>1, <2>2, <2>3 DEF OwnedInv, InTransition
<1>2. CASE Claimed(c) \/ Claimed(c)'
  <2>1. \A d \in Calls : d # c => ClaimStands(d)'
    BY <1>0, <1>2, OthersUnclaimed DEF ClaimStands
  <2>2. ClaimStands(c)'
    BY <1>2, OwnedBegins, OwnedGoesOn DEF ClaimStands
  <2>3. InTransition' => \E d \in Calls : Claimed(d)'
    BY <1>2, OwnedEnds
  <2> QED
    BY <2>1, <2>2, <2>3 DEF OwnedInv
<1> QED
  BY <1>1, <1>2

\* The environment and a call that begins leave the claims and the row alone: no process
\* dies, and no claim grows old while its call goes on.
LEMMA AttendedKeeps ==
  ASSUME Attended, TypeOK, SoloInv, OwnedInv, Environment
  PROVE  call' = call /\ computer' = computer
<1>1. ~\E c \in Calls : Crash(c)
  BY DEF Crash, Fault, Attended
<1>2. ~ClaimAges
  BY DEF ClaimAges, OwnedInv, InTransition, Attended, Prompt
<1>3. call' = call
  BY <1>1, EnvironmentKeeps
<1> QED
  BY <1>1, <1>2, <1>3 DEF Environment, CreateRun, AnswerRun, CancelRun, RunLapses, HaltRun,
     ReleaseHalted, ExpireHalted, LeaseLapses, BoxVanishes

LEMMA BeginUnclaimed ==
  ASSUME TypeOK, NEW c \in Calls, Begin(c)
  PROVE  /\ ~Claimed(c) /\ ~Claimed(c)' /\ computer' = computer /\ box' = box
         /\ OthersSame(c) /\ OthersKeep(c)
  BY BeginIs, KeptBySet DEF Claimed, ClaimedPlaces

LEMMA OwnedNext ==
  ASSUME Attended, TypeOK, OpInv, SoloInv, OwnedInv, [Next]_vars
  PROVE  OwnedInv'
<1>1. CASE UNCHANGED <<call, computer>>
  BY <1>1 DEF OwnedInv, ClaimStands, ClaimRef, Claimed, InTransition
<1>2. ASSUME NEW c \in Calls, Begin(c) PROVE OwnedInv'
  <2>1. \A d \in Calls : (Claimed(d)' <=> Claimed(d)) /\ (d # c => call'[d] = call[d])
    BY <1>2, BeginUnclaimed DEF OthersSame, Claimed
  <2> QED
    BY <1>2, <2>1, BeginUnclaimed DEF OwnedInv, ClaimStands, ClaimRef, InTransition
<1> QED
  BY <1>1, <1>2, AttendedKeeps, OwnedStep DEF Next, vars

LEMMA OwnedInit == Init => OwnedInv
  BY DEF Init, OwnedInv, ClaimStands, IdleCall, Claimed, ClaimedPlaces, InTransition, NewRow

AttendedInv == PromptInv /\ HandInv /\ OwnedInv

LEMMA AttendedHolds ==
  ASSUME Attended
  PROVE  Spec => []AttendedInv
<1>1. Init => HandInv /\ OwnedInv
  BY HandInit, OwnedInit
<1>2. PromptInv /\ HandInv /\ OwnedInv /\ [Next]_vars => (HandInv /\ OwnedInv)'
  BY HandNext, OwnedNext DEF PromptInv, Inv
<1>3. Spec => []PromptInv
  BY PromptHolds DEF Attended
<1> QED
  BY <1>1, <1>2, <1>3, PTL DEF Spec, AttendedInv

\* On a shared computer whose workspace is not mounted, as long as no process dies, no call
\* outlasts its claim and nobody stops or resets the computer, a row that is booting or
\* suspending carries the claim of a call that goes on: each error path of
\* provisionComputer, sleepComputerIfIdle and checkpointRunComputerWorkspace undoes the
\* state its claim wrote, whatever fails at the provider and whoever is cancelled.
THEOREM ClaimsAreAttended ==
  ASSUME Attended
  PROVE  Spec => []ClaimHasOwner
<1>1. AttendedInv => ClaimHasOwner
  BY DEF AttendedInv, OwnedInv, ClaimStands, ClaimHasOwner, HasClaim
<1> QED
  BY <1>1, AttendedHolds, PTL

-----------------------------------------------------------------------------
(* A running row has a sandbox *)

UpRow == computer.ref \in Boxes /\ box[computer.ref] = "up"

\* Who claimed a running row leaves its sandbox up until he takes the row down, and a boot
\* that was given the sandbox of a row that ran does not undo it.
UpAt(c) ==
  /\ call[c].at \in ExportClaims \ {"sleep.record"} => UpRow
  /\ call[c].at \in BootClaims /\ Reconnecting(c) => UpRow /\ ~call[c].fresh
  /\ call[c].at \in {"boot.rollback", "boot.evicted"} => ~Reconnecting(c)
  /\ call[c].at \in {"boot.prepare", "boot.activate"} => call[c].box \in Boxes
  /\ call[c].at = "boot.activate" => box[call[c].box] = "up"

UpInv == (computer.state = "running" => UpRow) /\ \A c \in Calls : UpAt(c)

LEMMA UnclaimedUp ==
  ASSUME Exclusive, NEW c \in Calls
  PROVE  (~Claimed(c) => UpAt(c)) /\ (~Claimed(c)' => UpAt(c)')
<1>1. BootClaims \union ExportClaims \subseteq ClaimedPlaces
  BY ClaimedAre DEF ExportClaims, SleepClaims
<1> QED
  BY <1>1 DEF UpAt, Claimed, BootClaims

LEMMA UpBegins ==
  ASSUME Attended, TypeOK, OpInv, SoloInv, OwnedInv, HandInv, UpInv, NEW c \in Calls, Step(c),
         ~Claimed(c), Claimed(c)'
  PROVE  UpAt(c)'
<1>1. /\ ClaimStands(c)' /\ computer'.ref = computer.ref /\ box' = box
      /\ \/ call'[c].at = "boot.provision" /\ call'[c].seen.state = computer.state
         \/ call'[c].at \in {"sleep.export", "run.save"} /\ computer.state = "running"
  BY OwnedBegins
<1>2. computer.state = "running" => UpRow'
  BY <1>1 DEF UpInv, UpRow
<1>3. CASE call'[c].at = "boot.provision" /\ call'[c].seen.state = computer.state
  <2>1. Reconnecting(c)' => computer.state = "running"
    BY <1>1, <1>3 DEF ClaimStands, Reconnecting, Trans, BootClaims
  <2>2. ~call'[c].fresh
    BY <1>3, StepHands DEF HandInv, Hand, BarePlaces
  <2> QED
    BY <1>2, <1>3, <2>1, <2>2 DEF UpAt, ExportClaims, SleepClaims
<1>4. CASE call'[c].at \in {"sleep.export", "run.save"} /\ computer.state = "running"
  BY <1>2, <1>4 DEF UpAt, BootClaims
<1> QED
  BY <1>1, <1>3, <1>4

LEMMA UpBoots ==
  ASSUME Attended, TypeOK, OpInv, SoloInv, OwnedInv, HandInv, UpInv, NEW c \in Calls, BootStep(c),
         Claimed(c)
  PROVE  UpAt(c)' /\ (computer'.state = "running" => UpRow')
<1>0. /\ computer.ref = call[c].seen.ref \/ call[c].at \notin BootClaims
      /\ call[c].at \in BootClaims => computer.state = "booting" /\ OwnsBoot(c)
      /\ UpAt(c)
  BY DEF OwnedInv, ClaimStands, ClaimRef, SoloInv, Marked, Expected, OwnsBoot, UpInv, BootClaims
<1>1. {"boot.provision", "boot.prepare", "boot.activate", "boot.rollback", "boot.evicted",
       "boot.record"} \cap ExportClaims = {}
  BY DEF ExportClaims, SleepClaims
<1>2. CASE BootProvision(c)
  <2>0. call[c].at = "boot.provision" /\ UNCHANGED computer
    BY <1>2 DEF BootProvision
  <2>1. /\ call'[c].at \in {"boot.prepare", "boot.record"} /\ (Reconnecting(c)' <=> Reconnecting(c))
        /\ UNCHANGED computer
    BY <1>2, BootProvisionIs, BootLeads, GoToIs DEF To, SameMemory, Reconnecting, BootProvision
  <2>2. Reconnecting(c) => UpRow' /\ ~call'[c].fresh
    <3>1. SUFFICES ASSUME Reconnecting(c) PROVE UpRow' /\ ~call'[c].fresh
      OBVIOUS
    <3>2. UpRow /\ ~call[c].fresh /\ computer.ref = call[c].seen.ref
      BY <1>0, <2>0, <3>1 DEF UpAt, BootClaims
    <3>3. Exists(call[c].seen.ref)
      BY <3>2 DEF Exists, UpRow
    <3>4. CASE box' = [box EXCEPT ![call[c].seen.ref] = "up"] /\ call'[c].fresh = call[c].fresh
      BY <2>0, <3>2, <3>4 DEF UpRow, TypeOK
    <3>5. CASE CallFails(c) /\ GoTo(c, "boot.record") /\ UNCHANGED box
      BY <2>0, <3>2, <3>5, GoToIs DEF UpRow
    <3> QED
      BY <1>2, <3>3, <3>4, <3>5, BootProvisionIs
  <2>3. call'[c].at = "boot.prepare" => call'[c].box \in Boxes
    BY <1>2, BootProvisionIs, GoToIs DEF Exists
  <2> QED
    BY <1>0, <1>1, <2>0, <2>1, <2>2, <2>3 DEF UpAt, BootClaims
<1>3. CASE BootPrepare(c)
  <2>1. /\ UNCHANGED <<computer, box>> /\ call[c].at = "boot.prepare"
        /\ SameHands(c) /\ (Reconnecting(c)' <=> Reconnecting(c))
    BY <1>3, GoToIs DEF BootPrepare, SameHands, Reconnecting
  <2>2. UpRow' <=> UpRow
    BY <2>1 DEF UpRow
  <2>3. \/ box[call[c].box] = "up" /\ call'[c].at = "boot.activate"
        \/ call'[c].at = "boot.rollback" /\ MustUndo(c)
        \/ call'[c].at = "boot.record"
    BY <1>3, GoToIs DEF BootPrepare
  <2>4. call[c].box \in Boxes
    BY <1>0, <2>1 DEF UpAt
  <2> QED
    BY <1>0, <1>1, <2>1, <2>2, <2>3, <2>4 DEF UpAt, BootClaims, MustUndo, SameHands
<1>4. CASE BootActivate(c)
  <2>1. Write(c, "running", call[c].box, Booted(c)) /\ call[c].at = "boot.activate" /\ UNCHANGED box
    BY <1>0, <1>4 DEF BootActivate, BootClaims
  <2>2. UpRow'
    BY <1>0, <2>1, WriteIs DEF UpAt, UpRow
  <2>3. call'[c].at \in {"run.work", "leave"}
    BY <2>1, WriteIs, BootedIs
  <2> QED
    BY <2>2, <2>3 DEF UpAt, BootClaims, ExportClaims, SleepClaims
<1>5. CASE BootRollback(c)
  <2>1. UNCHANGED computer /\ call[c].at \in {"boot.rollback", "boot.evicted"}
    BY <1>5 DEF BootRollback
  <2>2. /\ call'[c].at = "boot.record" /\ (Reconnecting(c)' <=> Reconnecting(c))
    BY <1>5, GoToIs, UndoneIs DEF BootRollback, SameMemory, Reconnecting
  <2> QED
    BY <1>0, <1>1, <2>1, <2>2 DEF UpAt, BootClaims
<1>6. CASE BootRecord(c)
  <2>1. /\ call[c].at = "boot.record" /\ UNCHANGED box
        /\ Write(c, IF Reconnecting(c) THEN "running" ELSE "error", RecordedRef(c), GivenUp(c))
    BY <1>0, <1>6 DEF BootRecord, BootClaims
  <2>2. computer'.state = "running" => UpRow'
    BY <1>0, <2>1, WriteIs DEF UpAt, UpRow, BootClaims, RecordedRef
  <2>3. call'[c].at \in {"run.requeue", "leave"}
    BY <2>1, WriteIs, GivenUpIs
  <2>4. {"run.requeue", "leave"} \cap (BootClaims \union ExportClaims) = {}
    BY DEF BootClaims, ExportClaims, SleepClaims
  <2> QED
    BY <2>2, <2>3, <2>4 DEF UpAt, BootClaims
<1> QED
  BY <1>2, <1>3, <1>4, <1>5, <1>6, ClaimedAre
  DEF BootStep, BootLook, BootAskForeign, BootWait, BootClaim, Claimed

LEMMA UpSleeps ==
  ASSUME Attended, TypeOK, OpInv, SoloInv, OwnedInv, UpInv, NEW c \in Calls, SleepStep(c),
         Claimed(c)
  PROVE  UpAt(c)' /\ (computer'.state = "running" => UpRow')
<1>0. /\ call[c].at \in SleepClaims /\ computer.state = "suspending" /\ OwnsSuspension(c)
  <2>1. call[c].at \in SleepClaims
    BY ClaimedAre DEF SleepStep, SleepLook, SleepAsk, SleepClaim, SleepExport, SleepSave,
       SleepRecheckRuns, SleepRecheckClaim, SleepStop, SleepRecord, Claimed, SleepClaims
  <2> QED
    BY <2>1 DEF SleepClaims, OwnedInv, ClaimStands, ClaimRef, SoloInv, Marked, Expected, BootClaims,
       OwnsSuspension
<1>1. /\ call[c].at # "sleep.record" => UpRow
      /\ SleepClaims \cap BootClaims = {} /\ "idle" \notin BootClaims /\ "idle" \notin ExportClaims
      /\ {"boot.rollback", "boot.evicted", "boot.prepare", "boot.activate"} \subseteq BootClaims
  BY <1>0 DEF UpInv, UpAt, ExportClaims, SleepClaims, BootClaims
<1>2. CASE SleepExport(c) \/ SleepSave(c) \/ SleepRecheckRuns(c) \/ SleepRecheckClaim(c)
  <2>1. UNCHANGED <<computer, box>> /\ call[c].at # "sleep.record"
    BY <1>2 DEF SleepExport, SleepSave, SleepRecheckRuns, SleepRecheckClaim
  <2>2. call'[c].at \in SleepClaims
    BY <1>2, SleepLeads DEF To, SleepClaims
  <2> QED
    BY <1>0, <1>1, <2>1, <2>2 DEF UpAt, UpRow
<1>3. CASE SleepStop(c)
  <2>1. UNCHANGED computer /\ call[c].at # "sleep.record"
    BY <1>3 DEF SleepStop
  <2>2. \/ call'[c].at = "sleep.record"
        \/ call'[c].at = "sleep.unclaim" /\ UNCHANGED box
    BY <1>3, GoToIs DEF SleepStop
  <2> QED
    BY <1>0, <1>1, <2>1, <2>2 DEF UpAt, UpRow, SleepClaims
<1>4. CASE SleepRecord(c)
  <2>1. Write(c, IF call[c].at = "sleep.record" THEN "suspended" ELSE "running",
              computer.ref, IdleCall) /\ UNCHANGED box
    BY <1>0, <1>4 DEF SleepRecord
  <2>2. computer'.state = "running" => UpRow'
    BY <1>1, <2>1, WriteIs DEF UpRow
  <2>3. call'[c].at = "idle"
    BY <2>1, WriteIs, IdleIs
  <2> QED
    BY <1>1, <2>2, <2>3 DEF UpAt
<1> QED
  BY <1>0, <1>2, <1>3, <1>4 DEF SleepStep, SleepLook, SleepAsk, SleepClaim, SleepClaims

LEMMA UpSaves ==
  ASSUME Attended, TypeOK, OpInv, SoloInv, OwnedInv, UpInv, NEW c \in Calls, CheckpointStep(c),
         Claimed(c)
  PROVE  UpAt(c)' /\ (computer'.state = "running" => UpRow')
<1>0. /\ call[c].at \in {"run.save", "run.saved"} /\ UNCHANGED box /\ Exclusive
      /\ call[c].at = "run.save" => RunSave(c)
      /\ call[c].at = "run.saved" => RunSaved(c)
  BY ClaimedAre DEF CheckpointStep, RunCheckpoint, RunSave, RunSaved, Claimed, Attended
<1>1. UpRow
  BY <1>0 DEF UpInv, UpAt, ExportClaims
<1>2. computer'.ref = computer.ref
  BY <1>0, RunSaveIs, RunSavedIs, ClaimIs
<1>3. UpRow'
  BY <1>0, <1>1, <1>2 DEF UpRow
<1>4. call'[c].at \in {"run.saved", "run.work"}
  BY <1>0, RunLeads DEF To
<1> QED
  BY <1>3, <1>4 DEF UpAt, BootClaims

LEMMA UpStep ==
  ASSUME Attended, TypeOK, OpInv, SoloInv, OwnedInv, HandInv, UpInv, NEW c \in Calls, Step(c)
  PROVE  UpInv'
<1>0. OthersKeep(c) /\ ClaimMove(c) /\ SoloInv' /\ Exclusive
  BY StepWithin, StepMoves, SoloStep DEF Within, Attended, Prompt
<1>1. CASE ~Claimed(c) /\ ~Claimed(c)'
  <2>1. computer' = computer /\ OthersSame(c) /\ box' = box
    BY <1>0, <1>1, UnclaimedKeeps DEF Attended, Prompt
  <2>2. \A d \in Calls : d # c => UpAt(d)'
    BY <2>1 DEF UpInv, UpAt, UpRow, OthersSame, Reconnecting
  <2>3. UpAt(c)'
    BY <1>0, <1>1, UnclaimedUp
  <2> QED
    BY <2>1, <2>2, <2>3 DEF UpInv, UpRow
<1>2. CASE Claimed(c) \/ Claimed(c)'
  <2>1. \A d \in Calls : d # c => UpAt(d)'
    BY <1>0, <1>2, OthersUnclaimed, UnclaimedUp
  <2>2. UpAt(c)' /\ (computer'.state = "running" => UpRow')
    <3>1. CASE ~Claimed(c)
      <4>1. computer'.state # "running"
        BY <1>0, <1>2, <3>1 DEF SoloInv, Marked, Expected
      <4> QED
        BY <1>2, <3>1, <4>1, UpBegins
    <3>2. CASE Claimed(c)
      <4>1. BootStep(c) \/ SleepStep(c) \/ CheckpointStep(c)
        BY <3>2, ClaimedAre DEF Step, LeaseStep, AskForLease, TakeLease, ValidateLease, RefuseLease,
           Leave, RunStep, OpenScreen, EndRun, PauseRun, AbortRun, CloseScreen, RequeueRun, Claimed,
           Attended, Prompt, OpInv, Rightly, StopPlaces, ResetPlaces,
           StopStep, StopLook, StopClaim, StopAsk, StopForget, StopExport, StopStop, StopRecord,
           ResetStep, ResetLook, ResetCheck, ResetClaim, ResetRecheck, ResetDestroy, ResetRecord,
           ResetUndo
      <4> QED
        BY <3>2, <4>1, UpBoots, UpSleeps, UpSaves
    <3> QED
      BY <3>1, <3>2
  <2> QED
    BY <2>1, <2>2 DEF UpInv
<1> QED
  BY <1>1, <1>2

LEMMA UpNext ==
  ASSUME Attended, "vanish" \notin Faults, TypeOK, OpInv, SoloInv, OwnedInv, HandInv, UpInv,
         [Next]_vars
  PROVE  UpInv'
<1>1. CASE UNCHANGED <<call, computer, box>>
  BY <1>1 DEF UpInv, UpAt, UpRow, Reconnecting
<1>2. CASE Environment
  <2>1. ~\E x \in Boxes : BoxVanishes(x)
    BY DEF BoxVanishes, Fault
  <2> QED
    BY <1>1, <1>2, <2>1, AttendedKeeps, EnvironmentBoxes
<1>3. ASSUME NEW c \in Calls, Begin(c) PROVE UpInv'
  <2>1. ~Claimed(c)' /\ computer' = computer /\ box' = box /\ OthersSame(c)
    BY <1>3, BeginUnclaimed
  <2>2. \A d \in Calls : d # c => UpAt(d)'
    BY <2>1 DEF UpInv, UpAt, UpRow, OthersSame, Reconnecting
  <2> QED
    BY <2>1, <2>2, UnclaimedUp DEF UpInv, UpRow, Attended
<1> QED
  BY <1>1, <1>2, <1>3, UpStep DEF Next, vars

LEMMA UpInit == Init => UpInv
<1>1. "idle" \notin ExportClaims /\ "idle" \notin BootClaims
  BY DEF ExportClaims, SleepClaims, BootClaims
<1>2. SUFFICES ASSUME Init PROVE UpInv
  OBVIOUS
<1>3. computer.state # "running" /\ \A c \in Calls : call[c].at = "idle"
  BY <1>2 DEF Init, NewRow, IdleCall
<1> QED
  BY <1>1, <1>3 DEF UpInv, UpAt

\* On such a computer, as long as the provider loses no sandbox either, a row that is
\* running names a sandbox that is up: a boot that fails after it was given the sandbox of
\* a running computer does not take it down, and nobody puts a row back to running over a
\* sandbox he has stopped (rollbackProvisionedComputer, sleepComputerIfIdle).
THEOREM RunningRowsAreUp ==
  ASSUME Attended, "vanish" \notin Faults
  PROVE  Spec => []RunningIsUp
<1>1. UpInv => RunningIsUp
  BY DEF UpInv, UpRow, RunningIsUp
<1>2. Init => UpInv
  BY UpInit
<1>3. AttendedInv /\ UpInv /\ [Next]_vars => UpInv'
  BY UpNext DEF AttendedInv, PromptInv, Inv
<1> QED
  BY <1>1, <1>2, <1>3, AttendedHolds, PTL DEF Spec

-----------------------------------------------------------------------------
(* One call at a time provisions, though runs may be slow *)

\* Nobody stops the computer, only runs outlast BOOT_CLAIM_STALE_MS, and if they do, no
\* process of a run stalls so long that its run is given to another.
Heartbeats ==
  /\ "stop" \notin Operations
  /\ SlowOperations \subseteq {"run"}
  /\ SlowOperations = {} \/ "stall" \notin Faults

ProvisionPlaces == {"boot.provision", "boot.prepare", "boot.activate"}

\* The call provisions the computer, and if it is a run's it has still got the run.
Provisioning(c) == call[c].at \in ProvisionPlaces /\ (call[c].op = "run" => HoldsRun(c))

NobodyProvisions == \A c \in Calls : ~Provisioning(c)

Saving(c) == call[c].at \in {"run.save", "run.saved"}

\* Where the call of a run goes to provision the computer.
RunSeekers == {"lease.ask", "lease.take", "lease.validate", "boot.look", "boot.foreign",
               "boot.wait", "boot.reclaim", "boot.claim"}

\* The run of such a call is its own, or over for good.
RunKept(c) ==
  call[c].op = "run" /\ call[c].at \in RunSeekers
    => HoldsRun(c) \/ run[call[c].run].status \in {"halting", "over"}

\* Who provisions does so alone, and nobody else has the claim.
FirstAlone ==
  \A c \in Calls : Provisioning(c) =>
    /\ computer.state = "booting"
    /\ \A d \in Calls : Provisioning(d) \/ (HasClaim(d) /\ ~Saving(d)) => d = c

OnlyRunsAge == computer.aged => \A c \in Calls : Claimed(c) => call[c].op = "run"

\* Who is to take a booting row over has asked for the heartbeats of runs since its claim
\* was old, and the stamp he remembers tells that no boot began since.
SawFree(c) ==
  /\ call[c].at = "boot.foreign" /\ call[c].current /\ computer.state = "booting"
       => computer.aged
  /\ /\ call[c].at = "reset.check" /\ call[c].current /\ call[c].seen.aged
     /\ computer.state = "booting"
     => computer.aged
  /\ /\ call[c].at \in {"boot.wait", "boot.reclaim", "boot.claim", "reset.claim"}
     /\ call[c].current /\ computer.state = "booting"
     => NobodyProvisions

\* Where a call is that is yet to provision for itself.
RunlessPlaces == RunSeekers \union ResetPlaces

\* A user's call has no run.
RunOfUser(c) == call[c].op # "run" /\ call[c].at \in RunlessPlaces => call[c].run = Nobody

ProvInv == FirstAlone /\ OnlyRunsAge /\ (\A c \in Calls : RunKept(c) /\ SawFree(c) /\ RunOfUser(c))

\* The steps that write the runs.
LEMMA StepRuns ==
  ASSUME TypeOK, OpInv, NEW c \in Calls, Step(c)
  PROVE  \/ UNCHANGED run
         \/ /\ HoldsRun(c) /\ call[c].run \in Runs /\ To(c, {"run.close", "leave"})
            /\ \A r \in Runs : r # call[c].run => run'[r] = run[r]
<1>0. run \in [Runs -> RunRow] /\ (call[c].at \in RunPlaces => call[c].run \in Runs)
  BY DEF TypeOK, OpInv, Rightly
<1>1. CASE EndRun(c) \/ PauseRun(c)
  BY <1>0, <1>1, GoToIs DEF EndRun, PauseRun, RunPlaces, To
<1>2. CASE RequeueRun(c)
  BY <1>0, <1>2, GoToIs DEF RequeueRun, RunPlaces, To
<1> QED
  BY <1>1, <1>2 DEF Step, LeaseStep, BootStep, SleepStep, StopStep, ResetStep,
     CheckpointStep, RunStep,
     AskForLease, TakeLease, ValidateLease, RefuseLease, Leave,
     BootLook, BootAskForeign, BootWait, BootClaim, BootProvision, BootPrepare, BootActivate,
     BootRollback, BootRecord,
     SleepLook, SleepAsk, SleepClaim, SleepExport, SleepSave, SleepRecheckRuns,
     SleepRecheckClaim, SleepStop, SleepRecord,
     StopLook, StopClaim, StopAsk, StopForget, StopExport, StopStop, StopRecord,
     ResetLook, ResetCheck, ResetClaim, ResetRecheck, ResetDestroy, ResetRecord, ResetUndo,
     RunCheckpoint, RunSave, RunSaved, OpenScreen, AbortRun, CloseScreen

LEMMA SeekersLead ==
  ASSUME TypeOK, OpInv, NEW c \in Calls, Step(c), call'[c].at \in RunSeekers, call[c].op = "run"
  PROVE  call[c].at \in RunSeekers
<1>1. CASE LeaseStep(c)
  <2>1. ~RefuseLease(c) /\ ~Leave(c)
    BY RefuseLeaseIs, ReturnIs DEF Leave, RunSeekers
  <2> QED
    BY <1>1, <2>1 DEF LeaseStep, AskForLease, TakeLease, ValidateLease, RunSeekers
<1>2. CASE BootStep(c)
  BY <1>2, BootLeads DEF BootStep, BootLook, BootAskForeign, BootWait, BootClaim,
     To, Ends, RunSeekers
<1>3. CASE SleepStep(c)
  BY <1>3, SleepLeads DEF SleepStep, To, RunSeekers
<1>4. CASE StopStep(c)
  BY <1>4, StopLeads DEF To, RunSeekers, StopPlaces
<1>5. CASE ResetStep(c)
  <2>1. call[c].at \in ResetPlaces
    BY <1>5 DEF ResetStep, ResetLook, ResetCheck, ResetClaim, ResetRecheck, ResetDestroy,
       ResetRecord, ResetUndo, ResetPlaces
  <2> QED
    BY <2>1 DEF OpInv, Rightly
<1>6. CASE CheckpointStep(c)
  BY <1>6, RunLeads DEF CheckpointStep, To, RunSeekers
<1>7. CASE RunStep(c)
  <2>1. call' # call
    BY <1>7 DEF RunStep, OpenScreen, EndRun, PauseRun, AbortRun, CloseScreen, RequeueRun, RunSeekers
  <2> QED
    BY <1>7, <2>1, RunLeads DEF To, RunSeekers
<1> QED
  BY <1>1, <1>2, <1>3, <1>4, <1>5, <1>6, <1>7 DEF Step

LEMMA KeptStep ==
  ASSUME TypeOK, OpInv, HeldIsActive, NEW c \in Calls, Step(c), \A d \in Calls : RunKept(d)
  PROVE  \A d \in Calls : RunKept(d)'
<1> SUFFICES ASSUME NEW d \in Calls, call'[d].op = "run", call'[d].at \in RunSeekers
             PROVE  HoldsRun(d)' \/ run'[call'[d].run].status \in {"halting", "over"}
  BY DEF RunKept
<1>1. Within(c) /\ OpInv'
  BY StepWithin, WithinKeeps
<1>2. call[d].op = "run" /\ call'[d].run = call[d].run /\ call[d].run \in Runs
  BY <1>1 DEF Within, OthersKeep, OpInv, Rightly
<1>3. call[d].at \in RunSeekers
  BY <1>1, <1>2, SeekersLead DEF Within, OthersKeep
<1>4. HoldsRun(d) \/ run[call[d].run].status \in {"halting", "over"}
  BY <1>2, <1>3 DEF RunKept
<1>5. CASE UNCHANGED run
  BY <1>2, <1>4, <1>5 DEF HoldsRun
<1>6. CASE /\ HoldsRun(c) /\ call[c].run \in Runs /\ To(c, {"run.close", "leave"})
           /\ \A r \in Runs : r # call[c].run => run'[r] = run[r]
  <2>1. d # c
    BY <1>6 DEF To, RunSeekers
  <2>2. call[d].run # call[c].run
    BY <1>4, <1>6, <2>1 DEF HoldsRun, HeldIsActive
  <2> QED
    BY <1>2, <1>4, <1>6, <2>2 DEF HoldsRun
<1> QED
  BY <1>5, <1>6, StepRuns

\* What the environment does to the runs: without a stall nobody loses a run that
\* may be queued again.
LEMMA EnvironmentRuns ==
  ASSUME TypeOK, Environment, "stall" \notin Faults, NEW r \in Runs
  PROVE  \/ run'[r].holder = run[r].holder
            /\ (run[r].status \in {"halting", "over"} => run'[r].status \in {"halting", "over"})
         \/ run[r].holder = Dead /\ run'[r].status = run[r].status
         \/ run'[r].status \in {"halting", "over"}
         \/ \E c \in Calls : Crash(c) /\ run[r].holder = c /\ run'[r].status = run[r].status
<1>0. run \in [Runs -> RunRow]
  BY DEF TypeOK
<1>1. ASSUME NEW q \in Runs,
             CreateRun(q) \/ AnswerRun(q) \/ CancelRun(q) \/ HaltRun(q) \/ ExpireHalted(q)
      PROVE  \/ run'[r].holder = run[r].holder
                /\ (run[r].status \in {"halting", "over"} => run'[r].status \in {"halting", "over"})
             \/ run'[r].status \in {"halting", "over"}
  BY <1>0, <1>1 DEF CreateRun, AnswerRun, CancelRun, HaltRun, ExpireHalted, RunRow
<1>2. ASSUME NEW q \in Runs, RunLapses(q)
      PROVE  run'[r] = run[r] \/ (run[r].holder = Dead /\ run'[r].status = run[r].status)
  BY <1>0, <1>2 DEF RunLapses, Fault, RunRow
<1>3. ASSUME NEW c \in Calls, Crash(c)
      PROVE  run'[r] = run[r] \/ (run[r].holder = c /\ run'[r].status = run[r].status)
  BY <1>0, <1>3 DEF Crash, RunRow
<1> QED
  BY <1>1, <1>2, <1>3 DEF Environment, ReleaseHalted, LeaseLapses, ClaimAges, BoxVanishes

LEMMA KeptEnvironment ==
  ASSUME TypeOK, OpInv, HeldIsActive, Environment, "stall" \notin Faults,
         \A d \in Calls : RunKept(d)
  PROVE  \A d \in Calls : RunKept(d)'
<1> SUFFICES ASSUME NEW d \in Calls, call'[d].op = "run", call'[d].at \in RunSeekers
             PROVE  HoldsRun(d)' \/ run'[call'[d].run].status \in {"halting", "over"}
  BY DEF RunKept
<1>1. call'[d] = call[d] /\ ~Crash(d)
  <2>1. \A c \in Calls : Crash(c) => call'[c].at = "idle" /\ OthersSame(c)
    BY ReturnIs DEF Crash
  <2> QED
    BY <2>1, EnvironmentKeeps DEF OthersSame, RunSeekers
<1>2. call[d].run \in Runs /\ (HoldsRun(d) \/ run[call[d].run].status \in {"halting", "over"})
  BY <1>1 DEF RunKept, OpInv, Rightly
<1>3. CASE run[call[d].run].status \in {"halting", "over"}
  <2>1. run[call[d].run].holder = Nobody
    BY <1>2, <1>3 DEF HeldIsActive
  <2> QED
    BY <1>1, <1>2, <1>3, <2>1, EnvironmentRuns
<1>4. CASE HoldsRun(d)
  <2>1. run[call[d].run].holder = d /\ d # Dead
    BY <1>4 DEF HoldsRun
  <2> QED
    BY <1>1, <1>2, <1>4, <2>1, EnvironmentRuns DEF HoldsRun
<1> QED
  BY <1>2, <1>3, <1>4

LEMMA KeptBegin ==
  ASSUME TypeOK, OpInv, HeldIsActive, NEW c \in Calls, Begin(c), \A d \in Calls : RunKept(d)
  PROVE  \A d \in Calls : RunKept(d)'
<1>0. OthersSame(c) /\ (call'[c].op = "run" => call'[c].run \in Runs /\ BeginRun(c, call'[c].run))
  BY BeginIs
<1>1. UNCHANGED run \/ \E r \in Runs : BeginRun(c, r)
  BY BeginIs
<1>2. RunKept(c)'
  BY <1>0 DEF BeginRun, RunKept, HoldsRun, TypeOK, RunRow
<1>3. ASSUME NEW d \in Calls, d # c PROVE RunKept(d)'
  <2>1. UNCHANGED run => RunKept(d)'
    BY <1>0, <1>3 DEF RunKept, HoldsRun, OthersSame
  <2>2. ASSUME NEW r \in Runs, BeginRun(c, r) PROVE RunKept(d)'
    <3>1. /\ run[r].status = "active" /\ run[r].holder = Nobody
          /\ \A q \in Runs : q # r => run'[q] = run[q]
      BY <2>2 DEF BeginRun, TypeOK
    <3>2. call'[d] = call[d] /\ (call[d].op = "run" => call[d].run \in Runs)
      BY <1>0, <1>3 DEF OthersSame, OpInv, Rightly
    <3> QED
      BY <3>1, <3>2 DEF RunKept, HoldsRun
  <2> QED
    BY <1>1, <2>1, <2>2
<1> QED
  BY <1>2, <1>3

\* A boot may take over only a row nobody provisions.
LEMMA ClaimableIsFree ==
  ASSUME TypeOK, ProvInv, NEW c \in Calls
  PROVE  /\ call[c].at = "boot.claim" /\ Claimable(c) => NobodyProvisions
         /\ call[c].at = "reset.claim" /\ ResetMayClaim(c) => NobodyProvisions
<1>1. computer.state # "booting" => NobodyProvisions
  BY DEF ProvInv, FirstAlone, NobodyProvisions
<1>2. SawFree(c)
  BY DEF ProvInv
<1> QED
  BY <1>1, <1>2 DEF SawFree, Claimable, ResetMayClaim

\* Only a boot that claims the row begins to provision.
LEMMA ProvisionBegins ==
  ASSUME TypeOK, OpInv, NEW c \in Calls, Step(c), NEW e \in Calls, Provisioning(e)'
  PROVE  \/ Provisioning(e)
         \/ /\ e = c /\ call[c].at = "boot.claim" /\ Claimable(c)
            /\ Claim(c, "booting", "boot.provision")
<1>1. Within(c) /\ OpInv'
  BY StepWithin, WithinKeeps
<1>2. \/ call'[e].op = call[e].op /\ (HoldsRun(e)' => HoldsRun(e))
      \/ call'[e].at = "idle"
  <2>1. CASE call'[e].at = "idle"
    BY <2>1
  <2>2. CASE call'[e].op = call[e].op /\ call'[e].run = call[e].run
    <3>1. \A r \in Runs : run'[r].holder = e => run[r].holder = e
      BY StepHolders
    <3>2. call[e].run \in Runs \union {Nobody}
      BY DEF TypeOK, CallState
    <3> QED
      BY <2>2, <3>1, <3>2 DEF HoldsRun
  <2> QED
    BY <1>1, <2>1, <2>2 DEF Within, OthersKeep
<1>3. CASE e # c
  BY <1>1, <1>2, <1>3 DEF Within, OthersKeep, Provisioning, ProvisionPlaces
<1>4. CASE e = c
  <2>1. CASE call[c].at \in ProvisionPlaces
    BY <1>2, <1>4, <2>1 DEF Provisioning, ProvisionPlaces
  <2>2. CASE call[c].at \notin ProvisionPlaces
    <3>1. To(c, ProvisionPlaces)
      BY <1>4 DEF Provisioning, To
    <3>2. BootStep(c)
      <4>1. call' # call
        BY <1>4, <2>2 DEF Provisioning
      <4> QED
        BY <3>1, <4>1, LeaseLeads, SleepLeads, StopLeads, ResetLeads, RunLeads
        DEF Step, SleepStep, ResetStep, CheckpointStep, To, Ends, ProvisionPlaces, StopPlaces
    <3>3. BootClaim(c)
      BY <2>2, <3>1, <3>2, BootLeads DEF BootStep, BootProvision, BootPrepare, To, Ends,
         ProvisionPlaces
    <3> QED
      BY <1>4, <3>1, <3>3, GiveUpLeads DEF BootClaim, To, Ends, ProvisionPlaces
  <2> QED
    BY <2>1, <2>2
<1> QED
  BY <1>3, <1>4

\* While a call provisions, the row stays booting.
LEMMA StaysBooting ==
  ASSUME TypeOK, OpInv, "stop" \notin Operations, ProvInv, NEW c \in Calls, Step(c),
         NEW e \in Calls, Provisioning(e), Provisioning(e)'
  PROVE  computer'.state = "booting"
<1>0. /\ computer.state = "booting"
      /\ \A d \in Calls : HasClaim(d) /\ ~Saving(d) => d = e
      /\ ~NobodyProvisions
  BY DEF ProvInv, FirstAlone, NobodyProvisions
<1>1. CASE LeaseStep(c) \/ RunStep(c)
  BY <1>0, <1>1 DEF LeaseStep, AskForLease, TakeLease, ValidateLease, RefuseLease, Leave,
     RunStep, OpenScreen, EndRun, PauseRun, AbortRun, CloseScreen, RequeueRun
<1>2. CASE BootStep(c)
  <2>1. CASE BootActivate(c) \/ BootRecord(c)
    <3>1. CASE OwnsBoot(c)
      <4>1. c = e
        BY <1>0, <2>1, <3>1, ClaimedAre DEF OwnsBoot, HasClaim, Saving, BootActivate, BootRecord,
           Claimed, BootClaims
      <4>2. BootActivate(c)
        BY <2>1, <4>1 DEF BootRecord, Provisioning, ProvisionPlaces
      <4>3. call'[c].at \notin ProvisionPlaces
        BY <4>2, BootLeads DEF To, ProvisionPlaces
      <4> QED
        BY <4>1, <4>3 DEF Provisioning
    <3>2. CASE ~OwnsBoot(c)
      BY <1>0, <2>1, <3>2 DEF BootActivate, BootRecord
    <3> QED
      BY <3>1, <3>2
  <2>2. CASE BootClaim(c)
    BY <1>0, <2>2, ClaimIs DEF BootClaim
  <2> QED
    BY <1>0, <1>2, <2>1, <2>2 DEF BootStep, BootLook, BootAskForeign, BootWait, BootProvision,
       BootPrepare, BootRollback
<1>3. CASE SleepStep(c)
  BY <1>0, <1>3 DEF SleepStep, SleepLook, SleepAsk, SleepClaim, SleepMayClaim, SleepExport, SleepSave,
     SleepRecheckRuns, SleepRecheckClaim, SleepStop, SleepRecord, OwnsSuspension
<1>4. CASE StopStep(c)
  BY <1>4 DEF OpInv, Rightly, StopPlaces,
     StopStep, StopLook, StopClaim, StopAsk, StopForget, StopExport, StopStop, StopRecord
<1>5. CASE ResetStep(c)
  <2>1. CASE ResetUndo(c)
    <3>1. CASE call[c].current
      <4>1. c = e
        BY <1>0, <2>1, <3>1, ClaimedAre DEF ResetUndo, HasClaim, Saving, Claimed
      <4> QED
        BY <2>1, <4>1 DEF ResetUndo, Provisioning, ProvisionPlaces
    <3> QED
      BY <1>0, <2>1, <3>1 DEF ResetUndo
  <2>2. CASE ResetClaim(c)
    BY <1>0, <2>2, ClaimableIsFree DEF ResetClaim
  <2> QED
    BY <1>0, <1>5, <2>1, <2>2 DEF ResetStep, ResetLook, ResetCheck, ResetRecheck, ResetDestroy,
       ResetRecord
<1>6. CASE CheckpointStep(c)
  <2>1. CASE RunSave(c)
    BY <1>0, <2>1, RunSaveIs, ClaimIs
  <2> QED
    BY <1>0, <1>6, <2>1 DEF CheckpointStep, RunCheckpoint, RunSaved
<1> QED
  BY <1>1, <1>2, <1>3, <1>4, <1>5, <1>6 DEF Step

\* How a call comes to have the claim of the row.
LEMMA ClaimBegins ==
  ASSUME TypeOK, OpInv, "stop" \notin Operations, NEW c \in Calls, Step(c),
         HasClaim(c)', ~Saving(c)'
  PROVE  \/ HasClaim(c) /\ ~Saving(c)
         \/ computer.state = "running"
         \/ call[c].at = "boot.claim" /\ Claimable(c)
         \/ call[c].at = "reset.claim" /\ ResetMayClaim(c)
<1>1. CASE LeaseStep(c) \/ RunStep(c)
  <2>1. call' = call \/ ~Claimed(c)'
    BY <1>1, LeaseLeads, RunLeads, ClaimedAre DEF To, Ends, Claimed
  <2>2. call' = call => ~Claimed(c)
    BY <1>1, ClaimedAre DEF LeaseStep, AskForLease, TakeLease, ValidateLease, RefuseLease, Leave,
       RunStep, OpenScreen, EndRun, PauseRun, AbortRun, CloseScreen, RequeueRun, Claimed
  <2> QED
    BY <2>1, <2>2 DEF HasClaim, Claimed
<1>2. CASE BootStep(c)
  <2>1. CASE BootLook(c) \/ BootAskForeign(c) \/ BootWait(c)
    BY <2>1, BootLeads, ClaimedAre DEF HasClaim, Claimed, To, Ends
  <2>2. CASE BootClaim(c)
    BY <2>2, GiveUpIs DEF BootClaim, HasClaim
  <2>3. CASE BootProvision(c) \/ BootPrepare(c) \/ BootRollback(c)
    <3>1. call'[c].current = call[c].current
      BY <2>3, BootProvisionIs, GoToIs, UndoneIs
      DEF BootProvision, BootPrepare, BootRollback, SameMemory
    <3>2. Claimed(c) /\ ~Saving(c)
      BY <2>3, ClaimedAre DEF BootProvision, BootPrepare, BootRollback, Claimed, BootClaims, Saving
    <3> QED
      BY <3>1, <3>2 DEF HasClaim
  <2>4. CASE BootActivate(c)
    <3>1. Claimed(c) /\ ~Saving(c)
      BY <2>4, ClaimedAre DEF BootActivate, Claimed, BootClaims, Saving
    <3>2. call[c].current
      BY <2>4, GoToIs DEF BootActivate, OwnsBoot, HasClaim
    <3> QED
      BY <3>1, <3>2 DEF HasClaim
  <2>5. CASE BootRecord(c)
    BY <2>5, BootLeads, ClaimedAre DEF HasClaim, Claimed, To, Ends
  <2> QED
    BY <1>2, <2>1, <2>2, <2>3, <2>4, <2>5 DEF BootStep
<1>3. CASE SleepStep(c)
  <2>1. CASE SleepLook(c) \/ SleepAsk(c) \/ SleepRecord(c)
    BY <2>1, SleepLeads, ClaimedAre DEF HasClaim, Claimed, To
  <2>2. CASE SleepClaim(c)
    BY <2>2, ReturnIs DEF SleepClaim, SleepMayClaim, HasClaim
  <2>3. CASE SleepExport(c) \/ SleepSave(c) \/ SleepRecheckRuns(c) \/ SleepRecheckClaim(c)
             \/ SleepStop(c)
    <3>1. \E p : GoTo(c, p)
      BY <2>3 DEF SleepExport, SleepSave, SleepRecheckRuns, SleepRecheckClaim, SleepStop
    <3>2. Claimed(c) /\ ~Saving(c)
      BY <2>3, ClaimedAre DEF SleepExport, SleepSave, SleepRecheckRuns, SleepRecheckClaim, SleepStop,
         Claimed, Saving
    <3> QED
      BY <3>1, <3>2, GoToIs DEF HasClaim
  <2> QED
    BY <1>3, <2>1, <2>2, <2>3 DEF SleepStep
<1>4. CASE StopStep(c)
  BY <1>4 DEF OpInv, Rightly, StopPlaces,
     StopStep, StopLook, StopClaim, StopAsk, StopForget, StopExport, StopStop, StopRecord
<1>5. CASE ResetStep(c)
  <2>1. CASE ResetLook(c) \/ ResetCheck(c) \/ ResetUndo(c)
    BY <2>1, ResetLeads, ClaimedAre DEF HasClaim, Claimed, To, Ends
  <2>2. CASE ResetClaim(c)
    BY <2>2, GiveUpIs DEF ResetClaim, HasClaim
  <2>3. CASE ResetRecheck(c) \/ ResetDestroy(c) \/ ResetRecord(c)
    <3>1. (\E p : GoTo(c, p)) \/ call'[c].at = "boot.look"
      BY <2>3, OnlyIs, SetIs DEF ResetRecheck, ResetDestroy, ResetRecord
    <3>2. Claimed(c) /\ ~Saving(c)
      BY <2>3, ClaimedAre DEF ResetRecheck, ResetDestroy, ResetRecord, Claimed, Saving
    <3> QED
      BY <3>1, <3>2, GoToIs, ClaimedAre DEF HasClaim, Claimed
  <2> QED
    BY <1>5, <2>1, <2>2, <2>3 DEF ResetStep
<1>6. CASE CheckpointStep(c)
  BY <1>6, RunLeads, ClaimedAre DEF CheckpointStep, To, HasClaim, Claimed, Saving
<1> QED
  BY <1>1, <1>2, <1>3, <1>4, <1>5, <1>6 DEF Step

LEMMA FirstAloneStep ==
  ASSUME TypeOK, OpInv, "stop" \notin Operations, ProvInv, NEW c \in Calls, Step(c)
  PROVE  FirstAlone'
<1>0. OthersKeep(c)
  BY StepWithin DEF Within
<1> SUFFICES ASSUME NEW e \in Calls, Provisioning(e)'
             PROVE  /\ computer'.state = "booting"
                    /\ \A d \in Calls : Provisioning(d)' \/ (HasClaim(d)' /\ ~Saving(d)') => d = e
  BY DEF FirstAlone
<1>1. CASE Provisioning(e)
  <2>1. /\ computer.state = "booting" /\ ~NobodyProvisions
        /\ \A d \in Calls : Provisioning(d) \/ (HasClaim(d) /\ ~Saving(d)) => d = e
    BY <1>1 DEF ProvInv, FirstAlone, NobodyProvisions
  <2>2. \A d \in Calls : Provisioning(d)' => d = e
    BY <2>1, ProvisionBegins, ClaimableIsFree
  <2>3. \A d \in Calls : d # c /\ HasClaim(d)' /\ ~Saving(d)' => d = e
    BY <1>0, <2>1 DEF OthersKeep, HasClaim, Claimed, Saving
  <2>4. HasClaim(c)' /\ ~Saving(c)' => c = e
    BY <2>1, ClaimBegins, ClaimableIsFree
  <2> QED
    BY <1>1, <2>2, <2>3, <2>4, StaysBooting
<1>2. CASE ~Provisioning(e)
  <2>1. e = c /\ NobodyProvisions /\ Claim(c, "booting", "boot.provision")
    BY <1>2, ProvisionBegins, ClaimableIsFree
  <2>2. \A d \in Calls : Provisioning(d)' => d = e
    BY <2>1, ProvisionBegins DEF NobodyProvisions
  <2>3. \A d \in Calls : HasClaim(d)' => d = e
    BY <2>1, ClaimIs DEF HasClaim
  <2> QED
    BY <2>1, <2>2, <2>3, ClaimIs
<1> QED
  BY <1>1, <1>2

LEMMA AgeStep ==
  ASSUME TypeOK, OpInv, "stop" \notin Operations, ProvInv, NEW c \in Calls, Step(c)
  PROVE  OnlyRunsAge'
<1>1. Within(c)
  BY StepWithin
<1> SUFFICES ASSUME computer'.aged, NEW d \in Calls, Claimed(d)' PROVE call'[d].op = "run"
  BY DEF OnlyRunsAge
<1>2. computer' = computer /\ OthersSame(c)
  BY StepRow DEF Stamps, NewRow
<1>3. Claimed(d)
  <2>1. d # c => Claimed(d)
    BY <1>2 DEF OthersSame, Claimed
  <2>2. ~Claimed(c) /\ Claimed(c)' => FALSE
    <3>1. ASSUME ~Claimed(c), Claimed(c)' PROVE Stamps(c)
      <4>1. CASE LeaseStep(c) \/ RunStep(c)
        BY <3>1, <4>1, LeaseLeads, RunLeads, ClaimedAre DEF To, Ends, Claimed
      <4>2. CASE BootStep(c)
        <5>1. BootClaim(c)
          BY <3>1, <4>2, BootLeads, ClaimedAre DEF BootStep, BootProvision, BootPrepare, BootActivate,
             BootRollback, BootRecord, Claimed, To, Ends, BootClaims
        <5> QED
          BY <3>1, <5>1, ClaimStamps, GiveUpIs, ClaimedAre DEF BootClaim, Claimed
      <4>3. CASE SleepStep(c)
        <5>1. SleepClaim(c)
          BY <3>1, <4>3, SleepLeads, ClaimedAre DEF SleepStep, SleepExport, SleepSave,
             SleepRecheckRuns, SleepRecheckClaim, SleepStop, SleepRecord, Claimed, To
        <5> QED
          BY <3>1, <5>1, ClaimStamps, ReturnIs, ClaimedAre DEF SleepClaim, Claimed
      <4>4. CASE StopStep(c)
        BY <4>4 DEF OpInv, Rightly, StopPlaces,
           StopStep, StopLook, StopClaim, StopAsk, StopForget, StopExport, StopStop, StopRecord
      <4>5. CASE ResetStep(c)
        <5>1. ResetClaim(c)
          BY <3>1, <4>5, ResetLeads, ClaimedAre DEF ResetStep, ResetRecheck, ResetDestroy,
             ResetRecord, ResetUndo, Claimed, To, Ends
        <5> QED
          BY <3>1, <5>1, ClaimStamps, GiveUpIs, ClaimedAre DEF ResetClaim, Claimed
      <4>6. CASE CheckpointStep(c)
        <5>1. CASE RunCheckpoint(c)
          BY <3>1, <5>1, ClaimStamps, GoToIs, ClaimedAre DEF RunCheckpoint, Claimed
        <5>2. CASE RunSave(c)
          BY <3>1, <5>2, RunLeads, ClaimedAre DEF RunSave, Claimed, To
        <5>3. CASE RunSaved(c)
          BY <3>1, <5>3, RunLeads, ClaimedAre DEF Claimed, To
        <5> QED
          BY <4>6, <5>1, <5>2, <5>3 DEF CheckpointStep
      <4> QED
        BY <4>1, <4>2, <4>3, <4>4, <4>5, <4>6 DEF Step
    <3> QED
      BY <3>1 DEF Stamps
  <2> QED
    BY <2>1, <2>2
<1>4. call[d].op = "run"
  BY <1>2, <1>3 DEF ProvInv, OnlyRunsAge
<1>5. call'[d].at # "idle"
  BY ClaimedAre DEF Claimed
<1> QED
  BY <1>1, <1>4, <1>5 DEF Within, OthersKeep

\* What another call remembers stays true as long as it may act on it.
LEMMA OthersSawFree ==
  ASSUME TypeOK, OpInv, ProvInv, NEW c \in Calls, Step(c), NEW d \in Calls, d # c
  PROVE  SawFree(d)'
<1>0. OthersKeep(c)
  BY StepWithin DEF Within
<1>1. CASE Stamps(c)
  BY <1>1 DEF Stamps, OthersOutdated, SawFree
<1>2. CASE computer' = NewRow
  BY <1>2 DEF NewRow, SawFree
<1>3. CASE computer' = computer /\ ~Stamps(c)
  <2>1. NobodyProvisions => NobodyProvisions'
    <3>1. ~Claim(c, "booting", "boot.provision")
      BY <1>3, ClaimStamps
    <3> QED
      BY <3>1, ProvisionBegins DEF NobodyProvisions
  <2> QED
    BY <1>0, <1>3, <2>1 DEF ProvInv, SawFree, OthersKeep
<1> QED
  BY <1>1, <1>2, <1>3, StepRow

LEMMA RunlessLead ==
  ASSUME TypeOK, OpInv, NEW c \in Calls, Step(c), call'[c].at \in RunlessPlaces
  PROVE  call[c].at \in RunlessPlaces
<1>0. call' = call => call[c].at \in RunlessPlaces
  OBVIOUS
<1>1. CASE LeaseStep(c)
  BY <1>1, RefuseLeaseIs, ReturnIs
  DEF LeaseStep, AskForLease, TakeLease, ValidateLease, Leave, RunlessPlaces, RunSeekers, ResetPlaces
<1>2. CASE BootStep(c)
  BY <1>2, BootLeads DEF BootStep, BootLook, BootAskForeign, BootWait, BootClaim,
     To, Ends, RunlessPlaces, RunSeekers, ResetPlaces
<1>3. CASE SleepStep(c)
  BY <1>3, SleepLeads DEF SleepStep, To, RunlessPlaces, RunSeekers, ResetPlaces
<1>4. CASE StopStep(c)
  BY <1>4, StopLeads DEF To, RunlessPlaces, RunSeekers, ResetPlaces, StopPlaces
<1>5. CASE ResetStep(c)
  BY <1>5 DEF ResetStep, ResetLook, ResetCheck, ResetClaim, ResetRecheck, ResetDestroy,
     ResetRecord, ResetUndo, RunlessPlaces, ResetPlaces
<1>6. CASE CheckpointStep(c)
  BY <1>6, RunLeads DEF CheckpointStep, To, RunlessPlaces, RunSeekers, ResetPlaces
<1>7. CASE RunStep(c)
  BY <1>0, <1>7, RunLeads DEF To, RunlessPlaces, RunSeekers, ResetPlaces
<1> QED
  BY <1>1, <1>2, <1>3, <1>4, <1>5, <1>6, <1>7 DEF Step

LEMMA UserStep ==
  ASSUME TypeOK, OpInv, NEW c \in Calls, Step(c), \A d \in Calls : RunOfUser(d)
  PROVE  \A d \in Calls : RunOfUser(d)'
<1>1. Within(c)
  BY StepWithin
<1>2. RunOfUser(c)'
  BY <1>1, RunlessLead DEF Within, RunOfUser, RunlessPlaces, RunSeekers, ResetPlaces
<1> QED
  BY <1>1, <1>2 DEF Within, OthersKeep, RunOfUser

\* Who asks for heartbeats while the row's claim is old finds that nobody provisions.
LEMMA AskingTells ==
  ASSUME TypeOK, OpInv, HeldIsActive, ProvInv, NEW c \in Calls, computer.aged,
         \/ ~LiveForeignRunLease(c) /\ call[c].at = "boot.foreign"
         \/ ~ActiveRun
  PROVE  NobodyProvisions
<1> SUFFICES ASSUME NEW d \in Calls, Provisioning(d) PROVE FALSE
  BY DEF NobodyProvisions
<1>1. call[d].op = "run"
  BY ClaimedAre DEF ProvInv, OnlyRunsAge, Provisioning, ProvisionPlaces, Claimed, BootClaims
<1>2. /\ call[d].run \in Runs /\ run[call[d].run].holder = d /\ d # Nobody
      /\ run[call[d].run].status = "active"
  BY <1>1 DEF Provisioning, HoldsRun, OpInv, Rightly, HeldIsActive
<1>3. Active(call[d].run)
  BY <1>2 DEF Active
<1>4. ~LiveForeignRunLease(c) /\ call[c].at = "boot.foreign"
  BY <1>2, <1>3 DEF ActiveRun
<1>5. call[c].run = call[d].run /\ c # d
  BY <1>2, <1>3, <1>4 DEF LiveForeignRunLease, Provisioning, ProvisionPlaces
<1>6. call[c].op = "run"
  BY <1>2, <1>4, <1>5 DEF ProvInv, RunOfUser, RunlessPlaces, RunSeekers
<1>7. RunKept(c)
  BY DEF ProvInv
<1> QED
  BY <1>2, <1>4, <1>5, <1>6, <1>7 DEF RunKept, RunSeekers, HoldsRun

LEMMA ActorSawFree ==
  ASSUME TypeOK, OpInv, HeldIsActive, ProvInv, NEW c \in Calls, Step(c)
  PROVE  SawFree(c)'
<1> DEFINE Waits == {"boot.wait", "boot.reclaim", "boot.claim", "reset.claim"}
<1>0. SawFree(c)
  BY DEF ProvInv
<1>1. NobodyProvisions /\ call[c].at # "boot.claim" => NobodyProvisions'
  BY ProvisionBegins DEF NobodyProvisions
<1>2. CASE To(c, {"boot.foreign", "reset.check"} \union Waits)
  <2>1. \/ BootLook(c) \/ BootAskForeign(c) \/ BootWait(c) \/ ResetLook(c) \/ ResetCheck(c)
        \/ RunStep(c) /\ call' = call
    BY <1>2, LeaseLeads, BootLeads, SleepLeads, StopLeads, ResetLeads, RunLeads
    DEF Step, BootStep, SleepStep, ResetStep, CheckpointStep, To, Ends, StopPlaces
  <2>2. CASE BootLook(c)
    <3>1. UNCHANGED computer /\ ~GiveUp(c)
      BY <1>2, <2>2, GiveUpIs DEF BootLook, To
    <3> QED
      BY <2>2, <3>1, BootLookIs DEF SawFree
  <2>3. CASE BootAskForeign(c)
    <3>1. /\ ~LiveForeignRunLease(c) /\ UNCHANGED computer /\ call'[c].current = call[c].current
          /\ call'[c].at \in {"boot.wait", "boot.claim"}
      BY <1>2, <2>3, GiveUpIs, GoToIs DEF BootAskForeign, To
    <3>2. call[c].current /\ computer.state = "booting" => NobodyProvisions
      BY <1>0, <2>3, <3>1, AskingTells DEF BootAskForeign, SawFree
    <3> QED
      BY <1>1, <2>3, <3>1, <3>2 DEF BootAskForeign, SawFree
  <2>4. CASE BootWait(c)
    <3>1. ~GiveUp(c) /\ UNCHANGED computer /\ call[c].at = "boot.wait"
      BY <1>2, <2>4, GiveUpIs DEF BootWait, To
    <3>2. call'[c].current = call[c].current /\ call'[c].at \in {"boot.reclaim", "boot.claim"}
      BY <2>4, <3>1, BootWaitIs
    <3> QED
      BY <1>0, <1>1, <3>1, <3>2 DEF SawFree
  <2>5. CASE ResetLook(c)
    <3>1. /\ UNCHANGED computer /\ call'[c].seen = computer
          /\ call'[c].at = IF computer.state \in {"booting", "suspending"} THEN "reset.check"
                                                                         ELSE "reset.claim"
      BY <2>5, SeeIs DEF ResetLook
    <3> QED
      BY <3>1 DEF SawFree
  <2>6. CASE ResetCheck(c)
    <3>1. /\ ResetMayTry(c) /\ UNCHANGED computer /\ call'[c].current = call[c].current
          /\ call[c].at = "reset.check" /\ call'[c].at = "reset.claim"
      BY <1>2, <2>6, GiveUpIs, GoToIs DEF ResetCheck, To
    <3>2. call[c].current /\ computer.state = "booting" => NobodyProvisions
      BY <1>0, <3>1, AskingTells DEF ResetMayTry, SeenIsAbandoned, SawFree
    <3> QED
      BY <1>1, <3>1, <3>2 DEF SawFree
  <2>7. CASE RunStep(c) /\ call' = call
    BY <1>2, <2>7 DEF To, RunStep, OpenScreen, EndRun, PauseRun, AbortRun, CloseScreen, RequeueRun
  <2> QED
    BY <2>1, <2>2, <2>3, <2>4, <2>5, <2>6, <2>7
<1>3. CASE ~To(c, {"boot.foreign", "reset.check"} \union Waits)
  BY <1>3 DEF To, SawFree
<1> QED
  BY <1>2, <1>3

LEMMA ProvStep ==
  ASSUME TypeOK, OpInv, HeldIsActive, "stop" \notin Operations, ProvInv, NEW c \in Calls, Step(c)
  PROVE  ProvInv'
BY KeptStep, FirstAloneStep, AgeStep, OthersSawFree, ActorSawFree, UserStep DEF ProvInv

\* A step that leaves the row's state alone and makes nobody provision, or claim.
LEMMA QuietProv ==
  ASSUME ProvInv, computer'.state = computer.state, computer'.aged = computer.aged,
         \A d \in Calls : Provisioning(d)' => Provisioning(d),
         \A d \in Calls : \/ call'[d] = call[d]
                          \/ call'[d].at \in {"idle", "lease.ask", "sleep.look", "stop.look"}
  PROVE  FirstAlone' /\ OnlyRunsAge' /\ \A d \in Calls : SawFree(d)'
<1>0. {"idle", "lease.ask", "sleep.look", "stop.look"} \cap ClaimedPlaces = {}
  BY DEF ClaimedPlaces
<1>1. NobodyProvisions => NobodyProvisions'
  BY DEF NobodyProvisions
<1>3. FirstAlone'
  BY <1>0 DEF ProvInv, FirstAlone, HasClaim, Claimed, Saving
<1>4. OnlyRunsAge'
  BY <1>0 DEF ProvInv, OnlyRunsAge, Claimed
<1>5. ASSUME NEW d \in Calls PROVE SawFree(d)'
  <2>1. CASE call'[d] = call[d]
    BY <1>1, <2>1 DEF ProvInv, SawFree
  <2>2. CASE call'[d].at \in {"idle", "lease.ask", "sleep.look", "stop.look"}
    BY <2>2 DEF SawFree
  <2> QED
    BY <2>1, <2>2
<1> QED
  BY <1>3, <1>4, <1>5

LEMMA ProvBegin ==
  ASSUME TypeOK, OpInv, HeldIsActive, ProvInv, NEW c \in Calls, Begin(c)
  PROVE  ProvInv'
<1>1. OthersSame(c) /\ call'[c].at \in {"lease.ask", "sleep.look", "stop.look"}
  BY BeginIs
<1>2. computer' = computer
  BY DEF Begin, BeginRun, BeginOther
<1>3. \A d \in Calls : RunOfUser(d)'
  <2>1. \A d \in Calls : d # c => RunOfUser(d)'
    BY <1>1 DEF ProvInv, RunOfUser, OthersSame
  <2>2. RunOfUser(c)'
    <3>0. call \in [Calls -> CallState]
      BY DEF TypeOK
    <3>1. ASSUME NEW r \in Runs, BeginRun(c, r) PROVE RunOfUser(c)'
      <4>1. call'[c].op = "run"
        BY <3>0, <3>1 DEF BeginRun, Set, IdleCall
      <4> QED
        BY <4>1 DEF RunOfUser
    <3>2. ASSUME NEW op \in {"boot", "reset", "sleep", "stop"}, NEW b \in Bots, BeginOther(c, op, b)
          PROVE  RunOfUser(c)'
      <4>1. call'[c].run = Nobody
        BY <3>0, <3>2 DEF BeginOther, Set, IdleCall
      <4> QED
        BY <4>1 DEF RunOfUser
    <3> QED
      BY <3>1, <3>2 DEF Begin
  <2> QED
    BY <2>1, <2>2
<1>4. \A d \in Calls : Provisioning(d)' => Provisioning(d)
  <2>1. HoldsNoMore(c)
    BY BeginHolders
  <2> QED
    BY <1>1, <2>1 DEF OthersSame, HoldsNoMore, Provisioning, ProvisionPlaces, HoldsRun, OpInv, Rightly
<1>5. \A d \in Calls : call'[d] = call[d]
                          \/ call'[d].at \in {"idle", "lease.ask", "sleep.look", "stop.look"}
  BY <1>1 DEF OthersSame
<1> QED
  BY <1>2, <1>3, <1>4, <1>5, QuietProv, KeptBegin DEF ProvInv

LEMMA ProvEnvironment ==
  ASSUME TypeOK, OpInv, HeldIsActive, ProvInv, Environment, "stall" \notin Faults,
         SlowOperations \subseteq {"run"}
  PROVE  ProvInv'
<1>1. \A d \in Calls : call'[d] = call[d] \/ call'[d].at = "idle"
  BY EnvironmentKeeps, ReturnIs DEF OthersSame
<1>2. \A d \in Calls : Provisioning(d)' => Provisioning(d)
  BY <1>1, EnvironmentHolders DEF Provisioning, ProvisionPlaces, HoldsRun, OpInv, Rightly
<1>3. \A d \in Calls : RunOfUser(d)'
  BY <1>1 DEF ProvInv, RunOfUser, RunlessPlaces, RunSeekers, ResetPlaces
<1>4. CASE computer' = computer
  BY <1>1, <1>2, <1>3, <1>4, QuietProv, KeptEnvironment DEF ProvInv
<1>5. CASE ClaimAges
  <2>1. call' = call /\ computer'.state = computer.state /\ UNCHANGED run /\ computer'.aged
    BY <1>5 DEF ClaimAges, TypeOK, Computer
  <2>2. \A d \in Calls : (Provisioning(d)' <=> Provisioning(d)) /\ (Claimed(d)' <=> Claimed(d))
                          /\ (HasClaim(d)' <=> HasClaim(d)) /\ (Saving(d)' <=> Saving(d))
    BY <2>1 DEF Provisioning, HoldsRun, Claimed, HasClaim, Saving
  <2>3. FirstAlone'
    BY <2>1, <2>2 DEF ProvInv, FirstAlone
  <2>4. OnlyRunsAge'
    BY <1>5, <2>1 DEF ClaimAges, OnlyRunsAge, Claimed
  <2>5. \A d \in Calls : SawFree(d)'
    BY <2>1, <2>2 DEF ProvInv, SawFree, NobodyProvisions
  <2> QED
    BY <1>3, <2>3, <2>4, <2>5, KeptEnvironment DEF ProvInv
<1> QED
  BY <1>4, <1>5 DEF Environment, CreateRun, AnswerRun, CancelRun, RunLapses, HaltRun,
     ReleaseHalted, ExpireHalted, LeaseLapses, BoxVanishes, Crash

LEMMA ProvNext ==
  ASSUME Heartbeats, "stall" \notin Faults, TypeOK, OpInv, HeldIsActive, ProvInv, [Next]_vars
  PROVE  ProvInv'
<1>1. CASE UNCHANGED vars
  BY <1>1 DEF vars, ProvInv, FirstAlone, OnlyRunsAge, RunKept, SawFree, RunOfUser, NobodyProvisions,
     Provisioning, HoldsRun, HasClaim, Claimed, Saving
<1> QED
  BY <1>1, ProvStep, ProvBegin, ProvEnvironment DEF Next, Heartbeats

LEMMA ProvInit == Init => ProvInv
<1> SUFFICES ASSUME Init PROVE ProvInv
  OBVIOUS
<1>1. ~computer.aged /\ \A c \in Calls : call[c].at = "idle"
  BY DEF Init, NewRow, IdleCall
<1> QED
  BY <1>1 DEF ProvInv, FirstAlone, OnlyRunsAge, RunKept, SawFree, RunOfUser, Provisioning,
     ProvisionPlaces, RunSeekers, RunlessPlaces, ResetPlaces

ProvisionInv == Inv /\ OpInv /\ HeldIsActive /\ ProvInv

\* Nobody stops the computer: then at most one call provisions it at a time, on a shared
\* computer as on a private one, though processes die, boots are reset and runs may be
\* so slow that their claim grows old (provisionComputer): who takes a booting row over has
\* asked for the heartbeats of the runs after its claim was old, and the stamp tells him
\* of every boot that began since.  That a slow run does not lose its worker lease to a
\* stall is what the heartbeat is for; without slow runs stalls do no harm either.
THEOREM ProvisionersAreAlone ==
  ASSUME Heartbeats
  PROVE  Spec => []OneProvisioner
<1>1. CASE SlowOperations = {}
  <2>1. Prompt
    BY <1>1 DEF Heartbeats, Prompt
  <2>2. PromptInv => OneProvisioner
    BY ClaimedAre DEF PromptInv, SoloInv, Alone, OneProvisioner, Provisioners, Claimed, BootClaims
  <2> QED
    BY <2>1, <2>2, PromptHolds, PTL
<1>2. CASE "stall" \notin Faults
  <2>1. Init => ProvisionInv
    BY InitInv, OpInit, HeldInit, ProvInit DEF ProvisionInv
  <2>2. ProvisionInv /\ [Next]_vars => ProvisionInv'
    BY <1>2, NextInv, OpNext, HeldNext, ProvNext DEF ProvisionInv, Inv
  <2>3. ProvisionInv => OneProvisioner
    BY DEF ProvisionInv, ProvInv, FirstAlone, OneProvisioner, Provisioners, Provisioning,
       ProvisionPlaces, Aborted
  <2> QED
    BY <2>1, <2>2, <2>3, PTL DEF Spec
<1> QED
  BY <1>1, <1>2 DEF Heartbeats

-----------------------------------------------------------------------------
(* Nobody takes down the sandbox of a working run *)

\* A call that works on a run of its own, on a shared computer with a lease that is good.
Engaged(d) == AtWork(d) /\ (Team => HasLease(d))

\* What a boot was given is a sandbox, a fresh one nobody else was given, and what it
\* undoes was not there before.
InHands ==
  \A c \in Calls : call[c].at \in FullPlaces =>
    /\ call[c].box \in Boxes
    /\ call[c].fresh => \A d \in Calls : d # c => call[d].box # call[c].box
    /\ call[c].at \in {"boot.rollback", "boot.evicted"} => MustUndo(c)

\* The row a call works under may be claimed again, but by a reconnect only, which
\* leaves the sandbox alone, or by a reset that has yet to look for active runs.
GoesOn(d) ==
  /\ call[d].box \in Boxes
  /\ computer.state \in {"running", "booting", "suspending"} /\ computer.ref # NoBox
  /\ \A c \in Calls :
       /\ call[c].at \in BootClaims => Reconnecting(c)
       /\ call[c].at \notin {"reset.destroy", "reset.record", "reset.fail"}
       /\ call[c].at \in {"reset.recheck", "reset.restore"}
            => call[c].seen.state \in {"running", "booting", "suspending"}
       /\ ~Team /\ c # d /\ call[c].at = "boot.claim" /\ call[c].current
            => call[c].seen.state # "booting"

WorkInv == InHands /\ \A d \in Calls : Engaged(d) => GoesOn(d)

\* A step of a call that is no provisioning leaves it with the sandbox it has or none.
LEMMA StepDrops ==
  ASSUME TypeOK, NEW c \in Calls, Step(c), ~BootProvision(c)
  PROVE  /\ call'[c].box \in {call[c].box, NoBox}
         /\ call'[c].at \in FullPlaces => call[c].at \in FullPlaces /\ SameHands(c)
<1>1. CASE LeaseStep(c)
  <2>1. To(c, {"lease.take", "lease.validate", "lease.refused", "boot.look", "reset.look", "idle"}
              \union Ends)
    BY <1>1, LeaseLeads
  <2>2. call'[c].box \in {call[c].box, NoBox}
    BY <1>1, GoToIs, GiveUpIs, ReturnIs, TakeLeaseIs, RefuseLeaseIs
    DEF LeaseStep, AskForLease, TakeLease, ValidateLease, Leave, SameHands
  <2> QED
    BY <2>1, <2>2 DEF To, Ends, FullPlaces
<1>2. CASE BootStep(c)
  <2>1. CASE BootLook(c) \/ BootAskForeign(c) \/ BootWait(c) \/ BootClaim(c)
    <3>1. call'[c].at \notin FullPlaces
      BY <2>1, BootLeads DEF To, Ends, FullPlaces
    <3> QED
      BY <2>1, <3>1, BootLookIs, BootWaitIs, GoToIs, GiveUpIs, ClaimIs
      DEF BootAskForeign, BootClaim, SameHands
  <2>2. CASE BootPrepare(c) \/ BootActivate(c)
    <3>1. call[c].at \in FullPlaces
      BY <2>2 DEF BootPrepare, BootActivate, FullPlaces
    <3>2. CASE \E p : GoTo(c, p)
      BY <3>1, <3>2, GoToIs DEF SameHands
    <3>3. CASE Write(c, "running", call[c].box, Booted(c))
      <4>1. Booted(c).box \in {call[c].box, NoBox}
        BY DEF Booted, Only, IdleCall
      <4> QED
        BY <3>3, <4>1, WriteIs, BootedIs DEF FullPlaces
    <3> QED
      BY <2>2, <3>2, <3>3 DEF BootPrepare, BootActivate
  <2>3. CASE BootRollback(c)
    <3>1. call'[c].at \notin FullPlaces
      BY <2>3, BootLeads DEF To, FullPlaces
    <3> QED
      BY <2>3, <3>1, GoToIs, UndoneIs DEF BootRollback
  <2>4. CASE BootRecord(c)
    <3>1. call'[c].at \notin FullPlaces
      BY <2>4, BootLeads DEF To, Ends, FullPlaces
    <3> QED
      BY <2>4, <3>1, GiveUpIs, WriteIs, GivenUpIs DEF BootRecord
  <2> QED
    BY <1>2, <2>1, <2>2, <2>3, <2>4 DEF BootStep
<1>3. CASE SleepStep(c)
  <2>1. call'[c].at \notin FullPlaces
    BY <1>3, SleepLeads DEF SleepStep, To, FullPlaces
  <2>2. CASE SleepRecord(c)
    BY <2>1, <2>2, ReturnIs, WriteIs, IdleIs DEF SleepRecord
  <2> QED
    BY <1>3, <2>1, <2>2, GoToIs, SeeIs, ReturnIs, ClaimIs
    DEF SleepStep, SleepLook, SleepAsk, SleepClaim, SleepExport, SleepSave, SleepRecheckRuns,
        SleepRecheckClaim, SleepStop, SameHands
<1>4. CASE StopStep(c)
  <2>1. call'[c].at \notin FullPlaces
    BY <1>4, StopLeads DEF To, StopPlaces, FullPlaces
  <2>2. CASE StopRecord(c)
    <3>1. Return(c) \/ \E state, ref : Write(c, state, ref, IdleCall)
      BY <2>2, Zenon DEF StopRecord
    <3> QED
      BY <2>1, <3>1, ReturnIs, WriteIs, IdleIs
  <2> QED
    BY <1>4, <2>1, <2>2, GoToIs, ReturnIs, ClaimIs, StopLookIs
    DEF StopStep, StopClaim, StopAsk, StopForget, StopExport, StopStop, SameHands
<1>5. CASE ResetStep(c)
  <2>1. call'[c].at \notin FullPlaces
    BY <1>5, ResetLeads DEF ResetStep, To, Ends, FullPlaces
  <2>2. CASE ResetRecord(c) \/ ResetUndo(c)
    BY <2>1, <2>2, SetIs, GoToIs, WriteIs, OnlyIs DEF ResetRecord, ResetUndo
  <2> QED
    BY <1>5, <2>1, <2>2, GoToIs, SeeIs, GiveUpIs, ClaimIs
    DEF ResetStep, ResetLook, ResetCheck, ResetClaim, ResetRecheck, ResetDestroy, SameHands
<1>6. CASE CheckpointStep(c)
  <2>1. call'[c].at \notin FullPlaces
    BY <1>6, RunLeads DEF CheckpointStep, To, FullPlaces
  <2> QED
    BY <1>6, <2>1, GoToIs, ClaimIs, RunSaveIs, RunSavedIs
    DEF CheckpointStep, RunCheckpoint, SameHands
<1>7. CASE RunStep(c)
  <2>1. call'[c].at \notin FullPlaces
    BY <1>7, RunLeads DEF RunStep, OpenScreen, EndRun, PauseRun, AbortRun, CloseScreen, RequeueRun,
       To, FullPlaces
  <2> QED
    BY <1>7, <2>1, GoToIs DEF RunStep, OpenScreen, EndRun, PauseRun, AbortRun, CloseScreen, RequeueRun
<1> QED
  BY <1>1, <1>2, <1>3, <1>4, <1>5, <1>6, <1>7 DEF Step

LEMMA UndoBegins ==
  ASSUME TypeOK, NEW c \in Calls, Step(c), call'[c].at \in {"boot.rollback", "boot.evicted"}
  PROVE  MustUndo(c)'
<1>1. BootStep(c)
  <2>1. ~RunStep(c)
    BY RunLeads DEF RunStep, OpenScreen, EndRun, PauseRun, AbortRun, CloseScreen, RequeueRun, To
  <2> QED
    BY <2>1, LeaseLeads, SleepLeads, StopLeads, ResetLeads, RunLeads
    DEF Step, SleepStep, ResetStep, CheckpointStep, To, Ends, StopPlaces
<1>2. BootPrepare(c) \/ BootActivate(c)
  BY <1>1, BootLeads DEF BootStep, To, Ends
<1>3. \E p : GoTo(c, p) /\ (p \in {"boot.rollback", "boot.evicted"} => MustUndo(c))
  <2>1. CASE BootPrepare(c)
    BY <2>1 DEF BootPrepare
  <2>2. CASE BootActivate(c)
    <3>1. ~Write(c, "running", call[c].box, Booted(c))
      BY WriteIs, BootedIs
    <3> QED
      BY <2>2, <3>1 DEF BootActivate
  <2> QED
    BY <1>2, <2>1, <2>2
<1> QED
  BY <1>3, GoToIs DEF MustUndo, Reconnecting

LEMMA HandsStep ==
  ASSUME TypeOK, OpInv, SoloInv, HandInv, InHands, NEW c \in Calls, Step(c)
  PROVE  InHands'
<1>0. OthersKeep(c)
  BY StepWithin DEF Within
<1> SUFFICES ASSUME NEW e \in Calls, call'[e].at \in FullPlaces
             PROVE  /\ call'[e].box \in Boxes
                    /\ call'[e].fresh => \A d \in Calls : d # e => call'[d].box # call'[e].box
                    /\ call'[e].at \in {"boot.rollback", "boot.evicted"} => MustUndo(e)'
  BY DEF InHands
<1>1. CASE BootProvision(c)
  <2>0. call[c].at = "boot.provision" /\ Claimed(c)
    BY <1>1, ClaimedAre DEF BootProvision, Claimed, BootClaims
  <2>1. e = c
    <3>1. call[e].at \in FullPlaces => Claimed(e)
      BY ClaimedAre DEF FullPlaces, Claimed, BootClaims
    <3> QED
      BY <1>0, <2>0, <3>1 DEF OthersKeep, SoloInv, Alone
  <2>2. ~call[c].fresh
    BY <2>0 DEF HandInv, Hand, BarePlaces
  <2>3. CASE /\ Exists(call[c].seen.ref) /\ call'[c].box = call[c].seen.ref
             /\ call'[c].fresh = call[c].fresh
    BY <2>1, <2>2, <2>3, UndoBegins DEF Exists
  <2>4. CASE \E x \in Boxes : Unnamed(x) /\ call'[c].box = x
    BY <1>0, <2>1, <2>4, UndoBegins DEF Unnamed, OthersKeep
  <2>5. CASE GoTo(c, "boot.record")
    BY <2>1, <2>5, GoToIs DEF FullPlaces
  <2> QED
    BY <1>1, <2>3, <2>4, <2>5, BootProvisionIs
<1>2. CASE ~BootProvision(c)
  <2>0. /\ call'[c].box \in {call[c].box, NoBox}
        /\ call'[c].at \in FullPlaces => call[c].at \in FullPlaces /\ SameHands(c)
    BY <1>2, StepDrops
  <2>1. /\ call[e].at \in FullPlaces
        /\ call'[e].box = call[e].box /\ call'[e].fresh = call[e].fresh
    BY <1>0, <2>0 DEF OthersKeep, SameHands
  <2>2. \A d \in Calls : call'[d].box \in {call[d].box, NoBox}
    BY <1>0, <2>0 DEF OthersKeep
  <2>3. call'[e].at \in {"boot.rollback", "boot.evicted"} => MustUndo(e)'
    <3>1. CASE e = c
      BY <3>1, UndoBegins
    <3>2. CASE e # c
      BY <1>0, <2>1, <3>2 DEF OthersKeep, InHands, MustUndo, Reconnecting
    <3> QED
      BY <3>1, <3>2
  <2> QED
    BY <2>1, <2>2, <2>3 DEF InHands
<1> QED
  BY <1>1, <1>2

\* A call gets to work by activating the row; then nobody else has a claim.
LEMMA EngagedBegins ==
  ASSUME "stop" \notin Operations, TypeOK, OpInv, FenceInv, SoloInv, InHands, NEW c \in Calls, Step(c),
         NEW d \in Calls, Engaged(d)'
  PROVE  Engaged(d) \/ (d = c /\ GoesOn(d)')
<1>0. OthersKeep(c) /\ HoldsNoMore(c) /\ (LeasesExpire \/ TakeLease(c))
  BY StepWithin, StepHolders, StepLeases DEF Within, HoldsNoMore
<1>1. CASE d # c
  BY <1>0, <1>1, HoldsOfOther, LeaseOfOther DEF Engaged
<1>2. CASE d = c /\ AtWork(c)
  BY <1>2, LeaseOfActor DEF Engaged, AtWork
<1>3. CASE d = c /\ ~AtWork(c)
  <2>1. /\ call[c].at = "boot.activate" /\ computer.state = "booting"
        /\ Write(c, "running", call[c].box, Booted(c)) /\ Stamps(c)
    BY <1>3, WorkBegins DEF Engaged
  <2>2. computer'.state = "running" /\ computer'.ref \in Boxes /\ call[c].box \in Boxes
    BY <2>1, WriteIs DEF InHands, FullPlaces
  <2>6. call'[c].box = call[c].box
    <3>1. call[c].op = "run"
      BY <1>3, <2>1, WriteIs, BootedIs DEF Engaged, AtWork
    <3> QED
      BY <2>1, <3>1, WriteIs, BootedIs
  <2>3. \A e \in Calls : e # c => ~Claimed(e) /\ call'[e].at = call[e].at /\ ~call'[e].current
    BY <2>1, ClaimedAre DEF Stamps, OthersOutdated, SoloInv, Alone, Claimed, BootClaims
  <2>4. call'[c].at \in {"run.work", "leave"}
    BY <2>1, WriteIs, BootedIs
  <2>5. ASSUME NEW e \in Calls
        PROVE  /\ call'[e].at \notin BootClaims
               /\ call'[e].at \notin {"reset.recheck", "reset.restore", "reset.destroy",
                                      "reset.record", "reset.fail"}
    BY <2>3, <2>4, ClaimedAre DEF Claimed, BootClaims
  <2> QED
    BY <1>3, <2>2, <2>3, <2>5, <2>6 DEF GoesOn
<1> QED
  BY <1>1, <1>2, <1>3

\* Whoever claims the row of a working call, the row stays one that goes on.
LEMMA RowGoesOn ==
  ASSUME "stop" \notin Operations, TypeOK, OpInv, SoloInv, FenceInv, ExportInv, InHands,
         NEW c \in Calls, Step(c), NEW d \in Calls, Engaged(d), GoesOn(d)
  PROVE  computer'.state \in {"running", "booting", "suspending"} /\ computer'.ref # NoBox
<1>0. call[c].at \notin SleepClaims
  <2>1. call[c].at \in SleepClaims => d # c
    BY DEF Engaged, AtWork, SleepClaims
  <2>2. CASE Team
    BY <2>1, <2>2 DEF Engaged, AtWork, ExportInv, Shielded, ExportClaims
  <2>3. CASE ~Team
    BY <2>1, <2>3 DEF Engaged, ExportInv, Emptied
  <2> QED
    BY <2>2, <2>3
<1>1. computer.state \in {"running", "booting", "suspending"} /\ computer.ref # NoBox
  BY DEF GoesOn
<1>2. CASE computer' = computer
  BY <1>1, <1>2
<1>3. CASE BootStep(c)
  <2>1. CASE BootActivate(c)
    BY <1>2, <2>1, WriteIs DEF BootActivate, InHands, FullPlaces
  <2>2. CASE BootRecord(c)
    <3>1. Reconnecting(c)
      BY <2>2 DEF BootRecord, GoesOn, BootClaims
    <3>2. RecordedRef(c) # NoBox
      BY <1>1 DEF RecordedRef
    <3> QED
      BY <1>2, <2>2, <3>1, <3>2, WriteIs DEF BootRecord
  <2>3. CASE BootClaim(c)
    BY <1>1, <1>2, <2>3, ClaimIs DEF BootClaim
  <2> QED
    BY <1>2, <1>3, <2>1, <2>2, <2>3 DEF BootStep, BootLook, BootAskForeign, BootWait, BootProvision,
       BootPrepare, BootRollback
<1>4. CASE SleepStep(c)
  <2>1. SleepLook(c) \/ SleepAsk(c) \/ SleepClaim(c)
    BY <1>0, <1>4 DEF SleepStep, SleepExport, SleepSave, SleepRecheckRuns, SleepRecheckClaim,
       SleepStop, SleepRecord, SleepClaims
  <2> QED
    BY <1>1, <1>2, <2>1, ClaimIs DEF SleepLook, SleepAsk, SleepClaim
<1>5. CASE ResetStep(c)
  <2>1. ~ResetDestroy(c) /\ ~ResetRecord(c)
    BY DEF ResetDestroy, ResetRecord, GoesOn
  <2>2. CASE ResetUndo(c)
    <3>1. call[c].at = "reset.restore"
      BY <2>2 DEF ResetUndo, GoesOn
    <3>2. call[c].seen.state \in {"running", "booting", "suspending"}
      BY <3>1 DEF GoesOn
    <3> QED
      BY <1>1, <1>2, <2>2, <3>1, <3>2, WriteIs DEF ResetUndo
  <2>3. CASE ResetClaim(c)
    BY <1>1, <1>2, <2>3, ClaimIs DEF ResetClaim
  <2> QED
    BY <1>2, <1>5, <2>1, <2>2, <2>3 DEF ResetStep, ResetLook, ResetCheck, ResetRecheck
<1>6. CASE CheckpointStep(c)
  BY <1>1, <1>2, <1>6, ClaimIs, RunSaveIs, RunSavedIs DEF CheckpointStep, RunCheckpoint
<1>7. ~StopStep(c)
  BY DEF OpInv, Rightly, StopPlaces, StopStep, StopLook, StopClaim, StopAsk, StopForget,
     StopExport, StopStop, StopRecord
<1>8. LeaseStep(c) \/ RunStep(c) => computer' = computer
  BY DEF LeaseStep, AskForLease, TakeLease, ValidateLease, RefuseLease, Leave, RunStep,
     OpenScreen, EndRun, PauseRun, AbortRun, CloseScreen, RequeueRun
<1> QED
  BY <1>2, <1>3, <1>4, <1>5, <1>6, <1>7, <1>8 DEF Step

\* A boot gets a claim of such a row only if it reconnects.
LEMMA OnlyReconnects ==
  ASSUME "stop" \notin Operations, TypeOK, OpInv, SoloInv, FenceInv, NEW c \in Calls, Step(c),
         NEW d \in Calls, Engaged(d), GoesOn(d), call'[c].at \in BootClaims
  PROVE  Reconnecting(c)'
<1>1. BootStep(c)
  <2>1. call'[c].at \notin {"lease.take", "lease.validate", "lease.refused", "boot.look",
           "reset.look", "idle", "sleep.ask", "sleep.claim", "reset.check", "reset.claim",
           "run.requeue", "leave", "reset.recheck", "reset.restore", "reset.record",
           "reset.destroy", "reset.fail", "run.save", "run.saved", "run.work", "run.close"}
           \union SleepClaims \union StopPlaces
    BY DEF BootClaims, SleepClaims, StopPlaces
  <2>2. ~LeaseStep(c) /\ ~ResetStep(c)
    BY <2>1, LeaseLeads, ResetLeads DEF ResetStep, To, Ends
  <2>3. ~SleepStep(c)
    BY <2>1, SleepLeads DEF SleepStep, To, SleepClaims
  <2>4. ~StopStep(c)
    BY <2>1, StopLeads DEF To
  <2>5. ~CheckpointStep(c)
    BY <2>1, RunLeads DEF CheckpointStep, To
  <2>6. ~RunStep(c)
    <3>1. RunStep(c) => call[c].at \in RunPlaces
      BY DEF RunStep, OpenScreen, EndRun, PauseRun, AbortRun, CloseScreen, RequeueRun, RunPlaces
    <3>2. RunPlaces \cap BootClaims = {}
      BY DEF RunPlaces, BootClaims
    <3> QED
      BY <2>1, <3>1, <3>2, RunLeads DEF To
  <2> QED
    BY <2>2, <2>3, <2>4, <2>5, <2>6 DEF Step
<1>2. CASE call[c].at \in BootClaims
  <2>1. Reconnecting(c)
    BY <1>2 DEF GoesOn
  <2>2. call'[c].seen = call[c].seen
    <3>1. CASE BootActivate(c)
      <4>1. call'[c].at \notin {"run.work", "leave"}
        BY DEF BootClaims
      <4>2. ~Write(c, "running", call[c].box, Booted(c))
        BY <4>1, WriteIs, BootedIs
      <4> QED
        BY <3>1, <4>2, GoToIs DEF BootActivate
    <3>2. CASE BootRecord(c)
      BY <3>2, BootLeads DEF To, Ends, BootClaims
    <3> QED
      BY <1>1, <1>2, <3>1, <3>2, BootProvisionIs, GoToIs, UndoneIs
      DEF BootStep, BootLook, BootAskForeign, BootWait, BootClaim, BootPrepare, BootRollback,
          BootClaims, SameMemory
  <2> QED
    BY <2>1, <2>2 DEF Reconnecting
<1>3. CASE call[c].at \notin BootClaims
  <2>1. BootClaim(c)
    BY <1>1, <1>3, BootLeads DEF BootStep, BootProvision, BootPrepare, BootActivate, BootRollback,
       BootRecord, To, Ends, BootClaims
  <2>2. Claimable(c) /\ Claim(c, "booting", "boot.provision") /\ call[c].at = "boot.claim"
    BY <2>1, GiveUpLeads DEF BootClaim, To, Ends, BootClaims
  <2>3. c # d
    BY <2>2 DEF Engaged, AtWork
  <2>4. call[c].seen.state # "booting"
    <3>1. SUFFICES ASSUME call[c].seen.state = "booting" PROVE FALSE
      OBVIOUS
    <3>2. call[c].current /\ HeldByNobodyElse(c)
      BY <2>2, <3>1 DEF Claimable
    <3>3. CASE Team
      <4>1. HasLease(d)
        BY <3>3 DEF Engaged
      <4>2. call[d].bot \in Bots /\ lease[call[d].bot].live
        BY <4>1 DEF HasLease, HoldsLease, FenceInv, CallsAreFenced
      <4>3. call[d].bot = call[c].bot /\ HoldsLease(c)
        BY <3>2, <4>2 DEF HeldByNobodyElse
      <4> QED
        BY <2>3, <4>1, <4>3 DEF HasLease, HoldsLease, FenceInv, FencesDiffer
    <3>4. CASE ~Team
      BY <2>2, <2>3, <3>1, <3>2, <3>4 DEF GoesOn
    <3> QED
      BY <3>3, <3>4
  <2>5. call[c].seen.state \in {"running", "suspending"} /\ call[c].seen.ref # NoBox
    BY <2>2, <2>4 DEF Claimable, GoesOn
  <2> QED
    BY <2>2, <2>5, ClaimIs DEF Reconnecting
<1> QED
  BY <1>2, <1>3

\* A reset that has looked for active runs found none, and before it does it knows of no
\* state it should not put back.
LEMMA ResetsRefrain ==
  ASSUME "stop" \notin Operations, TypeOK, OpInv, HeldIsActive, NEW c \in Calls, Step(c),
         NEW d \in Calls, Engaged(d), GoesOn(d)
  PROVE  /\ call'[c].at \notin {"reset.destroy", "reset.record", "reset.fail"}
         /\ call'[c].at \in {"reset.recheck", "reset.restore"}
              => call'[c].seen.state \in {"running", "booting", "suspending"}
<1>1. ActiveRun
  <2>1. d # Nobody /\ call[d].run \in Runs /\ run[call[d].run].holder = d
    BY DEF Engaged, AtWork, HoldsRun, OpInv, Rightly, RunPlaces
  <2> QED
    BY <2>1 DEF ActiveRun, Active, HeldIsActive
<1>2. CASE ResetStep(c)
  <2>1. CASE ResetRecheck(c)
    <3>1. GoTo(c, "reset.restore") /\ call[c].at = "reset.recheck"
      BY <1>1, <2>1 DEF ResetRecheck
    <3> QED
      BY <3>1, GoToIs DEF GoesOn
  <2>2. CASE ResetClaim(c)
    <3>1. CASE ResetMayClaim(c) /\ Claim(c, "suspending", "reset.recheck")
      BY <3>1, ClaimIs DEF ResetMayClaim, GoesOn
    <3>2. CASE GiveUp(c)
      BY <3>2, GiveUpLeads DEF To, Ends
    <3> QED
      BY <2>2, <3>1, <3>2 DEF ResetClaim
  <2>3. ~ResetDestroy(c) /\ ~ResetRecord(c)
    BY DEF ResetDestroy, ResetRecord, GoesOn
  <2>4. CASE ResetLook(c) \/ ResetCheck(c) \/ ResetUndo(c)
    BY <2>4, ResetLeads DEF To, Ends
  <2> QED
    BY <1>2, <2>1, <2>2, <2>3, <2>4 DEF ResetStep
<1>3. CASE ~ResetStep(c)
  <2>1. call'[c].at \notin {"reset.destroy", "reset.record", "reset.fail", "reset.recheck",
                            "reset.restore"}
    <3>1. CASE LeaseStep(c)
      BY <3>1, LeaseLeads DEF To, Ends
    <3>2. CASE BootStep(c)
      BY <3>2, BootLeads DEF BootStep, To, Ends
    <3>3. CASE SleepStep(c)
      BY <3>3, SleepLeads DEF SleepStep, To
    <3>4. CASE StopStep(c)
      BY <3>4, StopLeads DEF To, StopPlaces
    <3>5. CASE CheckpointStep(c)
      BY <3>5, RunLeads DEF CheckpointStep, To
    <3>6. CASE RunStep(c)
      <4>1. call[c].at \in {"run.work", "run.close", "run.requeue"}
        BY <3>6 DEF RunStep, OpenScreen, EndRun, PauseRun, AbortRun, CloseScreen, RequeueRun
      <4> QED
        BY <3>6, <4>1, RunLeads DEF To
    <3> QED
      BY <1>3, <3>1, <3>2, <3>3, <3>4, <3>5, <3>6 DEF Step
  <2> QED
    BY <2>1
<1> QED
  BY <1>2, <1>3

\* On a private computer, who is to take over a booting row has found that no other run
\* has a heartbeat.
LEMMA TakesOverIdle ==
  ASSUME TypeOK, OpInv, HeldIsActive, ProvInv, NEW c \in Calls, Step(c),
         NEW d \in Calls, d # c, Engaged(d),
         call'[c].at = "boot.claim", call'[c].seen.state = "booting"
  PROVE  FALSE
<1>1. BootStep(c)
  <2>1. ~RunStep(c)
    BY RunLeads DEF RunStep, OpenScreen, EndRun, PauseRun, AbortRun, CloseScreen, RequeueRun, To
  <2> QED
    BY <2>1, LeaseLeads, SleepLeads, StopLeads, ResetLeads, RunLeads
    DEF Step, SleepStep, ResetStep, CheckpointStep, To, Ends, StopPlaces
<1>2. CASE BootLook(c) \/ BootWait(c)
  BY <1>2, BootLookIs, BootWaitIs, GiveUpLeads DEF To, Ends
<1>3. CASE BootAskForeign(c)
  <2>1. ~LiveForeignRunLease(c) /\ call[c].at \in RunSeekers
    BY <1>3, GiveUpLeads DEF BootAskForeign, To, Ends, RunSeekers
  <2>2. /\ d # Nobody /\ call[d].run \in Runs /\ run[call[d].run].holder = d
        /\ run[call[d].run].status = "active"
    BY DEF Engaged, AtWork, HoldsRun, OpInv, Rightly, RunPlaces, HeldIsActive
  <2>3. call[d].run = call[c].run
    BY <2>1, <2>2 DEF LiveForeignRunLease, Active
  <2>4. CASE call[c].op = "run"
    BY <2>1, <2>2, <2>3, <2>4 DEF ProvInv, RunKept, HoldsRun
  <2>5. CASE call[c].op # "run"
    BY <2>1, <2>2, <2>3, <2>5 DEF ProvInv, RunOfUser, RunlessPlaces
  <2> QED
    BY <2>4, <2>5
<1> QED
  BY <1>1, <1>2, <1>3, BootLeads DEF BootStep, To, Ends

\* Work does not change the sandbox a call works in.
LEMMA WorkStays ==
  ASSUME TypeOK, NEW c \in Calls, Step(c), AtWork(c), AtWork(c)'
  PROVE  call'[c].box = call[c].box
<1>0. call[c].at \in {"run.work", "run.save", "run.saved"}
  BY DEF AtWork
<1>1. RunCheckpoint(c) \/ RunSave(c) \/ RunSaved(c) \/ RunStep(c)
  BY <1>0 DEF Step, CheckpointStep,
     LeaseStep, AskForLease, TakeLease, ValidateLease, RefuseLease, Leave,
     BootStep, BootLook, BootAskForeign, BootWait, BootClaim, BootProvision, BootPrepare, BootActivate,
     BootRollback, BootRecord,
     SleepStep, SleepLook, SleepAsk, SleepClaim, SleepExport, SleepSave, SleepRecheckRuns,
     SleepRecheckClaim, SleepStop, SleepRecord,
     StopStep, StopLook, StopClaim, StopAsk, StopForget, StopExport, StopStop, StopRecord,
     ResetStep, ResetLook, ResetCheck, ResetClaim, ResetRecheck, ResetDestroy, ResetRecord, ResetUndo
<1>2. CASE RunCheckpoint(c)
  BY <1>2, GoToIs, ClaimIs DEF RunCheckpoint
<1>3. CASE RunSave(c)
  BY <1>3, RunSaveIs, ClaimIs, GoToIs DEF SameHands
<1>4. CASE RunSaved(c)
  BY <1>4, RunSavedIs DEF SameHands
<1>5. CASE RunStep(c)
  BY <1>5, GoToIs DEF RunStep, OpenScreen, EndRun, PauseRun, AbortRun, CloseScreen, RequeueRun
<1> QED
  BY <1>1, <1>2, <1>3, <1>4, <1>5

LEMMA WorkStep ==
  ASSUME "stop" \notin Operations, TypeOK, OpInv, FenceInv, HandInv, SoloInv, HeldIsActive,
         ExportInv, WorkInv, ~Team => ProvInv, NEW c \in Calls, Step(c)
  PROVE  WorkInv'
<1>0. OthersKeep(c) /\ InHands /\ InHands'
  BY StepWithin, HandsStep DEF Within, WorkInv
<1> SUFFICES ASSUME NEW d \in Calls, Engaged(d)' PROVE GoesOn(d)'
  BY <1>0 DEF WorkInv
<1>1. CASE Engaged(d)
  <2>1. GoesOn(d)
    BY <1>1 DEF WorkInv
  <2>2. computer'.state \in {"running", "booting", "suspending"} /\ computer'.ref # NoBox
    BY <1>0, <1>1, <2>1, RowGoesOn
  <2>3. ASSUME NEW e \in Calls
        PROVE  /\ call'[e].at \in BootClaims => Reconnecting(e)'
               /\ call'[e].at \notin {"reset.destroy", "reset.record", "reset.fail"}
               /\ call'[e].at \in {"reset.recheck", "reset.restore"}
                    => call'[e].seen.state \in {"running", "booting", "suspending"}
               /\ ~Team /\ e # d /\ call'[e].at = "boot.claim" /\ call'[e].current
                    => call'[e].seen.state # "booting"
    <3>1. CASE e # c
      <4>1. /\ call'[e].at = call[e].at /\ call'[e].seen = call[e].seen
            /\ call'[e].current => call[e].current
        BY <1>0, <3>1 DEF OthersKeep
      <4> QED
        BY <2>1, <4>1 DEF GoesOn, Reconnecting
    <3>2. CASE e = c
      BY <1>1, <2>1, <3>2, OnlyReconnects, ResetsRefrain, TakesOverIdle
    <3> QED
      BY <3>1, <3>2
  <2>4. call'[d].box \in Boxes
    <3>1. CASE d = c
      BY <1>1, <2>1, <3>1, WorkStays DEF Engaged, GoesOn
    <3>2. CASE d # c
      BY <1>0, <2>1, <3>2 DEF OthersKeep, GoesOn
    <3> QED
      BY <3>1, <3>2
  <2> QED
    BY <2>2, <2>3, <2>4 DEF GoesOn
<1>2. CASE ~Engaged(d)
  BY <1>0, <1>2, EngagedBegins
<1> QED
  BY <1>1, <1>2

\* Around the calls leases and runs are only lost, and a call that is new or gone has
\* nothing in its hands.
LEMMA WorkRests ==
  ASSUME TypeOK, OpInv, FenceInv, WorkInv,
         computer'.state = computer.state, computer'.ref = computer.ref,
         \/ /\ call' = call /\ LeasesExpire
            /\ \A r \in Runs, d \in Calls : run'[r].holder = d => run[r].holder = d
         \/ \E c \in Calls :
              /\ OthersSame(c) /\ HoldsNoMore(c) /\ LeasesExpire
              /\ call'[c].at \in {"idle", "lease.ask", "sleep.look", "stop.look"}
              /\ call'[c].box = NoBox
  PROVE  WorkInv'
<1>1. CASE /\ call' = call /\ LeasesExpire
           /\ \A r \in Runs, d \in Calls : run'[r].holder = d => run[r].holder = d
  <2>1. InHands'
    BY <1>1 DEF WorkInv, InHands, MustUndo, Reconnecting
  <2>2. ASSUME NEW d \in Calls, Engaged(d)' PROVE GoesOn(d)'
    <3>1. AtWork(d)
      BY <1>1, <2>2 DEF Engaged, AtWork, HoldsRun, OpInv, Rightly, RunPlaces
    <3>2. Team => HasLease(d)
      BY <1>1, <2>2 DEF Engaged, LeasesExpire, HasLease, HoldsLease, Owner, FenceInv, CallsAreFenced
    <3>3. GoesOn(d)
      BY <3>1, <3>2 DEF WorkInv, Engaged
    <3> QED
      BY <1>1, <3>3 DEF GoesOn, Reconnecting
  <2> QED
    BY <2>1, <2>2 DEF WorkInv
<1>2. ASSUME NEW c \in Calls, OthersSame(c), HoldsNoMore(c), LeasesExpire,
             call'[c].at \in {"idle", "lease.ask", "sleep.look", "stop.look"},
             call'[c].box = NoBox
      PROVE  WorkInv'
  <2>0. OthersKeep(c)
    BY <1>2, KeptBySet
  <2>1. InHands'
    <3>1. call'[c].at \notin FullPlaces
      BY <1>2 DEF FullPlaces
    <3>2. \A e \in Calls : e # c => call'[e] = call[e]
      BY <1>2 DEF OthersSame
    <3>3. ASSUME NEW e \in Calls, call'[e].at \in FullPlaces
          PROVE  /\ call'[e].box \in Boxes
                 /\ call'[e].fresh => \A d \in Calls : d # e => call'[d].box # call'[e].box
                 /\ call'[e].at \in {"boot.rollback", "boot.evicted"} => MustUndo(e)'
      <4>1. e # c /\ call'[e] = call[e]
        BY <3>1, <3>2, <3>3
      <4>2. /\ call[e].box \in Boxes
            /\ call[e].fresh => \A d \in Calls : d # e => call[d].box # call[e].box
            /\ call[e].at \in {"boot.rollback", "boot.evicted"} => MustUndo(e)
        BY <3>3, <4>1 DEF WorkInv, InHands
      <4>3. ASSUME NEW d \in Calls, d # e, call[e].fresh PROVE call'[d].box # call[e].box
        BY <1>2, <3>2, <4>2, <4>3
      <4> QED
        BY <4>1, <4>2, <4>3 DEF MustUndo, Reconnecting
    <3> QED
      BY <3>3 DEF InHands
  <2>2. ASSUME NEW d \in Calls, Engaged(d)' PROVE GoesOn(d)'
    <3>1. d # c
      BY <1>2, <2>2 DEF Engaged, AtWork
    <3>2. Engaged(d)
      BY <1>2, <2>0, <2>2, <3>1, HoldsOfOther, LeaseOfOther DEF Engaged
    <3>3. GoesOn(d)
      BY <3>2 DEF WorkInv
    <3>4. \A e \in Calls : e # c => call'[e] = call[e]
      BY <1>2 DEF OthersSame
    <3>5. call'[c].at \notin BootClaims
      BY <1>2 DEF BootClaims
    <3> QED
      BY <1>2, <3>1, <3>3, <3>4, <3>5 DEF GoesOn, Reconnecting
  <2> QED
    BY <2>1, <2>2 DEF WorkInv
<1> QED
  BY <1>1, <1>2

LEMMA WorkNext ==
  ASSUME "stop" \notin Operations, TypeOK, OpInv, FenceInv, HandInv, SoloInv, HeldIsActive,
         ExportInv, WorkInv, ~Team => ProvInv, [Next]_vars
  PROVE  WorkInv'
<1>1. CASE UNCHANGED vars
  BY <1>1, WorkRests DEF vars, LeasesExpire
<1>2. CASE Environment
  <2>1. /\ LeasesExpire
        /\ \A r \in Runs, d \in Calls : run'[r].holder = d => run[r].holder = d
    BY <1>2, EnvironmentLeases, EnvironmentHolders
  <2>2. computer'.state = computer.state /\ computer'.ref = computer.ref
    BY <1>2 DEF Environment, CreateRun, AnswerRun, CancelRun, RunLapses, HaltRun, ReleaseHalted,
       ExpireHalted, LeaseLapses, Crash, ClaimAges, BoxVanishes, TypeOK, Computer
  <2>3. ASSUME NEW c \in Calls, Return(c) PROVE WorkInv'
    BY <2>1, <2>2, <2>3, ReturnIs, WorkRests DEF HoldsNoMore
  <2> QED
    BY <1>2, <2>1, <2>2, <2>3, EnvironmentKeeps, WorkRests
<1>3. ASSUME NEW c \in Calls, Begin(c) PROVE WorkInv'
  <2>1. HoldsNoMore(c)
    BY <1>3, BeginHolders
  <2> QED
    BY <1>3, <2>1, BeginIs, WorkRests DEF LeasesExpire
<1> QED
  BY <1>1, <1>2, <1>3, WorkStep DEF Next

LEMMA WorkInit == Init => WorkInv
  BY DEF Init, WorkInv, InHands, Engaged, AtWork, IdleCall, FullPlaces

\* The sandbox of a working call stays up.
LEMMA SandboxKept ==
  ASSUME "stop" \notin Operations, "vanish" \notin Faults, TypeOK, OpInv, HandInv, ExportInv, WorkInv,
         [Next]_vars, NEW d \in Calls, Works(d), box[call[d].box] = "up"
  PROVE  box'[call[d].box] = "up"
<1>0. box \in [Boxes -> {"none", "up", "stopped"}]
  BY DEF TypeOK
<1>1. Engaged(d) /\ call[d].at = "run.work" /\ GoesOn(d) /\ call[d].box \in Boxes
  <2>1. Engaged(d) /\ call[d].at = "run.work"
    BY DEF Works, Aborted, Engaged, AtWork, HasLease, OpInv, Rightly, RunPlaces
  <2> QED
    BY <2>1 DEF WorkInv, GoesOn
<1>2. CASE UNCHANGED box
  BY <1>2
<1>3. CASE Environment
  <2>1. ~\E x \in Boxes : BoxVanishes(x)
    BY DEF BoxVanishes, Fault
  <2> QED
    BY <1>2, <1>3, <2>1, EnvironmentBoxes
<1>4. ASSUME NEW c \in Calls, Begin(c) PROVE UNCHANGED box
  BY <1>4, BeginIs
<1>5. ASSUME NEW c \in Calls, BootProvision(c) PROVE box'[call[d].box] = "up"
  BY <1>0, <1>1, <1>5, BootProvisionIs
<1>6. ASSUME NEW c \in Calls, BootRollback(c) PROVE box'[call[d].box] = "up"
  <2>1. call[c].at \in FullPlaces /\ Reconnecting(c) /\ c # d
    BY <1>1, <1>6 DEF BootRollback, FullPlaces, GoesOn, BootClaims
  <2>2. call[c].fresh
    BY <1>6, <2>1 DEF BootRollback, WorkInv, InHands, MustUndo
  <2>3. call[d].box # call[c].box
    BY <2>1, <2>2 DEF WorkInv, InHands
  <2> QED
    BY <1>0, <1>1, <1>6, <2>3 DEF BootRollback
<1>7. ASSUME NEW c \in Calls, SleepStop(c) PROVE FALSE
  <2>1. call[c].at \in SleepClaims /\ c # d
    BY <1>1, <1>7 DEF SleepStop, SleepClaims
  <2>2. CASE Team
    BY <1>1, <2>1, <2>2 DEF Engaged, ExportInv, Shielded, ExportClaims
  <2>3. CASE ~Team
    BY <1>1, <2>1, <2>3 DEF Engaged, ExportInv, Emptied
  <2> QED
    BY <2>2, <2>3
<1>8. \A c \in Calls : ~ResetDestroy(c) /\ ~StopStep(c)
  BY <1>1 DEF ResetDestroy, GoesOn, OpInv, Rightly, StopPlaces, StopStep, StopLook, StopClaim,
     StopAsk, StopForget, StopExport, StopStop, StopRecord
<1>9. ASSUME NEW c \in Calls, Step(c) PROVE box'[call[d].box] = "up"
  BY <1>2, <1>5, <1>6, <1>7, <1>8, <1>9 DEF Step, LeaseStep, BootStep, SleepStep, ResetStep,
     CheckpointStep, RunStep,
     AskForLease, TakeLease, ValidateLease, RefuseLease, Leave,
     BootLook, BootAskForeign, BootWait, BootClaim, BootPrepare, BootActivate, BootRecord,
     SleepLook, SleepAsk, SleepClaim, SleepExport, SleepSave, SleepRecheckRuns,
     SleepRecheckClaim, SleepRecord,
     ResetLook, ResetCheck, ResetClaim, ResetRecheck, ResetRecord, ResetUndo,
     RunCheckpoint, RunSave, RunSaved,
     OpenScreen, EndRun, PauseRun, AbortRun, CloseScreen, RequeueRun
<1> QED
  BY <1>2, <1>3, <1>4, <1>9 DEF Next, vars

\* As long as no call is so slow that its claim grows old and nobody stops the computer,
\* nobody takes down the sandbox of a run that works and has its leases: not the sleep
\* job, not a reset, not the roll-back of a peer's boot, though processes die, boots and
\* roll-backs fail and runs are halted at any time (sleepComputerIfIdle,
\* replaceComputer, rollbackProvisionedComputer).  On a private computer, where no
\* execution lease keeps a second boot away, the heartbeat of the run must not stall.
THEOREM SandboxesAreKept ==
  ASSUME Prompt, "vanish" \notin Faults, Team \/ "stall" \notin Faults
  PROVE  Spec => WorkersKeepTheirSandbox
<1> DEFINE I == PromptInv /\ HandInv /\ WorkInv /\ (~Team => ProvInv)
<1>1. Init => HandInv /\ WorkInv /\ ProvInv
  BY HandInit, WorkInit, ProvInit
<1>2. PromptInv /\ ProvInv /\ [Next]_vars /\ ~Team => ProvInv'
  BY ProvNext DEF Prompt, Heartbeats, PromptInv, Inv
<1>3. I /\ [Next]_vars => (HandInv /\ WorkInv /\ (~Team => ProvInv))'
  BY <1>2, HandNext, WorkNext DEF Prompt, PromptInv, Inv
<1>4. I /\ [Next]_vars =>
        [\A c \in Calls : Works(c) /\ Works(c)' /\ box[call[c].box] = "up"
                            => box'[call[c].box] = "up"]_vars
  BY SandboxKept DEF Prompt, PromptInv, Inv
<1>5. Spec => []PromptInv
  BY PromptHolds
<1> QED
  BY <1>1, <1>3, <1>4, <1>5, PTL DEF Spec, WorkersKeepTheirSandbox
=============================================================================
