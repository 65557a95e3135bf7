----------------------- MODULE ComputerLifecycleProofs -----------------------
(***************************************************************************)
(* Theorems about ComputerLifecycle, for every number of bots, runs, calls *)
(* and sandboxes, whatever the faults and however slow the calls.          *)
(*                                                                         *)
(* That at most one call holds the row's claim is inductive with the types *)
(* alone: a call gets to a claimed place only with a write that outdates   *)
(* what every other call remembers.  So each step is one of two kinds, and *)
(* the lemmas say what each kind keeps: the call goes on without a claim   *)
(* it did not have (StayOK), or it writes the row (WriteOK).               *)
(***************************************************************************)
EXTENDS ComputerLifecycle, TLAPS

USE BotOfType, BoundsNat, SwitchesType, NullsAreNew

Inv == TypeOK /\ OneClaim

\* The part of the invariant that is about the calls.
CallsOK ==
  /\ call \in [Calls -> CallState]
  /\ \A c \in Calls : call[c].at \in {"lease.ask", "lease.take"} => call[c].bot \in Bots
  /\ OneClaim

\* The locals of a call that is past its lease.
Later == {s \in CallState : s.at \notin {"lease.ask", "lease.take"}}

-----------------------------------------------------------------------------
(* The two kinds of steps *)

\* A call that goes on under the claim it has, or under none.
LEMMA StayOK ==
  ASSUME CallsOK, NEW c \in Calls, NEW new \in Later, Set(c, new),
         new.current /\ new.at \in ClaimedPlaces => HasClaim(c)
  PROVE  CallsOK'
<1>1. call' \in [Calls -> CallState]
  BY DEF CallsOK, Later, Set
<1>2. /\ call'[c] = new
      /\ \A d \in Calls : d # c => call'[d] = call[d]
  BY DEF CallsOK, Set
<1>3. \A d \in Calls : HasClaim(d)' => HasClaim(d)
  BY <1>2 DEF HasClaim, Claimed
<1> QED
  BY <1>1, <1>2, <1>3 DEF CallsOK, Later, OneClaim

LEMMA OutdatedType ==
  ASSUME NEW r \in CallState
  PROVE  /\ [r EXCEPT !.current = FALSE] \in CallState
         /\ [r EXCEPT !.current = FALSE].at = r.at
         /\ [r EXCEPT !.current = FALSE].bot = r.bot
         /\ ~[r EXCEPT !.current = FALSE].current
  BY DEF CallState

\* A call that writes the row.
LEMMA WriteOK ==
  ASSUME CallsOK, NEW c \in Calls, NEW new \in Later,
         NEW state \in States, NEW ref \in Boxes \union {NoBox},
         Write(c, state, ref, new)
  PROVE  CallsOK' /\ computer' \in Computer
<1>1. computer' \in Computer
  BY DEF Write, Computer
<1>2. \A d \in Calls : call'[d] = IF d = c THEN new ELSE [call[d] EXCEPT !.current = FALSE]
  BY DEF Write
<1>3. \A d \in Calls : [call[d] EXCEPT !.current = FALSE] \in CallState
  BY OutdatedType DEF CallsOK
<1>4. call' \in [Calls -> CallState]
  BY <1>3 DEF Write, Later
<1>5. \A d \in Calls : d # c => /\ ~call'[d].current
                                /\ call'[d].at = call[d].at
                                /\ call'[d].bot = call[d].bot
  BY <1>2, OutdatedType DEF CallsOK
<1>6. OneClaim'
  BY <1>5 DEF OneClaim, HasClaim
<1> QED
  BY <1>1, <1>2, <1>4, <1>5, <1>6 DEF CallsOK, Later

-----------------------------------------------------------------------------
(* The locals a step leaves *)

\* Places where a call has no claim and is past its lease.
FreePlaces == Places \ (ClaimedPlaces \union {"lease.ask", "lease.take"})

LEMMA PlacesAre == ClaimedPlaces \subseteq Places /\ FreePlaces \subseteq Places
  BY DEF ClaimedPlaces, FreePlaces, Places

LEMMA OnlyType ==
  ASSUME CallsOK, NEW c \in Calls, NEW p \in FreePlaces
  PROVE  /\ Only(c, p) \in Later
         /\ Only(c, p).at = p
         /\ ~Only(c, p).current
  BY DEF CallsOK, Only, IdleCall, CallState, Later, FreePlaces, Computer, NewRow, States

LEMMA GoToOK ==
  ASSUME CallsOK, NEW c \in Calls,
         NEW p \in FreePlaces \union ClaimedPlaces, GoTo(c, p),
         p \in ClaimedPlaces => Claimed(c)
  PROVE  CallsOK'
<1> DEFINE new == [call[c] EXCEPT !.at = p]
<1>1. new \in CallState
  BY PlacesAre DEF CallsOK, CallState
<1>2. new.at = p /\ (new.current => call[c].current)
  BY DEF CallsOK, CallState
<1>3. p \notin {"lease.ask", "lease.take"}
  BY DEF FreePlaces, ClaimedPlaces
<1>4. new \in Later
  BY <1>1, <1>2, <1>3 DEF Later
<1>5. Set(c, new)
  BY DEF GoTo
<1>6. new.current /\ new.at \in ClaimedPlaces => HasClaim(c)
  BY <1>2 DEF HasClaim
<1> HIDE DEF new
<1> QED
  BY <1>4, <1>5, <1>6, StayOK

LEMMA IdleType == IdleCall \in Later /\ ~IdleCall.current
  BY DEF IdleCall, Later, CallState, Places, AllOperations, Computer, NewRow, States

LEMMA ReturnOK ==
  ASSUME CallsOK, NEW c \in Calls, Return(c) PROVE CallsOK'
  BY IdleType, StayOK DEF Return

LEMMA GiveUpOK ==
  ASSUME CallsOK, NEW c \in Calls
  PROVE  /\ GivenUp(c) \in Later
         /\ ~GivenUp(c).current
         /\ GiveUp(c) => CallsOK'
<1>1. "run.requeue" \in FreePlaces /\ "leave" \in FreePlaces
  BY DEF FreePlaces, Places, ClaimedPlaces
<1>2. GivenUp(c) \in Later /\ ~GivenUp(c).current
  BY <1>1, OnlyType DEF GivenUp
<1> QED
  BY <1>2, StayOK DEF GiveUp

LEMMA ClaimOK ==
  ASSUME CallsOK, computer \in Computer, NEW c \in Calls,
         NEW state \in States, NEW p \in ClaimedPlaces, Claim(c, state, p)
  PROVE  CallsOK' /\ computer' \in Computer
<1> DEFINE new == [call[c] EXCEPT !.at = p, !.current = TRUE]
<1>1. new \in CallState /\ new.at = p
  BY PlacesAre DEF CallsOK, CallState
<1>2. new \in Later
  BY <1>1 DEF Later, ClaimedPlaces
<1>3. computer.ref \in Boxes \union {NoBox}
  BY DEF Computer
<1>4. Write(c, state, computer.ref, new)
  BY DEF Claim
<1> HIDE DEF new
<1> QED
  BY <1>2, <1>3, <1>4, WriteOK

-----------------------------------------------------------------------------
(* The steps of the calls *)

Others ==
  /\ lease \in [Bots -> Lease]
  /\ run \in [Runs -> RunRow]
  /\ box \in [Boxes -> {"none", "up", "stopped"}]
  /\ screen \in [Bots -> Screen]
  /\ upsets \in Nat

LEMMA InvParts == Inv => CallsOK /\ computer \in Computer /\ Others
  BY DEF Inv, TypeOK, CallsOK, Others

LEMMA InvNext == CallsOK' /\ computer' \in Computer /\ Others' => Inv'
  BY DEF Inv, TypeOK, CallsOK, Others

LEMMA FaultType == ASSUME Others, NEW kind, Fault(kind) PROVE upsets' \in Nat
  BY DEF Others, Fault

LEMMA ExpiredType ==
  ASSUME Others, NEW c \in Calls PROVE Expired(c) \in [Bots -> Lease]
  BY DEF Others, Expired, Lease

LEMMA WithFenceType ==
  ASSUME NEW r \in CallState, NEW p \in Places, NEW f \in Nat
  PROVE  /\ [r EXCEPT !.at = p, !.fence = f] \in CallState
         /\ [r EXCEPT !.at = p, !.fence = f].at = p
  BY DEF CallState

LEMMA TakeLeaseOK ==
  ASSUME CallsOK, computer \in Computer, Others, NEW c \in Calls, TakeLease(c)
  PROVE  CallsOK' /\ Others'
<1> DEFINE b == call[c].bot
<1>1. b \in Bots /\ lease[b] \in Lease
  BY DEF TakeLease, CallsOK, Others
<1>2. CASE lease[b].live
  <2>1. GiveUp(c) /\ UNCHANGED <<lease, run, box, screen, upsets>>
    BY <1>2 DEF TakeLease
  <2> QED
    BY <2>1, GiveUpOK DEF Others
<1>3. CASE ~lease[b].live
  <2> DEFINE f == lease[b].fence + 1
             new == [call[c] EXCEPT !.at = "lease.validate", !.fence = f]
             row == [owner |-> Owner(c), fence |-> f, live |-> TRUE]
  <2>1. f \in Nat
    BY <1>1 DEF Lease
  <2>2. Set(c, new) /\ UNCHANGED <<run, box, screen, upsets>>
    BY <1>3 DEF TakeLease
  <2>3. lease' = [lease EXCEPT ![b] = row]
    BY <1>1, <1>3 DEF TakeLease, Others
  <2> HIDE DEF f
  <2>4. new \in CallState /\ new.at = "lease.validate"
    <3>1. call[c] \in CallState /\ "lease.validate" \in Places
      BY DEF CallsOK, Places
    <3> QED
      BY <2>1, <3>1, WithFenceType
  <2>5. Owner(c) \in Runs \union Calls \union {Nobody}
    <3>1. call[c].run \in Runs \union {Nobody}
      BY DEF CallsOK, CallState
    <3> QED
      BY <3>1 DEF Owner
  <2>6. row \in Lease
    BY <2>1, <2>5 DEF Lease
  <2> HIDE DEF new, row
  <2>7. new \in Later /\ new.at \notin ClaimedPlaces
    BY <2>4 DEF Later, ClaimedPlaces
  <2>8. CallsOK'
    BY <2>2, <2>7, StayOK
  <2> QED
    BY <2>2, <2>3, <2>6, <2>8 DEF Others
<1> QED
  BY <1>2, <1>3

LEMMA AskForLeaseOK ==
  ASSUME CallsOK, NEW c \in Calls, AskForLease(c)
  PROVE  CallsOK'
<1>1. call[c].at = "lease.ask" /\ call[c].bot \in Bots
  BY DEF AskForLease, CallsOK
<1>2. CASE GiveUp(c)
  BY <1>2, GiveUpOK
<1>3. CASE GoTo(c, Leased(c))
  <2>1. Leased(c) \in FreePlaces
    BY DEF Leased, FreePlaces, Places, ClaimedPlaces
  <2>2. Leased(c) \notin ClaimedPlaces
    BY <2>1 DEF FreePlaces
  <2> QED
    BY <1>3, <2>1, <2>2, GoToOK
<1>4. CASE GoTo(c, "lease.take")
  <2> DEFINE new == [call[c] EXCEPT !.at = "lease.take"]
  <2>1. new \in CallState /\ new.at = "lease.take" /\ new.bot \in Bots
    BY <1>1 DEF CallsOK, CallState, Places
  <2>2. Set(c, new)
    BY <1>4 DEF GoTo
  <2> HIDE DEF new
  <2>3. call' \in [Calls -> CallState]
    BY <2>1, <2>2 DEF CallsOK, Set
  <2>4. /\ call'[c] = new
        /\ \A d \in Calls : d # c => call'[d] = call[d]
    BY <2>2 DEF CallsOK, Set
  <2>5. \A d \in Calls : HasClaim(d)' => HasClaim(d)
    BY <2>1, <2>4 DEF HasClaim, Claimed, ClaimedPlaces
  <2> QED
    BY <2>1, <2>3, <2>4, <2>5 DEF CallsOK, OneClaim
<1> QED
  BY <1>2, <1>3, <1>4 DEF AskForLease

LEMMA LeaseStepOK ==
  ASSUME Inv, NEW c \in Calls, LeaseStep(c)
  PROVE  Inv'
<1>0. CallsOK /\ computer \in Computer /\ Others
  BY InvParts
<1>1. CASE AskForLease(c)
  BY <1>0, <1>1, AskForLeaseOK, InvNext DEF AskForLease, Others
<1>2. CASE TakeLease(c)
  BY <1>0, <1>2, TakeLeaseOK, InvNext DEF TakeLease
<1>3. CASE ValidateLease(c)
  <2> DEFINE p == IF LiveSuspending THEN "lease.refused" ELSE Leased(c)
  <2>1. p \in FreePlaces /\ p \notin ClaimedPlaces
    BY DEF Leased, FreePlaces, Places, ClaimedPlaces
  <2>2. GoTo(c, p)
    BY <1>3 DEF ValidateLease
  <2> HIDE DEF p
  <2> QED
    BY <1>0, <1>3, <2>1, <2>2, GoToOK, InvNext DEF ValidateLease, Others
<1>4. CASE RefuseLease(c)
  <2> DEFINE new == [GivenUp(c) EXCEPT !.fence = 0]
  <2>1. new \in CallState /\ new.at = GivenUp(c).at /\ ~new.current
    BY <1>0, GiveUpOK DEF Later, CallState
  <2>2. new \in Later
    BY <1>0, <2>1, GiveUpOK DEF Later
  <2>3. Set(c, new)
    BY <1>4 DEF RefuseLease
  <2> HIDE DEF new
  <2> QED
    BY <1>0, <1>4, <2>1, <2>2, <2>3, StayOK, ExpiredType, InvNext DEF RefuseLease, Others
<1>5. CASE Leave(c)
  BY <1>0, <1>5, ReturnOK, ExpiredType, InvNext DEF Leave, Others
<1> QED
  BY <1>1, <1>2, <1>3, <1>4, <1>5 DEF LeaseStep

-----------------------------------------------------------------------------
(* Locals that are set together *)

LEMMA SeenType ==
  ASSUME NEW r \in CallState, NEW p \in Places, NEW s \in Computer
  PROVE  /\ [r EXCEPT !.seen = s, !.at = p] \in CallState
         /\ [r EXCEPT !.seen = s, !.at = p].at = p
  BY DEF CallState

LEMMA SeenAtType ==
  ASSUME NEW r \in CallState, NEW p \in Places, NEW s \in Computer
  PROVE  /\ [r EXCEPT !.at = p, !.seen = s] \in CallState
         /\ [r EXCEPT !.at = p, !.seen = s].at = p
  BY DEF CallState

LEMMA SeenCurrentType ==
  ASSUME NEW r \in CallState, NEW p \in Places, NEW s \in Computer
  PROVE  /\ [r EXCEPT !.at = p, !.seen = s, !.current = TRUE] \in CallState
         /\ [r EXCEPT !.at = p, !.seen = s, !.current = TRUE].at = p
  BY DEF CallState

LEMMA OutdatedAtType ==
  ASSUME NEW r \in CallState, NEW p \in Places
  PROVE  /\ [r EXCEPT !.at = p, !.current = FALSE] \in CallState
         /\ [r EXCEPT !.at = p, !.current = FALSE].at = p
         /\ ~[r EXCEPT !.at = p, !.current = FALSE].current
  BY DEF CallState

LEMMA BoxAtType ==
  ASSUME NEW r \in CallState, NEW p \in Places, NEW x \in Boxes \union {NoBox}
  PROVE  /\ [r EXCEPT !.at = p, !.box = x] \in CallState
         /\ [r EXCEPT !.at = p, !.box = x].at = p
         /\ [r EXCEPT !.at = p, !.box = x].current => r.current
  BY DEF CallState

LEMMA FreshAtType ==
  ASSUME NEW r \in CallState, NEW p \in Places, NEW x \in Boxes \union {NoBox}
  PROVE  /\ [r EXCEPT !.at = p, !.box = x, !.fresh = TRUE] \in CallState
         /\ [r EXCEPT !.at = p, !.box = x, !.fresh = TRUE].at = p
         /\ [r EXCEPT !.at = p, !.box = x, !.fresh = TRUE].current => r.current
  BY DEF CallState

LEMMA LookedType ==
  ASSUME NEW r \in CallState, NEW p \in Places, NEW s \in Computer
  PROVE  /\ [r EXCEPT !.seen = s, !.mark = s, !.current = TRUE, !.at = p] \in CallState
         /\ [r EXCEPT !.seen = s, !.mark = s, !.current = TRUE, !.at = p].at = p
  BY DEF CallState

LEMMA BoxedType ==
  ASSUME NEW r \in CallState, NEW x \in Boxes \union {NoBox}
  PROVE  /\ [r EXCEPT !.box = x] \in CallState
         /\ [r EXCEPT !.box = x].at = r.at
  BY DEF CallState

LEMMA CallParts ==
  ASSUME CallsOK, NEW c \in Calls
  PROVE  /\ call[c] \in CallState
         /\ call[c].seen \in Computer
         /\ call[c].seen.ref \in Boxes \union {NoBox}
         /\ call[c].seen.state \in States
         /\ call[c].box \in Boxes \union {NoBox}
         /\ call[c].run \in Runs \union {Nobody}
         /\ call[c].fence \in Nat
  BY DEF CallsOK, CallState, Computer

\* The locals of a call whose place alone decides whether it may have a claim.
LEMMA LocalsOK ==
  ASSUME CallsOK, NEW c \in Calls, NEW new \in CallState, Set(c, new),
         \/ new.at \in FreePlaces
         \/ new.at \in ClaimedPlaces /\ Claimed(c) /\ (new.current => call[c].current)
  PROVE  CallsOK'
<1>1. new \in Later
  BY DEF Later, FreePlaces, ClaimedPlaces
<1>2. new.current /\ new.at \in ClaimedPlaces => HasClaim(c)
  BY DEF HasClaim, FreePlaces
<1> QED
  BY <1>1, <1>2, StayOK

LEMMA CallFailsType ==
  ASSUME Others, NEW c \in Calls, CallFails(c) PROVE upsets' \in Nat
  BY FaultType DEF CallFails, Others

-----------------------------------------------------------------------------
(* provisionComputer *)

LEMMA BootReadsOK ==
  ASSUME Inv, NEW c \in Calls, BootLook(c) \/ BootAskForeign(c) \/ BootWait(c)
  PROVE  Inv'
<1>0. CallsOK /\ computer \in Computer /\ Others
  BY InvParts
<1>1. CallsOK' => Inv'
  BY <1>0, InvNext DEF BootLook, BootAskForeign, BootWait, Others
<1>2. /\ call[c] \in CallState
      /\ {"boot.foreign", "boot.wait", "boot.reclaim", "boot.claim"} \subseteq FreePlaces
      /\ FreePlaces \subseteq Places
      /\ FreePlaces \cap ClaimedPlaces = {}
  BY <1>0, CallParts DEF FreePlaces, ClaimedPlaces, Places
<1>3. CASE GiveUp(c)
  BY <1>0, <1>1, <1>3, GiveUpOK
<1>4. ASSUME BootLook(c), ~GiveUp(c) PROVE Inv'
  <2> DEFINE p == CASE computer.state = "booting"    -> "boot.foreign"
                    [] computer.state = "suspending" -> "boot.wait"
                    [] OTHER                         -> "boot.claim"
             new == [call[c] EXCEPT !.seen = computer, !.mark = computer,
                                    !.current = TRUE, !.at = p]
  <2>1. p \in FreePlaces /\ p \in Places
    BY <1>2
  <2>2. Set(c, new)
    BY <1>4 DEF BootLook
  <2> HIDE DEF p
  <2>3. new \in CallState /\ new.at = p
    BY <1>0, <1>2, <2>1, LookedType
  <2> HIDE DEF new
  <2> QED
    BY <1>0, <1>1, <2>1, <2>2, <2>3, LocalsOK
<1>5. ASSUME BootAskForeign(c), ~GiveUp(c) PROVE Inv'
  <2> DEFINE p == IF call[c].at = "boot.foreign" THEN "boot.wait" ELSE "boot.claim"
  <2>1. p \in FreePlaces /\ p \notin ClaimedPlaces
    BY <1>2
  <2>2. GoTo(c, p)
    BY <1>5 DEF BootAskForeign
  <2> HIDE DEF p
  <2> QED
    BY <1>0, <1>1, <2>1, <2>2, GoToOK
<1>6. ASSUME BootWait(c), ~GiveUp(c) PROVE Inv'
  <2> DEFINE p == IF computer.state \in {"booting", "suspending"}
                    THEN "boot.reclaim" ELSE "boot.claim"
             new == [call[c] EXCEPT !.seen = computer, !.at = p]
  <2>1. p \in FreePlaces /\ p \in Places
    BY <1>2
  <2>2. Set(c, new)
    BY <1>6 DEF BootWait
  <2> HIDE DEF p
  <2>3. new \in CallState /\ new.at = p
    BY <1>0, <1>2, <2>1, SeenType
  <2> HIDE DEF new
  <2> QED
    BY <1>0, <1>1, <2>1, <2>2, <2>3, LocalsOK
<1> QED
  BY <1>3, <1>4, <1>5, <1>6

LEMMA BootClaimOK ==
  ASSUME Inv, NEW c \in Calls, BootClaim(c)
  PROVE  Inv'
<1>0. CallsOK /\ computer \in Computer /\ Others
  BY InvParts
<1>1. Others'
  BY <1>0 DEF BootClaim, Others
<1>2. CASE GiveUp(c) /\ UNCHANGED computer
  BY <1>0, <1>1, <1>2, GiveUpOK, InvNext
<1>3. CASE Claim(c, "booting", "boot.provision")
  <2>1. "booting" \in States /\ "boot.provision" \in ClaimedPlaces
    BY DEF States, ClaimedPlaces
  <2> QED
    BY <1>0, <1>1, <1>3, <2>1, ClaimOK, InvNext
<1> QED
  BY <1>2, <1>3 DEF BootClaim

LEMMA BootProvisionOK ==
  ASSUME Inv, NEW c \in Calls, BootProvision(c)
  PROVE  Inv'
<1> DEFINE ref == call[c].seen.ref
<1>0. CallsOK /\ computer \in Computer /\ Others
  BY InvParts
<1>1. Claimed(c) /\ UNCHANGED <<computer, lease, run, screen>>
  BY DEF BootProvision, Claimed, ClaimedPlaces
<1>2. /\ call[c] \in CallState
      /\ {"boot.prepare", "boot.record"} \subseteq ClaimedPlaces
      /\ ClaimedPlaces \subseteq Places
  BY <1>0, CallParts, PlacesAre DEF ClaimedPlaces
<1>3. CASE /\ box' = [box EXCEPT ![ref] = "up"]
           /\ Set(c, [call[c] EXCEPT !.at = "boot.prepare", !.box = ref])
           /\ UNCHANGED upsets
  <2> DEFINE new == [call[c] EXCEPT !.at = "boot.prepare", !.box = ref]
  <2>1. new \in CallState /\ new.at = "boot.prepare" /\ (new.current => call[c].current)
    <3>1. "boot.prepare" \in Places /\ ref \in Boxes \union {NoBox}
      BY <1>0, <1>2, CallParts
    <3> HIDE DEF ref
    <3> QED
      BY <1>2, <3>1, BoxAtType
  <2>2. Set(c, new)
    BY <1>3
  <2> HIDE DEF new
  <2>3. CallsOK'
    BY <1>0, <1>1, <1>2, <2>1, <2>2, LocalsOK
  <2> QED
    BY <1>0, <1>1, <1>3, <2>3, InvNext DEF Others
<1>4. ASSUME NEW x \in Boxes,
             box' = [box EXCEPT ![x] = "up"],
             Set(c, [call[c] EXCEPT !.at = "boot.prepare", !.box = x, !.fresh = TRUE]),
             UNCHANGED upsets
      PROVE  Inv'
  <2> DEFINE new == [call[c] EXCEPT !.at = "boot.prepare", !.box = x, !.fresh = TRUE]
  <2>1. new \in CallState /\ new.at = "boot.prepare" /\ (new.current => call[c].current)
    <3>1. "boot.prepare" \in Places /\ x \in Boxes \union {NoBox}
      BY <1>2
    <3> QED
      BY <1>2, <3>1, FreshAtType
  <2>2. Set(c, new)
    BY <1>4
  <2> HIDE DEF new
  <2>3. CallsOK'
    BY <1>0, <1>1, <1>2, <2>1, <2>2, LocalsOK
  <2> QED
    BY <1>0, <1>1, <1>4, <2>3, InvNext DEF Others
<1>5. CASE CallFails(c) /\ GoTo(c, "boot.record") /\ UNCHANGED box
  <2>1. CallsOK' /\ upsets' \in Nat
    BY <1>0, <1>1, <1>2, <1>5, GoToOK, CallFailsType
  <2> QED
    BY <1>0, <1>1, <1>5, <2>1, InvNext DEF Others
<1> QED
  BY <1>3, <1>4, <1>5 DEF BootProvision

LEMMA BootPrepareOK ==
  ASSUME Inv, NEW c \in Calls, BootPrepare(c)
  PROVE  Inv'
<1>0. CallsOK /\ computer \in Computer /\ Others
  BY InvParts
<1>1. Claimed(c) /\ UNCHANGED <<computer, lease, run, box, screen>>
  BY DEF BootPrepare, Claimed, ClaimedPlaces
<1>2. {"boot.activate", "boot.rollback", "boot.record"} \subseteq ClaimedPlaces
  BY DEF ClaimedPlaces
<1>3. \E p \in ClaimedPlaces : GoTo(c, p)
  BY <1>2 DEF BootPrepare
<1>4. CallsOK'
  BY <1>0, <1>1, <1>3, GoToOK
<1>5. upsets' \in Nat
  BY <1>0, CallFailsType DEF BootPrepare, Others
<1> QED
  BY <1>0, <1>1, <1>4, <1>5, InvNext DEF Others

LEMMA BootActivateOK ==
  ASSUME Inv, NEW c \in Calls, BootActivate(c)
  PROVE  Inv'
<1>0. CallsOK /\ computer \in Computer /\ Others
  BY InvParts
<1>1. Claimed(c) /\ Others'
  BY <1>0 DEF BootActivate, Others, Claimed, ClaimedPlaces
<1>2. CASE Write(c, "running", call[c].box, Booted(c))
  <2>1. "run.work" \in FreePlaces /\ "leave" \in FreePlaces
    BY DEF FreePlaces, Places, ClaimedPlaces
  <2>2. call[c].box \in Boxes \union {NoBox}
    BY <1>0, CallParts
  <2> DEFINE work == Only(c, "run.work")
             new  == [work EXCEPT !.box = call[c].box]
  <2>3. work \in Later /\ Only(c, "leave") \in Later
    BY <1>0, <2>1, OnlyType
  <2>4. Booted(c) = new \/ Booted(c) = Only(c, "leave")
    BY DEF Booted
  <2> HIDE DEF work
  <2>5. new \in CallState /\ new.at = work.at
    BY <2>2, <2>3, BoxedType DEF Later
  <2> HIDE DEF new
  <2>6. new \in Later
    BY <2>3, <2>5 DEF Later
  <2>7. "running" \in States /\ Booted(c) \in Later
    BY <2>3, <2>4, <2>6 DEF States
  <2> QED
    BY <1>0, <1>1, <1>2, <2>2, <2>7, WriteOK, InvNext
<1>3. CASE /\ GoTo(c, IF MustUndo(c) THEN "boot.evicted" ELSE "boot.record")
           /\ UNCHANGED computer
  <2>1. {"boot.evicted", "boot.record"} \subseteq ClaimedPlaces
    BY DEF ClaimedPlaces
  <2>2. \E p \in ClaimedPlaces : GoTo(c, p)
    BY <1>3, <2>1
  <2> QED
    BY <1>0, <1>1, <1>3, <2>2, GoToOK, InvNext
<1> QED
  BY <1>2, <1>3 DEF BootActivate

LEMMA BootRollbackOK ==
  ASSUME Inv, NEW c \in Calls, BootRollback(c)
  PROVE  Inv'
<1>0. CallsOK /\ computer \in Computer /\ Others
  BY InvParts
<1>1. Claimed(c) /\ UNCHANGED <<computer, lease, run, screen>>
  BY DEF BootRollback, Claimed, ClaimedPlaces
<1>2. "boot.record" \in ClaimedPlaces /\ "boot.record" \in Places
  BY PlacesAre DEF ClaimedPlaces
<1>3. CASE Undone(c)
  <2> DEFINE p == "boot.record"
             new == [call[c] EXCEPT !.at = p, !.box = NoBox]
  <2>1. Set(c, new)
    BY <1>3 DEF Undone
  <2>2. p \in ClaimedPlaces /\ p \in Places
    BY <1>2
  <2> HIDE DEF p
  <2>3. new \in CallState /\ new.at = p /\ (new.current => call[c].current)
    <3>1. call[c] \in CallState /\ NoBox \in Boxes \union {NoBox}
      BY <1>0, CallParts
    <3> QED
      BY <2>2, <3>1, BoxAtType
  <2> HIDE DEF new
  <2> QED
    <3>1. new \in Later
      BY <2>2, <2>3 DEF Later, ClaimedPlaces
    <3>2. new.current => HasClaim(c)
      BY <1>1, <2>3 DEF HasClaim
    <3>3. CallsOK'
      BY <1>0, <2>1, <3>1, <3>2, StayOK
    <3>4. Others'
      BY <1>0, <1>1, FaultType DEF BootRollback, Others
    <3> QED
      BY <1>0, <1>1, <3>3, <3>4, InvNext
<1>4. CASE GoTo(c, "boot.record")
  <2>1. CallsOK'
    BY <1>0, <1>1, <1>2, <1>4, GoToOK
  <2>2. Others'
    BY <1>0, <1>1, FaultType DEF BootRollback, Others
  <2> QED
    BY <1>0, <1>1, <2>1, <2>2, InvNext
<1> QED
  BY <1>3, <1>4 DEF BootRollback

LEMMA BootRecordOK ==
  ASSUME Inv, NEW c \in Calls, BootRecord(c)
  PROVE  Inv'
<1>0. CallsOK /\ computer \in Computer /\ Others
  BY InvParts
<1>1. Others'
  BY <1>0 DEF BootRecord, Others
<1>2. CASE GiveUp(c) /\ UNCHANGED computer
  BY <1>0, <1>1, <1>2, GiveUpOK, InvNext
<1>3. CASE Write(c, IF Reconnecting(c) THEN "running" ELSE "error", RecordedRef(c), GivenUp(c))
  <2>1. {"running", "error"} \subseteq States
    BY DEF States
  <2>2. RecordedRef(c) \in Boxes \union {NoBox}
    BY <1>0, CallParts DEF RecordedRef, Computer
  <2>3. GivenUp(c) \in Later
    BY <1>0, GiveUpOK
  <2>4. \E state \in States : Write(c, state, RecordedRef(c), GivenUp(c))
    BY <1>3, <2>1
  <2> QED
    BY <1>0, <1>1, <2>2, <2>3, <2>4, WriteOK, InvNext
<1> QED
  BY <1>2, <1>3 DEF BootRecord

LEMMA BootStepOK == ASSUME Inv, NEW c \in Calls, BootStep(c) PROVE Inv'
  BY BootReadsOK, BootClaimOK, BootProvisionOK, BootPrepareOK, BootActivateOK,
     BootRollbackOK, BootRecordOK DEF BootStep

-----------------------------------------------------------------------------
(* What takes the computer down *)

\* Steps that only move the call from one claimed place to another.
LEMMA MoveOK ==
  ASSUME Inv, NEW c \in Calls, Claimed(c), NEW p \in ClaimedPlaces, GoTo(c, p),
         computer' = computer, Others'
  PROVE  Inv'
  BY InvParts, InvNext, GoToOK

\* A call that reads the row and goes to a place where it has no claim.
LEMMA SeeOK ==
  ASSUME Inv, NEW c \in Calls, NEW p \in FreePlaces,
         \/ Set(c, [call[c] EXCEPT !.at = p, !.seen = computer, !.current = TRUE])
         \/ Set(c, [call[c] EXCEPT !.at = p, !.seen = computer])
  PROVE  CallsOK'
<1>0. CallsOK /\ computer \in Computer /\ call[c] \in CallState /\ p \in Places
  BY InvParts, CallParts, PlacesAre
<1>1. CASE Set(c, [call[c] EXCEPT !.at = p, !.seen = computer, !.current = TRUE])
  <2> DEFINE new == [call[c] EXCEPT !.at = p, !.seen = computer, !.current = TRUE]
  <2>1. new \in CallState /\ new.at = p
    BY <1>0, SeenCurrentType
  <2>2. Set(c, new)
    BY <1>1
  <2> HIDE DEF new
  <2> QED
    BY <1>0, <2>1, <2>2, LocalsOK
<1>2. CASE Set(c, [call[c] EXCEPT !.at = p, !.seen = computer])
  <2> DEFINE new == [call[c] EXCEPT !.at = p, !.seen = computer]
  <2>1. new \in CallState /\ new.at = p
    BY <1>0, SeenAtType
  <2>2. Set(c, new)
    BY <1>2
  <2> HIDE DEF new
  <2> QED
    BY <1>0, <2>1, <2>2, LocalsOK
<1> QED
  BY <1>1, <1>2

LEMMA SleepStepOK ==
  ASSUME Inv, NEW c \in Calls, SleepStep(c)
  PROVE  Inv'
<1>0. CallsOK /\ computer \in Computer /\ Others
  BY InvParts
<1>p. /\ {"sleep.export", "sleep.save", "sleep.recheck", "sleep.recheckRuns",
           "sleep.recheckClaim", "sleep.stop", "sleep.record", "sleep.unclaim"}
           \subseteq ClaimedPlaces
      /\ {"sleep.ask", "sleep.claim"} \subseteq FreePlaces
      /\ FreePlaces \cap ClaimedPlaces = {}
  BY DEF ClaimedPlaces, FreePlaces, Places
<1>1. CASE SleepLook(c)
  <2>1. CallsOK'
    BY <1>0, <1>1, <1>p, SeeOK, ReturnOK DEF SleepLook, See
  <2> QED
    BY <1>0, <1>1, <2>1, InvNext DEF SleepLook, Others
<1>2. CASE SleepAsk(c)
  <2>1. CallsOK'
    BY <1>0, <1>2, <1>p, GoToOK, ReturnOK DEF SleepAsk
  <2> QED
    BY <1>0, <1>2, <2>1, InvNext DEF SleepAsk, Others
<1>3. CASE SleepClaim(c)
  <2>1. "suspending" \in States
    BY DEF States
  <2>2. CallsOK' /\ computer' \in Computer
    BY <1>0, <1>3, <1>p, <2>1, ClaimOK, ReturnOK DEF SleepClaim
  <2> QED
    BY <1>0, <1>3, <2>2, InvNext DEF SleepClaim, Others
<1>4. CASE SleepExport(c)
  <2>1. Claimed(c) /\ computer' = computer /\ Others'
    BY <1>0, <1>4, <1>p, FaultType DEF SleepExport, Claimed, Others
  <2>2. \E p \in ClaimedPlaces : GoTo(c, p)
    BY <1>4, <1>p DEF SleepExport
  <2> QED
    BY <2>1, <2>2, MoveOK
<1>5. CASE SleepSave(c)
  <2>1. Claimed(c) /\ computer' = computer /\ Others'
    BY <1>0, <1>5, <1>p DEF SleepSave, Claimed, Others
  <2>2. \E p \in ClaimedPlaces : GoTo(c, p)
    BY <1>5, <1>p DEF SleepSave
  <2> QED
    BY <2>1, <2>2, MoveOK
<1>6. CASE SleepRecheckRuns(c)
  <2>1. Claimed(c) /\ computer' = computer /\ Others'
    BY <1>0, <1>6, <1>p DEF SleepRecheckRuns, Claimed, Others
  <2>2. \E p \in ClaimedPlaces : GoTo(c, p)
    BY <1>6, <1>p DEF SleepRecheckRuns
  <2> QED
    BY <2>1, <2>2, MoveOK
<1>7. CASE SleepRecheckClaim(c)
  <2>1. Claimed(c) /\ computer' = computer /\ Others'
    BY <1>0, <1>7, <1>p DEF SleepRecheckClaim, Claimed, Others
  <2>2. \E p \in ClaimedPlaces : GoTo(c, p)
    BY <1>7, <1>p DEF SleepRecheckClaim
  <2> QED
    BY <2>1, <2>2, MoveOK
<1>8. CASE SleepStop(c)
  <2>1. Claimed(c) /\ computer' = computer /\ Others'
    BY <1>0, <1>8, <1>p, FaultType DEF SleepStop, StopSeenBox, Claimed, Others
  <2>2. \E p \in ClaimedPlaces : GoTo(c, p)
    BY <1>8, <1>p DEF SleepStop
  <2> QED
    BY <2>1, <2>2, MoveOK
<1>9. CASE SleepRecord(c)
  <2>1. Others'
    BY <1>0, <1>9 DEF SleepRecord, Others
  <2>2. CASE Return(c) /\ UNCHANGED computer
    BY <1>0, <2>1, <2>2, ReturnOK, InvNext
  <2>3. CASE Write(c, IF call[c].at = "sleep.record" THEN "suspended" ELSE "running",
                   computer.ref, IdleCall)
    <3>1. {"suspended", "running"} \subseteq States /\ computer.ref \in Boxes \union {NoBox}
      BY <1>0 DEF States, Computer
    <3>2. \E state \in States : Write(c, state, computer.ref, IdleCall)
      BY <2>3, <3>1
    <3> QED
      BY <1>0, <2>1, <3>1, <3>2, IdleType, WriteOK, InvNext
  <2> QED
    BY <1>9, <2>2, <2>3 DEF SleepRecord
<1> QED
  BY <1>1, <1>2, <1>3, <1>4, <1>5, <1>6, <1>7, <1>8, <1>9 DEF SleepStep

LEMMA StopStepOK ==
  ASSUME Inv, NEW c \in Calls, StopStep(c)
  PROVE  Inv'
<1>0. CallsOK /\ computer \in Computer /\ Others
  BY InvParts
<1>p. /\ {"stop.ask", "stop.restore", "stop.forget", "stop.export", "stop.stop",
           "stop.record", "stop.fail"} \subseteq ClaimedPlaces
      /\ "stop.claim" \in FreePlaces
      /\ FreePlaces \cap ClaimedPlaces = {}
  BY DEF ClaimedPlaces, FreePlaces, Places
<1>1. CASE StopLook(c)
  <2>1. CallsOK'
    BY <1>0, <1>1, <1>p, SeeOK DEF StopLook
  <2> QED
    BY <1>0, <1>1, <2>1, InvNext DEF StopLook, Others
<1>2. CASE StopClaim(c)
  <2>1. "suspending" \in States
    BY DEF States
  <2>2. CallsOK' /\ computer' \in Computer
    BY <1>0, <1>2, <1>p, <2>1, ClaimOK, ReturnOK DEF StopClaim
  <2> QED
    BY <1>0, <1>2, <2>2, InvNext DEF StopClaim, Others
<1>3. CASE StopAsk(c)
  <2>1. Claimed(c) /\ computer' = computer /\ Others'
    BY <1>0, <1>3, <1>p DEF StopAsk, Claimed, Others
  <2>2. \E p \in ClaimedPlaces : GoTo(c, p)
    BY <1>3, <1>p DEF StopAsk
  <2> QED
    BY <2>1, <2>2, MoveOK
<1>4. CASE StopForget(c)
  <2>1. NoLease \in Lease
    BY DEF NoLease, Lease
  <2>2. Claimed(c) /\ computer' = computer /\ Others'
    BY <1>0, <1>4, <1>p, <2>1 DEF StopForget, Claimed, Others
  <2>3. \E p \in ClaimedPlaces : GoTo(c, p)
    BY <1>4, <1>p DEF StopForget
  <2> QED
    BY <2>2, <2>3, MoveOK
<1>5. CASE StopExport(c)
  <2>1. Claimed(c) /\ Others' /\ computer.state \in States
    BY <1>0, <1>5, <1>p, FaultType DEF StopExport, Claimed, Others, Computer
  <2>2. CASE Claim(c, computer.state, "stop.stop")
    BY <1>0, <1>p, <2>1, <2>2, ClaimOK, InvNext
  <2>3. CASE GoTo(c, "stop.fail") /\ UNCHANGED computer
    BY <1>p, <2>1, <2>3, MoveOK
  <2> QED
    BY <1>5, <2>2, <2>3 DEF StopExport
<1>6. CASE StopStop(c)
  <2>1. Claimed(c) /\ computer' = computer /\ Others'
    BY <1>0, <1>6, <1>p, FaultType DEF StopStop, StopSeenBox, Claimed, Others
  <2>2. \E p \in ClaimedPlaces : GoTo(c, p)
    BY <1>6, <1>p DEF StopStop
  <2> QED
    BY <2>1, <2>2, MoveOK
<1>7. CASE StopRecord(c)
  <2>1. Others'
    BY <1>0, <1>7 DEF StopRecord, Others
  <2>2. CASE Return(c) /\ UNCHANGED computer
    BY <1>0, <2>1, <2>2, ReturnOK, InvNext
  <2>3. CASE Write(c, CASE call[c].at = "stop.record" -> "stopped"
                        [] call[c].at = "stop.fail"   -> "error"
                        [] OTHER                      -> call[c].seen.state,
                   computer.ref, IdleCall)
    <3>1. /\ {"stopped", "error", call[c].seen.state} \subseteq States
          /\ computer.ref \in Boxes \union {NoBox}
      BY <1>0, CallParts DEF States, Computer
    <3>2. \E state \in States : Write(c, state, computer.ref, IdleCall)
      BY <2>3, <3>1
    <3> QED
      BY <1>0, <2>1, <3>1, <3>2, IdleType, WriteOK, InvNext
  <2> QED
    BY <1>7, <2>2, <2>3 DEF StopRecord
<1> QED
  BY <1>1, <1>2, <1>3, <1>4, <1>5, <1>6, <1>7 DEF StopStep

LEMMA ResetRecordOK ==
  ASSUME Inv, NEW c \in Calls, ResetRecord(c)
  PROVE  Inv'
<1>0. CallsOK /\ computer \in Computer /\ Others
  BY InvParts
<1>1. Others' /\ Claimed(c)
  BY <1>0 DEF ResetRecord, Others, Claimed, ClaimedPlaces
<1>2. CASE computer' = NewRow /\ Set(c, Only(c, "boot.look"))
  <2>1. "boot.look" \in FreePlaces
    BY DEF FreePlaces, Places, ClaimedPlaces
  <2>2. CallsOK'
    BY <1>0, <1>2, <2>1, OnlyType, StayOK
  <2>3. computer' \in Computer
    BY <1>2 DEF NewRow, Computer, States
  <2> QED
    BY <1>1, <2>2, <2>3, InvNext
<1>3. CASE GoTo(c, "reset.fail") /\ UNCHANGED computer
  <2>1. "reset.fail" \in ClaimedPlaces
    BY DEF ClaimedPlaces
  <2> QED
    BY <1>1, <1>3, <2>1, MoveOK
<1> QED
  BY <1>2, <1>3 DEF ResetRecord

LEMMA ResetUndoOK ==
  ASSUME Inv, NEW c \in Calls, ResetUndo(c)
  PROVE  Inv'
<1>0. CallsOK /\ computer \in Computer /\ Others
  BY InvParts
<1>1. Others'
  BY <1>0 DEF ResetUndo, Others
<1>2. "leave" \in FreePlaces
  BY DEF FreePlaces, Places, ClaimedPlaces
<1>3. Only(c, "leave") \in Later /\ ~Only(c, "leave").current
  BY <1>0, <1>2, OnlyType
<1>4. CASE Set(c, Only(c, "leave")) /\ UNCHANGED computer
  BY <1>0, <1>1, <1>3, <1>4, StayOK, InvNext
<1>5. CASE Write(c, IF call[c].at = "reset.fail" THEN "error" ELSE call[c].seen.state,
                 computer.ref, Only(c, "leave"))
  <2>1. /\ {"error", call[c].seen.state} \subseteq States
        /\ computer.ref \in Boxes \union {NoBox}
    BY <1>0, CallParts DEF States, Computer
  <2>2. \E state \in States : Write(c, state, computer.ref, Only(c, "leave"))
    BY <1>5, <2>1
  <2> QED
    BY <1>0, <1>1, <1>3, <2>1, <2>2, WriteOK, InvNext
<1> QED
  BY <1>4, <1>5 DEF ResetUndo

LEMMA ResetStepOK ==
  ASSUME Inv, NEW c \in Calls, ResetStep(c)
  PROVE  Inv'
<1>0. CallsOK /\ computer \in Computer /\ Others
  BY InvParts
<1>p. /\ {"reset.recheck", "reset.restore", "reset.destroy", "reset.record",
           "reset.fail"} \subseteq ClaimedPlaces
      /\ {"reset.check", "reset.claim"} \subseteq FreePlaces
      /\ FreePlaces \cap ClaimedPlaces = {}
  BY DEF ClaimedPlaces, FreePlaces, Places
<1>1. CASE ResetLook(c)
  <2>1. \E p \in FreePlaces : See(c, p)
    BY <1>1, <1>p DEF ResetLook
  <2>2. CallsOK'
    BY <2>1, SeeOK DEF See
  <2> QED
    BY <1>0, <1>1, <2>2, InvNext DEF ResetLook, Others
<1>2. CASE ResetCheck(c)
  <2>1. CallsOK'
    BY <1>0, <1>2, <1>p, GoToOK, GiveUpOK DEF ResetCheck
  <2> QED
    BY <1>0, <1>2, <2>1, InvNext DEF ResetCheck, Others
<1>3. CASE ResetClaim(c)
  <2>1. "suspending" \in States
    BY DEF States
  <2>2. CallsOK' /\ computer' \in Computer
    BY <1>0, <1>3, <1>p, <2>1, ClaimOK, GiveUpOK DEF ResetClaim
  <2> QED
    BY <1>0, <1>3, <2>2, InvNext DEF ResetClaim, Others
<1>4. CASE ResetRecheck(c)
  <2>1. Claimed(c) /\ computer' = computer /\ Others'
    BY <1>0, <1>4, <1>p DEF ResetRecheck, Claimed, Others
  <2>2. \E p \in ClaimedPlaces : GoTo(c, p)
    BY <1>4, <1>p DEF ResetRecheck, AfterResetCheck
  <2> QED
    BY <2>1, <2>2, MoveOK
<1>5. CASE ResetDestroy(c)
  <2>1. Claimed(c) /\ computer' = computer /\ Others'
    BY <1>0, <1>5, <1>p, FaultType DEF ResetDestroy, Claimed, Others
  <2>2. \E p \in ClaimedPlaces : GoTo(c, p)
    BY <1>5, <1>p DEF ResetDestroy
  <2> QED
    BY <2>1, <2>2, MoveOK
<1> QED
  BY <1>1, <1>2, <1>3, <1>4, <1>5, ResetRecordOK, ResetUndoOK DEF ResetStep

LEMMA CheckpointStepOK ==
  ASSUME Inv, NEW c \in Calls, CheckpointStep(c)
  PROVE  Inv'
<1>0. /\ CallsOK /\ computer \in Computer /\ Others
      /\ computer.state \in States /\ computer.ref \in Boxes \union {NoBox}
      /\ call[c] \in CallState
  BY InvParts, CallParts DEF Computer
<1>p. /\ Exclusive => {"run.save", "run.saved"} \subseteq ClaimedPlaces
      /\ ~Exclusive => {"run.save", "run.saved"} \subseteq FreePlaces
      /\ "run.work" \in FreePlaces
      /\ FreePlaces \subseteq Places
      /\ "suspending" \in States /\ "running" \in States
  BY DEF ClaimedPlaces, FreePlaces, Places, States
<1>1. CASE RunCheckpoint(c)
  <2>1. CASE Exclusive
    <3>1. Claim(c, "suspending", "run.save")
      BY <1>1, <2>1 DEF RunCheckpoint
    <3> QED
      BY <1>0, <1>1, <1>p, <2>1, <3>1, ClaimOK, InvNext DEF RunCheckpoint, Others
  <2>2. CASE ~Exclusive
    <3>1. GoTo(c, "run.save") /\ UNCHANGED computer
      BY <1>1, <2>2 DEF RunCheckpoint
    <3>2. "run.save" \notin ClaimedPlaces
      BY <1>p, <2>2 DEF FreePlaces
    <3> QED
      BY <1>0, <1>1, <1>p, <2>2, <3>1, <3>2, GoToOK, InvNext DEF RunCheckpoint, Others
  <2> QED
    BY <2>1, <2>2
<1>2. CASE RunSave(c)
  <2>0. Others'
    BY <1>0, <1>2, CallFailsType DEF RunSave, Others
  <2>1. CASE Exclusive /\ Claim(c, computer.state, "run.saved")
    BY <1>0, <1>p, <2>0, <2>1, ClaimOK, InvNext
  <2>2. CASE ~Exclusive /\ Write(c, computer.state, computer.ref, [call[c] EXCEPT !.at = "run.work"])
    <3> DEFINE p   == "run.work"
               new == [call[c] EXCEPT !.at = p]
    <3>1. p \in FreePlaces /\ p \in Places
      BY <1>p
    <3>2. Write(c, computer.state, computer.ref, new)
      BY <2>2
    <3> HIDE DEF p
    <3>3. new \in CallState /\ new.at = p
      BY <1>0, <3>1 DEF CallState
    <3> HIDE DEF new
    <3>4. new \in Later
      BY <3>1, <3>3 DEF Later, FreePlaces
    <3> QED
      BY <1>0, <2>0, <3>2, <3>4, WriteOK, InvNext
  <2>3. CASE GoTo(c, IF Exclusive THEN "run.saved" ELSE "run.work") /\ UNCHANGED computer
    <3>1. CASE Exclusive
      <4>1. Claimed(c)
        BY <1>2, <1>p, <3>1 DEF RunSave, Claimed
      <4> QED
        BY <1>p, <2>0, <2>3, <3>1, <4>1, MoveOK
    <3>2. CASE ~Exclusive
      <4>1. "run.work" \notin ClaimedPlaces
        BY <1>p DEF FreePlaces
      <4> QED
        BY <1>0, <1>p, <2>0, <2>3, <3>2, <4>1, GoToOK, InvNext
    <3> QED
      BY <3>1, <3>2
  <2> QED
    BY <1>2, <2>1, <2>2, <2>3 DEF RunSave
<1>3. CASE RunSaved(c)
  <2> DEFINE p   == "run.work"
             new == [call[c] EXCEPT !.at = p, !.current = FALSE]
  <2>1. Others' /\ p \in FreePlaces /\ p \in Places
    BY <1>0, <1>3, <1>p DEF RunSaved, Others
  <2>2. \/ Write(c, "running", computer.ref, new)
        \/ Set(c, new) /\ UNCHANGED computer
    BY <1>3 DEF RunSaved
  <2> HIDE DEF p
  <2>3. new \in CallState /\ new.at = p /\ ~new.current
    BY <1>0, <2>1, OutdatedAtType
  <2> HIDE DEF new
  <2>4. new \in Later
    BY <2>1, <2>3 DEF Later, FreePlaces
  <2> QED
    BY <1>0, <1>p, <2>1, <2>2, <2>3, <2>4, StayOK, WriteOK, InvNext
<1> QED
  BY <1>1, <1>2, <1>3 DEF CheckpointStep

-----------------------------------------------------------------------------
(* The work of a run, the beginning of calls, time and faults *)

LEMMA RunStepOK ==
  ASSUME Inv, NEW c \in Calls, RunStep(c)
  PROVE  Inv'
<1>0. CallsOK /\ computer \in Computer /\ Others
  BY InvParts
<1>p. /\ {"run.close", "leave"} \subseteq FreePlaces
      /\ FreePlaces \cap ClaimedPlaces = {}
  BY DEF ClaimedPlaces, FreePlaces, Places
<1>1. CASE OpenScreen(c)
  <2>1. [box |-> call[c].box, owner |-> call[c].run, fence |-> call[c].fence] \in Screen
    BY <1>0, CallParts DEF Screen
  <2>2. Others'
    BY <1>0, <1>1, <2>1 DEF OpenScreen, Others
  <2>3. CallsOK' /\ computer' \in Computer
    BY <1>0, <1>1 DEF OpenScreen, CallsOK, OneClaim, HasClaim, Claimed
  <2> QED
    BY <2>2, <2>3, InvNext
<1>2. CASE EndRun(c)
  <2>1. [status |-> "over", holder |-> Nobody] \in RunRow
    BY DEF RunRow
  <2> QED
    BY <1>0, <1>2, <1>p, <2>1, GoToOK, InvNext DEF EndRun, Others
<1>3. CASE AbortRun(c)
  BY <1>0, <1>3, <1>p, GoToOK, InvNext DEF AbortRun, Others
<1>4. CASE CloseScreen(c)
  <2>1. NoScreen \in Screen
    BY DEF NoScreen, Screen
  <2>2. Others'
    BY <1>0, <1>4, <2>1, FaultType DEF CloseScreen, Others
  <2> QED
    BY <1>0, <1>4, <1>p, <2>2, GoToOK, InvNext DEF CloseScreen
<1>5. CASE RequeueRun(c)
  <2>1. Others'
    BY <1>0, <1>5 DEF RequeueRun, Others, RunRow
  <2> QED
    BY <1>0, <1>5, <1>p, <2>1, GoToOK, InvNext DEF RequeueRun
<1>6. CASE PauseRun(c)
  <2>1. [status |-> "paused", holder |-> Nobody] \in RunRow
    BY DEF RunRow
  <2> QED
    BY <1>0, <1>6, <1>p, <2>1, GoToOK, InvNext DEF PauseRun, Others
<1> QED
  BY <1>1, <1>2, <1>3, <1>4, <1>5, <1>6 DEF RunStep

\* A call that begins, with new locals of its own.
LEMMA NewCallOK ==
  ASSUME CallsOK, NEW c \in Calls, NEW new \in CallState, Set(c, new), ~new.current,
         new.at \in {"lease.ask", "lease.take"} => new.bot \in Bots
  PROVE  CallsOK'
<1>1. call' \in [Calls -> CallState]
  BY DEF CallsOK, Set
<1>2. /\ call'[c] = new
      /\ \A d \in Calls : d # c => call'[d] = call[d]
  BY DEF CallsOK, Set
<1>3. \A d \in Calls : HasClaim(d)' => HasClaim(d)
  BY <1>2 DEF HasClaim, Claimed
<1> QED
  BY <1>1, <1>2, <1>3 DEF CallsOK, OneClaim

LEMMA BeginOK ==
  ASSUME Inv, NEW c \in Calls, Begin(c)
  PROVE  Inv'
<1>0. CallsOK /\ computer \in Computer /\ Others
  BY InvParts
<1>1. ASSUME NEW r \in Runs, BeginRun(c, r) PROVE Inv'
  <2> DEFINE new == [IdleCall EXCEPT !.at = "lease.ask", !.op = "run", !.run = r, !.bot = BotOf[r]]
  <2>1. new \in CallState /\ ~new.current /\ new.bot \in Bots
    BY DEF IdleCall, CallState, Places, AllOperations, Computer, NewRow, States
  <2>2. Set(c, new)
    BY <1>1 DEF BeginRun
  <2> HIDE DEF new
  <2>3. CallsOK'
    BY <1>0, <2>1, <2>2, NewCallOK
  <2>4. Others'
    BY <1>0, <1>1 DEF BeginRun, Others, RunRow
  <2> QED
    BY <1>0, <1>1, <2>3, <2>4, InvNext DEF BeginRun
<1>2. ASSUME NEW op \in {"boot", "reset", "sleep", "stop"}, NEW b \in Bots, BeginOther(c, op, b)
      PROVE  Inv'
  <2> DEFINE p == CASE op = "sleep" -> "sleep.look"
                    [] op = "stop"  -> "stop.look"
                    [] OTHER        -> "lease.ask"
             for == IF op = "sleep" THEN Nobody ELSE b
             new == [IdleCall EXCEPT !.op = op, !.bot = for, !.at = p]
  <2>1. p \in Places /\ op \in AllOperations
    BY DEF Places, AllOperations
  <2>2. for \in Bots \union {Nobody} /\ (p \in {"lease.ask", "lease.take"} => for \in Bots)
    OBVIOUS
  <2>3. Set(c, new)
    BY <1>2 DEF BeginOther
  <2> HIDE DEF p, for
  <2>4. /\ new \in CallState /\ new.at = p /\ new.bot = for /\ ~new.current
    BY <2>1, <2>2 DEF IdleCall, CallState, Computer, NewRow, States
  <2> HIDE DEF new
  <2>5. CallsOK'
    BY <1>0, <2>2, <2>3, <2>4, NewCallOK
  <2> QED
    BY <1>0, <1>2, <2>5, InvNext DEF BeginOther, Others
<1> QED
  BY <1>1, <1>2 DEF Begin

LEMMA EnvironmentOK ==
  ASSUME Inv, Environment
  PROVE  Inv'
<1>0. CallsOK /\ computer \in Computer /\ Others
  BY InvParts
<1>s. call' = call => CallsOK'
  BY <1>0 DEF CallsOK, OneClaim, HasClaim, Claimed
<1>e. \A r \in Runs : ExpiredOf(r) \in [Bots -> Lease]
  BY <1>0 DEF ExpiredOf, Others, Lease
<1>1. ASSUME NEW r \in Runs, CreateRun(r) PROVE Inv'
  BY <1>0, <1>s, <1>1, InvNext DEF CreateRun, Others, RunRow
<1>2. ASSUME NEW r \in Runs, CancelRun(r) PROVE Inv'
  <2>1. run' \in [Runs -> RunRow]
    BY <1>0, <1>2 DEF CancelRun, Others, RunRow
  <2>2. lease' \in [Bots -> Lease]
    BY <1>0, <1>2, <1>e DEF CancelRun
  <2> QED
    BY <1>0, <1>s, <1>2, <2>1, <2>2, InvNext DEF CancelRun, Others
<1>3. ASSUME NEW r \in Runs, RunLapses(r) PROVE Inv'
  <2>1. run' \in [Runs -> RunRow]
    BY <1>0, <1>3 DEF RunLapses, Others, RunRow
  <2> QED
    BY <1>0, <1>s, <1>3, <2>1, FaultType, InvNext DEF RunLapses, Others
<1>4. ASSUME NEW b \in Bots, LeaseLapses(b) PROVE Inv'
  <2>1. lease' \in [Bots -> Lease]
    BY <1>0, <1>4 DEF LeaseLapses, Others, Lease
  <2> QED
    BY <1>0, <1>s, <1>4, <2>1, FaultType, InvNext DEF LeaseLapses, Others
<1>5. ASSUME NEW c \in Calls, Crash(c) PROVE Inv'
  <2>1. run' \in [Runs -> RunRow]
    BY <1>0, <1>5 DEF Crash, Others, RunRow
  <2>2. CallsOK'
    BY <1>0, <1>5, ReturnOK DEF Crash
  <2> QED
    BY <1>0, <1>5, <2>1, <2>2, FaultType, InvNext DEF Crash, Others
<1>6. CASE ClaimAges
  <2>1. computer' \in Computer
    BY <1>0, <1>6 DEF ClaimAges, Computer
  <2> QED
    BY <1>0, <1>s, <1>6, <2>1, InvNext DEF ClaimAges, Others
<1>7. ASSUME NEW x \in Boxes, BoxVanishes(x) PROVE Inv'
  BY <1>0, <1>s, <1>7, FaultType, InvNext DEF BoxVanishes, Others
<1>8. ASSUME NEW r \in Runs, HaltRun(r) PROVE Inv'
  <2>1. run' \in [Runs -> RunRow]
    BY <1>0, <1>8 DEF HaltRun, Others, RunRow
  <2> QED
    BY <1>0, <1>s, <1>8, <2>1, InvNext DEF HaltRun, Others
<1>9. ASSUME NEW r \in Runs, ReleaseHalted(r) PROVE Inv'
  <2>1. NoScreen \in Screen
    BY DEF NoScreen, Screen
  <2>2. screen' \in [Bots -> Screen]
    BY <1>0, <1>9, <2>1 DEF ReleaseHalted, Others
  <2> QED
    BY <1>0, <1>s, <1>9, <2>2, InvNext DEF ReleaseHalted, Others
<1>10. ASSUME NEW r \in Runs, ExpireHalted(r) PROVE Inv'
  <2>1. run' \in [Runs -> RunRow]
    BY <1>0, <1>10 DEF ExpireHalted, Others, RunRow
  <2>2. lease' \in [Bots -> Lease]
    BY <1>10, <1>e DEF ExpireHalted
  <2> QED
    BY <1>0, <1>s, <1>10, <2>1, <2>2, InvNext DEF ExpireHalted, Others
<1>11. ASSUME NEW r \in Runs, AnswerRun(r) PROVE Inv'
  <2>1. run' \in [Runs -> RunRow]
    BY <1>0, <1>11 DEF AnswerRun, Others, RunRow
  <2> QED
    BY <1>0, <1>s, <1>11, <2>1, InvNext DEF AnswerRun, Others
<1> QED
  BY <1>1, <1>2, <1>3, <1>4, <1>5, <1>6, <1>7, <1>8, <1>9, <1>10, <1>11 DEF Environment

-----------------------------------------------------------------------------
(* The theorems *)

LEMMA InitInv == Init => Inv
<1> SUFFICES ASSUME Init PROVE Inv
  OBVIOUS
<1>1. computer \in Computer
  BY DEF Init, NewRow, Computer, States
<1>2. Others
  BY DEF Init, Others, NoLease, Lease, RunRow, NoScreen, Screen
<1>3. CallsOK
  <2>1. \A c \in Calls : call[c] = IdleCall
    BY DEF Init
  <2>2. call \in [Calls -> CallState]
    BY IdleType DEF Init, Later
  <2> QED
    BY <2>1, <2>2, IdleType DEF CallsOK, OneClaim, HasClaim, Later
<1> QED
  BY <1>1, <1>2, <1>3 DEF Inv, TypeOK, CallsOK, Others

LEMMA NextInv == Inv /\ [Next]_vars => Inv'
<1> SUFFICES ASSUME Inv, [Next]_vars PROVE Inv'
  OBVIOUS
<1>1. CASE Environment
  BY <1>1, EnvironmentOK
<1>2. ASSUME NEW c \in Calls, Begin(c) \/ Step(c) PROVE Inv'
  BY <1>2, BeginOK, LeaseStepOK, BootStepOK, SleepStepOK, StopStepOK, ResetStepOK,
     CheckpointStepOK, RunStepOK DEF Step
<1>3. CASE UNCHANGED vars
  BY <1>3 DEF vars, Inv, TypeOK, OneClaim, HasClaim, Claimed
<1> QED
  BY <1>1, <1>2, <1>3 DEF Next

\* Every variable keeps its type, for any number of bots, runs, calls and sandboxes;
\* in particular whoever asks for an execution lease does so for a bot (the sleep job,
\* which has none, takes none).
THEOREM TypeCorrect == Spec => []TypeOK
<1>1. Inv => TypeOK
  BY DEF Inv
<1> QED
  BY <1>1, InitInv, NextInv, PTL DEF Spec

\* Of all the calls that claimed the row (to boot, to suspend, to stop, to reset it, or
\* for a checkpoint) at most one still finds its claim there, however slow the others
\* are, whichever crashed or were aborted, and whatever the provider did: the claim
\* stamp of computer-lifecycle.ts, computer-idle.ts and router.ts is a fencing token.
THEOREM ClaimIsExclusive == Spec => []OneClaim
<1>1. Inv => OneClaim
  BY DEF Inv
<1> QED
  BY <1>1, InitInv, NextInv, PTL DEF Spec

=============================================================================
