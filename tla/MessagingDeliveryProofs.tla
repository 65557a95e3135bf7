------------------------ MODULE MessagingDeliveryProofs ------------------------
(***************************************************************************)
(* Theorems about MessagingDelivery, for every number of drains, texts,    *)
(* requests, attempts and faults.                                          *)
(***************************************************************************)
EXTENDS MessagingDelivery, TLAPS

-----------------------------------------------------------------------------
(* The inductive invariant *)

Working == {"prepare", "lock", "send", "record", "count", "catch"}

\* What a call read of a row it may still try had attempts left.
DrainShape ==
  [at : Places, snapshot : SUBSET Texts, final : BOOLEAN, todo : SUBSET Ids,
   row : Ids \union {Free}, attempts : [Ids -> 0..(MaxAttempts - 1)]]

Shaped(d) == /\ drain[d] \in DrainShape
             /\ IF drain[d].at \in Working THEN Mine(d) \in Ids ELSE Mine(d) = Free

Types ==
  /\ outbox \in [Ids -> Row] /\ run \in Run /\ heard \subseteq Texts /\ counter \in Nat
  /\ connection \in Connection /\ lock \in Drains \union {Free}
  /\ drain = [d \in Drains |-> drain[d]]
  /\ accepted \in [Ids -> Nat] /\ doubts \in [Ids -> Nat]
  /\ givenUp \subseteq Ids /\ deliveryUpsets \in Nat

\* A row that may still be made.
Fresh(r) == outbox[r].status = "none" /\ (r \in Cycles => r > connection.cycle)

\* A row, which a call works on (held) or not.
RowOK(r, held) ==
  /\ outbox[r].status = "pending" \/ held => outbox[r].attempts < MaxAttempts
  /\ outbox[r].status = "pending" \/ Fresh(r) => accepted[r] <= doubts[r] /\ ~held
  /\ outbox[r].handle => outbox[r].status # "none" /\ accepted[r] > 0
  /\ accepted[r] <= 1 + doubts[r]
  /\ outbox[r].status = "sent" /\ ~held => accepted[r] > 0 \/ r \in givenUp
  /\ outbox[r].status # "none" => IF r \in Cycles THEN r = connection.cycle ELSE r \in run.texts
  /\ run.channel /\ r \in run.private => outbox[r].status = "none"

\* What a call knows of its row; it holds the lock while it sends an invite.
HandOK(d) ==
  /\ drain[d].at \in {"prepare", "lock", "send", "catch"} => accepted[Mine(d)] <= doubts[Mine(d)]
  /\ drain[d].at \in {"record", "count"} => accepted[Mine(d)] > 0
  /\ lock = d <=> drain[d].at \in {"send", "record"} /\ IsInvite(Mine(d))
  /\ At(d, "lock") => IsInvite(Mine(d))
  /\ lock = d => connection.status = "pending" /\ Mine(d) = connection.cycle

Exclusive == \A d, e \in Drains : Mine(d) \in Ids /\ Mine(d) = Mine(e) => d = e

\* What was read of the run, and what other bots heard, was written before the answer.
SnapshotOK(d) ==
  /\ drain[d].snapshot \subseteq run.texts
  /\ run.channel => drain[d].snapshot \intersect run.private = {}

PrivacyInv ==
  /\ heard \subseteq run.texts /\ run.private \subseteq run.texts
  /\ run.private # {} => run.ask = "answered"
  /\ run.channel => heard \intersect run.private = {}

Inv ==
  /\ Types /\ PrivacyInv /\ Exclusive
  /\ \A d \in Drains : Shaped(d) /\ HandOK(d) /\ SnapshotOK(d)
  /\ \A r \in Ids : RowOK(r, InHand(r))

LEMMA FreeIsNobody == Free \notin Ids /\ Free \notin Drains
  BY DrainsType, FreeIsNoRow DEF Ids, Cycles

LEMMA InitInv == DeliveryInit => Inv
<1> SUFFICES ASSUME DeliveryInit PROVE Inv
  OBVIOUS
<1>1. /\ \A d \in Drains : drain[d] = IdleDrain
      /\ \A r \in Ids : outbox[r] = NoRow /\ accepted[r] = 0 /\ doubts[r] = 0
      /\ lock = Free /\ givenUp = {} /\ heard = {}
  BY DEF DeliveryInit
<1>2. /\ IdleDrain \in DrainShape /\ IdleDrain.at = "idle" /\ IdleDrain.row = Free
      /\ IdleDrain.snapshot = {}
  BY DeliveryBounds DEF IdleDrain, DrainShape, Places
<1>3. NoRow \in Row /\ NoRow.status = "none" /\ NoRow.attempts = 0 /\ NoRow.handle = FALSE
  BY DeliveryBounds DEF NoRow, Row, Status
<1>4. run \in Run /\ run.private = {} /\ run.texts = {}
  <2>1. ASSUME NEW channel \in BOOLEAN
        PROVE  /\ NewRun(channel) \in Run
               /\ NewRun(channel).private = {} /\ NewRun(channel).texts = {}
    BY DEF NewRun, Run
  <2>2. NoRun \in Run /\ NoRun.private = {} /\ NoRun.texts = {}
    BY <2>1 DEF NoRun, Run
  <2> QED
    BY <2>1, <2>2 DEF DeliveryInit
<1>5. connection \in Connection
  BY DeliveryBounds DEF DeliveryInit, Connection
<1>6. Types
  BY <1>1, <1>3, <1>4, <1>5, DeliveryBounds DEF DeliveryInit, Types
<1>7. PrivacyInv
  BY <1>1, <1>4 DEF PrivacyInv
<1>8. \A d \in Drains : Mine(d) = Free /\ drain[d].at = "idle"
  BY <1>1, <1>2 DEF Mine
<1>9. Exclusive
  BY <1>8, FreeIsNobody DEF Exclusive
<1>10. ASSUME NEW d \in Drains PROVE Shaped(d) /\ HandOK(d) /\ SnapshotOK(d)
  BY <1>1, <1>2, <1>4, <1>8, FreeIsNobody DEF Shaped, HandOK, SnapshotOK, Working, At
<1>11. ASSUME NEW r \in Ids PROVE RowOK(r, InHand(r))
  <2>1. ~InHand(r)
    BY <1>8, FreeIsNobody DEF InHand
  <2> QED
    BY <1>1, <1>3, <1>4, <2>1, DeliveryBounds DEF RowOK
<1> QED
  BY <1>6, <1>7, <1>9, <1>10, <1>11 DEF Inv

-----------------------------------------------------------------------------
(* The locals of a call *)

Others(d) == /\ drain' = [e \in Drains |-> drain'[e]]
             /\ \A e \in Drains \ {d} : drain'[e] = drain[e]

LEMMA GoToDrain ==
  ASSUME Types, NEW d \in Drains, Shaped(d), NEW place \in Places, GoTo(d, place)
  PROVE  /\ Others(d) /\ drain'[d] \in DrainShape /\ drain'[d].at = place
         /\ Mine(d)' = Mine(d) /\ drain'[d].snapshot = drain[d].snapshot
         /\ drain'[d].todo = drain[d].todo
  BY DEF GoTo, Types, Shaped, Others, DrainShape, Mine

LEMMA NextDrain ==
  ASSUME Types, NEW d \in Drains, Shaped(d), Mine(d) \in Ids, NextRow(d)
  PROVE  /\ Others(d) /\ drain'[d] \in DrainShape /\ drain'[d].at = "claim"
         /\ Mine(d)' = Free /\ drain'[d].snapshot = drain[d].snapshot
<1> DEFINE tries == [drain[d].attempts EXCEPT ![Mine(d)] = 0]
           q == [drain[d] EXCEPT !.at = "claim", !.row = Free, !.attempts = tries]
<1>1. drain[d] \in DrainShape
  BY DEF Shaped
<1>2. tries \in [Ids -> 0..(MaxAttempts - 1)]
  BY <1>1, DeliveryBounds DEF DrainShape
<1>3. drain' = [drain EXCEPT ![d] = q]
  BY <1>1 DEF NextRow, Types, DrainShape
<1> HIDE DEF tries
<1>4. /\ q \in DrainShape /\ q.at = "claim" /\ q.row = Free
      /\ q.snapshot = drain[d].snapshot
  BY <1>1, <1>2 DEF DrainShape, Places
<1> HIDE DEF q
<1> QED
  BY <1>3, <1>4 DEF Types, Others, Mine

LEMMA IdleShape ==
  /\ IdleDrain \in DrainShape /\ IdleDrain.at = "idle" /\ IdleDrain.row = Free
  /\ IdleDrain.snapshot = {}
  BY DeliveryBounds DEF IdleDrain, DrainShape, Places

LEMMA ExitDrain ==
  ASSUME Types, NEW d \in Drains, drain' = [drain EXCEPT ![d] = IdleDrain]
  PROVE  /\ Others(d) /\ drain'[d] \in DrainShape /\ drain'[d].at = "idle"
         /\ Mine(d)' = Free /\ drain'[d].snapshot = {}
  BY IdleShape DEF Types, Others, Mine

-----------------------------------------------------------------------------
(* Steps *)

\* A call that works on no row moves, or the run goes on.
LEMMA QuietStep ==
  ASSUME Inv, UNCHANGED <<outbox, accepted, doubts, givenUp, connection, lock>>,
         run' \in Run, heard' \subseteq Texts, counter' \in Nat, deliveryUpsets' \in Nat,
         drain' = [d \in Drains |-> drain'[d]], PrivacyInv',
         run'.channel = run.channel, run.texts \subseteq run'.texts,
         \A t \in run'.private : t \in run.private \/ t \notin run.texts,
         \A d \in Drains : \/ drain'[d] = drain[d]
                           \/ /\ drain'[d] \in DrainShape /\ drain'[d].at \notin Working
                              /\ Mine(d) = Free /\ Mine(d)' = Free /\ SnapshotOK(d)'
  PROVE  Inv'
<1>1. Types'
  BY DEF Inv, Types
<1>2. \A d \in Drains : Mine(d)' = Mine(d)
  BY DEF Mine
<1>3. Exclusive'
  BY <1>2 DEF Inv, Exclusive
<1>4. ASSUME NEW d \in Drains PROVE Shaped(d)' /\ HandOK(d)' /\ SnapshotOK(d)'
  <2>1. Shaped(d) /\ HandOK(d) /\ SnapshotOK(d)
    BY DEF Inv
  <2>2. CASE drain'[d] = drain[d]
    <3>1. Shaped(d)' /\ HandOK(d)'
      BY <2>1, <2>2 DEF Shaped, HandOK, Mine, At
    <3>2. SnapshotOK(d)'
      BY <2>1, <2>2 DEF SnapshotOK
    <3> QED
      BY <3>1, <3>2
  <2>3. CASE /\ drain'[d] \in DrainShape /\ drain'[d].at \notin Working
             /\ Mine(d) = Free /\ Mine(d)' = Free /\ SnapshotOK(d)'
    <3>1. ~IsInvite(Free)
      BY FreeIsNobody DEF IsInvite, Ids
    <3>2. lock # d
      BY <2>1, <2>3, <3>1 DEF HandOK
    <3> QED
      BY <2>3, <3>1, <3>2 DEF Shaped, HandOK, Working, At
  <2> QED
    BY <2>2, <2>3
<1>5. ASSUME NEW r \in Ids PROVE RowOK(r, InHand(r))'
  <2>1. InHand(r)' = InHand(r)
    BY <1>2 DEF InHand
  <2>2. RowOK(r, InHand(r))
    BY DEF Inv
  <2>3. r \in run'.private => r \in Texts
    BY DEF Run
  <2>4. r \in Texts => r \notin Cycles
    BY TextsAreNoCycles DEF Cycles
  <2> QED
    BY <2>1, <2>2, <2>3, <2>4 DEF RowOK, Fresh
<1> QED
  BY <1>1, <1>3, <1>4, <1>5 DEF Inv

\* A call claims a row, works on it, or is done with it.
LEMMA WorkStep ==
  ASSUME Inv, NEW d \in Drains, NEW k \in Ids, Others(d), Shaped(d)', HandOK(d)',
         Mine(d) = k \/ (Mine(d) = Free /\ outbox[k].status = "pending"),
         Mine(d)' \in {k, Free}, RowOK(k, Mine(d) = k)',
         drain'[d].snapshot \in {drain[d].snapshot, {}},
         UNCHANGED <<run, heard, connection>>,
         counter' \in Nat, deliveryUpsets' \in Nat,
         outbox' \in [Ids -> Row], accepted' \in [Ids -> Nat], doubts' \in [Ids -> Nat],
         \A j \in Ids \ {k} :
           outbox'[j] = outbox[j] /\ accepted'[j] = accepted[j] /\ doubts'[j] = doubts[j],
         givenUp \subseteq givenUp', givenUp' \subseteq Ids,
         lock' = lock \/ (lock \in {d, Free} /\ lock' \in {d, Free})
  PROVE  Inv'
<1>0. Free # k
  BY FreeIsNobody
<1>1. ASSUME NEW e \in Drains, e # d PROVE drain'[e] = drain[e] /\ Mine(e)' = Mine(e) /\ Mine(e) # k
  <2>1. CASE Mine(d) = k
    BY <1>1, <2>1 DEF Inv, Exclusive, Others, Mine
  <2>2. CASE outbox[k].status = "pending"
    BY <1>1, <2>2 DEF Inv, RowOK, InHand, Others, Mine
  <2> QED
    BY <2>1, <2>2
<1>2. Types'
  BY DEF Inv, Types, Others
<1>3. PrivacyInv'
  BY DEF Inv, PrivacyInv
<1>4. Exclusive'
  BY <1>0, <1>1, FreeIsNobody DEF Inv, Exclusive
<1>5. ASSUME NEW e \in Drains PROVE Shaped(e)' /\ HandOK(e)' /\ SnapshotOK(e)'
  <2>1. Shaped(e) /\ HandOK(e) /\ SnapshotOK(e)
    BY DEF Inv
  <2>2. SnapshotOK(e)'
    BY <1>1, <2>1 DEF SnapshotOK
  <2>3. CASE e # d
    <3>1. drain'[e] = drain[e] /\ Mine(e)' = Mine(e) /\ Mine(e) # k
      BY <1>1, <2>3
    <3>2. lock' = e <=> lock = e
      BY <2>3, FreeIsNobody
    <3>3. drain[e].at \in Working => /\ accepted'[Mine(e)] = accepted[Mine(e)]
                                     /\ doubts'[Mine(e)] = doubts[Mine(e)]
      BY <2>1, <3>1 DEF Shaped
    <3>4. Shaped(e)'
      BY <2>1, <3>1 DEF Shaped
    <3>5. HandOK(e)'
      BY <2>1, <3>1, <3>2, <3>3 DEF HandOK, Working, At
    <3> QED
      BY <2>2, <3>4, <3>5
  <2> QED
    BY <2>2, <2>3
<1>6. ASSUME NEW r \in Ids PROVE RowOK(r, InHand(r))'
  <2>1. CASE r = k
    <3>1. InHand(k)' = (Mine(d)' = k)
      BY <1>1 DEF InHand
    <3> QED
      BY <2>1, <3>1
  <2>2. CASE r # k
    <3>1. InHand(r)' = InHand(r)
      BY <1>0, <1>1, <2>2, FreeIsNobody DEF InHand
    <3>2. RowOK(r, InHand(r))
      BY DEF Inv
    <3> QED
      BY <2>2, <3>1, <3>2 DEF RowOK, Fresh
  <2> QED
    BY <2>1, <2>2
<1> QED
  BY <1>2, <1>3, <1>4, <1>5, <1>6 DEF Inv

\* The platform's notices and time change one row, which keeps its attempts and handle.
LEMMA NoticeStep ==
  ASSUME Inv, UNCHANGED <<run, heard, counter, connection, lock, drain, accepted, doubts, givenUp>>,
         deliveryUpsets' \in Nat, NEW k \in Ids, NEW row \in Row,
         outbox' = [outbox EXCEPT ![k] = row],
         row.attempts = outbox[k].attempts, row.handle = outbox[k].handle,
         row.status = outbox[k].status \/ (row.handle /\ row.status \in {"sent", "failed"})
  PROVE  Inv'
<1>0. outbox \in [Ids -> Row]
  BY DEF Inv, Types
<1>1. Types' /\ PrivacyInv' /\ Exclusive'
  BY DEF Inv, Types, PrivacyInv, Exclusive, Mine
<1>2. ASSUME NEW d \in Drains PROVE Shaped(d)' /\ HandOK(d)' /\ SnapshotOK(d)'
  BY DEF Inv, Shaped, HandOK, SnapshotOK, Mine, At
<1>3. ASSUME NEW r \in Ids PROVE RowOK(r, InHand(r))'
  <2>1. InHand(r)' = InHand(r)
    BY DEF InHand, Mine
  <2>2. RowOK(r, InHand(r))
    BY DEF Inv
  <2>3. CASE r # k
    BY <1>0, <2>1, <2>2, <2>3 DEF RowOK, Fresh
  <2>4. CASE r = k
    BY <1>0, <2>1, <2>2, <2>4 DEF RowOK, Fresh
  <2> QED
    BY <2>3, <2>4
<1> QED
  BY <1>1, <1>2, <1>3 DEF Inv

-----------------------------------------------------------------------------
(* The run *)

\* The run goes on by itself.
LEMMA RunStep ==
  ASSUME Inv, UNCHANGED <<outbox, heard, counter, connection, lock, drain, deliveryUpsets>>,
         SameHistory, run' \in Run, PrivacyInv', run'.channel = run.channel,
         run.texts \subseteq run'.texts,
         \A t \in run'.private : t \in run.private \/ t \notin run.texts
  PROVE  Inv'
<1>1. /\ heard' \subseteq Texts /\ counter' \in Nat /\ deliveryUpsets' \in Nat
      /\ drain' = [d \in Drains |-> drain'[d]]
  BY DEF Inv, Types
<1> QED
  BY <1>1, QuietStep DEF SameHistory

LEMMA PublishStep == ASSUME Inv, PublishText PROVE Inv'
<1>0. run \in Run /\ PrivacyInv
  BY DEF Inv, Types
<1>1. PICK t \in Texts \ run.texts :
        run' = [run EXCEPT !.texts = @ \union {t},
                           !.private = IF run.ask = "answered" THEN @ \union {t} ELSE @]
  BY DEF PublishText
<1> DEFINE texts == run.texts \union {t}
           private == IF run.ask = "answered" THEN run.private \union {t} ELSE run.private
<1>2. texts \subseteq Texts /\ private \subseteq Texts
  BY <1>0 DEF Run
<1>3. run' = [run EXCEPT !.texts = texts, !.private = private]
  BY <1>0, <1>1 DEF Run
<1> HIDE DEF texts, private
<1>4. /\ run' \in Run /\ run'.texts = texts /\ run'.private = private
      /\ run'.channel = run.channel /\ run'.ask = run.ask
  BY <1>0, <1>2, <1>3 DEF Run
<1>5. heard' = heard
  BY DEF PublishText
<1>6. PrivacyInv'
  BY <1>0, <1>1, <1>4, <1>5 DEF PrivacyInv, texts, private
<1>7. run.texts \subseteq run'.texts /\ \A j \in run'.private : j \in run.private \/ j \notin run.texts
  BY <1>4 DEF texts, private
<1> QED
  BY <1>4, <1>6, <1>7, RunStep DEF PublishText

LEMMA AskStep == ASSUME Inv, AskUser PROVE Inv'
<1>0. run \in Run /\ PrivacyInv
  BY DEF Inv, Types
<1>1. run' = [run EXCEPT !.status = "waiting", !.ask = "open"] /\ run.ask = "none"
  BY DEF AskUser
<1>2. /\ run' \in Run /\ run'.texts = run.texts /\ run'.private = run.private
      /\ run'.channel = run.channel
  BY <1>0, <1>1 DEF Run
<1>3. PrivacyInv'
  BY <1>0, <1>1, <1>2 DEF PrivacyInv, AskUser
<1> QED
  BY <1>2, <1>3, RunStep DEF AskUser

LEMMA AnswerStep == ASSUME Inv, AnswerAsk PROVE Inv'
<1>0. run \in Run /\ PrivacyInv
  BY DEF Inv, Types
<1>1. run' = [run EXCEPT !.status = "running", !.ask = "answered", !.job = TRUE]
  BY DEF AnswerAsk
<1>2. /\ run' \in Run /\ run'.texts = run.texts /\ run'.private = run.private
      /\ run'.channel = run.channel /\ run'.ask = "answered"
  BY <1>0, <1>1 DEF Run
<1>3. PrivacyInv'
  BY <1>0, <1>2 DEF PrivacyInv, AnswerAsk
<1> QED
  BY <1>2, <1>3, RunStep DEF AnswerAsk

LEMMA CompleteStep == ASSUME Inv, CompleteRun PROVE Inv'
<1>0. run \in Run /\ PrivacyInv
  BY DEF Inv, Types
<1>1. run' = [run EXCEPT !.status = "completed"]
  BY DEF CompleteRun
<1>2. /\ run' \in Run /\ run'.texts = run.texts /\ run'.private = run.private
      /\ run'.channel = run.channel /\ run'.ask = run.ask
  BY <1>0, <1>1 DEF Run
<1>3. PrivacyInv'
  BY <1>0, <1>2 DEF PrivacyInv, CompleteRun
<1> QED
  BY <1>2, <1>3, RunStep DEF CompleteRun

-----------------------------------------------------------------------------
(* The mirror *)

\* A call that works on no row moves; beside it at most its job or what is heard changes.
LEMMA CallStep ==
  ASSUME Inv, NEW d \in Drains, Others(d), drain'[d] \in DrainShape,
         drain'[d].at \notin Working, Mine(d) = Free, Mine(d)' = Free,
         UNCHANGED <<outbox, counter, connection, lock>>, SameHistory,
         deliveryUpsets' \in Nat, run' \in Run, run'.texts = run.texts, run'.ask = run.ask,
         run'.private = run.private, run'.channel = run.channel,
         heard' = heard \/ heard' \subseteq heard \union drain[d].snapshot,
         drain'[d].snapshot \in {drain[d].snapshot, {}, Published}
  PROVE  Inv'
<1>0. Types /\ PrivacyInv /\ SnapshotOK(d)
  BY DEF Inv
<1>1. SnapshotOK(d)'
  <2>1. CASE drain'[d].snapshot = Published
    BY <1>0, <2>1 DEF Published, PrivacyInv, SnapshotOK
  <2>2. CASE drain'[d].snapshot \in {drain[d].snapshot, {}}
    BY <1>0, <2>2 DEF SnapshotOK
  <2> QED
    BY <2>1, <2>2
<1>2. PrivacyInv'
  BY <1>0 DEF PrivacyInv, SnapshotOK
<1>3. /\ heard' \subseteq Texts /\ counter' \in Nat
      /\ \A e \in Drains : e # d => drain'[e] = drain[e]
  BY <1>0, <1>2 DEF Types, PrivacyInv, Others, Run
<1> QED
  BY <1>1, <1>2, <1>3, QuietStep DEF SameHistory, Others

LEMMA GoToStep ==
  ASSUME Inv, NEW d \in Drains, NEW place \in Places \ Working, GoTo(d, place), Mine(d) = Free,
         UNCHANGED <<outbox, counter, connection, lock, deliveryUpsets>>, SameHistory,
         run' \in Run, run'.texts = run.texts, run'.ask = run.ask,
         run'.private = run.private, run'.channel = run.channel, heard' = heard
  PROVE  Inv'
<1>0. Types /\ Shaped(d)
  BY DEF Inv
<1>1. /\ Others(d) /\ drain'[d] \in DrainShape /\ drain'[d].at = place
      /\ Mine(d)' = Mine(d) /\ drain'[d].snapshot = drain[d].snapshot
  BY <1>0, GoToDrain
<1> QED
  BY <1>0, <1>1, CallStep DEF Types

LEMMA StartMirrorStep == ASSUME Inv, NEW d \in Drains, StartMirror(d) PROVE Inv'
<1>0. run \in Run /\ Mine(d) = Free
  BY DEF Inv, Types, Shaped, StartMirror, At, Working
<1>1. "mirror" \in Places \ Working
  BY DEF Places, Working
<1> QED
  BY <1>0, <1>1, GoToStep DEF StartMirror

LEMMA StartDrainStep == ASSUME Inv, NEW d \in Drains, StartDrain(d) PROVE Inv'
<1>0. run \in Run /\ Mine(d) = Free
  BY DEF Inv, Types, Shaped, StartDrain, At, Working
<1>1. "read" \in Places \ Working
  BY DEF Places, Working
<1> QED
  BY <1>0, <1>1, GoToStep DEF StartDrain

LEMMA MirrorReadStep == ASSUME Inv, NEW d \in Drains, MirrorRead(d) PROVE Inv'
<1>0. Types /\ Mine(d) = Free /\ drain[d] \in DrainShape /\ run \in Run
  BY DEF Inv, Types, Shaped, MirrorRead, At, Working
<1> DEFINE texts == Published
           final == run.status = "completed"
           q == [drain[d] EXCEPT !.at = "write", !.snapshot = texts, !.final = final]
<1>1. texts \subseteq Texts /\ final \in BOOLEAN
  BY <1>0 DEF Published, Run
<1>2. drain' = [drain EXCEPT ![d] = q]
  BY <1>0 DEF MirrorRead, Types, DrainShape
<1> HIDE DEF texts, final
<1>3. q \in DrainShape /\ q.at = "write" /\ q.snapshot = texts /\ q.row = drain[d].row
  BY <1>0, <1>1 DEF DrainShape, Places
<1> HIDE DEF q
<1>4. Others(d) /\ drain'[d] = q
  BY <1>0, <1>2 DEF Types, Others
<1>5. Mine(d)' = Free /\ drain'[d].snapshot = Published /\ drain'[d].at \notin Working
  BY <1>0, <1>3, <1>4 DEF Mine, texts, Working
<1>6. deliveryUpsets' \in Nat /\ run' = run /\ heard' = heard
  BY <1>0 DEF MirrorRead, Types
<1>7. UNCHANGED <<outbox, counter, connection, lock>> /\ SameHistory
  BY DEF MirrorRead
<1> QED
  BY <1>0, <1>3, <1>4, <1>5, <1>6, <1>7, CallStep

LEMMA MirrorPeersStep == ASSUME Inv, NEW d \in Drains, MirrorPeers(d) PROVE Inv'
<1>0. Types /\ Shaped(d) /\ Mine(d) = Free /\ run \in Run /\ deliveryUpsets \in Nat
      /\ drain[d].at = "peers"
  BY DEF Inv, Types, Shaped, MirrorPeers, At, Working
<1>1. /\ UNCHANGED <<outbox, counter, connection, lock, run, deliveryUpsets>> /\ SameHistory
  BY DEF MirrorPeers
<1>2. CASE heard' = heard /\ GoTo(d, "mark")
  <2>1. "mark" \in Places \ Working
    BY DEF Places, Working
  <2> QED
    BY <1>0, <1>1, <1>2, <2>1, GoToStep
<1>3. CASE UNCHANGED drain /\ \E t \in drain[d].snapshot \ heard : heard' = heard \union {t}
  <2>1. /\ Others(d) /\ drain'[d] = drain[d] /\ Mine(d)' = Mine(d)
        /\ drain[d] \in DrainShape /\ drain[d].at \notin Working
    BY <1>0, <1>3 DEF Types, Others, Mine, Shaped, Working
  <2>2. heard' \subseteq heard \union drain[d].snapshot
    BY <1>3
  <2> QED
    BY <1>0, <1>1, <2>1, <2>2, CallStep
<1> QED
  BY <1>2, <1>3 DEF MirrorPeers

LEMMA MarkStep == ASSUME Inv, NEW d \in Drains, MarkMirrored(d) PROVE Inv'
<1>0. run \in Run /\ drain[d] \in DrainShape /\ Mine(d) = Free
  BY DEF Inv, Types, Shaped, MarkMirrored, At, Working
<1> DEFINE job == JobAfter(d)
<1>1. run' = [run EXCEPT !.mirrored = TRUE, !.job = job] /\ job \in BOOLEAN
  BY <1>0 DEF MarkMirrored, JobAfter, Run
<1> HIDE DEF job
<1>2. /\ run' \in Run /\ run'.texts = run.texts /\ run'.private = run.private
      /\ run'.channel = run.channel /\ run'.ask = run.ask
  BY <1>0, <1>1 DEF Run
<1>3. "read" \in Places \ Working
  BY DEF Places, Working
<1>4. /\ GoTo(d, "read") /\ heard' = heard
      /\ UNCHANGED <<outbox, counter, connection, lock, deliveryUpsets>> /\ SameHistory
  BY DEF MarkMirrored
<1> QED
  BY <1>0, <1>2, <1>3, <1>4, GoToStep

\* Rows are made, removed, or change with the connection.
LEMMA OutboxStep ==
  ASSUME Inv, UNCHANGED <<run, heard, counter, lock, deliveryUpsets>>, SameHistory,
         outbox' \in [Ids -> Row], connection' \in Connection,
         connection' = connection \/ lock = Free,
         drain' = [d \in Drains |-> drain'[d]],
         \A d \in Drains : \/ drain'[d] = drain[d]
                           \/ /\ drain'[d] \in DrainShape /\ drain'[d].at \notin Working
                              /\ Mine(d) = Free /\ Mine(d)' = Free
                              /\ drain'[d].snapshot = drain[d].snapshot,
         \A r \in Ids : RowOK(r, InHand(r)) /\ InHand(r)' = InHand(r) => RowOK(r, InHand(r))'
  PROVE  Inv'
<1>1. Types' /\ PrivacyInv'
  BY DEF Inv, Types, PrivacyInv, SameHistory
<1>2. \A d \in Drains : Mine(d)' = Mine(d)
  BY DEF Mine
<1>3. Exclusive'
  BY <1>2 DEF Inv, Exclusive
<1>4. ASSUME NEW d \in Drains PROVE Shaped(d)' /\ HandOK(d)' /\ SnapshotOK(d)'
  <2>1. Shaped(d) /\ HandOK(d) /\ SnapshotOK(d)
    BY DEF Inv
  <2>2. SnapshotOK(d)'
    BY <2>1 DEF SnapshotOK
  <2>3. CASE drain'[d] = drain[d]
    <3>1. connection' = connection \/ lock # d
      BY FreeIsNobody
    <3>2. HandOK(d)'
      BY <1>2, <2>1, <2>3, <3>1 DEF HandOK, At, SameHistory
    <3>3. Shaped(d)'
      BY <1>2, <2>1, <2>3 DEF Shaped
    <3> QED
      BY <2>2, <3>2, <3>3
  <2>4. CASE drain'[d].at \notin Working /\ drain'[d] \in DrainShape /\ Mine(d)' = Free
    <3>1. Mine(d) = Free
      BY <1>2, <2>4
    <3>2. ~IsInvite(Free)
      BY FreeIsNobody DEF IsInvite, Ids
    <3>3. lock # d
      BY <2>1, <3>1, <3>2 DEF HandOK
    <3> QED
      BY <2>2, <2>4, <3>2, <3>3 DEF Shaped, HandOK, Working, At
  <2> QED
    BY <2>2, <2>3, <2>4
<1>5. ASSUME NEW r \in Ids PROVE RowOK(r, InHand(r))'
  <2>1. InHand(r)' = InHand(r)
    BY <1>2 DEF InHand
  <2> QED
    BY <2>1 DEF Inv
<1> QED
  BY <1>1, <1>3, <1>4, <1>5 DEF Inv

\* A text gets its row; nobody had one in hand.
LEMMA MirrorWriteStep == ASSUME Inv, NEW d \in Drains, MirrorWrite(d) PROVE Inv'
<1>0. /\ Types /\ Shaped(d) /\ SnapshotOK(d) /\ Mine(d) = Free
      /\ drain[d].snapshot \subseteq Texts /\ outbox \in [Ids -> Row]
  BY DEF Inv, Types, Shaped, DrainShape, MirrorWrite, At, Working
<1> DEFINE place == IF run.channel THEN "peers" ELSE "mark"
<1>1. /\ UNCHANGED <<run, heard, counter, lock, deliveryUpsets, connection>> /\ SameHistory
      /\ GoTo(d, place)
  BY DEF MirrorWrite
<1>2. place \in Places /\ place \notin Working
  BY DEF Places, Working
<1> HIDE DEF place
<1>3. /\ Others(d) /\ drain'[d] \in DrainShape /\ drain'[d].at \notin Working
      /\ Mine(d)' = Free /\ drain'[d].snapshot = drain[d].snapshot
  BY <1>0, <1>1, <1>2, GoToDrain
<1>4. NewRow \in Row /\ NewRow.status = "pending" /\ NewRow.attempts = 0 /\ NewRow.handle = FALSE
  <2>1. /\ NoRow \in Row /\ NoRow.attempts = 0 /\ NoRow.handle = FALSE
    BY DeliveryBounds DEF NoRow, Row, Status
  <2> QED
    BY <2>1 DEF NewRow, Row, Status
<1>5. \A r \in Ids : outbox'[r] = IF r \in drain[d].snapshot /\ outbox[r].status = "none"
                                    THEN NewRow ELSE outbox[r]
  BY DEF MirrorWrite
<1>6. outbox' \in [Ids -> Row]
  BY <1>0, <1>4 DEF MirrorWrite
<1>7. ASSUME NEW r \in Ids, RowOK(r, InHand(r)), InHand(r)' = InHand(r)
      PROVE  RowOK(r, InHand(r))'
  <2>1. CASE outbox'[r] = outbox[r]
    BY <1>1, <1>7, <2>1 DEF RowOK, Fresh, SameHistory
  <2>2. CASE r \in drain[d].snapshot /\ outbox[r].status = "none" /\ outbox'[r] = NewRow
    <3>1. r \in Texts /\ r \notin Cycles /\ Fresh(r)
      BY <1>0, <2>2, TextsAreNoCycles DEF Cycles, Fresh
    <3>2. accepted[r] <= doubts[r] /\ ~InHand(r) /\ accepted[r] <= 1 + doubts[r]
      BY <1>7, <3>1 DEF RowOK
    <3>3. r \in run.texts /\ ~(run.channel /\ r \in run.private)
      BY <1>0, <2>2 DEF SnapshotOK
    <3> QED
      BY <1>1, <1>4, <1>7, <2>2, <3>1, <3>2, <3>3, DeliveryBounds DEF RowOK, Fresh, SameHistory
  <2> QED
    BY <1>5, <2>1, <2>2
<1>8. connection' \in Connection /\ drain' = [e \in Drains |-> drain'[e]]
  BY <1>0, <1>1, <1>3 DEF Types, Others
<1>9. \A e \in Drains : \/ drain'[e] = drain[e]
                        \/ /\ drain'[e] \in DrainShape /\ drain'[e].at \notin Working
                           /\ Mine(e) = Free /\ Mine(e)' = Free
                           /\ drain'[e].snapshot = drain[e].snapshot
  BY <1>0, <1>3 DEF Others
<1> QED
  BY <1>1, <1>6, <1>7, <1>8, <1>9, OutboxStep

-----------------------------------------------------------------------------
(* drain *)

LEMMA DrainReadStep == ASSUME Inv, NEW d \in Drains, DrainRead(d) PROVE Inv'
<1>0. /\ Types /\ Shaped(d) /\ Mine(d) = Free /\ run \in Run /\ deliveryUpsets \in Nat
      /\ outbox \in [Ids -> Row]
  BY DEF Inv, Types, Shaped, DrainRead, At, Working
<1>1. /\ UNCHANGED <<outbox, run, heard, counter, connection, lock, deliveryUpsets>> /\ SameHistory
  BY DEF DrainRead
<1> DEFINE tries == [r \in Ids |-> IF r \in DueRows THEN outbox[r].attempts ELSE 0]
           q == [IdleDrain EXCEPT !.at = "claim", !.todo = DueRows, !.attempts = tries]
<1>2. tries \in [Ids -> 0..(MaxAttempts - 1)] /\ DueRows \subseteq Ids
  <2>1. \A r \in DueRows : outbox[r].attempts \in 0..MaxAttempts /\ outbox[r].attempts < MaxAttempts
    BY <1>0 DEF Inv, RowOK, DueRows, Row
  <2> QED
    BY <2>1, DeliveryBounds DEF DueRows
<1>3. drain' = [drain EXCEPT ![d] = IF DueRows = {} THEN IdleDrain ELSE q]
  BY DEF DrainRead
<1> HIDE DEF tries
<1>4. q \in DrainShape /\ q.at = "claim" /\ q.snapshot = {} /\ q.row = Free
  BY <1>2, IdleShape DEF DrainShape, Places
<1> HIDE DEF q
<1>5. /\ Others(d) /\ drain'[d] \in DrainShape /\ drain'[d].at \notin Working
      /\ drain'[d].snapshot = {} /\ Mine(d)' = Free
  BY <1>0, <1>3, <1>4, IdleShape DEF Types, Others, Working, Mine
<1> QED
  BY <1>0, <1>1, <1>5, CallStep

LEMMA ClaimStep == ASSUME Inv, NEW d \in Drains, DrainClaim(d) PROVE Inv'
<1>0. /\ Types /\ Shaped(d) /\ HandOK(d) /\ Mine(d) = Free /\ drain[d].at = "claim"
      /\ drain[d] \in DrainShape /\ outbox \in [Ids -> Row] /\ run \in Run
      /\ deliveryUpsets \in Nat /\ counter \in Nat
  BY DEF Inv, Types, Shaped, DrainClaim, At, Working
<1>1. UNCHANGED <<run, heard, counter, connection, lock, deliveryUpsets>> /\ SameHistory
  BY DEF DrainClaim
<1>2. ASSUME NEW k \in drain[d].todo, Claimable(k),
             outbox' = [outbox EXCEPT ![k].status = "sent", ![k].later = FALSE],
             drain' = [drain EXCEPT ![d].at = "prepare", ![d].row = k, ![d].todo = @ \ {k}]
      PROVE  Inv'
  <2>0. k \in Ids /\ outbox[k] \in Row /\ outbox[k].status = "pending" /\ RowOK(k, InHand(k))
    BY <1>0, <1>2 DEF DrainShape, Claimable, Inv
  <2> DEFINE row == [outbox[k] EXCEPT !.status = "sent", !.later = FALSE]
             rest == drain[d].todo \ {k}
             q == [drain[d] EXCEPT !.at = "prepare", !.row = k, !.todo = rest]
  <2>1. /\ row \in Row /\ row.status = "sent" /\ row.attempts = outbox[k].attempts
        /\ row.handle = outbox[k].handle
    BY <2>0 DEF Row, Status
  <2>2. outbox' = [outbox EXCEPT ![k] = row]
    BY <1>0, <1>2, <2>0 DEF Row
  <2> HIDE DEF row
  <2>3. /\ outbox' \in [Ids -> Row] /\ outbox'[k] = row
        /\ \A j \in Ids \ {k} : outbox'[j] = outbox[j]
    BY <1>0, <2>0, <2>1, <2>2
  <2>4. rest \subseteq Ids
    BY <1>0 DEF DrainShape
  <2>5. drain' = [drain EXCEPT ![d] = q]
    BY <1>0, <1>2 DEF Types, DrainShape
  <2> HIDE DEF rest
  <2>6. q \in DrainShape /\ q.at = "prepare" /\ q.row = k /\ q.snapshot = drain[d].snapshot
    BY <1>0, <2>0, <2>4 DEF DrainShape, Places
  <2> HIDE DEF q
  <2>7. Others(d) /\ drain'[d] = q /\ Mine(d)' = k
    BY <1>0, <2>5, <2>6 DEF Types, Others, Mine
  <2>8. Shaped(d)'
    BY <2>0, <2>6, <2>7 DEF Shaped, Working
  <2>9. accepted' = accepted /\ doubts' = doubts /\ givenUp' = givenUp
    BY <1>1 DEF SameHistory
  <2>10. accepted[k] <= doubts[k]
    BY <2>0 DEF RowOK
  <2>11. HandOK(d)'
    BY <1>0, <1>1, <2>6, <2>7, <2>9, <2>10 DEF HandOK, At
  <2>12. RowOK(k, Mine(d) = k)'
    BY <1>1, <2>0, <2>1, <2>3, <2>7, <2>9 DEF RowOK, Fresh
  <2>13. accepted' \in [Ids -> Nat] /\ doubts' \in [Ids -> Nat] /\ givenUp' \subseteq Ids
    BY <1>0, <2>9 DEF Types
  <2> QED
    BY <1>0, <1>1, <2>0, <2>3, <2>6, <2>7, <2>8, <2>9, <2>11, <2>12, <2>13, WorkStep
<1>3. ASSUME NEW r \in drain[d].todo, UNCHANGED outbox,
             drain' = [drain EXCEPT ![d].todo = @ \ {r}, ![d].attempts[r] = 0]
      PROVE  Inv'
  <2> DEFINE rest == drain[d].todo \ {r}
             tries == [drain[d].attempts EXCEPT ![r] = 0]
             q == [drain[d] EXCEPT !.todo = rest, !.attempts = tries]
  <2>1. rest \subseteq Ids /\ tries \in [Ids -> 0..(MaxAttempts - 1)]
    BY <1>0, DeliveryBounds DEF DrainShape
  <2>2. drain' = [drain EXCEPT ![d] = q]
    BY <1>0, <1>3 DEF Types, DrainShape
  <2> HIDE DEF rest, tries
  <2>3. /\ q \in DrainShape /\ q.at = "claim" /\ q.row = drain[d].row
        /\ q.snapshot = drain[d].snapshot
    BY <1>0, <2>1 DEF DrainShape
  <2> HIDE DEF q
  <2>4. /\ Others(d) /\ drain'[d] \in DrainShape /\ drain'[d].at \notin Working
        /\ Mine(d)' = Free /\ drain'[d].snapshot = drain[d].snapshot
    BY <1>0, <2>2, <2>3 DEF Types, Others, Mine, Working
  <2> QED
    BY <1>0, <1>1, <1>3, <2>4, CallStep
<1>4. ASSUME UNCHANGED outbox, drain' = [drain EXCEPT ![d] = IdleDrain] PROVE Inv'
  <2>1. /\ Others(d) /\ drain'[d] \in DrainShape /\ drain'[d].at \notin Working
        /\ Mine(d)' = Free /\ drain'[d].snapshot = {}
    BY <1>0, <1>4, ExitDrain DEF Working
  <2> QED
    BY <1>0, <1>1, <1>4, <2>1, CallStep
<1> QED
  BY <1>2, <1>3, <1>4 DEF DrainClaim

\* What is known of a row in hand.
LEMMA RowInHand ==
  ASSUME Inv, NEW d \in Drains, drain[d].at \in Working
  PROVE  /\ Types /\ Shaped(d) /\ HandOK(d) /\ Mine(d) \in Ids /\ RowOK(Mine(d), TRUE)
         /\ outbox[Mine(d)] \in Row /\ accepted[Mine(d)] \in Nat /\ doubts[Mine(d)] \in Nat
         /\ outbox[Mine(d)].status # "pending" /\ ~Fresh(Mine(d))
<1>1. Types /\ Shaped(d) /\ HandOK(d) /\ Mine(d) \in Ids
  BY DEF Inv, Shaped
<1>2. InHand(Mine(d)) /\ RowOK(Mine(d), InHand(Mine(d)))
  BY <1>1 DEF Inv, InHand
<1>3. RowOK(Mine(d), TRUE)
  BY <1>2 DEF RowOK
<1> QED
  BY <1>1, <1>3 DEF RowOK, Types

\* What an action may do to the row in hand, to its counts and to the lock.
Touches(d, row, a, b) ==
  /\ row \in Row /\ outbox' = [outbox EXCEPT ![Mine(d)] = row]
  /\ a \in Nat /\ accepted' = [accepted EXCEPT ![Mine(d)] = a]
  /\ b \in Nat /\ doubts' = [doubts EXCEPT ![Mine(d)] = b]
  /\ givenUp \subseteq givenUp' /\ givenUp' \subseteq Ids
  /\ lock' = lock \/ (lock = d /\ lock' = Free)
  /\ counter' \in Nat /\ deliveryUpsets' \in Nat
  /\ UNCHANGED <<run, heard, connection>>

LEMMA TouchesOne ==
  ASSUME Inv, NEW d \in Drains, drain[d].at \in Working, NEW row, NEW a, NEW b, Touches(d, row, a, b),
         NEW k, k = Mine(d)
  PROVE  /\ outbox' \in [Ids -> Row] /\ accepted' \in [Ids -> Nat] /\ doubts' \in [Ids -> Nat]
         /\ outbox'[k] = row /\ accepted'[k] = a /\ doubts'[k] = b
         /\ \A j \in Ids \ {k} : /\ outbox'[j] = outbox[j] /\ accepted'[j] = accepted[j]
                                 /\ doubts'[j] = doubts[j]
<1>1. k \in Ids /\ Types
  BY RowInHand
<1> QED
  BY <1>1 DEF Touches, Types

\* The call goes on with its row.
LEMMA StayStep ==
  ASSUME Inv, NEW d \in Drains, drain[d].at \in Working, NEW k, k = Mine(d),
         NEW place \in Working, GoTo(d, place), NEW row, NEW a, NEW b, Touches(d, row, a, b),
         RowOK(k, TRUE)', HandOK(d)'
  PROVE  Inv'
<1>1. Types /\ Shaped(d) /\ k \in Ids
  BY RowInHand
<1>2. /\ Others(d) /\ drain'[d] \in DrainShape /\ drain'[d].at = place
      /\ Mine(d)' = k /\ drain'[d].snapshot = drain[d].snapshot
  <2>1. place \in Places
    BY DEF Places, Working
  <2> QED
    BY <1>1, <2>1, GoToDrain
<1>3. Shaped(d)'
  BY <1>1, <1>2 DEF Shaped
<1>4. RowOK(k, Mine(d) = k)'
  BY <1>2 DEF RowOK
<1>5. /\ outbox' \in [Ids -> Row] /\ accepted' \in [Ids -> Nat] /\ doubts' \in [Ids -> Nat]
      /\ \A j \in Ids \ {k} : /\ outbox'[j] = outbox[j] /\ accepted'[j] = accepted[j]
                              /\ doubts'[j] = doubts[j]
  BY TouchesOne
<1> QED
  BY <1>1, <1>2, <1>3, <1>4, <1>5, WorkStep DEF Touches

\* The call is done with its row.
LEMMA DoneStep ==
  ASSUME Inv, NEW d \in Drains, drain[d].at \in Working, NEW k, k = Mine(d),
         NextRow(d), NEW row, NEW a, NEW b, Touches(d, row, a, b),
         RowOK(k, FALSE)', lock' # d
  PROVE  Inv'
<1>1. Types /\ Shaped(d) /\ k \in Ids /\ k # Free
  BY RowInHand, FreeIsNobody
<1>2. /\ Others(d) /\ drain'[d] \in DrainShape /\ drain'[d].at = "claim"
      /\ Mine(d)' = Free /\ drain'[d].snapshot = drain[d].snapshot
  BY <1>1, NextDrain
<1>3. Shaped(d)' /\ HandOK(d)'
  BY <1>2 DEF Shaped, HandOK, Working, At
<1>4. RowOK(k, Mine(d) = k)'
  BY <1>1, <1>2 DEF RowOK
<1>5. /\ outbox' \in [Ids -> Row] /\ accepted' \in [Ids -> Nat] /\ doubts' \in [Ids -> Nat]
      /\ \A j \in Ids \ {k} : /\ outbox'[j] = outbox[j] /\ accepted'[j] = accepted[j]
                              /\ doubts'[j] = doubts[j]
  BY TouchesOne
<1> QED
  BY <1>1, <1>2, <1>3, <1>4, <1>5, WorkStep DEF Touches

\* A function updated with the value it has.
LEMMA SameValue ==
  ASSUME NEW S, NEW T, NEW f \in [S -> T], NEW k \in S
  PROVE  f = [f EXCEPT ![k] = f[k]]
  OBVIOUS

LEMMA SameCounts ==
  ASSUME Types, NEW k \in Ids
  PROVE  /\ outbox = [outbox EXCEPT ![k] = outbox[k]]
         /\ accepted = [accepted EXCEPT ![k] = accepted[k]]
         /\ doubts = [doubts EXCEPT ![k] = doubts[k]]
  BY SameValue DEF Types

LEMMA FaultCounts ==
  ASSUME Types, NEW kind, DeliveryFault(kind)
  PROVE  deliveryUpsets' \in Nat
  BY DEF Types, DeliveryFault

LEMMA PrepareStep == ASSUME Inv, NEW d \in Drains, DrainPrepare(d) PROVE Inv'
<1>0. drain[d].at = "prepare" /\ drain[d].at \in Working
  BY DEF DrainPrepare, At, Working
<1>1. PICK k \in Ids : k = Mine(d)
  BY <1>0, RowInHand
<1>2. /\ Types /\ Shaped(d) /\ HandOK(d) /\ RowOK(k, TRUE) /\ outbox[k] \in Row
      /\ accepted[k] \in Nat /\ doubts[k] \in Nat /\ ~Fresh(k) /\ outbox[k].status # "pending"
  BY <1>0, <1>1, RowInHand
<1>3. UNCHANGED <<run, heard, counter, connection, lock, deliveryUpsets>> /\ SameHistory
  BY DEF DrainPrepare
<1>4. lock # d /\ accepted[k] <= doubts[k]
  BY <1>0, <1>1, <1>2 DEF HandOK
<1>5. CASE Capped(k) /\ outbox' = HeldBack(k) /\ NextRow(d)
  <2> DEFINE row == IF outbox[k].status = "none" THEN outbox[k]
                    ELSE [outbox[k] EXCEPT !.status = "pending"]
  <2>1. /\ row \in Row /\ row.status = IF outbox[k].status = "none" THEN "none" ELSE "pending"
        /\ row.attempts = outbox[k].attempts /\ row.handle = outbox[k].handle
    BY <1>2 DEF Row, Status
  <2>2. outbox' = [outbox EXCEPT ![k] = row]
    BY <1>1, <1>2, <1>5, SameCounts DEF HeldBack, Row
  <2> HIDE DEF row
  <2>3. Touches(d, row, accepted[k], doubts[k])
    BY <1>1, <1>2, <1>3, <2>1, <2>2, SameCounts DEF Touches, SameHistory, Types
  <2>4. outbox'[k] = row /\ accepted' = accepted /\ doubts' = doubts /\ givenUp' = givenUp
    BY <1>1, <1>2, <1>3, <2>2 DEF SameHistory, Types
  <2>5. RowOK(k, FALSE)'
    BY <1>1, <1>2, <1>3, <1>4, <2>1, <2>4 DEF RowOK, Fresh
  <2> QED
    BY <1>0, <1>1, <1>3, <1>4, <1>5, <2>3, <2>5, DoneStep
<1>6. CASE /\ ~Capped(k) /\ GoTo(d, IF IsInvite(k) THEN "lock" ELSE "send")
           /\ UNCHANGED outbox
  <2> DEFINE place == IF IsInvite(k) THEN "lock" ELSE "send"
  <2>1. place \in Working /\ place \in Places
    BY DEF Working, Places
  <2>2. GoTo(d, place)
    BY <1>6
  <2>3. (place = "lock" => IsInvite(k)) /\ (place = "send" => ~IsInvite(k)) /\ place \in {"lock", "send"}
    OBVIOUS
  <2> HIDE DEF place
  <2>4. drain'[d].at = place /\ Mine(d)' = k
    BY <1>1, <1>2, <2>1, <2>2, GoToDrain
  <2>5. accepted' = accepted /\ doubts' = doubts /\ givenUp' = givenUp /\ outbox' = outbox
    BY <1>3, <1>6 DEF SameHistory
  <2>6. HandOK(d)'
    BY <1>1, <1>3, <1>4, <2>3, <2>4, <2>5 DEF HandOK, At, IsInvite, Cycles
  <2>7. Touches(d, outbox[k], accepted[k], doubts[k])
    BY <1>1, <1>2, <1>3, <2>5, SameCounts DEF Touches, Types
  <2>8. RowOK(k, TRUE)'
    BY <1>1, <1>2, <1>3, <2>5 DEF RowOK, Fresh
  <2> QED
    BY <1>0, <1>1, <2>1, <2>2, <2>6, <2>7, <2>8, StayStep
<1> QED
  BY <1>1, <1>5, <1>6 DEF DrainPrepare

LEMMA InviteLockStep == ASSUME Inv, NEW d \in Drains, InviteLock(d) PROVE Inv'
<1>0. drain[d].at = "lock" /\ drain[d].at \in Working
  BY DEF InviteLock, At, Working
<1>1. PICK k \in Ids : k = Mine(d)
  BY <1>0, RowInHand
<1>2. /\ Types /\ Shaped(d) /\ HandOK(d) /\ RowOK(k, TRUE) /\ outbox[k] \in Row
      /\ accepted[k] \in Nat /\ doubts[k] \in Nat /\ ~Fresh(k) /\ outbox[k].status # "pending"
  BY <1>0, <1>1, RowInHand
<1>3. UNCHANGED <<run, heard, counter, connection, deliveryUpsets>> /\ SameHistory
  BY DEF InviteLock
<1>4. /\ lock = Free /\ lock # d /\ accepted[k] <= doubts[k] /\ IsInvite(k)
      /\ accepted' = accepted /\ doubts' = doubts /\ givenUp' = givenUp
  BY <1>0, <1>1, <1>2, <1>3, FreeIsNobody DEF HandOK, InviteLock, At, SameHistory
<1>5. CASE /\ outbox' = [outbox EXCEPT ![k].status = IF @ = "none" THEN @ ELSE "failed"]
           /\ NextRow(d) /\ UNCHANGED lock
  <2> DEFINE status == IF outbox[k].status = "none" THEN "none" ELSE "failed"
             row == [outbox[k] EXCEPT !.status = status]
  <2>1. /\ row \in Row /\ row.status = status
        /\ row.attempts = outbox[k].attempts /\ row.handle = outbox[k].handle
    BY <1>2 DEF Row, Status
  <2>2. outbox' = [outbox EXCEPT ![k] = row]
    BY <1>2, <1>5 DEF Row
  <2> HIDE DEF row
  <2>3. Touches(d, row, accepted[k], doubts[k])
    BY <1>1, <1>2, <1>3, <1>4, <1>5, <2>1, <2>2, SameCounts DEF Touches, Types
  <2>4. outbox'[k] = row
    BY <1>2, <2>2 DEF Types
  <2>5. RowOK(k, FALSE)'
    BY <1>1, <1>2, <1>3, <1>4, <2>1, <2>4 DEF RowOK, Fresh
  <2> QED
    BY <1>0, <1>1, <1>4, <1>5, <2>3, <2>5, DoneStep
<1>6. CASE outbox[k].status = "none" /\ NextRow(d) /\ UNCHANGED <<outbox, lock>>
  <2>1. Touches(d, outbox[k], accepted[k], doubts[k])
    BY <1>1, <1>2, <1>3, <1>4, <1>6, SameCounts DEF Touches, Types
  <2>2. RowOK(k, FALSE)'
    BY <1>1, <1>2, <1>3, <1>4, <1>6 DEF RowOK, Fresh
  <2> QED
    BY <1>0, <1>1, <1>4, <1>6, <2>1, <2>2, DoneStep
<1>7. CASE /\ connection.status = "pending" /\ outbox[k].status # "none"
           /\ lock' = d /\ GoTo(d, "send") /\ UNCHANGED outbox
  <2>1. "send" \in Places /\ "send" \in Working
    BY DEF Places, Working
  <2>2. /\ Others(d) /\ drain'[d] \in DrainShape /\ drain'[d].at = "send" /\ Mine(d)' = k
        /\ drain'[d].snapshot = drain[d].snapshot
    BY <1>1, <1>2, <1>7, <2>1, GoToDrain
  <2>3. k = connection.cycle
    BY <1>2, <1>4, <1>7 DEF RowOK, IsInvite
  <2>4. HandOK(d)'
    BY <1>3, <1>4, <1>7, <2>2, <2>3 DEF HandOK, At, IsInvite, Cycles
  <2>5. RowOK(k, Mine(d) = k)'
    BY <1>2, <1>3, <1>4, <1>7, <2>2 DEF RowOK, Fresh
  <2>6. Shaped(d)'
    BY <1>1, <2>1, <2>2 DEF Shaped
  <2>7. /\ outbox' \in [Ids -> Row] /\ accepted' \in [Ids -> Nat] /\ doubts' \in [Ids -> Nat]
        /\ counter' \in Nat /\ deliveryUpsets' \in Nat /\ givenUp' \subseteq Ids
    BY <1>2, <1>3, <1>4, <1>7 DEF Types
  <2> QED
    BY <1>1, <1>3, <1>4, <1>7, <2>2, <2>4, <2>5, <2>6, <2>7, WorkStep
<1> QED
  BY <1>1, <1>5, <1>6, <1>7 DEF InviteLock

LEMMA SendStep == ASSUME Inv, NEW d \in Drains, SendRow(d) PROVE Inv'
<1>0. drain[d].at = "send" /\ drain[d].at \in Working
  BY DEF SendRow, At, Working
<1>1. PICK k \in Ids : k = Mine(d)
  BY <1>0, RowInHand
<1>2. /\ Types /\ Shaped(d) /\ HandOK(d) /\ RowOK(k, TRUE) /\ outbox[k] \in Row
      /\ accepted[k] \in Nat /\ doubts[k] \in Nat /\ ~Fresh(k) /\ outbox[k].status # "pending"
  BY <1>0, <1>1, RowInHand
<1>3. UNCHANGED <<outbox, run, heard, counter, connection, doubts>>
  BY DEF SendRow
<1>4. accepted[k] <= doubts[k] /\ (lock = d <=> IsInvite(k))
  BY <1>0, <1>1, <1>2 DEF HandOK
<1>5. CASE Taken(k) /\ GoTo(d, "record") /\ UNCHANGED <<lock, givenUp, deliveryUpsets>>
  <2>1. "record" \in Places /\ "record" \in Working
    BY DEF Places, Working
  <2>2. drain'[d].at = "record" /\ Mine(d)' = k
    BY <1>1, <1>2, <1>5, <2>1, GoToDrain
  <2>3. Touches(d, outbox[k], accepted[k] + 1, doubts[k])
    BY <1>1, <1>2, <1>3, <1>5, SameCounts DEF Touches, Types, Taken
  <2>4. accepted'[k] = accepted[k] + 1
    BY <1>2, <1>5 DEF Taken, Types
  <2>5. HandOK(d)'
    BY <1>1, <1>2, <1>3, <1>4, <1>5, <2>2, <2>4 DEF HandOK, At, IsInvite, Cycles
  <2>6. RowOK(k, TRUE)'
    BY <1>2, <1>3, <1>4, <1>5, <2>4 DEF RowOK, Fresh
  <2> QED
    BY <1>0, <1>1, <1>5, <2>1, <2>3, <2>5, <2>6, StayStep
<1>6. CASE /\ DeliveryFault("refuse") /\ UNCHANGED accepted /\ IsInvite(k)
           /\ lock' = Unlocked(d) /\ NextRow(d) /\ givenUp' = givenUp \union {k}
  <2>1. lock' = Free /\ lock = d /\ lock' # d
    BY <1>4, <1>6, FreeIsNobody DEF Unlocked
  <2>2. Touches(d, outbox[k], accepted[k], doubts[k])
    BY <1>1, <1>2, <1>3, <1>6, <2>1, SameCounts, FaultCounts DEF Touches, Types
  <2>3. RowOK(k, FALSE)'
    BY <1>2, <1>3, <1>4, <1>6 DEF RowOK, Fresh
  <2> QED
    BY <1>0, <1>1, <1>6, <2>1, <2>2, <2>3, DoneStep
<1>7. CASE /\ DeliveryFault("refuse") /\ UNCHANGED accepted /\ ~IsInvite(k)
           /\ GoTo(d, "catch") /\ UNCHANGED <<lock, givenUp>>
  <2>1. "catch" \in Places /\ "catch" \in Working
    BY DEF Places, Working
  <2>2. drain'[d].at = "catch" /\ Mine(d)' = k
    BY <1>1, <1>2, <1>7, <2>1, GoToDrain
  <2>3. Touches(d, outbox[k], accepted[k], doubts[k])
    BY <1>1, <1>2, <1>3, <1>7, SameCounts, FaultCounts DEF Touches, Types
  <2>4. HandOK(d)'
    BY <1>1, <1>2, <1>3, <1>4, <1>7, <2>2 DEF HandOK, At, IsInvite, Cycles
  <2>5. RowOK(k, TRUE)'
    BY <1>2, <1>3, <1>4, <1>7 DEF RowOK, Fresh
  <2> QED
    BY <1>0, <1>1, <1>7, <2>1, <2>3, <2>4, <2>5, StayStep
<1> QED
  BY <1>1, <1>5, <1>6, <1>7 DEF SendRow

LEMMA RecordStep == ASSUME Inv, NEW d \in Drains, RecordHandle(d) PROVE Inv'
<1>0. drain[d].at = "record" /\ drain[d].at \in Working
  BY DEF RecordHandle, At, Working
<1>1. PICK k \in Ids : k = Mine(d)
  BY <1>0, RowInHand
<1>2. /\ Types /\ Shaped(d) /\ HandOK(d) /\ RowOK(k, TRUE) /\ outbox[k] \in Row
      /\ accepted[k] \in Nat /\ doubts[k] \in Nat /\ ~Fresh(k) /\ outbox[k].status # "pending"
  BY <1>0, <1>1, RowInHand
<1>3. UNCHANGED <<run, heard, counter, connection, accepted, givenUp>>
  BY DEF RecordHandle
<1>4. accepted[k] > 0 /\ (lock = d <=> IsInvite(k))
  BY <1>0, <1>1, <1>2 DEF HandOK
<1>5. lock' = Unlocked(d) /\ lock' # d /\ (lock' = lock \/ (lock = d /\ lock' = Free))
  BY <1>1, FreeIsNobody DEF RecordHandle, Unlocked
<1>6. CASE /\ outbox' = [outbox EXCEPT ![k].handle = outbox[k].status # "none"]
           /\ NextRow(d) \/ GoTo(d, "count")
           /\ UNCHANGED <<doubts, deliveryUpsets>>
  <2> DEFINE row == [outbox[k] EXCEPT !.handle = outbox[k].status # "none"]
  <2>1. /\ row \in Row /\ row.status = outbox[k].status /\ row.attempts = outbox[k].attempts
        /\ row.handle => outbox[k].status # "none"
    BY <1>2 DEF Row
  <2>2. outbox' = [outbox EXCEPT ![k] = row]
    BY <1>2, <1>6 DEF Row
  <2> HIDE DEF row
  <2>3. UNCHANGED <<doubts, deliveryUpsets>> => Touches(d, row, accepted[k], doubts[k])
    BY <1>1, <1>2, <1>3, <1>5, <2>1, <2>2, SameCounts DEF Touches, Types
  <2>4. outbox'[k] = row
    BY <1>2, <2>2 DEF Types
  <2>5. UNCHANGED doubts => RowOK(k, TRUE)' /\ RowOK(k, FALSE)'
    BY <1>1, <1>2, <1>3, <1>4, <2>1, <2>4 DEF RowOK, Fresh
  <2>6. CASE NextRow(d) /\ UNCHANGED <<doubts, deliveryUpsets>>
    BY <1>0, <1>1, <1>5, <2>3, <2>5, <2>6, DoneStep
  <2>7. CASE GoTo(d, "count") /\ UNCHANGED <<doubts, deliveryUpsets>>
    <3>1. "count" \in Places /\ "count" \in Working
      BY DEF Places, Working
    <3>2. drain'[d].at = "count" /\ Mine(d)' = k
      BY <1>1, <1>2, <2>7, <3>1, GoToDrain
    <3>3. HandOK(d)'
      BY <1>3, <1>4, <1>5, <3>2 DEF HandOK, At
    <3> QED
      BY <1>0, <1>1, <2>3, <2>5, <2>7, <3>1, <3>3, StayStep
  <2> QED
    BY <1>1, <1>6, <2>6, <2>7 DEF RecordHandle
<1>7. CASE /\ DeliveryFault("lost") /\ UNCHANGED outbox
           /\ NextRow(d) /\ UNCHANGED doubts
  <2>1. Touches(d, outbox[k], accepted[k], doubts[k])
    BY <1>1, <1>2, <1>3, <1>5, <1>7, SameCounts, FaultCounts DEF Touches, Types
  <2>2. RowOK(k, FALSE)'
    BY <1>2, <1>3, <1>4, <1>7 DEF RowOK, Fresh
  <2> QED
    BY <1>0, <1>1, <1>5, <1>7, <2>1, <2>2, DoneStep
<1>8. CASE /\ DeliveryFault("lost") /\ UNCHANGED outbox
           /\ InDoubt(k) /\ GoTo(d, "catch")
  <2>1. "catch" \in Places /\ "catch" \in Working
    BY DEF Places, Working
  <2>2. drain'[d].at = "catch" /\ Mine(d)' = k
    BY <1>1, <1>2, <1>8, <2>1, GoToDrain
  <2>3. Touches(d, outbox[k], accepted[k], doubts[k] + 1)
    BY <1>1, <1>2, <1>3, <1>5, <1>8, SameCounts, FaultCounts DEF Touches, Types, InDoubt
  <2>4. doubts'[k] = doubts[k] + 1
    BY <1>2, <1>8 DEF InDoubt, Types
  <2>5. accepted[k] <= doubts[k] + 1
    BY <1>2 DEF RowOK
  <2>6. HandOK(d)'
    BY <1>1, <1>2, <1>3, <1>5, <2>2, <2>4, <2>5 DEF HandOK, At
  <2>7. RowOK(k, TRUE)'
    BY <1>2, <1>3, <1>8, <2>4, <2>5 DEF RowOK, Fresh
  <2> QED
    BY <1>0, <1>1, <1>8, <2>1, <2>3, <2>6, <2>7, StayStep
<1> QED
  BY <1>1, <1>6, <1>7, <1>8 DEF RecordHandle

LEMMA CountStep == ASSUME Inv, NEW d \in Drains, CountRow(d) PROVE Inv'
<1>0. drain[d].at = "count" /\ drain[d].at \in Working
  BY DEF CountRow, At, Working
<1>1. PICK k \in Ids : k = Mine(d)
  BY <1>0, RowInHand
<1>2. /\ Types /\ Shaped(d) /\ HandOK(d) /\ RowOK(k, TRUE) /\ outbox[k] \in Row
      /\ accepted[k] \in Nat /\ doubts[k] \in Nat /\ ~Fresh(k) /\ outbox[k].status # "pending"
  BY <1>0, <1>1, RowInHand
<1>3. UNCHANGED <<outbox, run, heard, connection, lock, accepted, givenUp>>
  BY DEF CountRow
<1>4. accepted[k] > 0 /\ lock # d
  BY <1>0, <1>1, <1>2 DEF HandOK
<1>5. CASE counter' = counter + 1 /\ NextRow(d) /\ UNCHANGED <<doubts, deliveryUpsets>>
  <2>1. Touches(d, outbox[k], accepted[k], doubts[k])
    BY <1>1, <1>2, <1>3, <1>5, SameCounts DEF Touches, Types
  <2>2. RowOK(k, FALSE)'
    BY <1>2, <1>3, <1>4, <1>5 DEF RowOK, Fresh
  <2> QED
    BY <1>0, <1>1, <1>3, <1>4, <1>5, <2>1, <2>2, DoneStep
<1>6. CASE DeliveryFault("lost") /\ InDoubt(k) /\ GoTo(d, "catch") /\ UNCHANGED counter
  <2>1. "catch" \in Places /\ "catch" \in Working
    BY DEF Places, Working
  <2>2. drain'[d].at = "catch" /\ Mine(d)' = k
    BY <1>1, <1>2, <1>6, <2>1, GoToDrain
  <2>3. Touches(d, outbox[k], accepted[k], doubts[k] + 1)
    BY <1>1, <1>2, <1>3, <1>6, SameCounts, FaultCounts DEF Touches, Types, InDoubt
  <2>4. doubts'[k] = doubts[k] + 1
    BY <1>2, <1>6 DEF InDoubt, Types
  <2>5. accepted[k] <= doubts[k] + 1
    BY <1>2 DEF RowOK
  <2>6. HandOK(d)'
    BY <1>1, <1>2, <1>3, <1>4, <2>2, <2>4, <2>5 DEF HandOK, At
  <2>7. RowOK(k, TRUE)'
    BY <1>2, <1>3, <1>6, <2>4, <2>5 DEF RowOK, Fresh
  <2> QED
    BY <1>0, <1>1, <1>6, <2>1, <2>3, <2>6, <2>7, StayStep
<1> QED
  BY <1>1, <1>5, <1>6 DEF CountRow

LEMMA CatchStep == ASSUME Inv, NEW d \in Drains, CatchFailure(d) PROVE Inv'
<1>0. drain[d].at = "catch" /\ drain[d].at \in Working
  BY DEF CatchFailure, At, Working
<1>1. PICK k \in Ids : k = Mine(d)
  BY <1>0, RowInHand
<1>2. /\ Types /\ Shaped(d) /\ HandOK(d) /\ RowOK(k, TRUE) /\ outbox[k] \in Row
      /\ accepted[k] \in Nat /\ doubts[k] \in Nat /\ ~Fresh(k) /\ outbox[k].status # "pending"
  BY <1>0, <1>1, RowInHand
<1>3. UNCHANGED <<run, heard, counter, connection, lock, deliveryUpsets>> /\ SameHistory /\ NextRow(d)
  BY DEF CatchFailure
<1>4. /\ accepted[k] <= doubts[k] /\ lock # d
      /\ accepted' = accepted /\ doubts' = doubts /\ givenUp' = givenUp
  BY <1>0, <1>1, <1>2, <1>3 DEF HandOK, SameHistory
<1> DEFINE n == AttemptsOf(d, k)
           status == IF Exhausted(n) THEN "failed" ELSE "pending"
           later == ~Exhausted(n)
           row == IF outbox[k].status = "none" THEN outbox[k]
                  ELSE [outbox[k] EXCEPT !.attempts = n, !.later = later, !.status = status]
<1>5. n \in 0..MaxAttempts /\ (~Exhausted(n) => n < MaxAttempts)
  <2>1. drain[d].attempts[k] \in 0..(MaxAttempts - 1)
    BY <1>2 DEF Shaped, DrainShape
  <2> QED
    BY <2>1, DeliveryBounds DEF AttemptsOf, Exhausted
<1>6. status \in {"failed", "pending"} /\ later \in BOOLEAN /\ (status = "pending" => n < MaxAttempts)
  BY <1>5
<1>7. outbox' = [outbox EXCEPT ![k] = row]
  <2>1. outbox' = IF outbox[k].status = "none" THEN outbox
                  ELSE [outbox EXCEPT ![k].attempts = n, ![k].later = ~Exhausted(n),
                                      ![k].status = IF Exhausted(n) THEN "failed" ELSE "pending"]
    BY <1>1 DEF CatchFailure
  <2> QED
    BY <1>2, <2>1, SameCounts DEF Row
<1> HIDE DEF n, status, later
<1>8. /\ row \in Row /\ row.handle = outbox[k].handle
      /\ row.status \in {"none", "pending", "failed"} /\ row.attempts \in 0..MaxAttempts
      /\ row.status = "pending" => row.attempts < MaxAttempts
      /\ row.status = "none" <=> outbox[k].status = "none"
  BY <1>2, <1>5, <1>6 DEF Row, Status
<1> HIDE DEF row
<1>9. Touches(d, row, accepted[k], doubts[k])
  BY <1>1, <1>2, <1>3, <1>4, <1>7, <1>8, SameCounts DEF Touches, Types
<1>10. outbox'[k] = row
  BY <1>2, <1>7 DEF Types
<1>11. RowOK(k, FALSE)'
  BY <1>2, <1>3, <1>4, <1>8, <1>10 DEF RowOK, Fresh
<1> QED
  BY <1>0, <1>1, <1>3, <1>4, <1>9, <1>11, DoneStep

-----------------------------------------------------------------------------
(* The owner, the platform's notices, time and crashes *)

LEMMA InboundStep == ASSUME Inv, Inbound PROVE Inv'
<1>1. /\ UNCHANGED <<outbox, accepted, doubts, givenUp, connection, lock, run, heard, drain>>
      /\ counter' = 0 /\ deliveryUpsets' = deliveryUpsets
  BY DEF Inbound
<1>2. /\ run' \in Run /\ heard' \subseteq Texts /\ counter' \in Nat /\ deliveryUpsets' \in Nat
      /\ drain' = [d \in Drains |-> drain'[d]] /\ PrivacyInv'
  BY <1>1 DEF Inv, Types, PrivacyInv
<1> QED
  BY <1>1, <1>2, QuietStep

LEMMA NoticesStep == ASSUME Inv, StatusNotice PROVE Inv'
<1>0. outbox \in [Ids -> Row] /\ deliveryUpsets \in Nat
  BY DEF Inv, Types
<1>1. PICK k \in Ids, status \in {"sent", "failed"} :
        outbox[k].handle /\ outbox' = [outbox EXCEPT ![k].status = status]
  BY DEF StatusNotice
<1> DEFINE row == [outbox[k] EXCEPT !.status = status]
<1>2. /\ row \in Row /\ row.attempts = outbox[k].attempts /\ row.handle = outbox[k].handle
      /\ row.handle /\ row.status \in {"sent", "failed"}
  BY <1>0, <1>1 DEF Row, Status
<1>3. outbox' = [outbox EXCEPT ![k] = row]
  BY <1>0, <1>1 DEF Row
<1> HIDE DEF row
<1>4. /\ UNCHANGED <<run, heard, counter, connection, lock, drain, accepted, doubts, givenUp>>
      /\ deliveryUpsets' \in Nat
  BY <1>0 DEF StatusNotice, SameHistory
<1> QED
  BY <1>2, <1>3, <1>4, NoticeStep

LEMMA BackoffStep == ASSUME Inv, BackoffEnds PROVE Inv'
<1>0. outbox \in [Ids -> Row] /\ deliveryUpsets \in Nat
  BY DEF Inv, Types
<1>1. PICK k \in Ids : outbox' = [outbox EXCEPT ![k].later = FALSE]
  BY DEF BackoffEnds
<1> DEFINE row == [outbox[k] EXCEPT !.later = FALSE]
<1>2. /\ row \in Row /\ row.attempts = outbox[k].attempts /\ row.handle = outbox[k].handle
      /\ row.status = outbox[k].status
  BY <1>0 DEF Row
<1>3. outbox' = [outbox EXCEPT ![k] = row]
  BY <1>0, <1>1 DEF Row
<1> HIDE DEF row
<1>4. /\ UNCHANGED <<run, heard, counter, connection, lock, drain, accepted, doubts, givenUp>>
      /\ deliveryUpsets' \in Nat
  BY <1>0 DEF BackoffEnds, SameHistory
<1> QED
  BY <1>2, <1>3, <1>4, NoticeStep

LEMMA EmptyRow ==
  NoRow \in Row /\ NoRow.status = "none" /\ NoRow.attempts = 0 /\ NoRow.handle = FALSE
  BY DeliveryBounds DEF NoRow, Row, Status

LEMMA FilledRow ==
  NewRow \in Row /\ NewRow.status = "pending" /\ NewRow.attempts = 0 /\ NewRow.handle = FALSE
  BY EmptyRow DEF NewRow, Row, Status

\* The rows and the connection change under the connection's lock.
LEMMA ConnectionStep ==
  ASSUME Inv, UNCHANGED <<run, heard, counter, lock, drain, deliveryUpsets>>, SameHistory,
         lock = Free, connection' \in Connection, outbox' \in [Ids -> Row],
         \A r \in Ids : RowOK(r, InHand(r)) /\ InHand(r)' = InHand(r) => RowOK(r, InHand(r))'
  PROVE  Inv'
<1>1. drain' = [d \in Drains |-> drain'[d]]
  BY DEF Inv, Types
<1> QED
  BY <1>1, OutboxStep

LEMMA ConnectStep == ASSUME Inv, Connect PROVE Inv'
<1>0. outbox \in [Ids -> Row] /\ connection \in Connection /\ connection.cycle \in Nat
  BY DEF Inv, Types, Connection
<1> DEFINE c == connection.cycle + 1
<1>1. /\ UNCHANGED <<run, heard, counter, lock, drain, deliveryUpsets>> /\ SameHistory
      /\ lock = Free /\ connection.cycle < MaxCycles
      /\ connection' = [status |-> "pending", cycle |-> c] /\ outbox' = NewInvite(c)
  BY DEF Connect
<1>2. c \in Cycles /\ c \in Ids /\ c > connection.cycle
  BY <1>0, <1>1, DeliveryBounds DEF Cycles, Ids
<1>3. connection' \in Connection /\ connection'.cycle = c
  BY <1>0, <1>1, DeliveryBounds DEF Connection
<1>4. /\ outbox' \in [Ids -> Row]
      /\ \A r \in Ids : outbox'[r] = IF r = c THEN NewRow ELSE IF r \in Cycles THEN NoRow ELSE outbox[r]
  BY <1>0, <1>1, <1>2, EmptyRow, FilledRow DEF NewInvite, Remove
<1>5. ASSUME NEW r \in Ids, RowOK(r, InHand(r)), InHand(r)' = InHand(r)
      PROVE  RowOK(r, InHand(r))'
  <2>0. accepted' = accepted /\ doubts' = doubts /\ givenUp' = givenUp /\ run' = run
        /\ accepted[r] \in Nat /\ doubts[r] \in Nat
    BY <1>1 DEF SameHistory, Inv, Types
  <2>1. r \in Texts => r \notin Cycles
    BY TextsAreNoCycles DEF Cycles
  <2>2. run.private \subseteq Texts
    BY DEF Inv, Types, Run
  <2>3. CASE r = c
    <3>1. outbox[r].status = "none"
      BY <1>0, <1>2, <1>5, <2>3 DEF RowOK
    <3>2. Fresh(r)
      BY <1>2, <2>3, <3>1 DEF Fresh
    <3>3. accepted[r] <= doubts[r] /\ ~InHand(r)
      BY <1>5, <3>2 DEF RowOK
    <3>4. outbox'[r] = NewRow
      BY <1>4, <2>3
    <3>5. r \notin run.private
      BY <1>2, <2>1, <2>2, <2>3
    <3> QED
      BY <1>2, <1>3, <1>5, <2>0, <2>3, <3>3, <3>4, <3>5, FilledRow, DeliveryBounds DEF RowOK
  <2>4. CASE r # c /\ r \in Cycles
    <3>1. outbox'[r] = NoRow
      BY <1>4, <2>4
    <3>2. Fresh(r)' => Fresh(r)
      <4>1. r > c => r > connection.cycle /\ r # connection.cycle
        BY <1>0, <2>4, DeliveryBounds DEF Cycles
      <4>2. r > connection.cycle /\ r # connection.cycle => outbox[r].status = "none"
        BY <1>5, <2>4 DEF RowOK
      <4> QED
        BY <1>3, <2>4, <4>1, <4>2 DEF Fresh
    <3> QED
      BY <1>5, <2>0, <3>1, <3>2, EmptyRow, DeliveryBounds DEF RowOK
  <2>5. CASE r \notin Cycles
    <3>1. outbox'[r] = outbox[r]
      BY <1>2, <1>4, <2>5
    <3> QED
      BY <1>5, <2>0, <2>5, <3>1 DEF RowOK, Fresh
  <2> QED
    BY <2>3, <2>4, <2>5
<1> QED
  BY <1>1, <1>3, <1>4, <1>5, ConnectionStep

LEMMA RespondStep == ASSUME Inv, Respond PROVE Inv'
<1>0. connection \in Connection /\ outbox \in [Ids -> Row]
  BY DEF Inv, Types
<1>1. /\ UNCHANGED <<outbox, run, heard, counter, lock, drain, deliveryUpsets>> /\ SameHistory
      /\ lock = Free
  BY DEF Respond
<1>2. PICK status \in {"approved", "declined"} : connection' = [connection EXCEPT !.status = status]
  BY DEF Respond
<1>3. connection' \in Connection /\ connection'.cycle = connection.cycle
  BY <1>0, <1>2 DEF Connection
<1>4. \A r \in Ids : RowOK(r, InHand(r)) /\ InHand(r)' = InHand(r) => RowOK(r, InHand(r))'
  BY <1>1, <1>3 DEF RowOK, Fresh, SameHistory
<1> QED
  BY <1>0, <1>1, <1>3, <1>4, ConnectionStep

LEMMA RevokeStep == ASSUME Inv, Revoke PROVE Inv'
<1>0. connection \in Connection /\ outbox \in [Ids -> Row]
  BY DEF Inv, Types
<1>1. /\ UNCHANGED <<run, heard, counter, lock, drain, deliveryUpsets>> /\ SameHistory
      /\ lock = Free /\ connection' = [connection EXCEPT !.status = "revoked"]
  BY DEF Revoke, MayRevoke
<1>2. connection' \in Connection /\ connection'.cycle = connection.cycle
  BY <1>0, <1>1 DEF Connection
<1>3. PICK gone \in SUBSET Cycles :
        /\ outbox' = Remove(gone)
        /\ \A r \in gone : outbox[r].status # "none"
  BY DEF Revoke
<1>4. /\ outbox' \in [Ids -> Row]
      /\ \A r \in Ids : outbox'[r] = IF r \in gone THEN NoRow ELSE outbox[r]
  BY <1>0, <1>3, EmptyRow DEF Remove
<1>5. ASSUME NEW r \in Ids, RowOK(r, InHand(r)), InHand(r)' = InHand(r)
      PROVE  RowOK(r, InHand(r))'
  <2>0. accepted' = accepted /\ doubts' = doubts /\ givenUp' = givenUp /\ run' = run
    BY <1>1 DEF SameHistory
  <2>1. CASE r \in gone
    <3>1. outbox'[r] = NoRow /\ r \in Cycles /\ outbox[r].status # "none"
      BY <1>3, <1>4, <2>1
    <3>2. r = connection.cycle /\ ~(r > connection.cycle)
      BY <1>5, <3>1 DEF RowOK, Cycles
    <3>3. ~Fresh(r)'
      BY <1>2, <3>1, <3>2 DEF Fresh
    <3> QED
      BY <1>5, <2>0, <3>1, <3>3, EmptyRow, DeliveryBounds DEF RowOK
  <2>2. CASE r \notin gone
    <3>1. outbox'[r] = outbox[r]
      BY <1>4, <2>2
    <3> QED
      BY <1>2, <1>5, <2>0, <3>1 DEF RowOK, Fresh
  <2> QED
    BY <2>1, <2>2
<1> QED
  BY <1>1, <1>2, <1>4, <1>5, ConnectionStep

LEMMA CrashStep == ASSUME Inv, NEW d \in Drains, DeliveryCrash(d) PROVE Inv'
<1>0. Types /\ Shaped(d) /\ HandOK(d) /\ run \in Run
  BY DEF Inv, Types
<1>1. /\ UNCHANGED <<outbox, run, heard, counter, connection, accepted, doubts>>
      /\ drain' = [drain EXCEPT ![d] = IdleDrain] /\ lock' = Unlocked(d) /\ deliveryUpsets' \in Nat
      /\ givenUp' = IF Mine(d) \in Ids /\ accepted[Mine(d)] = 0 THEN givenUp \union {Mine(d)} ELSE givenUp
  BY <1>0, FaultCounts DEF DeliveryCrash
<1>2. /\ Others(d) /\ drain'[d] \in DrainShape /\ drain'[d].at = "idle"
      /\ Mine(d)' = Free /\ drain'[d].snapshot = {}
  BY <1>0, <1>1, ExitDrain
<1>3. drain'[d].at \notin Working
  BY <1>2 DEF Working
<1>4. CASE drain[d].at \notin Working
  <2>1. Mine(d) = Free /\ lock # d
    BY <1>0, <1>4, FreeIsNobody DEF Shaped, HandOK, IsInvite, Ids, Working
  <2>2. lock' = lock /\ givenUp' = givenUp
    BY <1>1, <2>1, FreeIsNobody DEF Unlocked
  <2> QED
    BY <1>0, <1>1, <1>2, <1>3, <2>1, <2>2, CallStep DEF SameHistory
<1>5. CASE drain[d].at \in Working
  <2>1. PICK k \in Ids : k = Mine(d)
    BY <1>5, RowInHand
  <2>2. /\ RowOK(k, TRUE) /\ outbox[k] \in Row /\ accepted[k] \in Nat
        /\ ~Fresh(k) /\ outbox[k].status # "pending"
    BY <1>5, <2>1, RowInHand
  <2>3. accepted[k] = 0 => k \in givenUp'
    BY <1>1, <2>1
  <2>4. RowOK(k, FALSE)'
    BY <1>1, <2>2, <2>3 DEF RowOK, Fresh
  <2>5. k # Free
    BY FreeIsNobody
  <2>6. RowOK(k, Mine(d) = k)'
    BY <1>2, <2>4, <2>5 DEF RowOK
  <2>7. /\ lock' # d /\ (lock' = lock \/ (lock \in {d, Free} /\ lock' \in {d, Free}))
    BY <1>1, FreeIsNobody DEF Unlocked
  <2>8. Shaped(d)' /\ HandOK(d)'
    BY <1>2, <1>3, <2>7 DEF Shaped, HandOK, Working, At
  <2>9. /\ outbox' \in [Ids -> Row] /\ accepted' \in [Ids -> Nat] /\ doubts' \in [Ids -> Nat]
        /\ counter' \in Nat /\ givenUp \subseteq givenUp' /\ givenUp' \subseteq Ids
    BY <1>0, <1>1, <2>1 DEF Types
  <2> QED
    BY <1>1, <1>2, <2>1, <2>6, <2>7, <2>8, <2>9, WorkStep
<1> QED
  BY <1>4, <1>5

-----------------------------------------------------------------------------
(* The invariant holds *)

LEMMA StutterStep == ASSUME Inv, UNCHANGED deliveryVars PROVE Inv'
<1>1. run \in Run /\ run' = run /\ PrivacyInv
  BY DEF Inv, Types, deliveryVars
<1>2. PrivacyInv'
  BY <1>1 DEF PrivacyInv, deliveryVars
<1> QED
  BY <1>1, <1>2, RunStep DEF deliveryVars, SameHistory

LEMMA InvStep == Inv /\ [DeliveryNext]_deliveryVars => Inv'
<1> SUFFICES ASSUME Inv, [DeliveryNext]_deliveryVars PROVE Inv'
  OBVIOUS
<1>1. ASSUME NEW d \in Drains, StartMirror(d) \/ MirrorStep(d) \/ StartDrain(d) PROVE Inv'
  BY <1>1, StartMirrorStep, MirrorReadStep, MirrorWriteStep, MirrorPeersStep, MarkStep,
     StartDrainStep DEF MirrorStep
<1>2. ASSUME NEW d \in Drains, DrainStep(d) PROVE Inv'
  BY <1>2, DrainReadStep, ClaimStep, PrepareStep, InviteLockStep, SendStep, RecordStep,
     CountStep, CatchStep DEF DrainStep
<1>3. ASSUME NEW d \in Drains, DeliveryCrash(d) PROVE Inv'
  BY <1>3, CrashStep
<1>4. CASE PublishText \/ AskUser \/ AnswerAsk \/ CompleteRun
  BY <1>4, PublishStep, AskStep, AnswerStep, CompleteStep
<1>5. CASE Inbound \/ StatusNotice \/ Connect \/ Respond \/ Revoke \/ BackoffEnds
  BY <1>5, InboundStep, NoticesStep, ConnectStep, RespondStep, RevokeStep, BackoffStep
<1> QED
  BY <1>1, <1>2, <1>3, <1>4, <1>5, StutterStep DEF DeliveryNext

\* The inductive invariant holds in every reachable state.
THEOREM AlwaysInv == DeliverySpec => []Inv
  BY InitInv, InvStep, PTL DEF DeliverySpec

-----------------------------------------------------------------------------
(* The properties *)

\* The rows, the run, the connection and the calls keep their types.
THEOREM DeliveryTypeCorrect == DeliverySpec => []DeliveryTypeOK
<1>1. ASSUME Inv, NEW d \in Drains PROVE drain[d] \in Drain
  <2>1. drain[d] \in DrainShape
    BY <1>1 DEF Inv, Shaped
  <2>2. drain[d].attempts \in [Ids -> 0..MaxAttempts]
    BY <2>1, DeliveryBounds DEF DrainShape
  <2> QED
    BY <2>1, <2>2 DEF DrainShape, Drain
<1>2. Inv => DeliveryTypeOK
  BY <1>1 DEF Inv, Types, DeliveryTypeOK
<1> QED
  BY <1>2, AlwaysInv, PTL

\* The platform is given a message once, and once more for each answer that was lost.
THEOREM GivenOnce == DeliverySpec => []DeliveredOnce
<1>1. Inv => DeliveredOnce
  BY DEF Inv, RowOK, DeliveredOnce
<1> QED
  BY <1>1, AlwaysInv, PTL

\* A row that says sent was taken, unless its call crashed or its invite was refused.
THEOREM SentWasTaken == DeliverySpec => []SentIsTaken
<1>1. Inv => SentIsTaken
  BY DEF Inv, RowOK, SentIsTaken
<1> QED
  BY <1>1, AlwaysInv, PTL

\* What a run wrote in a channel after a private answer stays private.
THEOREM PrivateIsKept == DeliverySpec => []PrivateStaysPrivate
<1>1. ASSUME Inv, run.channel, NEW t \in run.private
      PROVE  outbox[t].status = "none" /\ t \notin heard
  <2>1. t \in Ids
    BY <1>1 DEF Inv, Types, Run, Ids
  <2> QED
    BY <1>1, <2>1 DEF Inv, PrivacyInv, RowOK
<1>2. Inv => PrivateStaysPrivate
  BY <1>1 DEF PrivateStaysPrivate
<1> QED
  BY <1>2, AlwaysInv, PTL

\* Only sending a row gives it to the platform.
LEMMA OnlySendRow ==
  ASSUME Inv, [DeliveryNext]_deliveryVars, accepted' # accepted
  PROVE  \E d \in Drains : At(d, "send") /\ accepted' = [accepted EXCEPT ![Mine(d)] = @ + 1]
<1>1. ASSUME NEW d \in Drains, DrainStep(d)
      PROVE  At(d, "send") /\ accepted' = [accepted EXCEPT ![Mine(d)] = @ + 1]
  BY <1>1 DEF DrainStep, DrainRead, DrainClaim, DrainPrepare, InviteLock, SendRow, RecordHandle,
              CountRow, CatchFailure, SameHistory, Taken
<1>2. ASSUME NEW d \in Drains, StartMirror(d) \/ MirrorStep(d) \/ StartDrain(d) \/ DeliveryCrash(d)
      PROVE  FALSE
  BY <1>2 DEF StartMirror, MirrorStep, MirrorRead, MirrorWrite, MirrorPeers, MarkMirrored,
              StartDrain, DeliveryCrash, SameHistory
<1> QED
  BY <1>1, <1>2 DEF DeliveryNext, PublishText, AskUser, AnswerAsk, CompleteRun, Inbound,
                    StatusNotice, Connect, Respond, Revoke, BackoffEnds, SameHistory, deliveryVars

\* An invite reaches the owner only while the connection asks for it.
THEOREM InvitesAreAskedFor == DeliverySpec => InviteWhilePending
<1>1. ASSUME Inv, [DeliveryNext]_deliveryVars, NEW c \in Cycles, accepted'[c] # accepted[c]
      PROVE  connection.status = "pending" /\ c = connection.cycle
  <2>1. PICK d \in Drains : At(d, "send") /\ accepted' = [accepted EXCEPT ![Mine(d)] = @ + 1]
    BY <1>1, OnlySendRow
  <2>2. Mine(d) = c /\ HandOK(d)
    <3>1. c \in Ids /\ accepted \in [Ids -> Nat]
      BY <1>1 DEF Ids, Inv, Types
    <3> QED
      BY <1>1, <2>1, <3>1 DEF Inv
  <2> QED
    BY <2>1, <2>2 DEF HandOK, At, IsInvite
<1>2. Inv /\ [DeliveryNext]_deliveryVars =>
        [\A c \in Cycles : accepted'[c] # accepted[c] =>
            connection.status = "pending" /\ c = connection.cycle]_deliveryVars
  BY <1>1
<1> QED
  BY <1>2, AlwaysInv, PTL DEF DeliverySpec, InviteWhilePending
=============================================================================
