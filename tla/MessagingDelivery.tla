-------------------------- MODULE MessagingDelivery --------------------------
(***************************************************************************)
(* The outbox between the bots and a chat platform.  A messaging run's     *)
(* texts are copied into it (the mirror) and drained to the platform;      *)
(* invites to connect two bots go through it too.  There is one run, one   *)
(* identity (the owner of the chat, the target of the invites) and one     *)
(* connection; the rows of other identities are left out.                  *)
(***************************************************************************)
EXTENDS Naturals

CONSTANTS
  Drains,            \* calls of deliverMessagingOutbound at a time
  Free,              \* nobody holds the lock of the connection row
  Texts,             \* the texts the run may publish
  OutboundCap,       \* MESSAGING_DM_OUTBOUND_CAP
  MaxAttempts,       \* MESSAGING_OUTBOUND_MAX_ATTEMPTS
  DeliveryFaults,    \* which of AllDeliveryFaults happen
  MaxCycles,         \* bound: requests to connect
  MaxDeliveryUpsets  \* bound: how many faults there are

\* crash: a worker dies; refuse: the platform does not take a message; lost: it does,
\* and its answer is lost or a write that follows it fails.
AllDeliveryFaults == {"crash", "refuse", "lost"}

ASSUME DrainsType == Free \notin Drains
ASSUME DeliveryBounds ==
  /\ OutboundCap \in Nat \ {0} /\ MaxAttempts \in Nat \ {0}
  /\ MaxCycles \in Nat /\ MaxDeliveryUpsets \in Nat
  /\ DeliveryFaults \subseteq AllDeliveryFaults
ASSUME TextsAreNoCycles == Texts \intersect (1..MaxCycles) = {}
ASSUME FreeIsNoRow == Free \notin Texts \union (1..MaxCycles)

VARIABLES
  outbox,      \* the messaging_outbound rows
  run,         \* the run whose texts are mirrored
  heard,       \* texts in the threads of the channel's other bots
  counter,     \* outboundSinceInbound of the identity
  connection,  \* the agent_connections row, and how often it was asked for
  lock,        \* who holds the row lock of the connection
  drain,       \* the locals of each call
  accepted,    \* how often the platform took each row's message
  doubts,      \* after how many of them the call did not learn it, or could not write it
  givenUp,     \* rows that were claimed and given up before the platform took them
  deliveryUpsets

deliveryVars == <<outbox, run, heard, counter, connection, lock, drain,
                  accepted, doubts, givenUp, deliveryUpsets>>

Cycles  == 1..MaxCycles
Ids     == Texts \union Cycles   \* an invite's row is named by its request
Status  == {"none", "pending", "sent", "failed"}

\* later: nextAttemptAt is in the future; handle: providerHandle is set.
Row == [status : Status, attempts : 0..MaxAttempts, later : BOOLEAN, handle : BOOLEAN]

NoRow  == [status |-> "none", attempts |-> 0, later |-> FALSE, handle |-> FALSE]
NewRow == [NoRow EXCEPT !.status = "pending"]

\* channel: the run answers in a group; ask: it asked the user something in the app;
\* private: texts written after the answer; mirrored: messagingMirroredAt is set;
\* job: run.continue will be delivered (again).
Run == [channel : BOOLEAN, status : {"running", "waiting", "completed"},
        texts : SUBSET Texts, private : SUBSET Texts, ask : {"none", "open", "answered"},
        mirrored : BOOLEAN, job : BOOLEAN]

NewRun(channel) == [channel |-> channel, status |-> "running", texts |-> {}, private |-> {},
                    ask |-> "none", mirrored |-> FALSE, job |-> TRUE]

\* One that ended before and wrote nothing.
NoRun == [NewRun(FALSE) EXCEPT !.status = "completed", !.mirrored = TRUE, !.job = FALSE]

\* cycle: which request this is; after MaxCycles there are no more.
Connection == [status : {"none", "pending", "approved", "declined", "revoked"}, cycle : 0..MaxCycles]

Places == {"idle", "mirror", "write", "peers", "mark", "read", "claim", "prepare", "lock",
           "send", "record", "count", "catch"}

\* todo: what the call read, with the attempts it saw; row: the one it works on.
Drain == [at : Places, snapshot : SUBSET Texts, final : BOOLEAN, todo : SUBSET Ids,
          row : Ids \union {Free}, attempts : [Ids -> 0..MaxAttempts]]

IdleDrain == [at |-> "idle", snapshot |-> {}, final |-> FALSE, todo |-> {}, row |-> Free,
              attempts |-> [r \in Ids |-> 0]]

DeliveryInit ==
  /\ outbox = [r \in Ids |-> NoRow]
  /\ run \in {NoRun} \union {NewRun(channel) : channel \in BOOLEAN}
  /\ heard = {} /\ counter \in 0..OutboundCap
  /\ connection \in [status : {"none"}, cycle : {0, MaxCycles}]
  /\ lock = Free
  /\ drain = [d \in Drains |-> IdleDrain]
  /\ accepted = [r \in Ids |-> 0]
  /\ doubts = [r \in Ids |-> 0] /\ givenUp = {}
  /\ deliveryUpsets = 0

At(d, place)   == drain[d].at = place
GoTo(d, place) == drain' = [drain EXCEPT ![d].at = place]
Mine(d)        == drain[d].row

\* On to the next row.
NextRow(d) == drain' = [drain EXCEPT ![d].at = "claim", ![d].row = Free,
                                     ![d].attempts[Mine(d)] = 0]

IsInvite(r) == r \in Cycles
ToGroup(r)  == r \in Texts /\ run.channel
IsDm(r)     == ~ToGroup(r)

DeliveryFault(kind) ==
  /\ kind \in DeliveryFaults
  /\ deliveryUpsets < MaxDeliveryUpsets
  /\ deliveryUpsets' = deliveryUpsets + 1

SameHistory == UNCHANGED <<accepted, doubts, givenUp>>

-----------------------------------------------------------------------------
(* The run *)

PublishText ==
  /\ run.status = "running"
  /\ \E t \in Texts \ run.texts :
       run' = [run EXCEPT !.texts = @ \union {t},
                          !.private = IF run.ask = "answered" THEN @ \union {t} ELSE @]
  /\ UNCHANGED <<outbox, heard, counter, connection, lock, drain, deliveryUpsets>> /\ SameHistory

AskUser ==
  /\ run.status = "running" /\ run.ask = "none"
  /\ run' = [run EXCEPT !.status = "waiting", !.ask = "open"]
  /\ UNCHANGED <<outbox, heard, counter, connection, lock, drain, deliveryUpsets>> /\ SameHistory

AnswerAsk ==
  /\ run.status = "waiting"
  /\ run' = [run EXCEPT !.status = "running", !.ask = "answered", !.job = TRUE]
  /\ UNCHANGED <<outbox, heard, counter, connection, lock, drain, deliveryUpsets>> /\ SameHistory

CompleteRun ==
  /\ run.status = "running"
  /\ run' = [run EXCEPT !.status = "completed"]
  /\ UNCHANGED <<outbox, heard, counter, connection, lock, drain, deliveryUpsets>> /\ SameHistory

-----------------------------------------------------------------------------
(* The mirror *)

\* The reconciler's test: a completed run that was never mirrored.
Unmirrored == run.status = "completed" /\ ~run.mirrored

\* A job of the run, whether it ran it or found it taken, ends with the mirror.
StartMirror(d) ==
  /\ At(d, "idle")
  /\ run.job \/ Unmirrored
  /\ GoTo(d, "mirror")
  /\ UNCHANGED <<outbox, run, heard, counter, connection, lock, deliveryUpsets>> /\ SameHistory

\* (wrong: an ask is not looked for)
PublishedAnyway == run.texts

\* The texts as one query reads them; in a channel none, once an ask was answered.
Published == IF run.channel /\ run.ask = "answered" THEN {} ELSE run.texts

MirrorRead(d) ==
  /\ At(d, "mirror")
  /\ drain' = [drain EXCEPT ![d].at = "write", ![d].snapshot = Published,
                            ![d].final = run.status = "completed"]
  /\ UNCHANGED <<outbox, run, heard, counter, connection, lock, deliveryUpsets>> /\ SameHistory

\* createMany with skipDuplicates: a text has at most one row.
MirrorWrite(d) ==
  /\ At(d, "write")
  /\ outbox' = [r \in Ids |-> IF r \in drain[d].snapshot /\ outbox[r].status = "none"
                                THEN NewRow ELSE outbox[r]]
  /\ GoTo(d, IF run.channel THEN "peers" ELSE "mark")
  /\ UNCHANGED <<run, heard, counter, connection, lock, deliveryUpsets>> /\ SameHistory

\* The other bots of the channel get each text once (clientNonce).
MirrorPeers(d) ==
  /\ At(d, "peers")
  /\ \/ /\ \E t \in drain[d].snapshot \ heard : heard' = heard \union {t}
        /\ UNCHANGED drain
     \/ drain[d].snapshot \subseteq heard /\ GoTo(d, "mark") /\ UNCHANGED heard
  /\ UNCHANGED <<outbox, run, counter, connection, lock, deliveryUpsets>> /\ SameHistory

JobAfter(d) == run.job /\ ~drain[d].final

\* The job is done when its run was; then the outbox is drained.
MarkMirrored(d) ==
  /\ At(d, "mark")
  /\ run' = [run EXCEPT !.mirrored = TRUE, !.job = JobAfter(d)]
  /\ GoTo(d, "read")
  /\ UNCHANGED <<outbox, heard, counter, connection, lock, deliveryUpsets>> /\ SameHistory

-----------------------------------------------------------------------------
(* drain *)

\* (wrong: a row that was tried is not due again)
DueOnce == {r \in Ids : outbox[r].status = "pending" /\ outbox[r].attempts = 0}

DueRows == {r \in Ids : outbox[r].status = "pending" /\ ~outbox[r].later}

\* A job of a request, of a retry, or of the reconciler's.
StartDrain(d) ==
  /\ At(d, "idle")
  /\ DueRows # {}
  /\ GoTo(d, "read")
  /\ UNCHANGED <<outbox, run, heard, counter, connection, lock, deliveryUpsets>> /\ SameHistory

DrainRead(d) ==
  /\ At(d, "read")
  /\ drain' = [drain EXCEPT ![d] =
       IF DueRows = {} THEN IdleDrain
       ELSE [IdleDrain EXCEPT !.at = "claim", !.todo = DueRows,
                              !.attempts = [r \in Ids |-> IF r \in DueRows
                                                             THEN outbox[r].attempts ELSE 0]]]
  /\ UNCHANGED <<outbox, run, heard, counter, connection, lock, deliveryUpsets>> /\ SameHistory

\* (wrong: the row is sent and then marked)
ClaimableUnmarked(r) == outbox[r].status \in {"pending", "sent"}

Claimable(r) == outbox[r].status = "pending"

DrainClaim(d) ==
  /\ At(d, "claim")
  /\ \/ \E r \in drain[d].todo :
          \/ /\ Claimable(r)
             /\ outbox' = [outbox EXCEPT ![r].status = "sent", ![r].later = FALSE]
             /\ drain' = [drain EXCEPT ![d].at = "prepare", ![d].row = r, ![d].todo = @ \ {r}]
          \/ /\ ~Claimable(r) /\ UNCHANGED outbox
             /\ drain' = [drain EXCEPT ![d].todo = @ \ {r}, ![d].attempts[r] = 0]
     \/ drain[d].todo = {} /\ drain' = [drain EXCEPT ![d] = IdleDrain] /\ UNCHANGED outbox
  /\ UNCHANGED <<run, heard, counter, connection, lock, deliveryUpsets>> /\ SameHistory

\* The cap is the provider sendblue's; the identity modelled is one of its users.
Capped(r) == IsDm(r) /\ counter >= OutboundCap

\* (wrong: the row keeps its mark)
HeldAsSent(r) == outbox

\* A row that was deleted meanwhile is not brought back.
HeldBack(r) == IF outbox[r].status = "none" THEN outbox ELSE [outbox EXCEPT ![r].status = "pending"]

\* A direct message waits at the cap; an invite asks for the connection's row first.
DrainPrepare(d) ==
  LET r == Mine(d) IN
  /\ At(d, "prepare")
  /\ \/ /\ Capped(r)
        /\ outbox' = HeldBack(r)
        /\ NextRow(d)
     \/ ~Capped(r) /\ GoTo(d, IF IsInvite(r) THEN "lock" ELSE "send") /\ UNCHANGED outbox
  /\ UNCHANGED <<run, heard, counter, connection, lock, deliveryUpsets>> /\ SameHistory

\* sendConnectInvite holds the row's lock from its look at the connection to the end.
InviteLock(d) ==
  LET r == Mine(d) IN
  /\ At(d, "lock") /\ lock = Free
  /\ \/ /\ connection.status # "pending"
        /\ outbox' = [outbox EXCEPT ![r].status = IF @ = "none" THEN @ ELSE "failed"]
        /\ NextRow(d) /\ UNCHANGED lock
     \/ /\ connection.status = "pending" /\ outbox[r].status = "none"
        /\ NextRow(d) /\ UNCHANGED <<outbox, lock>>
     \/ /\ connection.status = "pending" /\ outbox[r].status # "none"
        /\ lock' = d /\ GoTo(d, "send") /\ UNCHANGED outbox
  /\ UNCHANGED <<run, heard, counter, connection, deliveryUpsets>> /\ SameHistory

Unlocked(d) == IF lock = d THEN Free ELSE lock

\* The platform took the message.
Taken(r) == accepted' = [accepted EXCEPT ![r] = @ + 1]

InDoubt(r) == doubts' = [doubts EXCEPT ![r] = @ + 1]

\* An invite that the platform refuses stays marked as sent.
SendRow(d) ==
  LET r == Mine(d) IN
  /\ At(d, "send")
  /\ \/ /\ Taken(r) /\ GoTo(d, "record")
        /\ UNCHANGED <<lock, givenUp, deliveryUpsets>>
     \/ /\ DeliveryFault("refuse") /\ UNCHANGED accepted
        /\ \/ /\ IsInvite(r) /\ lock' = Unlocked(d) /\ NextRow(d)
              /\ givenUp' = givenUp \union {r}
           \/ ~IsInvite(r) /\ GoTo(d, "catch") /\ UNCHANGED <<lock, givenUp>>
  /\ UNCHANGED <<outbox, run, heard, counter, connection, doubts>>

\* The platform answers and its handle is written; that ends an invite's transaction.
\* Without the one or the other an invite stays marked as sent.
RecordHandle(d) ==
  LET r == Mine(d) IN
  /\ At(d, "record")
  /\ \/ /\ outbox' = [outbox EXCEPT ![r].handle = outbox[r].status # "none"]
        /\ IF ToGroup(r) THEN NextRow(d) ELSE GoTo(d, "count")
        /\ lock' = Unlocked(d) /\ UNCHANGED <<doubts, deliveryUpsets>>
     \/ /\ DeliveryFault("lost") /\ lock' = Unlocked(d) /\ UNCHANGED outbox
        /\ \/ IsInvite(r) /\ NextRow(d) /\ UNCHANGED doubts
           \/ ~IsInvite(r) /\ InDoubt(r) /\ GoTo(d, "catch")
  /\ UNCHANGED <<run, heard, counter, connection, accepted, givenUp>>

\* A failure here is caught for invites too.
CountRow(d) ==
  /\ At(d, "count")
  /\ \/ counter' = counter + 1 /\ NextRow(d) /\ UNCHANGED <<doubts, deliveryUpsets>>
     \/ DeliveryFault("lost") /\ InDoubt(Mine(d)) /\ GoTo(d, "catch") /\ UNCHANGED counter
  /\ UNCHANGED <<outbox, run, heard, connection, lock, accepted, givenUp>>

Exhausted(n) == n >= MaxAttempts

\* Counted from the attempts the call read.
AttemptsOf(d, r) == drain[d].attempts[r] + 1

\* Back to pending for a later attempt.
CatchFailure(d) ==
  LET r == Mine(d)
      n == AttemptsOf(d, r)
  IN
  /\ At(d, "catch")
  /\ outbox' = IF outbox[r].status = "none" THEN outbox
               ELSE [outbox EXCEPT ![r].attempts = n, ![r].later = ~Exhausted(n),
                                   ![r].status = IF Exhausted(n) THEN "failed" ELSE "pending"]
  /\ NextRow(d)
  /\ UNCHANGED <<run, heard, counter, connection, lock, deliveryUpsets>> /\ SameHistory

-----------------------------------------------------------------------------
(* The owner, the platform's notices, time and crashes *)

\* A message of the owner.
Inbound ==
  /\ counter > 0
  /\ counter' = 0
  /\ UNCHANGED <<outbox, run, heard, connection, lock, drain, accepted, doubts, givenUp,
                 deliveryUpsets>>

\* applyMessagingOutboundStatus: by the handle of a message.
StatusNotice ==
  /\ \E r \in Ids, status \in {"sent", "failed"} :
       outbox[r].handle /\ outbox' = [outbox EXCEPT ![r].status = status]
  /\ UNCHANGED <<run, heard, counter, connection, lock, drain, deliveryUpsets>> /\ SameHistory

Remove(rows) == [r \in Ids |-> IF r \in rows THEN NoRow ELSE outbox[r]]

\* The earlier request's invite goes: the key is the same.
NewInvite(c) == [Remove(Cycles) EXCEPT ![c] = NewRow]

\* connectAgent.
Connect ==
  LET c == connection.cycle + 1 IN
  /\ connection.status \in {"none", "declined", "revoked"} /\ connection.cycle < MaxCycles
  /\ lock = Free
  /\ connection' = [status |-> "pending", cycle |-> c]
  /\ outbox' = NewInvite(c)
  /\ UNCHANGED <<run, heard, counter, lock, drain, deliveryUpsets>> /\ SameHistory

\* connections.respond, respondAgentConnection and the owner's YES or NO.
Respond ==
  /\ connection.status = "pending"
  /\ lock = Free
  /\ \E status \in {"approved", "declined"} : connection' = [connection EXCEPT !.status = status]
  /\ UNCHANGED <<outbox, run, heard, counter, lock, drain, deliveryUpsets>> /\ SameHistory

\* (wrong: the row's lock is not waited for)
RevokeUnlocked == connection.status # "none"

MayRevoke == connection.status # "none" /\ lock = Free

\* connections.revoke: with the invites that were not delivered.
Revoke ==
  /\ MayRevoke
  /\ connection' = [connection EXCEPT !.status = "revoked"]
  /\ outbox' = Remove({c \in Cycles : \/ outbox[c].status = "pending"
                                      \/ outbox[c].status = "sent" /\ ~outbox[c].handle})
  /\ UNCHANGED <<run, heard, counter, lock, drain, deliveryUpsets>> /\ SameHistory

BackoffEnds ==
  /\ \E r \in Ids : outbox[r].later /\ outbox' = [outbox EXCEPT ![r].later = FALSE]
  /\ UNCHANGED <<run, heard, counter, connection, lock, drain, deliveryUpsets>> /\ SameHistory

\* What the database held for the call is rolled back; the job is delivered again.
DeliveryCrash(d) ==
  /\ ~At(d, "idle")
  /\ DeliveryFault("crash")
  /\ drain' = [drain EXCEPT ![d] = IdleDrain]
  /\ lock' = Unlocked(d)
  /\ givenUp' = IF Mine(d) \in Ids /\ accepted[Mine(d)] = 0 THEN givenUp \union {Mine(d)} ELSE givenUp
  /\ UNCHANGED <<outbox, run, heard, counter, connection, accepted, doubts>>

MirrorStep(d) == MirrorRead(d) \/ MirrorWrite(d) \/ MirrorPeers(d) \/ MarkMirrored(d)

DrainStep(d) ==
  \/ DrainRead(d) \/ DrainClaim(d) \/ DrainPrepare(d) \/ InviteLock(d)
  \/ SendRow(d) \/ RecordHandle(d) \/ CountRow(d) \/ CatchFailure(d)

DeliveryNext ==
  \/ PublishText \/ AskUser \/ AnswerAsk \/ CompleteRun
  \/ \E d \in Drains : \/ StartMirror(d) \/ MirrorStep(d)
                       \/ StartDrain(d) \/ DrainStep(d) \/ DeliveryCrash(d)
  \/ Inbound \/ StatusNotice \/ Connect \/ Respond \/ Revoke \/ BackoffEnds

DeliverySpec == DeliveryInit /\ [][DeliveryNext]_deliveryVars

-----------------------------------------------------------------------------
(* Properties *)

\* The rows, the run, the connection and the calls keep their types.
DeliveryTypeOK ==
  /\ outbox \in [Ids -> Row] /\ run \in Run /\ heard \subseteq Texts /\ counter \in Nat
  /\ connection \in Connection /\ lock \in Drains \union {Free}
  /\ drain \in [Drains -> Drain]
  /\ accepted \in [Ids -> Nat] /\ doubts \in [Ids -> Nat]
  /\ givenUp \subseteq Ids /\ deliveryUpsets \in Nat

\* The platform is given a message once, however many drains there are and wherever
\* one dies, and once more for each time its answer was lost or not written; an
\* invite not even when its answer was lost ("concurrent drains and crash retries must
\* never deliver the same message twice"; "do not ask drain to retry").
DeliveredOnce == \A r \in Ids : accepted[r] <= 1 + doubts[r]

InHand(r) == \E d \in Drains : Mine(d) = r

\* A row that says sent, and that nobody works on, was taken by the platform; only a
\* crash between claim and send, or a refused invite, loses one.
SentIsTaken ==
  \A r \in Ids : outbox[r].status = "sent" /\ ~InHand(r) => accepted[r] > 0 \/ r \in givenUp

\* An invite reaches the owner only while the connection asks for it: a revocation
\* waits for a send or prevents it.
InviteWhilePending ==
  [][\A c \in Cycles : accepted'[c] # accepted[c] =>
        connection.status = "pending" /\ c = connection.cycle]_deliveryVars

\* In a channel nothing the run wrote after a private answer is posted, or shown to
\* other bots, whenever the mirror reads the run.
PrivateStaysPrivate ==
  run.channel => \A t \in run.private : outbox[t].status = "none" /\ t \notin heard

-----------------------------------------------------------------------------
(* Liveness *)

\* Calls go on, the reconciler has rows drained that are due, and time passes.
DeliveryFairness ==
  /\ \A d \in Drains : WF_deliveryVars(MirrorStep(d) \/ DrainStep(d))
  /\ SF_deliveryVars(\E d \in Drains : StartDrain(d))
  /\ WF_deliveryVars(BackoffEnds)

\* A row does not wait for ever, unless the owner has to write first.
RowsAreSettled ==
  \A r \in Ids : []<>(outbox[r].status # "pending" \/ counter >= OutboundCap)
=============================================================================
