------------------------------ MODULE Mailbox ------------------------------
(***************************************************************************)
(* What a conversation promises its user, whatever workers do: a message   *)
(* that was accepted stays in the inbox until a run that took it up ends   *)
(* or the user stops or clears the conversation, and as long as there is   *)
(* mail the bot is at work on it.  No mail waits beside an idle bot.       *)
(***************************************************************************)
EXTENDS Naturals

CONSTANT MaxMessages

VARIABLES
  accepted,  \* messages accepted so far
  inbox,     \* those not yet dealt with
  busy       \* whether the bot has a run

mailVars == <<accepted, inbox, busy>>

Init == accepted = 0 /\ inbox = {} /\ busy = FALSE

\* A message is accepted and the bot is, or becomes, busy with it.
Accept ==
  /\ accepted < MaxMessages
  /\ accepted' = accepted + 1
  /\ inbox' = inbox \union {accepted'}
  /\ busy' = TRUE

\* A message that answers the bot's question is used up at once.
AcceptAnswer ==
  /\ accepted < MaxMessages
  /\ busy
  /\ accepted' = accepted + 1
  /\ UNCHANGED <<inbox, busy>>

\* Mail is dealt with; the bot may rest only when none is left.
Settle ==
  /\ busy
  /\ inbox' \subseteq inbox
  /\ busy' \in BOOLEAN
  /\ inbox' # {} => busy'
  /\ UNCHANGED accepted

Next == Accept \/ AcceptAnswer \/ Settle

Spec == Init /\ [][Next]_mailVars
=============================================================================
