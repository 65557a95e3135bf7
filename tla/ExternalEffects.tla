---------------------------- MODULE ExternalEffects ----------------------------
(***************************************************************************)
(* The actions a bot takes outside, and the user's approval of them: the   *)
(* external_effects rows of one run, the attempts that work on it, and the *)
(* cards the user answers.  A request is a tool with its arguments; the    *)
(* same request made again in an attempt has a row of its own.             *)
(***************************************************************************)
EXTENDS Naturals, Sequences

CONSTANTS
  Workers,          \* the workers that may take the run
  Requests, Tools,  \* the requests the model makes, and the tools of the run
  ToolOf,           \* the tool of a request
  MaxRepeats,       \* bound: how often an attempt makes the same request
  MaxAttemptFence,  \* bound: how many attempts there are
  MaxEffectUpsets   \* bound: how many crashes and stalls there are

ASSUME EffectConstants ==
  /\ ToolOf \in [Requests -> Tools]
  /\ MaxRepeats \in Nat \ {0} /\ MaxAttemptFence \in Nat \ {0} /\ MaxEffectUpsets \in Nat

VARIABLES
  policy,        \* what the tools are, and what a review says of each request
  rules,         \* the user's approval rule for each tool
  effect,        \* the status of each row
  order,         \* the rows in the order they were made
  run,           \* the run: who leases it, and the card it waits with
  worker,        \* the locals of each attempt
  answering,     \* the answer whose transaction is under way
  told,          \* what the user said of each row
  ran,           \* how often each row's action was taken
  effectUpsets

effectVars == <<policy, rules, effect, order, run, worker, answering, told, ran, effectUpsets>>

Keys == Requests \X (0..(MaxRepeats - 1))

EffectStatus == {"none", "intended", "approved", "denied", "executing", "completed", "uncertain"}

\* mandatory: no rule can allow it; consequential: it asks, is reviewed, or is claimed.
Kinds   == {"mandatory", "consequential", "harmless"}
Rules   == {"none", "require_approval", "always_allow"}
Answers == {"allow", "always", "deny"}

\* off: auto review is not configured; an error of the checker is an ask.
Policy == [kind : [Tools -> Kinds], review : [Requests -> {"off", "pass", "ask"}]]

Run == [status : {"queued", "running", "waiting_input", "completed", "failed", "cancelled"},
        fence : 0..MaxAttemptFence, card : Keys \union {<<>>}]

Places == {"idle", "load", "think", "record", "create", "gate", "settle", "claim", "pause",
           "execute", "complete"}

\* replay: the approved requests still to be made; used: how often each request was
\* made; seen: the status the call found, none if it made the row.
Worker == [at : Places, fence : 0..MaxAttemptFence, replay : Seq(Requests),
           used : [Requests -> 0..MaxRepeats], rules : [Tools -> Rules],
           key : Keys \union {<<>>}, seen : EffectStatus, claimed : BOOLEAN]

IdleWorker == [at |-> "idle", fence |-> 0, replay |-> <<>>, used |-> [r \in Requests |-> 0],
               rules |-> [t \in Tools |-> "none"], key |-> <<>>, seen |-> "none",
               claimed |-> FALSE]

EffectInit ==
  /\ policy \in Policy
  /\ rules \in [Tools -> Rules]
  /\ effect = [k \in Keys |-> "none"] /\ order = <<>>
  /\ run = [status |-> "queued", fence |-> 0, card |-> <<>>]
  /\ worker = [w \in Workers |-> IdleWorker]
  /\ answering = "none" /\ told = [k \in Keys |-> "none"]
  /\ ran = [k \in Keys |-> 0] /\ effectUpsets = 0

At(w, place)   == worker[w].at = place
GoTo(w, place) == worker' = [worker EXCEPT ![w].at = place]
Exit(w)        == worker' = [worker EXCEPT ![w] = IdleWorker]
Key(w)         == worker[w].key

\* Back to the model, with a result or an error.
Return(w) == worker' = [worker EXCEPT ![w].at = "think", ![w].key = <<>>,
                                      ![w].seen = "none", ![w].claimed = FALSE]

Leases(w)  == run.status = "running" /\ run.fence = worker[w].fence
Owned      == \E w \in Workers : ~At(w, "idle") /\ Leases(w)

EffectUpset == effectUpsets < MaxEffectUpsets /\ effectUpsets' = effectUpsets + 1

World == <<policy, rules, answering, told>>

-----------------------------------------------------------------------------
(* The attempt *)

\* A run whose lease ran out is taken over; its owner may live, and be only slow.
StartAttempt(w) ==
  /\ At(w, "idle")
  /\ run.status \in {"queued", "running"} /\ run.fence < MaxAttemptFence
  /\ IF Owned THEN EffectUpset ELSE UNCHANGED effectUpsets
  /\ run' = [run EXCEPT !.status = "running", !.fence = @ + 1, !.card = <<>>]
  /\ worker' = [worker EXCEPT ![w].at = "load", ![w].fence = run.fence + 1]
  /\ UNCHANGED <<World, effect, order, ran>>

\* The approved rows, oldest first, are to be made again before anything else.
Approved == LET rows == SelectSeq(order, LAMBDA k : effect[k] = "approved")
            IN [i \in DOMAIN rows |-> rows[i][1]]

LoadApproved(w) ==
  /\ At(w, "load")
  /\ worker' = [worker EXCEPT ![w].at = "think", ![w].replay = Approved, ![w].rules = rules]
  /\ UNCHANGED <<World, effect, order, run, ran, effectUpsets>>

\* A call of the approved tool is given the approved arguments; any other is refused.
Call(w) ==
  /\ At(w, "think")
  /\ \E c, r \in Requests :
       /\ r = IF worker[w].replay = <<>> THEN c ELSE Head(worker[w].replay)
       /\ ToolOf[r] = ToolOf[c]
       /\ worker[w].used[r] < MaxRepeats
       /\ worker' = [worker EXCEPT
            ![w].at = "record", ![w].key = <<r, worker[w].used[r]>>,
            ![w].used[r] = @ + 1, ![w].replay = IF @ = <<>> THEN @ ELSE Tail(@)]
  /\ UNCHANGED <<World, effect, order, run, ran, effectUpsets>>

RecordEffect(w) ==
  /\ At(w, "record")
  /\ worker' = [worker EXCEPT ![w].at = IF effect[Key(w)] = "none" THEN "create" ELSE "gate",
                              ![w].seen = effect[Key(w)]]
  /\ UNCHANGED <<World, effect, order, run, ran, effectUpsets>>

\* The key is unique: a row another attempt made meanwhile fails the call.
CreateEffect(w) ==
  /\ At(w, "create")
  /\ \/ /\ effect[Key(w)] = "none"
        /\ effect' = [effect EXCEPT ![Key(w)] = "intended"]
        /\ order' = Append(order, Key(w))
        /\ GoTo(w, "gate")
     \/ effect[Key(w)] # "none" /\ Return(w) /\ UNCHANGED <<effect, order>>
  /\ UNCHANGED <<World, run, ran, effectUpsets>>

-----------------------------------------------------------------------------
(* The gate *)

KindOf(r)         == policy.kind[ToolOf[r]]
Consequential(r)  == KindOf(r) # "harmless"

\* The rules of a tool win over the review; a review is saved with the row and asked for once.
Asks(r, rule) ==
  \/ KindOf(r) = "mandatory" \/ rule = "require_approval"
  \/ rule = "none" /\ KindOf(r) = "consequential" /\ policy.review[r] = "ask"

\* (wrong: a row that is there was asked about)
NeedsNoSecond(w) == worker[w].seen = "none" /\ Asks(Key(w)[1], worker[w].rules[ToolOf[Key(w)[1]]])

NeedsApproval(w) == Asks(Key(w)[1], worker[w].rules[ToolOf[Key(w)[1]]])

Settled == {"completed", "denied", "uncertain"}

\* Where a call goes with the row it found (none: it made it).
AfterGate(w) ==
  LET seen == worker[w].seen IN
  CASE seen \in Settled        -> "think"
    [] seen = "executing"      -> "settle"
    [] seen = "approved"       -> "claim"
    [] seen \in {"intended", "none"} /\ NeedsApproval(w) -> "pause"
    [] seen = "intended" /\ ~NeedsApproval(w) -> "claim"
    [] OTHER -> IF Consequential(Key(w)[1]) THEN "claim" ELSE "execute"

Gate(w) ==
  /\ At(w, "gate")
  /\ IF AfterGate(w) = "think" THEN Return(w) ELSE GoTo(w, AfterGate(w))
  /\ UNCHANGED <<World, effect, order, run, ran, effectUpsets>>

\* settleUncertainEffect: what was interrupted is not made again.
Settle(w) ==
  /\ At(w, "settle")
  /\ effect' = [effect EXCEPT ![Key(w)] = IF @ = "executing" THEN "uncertain" ELSE @]
  /\ Return(w)
  /\ UNCHANGED <<World, order, run, ran, effectUpsets>>

\* (wrong: the row is claimed as it was read)
ClaimableAsSeen(w) == worker[w].seen \in {"approved", "intended", "none"}

Claimable(w) == effect[Key(w)] = IF worker[w].seen = "approved" THEN "approved" ELSE "intended"

\* claimOrReturn: a row that is no longer as it was read is returned, settled or an error.
ClaimEffect(w) ==
  /\ At(w, "claim")
  /\ \/ /\ Claimable(w)
        /\ effect' = [effect EXCEPT ![Key(w)] = "executing"]
        /\ worker' = [worker EXCEPT ![w].at = "execute", ![w].claimed = TRUE]
     \/ /\ ~Claimable(w) /\ UNCHANGED effect
        /\ IF effect[Key(w)] = "executing" THEN GoTo(w, "settle") ELSE Return(w)
  /\ UNCHANGED <<World, order, run, ran, effectUpsets>>

\* (wrong: a run that another worker leases is paused)
MayPauseAny(w) == run.status = "running"

MayPause(w) == Leases(w)

\* requestApproval: the card, the run's state and its lease in one transaction.
PauseForApproval(w) ==
  /\ At(w, "pause")
  /\ run' = IF MayPause(w) THEN [run EXCEPT !.status = "waiting_input", !.card = Key(w)] ELSE run
  /\ Exit(w)
  /\ UNCHANGED <<World, effect, order, ran, effectUpsets>>

Execute(w) ==
  /\ At(w, "execute")
  /\ ran' = [ran EXCEPT ![Key(w)] = @ + 1]
  /\ GoTo(w, "complete")
  /\ UNCHANGED <<World, effect, order, run, effectUpsets>>

\* completeExternalEffect: a row that was settled meanwhile keeps what it says.
CompleteEffect(w) ==
  LET expected == IF worker[w].claimed THEN "executing" ELSE "intended" IN
  /\ At(w, "complete")
  /\ effect' = [effect EXCEPT ![Key(w)] = IF @ = expected THEN "completed" ELSE @]
  /\ Return(w)
  /\ UNCHANGED <<World, order, run, ran, effectUpsets>>

\* assertDrained: a turn that left an approved request out fails.
EndTurn(w) ==
  /\ At(w, "think")
  /\ run' = IF Leases(w)
              THEN [run EXCEPT !.status = IF worker[w].replay = <<>> THEN "completed" ELSE "failed"]
              ELSE run
  /\ Exit(w)
  /\ UNCHANGED <<World, effect, order, ran, effectUpsets>>

\* The heartbeat finds the lease gone, or the worker dies.
StopAttempt(w) ==
  /\ ~At(w, "idle")
  /\ IF Leases(w) THEN EffectUpset ELSE UNCHANGED effectUpsets
  /\ Exit(w)
  /\ UNCHANGED <<World, effect, order, run, ran>>

-----------------------------------------------------------------------------
(* The user *)

\* commitAnswerRunInput reads the run and the row under no lock they share with a claim ...
AnswerRead ==
  /\ answering = "none"
  /\ run.status = "waiting_input" /\ effect[run.card] = "intended"
  /\ answering' \in Answers
  /\ UNCHANGED <<policy, rules, effect, order, run, worker, told, ran, effectUpsets>>

\* ... and writes the row by its id, if the run still waits.  A rule that asks for the
\* tool outweighs the one that "Always allow" adds.
AnswerCommit ==
  LET k == run.card IN
  /\ answering # "none"
  /\ answering' = "none"
  /\ \/ /\ run.status = "waiting_input"
        /\ run' = [run EXCEPT !.status = "queued", !.card = <<>>]
        /\ effect' = [effect EXCEPT ![k] = IF answering = "deny" THEN "denied" ELSE "approved"]
        /\ told' = [told EXCEPT ![k] = IF answering = "deny" THEN "denied" ELSE "approved"]
        /\ rules' = IF answering = "always"
                      THEN [rules EXCEPT ![ToolOf[k[1]]] = IF @ = "none" THEN "always_allow" ELSE @]
                      ELSE rules
     \/ run.status # "waiting_input" /\ UNCHANGED <<run, effect, told, rules>>
  /\ UNCHANGED <<policy, order, worker, ran, effectUpsets>>

StopRun ==
  /\ run.status \in {"queued", "running", "waiting_input"}
  /\ run' = [run EXCEPT !.status = "cancelled"]
  /\ UNCHANGED <<World, effect, order, worker, ran, effectUpsets>>

EffectNext ==
  \/ \E w \in Workers :
       \/ StartAttempt(w) \/ LoadApproved(w) \/ Call(w) \/ RecordEffect(w) \/ CreateEffect(w)
       \/ Gate(w) \/ Settle(w) \/ ClaimEffect(w) \/ PauseForApproval(w) \/ Execute(w)
       \/ CompleteEffect(w) \/ EndTurn(w) \/ StopAttempt(w)
  \/ AnswerRead \/ AnswerCommit \/ StopRun

EffectSpec == EffectInit /\ [][EffectNext]_effectVars

-----------------------------------------------------------------------------
(* Properties *)

\* The rows, the run and the attempts keep their types.
EffectTypeOK ==
  /\ policy \in Policy /\ rules \in [Tools -> Rules]
  /\ effect \in [Keys -> EffectStatus] /\ order \in Seq(Keys)
  /\ run \in Run /\ worker \in [Workers -> Worker]
  /\ answering \in Answers \union {"none"}
  /\ told \in [Keys -> {"none", "approved", "denied"}]
  /\ ran \in [Keys -> Nat] /\ effectUpsets \in Nat

\* A consequential action is taken once for its row, whichever attempts meet over it
\* and wherever one dies ("It was not replayed to avoid a duplicate side effect").
TakenOnce == \A k \in Keys : Consequential(k[1]) => ran[k] <= 1

\* What the user denied is never done, and what needs the user's approval is done only
\* after it; an earlier "Always allow" of the tool is one.
ConsentFirst ==
  \A k \in Keys : ran[k] > 0 =>
    /\ told[k] # "denied"
    /\ Asks(k[1], rules[ToolOf[k[1]]]) => told[k] = "approved"

\* A run that waits can be answered: its card's row is undecided, and no attempt that
\* lost the run decides it.
CardIsAnswerable == run.status = "waiting_input" => effect[run.card] = "intended"

\* A completed run has made every request the user approved ("Approved tool requests
\* were not fully replayed" otherwise).
ApprovedIsReplayed == run.status = "completed" => \A k \in Keys : effect[k] # "approved"
=============================================================================
