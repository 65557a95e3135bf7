---------------------------- MODULE RunLifecycle ----------------------------
(***************************************************************************)
(* The life of the runs of one conversation (one thread and one bot): a    *)
(* user message becomes a queued run, a job wakes a worker, the worker's   *)
(* continueRun claims the run, works on it under a lease and ends the turn *)
(* by finalizing it, by pausing it for the user's input or by putting it   *)
(* back in the queue.  A message sent while the bot is busy becomes        *)
(* STEERING: a row bound to the active run, read by the runtime between    *)
(* two turns, or carried over to a continuation run.                       *)
(*                                                                         *)
(* The run rows, the steering rows and the job queue live in Postgres and  *)
(* survive a worker.  What one call of continueRun keeps in its local      *)
(* variables is a HANDLER: a worker process runs several of them at once   *)
(* under one workerId.  A transaction that locks the thread row is one     *)
(* action; the statements of continueRun that are not in a transaction     *)
(* are separate actions, and anything may happen between them.             *)
(*                                                                         *)
(* The lease of the computer (busy, lost) and the runtime (which tool, how *)
(* long) are nondeterministic here.  The takeover pause is left to a       *)
(* module of its own.                                                      *)
(*                                                                         *)
(* A definition marked "(wrong: ...)" is a variant with a bug that the code *)
(* could have had; no action uses it.  It stands in for the definition     *)
(* after it when the properties themselves are put to the test.            *)
(***************************************************************************)
EXTENDS Naturals

CONSTANTS
  Runs,         \* the run rows that may be created
  Handlers,     \* the calls of continueRun that may be under way
  Workers,      \* the worker processes (workerId)
  WorkerOf,     \* the process a handler belongs to
  MaxMessages,  \* bound: how many messages the user sends
  MaxUpsets,    \* bound: crashes, lapses, busy computers, lost wakes, asks...
  ParallelRuns, \* whether triggers that do not wait for a busy bot are used
  Teaching,     \* whether the user starts teaching sessions with the bot
  NoRun, NoOwner

ASSUME WorkerOfType  == WorkerOf \in [Handlers -> Workers]
ASSUME BoundsNat     == MaxMessages \in Nat /\ MaxUpsets \in Nat
ASSUME SwitchesBool  == ParallelRuns \in BOOLEAN /\ Teaching \in BOOLEAN
ASSUME NullsAreNew   == NoRun \notin Runs /\ NoOwner \notin Workers

VARIABLES
  run,       \* the run table
  sent,      \* user messages stored so far; message m has sequence number m
  steering,  \* the steering table, one row per message at most
  jobs,      \* runs with a run.continue job pending or about to be enqueued
  handler,   \* local state of each call of continueRun
  history,   \* runs with output in the thread since it was last cleared
  upsets     \* how much of the fault budget is spent

vars == <<run, sent, steering, jobs, handler, history, upsets>>

-----------------------------------------------------------------------------
(* Rows and their types *)

Messages == 1..MaxMessages

ActiveStatuses   == {"queued", "leased", "running", "waiting_input"}
TerminalStatuses == {"completed", "failed", "cancelled"}
Statuses         == {"absent"} \union ActiveStatuses \union TerminalStatuses

\* leaseExpiresAt is kept as the answer to "leaseExpiresAt <= now": a null
\* expiry answers no.
RunRow == [status: Statuses, leaseOwner: Workers \union {NoOwner},
           leaseFence: Nat, expired: BOOLEAN, source: 0..MaxMessages]

SteeringRow == [live: BOOLEAN, run: Runs \union {NoRun}, claimed: BOOLEAN]

NoSteering == [live |-> FALSE, run |-> NoRun, claimed |-> FALSE]

\* Where a call of continueRun stands.
Places == {"idle", "observed", "claimed", "started", "setup", "begun",
           "working", "giving_up"}

\* The attempt row of a call under way; it gets its last status as the call ends.
Attempts == {"none", "running", "cancelled"}

HandlerState == [at: Places, run: Runs \union {NoRun}, seen: Statuses,
                 fence: Nat, attempt: Attempts, told: SUBSET Messages]

IdleHandler == [at |-> "idle", run |-> NoRun, seen |-> "absent", fence |-> 0,
                attempt |-> "none", told |-> {}]

TypeOK ==
  /\ run \in [Runs -> RunRow]
  /\ sent \in 0..MaxMessages
  /\ steering \in [Messages -> SteeringRow]
  /\ jobs \subseteq Runs
  /\ handler \in [Handlers -> HandlerState]
  /\ \A h \in Handlers : handler[h].at # "idle" => handler[h].run \in Runs
  /\ history \subseteq Runs
  /\ upsets \in Nat

Init ==
  /\ run = [r \in Runs |-> [status |-> "absent", leaseOwner |-> NoOwner,
                            leaseFence |-> 0, expired |-> FALSE, source |-> 0]]
  /\ sent = 0
  /\ steering = [m \in Messages |-> NoSteering]
  /\ jobs = {}
  /\ handler = [h \in Handlers |-> IdleHandler]
  /\ history = {}
  /\ upsets = 0

-----------------------------------------------------------------------------
(* Helpers *)

Active(r)    == run[r].status \in ActiveStatuses
ActiveRuns   == {r \in Runs : Active(r)}

\* (wrong: the status is left out of the compare-and-swap)
OwnsWhateverStatus(h) ==
  LET r == handler[h].run IN
  /\ run[r].leaseOwner = WorkerOf[h]
  /\ run[r].leaseFence = handler[h].fence

\* The compare-and-swap on status, leaseOwner and leaseFence that guards every
\* write a worker makes for the run it believes to hold.
Owns(h) ==
  LET r == handler[h].run IN
  /\ run[r].status = "running"
  /\ run[r].leaseOwner = WorkerOf[h]
  /\ run[r].leaseFence = handler[h].fence

\* (wrong: the check is left out)
CanAlwaysWriteHistory(r) == TRUE

\* assertRunCanWriteHistory: a run writes the thread unless it was cancelled.
CanWriteHistory(r) == run[r].status # "cancelled"

\* (wrong: a status the other code does not know)
NewRunPending(m) ==
  [status |-> "pending", leaseOwner |-> NoOwner, leaseFence |-> 0,
   expired |-> FALSE, source |-> m]

NewRun(m) ==
  [status |-> "queued", leaseOwner |-> NoOwner, leaseFence |-> 0,
   expired |-> FALSE, source |-> m]

\* The row after a write that gives the lease up.
Released(row, status) ==
  [row EXCEPT !.status = status, !.leaseOwner = NoOwner, !.expired = FALSE]

GoTo(h, place) == handler' = [handler EXCEPT ![h].at = place]

\* The call returns.  Its finally block gives the computer lease back and marks
\* an attempt that still runs as interrupted.
Leave(h)       == handler' = [handler EXCEPT ![h] = IdleHandler]

\* Spend one unit of the fault budget.
Upset == upsets < MaxUpsets /\ upsets' = upsets + 1

-----------------------------------------------------------------------------
(* The user, through the API *)

\* sendUserMessage, first branch: the bot is busy, so the message is bound to
\* an active run as steering.
SendToBusyBot ==
  /\ sent < MaxMessages
  /\ \E busy \in ActiveRuns :
       steering' = [steering EXCEPT ![sent + 1] =
                      [live |-> TRUE, run |-> busy, claimed |-> FALSE]]
  /\ sent' = sent + 1
  /\ UNCHANGED <<run, jobs, handler, history, upsets>>

\* (wrong: the busy bot is never looked for)
SendStartsRunAnyway ==
  /\ sent < MaxMessages
  /\ \E r \in Runs :
       /\ run[r].status = "absent"
       /\ run' = [run EXCEPT ![r] = NewRun(sent + 1)]
       /\ jobs' = jobs \union {r}
  /\ sent' = sent + 1
  /\ UNCHANGED <<steering, handler, history, upsets>>

\* sendUserMessage, second branch: a run is created for the message, and the
\* API means to wake a worker for it.  With allowParallelRun (messaging, team
\* chat, webhooks) the busy bot is not looked for.
SendStartsRun ==
  /\ sent < MaxMessages
  /\ ActiveRuns = {} \/ ParallelRuns
  /\ \E r \in Runs :
       /\ run[r].status = "absent"
       /\ run' = [run EXCEPT ![r] = NewRun(sent + 1)]
       /\ jobs' = jobs \union {r}
  /\ sent' = sent + 1
  /\ UNCHANGED <<steering, handler, history, upsets>>

\* answerRunInput: a waiting run goes back to the queue and is woken.
AnswerRunInput(r) ==
  /\ run[r].status = "waiting_input"
  /\ run' = [run EXCEPT ![r].status = "queued"]
  /\ jobs' = jobs \union {r}
  /\ UNCHANGED <<sent, steering, handler, history, upsets>>

\* sendThreadMessage while the bot waits: the text answers every waiting run.
AnswerWithMessage ==
  LET waiting == {r \in Runs : run[r].status = "waiting_input"} IN
  /\ sent < MaxMessages
  /\ waiting # {}
  /\ run' = [r \in Runs |->
               IF r \in waiting THEN [run[r] EXCEPT !.status = "queued"]
                                ELSE run[r]]
  /\ sent' = sent + 1
  /\ jobs' = jobs \union waiting
  /\ UNCHANGED <<steering, handler, history, upsets>>

\* stopThreadRuns: every active run of the thread is cancelled and the pending
\* steering is discarded.  The lease columns are left as they are.
StopThreadRuns ==
  /\ ActiveRuns # {}
  /\ run' = [r \in Runs |->
               IF Active(r) THEN [run[r] EXCEPT !.status = "cancelled"]
                            ELSE run[r]]
  /\ steering' = [m \in Messages |-> NoSteering]
  /\ UNCHANGED <<sent, jobs, handler, history, upsets>>

\* cancelActiveRuns, as a teaching session begins: the same, but the steering is
\* left bound to the cancelled runs.
StartTeaching ==
  /\ Teaching
  /\ ActiveRuns # {}
  /\ run' = [r \in Runs |->
               IF Active(r) THEN [run[r] EXCEPT !.status = "cancelled"]
                            ELSE run[r]]
  /\ UNCHANGED <<sent, steering, jobs, handler, history, upsets>>

\* (wrong: the attempts are cancelled, and the runs only if no worker has them)
ClearThreadKeepsRunning ==
  /\ sent > 0
  /\ run' = [r \in Runs |->
               LET row == [run[r] EXCEPT !.source = 0]
               IN  IF run[r].status \in {"queued", "waiting_input"}
                   THEN Released(row, "cancelled") ELSE row]
  /\ handler' = [h \in Handlers |->
                   IF handler[h].attempt = "running"
                   THEN [handler[h] EXCEPT !.attempt = "cancelled"]
                   ELSE handler[h]]
  /\ steering' = [m \in Messages |-> NoSteering]
  /\ history' = {}
  /\ UNCHANGED <<sent, jobs, upsets>>

\* clearThread: the active runs and their running attempts are cancelled, and
\* every message goes, with it its steering row (cascade), the output of the
\* bot and the link from a run to its source message (set null).
ClearThread ==
  /\ sent > 0
  /\ run' = [r \in Runs |->
               LET row == [run[r] EXCEPT !.source = 0]
               IN  IF Active(r) THEN Released(row, "cancelled") ELSE row]
  /\ handler' = [h \in Handlers |->
                   IF /\ handler[h].at # "idle"
                      /\ Active(handler[h].run)
                      /\ handler[h].attempt = "running"
                   THEN [handler[h] EXCEPT !.attempt = "cancelled"]
                   ELSE handler[h]]
  /\ steering' = [m \in Messages |-> NoSteering]
  /\ history' = {}
  /\ UNCHANGED <<sent, jobs, upsets>>

-----------------------------------------------------------------------------
(* The worker: one call of continueRun *)

\* A job is delivered.  The run is read here, and the fence the call will write
\* is computed from this read; a terminal run needs nothing.
Deliver(h, r) ==
  /\ handler[h].at = "idle"
  /\ r \in jobs
  /\ jobs' = jobs \ {r}
  /\ IF Active(r)
       THEN handler' = [handler EXCEPT ![h] =
              [IdleHandler EXCEPT !.at = "observed", !.run = r,
                 !.seen = run[r].status, !.fence = run[r].leaseFence + 1]]
       ELSE UNCHANGED handler
  /\ UNCHANGED <<run, sent, steering, history, upsets>>

\* What the claim's WHERE clause asks: the status that was read, and a run that
\* nobody holds or whose lease has lapsed.  It does not ask for the fence.
Claimable(h) ==
  LET row == run[handler[h].run] IN
  /\ row.status = handler[h].seen
  /\ \/ row.status \in {"queued", "waiting_input"}
     \/ row.status \in {"leased", "running"} /\ row.expired

Claim(h) ==
  /\ handler[h].at = "observed"
  /\ IF Claimable(h)
       THEN /\ run' = [run EXCEPT ![handler[h].run] =
                 [@ EXCEPT !.status = "leased", !.leaseOwner = WorkerOf[h],
                           !.leaseFence = handler[h].fence, !.expired = FALSE]]
            /\ GoTo(h, "claimed")
       ELSE Leave(h) /\ UNCHANGED run
  /\ UNCHANGED <<sent, steering, jobs, history, upsets>>

\* leased -> running.  If the run was given up meanwhile, assertTransition throws
\* and the job is retried; if it is another's, the call returns.
Start(h) ==
  LET r == handler[h].run IN
  /\ handler[h].at = "claimed"
  /\ \/ /\ run[r].status = "leased"
        /\ run[r].leaseOwner = WorkerOf[h]
        /\ run[r].leaseFence = handler[h].fence
        /\ run' = [run EXCEPT ![r].status = "running"]
        /\ GoTo(h, "started")
        /\ UNCHANGED jobs
     \/ /\ ~ (/\ run[r].status = "leased"
              /\ run[r].leaseOwner = WorkerOf[h]
              /\ run[r].leaseFence = handler[h].fence)
        /\ jobs' = IF run[r].status \in {"queued", "waiting_input"}
                    THEN jobs \union {r} ELSE jobs
        /\ Leave(h)
        /\ UNCHANGED run
  /\ UNCHANGED <<sent, steering, history, upsets>>

\* The computer is busy or being switched: the run is requeued if it is still
\* ours, and woken again later.
ComputerBusy(h) ==
  LET r == handler[h].run IN
  /\ handler[h].at = "started"
  /\ Upset
  /\ IF Owns(h)
       THEN /\ run' = [run EXCEPT ![r] = Released(@, "queued")]
            /\ jobs' = jobs \union {r}
       ELSE UNCHANGED <<run, jobs>>
  /\ Leave(h)
  /\ UNCHANGED <<sent, steering, history>>

\* An error before the attempt exists: nothing is undone, the lease stays until
\* it lapses, and the job is retried.
FailBeforeAttempt(h) ==
  /\ handler[h].at = "started"
  /\ Upset
  /\ jobs' = jobs \union {handler[h].run}
  /\ Leave(h)
  /\ UNCHANGED <<run, sent, steering, history>>

CreateAttempt(h) ==
  /\ handler[h].at = "started"
  /\ handler' = [handler EXCEPT ![h] =
                 [@ EXCEPT !.at = "setup", !.attempt = "running"]]
  /\ UNCHANGED <<run, sent, steering, jobs, history, upsets>>

\* The catch around the set-up: the run is requeued if it is still ours...
RequeueAfterSetupError(h) ==
  /\ handler[h].at \in {"setup", "begun"}
  /\ Upset
  /\ IF Owns(h)
       THEN /\ run' = [run EXCEPT ![handler[h].run] = Released(@, "queued")]
            /\ GoTo(h, "giving_up")
       ELSE Leave(h) /\ UNCHANGED run
  /\ UNCHANGED <<sent, steering, jobs, history>>

\* ... then, in a write of its own, run.failed goes into the thread (unless the
\* run was cancelled meanwhile, which throws).  The job is enqueued again or
\* retried.
RecordSetupError(h) ==
  LET r == handler[h].run IN
  /\ handler[h].at = "giving_up"
  /\ history' = IF CanWriteHistory(r) THEN history \union {r} ELSE history
  /\ jobs' = jobs \union {r}
  /\ Leave(h)
  /\ UNCHANGED <<run, sent, steering, upsets>>

\* run.started is appended; a cancelled run cannot write and the call ends.
Begin(h) ==
  LET r == handler[h].run IN
  /\ handler[h].at = "setup"
  /\ IF CanWriteHistory(r)
       THEN GoTo(h, "begun") /\ history' = history \union {r}
       ELSE Leave(h) /\ UNCHANGED history
  /\ UNCHANGED <<run, sent, steering, jobs, upsets>>

\* The rows claimSteering returns: bound to this run or to none, and not seen.
Offered(h) ==
  {m \in Messages : /\ steering[m].live
                    /\ steering[m].run \in {NoRun, handler[h].run}
                    /\ m \notin handler[h].told}

\* The call, told the offered rows.
Hearing(h) == [handler[h] EXCEPT !.at = "working", !.told = @ \union Offered(h)]

\* (wrong: claimedAt is not written)
ClaimSteeringUnmarked(h) ==
  /\ handler[h].at \in {"begun", "working"}
  /\ IF Owns(h)
       THEN /\ steering' = [m \in Messages |->
                 IF m \in Offered(h)
                 THEN [steering[m] EXCEPT !.run = handler[h].run]
                 ELSE steering[m]]
            /\ handler' = [handler EXCEPT ![h] = Hearing(h)]
       ELSE GoTo(h, "working") /\ UNCHANGED steering
  /\ UNCHANGED <<run, sent, jobs, history, upsets>>

\* claimSteering, called at the start of the turn and whenever the model would
\* stop.  All offered rows are returned; only those without claimedAt are
\* bound.  The runtime cannot end its turn before it has asked once.
ClaimSteering(h) ==
  /\ handler[h].at \in {"begun", "working"}
  /\ IF Owns(h)
       THEN /\ steering' = [m \in Messages |->
                 IF m \in Offered(h) /\ ~ steering[m].claimed
                 THEN [steering[m] EXCEPT !.run = handler[h].run,
                                          !.claimed = TRUE]
                 ELSE steering[m]]
            /\ handler' = [handler EXCEPT ![h] = Hearing(h)]
       ELSE GoTo(h, "working") /\ UNCHANGED steering
  /\ UNCHANGED <<run, sent, jobs, history, upsets>>

\* Output of the turn goes into the thread: no lease is checked, only that the
\* run was not cancelled, and in the transaction that holds the thread row.
Publish(h) ==
  LET r == handler[h].run IN
  /\ handler[h].at \in {"begun", "working"}
  /\ IF CanWriteHistory(r)
       THEN history' = history \union {r} /\ UNCHANGED handler
       ELSE Leave(h) /\ UNCHANGED history
  /\ UNCHANGED <<run, sent, steering, jobs, upsets>>

\* The heartbeat renews a lease that is still ours, lapsed or not.
RenewLease(h) ==
  /\ handler[h].at \in {"setup", "begun", "working"}
  /\ Owns(h)
  /\ run' = [run EXCEPT ![handler[h].run].expired = FALSE]
  /\ UNCHANGED <<sent, steering, jobs, handler, history, upsets>>

\* The heartbeat, the check between two events, or any guarded write finds that
\* the run is no longer ours.
NoticeLoss(h) ==
  /\ handler[h].at \in {"setup", "begun", "working"}
  /\ ~ Owns(h)
  /\ Leave(h)
  /\ UNCHANGED <<run, sent, steering, jobs, history, upsets>>

\* The lease of the computer is lost or the process is told to stop: the call
\* returns and leaves the run to its lease.
Abandon(h) ==
  /\ handler[h].at \in {"setup", "begun", "working"}
  /\ Upset
  /\ Leave(h)
  /\ UNCHANGED <<run, sent, steering, jobs, history>>

\* The model asks the user: the run waits, holding no lease.
PauseForInput(h) ==
  LET r == handler[h].run IN
  /\ handler[h].at = "working"
  /\ Upset
  /\ Owns(h)
  /\ run' = [run EXCEPT ![r] = Released(@, "waiting_input")]
  /\ Leave(h)
  /\ history' = history \union {r}
  /\ UNCHANGED <<sent, steering, jobs>>

\* (wrong: what was bound and not claimed is left bound)
SettledRowsStillBound(h) ==
  [m \in Messages |->
     IF steering[m].run = handler[h].run /\ steering[m].claimed
     THEN NoSteering ELSE steering[m]]

\* (wrong: what was bound and not claimed is settled with the rest)
SettledRowsUnread(h) ==
  [m \in Messages |->
     IF steering[m].run = handler[h].run THEN NoSteering ELSE steering[m]]

\* The steering rows when the run of h ends.  Completed: what was claimed is
\* settled, the rest is unbound.  Failed: only what is newer than the message
\* the run was made for is unbound (all, if that message is gone), and keeps
\* its claimedAt.
SettledRows(h) ==
  [m \in Messages |->
     IF steering[m].run # handler[h].run THEN steering[m]
     ELSE IF steering[m].claimed THEN NoSteering
     ELSE [steering[m] EXCEPT !.run = NoRun]]

UnboundRows(h) ==
  [m \in Messages |->
     IF steering[m].run = handler[h].run /\ m > run[handler[h].run].source
     THEN [steering[m] EXCEPT !.run = NoRun]
     ELSE steering[m]]

Pending(rows) == {m \in Messages : rows[m].live /\ rows[m].run = NoRun}

\* (wrong: no continuation is made)
ContinueNever(ended, rows) == run' = ended /\ steering' = rows /\ UNCHANGED jobs

\* createSteeringContinuation: when nothing else is active and steering is
\* pending, a run is created for its newest message and all of it is bound.
Continue(ended, rows) ==
  \/ /\ (\E r \in Runs : ended[r].status \in ActiveStatuses) \/ Pending(rows) = {}
     /\ run' = ended /\ steering' = rows
     /\ UNCHANGED jobs
  \/ /\ \A r \in Runs : ended[r].status \notin ActiveStatuses
     /\ \E c \in Runs, last \in Pending(rows) :
          /\ ended[c].status = "absent"
          /\ \A m \in Pending(rows) : m <= last
          /\ run' = [ended EXCEPT ![c] = NewRun(last)]
          /\ steering' = [m \in Messages |->
               IF m \in Pending(rows)
               THEN [live |-> TRUE, run |-> c, claimed |-> FALSE]
               ELSE rows[m]]
          /\ jobs' = jobs \union {c}

\* finalizeRun: one transaction, under the thread row, that ends the run and the
\* attempt, settles the steering and may start a continuation.
Finalize(h, outcome, rows) ==
  LET r == handler[h].run IN
  /\ Owns(h)
  /\ Continue([run EXCEPT ![r] = Released(@, outcome)], rows)
  /\ Leave(h)
  /\ history' = history \union {r}
  /\ UNCHANGED <<sent, upsets>>

CompleteRun(h) ==
  handler[h].at = "working" /\ Finalize(h, "completed", SettledRows(h))

FailRun(h) ==
  /\ handler[h].at \in {"setup", "begun", "working"}
  /\ Finalize(h, "failed", UnboundRows(h))

-----------------------------------------------------------------------------
(* Faults, time and the reconciler *)

\* A worker process dies with the calls under way.  Their jobs are delivered
\* again or not (the queue gives a dead worker's jobs out hours later).
Crash(w) ==
  LET its == {h \in Handlers : WorkerOf[h] = w /\ handler[h].at # "idle"} IN
  /\ its # {}
  /\ Upset
  /\ handler' = [h \in Handlers |-> IF h \in its THEN IdleHandler ELSE handler[h]]
  /\ jobs' \in {jobs \union back : back \in SUBSET {handler[h].run : h \in its}}
  /\ UNCHANGED <<run, sent, steering, history>>

\* Time passes without a heartbeat.  With no call that holds the run this is
\* bound to happen; with one it is a fault (a stalled process, a slow database).
LeaseLapses(r) ==
  /\ run[r].status \in {"leased", "running"}
  /\ ~ run[r].expired
  /\ IF \E h \in Handlers : handler[h].run = r /\ handler[h].at # "idle"
       THEN Upset
       ELSE UNCHANGED upsets
  /\ run' = [run EXCEPT ![r].expired = TRUE]
  /\ UNCHANGED <<sent, steering, jobs, handler, history>>

\* (wrong: only what a worker had is recovered)
RecoverableLeased(r) ==
  run[r].status \in {"leased", "running"} /\ run[r].expired

\* (wrong: a run whose worker died is not recovered)
RecoverableQueued(r) == run[r].status = "queued"

Recoverable(r) ==
  \/ run[r].status = "queued"
  \/ run[r].status \in {"leased", "running"} /\ run[r].expired

\* reconcileOnce: every queued run and every run whose lease lapsed is woken.
\* A job is keyed by its run, so a pending one is replaced.
Reconcile ==
  /\ jobs' = jobs \union {r \in Runs : Recoverable(r)}
  /\ UNCHANGED <<run, sent, steering, handler, history, upsets>>

\* The process dies, or the queue refuses, between the commit that made the run
\* runnable and the enqueue.
LoseWake(r) ==
  /\ r \in jobs
  /\ Upset
  /\ jobs' = jobs \ {r}
  /\ UNCHANGED <<run, sent, steering, handler, history>>

-----------------------------------------------------------------------------
(* The specification *)

User ==
  \/ SendToBusyBot
  \/ SendStartsRun
  \/ \E r \in Runs : AnswerRunInput(r)
  \/ AnswerWithMessage
  \/ StopThreadRuns
  \/ StartTeaching
  \/ ClearThread

\* What a live process does sooner or later with a call it has taken.
Step(h) ==
  \/ Claim(h)
  \/ Start(h)
  \/ CreateAttempt(h)
  \/ RecordSetupError(h)
  \/ Begin(h)
  \/ handler[h].at = "begun" /\ ClaimSteering(h)
  \/ NoticeLoss(h)
  \/ CompleteRun(h)

Worker(h) ==
  \/ \E r \in Runs : Deliver(h, r)
  \/ Step(h)
  \/ ComputerBusy(h)
  \/ FailBeforeAttempt(h)
  \/ RequeueAfterSetupError(h)
  \/ ClaimSteering(h)
  \/ Publish(h)
  \/ RenewLease(h)
  \/ Abandon(h)
  \/ PauseForInput(h)
  \/ FailRun(h)

World ==
  \/ \E w \in Workers : Crash(w)
  \/ \E r \in Runs : LeaseLapses(r) \/ LoseWake(r)
  \/ Reconcile

Next == User \/ World \/ \E h \in Handlers : Worker(h)

\* A process carries on with its calls and the turn of a model ends (tool and
\* model budgets bound it); the reconciler runs on its interval, an
\* abandoned lease lapses, and a worker with a free slot takes the
\* jobs of every run, none passed over for ever.
Fairness ==
  /\ \A h \in Handlers : WF_vars(Step(h))
  /\ WF_vars(Reconcile)
  /\ \A r \in Runs :
       /\ WF_vars(LeaseLapses(r))
       /\ SF_vars(\E h \in Handlers : Deliver(h, r))

Spec     == Init /\ [][Next]_vars
FairSpec == Spec /\ Fairness

-----------------------------------------------------------------------------
(* Properties *)

\* A bot works on one run at a time: a message sent to a busy bot, a
\* continuation and a resumed run never make a second one active.
OneActiveRun ==
  ~ ParallelRuns => \A r, s \in Runs : Active(r) /\ Active(s) => r = s

\* Steering is never stranded: a row that still exists is bound to an active run,
\* or free while some run is active whose end will pick it up, or went down with
\* its run: one made for this very message, that failed, or one the user cancelled.
SteeringNotStranded ==
  \A m \in Messages : steering[m].live =>
    \/ steering[m].run = NoRun /\ ActiveRuns # {}
    \/ steering[m].run # NoRun /\ Active(steering[m].run)
    \/ /\ steering[m].run # NoRun
       /\ run[steering[m].run].status = "failed"
       /\ m <= run[steering[m].run].source
    \/ steering[m].run # NoRun /\ run[steering[m].run].status = "cancelled"

\* What clearing the thread cancelled never writes into the emptied thread, late
\* as its worker may be.
ClearedStaysClear ==
  \A r \in history : ~ (run[r].status = "cancelled" /\ run[r].source = 0)

\* An attempt exists and runs wherever finalizeRun and pauseRunForInput require
\* it: their "attempt was not available" errors, which would undo the end of a
\* turn, cannot occur.
OwnerHasRunningAttempt ==
  \A h \in Handlers :
    handler[h].at \in {"setup", "begun", "working"} /\ Owns(h)
      => handler[h].attempt = "running"

\* A completed, failed or cancelled run stays so, whatever late workers, jobs
\* and answers do.
TerminalIsFinal ==
  [][\A r \in Runs : run[r].status \in TerminalStatuses
       => run'[r].status = run[r].status]_vars

\* A run that is taken over from a holder whose lease lapsed gets a higher fence,
\* so that nothing the old holder writes is accepted.
ReclaimRaisesFence ==
  [][\A r \in Runs :
       /\ run[r].status \in {"leased", "running"} /\ run[r].expired
       /\ run'[r].status = "leased" /\ ~ run'[r].expired
       => run'[r].leaseFence > run[r].leaseFence]_vars

\* A queued run does not stay queued: lost wakes, lost jobs and crashes are
\* made up for.
QueuedIsTaken ==
  \A r \in Runs : run[r].status = "queued" ~> run[r].status # "queued"

\* The messages that some active run is still to take up.
Inbox == {m \in Messages :
            \/ \E r \in Runs : Active(r) /\ run[r].source = m
            \/ steering[m].live /\ (steering[m].run = NoRun \/ Active(steering[m].run))}

\* Every message is dealt with, or the bot is waiting for the user.
MessagesAreSettled ==
  \A m \in Messages :
    m \in Inbox ~> m \notin Inbox \/ \E r \in Runs : run[r].status = "waiting_input"

\* The conversation is a mailbox: see Mailbox.
Mailbox == INSTANCE Mailbox WITH
  accepted <- sent, inbox <- Inbox, busy <- ActiveRuns # {}
MailboxSpec == Mailbox!Spec
=============================================================================
