# TLA+ models of the bot server

This directory holds TLA+ specifications of the server in this repository, the
TLC configurations that check them on small instances, and TLAPS proofs of the
theorems that hold for every instance. Paths below are relative to the
repository (`src/` here).

    tlasany M.tla                                   parse a module
    tlc -workers 2 -config MCx.cfg MCRunLifecycle   check an instance
    tlapm RunLifecycleProofs.tla                    check the proofs of a module

Each MC module defines the small sets its configurations choose from; a
configuration `MCx_name.cfg` is one instance. An instance that checks more
than one thing says so in its `about` in `PROJECT.json`.

`PROJECT.json` lists the components, the runs, which source lines each
definition stands for, a mutant for each property, the hazards and the theorems.

## 1. The system

A user talks to bots in threads. The API process stores messages, events and
RUNS in Postgres and enqueues jobs; worker processes take the jobs and call
`continueRun`, which drives an agent runtime that may use a COMPUTER (a sandbox
with a workspace, used by the runs of one bot, or of all bots of a space), ask the user for
input or approval, and finally end the run. A reconciler in the workers finds
what was lost. Processes share nothing but Postgres.

| part | source | state | operations | what is hard | what makes it correct |
|---|---|---|---|---|---|
| Run lifecycle | `packages/db/src/events.ts`, `messages.ts`, `core/src/run-state.ts` | `Run`, `Attempt`, `SteeringMessage`, `Message`, `Event` rows | send, steer, answer, pause, finalize, stop, clear | messages that arrive while a run ends; cancellation while a worker writes | no message stranded or settled unread; one run at a time; terminal is final; a cleared thread stays clear |
| Executor | `packages/adapters/src/executor.ts`, `takeover-resume.ts` | locals of one `continueRun` call; lease columns of `Run` | claim, start, attempt, heartbeat, requeue, end | crashes and stalls between statements; duplicate jobs; reads that are stale at the write | a lost holder changes nothing; the work is taken up again |
| Thread target | `apps/api/src/thread-target.ts` | - | `sendThreadMessage`, `stopThreadRuns`, snapshots, replies | two requests at once | as above |
| Job queue, reconciler | `adapters/src/wakeup.ts`, `job-reconciler.ts` | Graphile jobs keyed by run; an advisory lock | enqueue, deliver, reconcile | commit and enqueue are two steps | whatever is runnable is woken |
| Computer lifecycle | `adapters/src/computer-lifecycle.ts`, `computer-idle.ts`, `db/src/computers.ts` | `Computer` (state, provider reference, claim stamp), `ComputerExecutionLease` (fence, expiry) | provision, reclaim a dead boot, replace, idle stop; acquire, renew, hold, release | two workers boot or replace one computer; a crash with the sandbox made and no row that names it | one provisioner; no two runs hold one seat; no sandbox leaked; fences grow |
| Computer control | `adapters/src/computer-control.ts`, `core/src/screen-lease.ts` | `ComputerControl` rows, checkpoints of waiting runs | take over, release, expire | release races requeue | the waiting run resumes exactly once |
| Computer update | `adapters/src/computer-update.ts`, `core/src/computer-updates.ts` | maintenance phase on `Computer` | reserve, drain, swap, finish, recover | crash in any phase | never serves and updates at once; never stuck |
| Approvals, effects | `adapters/src/approval-effect.ts`, `executor.ts` | `ExternalEffect` rows | intend, approve, deny, execute, settle | crash between executing and recording | at most once, and only if approved |
| Realtime, follow | `adapters/src/realtime.ts`, `core/src/thread-subscription.ts`, `apps/web/src/lib/thread-events.ts` | the event log's sequence numbers, one cursor per subscriber | append, notify, follow, reconnect, clear | lost notifications, reads behind the cursor | every event once and in order |
| Messaging | `adapters/src/messaging-delivery.ts`, `db/src/messaging.ts`, `apps/api/src/messaging-inbound.ts`, `webhook-inbound.ts`, `team-chat-bridge.ts` | `MessagingOutbound` rows | queue, claim, send, hold, retry | claim is written before the send | never sent twice |
| Bot messages, child bots | `adapters/src/bot-messages.ts`, `child-bots.ts` | delivery keys, hop counts | deliver, return an outcome | loops, duplicate returns | an outcome is returned once |
| Cloud agents | `adapters/src/cloud-agent-poll.ts` | `CloudAgent` rows with a poll lease | poll, deliver | a poll that outlives its lease | an outcome is delivered once |
| Compaction | `adapters/src/history-compaction.ts` | cursor and generation on `Thread` | summarise, advance | a clear during the model call | nothing cleared is written back |
| Routines | `core/src/cron.ts`, `executor.ts` | `Routine.nextRunAt`, wake fields | wake, claim, restore | a wake and a schedule at once | one run per occurrence |
| Updater | `core/src/compose-update.ts`, `infra/updater` | phase file | update, roll back | crash in any phase | always a version that runs |

The rest is wrappers of external services (sandbox providers, connectors, model
providers, memory), request plumbing, authorization and user interfaces: I/O
without a protocol of its own. `PROJECT.json` lists them with the reason.

## 2. The modules

| module | models | proofs |
|---|---|---|
| `RunLifecycle`, `Mailbox` | one conversation, and what it promises; `RunHolders` adds the history of who held a run | `RunLifecycleProofs` |
| `ComputerState`, `ComputerLease`, `ComputerBoot`, `ComputerShutdown`, `ComputerLifecycle` | one computer and who uses it; each module extends the one before | `ComputerLifecycleProofs` (types, the claim), `ComputerSafetyProofs` (the rest) |
| `ExternalEffects` | what a run does outside, and the user's approval | `ExternalEffectsProofs` |
| `ThreadFollow` | the event log and an open thread that follows it | `ThreadFollowProofs` |
| `MessagingDelivery` | the outbox to a chat platform | `MessagingDeliveryProofs` |
| `CloudAgentPoll` | one cloud agent and its polls | `CloudAgentPollProofs` |
| `HistoryCompaction` | the summaries of a thread | `HistoryCompactionProofs` |

The modules do not share variables: a run appears in each as far as that part of the
code looks at it (`RunLifecycle`: status, lease and steering; `ComputerLifecycle`: active
or not, and who holds it; `ExternalEffects`: fence and card; `ThreadFollow`: what its
events tell; `MessagingDelivery`: whether its texts are final; `HistoryCompaction`: what it
reads). No module uses RECURSIVE.

What is left to do: the maintenance reservation of a computer with its update and recovery
(they need `ComputerLifecycle` split, whose instances are at the limit of what TLC can
do in minutes); the rows of user control; bot-to-bot messages; routine wake-ups; an
abstract specification of the execution lease.

## 3. RunLifecycle

One conversation: the runs of one bot in one thread. The other bots and threads
share no rows with it.

| variable | code |
|---|---|
| `run` | `Run`: status, `leaseOwner`, `leaseFence`, whether `leaseExpiresAt <= now`, `sourceMessageId` |
| `sent` | messages stored by the user; message m is the m-th |
| `steering` | `SteeringMessage`, one row per message at most: `runId`, `claimedAt` |
| `jobs` | runs with a pending `run.continue` job (keyed by run), or whose process is about to enqueue it |
| `handler` | the locals of a `continueRun` call: the status and fence it read, where it stands, its attempt row, the steering its turn was given |
| `history` | runs whose output is in the thread since it was last cleared |
| `upsets` | how much of the fault budget is spent |

What is one transaction in the code is one action: `sendUserMessage` and
`finalizeRun` first touch the thread row, so they are serialized. The
statements of `continueRun` are in no transaction and are one action each:
`Deliver` (the read), `Claim`, `Start`, `CreateAttempt`, `Begin`,
`ClaimSteering`, `Publish`, `RenewLease`, `PauseForInput`, `CompleteRun`,
`FailRun`, and the ways out: `NoticeLoss`, `Abandon`, `ComputerBusy`,
`FailBeforeAttempt`, `RequeueAfterSetupError` followed by `RecordSetupError`.
Anything may happen between two of them: the user stops or clears, the lease
lapses, the process dies, another process claims the run.

`WorkerOf` says which process a call belongs to. A worker runs several calls
under one `workerId` (`apps/worker/src/index.ts:158`, four by default), and then
only the fence tells two holders apart; with one call to a process the owner
does. The safety run has two calls in one process, which is the harder case.

`RunHolders` adds a history variable to `RunLifecycle`, for the properties of a
turn. `Holds(h)` says that the writes of call h for its run are accepted
(`executor.ts:4708`), and `paired` remembers the calls that have held their run
together with another call. That happens in one process, because a take-over does
not always raise the fence (`ReclaimRaisesFence`, below); then each of the two
writes for the other. `CompletedConsumesOnlyTold` and `CompletedSettlesTold`
are about every other call (`Completes`): what happens to a pair must not hurt
anybody else, in the same process or in another. `Remember` never blocks a step
of `RunLifecycle`.

`ParallelRuns` switches on the triggers that pass `allowParallelRun` (messaging,
team chat, webhooks). `Teaching` switches on teaching sessions, which cancel the
active runs but leave their steering bound to them.

**Left out.** The takeover pause (its events are in `ThreadFollow`); several bots in a thread; blocks and
texts; the order of events in the log; the steering filter by messaging
channel; runs made by routines and other bots (they enter like `SendStartsRun`
with `ParallelRuns`); the computer's lease, which is only *busy*, *lost* or fine.
An error inside a turn is `FailRun`, an error that only stops the heartbeat is
`Abandon`. The delay of an enqueue is part of `jobs`; `LoseWake` is a process
that dies before it.

**Mailbox** is what the conversation promises its user: an accepted message is
in the inbox until it is dealt with, and no mail waits beside an idle bot. The
refinement mapping takes `accepted <- sent`, `busy <- ActiveRuns # {}` and
`inbox <- Inbox`: the sources of active runs, and the rows that are bound to an
active run or free.

### Properties

| property | the code it is about |
|---|---|
| `OneActiveRun` | two sends at once, a continuation made while a message arrives, an answer to a waiting run |
| `SteeringNotStranded` | `finalizeRun`'s settling of rows against sends that race it |
| `ClearedStaysClear` | `assertRunCanWriteHistory` against a worker that publishes after `clearThread` |
| `OwnerHasRunningAttempt` | the "attempt was not available" errors that would undo the end of a turn |
| `CompletedConsumesOnlyTold` | a message late for the turn, or claimed by an attempt that was lost, is not deleted unread |
| `CompletedSettlesTold` | what a turn took up is not given to a later run again, but for a row that a failed run beside it freed with its claim (`FreedClaimed`) |
| `ReclaimRaisesFence` | a lapsed run is taken over with a higher fence (violated) |
| `TerminalIsFinal` | every compare-and-swap on a run's status |
| `QueuedIsTaken`, `MessagesAreSettled` | the reconciler, retries and continuations |
| `MailboxSpec` | all of it, against the abstraction |

### Runs

| run | instance | shows |
|---|---|---|
| `conversation` (`MCRunHolders`) | 2 runs, 2 messages, one process with 2 calls, 2 faults, teaching; 1 212 000 states | all safety properties and the refinement |
| `conversation_live` | 2 runs, 2 messages, 1 call, 1 fault, teaching; 22 700 states | `QueuedIsTaken`, `MessagesAreSettled` |
| `reclaim_keeps_fence` | 1 run, 2 messages, one process with 2 calls, 3 faults | `ReclaimRaisesFence` is violated |

**Bounds.** Two runs are enough without parallel runs: a continuation has a
source message of its own, so there are never more runs than messages. Two
messages give a source and one that steers; two faults give a crash or stall
followed by its repetition (a lapse and a takeover, a lost job and a crash).
Faults that change nothing but the order (a late read, a duplicate delivery, a
reconcile at any moment) are free. Runs are symmetric where no liveness is
checked. The cap on messages is in the guards of the user's actions. States with a pair of
holders are within these bounds, and so is a completion by one of them. Two processes with one
call each pass the same properties. Parallel runs need a third run to hand rows over; an instance with 3
runs at once, 3 messages, 2 calls and no faults passes `SteeringNotStranded`,
`CompletedConsumesOnlyTold`, `CompletedSettlesTold` and `MailboxSpec`, and is not kept as a run
because the theorems cover it.

**The violated claim.** `continueRun` reads the run and computes the fence it will write from that
read (`executor.ts:1083-1088`); the claim compares the status and the expiry but not the fence
(`executor.ts:1090`). In the counterexample a call reads the run while it is leased with fence 1, and
stalls; the holder gives the run up, another delivery leases it with fence 2 and lapses; the stalled
call finds a leased, lapsed run and leases it with fence 2 again. The test "reclaims an
expired running lease with a higher fence"
(`packages/testkit/src/executor-lifecycle.test.ts:56`) states what fails. It takes a stall as long as a lease
(5 minutes) between two statements. In different processes the owner still tells the two apart; in one process
the old holder's guarded writes are accepted again.

**Deadlock** is checked in both runs, though `Reconcile` is always enabled: what the
code could get stuck in shows in `conversation_live`.

**Fairness** (`FairSpec`). `WF(Step(h))`: a live process carries on with the call
it has, and a turn ends, because the number of tool calls and the time of a
model call are bounded. `WF(Reconcile)`: it runs on an interval. `WF(LeaseLapses(r))`:
time passes; a lease nobody renews lapses. `SF` on the delivery of r: a free worker
takes jobs in the order of the queue, so no run is passed over for ever although
its job may be taken by the reconciler's replacement in between. Nothing is
assumed of the user: `MessagesAreSettled` therefore excepts a run that waits for
an answer.

### Seen with other instances

These are counterexamples of instances that are not kept as runs.

* Without the exception of rows that are `FreedClaimed`, `CompletedSettlesTold` fails with parallel
  runs (3 runs, 3 messages, no fault). A failed run frees newer steering and keeps its
  `claimedAt` (`events.ts:1140`). A run beside it is given the row but does not
  bind it (`events.ts:502`), so the row survives that run's completion and a
  continuation is made for it: the message is answered twice, against
  "Settled steering cannot be reclaimed by unrelated future runs"
  (`executor-lifecycle.test.ts:463`). Without parallel runs it cannot happen: there
  is never a free row (`NoFreeRows`).
* Without the exception of paired calls, `CompletedConsumesOnlyTold` fails in the bounds of the run:
  the first holder of a run, reclaimed with its own fence, completes the run of the second and settles
  what the second was told.

## 4. The computer

One computer of the bot server, with everybody who uses it.

| module | code | holds |
|---|---|---|
| `ComputerState` | `schema.prisma`, `computer-lifecycle.ts` | the state, the locals of a call, how the row is written |
| `ComputerLease` | `computer-lifecycle.ts:439-568` | take, validate, refuse, leave, lapse |
| `ComputerBoot` | `provisionComputer`, `computer-lifecycle.ts:145-422` | look, wait, claim, provision, prepare, activate, roll back, record |
| `ComputerShutdown` | `computer-idle.ts:185-344`, `router.ts:1674-1746`, `computer-lifecycle.ts:580-754`, `computer-workspace.ts:106-168` | the sleep job, `computer.stop`, `computer.reset`, the checkpoint of a run |
| `ComputerLifecycle` | `executor.ts`, `router.ts`, `thread-target.ts`, `events.ts`, `screen-lease.ts` | who calls these, the work of a run, time and faults; the specification and its properties |

| variable | code |
|---|---|
| `computer` | `Computer`: `state`, `providerRef`, whether `updatedAt` is older than `BOOT_CLAIM_STALE_MS` |
| `lease` | `ComputerExecutionLease`, one row per bot: `runId`, `fence`, whether `expiresAt > now` |
| `run` | `Run` as far as computers look at it: active or not, and which call holds its worker lease |
| `box` | the sandboxes at the provider: absent, up or stopped |
| `screen` | the screen lease a bot's screen was last claimed with, in which sandbox |
| `call` | the locals of a call: one of `continueRun`, of `computer.boot`, `.reset`, `.stop`, or of the sleep job |
| `upsets` | how much of the fault budget is spent |

Each statement that awaits the database or the provider is one action, named
after the operation and what it does (`BootClaim`, `SleepRecheckRuns`,
`StopForget`); `call[c].at` says which comes next. The code protects itself with
compare-and-swaps on the row alone, and the token is `updatedAt`, which moves with
every write (`@updatedAt`). It is only compared with a stamp the same call read or
wrote, so it is modelled as what it tells: `call[c].current` is true while the row
still has the stamp the call remembers, and every write (`Write`) makes it false for
all other calls. Two writes that must not move the stamp pass it explicitly
(`SleepSave`, `ResetRecord`).

An operation is *slow* if it may outlast `BOOT_CLAIM_STALE_MS` while its process is
alive; the constant `SlowOperations` lists those of an instance. For the others a
claim ages only when no call that ever claimed the row is left (`ClaimAges`), that
is, after a crash. Leases likewise lapse when their holder is gone, when a manual
one's operation is slow, or when the process stalls.

`Operations` and `Faults` switch on what a run looks at: `crash` (a process dies),
`stall` (its leases lapse), `provider` (a call of the provider fails), `rollback`,
`screen` (a clean-up fails), `vanish` (the provider loses a sandbox).

**Left out.** Maintenance and update, recover, user control of a computer, the hold of a
lease during a takeover, archived bots, background work in a sandbox except that the
sleep job's probe may find some. A reset goes straight to provisioning in the same call.
The two switches of a computer's scope (team, private) and of its provider (mounted,
remote) are constants.

### Properties

| property | the code it is about |
|---|---|
| `OneProvisioner` | the claim, and the two looks at heartbeats before an old claim is taken over |
| `OneClaim` | `updatedAt` as a fencing token, over all four operations |
| `ClaimHasOwner` | every error path undoes what its claim wrote |
| `RunningIsUp` | roll-back and the sleep job against reconnects |
| `NoSandboxLost` | activation that fails, and the roll-back after it |
| `WorkersKeepTheirSandbox` | the second looks of the sleep job and the reset; a failed reconnect leaves the sandbox alone |
| `NobodyWorksDuringExport` | lease, read, claim and validate, in the four orders the two sides can take |
| `HolderOwnsScreen` | fences as tombstones |
| `WedgedComputerRecovers` | the take-over of abandoned claims |

`OneProvisioner` and `Works` speak of calls whose heartbeat has not found its leases
gone: an aborted call may still be in the provider's hands for a while, as in the code.

### Runs

| run | instance | shows |
|---|---|---|
| `computer_team` | shared, 2 bots with a run each; run, boot, sleep, pause, halt; one failure of the provider, screen that stays or stall | `TypeOK`, `NoSandboxLost`, `NobodyWorksDuringExport`, `RunningIsUp`, `ClaimHasOwner`, `HolderOwnsScreen` |
| `computer_private` | private, 1 bot with 2 runs that may be slow; run, boot, reset, pause; one crash or failure of the provider | `WorkersKeepTheirSandbox`, `OneProvisioner`, `OneClaim` |
| `computer_live` | private, 1 run that may be slow; run, stop, sleep, pause, clear; one crash, failure of the provider, failed roll-back or vanished sandbox | `WedgedComputerRecovers` |

Each property is checked where it is promised. `ClaimHasOwner` and `RunningIsUp` cannot
hold with crashes (the row stays behind until somebody takes it over: that is
`WedgedComputerRecovers`) nor with stops (below); `NoSandboxLost` cannot hold when a
roll-back fails or a process dies before it records what it was given;
`WorkersKeepTheirSandbox` is about our own calls, so no sandbox vanishes by itself there.
The theorems (section 10) extend each of them to all instances with the same
restrictions and often to more operations and faults than an instance can hold.

**Bounds.** Two calls at a time: the properties are about two calls, and a third only
follows one of them. Two sandboxes: the one in use and its replacement. A lease is taken
twice (`MaxFence`), which is what two runs of a bot, or a run and its resumption, need. One
fault. 1.9, 1.1 and 0.27 million states. Calls and sandboxes are symmetric, and so are bots
with a run each; not in `computer_live`.

Larger and other instances have passed and are not kept as runs, for their time:
shared with {run, stop, sleep, pause} and provider failures (`TypeOK`, `NoSandboxLost`,
`NobodyWorksDuringExport`); shared with {run, reset, sleep, pause}, a crash or provider
failure and slow runs (`TypeOK`, `OneProvisioner`, `WorkersKeepTheirSandbox`,
`NobodyWorksDuringExport`); shared, one bot with two runs, {run, boot, sleep, halt} and two of
provider, screen and stall (`RunningIsUp`, `ClaimHasOwner`, `HolderOwnsScreen`, `NoSandboxLost`,
`OneProvisioner`, `WorkersKeepTheirSandbox`); the same with a mounted workspace for
`WorkersKeepTheirSandbox`.

**Deadlock** is checked on private computers (`computer_private`, `computer_live`). On a shared
one it is not: once the leases are used up to `MaxFence` and all runs are over, the
model rightly stops.

**Fairness** (`LiveSpec`). Calls go on (`WF`), except that a turn need not end; a dead
process's worker lease lapses and an untouched claim ages, as time does; a waiting run
is picked up (`SF`, since the slots for calls are a bound of the model and a worker's
queue is served whatever users do). Nothing is assumed of users, faults, or the sleep
job. Liveness is checked on a private computer, where the lease's bound, which would end
the retries, plays no part, and without resets, which can use up both sandboxes of the
instance.

### Seen with other instances

Counterexamples of instances that are not kept as runs; they say why the runs and the
theorems are restricted as they are.

* `RollbackSparesTheWinner` (defined in the module) fails with stops. `computer.stop` claims a
  row in any state but suspending, a booting one too (`router.ts:1682`). The boot under way has
  lost its claim and goes on; the next boot is given the same sandbox and activates it; the
  first, which cannot, stops it, or destroys it if that fails (`computer-lifecycle.ts:409`),
  under the running row. The comment at `computer-lifecycle.ts:72` names this outcome as what
  the fence avoids. Cancelling a slow run's boot on a private computer leads to the same, and
  then `WorkersKeepTheirSandbox` fails.
* `HolderOwnsScreen` fails with stops. `computer.stop` deletes the bot's lease
  (`router.ts:1712`), against the comment at `computer-lifecycle.ts:559`: the next fence is 1
  again, and a screen that was not released refuses its run.
* With `Mounted = TRUE` (Docker) a checkpoint claims nothing but still records its
  revision, whatever the row's state (`computer-workspace.ts:163`), which moves the
  stamp of a peer's reconnect: its activation and its failure write miss, and the row
  stays booting until it is old enough to be taken over. `ClaimHasOwner` fails, on private
  computers too; the comment at `computer-lifecycle.ts:72` describes such a wedge for another
  predicate.
* With `SlowOperations = {"sleep"}`, `NobodyWorksDuringExport` fails: `docs/computer-runtime.md:62`
  says that claiming before exporting keeps a new bot from starting during the snapshot,
  and a claim older than five minutes no longer does.
* A refused stop puts back the state it read before its claim (`router.ts:1703`),
  whatever has happened since: `ClaimHasOwner` and `RunningIsUp` fail with stops, and
  `OneProvisioner` does with stops and a slow run.
* Two resets of a private computer at once compare no reference, and may lose the
  sandbox the first one made (`NoSandboxLost`); so does a reset whose process stalls. With
  resets `ClaimHasOwner` and `RunningIsUp` fail on a shared computer as well.

The last two contradict no doc or test.

## 5. ExternalEffects

The actions one run takes outside of the server: the `ExternalEffect` rows, the attempts
that work on the run, and the approval cards the user answers.

| variable | code |
|---|---|
| `policy` | what each tool is (`mandatory`, `consequential`, `harmless`) and what the review says of a request |
| `rules` | `ActionApprovalRule`, one rule for each tool |
| `effect`, `order` | the status of each row, and the rows in the order they were made |
| `run` | status, lease fence and the card it waits with |
| `worker` | the locals of an attempt: the approved requests it has to make again, how often it made each request, the row it works on and what it saw of it |
| `answering`, `told` | an answer between its read and its write; what the user said of each row |
| `ran` | how often the action of a row was taken |

An attempt loads the approved requests (`LoadApproved`, `executor.ts:1575-1605`), calls tools
(`Call`), looks for the row of the request (`RecordEffect`, `CreateEffect`), decides (`Gate`,
`executor.ts:2217-2282`), settles a row another attempt left (`Settle`), claims it
(`ClaimEffect`, `approval-effect.ts:416-436`), pauses for approval, or executes and
completes. Each is one statement of the database and one action. A run that is taken over
(`StartAttempt`) may have an owner that is only slow and goes on. The answer reads the
row (`events.ts:583-590`) and later writes it by its id (`events.ts:616-619`): two actions.

| property | the code it is about |
|---|---|
| `TakenOnce` | claims by compare-and-swap, settling of what a dead attempt claimed |
| `ConsentFirst` | the gate, rules that change between two looks, a late answer |
| `CardIsAnswerable` | a pause that races the loss of the run, and attempts that still decide rows |
| `ApprovedIsReplayed` | the replay of approved requests in the resumed attempt (violated) |

| run | instance | shows |
|---|---|---|
| `effects` | 1 request made twice, 2 workers, 4 attempts, 2 crashes or take-overs from a live owner; 683 000 states | the first three |
| `replay` | 1 worker, 3 attempts, no faults | `ApprovedIsReplayed` is violated |

**Bounds.** Two rows of the same request are what the occurrence in the key is for; two
workers are an owner and its successor; with four attempts the run can be lost, asked for,
resumed and lost again. Instances of 9.1, 9.5 and 19.4 million states (two requests, two
tools, more attempts) passed. Deadlock is off: the run ends.

**What `replay` shows.** Each attempt counts the occurrences of a request from 0
(`executor.ts:1743-1750`, `2001`), and the queue of approved requests does not say which occurrence
each was approved as. If the same request was denied or done as occurrence 0 and approved as
occurrence 1, the resumed attempt finds the row of occurrence 0, returns that one's
outcome, and completes; `assertDrained` passes, though `approval-effect.ts:35` says "Approved
tool requests were not fully replayed" of what must fail.

**Assumptions.** One tool call at a time in an attempt; the review's verdict on a request
does not change; rules change only by "Always allow". **Left out:** `request_secret`, keys in
the older format, rules of a connection, the model call of the review. Harmless actions are
executed without a claim (`executor.ts:2283-2291`) and may be repeated after a crash, as intended:
`TakenOnce` is about the others.

## 6. ThreadFollow

An open thread in the web client: the durable events, the API process that follows them, and
the client's view.

| variable | code |
|---|---|
| `thread` | run, messages, events and `nextEventSeq` of the thread |
| `owed` | a committed change whose `NOTIFY` is still to come |
| `conn` | the process's LISTEN connection (`realtime.ts`) |
| `follower` | `followThreadEvents` for the client: its cursor, its latch (`ChangeLatch`) |
| `wire` | events on their way to the client |
| `client` | `runThreadSubscription`: cursor, events that wait for the first snapshot; the view (`reduceThreadSnapshot`) |
| `request` | the client's latest request for a snapshot |

A step of the conversation appends its events in one transaction (`Commit`); notification,
reading and waiting are steps of their own, and so are the loss and the return of the
LISTEN connection and of the stream. A snapshot is of the moment the server reads the
thread (`ServeSnapshot`) and is taken later (`TakeSnapshot`).

| property | the code it is about |
|---|---|
| `NoLostWakeup` | the follower's latch, the catch-up after a new LISTEN (`realtime.ts:152`) |
| `NothingSkipped` | cursors of the follower and of the client over broken streams |
| `ViewIsCurrent` | `reduceThreadSnapshot` and `reconcileRefreshedThread`, in every order of events and snapshots |

| run | instance | shows |
|---|---|---|
| `follow` | 4 events, 2 runs, 2 breaks; 1.9 million states | all three |

**Bounds.** Four events are a run that starts, asks, is answered and ends, or one that ends
and the next that starts; two breaks are the connection and the stream, or one of them
twice. An instance with 5 events and 1 break (4.7 million states) passed as well. For more, there
are the theorems (section 10). Deadlock is off: the log is bounded.

**Seen.** Live events that a newer snapshot already contains are applied again and move the
view's cursor back: `thread-subscription.ts:66` lacks the test of line 48 (`Shell.tsx:5736-5751`);
the view still ends up current. After a message published in the middle of a turn a reload
shows live text again that the view has dropped, and a snapshot between a note and a takeover
keeps a bubble until the next refresh: `ViewIsCurrent` does not speak of bubbles while the run
works. No doc promises otherwise.

**Left out.** Stop, which appends no terminal event; group threads, failed runs, pages of
history, cards of tools and subagents, the size of a batch, a `NOTIFY` that fails, the
mobile client.

## 7. MessagingDelivery

The outbox between the bots and a chat platform: one run, one identity (the owner of the
chat, who is also asked to connect), one connection.

| variable | code |
|---|---|
| `outbox` | `MessagingOutbound`: status, attempts, whether `nextAttemptAt` is in the future, whether `providerHandle` is set |
| `run` | the run whose texts are mirrored; whether it asked something in the app and which texts were written after the answer |
| `heard` | texts shown to the channel's other bots |
| `counter` | `outboundSinceInbound` |
| `connection`, `lock` | `AgentConnection`, and its row lock |
| `drain` | the locals of each `deliverMessagingOutbound` |
| `accepted`, `doubts`, `givenUp` | history: what the platform took, answers that were lost or not written, rows lost between claim and send |

The mirror (`MirrorRead`, `MirrorWrite`, `MirrorPeers`, `MarkMirrored`) and the drain (`DrainRead`,
`DrainClaim`, `DrainPrepare`, `InviteLock`, `SendRow`, `RecordHandle`, `CountRow`, `CatchFailure`) are
one action a statement; the user answers, writes, connects, revokes, and the platform
reports between them.

| property | the code it is about |
|---|---|
| `DeliveredOnce` | the claim before the send, over drains that read the same rows |
| `SentIsTaken` | where a claimed row can be lost |
| `PrivateStaysPrivate` | the mirror of a channel reads the run while it goes on |
| `InviteWhilePending` | the lock that a send and `connections.revoke` both take |
| `RowsAreSettled` (liveness) | back-off, the cap and the reconciler |

| run | instance | shows |
|---|---|---|
| `outbox` | 2 drains, 1 text, 2 requests to connect, cap 1, 2 attempts, 2 faults; 385 000 states | all five |

**Bounds.** The instance starts at the cap (`BusyInit`) and takes the run's text or the invites,
since they meet only in the drain; two requests are a request, its revocation and another;
two attempts are a refusal and giving up; two faults are a lost answer and the crash of the
drain that would retry. Deadlock is off: requests are bounded.

**Fairness** (`DeliveryFairness`). Calls go on; back-off times pass; the reconciler has due rows drained
(`SF`, as the drains it starts may be busy). Nothing is assumed of the owner, so rows at the
cap are excepted.

**Seen.** A drain that read a row before another's refusal sends it again before
`nextAttemptAt`, against the comment at `messaging-delivery.ts:467-468`; "no reconciler
reclaims outbox rows" (466) is contradicted by `job-reconciler.ts:228-234`; an invite is sent
again if the write of the counter (428) fails, against 299-302; a text is sent again after a lost
answer, against 363-364. The properties say what is left: once for each lost answer or
write. **Assumed:** the provider answers within the 20 s of the transaction, or a revoked
invite could still leave. **Left out:** rows whose thread or identity is gone (372-402), other
identities, the inbound bridges.

## 8. CloudAgentPoll

One cloud agent of a bot: the row that records what is wanted, the polls, and the provider.

| variable | code |
|---|---|
| `agent` | `CloudAgent`: status, latest run, the marks (`launchDispatched`, `followupDispatching`), cancel, generations, due, lease |
| `card`, `shown`, `woken` | the card in the chat, the status on it, how often each generation woke the bot |
| `poll` | the locals of each `pollCloudAgent`: what it read, whether the row still has that version |
| `remote`, `metadata` | the provider's runs, the run its metadata name as the latest |

A poll reads (`PollRead`), claims with version and lease (`PollClaim`), decides (`NextStep`), marks
before it sends (`MarkLaunch`, `MarkReply`), asks the provider, and finishes, retries and releases,
each under the fence of version and token (`Fenced`). The bot launches, follows up, cancels;
a cleared chat detaches the agent; leases lapse under live polls. The provider may reject a
launch or a follow-up at any call (`RequestRejected`: `cursor-cloud-agent.ts:204`, a key revoked
meanwhile), also the launch it accepted before when the answer was lost; the row then ends as
failed (`cloud-agent-poll.ts:92-94`, `:164-170`).

| property | the code it is about |
|---|---|
| `WokenOnce` | the wake in `finishPoll`'s transaction |
| `SettledMeansQuiet` | confirmation of a cancel, failures, dropped and rejected follow-ups: nothing is left running that no poll asks for, but for `LaunchRejected` (below) |
| `FollowupSentOnce` | the mark before the request ("never resend the mutation") |
| `CancelIsKept` | a wish that comes while a poll is away |
| `ResultIsReported` (liveness) | retries, leases, the reconciler |

| run | instance | shows |
|---|---|---|
| `cloud_agent` | 2 polls, a launch and a follow-up, 2 faults of crash, stall, lost answer; 756 000 states | all five |

**Bounds.** Two polls are a holder and its successor; the second generation is the
follow-up; two faults are a stall past the lease and one during the poll that takes over.
With 3 generations the safety properties pass as well. Deadlock is off: generations are bounded.

**Timing** is two constants. `SlowClaims = FALSE`: no request of another poll fits between a
poll's read and its claim, the statement after it (`TimePasses`). With `TRUE` a
follow-up can be sent twice, against `docs/self-host/cloud-agents.md:27` and the comment at
`cloud-agent-poll.ts:134`. `StaleMetadata = FALSE`: the bot follows a run up only once the
provider's metadata name that run. With `TRUE` and 3 generations `SettledMeansQuiet` fails, in
spite of the comment at `cloud-agent-poll.ts:174`.

**A launch rejected when it is repeated** (`LaunchRejected`). The provider accepts the launch, the
answer is lost, or the poll stalls and another one repeats it; the repetition is rejected. The
row ends as failed without a remote id and asks for no more polls while the remote run goes on,
and nothing in the code finds that run again. `SettledMeansQuiet` therefore excepts a failed row
without a remote id. If the agent had been cancelled before, the wish ends with the row: TLC shows
it in 15 states for `CancelIsConfirmed` ("Cancellation likewise remains pending until the remote
state confirms it", `docs/self-host/cloud-agents.md:27`), which is stated in the module, does not
hold, and is in no run. `CancelIsKept` says what does hold: the row has ended. A follow-up is not
concerned: it is sent once, and rejected only where it started nothing.

**Fairness** (`CloudFairness`). Calls go on, dead leases lapse, the provider's runs end and its
metadata catch up, the reconciler polls due rows. **Seen:** the cancel of an agent whose launch
was rejected retries for ever; a follow-up that was marked and never sent waits for ever,
which the docs tell the user to look into (`Unknown`, excepted from `ResultIsReported`).

## 9. HistoryCompaction

The summaries of one bot thread. A text is the set of the messages it tells of.

| variable | code |
|---|---|
| `thread` | `nextMessageSeq`, `historyCompactedUpToSeq`, summary and generation |
| `messages`, `memory` | the `Message` rows; the copies in the external memory, each under its generation |
| `job`, `call` | a waiting `history.compact`; the locals of each `compactHistory` |
| `clears`, `leftover` | clears whose purge is to come; generations whose purge failed |
| `run` | what a run has read: the row, the window, the memory |

`compactHistory` reads the row (`TakeJob`), the batch (`ReadBatch`), advances the row by
compare-and-swap (`Advance`), saves the copy (`Save`), looks again and purges what a clear made
stale. A run reads the row, its messages and the memory in three steps (`executor.ts:1209-1418`).
A clear deletes, moves the cursor and raises the generation in one transaction
(`events.ts:249-334`) and purges later (`router.ts:1456-1494`).

| property | the code it is about |
|---|---|
| `ToldIsInTheThread` | summaries and copies that are written after a clear |
| `ContextIsWhole` | the window, the cursor and the bootstrap of threads from before summaries |
| `StaleCopiesArePurged` | saves that race a clear |

| run | instance | shows |
|---|---|---|
| `compaction` | 2 calls, batch 1, window 1, 4 messages, 1 clear, 1 fault; 2.9 million states | all three |

**Bounds.** The sizes are the code's 50, 50 and 200 scaled down: what matters is that a window and
a batch fit into the older, larger window. Two calls race each other and the clear. Larger instances (batch 2, legacy
window 3, 5 messages; two clears) passed with 6.8 and 5.8 million states. Deadlock is off: messages
are bounded.

**Seen.** `ShortWindowIsCompacted` (defined in the module) fails: a clear moves the cursor past the
deleted messages (`events.ts:295`), so the executor takes the thread for compacted
(`executor.ts:1411-1418`) and, when the memory finds something, cuts the window to the short one,
against the comment at `history-compaction.ts:60-61` and its test
(`history-compaction.test.ts:64`). `clearThread` returns the generation it read before it raised it
(`events.ts:262`, `325`), so `router.ts:1479-1483` purges other generations than its comment says;
harmless. Two compactions of a thread from before summaries may both advance and both save,
against the comment at `history-compaction.ts:420`. A repeated job compacts below the window.

**Left out.** Limits on the length of texts and the choice of a model (both end in giving up);
group threads, messaging and routine triggers.

## 10. Proofs

For every number of runs, calls, processes, messages, sandboxes, drains, polls and faults
(the bounds on counters are constants too). Every safety property a run expects to pass has a
theorem.

| theorem | states | under |
|---|---|---|
| **RunLifecycleProofs** | | |
| `TypeCorrect` | `TypeOK` | |
| `TerminalRunsAreFinal` | `TerminalIsFinal` | |
| `OneRunAtATime` | `OneActiveRun` | |
| `NoSteeringStranded` | `SteeringNotStranded` | teaching and parallel triggers not mixed |
| `AttemptAvailable` | `OwnerHasRunningAttempt` | |
| `ClearedThreadsStayClear` | `ClearedStaysClear` | |
| `ConversationIsMailbox` | `MailboxSpec` (refinement) | teaching and parallel triggers not mixed |
| `OnlyToldIsConsumed` | `CompletedConsumesOnlyTold` | |
| `ToldIsSettled` | `CompletedSettlesTold` | |
| `LoneCallsHoldAlone` | `paired` stays empty | one call in a process |
| **ComputerLifecycleProofs** | | |
| `TypeCorrect` | `TypeOK` | |
| `ClaimIsExclusive` | `OneClaim` | |
| **ComputerSafetyProofs** | | |
| `HolderGetsScreen` | `HolderOwnsScreen` | no stops |
| `SandboxesAreNamed` | `NoSandboxLost` | no resets, crashes or failed roll-backs |
| `ExportsAreQuiet` | `NobodyWorksDuringExport` | `Prompt`: no stops, no slow operation |
| `ClaimsAreAttended` | `ClaimHasOwner` | `Attended`: `Prompt`, shared and not mounted, no resets, no crashes |
| `RunningRowsAreUp` | `RunningIsUp` | `Attended`, and no sandbox vanishes |
| `ProvisionersAreAlone` | `OneProvisioner` | `Heartbeats`: no stops, only runs are slow, and if they are, none stalls |
| `SandboxesAreKept` | `WorkersKeepTheirSandbox` | `Prompt`, no sandbox vanishes, shared or no stalls |
| **ExternalEffectsProofs** | | |
| `OnceTaken` | `TakenOnce` | |
| `ConsentBeforeTheAct` | `ConsentFirst` | |
| `CardsAreAnswerable` | `CardIsAnswerable` | |
| **ThreadFollowProofs** | | |
| `NoEventIsSkipped` | `NothingSkipped` | |
| `WakeupsArrive` | `NoLostWakeup` | |
| `ViewsAreCurrent` | `ViewIsCurrent` | |
| `FollowTypeCorrect` | `FollowTypeOK` | |
| **MessagingDeliveryProofs** | | |
| `DeliveryTypeCorrect` | `DeliveryTypeOK` | |
| `GivenOnce` | `DeliveredOnce` | |
| `SentWasTaken` | `SentIsTaken` | |
| `PrivateIsKept` | `PrivateStaysPrivate` | |
| `InvitesAreAskedFor` | `InviteWhilePending` | |
| **CloudAgentPollProofs** | | |
| `CloudTypeCorrect` | `CloudTypeOK` | |
| `WokenOnceEach` | `WokenOnce` | |
| `CancelKept` | `CancelIsKept` | |
| `FollowupsAreSentOnce` | `FollowupSentOnce` | `~SlowClaims` |
| `SettledRowsAreQuiet` | `SettledMeansQuiet` | `~SlowClaims`, `~StaleMetadata` |
| **HistoryCompactionProofs** | | |
| `CompactionTypeCorrect` | `CompactionTypeOK` | |
| `NothingComesBack` | `ToldIsInTheThread` | |
| `ContextHasNoHole` | `ContextIsWhole` | |
| `CopiesArePurged` | `StaleCopiesArePurged` | |

Besides these, the proofs use the assumptions the modules make on their constants (types,
and that null values are new). The conditions in the third column are needed, with
counterexamples in the sections above, except where this section says otherwise.

### The argument, by component

**RunLifecycle.** Most actions are *quiet*: they move an active run between
active statuses or touch no run (`QuietWorker`, `QuietWorld`). `FinalizeShape`
describes the one that is not, the end of a run, with or without a
continuation. `StatusStep` says what any step may do to the statuses, from which
`TerminalIsFinal` and `OneActiveRun` follow at once. The inductive invariants:

* `SteeringInv` = `SteeringNotStranded` and `NoFreeRows` (without parallel runs no
  row is free: the run that ends is the only active one by `OneActiveRun`, so it
  always makes the continuation). `NoFreeRows` is needed when a teaching session
  cancels the runs.
* `AttemptInv`: the attempt of a call runs unless the run is cancelled. It does not
  mention the lease, so it survives the loss and return of the lease.
* `ClearedInv` = `ClearedStaysClear` and `ActiveHasSource`: only a clear takes the
  source of a run away, and no active run is without one.
* `TurnInv`, for calls that are not in `paired`: the rows bound to the run and claimed are
  those its turn was told (`TurnKnows`), and conversely, but for freed claimed rows
  (`TurnBinds`), with `RowsAreSent` and `ToldIsSent`, which keep a new message's row from
  being taken for an old one's. `Solitary` says that calls which hold a run together are
  in `paired`. Who owns its run after a step, and is not paired by it, owned it before: else a
  `Start` of another call brought it the same owner and fence, and both hold the run
  (`OwnedBefore`). Nobody else's writes then touch its rows (`WorkerRowStep`).

The refinement follows from `SteeringInv`: a row is never bound to a run that does not
exist, so creating a run adds just its source to the inbox, and when no run is
active no row is left. The conditions: with teaching and parallel runs a free row can lose
the run that would pick it up (section 3).

**The computer.** `OneClaim` is inductive with the types: a call gets to a place where
it works under a claim only with a write of the row, and a write outdates what all
other calls remember. `StayOK` and `WriteOK` say this once for the two kinds of
steps. The other theorems build on one another:

1. `OpInv`: a call is only where its operation leads it.
2. `FenceInv`: no call and no screen has a fence beyond its bot's lease, and who has the
   lease's fence has the lease. A screen therefore never refuses the lease's holder
   (`HolderGetsScreen`). It needs that nobody deletes the lease, which is what a stop does.
3. `HandInv`: a boot has in its hands the sandbox the row named, or a fresh one if that is
   gone. `LostInv`: every sandbox that is up is named by the row or in such hands
   (`SandboxesAreNamed`).
4. `SoloInv`: while no claim grows old under a living call, one call at a time works under a
   claim, and the row has the state that claim gave it.
5. `ExportInv`: on a shared computer the leases, on a private one the stamp of the row, keep
   runs away from an export, in each of the orders in which the two sides take lease, claim
   and the second look (`ExportsAreQuiet`).
6. `OwnedInv`: a row in transition has a call that works under a claim that stands
   (`ClaimsAreAttended`), and `UpInv`, with what every kind of call knows of its sandbox
   (`RunningRowsAreUp`).
7. `ProvInv`: who takes over a booting row has asked for the heartbeats after the claim
   had grown old, and the stamp tells it of every boot that began since. So one call
   provisions at a time even if runs are slow (`ProvisionersAreAlone`).
8. `WorkInv`: while a run works with its leases, the row is claimed only by a reconnect, by
   a checkpoint, or by a reset that has still to look for active runs; a reconnect has
   nothing to roll back that was there before; and what it made itself is in nobody else's
   hands (`SandboxesAreKept`).

What the code does not promise is in the conditions. Slow operations and stops break the
claims themselves (section 4), crashes leave rows without an owner, a private computer's
unclaimed checkpoint moves the stamp. Two conditions are not backed by a counterexample TLC
found: `SandboxesAreKept` excludes stalls on a private computer because three calls are needed
to violate it (a reconnect that lost its claim to a checkpoint leaves the row booting, a
stalled call of the same run takes it over and rolls back under the run's new holder), more
than an instance holds; and it excludes slow operations altogether, though `computer_private`
checks it with slow runs that are not cancelled.

**ExternalEffects.** The inductive invariant is `Inv`: types; the card of a waiting run is
undecided; for each attempt where it stands, what it knows of its row and that it asks
only with the lease (`Local`); for each row how its status bounds the times its action was
taken (`Taken`), and that what the user said agrees with it (`Said`). `TakenOnce` needs that the
claim is the only way to execute a consequential row and that a row never gets back from
executing.

**ThreadFollow.** `FollowInv` = the shapes of the locals; the numbers in the log are below
`nextEventSeq` and its newest event has the last number (`LogInv`), no cursor and no event on
its way is further than the log (`ReadersInv`); `NothingSkipped`; and `WakeInv`: a follower that
has read is not behind unless it is told, whether it waits yet or not.

`ViewIsCurrent` rests on `ViewInv`, which adds to it, in this order:

* `Story`, of the thread and its log alone: the newest event of a run tells the run, unless it was
  queued again since; a run's wait or end comes right after its start among the events of runs; a
  card and its wait are neighbours; progress is only there while the run works; the newest event of
  a card or reply tells it.
* `Settled(thread, view, k)`: what a view shows that was brought up to event `k`. A card or reply is
  the thread's unless an event ahead of `k` is about it; so is the run, unless it is queued or a start
  or clearing is ahead, and then at most one event of a run is ahead and is about the view's run; a
  bubble's run works or an event ahead drops it.
* `EventsInv`, `StreamInv`, `RequestInv`: what is under way is in the log or was deleted since, lies
  between client and follower, and a snapshot that was served is settled as of its cursor and never
  between a card and its wait; a first snapshot finds waiting whatever it lacks and was received.
* `ShownInv`: the view is settled as of what the client received, and its own cursor is behind that
  only by waits (`applyThreadEvent` leaves those out that the view shows).

Each step of the thread appends the events that keep `Settled` (`SettledGrows`), the next event moves
it on (`AppliedSettles`), and so do both branches and both exceptions of `reconcileRefreshedThread`
(`ReconciledSettles`): a late snapshot may revive a run only because the bubble's run is the one that
an event ahead is about, and a kept takeover is the run of the view, which is settled already. The
replay of pending events is a recursive function: that it exists and what it keeps is shown by
counting up (`ChainsExist`, `ReplayedSettles`), from the well-foundedness of the numbers. TLC checked
`ViewInv` on 5, 6 and 7 events with 2 runs, in a model without connection and latch, before it was
proved. With nothing ahead, settled is current.

**MessagingDelivery.** `Inv` = types; `PrivacyInv` (where other bots can
listen, what they have heard holds no private text; `SnapshotOK` says it of what a drain has read); one drain has a row in hand (`Exclusive`);
what a drain knows at each place; and for each row how status, attempts, handle and the
counts of the platform go together (`RowOK`). `InviteWhilePending` follows from the lock that a
drain holds while it sends or records.

**CloudAgentPoll.** On the types (`TypeInv`, with the pointers into the provider's runs): `RowInv`
(generations, wakes, and that a poll whose read still stands knows the wishes of the row);
`LeaseInv` (the poll that holds the lease goes by what is so until it sends, and one that read
before a mark cannot claim before the marked request has left); `SentInv` (runs, follow-ups on
their way and the one not yet sent are no more than the generations, from which
`FollowupsAreSentOnce`). For `SettledRowsAreQuiet`: `MarkInv` (`LeaseInv` for the launch), `RemoteInv`
(only the latest run goes on, and the row knows it unless the marked follow-up started it),
`WishInv` (a follow-up is accepted when the runs have ended and the metadata name the latest; a
row that is not due has ended with all its runs, unless its launch was rejected) and `KnowInv`
(what a poll carries to each place still says enough of the provider; one whose follow-up was
rejected knows that it started no run and that no other is on its way).

**HistoryCompaction.** One `Inv` for four theorems: the thread has no hole and its summary tells of
what is in it (`ThreadInv`); a worker that read the row before the last clear is bound to
nothing it could write, and what one read since is sound (`CallInv`); copies of the current
generation tell only of the thread's messages (`MemoryInv`); and what a run was given
(`RunInv`).

### Only model-checked

* Liveness (`QueuedIsTaken`, `MessagesAreSettled`, `WedgedComputerRecovers`, `RowsAreSettled`,
  `ResultIsReported`): fairness and ENABLED are beyond the prover.
* `ApprovedIsReplayed`, `ReclaimRaisesFence`, `RollbackSparesTheWinner`, `ShortWindowIsCompacted`,
  `CancelIsConfirmed` do not hold.

## 11. Not modelled

* **Computer update**: the maintenance reservation and its phases share the row and lease with
  everything in `ComputerLifecycle`, whose instances are at the limit of a run.
* **Bot-to-bot messages and child bots**: delivery keys, hop limits and outcomes; a bot's message
  starts a run as a user's does.
* **Routines and schedules**: calendar arithmetic without state; the runs a routine starts enter
  `RunLifecycle` as parallel triggers.
* **Self-update, sandbox supervisor**: one process that drives docker; what may go wrong is in
  images, files and containers.
* **Worker process**: start-up and wiring; its concurrency is `WorkerOf` in `RunLifecycle`.
* **Memory and search, agent runtimes, providers, connectors, MCP and OAuth**: clients of
  services, nondeterministic where a module meets them.
* **User control of a computer**: the rows of `ComputerControl`; the screen lease's rules are in
  `ComputerLifecycle`, the events of a takeover in `ThreadFollow`.
* **HTTP plumbing, authorization, user interfaces** beyond the operations named above.
