--------------------------- MODULE CloudAgentPoll ---------------------------
(***************************************************************************)
(* One cloud agent: the row that records what the user wants of it, the    *)
(* polls that carry the row's intents to a remote provider and bring its   *)
(* results back, and the provider.  A bot launches the agent, sends it     *)
(* follow-ups and cancels it; the chat that shows it may be cleared.       *)
(***************************************************************************)
EXTENDS Naturals, Sequences

CONSTANTS
  Polls,            \* calls of pollCloudAgent at a time
  NoPoll, DeadPoll, \* the lease is free; its holder died
  SlowClaims,       \* whether a request fits between another poll's read and its claim
  StaleMetadata,    \* whether a run may be followed up before the metadata name it
  CloudFaults,      \* which of AllCloudFaults happen
  MaxGeneration,    \* bound: launches and follow-ups
  MaxCloudUpsets    \* bound: how many faults there are

AllCloudFaults == {"crash", "stall", "lost"}

ASSUME PollsType == NoPoll \notin Polls /\ DeadPoll \notin Polls /\ NoPoll # DeadPoll
ASSUME CloudBounds == /\ SlowClaims \in BOOLEAN /\ StaleMetadata \in BOOLEAN
                      /\ CloudFaults \subseteq AllCloudFaults
                      /\ MaxGeneration \in Nat /\ MaxCloudUpsets \in Nat

VARIABLES
  agent,    \* the CloudAgent row
  card,     \* whether the chat still has the card, and the bot and the member exist
  shown,    \* the status on the card
  woken,    \* how often each generation woke the bot
  poll,     \* the locals of each call of pollCloudAgent
  remote,   \* the runs of the remote agent, in order
  metadata, \* the run its metadata name as the latest
  cloudUpsets

cloudVars == <<agent, card, shown, woken, poll, remote, metadata, cloudUpsets>>

\* A run that the provider ended by itself is "finished", whether it failed or not.
Ended       == {"finished", "failed", "cancelled"}
Status      == {"none", "running"} \union Ended
RemoteState == {"running", "stopping", "finished", "cancelled"}
Generations == 0..MaxGeneration

\* generation and wakeGeneration count from one here; latest = 0 is no remoteId.
\* due: nextPollAt is set.  The marks and the lease change without a
\* new version.
Agent ==
  [status : Status, latest : Nat, dispatched : BOOLEAN, request : BOOLEAN,
   followup : BOOLEAN, dispatching : BOOLEAN, cancel : BOOLEAN,
   generation : Generations, wake : Generations, due : BOOLEAN,
   lease : Polls \union {NoPoll, DeadPoll}, leaseLive : BOOLEAN]

Places == {"idle", "claim", "check", "mark.launch", "launch", "cancel", "observe",
           "mark.reply", "reply", "get", "drop", "answered", "failed",
           "retry", "release"}

Requests == {"launch", "reply", "cancel", "observe", "get"}

\* What a call goes by of the row it read.
Seen == [latest : Nat, dispatched : BOOLEAN, request : BOOLEAN, followup : BOOLEAN,
         dispatching : BOOLEAN, cancel : BOOLEAN]

\* fresh: the row still has the version this call read.
Poll == [at : Places, seen : Seen, fresh : BOOLEAN, abandoned : BOOLEAN,
         answer : [status : Status, latest : Nat]]

NoAgent == [status |-> "none", latest |-> 0, dispatched |-> FALSE, request |-> FALSE,
            followup |-> FALSE, dispatching |-> FALSE, cancel |-> FALSE, generation |-> 0,
            wake |-> 0, due |-> FALSE, lease |-> NoPoll, leaseLive |-> FALSE]

Read(a) == [latest |-> a.latest, dispatched |-> a.dispatched, request |-> a.request,
            followup |-> a.followup, dispatching |-> a.dispatching, cancel |-> a.cancel]

NoAnswer == [status |-> "none", latest |-> 0]
IdlePoll == [at |-> "idle", seen |-> Read(NoAgent), fresh |-> FALSE, abandoned |-> FALSE,
             answer |-> NoAnswer]

CloudInit ==
  /\ agent = NoAgent /\ card = TRUE /\ shown = "none"
  /\ woken = [g \in Generations |-> 0]
  /\ poll = [p \in Polls |-> IdlePoll]
  /\ remote = <<>> /\ metadata = 0
  /\ cloudUpsets = 0

-----------------------------------------------------------------------------
(* The row *)

At(p, place)  == poll[p].at = place
GoTo(p, place) == poll' = [poll EXCEPT ![p].at = place]

CloudFault(kind) ==
  /\ kind \in CloudFaults
  /\ cloudUpsets < MaxCloudUpsets
  /\ cloudUpsets' = cloudUpsets + 1

\* A new version of the row: what the polls have read is stale, except for a poll
\* that goes on as q.
NewVersion(p, q) ==
  poll' = [d \in Polls |-> IF d = p THEN q ELSE [poll[d] EXCEPT !.fresh = FALSE]]

Outdate == poll' = [d \in Polls |-> [poll[d] EXCEPT !.fresh = FALSE]]

\* (wrong: the token only)
FencedByToken(p) == agent.lease = p

\* fence: the version and the token, never the expiry.
Fenced(p) == poll[p].fresh /\ agent.lease = p

Unleased(a) == [a EXCEPT !.lease = NoPoll, !.leaseLive = FALSE]

-----------------------------------------------------------------------------
(* The bot's tools, and the chat *)

\* cloud_agent_launch: the intent and its card.
LaunchAgent ==
  /\ agent.status = "none" /\ card
  /\ MaxGeneration > 0
  /\ agent' = [NoAgent EXCEPT !.status = "running", !.request = TRUE, !.generation = 1,
                              !.due = TRUE]
  /\ shown' = "running"
  /\ UNCHANGED <<card, woken, poll, remote, metadata, cloudUpsets>>

\* cloud_agent_reply: only between operations.
ReplyToAgent ==
  /\ agent.status \in Ended /\ agent.latest # 0 /\ ~agent.followup /\ ~agent.cancel
  /\ StaleMetadata \/ agent.latest <= metadata
  /\ agent.generation < MaxGeneration
  /\ agent' = [agent EXCEPT !.followup = TRUE, !.dispatching = FALSE, !.status = "running",
                            !.generation = @ + 1, !.due = TRUE]
  /\ Outdate
  /\ UNCHANGED <<card, shown, woken, remote, metadata, cloudUpsets>>

\* cloud_agent_cancel: at any time.
CancelAgent ==
  /\ agent.status # "none" /\ ~agent.cancel
  /\ agent' = [agent EXCEPT !.cancel = TRUE, !.due = TRUE]
  /\ Outdate
  /\ UNCHANGED <<card, shown, woken, remote, metadata, cloudUpsets>>

\* The chat is cleared, the bot archived or the membership revoked.
Detach ==
  /\ card
  /\ card' = FALSE
  /\ UNCHANGED <<agent, shown, woken, poll, remote, metadata, cloudUpsets>>

-----------------------------------------------------------------------------
(* pollCloudAgent *)

\* A job is delivered, for a request, an earlier poll or by the reconciler.
PollRead(p) ==
  /\ At(p, "idle")
  /\ agent.due
  /\ poll' = [poll EXCEPT ![p] = [IdlePoll EXCEPT !.at = "claim", !.seen = Read(agent),
                                                  !.fresh = TRUE]]
  /\ UNCHANGED <<agent, card, shown, woken, remote, metadata, cloudUpsets>>

PollClaim(p) ==
  /\ At(p, "claim")
  /\ \/ /\ poll[p].fresh /\ ~agent.leaseLive
        /\ agent' = [agent EXCEPT !.lease = p, !.leaseLive = TRUE]
        /\ GoTo(p, "check")
     \/ /\ ~poll[p].fresh \/ agent.leaseLive
        /\ poll' = [poll EXCEPT ![p] = IdlePoll]
        /\ UNCHANGED agent
  /\ UNCHANGED <<card, shown, woken, remote, metadata, cloudUpsets>>

\* (wrong: a cancelled follow-up whose answer was lost is dropped)
NextStepDropsDispatched(seen, abandoned) ==
  LET unwanted == abandoned \/ seen.cancel IN
  CASE seen.latest = 0 -> IF unwanted /\ ~seen.dispatched THEN "drop" ELSE "mark.launch"
    [] seen.latest # 0 /\ unwanted -> IF seen.followup THEN "drop" ELSE "cancel"
    [] seen.latest # 0 /\ ~unwanted /\ seen.followup ->
         IF seen.dispatching THEN "observe" ELSE "mark.reply"
    [] OTHER -> "get"

\* (wrong: a follow-up whose answer was lost is sent again)
NextStepResends(seen, abandoned) ==
  LET unwanted == abandoned \/ seen.cancel
      unsent   == seen.followup /\ ~seen.dispatching
  IN
  CASE seen.latest = 0 -> IF unwanted /\ ~seen.dispatched THEN "drop" ELSE "mark.launch"
    [] seen.latest # 0 /\ unwanted -> IF unsent THEN "drop" ELSE "cancel"
    [] seen.latest # 0 /\ ~unwanted /\ seen.followup -> "mark.reply"
    [] OTHER -> "get"

\* What the row asks for.
NextStep(seen, abandoned) ==
  LET unwanted == abandoned \/ seen.cancel
      unsent   == seen.followup /\ ~seen.dispatching
  IN
  CASE seen.latest = 0 -> IF unwanted /\ ~seen.dispatched THEN "drop" ELSE "mark.launch"
    [] seen.latest # 0 /\ unwanted -> IF unsent THEN "drop" ELSE "cancel"
    [] seen.latest # 0 /\ ~unwanted /\ seen.followup ->
         IF unsent THEN "mark.reply" ELSE "observe"
    [] OTHER -> "get"

PollCheck(p) ==
  /\ At(p, "check")
  /\ poll' = [poll EXCEPT ![p].abandoned = ~card,
                          ![p].at = NextStep(poll[p].seen, ~card)]
  /\ UNCHANGED <<agent, card, shown, woken, remote, metadata, cloudUpsets>>

\* Before the launch, so that a crash repeats it.  A request that was removed
\* (the launch was rejected) does not parse.
MarkLaunch(p) ==
  /\ At(p, "mark.launch")
  /\ \/ /\ Fenced(p)
        /\ agent' = [agent EXCEPT !.dispatched = TRUE]
        /\ GoTo(p, IF poll[p].seen.request THEN "launch" ELSE "retry")
     \/ ~Fenced(p) /\ GoTo(p, "release") /\ UNCHANGED agent
  /\ UNCHANGED <<card, shown, woken, remote, metadata, cloudUpsets>>

\* Before the follow-up, so that a crash does not repeat it.
MarkReply(p) ==
  /\ At(p, "mark.reply")
  /\ \/ Fenced(p) /\ agent' = [agent EXCEPT !.dispatching = TRUE] /\ GoTo(p, "reply")
     \/ ~Fenced(p) /\ GoTo(p, "release") /\ UNCHANGED agent
  /\ UNCHANGED <<card, shown, woken, remote, metadata, cloudUpsets>>

-----------------------------------------------------------------------------
(* Requests to the provider; an answer may be lost *)

\* A poll whose read is older than a mark: the row has the version it read.
ReadBeforeMark(p) ==
  /\ At(p, "claim") /\ poll[p].fresh
  /\ \/ poll[p].seen.dispatched # agent.dispatched
     \/ poll[p].seen.dispatching # agent.dispatching

\* A request, or a lease, takes longer than two statements of another poll.
TimePasses == SlowClaims \/ \A p \in Polls : ~ReadBeforeMark(p)

Shows(state) == IF state = "stopping" THEN "running" ELSE state

\* The call is given the state of run k.
Answered(p, k, runs) ==
  poll' = [poll EXCEPT ![p].at = "answered",
                       ![p].answer = [status |-> Shows(runs[k]), latest |-> k]]

\* The answer is lost, or what is asked of a run is rejected: the poll is repeated.
RequestLost(p) == CloudFault("lost") /\ GoTo(p, "retry")

\* A launch or a follow-up that the provider rejects, as it may at any time, whatever it
\* accepted before (a key that was revoked).
RequestRejected(p) == GoTo(p, "failed") /\ UNCHANGED <<remote, cloudUpsets>>

\* Creating an agent twice with one key is creating it once.
LaunchRequest(p) ==
  LET runs == IF remote = <<>> THEN <<"running">> ELSE remote IN
  /\ At(p, "launch") /\ TimePasses
  /\ \/ remote' = runs /\ Answered(p, Len(runs), runs) /\ UNCHANGED cloudUpsets
     \/ remote' = runs /\ RequestLost(p)
     \/ RequestLost(p) /\ UNCHANGED remote
     \/ RequestRejected(p)
  /\ metadata' = IF metadata = 0 /\ remote' # <<>> THEN 1 ELSE metadata
  /\ UNCHANGED <<agent, card, shown, woken>>

\* A follow-up starts a new run; not while the last one still goes on.
ReplyRequest(p) ==
  LET runs == Append(remote, "running") IN
  /\ At(p, "reply") /\ TimePasses
  /\ \/ /\ remote[Len(remote)] \in Ended /\ remote' = runs
        /\ \/ Answered(p, Len(runs), runs) /\ UNCHANGED cloudUpsets
           \/ RequestLost(p)
     \/ RequestLost(p) /\ UNCHANGED remote
     \/ RequestRejected(p)
  /\ UNCHANGED <<agent, card, shown, woken, metadata>>

\* The run a cancellation is about: the one the row knows, or the latest according
\* to the metadata if a follow-up may have started another.
CancelTarget(p) == IF poll[p].seen.dispatching THEN metadata ELSE poll[p].seen.latest

\* After a follow-up whose answer was lost the run the row knows says nothing of it.
OldRun(p, k) == poll[p].seen.dispatching /\ k = poll[p].seen.latest

\* The run is asked to stop, and looked at again.
CancelRequest(p) ==
  LET k == CancelTarget(p) IN
  /\ At(p, "cancel") /\ TimePasses
  /\ \/ /\ \E state \in {"stopping", "cancelled"} :
             remote' = [remote EXCEPT ![k] = IF @ = "running" THEN state ELSE @]
        /\ \/ OldRun(p, k) /\ GoTo(p, "retry") /\ UNCHANGED cloudUpsets
           \/ ~OldRun(p, k) /\ Answered(p, k, remote') /\ UNCHANGED cloudUpsets
           \/ RequestLost(p)
     \/ RequestLost(p) /\ UNCHANGED remote
  /\ UNCHANGED <<agent, card, shown, woken, metadata>>

\* The answer to a follow-up was lost: has it started a new run?
ObserveRequest(p) ==
  /\ At(p, "observe") /\ TimePasses
  /\ \/ OldRun(p, metadata) /\ GoTo(p, "retry") /\ UNCHANGED cloudUpsets
     \/ ~OldRun(p, metadata) /\ Answered(p, metadata, remote) /\ UNCHANGED cloudUpsets
     \/ RequestLost(p)
  /\ UNCHANGED <<agent, card, shown, woken, remote, metadata>>

GetRequest(p) ==
  /\ At(p, "get") /\ TimePasses
  /\ \/ Answered(p, poll[p].seen.latest, remote) /\ UNCHANGED cloudUpsets
     \/ RequestLost(p)
  /\ UNCHANGED <<agent, card, shown, woken, remote, metadata>>

-----------------------------------------------------------------------------
(* The end of a poll *)

\* The row as the poll leaves it.
Outcome(p) ==
  CASE At(p, "answered") -> [status |-> poll[p].answer.status, latest |-> poll[p].answer.latest]
    [] At(p, "failed")   -> [status |-> "failed", latest |-> agent.latest]
    [] OTHER             -> [status |-> "cancelled", latest |-> agent.latest]

\* The bot is there to hear of it.
Wanted(p) == card /\ ~poll[p].abandoned

\* (wrong: the row is not told that the bot was woken)
WakeForgotten(p, ended) == agent.wake

WakeAfter(p, ended) == IF ended /\ Wanted(p) THEN agent.generation ELSE agent.wake

\* (wrong: the row of a running agent asks for no other poll)
DueNever(ended) == FALSE

DueAfter(ended) == ~ended

Finished(p) ==
  LET ended == Outcome(p).status # "running" IN
  [Unleased(agent) EXCEPT
     !.status = Outcome(p).status, !.latest = Outcome(p).latest,
     !.request = FALSE, !.followup = FALSE, !.dispatching = FALSE,
     !.cancel = ~ended /\ (~Wanted(p) \/ poll[p].seen.cancel),
     !.due = DueAfter(ended), !.wake = WakeAfter(p, ended)]

ShownAfter(p) == IF Wanted(p) THEN Outcome(p).status ELSE shown

\* finishPoll: if nothing changed the row meanwhile, its new state, the card's, and
\* a run that wakes the bot, together.
FinishPoll(p) ==
  /\ poll[p].at \in {"answered", "failed", "drop"}
  /\ \/ /\ Fenced(p)
        /\ agent' = Finished(p)
        /\ shown' = ShownAfter(p)
        /\ woken' = IF Outcome(p).status \in Ended /\ Wanted(p) /\ agent.wake < agent.generation
                      THEN [woken EXCEPT ![agent.generation] = @ + 1] ELSE woken
        /\ NewVersion(p, [IdlePoll EXCEPT !.at = "release"])
     \/ ~Fenced(p) /\ GoTo(p, "release") /\ UNCHANGED <<agent, shown, woken>>
  /\ UNCHANGED <<card, remote, metadata, cloudUpsets>>

\* retryPoll: later, without a new version.
RetryPoll(p) ==
  /\ At(p, "retry")
  /\ agent' = IF Fenced(p) THEN [Unleased(agent) EXCEPT !.due = TRUE] ELSE agent
  /\ GoTo(p, "release")
  /\ UNCHANGED <<card, shown, woken, remote, metadata, cloudUpsets>>

\* The finally block gives up only the poll's own lease.
ReleasePoll(p) ==
  /\ At(p, "release")
  /\ agent' = IF agent.lease = p THEN Unleased(agent) ELSE agent
  /\ poll' = [poll EXCEPT ![p] = IdlePoll]
  /\ UNCHANGED <<card, shown, woken, remote, metadata, cloudUpsets>>

-----------------------------------------------------------------------------
(* The provider, time and faults *)

RunEnds ==
  /\ \E k \in DOMAIN remote :
       \/ remote[k] = "running" /\ remote' = [remote EXCEPT ![k] = "finished"]
       \/ remote[k] = "stopping" /\ remote' = [remote EXCEPT ![k] = "cancelled"]
  /\ UNCHANGED <<agent, card, shown, woken, poll, metadata, cloudUpsets>>

MetadataCatchesUp ==
  /\ metadata < Len(remote)
  /\ metadata' = metadata + 1
  /\ UNCHANGED <<agent, card, shown, woken, poll, remote, cloudUpsets>>

\* A lease outlives the requests of its poll, unless the process stalls in one or dies.
PollLeaseLapses ==
  /\ agent.leaseLive /\ TimePasses
  /\ \/ agent.lease = DeadPoll /\ UNCHANGED cloudUpsets
     \/ /\ agent.lease \in Polls
        /\ SlowClaims \/ poll[agent.lease].at \in Requests
        /\ CloudFault("stall")
  /\ agent' = [agent EXCEPT !.leaseLive = FALSE]
  /\ UNCHANGED <<card, shown, woken, poll, remote, metadata>>

PollCrashes(p) ==
  /\ ~At(p, "idle")
  /\ CloudFault("crash")
  /\ poll' = [poll EXCEPT ![p] = IdlePoll]
  /\ agent' = IF agent.lease = p THEN [agent EXCEPT !.lease = DeadPoll] ELSE agent
  /\ UNCHANGED <<card, shown, woken, remote, metadata>>

PollStep(p) ==
  \/ PollClaim(p) \/ PollCheck(p) \/ MarkLaunch(p) \/ MarkReply(p)
  \/ LaunchRequest(p) \/ ReplyRequest(p) \/ CancelRequest(p) \/ ObserveRequest(p) \/ GetRequest(p)
  \/ FinishPoll(p) \/ RetryPoll(p) \/ ReleasePoll(p)

CloudNext ==
  \/ LaunchAgent \/ ReplyToAgent \/ CancelAgent \/ Detach
  \/ \E p \in Polls : PollRead(p) \/ PollStep(p) \/ PollCrashes(p)
  \/ RunEnds \/ MetadataCatchesUp \/ PollLeaseLapses

CloudSpec == CloudInit /\ [][CloudNext]_cloudVars

-----------------------------------------------------------------------------
(* Properties *)

\* The rows, the calls and the provider keep their types (schema.prisma, CloudAgent).
CloudTypeOK ==
  /\ agent \in Agent /\ card \in BOOLEAN /\ shown \in Status
  /\ woken \in [Generations -> Nat]
  /\ poll \in [Polls -> Poll]
  /\ remote \in Seq(RemoteState) /\ metadata \in Nat
  /\ cloudUpsets \in Nat

\* A bot is woken once for the result of a launch and once for that of each
\* follow-up, however many polls, crashes and cancellations there are (the wake is
\* in finishPoll's transaction).
WokenOnce == \A g \in Generations : woken[g] <= 1

\* The row ended because the provider rejected the launch; it may have accepted it before,
\* when the answer was lost, and what it started then is not asked for again.
LaunchRejected == agent.status = "failed" /\ agent.latest = 0

\* When the row asks for no more polls nothing runs at the provider, and the card shows
\* how it ended: no cancellation that was confirmed, no failure of a follow-up and no
\* dropped one leaves a run behind.
SettledMeansQuiet ==
  agent.status # "none" /\ ~agent.due =>
    /\ LaunchRejected \/ \A k \in DOMAIN remote : remote[k] \in Ended
    /\ card => shown = agent.status

\* ("Cancellation likewise remains pending until the remote state confirms it.")  A wish
\* to cancel is given up only when the runs have ended.  It does not hold: the repetition of a
\* cancelled launch may be rejected.
CancelIsConfirmed ==
  [][agent.cancel /\ ~agent'.cancel => \A k \in DOMAIN remote' : remote'[k] \in Ended]_cloudVars

\* A follow-up is sent once: its runs are no more than the launch and the follow-ups
\* ("never resend the mutation").
FollowupSentOnce == Len(remote) <= agent.generation

\* A wish to cancel is kept until the row has ended: no poll that began before the
\* wish takes it away.
CancelIsKept ==
  [][agent.cancel /\ ~agent'.cancel => agent'.status \in Ended]_cloudVars

-----------------------------------------------------------------------------
(* Liveness *)

\* Calls go on, requests are answered, a dead poll's lease lapses, the reconciler finds
\* due rows, and the provider's runs end.
CloudFairness ==
  /\ \A p \in Polls : WF_cloudVars(PollStep(p))
  /\ SF_cloudVars(\E p \in Polls : PollRead(p))
  /\ WF_cloudVars(agent.lease = DeadPoll /\ PollLeaseLapses)
  /\ WF_cloudVars(MetadataCatchesUp)
  /\ WF_cloudVars(RunEnds)

\* A follow-up was marked as sent and did not reach the provider: the row waits for a
\* run that does not come ("if a request's outcome remains unknown indefinitely,
\* inspect the agent on the provider's site").
Unknown == agent.dispatching /\ Len(remote) = agent.latest

Waiting == card /\ agent.status = "running"

\* What was launched or asked comes to an end and is reported to the bot, unless the
\* fate of a follow-up stays unknown.
ResultIsReported == []<>(~Waiting /\ (card => agent.wake = agent.generation)) \/ <>[]Unknown
=============================================================================
