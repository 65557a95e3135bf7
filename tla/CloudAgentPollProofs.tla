------------------------ MODULE CloudAgentPollProofs ------------------------
(***************************************************************************)
(* Theorems about CloudAgentPoll, for every number of polls, follow-ups    *)
(* and faults.                                                             *)
(***************************************************************************)
EXTENDS CloudAgentPoll, FiniteSetTheorems, SequenceTheorems, TLAPS

USE PollsType, CloudBounds

-----------------------------------------------------------------------------
(* Types *)

\* The row, its readers and the metadata name only runs there are, and a poll is at
\* a request about a run only when it knows one.
Pointers ==
  /\ metadata <= Len(remote) /\ (remote # <<>> => metadata # 0)
  /\ agent.latest <= Len(remote)
  /\ \A p \in Polls :
       /\ poll[p].seen.latest <= Len(remote)
       /\ poll[p].at \in {"cancel", "observe", "mark.reply", "reply", "get"} =>
            poll[p].seen.latest # 0
       /\ poll[p].at = "answered" =>
            poll[p].answer.latest <= Len(remote) /\ poll[p].answer.status # "none"

TypeInv == CloudTypeOK /\ Pointers

LEMMA InitTypes == CloudInit => TypeInv
<1> SUFFICES ASSUME CloudInit PROVE TypeInv
  OBVIOUS
<1>1. NoAgent \in Agent
  BY DEF NoAgent, Agent, Status, Ended, Generations
<1>2. IdlePoll \in Poll /\ IdlePoll.at = "idle" /\ IdlePoll.seen.latest = 0
  BY DEF IdlePoll, Poll, Places, Seen, NoAgent, Read, NoAnswer, Status, Ended
<1>3. remote \in Seq(RemoteState) /\ Len(remote) = 0
  BY EmptySeq DEF CloudInit
<1> QED
  BY <1>1, <1>2, <1>3 DEF CloudInit, TypeInv, CloudTypeOK, Pointers, Status, Ended, NoAgent

LEMMA ReadType == ASSUME NEW a \in Agent PROVE Read(a) \in Seen /\ Read(a).latest = a.latest
  BY DEF Agent, Read, Seen

LEMMA IdleType == IdlePoll \in Poll /\ IdlePoll.at = "idle" /\ IdlePoll.seen.latest = 0
  BY DEF IdlePoll, Poll, Places, Seen, NoAgent, Read, NoAnswer, Status, Ended

\* A step that leaves the provider alone keeps TypeInv if the row and each poll do.
LEMMA RowStep ==
  ASSUME TypeInv, agent' \in Agent, agent'.latest <= Len(remote),
         poll' \in [Polls -> Poll],
         \A p \in Polls :
           /\ poll'[p].seen.latest <= Len(remote)
           /\ poll'[p].at \in {"cancel", "observe", "mark.reply", "reply", "get"} =>
                poll'[p].seen.latest # 0
           /\ poll'[p].at = "answered" =>
                poll'[p].answer.latest <= Len(remote) /\ poll'[p].answer.status # "none",
         card' \in BOOLEAN, shown' \in Status, woken' \in [Generations -> Nat],
         cloudUpsets' \in Nat, UNCHANGED <<remote, metadata>>
  PROVE  TypeInv'
  BY DEF TypeInv, CloudTypeOK, Pointers

\* How a poll moves on.
LEMMA GoToPoll ==
  ASSUME poll \in [Polls -> Poll], NEW p \in Polls, NEW place \in Places, GoTo(p, place)
  PROVE  /\ poll' \in [Polls -> Poll]
         /\ poll'[p] = [poll[p] EXCEPT !.at = place]
         /\ poll'[p].at = place /\ poll'[p].seen = poll[p].seen
         /\ poll'[p].fresh = poll[p].fresh /\ poll'[p].abandoned = poll[p].abandoned
         /\ poll'[p].answer = poll[p].answer
         /\ \A d \in Polls \ {p} : poll'[d] = poll[d]
  BY DEF GoTo, Poll

LEMMA GoToStep ==
  ASSUME TypeInv, NEW p \in Polls, NEW place \in Places \ {"answered"}, GoTo(p, place),
         place \in {"cancel", "observe", "mark.reply", "reply", "get"} => poll[p].seen.latest # 0,
         agent' \in Agent, agent'.latest <= Len(remote),
         card' \in BOOLEAN, shown' \in Status, woken' \in [Generations -> Nat],
         cloudUpsets' \in Nat, UNCHANGED <<remote, metadata>>
  PROVE  TypeInv'
<1>1. poll \in [Polls -> Poll] /\ Pointers
  BY DEF TypeInv, CloudTypeOK
<1>2. /\ poll' \in [Polls -> Poll]
      /\ poll'[p].at = place /\ poll'[p].seen = poll[p].seen
      /\ \A d \in Polls \ {p} : poll'[d] = poll[d]
  BY <1>1, GoToPoll
<1>3. ASSUME NEW d \in Polls
      PROVE  /\ poll'[d].seen.latest <= Len(remote)
             /\ poll'[d].at \in {"cancel", "observe", "mark.reply", "reply", "get"} =>
                  poll'[d].seen.latest # 0
             /\ poll'[d].at = "answered" =>
                  poll'[d].answer.latest <= Len(remote) /\ poll'[d].answer.status # "none"
  <2>1. CASE d = p
    BY <1>1, <1>2, <2>1 DEF Pointers
  <2>2. CASE d # p
    BY <1>1, <1>2, <2>2 DEF Pointers
  <2> QED
    BY <2>1, <2>2
<1> QED
  BY <1>2, <1>3, RowStep

LEMMA OutdatePoll ==
  ASSUME poll \in [Polls -> Poll], Outdate
  PROVE  /\ poll' \in [Polls -> Poll]
         /\ \A d \in Polls :
              /\ ~poll'[d].fresh /\ poll'[d].at = poll[d].at /\ poll'[d].seen = poll[d].seen
              /\ poll'[d].answer = poll[d].answer
  BY DEF Outdate, Poll

LEMMA RowSteps ==
  ASSUME TypeInv, LaunchAgent \/ ReplyToAgent \/ CancelAgent \/ Detach PROVE TypeInv'
<1>1. CASE LaunchAgent
  <2>1. agent' \in Agent /\ agent'.latest = 0
    <3>1. 0 \in Generations /\ 1 \in Generations
      BY <1>1 DEF LaunchAgent, Generations
    <3>2. NoAgent \in Agent /\ NoAgent.latest = 0
      BY <3>1 DEF NoAgent, Agent, Status, Ended
    <3> QED
      BY <1>1, <3>1, <3>2 DEF LaunchAgent, Agent, Status
  <2>2. 0 <= Len(remote)
    BY LenProperties DEF TypeInv, CloudTypeOK
  <2> QED
    BY <1>1, <2>1, <2>2, RowStep DEF LaunchAgent, TypeInv, CloudTypeOK, Pointers, Status
<1>2. CASE ReplyToAgent
  <2>1. agent.generation + 1 \in Generations
    BY <1>2 DEF ReplyToAgent, TypeInv, CloudTypeOK, Agent, Generations
  <2>2. agent' \in Agent /\ agent'.latest = agent.latest
    BY <1>2, <2>1 DEF ReplyToAgent, TypeInv, CloudTypeOK, Agent, Status
  <2> QED
    BY <1>2, <2>2, OutdatePoll, RowStep DEF ReplyToAgent, TypeInv, CloudTypeOK, Pointers
<1>3. CASE CancelAgent
  <2>1. agent' \in Agent /\ agent'.latest = agent.latest
    BY <1>3 DEF CancelAgent, TypeInv, CloudTypeOK, Agent
  <2> QED
    BY <1>3, <2>1, OutdatePoll, RowStep DEF CancelAgent, TypeInv, CloudTypeOK, Pointers
<1>4. CASE Detach
  BY <1>4 DEF Detach, TypeInv, CloudTypeOK, Pointers
<1> QED
  BY <1>1, <1>2, <1>3, <1>4

LEMMA StartTypes ==
  ASSUME TypeInv, NEW p \in Polls, PollRead(p) \/ PollClaim(p) \/ PollCheck(p) PROVE TypeInv'
<1>1. CASE PollRead(p)
  <2> DEFINE q == [IdlePoll EXCEPT !.at = "claim", !.seen = Read(agent), !.fresh = TRUE]
  <2>1. q \in Poll /\ q.at = "claim" /\ q.seen = Read(agent)
    BY IdleType, ReadType DEF Poll, Places, TypeInv, CloudTypeOK
  <2>2. poll' = [poll EXCEPT ![p] = q]
    BY <1>1 DEF PollRead
  <2> HIDE DEF q
  <2> QED
    BY <1>1, <2>1, <2>2, ReadType DEF PollRead, TypeInv, CloudTypeOK, Pointers
<1>2. CASE PollClaim(p)
  <2>1. agent' \in Agent /\ agent'.latest = agent.latest
    BY <1>2 DEF PollClaim, TypeInv, CloudTypeOK, Agent
  <2>2. CASE GoTo(p, "check")
    <3>1. "check" \in Places
      BY DEF Places
    <3> QED
      BY <1>2, <2>1, <2>2, <3>1, GoToStep DEF PollClaim, TypeInv, CloudTypeOK, Pointers
  <2>3. CASE poll' = [poll EXCEPT ![p] = IdlePoll]
    BY <1>2, <2>1, <2>3, IdleType, RowStep, LenProperties
       DEF PollClaim, TypeInv, CloudTypeOK, Pointers
  <2> QED
    BY <1>2, <2>2, <2>3 DEF PollClaim
<1>3. CASE PollCheck(p)
  <2> DEFINE place == NextStep(poll[p].seen, ~card)
             q == [poll[p] EXCEPT !.abandoned = ~card, !.at = place]
  <2>1. place \in Places \ {"answered"}
    BY DEF NextStep, Places
  <2>2. place \in {"cancel", "observe", "mark.reply", "reply", "get"} =>
          poll[p].seen.latest # 0
    BY DEF NextStep
  <2>3. poll' = [poll EXCEPT ![p] = q]
    BY <1>3 DEF PollCheck, TypeInv, CloudTypeOK, Poll
  <2> HIDE DEF place
  <2>4. q \in Poll /\ q.at = place /\ q.seen = poll[p].seen
    BY <1>3, <2>1 DEF PollCheck, TypeInv, CloudTypeOK, Poll
  <2> HIDE DEF q
  <2> QED
    BY <1>3, <2>1, <2>2, <2>3, <2>4 DEF PollCheck, TypeInv, CloudTypeOK, Pointers
<1> QED
  BY <1>1, <1>2, <1>3

LEMMA MarkTypes ==
  ASSUME TypeInv, NEW p \in Polls, MarkLaunch(p) \/ MarkReply(p) PROVE TypeInv'
<1>1. agent' \in Agent /\ agent'.latest = agent.latest
  BY DEF MarkLaunch, MarkReply, TypeInv, CloudTypeOK, Agent
<1>2. PICK place \in {"launch", "retry", "release", "reply"} :
        GoTo(p, place) /\ (place = "reply" => poll[p].at = "mark.reply")
  BY DEF MarkLaunch, MarkReply, At
<1>3. place \in Places \ {"answered"}
  BY <1>2 DEF Places
<1>4. UNCHANGED <<card, shown, woken, remote, metadata, cloudUpsets>>
  BY DEF MarkLaunch, MarkReply
<1>5. CloudTypeOK /\ Pointers
  BY DEF TypeInv
<1>6. place \in {"cancel", "observe", "mark.reply", "reply", "get"} => poll[p].seen.latest # 0
  BY <1>2, <1>5 DEF Pointers
<1> QED
  BY <1>1, <1>2, <1>3, <1>4, <1>5, <1>6, GoToStep DEF CloudTypeOK, Pointers

-----------------------------------------------------------------------------
(* Types: the requests *)

\* Faults are counted.
LEMMA FaultType == ASSUME CloudTypeOK, NEW kind, CloudFault(kind) PROVE cloudUpsets' \in Nat
  BY DEF CloudTypeOK, CloudFault

LEMMA AnsweredPoll ==
  ASSUME poll \in [Polls -> Poll], NEW p \in Polls, NEW runs \in Seq(RemoteState),
         NEW k \in 1..Len(runs), Answered(p, k, runs)
  PROVE  /\ poll' \in [Polls -> Poll]
         /\ poll'[p].at = "answered" /\ poll'[p].seen = poll[p].seen
         /\ poll'[p].fresh = poll[p].fresh
         /\ poll'[p].answer.latest = k /\ poll'[p].answer.status \in Status \ {"none"}
         /\ \A d \in Polls \ {p} : poll'[d] = poll[d]
<1> DEFINE a == [status |-> Shows(runs[k]), latest |-> k]
           q == [poll[p] EXCEPT !.at = "answered", !.answer = a]
<1>1. runs[k] \in RemoteState
  BY ElementOfSeq
<1>2. a \in [status : Status, latest : Nat] /\ a.status # "none" /\ a.latest = k
  BY <1>1, LenProperties DEF Shows, RemoteState, Status, Ended
<1>3. poll' = [poll EXCEPT ![p] = q]
  BY DEF Answered, Poll
<1> HIDE DEF a
<1>4. /\ q \in Poll /\ q.at = "answered" /\ q.seen = poll[p].seen /\ q.answer = a
      /\ q.fresh = poll[p].fresh
  BY <1>2 DEF Poll, Places
<1> HIDE DEF q
<1> QED
  BY <1>2, <1>3, <1>4

\* A step at the provider that may add a run keeps TypeInv if the polls stay sound.
LEMMA ProviderStep ==
  ASSUME TypeInv, UNCHANGED <<agent, card, shown, woken>>, cloudUpsets' \in Nat,
         remote' \in Seq(RemoteState), Len(remote) <= Len(remote'),
         metadata' \in Nat, metadata' <= Len(remote'), remote' # <<>> => metadata' # 0,
         poll' \in [Polls -> Poll],
         \A p \in Polls :
           /\ poll'[p].seen = poll[p].seen
           /\ \/ poll'[p].at \in {"retry", "failed"}
              \/ poll'[p] = poll[p]
              \/ /\ poll'[p].at = "answered"
                 /\ poll'[p].answer.latest <= Len(remote') /\ poll'[p].answer.status # "none"
  PROVE  TypeInv'
<1>1. Len(remote) \in Nat /\ Len(remote') \in Nat /\ agent.latest \in Nat
  BY LenProperties DEF TypeInv, CloudTypeOK, Agent
<1>2. \A p \in Polls : poll[p].seen.latest \in Nat /\ poll[p].answer.latest \in Nat
  BY DEF TypeInv, CloudTypeOK, Poll, Seen
<1>3. CloudTypeOK'
  BY DEF TypeInv, CloudTypeOK
<1>4. ASSUME NEW p \in Polls
      PROVE  /\ poll'[p].seen.latest <= Len(remote')
             /\ poll'[p].at \in {"cancel", "observe", "mark.reply", "reply", "get"} =>
                  poll'[p].seen.latest # 0
             /\ poll'[p].at = "answered" =>
                  poll'[p].answer.latest <= Len(remote') /\ poll'[p].answer.status # "none"
  BY <1>1, <1>2 DEF TypeInv, Pointers
<1>5. agent.latest <= Len(remote')
  BY <1>1 DEF TypeInv, Pointers
<1> QED
  BY <1>3, <1>4, <1>5 DEF TypeInv, Pointers

\* How a poll leaves a request: it is told of one of runs, fails or gives up.
Left(p, runs) ==
  \/ \E k \in 1..Len(runs) : Answered(p, k, runs)
  \/ GoTo(p, "retry")
  \/ GoTo(p, "failed")

LEMMA LeftPoll ==
  ASSUME TypeInv, NEW p \in Polls, NEW runs \in Seq(RemoteState), Left(p, runs)
  PROVE  /\ poll' \in [Polls -> Poll]
         /\ poll'[p].at \in {"answered", "retry", "failed"}
         /\ \A d \in Polls \ {p} : poll'[d] = poll[d]
         /\ \A d \in Polls :
              /\ poll'[d].seen = poll[d].seen /\ poll'[d].fresh = poll[d].fresh
              /\ \/ poll'[d].at \in {"retry", "failed"}
                 \/ poll'[d] = poll[d]
                 \/ /\ poll'[d].at = "answered"
                    /\ poll'[d].answer.latest <= Len(runs) /\ poll'[d].answer.status # "none"
<1>1. "retry" \in Places /\ "failed" \in Places /\ poll \in [Polls -> Poll]
  BY DEF Places, TypeInv, CloudTypeOK
<1>2. Len(runs) \in Nat
  BY LenProperties
<1>3. CASE \E k \in 1..Len(runs) : Answered(p, k, runs)
  <2>1. PICK k \in 1..Len(runs) : Answered(p, k, runs)
    BY <1>3
  <2>2. k <= Len(runs)
    BY <1>2
  <2> QED
    BY <1>1, <2>1, <2>2, AnsweredPoll
<1>4. CASE GoTo(p, "retry")
  BY <1>1, <1>4, GoToPoll
<1>5. CASE GoTo(p, "failed")
  BY <1>1, <1>5, GoToPoll
<1> QED
  BY <1>3, <1>4, <1>5 DEF Left

LEMMA LeftTypes ==
  ASSUME TypeInv, NEW p \in Polls, remote' \in Seq(RemoteState), Left(p, remote'),
         UNCHANGED <<agent, card, shown, woken>>, cloudUpsets' \in Nat,
         Len(remote) <= Len(remote'),
         metadata' \in Nat, metadata' <= Len(remote'), remote' # <<>> => metadata' # 0
  PROVE  TypeInv'
<1>1. /\ poll' \in [Polls -> Poll]
      /\ \A d \in Polls :
           /\ poll'[d].seen = poll[d].seen
           /\ \/ poll'[d].at \in {"retry", "failed"}
              \/ poll'[d] = poll[d]
              \/ /\ poll'[d].at = "answered"
                 /\ poll'[d].answer.latest <= Len(remote') /\ poll'[d].answer.status # "none"
  BY LeftPoll
<1> QED
  BY <1>1, ProviderStep

LEMMA RequestTypes ==
  ASSUME TypeInv, NEW p \in Polls,
         \/ LaunchRequest(p) \/ ReplyRequest(p) \/ CancelRequest(p)
         \/ ObserveRequest(p) \/ GetRequest(p)
  PROVE  /\ TypeInv' /\ Left(p, remote')
         /\ \/ Len(remote') = Len(remote)
            \/ Len(remote') = Len(remote) + 1 /\ At(p, "reply")
            \/ Len(remote') = Len(remote) + 1 /\ At(p, "launch") /\ remote = <<>>
<1>0. /\ Len(remote) \in Nat /\ remote \in Seq(RemoteState) /\ metadata \in Nat
      /\ CloudTypeOK /\ Pointers
      /\ poll[p].seen.latest \in Nat
  BY LenProperties DEF TypeInv, CloudTypeOK, Poll, Seen
<1>1. CASE LaunchRequest(p)
  <2> DEFINE runs == IF remote = <<>> THEN <<"running">> ELSE remote
  <2>1. /\ runs \in Seq(RemoteState) /\ Len(runs) \in 1..Len(runs)
        /\ runs # <<>> /\ Len(runs) = IF remote = <<>> THEN 1 ELSE Len(remote)
    <3>1. remote = <<>> => Len(remote) = 0
      BY EmptySeq
    <3>2. remote # <<>> => Len(remote) # 0
      BY <1>0, EmptySeq
    <3>3. <<"running">> \in Seq(RemoteState) /\ Len(<<"running">>) = 1 /\ <<"running">> # <<>>
      BY DEF RemoteState
    <3> QED
      BY <1>0, <3>1, <3>2, <3>3
  <2> HIDE DEF runs
  <2>2. remote' \in {runs, remote}
    BY <1>1 DEF LaunchRequest, RequestRejected, runs
  <2>3. Left(p, remote')
    BY <1>1, <2>1 DEF LaunchRequest, runs, Left, RequestLost, RequestRejected
  <2>4. cloudUpsets' \in Nat
    BY <1>0, <1>1, FaultType DEF LaunchRequest, RequestLost, RequestRejected, CloudTypeOK
  <2>5. remote = <<>> => Len(remote) = 0
    BY EmptySeq
  <2>6. Len(remote') = Len(remote) \/ (Len(remote') = Len(remote) + 1 /\ remote = <<>>)
    <3>1. CASE remote' = remote
      BY <3>1
    <3>2. CASE remote' = runs /\ remote = <<>>
      BY <2>1, <2>5, <3>2
    <3>3. CASE remote' = runs /\ remote # <<>>
      BY <2>1, <3>3
    <3> QED
      BY <2>2, <3>1, <3>2, <3>3
  <2>7. metadata' \in Nat /\ metadata' <= Len(remote') /\ (remote' # <<>> => metadata' # 0)
    BY <1>0, <1>1, <2>1, <2>2, <2>5, <2>6 DEF LaunchRequest, Pointers
  <2>8. TypeInv'
    <3>1. remote' \in Seq(RemoteState) /\ Len(remote) <= Len(remote')
      BY <1>0, <2>1, <2>2, <2>6
    <3>2. UNCHANGED <<agent, card, shown, woken>>
      BY <1>1 DEF LaunchRequest
    <3> QED
      BY <2>3, <2>4, <2>7, <3>1, <3>2, LeftTypes
  <2> QED
    BY <1>1, <2>3, <2>6, <2>8 DEF LaunchRequest
<1>2. CASE ReplyRequest(p)
  <2> DEFINE runs == Append(remote, "running")
  <2>1. runs \in Seq(RemoteState) /\ Len(runs) = Len(remote) + 1 /\ runs # <<>>
    BY <1>0, AppendProperties DEF RemoteState
  <2>2. remote # <<>>
    BY <1>0, <1>2, EmptySeq DEF ReplyRequest, At, Pointers
  <2>3. remote' \in {runs, remote} /\ Left(p, remote')
    <3>1. Len(runs) \in 1..Len(runs)
      BY <1>0, <2>1
    <3> QED
      BY <1>2, <3>1 DEF ReplyRequest, Left, RequestLost, RequestRejected
  <2>4. cloudUpsets' \in Nat
    BY <1>0, <1>2, FaultType DEF ReplyRequest, RequestLost, RequestRejected, CloudTypeOK
  <2> HIDE DEF runs
  <2>5. metadata' \in Nat /\ metadata' <= Len(remote') /\ (remote' # <<>> => metadata' # 0)
    BY <1>0, <1>2, <2>1, <2>2, <2>3 DEF ReplyRequest, Pointers
  <2>6. TypeInv'
    <3>1. remote' \in Seq(RemoteState) /\ Len(remote) <= Len(remote')
      BY <1>0, <2>1, <2>3
    <3>2. UNCHANGED <<agent, card, shown, woken>>
      BY <1>2 DEF ReplyRequest
    <3> QED
      BY <2>3, <2>4, <2>5, <3>1, <3>2, LeftTypes
  <2>7. At(p, "reply")
    BY <1>2 DEF ReplyRequest
  <2>8. Len(remote') = Len(remote) \/ Len(remote') = Len(remote) + 1
    BY <2>1, <2>3
  <2> QED
    BY <2>3, <2>6, <2>7, <2>8
<1>3. CASE CancelRequest(p)
  <2> DEFINE k == CancelTarget(p)
  <2>1. k \in 1..Len(remote) /\ remote # <<>>
    BY <1>0, <1>3, EmptySeq DEF CancelRequest, CancelTarget, At, Pointers
  <2>2. \/ remote' = remote
        \/ \E state \in {"stopping", "cancelled"} :
             remote' = [remote EXCEPT ![k] = IF @ = "running" THEN state ELSE @]
    BY <1>3 DEF CancelRequest
  <2>3. ASSUME NEW state \in {"stopping", "cancelled"}
        PROVE  (IF remote[k] = "running" THEN state ELSE remote[k]) \in RemoteState
    BY <1>0, <2>1, ElementOfSeq DEF RemoteState
  <2>4. remote' \in Seq(RemoteState) /\ Len(remote') = Len(remote)
    BY <1>0, <2>1, <2>2, <2>3, ExceptSeq
  <2>5. Left(p, remote') /\ cloudUpsets' \in Nat
    BY <1>0, <1>3, <2>1, <2>4, FaultType DEF CancelRequest, Left, RequestLost, CloudTypeOK
  <2>6. remote' # <<>>
    BY <1>0, <2>1, <2>4, EmptySeq
  <2> HIDE DEF k
  <2>7. TypeInv'
    <3>1. UNCHANGED <<agent, card, shown, woken, metadata>>
      BY <1>3 DEF CancelRequest
    <3>2. metadata' \in Nat /\ metadata' <= Len(remote') /\ metadata' # 0
      BY <1>0, <2>1, <2>4, <3>1 DEF Pointers
    <3>3. Len(remote) <= Len(remote')
      BY <1>0, <2>4
    <3> QED
      BY <2>4, <2>5, <3>1, <3>2, <3>3, LeftTypes
  <2> QED
    BY <1>3, <2>4, <2>5, <2>7
<1>4. CASE ObserveRequest(p) \/ GetRequest(p)
  <2>1. /\ UNCHANGED <<agent, card, shown, woken, remote, metadata>>
        /\ cloudUpsets' \in Nat
    BY <1>0, <1>4, FaultType DEF ObserveRequest, GetRequest, RequestLost, CloudTypeOK
  <2>2. metadata \in 1..Len(remote) /\ poll[p].seen.latest \in 1..Len(remote)
    BY <1>0, <1>4, EmptySeq DEF ObserveRequest, GetRequest, At, Pointers
  <2>3. Left(p, remote')
    BY <1>4, <2>1, <2>2 DEF ObserveRequest, GetRequest, Left, RequestLost
  <2>4. TypeInv'
    BY <1>0, <2>1, <2>3, LeftTypes DEF Pointers
  <2> QED
    BY <2>1, <2>3, <2>4
<1> QED
  BY <1>1, <1>2, <1>3, <1>4

-----------------------------------------------------------------------------
(* Types: the end of a poll, the provider and faults *)

LEMMA UnleasedType ==
  ASSUME NEW a \in Agent
  PROVE  /\ Unleased(a) \in Agent /\ Unleased(a).lease = NoPoll /\ ~Unleased(a).leaseLive
         /\ Unleased(a) = [a EXCEPT !.lease = NoPoll, !.leaseLive = FALSE]
         /\ Unleased(a).latest = a.latest /\ Unleased(a).status = a.status
         /\ Unleased(a).generation = a.generation /\ Unleased(a).wake = a.wake
         /\ Unleased(a).cancel = a.cancel /\ Unleased(a).due = a.due
         /\ Unleased(a).followup = a.followup /\ Unleased(a).dispatching = a.dispatching
  BY DEF Unleased, Agent

\* The row after a poll that finished.
LEMMA FinishedRow ==
  ASSUME TypeInv, NEW p \in Polls, poll[p].at \in {"answered", "failed", "drop"}
  PROVE  /\ Outcome(p).status \in Status \ {"none"}
         /\ Finished(p) \in Agent /\ Finished(p).latest <= Len(remote)
         /\ Finished(p).status = Outcome(p).status
         /\ Finished(p).generation = agent.generation /\ Finished(p).lease = NoPoll
         /\ Finished(p).wake = WakeAfter(p, Outcome(p).status # "running")
         /\ Finished(p).due = DueAfter(Outcome(p).status # "running")
         /\ ~Finished(p).followup /\ ~Finished(p).dispatching
         /\ Finished(p).cancel = (/\ Outcome(p).status = "running"
                                  /\ ~Wanted(p) \/ poll[p].seen.cancel)
<1> DEFINE o == Outcome(p)
           ended == o.status # "running"
<1>1. agent \in Agent /\ poll[p] \in Poll /\ Pointers /\ card \in BOOLEAN
  BY DEF TypeInv, CloudTypeOK
<1>2. o.status \in Status \ {"none"} /\ o.latest \in Nat /\ o.latest <= Len(remote)
  BY <1>1 DEF Outcome, At, Poll, Status, Ended, Agent, Pointers
<1>3. WakeAfter(p, ended) \in Generations /\ DueAfter(ended) \in BOOLEAN
  BY <1>1 DEF WakeAfter, DueAfter, Agent
<1>4. poll[p].seen.cancel \in BOOLEAN /\ Wanted(p) \in BOOLEAN
  BY <1>1 DEF Poll, Seen, Wanted
<1> DEFINE c == ~ended /\ (~Wanted(p) \/ poll[p].seen.cancel)
           d == DueAfter(ended)
           w == WakeAfter(p, ended)
           a == Unleased(agent)
<1>5. Finished(p) = [a EXCEPT !.status = o.status, !.latest = o.latest,
                              !.request = FALSE, !.followup = FALSE, !.dispatching = FALSE,
                              !.cancel = c, !.due = d, !.wake = w]
  BY DEF Finished
<1>6. c \in BOOLEAN /\ d \in BOOLEAN /\ w \in Generations
  BY <1>3, <1>4
<1>7. /\ a \in Agent /\ a.generation = agent.generation /\ a.lease = NoPoll
  BY <1>1, UnleasedType
<1>8. c = (o.status = "running" /\ (~Wanted(p) \/ poll[p].seen.cancel))
  OBVIOUS
<1> HIDE DEF o, c, d, w, a
<1>9. /\ Finished(p) \in Agent /\ Finished(p).latest = o.latest
      /\ Finished(p).status = o.status /\ Finished(p).generation = a.generation
      /\ Finished(p).lease = a.lease /\ Finished(p).wake = w /\ Finished(p).due = d
      /\ Finished(p).followup = FALSE /\ Finished(p).dispatching = FALSE
      /\ Finished(p).cancel = c
  BY <1>2, <1>5, <1>6, <1>7 DEF Agent
<1> QED
  BY <1>2, <1>7, <1>8, <1>9 DEF o, d, w

LEMMA FinishTypes ==
  ASSUME TypeInv, NEW p \in Polls, FinishPoll(p) PROVE TypeInv'
<1>0. CloudTypeOK /\ Pointers /\ agent \in Agent /\ poll[p] \in Poll
  BY DEF TypeInv, CloudTypeOK
<1>1. CASE Fenced(p) /\ agent' = Finished(p)
  <2>1. agent' \in Agent /\ agent'.latest <= Len(remote)
    BY <1>1, FinishedRow DEF FinishPoll
  <2>2. shown' \in Status
    BY <1>0, <1>1, FinishedRow DEF FinishPoll, ShownAfter, CloudTypeOK
  <2>3. woken' \in [Generations -> Nat]
    <3>1. /\ woken \in [Generations -> Nat]
          /\ \/ woken' = [woken EXCEPT ![agent.generation] = @ + 1]
             \/ woken' = woken
      BY <1>0, <1>1 DEF FinishPoll, CloudTypeOK
    <3> QED
      BY <3>1
  <2> DEFINE q == [IdlePoll EXCEPT !.at = "release"]
  <2>4. q \in Poll /\ q.at = "release" /\ q.seen.latest = 0
    BY IdleType DEF Poll, Places
  <2> HIDE DEF q
  <2>5. poll' = [d \in Polls |-> IF d = p THEN q ELSE [poll[d] EXCEPT !.fresh = FALSE]]
    BY <1>1 DEF FinishPoll, NewVersion, q
  <2>6. \A d \in Polls \ {p} :
          /\ poll'[d] \in Poll /\ poll'[d].at = poll[d].at
          /\ poll'[d].seen = poll[d].seen /\ poll'[d].answer = poll[d].answer
    BY <1>0, <2>5 DEF CloudTypeOK, Poll
  <2>7. poll' \in [Polls -> Poll] /\ poll'[p] = q
    BY <2>4, <2>5, <2>6
  <2>8. UNCHANGED <<card, remote, metadata, cloudUpsets>>
    BY DEF FinishPoll
  <2>9. 0 <= Len(remote)
    BY <1>0, LenProperties DEF CloudTypeOK
  <2>10. ASSUME NEW d \in Polls
         PROVE  /\ poll'[d].seen.latest <= Len(remote)
                /\ poll'[d].at \in {"cancel", "observe", "mark.reply", "reply", "get"} =>
                     poll'[d].seen.latest # 0
                /\ poll'[d].at = "answered" =>
                     poll'[d].answer.latest <= Len(remote) /\ poll'[d].answer.status # "none"
    BY <1>0, <2>4, <2>6, <2>7, <2>9 DEF Pointers
  <2> QED
    BY <1>0, <2>1, <2>2, <2>3, <2>7, <2>8, <2>10, RowStep DEF CloudTypeOK
<1>2. CASE ~Fenced(p) /\ GoTo(p, "release") /\ UNCHANGED <<agent, shown, woken>>
  <2>1. "release" \in Places \ {"answered"}
    BY DEF Places
  <2> QED
    BY <1>0, <1>2, <2>1, GoToStep DEF FinishPoll, CloudTypeOK, Pointers
<1> QED
  BY <1>1, <1>2 DEF FinishPoll

LEMMA EndTypes ==
  ASSUME TypeInv, NEW p \in Polls, RetryPoll(p) \/ ReleasePoll(p) \/ PollCrashes(p)
  PROVE  TypeInv'
<1>0. CloudTypeOK /\ Pointers /\ agent \in Agent /\ Len(remote) \in Nat
  BY LenProperties DEF TypeInv, CloudTypeOK
<1>1. CASE RetryPoll(p)
  <2>1. "release" \in Places \ {"answered"}
    BY DEF Places
  <2>2. agent' \in Agent /\ agent'.latest = agent.latest
    BY <1>0, <1>1, UnleasedType DEF RetryPoll, Agent
  <2> QED
    BY <1>0, <1>1, <2>1, <2>2, GoToStep DEF RetryPoll, CloudTypeOK, Pointers
<1>2. CASE ReleasePoll(p) \/ PollCrashes(p)
  <2>1. agent' \in Agent /\ agent'.latest = agent.latest
    <3>1. [agent EXCEPT !.lease = DeadPoll] \in Agent
      BY <1>0 DEF Agent
    <3>2. [agent EXCEPT !.lease = DeadPoll].latest = agent.latest
      BY <1>0 DEF Agent
    <3> QED
      BY <1>0, <1>2, <3>1, <3>2, UnleasedType DEF ReleasePoll, PollCrashes
  <2>2. poll' = [poll EXCEPT ![p] = IdlePoll] /\ cloudUpsets' \in Nat
    BY <1>0, <1>2, FaultType DEF ReleasePoll, PollCrashes, CloudTypeOK
  <2>3. UNCHANGED <<card, shown, woken, remote, metadata>>
    BY <1>2 DEF ReleasePoll, PollCrashes
  <2> QED
    BY <1>0, <2>1, <2>2, <2>3, IdleType, RowStep DEF CloudTypeOK, Pointers
<1> QED
  BY <1>1, <1>2

LEMMA WorldTypes ==
  ASSUME TypeInv, RunEnds \/ MetadataCatchesUp \/ PollLeaseLapses PROVE TypeInv'
<1>0. /\ CloudTypeOK /\ Pointers /\ agent \in Agent /\ remote \in Seq(RemoteState)
      /\ Len(remote) \in Nat /\ metadata \in Nat
  BY LenProperties DEF TypeInv, CloudTypeOK
<1>1. CASE RunEnds
  <2>1. PICK k \in DOMAIN remote :
          \/ remote' = [remote EXCEPT ![k] = "finished"]
          \/ remote' = [remote EXCEPT ![k] = "cancelled"]
    BY <1>1 DEF RunEnds
  <2>2. remote' \in Seq(RemoteState) /\ Len(remote') = Len(remote)
    <3>1. k \in 1..Len(remote)
      BY <1>0, <2>1, LenProperties
    <3> QED
      BY <1>0, <2>1, <3>1, ExceptSeq DEF RemoteState
  <2>3. remote' # <<>> => remote # <<>>
    BY <1>0, <2>2, EmptySeq
  <2> QED
    BY <1>0, <1>1, <2>2, <2>3 DEF RunEnds, TypeInv, CloudTypeOK, Pointers
<1>2. CASE MetadataCatchesUp
  BY <1>0, <1>2 DEF MetadataCatchesUp, TypeInv, CloudTypeOK, Pointers
<1>3. CASE PollLeaseLapses
  <2>1. agent' \in Agent /\ agent'.latest = agent.latest /\ cloudUpsets' \in Nat
    BY <1>0, <1>3, FaultType DEF PollLeaseLapses, Agent, CloudTypeOK
  <2> QED
    BY <1>0, <1>3, <2>1, RowStep DEF PollLeaseLapses, CloudTypeOK, Pointers
<1> QED
  BY <1>1, <1>2, <1>3

LEMMA TypeStep == TypeInv /\ [CloudNext]_cloudVars => TypeInv'
<1>1. CASE UNCHANGED cloudVars
  BY <1>1 DEF cloudVars, TypeInv, CloudTypeOK, Pointers
<1>2. CASE CloudNext
  BY <1>2, RowSteps, StartTypes, MarkTypes, RequestTypes, FinishTypes, EndTypes, WorldTypes
     DEF CloudNext, PollStep
<1> QED
  BY <1>1, <1>2

\* The row, the polls, the wakes and the provider keep their types, for any number of
\* polls and follow-ups.
THEOREM CloudTypeCorrect == CloudSpec => []CloudTypeOK
<1>1. TypeInv => CloudTypeOK
  BY DEF TypeInv
<1> QED
  BY <1>1, InitTypes, TypeStep, PTL DEF CloudSpec

-----------------------------------------------------------------------------
(* What the row remembers *)

\* A generation that the row counts as reported woke the bot at most once, one that it
\* does not count never did, and a poll whose version is current knows the wishes.
RowInv ==
  /\ agent.status = "none" =>
       /\ agent.wake = 0 /\ agent.generation = 0 /\ ~agent.cancel /\ ~agent.due /\ ~agent.followup
       /\ \A p \in Polls : poll[p] = IdlePoll
  /\ agent.status # "none" => agent.generation # 0
  /\ agent.wake <= agent.generation
  /\ agent.followup => agent.latest # 0
  /\ \A g \in Generations : woken[g] <= 1 /\ (g > agent.wake => woken[g] = 0)
  /\ \A p \in Polls : poll[p].fresh =>
       poll[p].seen.cancel = agent.cancel /\ poll[p].seen.followup = agent.followup

LEMMA InitRow == CloudInit => RowInv
<1> SUFFICES ASSUME CloudInit PROVE RowInv
  OBVIOUS
<1>1. /\ agent.status = "none" /\ agent.wake = 0 /\ agent.generation = 0
      /\ ~agent.cancel /\ ~agent.due /\ ~agent.followup
  BY DEF CloudInit, NoAgent
<1>2. ~IdlePoll.fresh /\ \A p \in Polls : poll[p] = IdlePoll
  BY DEF CloudInit, IdlePoll
<1>3. \A g \in Generations : woken[g] = 0
  BY DEF CloudInit
<1> QED
  BY <1>1, <1>2, <1>3 DEF RowInv

\* A step that makes no new version of the row.
SameVersion ==
  /\ agent'.status = agent.status /\ agent'.generation = agent.generation
  /\ agent'.wake = agent.wake /\ agent'.cancel = agent.cancel
  /\ agent'.followup = agent.followup /\ agent'.latest = agent.latest
  /\ woken' = woken
  /\ agent'.due # agent.due => \E p \in Polls : poll[p].at # "idle"
  /\ \A p \in Polls :
       /\ poll'[p] = poll[p] \/ poll[p].at # "idle" \/ agent.due
       /\ poll'[p].fresh => \/ poll[p].fresh /\ poll'[p].seen = poll[p].seen
                            \/ poll'[p].seen = Read(agent)

LEMMA SameVersionRow == ASSUME TypeInv, RowInv, SameVersion PROVE RowInv'
<1>1. Read(agent).cancel = agent.cancel /\ Read(agent).followup = agent.followup
  BY DEF Read
<1>2. IdlePoll.at = "idle"
  BY IdleType
<1>3. ASSUME agent'.status = "none" PROVE ~agent'.due /\ \A p \in Polls : poll'[p] = IdlePoll
  BY <1>2, <1>3 DEF SameVersion, RowInv, TypeInv, CloudTypeOK, Agent
<1>4. ASSUME NEW p \in Polls, poll'[p].fresh
      PROVE  poll'[p].seen.cancel = agent'.cancel /\ poll'[p].seen.followup = agent'.followup
  BY <1>1, <1>4 DEF SameVersion, RowInv
<1> QED
  BY <1>3, <1>4 DEF SameVersion, RowInv

LEMMA PollSameVersion ==
  ASSUME TypeInv, NEW p \in Polls,
         \/ PollRead(p) \/ PollClaim(p) \/ PollCheck(p) \/ MarkLaunch(p) \/ MarkReply(p)
         \/ LaunchRequest(p) \/ ReplyRequest(p) \/ CancelRequest(p)
         \/ ObserveRequest(p) \/ GetRequest(p)
         \/ RetryPoll(p) \/ ReleasePoll(p) \/ PollCrashes(p)
  PROVE  SameVersion
<1>0. agent \in Agent /\ poll \in [Polls -> Poll] /\ remote \in Seq(RemoteState)
  BY DEF TypeInv, CloudTypeOK
<1>1. CASE PollRead(p)
  <2> DEFINE q == [IdlePoll EXCEPT !.at = "claim", !.seen = Read(agent), !.fresh = TRUE]
  <2>1. poll' = [poll EXCEPT ![p] = q] /\ UNCHANGED <<agent, woken>> /\ agent.due
    BY <1>1 DEF PollRead
  <2>2. q.seen = Read(agent)
    BY DEF IdlePoll
  <2> HIDE DEF q
  <2> QED
    BY <1>0, <2>1, <2>2 DEF SameVersion
<1>2. CASE PollClaim(p)
  <2>1. /\ poll[p].at # "idle" /\ woken' = woken
        /\ agent' = agent \/ agent' = [agent EXCEPT !.lease = p, !.leaseLive = TRUE]
    BY <1>2 DEF PollClaim, At
  <2>2. \/ GoTo(p, "check")
        \/ poll' = [poll EXCEPT ![p] = IdlePoll]
    BY <1>2 DEF PollClaim
  <2>3. "check" \in Places /\ ~IdlePoll.fresh
    BY DEF Places, IdlePoll
  <2>4. \A d \in Polls :
          /\ poll'[d] = poll[d] \/ poll[d].at # "idle"
          /\ poll'[d].fresh => poll[d].fresh /\ poll'[d].seen = poll[d].seen
    BY <1>0, <2>1, <2>2, <2>3, GoToPoll
  <2> QED
    BY <1>0, <2>1, <2>4 DEF SameVersion, Agent
<1>3. CASE PollCheck(p)
  <2> HIDE DEF NextStep
  <2> QED
    BY <1>0, <1>3 DEF PollCheck, At, SameVersion, Poll
<1>4. CASE MarkLaunch(p) \/ MarkReply(p)
  <2>1. PICK place \in Places : GoTo(p, place)
    BY <1>4 DEF MarkLaunch, MarkReply, Places
  <2>2. /\ poll[p].at # "idle" /\ woken' = woken
        /\ \/ agent' = agent
           \/ agent' = [agent EXCEPT !.dispatched = TRUE]
           \/ agent' = [agent EXCEPT !.dispatching = TRUE]
    BY <1>4 DEF MarkLaunch, MarkReply, At
  <2> QED
    BY <1>0, <2>1, <2>2, GoToPoll DEF SameVersion, Agent
<1>5. CASE \/ LaunchRequest(p) \/ ReplyRequest(p) \/ CancelRequest(p)
           \/ ObserveRequest(p) \/ GetRequest(p)
  <2>1. UNCHANGED <<agent, woken>> /\ poll[p].at # "idle"
    BY <1>5
       DEF LaunchRequest, ReplyRequest, CancelRequest, ObserveRequest, GetRequest, At
  <2>2. remote' \in Seq(RemoteState) /\ Left(p, remote')
    BY <1>5, RequestTypes DEF TypeInv, CloudTypeOK
  <2> QED
    BY <2>1, <2>2, LeftPoll DEF SameVersion
<1>6. CASE RetryPoll(p)
  <2>1. "release" \in Places
    BY DEF Places
  <2>2. agent' = agent \/ agent' = [Unleased(agent) EXCEPT !.due = TRUE]
    BY <1>6 DEF RetryPoll
  <2>3. Unleased(agent) \in Agent
    BY <1>0, UnleasedType
  <2>4. /\ agent'.status = agent.status /\ agent'.generation = agent.generation
        /\ agent'.wake = agent.wake /\ agent'.cancel = agent.cancel
        /\ agent'.followup = agent.followup /\ agent'.latest = agent.latest
    BY <1>0, <2>2, <2>3, UnleasedType DEF Agent
  <2> QED
    BY <1>0, <1>6, <2>1, <2>4, GoToPoll DEF RetryPoll, At, SameVersion
<1>7. CASE ReleasePoll(p)
  BY <1>0, <1>7 DEF ReleasePoll, At, Unleased, SameVersion, Agent, IdlePoll
<1>8. CASE PollCrashes(p)
  BY <1>0, <1>8 DEF PollCrashes, At, SameVersion, Agent, IdlePoll
<1> QED
  BY <1>1, <1>2, <1>3, <1>4, <1>5, <1>6, <1>7, <1>8

LEMMA WorldSameVersion ==
  ASSUME TypeInv, \/ Detach \/ RunEnds \/ MetadataCatchesUp \/ PollLeaseLapses
                  \/ UNCHANGED cloudVars
  PROVE  SameVersion
<1>1. UNCHANGED <<woken, poll>>
      /\ (agent' = agent \/ agent' = [agent EXCEPT !.leaseLive = FALSE])
  BY DEF Detach, RunEnds, MetadataCatchesUp, PollLeaseLapses, cloudVars
<1> QED
  BY <1>1 DEF SameVersion, TypeInv, CloudTypeOK, Agent

LEMMA RowOfNew ==
  ASSUME TypeInv, RowInv, LaunchAgent \/ ReplyToAgent \/ CancelAgent PROVE RowInv'
<1>0. /\ agent \in Agent /\ poll \in [Polls -> Poll] /\ woken \in [Generations -> Nat]
      /\ agent.wake \in Nat /\ agent.generation \in Nat
  BY DEF TypeInv, CloudTypeOK, Agent, Generations
<1>1. CASE LaunchAgent
  <2>1. /\ agent'.status = "running" /\ agent'.wake = 0 /\ agent'.generation = 1
        /\ ~agent'.followup /\ UNCHANGED <<poll, woken>>
    BY <1>1 DEF LaunchAgent, NoAgent
  <2>2. \A p \in Polls : ~poll[p].fresh
    BY <1>1 DEF LaunchAgent, RowInv, IdlePoll
  <2> QED
    BY <1>0, <1>1, <2>1, <2>2 DEF LaunchAgent, RowInv
<1>2. CASE ReplyToAgent
  <2>1. /\ agent'.status = "running" /\ agent'.wake = agent.wake
        /\ agent'.generation = agent.generation + 1 /\ agent'.latest = agent.latest
        /\ agent.latest # 0 /\ woken' = woken
    BY <1>0, <1>2 DEF ReplyToAgent, Agent
  <2>2. \A p \in Polls : ~poll'[p].fresh
    BY <1>0, <1>2, OutdatePoll DEF ReplyToAgent
  <2> QED
    BY <1>0, <2>1, <2>2 DEF RowInv
<1>3. CASE CancelAgent
  <2>1. /\ agent'.status = agent.status /\ agent.status # "none" /\ agent'.wake = agent.wake
        /\ agent'.generation = agent.generation /\ agent'.latest = agent.latest
        /\ agent'.followup = agent.followup /\ woken' = woken
    BY <1>0, <1>3 DEF CancelAgent, Agent
  <2>2. \A p \in Polls : ~poll'[p].fresh
    BY <1>0, <1>3, OutdatePoll DEF CancelAgent
  <2> QED
    BY <1>0, <2>1, <2>2 DEF RowInv
<1> QED
  BY <1>1, <1>2, <1>3

LEMMA FinishRow ==
  ASSUME TypeInv, RowInv, NEW p \in Polls, FinishPoll(p) PROVE RowInv'
<1>0. /\ agent \in Agent /\ poll \in [Polls -> Poll] /\ woken \in [Generations -> Nat]
      /\ agent.wake \in Nat /\ agent.generation \in Generations /\ agent.generation \in Nat
      /\ Generations \subseteq Nat
  BY DEF TypeInv, CloudTypeOK, Agent, Generations
<1>1. CASE Fenced(p) /\ agent' = Finished(p)
  <2> DEFINE wakes == /\ Outcome(p).status \in Ended /\ Wanted(p)
                      /\ agent.wake < agent.generation
  <2>1. agent.status # "none"
    BY <1>1 DEF FinishPoll, RowInv, IdlePoll
  <2>2. /\ agent'.status # "none" /\ agent'.generation = agent.generation
        /\ ~agent'.followup
        /\ agent'.wake = WakeAfter(p, Outcome(p).status # "running")
    BY <1>1, FinishedRow DEF FinishPoll
  <2>3. Outcome(p).status # "running" <=> Outcome(p).status \in Ended
    BY <1>1, FinishedRow DEF FinishPoll, Status, Ended
  <2>4. agent'.wake = agent.wake \/ agent'.wake = agent.generation
    BY <2>2 DEF WakeAfter
  <2>5. wakes => agent'.wake = agent.generation
    BY <2>2, <2>3 DEF WakeAfter
  <2>6. woken' = IF wakes THEN [woken EXCEPT ![agent.generation] = @ + 1] ELSE woken
    BY <1>1 DEF FinishPoll, Fenced
  <2>7. \A d \in Polls : ~poll'[d].fresh
    BY <1>0, <1>1 DEF FinishPoll, NewVersion, IdlePoll, Poll
  <2> HIDE DEF wakes
  <2>8. wakes => agent.wake < agent.generation
    BY DEF wakes
  <2>9. ASSUME NEW g \in Generations
        PROVE  woken'[g] <= 1 /\ (g > agent'.wake => woken'[g] = 0)
    <3>1. g \in Nat /\ woken[g] \in Nat /\ woken[g] <= 1 /\ (g > agent.wake => woken[g] = 0)
      BY <1>0 DEF RowInv
    <3>2. CASE wakes
      <4>1. woken'[g] = IF g = agent.generation THEN woken[g] + 1 ELSE woken[g]
        BY <1>0, <2>6, <3>2
      <4> QED
        BY <1>0, <2>5, <2>8, <3>1, <3>2, <4>1
    <3>3. CASE ~wakes
      BY <1>0, <2>4, <2>6, <3>1, <3>3 DEF RowInv
    <3> QED
      BY <3>2, <3>3
  <2>10. agent'.wake <= agent'.generation
    BY <1>0, <2>2, <2>4 DEF RowInv
  <2> QED
    BY <2>1, <2>2, <2>7, <2>9, <2>10 DEF RowInv
<1>2. CASE ~Fenced(p) /\ GoTo(p, "release") /\ UNCHANGED <<agent, shown, woken>>
  <2>1. "release" \in Places /\ poll[p].at # "idle"
    BY DEF Places, FinishPoll
  <2>2. SameVersion
    BY <1>0, <1>2, <2>1, GoToPoll DEF SameVersion
  <2> QED
    BY <2>2, SameVersionRow
<1> QED
  BY <1>1, <1>2 DEF FinishPoll

LEMMA RowStepInv == TypeInv /\ RowInv /\ [CloudNext]_cloudVars => RowInv'
<1> SUFFICES ASSUME TypeInv, RowInv, [CloudNext]_cloudVars PROVE RowInv'
  OBVIOUS
<1>1. CASE LaunchAgent \/ ReplyToAgent \/ CancelAgent
  BY <1>1, RowOfNew
<1>2. CASE \E p \in Polls : FinishPoll(p)
  BY <1>2, FinishRow
<1>3. CASE Detach \/ RunEnds \/ MetadataCatchesUp \/ PollLeaseLapses \/ UNCHANGED cloudVars
  BY <1>3, WorldSameVersion, SameVersionRow
<1>4. ASSUME NEW p \in Polls, PollRead(p) \/ PollStep(p) \/ PollCrashes(p), ~FinishPoll(p)
      PROVE  RowInv'
  BY <1>4, PollSameVersion, SameVersionRow DEF PollStep
<1> QED
  BY <1>1, <1>2, <1>3, <1>4 DEF CloudNext

\* For any number of polls, however slow or crashed, a bot is woken once for each result.
THEOREM WokenOnceEach == CloudSpec => []WokenOnce
<1>1. RowInv => WokenOnce
  BY DEF RowInv, WokenOnce
<1> QED
  BY <1>1, InitTypes, TypeStep, InitRow, RowStepInv, PTL DEF CloudSpec

\* No poll, however late, takes back a wish to cancel that it has not seen.
THEOREM CancelKept == CloudSpec => CancelIsKept
<1>1. ASSUME TypeInv, RowInv, [CloudNext]_cloudVars
      PROVE  [agent.cancel /\ ~agent'.cancel => agent'.status \in Ended]_cloudVars
  <2> SUFFICES ASSUME CloudNext, agent.cancel, ~agent'.cancel PROVE agent'.status \in Ended
    BY <1>1
  <2>1. agent.status # "none" /\ agent.cancel' # agent.cancel
    BY <1>1 DEF RowInv
  <2>2. ~SameVersion
    BY <2>1 DEF SameVersion
  <2>3. ~LaunchAgent /\ ~ReplyToAgent /\ ~CancelAgent
    BY <1>1, <2>1 DEF LaunchAgent, ReplyToAgent, CancelAgent, TypeInv, CloudTypeOK, Agent
  <2>4. PICK p \in Polls : FinishPoll(p)
    BY <1>1, <2>2, <2>3, PollSameVersion, WorldSameVersion DEF CloudNext, PollStep
  <2>5. agent' = Finished(p) /\ Fenced(p)
    BY <2>1, <2>4 DEF FinishPoll
  <2>6. poll[p].seen.cancel
    BY <1>1, <2>5 DEF RowInv, Fenced
  <2>7. agent'.status = Outcome(p).status /\ Outcome(p).status \in Status \ {"none"}
        /\ Outcome(p).status # "running"
    BY <1>1, <2>4, <2>5, <2>6, FinishedRow DEF FinishPoll
  <2> QED
    BY <2>7 DEF Status
<1> QED
  BY <1>1, InitTypes, TypeStep, InitRow, RowStepInv, PTL DEF CloudSpec, CancelIsKept

-----------------------------------------------------------------------------
(* Follow-ups are sent once *)

\* What a poll that holds the lease goes by before it sends a follow-up is so, and a
\* poll that read the row before a mark cannot claim it before the marked follow-up left.
LeaseInv ==
  /\ \A p \in Polls : agent.lease = p => poll[p].at \notin {"idle", "claim"}
  /\ \A p \in Polls : agent.lease = p /\ poll[p].at \in {"check", "mark.reply"} => agent.leaseLive
  /\ \A p \in Polls :
       poll[p].at = "mark.reply" => poll[p].seen.followup /\ ~poll[p].seen.dispatching
  /\ \A p \in Polls :
       Fenced(p) /\ poll[p].at \in {"check", "mark.reply"} =>
         poll[p].seen.dispatching = agent.dispatching
  /\ \A p \in Polls :
       poll[p].at = "claim" /\ poll[p].fresh /\ poll[p].seen.dispatching # agent.dispatching =>
         /\ agent.leaseLive
         /\ \/ agent.lease = DeadPoll
            \/ \E q \in Polls \ {p} : agent.lease = q /\ poll[q].at = "reply"

Replying == {p \in Polls : poll[p].at = "reply"}
Unsent   == IF agent.followup /\ ~agent.dispatching THEN 1 ELSE 0

\* Each generation stands for a run, or for a follow-up that waits or is on its way.
SentInv ==
  /\ IsFiniteSet(Replying)
  /\ Len(remote) + Cardinality(Replying) + Unsent <= agent.generation

LEMMA InitSent == CloudInit => LeaseInv /\ SentInv
<1> SUFFICES ASSUME CloudInit PROVE LeaseInv /\ SentInv
  OBVIOUS
<1>1. /\ agent.lease = NoPoll /\ ~agent.followup /\ agent.generation = 0
      /\ \A p \in Polls : poll[p].at = "idle"
  BY DEF CloudInit, NoAgent, IdlePoll
<1>2. Len(remote) = 0
  BY EmptySeq DEF CloudInit
<1>3. IsFiniteSet(Replying) /\ Cardinality(Replying) = 0
  <2>1. Replying = {}
    BY <1>1 DEF Replying
  <2> QED
    BY <2>1, FS_EmptySet
<1>4. LeaseInv
  BY <1>1 DEF LeaseInv, Fenced
<1> QED
  BY <1>1, <1>2, <1>3, <1>4 DEF SentInv, Unsent

\* Counting the follow-ups on their way: those of one poll less, and of one more.
LEMMA FewerReplies ==
  ASSUME IsFiniteSet(Replying), Replying' \subseteq Replying
  PROVE  IsFiniteSet(Replying') /\ Cardinality(Replying') <= Cardinality(Replying)
         /\ Cardinality(Replying') \in Nat /\ Cardinality(Replying) \in Nat
  BY FS_Subset, FS_CardinalityType

LEMMA OneReplyLess ==
  ASSUME IsFiniteSet(Replying), NEW p \in Replying, Replying' = Replying \ {p}
  PROVE  /\ IsFiniteSet(Replying') /\ Cardinality(Replying') = Cardinality(Replying) - 1
         /\ Cardinality(Replying') \in Nat /\ Cardinality(Replying) \in Nat
  BY FS_RemoveElement, FS_CardinalityType

LEMMA OneReplyMore ==
  ASSUME IsFiniteSet(Replying), NEW p, p \notin Replying, Replying' = Replying \union {p}
  PROVE  /\ IsFiniteSet(Replying') /\ Cardinality(Replying') = Cardinality(Replying) + 1
         /\ Cardinality(Replying') \in Nat /\ Cardinality(Replying) \in Nat
  BY FS_AddElement, FS_CardinalityType

LEMMA UnsentType == Unsent \in {0, 1} /\ Unsent' \in {0, 1}
  BY DEF Unsent

Inv == TypeInv /\ RowInv /\ LeaseInv /\ SentInv

\* What the proofs below read off Inv.
LEMMA Facts ==
  ASSUME Inv
  PROVE  /\ agent \in Agent /\ poll \in [Polls -> Poll] /\ agent.generation \in Nat
         /\ remote \in Seq(RemoteState) /\ Len(remote) \in Nat
         /\ agent.followup \in BOOLEAN /\ agent.dispatching \in BOOLEAN
         /\ agent.status \in Status /\ Cardinality(Replying) \in Nat
  BY LenProperties, FS_CardinalityType
     DEF Inv, TypeInv, CloudTypeOK, SentInv, Agent, Generations

LEMMA SentByUser ==
  ASSUME Inv, LaunchAgent \/ ReplyToAgent \/ CancelAgent PROVE LeaseInv' /\ SentInv'
<1>1. CASE LaunchAgent
  <2>1. \A p \in Polls : poll[p].at = "idle" /\ ~poll[p].fresh
    BY <1>1 DEF LaunchAgent, Inv, RowInv, IdlePoll
  <2>2. /\ agent'.lease = NoPoll /\ agent'.generation = 1 /\ ~agent'.followup
        /\ UNCHANGED <<poll, remote>>
    BY <1>1 DEF LaunchAgent, NoAgent
  <2>3. agent.generation = 0
    BY <1>1 DEF LaunchAgent, Inv, RowInv
  <2>4. LeaseInv'
    BY <2>1, <2>2 DEF LeaseInv, Fenced
  <2>5. Replying' = Replying /\ Unsent' = 0
    BY <2>2 DEF Replying, Unsent
  <2> QED
    BY <2>2, <2>3, <2>4, <2>5, Facts, UnsentType DEF Inv, SentInv
<1>2. CASE ReplyToAgent \/ CancelAgent
  <2>1. /\ Outdate /\ remote' = remote
        /\ agent'.lease = agent.lease /\ agent'.leaseLive = agent.leaseLive
    BY <1>2, Facts DEF ReplyToAgent, CancelAgent, Agent
  <2>2. \/ /\ agent'.generation = agent.generation /\ Unsent' = Unsent
        \/ /\ agent'.generation = agent.generation + 1 /\ Unsent = 0
    BY <1>2, Facts DEF ReplyToAgent, CancelAgent, Agent, Unsent
  <2>3. \A p \in Polls : /\ ~poll'[p].fresh /\ poll'[p].at = poll[p].at
                         /\ poll'[p].seen = poll[p].seen
    BY <2>1, Facts, OutdatePoll
  <2>4. LeaseInv'
    BY <2>1, <2>3 DEF LeaseInv, Fenced, Inv
  <2>5. Replying' = Replying
    BY <2>3 DEF Replying
  <2> QED
    BY <2>1, <2>2, <2>4, <2>5, Facts, UnsentType DEF Inv, SentInv
<1> QED
  BY <1>1, <1>2

LEMMA SentByWorld ==
  ASSUME Inv, ~SlowClaims,
         \/ Detach \/ RunEnds \/ MetadataCatchesUp \/ PollLeaseLapses \/ UNCHANGED cloudVars
  PROVE  LeaseInv' /\ SentInv'
<1>1. poll' = poll /\ Replying' = Replying
  BY DEF Detach, RunEnds, MetadataCatchesUp, PollLeaseLapses, cloudVars, Replying
<1>2. Len(remote') = Len(remote)
  <2>1. CASE RunEnds
    <3>1. PICK k \in DOMAIN remote :
            \/ remote' = [remote EXCEPT ![k] = "finished"]
            \/ remote' = [remote EXCEPT ![k] = "cancelled"]
      BY <2>1 DEF RunEnds
    <3>2. k \in 1..Len(remote)
      BY <3>1, Facts, LenProperties
    <3> QED
      BY <3>1, <3>2, Facts, ExceptSeq DEF RemoteState
  <2>2. CASE ~RunEnds
    BY <2>2 DEF Detach, MetadataCatchesUp, PollLeaseLapses, cloudVars
  <2> QED
    BY <2>1, <2>2
<1>3. /\ agent'.generation = agent.generation /\ Unsent' = Unsent
      /\ agent'.lease = agent.lease /\ agent'.dispatching = agent.dispatching
  BY Facts DEF Detach, RunEnds, MetadataCatchesUp, PollLeaseLapses, cloudVars, Agent, Unsent
<1>4. LeaseInv'
  <2>1. CASE PollLeaseLapses
    <3>1. \A p \in Polls : ~ReadBeforeMark(p)
      BY <2>1 DEF PollLeaseLapses, TimePasses
    <3>2. \A p \in Polls :
            poll[p].at = "claim" /\ poll[p].fresh => poll[p].seen.dispatching = agent.dispatching
      BY <3>1 DEF ReadBeforeMark, At
    <3>3. \A p \in Polls : agent.lease = p => poll[p].at \notin {"check", "mark.reply"}
      BY <2>1 DEF PollLeaseLapses, Requests
    <3> QED
      BY <1>1, <1>3, <3>2, <3>3 DEF LeaseInv, Fenced, Inv
  <2>2. CASE ~PollLeaseLapses
    <3>1. agent' = agent
      BY <2>2 DEF Detach, RunEnds, MetadataCatchesUp, cloudVars
    <3> QED
      BY <1>1, <3>1 DEF LeaseInv, Fenced, Inv
  <2> QED
    BY <2>1, <2>2
<1> QED
  BY <1>1, <1>2, <1>3, <1>4 DEF Inv, SentInv

\* A poll that neither comes to send nor was to send, in a step that keeps the row's wishes.
LEMMA SameReplies ==
  ASSUME Inv, NEW p \in Polls, \A d \in Polls \ {p} : poll'[d] = poll[d],
         poll[p].at # "reply", poll'[p].at # "reply", Len(remote') = Len(remote),
         agent'.generation = agent.generation,
         agent'.followup => agent.followup /\ agent'.dispatching = agent.dispatching
  PROVE  SentInv'
<1>1. Replying' = Replying
  BY DEF Replying
<1>2. Unsent' <= Unsent
  BY DEF Unsent
<1> QED
  BY <1>1, <1>2, Facts, UnsentType DEF Inv, SentInv

LEMMA SentAtStart ==
  ASSUME Inv, NEW p \in Polls, PollRead(p) \/ PollClaim(p) \/ PollCheck(p)
  PROVE  LeaseInv' /\ SentInv'
<1>1. CASE PollRead(p)
  <2> DEFINE q == [IdlePoll EXCEPT !.at = "claim", !.seen = Read(agent), !.fresh = TRUE]
  <2>1. q.at = "claim" /\ q.seen.dispatching = agent.dispatching
    BY DEF Read, IdlePoll
  <2>2. poll' = [poll EXCEPT ![p] = q] /\ UNCHANGED <<agent, remote>> /\ poll[p].at = "idle"
    BY <1>1 DEF PollRead, At
  <2> HIDE DEF q
  <2>3. poll'[p] = q /\ \A d \in Polls \ {p} : poll'[d] = poll[d]
    BY <2>2, Facts
  <2>4. SentInv'
    BY <2>1, <2>2, <2>3, SameReplies
  <2>5. LeaseInv'
    BY <2>1, <2>2, <2>3 DEF LeaseInv, Fenced, Inv
  <2> QED
    BY <2>4, <2>5
<1>2. CASE PollClaim(p)
  <2>1. /\ poll[p].at = "claim" /\ remote' = remote
    BY <1>2 DEF PollClaim, At
  <2>2. CASE /\ poll[p].fresh /\ ~agent.leaseLive /\ GoTo(p, "check")
             /\ agent' = [agent EXCEPT !.lease = p, !.leaseLive = TRUE]
    <3>1. /\ agent'.lease = p /\ agent'.leaseLive /\ agent'.dispatching = agent.dispatching
          /\ agent'.generation = agent.generation /\ agent'.followup = agent.followup
      BY <2>2, Facts DEF Agent
    <3>2. /\ poll'[p].at = "check" /\ poll'[p].seen = poll[p].seen
          /\ \A d \in Polls \ {p} : poll'[d] = poll[d]
      BY <2>2, Facts, GoToPoll DEF Places
    <3>3. SentInv'
      BY <2>1, <3>1, <3>2, SameReplies
    <3>4. \A d \in Polls : poll[d].at = "claim" /\ poll[d].fresh =>
            poll[d].seen.dispatching = agent.dispatching
      BY <2>2 DEF Inv, LeaseInv
    <3>5. LeaseInv'
      BY <2>1, <2>2, <3>1, <3>2, <3>4 DEF LeaseInv, Fenced, Inv
    <3> QED
      BY <3>3, <3>5
  <2>3. CASE poll' = [poll EXCEPT ![p] = IdlePoll] /\ UNCHANGED agent
    <3>1. /\ poll'[p].at = "idle" /\ \A d \in Polls \ {p} : poll'[d] = poll[d]
      BY <2>3, Facts DEF IdlePoll
    <3>2. SentInv'
      BY <2>1, <2>3, <3>1, SameReplies
    <3>3. LeaseInv'
      BY <2>1, <2>3, <3>1 DEF LeaseInv, Fenced, Inv
    <3> QED
      BY <3>2, <3>3
  <2> QED
    BY <1>2, <2>2, <2>3 DEF PollClaim
<1>3. CASE PollCheck(p)
  <2> DEFINE place == NextStep(poll[p].seen, ~card)
             q == [poll[p] EXCEPT !.abandoned = ~card, !.at = place]
  <2>1. place \notin {"idle", "claim", "check", "reply"}
        /\ (place = "mark.reply" => poll[p].seen.followup /\ ~poll[p].seen.dispatching)
    BY DEF NextStep
  <2>2. /\ poll' = [poll EXCEPT ![p] = q] /\ UNCHANGED <<agent, remote>> /\ poll[p].at = "check"
    BY <1>3, Facts DEF PollCheck, Poll, At
  <2> HIDE DEF place
  <2>3. q.at = place /\ q.seen = poll[p].seen /\ q.fresh = poll[p].fresh
    BY Facts DEF Poll
  <2> HIDE DEF q
  <2>4. poll'[p] = q /\ \A d \in Polls \ {p} : poll'[d] = poll[d]
    BY <2>2, Facts
  <2>5. SentInv'
    BY <2>1, <2>2, <2>3, <2>4, SameReplies
  <2>6. LeaseInv'
    BY <2>1, <2>2, <2>3, <2>4 DEF LeaseInv, Fenced, Inv
  <2> QED
    BY <2>5, <2>6
<1> QED
  BY <1>1, <1>2, <1>3

LEMMA SentAtMark ==
  ASSUME Inv, NEW p \in Polls, MarkLaunch(p) \/ MarkReply(p) PROVE LeaseInv' /\ SentInv'
<1>1. remote' = remote
  BY DEF MarkLaunch, MarkReply
<1>2. CASE \/ MarkLaunch(p)
           \/ MarkReply(p) /\ ~Fenced(p)
  <2>1. PICK place \in {"launch", "retry", "release"} : GoTo(p, place)
    BY <1>2 DEF MarkLaunch, MarkReply
  <2>2. /\ poll[p].at \in {"mark.launch", "mark.reply"}
        /\ agent' = agent \/ agent' = [agent EXCEPT !.dispatched = TRUE]
    BY <1>2 DEF MarkLaunch, MarkReply, At
  <2>3. /\ agent'.lease = agent.lease /\ agent'.leaseLive = agent.leaseLive
        /\ agent'.generation = agent.generation /\ agent'.followup = agent.followup
        /\ agent'.dispatching = agent.dispatching
    BY <2>2, Facts DEF Agent
  <2>4. /\ poll'[p].at \in {"launch", "retry", "release"}
        /\ \A d \in Polls \ {p} : poll'[d] = poll[d]
    BY <2>1, Facts, GoToPoll DEF Places
  <2>5. SentInv'
    BY <1>1, <2>2, <2>3, <2>4, SameReplies
  <2>6. LeaseInv'
    BY <2>2, <2>3, <2>4 DEF LeaseInv, Fenced, Inv
  <2> QED
    BY <2>5, <2>6
<1>3. CASE MarkReply(p) /\ Fenced(p)
  <2>1. /\ poll[p].at = "mark.reply" /\ agent.lease = p /\ poll[p].fresh
        /\ agent' = [agent EXCEPT !.dispatching = TRUE] /\ GoTo(p, "reply")
    BY <1>3 DEF MarkReply, At, Fenced
  <2>2. agent.leaseLive /\ agent.followup /\ ~agent.dispatching
    BY <1>3, <2>1, Facts DEF Inv, LeaseInv, RowInv
  <2>3. /\ agent'.lease = p /\ agent'.leaseLive /\ agent'.generation = agent.generation
        /\ agent'.dispatching
    BY <2>1, <2>2, Facts DEF Agent
  <2>4. poll'[p].at = "reply" /\ \A d \in Polls \ {p} : poll'[d] = poll[d]
    BY <2>1, Facts, GoToPoll DEF Places
  <2>5. LeaseInv'
    BY <2>1, <2>3, <2>4 DEF LeaseInv, Fenced, Inv
  <2>6. Replying' = Replying \union {p} /\ p \notin Replying
    BY <2>1, <2>4 DEF Replying
  <2>7. Unsent = 1 /\ Unsent' = 0
    BY <2>2, <2>3 DEF Unsent
  <2>8. /\ IsFiniteSet(Replying') /\ Cardinality(Replying') = Cardinality(Replying) + 1
    BY <2>6, OneReplyMore DEF Inv, SentInv
  <2>9. Len(remote') + Cardinality(Replying') + Unsent' <= agent'.generation
    BY <1>1, <2>3, <2>7, <2>8, Facts DEF Inv, SentInv
  <2> QED
    BY <2>5, <2>8, <2>9 DEF SentInv
<1> QED
  BY <1>2, <1>3

LEMMA SentByRequest ==
  ASSUME Inv, ~SlowClaims, NEW p \in Polls,
         \/ LaunchRequest(p) \/ ReplyRequest(p) \/ CancelRequest(p)
         \/ ObserveRequest(p) \/ GetRequest(p)
  PROVE  LeaseInv' /\ SentInv'
<1>1. /\ agent' = agent /\ TimePasses /\ remote' \in Seq(RemoteState)
      /\ poll[p].at \in Requests
  BY RequestTypes
     DEF LaunchRequest, ReplyRequest, CancelRequest, ObserveRequest, GetRequest, At, Requests,
         Inv, TypeInv, CloudTypeOK
<1>2. /\ poll'[p].at \in {"answered", "retry", "failed"}
      /\ \A d \in Polls \ {p} : poll'[d] = poll[d]
  BY <1>1, LeftPoll, RequestTypes DEF Inv
<1>3. \A d \in Polls :
        poll[d].at = "claim" /\ poll[d].fresh => poll[d].seen.dispatching = agent.dispatching
  BY <1>1 DEF TimePasses, ReadBeforeMark, At
<1>4. LeaseInv'
  BY <1>1, <1>2, <1>3 DEF LeaseInv, Fenced, Inv, Requests
<1>5. Unsent' = Unsent
  BY <1>1 DEF Unsent
<1>6. CASE At(p, "reply")
  <2>1. p \in Replying /\ Replying' = Replying \ {p}
    BY <1>2, <1>6 DEF Replying, At
  <2>2. Len(remote') \in {Len(remote), Len(remote) + 1}
    BY RequestTypes DEF Inv
  <2>3. /\ IsFiniteSet(Replying') /\ Cardinality(Replying') = Cardinality(Replying) - 1
    BY <2>1, OneReplyLess DEF Inv, SentInv
  <2>4. Len(remote') + Cardinality(Replying') + Unsent' <= agent'.generation
    BY <1>1, <1>5, <2>2, <2>3, Facts, UnsentType DEF Inv, SentInv
  <2> QED
    BY <1>4, <2>3, <2>4 DEF SentInv
<1>7. CASE ~At(p, "reply")
  <2>1. CASE Len(remote') = Len(remote)
    <3>1. SentInv'
      BY <1>1, <1>2, <1>7, <2>1, SameReplies DEF At
    <3> QED
      BY <1>4, <3>1
  <2>2. CASE Len(remote') = Len(remote) + 1 /\ At(p, "launch") /\ remote = <<>>
    <3>1. Len(remote) = 0
      BY <2>2, EmptySeq
    <3>2. agent.latest = 0 /\ \A d \in Polls : poll[d].seen.latest = 0
      BY <3>1 DEF Inv, TypeInv, Pointers, CloudTypeOK, Agent, Poll, Seen
    <3>3. Replying' = {} /\ Unsent = 0
      BY <1>2, <3>2 DEF Replying, Unsent, Inv, RowInv, TypeInv, Pointers
    <3>4. agent.status # "none"
      BY <2>2, IdleType DEF At, Inv, RowInv
    <3>5. agent.generation >= 1
      BY <3>4, Facts DEF Inv, RowInv
    <3> QED
      BY <1>1, <1>4, <1>5, <2>2, <3>1, <3>3, <3>5, Facts, FS_EmptySet DEF SentInv
  <2> QED
    BY <1>7, <2>1, <2>2, RequestTypes DEF Inv
<1> QED
  BY <1>6, <1>7

LEMMA SentAtEnd ==
  ASSUME Inv, NEW p \in Polls, FinishPoll(p) \/ RetryPoll(p) \/ ReleasePoll(p)
  PROVE  LeaseInv' /\ SentInv'
<1>0. remote' = remote /\ poll[p].at \in {"answered", "failed", "drop", "retry", "release"}
  BY DEF FinishPoll, RetryPoll, ReleasePoll, At
<1>1. CASE FinishPoll(p) /\ Fenced(p)
  <2>1. agent' = Finished(p)
    BY <1>1 DEF FinishPoll
  <2>2. agent'.lease = NoPoll /\ agent'.generation = agent.generation /\ ~agent'.followup
    BY <1>0, <1>1, <2>1, FinishedRow DEF Inv, FinishPoll
  <2>3. /\ poll'[p].at = "release" /\ ~poll'[p].fresh
        /\ \A d \in Polls \ {p} : /\ poll'[d].at = poll[d].at /\ ~poll'[d].fresh
                                  /\ poll'[d].seen = poll[d].seen
    BY <1>1, Facts DEF FinishPoll, NewVersion, IdlePoll, Poll
  <2>4. LeaseInv'
    BY <2>2, <2>3 DEF LeaseInv, Fenced, Inv
  <2>5. Replying' = Replying
    BY <1>0, <2>3 DEF Replying
  <2>6. Unsent' = 0
    BY <2>2 DEF Unsent
  <2> QED
    BY <1>0, <2>2, <2>4, <2>5, <2>6, Facts, UnsentType DEF Inv, SentInv
<1>2. CASE ~(FinishPoll(p) /\ Fenced(p))
  <2>1. /\ poll'[p].at \in {"release", "idle"}
        /\ \A d \in Polls \ {p} : poll'[d] = poll[d]
    <3>1. GoTo(p, "release") \/ poll' = [poll EXCEPT ![p] = IdlePoll]
      BY <1>2 DEF FinishPoll, RetryPoll, ReleasePoll
    <3> QED
      BY <3>1, Facts, GoToPoll, IdleType DEF Places
  <2>2. /\ agent'.generation = agent.generation /\ agent'.followup = agent.followup
        /\ agent'.dispatching = agent.dispatching
        /\ \/ agent'.lease = agent.lease /\ agent'.leaseLive = agent.leaseLive
           \/ agent'.lease = NoPoll /\ agent.lease = p
        /\ poll'[p].at = "idle" => agent'.lease # p
    <3>1. CASE FinishPoll(p)
      BY <1>2, <3>1, Facts, GoToPoll DEF FinishPoll, Places
    <3>2. CASE RetryPoll(p)
      <4>1. [Unleased(agent) EXCEPT !.due = TRUE].lease = NoPoll
            /\ [Unleased(agent) EXCEPT !.due = TRUE].generation = agent.generation
            /\ [Unleased(agent) EXCEPT !.due = TRUE].followup = agent.followup
            /\ [Unleased(agent) EXCEPT !.due = TRUE].dispatching = agent.dispatching
        <5>1. Unleased(agent) \in Agent
          BY Facts, UnleasedType
        <5> QED
          BY <5>1, Facts, UnleasedType DEF Agent
      <4>2. poll'[p].at = "release"
        BY <3>2, Facts, GoToPoll DEF RetryPoll, Places
      <4> QED
        BY <3>2, <4>1, <4>2 DEF RetryPoll, Fenced
    <3>3. CASE ReleasePoll(p)
      BY <3>3, Facts, UnleasedType DEF ReleasePoll
    <3> QED
      BY <3>1, <3>2, <3>3
  <2>3. SentInv'
    BY <1>0, <2>1, <2>2, SameReplies
  <2>4. LeaseInv'
    BY <1>0, <2>1, <2>2 DEF LeaseInv, Fenced, Inv
  <2> QED
    BY <2>3, <2>4
<1> QED
  BY <1>1, <1>2

LEMMA SentByCrash ==
  ASSUME Inv, NEW p \in Polls, PollCrashes(p) PROVE LeaseInv' /\ SentInv'
<1>1. /\ poll'[p].at = "idle" /\ ~poll'[p].fresh /\ \A d \in Polls \ {p} : poll'[d] = poll[d]
      /\ remote' = remote
  BY Facts DEF PollCrashes, IdlePoll
<1>2. /\ agent'.generation = agent.generation /\ agent'.followup = agent.followup
      /\ agent'.dispatching = agent.dispatching /\ agent'.leaseLive = agent.leaseLive
      /\ agent'.lease = IF agent.lease = p THEN DeadPoll ELSE agent.lease
  BY Facts DEF PollCrashes, Agent
<1>3. LeaseInv'
  BY <1>1, <1>2 DEF LeaseInv, Fenced, Inv
<1>4. Replying' \subseteq Replying
  BY <1>1 DEF Replying
<1>5. Unsent' = Unsent
  BY <1>2 DEF Unsent
<1> QED
  BY <1>1, <1>2, <1>3, <1>4, <1>5, Facts, UnsentType, FewerReplies DEF Inv, SentInv

LEMMA InvStep ==
  ASSUME ~SlowClaims PROVE Inv /\ [CloudNext]_cloudVars => Inv'
<1> SUFFICES ASSUME Inv, [CloudNext]_cloudVars PROVE LeaseInv' /\ SentInv'
  BY TypeStep, RowStepInv DEF Inv
<1> QED
  BY SentByUser, SentByWorld, SentAtStart, SentAtMark, SentByRequest, SentAtEnd, SentByCrash
     DEF CloudNext, PollStep

\* When a claim follows its read before another poll's request is answered, a follow-up
\* reaches the provider at most once, whichever polls crash, stall or lose answers.
THEOREM FollowupsAreSentOnce ==
  ASSUME ~SlowClaims PROVE CloudSpec => []FollowupSentOnce
<1>1. Inv => FollowupSentOnce
  BY Facts, UnsentType DEF Inv, SentInv, FollowupSentOnce
<1>2. CloudInit => Inv
  BY InitTypes, InitRow, InitSent DEF Inv
<1>3. Inv /\ [CloudNext]_cloudVars => Inv'
  BY InvStep
<1> QED
  BY <1>1, <1>2, <1>3, PTL DEF CloudSpec

-----------------------------------------------------------------------------
(* A settled row is quiet *)

\* What a poll has read and been told, as far as its row still is what it read.
PollKnows(p) ==
  /\ poll[p].seen.latest # 0 => agent.latest # 0
  /\ poll[p].abandoned => ~card
  /\ poll[p].at \in {"mark.launch", "launch"} => poll[p].seen.latest = 0
  /\ poll[p].at = "mark.launch" => poll[p].seen.dispatched \/ ~poll[p].seen.cancel
  /\ poll[p].at = "reply" => poll[p].seen.followup
  /\ poll[p].at = "observe" => poll[p].seen.dispatching
  /\ poll[p].at = "cancel" => poll[p].seen.dispatching \/ ~poll[p].seen.followup
  /\ poll[p].at = "get" => ~poll[p].seen.followup
  /\ poll[p].at = "drop" => \/ poll[p].seen.latest = 0 /\ ~poll[p].seen.dispatched
                            \/ poll[p].seen.followup /\ ~poll[p].seen.dispatching
  /\ poll[p].at = "answered" =>
       /\ poll[p].answer.latest # 0
       /\ poll[p].answer.status # "running" => remote[poll[p].answer.latest] \in Ended
  /\ poll[p].fresh =>
       /\ agent.due
       /\ poll[p].seen.latest = agent.latest /\ poll[p].seen.request = agent.request
       /\ poll[p].seen.dispatched => agent.dispatched
       /\ poll[p].seen.dispatching => agent.dispatching
  /\ poll[p].fresh /\ poll[p].at = "answered" =>
       /\ poll[p].answer.latest = Len(remote)
       /\ poll[p].seen.followup => Len(remote) # agent.latest
  /\ poll[p].fresh /\ poll[p].at = "failed" /\ poll[p].seen.latest # 0 =>
       agent.dispatching /\ Replying = {} /\ Len(remote) = agent.latest

\* A poll that goes by an unmarked row holds its lease, so that nobody marks it meanwhile;
\* one that read it before a mark cannot claim it before the marked request was made.
MarkInv ==
  /\ \A p \in Polls : agent.lease = p /\ poll[p].at = "mark.launch" => agent.leaseLive
  /\ \A p \in Polls : Fenced(p) /\ poll[p].at \in {"check", "drop"} =>
       /\ poll[p].seen.dispatching = agent.dispatching
       /\ poll[p].seen.dispatched = agent.dispatched
  /\ \A p \in Polls :
       poll[p].at = "claim" /\ poll[p].fresh /\ poll[p].seen.dispatched # agent.dispatched =>
         /\ agent.leaseLive
         /\ \/ agent.lease = DeadPoll
            \/ \E q \in Polls \ {p} : agent.lease = q /\ poll[q].at = "launch"

\* The latest run, if there is one, has ended.
LastEnded == Len(remote) # 0 => remote[Len(remote)] \in Ended

\* Only the latest run may go on; the row knows it, unless the one follow-up that was
\* marked has started it; and nobody is about to start another.
RemoteInv ==
  /\ \A k \in 1..Len(remote) : k < Len(remote) => remote[k] \in Ended
  /\ Len(remote) # 0 \/ (\E p \in Polls : poll[p].at = "launch") => agent.dispatched
  /\ agent.latest = 0 => Len(remote) <= 1 /\ Replying = {}
  /\ agent.latest # 0 => Len(remote) \in {agent.latest, agent.latest + 1}
  /\ agent.latest # 0 /\ Len(remote) # agent.latest => agent.dispatching /\ Replying = {}
  /\ Replying # {} => agent.dispatching
  /\ \A p, q \in Replying : p = q

\* A follow-up is accepted when the runs there are have ended and the metadata name the
\* latest; a row that is not due has ended with all its runs, unless its launch was
\* rejected.
WishInv ==
  /\ agent.status = "none" => ~agent.dispatched
  /\ agent.dispatching => agent.followup
  /\ agent.followup => /\ agent.latest <= metadata
                       /\ Len(remote) = agent.latest => LastEnded
  /\ agent.status \in Ended /\ agent.due => agent.cancel
  /\ agent.status # "none" /\ agent.latest = 0 /\ ~agent.request /\ ~agent.dispatched =>
       ~agent.due \/ agent.cancel
  /\ agent.status # "none" /\ ~agent.due =>
       /\ (LastEnded \/ LaunchRejected) /\ ~agent.followup
       /\ card => shown = agent.status
       /\ agent.latest = 0 => LaunchRejected \/ ~agent.dispatched

KnowInv == \A p \in Polls : PollKnows(p)

QuietInv == Inv /\ MarkInv /\ RemoteInv /\ WishInv /\ KnowInv

LEMMA InitQuiet == CloudInit => MarkInv /\ RemoteInv /\ WishInv /\ KnowInv
<1> SUFFICES ASSUME CloudInit PROVE MarkInv /\ RemoteInv /\ WishInv /\ KnowInv
  OBVIOUS
<1>1. /\ agent.lease = NoPoll /\ ~agent.followup /\ ~agent.dispatching /\ ~agent.dispatched
      /\ agent.status = "none" /\ agent.latest = 0
  BY DEF CloudInit, NoAgent
<1>2. \A p \in Polls : /\ poll[p].at = "idle" /\ ~poll[p].fresh /\ ~poll[p].abandoned
                       /\ poll[p].seen.latest = 0
  BY DEF CloudInit, IdlePoll, Read, NoAgent
<1>3. Len(remote) = 0
  BY EmptySeq DEF CloudInit
<1>4. Replying = {}
  BY <1>2 DEF Replying
<1>5. MarkInv
  BY <1>1, <1>2 DEF MarkInv, Fenced
<1>6. RemoteInv
  BY <1>1, <1>2, <1>3, <1>4 DEF RemoteInv
<1>7. WishInv
  BY <1>1, <1>3 DEF WishInv, Ended
<1>8. KnowInv
  BY <1>2 DEF KnowInv, PollKnows
<1> QED
  BY <1>5, <1>6, <1>7, <1>8

\* What the proofs below read off QuietInv.
LEMMA QuietFacts ==
  ASSUME QuietInv
  PROVE  /\ CloudTypeOK /\ Pointers /\ RowInv /\ LeaseInv
         /\ agent \in Agent /\ agent.latest \in Nat /\ metadata \in Nat
         /\ poll \in [Polls -> Poll]
         /\ remote \in Seq(RemoteState) /\ Len(remote) \in Nat
         /\ \A p \in Polls : /\ poll[p].seen.latest \in Nat /\ poll[p].answer.latest \in Nat
                             /\ poll[p].answer.status \in Status
         /\ \A k \in 1..Len(remote) : remote[k] \in RemoteState
  BY LenProperties, ElementOfSeq
     DEF QuietInv, Inv, TypeInv, CloudTypeOK, Agent, Poll, Seen

\* The runs there were go on or have ended.
RunsKept == /\ Len(remote') = Len(remote)
            /\ \A k \in 1..Len(remote) : remote[k] \in Ended => remote'[k] = remote[k]

\* A poll that a step leaves where it is, except that its row may get a new version.
LEMMA PollKept ==
  ASSUME QuietInv, NEW p \in Polls,
         poll'[p].at = poll[p].at, poll'[p].seen = poll[p].seen,
         poll'[p].answer = poll[p].answer, poll'[p].abandoned = poll[p].abandoned,
         poll'[p].fresh => poll[p].fresh,
         agent.latest # 0 => agent'.latest # 0, ~card => ~card',
         \A k \in 1..Len(remote) : remote[k] \in Ended => remote'[k] = remote[k],
         poll'[p].fresh => /\ agent'.due
                           /\ agent'.latest = agent.latest /\ agent'.request = agent.request
                           /\ agent.dispatched => agent'.dispatched
                           /\ agent.dispatching => agent'.dispatching,
         poll'[p].fresh /\ poll[p].at \in {"answered", "failed"} => Len(remote') = Len(remote),
         poll'[p].fresh /\ poll[p].at = "failed" /\ agent.dispatching =>
           Replying' \subseteq Replying
  PROVE  PollKnows(p)'
<1>1. PollKnows(p)
  BY DEF QuietInv, KnowInv
<1>2. poll[p].at = "answered" => poll[p].answer.latest \in 1..Len(remote)
  BY <1>1, QuietFacts DEF PollKnows, Pointers
<1>3. poll'[p].at = "answered" =>
        /\ poll'[p].answer.latest # 0
        /\ poll'[p].answer.status # "running" => remote'[poll'[p].answer.latest] \in Ended
  BY <1>1, <1>2 DEF PollKnows
<1> QED
  BY <1>1, <1>3 DEF PollKnows

\* The conjuncts of the invariants, at the next state.
QuietNext == MarkInv' /\ RemoteInv' /\ WishInv' /\ KnowInv'

\* A step that leaves the runs and where the polls are.
LEMMA RunsAsBefore ==
  ASSUME QuietInv, RunsKept, \A p \in Polls : poll'[p].at = poll[p].at,
         agent'.latest = agent.latest, agent'.dispatched = agent.dispatched,
         agent'.dispatching = agent.dispatching
  PROVE  RemoteInv'
<1>1. Replying' = Replying
  BY DEF Replying
<1> QED
  BY <1>1, QuietFacts DEF RemoteInv, RunsKept, QuietInv

LEMMA QuietByUser ==
  ASSUME QuietInv, ~StaleMetadata, LaunchAgent \/ ReplyToAgent \/ CancelAgent \/ Detach
  PROVE  QuietNext
<1>0. /\ RemoteInv /\ WishInv /\ MarkInv /\ RunsKept
  BY DEF QuietInv, RunsKept, LaunchAgent, ReplyToAgent, CancelAgent, Detach
<1>1. CASE LaunchAgent
  <2>1. \A p \in Polls : poll[p] = IdlePoll
    BY <1>1, QuietFacts DEF LaunchAgent, RowInv
  <2>2. /\ agent'.latest = 0 /\ ~agent'.dispatched /\ ~agent'.dispatching /\ ~agent'.followup
        /\ agent'.status = "running" /\ agent'.due /\ agent'.request /\ agent'.lease = NoPoll
    BY <1>1 DEF LaunchAgent, NoAgent
  <2>3. UNCHANGED <<poll, remote, metadata>>
    BY <1>1 DEF LaunchAgent
  <2>4. /\ \A p \in Polls : /\ poll'[p].at = "idle" /\ ~poll'[p].fresh
                            /\ poll'[p].seen.latest = 0 /\ ~poll'[p].abandoned
    BY <2>1, <2>3 DEF IdlePoll, Read, NoAgent
  <2>5. Len(remote) = 0
    BY <1>0, <1>1, QuietFacts DEF LaunchAgent, WishInv, RemoteInv
  <2>6. Replying' = {}
    BY <2>4 DEF Replying
  <2>7. MarkInv'
    BY <2>4 DEF MarkInv, Fenced
  <2>8. RemoteInv'
    BY <2>2, <2>3, <2>4, <2>5, <2>6 DEF RemoteInv
  <2>9. WishInv'
    BY <2>2 DEF WishInv, Ended
  <2>10. KnowInv'
    BY <2>4 DEF KnowInv, PollKnows
  <2> QED
    BY <2>7, <2>8, <2>9, <2>10 DEF QuietNext
<1>2. CASE ReplyToAgent
  <2>1. /\ agent'.latest = agent.latest /\ agent'.dispatched = agent.dispatched
        /\ ~agent'.dispatching /\ agent'.followup /\ agent'.status = "running" /\ agent'.due
        /\ agent'.lease = agent.lease /\ agent'.leaseLive = agent.leaseLive
        /\ agent.status \in Ended /\ agent.latest # 0 /\ ~agent.cancel
        /\ ~agent.followup /\ agent.latest <= metadata
    BY <1>2, QuietFacts DEF ReplyToAgent, Agent
  <2>2. ~agent.dispatching /\ ~agent.due /\ LastEnded
    BY <1>0, <2>1, QuietFacts DEF WishInv, Ended, LaunchRejected
  <2>3. \A p \in Polls : /\ ~poll'[p].fresh /\ poll'[p].at = poll[p].at
                         /\ poll'[p].seen = poll[p].seen /\ poll'[p].answer = poll[p].answer
                         /\ poll'[p].abandoned = poll[p].abandoned
    BY <1>2, QuietFacts DEF ReplyToAgent, Outdate, Poll
  <2>4. UNCHANGED <<card, remote, metadata>>
    BY <1>2 DEF ReplyToAgent
  <2>5. MarkInv'
    BY <1>0, <2>1, <2>3 DEF MarkInv, Fenced
  <2>6. RemoteInv'
    <3>1. agent'.dispatching = agent.dispatching
      BY <1>2, <2>2, QuietFacts DEF ReplyToAgent, Agent
    <3> QED
      BY <1>0, <2>1, <2>3, <2>4, <3>1, RunsAsBefore
  <2>7. WishInv'
    BY <2>1, <2>2, <2>4 DEF WishInv, Ended, LastEnded
  <2>8. KnowInv'
    BY <2>1, <2>3, <2>4, PollKept DEF KnowInv
  <2> QED
    BY <2>5, <2>6, <2>7, <2>8 DEF QuietNext
<1>3. CASE CancelAgent
  <2>1. /\ agent'.latest = agent.latest /\ agent'.dispatched = agent.dispatched
        /\ agent'.dispatching = agent.dispatching /\ agent'.followup = agent.followup
        /\ agent'.request = agent.request
        /\ agent'.status = agent.status /\ agent.status # "none" /\ agent'.due /\ agent'.cancel
        /\ agent'.lease = agent.lease /\ agent'.leaseLive = agent.leaseLive
    BY <1>3, QuietFacts DEF CancelAgent, Agent
  <2>2. \A p \in Polls : /\ ~poll'[p].fresh /\ poll'[p].at = poll[p].at
                         /\ poll'[p].seen = poll[p].seen /\ poll'[p].answer = poll[p].answer
                         /\ poll'[p].abandoned = poll[p].abandoned
    BY <1>3, QuietFacts DEF CancelAgent, Outdate, Poll
  <2>3. UNCHANGED <<card, remote, metadata>>
    BY <1>3 DEF CancelAgent
  <2>4. MarkInv'
    BY <1>0, <2>1, <2>2 DEF MarkInv, Fenced
  <2>5. RemoteInv'
    BY <1>0, <2>1, <2>2, <2>3, RunsAsBefore
  <2>6. WishInv'
    BY <1>0, <2>1, <2>3 DEF WishInv, LastEnded
  <2>7. KnowInv'
    BY <2>1, <2>2, <2>3, PollKept DEF KnowInv
  <2> QED
    BY <2>4, <2>5, <2>6, <2>7 DEF QuietNext
<1>4. CASE Detach
  <2>1. UNCHANGED <<agent, shown, poll, remote, metadata>> /\ ~card'
    BY <1>4 DEF Detach
  <2>2. MarkInv'
    BY <1>0, <2>1 DEF MarkInv, Fenced
  <2>3. RemoteInv'
    BY <1>0, <2>1, RunsAsBefore
  <2>4. WishInv'
    BY <1>0, <2>1 DEF WishInv, LastEnded, LaunchRejected
  <2>5. \A p \in Polls : poll'[p].fresh => agent'.due
    BY <2>1 DEF QuietInv, KnowInv, PollKnows
  <2>6. KnowInv'
    BY <2>1, <2>5, PollKept DEF KnowInv, Replying
  <2> QED
    BY <2>2, <2>3, <2>4, <2>6 DEF QuietNext
<1> QED
  BY <1>1, <1>2, <1>3, <1>4

LEMMA EndedStays ==
  ASSUME QuietInv, RunEnds PROVE RunsKept /\ remote' \in Seq(RemoteState)
<1>1. PICK k \in DOMAIN remote :
        /\ remote[k] \in {"running", "stopping"}
        /\ remote' = [remote EXCEPT ![k] = "finished"] \/ remote' = [remote EXCEPT ![k] = "cancelled"]
  BY DEF RunEnds
<1>2. k \in 1..Len(remote)
  BY <1>1, QuietFacts, LenProperties
<1>3. remote' \in Seq(RemoteState) /\ Len(remote') = Len(remote)
  BY <1>1, <1>2, QuietFacts, ExceptSeq DEF RemoteState
<1>4. \A j \in 1..Len(remote) : remote[j] \in Ended => remote'[j] = remote[j]
  BY <1>1, <1>2, QuietFacts, ExceptSeq DEF RemoteState, Ended
<1> QED
  BY <1>3, <1>4 DEF RunsKept

LEMMA QuietByWorld ==
  ASSUME QuietInv, ~SlowClaims,
         RunEnds \/ MetadataCatchesUp \/ PollLeaseLapses \/ UNCHANGED cloudVars
  PROVE  QuietNext
<1>0. /\ RemoteInv /\ WishInv /\ MarkInv
  BY DEF QuietInv
<1>1. /\ UNCHANGED <<card, shown, poll>>
      /\ agent.latest <= metadata => agent.latest <= metadata'
  BY QuietFacts DEF RunEnds, MetadataCatchesUp, PollLeaseLapses, cloudVars
<1>2. RunsKept
  BY EndedStays DEF RunsKept, MetadataCatchesUp, PollLeaseLapses, cloudVars
<1>3. /\ agent'.latest = agent.latest /\ agent'.dispatched = agent.dispatched
      /\ agent'.dispatching = agent.dispatching /\ agent'.followup = agent.followup
      /\ agent'.request = agent.request /\ agent'.status = agent.status
      /\ agent'.due = agent.due /\ agent'.cancel = agent.cancel /\ agent'.lease = agent.lease
  BY QuietFacts DEF RunEnds, MetadataCatchesUp, PollLeaseLapses, cloudVars, Agent
<1>4. MarkInv'
  <2>1. CASE PollLeaseLapses
    <3>1. \A p \in Polls : ~ReadBeforeMark(p)
      BY <2>1 DEF PollLeaseLapses, TimePasses
    <3>2. \A p \in Polls :
            poll[p].at = "claim" /\ poll[p].fresh => poll[p].seen.dispatched = agent.dispatched
      BY <3>1 DEF ReadBeforeMark, At
    <3>3. \A p \in Polls : agent.lease = p => poll[p].at # "mark.launch"
      BY <2>1, PollsType DEF PollLeaseLapses, Requests
    <3> QED
      BY <1>0, <1>1, <1>3, <3>2, <3>3 DEF MarkInv, Fenced
  <2>2. CASE ~PollLeaseLapses
    <3>1. agent' = agent
      BY <2>2 DEF RunEnds, MetadataCatchesUp, cloudVars
    <3> QED
      BY <1>0, <1>1, <3>1 DEF MarkInv, Fenced
  <2> QED
    BY <2>1, <2>2
<1>5. RemoteInv'
  BY <1>1, <1>2, <1>3, RunsAsBefore
<1>6. LastEnded => LastEnded'
  BY <1>2, QuietFacts DEF LastEnded, RunsKept
<1>7. WishInv'
  BY <1>0, <1>1, <1>2, <1>3, <1>6 DEF WishInv, RunsKept, LaunchRejected
<1>8. \A p \in Polls : poll'[p].fresh => agent'.due
  BY <1>1, <1>3 DEF QuietInv, KnowInv, PollKnows
<1>9. KnowInv'
  <2>1. Replying' = Replying
    BY <1>1 DEF Replying
  <2> QED
    BY <1>1, <1>2, <1>3, <1>8, <2>1, PollKept DEF KnowInv, RunsKept
<1> QED
  BY <1>4, <1>5, <1>7, <1>9 DEF QuietNext

\* What the row asks for stays, whoever holds its lease.
SameWishes ==
  /\ agent'.status = agent.status /\ agent'.latest = agent.latest
  /\ agent'.dispatched = agent.dispatched /\ agent'.request = agent.request
  /\ agent'.followup = agent.followup /\ agent'.dispatching = agent.dispatching
  /\ agent'.cancel = agent.cancel /\ agent'.due = agent.due
  /\ UNCHANGED <<card, shown, metadata>>

LEMMA WishesKept ==
  ASSUME QuietInv, SameWishes, RunsKept PROVE WishInv'
<1>1. LastEnded => LastEnded'
  BY QuietFacts DEF LastEnded, RunsKept
<1> QED
  BY <1>1 DEF QuietInv, WishInv, SameWishes, RunsKept, LaunchRejected

\* One poll moves on, not to a request that starts a run.
LEMMA RunsOnMove ==
  ASSUME QuietInv, NEW p \in Polls, RunsKept, SameWishes,
         \A d \in Polls \ {p} : poll'[d] = poll[d], poll'[p].at \notin {"reply", "launch"}
  PROVE  RemoteInv'
<1>1. Replying' \subseteq Replying
  BY DEF Replying
<1>2. (\E d \in Polls : poll'[d].at = "launch") => \E d \in Polls : poll[d].at = "launch"
  OBVIOUS
<1> QED
  BY <1>1, <1>2, QuietFacts DEF RemoteInv, RunsKept, QuietInv, SameWishes

LEMMA KnowsOnMove ==
  ASSUME QuietInv, NEW p \in Polls, RunsKept, SameWishes,
         \A d \in Polls \ {p} : poll'[d] = poll[d], PollKnows(p)', poll'[p].at # "reply"
  PROVE  KnowInv'
<1>0. Replying' \subseteq Replying
  BY DEF Replying
<1>1. ASSUME NEW d \in Polls \ {p} PROVE PollKnows(d)'
  <2>1. poll'[d].fresh => agent'.due
    BY DEF QuietInv, KnowInv, PollKnows, SameWishes
  <2> QED
    BY <1>0, <2>1, PollKept DEF RunsKept, SameWishes
<1> QED
  BY <1>1 DEF KnowInv

LEMMA QuietAtStart ==
  ASSUME QuietInv, NEW p \in Polls, PollRead(p) \/ PollClaim(p) \/ PollCheck(p)
  PROVE  QuietNext
<1>0. /\ RemoteInv /\ WishInv /\ MarkInv /\ LeaseInv /\ PollKnows(p) /\ RunsKept
  BY QuietFacts DEF QuietInv, KnowInv, RunsKept, PollRead, PollClaim, PollCheck
<1>1. CASE PollRead(p)
  <2> DEFINE q == [IdlePoll EXCEPT !.at = "claim", !.seen = Read(agent), !.fresh = TRUE]
  <2>1. /\ q.at = "claim" /\ q.seen = Read(agent) /\ ~q.abandoned
    BY DEF IdlePoll
  <2>2. /\ Read(agent).dispatched = agent.dispatched /\ Read(agent).dispatching = agent.dispatching
        /\ Read(agent).latest = agent.latest /\ Read(agent).request = agent.request
    BY DEF Read
  <2>3. /\ poll' = [poll EXCEPT ![p] = q] /\ UNCHANGED <<agent, remote>> /\ poll[p].at = "idle"
        /\ agent.due
    BY <1>1 DEF PollRead, At
  <2> HIDE DEF q
  <2>4. poll'[p] = q /\ \A d \in Polls \ {p} : poll'[d] = poll[d]
    BY <2>3, QuietFacts
  <2>5. SameWishes
    BY <1>1, <2>3 DEF PollRead, SameWishes
  <2>6. PollKnows(p)'
    BY <2>1, <2>2, <2>3, <2>4 DEF PollKnows
  <2>7. MarkInv'
    BY <1>0, <2>1, <2>2, <2>3, <2>4 DEF MarkInv, Fenced
  <2>8. RemoteInv'
    BY <1>0, <2>1, <2>4, <2>5, RunsOnMove
  <2> QED
    BY <1>0, <2>1, <2>4, <2>5, <2>6, <2>7, <2>8, WishesKept, KnowsOnMove DEF QuietNext
<1>2. CASE PollClaim(p)
  <2>1. poll[p].at = "claim" /\ remote' = remote
    BY <1>2 DEF PollClaim, At
  <2>2. SameWishes
    BY <1>2, QuietFacts DEF PollClaim, SameWishes, Agent
  <2>3. CASE /\ poll[p].fresh /\ ~agent.leaseLive /\ GoTo(p, "check")
             /\ agent' = [agent EXCEPT !.lease = p, !.leaseLive = TRUE]
    <3>1. agent'.lease = p /\ agent'.leaseLive
      BY <2>3, QuietFacts DEF Agent
    <3>2. /\ poll'[p].at = "check" /\ poll'[p].seen = poll[p].seen
          /\ poll'[p].fresh = poll[p].fresh /\ poll'[p].abandoned = poll[p].abandoned
          /\ \A d \in Polls \ {p} : poll'[d] = poll[d]
      BY <2>3, QuietFacts, GoToPoll DEF Places
    <3>3. \A d \in Polls : poll[d].at = "claim" /\ poll[d].fresh =>
            /\ poll[d].seen.dispatched = agent.dispatched
            /\ poll[d].seen.dispatching = agent.dispatching
      BY <1>0, <2>3 DEF MarkInv, LeaseInv
    <3>4. MarkInv'
      BY <2>1, <2>2, <2>3, <3>1, <3>2, <3>3 DEF MarkInv, Fenced, SameWishes
    <3>5. PollKnows(p)'
      BY <1>0, <2>1, <2>2, <3>2 DEF PollKnows, SameWishes
    <3>6. RemoteInv'
      BY <1>0, <2>2, <3>2, RunsOnMove
    <3> QED
      BY <1>0, <2>2, <3>2, <3>4, <3>5, <3>6, WishesKept, KnowsOnMove DEF QuietNext
  <2>4. CASE poll' = [poll EXCEPT ![p] = IdlePoll] /\ UNCHANGED agent
    <3>1. /\ poll'[p].at = "idle" /\ ~poll'[p].fresh /\ poll'[p].seen.latest = 0
          /\ ~poll'[p].abandoned /\ \A d \in Polls \ {p} : poll'[d] = poll[d]
      BY <2>4, QuietFacts, IdleType DEF IdlePoll
    <3>2. MarkInv'
      BY <1>0, <2>1, <2>4, <3>1 DEF MarkInv, Fenced
    <3>3. PollKnows(p)'
      BY <3>1 DEF PollKnows
    <3>4. RemoteInv'
      BY <1>0, <2>2, <3>1, RunsOnMove
    <3> QED
      BY <1>0, <2>2, <3>1, <3>2, <3>3, <3>4, WishesKept, KnowsOnMove DEF QuietNext
  <2> QED
    BY <1>2, <2>3, <2>4 DEF PollClaim
<1>3. CASE PollCheck(p)
  <2> DEFINE place == NextStep(poll[p].seen, ~card)
             q == [poll[p] EXCEPT !.abandoned = ~card, !.at = place]
  <2>1. /\ place \in {"drop", "mark.launch", "cancel", "mark.reply", "observe", "get"}
        /\ place = "mark.launch" => poll[p].seen.latest = 0
        /\ place = "mark.launch" => poll[p].seen.dispatched \/ ~poll[p].seen.cancel
        /\ place = "observe" => poll[p].seen.dispatching
        /\ place = "cancel" => poll[p].seen.dispatching \/ ~poll[p].seen.followup
        /\ place = "get" => ~poll[p].seen.followup
        /\ place = "drop" => \/ poll[p].seen.latest = 0 /\ ~poll[p].seen.dispatched
                             \/ poll[p].seen.followup /\ ~poll[p].seen.dispatching
    BY DEF NextStep
  <2>2. /\ poll' = [poll EXCEPT ![p] = q] /\ UNCHANGED <<agent, remote>> /\ poll[p].at = "check"
    BY <1>3, QuietFacts DEF PollCheck, Poll, At
  <2> HIDE DEF place
  <2>3. q.at = place /\ q.seen = poll[p].seen /\ q.fresh = poll[p].fresh /\ q.abandoned = ~card
    BY QuietFacts DEF Poll
  <2> HIDE DEF q
  <2>4. poll'[p] = q /\ \A d \in Polls \ {p} : poll'[d] = poll[d]
    BY <2>2, QuietFacts
  <2>5. SameWishes
    BY <1>3, <2>2 DEF PollCheck, SameWishes
  <2>6. PollKnows(p)'
    BY <1>0, <2>1, <2>2, <2>3, <2>4, <2>5 DEF PollKnows, SameWishes
  <2>7. MarkInv'
    BY <1>0, <2>1, <2>2, <2>3, <2>4 DEF MarkInv, LeaseInv, Fenced
  <2>8. RemoteInv'
    BY <1>0, <2>1, <2>3, <2>4, <2>5, RunsOnMove
  <2> QED
    BY <1>0, <2>1, <2>3, <2>4, <2>5, <2>6, <2>7, <2>8, WishesKept, KnowsOnMove DEF QuietNext
<1> QED
  BY <1>1, <1>2, <1>3

\* A poll gives up, ends or dies: nothing of what the row asks for changes.
LEMMA QuietOnLeave ==
  ASSUME QuietInv, NEW p \in Polls, SameWishes, RunsKept,
         \A d \in Polls \ {p} : poll'[d] = poll[d],
         poll'[p].at \in {"retry", "release", "idle"},
         poll'[p].fresh => poll[p].fresh, poll'[p].abandoned => poll[p].abandoned,
         \/ poll'[p].seen = poll[p].seen
         \/ poll'[p].seen.latest = 0 /\ ~poll'[p].fresh,
         \/ /\ agent'.lease = agent.lease /\ agent'.leaseLive = agent.leaseLive
            /\ \/ poll[p].at # "launch" \/ agent.lease # p
               \/ \A d \in Polls : ~ReadBeforeMark(d)
         \/ agent.lease = p /\ agent'.lease = NoPoll /\ poll[p].at # "launch"
         \/ /\ agent.lease = p /\ agent'.lease = DeadPoll
            /\ agent'.leaseLive = agent.leaseLive
  PROVE  QuietNext
<1>1. MarkInv /\ PollKnows(p)
  BY DEF QuietInv, KnowInv
<1>2. MarkInv'
  <2>1. ASSUME NEW d \in Polls, agent'.lease = d, poll'[d].at \in {"mark.launch", "check", "drop"}
        PROVE  d # p /\ agent.lease = d /\ agent'.leaseLive = agent.leaseLive
    BY <2>1, PollsType
  <2>2. ASSUME NEW d \in Polls, poll'[d].at = "claim", poll'[d].fresh,
               poll'[d].seen.dispatched # agent'.dispatched
        PROVE  /\ agent'.leaseLive
               /\ \/ agent'.lease = DeadPoll
                  \/ \E q \in Polls \ {d} : agent'.lease = q /\ poll'[q].at = "launch"
    <3>1. /\ poll[d].at = "claim" /\ poll[d].fresh /\ d # p
          /\ poll[d].seen.dispatched # agent.dispatched
      BY <2>2 DEF SameWishes
    <3>2. ReadBeforeMark(d)
      BY <3>1 DEF ReadBeforeMark, At
    <3>3. agent.leaseLive /\ \/ agent.lease = DeadPoll
                             \/ \E q \in Polls \ {d} : agent.lease = q /\ poll[q].at = "launch"
      BY <1>1, <3>1 DEF MarkInv
    <3>4. CASE agent.lease = DeadPoll
      BY <3>3, <3>4, PollsType
    <3>5. CASE \E q \in Polls \ {d} : agent.lease = q /\ poll[q].at = "launch"
      <4>1. PICK q \in Polls \ {d} : agent.lease = q /\ poll[q].at = "launch"
        BY <3>5
      <4>2. CASE q = p
        BY <3>2, <3>3, <4>1, <4>2
      <4>3. CASE q # p
        BY <3>3, <4>1, <4>3
      <4> QED
        BY <4>2, <4>3
    <3> QED
      BY <3>3, <3>4, <3>5
  <2>3. ASSUME NEW d \in Polls, Fenced(d)', poll'[d].at \in {"check", "drop"}
        PROVE  /\ poll'[d].seen.dispatching = agent'.dispatching
               /\ poll'[d].seen.dispatched = agent'.dispatched
    BY <1>1, <2>1, <2>3 DEF MarkInv, Fenced, SameWishes
  <2>4. ASSUME NEW d \in Polls, agent'.lease = d, poll'[d].at = "mark.launch"
        PROVE  agent'.leaseLive
    BY <1>1, <2>1, <2>4 DEF MarkInv
  <2> QED
    BY <2>2, <2>3, <2>4 DEF MarkInv
<1>3. RemoteInv'
  BY RunsOnMove
<1>4. PollKnows(p)'
  BY <1>1 DEF PollKnows, SameWishes
<1> QED
  BY <1>2, <1>3, <1>4, WishesKept, KnowsOnMove DEF QuietNext

LEMMA QuietAtMark ==
  ASSUME QuietInv, NEW p \in Polls, MarkLaunch(p) \/ MarkReply(p) PROVE QuietNext
<1>0. /\ RemoteInv /\ WishInv /\ MarkInv /\ LeaseInv /\ RowInv /\ PollKnows(p)
  BY QuietFacts DEF QuietInv, KnowInv
<1>1. /\ UNCHANGED <<card, shown, remote, metadata>>
      /\ poll[p].at \in {"mark.launch", "mark.reply"}
  BY DEF MarkLaunch, MarkReply, At
<1>2. CASE ~Fenced(p)
  <2>1. agent' = agent /\ GoTo(p, "release")
    BY <1>2 DEF MarkLaunch, MarkReply
  <2>2. "release" \in Places
    BY DEF Places
  <2> QED
    BY <1>1, <2>1, <2>2, QuietFacts, GoToPoll, QuietOnLeave DEF SameWishes, RunsKept
<1>3. CASE MarkLaunch(p) /\ Fenced(p) /\ ~poll[p].seen.request
  <2>1. /\ agent' = [agent EXCEPT !.dispatched = TRUE] /\ GoTo(p, "retry")
        /\ poll[p].at = "mark.launch" /\ poll[p].fresh
    BY <1>3 DEF MarkLaunch, Fenced, At
  <2>2. agent.due /\ ~agent.request /\ agent.latest = 0
    BY <1>0, <1>3, <2>1 DEF PollKnows
  <2>3. agent.status # "none"
    BY <1>0, <2>1, IdleType DEF RowInv
  <2>4. agent.dispatched
    <3>1. CASE poll[p].seen.dispatched
      BY <1>0, <2>1, <3>1 DEF PollKnows
    <3>2. CASE ~poll[p].seen.dispatched
      <4>1. ~agent.cancel
        BY <1>0, <2>1, <3>2 DEF PollKnows, RowInv
      <4> QED
        BY <1>0, <2>2, <2>3, <4>1 DEF WishInv
    <3> QED
      BY <3>1, <3>2
  <2>5. /\ SameWishes /\ agent'.lease = agent.lease /\ agent'.leaseLive = agent.leaseLive
    BY <1>1, <2>1, <2>4, QuietFacts DEF SameWishes, Agent
  <2>6. "retry" \in Places
    BY DEF Places
  <2> QED
    BY <1>1, <2>1, <2>5, <2>6, QuietFacts, GoToPoll, QuietOnLeave DEF RunsKept
<1>4. CASE MarkLaunch(p) /\ Fenced(p) /\ poll[p].seen.request
  <2>1. /\ agent' = [agent EXCEPT !.dispatched = TRUE] /\ GoTo(p, "launch")
        /\ poll[p].at = "mark.launch" /\ poll[p].fresh /\ agent.lease = p
    BY <1>4 DEF MarkLaunch, Fenced, At
  <2>2. agent.due /\ agent.latest = 0 /\ agent.leaseLive /\ poll[p].seen.latest = 0
    BY <1>0, <2>1 DEF PollKnows, MarkInv
  <2>3. /\ agent'.status = agent.status /\ agent'.latest = agent.latest
        /\ agent'.dispatched /\ agent'.request = agent.request
        /\ agent'.followup = agent.followup /\ agent'.dispatching = agent.dispatching
        /\ agent'.cancel = agent.cancel /\ agent'.due = agent.due
        /\ agent'.lease = p /\ agent'.leaseLive
    BY <2>1, <2>2, QuietFacts DEF Agent
  <2>4. /\ poll'[p].at = "launch" /\ poll'[p].seen = poll[p].seen
        /\ poll'[p].fresh = poll[p].fresh /\ poll'[p].abandoned = poll[p].abandoned
        /\ \A d \in Polls \ {p} : poll'[d] = poll[d]
    BY <2>1, QuietFacts, GoToPoll DEF Places
  <2>5. MarkInv'
    BY <2>3, <2>4, PollsType DEF MarkInv, Fenced
  <2>6. Replying' = Replying
    BY <2>1, <2>4 DEF Replying
  <2>7. RemoteInv'
    BY <1>0, <1>1, <2>3, <2>6 DEF RemoteInv
  <2>8. agent.status # "none"
    BY <1>0, <2>1, IdleType DEF RowInv
  <2>9. WishInv'
    BY <1>0, <1>1, <2>2, <2>3, <2>8 DEF WishInv, LastEnded
  <2>10. PollKnows(p)'
    BY <1>0, <1>1, <2>2, <2>3, <2>4 DEF PollKnows
  <2>11. ASSUME NEW d \in Polls \ {p} PROVE PollKnows(d)'
    BY <1>1, <2>2, <2>3, <2>4, <2>6, PollKept
  <2> QED
    BY <2>5, <2>7, <2>9, <2>10, <2>11 DEF QuietNext, KnowInv
<1>5. CASE MarkReply(p) /\ Fenced(p)
  <2>1. /\ agent' = [agent EXCEPT !.dispatching = TRUE] /\ GoTo(p, "reply")
        /\ poll[p].at = "mark.reply" /\ poll[p].fresh /\ agent.lease = p
    BY <1>5 DEF MarkReply, Fenced, At
  <2>2. /\ agent.due /\ agent.leaseLive /\ poll[p].seen.followup /\ agent.followup
        /\ ~agent.dispatching /\ agent.latest # 0
    BY <1>0, <2>1 DEF PollKnows, LeaseInv, RowInv, Fenced
  <2>3. /\ agent'.status = agent.status /\ agent'.latest = agent.latest
        /\ agent'.dispatched = agent.dispatched /\ agent'.request = agent.request
        /\ agent'.followup = agent.followup /\ agent'.dispatching
        /\ agent'.cancel = agent.cancel /\ agent'.due = agent.due
        /\ agent'.lease = p /\ agent'.leaseLive
    BY <2>1, <2>2, QuietFacts DEF Agent
  <2>4. /\ poll'[p].at = "reply" /\ poll'[p].seen = poll[p].seen
        /\ poll'[p].fresh = poll[p].fresh /\ poll'[p].abandoned = poll[p].abandoned
        /\ \A d \in Polls \ {p} : poll'[d] = poll[d]
    BY <2>1, QuietFacts, GoToPoll DEF Places
  <2>5. MarkInv'
    <3>1. \A d \in Polls : agent'.lease = d => d = p
      BY <2>3
    <3>2. \A d \in Polls :
            poll'[d].at = "claim" /\ poll'[d].fresh =>
              poll'[d].seen.dispatched = agent'.dispatched
      BY <1>0, <2>1, <2>3, <2>4, PollsType DEF MarkInv
    <3> QED
      BY <2>4, <3>1, <3>2 DEF MarkInv, Fenced
  <2>6. Replying = {} /\ Len(remote) = agent.latest
    BY <1>0, <2>2 DEF RemoteInv
  <2>7. Replying' = {p}
    BY <2>4, <2>6 DEF Replying
  <2>8. RemoteInv'
    BY <1>0, <1>1, <2>1, <2>2, <2>3, <2>4, <2>6, <2>7 DEF RemoteInv
  <2>9. WishInv'
    BY <1>0, <1>1, <2>2, <2>3 DEF WishInv, LastEnded, RowInv
  <2>10. PollKnows(p)'
    BY <1>0, <1>1, <2>2, <2>3, <2>4 DEF PollKnows
  <2>11. ASSUME NEW d \in Polls \ {p} PROVE PollKnows(d)'
    BY <1>1, <2>2, <2>3, <2>4, PollKept
  <2> QED
    BY <2>5, <2>8, <2>9, <2>10, <2>11 DEF QuietNext, KnowInv
<1> QED
  BY <1>2, <1>3, <1>4, <1>5

\* What a poll is told of a run.
LEMMA AnswerOf ==
  ASSUME poll \in [Polls -> Poll], NEW p \in Polls, NEW runs \in Seq(RemoteState),
         NEW k \in 1..Len(runs), Answered(p, k, runs)
  PROVE  /\ poll'[p].at = "answered" /\ poll'[p].seen = poll[p].seen
         /\ poll'[p].fresh = poll[p].fresh /\ poll'[p].abandoned = poll[p].abandoned
         /\ poll'[p].answer.latest = k /\ k # 0
         /\ poll'[p].answer.status # "running" => runs[k] \in Ended
         /\ \A d \in Polls \ {p} : poll'[d] = poll[d]
<1> DEFINE a == [status |-> Shows(runs[k]), latest |-> k]
           q == [poll[p] EXCEPT !.at = "answered", !.answer = a]
<1>1. runs[k] \in RemoteState
  BY ElementOfSeq
<1>2. k # 0 /\ a.latest = k /\ (a.status # "running" => runs[k] \in Ended)
  BY <1>1, LenProperties DEF Shows, RemoteState, Ended
<1>3. poll' = [poll EXCEPT ![p] = q]
  BY DEF Answered, Poll
<1> HIDE DEF a
<1>4. /\ q.at = "answered" /\ q.seen = poll[p].seen /\ q.answer = a
      /\ q.fresh = poll[p].fresh /\ q.abandoned = poll[p].abandoned
  BY DEF Poll
<1> HIDE DEF q
<1> QED
  BY <1>2, <1>3, <1>4

\* A request takes longer than a claim: no poll is left that read the row before a mark.
LEMMA MarksAtRequest ==
  ASSUME QuietInv, NEW p \in Polls, \A d \in Polls : ~ReadBeforeMark(d), agent' = agent,
         \A d \in Polls \ {p} : poll'[d] = poll[d],
         poll'[p].at \in {"answered", "retry", "failed"}
  PROVE  MarkInv'
<1>1. \A d \in Polls : poll[d].at = "claim" /\ poll[d].fresh =>
                         poll[d].seen.dispatched = agent.dispatched
  BY DEF ReadBeforeMark, At
<1> QED
  BY <1>1 DEF QuietInv, MarkInv, Fenced

\* A poll gives up a request that changed nothing it goes by.
LEMMA QuietWhenLost ==
  ASSUME QuietInv, NEW p \in Polls, GoTo(p, "retry"), RunsKept,
         \A d \in Polls : ~ReadBeforeMark(d),
         UNCHANGED <<agent, card, shown, metadata>>
  PROVE  QuietNext
<1>1. "retry" \in Places
  BY DEF Places
<1> QED
  BY <1>1, QuietFacts, GoToPoll, QuietOnLeave DEF SameWishes

\* A poll is told of a run, and there is no new one.
LEMMA QuietWhenAnswered ==
  ASSUME QuietInv, NEW p \in Polls, RunsKept, remote' \in Seq(RemoteState),
         NEW k \in 1..Len(remote'), Answered(p, k, remote'),
         \A d \in Polls : ~ReadBeforeMark(d),
         UNCHANGED <<agent, card, shown, metadata>>,
         poll[p].fresh => k = Len(remote) /\ (poll[p].seen.followup => k # agent.latest)
  PROVE  QuietNext
<1>1. SameWishes /\ PollKnows(p)
  BY DEF SameWishes, QuietInv, KnowInv
<1>2. /\ poll'[p].at = "answered" /\ poll'[p].seen = poll[p].seen
      /\ poll'[p].fresh = poll[p].fresh /\ poll'[p].abandoned = poll[p].abandoned
      /\ poll'[p].answer.latest = k /\ k # 0
      /\ poll'[p].answer.status # "running" => remote'[k] \in Ended
      /\ \A d \in Polls \ {p} : poll'[d] = poll[d]
  BY QuietFacts, AnswerOf
<1>3. PollKnows(p)'
  BY <1>1, <1>2 DEF PollKnows, RunsKept
<1> QED
  BY <1>1, <1>2, <1>3, MarksAtRequest, RunsOnMove, WishesKept, KnowsOnMove DEF QuietNext

LEMMA QuietByLooking ==
  ASSUME QuietInv, ~SlowClaims, NEW p \in Polls,
         CancelRequest(p) \/ ObserveRequest(p) \/ GetRequest(p)
  PROVE  QuietNext
<1>0. /\ RemoteInv /\ WishInv /\ LeaseInv /\ RowInv /\ PollKnows(p) /\ TypeInv
      /\ Pointers /\ CloudTypeOK
  BY QuietFacts DEF QuietInv, KnowInv, Inv
<1>1. /\ UNCHANGED <<agent, card, shown, metadata>>
      /\ \A d \in Polls : ~ReadBeforeMark(d)
  BY DEF CancelRequest, ObserveRequest, GetRequest, TimePasses
<1>2. /\ remote' \in Seq(RemoteState) /\ RunsKept
      /\ poll[p].at \in {"cancel", "observe", "get"}
  <2>1. CASE CancelRequest(p)
    <3> DEFINE k == CancelTarget(p)
    <3>1. k \in 1..Len(remote)
      BY <1>0, <2>1, QuietFacts, EmptySeq DEF CancelRequest, CancelTarget, At, Pointers
    <3>2. \/ remote' = remote
          \/ \E state \in {"stopping", "cancelled"} :
               remote' = [remote EXCEPT ![k] = IF @ = "running" THEN state ELSE @]
      BY <2>1 DEF CancelRequest
    <3>3. ASSUME NEW state \in {"stopping", "cancelled"}
          PROVE  (IF remote[k] = "running" THEN state ELSE remote[k]) \in RemoteState
      BY <3>1, QuietFacts DEF RemoteState
    <3>4. remote' \in Seq(RemoteState) /\ Len(remote') = Len(remote)
      BY <3>1, <3>2, <3>3, QuietFacts, ExceptSeq
    <3>5. ASSUME NEW j \in 1..Len(remote), remote[j] \in Ended PROVE remote'[j] = remote[j]
      BY <3>1, <3>2, <3>3, <3>5, QuietFacts, ExceptSeq DEF Ended
    <3> QED
      BY <2>1, <3>4, <3>5 DEF RunsKept, CancelRequest, At
  <2>2. CASE ObserveRequest(p) \/ GetRequest(p)
    BY <2>2, QuietFacts DEF ObserveRequest, GetRequest, RunsKept, At
  <2> QED
    BY <2>1, <2>2
<1>3. poll[p].seen.latest # 0 /\ agent.latest # 0
  BY <1>0, <1>2 DEF Pointers, PollKnows
<1>4. CASE GoTo(p, "retry")
  BY <1>1, <1>2, <1>4, QuietWhenLost
<1>5. CASE ~GoTo(p, "retry")
  <2> DEFINE k == IF At(p, "cancel") THEN CancelTarget(p)
                  ELSE IF At(p, "observe") THEN metadata ELSE poll[p].seen.latest
  <2>1. Answered(p, k, remote') /\ (poll[p].at # "get" => ~OldRun(p, k))
    BY <1>5 DEF CancelRequest, ObserveRequest, GetRequest, RequestLost, At
  <2>2. k \in 1..Len(remote) /\ k \in 1..Len(remote')
    BY <1>0, <1>2, <1>3, QuietFacts, EmptySeq DEF CancelTarget, Pointers, RunsKept
  <2>3. ASSUME poll[p].fresh
        PROVE  k = Len(remote) /\ (poll[p].seen.followup => k # agent.latest)
    <3>1. poll[p].seen.latest = agent.latest /\ poll[p].seen.followup = agent.followup
          /\ (poll[p].seen.dispatching => agent.dispatching)
      BY <1>0, <2>3 DEF PollKnows, RowInv
    <3>2. CASE poll[p].seen.dispatching /\ poll[p].at # "get"
      <4>1. k = metadata /\ metadata # agent.latest
        BY <1>2, <2>1, <3>1, <3>2 DEF CancelTarget, OldRun, At
      <4>2. agent.latest <= metadata /\ metadata <= Len(remote)
        BY <1>0, <3>1, <3>2 DEF WishInv, Pointers
      <4> QED
        BY <1>0, <1>3, <4>1, <4>2, QuietFacts DEF RemoteInv
    <3>3. CASE ~(poll[p].seen.dispatching /\ poll[p].at # "get")
      <4>1. k = agent.latest /\ ~poll[p].seen.followup
        BY <1>0, <1>2, <3>1, <3>3 DEF CancelTarget, At, PollKnows
      <4>2. ~agent.dispatching
        BY <1>0, <3>1, <4>1 DEF WishInv
      <4> QED
        BY <1>0, <1>3, <4>1, <4>2 DEF RemoteInv
    <3> QED
      BY <3>2, <3>3
  <2> HIDE DEF k
  <2> QED
    BY <1>1, <1>2, <2>1, <2>2, <2>3, QuietWhenAnswered
<1> QED
  BY <1>4, <1>5

LEMMA QuietByLaunch ==
  ASSUME QuietInv, ~SlowClaims, NEW p \in Polls, LaunchRequest(p) PROVE QuietNext
<1> DEFINE runs == IF remote = <<>> THEN <<"running">> ELSE remote
<1>0. /\ RemoteInv /\ WishInv /\ PollKnows(p) /\ poll[p].at = "launch"
      /\ UNCHANGED <<agent, card, shown>>
      /\ \A d \in Polls : ~ReadBeforeMark(d)
  BY DEF QuietInv, KnowInv, LaunchRequest, TimePasses, At
<1>1. /\ runs \in Seq(RemoteState) /\ (Len(remote) # 0 => runs = remote)
      /\ Len(remote) = 0 => Len(runs) = 1
      /\ Len(runs) \in 1..Len(runs) /\ (Len(runs) = Len(remote) \/ Len(remote) = 0)
  <2>1. /\ <<"running">> \in Seq(RemoteState) /\ Len(<<"running">>) = 1
    BY DEF RemoteState
  <2>2. Len(remote) = 0 => remote = <<>>
    BY QuietFacts, EmptySeq
  <2>3. remote = <<>> => Len(remote) = 0
    BY QuietFacts, EmptySeq
  <2> QED
    BY <2>1, <2>2, <2>3, QuietFacts
<1> HIDE DEF runs
<1>2. /\ remote' = runs \/ remote' = remote
      /\ \/ remote' = runs /\ Answered(p, Len(runs), runs)
         \/ GoTo(p, "retry")
         \/ remote' = remote /\ GoTo(p, "failed")
  BY DEF LaunchRequest, RequestLost, RequestRejected, runs
<1>3. agent.dispatched /\ poll[p].seen.latest = 0
  BY <1>0 DEF RemoteInv, PollKnows
<1>4. remote' \in Seq(RemoteState)
  BY <1>1, <1>2, QuietFacts
<1>5. Left(p, remote')
  BY <1>1, <1>2, QuietFacts DEF Left
<1>6. /\ poll'[p].at \in {"answered", "retry", "failed"}
      /\ \A d \in Polls \ {p} : poll'[d] = poll[d]
  BY <1>4, <1>5, LeftPoll DEF QuietInv, Inv
<1>7. MarkInv'
  BY <1>0, <1>6, MarksAtRequest
<1>8. /\ \/ Len(remote') = Len(remote) /\ remote' = remote
         \/ Len(remote) = 0 /\ Len(remote') = 1
      /\ Len(remote) # 0 => remote' = remote
  BY <1>1, <1>2
<1>9. Replying' \subseteq Replying
  BY <1>6 DEF Replying
<1>10. RemoteInv'
  <2>1. \A k \in 1..Len(remote') : k < Len(remote') => remote'[k] \in Ended
    <3>1. CASE remote' = remote
      BY <1>0, <3>1 DEF RemoteInv
    <3>2. CASE Len(remote') = 1
      BY <3>2
    <3> QED
      BY <1>8, <3>1, <3>2
  <2>2. agent.latest # 0 => remote' = remote
    BY <1>0, <1>8, QuietFacts DEF Pointers
  <2>3. agent.latest = 0 => Len(remote') <= 1 /\ Replying' = {}
    <3>1. agent.latest = 0 => Len(remote) <= 1 /\ Replying = {}
      BY <1>0 DEF RemoteInv
    <3>2. ASSUME agent.latest = 0 PROVE Replying' = {}
      <4>1. Replying = {}
        BY <3>1, <3>2
      <4> QED
        BY <1>9, <4>1
    <3>3. agent.latest = 0 => Len(remote') <= 1
      <4>1. CASE remote' = remote
        BY <3>1, <4>1
      <4>2. CASE Len(remote') = 1
        BY <4>2
      <4> QED
        BY <1>8, <4>1, <4>2
    <3> QED
      BY <3>2, <3>3
  <2> QED
    BY <1>0, <1>3, <1>8, <1>9, <2>1, <2>2, <2>3 DEF RemoteInv
<1>11. WishInv'
  <2>1. metadata' = metadata \/ agent.latest = 0
    BY <1>8, QuietFacts DEF LaunchRequest, Pointers
  <2>2. CASE remote' = remote
    BY <1>0, <2>1, <2>2, QuietFacts DEF WishInv, RowInv, LastEnded, LaunchRejected
  <2>3. CASE remote' # remote
    <3>1. Len(remote) = 0 /\ agent.latest = 0
      BY <1>8, <2>3, <1>2, QuietFacts DEF Pointers
    <3>2. agent.status = "none" \/ agent.due \/ LaunchRejected
      BY <1>0, <1>3, <3>1 DEF WishInv
    <3>3. ~agent.followup
      BY <3>1, QuietFacts DEF RowInv
    <3> QED
      BY <1>0, <1>3, <3>1, <3>2, <3>3 DEF WishInv, LaunchRejected
  <2> QED
    BY <2>2, <2>3
<1>12. PollKnows(p)'
  <2>1. poll[p].at = "launch" /\ poll[p].answer \in [status : Status, latest : Nat]
    BY <1>0, QuietFacts DEF CloudTypeOK, Poll
  <2>2. CASE remote' = runs /\ Answered(p, Len(runs), runs)
    <3>1. Len(runs) \in 1..Len(runs)
      BY <1>1, QuietFacts
    <3>2. /\ poll'[p].at = "answered" /\ poll'[p].seen = poll[p].seen
          /\ poll'[p].fresh = poll[p].fresh /\ poll'[p].abandoned = poll[p].abandoned
          /\ poll'[p].answer.latest = Len(runs) /\ Len(runs) # 0
          /\ poll'[p].answer.status # "running" => runs[Len(runs)] \in Ended
      BY <1>1, <2>2, <3>1, QuietFacts, AnswerOf
    <3>3. poll[p].fresh => ~poll[p].seen.followup
      BY <1>0, <1>3, QuietFacts DEF RowInv, PollKnows
    <3> QED
      BY <1>0, <1>3, <2>2, <3>2, <3>3 DEF PollKnows
  <2>3. CASE GoTo(p, "retry")
    <3>1. /\ poll'[p].at = "retry" /\ poll'[p].seen = poll[p].seen
          /\ poll'[p].fresh = poll[p].fresh /\ poll'[p].abandoned = poll[p].abandoned
      BY <2>3, QuietFacts, GoToPoll DEF Places
    <3> QED
      BY <1>0, <3>1 DEF PollKnows
  <2>4. CASE GoTo(p, "failed")
    <3>1. /\ poll'[p].at = "failed" /\ poll'[p].seen = poll[p].seen
          /\ poll'[p].fresh = poll[p].fresh /\ poll'[p].abandoned = poll[p].abandoned
      BY <2>4, QuietFacts, GoToPoll DEF Places
    <3> QED
      BY <1>0, <1>3, <2>4, <3>1 DEF PollKnows
  <2> QED
    BY <1>2, <2>2, <2>3, <2>4
<1>13. ASSUME NEW d \in Polls \ {p} PROVE PollKnows(d)'
  <2>1. PollKnows(d) /\ poll'[d] = poll[d]
    BY <1>6 DEF QuietInv, KnowInv
  <2>2. poll[d].at = "answered" => Len(remote) # 0
    BY <2>1, QuietFacts DEF PollKnows, Pointers
  <2>3. poll[d].at = "answered" => remote' = remote
    BY <1>8, <2>2
  <2>4. poll[d].at = "failed" /\ poll[d].fresh /\ poll[d].seen.latest # 0 =>
          Replying' = {} /\ remote' = remote
    BY <1>8, <1>9, <2>1 DEF PollKnows
  <2> QED
    BY <1>0, <2>1, <2>3, <2>4 DEF PollKnows
<1> QED
  BY <1>7, <1>10, <1>11, <1>12, <1>13 DEF QuietNext, KnowInv

LEMMA QuietByReply ==
  ASSUME QuietInv, ~SlowClaims, NEW p \in Polls, ReplyRequest(p) PROVE QuietNext
<1>0. /\ RemoteInv /\ WishInv /\ PollKnows(p) /\ poll[p].at = "reply"
      /\ UNCHANGED <<agent, card, shown, metadata>>
      /\ \A d \in Polls : ~ReadBeforeMark(d)
  BY DEF QuietInv, KnowInv, ReplyRequest, TimePasses, At
<1>1. /\ p \in Replying /\ agent.dispatching /\ agent.followup /\ agent.latest # 0
      /\ Len(remote) = agent.latest /\ LastEnded /\ Len(remote) # 0
  <2>1. p \in Replying /\ agent.dispatching
    BY <1>0 DEF RemoteInv, Replying
  <2>2. agent.latest # 0 /\ Len(remote) = agent.latest
    BY <1>0, <2>1 DEF RemoteInv
  <2> QED
    BY <1>0, <2>1, <2>2 DEF WishInv
<1>2. remote[Len(remote)] \in Ended
  BY <1>1 DEF LastEnded
<1>3. Replying' \subseteq Replying \ {p} /\ \A d \in Polls \ {p} : poll'[d] = poll[d]
  <2>1. remote' \in Seq(RemoteState) /\ Left(p, remote')
    BY RequestTypes DEF QuietInv, Inv, TypeInv, CloudTypeOK
  <2>2. /\ poll'[p].at \in {"answered", "retry", "failed"}
        /\ \A d \in Polls \ {p} : poll'[d] = poll[d]
    BY <2>1, LeftPoll DEF QuietInv, Inv
  <2> QED
    BY <2>2 DEF Replying
<1>4. CASE GoTo(p, "retry") /\ remote' = remote
  <2>1. RunsKept
    BY <1>4 DEF RunsKept
  <2> QED
    BY <1>0, <1>4, <2>1, QuietWhenLost
<1>6. CASE GoTo(p, "failed") /\ remote' = remote
  <2>1. /\ poll'[p].at = "failed" /\ poll'[p].seen = poll[p].seen
        /\ poll'[p].fresh = poll[p].fresh /\ poll'[p].abandoned = poll[p].abandoned
    BY <1>6, QuietFacts, GoToPoll DEF Places
  <2>2. SameWishes /\ RunsKept
    BY <1>0, <1>6 DEF SameWishes, RunsKept
  <2>3. Replying' = {}
    BY <1>0, <1>1, <1>3 DEF RemoteInv
  <2>4. PollKnows(p)'
    BY <1>0, <1>1, <1>6, <2>1, <2>3 DEF PollKnows
  <2>5. MarkInv' /\ RemoteInv'
    BY <1>0, <1>3, <2>1, <2>2, MarksAtRequest, RunsOnMove
  <2> QED
    BY <1>3, <2>1, <2>2, <2>4, <2>5, WishesKept, KnowsOnMove DEF QuietNext
<1>5. CASE remote' = Append(remote, "running")
  <2>1. /\ Len(remote') = Len(remote) + 1 /\ remote' \in Seq(RemoteState)
        /\ \A k \in 1..Len(remote) : remote'[k] = remote[k]
    BY <1>5, QuietFacts, AppendProperties DEF RemoteState
  <2>2. Answered(p, Len(remote'), remote') \/ GoTo(p, "retry")
    <3>1. remote' # remote
      BY <2>1, QuietFacts
    <3> QED
      BY <1>2, <1>5, <3>1 DEF ReplyRequest, RequestLost, RequestRejected
  <2>3. Replying' = {}
    BY <1>0, <1>1, <1>3 DEF RemoteInv
  <2>4. Len(remote') \in 1..Len(remote')
    BY <2>1, QuietFacts
  <2>5. /\ poll'[p].at \in {"answered", "retry"} /\ poll'[p].seen = poll[p].seen
        /\ poll'[p].fresh = poll[p].fresh /\ poll'[p].abandoned = poll[p].abandoned
        /\ poll'[p].at = "answered" =>
             /\ poll'[p].answer.latest = Len(remote') /\ Len(remote') # 0
             /\ poll'[p].answer.status # "running" => remote'[Len(remote')] \in Ended
    <3>1. CASE Answered(p, Len(remote'), remote')
      BY <2>1, <2>4, <3>1, QuietFacts, AnswerOf
    <3>2. CASE GoTo(p, "retry")
      BY <3>2, QuietFacts, GoToPoll DEF Places
    <3> QED
      BY <2>2, <3>1, <3>2
  <2>6. MarkInv'
    BY <1>0, <1>3, <2>5, MarksAtRequest
  <2>7. RemoteInv'
    <3>1. \A k \in 1..Len(remote') : k < Len(remote') => remote'[k] \in Ended
      BY <1>0, <1>2, <2>1, QuietFacts DEF RemoteInv
    <3>2. agent.dispatched
      BY <1>0, <1>1 DEF RemoteInv
    <3> QED
      BY <1>0, <1>1, <2>1, <2>3, <3>1, <3>2, QuietFacts DEF RemoteInv
  <2>8. WishInv'
    <3>1. Len(remote') # agent.latest
      BY <1>1, <2>1, QuietFacts
    <3> QED
      BY <1>0, <1>1, <3>1 DEF WishInv, LaunchRejected
  <2>9. PollKnows(p)'
    BY <1>0, <1>1, <2>1, <2>5, QuietFacts DEF PollKnows
  <2>10. ASSUME NEW d \in Polls \ {p} PROVE PollKnows(d)'
    <3>1. PollKnows(d) /\ poll'[d] = poll[d]
      BY <1>3 DEF QuietInv, KnowInv
    <3>2. poll[d].at = "answered" => poll[d].answer.latest \in 1..Len(remote)
      BY <3>1, QuietFacts DEF PollKnows, Pointers
    <3>3. /\ poll[d].at = "answered" => ~poll[d].fresh
          /\ poll[d].at = "failed" => ~poll[d].fresh \/ poll[d].seen.latest = 0
      <4>1. poll[d].fresh => poll[d].seen.followup = agent.followup
        BY QuietFacts DEF RowInv
      <4> QED
        BY <1>1, <3>1, <4>1 DEF PollKnows
    <3> QED
      BY <1>0, <2>1, <3>1, <3>2, <3>3 DEF PollKnows
  <2> QED
    BY <2>6, <2>7, <2>8, <2>9, <2>10 DEF QuietNext, KnowInv
<1> QED
  BY <1>2, <1>4, <1>5, <1>6 DEF ReplyRequest, RequestLost, RequestRejected

\* A poll that ends with the row as it read it.
LEMMA QuietAtFinish ==
  ASSUME QuietInv, NEW p \in Polls, FinishPoll(p), Fenced(p) PROVE QuietNext
<1> DEFINE o == Outcome(p)
           ended == o.status # "running"
<1>0. /\ RemoteInv /\ WishInv /\ MarkInv /\ RowInv /\ LeaseInv /\ PollKnows(p) /\ TypeInv
      /\ poll[p].at \in {"answered", "failed", "drop"} /\ poll[p].fresh /\ agent.lease = p
  BY QuietFacts DEF QuietInv, KnowInv, Inv, FinishPoll, Fenced
<1>1. /\ agent' = Finished(p) /\ shown' = ShownAfter(p)
      /\ NewVersion(p, [IdlePoll EXCEPT !.at = "release"])
      /\ UNCHANGED <<card, remote, metadata>>
  BY DEF FinishPoll
<1>2. /\ agent'.status = o.status /\ o.status \in Status \ {"none"}
      /\ agent'.lease = NoPoll /\ agent'.due = ~ended
      /\ ~agent'.followup /\ ~agent'.dispatching
      /\ agent'.cancel = (o.status = "running" /\ (~Wanted(p) \/ poll[p].seen.cancel))
  BY <1>0, <1>1, FinishedRow DEF DueAfter
<1>3. agent'.latest = o.latest /\ agent'.dispatched = agent.dispatched /\ ~agent'.request
  BY <1>1, QuietFacts DEF Finished, Unleased, Agent
<1>4. /\ agent.due /\ poll[p].seen.latest = agent.latest
      /\ poll[p].seen.followup = agent.followup
      /\ poll[p].seen.cancel = agent.cancel
      /\ poll[p].at = "drop" => /\ poll[p].seen.dispatched = agent.dispatched
                                /\ poll[p].seen.dispatching = agent.dispatching
  BY <1>0 DEF PollKnows, RowInv, MarkInv, Fenced
<1>5. agent.status # "none"
  BY <1>0, IdleType DEF RowInv
<1>6. \A d \in Polls : /\ ~poll'[d].fresh
                       /\ d # p => /\ poll'[d].at = poll[d].at /\ poll'[d].seen = poll[d].seen
                                   /\ poll'[d].answer = poll[d].answer
                                   /\ poll'[d].abandoned = poll[d].abandoned
                       /\ d = p => /\ poll'[d].at = "release" /\ ~poll'[d].abandoned
                                   /\ poll'[d].seen.latest = 0
  BY <1>1, QuietFacts, IdleType DEF NewVersion, IdlePoll, Poll
<1>7. Replying' \subseteq Replying
  BY <1>0, <1>6 DEF Replying
\* What the row is left with stands for all runs, and nothing more is on its way.
<1>8. /\ Replying = {} /\ (o.latest # 0 => o.latest = Len(remote))
      /\ ended => LastEnded \/ (o.status = "failed" /\ o.latest = 0)
      /\ o.latest = 0 => /\ ended /\ Len(remote) <= 1
                         /\ o.status = "failed" \/ ~agent.dispatched
      /\ agent.latest # 0 => o.latest # 0
  <2>1. CASE poll[p].at = "answered"
    <3>1. o.status = poll[p].answer.status /\ o.latest = poll[p].answer.latest
      BY <2>1 DEF Outcome, At
    <3>2. /\ o.latest = Len(remote) /\ o.latest # 0
          /\ poll[p].seen.followup => Len(remote) # agent.latest
          /\ ended => remote[Len(remote)] \in Ended
      BY <1>0, <2>1, <3>1 DEF PollKnows
    <3>3. Replying = {}
      BY <1>0, <1>4, <3>2 DEF RemoteInv, WishInv
    <3> QED
      BY <3>2, <3>3 DEF LastEnded
  <2>2. CASE poll[p].at = "failed"
    <3>1. o.status = "failed" /\ o.latest = agent.latest
      BY <2>2 DEF Outcome, At
    <3>2. CASE agent.latest = 0
      BY <1>0, <3>1, <3>2 DEF RemoteInv
    <3>3. CASE agent.latest # 0
      <4>1. agent.dispatching /\ Replying = {} /\ Len(remote) = agent.latest
        BY <1>0, <1>4, <2>2, <3>3 DEF PollKnows
      <4> QED
        BY <1>0, <3>1, <3>3, <4>1 DEF WishInv
    <3> QED
      BY <3>2, <3>3
  <2>3. CASE poll[p].at = "drop"
    <3>1. o.status = "cancelled" /\ o.latest = agent.latest
      BY <2>3 DEF Outcome, At
    <3>2. CASE agent.latest = 0 /\ ~agent.dispatched
      BY <1>0, <3>1, <3>2 DEF RemoteInv, LastEnded
    <3>3. CASE agent.followup /\ ~agent.dispatching
      <4>1. agent.latest # 0
        BY <1>0, <3>3 DEF RowInv
      <4>2. Len(remote) = agent.latest /\ Replying = {}
        BY <1>0, <3>3, <4>1 DEF RemoteInv
      <4> QED
        BY <1>0, <3>1, <3>3, <4>1, <4>2 DEF WishInv
    <3> QED
      BY <1>0, <1>4, <2>3, <3>2, <3>3 DEF PollKnows
  <2> QED
    BY <1>0, <2>1, <2>2, <2>3
<1> HIDE DEF o
<1>9. MarkInv'
  BY <1>2, <1>6, PollsType DEF MarkInv, Fenced
<1>10. RemoteInv'
  <2>1. Replying' = {}
    BY <1>7, <1>8
  <2>2. o.latest = 0 => Len(remote) <= 1
    BY <1>8
  <2>3. (\E d \in Polls : poll'[d].at = "launch") => \E d \in Polls : poll[d].at = "launch"
    BY <1>6
  <2> QED
    BY <1>0, <1>1, <1>2, <1>3, <1>8, <2>1, <2>2, <2>3 DEF RemoteInv
<1>11. WishInv'
  <2>1. card => ~poll[p].abandoned
    BY <1>0 DEF PollKnows
  <2>2. card => shown' = o.status
    BY <1>1, <2>1 DEF ShownAfter, Wanted, o
  <2>3. o.status \in Ended => ended
    BY DEF Ended
  <2> QED
    BY <1>0, <1>1, <1>2, <1>3, <1>8, <2>2, <2>3 DEF WishInv, LastEnded, LaunchRejected
<1>12. KnowInv'
  <2>1. ASSUME NEW d \in Polls PROVE PollKnows(d)'
    <3>1. CASE d = p
      BY <1>6, <3>1 DEF PollKnows
    <3>2. CASE d # p
      BY <1>1, <1>3, <1>6, <1>8, <3>2, PollKept
    <3> QED
      BY <3>1, <3>2
  <2> QED
    BY <2>1 DEF KnowInv
<1> QED
  BY <1>9, <1>10, <1>11, <1>12 DEF QuietNext

LEMMA QuietAtEnd ==
  ASSUME QuietInv, NEW p \in Polls,
         FinishPoll(p) \/ RetryPoll(p) \/ ReleasePoll(p) \/ PollCrashes(p)
  PROVE  QuietNext
<1>0. PollKnows(p) /\ UNCHANGED <<card, remote, metadata>>
  BY DEF QuietInv, KnowInv, FinishPoll, RetryPoll, ReleasePoll, PollCrashes
<1>1. RunsKept
  BY <1>0 DEF RunsKept
<1>2. CASE FinishPoll(p) /\ Fenced(p)
  BY <1>2, QuietAtFinish
<1>3. CASE FinishPoll(p) /\ ~Fenced(p)
  <2>1. /\ UNCHANGED <<agent, shown>> /\ GoTo(p, "release") /\ poll[p].at # "launch"
    BY <1>3 DEF FinishPoll
  <2>2. "release" \in Places
    BY DEF Places
  <2> QED
    BY <1>0, <1>1, <2>1, <2>2, QuietFacts, GoToPoll, QuietOnLeave DEF SameWishes
<1>4. CASE RetryPoll(p)
  <2>1. GoTo(p, "release") /\ poll[p].at = "retry" /\ "release" \in Places /\ shown' = shown
    BY <1>4 DEF RetryPoll, At, Places
  <2>2. \/ agent' = agent
        \/ /\ agent.due /\ agent.lease = p
           /\ agent' = [Unleased(agent) EXCEPT !.due = TRUE]
    BY <1>0, <1>4 DEF RetryPoll, Fenced, PollKnows
  <2>3. /\ SameWishes
        /\ \/ agent' = agent
           \/ agent.lease = p /\ agent'.lease = NoPoll
    BY <1>0, <2>1, <2>2, QuietFacts DEF SameWishes, Unleased, Agent
  <2> QED
    BY <1>1, <2>1, <2>3, QuietFacts, GoToPoll, QuietOnLeave
<1>5. CASE ReleasePoll(p) \/ PollCrashes(p)
  <2>1. /\ poll'[p].at = "idle" /\ ~poll'[p].fresh /\ poll'[p].seen.latest = 0
        /\ ~poll'[p].abandoned /\ \A d \in Polls \ {p} : poll'[d] = poll[d]
    BY <1>5, QuietFacts, IdleType DEF ReleasePoll, PollCrashes, IdlePoll
  <2>2. SameWishes
    BY <1>0, <1>5, QuietFacts DEF ReleasePoll, PollCrashes, SameWishes, Unleased, Agent
  <2>3. \/ agent' = agent /\ (poll[p].at # "launch" \/ agent.lease # p)
        \/ agent.lease = p /\ agent'.lease = NoPoll /\ poll[p].at # "launch"
        \/ /\ agent.lease = p /\ agent'.lease = DeadPoll
           /\ agent'.leaseLive = agent.leaseLive
    BY <1>5, QuietFacts DEF ReleasePoll, PollCrashes, At, Unleased, Agent
  <2> QED
    BY <1>1, <2>1, <2>2, <2>3, QuietOnLeave
<1> QED
  BY <1>2, <1>3, <1>4, <1>5

LEMMA QuietStep ==
  ASSUME ~SlowClaims, ~StaleMetadata
  PROVE  QuietInv /\ [CloudNext]_cloudVars => QuietInv'
<1> SUFFICES ASSUME QuietInv, [CloudNext]_cloudVars PROVE QuietNext
  BY InvStep DEF QuietInv, QuietNext
<1> QED
  BY QuietByUser, QuietByWorld, QuietAtStart, QuietAtMark, QuietByLaunch, QuietByReply,
     QuietByLooking, QuietAtEnd
     DEF CloudNext, PollStep

\* When a claim follows its read before another poll's request is answered, and a
\* follow-up its run's metadata, a row that asks for no more polls leaves nothing running
\* at the provider, and its card shows how it ended: whichever polls crash, stall or lose
\* answers, whatever is cancelled or dropped, and whichever request the provider rejects.
\* Only a launch that it rejects after having accepted it may leave its run.
THEOREM SettledRowsAreQuiet ==
  ASSUME ~SlowClaims, ~StaleMetadata PROVE CloudSpec => []SettledMeansQuiet
<1>1. QuietInv => SettledMeansQuiet
  <2> SUFFICES ASSUME QuietInv, agent.status # "none", ~agent.due
               PROVE  /\ LaunchRejected \/ \A k \in DOMAIN remote : remote[k] \in Ended
                      /\ card => shown = agent.status
    BY DEF SettledMeansQuiet
  <2>1. (LastEnded \/ LaunchRejected) /\ (card => shown = agent.status)
    BY DEF QuietInv, WishInv
  <2>2. ASSUME LastEnded, NEW k \in DOMAIN remote PROVE remote[k] \in Ended
    <3>1. k \in 1..Len(remote) /\ Len(remote) \in Nat
      BY QuietFacts, LenProperties
    <3> QED
      BY <2>2, <3>1 DEF QuietInv, RemoteInv, LastEnded
  <2> QED
    BY <2>1, <2>2
<1>2. CloudInit => QuietInv
  BY InitTypes, InitRow, InitSent, InitQuiet DEF QuietInv, Inv
<1>3. QuietInv /\ [CloudNext]_cloudVars => QuietInv'
  BY QuietStep
<1> QED
  BY <1>1, <1>2, <1>3, PTL DEF CloudSpec
=============================================================================
