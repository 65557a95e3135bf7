------------------------- MODULE RunLifecycleProofs -------------------------
(***************************************************************************)
(* The types and the safety properties of RunLifecycle, proved for every   *)
(* number of runs, handlers, workers, messages and faults.                 *)
(*                                                                         *)
(* Most steps are QUIET: they move an active run between active statuses,  *)
(* or touch no run at all.  The lemmas QuietWorker and QuietWorld say so   *)
(* once; each invariant is then shown for a quiet step and for the few     *)
(* steps that are not.                                                     *)
(*                                                                         *)
(* The last part is about what becomes of messages.  RunLifecycle          *)
(* implements Mailbox: every step of workers, user and faults is a step of *)
(* the mailbox or leaves it as it is.  The invariant this rests on is      *)
(* SteeringInv: a row is never bound to a run that does not exist, so that *)
(* creating one adds to the inbox only its own message.  And a call that   *)
(* held its run alone completes it with exactly what its turn was told.    *)
(***************************************************************************)
EXTENDS RunHolders, TLAPS

USE WorkerOfType, BoundsNat, SwitchesBool, NullsAreNew

-----------------------------------------------------------------------------
(* Types *)

LEMMA InitTypeOK == Init => TypeOK
  BY DEF Init, TypeOK, RunRow, SteeringRow, HandlerState, IdleHandler, Statuses,
         Places, Attempts, NoSteering

LEMMA LeaveType ==
  ASSUME TypeOK, NEW h \in Handlers, Leave(h)
  PROVE  /\ handler' \in [Handlers -> HandlerState]
         /\ \A g \in Handlers : handler'[g].at # "idle" => handler'[g].run \in Runs
  BY DEF TypeOK, Leave, IdleHandler, HandlerState, Places, Attempts, Statuses

LEMMA GoToType ==
  ASSUME TypeOK, NEW h \in Handlers, NEW p \in Places \ {"idle"}, GoTo(h, p),
         handler[h].at # "idle"
  PROVE  /\ handler' \in [Handlers -> HandlerState]
         /\ \A g \in Handlers : handler'[g].at # "idle" => handler'[g].run \in Runs
  BY DEF TypeOK, GoTo, HandlerState

LEMMA ReleasedType ==
  ASSUME NEW row \in RunRow, NEW s \in Statuses
  PROVE  Released(row, s) \in RunRow
  BY DEF Released, RunRow

LEMMA UpsetType == ASSUME TypeOK, Upset PROVE upsets' \in Nat
  BY DEF TypeOK, Upset

LEMMA NewRunType ==
  ASSUME NEW m \in Messages PROVE NewRun(m) \in RunRow
  BY DEF NewRun, RunRow, Messages, Statuses, ActiveStatuses

LEMMA UserType == TypeOK /\ User => TypeOK'
<1> SUFFICES ASSUME TypeOK, User PROVE TypeOK'
  OBVIOUS
<1>1. CASE SendToBusyBot
  BY <1>1 DEF SendToBusyBot, TypeOK, ActiveRuns, Messages, SteeringRow
<1>2. CASE SendStartsRun
  <2>1. sent + 1 \in Messages
    BY <1>2 DEF SendStartsRun, TypeOK, Messages
  <2>2. run' \in [Runs -> RunRow]
    BY <1>2, <2>1, NewRunType DEF SendStartsRun, TypeOK
  <2> QED
    BY <1>2, <2>2 DEF SendStartsRun, TypeOK
<1>3. ASSUME NEW r \in Runs, AnswerRunInput(r) PROVE TypeOK'
  BY <1>3 DEF AnswerRunInput, TypeOK, RunRow, Statuses, ActiveStatuses
<1>4. CASE AnswerWithMessage
  <2>1. run' \in [Runs -> RunRow]
    BY <1>4 DEF AnswerWithMessage, TypeOK, RunRow, Statuses, ActiveStatuses
  <2> QED
    BY <1>4, <2>1 DEF AnswerWithMessage, TypeOK
<1>5. CASE StopThreadRuns
  <2>1. run' \in [Runs -> RunRow]
    BY <1>5 DEF StopThreadRuns, TypeOK, RunRow, Statuses, TerminalStatuses
  <2>2. steering' \in [Messages -> SteeringRow]
    BY <1>5 DEF StopThreadRuns, NoSteering, SteeringRow
  <2> QED
    BY <1>5, <2>1, <2>2 DEF StopThreadRuns, TypeOK
<1>7. CASE StartTeaching
  <2>1. run' \in [Runs -> RunRow]
    BY <1>7 DEF StartTeaching, TypeOK, RunRow, Statuses, TerminalStatuses
  <2> QED
    BY <1>7, <2>1 DEF StartTeaching, TypeOK
<1>6. CASE ClearThread
  <2>1. ASSUME NEW r \in Runs
        PROVE  /\ [run[r] EXCEPT !.source = 0] \in RunRow
               /\ Released([run[r] EXCEPT !.source = 0], "cancelled") \in RunRow
    <3>1. [run[r] EXCEPT !.source = 0] \in RunRow
      BY DEF TypeOK, RunRow
    <3>2. "cancelled" \in Statuses
      BY DEF Statuses, TerminalStatuses
    <3> QED
      BY <3>1, <3>2, ReleasedType
  <2>4. run' \in [Runs -> RunRow]
    BY <1>6, <2>1 DEF ClearThread
  <2>2. /\ handler' \in [Handlers -> HandlerState]
        /\ \A h \in Handlers : handler'[h].at = handler[h].at /\ handler'[h].run = handler[h].run
    BY <1>6 DEF ClearThread, TypeOK, HandlerState, Attempts
  <2>3. steering' \in [Messages -> SteeringRow]
    BY <1>6 DEF ClearThread, NoSteering, SteeringRow
  <2> QED
    BY <1>6, <2>2, <2>3, <2>4 DEF ClearThread, TypeOK
<1> QED
  BY <1>1, <1>2, <1>3, <1>4, <1>5, <1>6, <1>7 DEF User

LEMMA WorldType == TypeOK /\ World => TypeOK'
<1> SUFFICES ASSUME TypeOK, World PROVE TypeOK'
  OBVIOUS
<1>1. ASSUME NEW w \in Workers, Crash(w) PROVE TypeOK'
  <2>1. jobs' \subseteq Runs
    BY <1>1 DEF Crash, TypeOK
  <2>2. /\ handler' \in [Handlers -> HandlerState]
        /\ \A h \in Handlers : handler'[h].at # "idle" => handler'[h].run \in Runs
    BY <1>1 DEF Crash, TypeOK, IdleHandler, HandlerState, Places, Attempts, Statuses
  <2> QED
    BY <1>1, <2>1, <2>2, UpsetType DEF Crash, TypeOK
<1>2. ASSUME NEW r \in Runs, LeaseLapses(r) PROVE TypeOK'
  <2>1. run' \in [Runs -> RunRow]
    BY <1>2 DEF LeaseLapses, TypeOK, RunRow
  <2>2. upsets' \in Nat
    BY <1>2, UpsetType DEF LeaseLapses, TypeOK
  <2> QED
    BY <1>2, <2>1, <2>2 DEF LeaseLapses, TypeOK
<1>3. ASSUME NEW r \in Runs, LoseWake(r) PROVE TypeOK'
  BY <1>3, UpsetType DEF LoseWake, TypeOK
<1>4. CASE Reconcile
  BY <1>4 DEF Reconcile, TypeOK
<1> QED
  BY <1>1, <1>2, <1>3, <1>4 DEF World

\* What the pieces of Finalize and of a claim are.
LEMMA RowsType ==
  ASSUME TypeOK, NEW h \in Handlers
  PROVE  /\ SettledRows(h) \in [Messages -> SteeringRow]
         /\ UnboundRows(h) \in [Messages -> SteeringRow]
<1>1. \A m \in Messages : [steering[m] EXCEPT !.run = NoRun] \in SteeringRow
  BY DEF TypeOK, SteeringRow
<1>2. NoSteering \in SteeringRow
  BY DEF NoSteering, SteeringRow
<1> QED
  BY <1>1, <1>2 DEF TypeOK, SettledRows, UnboundRows

LEMMA ContinueType ==
  ASSUME TypeOK, NEW ended \in [Runs -> RunRow],
         NEW rows \in [Messages -> SteeringRow], Continue(ended, rows)
  PROVE  /\ run' \in [Runs -> RunRow]
         /\ steering' \in [Messages -> SteeringRow]
         /\ jobs' \subseteq Runs
<1>1. CASE run' = ended /\ steering' = rows /\ UNCHANGED jobs
  BY <1>1 DEF TypeOK
<1>2. ASSUME NEW c \in Runs, NEW last \in Pending(rows),
             run' = [ended EXCEPT ![c] = NewRun(last)],
             steering' = [m \in Messages |->
               IF m \in Pending(rows)
               THEN [live |-> TRUE, run |-> c, claimed |-> FALSE]
               ELSE rows[m]],
             jobs' = jobs \union {c}
      PROVE  /\ run' \in [Runs -> RunRow]
             /\ steering' \in [Messages -> SteeringRow]
             /\ jobs' \subseteq Runs
  <2>1. NewRun(last) \in RunRow
    BY NewRunType DEF Pending
  <2>2. [live |-> TRUE, run |-> c, claimed |-> FALSE] \in SteeringRow
    BY DEF SteeringRow
  <2> QED
    BY <1>2, <2>1, <2>2 DEF TypeOK
<1> QED
  BY <1>1, <1>2 DEF Continue

LEMMA FinalizeType ==
  ASSUME TypeOK, NEW h \in Handlers, handler[h].at # "idle",
         NEW outcome \in Statuses, NEW rows \in [Messages -> SteeringRow],
         Finalize(h, outcome, rows)
  PROVE  TypeOK'
<1> DEFINE ended == [run EXCEPT ![handler[h].run] = Released(@, outcome)]
<1>1. handler[h].run \in Runs
  BY DEF TypeOK
<1>2. ended \in [Runs -> RunRow]
  BY <1>1, ReleasedType DEF TypeOK
<1>3. Continue(ended, rows)
  BY DEF Finalize
<1>4. /\ run' \in [Runs -> RunRow]
      /\ steering' \in [Messages -> SteeringRow]
      /\ jobs' \subseteq Runs
  <2> HIDE DEF ended
  <2> QED
    BY <1>2, <1>3, ContinueType
<1>5. Leave(h) /\ history' = history \union {handler[h].run} /\ UNCHANGED <<sent, upsets>>
  BY DEF Finalize
<1> QED
  BY <1>1, <1>4, <1>5, LeaveType DEF TypeOK

LEMMA CallTypes ==
  ASSUME NEW call \in HandlerState, NEW p \in Places, NEW a \in Attempts,
         NEW t \in SUBSET Messages
  PROVE  /\ [call EXCEPT !.at = p, !.attempt = a] \in HandlerState
         /\ [call EXCEPT !.at = p, !.told = t] \in HandlerState
  BY DEF HandlerState

LEMMA GiveUpType ==
  ASSUME TypeOK, NEW r \in Runs, NEW s \in Statuses,
         run' = [run EXCEPT ![r] = Released(@, s)]
  PROVE  run' \in [Runs -> RunRow]
  BY ReleasedType DEF TypeOK

LEMMA WorkerType ==
  ASSUME TypeOK, NEW h \in Handlers, Worker(h) PROVE TypeOK'
<1> USE DEF Places
<1>0. handler[h].at # "idle" => handler[h].run \in Runs
  BY DEF TypeOK
<1>1. ASSUME NEW r \in Runs, Deliver(h, r) PROVE TypeOK'
  <2>1. /\ handler' \in [Handlers -> HandlerState]
        /\ \A g \in Handlers : handler'[g].at # "idle" => handler'[g].run \in Runs
    <3>1. run[r].status \in Statuses /\ run[r].leaseFence + 1 \in Nat
      BY DEF TypeOK, RunRow
    <3>2. [IdleHandler EXCEPT !.at = "observed", !.run = r,
             !.seen = run[r].status, !.fence = run[r].leaseFence + 1] \in HandlerState
      BY <3>1 DEF IdleHandler, HandlerState, Attempts
    <3> QED
      BY <1>1, <3>2 DEF Deliver, TypeOK, IdleHandler
  <2> QED
    BY <1>1, <2>1 DEF Deliver, TypeOK
<1>2. CASE Claim(h)
  <2>1. CASE Claimable(h)
    <3>1. run' \in [Runs -> RunRow]
      <4>1. /\ run[handler[h].run] \in RunRow
            /\ handler[h].fence \in Nat /\ WorkerOf[h] \in Workers
        BY <1>0, <1>2 DEF Claim, TypeOK, HandlerState
      <4>2. [run[handler[h].run] EXCEPT
               !.status = "leased", !.leaseOwner = WorkerOf[h],
               !.leaseFence = handler[h].fence, !.expired = FALSE] \in RunRow
        BY <4>1 DEF RunRow, Statuses, ActiveStatuses
      <4> QED
        BY <1>2, <2>1, <4>2 DEF Claim, TypeOK
    <3> QED
      BY <1>2, <2>1, <3>1, GoToType DEF Claim, TypeOK
  <2>2. CASE ~ Claimable(h)
    BY <1>2, <2>2, LeaveType DEF Claim, TypeOK
  <2> QED
    BY <2>1, <2>2
<1>3. CASE Start(h)
  <2>1. CASE run' = [run EXCEPT ![handler[h].run].status = "running"] /\ GoTo(h, "started") /\ UNCHANGED jobs
    <3>1. run' \in [Runs -> RunRow]
      BY <2>1 DEF TypeOK, RunRow, Statuses, ActiveStatuses
    <3> QED
      BY <1>3, <2>1, <3>1, GoToType DEF Start, TypeOK
  <2>2. CASE Leave(h) /\ UNCHANGED run
    BY <1>0, <1>3, <2>2, LeaveType DEF Start, TypeOK
  <2> QED
    BY <1>3, <2>1, <2>2 DEF Start
<1>4. CASE CreateAttempt(h)
  <2>1. [handler[h] EXCEPT !.at = "setup", !.attempt = "running"] \in HandlerState
    BY CallTypes DEF TypeOK, Attempts
  <2>2. /\ handler' \in [Handlers -> HandlerState]
        /\ \A g \in Handlers : handler'[g].at # "idle" => handler'[g].run \in Runs
    BY <1>0, <1>4, <2>1 DEF CreateAttempt, TypeOK, HandlerState
  <2> QED
    BY <1>4, <2>2 DEF CreateAttempt, TypeOK
<1>5. CASE ComputerBusy(h)
  <2>1. run' \in [Runs -> RunRow]
    <3>1. "queued" \in Statuses
      BY DEF Statuses, ActiveStatuses
    <3> QED
      BY <1>0, <1>5, <3>1, GiveUpType DEF ComputerBusy, TypeOK
  <2> QED
    BY <1>0, <1>5, <2>1, LeaveType, UpsetType DEF ComputerBusy, TypeOK
<1>6. CASE FailBeforeAttempt(h)
  BY <1>0, <1>6, LeaveType, UpsetType DEF FailBeforeAttempt, TypeOK
<1>7. CASE RequeueAfterSetupError(h)
  <2>1. run' \in [Runs -> RunRow]
    <3>1. "queued" \in Statuses
      BY DEF Statuses, ActiveStatuses
    <3> QED
      BY <1>0, <1>7, <3>1, GiveUpType DEF RequeueAfterSetupError, TypeOK
  <2> QED
    BY <1>7, <2>1, LeaveType, GoToType, UpsetType DEF RequeueAfterSetupError, TypeOK
<1>8. CASE RecordSetupError(h)
  BY <1>0, <1>8, LeaveType DEF RecordSetupError, TypeOK
<1>9. CASE Begin(h)
  BY <1>0, <1>9, LeaveType, GoToType DEF Begin, TypeOK
<1>10. CASE ClaimSteering(h)
  <2>1. CASE Owns(h)
    <3>1. steering' \in [Messages -> SteeringRow]
      <4>1. \A m \in Messages :
              [steering[m] EXCEPT !.run = handler[h].run, !.claimed = TRUE] \in SteeringRow
        BY <1>0, <1>10 DEF ClaimSteering, TypeOK, SteeringRow
      <4>2. steering' = [m \in Messages |->
                 IF m \in Offered(h) /\ ~ steering[m].claimed
                 THEN [steering[m] EXCEPT !.run = handler[h].run, !.claimed = TRUE]
                 ELSE steering[m]]
        BY <1>10, <2>1 DEF ClaimSteering
      <4> QED
        BY <4>1, <4>2 DEF TypeOK
    <3>2. /\ handler' \in [Handlers -> HandlerState]
          /\ \A g \in Handlers : handler'[g].at # "idle" => handler'[g].run \in Runs
      <4>1. Offered(h) \subseteq Messages
        BY DEF Offered
      <4>2. Hearing(h) \in HandlerState
        <5>1. handler[h] \in HandlerState
          BY DEF TypeOK
        <5>2. handler[h].told \union Offered(h) \in SUBSET Messages
          BY <4>1, <5>1 DEF HandlerState
        <5> QED
          BY <5>1, <5>2, CallTypes DEF Attempts, Hearing
      <4>3. Hearing(h).run \in Runs
        BY <1>0, <1>10 DEF TypeOK, HandlerState, ClaimSteering, Hearing
      <4>4. handler' = [handler EXCEPT ![h] = Hearing(h)]
        BY <1>10, <2>1 DEF ClaimSteering
      <4> QED
        BY <4>2, <4>3, <4>4 DEF TypeOK
    <3> QED
      BY <1>10, <3>1, <3>2 DEF ClaimSteering, TypeOK
  <2>2. CASE ~ Owns(h)
    BY <1>10, <2>2, GoToType DEF ClaimSteering, TypeOK
  <2> QED
    BY <2>1, <2>2
<1>11. CASE Publish(h)
  BY <1>0, <1>11, LeaveType DEF Publish, TypeOK
<1>12. CASE RenewLease(h)
  <2>1. run' \in [Runs -> RunRow]
    BY <1>12 DEF RenewLease, TypeOK, RunRow
  <2> QED
    BY <1>12, <2>1 DEF RenewLease, TypeOK
<1>13. CASE NoticeLoss(h)
  BY <1>13, LeaveType DEF NoticeLoss, TypeOK
<1>14. CASE Abandon(h)
  BY <1>14, LeaveType, UpsetType DEF Abandon, TypeOK
<1>15. CASE PauseForInput(h)
  <2>1. run' \in [Runs -> RunRow]
    <3>1. "waiting_input" \in Statuses
      BY DEF Statuses, ActiveStatuses
    <3> QED
      BY <1>0, <1>15, <3>1, GiveUpType DEF PauseForInput
  <2> QED
    BY <1>0, <1>15, <2>1, LeaveType, UpsetType DEF PauseForInput, TypeOK
<1>16. CASE CompleteRun(h) \/ FailRun(h)
  <2>1. {"completed", "failed"} \subseteq Statuses
    BY DEF Statuses, TerminalStatuses
  <2> QED
    BY <1>16, <2>1, RowsType, FinalizeType DEF CompleteRun, FailRun
<1> QED
  BY <1>1, <1>2, <1>3, <1>4, <1>5, <1>6, <1>7, <1>8, <1>9, <1>10, <1>11, <1>12,
     <1>13, <1>14, <1>15, <1>16 DEF Worker, Step

LEMMA NextType == TypeOK /\ [Next]_vars => TypeOK'
<1>1. ASSUME TypeOK, UNCHANGED vars PROVE TypeOK'
  BY <1>1 DEF vars, TypeOK
<1> QED
  BY <1>1, UserType, WorldType, WorkerType DEF Next

\* Every variable keeps its type: the tables, the job queue and the calls under
\* way hold nothing else, for any number of them.
THEOREM TypeCorrect == Spec => []TypeOK
  BY InitTypeOK, NextType, PTL DEF Spec

-----------------------------------------------------------------------------
(* Quiet steps *)

\* No run begins, ends or changes its source.
Quiet ==
  \A r \in Runs :
    /\ run'[r].source = run[r].source
    /\ \/ run'[r].status = run[r].status
       \/ Active(r) /\ run'[r].status \in ActiveStatuses

LEMMA GiveUpQuiet ==
  ASSUME TypeOK, NEW r \in Runs, NEW s \in ActiveStatuses, Active(r),
         run' = [run EXCEPT ![r] = Released(@, s)]
  PROVE  Quiet
<1>1. Released(run[r], s).status = s /\ Released(run[r], s).source = run[r].source
  BY DEF TypeOK, RunRow, Released
<1> QED
  BY <1>1 DEF TypeOK, Quiet

LEMMA OwnsActive ==
  ASSUME NEW h \in Handlers, Owns(h)
  PROVE  Active(handler[h].run) /\ run[handler[h].run].status = "running"
  BY DEF Owns, Active, ActiveStatuses

\* All that a worker does is quiet, except claiming steering and ending a run.
LEMMA QuietWorker ==
  ASSUME TypeOK, NEW h \in Handlers, Worker(h)
  PROVE  \/ Quiet /\ UNCHANGED <<sent, steering>>
         \/ ClaimSteering(h) \/ CompleteRun(h) \/ FailRun(h)
<1>0. handler[h].at # "idle" => handler[h].run \in Runs
  BY DEF TypeOK
<1>1. UNCHANGED run => Quiet
  BY DEF Quiet
<1>2. CASE Claim(h)
  <2>1. CASE Claimable(h)
    <3> DEFINE r == handler[h].run
               row == [run[r] EXCEPT
                  !.status = "leased", !.leaseOwner = WorkerOf[h],
                  !.leaseFence = handler[h].fence, !.expired = FALSE]
    <3>1. Active(r) /\ "leased" \in ActiveStatuses
      BY <2>1 DEF Claimable, Active, ActiveStatuses
    <3>2. r \in Runs /\ row.status = "leased" /\ row.source = run[r].source
      BY <1>0, <1>2 DEF Claim, TypeOK, RunRow
    <3>3. run' = [run EXCEPT ![r] = row]
      BY <1>2, <2>1 DEF Claim
    <3> QED
      BY <1>2, <3>1, <3>2, <3>3 DEF Quiet, TypeOK, Claim
  <2>2. CASE ~ Claimable(h)
    BY <1>1, <1>2, <2>2 DEF Claim
  <2> QED
    BY <2>1, <2>2
<1>3. CASE Start(h)
  <2>1. CASE /\ run[handler[h].run].status = "leased"
             /\ run' = [run EXCEPT ![handler[h].run].status = "running"]
    BY <1>0, <1>3, <2>1 DEF Start, Quiet, TypeOK, RunRow, Active, ActiveStatuses
  <2>2. CASE UNCHANGED run
    BY <1>1, <1>3, <2>2 DEF Start
  <2> QED
    BY <1>3, <2>1, <2>2 DEF Start
<1>4. CASE ComputerBusy(h)
  <2>1. handler[h].run \in Runs /\ "queued" \in ActiveStatuses
    BY <1>0, <1>4 DEF ComputerBusy, ActiveStatuses
  <2> QED
    BY <1>1, <1>4, <2>1, OwnsActive, GiveUpQuiet DEF ComputerBusy
<1>5. CASE RequeueAfterSetupError(h)
  <2>1. handler[h].run \in Runs /\ "queued" \in ActiveStatuses
    BY <1>0, <1>5 DEF RequeueAfterSetupError, ActiveStatuses
  <2> QED
    BY <1>1, <1>5, <2>1, OwnsActive, GiveUpQuiet DEF RequeueAfterSetupError
<1>6. CASE PauseForInput(h)
  <2>1. handler[h].run \in Runs /\ "waiting_input" \in ActiveStatuses
    BY <1>0, <1>6 DEF PauseForInput, ActiveStatuses
  <2> QED
    BY <1>6, <2>1, OwnsActive, GiveUpQuiet DEF PauseForInput
<1>7. CASE RenewLease(h)
  BY <1>7 DEF RenewLease, Quiet, TypeOK, RunRow
<1>8. CASE \E r \in Runs : Deliver(h, r)
  BY <1>1, <1>8 DEF Deliver
<1>9. CASE CreateAttempt(h) \/ FailBeforeAttempt(h) \/ RecordSetupError(h)
  BY <1>1, <1>9 DEF CreateAttempt, FailBeforeAttempt, RecordSetupError
<1>10. CASE Begin(h) \/ Publish(h) \/ NoticeLoss(h) \/ Abandon(h)
  BY <1>1, <1>10 DEF Begin, Publish, NoticeLoss, Abandon
<1> QED
  BY <1>2, <1>3, <1>4, <1>5, <1>6, <1>7, <1>8, <1>9, <1>10 DEF Worker, Step

LEMMA QuietWorld ==
  ASSUME TypeOK, World PROVE Quiet /\ UNCHANGED <<sent, steering>>
<1>1. ASSUME NEW r \in Runs, LeaseLapses(r) PROVE Quiet
  BY <1>1 DEF LeaseLapses, Quiet, TypeOK, RunRow
<1>2. UNCHANGED run => Quiet
  BY DEF Quiet
<1> QED
  BY <1>1, <1>2 DEF World, Crash, LeaseLapses, LoseWake, Reconcile

LEMMA QuietAnswer ==
  ASSUME TypeOK, (\E r \in Runs : AnswerRunInput(r)) \/ AnswerWithMessage
  PROVE  Quiet /\ UNCHANGED steering
  BY DEF AnswerRunInput, AnswerWithMessage, Quiet, TypeOK, RunRow, Active, ActiveStatuses

-----------------------------------------------------------------------------
(* How a run ends *)

\* The end of run r, when nothing is left for another run to take up ...
EndsAlone(r, outcome, rows) ==
  /\ run'[r].status = outcome /\ run'[r].source = run[r].source
  /\ \A s \in Runs \ {r} : run'[s] = run[s]
  /\ steering' = rows
  /\ (\E s \in Runs \ {r} : Active(s)) \/ Pending(rows) = {}

\* ... and when a continuation c is made for what is left.
EndsContinued(r, outcome, rows, c, last) ==
  /\ c # r /\ run[c].status = "absent"
  /\ run'[r].status = outcome /\ run'[r].source = run[r].source
  /\ run'[c].status = "queued" /\ run'[c].source = last
  /\ \A s \in Runs \ {r, c} : run'[s] = run[s]
  /\ \A s \in Runs \ {r} : ~ Active(s)
  /\ steering' = [m \in Messages |->
       IF m \in Pending(rows) THEN [live |-> TRUE, run |-> c, claimed |-> FALSE]
                              ELSE rows[m]]

LEMMA FinalizeShape ==
  ASSUME TypeOK, NEW h \in Handlers, handler[h].at # "idle",
         NEW outcome \in TerminalStatuses, NEW rows, Finalize(h, outcome, rows)
  PROVE  LET r == handler[h].run IN
         /\ r \in Runs /\ run[r].status = "running"
         /\ \/ EndsAlone(r, outcome, rows)
            \/ \E c \in Runs, last \in Pending(rows) :
                  EndsContinued(r, outcome, rows, c, last)
<1> DEFINE r == handler[h].run
           ended == [run EXCEPT ![r] = Released(@, outcome)]
<1>1. r \in Runs /\ run[r].status = "running"
  BY DEF TypeOK, Finalize, Owns
<1>2. /\ ended[r].status = outcome /\ ended[r].source = run[r].source
      /\ \A s \in Runs \ {r} : ended[s] = run[s]
  BY <1>1 DEF TypeOK, RunRow, Released
<1>3. /\ outcome \notin ActiveStatuses /\ outcome # "absent"
  BY DEF ActiveStatuses, TerminalStatuses
<1>4. Continue(ended, rows)
  BY DEF Finalize
<1>5. ended \in [Runs -> {ended[s] : s \in Runs}]
  BY DEF TypeOK
<1> HIDE DEF ended, r
<1>6. ASSUME (\E s \in Runs : ended[s].status \in ActiveStatuses) \/ Pending(rows) = {},
             run' = ended, steering' = rows
      PROVE  EndsAlone(r, outcome, rows)
  BY <1>1, <1>2, <1>3, <1>6 DEF EndsAlone, Active, r
<1>7. ASSUME \A s \in Runs : ended[s].status \notin ActiveStatuses,
             NEW c \in Runs, NEW last \in Pending(rows),
             ended[c].status = "absent",
             run' = [ended EXCEPT ![c] = NewRun(last)],
             steering' = [m \in Messages |->
               IF m \in Pending(rows)
               THEN [live |-> TRUE, run |-> c, claimed |-> FALSE]
               ELSE rows[m]]
      PROVE  EndsContinued(r, outcome, rows, c, last)
  <2>1. c # r
    BY <1>2, <1>3, <1>7
  <2>2. /\ run'[c] = NewRun(last) /\ \A s \in Runs \ {c} : run'[s] = ended[s]
    BY <1>5, <1>7
  <2>3. run'[c].status = "queued" /\ run'[c].source = last
    BY <2>2 DEF NewRun
  <2> QED
    BY <1>1, <1>2, <1>7, <2>1, <2>2, <2>3 DEF EndsContinued, Active
<1>8. \/ EndsAlone(r, outcome, rows)
      \/ \E c \in Runs, last \in Pending(rows) : EndsContinued(r, outcome, rows, c, last)
  <2>1. CASE /\ (\E s \in Runs : ended[s].status \in ActiveStatuses) \/ Pending(rows) = {}
             /\ run' = ended /\ steering' = rows
    BY <1>6, <2>1
  <2>2. ASSUME ~ (/\ (\E s \in Runs : ended[s].status \in ActiveStatuses) \/ Pending(rows) = {}
                  /\ run' = ended /\ steering' = rows)
        PROVE  \E c \in Runs, last \in Pending(rows) :
                 EndsContinued(r, outcome, rows, c, last)
    <3>1. \A s \in Runs : ended[s].status \notin ActiveStatuses
      BY <1>4, <2>2, Zenon DEF Continue
    <3>2. PICK c \in Runs, last \in Pending(rows) :
            /\ ended[c].status = "absent"
            /\ run' = [ended EXCEPT ![c] = NewRun(last)]
            /\ steering' = [m \in Messages |->
                 IF m \in Pending(rows)
                 THEN [live |-> TRUE, run |-> c, claimed |-> FALSE]
                 ELSE rows[m]]
      BY <1>4, <2>2, Zenon DEF Continue
    <3>3. EndsContinued(r, outcome, rows, c, last)
      BY <1>7, <3>1, <3>2
    <3> QED
      BY <3>3
  <2> QED
    BY <2>1, <2>2
<1> QED
  BY <1>1, <1>8 DEF r

\* The two ways a call ends its run, with the rows they leave.
LEMMA EndOfRun ==
  ASSUME TypeOK, NEW h \in Handlers, CompleteRun(h) \/ FailRun(h)
  PROVE  \E outcome \in {"completed", "failed"}, rows \in {SettledRows(h), UnboundRows(h)} :
           /\ outcome = "completed" => rows = SettledRows(h) /\ handler[h].at = "working"
           /\ outcome = "failed" => rows = UnboundRows(h)
           /\ Owns(h) /\ Leave(h) /\ UNCHANGED sent
           /\ history' = history \union {handler[h].run}
           /\ handler[h].run \in Runs /\ run[handler[h].run].status = "running"
           /\ \/ EndsAlone(handler[h].run, outcome, rows)
              \/ \E c \in Runs, last \in Pending(rows) :
                    EndsContinued(handler[h].run, outcome, rows, c, last)
<1>1. {"completed", "failed"} \subseteq TerminalStatuses
  BY DEF TerminalStatuses
<1>2. CASE CompleteRun(h)
  BY <1>1, <1>2, FinalizeShape DEF CompleteRun, Finalize
<1>3. CASE FailRun(h)
  BY <1>1, <1>3, FinalizeShape DEF FailRun, Finalize
<1> QED
  BY <1>2, <1>3

-----------------------------------------------------------------------------
(* What a step may do to the statuses *)

\* A run that is over stays over; a run that becomes active is a new one, and
\* no other is active then, unless the triggers allow it.
StatusStep ==
  \A r \in Runs :
    /\ run[r].status \in TerminalStatuses => run'[r].status = run[r].status
    /\ run[r].status = "absent" => run'[r].status \in {"absent", "queued"}
    /\ run'[r].status \in ActiveStatuses /\ ~ Active(r) =>
         /\ run[r].status = "absent"
         /\ run'[r].source \in Messages
         /\ ParallelRuns \/ \A s \in Runs \ {r} : run'[s].status \notin ActiveStatuses

LEMMA QuietStatusStep == ASSUME TypeOK, Quiet PROVE StatusStep
  BY DEF Quiet, StatusStep, Active, ActiveStatuses, TerminalStatuses

LEMMA UserStatusStep == ASSUME TypeOK, User PROVE StatusStep
<1> USE DEF ActiveStatuses, TerminalStatuses
<1>1. CASE SendToBusyBot
  BY <1>1 DEF SendToBusyBot, StatusStep, Active
<1>2. CASE SendStartsRun
  <2>1. PICK r \in Runs : run[r].status = "absent" /\ run' = [run EXCEPT ![r] = NewRun(sent + 1)]
    BY <1>2, Zenon DEF SendStartsRun
  <2>2. sent + 1 \in Messages
    BY <1>2 DEF SendStartsRun, TypeOK, Messages
  <2>5. ParallelRuns \/ \A s \in Runs : ~ Active(s)
    <3>1. ActiveRuns = {} \/ ParallelRuns
      BY <1>2, Zenon DEF SendStartsRun
    <3>2. ActiveRuns = {} => \A s \in Runs : ~ Active(s)
      BY Zenon DEF ActiveRuns
    <3> QED
      BY <3>1, <3>2, Zenon
  <2>3. run'[r].status = "queued" /\ run'[r].source = sent + 1
    BY <2>1 DEF NewRun, TypeOK
  <2>4. \A s \in Runs \ {r} : run'[s] = run[s]
    BY <2>1 DEF TypeOK
  <2> QED
    <3>1. ParallelRuns \/ \A s \in Runs \ {r} : run'[s].status \notin ActiveStatuses
      BY <2>4, <2>5, Zenon DEF Active
    <3> QED
      BY <2>1, <2>2, <2>3, <2>4, <3>1 DEF StatusStep, Active
<1>3. CASE (\E r \in Runs : AnswerRunInput(r)) \/ AnswerWithMessage
  BY <1>3, QuietAnswer, QuietStatusStep
<1>4. CASE StopThreadRuns \/ StartTeaching
  <2>1. \A r \in Runs : IF Active(r) THEN run'[r].status = "cancelled" ELSE run'[r] = run[r]
    BY <1>4 DEF StopThreadRuns, StartTeaching, TypeOK, RunRow
  <2> QED
    BY <2>1 DEF StatusStep, Active
<1>5. CASE ClearThread
  <2>1. \A r \in Runs : run'[r].status = IF Active(r) THEN "cancelled" ELSE run[r].status
    BY <1>5 DEF ClearThread, Released, TypeOK, RunRow
  <2> QED
    BY <2>1 DEF StatusStep, Active
<1> QED
  BY <1>1, <1>2, <1>3, <1>4, <1>5 DEF User

LEMMA NextStatusStep == ASSUME TypeOK, [Next]_vars PROVE StatusStep
<1>1. CASE UNCHANGED vars
  BY <1>1 DEF vars, StatusStep, Active
<1>2. CASE User
  BY <1>2, UserStatusStep
<1>3. CASE World
  BY <1>3, QuietWorld, QuietStatusStep
<1>4. ASSUME NEW h \in Handlers, Worker(h) PROVE StatusStep
  <2>1. CASE CompleteRun(h) \/ FailRun(h)
    <3>1. PICK outcome \in {"completed", "failed"},
          rows \in {SettledRows(h), UnboundRows(h)} :
            /\ handler[h].run \in Runs /\ run[handler[h].run].status = "running"
            /\ \/ EndsAlone(handler[h].run, outcome, rows)
               \/ \E c \in Runs, last \in Pending(rows) :
                     EndsContinued(handler[h].run, outcome, rows, c, last)
      BY <2>1, EndOfRun
    <3> USE DEF StatusStep, Active, ActiveStatuses, TerminalStatuses
    <3>2. CASE EndsAlone(handler[h].run, outcome, rows)
      BY <3>1, <3>2 DEF EndsAlone
    <3>3. ASSUME NEW c \in Runs, NEW last \in Pending(rows),
                 EndsContinued(handler[h].run, outcome, rows, c, last)
          PROVE  StatusStep
      <4>1. last \in Messages
        BY DEF Pending
      <4> QED
        BY <3>1, <3>3, <4>1 DEF EndsContinued
    <3> QED
      BY <3>1, <3>2, <3>3
  <2>2. CASE ClaimSteering(h)
    BY <2>2 DEF ClaimSteering, StatusStep, Active
  <2> QED
    BY <1>4, <2>1, <2>2, QuietWorker, QuietStatusStep
<1> QED
  BY <1>1, <1>2, <1>3, <1>4 DEF Next

\* A completed, failed or cancelled run stays so, whatever late workers,
\* duplicate jobs and answers do.
THEOREM TerminalRunsAreFinal == Spec => TerminalIsFinal
<1>1. ASSUME TypeOK, [Next]_vars
      PROVE  [\A r \in Runs : run[r].status \in TerminalStatuses
                => run'[r].status = run[r].status]_vars
  BY <1>1, NextStatusStep DEF StatusStep
<1> QED
  BY <1>1, TypeCorrect, PTL DEF Spec, TerminalIsFinal

LEMMA OneActiveRunStep ==
  ASSUME TypeOK, OneActiveRun, [Next]_vars PROVE OneActiveRun'
<1>1. StatusStep
  BY NextStatusStep
<1>2. SUFFICES ASSUME ~ ParallelRuns, NEW r \in Runs, NEW s \in Runs,
                      run'[r].status \in ActiveStatuses,
                      run'[s].status \in ActiveStatuses, r # s
               PROVE  FALSE
  BY DEF OneActiveRun, Active
<1> QED
  BY <1>1, <1>2 DEF OneActiveRun, StatusStep

\* Where no trigger is allowed to run beside a busy bot, a bot never has two
\* active runs: the thread row serializes who finds it idle.
THEOREM OneRunAtATime == Spec => []OneActiveRun
<1>1. Init => OneActiveRun
  BY DEF Init, OneActiveRun, Active, ActiveStatuses
<1> QED
  BY <1>1, OneActiveRunStep, TypeCorrect, PTL DEF Spec

-----------------------------------------------------------------------------
(* Steering is not stranded *)

\* Without parallel runs no row is ever free: the run that ends is the only
\* active one, so its continuation binds what it leaves.
NoFreeRows == ~ ParallelRuns => \A m \in Messages : steering[m].live => steering[m].run # NoRun

SteeringInv == SteeringNotStranded /\ NoFreeRows

LEMMA QuietSteering ==
  ASSUME TypeOK, SteeringInv, Quiet, UNCHANGED steering PROVE SteeringInv'
<1>1. \A r \in Runs : Active(r) => run'[r].status \in ActiveStatuses
  BY DEF Quiet, Active
<1>2. \A r \in Runs : run[r].status \in {"failed", "cancelled"} =>
                        run'[r].status = run[r].status /\ run'[r].source = run[r].source
  BY DEF Quiet, Active, ActiveStatuses
<1>3. ActiveRuns # {} => ActiveRuns' # {}
  BY <1>1 DEF ActiveRuns, Active
<1>4. SteeringNotStranded'
  BY <1>1, <1>2, <1>3 DEF SteeringInv, SteeringNotStranded, Active, TypeOK, SteeringRow
<1>5. NoFreeRows'
  BY DEF SteeringInv, NoFreeRows
<1> QED
  BY <1>4, <1>5 DEF SteeringInv

LEMMA ClaimSteeringInv ==
  ASSUME TypeOK, SteeringInv, NEW h \in Handlers, ClaimSteering(h) PROVE SteeringInv'
<1>1. UNCHANGED run
  BY DEF ClaimSteering
<1>2. CASE Owns(h)
  <2>1. handler[h].run \in Runs /\ Active(handler[h].run)
    BY <1>2, OwnsActive DEF ClaimSteering, TypeOK
  <2>2. \A m \in Messages :
          \/ steering'[m] = steering[m]
          \/ steering'[m].live = steering[m].live /\ steering'[m].run = handler[h].run
    <3>1. \A m \in Messages :
            LET row == [steering[m] EXCEPT !.run = handler[h].run, !.claimed = TRUE]
            IN  row.live = steering[m].live /\ row.run = handler[h].run
      BY DEF TypeOK, SteeringRow
    <3>2. steering' = [m \in Messages |->
             IF m \in Offered(h) /\ ~ steering[m].claimed
             THEN [steering[m] EXCEPT !.run = handler[h].run, !.claimed = TRUE]
             ELSE steering[m]]
      BY <1>2 DEF ClaimSteering
    <3> QED
      BY <3>1, <3>2
  <2>3. SteeringNotStranded'
    BY <1>1, <2>1, <2>2 DEF SteeringInv, SteeringNotStranded, Active, ActiveRuns
  <2>4. NoFreeRows'
    BY <2>1, <2>2 DEF SteeringInv, NoFreeRows
  <2> QED
    BY <2>3, <2>4 DEF SteeringInv
<1>3. CASE ~ Owns(h)
  <2>1. UNCHANGED steering /\ Quiet
    BY <1>1, <1>3 DEF ClaimSteering, Quiet
  <2> QED
    BY <2>1, QuietSteering
<1> QED
  BY <1>2, <1>3

\* What the end of run r does to its rows: they go, are set free, or stay with a
\* failed run that was made for a later message or for the same.
LEMMA EndingRows ==
  ASSUME TypeOK, NEW h \in Handlers, handler[h].run \in Runs, NEW m \in Messages
  PROVE  /\ steering[m].run # handler[h].run =>
              /\ SettledRows(h)[m] = steering[m]
              /\ UnboundRows(h)[m] = steering[m]
         /\ steering[m].run = handler[h].run =>
              /\ SettledRows(h)[m].live => SettledRows(h)[m].run = NoRun
              /\ UnboundRows(h)[m].live => \/ UnboundRows(h)[m].run = NoRun
                                           \/ /\ UnboundRows(h)[m] = steering[m]
                                              /\ m <= run[handler[h].run].source
         /\ SettledRows(h)[m].live \/ UnboundRows(h)[m].live => steering[m].live
<1>1. LET row == [steering[m] EXCEPT !.run = NoRun]
      IN  row.live = steering[m].live /\ row.run = NoRun
  BY DEF TypeOK, SteeringRow
<1>2. SettledRows(h)[m] = IF steering[m].run # handler[h].run THEN steering[m]
                          ELSE IF steering[m].claimed THEN NoSteering
                          ELSE [steering[m] EXCEPT !.run = NoRun]
  BY DEF SettledRows
<1>3. UnboundRows(h)[m] = IF steering[m].run = handler[h].run /\ m > run[handler[h].run].source
                          THEN [steering[m] EXCEPT !.run = NoRun] ELSE steering[m]
  BY DEF UnboundRows
<1>4. run[handler[h].run].source \in Nat /\ m \in Nat
  BY DEF TypeOK, RunRow, Messages
<1> QED
  BY <1>1, <1>2, <1>3, <1>4 DEF NoSteering

LEMMA EndSteering ==
  ASSUME TypeOK, OneActiveRun, SteeringInv, NEW h \in Handlers,
         CompleteRun(h) \/ FailRun(h)
  PROVE  SteeringInv'
<1> DEFINE r == handler[h].run
<1>1. PICK outcome \in {"completed", "failed"}, rows \in {SettledRows(h), UnboundRows(h)} :
           /\ outcome = "completed" => rows = SettledRows(h)
           /\ r \in Runs /\ run[r].status = "running"
           /\ \/ EndsAlone(r, outcome, rows)
              \/ \E c \in Runs, last \in Pending(rows) :
                    EndsContinued(r, outcome, rows, c, last)
  BY EndOfRun
<1>2. \A m \in Messages :
        /\ rows[m].live => steering[m].live
        /\ rows[m].live /\ steering[m].run = r =>
             \/ rows[m].run = NoRun
             \/ rows[m] = steering[m] /\ outcome = "failed" /\ m <= run[r].source
        /\ steering[m].run # r => rows[m] = steering[m]
  BY <1>1, EndingRows
<1> HIDE DEF r
<1>3. r # NoRun /\ "running" \in ActiveStatuses
  BY <1>1 DEF ActiveStatuses
<1>4. \A m \in Messages : steering[m].live =>
        \/ steering[m].run = NoRun
        \/ /\ steering[m].run \in Runs /\ steering[m].run # NoRun
           /\ \/ Active(steering[m].run)
              \/ run[steering[m].run].status = "failed" /\ m <= run[steering[m].run].source
              \/ run[steering[m].run].status = "cancelled"
  BY DEF SteeringInv, SteeringNotStranded, TypeOK, SteeringRow
<1>5. CASE EndsAlone(r, outcome, rows)
  <2>1. /\ run'[r].status = outcome /\ run'[r].source = run[r].source
        /\ \A s \in Runs \ {r} : run'[s] = run[s]
        /\ steering' = rows
    BY <1>5 DEF EndsAlone
  <2>2. \A m \in Messages : rows[m].live /\ rows[m].run = NoRun => ActiveRuns' # {}
    BY <1>1, <1>5, <2>1 DEF EndsAlone, Pending, ActiveRuns, Active
  <2>3. SteeringNotStranded'
    <3>1. SUFFICES ASSUME NEW m \in Messages, rows[m].live, rows[m].run # NoRun
                   PROVE  \/ run'[rows[m].run].status \in ActiveStatuses
                          \/ run'[rows[m].run].status = "failed" /\ m <= run'[rows[m].run].source
                          \/ run'[rows[m].run].status = "cancelled"
      BY <2>1, <2>2 DEF SteeringNotStranded, Active
    <3> QED
      BY <1>1, <1>2, <1>3, <1>4, <2>1, <3>1 DEF Active
  <2>4. NoFreeRows'
    <3>1. ~ ParallelRuns => \A s \in Runs \ {r} : ~ Active(s)
      BY <1>1, <1>3 DEF OneActiveRun, Active
    <3>2. ~ ParallelRuns => Pending(rows) = {}
      BY <1>5, <3>1 DEF EndsAlone
    <3> QED
      BY <2>1, <3>2 DEF NoFreeRows, Pending
  <2> QED
    BY <2>3, <2>4 DEF SteeringInv
<1>6. ASSUME NEW c \in Runs, NEW last \in Pending(rows),
             EndsContinued(r, outcome, rows, c, last)
      PROVE  SteeringInv'
  <2>1. /\ c # r /\ run[c].status = "absent" /\ run'[c].status = "queued"
        /\ run'[r].status = outcome /\ run'[r].source = run[r].source
        /\ \A s \in Runs \ {r, c} : run'[s] = run[s]
    BY <1>6 DEF EndsContinued
  <2>2. /\ \A m \in Pending(rows) : steering'[m].run = c
        /\ \A m \in Messages \ Pending(rows) : steering'[m] = rows[m]
    <3>1. steering' = [m \in Messages |->
            IF m \in Pending(rows) THEN [live |-> TRUE, run |-> c, claimed |-> FALSE]
                                   ELSE rows[m]]
      BY <1>6 DEF EndsContinued
    <3>2. Pending(rows) \subseteq Messages
      BY DEF Pending
    <3> HIDE DEF Pending
    <3> QED
      BY <3>1, <3>2
  <2>3. c # NoRun /\ "queued" \in ActiveStatuses /\ "absent" \notin ActiveStatuses
    BY DEF ActiveStatuses
  <2>4. SteeringNotStranded' /\ NoFreeRows'
    <3>1. SUFFICES ASSUME NEW m \in Messages, steering'[m].live
                   PROVE  /\ steering'[m].run # NoRun
                          /\ \/ run'[steering'[m].run].status \in ActiveStatuses
                             \/ /\ run'[steering'[m].run].status = "failed"
                                /\ m <= run'[steering'[m].run].source
                             \/ run'[steering'[m].run].status = "cancelled"
      BY DEF SteeringNotStranded, NoFreeRows, Active
    <3>2. CASE m \in Pending(rows)
      BY <2>1, <2>2, <2>3, <3>2
    <3>3. CASE m \notin Pending(rows)
      <4>1. steering'[m] = rows[m] /\ rows[m].live /\ rows[m].run # NoRun
        BY <2>2, <3>1, <3>3 DEF Pending
      <4> QED
        BY <1>1, <1>2, <1>3, <1>4, <2>1, <2>3, <4>1 DEF Active
    <3> QED
      BY <3>2, <3>3
  <2> QED
    BY <2>4 DEF SteeringInv
<1> QED
  BY <1>1, <1>5, <1>6

LEMMA UserSteering ==
  ASSUME TypeOK, SteeringInv, ~ (ParallelRuns /\ Teaching), User PROVE SteeringInv'
<1>1. CASE SendToBusyBot
  <2>1. PICK busy \in ActiveRuns : steering' = [steering EXCEPT ![sent + 1] =
                      [live |-> TRUE, run |-> busy, claimed |-> FALSE]]
    BY <1>1 DEF SendToBusyBot
  <2>2. UNCHANGED run /\ sent + 1 \in Messages
    BY <1>1 DEF SendToBusyBot, TypeOK, Messages
  <2>3. /\ steering'[sent + 1].run = busy /\ busy \in Runs /\ busy # NoRun /\ Active(busy)
        /\ \A m \in Messages \ {sent + 1} : steering'[m] = steering[m]
    BY <2>1, <2>2 DEF ActiveRuns, TypeOK
  <2> QED
    BY <2>2, <2>3 DEF SteeringInv, SteeringNotStranded, NoFreeRows, Active, ActiveRuns
<1>2. CASE SendStartsRun
  <2>1. PICK r \in Runs : run[r].status = "absent" /\ run' = [run EXCEPT ![r] = NewRun(sent + 1)]
    BY <1>2, Zenon DEF SendStartsRun
  <2>2. run'[r].status = "queued" /\ \A s \in Runs \ {r} : run'[s] = run[s]
    BY <2>1 DEF NewRun, TypeOK
  <2>3. UNCHANGED steering
    BY <1>2, Zenon DEF SendStartsRun
  <2> QED
    BY <2>1, <2>2, <2>3 DEF SteeringInv, SteeringNotStranded, NoFreeRows, Active, ActiveRuns,
         ActiveStatuses
<1>3. CASE (\E r \in Runs : AnswerRunInput(r)) \/ AnswerWithMessage
  BY <1>3, QuietAnswer, QuietSteering
<1>4. CASE StopThreadRuns \/ ClearThread
  <2>1. \A m \in Messages : ~ steering'[m].live
    BY <1>4 DEF StopThreadRuns, ClearThread, NoSteering
  <2> QED
    BY <2>1 DEF SteeringInv, SteeringNotStranded, NoFreeRows
<1>5. CASE StartTeaching
  <2>1. \A m \in Messages : steering[m].live => steering[m].run \in Runs /\ steering[m].run # NoRun
    <3>1. ~ ParallelRuns
      BY <1>5, Zenon DEF StartTeaching
    <3> QED
      BY <3>1 DEF SteeringInv, NoFreeRows, TypeOK, SteeringRow
  <2>2. UNCHANGED steering
    BY <1>5 DEF StartTeaching
  <2>3. \A r \in Runs : IF Active(r) THEN run'[r].status = "cancelled" ELSE run'[r] = run[r]
    BY <1>5 DEF StartTeaching, TypeOK, RunRow
  <2>4. SteeringNotStranded'
    BY <2>1, <2>2, <2>3 DEF SteeringInv, SteeringNotStranded, Active
  <2>5. NoFreeRows'
    BY <2>1, <2>2 DEF NoFreeRows
  <2> QED
    BY <2>4, <2>5 DEF SteeringInv
<1> QED
  BY <1>1, <1>2, <1>3, <1>4, <1>5 DEF User

LEMMA SteeringStep ==
  ASSUME TypeOK, OneActiveRun, SteeringInv, ~ (ParallelRuns /\ Teaching), [Next]_vars
  PROVE  SteeringInv'
<1>1. CASE UNCHANGED vars
  <2>1. Quiet /\ UNCHANGED steering
    BY <1>1 DEF vars, Quiet
  <2> QED
    BY <2>1, QuietSteering
<1>2. CASE User
  BY <1>2, UserSteering
<1>3. CASE World
  BY <1>3, QuietWorld, QuietSteering
<1>4. ASSUME NEW h \in Handlers, Worker(h) PROVE SteeringInv'
  BY <1>4, QuietWorker, QuietSteering, ClaimSteeringInv, EndSteering
<1> QED
  BY <1>1, <1>2, <1>3, <1>4 DEF Next

LEMMA InitSteering == Init => SteeringInv
  BY DEF Init, SteeringInv, SteeringNotStranded, NoFreeRows, NoSteering

\* No message sent to a busy bot is stranded, as long as teaching sessions are
\* not mixed with triggers that start parallel runs.
THEOREM NoSteeringStranded ==
  ASSUME ~ (ParallelRuns /\ Teaching)
  PROVE  Spec => []SteeringNotStranded
<1>1. SteeringInv => SteeringNotStranded
  BY DEF SteeringInv
<1>2. TypeOK /\ OneActiveRun /\ SteeringInv /\ [Next]_vars => SteeringInv'
  BY SteeringStep
<1> QED
  BY <1>1, <1>2, InitSteering, TypeCorrect, OneRunAtATime, PTL DEF Spec

-----------------------------------------------------------------------------
(* The attempt of the run's owner *)

Attempting == {"setup", "begun", "working"}

\* Only the user's cancelling ends an attempt under its call.
AttemptInv ==
  \A h \in Handlers : handler[h].at \in Attempting =>
    handler[h].attempt = "running" \/ run[handler[h].run].status = "cancelled"

\* How a step may change a call that is in an attempt.
AttemptStep ==
  \A h \in Handlers : handler'[h].at \in Attempting =>
    /\ handler'[h].run = handler[h].run
    /\ \/ handler'[h].attempt = "running"
       \/ handler[h].at \in Attempting /\ handler'[h].attempt = handler[h].attempt
       \/ run'[handler[h].run].status = "cancelled"

LEMMA WorkerAttemptStep ==
  ASSUME TypeOK, NEW h \in Handlers, Worker(h) PROVE AttemptStep
<1> USE DEF Attempting
<1>1. (handler' = handler \/ Leave(h)) => AttemptStep
  BY DEF Leave, IdleHandler, AttemptStep, TypeOK
<1>2. ASSUME NEW p \in {"claimed", "started", "giving_up"}, GoTo(h, p) PROVE AttemptStep
  BY <1>2 DEF GoTo, AttemptStep, TypeOK, HandlerState
<1>3. ASSUME NEW p, GoTo(h, p), handler[h].at \in Attempting PROVE AttemptStep
  BY <1>3 DEF GoTo, AttemptStep, TypeOK, HandlerState
<1>4. ASSUME NEW r \in Runs, Deliver(h, r) PROVE AttemptStep
  <2> DEFINE call == [IdleHandler EXCEPT !.at = "observed", !.run = r,
                        !.seen = run[r].status, !.fence = run[r].leaseFence + 1]
  <2>1. CASE handler' = [handler EXCEPT ![h] = call]
    <3>1. call.at = "observed"
      BY DEF IdleHandler
    <3> HIDE DEF call
    <3> QED
      BY <2>1, <3>1 DEF AttemptStep, TypeOK
  <2> QED
    BY <1>1, <1>4, <2>1 DEF Deliver
<1>5. CASE Claim(h)
  BY <1>1, <1>2, <1>5 DEF Claim
<1>6. CASE Start(h)
  BY <1>1, <1>2, <1>6 DEF Start
<1>7. CASE CreateAttempt(h)
  <2>1. handler' = [handler EXCEPT ![h] = [handler[h] EXCEPT !.at = "setup", !.attempt = "running"]]
    BY <1>7 DEF CreateAttempt
  <2>2. [handler[h] EXCEPT !.at = "setup", !.attempt = "running"].attempt = "running"
        /\ [handler[h] EXCEPT !.at = "setup", !.attempt = "running"].run = handler[h].run
    BY DEF TypeOK, HandlerState
  <2> QED
    BY <2>1, <2>2 DEF AttemptStep, TypeOK
<1>8. CASE ComputerBusy(h) \/ FailBeforeAttempt(h) \/ RecordSetupError(h) \/ NoticeLoss(h)
  BY <1>1, <1>8 DEF ComputerBusy, FailBeforeAttempt, RecordSetupError, NoticeLoss
<1>9. CASE RequeueAfterSetupError(h)
  BY <1>1, <1>2, <1>9 DEF RequeueAfterSetupError
<1>10. CASE Begin(h)
  BY <1>1, <1>3, <1>10 DEF Begin
<1>11. CASE ClaimSteering(h)
  <2>1. CASE Owns(h)
    <3>1. handler' = [handler EXCEPT ![h] = Hearing(h)] /\ handler[h].at \in Attempting
      BY <1>11, <2>1 DEF ClaimSteering
    <3>2. Hearing(h).attempt = handler[h].attempt /\ Hearing(h).run = handler[h].run
      BY DEF Hearing, TypeOK, HandlerState
    <3> QED
      BY <3>1, <3>2 DEF AttemptStep, TypeOK
  <2> QED
    BY <1>3, <1>11, <2>1 DEF ClaimSteering
<1>12. CASE Publish(h) \/ RenewLease(h) \/ Abandon(h) \/ PauseForInput(h)
  BY <1>1, <1>12 DEF Publish, RenewLease, Abandon, PauseForInput
<1>13. CASE CompleteRun(h) \/ FailRun(h)
  BY <1>1, <1>13 DEF CompleteRun, FailRun, Finalize
<1> QED
  BY <1>4, <1>5, <1>6, <1>7, <1>8, <1>9, <1>10, <1>11, <1>12, <1>13 DEF Worker, Step

LEMMA OtherAttemptStep ==
  ASSUME TypeOK, User \/ World \/ UNCHANGED vars PROVE AttemptStep
<1> USE DEF Attempting
<1>1. UNCHANGED handler => AttemptStep
  BY DEF AttemptStep
<1>2. CASE ClearThread
  <2>1. ASSUME NEW h \in Handlers, handler'[h].at \in Attempting
        PROVE  /\ handler'[h].run = handler[h].run /\ handler[h].at \in Attempting
               /\ \/ handler'[h].attempt = handler[h].attempt
                  \/ handler[h].run \in Runs /\ Active(handler[h].run)
    BY <1>2, <2>1 DEF ClearThread, TypeOK, HandlerState
  <2>2. \A r \in Runs : Active(r) => run'[r].status = "cancelled"
    BY <1>2 DEF ClearThread, Released, TypeOK, RunRow
  <2> QED
    BY <2>1, <2>2 DEF AttemptStep
<1>3. ASSUME NEW w \in Workers, Crash(w) PROVE AttemptStep
  BY <1>3 DEF Crash, IdleHandler, AttemptStep, TypeOK
<1> QED
  BY <1>1, <1>2, <1>3 DEF User, World, SendToBusyBot, SendStartsRun, AnswerRunInput,
       AnswerWithMessage, StopThreadRuns, StartTeaching, LeaseLapses, LoseWake,
       Reconcile, vars

LEMMA AttemptInvStep == TypeOK /\ AttemptInv /\ [Next]_vars => AttemptInv'
<1> SUFFICES ASSUME TypeOK, AttemptInv, [Next]_vars PROVE AttemptInv'
  OBVIOUS
<1>1. AttemptStep
  BY WorkerAttemptStep, OtherAttemptStep DEF Next
<1>2. StatusStep
  BY NextStatusStep
<1> QED
  BY <1>1, <1>2 DEF AttemptInv, AttemptStep, StatusStep, TypeOK, Attempting, TerminalStatuses

\* A call that still owns its run in an attempt has a running attempt row, so
\* that finalizeRun and pauseRunForInput never fail for want of one.
THEOREM AttemptAvailable == Spec => []OwnerHasRunningAttempt
<1>1. Init => AttemptInv
  BY DEF Init, AttemptInv, IdleHandler, Attempting
<1>2. AttemptInv => OwnerHasRunningAttempt
  BY DEF AttemptInv, OwnerHasRunningAttempt, Owns, Attempting
<1> QED
  BY <1>1, <1>2, AttemptInvStep, TypeCorrect, PTL DEF Spec

-----------------------------------------------------------------------------
(* A cleared thread stays clear *)

ActiveHasSource == \A r \in Runs : Active(r) => run[r].source # 0

ClearedInv == ClearedStaysClear /\ ActiveHasSource

\* Only clearing the thread takes the source from a run, and only what is not
\* cancelled writes.
WriteStep ==
  /\ \A r \in Runs : run[r].status # "absent" => run'[r].source = run[r].source
  /\ \A r \in history' \ history : run'[r].status # "cancelled"

LEMMA WorkerWriteStep ==
  ASSUME TypeOK, NEW h \in Handlers, Worker(h) PROVE WriteStep
<1>1. \A r \in Runs : run[r].status # "absent" => run'[r].source = run[r].source
  <2>1. CASE CompleteRun(h) \/ FailRun(h)
    <3>1. PICK outcome \in {"completed", "failed"},
          rows \in {SettledRows(h), UnboundRows(h)} :
            \/ EndsAlone(handler[h].run, outcome, rows)
            \/ \E c \in Runs, last \in Pending(rows) :
                  EndsContinued(handler[h].run, outcome, rows, c, last)
      BY <2>1, EndOfRun
    <3> QED
      BY <3>1 DEF EndsAlone, EndsContinued
  <2>2. CASE ClaimSteering(h)
    BY <2>2 DEF ClaimSteering
  <2> QED
    BY <2>1, <2>2, QuietWorker DEF Quiet
<1>2. \A r \in history' \ history : run'[r].status # "cancelled"
  <2>1. CASE Begin(h) \/ Publish(h)
    BY <2>1 DEF Begin, Publish, CanWriteHistory
  <2>2. CASE RecordSetupError(h)
    BY <2>2 DEF RecordSetupError, CanWriteHistory
  <2>3. CASE PauseForInput(h)
    <3>1. handler[h].run \in Runs
      BY <2>3 DEF PauseForInput, TypeOK
    <3> QED
      BY <2>3, <3>1 DEF PauseForInput, Released, TypeOK, RunRow
  <2>4. CASE CompleteRun(h) \/ FailRun(h)
    <3>1. PICK outcome \in {"completed", "failed"},
          rows \in {SettledRows(h), UnboundRows(h)} :
            /\ history' = history \union {handler[h].run}
            /\ \/ EndsAlone(handler[h].run, outcome, rows)
               \/ \E c \in Runs, last \in Pending(rows) :
                     EndsContinued(handler[h].run, outcome, rows, c, last)
      BY <2>4, EndOfRun
    <3> QED
      BY <3>1 DEF EndsAlone, EndsContinued
  <2>5. CASE UNCHANGED history
    BY <2>5
  <2> QED
    BY <2>1, <2>2, <2>3, <2>4, <2>5 DEF Worker, Step, Deliver, Claim, Start,
       CreateAttempt, ComputerBusy, FailBeforeAttempt, RequeueAfterSetupError,
       ClaimSteering, RenewLease, NoticeLoss, Abandon
<1> QED
  BY <1>1, <1>2 DEF WriteStep

LEMMA UserWriteStep ==
  ASSUME TypeOK, User, ~ ClearThread PROVE WriteStep
<1>1. UNCHANGED history
  BY DEF User, SendToBusyBot, SendStartsRun, AnswerRunInput, AnswerWithMessage,
         StopThreadRuns, StartTeaching
<1>2. \A r \in Runs : run[r].status # "absent" => run'[r].source = run[r].source
  <2>1. CASE SendToBusyBot
    BY <2>1 DEF SendToBusyBot
  <2>2. CASE SendStartsRun
    <3>1. PICK r \in Runs : run[r].status = "absent" /\ run' = [run EXCEPT ![r] = NewRun(sent + 1)]
      BY <2>2, Zenon DEF SendStartsRun
    <3> QED
      BY <3>1 DEF TypeOK
  <2>3. CASE (\E r \in Runs : AnswerRunInput(r)) \/ AnswerWithMessage
    BY <2>3, QuietAnswer DEF Quiet
  <2>4. CASE StopThreadRuns \/ StartTeaching
    BY <2>4 DEF StopThreadRuns, StartTeaching, TypeOK, RunRow
  <2> QED
    BY <2>1, <2>2, <2>3, <2>4 DEF User
<1> QED
  BY <1>1, <1>2 DEF WriteStep

LEMMA ClearedStep == TypeOK /\ ClearedInv /\ [Next]_vars => ClearedInv'
<1> SUFFICES ASSUME TypeOK, ClearedInv, [Next]_vars PROVE ClearedInv'
  OBVIOUS
<1>1. StatusStep
  BY NextStatusStep
<1>2. CASE ClearThread
  <2>1. history' = {}
    BY <1>2 DEF ClearThread
  <2>2. \A r \in Runs : run'[r].status \notin ActiveStatuses
    BY <1>2 DEF ClearThread, Released, TypeOK, RunRow, Active, ActiveStatuses
  <2> QED
    BY <2>1, <2>2 DEF ClearedInv, ClearedStaysClear, ActiveHasSource, Active
<1>3. CASE WriteStep
  <2>1. \A r \in Runs : run[r].status \in Statuses
    BY DEF TypeOK, RunRow
  <2>2. ClearedStaysClear'
    <3> SUFFICES ASSUME NEW r \in history', run'[r].status = "cancelled", run'[r].source = 0
                 PROVE  FALSE
      BY DEF ClearedStaysClear
    <3>1. r \in history /\ r \in Runs
      BY <1>3 DEF WriteStep, TypeOK
    <3>2. Active(r) \/ run[r].status = "cancelled"
      BY <1>1, <2>1, <3>1 DEF StatusStep, Statuses, Active, TerminalStatuses
    <3>3. run[r].source = 0
      BY <1>3, <3>1, <3>2 DEF WriteStep, Active, ActiveStatuses
    <3> QED
      BY <3>1, <3>2, <3>3 DEF ClearedInv, ClearedStaysClear, ActiveHasSource
  <2>3. ActiveHasSource'
    BY <1>1, <1>3 DEF StatusStep, WriteStep, ClearedInv, ActiveHasSource, Active,
       ActiveStatuses, Messages
  <2> QED
    BY <2>2, <2>3 DEF ClearedInv
<1>4. CASE UNCHANGED vars \/ World
  <2>1. UNCHANGED history
    BY <1>4 DEF vars, World, Crash, LeaseLapses, LoseWake, Reconcile
  <2>2. \A r \in Runs : run'[r].source = run[r].source
    BY <1>4, QuietWorld DEF vars, Quiet
  <2> QED
    BY <1>3, <2>1, <2>2 DEF WriteStep
<1> QED
  BY <1>2, <1>3, <1>4, WorkerWriteStep, UserWriteStep DEF Next

\* The output of a run that clearing the thread cancelled does not appear in the
\* emptied thread, however late its worker writes.
THEOREM ClearedThreadsStayClear == Spec => []ClearedStaysClear
<1>1. Init => ClearedInv
  BY DEF Init, ClearedInv, ClearedStaysClear, ActiveHasSource, Active, ActiveStatuses
<1>2. ClearedInv => ClearedStaysClear
  BY DEF ClearedInv
<1> QED
  BY <1>1, <1>2, ClearedStep, TypeCorrect, PTL DEF Spec

-----------------------------------------------------------------------------
(* The mailbox *)

Busy == ActiveRuns # {}

\* What a message in the inbox is.
LEMMA InboxMember ==
  ASSUME NEW m \in Messages
  PROVE  m \in Inbox <=>
           \/ \E r \in Runs : Active(r) /\ run[r].source = m
           \/ steering[m].live /\ (steering[m].run = NoRun \/ Active(steering[m].run))
  BY DEF Inbox

\* A step that keeps the active runs, their sources and the rows' bindings.
LEMMA SameInbox ==
  ASSUME \A r \in Runs : (Active(r) <=> run'[r].status \in ActiveStatuses) /\ (Active(r) => run'[r].source = run[r].source),
         \A m \in Messages : steering'[m].live = steering[m].live
                             /\ steering'[m].run = steering[m].run,
         \A m \in Messages : steering[m].live => steering[m].run \in Runs \union {NoRun}
  PROVE  Inbox' = Inbox /\ Busy' = Busy
<1>1. ActiveRuns' = ActiveRuns
  BY DEF ActiveRuns, Active
<1>2. \A m \in Messages :
        (\E r \in Runs : Active(r) /\ run[r].source = m)
          <=> (\E r \in Runs : run'[r].status \in ActiveStatuses /\ run'[r].source = m)
  OBVIOUS
<1>3. \A m \in Messages :
        (steering[m].live /\ (steering[m].run = NoRun \/ Active(steering[m].run)))
          <=> (steering'[m].live /\ (steering'[m].run = NoRun \/ run'[steering'[m].run].status \in ActiveStatuses))
  <2> SUFFICES ASSUME NEW m \in Messages, steering[m].live
               PROVE  (steering[m].run = NoRun \/ Active(steering[m].run))
                        <=> (steering'[m].run = NoRun \/ run'[steering'[m].run].status \in ActiveStatuses)
    OBVIOUS
  <2>1. CASE steering[m].run = NoRun
    BY <2>1
  <2>2. CASE steering[m].run \in Runs
    <3>1. steering'[m].run = steering[m].run
      OBVIOUS
    <3>2. Active(steering[m].run) <=> run'[steering[m].run].status \in ActiveStatuses
      BY <2>2
    <3> QED
      BY <3>1, <3>2
  <2> QED
    BY <2>1, <2>2
<1> QED
  BY <1>1, <1>2, <1>3 DEF Inbox, Busy, Active

LEMMA QuietActive ==
  ASSUME TypeOK, Quiet
  PROVE  \A r \in Runs : (Active(r) <=> run'[r].status \in ActiveStatuses) /\ run'[r].source = run[r].source
  BY DEF Quiet, Active

LEMMA RowsBound ==
  ASSUME TypeOK
  PROVE  \A m \in Messages : steering[m].run \in Runs \union {NoRun}
  BY DEF TypeOK, SteeringRow

LEMMA QuietInbox ==
  ASSUME TypeOK, Quiet, UNCHANGED steering
  PROVE  Inbox' = Inbox /\ Busy' = Busy
<1>1. \A r \in Runs : (Active(r) <=> run'[r].status \in ActiveStatuses) /\ run'[r].source = run[r].source
  BY QuietActive
<1>2. \A m \in Messages : steering'[m].live = steering[m].live /\ steering'[m].run = steering[m].run
  OBVIOUS
<1> QED
  BY <1>1, <1>2, RowsBound, SameInbox

-----------------------------------------------------------------------------
(* What each step is to the mailbox *)

LEMMA Stutter ==
  ASSUME Inbox' = Inbox, Busy' = Busy, UNCHANGED sent
  PROVE  [Mailbox!Next]_(Mailbox!mailVars)
  BY DEF Mailbox!mailVars, Busy

\* Nothing is left in the inbox and the bot rests.
LEMMA EmptyInbox ==
  ASSUME TypeOK, \A r \in Runs : run'[r].status \notin ActiveStatuses,
         \A m \in Messages : steering'[m].live =>
            steering'[m].run \in Runs /\ steering'[m].run # NoRun,
         UNCHANGED sent
  PROVE  /\ Inbox' = {} /\ ~ Busy'
         /\ Busy => Mailbox!Settle
<1>1. Inbox' = {} /\ ~ Busy'
  BY DEF Inbox, Busy, ActiveRuns, Active
<1> QED
  BY <1>1 DEF Mailbox!Settle, Busy

LEMMA ClaimSteeringIsStutter ==
  ASSUME TypeOK, NEW h \in Handlers, ClaimSteering(h)
  PROVE  [Mailbox!Next]_(Mailbox!mailVars)
<1>1. UNCHANGED <<run, sent>>
  BY DEF ClaimSteering
<1>2. CASE Owns(h)
  <2>1. handler[h].run \in Runs /\ Active(handler[h].run)
    BY <1>2, OwnsActive DEF ClaimSteering, TypeOK
  <2>2. \A m \in Messages :
          \/ steering'[m] = steering[m]
          \/ /\ steering'[m].live = steering[m].live /\ steering'[m].run = handler[h].run
             /\ steering[m].run \in {NoRun, handler[h].run}
    <3>1. \A m \in Messages :
            LET row == [steering[m] EXCEPT !.run = handler[h].run, !.claimed = TRUE]
            IN  row.live = steering[m].live /\ row.run = handler[h].run
      BY DEF TypeOK, SteeringRow
    <3>2. steering' = [m \in Messages |->
             IF m \in Offered(h) /\ ~ steering[m].claimed
             THEN [steering[m] EXCEPT !.run = handler[h].run, !.claimed = TRUE]
             ELSE steering[m]]
      BY <1>2 DEF ClaimSteering
    <3> QED
      BY <3>1, <3>2 DEF Offered
  <2>3. Inbox' = Inbox
    BY <1>1, <2>1, <2>2 DEF Inbox, Active
  <2>4. Busy' = Busy
    BY <1>1 DEF Busy, ActiveRuns, Active
  <2> QED
    BY <1>1, <2>3, <2>4, Stutter
<1>3. CASE ~ Owns(h)
  <2>1. UNCHANGED steering /\ Quiet
    BY <1>1, <1>3 DEF ClaimSteering, Quiet
  <2> QED
    BY <1>1, <2>1, QuietInbox, Stutter
<1> QED
  BY <1>2, <1>3

LEMMA EndIsSettle ==
  ASSUME TypeOK, SteeringInv, NEW h \in Handlers, CompleteRun(h) \/ FailRun(h)
  PROVE  Mailbox!Next
<1> DEFINE r == handler[h].run
<1>1. PICK outcome \in {"completed", "failed"}, rows \in {SettledRows(h), UnboundRows(h)} :
           /\ UNCHANGED sent
           /\ r \in Runs /\ run[r].status = "running"
           /\ \/ EndsAlone(r, outcome, rows)
              \/ \E c \in Runs, last \in Pending(rows) :
                    EndsContinued(r, outcome, rows, c, last)
  BY EndOfRun
<1>2. \A m \in Messages :
        /\ rows[m].live => steering[m].live
        /\ rows[m].live /\ steering[m].run = r => rows[m].run \in {NoRun, r}
        /\ steering[m].run # r => rows[m] = steering[m]
  BY <1>1, EndingRows
<1> HIDE DEF r
<1>3. r # NoRun /\ Active(r) /\ outcome \notin ActiveStatuses
  BY <1>1 DEF Active, ActiveStatuses
<1>4. \A m \in Messages : steering[m].live =>
        steering[m].run = NoRun \/ run[steering[m].run].status # "absent"
  BY DEF SteeringInv, SteeringNotStranded, Active, ActiveStatuses
<1>5. \A m \in Pending(rows) : m \in Inbox
  <2> SUFFICES ASSUME NEW m \in Pending(rows) PROVE m \in Inbox
    OBVIOUS
  <2>1. m \in Messages /\ rows[m].live /\ rows[m].run = NoRun
    BY DEF Pending
  <2>2. steering[m].live /\ steering[m].run \in {NoRun, r}
    BY <1>2, <2>1
  <2> QED
    BY <1>3, <2>1, <2>2, InboxMember
<1>6. CASE EndsAlone(r, outcome, rows)
  <2>1. /\ run'[r].status = outcome
        /\ \A s \in Runs \ {r} : run'[s] = run[s]
        /\ steering' = rows
        /\ (\E s \in Runs \ {r} : Active(s)) \/ Pending(rows) = {}
    BY <1>6 DEF EndsAlone
  <2>2. \A s \in Runs : run'[s].status \in ActiveStatuses => run'[s] = run[s] /\ Active(s)
    BY <1>3, <2>1 DEF Active
  <2>3. ASSUME NEW m \in Inbox' PROVE m \in Inbox /\ Busy'
    <3>1. m \in Messages
      BY DEF Inbox
    <3>2. CASE \E s \in Runs : run'[s].status \in ActiveStatuses /\ run'[s].source = m
      BY <2>2, <3>1, <3>2, InboxMember DEF Busy, ActiveRuns, Active
    <3>3. CASE rows[m].live /\ rows[m].run = NoRun
      <4>1. m \in Pending(rows)
        BY <3>1, <3>3 DEF Pending
      <4> QED
        BY <1>3, <1>5, <2>1, <4>1 DEF Busy, ActiveRuns, Active
    <3>4. CASE rows[m].live /\ rows[m].run # NoRun /\ run'[rows[m].run].status \in ActiveStatuses
      <4>1. rows[m].run # r
        BY <1>3, <2>1, <3>4
      <4>2. rows[m] = steering[m]
        BY <1>2, <3>1, <3>4, <4>1
      <4>3. steering[m].run \in Runs
        BY <3>1, <3>4, <4>2, RowsBound
      <4> QED
        BY <2>2, <3>1, <3>4, <4>2, <4>3, InboxMember DEF Busy, ActiveRuns, Active
    <3> QED
      BY <2>1, <3>2, <3>3, <3>4 DEF Inbox, Active
  <2>4. Inbox' \subseteq Inbox /\ (Inbox' # {} => Busy')
    BY <2>3
  <2>5. Busy
    BY <1>1, <1>3 DEF Busy, ActiveRuns
  <2> QED
    BY <1>1, <2>4, <2>5 DEF Mailbox!Next, Mailbox!Settle, Busy
<1>7. ASSUME NEW c \in Runs, NEW last \in Pending(rows),
             EndsContinued(r, outcome, rows, c, last)
      PROVE  Mailbox!Next
  <2>1. /\ c # r /\ run[c].status = "absent"
        /\ run'[c].status = "queued" /\ run'[c].source = last
        /\ run'[r].status = outcome
        /\ \A s \in Runs \ {r, c} : run'[s] = run[s]
        /\ \A s \in Runs \ {r} : ~ Active(s)
    BY <1>7 DEF EndsContinued
  <2>2. \A m \in Messages \ Pending(rows) : steering'[m] = rows[m]
    <3>1. steering' = [m \in Messages |->
            IF m \in Pending(rows) THEN [live |-> TRUE, run |-> c, claimed |-> FALSE]
                                   ELSE rows[m]]
      BY <1>7 DEF EndsContinued
    <3> QED
      BY <3>1
  <2>3. \A s \in Runs : run'[s].status \in ActiveStatuses => s = c
    BY <1>3, <2>1 DEF Active
  <2>4. ASSUME NEW m \in Inbox', m \notin Pending(rows) PROVE FALSE
    <3>1. m \in Messages /\ steering'[m] = rows[m]
      BY <2>2, <2>4 DEF Inbox
    <3>2. ~ (rows[m].live /\ rows[m].run = NoRun)
      BY <2>4, <3>1 DEF Pending
    <3>3. ~ \E s \in Runs : run'[s].status \in ActiveStatuses /\ run'[s].source = m
      BY <2>1, <2>3, <2>4
    <3>4. rows[m].live /\ rows[m].run # NoRun /\ run'[rows[m].run].status \in ActiveStatuses
      BY <3>1, <3>2, <3>3 DEF Inbox, Active
    <3>5. rows[m].run # r
      BY <1>3, <2>1, <3>4
    <3>6. rows[m] = steering[m] /\ steering[m].live
      BY <1>2, <3>1, <3>4, <3>5
    <3>7. steering[m].run = c
      BY <2>3, <3>1, <3>4, <3>6, RowsBound
    <3> QED
      BY <1>4, <2>1, <3>1, <3>4, <3>6, <3>7
  <2>5. Inbox' \subseteq Inbox
    BY <1>5, <2>4
  <2>6. Busy /\ Busy'
    BY <1>1, <1>3, <2>1 DEF Busy, ActiveRuns, Active, ActiveStatuses
  <2> QED
    BY <1>1, <2>5, <2>6 DEF Mailbox!Next, Mailbox!Settle, Busy
<1> QED
  BY <1>1, <1>6, <1>7

LEMMA SendToBusyBotIsAccept ==
  ASSUME TypeOK, SendToBusyBot PROVE Mailbox!Next
<1>1. PICK busy \in ActiveRuns : steering' = [steering EXCEPT ![sent + 1] =
                      [live |-> TRUE, run |-> busy, claimed |-> FALSE]]
  BY DEF SendToBusyBot
<1>2. UNCHANGED run /\ sent < MaxMessages /\ sent' = sent + 1 /\ sent + 1 \in Messages
  BY DEF SendToBusyBot, TypeOK, Messages
<1>3. /\ steering'[sent + 1].live /\ steering'[sent + 1].run = busy
      /\ \A m \in Messages \ {sent + 1} : steering'[m] = steering[m]
  BY <1>1, <1>2 DEF TypeOK
<1>4. Active(busy) /\ Busy /\ Busy' = Busy
  BY <1>1, <1>2 DEF ActiveRuns, Active, Busy
<1>5. Inbox' = Inbox \union {sent'}
  <2>1. sent + 1 \in Inbox'
    BY <1>2, <1>3, <1>4 DEF Inbox, Active
  <2>2. \A m \in Messages \ {sent + 1} : m \in Inbox' <=> m \in Inbox
    BY <1>2, <1>3 DEF Inbox, Active
  <2>3. Inbox \subseteq Messages /\ Inbox' \subseteq Messages
    BY DEF Inbox
  <2> QED
    BY <1>2, <2>1, <2>2, <2>3
<1> QED
  BY <1>2, <1>4, <1>5 DEF Mailbox!Next, Mailbox!Accept, Busy

LEMMA SendStartsRunIsAccept ==
  ASSUME TypeOK, SteeringInv, SendStartsRun PROVE Mailbox!Next
<1>1. PICK c \in Runs : run[c].status = "absent" /\ run' = [run EXCEPT ![c] = NewRun(sent + 1)]
  BY Zenon DEF SendStartsRun
<1>2. sent < MaxMessages /\ sent' = sent + 1 /\ UNCHANGED steering
  BY Zenon DEF SendStartsRun
<1>3. /\ run'[c].status = "queued" /\ run'[c].source = sent + 1
      /\ \A s \in Runs \ {c} : run'[s] = run[s]
  BY <1>1 DEF NewRun, TypeOK
<1>4. sent + 1 \in Messages
  BY <1>2 DEF TypeOK, Messages
<1>5. \A m \in Messages : steering[m].live => steering[m].run # c
  BY <1>1 DEF SteeringInv, SteeringNotStranded, Active, ActiveStatuses, TypeOK, SteeringRow
<1>6. "queued" \in ActiveStatuses /\ "absent" \notin ActiveStatuses
  BY DEF ActiveStatuses
<1>7. Inbox' = Inbox \union {sent'}
  <2>1. sent + 1 \in Inbox'
    BY <1>3, <1>4, <1>6 DEF Inbox, Active
  <2>2. ASSUME NEW m \in Messages \ {sent + 1} PROVE m \in Inbox' <=> m \in Inbox
    <3>1. (\E r \in Runs : run'[r].status \in ActiveStatuses /\ run'[r].source = m)
            <=> (\E r \in Runs : Active(r) /\ run[r].source = m)
      BY <1>1, <1>3, <1>6 DEF Active
    <3>2. steering[m].live /\ steering[m].run # NoRun
            => (run'[steering[m].run].status \in ActiveStatuses <=> Active(steering[m].run))
      BY <1>3, <1>5, RowsBound DEF Active
    <3> QED
      BY <1>2, <3>1, <3>2 DEF Inbox, Active
  <2>3. Inbox \subseteq Messages /\ Inbox' \subseteq Messages
    BY DEF Inbox
  <2> QED
    BY <1>2, <2>1, <2>2, <2>3
<1>8. Busy'
  BY <1>3, <1>6 DEF Busy, ActiveRuns, Active
<1> QED
  BY <1>2, <1>7, <1>8 DEF Mailbox!Next, Mailbox!Accept, Busy

LEMMA AnswerWithMessageIsAcceptAnswer ==
  ASSUME TypeOK, AnswerWithMessage PROVE Mailbox!Next
<1>1. Inbox' = Inbox /\ Busy' = Busy
  BY QuietAnswer, QuietInbox
<1>2. Busy
  BY DEF AnswerWithMessage, Busy, ActiveRuns, Active, ActiveStatuses
<1>3. sent < MaxMessages /\ sent' = sent + 1
  BY DEF AnswerWithMessage
<1> QED
  BY <1>1, <1>2, <1>3 DEF Mailbox!Next, Mailbox!AcceptAnswer, Busy

LEMMA CancelIsSettle ==
  ASSUME TypeOK, SteeringInv, ~ (ParallelRuns /\ Teaching),
         StopThreadRuns \/ StartTeaching \/ ClearThread
  PROVE  [Mailbox!Next]_(Mailbox!mailVars)
<1>1. \A r \in Runs : run'[r].status \notin ActiveStatuses
  <2>1. CASE StopThreadRuns \/ StartTeaching
    <3>1. \A r \in Runs : run'[r].status = IF Active(r) THEN "cancelled" ELSE run[r].status
      BY <2>1 DEF StopThreadRuns, StartTeaching, TypeOK, RunRow
    <3> QED
      BY <3>1 DEF Active, ActiveStatuses
  <2>2. CASE ClearThread
    <3>1. \A r \in Runs : run'[r].status = IF Active(r) THEN "cancelled" ELSE run[r].status
      <4>1. run' = [r \in Runs |->
                      LET row == [run[r] EXCEPT !.source = 0]
                      IN  IF Active(r) THEN Released(row, "cancelled") ELSE row]
        BY <2>2 DEF ClearThread
      <4> QED
        BY <4>1 DEF Released, TypeOK, RunRow
    <3> QED
      BY <3>1 DEF Active, ActiveStatuses
  <2> QED
    BY <2>1, <2>2
<1>2. \A m \in Messages : steering'[m].live =>
            steering'[m].run \in Runs /\ steering'[m].run # NoRun
  <2>1. CASE StopThreadRuns \/ ClearThread
    BY <2>1 DEF StopThreadRuns, ClearThread, NoSteering
  <2>2. CASE StartTeaching
    <3>1. ~ ParallelRuns
      BY <2>2, Zenon DEF StartTeaching
    <3>2. UNCHANGED steering
      BY <2>2, Zenon DEF StartTeaching
    <3> QED
      BY <3>1, <3>2, RowsBound DEF SteeringInv, NoFreeRows
  <2> QED
    BY <2>1, <2>2
<1>3. UNCHANGED sent
  BY DEF StopThreadRuns, StartTeaching, ClearThread
<1>4. Inbox' = {} /\ ~ Busy' /\ (Busy => Mailbox!Settle)
  BY <1>1, <1>2, <1>3, EmptyInbox
<1>5. ~ Busy => Inbox = {}
  BY DEF SteeringInv, SteeringNotStranded, Busy, ActiveRuns, Active, Inbox, TypeOK, SteeringRow
<1>6. CASE Busy
  BY <1>4, <1>6 DEF Mailbox!Next
<1>7. CASE ~ Busy
  <2>1. Busy' = Busy
    BY <1>4, <1>7 DEF Busy
  <2> QED
    BY <1>3, <1>4, <1>5, <1>7, <2>1, Stutter
<1> QED
  BY <1>6, <1>7

LEMMA StepImplementsMailbox ==
  ASSUME TypeOK, SteeringInv, ~ (ParallelRuns /\ Teaching), [Next]_vars
  PROVE  [Mailbox!Next]_(Mailbox!mailVars)
<1>1. CASE User
  <2>1. CASE \E r \in Runs : AnswerRunInput(r)
    <3>1. UNCHANGED sent
      BY <2>1 DEF AnswerRunInput
    <3> QED
      BY <2>1, <3>1, QuietAnswer, QuietInbox, Stutter
  <2> QED
    BY <1>1, <2>1, SendToBusyBotIsAccept, SendStartsRunIsAccept,
       AnswerWithMessageIsAcceptAnswer, CancelIsSettle DEF User
<1>2. CASE World
  BY <1>2, QuietWorld, QuietInbox, Stutter
<1>3. CASE UNCHANGED vars
  <2>1. Quiet /\ UNCHANGED <<sent, steering>>
    BY <1>3 DEF vars, Quiet
  <2> QED
    BY <2>1, QuietInbox, Stutter
<1>4. ASSUME NEW h \in Handlers, Worker(h) PROVE [Mailbox!Next]_(Mailbox!mailVars)
  <2>1. CASE Quiet /\ UNCHANGED <<sent, steering>>
    BY <2>1, QuietInbox, Stutter
  <2> QED
    BY <1>4, <2>1, QuietWorker, ClaimSteeringIsStutter, EndIsSettle
<1> QED
  BY <1>1, <1>2, <1>3, <1>4 DEF Next

\* Whatever workers, crashes and lost jobs do, the conversation is a mailbox: an
\* accepted message enters the inbox once and leaves it only while the bot is
\* busy, and no mail ever waits beside an idle bot.
THEOREM ConversationIsMailbox ==
  ASSUME ~ (ParallelRuns /\ Teaching)
  PROVE  Spec => MailboxSpec
<1>1. Init => Mailbox!Init
  BY DEF Init, Mailbox!Init, Inbox, ActiveRuns, Active, ActiveStatuses, NoSteering
<1>2. TypeOK /\ SteeringInv /\ [Next]_vars => [Mailbox!Next]_(Mailbox!mailVars)
  BY StepImplementsMailbox
<1>3. TypeOK /\ OneActiveRun /\ SteeringInv /\ [Next]_vars => SteeringInv'
  BY SteeringStep
<1> QED
  BY <1>1, <1>2, <1>3, InitSteering, TypeCorrect, OneRunAtATime, PTL
     DEF Spec, MailboxSpec, Mailbox!Spec

-----------------------------------------------------------------------------
(* What a turn has been told and what its completion settles, for a call   *)
(* that no other call has held the run with, among any number of calls in  *)
(* any number of processes.                                                *)

\* A call that comes to hold a run that another call holds is remembered.
Solitary == \A g, h \in Handlers : HoldTogether(g, h) => h \in paired

LEMMA SolitaryStep == Solitary /\ [HoldersNext]_holdersVars => Solitary'
<1>1. ASSUME Remember PROVE Solitary'
  <2> SUFFICES ASSUME NEW g \in Handlers, NEW h \in Handlers, HoldTogether(g, h)'
               PROVE  h \in paired'
    BY DEF Solitary
  <2>1. handler'[h].at # "idle"
    BY DEF HoldTogether, Holds
  <2> QED
    BY <1>1, <2>1 DEF Remember
<1>2. ASSUME Solitary, UNCHANGED holdersVars PROVE Solitary'
  BY <1>2 DEF holdersVars, vars, Solitary, HoldTogether, Holds, Owns
<1> QED
  BY <1>1, <1>2 DEF HoldersNext

LEMMA StepOfHolders ==
  [HoldersNext]_holdersVars =>
    /\ [Next]_vars
    /\ \A h \in Handlers : h \in paired /\ handler'[h].at # "idle" => h \in paired'
  BY DEF HoldersNext, holdersVars, Remember

-----------------------------------------------------------------------------
(* What a step may do to a run that runs, to a call at work and to its rows *)

\* A run comes to run by Start alone, whose call then holds it, and keeps its
\* owner and fence while it runs.
RunningStep ==
  \A r \in Runs : run'[r].status = "running" =>
    \/ /\ run[r].status = "running"
       /\ run'[r].leaseOwner = run[r].leaseOwner
       /\ run'[r].leaseFence = run[r].leaseFence
    \/ \E g \in Handlers : /\ handler[g].at = "claimed" /\ handler'[g].at = "started"
                           /\ handler'[g].run = r /\ Owns(g)'

LEMMA GiveUpRunning ==
  ASSUME TypeOK, NEW r \in Runs, NEW s \in Statuses \ {"running"},
         run' = [run EXCEPT ![r] = Released(@, s)]
  PROVE  RunningStep
<1>1. Released(run[r], s).status = s
  BY DEF TypeOK, RunRow, Released
<1> QED
  BY <1>1 DEF TypeOK, RunningStep

LEMMA WorkerRunningStep ==
  ASSUME TypeOK, NEW h \in Handlers, Worker(h) PROVE RunningStep
<1>0. handler[h].at # "idle" => handler[h].run \in Runs
  BY DEF TypeOK
<1>1. UNCHANGED run => RunningStep
  BY DEF RunningStep
<1>2. CASE Claim(h)
  <2> DEFINE row == [run[handler[h].run] EXCEPT
                  !.status = "leased", !.leaseOwner = WorkerOf[h],
                  !.leaseFence = handler[h].fence, !.expired = FALSE]
  <2>1. CASE run' = [run EXCEPT ![handler[h].run] = row]
    <3>1. row.status = "leased"
      BY <1>0, <1>2 DEF Claim, TypeOK, RunRow
    <3> HIDE DEF row
    <3> QED
      BY <2>1, <3>1 DEF RunningStep, TypeOK
  <2> QED
    BY <1>1, <1>2, <2>1 DEF Claim
<1>3. CASE Start(h)
  <2>1. CASE /\ run' = [run EXCEPT ![handler[h].run].status = "running"]
             /\ run[handler[h].run].leaseOwner = WorkerOf[h]
             /\ run[handler[h].run].leaseFence = handler[h].fence
             /\ GoTo(h, "started")
    <3>1. handler[h].at = "claimed" /\ handler[h].run \in Runs
      BY <1>0, <1>3 DEF Start
    <3>2. \A r \in Runs \ {handler[h].run} : run'[r] = run[r]
      BY <2>1 DEF TypeOK
    <3>3. /\ handler'[h].at = "started" /\ handler'[h].run = handler[h].run
          /\ handler'[h].fence = handler[h].fence
      BY <2>1 DEF GoTo, TypeOK, HandlerState
    <3>4. LET r == handler[h].run IN
          /\ run'[r].status = "running" /\ run'[r].leaseOwner = run[r].leaseOwner
          /\ run'[r].leaseFence = run[r].leaseFence
      BY <2>1, <3>1 DEF TypeOK, RunRow
    <3>5. Owns(h)'
      BY <2>1, <3>3, <3>4 DEF Owns
    <3> QED
      BY <3>1, <3>2, <3>3, <3>5 DEF RunningStep
  <2>2. CASE UNCHANGED run
    BY <1>1, <2>2
  <2> QED
    BY <1>3, <2>1, <2>2 DEF Start
<1>4. CASE ComputerBusy(h)
  <2>1. "queued" \in Statuses \ {"running"}
    BY DEF Statuses, ActiveStatuses
  <2> QED
    BY <1>0, <1>1, <1>4, <2>1, GiveUpRunning DEF ComputerBusy
<1>5. CASE RequeueAfterSetupError(h)
  <2>1. "queued" \in Statuses \ {"running"}
    BY DEF Statuses, ActiveStatuses
  <2> QED
    BY <1>0, <1>1, <1>5, <2>1, GiveUpRunning DEF RequeueAfterSetupError
<1>6. CASE PauseForInput(h)
  <2>1. "waiting_input" \in Statuses \ {"running"}
    BY DEF Statuses, ActiveStatuses
  <2> QED
    BY <1>0, <1>6, <2>1, GiveUpRunning DEF PauseForInput
<1>7. CASE RenewLease(h)
  BY <1>7 DEF RenewLease, RunningStep, TypeOK, RunRow
<1>8. CASE CompleteRun(h) \/ FailRun(h)
  <2>1. PICK outcome \in {"completed", "failed"},
          rows \in {SettledRows(h), UnboundRows(h)} :
            /\ handler[h].run \in Runs
            /\ \/ EndsAlone(handler[h].run, outcome, rows)
               \/ \E c \in Runs, last \in Pending(rows) :
                     EndsContinued(handler[h].run, outcome, rows, c, last)
    BY <1>8, EndOfRun
  <2> QED
    BY <2>1 DEF EndsAlone, EndsContinued, RunningStep
<1>9. CASE UNCHANGED run
  BY <1>1, <1>9
<1> QED
  BY <1>2, <1>3, <1>4, <1>5, <1>6, <1>7, <1>8, <1>9 DEF Worker, Step, Deliver,
     FailBeforeAttempt, CreateAttempt, RecordSetupError, Begin, ClaimSteering,
     Publish, NoticeLoss, Abandon

LEMMA NextRunningStep == ASSUME TypeOK, [Next]_vars PROVE RunningStep
<1>1. UNCHANGED run => RunningStep
  BY DEF RunningStep
<1>2. CASE SendStartsRun
  <2>1. PICK r \in Runs : run' = [run EXCEPT ![r] = NewRun(sent + 1)]
    BY <1>2, Zenon DEF SendStartsRun
  <2> QED
    BY <2>1 DEF NewRun, RunningStep, TypeOK
<1>3. CASE AnswerWithMessage
  BY <1>3 DEF AnswerWithMessage, RunningStep, TypeOK, RunRow
<1>4. ASSUME NEW r \in Runs, AnswerRunInput(r) PROVE RunningStep
  BY <1>4 DEF AnswerRunInput, RunningStep, TypeOK, RunRow
<1>5. CASE StopThreadRuns \/ StartTeaching
  BY <1>5 DEF StopThreadRuns, StartTeaching, Active, ActiveStatuses, RunningStep, TypeOK, RunRow
<1>6. CASE ClearThread
  <2>1. run' = [r \in Runs |->
                  LET row == [run[r] EXCEPT !.source = 0]
                  IN  IF Active(r) THEN Released(row, "cancelled") ELSE row]
    BY <1>6 DEF ClearThread
  <2>2. \A r \in Runs : run[r].status = "running" => Active(r)
    BY DEF Active, ActiveStatuses
  <2>3. \A r \in Runs : run'[r].status = IF Active(r) THEN "cancelled" ELSE run[r].status
    BY <2>1 DEF Released, TypeOK, RunRow
  <2> QED
    BY <2>2, <2>3 DEF RunningStep
<1>7. ASSUME NEW r \in Runs, LeaseLapses(r) PROVE RunningStep
  BY <1>7 DEF LeaseLapses, RunningStep, TypeOK, RunRow
<1> QED
  BY <1>1, <1>2, <1>3, <1>4, <1>5, <1>6, <1>7, WorkerRunningStep
     DEF Next, User, World, SendToBusyBot, Crash, LoseWake, Reconcile, vars

SameCall(h) ==
  /\ handler'[h].at = handler[h].at /\ handler'[h].run = handler[h].run
  /\ handler'[h].fence = handler[h].fence /\ handler'[h].told = handler[h].told

\* Only claiming steering brings a call to work and tells it anything; a call
\* that has not come so far has been told nothing.
CallStep ==
  \A h \in Handlers :
    \/ SameCall(h)
    \/ ClaimSteering(h)
    \/ /\ handler[h].at # "working" /\ handler'[h].at # "working"
       /\ handler[h].told = {} => handler'[h].told = {}
    \/ handler'[h].told = {} /\ handler'[h].at = "idle"

LEMMA WorkerCallStep ==
  ASSUME TypeOK, NEW h \in Handlers, Worker(h) PROVE CallStep
<1>1. (handler' = handler \/ Leave(h)) => CallStep
  BY DEF Leave, IdleHandler, CallStep, SameCall, TypeOK
<1>2. ASSUME NEW p, p # "working", handler[h].at # "working", GoTo(h, p)
      PROVE  CallStep
  BY <1>2 DEF GoTo, CallStep, SameCall, TypeOK, HandlerState
<1>3. ASSUME NEW r \in Runs, Deliver(h, r) PROVE CallStep
  <2> DEFINE call == [IdleHandler EXCEPT !.at = "observed", !.run = r,
                        !.seen = run[r].status, !.fence = run[r].leaseFence + 1]
  <2>1. CASE handler' = [handler EXCEPT ![h] = call]
    <3>1. call.at = "observed" /\ call.told = {}
      BY DEF IdleHandler
    <3> HIDE DEF call
    <3> QED
      BY <1>3, <2>1, <3>1 DEF CallStep, SameCall, TypeOK, Deliver
  <2> QED
    BY <1>1, <1>3, <2>1 DEF Deliver
<1>4. CASE CreateAttempt(h)
  <2> DEFINE call == [handler[h] EXCEPT !.at = "setup", !.attempt = "running"]
  <2>1. handler' = [handler EXCEPT ![h] = call]
    BY <1>4 DEF CreateAttempt
  <2>2. call.at = "setup" /\ call.told = handler[h].told
    BY DEF TypeOK, HandlerState
  <2> HIDE DEF call
  <2> QED
    BY <1>4, <2>1, <2>2 DEF CreateAttempt, CallStep, SameCall, TypeOK
<1>5. CASE ClaimSteering(h)
  <2>1. \A g \in Handlers \ {h} : handler'[g] = handler[g]
    BY <1>5 DEF ClaimSteering, GoTo, TypeOK
  <2> QED
    BY <1>5, <2>1 DEF CallStep, SameCall
<1>6. CASE Claim(h) \/ Start(h)
  BY <1>1, <1>2, <1>6 DEF Claim, Start
<1>7. CASE Begin(h) \/ RequeueAfterSetupError(h)
  BY <1>1, <1>2, <1>7 DEF Begin, RequeueAfterSetupError
<1>8. CASE CompleteRun(h) \/ FailRun(h)
  BY <1>1, <1>8 DEF CompleteRun, FailRun, Finalize
<1>9. CASE handler' = handler \/ Leave(h)
  BY <1>1, <1>9
<1> QED
  BY <1>3, <1>4, <1>5, <1>6, <1>7, <1>8, <1>9 DEF Worker, Step, ComputerBusy,
     FailBeforeAttempt, RecordSetupError, Publish, RenewLease, NoticeLoss, Abandon,
     PauseForInput

LEMMA NextCallStep == ASSUME TypeOK, [Next]_vars PROVE CallStep
<1>1. UNCHANGED handler => CallStep
  BY DEF CallStep, SameCall
<1>2. CASE ClearThread
  <2>1. handler' = [h \in Handlers |->
                      IF /\ handler[h].at # "idle"
                         /\ Active(handler[h].run)
                         /\ handler[h].attempt = "running"
                      THEN [handler[h] EXCEPT !.attempt = "cancelled"]
                      ELSE handler[h]]
    BY <1>2 DEF ClearThread
  <2> QED
    BY <2>1 DEF CallStep, SameCall, TypeOK, HandlerState
<1>3. ASSUME NEW w \in Workers, Crash(w) PROVE CallStep
  BY <1>3 DEF Crash, IdleHandler, CallStep, SameCall, TypeOK
<1> QED
  BY <1>1, <1>2, <1>3, WorkerCallStep DEF Next, User, World, SendToBusyBot,
     SendStartsRun, AnswerRunInput, AnswerWithMessage, StopThreadRuns, StartTeaching,
     LeaseLapses, LoseWake, Reconcile, vars

\* A step of others, for the rows of the call h that owns its run: a row is left
\* as it is, goes, passes between other runs and none (a freed claimed row stays
\* free and claimed), or is a new message's.
RowStep(h) ==
  \A m \in Messages :
    \/ steering'[m] = steering[m]
    \/ ~ steering'[m].live
    \/ /\ steering[m].live /\ steering[m].run # handler[h].run
       /\ steering'[m].run # handler[h].run
       /\ FreedClaimed(m) => steering'[m] = steering[m]
    \/ m = sent + 1 /\ sent' = sent + 1 /\ ~ steering'[m].claimed

LEMMA WorkerRowStep ==
  ASSUME TypeOK, Solitary, NEW h \in Handlers \ paired, handler[h].at = "working",
         Owns(h), NEW g \in Handlers \ {h}, Worker(g)
  PROVE  RowStep(h) /\ UNCHANGED sent
<1>2. Owns(g) /\ handler[g].at \in {"setup", "begun", "working"}
        => handler[g].run # handler[h].run
  BY DEF Solitary, HoldTogether, Holds
<1>3. handler[h].run \in Runs /\ run[handler[h].run].status = "running"
  BY DEF TypeOK, Owns
<1>4. CASE ClaimSteering(g)
  <2>1. CASE Owns(g)
    <3>1. steering' = [m \in Messages |->
             IF m \in Offered(g) /\ ~ steering[m].claimed
             THEN [steering[m] EXCEPT !.run = handler[g].run, !.claimed = TRUE]
             ELSE steering[m]]
      BY <1>4, <2>1 DEF ClaimSteering
    <3>2. \A m \in Messages :
            LET row == [steering[m] EXCEPT !.run = handler[g].run, !.claimed = TRUE]
            IN  row.run = handler[g].run
      BY DEF TypeOK, SteeringRow
    <3>3. \A m \in Offered(g) : steering[m].live /\ steering[m].run \in {NoRun, handler[g].run}
      BY DEF Offered
    <3>4. handler[g].run # handler[h].run /\ handler[h].run # NoRun /\ UNCHANGED sent
      BY <1>2, <1>3, <1>4, <2>1, NullsAreNew DEF ClaimSteering
    <3> QED
      BY <3>1, <3>2, <3>3, <3>4 DEF RowStep, FreedClaimed
  <2>2. CASE ~ Owns(g)
    BY <1>4, <2>2 DEF ClaimSteering, RowStep
  <2> QED
    BY <2>1, <2>2
<1>5. CASE CompleteRun(g) \/ FailRun(g)
  <2> DEFINE r == handler[g].run
  <2>1. PICK outcome \in {"completed", "failed"}, rows \in {SettledRows(g), UnboundRows(g)} :
           /\ Owns(g) /\ UNCHANGED sent
           /\ r \in Runs /\ run[r].status = "running"
           /\ \/ EndsAlone(r, outcome, rows)
              \/ \E c \in Runs, last \in Pending(rows) :
                    EndsContinued(r, outcome, rows, c, last)
    BY <1>5, EndOfRun
  <2>7. handler[g].at \in {"setup", "begun", "working"}
    BY <1>5 DEF CompleteRun, FailRun
  <2>2. \A m \in Messages :
        /\ rows[m].live => steering[m].live
        /\ steering[m].run # r => rows[m] = steering[m]
        /\ rows[m].live /\ steering[m].run = r => rows[m].run \in {NoRun, r}
    BY <2>1, EndingRows
  <2>3. r # handler[h].run /\ handler[h].run # NoRun
    BY <1>2, <1>3, <2>1, <2>7
  <2>8. r # NoRun
    BY <2>1
  <2> HIDE DEF r
  <2>4. \A m \in Messages : \/ rows[m] = steering[m]
                            \/ ~ rows[m].live
                            \/ /\ steering[m].live /\ steering[m].run # handler[h].run
                               /\ rows[m].run # handler[h].run
                               /\ ~ FreedClaimed(m)
    BY <2>2, <2>3, <2>8 DEF FreedClaimed
  <2>5. CASE EndsAlone(r, outcome, rows)
    BY <2>1, <2>4, <2>5 DEF EndsAlone, RowStep
  <2>6. ASSUME NEW c \in Runs, NEW last \in Pending(rows),
               EndsContinued(r, outcome, rows, c, last)
        PROVE  RowStep(h)
    <3>1. ~ Active(handler[h].run)
      BY <1>3, <2>3, <2>6 DEF EndsContinued
    <3> QED
      BY <1>3, <3>1 DEF Active, ActiveStatuses
  <2> QED
    BY <2>1, <2>5, <2>6
<1>6. CASE Quiet /\ UNCHANGED <<sent, steering>>
  BY <1>6 DEF RowStep
<1> QED
  BY <1>4, <1>5, <1>6, QuietWorker

-----------------------------------------------------------------------------
(* The invariant of a turn *)

\* Rows exist only for messages that were sent, and so do tellings; a call that is
\* not at work has been told nothing.
RowsAreSent == \A m \in Messages : steering[m].live => m <= sent

ToldIsSent ==
  \A h \in Handlers :
    /\ \A m \in handler[h].told : m <= sent
    /\ handler[h].at # "working" => handler[h].told = {}

\* The rows that the end of the run will settle are those its turn was told.
TurnKnows ==
  \A h \in Handlers \ paired : handler[h].at = "working" /\ Owns(h) =>
    \A m \in Messages : steering[m].live =>
      (steering[m].run = handler[h].run /\ steering[m].claimed => m \in handler[h].told)

\* And the converse: what the turn was told is bound, but for the rows that a
\* failed run freed with their claim.
TurnBinds ==
  \A h \in Handlers \ paired : handler[h].at = "working" /\ Owns(h) =>
    \A m \in handler[h].told : steering[m].live =>
      \/ steering[m].run = handler[h].run /\ steering[m].claimed
      \/ FreedClaimed(m)

TurnInv == Solitary /\ RowsAreSent /\ ToldIsSent /\ TurnKnows /\ TurnBinds

\* What claiming does to the rows and the call.
LEMMA ClaimSteeringShape ==
  ASSUME TypeOK, NEW h \in Handlers, ClaimSteering(h)
  PROVE  /\ UNCHANGED <<run, sent>>
         /\ \A g \in Handlers \ {h} : handler'[g] = handler[g]
         /\ handler'[h].run = handler[h].run /\ handler'[h].fence = handler[h].fence
         /\ handler[h].at \in {"begun", "working"} /\ handler'[h].at = "working"
         /\ Owns(h) => /\ handler'[h].told = handler[h].told \union Offered(h)
                       /\ \A m \in Messages :
                            IF m \in Offered(h) /\ ~ steering[m].claimed
                            THEN /\ steering'[m].run = handler[h].run
                                 /\ steering'[m].claimed /\ steering'[m].live
                            ELSE steering'[m] = steering[m]
         /\ ~ Owns(h) => handler'[h].told = handler[h].told /\ UNCHANGED steering
<1>1. /\ UNCHANGED <<run, sent>>
      /\ \A g \in Handlers \ {h} : handler'[g] = handler[g]
      /\ handler[h].at \in {"begun", "working"}
  BY DEF ClaimSteering, GoTo, TypeOK
<1>2. CASE Owns(h)
  <2>1. handler'[h] = Hearing(h)
    BY <1>2 DEF ClaimSteering, TypeOK
  <2>2. /\ Hearing(h).run = handler[h].run /\ Hearing(h).fence = handler[h].fence
        /\ Hearing(h).at = "working" /\ Hearing(h).told = handler[h].told \union Offered(h)
    BY DEF Hearing, TypeOK, HandlerState
  <2>3. steering' = [m \in Messages |->
             IF m \in Offered(h) /\ ~ steering[m].claimed
             THEN [steering[m] EXCEPT !.run = handler[h].run, !.claimed = TRUE]
             ELSE steering[m]]
    BY <1>2 DEF ClaimSteering
  <2>4. \A m \in Messages :
          LET row == [steering[m] EXCEPT !.run = handler[h].run, !.claimed = TRUE]
          IN  row.live = steering[m].live /\ row.run = handler[h].run /\ row.claimed
    BY DEF TypeOK, SteeringRow
  <2>5. \A m \in Offered(h) : steering[m].live
    BY DEF Offered
  <2> QED
    BY <1>1, <1>2, <2>1, <2>2, <2>3, <2>4, <2>5
<1>3. CASE ~ Owns(h)
  BY <1>1, <1>3 DEF ClaimSteering, GoTo, TypeOK, HandlerState
<1> QED
  BY <1>2, <1>3

\* Sending counts the message; no other step makes a row live.
LEMMA SentStep ==
  ASSUME TypeOK, [Next]_vars
  PROVE  /\ sent' \in {sent, sent + 1}
         /\ \A m \in Messages : steering'[m].live => steering[m].live \/ m <= sent'
<1>1. CASE SendToBusyBot
  BY <1>1 DEF SendToBusyBot, TypeOK, Messages
<1>2. CASE SendStartsRun
  BY <1>2, Zenon DEF SendStartsRun
<1>3. CASE AnswerWithMessage
  BY <1>3 DEF AnswerWithMessage
<1>4. ASSUME NEW h \in Handlers, Worker(h)
      PROVE  /\ sent' = sent
             /\ \A m \in Messages : steering'[m].live => steering[m].live
  <2>1. CASE CompleteRun(h) \/ FailRun(h)
    <3>1. PICK outcome \in {"completed", "failed"}, rows \in {SettledRows(h), UnboundRows(h)} :
             /\ handler[h].run \in Runs /\ UNCHANGED sent
             /\ \/ EndsAlone(handler[h].run, outcome, rows)
                \/ \E c \in Runs, last \in Pending(rows) :
                      EndsContinued(handler[h].run, outcome, rows, c, last)
      BY <2>1, EndOfRun
    <3>2. \A m \in Messages : rows[m].live => steering[m].live
      BY <3>1, EndingRows
    <3>3. CASE EndsAlone(handler[h].run, outcome, rows)
      BY <3>1, <3>2, <3>3 DEF EndsAlone
    <3>4. ASSUME NEW c \in Runs, NEW last \in Pending(rows),
                 EndsContinued(handler[h].run, outcome, rows, c, last)
          PROVE  \A m \in Messages : steering'[m].live => steering[m].live
      <4>1. steering' = [m \in Messages |->
              IF m \in Pending(rows) THEN [live |-> TRUE, run |-> c, claimed |-> FALSE]
                                     ELSE rows[m]]
        BY <3>4 DEF EndsContinued
      <4>2. \A m \in Pending(rows) : rows[m].live
        BY DEF Pending
      <4> QED
        BY <3>2, <4>1, <4>2
    <3> QED
      BY <3>1, <3>3, <3>4
  <2>2. CASE ClaimSteering(h)
    BY <2>2, ClaimSteeringShape DEF Offered
  <2> QED
    BY <1>4, <2>1, <2>2, QuietWorker
<1>5. CASE StopThreadRuns \/ ClearThread
  BY <1>5 DEF StopThreadRuns, ClearThread, NoSteering
<1>6. CASE StartTeaching \/ UNCHANGED vars \/ \E r \in Runs : AnswerRunInput(r)
  BY <1>6 DEF StartTeaching, AnswerRunInput, vars
<1> QED
  BY <1>1, <1>2, <1>3, <1>4, <1>5, <1>6, QuietWorld DEF Next, User

\* Who owns its run at work after a step, and alone, owned it before.
LEMMA OwnedBefore ==
  ASSUME TypeOK, Solitary', [Next]_vars, NEW h \in Handlers, h \notin paired',
         handler'[h].at = "working", Owns(h)'
  PROVE  /\ Owns(h) /\ handler'[h].run = handler[h].run
         /\ handler[h].at \in {"begun", "working"}
         /\ ClaimSteering(h) \/ SameCall(h)
<1>1. ClaimSteering(h) \/ SameCall(h)
  BY NextCallStep DEF CallStep
<1>2. /\ handler'[h].run = handler[h].run /\ handler'[h].fence = handler[h].fence
      /\ handler[h].at \in {"begun", "working"}
  BY <1>1, ClaimSteeringShape DEF SameCall
<1>3. handler[h].run \in Runs
  BY <1>2 DEF TypeOK
<1>4. /\ run'[handler[h].run].status = "running"
      /\ run'[handler[h].run].leaseOwner = WorkerOf[h]
      /\ run'[handler[h].run].leaseFence = handler[h].fence
  BY <1>2 DEF Owns
<1>5. ASSUME NEW g \in Handlers, handler[g].at = "claimed", handler'[g].at = "started",
             handler'[g].run = handler[h].run, Owns(g)'
      PROVE  FALSE
  <2>1. g # h
    BY <1>2, <1>5
  <2>2. HoldTogether(g, h)'
    BY <1>2, <1>5, <2>1 DEF HoldTogether, Holds
  <2> QED
    BY <2>2 DEF Solitary
<1> QED
  BY <1>1, <1>2, <1>3, <1>4, <1>5, NextRunningStep DEF RunningStep, Owns

LEMMA RowsOfOwner ==
  ASSUME TypeOK, Solitary, [Next]_vars, NEW h \in Handlers \ paired,
         handler[h].at = "working", SameCall(h), Owns(h), ~ ClaimSteering(h)
  PROVE  RowStep(h)
<1>1. CASE UNCHANGED steering
  BY <1>1 DEF RowStep
<1>2. CASE SendToBusyBot
  BY <1>2 DEF SendToBusyBot, RowStep, TypeOK, Messages
<1>3. CASE StopThreadRuns \/ ClearThread
  BY <1>3 DEF StopThreadRuns, ClearThread, NoSteering, RowStep
<1>4. ASSUME NEW g \in Handlers \ {h}, Worker(g) PROVE RowStep(h)
  BY <1>4, WorkerRowStep
<1>5. CASE Worker(h)
  <2>1. ~ (CompleteRun(h) \/ FailRun(h))
    BY DEF CompleteRun, FailRun, Finalize, Leave, IdleHandler, SameCall, TypeOK
  <2> QED
    BY <1>1, <1>5, <2>1, QuietWorker
<1> QED
  BY <1>1, <1>2, <1>3, <1>4, <1>5, QuietWorld DEF Next, User, SendStartsRun,
     AnswerRunInput, AnswerWithMessage, StartTeaching, vars

LEMMA TurnStep ==
  ASSUME TypeOK, TurnInv, [HoldersNext]_holdersVars
  PROVE  TurnInv'
<1>0. /\ [Next]_vars /\ Solitary /\ Solitary'
      /\ \A h \in Handlers : h \in paired /\ handler'[h].at # "idle" => h \in paired'
  BY StepOfHolders, SolitaryStep DEF TurnInv
<1>1. /\ sent' \in {sent, sent + 1} /\ sent \in Nat /\ Messages \subseteq Nat
      /\ \A m \in Messages : steering'[m].live => steering[m].live \/ m <= sent'
  BY <1>0, SentStep DEF TypeOK, Messages
<1>2. RowsAreSent'
  BY <1>1 DEF RowsAreSent, TurnInv
<1>3. ToldIsSent'
  <2> SUFFICES ASSUME NEW h \in Handlers
               PROVE  /\ \A m \in handler'[h].told : m <= sent'
                      /\ handler'[h].at # "working" => handler'[h].told = {}
    BY DEF ToldIsSent
  <2>1. /\ \A m \in handler[h].told : m \in Nat /\ m <= sent
        /\ handler[h].at # "working" => handler[h].told = {}
    BY <1>1 DEF TurnInv, ToldIsSent, TypeOK, HandlerState
  <2>2. CASE SameCall(h)
    BY <1>1, <2>1, <2>2 DEF SameCall
  <2>3. CASE ClaimSteering(h)
    <3>1. \A m \in Offered(h) : m \in Nat /\ m <= sent
      BY <1>1 DEF Offered, TurnInv, RowsAreSent
    <3> QED
      BY <1>1, <2>1, <2>3, <3>1, ClaimSteeringShape
  <2>4. CASE /\ handler[h].at # "working" /\ handler'[h].at # "working"
             /\ handler[h].told = {} => handler'[h].told = {}
    BY <2>1, <2>4
  <2>5. CASE handler'[h].told = {} /\ handler'[h].at = "idle"
    BY <2>5
  <2> QED
    BY <1>0, <2>2, <2>3, <2>4, <2>5, NextCallStep DEF CallStep
<1>4. ASSUME NEW h \in Handlers, h \notin paired', handler'[h].at = "working", Owns(h)'
      PROVE  /\ \A m \in Messages : steering'[m].live =>
                  (steering'[m].run = handler'[h].run /\ steering'[m].claimed
                     => m \in handler'[h].told)
             /\ \A m \in handler'[h].told : steering'[m].live =>
                  \/ steering'[m].run = handler'[h].run /\ steering'[m].claimed
                  \/ FreedClaimed(m)'
  <2>1. /\ Owns(h) /\ handler'[h].run = handler[h].run /\ handler[h].run \in Runs
        /\ handler[h].at \in {"begun", "working"}
        /\ ClaimSteering(h) \/ SameCall(h)
        /\ h \notin paired
    BY <1>0, <1>4, OwnedBefore DEF TypeOK
  <2>2. /\ \A m \in Messages : steering[m].live /\ handler[h].at = "working" =>
             (steering[m].run = handler[h].run /\ steering[m].claimed => m \in handler[h].told)
        /\ \A m \in handler[h].told : steering[m].live =>
                  \/ steering[m].run = handler[h].run /\ steering[m].claimed
                  \/ FreedClaimed(m)
    BY <2>1 DEF TurnInv, TurnKnows, TurnBinds, ToldIsSent
  <2>3. handler[h].told \subseteq Messages
    BY DEF TypeOK, HandlerState
  <2>4. CASE ClaimSteering(h)
    <3>1. /\ handler'[h].told = handler[h].told \union Offered(h)
          /\ \A m \in Messages :
               IF m \in Offered(h) /\ ~ steering[m].claimed
               THEN /\ steering'[m].run = handler[h].run
                    /\ steering'[m].claimed /\ steering'[m].live
               ELSE steering'[m] = steering[m]
      BY <2>1, <2>4, ClaimSteeringShape
    <3>2. ASSUME NEW m \in Messages
          PROVE  m \in Offered(h) <=> /\ steering[m].live
                                      /\ steering[m].run \in {NoRun, handler[h].run}
                                      /\ m \notin handler[h].told
      BY DEF Offered
    <3>4. \A m \in Messages : steering'[m].live =>
                  (steering'[m].run = handler'[h].run /\ steering'[m].claimed
                     => m \in handler'[h].told)
      BY <2>1, <3>1, <3>2
    <3>5. ASSUME NEW m \in handler'[h].told, steering'[m].live
          PROVE  \/ steering'[m].run = handler'[h].run /\ steering'[m].claimed
                 \/ FreedClaimed(m)'
      <4>1. m \in Messages
        BY <2>3, <3>1 DEF Offered
      <4>2. CASE m \in Offered(h)
        BY <2>1, <3>1, <3>2, <3>5, <4>1, <4>2 DEF FreedClaimed
      <4>3. CASE m \notin Offered(h)
        BY <2>1, <2>2, <3>1, <3>5, <4>1, <4>3 DEF FreedClaimed
      <4> QED
        BY <4>2, <4>3
    <3> QED
      BY <3>4, <3>5
  <2>5. CASE SameCall(h) /\ ~ ClaimSteering(h)
    <3>1. /\ handler[h].at = "working" /\ handler'[h].told = handler[h].told
          /\ RowStep(h)
      BY <1>0, <1>4, <2>1, <2>5, RowsOfOwner DEF SameCall
    <3>2. \A m \in handler[h].told : m # sent + 1
      BY <1>1, <2>3 DEF TurnInv, ToldIsSent
    <3>3. \A m \in Messages : steering'[m].live =>
                  (steering'[m].run = handler'[h].run /\ steering'[m].claimed
                     => m \in handler'[h].told)
      BY <2>1, <2>2, <3>1 DEF RowStep
    <3>4. \A m \in handler'[h].told : steering'[m].live =>
                  \/ steering'[m].run = handler'[h].run /\ steering'[m].claimed
                  \/ FreedClaimed(m)'
      BY <2>1, <2>2, <2>3, <3>1, <3>2 DEF RowStep, FreedClaimed
    <3> QED
      BY <3>3, <3>4
  <2> QED
    BY <2>1, <2>4, <2>5
<1>5. TurnKnows' /\ TurnBinds'
  BY <1>4, Zenon DEF TurnKnows, TurnBinds
<1> QED
  BY <1>0, <1>2, <1>3, <1>5 DEF TurnInv

-----------------------------------------------------------------------------
(* The completion of a turn *)

\* A run that a call completes is completed by that call's CompleteRun.
LEMMA WhoCompletes ==
  ASSUME TypeOK, [Next]_vars, NEW h \in Handlers, Completes(h)
  PROVE  CompleteRun(h) \/ FailRun(h)
<1> DEFINE r == handler[h].run
<1>1. /\ r \in Runs /\ run[r].status = "running" /\ run'[r].status = "completed"
      /\ handler[h].at = "working" /\ handler'[h].at = "idle"
  BY DEF Completes, TypeOK
<1> HIDE DEF r
<1>2. "completed" \notin ActiveStatuses
  BY DEF ActiveStatuses
<1>3. ~ Quiet
  BY <1>1, <1>2 DEF Quiet
<1>4. ~ UNCHANGED run
  BY <1>1
<1>5. ~ (StopThreadRuns \/ StartTeaching)
  <2>1. ASSUME StopThreadRuns \/ StartTeaching PROVE run'[r].status \in {"cancelled", run[r].status}
    BY <1>1, <2>1 DEF StopThreadRuns, StartTeaching, TypeOK, RunRow
  <2> QED
    BY <1>1, <2>1
<1>6. ~ ClearThread
  <2>1. ASSUME ClearThread PROVE run'[r].status \in {"cancelled", run[r].status}
    <3>1. run' = [s \in Runs |->
                    LET row == [run[s] EXCEPT !.source = 0]
                    IN  IF Active(s) THEN Released(row, "cancelled") ELSE row]
      BY <2>1 DEF ClearThread
    <3> QED
      BY <1>1, <3>1 DEF Released, TypeOK, RunRow
  <2> QED
    BY <1>1, <2>1
<1>7. ~ SendStartsRun
  <2>1. ASSUME NEW c \in Runs, run[c].status = "absent", run' = [run EXCEPT ![c] = NewRun(sent + 1)]
        PROVE  FALSE
    BY <1>1, <2>1 DEF TypeOK
  <2> QED
    BY <2>1, Zenon DEF SendStartsRun
<1>8. PICK g \in Handlers : Worker(g)
  BY <1>3, <1>4, <1>5, <1>6, <1>7, QuietWorld, QuietAnswer DEF Next, User, SendToBusyBot, vars
<1>9. CompleteRun(g) \/ FailRun(g)
  BY <1>3, <1>4, <1>8, QuietWorker DEF ClaimSteering
<1>10. g = h
  <2>1. Leave(g)
    BY <1>9, EndOfRun
  <2> QED
    BY <1>1, <2>1 DEF Leave, TypeOK
<1> QED
  BY <1>9, <1>10

\* What completing makes of each row.
LEMMA CompletionRows ==
  ASSUME TypeOK, [Next]_vars, NEW h \in Handlers, Completes(h)
  PROVE  /\ Owns(h) /\ handler[h].at = "working"
         /\ \A m \in Messages :
              steering'[m].live <=>
                steering[m].live /\ ~ (steering[m].run = handler[h].run /\ steering[m].claimed)
<1> DEFINE r == handler[h].run
<1>1. PICK outcome \in {"completed", "failed"}, rows \in {SettledRows(h), UnboundRows(h)} :
           /\ outcome = "completed" => rows = SettledRows(h) /\ handler[h].at = "working"
           /\ Owns(h) /\ r \in Runs
           /\ \/ EndsAlone(r, outcome, rows)
              \/ \E c \in Runs, last \in Pending(rows) :
                    EndsContinued(r, outcome, rows, c, last)
  BY WhoCompletes, EndOfRun
<1>2. outcome = "completed"
  BY <1>1 DEF EndsAlone, EndsContinued, Completes
<1>3. \A m \in Messages : rows[m] = IF steering[m].run # r THEN steering[m]
                                    ELSE IF steering[m].claimed THEN NoSteering
                                    ELSE [steering[m] EXCEPT !.run = NoRun]
  BY <1>1, <1>2 DEF SettledRows
<1>4. \A m \in Messages : [steering[m] EXCEPT !.run = NoRun].live = steering[m].live
  BY DEF TypeOK, SteeringRow
<1> HIDE DEF r
<1>6. ASSUME NEW m \in Messages
      PROVE  rows[m].live <=> steering[m].live /\ ~ (steering[m].run = r /\ steering[m].claimed)
  <2>1. CASE steering[m].run # r
    BY <1>3, <2>1
  <2>2. CASE steering[m].run = r /\ steering[m].claimed
    <3>1. rows[m] = NoSteering /\ ~ NoSteering.live
      BY <1>3, <2>2 DEF NoSteering
    <3> QED
      BY <2>2, <3>1
  <2>3. CASE steering[m].run = r /\ ~ steering[m].claimed
    <3>1. rows[m] = [steering[m] EXCEPT !.run = NoRun]
      BY <1>3, <2>3
    <3> QED
      BY <1>4, <2>3, <3>1
  <2> QED
    BY <2>1, <2>2, <2>3
<1>7. \A m \in Messages : steering'[m].live <=> rows[m].live
  <2>1. CASE EndsAlone(r, outcome, rows)
    BY <2>1 DEF EndsAlone
  <2>2. ASSUME NEW c \in Runs, NEW last \in Pending(rows), EndsContinued(r, outcome, rows, c, last)
        PROVE  \A m \in Messages : steering'[m].live <=> rows[m].live
    <3>1. steering' = [m \in Messages |->
            IF m \in Pending(rows) THEN [live |-> TRUE, run |-> c, claimed |-> FALSE]
                                   ELSE rows[m]]
      BY <2>2 DEF EndsContinued
    <3>2. \A m \in Pending(rows) : rows[m].live
      BY DEF Pending
    <3> QED
      BY <3>1, <3>2
  <2> QED
    BY <1>1, <2>1, <2>2
<1> QED
  BY <1>1, <1>2, <1>6, <1>7 DEF r

LEMMA InitTurn == HoldersInit => TypeOK /\ TurnInv
<1>1. Init => TypeOK
  BY InitTypeOK
<1>2. Init => TurnInv
  BY DEF Init, TurnInv, Solitary, HoldTogether, Holds, RowsAreSent, ToldIsSent, TurnKnows,
         TurnBinds, NoSteering, IdleHandler
<1> QED
  BY <1>1, <1>2 DEF HoldersInit

LEMMA TurnInvariant == HoldersSpec => [](TypeOK /\ TurnInv)
<1>1. TypeOK /\ TurnInv /\ [HoldersNext]_holdersVars => (TypeOK /\ TurnInv)'
  BY StepOfHolders, NextType, TurnStep
<1> QED
  BY <1>1, InitTurn, PTL DEF HoldersSpec

\* Completing a run settles only what the completing turn was told: a late
\* message, or one told to a lost attempt, survives.  This is of every call that
\* held its run alone, however many calls its process runs.
THEOREM OnlyToldIsConsumed == HoldersSpec => CompletedConsumesOnlyTold
<1>1. ASSUME TypeOK, TurnInv, [HoldersNext]_holdersVars
      PROVE  [\A h \in Handlers : Completes(h) =>
                \A m \in Messages :
                  steering[m].live /\ ~ steering'[m].live => m \in handler[h].told]_holdersVars
  <2> SUFFICES ASSUME NEW h \in Handlers, Completes(h), NEW m \in Messages,
                      steering[m].live, ~ steering'[m].live
               PROVE  m \in handler[h].told
    OBVIOUS
  <2>1. /\ Owns(h) /\ handler[h].at = "working"
        /\ steering[m].run = handler[h].run /\ steering[m].claimed
    BY <1>1, StepOfHolders, CompletionRows
  <2>2. h \notin paired
    BY DEF Completes
  <2> QED
    BY <1>1, <2>1, <2>2 DEF TurnInv, TurnKnows
<1> QED
  BY <1>1, TurnInvariant, PTL DEF HoldersSpec, CompletedConsumesOnlyTold

\* Completing a run settles all that its turn was told: nothing is answered a
\* second time, but for a message that a failed run beside it freed with its claim.
THEOREM ToldIsSettled == HoldersSpec => CompletedSettlesTold
<1>1. ASSUME TypeOK, TurnInv, [HoldersNext]_holdersVars
      PROVE  [\A h \in Handlers : Completes(h) =>
                \A m \in handler[h].told : steering'[m].live => FreedClaimed(m)]_holdersVars
  <2> SUFFICES ASSUME NEW h \in Handlers, Completes(h), NEW m \in handler[h].told,
                      steering'[m].live
               PROVE  FreedClaimed(m)
    OBVIOUS
  <2>1. m \in Messages
    BY <1>1 DEF TypeOK, HandlerState
  <2>2. Owns(h) /\ handler[h].at = "working" /\ h \notin paired
    BY <1>1, StepOfHolders, CompletionRows DEF Completes
  <2>3. steering[m].live /\ ~ (steering[m].run = handler[h].run /\ steering[m].claimed)
    BY <1>1, <2>1, StepOfHolders, CompletionRows
  <2> QED
    BY <1>1, <2>2, <2>3 DEF TurnInv, TurnBinds
<1> QED
  BY <1>1, TurnInvariant, PTL DEF HoldersSpec, CompletedSettlesTold

NoneIsPaired == paired = {}

\* In processes that run one call at a time no two calls ever hold a run together:
\* there the two theorems above are about every call.
THEOREM LoneCallsHoldAlone ==
  ASSUME \A g, h \in Handlers : WorkerOf[g] = WorkerOf[h] => g = h
  PROVE  HoldersSpec => []NoneIsPaired
<1>1. ~ \E g, h \in Handlers : HoldTogether(g, h)'
  BY DEF HoldTogether, Holds, Owns
<1>2. NoneIsPaired /\ [HoldersNext]_holdersVars => NoneIsPaired'
  BY <1>1 DEF NoneIsPaired, HoldersNext, Remember, holdersVars
<1>3. HoldersInit => NoneIsPaired
  BY DEF HoldersInit, NoneIsPaired
<1> QED
  BY <1>2, <1>3, PTL DEF HoldersSpec
=============================================================================
