-------------------------- MODULE ThreadFollowProofs --------------------------
(***************************************************************************)
(* Theorems about ThreadFollow, for every number of events, runs and       *)
(* broken connections: no event is skipped, no wake-up lost, and a client  *)
(* that received everything shows the thread as it is.                     *)
(*                                                                         *)
(* The argument for the last: whatever the view shows is "settled" by the  *)
(* events that the client has yet to receive. A card, a reply or the run   *)
(* may differ from the thread's only while an event ahead will say so, and *)
(* a bubble may stay only while its run works or an event ahead drops it.  *)
(* The thread's steps append the events that keep this so, an event and a  *)
(* snapshot move the view on, and with nothing ahead the view is current.  *)
(***************************************************************************)
EXTENDS ThreadFollow, SequenceTheorems, WellFoundedInduction, TLAPS

USE FollowBounds

-----------------------------------------------------------------------------
(* The log and who reads it *)

\* The records have the fields they are written with.
Shapes ==
  /\ thread = [run |-> thread.run, last |-> thread.last, messages |-> thread.messages,
               events |-> thread.events, next |-> thread.next]
  /\ follower = [at |-> follower.at, seq |-> follower.seq, changed |-> follower.changed]
  /\ client = [at |-> client.at, cursor |-> client.cursor, ready |-> client.ready,
               view |-> client.view, pending |-> client.pending]

\* The newest event is never deleted without a newer one.
LogInv ==
  /\ thread.next \in Nat \ {0}
  /\ \A e \in thread.events : e.seq \in Nat \ {0} /\ e.seq < thread.next
  /\ thread.events # {} => \E e \in thread.events : e.seq = thread.next - 1

\* Nobody is further than the log.
ReadersInv ==
  /\ follower.seq \in Nat /\ follower.seq < thread.next
  /\ client.cursor \in Nat /\ client.cursor < thread.next
  /\ \A e \in wire : e.seq \in Nat /\ e.seq < thread.next

\* A follower that has read is not behind unless it is told, whether it waits yet or not.
WakeInv ==
  /\ conn \in {"up", "down"} /\ follower.at \in {"off", "new", "read", "wait"}
  /\ follower.at \in {"read", "wait"} /\ LastSeq > follower.seq =>
       follower.changed \/ owed \/ conn = "down"

LogAndReaders == Shapes /\ LogInv /\ ReadersInv

FollowInv == LogAndReaders /\ NothingSkipped /\ WakeInv

\* The newest event's number.
LEMMA NewestEvent ==
  ASSUME LogInv
  PROVE  /\ LastSeq \in Nat /\ LastSeq < thread.next
         /\ \A e \in thread.events : e.seq <= LastSeq
<1>1. CASE thread.events = {}
  <2>1. \A x \in {0} : x = 0
    OBVIOUS
  <2>2. LastSeq = 0
    BY <1>1, <2>1 DEF LastSeq, Max
  <2> QED
    BY <1>1, <2>2 DEF LogInv
<1>2. CASE thread.events # {}
  <2> DEFINE S == {0} \union {e.seq : e \in thread.events}
  <2>1. PICK e \in thread.events : e.seq = thread.next - 1
    BY <1>2 DEF LogInv
  <2>2. e.seq \in S /\ \A x \in S : x \in Nat /\ e.seq >= x
    BY <2>1 DEF LogInv
  <2>3. LastSeq \in S /\ \A x \in S : LastSeq >= x
    BY <2>2 DEF LastSeq, Max
  <2>4. \A f \in thread.events : f.seq \in S
    OBVIOUS
  <2> QED
    BY <2>1, <2>2, <2>3, <2>4 DEF LogInv
<1> QED
  BY <1>1, <1>2

LEMMA NewestIsAnEvent ==
  ASSUME LogInv
  PROVE  IF thread.events = {} THEN LastSeq = 0 ELSE \E e \in thread.events : e.seq = LastSeq
<1>1. CASE thread.events = {}
  BY <1>1 DEF LastSeq, Max
<1>2. CASE thread.events # {}
  <2>1. PICK e \in thread.events : e.seq = thread.next - 1
    BY <1>2 DEF LogInv
  <2>2. LastSeq >= e.seq /\ LastSeq < thread.next /\ LastSeq \in Nat /\ e.seq \in Nat
    BY <2>1, NewestEvent DEF LogInv
  <2> QED
    BY <1>2, <2>1, <2>2 DEF LogInv
<1> QED
  BY <1>1, <1>2

\* How far a follower is that reads a batch.
LEMMA ReadsToTheEnd ==
  ASSUME LogInv, ReadersInv, FollowerReads
  PROVE  /\ follower'.seq \in Nat /\ follower'.seq < thread.next
         /\ follower'.seq >= follower.seq
         /\ \A e \in thread.events : e.seq <= follower'.seq
<1> DEFINE unseen == {e \in thread.events : e.seq > follower.seq}
           S == {follower.seq} \union {e.seq : e \in unseen}
<1>1. follower'.seq = Max(S)
  BY DEF FollowerReads
<1>2. \A x \in S : x \in Nat /\ x < thread.next
  BY DEF LogInv, ReadersInv
<1>3. \A e \in thread.events : e.seq <= follower.seq \/ e.seq \in S
  BY DEF LogInv, ReadersInv
<1>4. PICK top \in S : \A x \in S : top >= x
  <2>1. CASE unseen = {}
    BY <2>1 DEF ReadersInv
  <2>2. CASE unseen # {}
    <3>1. PICK e \in thread.events : e.seq = thread.next - 1
      BY <2>2 DEF LogInv
    <3>2. PICK f \in unseen : TRUE
      BY <2>2
    <3>3. e \in unseen
      BY <3>1, <3>2 DEF LogInv, ReadersInv
    <3>4. e.seq \in S
      BY <3>3
    <3> HIDE DEF S
    <3>5. \A x \in S : e.seq >= x
      BY <1>2, <3>1 DEF LogInv
    <3> QED
      BY <3>4, <3>5
  <2> QED
    BY <2>1, <2>2
<1>5. Max(S) \in S /\ \A x \in S : Max(S) >= x
  BY <1>4 DEF Max
<1>6. follower.seq \in S
  OBVIOUS
<1> HIDE DEF S
<1> QED
  BY <1>1, <1>2, <1>3, <1>5, <1>6 DEF LogInv, ReadersInv

-----------------------------------------------------------------------------
(* Steps of the thread *)

LEMMA Appended ==
  ASSUME FollowInv, NEW types \in Seq(EventTypes), types # <<>>, NEW run, NEW messages,
         NEW ends \in BOOLEAN, \A i \in DOMAIN types : types[i] = "progress" => ~ends,
         Commit(run, messages, types, ends)
  PROVE  FollowInv'
<1> DEFINE added == NewEvents(types, thread.run.id)
<1>1. Len(types) \in Nat \ {0} /\ DOMAIN types = 1..Len(types)
  BY EmptySeq, LenProperties
<1>2. /\ thread'.next = thread.next + Len(types)
      /\ thread'.events = {e \in thread.events : ends => e.type # "progress"} \union added
  BY DEF Commit, FollowInv, LogAndReaders, Shapes
<1>3. \A e \in added : e.seq \in Nat \ {0} /\ e.seq >= thread.next /\ e.seq < thread'.next
  BY <1>1, <1>2 DEF NewEvents, FollowInv, LogAndReaders, LogInv
<1>4. \E e \in added : e.seq = thread'.next - 1
  <2> DEFINE newest == [seq |-> thread.next + Len(types) - 1, type |-> types[Len(types)],
                        run |-> thread.run.id]
  <2>1. newest \in added
    BY <1>1 DEF NewEvents
  <2>2. newest.seq = thread'.next - 1
    BY <1>1, <1>2 DEF FollowInv, LogAndReaders, LogInv
  <2> HIDE DEF added, newest
  <2> QED
    BY <2>1, <2>2
<1>5. UNCHANGED <<follower, wire, client, conn>> /\ owed'
  BY DEF Commit, Others
<1> HIDE DEF added
<1>6. Shapes'
  BY <1>5 DEF Commit, FollowInv, LogAndReaders, Shapes
<1>7. LogInv' /\ ReadersInv'
  BY <1>1, <1>2, <1>3, <1>4, <1>5 DEF FollowInv, LogAndReaders, LogInv, ReadersInv
<1>8. NothingSkipped'
  BY <1>2, <1>3, <1>5 DEF FollowInv, LogAndReaders, LogInv, ReadersInv, NothingSkipped
<1> QED
  BY <1>5, <1>6, <1>7, <1>8 DEF FollowInv, LogAndReaders, WakeInv

\* A step that leaves log, readers and connection alone.
LEMMA Aside ==
  ASSUME FollowInv, Shapes', thread'.events = thread.events, thread'.next = thread.next,
         UNCHANGED <<owed, conn, follower, wire>>,
         client'.at = client.at, client'.cursor = client.cursor
  PROVE  FollowInv'
  BY DEF FollowInv, LogAndReaders, LogInv, ReadersInv, NothingSkipped, WakeInv, LastSeq

LEMMA ThreadKeeps ==
  ASSUME FollowInv, ThreadStep PROVE FollowInv'
<1>1. CASE SendMessage \/ Release
  <2>1. thread'.events = thread.events /\ thread'.next = thread.next /\ Shapes'
    BY <1>1 DEF SendMessage, Release, Others, FollowInv, LogAndReaders, Shapes
  <2> QED
    BY <1>1, <2>1, Aside DEF SendMessage, Release, Others
<1>2. CASE RunStarted
  <2>1. <<"started">> \in Seq(EventTypes) /\ <<"started">> # <<>>
    BY DEF EventTypes
  <2> QED
    BY <1>2, <2>1, Appended DEF RunStarted
<1>3. CASE Progress
  <2>1. <<"progress">> \in Seq(EventTypes) /\ <<"progress">> # <<>>
    BY DEF EventTypes
  <2> QED
    BY <1>3, <2>1, Appended DEF Progress
<1>4. CASE PauseForInput
  <2>1. LET types == <<"card", "waiting_input">>
        IN  types \in Seq(EventTypes) /\ types # <<>> /\ \A i \in DOMAIN types : types[i] # "progress"
    BY DEF EventTypes
  <2> QED
    BY <1>4, <2>1, Appended DEF PauseForInput
<1>5. CASE Answer
  <2>1. <<"answered">> \in Seq(EventTypes) /\ <<"answered">> # <<>>
    BY DEF EventTypes
  <2> QED
    BY <1>5, <2>1, Appended DEF Answer
<1>6. CASE PublishNote
  <2>1. <<"note">> \in Seq(EventTypes) /\ <<"note">> # <<>>
    BY DEF EventTypes
  <2> QED
    BY <1>6, <2>1, Appended DEF PublishNote
<1>7. CASE PauseForTakeover
  <2>1. LET types == <<"waiting_takeover">>
        IN  types \in Seq(EventTypes) /\ types # <<>> /\ \A i \in DOMAIN types : types[i] # "progress"
    BY DEF EventTypes
  <2> QED
    BY <1>7, <2>1, Appended DEF PauseForTakeover
<1>8. CASE FinalizeRun
  <2>1. LET types == <<"reply", "completed">>
        IN  types \in Seq(EventTypes) /\ types # <<>> /\ \A i \in DOMAIN types : types[i] # "progress"
    BY DEF EventTypes
  <2> QED
    BY <1>8, <2>1, Appended DEF FinalizeRun
<1>9. CASE ClearThread
  <2>1. /\ thread'.next = thread.next + 1
        /\ thread'.events = {[seq |-> thread.next, type |-> "cleared", run |-> 0]}
        /\ Shapes'
    BY <1>9 DEF ClearThread, Others, FollowInv, LogAndReaders, Shapes
  <2>2. UNCHANGED <<follower, wire, client, conn>> /\ owed'
    BY <1>9 DEF ClearThread, Others
  <2>3. \A e \in thread'.events : e.seq = thread.next
    BY <2>1
  <2>4. LogInv' /\ ReadersInv'
    BY <2>1, <2>2, <2>3 DEF FollowInv, LogAndReaders, LogInv, ReadersInv
  <2>5. NothingSkipped'
    BY <2>2, <2>3 DEF FollowInv, LogAndReaders, LogInv, ReadersInv, NothingSkipped
  <2> QED
    BY <2>1, <2>2, <2>4, <2>5 DEF FollowInv, LogAndReaders, WakeInv
<1> QED
  BY <1>1, <1>2, <1>3, <1>4, <1>5, <1>6, <1>7, <1>8, <1>9 DEF ThreadStep

-----------------------------------------------------------------------------
(* Steps of the API process and of the client *)

LEMMA ServerKeeps ==
  ASSUME FollowInv, Notify \/ Disconnect \/ Reconnect \/ FollowerReads \/ FollowerWaits
  PROVE  FollowInv'
<1>0. /\ UNCHANGED <<thread, client>>
  BY DEF Notify, Disconnect, Reconnect, FollowerReads, FollowerWaits
<1>1. Shapes'
  BY <1>0 DEF Notify, Disconnect, Reconnect, FollowerReads, FollowerWaits, Told, Off,
              CaughtUpAfterConnect, FollowInv, LogAndReaders, Shapes
<1>2. LastSeq' = LastSeq
  BY <1>0 DEF LastSeq
<1>3. LogInv'
  BY <1>0 DEF FollowInv, LogAndReaders, LogInv
<1>4. CASE Notify \/ Disconnect \/ Reconnect
  <2>1. Told.seq = follower.seq /\ Told.at = follower.at /\ (Told.changed \/ Told.at = "off")
    BY DEF Told, Off, FollowInv, LogAndReaders, Shapes
  <2>2. UNCHANGED wire /\ follower'.seq = follower.seq /\ follower'.at = follower.at
    BY <1>4, <2>1 DEF Notify, Disconnect, Reconnect, CaughtUpAfterConnect
  <2>3. ReadersInv' /\ NothingSkipped'
    BY <1>0, <2>2 DEF FollowInv, LogAndReaders, ReadersInv, NothingSkipped
  <2>4. WakeInv'
    BY <1>2, <1>4, <2>1, <2>2
       DEF FollowInv, WakeInv, Notify, Disconnect, Reconnect, CaughtUpAfterConnect
  <2> QED
    BY <1>1, <1>3, <2>3, <2>4 DEF FollowInv, LogAndReaders
<1>5. CASE FollowerReads
  <2>1. follower'.seq \in Nat /\ follower'.seq < thread.next
        /\ \A e \in thread.events : e.seq <= follower'.seq
    BY <1>5, ReadsToTheEnd DEF FollowInv, LogAndReaders
  <2>2. /\ wire' = wire \union {e \in thread.events : e.seq > follower.seq}
        /\ UNCHANGED conn /\ follower'.at = "read"
    BY <1>5 DEF FollowerReads
  <2>3. ReadersInv'
    BY <1>0, <2>1, <2>2 DEF FollowInv, LogAndReaders, LogInv, ReadersInv
  <2>4. NothingSkipped'
    BY <1>0, <2>2 DEF FollowInv, NothingSkipped
  <2>5. LastSeq' \in Nat /\ (thread.events = {} => LastSeq = 0)
        /\ (thread.events # {} => \E e \in thread.events : e.seq = LastSeq)
    BY <1>2, NewestEvent, NewestIsAnEvent DEF FollowInv, LogAndReaders
  <2>6. ~ (LastSeq' > follower'.seq)
    BY <1>2, <2>1, <2>5
  <2> QED
    BY <1>1, <1>3, <2>2, <2>3, <2>4, <2>6 DEF FollowInv, LogAndReaders, WakeInv
<1>6. CASE FollowerWaits
  <2>1. UNCHANGED <<wire, owed, conn>> /\ follower.at = "read" /\ follower'.at = "wait"
        /\ follower'.seq = follower.seq /\ follower'.changed = follower.changed
    BY <1>6 DEF FollowerWaits, LatchKeeps, FollowInv, LogAndReaders, Shapes
  <2> QED
    BY <1>0, <1>1, <1>2, <1>3, <2>1
       DEF FollowInv, LogAndReaders, ReadersInv, NothingSkipped, WakeInv
<1> QED
  BY <1>4, <1>5, <1>6

LEMMA ClientKeeps ==
  ASSUME FollowInv,
         OpenThread \/ Receive \/ StreamEnds \/ Resubscribe \/ ServeSnapshot \/ TakeSnapshot
  PROVE  FollowInv'
<1>0. UNCHANGED <<thread, owed, conn>>
  BY DEF OpenThread, Receive, StreamEnds, Resubscribe, ServeSnapshot, TakeSnapshot
<1>1. LogInv' /\ LastSeq' = LastSeq
  BY <1>0 DEF FollowInv, LogAndReaders, LogInv, LastSeq
<1>2. Shapes'
  BY <1>0 DEF OpenThread, Receive, StreamEnds, Resubscribe, ServeSnapshot, TakeSnapshot,
              Subscribe, Off, FollowInv, LogAndReaders, Shapes
<1>3. LastSeq \in Nat /\ LastSeq < thread.next
  BY NewestEvent DEF FollowInv, LogAndReaders
<1>4. CASE OpenThread
  <2>1. follower'.seq = LastSeq /\ follower'.at = "new" /\ UNCHANGED wire
    BY <1>4 DEF OpenThread, Subscribe
  <2>2. client'.cursor = LastSeq
    <3>1. CASE client' = [client EXCEPT !.at = "reading", !.cursor = LastSeq]
      BY <3>1 DEF FollowInv, LogAndReaders, Shapes
    <3>2. CASE client' # [client EXCEPT !.at = "reading", !.cursor = LastSeq]
      BY <1>4, <3>2 DEF OpenThread
    <3> QED
      BY <3>1, <3>2
  <2> QED
    BY <1>0, <1>1, <1>2, <1>3, <2>1, <2>2
       DEF FollowInv, LogAndReaders, ReadersInv, NothingSkipped, WakeInv
<1>5. CASE Receive
  <2>1. PICK e \in wire :
          /\ client.at = "reading" /\ wire' = wire \ {e}
          /\ client'.cursor = IF e.seq > client.cursor THEN e.seq ELSE client.cursor
          /\ client'.at = client.at
    BY <1>5 DEF Receive, FollowInv, LogAndReaders, Shapes
  <2>2. UNCHANGED follower
    BY <1>5 DEF Receive
  <2>3. ReadersInv'
    BY <1>0, <2>1, <2>2 DEF FollowInv, LogAndReaders, ReadersInv
  <2>4. NothingSkipped'
    BY <1>0, <2>1, <2>2 DEF FollowInv, LogAndReaders, LogInv, ReadersInv, NothingSkipped
  <2> QED
    BY <1>0, <1>1, <1>2, <2>2, <2>3, <2>4 DEF FollowInv, LogAndReaders, WakeInv
<1>6. CASE StreamEnds
  <2>1. wire' = {} /\ follower'.at = "off" /\ follower'.seq = 0 /\ client'.at = "retry"
        /\ client'.cursor = client.cursor
    BY <1>6 DEF StreamEnds, Off, FollowInv, LogAndReaders, Shapes
  <2> QED
    BY <1>0, <1>1, <1>2, <2>1
       DEF FollowInv, LogAndReaders, LogInv, ReadersInv, NothingSkipped, WakeInv
<1>7. CASE Resubscribe
  <2>1. follower'.seq = client.cursor /\ follower'.at = "new" /\ client'.cursor = client.cursor
        /\ UNCHANGED wire
    BY <1>7 DEF Resubscribe, ResumeFrom, Subscribe, FollowInv, LogAndReaders, Shapes
  <2> QED
    BY <1>0, <1>1, <1>2, <2>1
       DEF FollowInv, LogAndReaders, ReadersInv, NothingSkipped, WakeInv
<1>8. CASE ServeSnapshot \/ TakeSnapshot
  <2>1. client'.at = client.at /\ client'.cursor = client.cursor /\ UNCHANGED <<follower, wire>>
    BY <1>8 DEF ServeSnapshot, TakeSnapshot, FollowInv, LogAndReaders, Shapes
  <2> QED
    BY <1>0, <1>2, <2>1, Aside
<1> QED
  BY <1>4, <1>5, <1>6, <1>7, <1>8

-----------------------------------------------------------------------------
(* Theorems about the stream *)

LEMMA InitFollow == FollowInit => FollowInv
<1> SUFFICES ASSUME FollowInit PROVE FollowInv
  OBVIOUS
<1>1. Shapes /\ ReadersInv /\ LogInv /\ NothingSkipped
  BY DEF FollowInit, Off, Shapes, ReadersInv, LogInv, NothingSkipped
<1>2. WakeInv
  BY DEF FollowInit, Off, WakeInv
<1> QED
  BY <1>1, <1>2 DEF FollowInv, LogAndReaders

LEMMA FollowInductive == FollowInv /\ [FollowNext]_followVars => FollowInv'
<1> SUFFICES ASSUME FollowInv, [FollowNext]_followVars PROVE FollowInv'
  OBVIOUS
<1>1. CASE UNCHANGED followVars
  BY <1>1, Aside DEF followVars, FollowInv, LogAndReaders, Shapes
<1>2. CASE FollowNext
  BY <1>2, ThreadKeeps, ServerKeeps, ClientKeeps DEF FollowNext
<1> QED
  BY <1>1, <1>2

LEMMA FollowInvHolds == FollowSpec => []FollowInv
  BY InitFollow, FollowInductive, PTL DEF FollowSpec

\* followThreadEvents and runThreadSubscription together: whatever breaks and whenever
\* the client subscribes again, an event it has not received is on its way to it or
\* still to be read for it.
THEOREM NoEventIsSkipped == FollowSpec => []NothingSkipped
<1>1. FollowInv => NothingSkipped
  BY DEF FollowInv
<1> QED
  BY <1>1, FollowInvHolds, PTL

\* The latch, the notification after the commit and the catch-up after a new LISTEN:
\* a follower never waits beside events that nothing will wake it for.
THEOREM WakeupsArrive == FollowSpec => []NoLostWakeup
<1>1. FollowInv => NoLostWakeup
  BY DEF FollowInv, WakeInv, NoLostWakeup
<1> QED
  BY <1>1, FollowInvHolds, PTL

-----------------------------------------------------------------------------
(* What a view is made of *)

LEMMA RunIdsAreNumbers == 0 \notin RunIds /\ RunIds \subseteq 0..MaxRuns
  BY DEF RunIds

LEMMA RunFields ==
  ASSUME NEW a \in ARun
  PROVE  /\ a = [id |-> a.id, status |-> a.status]
         /\ \/ a.id \in RunIds /\ a.status \in RunStatus /\ a # NoRun
            \/ a.id = 0 /\ a.status = "none" /\ a = NoRun
  BY RunIdsAreNumbers DEF ARun, NoRun

LEMMA MadeRuns ==
  /\ NoRun \in ARun /\ NoRun.id = 0 /\ NoRun.status = "none"
  /\ \A r \in RunIds, s \in RunStatus : [id |-> r, status |-> s] \in ARun
  BY DEF ARun, NoRun

LEMMA ViewFields ==
  ASSUME NEW v \in View
  PROVE  /\ v = [cursor |-> v.cursor, run |-> v.run, active |-> v.active,
                 messages |-> v.messages, bubbles |-> v.bubbles]
         /\ v.cursor \in 0..MaxSeq /\ v.run \in ARun /\ v.active \subseteq ARun
         /\ v.messages \in Messages /\ v.bubbles \subseteq RunIds
  BY DEF View

LEMMA NoViewTyped == NoView \in View
<1>1. NoMessage \in Messages
  BY DEF NoMessage, Messages
<1> QED
  BY <1>1, MadeRuns DEF NoView, View

LEMMA MessagesTyped ==
  ASSUME NEW m \in Messages, NEW r \in RunIds
  PROVE  /\ [m EXCEPT !.card[r] = "open"] \in Messages
         /\ [m EXCEPT !.card[r] = "answered"] \in Messages
         /\ [m EXCEPT !.reply = @ \union {r}] \in Messages
  BY DEF Messages

\* A view and its changes, field by field: the provers follow a change of one field, not of
\* several at once.
Made(c, run, active, m, b) ==
  [cursor |-> c, run |-> run, active |-> active, messages |-> m, bubbles |-> b]
WithCursor(v, x)   == [v EXCEPT !.cursor = x]
WithRun(v, x)      == [v EXCEPT !.run = x]
WithActive(v, x)   == [v EXCEPT !.active = x]
WithMessages(v, x) == [v EXCEPT !.messages = x]
WithBubbles(v, x)  == [v EXCEPT !.bubbles = x]

LEMMA With ==
  ASSUME NEW c, NEW r, NEW a, NEW m, NEW b, NEW x
  PROVE  LET v == Made(c, r, a, m, b) IN
         /\ WithCursor(v, x) = Made(x, r, a, m, b)
         /\ WithRun(v, x) = Made(c, x, a, m, b)
         /\ WithActive(v, x) = Made(c, r, x, m, b)
         /\ WithMessages(v, x) = Made(c, r, a, x, b)
         /\ WithBubbles(v, x) = Made(c, r, a, m, x)
<1> DEFINE v == Made(c, r, a, m, b)
<1>1. WithCursor(v, x) = Made(x, r, a, m, b)
  BY DEF WithCursor, Made
<1>2. WithRun(v, x) = Made(c, x, a, m, b)
  BY DEF WithRun, Made
<1>3. WithActive(v, x) = Made(c, r, x, m, b)
  BY DEF WithActive, Made
<1>4. WithMessages(v, x) = Made(c, r, a, x, b)
  BY DEF WithMessages, Made
<1>5. WithBubbles(v, x) = Made(c, r, a, m, x)
  BY DEF WithBubbles, Made
<1> QED
  BY <1>1, <1>2, <1>3, <1>4, <1>5

LEMMA ChangedRun ==
  ASSUME NEW c, NEW r, NEW a, NEW m, NEW b, NEW x, NEW y
  PROVE  WithActive(WithRun(Made(c, r, a, m, b), x), y) = Made(c, x, y, m, b)
  BY With

LEMMA ChangedText ==
  ASSUME NEW c, NEW r, NEW a, NEW m, NEW b, NEW x, NEW y
  PROVE  WithMessages(WithBubbles(Made(c, r, a, m, b), x), y) = Made(c, r, a, y, x)
  BY With

LEMMA ChangedEnd ==
  ASSUME NEW c, NEW r, NEW a, NEW m, NEW b, NEW x, NEW y, NEW z
  PROVE  WithRun(WithBubbles(WithActive(Made(c, r, a, m, b), x), y), z) = Made(c, z, x, m, y)
  BY With

LEMMA MadeOfFields ==
  ASSUME NEW v \in View
  PROVE  v = Made(v.cursor, v.run, v.active, v.messages, v.bubbles)
  BY DEF View, Made

LEMMA FieldsOfMade ==
  ASSUME NEW c, NEW r, NEW a, NEW m, NEW b
  PROVE  LET v == Made(c, r, a, m, b) IN
         v.cursor = c /\ v.run = r /\ v.active = a /\ v.messages = m /\ v.bubbles = b
  BY DEF Made

LEMMA MadeTyped ==
  ASSUME NEW c \in 0..MaxSeq, NEW r \in ARun, NEW a \in SUBSET ARun, NEW m \in Messages,
         NEW b \in SUBSET RunIds
  PROVE  Made(c, r, a, m, b) \in View
  BY DEF Made, View

\* What an event makes of the parts of a view.
RunAfter(v, e) ==
  CASE e.type = "cleared" -> NoRun
    [] e.type = "started" -> [id |-> e.run, status |-> "running"]
    [] e.type \in {"waiting_input", "waiting_takeover"} ->
         IF v.run.id = e.run \/ (~Known(v, e.run) /\ v.run.status \notin {"waiting_input", "waiting_takeover"})
           THEN [id |-> e.run, status |-> e.type] ELSE v.run
    [] e.type = "completed" ->
         IF v.run.id # e.run THEN v.run
         ELSE IF {a \in v.active : a.id # e.run} = {} THEN NoRun
         ELSE CHOOSE a \in {a \in v.active : a.id # e.run} : TRUE
    [] OTHER -> v.run

ActiveAfter(v, e) ==
  CASE e.type = "cleared" -> {}
    [] e.type = "started" -> {[id |-> e.run, status |-> "running"]}
    [] e.type \in {"waiting_input", "waiting_takeover"} ->
         IF Known(v, e.run)
           THEN {IF a.id = e.run THEN [id |-> e.run, status |-> e.type] ELSE a : a \in v.active}
           ELSE v.active \union {[id |-> e.run, status |-> e.type]}
    [] e.type = "completed" -> {a \in v.active : a.id # e.run}
    [] OTHER -> v.active

MessagesAfter(v, e) ==
  CASE e.type = "cleared"  -> NoMessage
    [] e.type = "card"     -> [v.messages EXCEPT !.card[e.run] = "open"]
    [] e.type = "answered" -> [v.messages EXCEPT !.card[e.run] = "answered"]
    [] e.type = "reply"    -> [v.messages EXCEPT !.reply = @ \union {e.run}]
    [] OTHER               -> v.messages

BubblesAfter(v, e) ==
  CASE e.type = "cleared"  -> {}
    [] e.type = "progress" -> v.bubbles \union {e.run}
    [] e.type \in {"started", "waiting_takeover"} -> v.bubbles
    [] OTHER               -> v.bubbles \ {e.run}

LEMMA ReducedIs ==
  ASSUME NEW v \in View, NEW e, e.type \in EventTypes
  PROVE  Reduced(v, e) = Made(IF e.type = "cleared" THEN 0 ELSE v.cursor, RunAfter(v, e),
                              ActiveAfter(v, e), MessagesAfter(v, e), BubblesAfter(v, e))
<1> DEFINE c == v.cursor
           r == v.run
           a == v.active
           m == v.messages
           b == v.bubbles
<1>0. v = Made(c, r, a, m, b)
  BY MadeOfFields
<1>1. CASE e.type = "cleared"
  <2>1. Reduced(v, e) = NoView
    BY <1>1 DEF Reduced
  <2> QED
    BY <1>1, <2>1 DEF Made, NoView, RunAfter, ActiveAfter, MessagesAfter, BubblesAfter
<1>2. CASE e.type = "started"
  <2> DEFINE run == [id |-> e.run, status |-> "running"]
  <2>1. Reduced(v, e) = WithActive(WithRun(v, run), {run})
    BY <1>2 DEF Reduced, WithActive, WithRun
  <2>2. RunAfter(v, e) = run /\ ActiveAfter(v, e) = {run} /\ MessagesAfter(v, e) = m
        /\ BubblesAfter(v, e) = b
    BY <1>2 DEF RunAfter, ActiveAfter, MessagesAfter, BubblesAfter
  <2> HIDE DEF run
  <2>3. WithActive(WithRun(Made(c, r, a, m, b), run), {run}) = Made(c, run, {run}, m, b)
    BY ChangedRun
  <2> QED
    BY <1>0, <1>2, <2>1, <2>2, <2>3
<1>3. CASE e.type = "progress"
  <2> DEFINE x == v.bubbles \union {e.run}
  <2>1. Reduced(v, e) = WithBubbles(v, x)
    BY <1>3 DEF Reduced, WithBubbles
  <2>2. RunAfter(v, e) = r /\ ActiveAfter(v, e) = a /\ MessagesAfter(v, e) = m
        /\ BubblesAfter(v, e) = x
    BY <1>3 DEF RunAfter, ActiveAfter, MessagesAfter, BubblesAfter
  <2> HIDE DEF x
  <2>3. WithBubbles(Made(c, r, a, m, b), x) = Made(c, r, a, m, x)
    BY With
  <2> QED
    BY <1>0, <1>3, <2>1, <2>2, <2>3
<1>4. CASE e.type \in {"waiting_input", "waiting_takeover"}
  <2> DEFINE run == [id |-> e.run, status |-> e.type]
             w == Waits(v, run)
             x == IF e.type = "waiting_input" THEN w.bubbles \ {e.run} ELSE w.bubbles
             r2 == RunAfter(v, e)
             a2 == ActiveAfter(v, e)
  <2>1. Reduced(v, e) = WithBubbles(w, x)
    BY <1>4 DEF Reduced, WithBubbles
  <2>2. w = WithActive(WithRun(v, r2), a2)
    <3>1. CASE Known(v, e.run)
      <4>1. w = WithActive(WithRun(v, IF v.run.id = run.id THEN run ELSE v.run),
                           {IF d.id = run.id THEN run ELSE d : d \in v.active})
        BY <3>1 DEF Waits, WithActive, WithRun
      <4>2. r2 = IF v.run.id = run.id THEN run ELSE v.run
        BY <1>4, <3>1 DEF RunAfter
      <4>3. a2 = {IF d.id = run.id THEN run ELSE d : d \in v.active}
        BY <1>4, <3>1 DEF ActiveAfter
      <4> QED
        BY <4>1, <4>2, <4>3
    <3>2. CASE ~Known(v, e.run)
      <4>1. w = WithActive(WithRun(v, IF v.run.status \in {"waiting_input", "waiting_takeover"}
                                        THEN v.run ELSE run),
                           v.active \union {run})
        BY <3>2 DEF Waits, WithActive, WithRun
      <4>2. v.run.id # e.run
        BY <3>2 DEF Known
      <4>3. r2 = IF v.run.status \in {"waiting_input", "waiting_takeover"} THEN v.run ELSE run
        BY <1>4, <3>2, <4>2 DEF RunAfter
      <4>4. a2 = v.active \union {run}
        BY <1>4, <3>2 DEF ActiveAfter
      <4> QED
        BY <4>1, <4>3, <4>4
    <3> QED
      BY <3>1, <3>2
  <2>3. MessagesAfter(v, e) = m
    BY <1>4 DEF MessagesAfter
  <2>4. BubblesAfter(v, e) = IF e.type = "waiting_input" THEN b \ {e.run} ELSE b
    BY <1>4 DEF BubblesAfter
  <2> HIDE DEF run, w, x, r2, a2
  <2>5. w = Made(c, r2, a2, m, b)
    <3>1. WithActive(WithRun(Made(c, r, a, m, b), r2), a2) = Made(c, r2, a2, m, b)
      BY ChangedRun
    <3> QED
      BY <1>0, <2>2, <3>1
  <2>6. w.bubbles = b
    BY <2>5, FieldsOfMade
  <2>7. x = BubblesAfter(v, e)
    BY <2>4, <2>6 DEF x
  <2>8. WithBubbles(Made(c, r2, a2, m, b), x) = Made(c, r2, a2, m, x)
    BY With
  <2> QED
    BY <1>4, <2>1, <2>3, <2>5, <2>7, <2>8 DEF r2, a2
<1>5. CASE e.type = "completed"
  <2> DEFINE r2 == RunAfter(v, e)
             a2 == {d \in v.active : d.id # e.run}
             x == v.bubbles \ {e.run}
  <2>1. Reduced(v, e) = Ends(v, e.run)
    BY <1>5 DEF Reduced
  <2>2. Ends(v, e.run) = WithRun(WithBubbles(WithActive(v, a2), x),
                           IF v.run.id # e.run THEN v.run
                           ELSE IF a2 = {} THEN NoRun ELSE CHOOSE d \in a2 : TRUE)
    BY DEF Ends, WithRun, WithBubbles, WithActive
  <2>3. r2 = IF v.run.id # e.run THEN v.run
             ELSE IF a2 = {} THEN NoRun ELSE CHOOSE d \in a2 : TRUE
    BY <1>5 DEF RunAfter
  <2>4. ActiveAfter(v, e) = a2 /\ MessagesAfter(v, e) = m /\ BubblesAfter(v, e) = x
    BY <1>5 DEF ActiveAfter, MessagesAfter, BubblesAfter
  <2>5. Reduced(v, e) = WithRun(WithBubbles(WithActive(v, a2), x), r2)
    BY <2>1, <2>2, <2>3
  <2> HIDE DEF r2, a2, x
  <2>6. WithRun(WithBubbles(WithActive(Made(c, r, a, m, b), a2), x), r2) = Made(c, r2, a2, m, x)
    BY ChangedEnd
  <2> QED
    BY <1>0, <1>5, <2>4, <2>5, <2>6 DEF r2
<1>6. CASE e.type \in {"card", "answered", "note", "reply"}
  <2> DEFINE x == v.bubbles \ {e.run}
             m2 == MessagesAfter(v, e)
  <2>1. Reduced(v, e) = Message(v, e)
    BY <1>6 DEF Reduced
  <2>2. Message(v, e) = WithMessages(WithBubbles(v, x), m2)
    <3> DEFINE m3 == CASE e.type = "card"     -> [v.messages EXCEPT !.card[e.run] = "open"]
                       [] e.type = "answered" -> [v.messages EXCEPT !.card[e.run] = "answered"]
                       [] e.type = "reply"    -> [v.messages EXCEPT !.reply = @ \union {e.run}]
                       [] OTHER               -> v.messages
    <3>1. Message(v, e) = WithMessages(WithBubbles(v, x), m3)
      BY DEF Message, WithMessages, WithBubbles
    <3>2. m3 = m2
      BY <1>6 DEF MessagesAfter
    <3> QED
      BY <3>1, <3>2
  <2>3. RunAfter(v, e) = r /\ ActiveAfter(v, e) = a /\ BubblesAfter(v, e) = x
    BY <1>6 DEF RunAfter, ActiveAfter, BubblesAfter
  <2> HIDE DEF x, m2
  <2>4. WithMessages(WithBubbles(Made(c, r, a, m, b), x), m2) = Made(c, r, a, m2, x)
    BY ChangedText
  <2> QED
    BY <1>0, <1>6, <2>1, <2>2, <2>3, <2>4 DEF m2
<1> QED
  BY <1>1, <1>2, <1>3, <1>4, <1>5, <1>6 DEF EventTypes

LEMMA PartsTyped ==
  ASSUME NEW v \in View, NEW e \in Event, e.type # "cleared" => e.run \in RunIds
  PROVE  /\ RunAfter(v, e) \in ARun /\ ActiveAfter(v, e) \subseteq ARun
         /\ MessagesAfter(v, e) \in Messages /\ BubblesAfter(v, e) \subseteq RunIds
<1>0. /\ v.run \in ARun /\ v.active \subseteq ARun
      /\ v.messages \in Messages /\ v.bubbles \subseteq RunIds
  BY ViewFields
<1>1. e.type # "cleared" => \A t \in RunStatus : [id |-> e.run, status |-> t] \in ARun
  BY MadeRuns
<1>2. {"running", "waiting_input", "waiting_takeover"} \subseteq RunStatus
  BY DEF RunStatus
<1>3. RunAfter(v, e) \in ARun
  <2> DEFINE others == {a \in v.active : a.id # e.run}
  <2>1. others # {} => (CHOOSE a \in others : TRUE) \in ARun
    BY <1>0
  <2>2. RunAfter(v, e) \in {NoRun, v.run, CHOOSE a \in others : TRUE}
          \union {[id |-> e.run, status |-> t] : t \in {"running", e.type}}
    BY DEF RunAfter
  <2>3. CASE e.type = "completed"
    <3>1. RunAfter(v, e) = IF v.run.id # e.run THEN v.run
                           ELSE IF others = {} THEN NoRun ELSE CHOOSE a \in others : TRUE
      BY <2>3 DEF RunAfter
    <3> HIDE DEF others
    <3> QED
      BY <1>0, <2>1, <3>1, MadeRuns
  <2>4. CASE e.type # "completed"
    <3>1. RunAfter(v, e) \in {NoRun, v.run, [id |-> e.run, status |-> "running"]}
          \/ /\ RunAfter(v, e) = [id |-> e.run, status |-> e.type]
             /\ e.type \in {"waiting_input", "waiting_takeover"}
      BY <2>4 DEF RunAfter
    <3>2. e.type = "cleared" => RunAfter(v, e) = NoRun
      BY DEF RunAfter
    <3> QED
      BY <1>0, <1>1, <1>2, <3>1, <3>2, MadeRuns
  <2> QED
    BY <2>3, <2>4
<1>4. ActiveAfter(v, e) \subseteq ARun
  BY <1>0, <1>1, <1>2 DEF ActiveAfter
<1>5. MessagesAfter(v, e) \in Messages
  <2>1. NoMessage \in Messages
    BY DEF NoMessage, Messages
  <2>2. e.type # "cleared" =>
          /\ [v.messages EXCEPT !.card[e.run] = "open"] \in Messages
          /\ [v.messages EXCEPT !.card[e.run] = "answered"] \in Messages
          /\ [v.messages EXCEPT !.reply = @ \union {e.run}] \in Messages
    BY <1>0, MessagesTyped
  <2> QED
    BY <1>0, <2>1, <2>2 DEF MessagesAfter
<1>6. BubblesAfter(v, e) \subseteq RunIds
  BY <1>0 DEF BubblesAfter
<1> QED
  BY <1>3, <1>4, <1>5, <1>6

\* applyThreadEvent returns the view it was given.
Skips(v, e) == e.type \in {"waiting_input", "waiting_takeover"} /\ Reduced(v, e) = v

LEMMA AppliedIs ==
  ASSUME NEW v \in View, NEW e, e.type \in EventTypes
  PROVE  Applied(v, e) = IF Skips(v, e) THEN v
                         ELSE Made(e.seq, RunAfter(v, e), ActiveAfter(v, e),
                                   MessagesAfter(v, e), BubblesAfter(v, e))
<1>1. Applied(v, e) = IF Skips(v, e) THEN v ELSE WithCursor(Reduced(v, e), e.seq)
  BY DEF Applied, Skips, WithCursor
<1> DEFINE c == IF e.type = "cleared" THEN 0 ELSE v.cursor
<1>2. Reduced(v, e) = Made(c, RunAfter(v, e), ActiveAfter(v, e), MessagesAfter(v, e),
                           BubblesAfter(v, e))
  BY ReducedIs
<1> HIDE DEF c
<1>3. WithCursor(Reduced(v, e), e.seq) = Made(e.seq, RunAfter(v, e), ActiveAfter(v, e),
                                              MessagesAfter(v, e), BubblesAfter(v, e))
  BY <1>2, With
<1> QED
  BY <1>1, <1>3

LEMMA AppliedTyped ==
  ASSUME NEW v \in View, NEW e \in Event, e.type # "cleared" => e.run \in RunIds
  PROVE  Applied(v, e) \in View
<1>1. e.seq \in 0..MaxSeq /\ e.type \in EventTypes
  BY DEF Event
<1> QED
  BY <1>1, PartsTyped, AppliedIs, MadeTyped

\* The two cases in which reconcileRefreshedThread keeps something of the view.
Keeps(v, snap)   == v.run.status = "waiting_takeover" /\ snap.run.id = v.run.id
Revives(v, snap) == v.run = NoRun /\ snap.run # NoRun /\ snap.run.id \in v.bubbles

LEMMA ReconciledIs ==
  ASSUME NEW v \in View, NEW snap \in View
  PROVE  Reconciled(v, snap) =
           IF snap.cursor < v.cursor
             THEN IF Revives(v, snap)
                    THEN Made(v.cursor, snap.run, {snap.run}, v.messages, v.bubbles) ELSE v
             ELSE IF Keeps(v, snap)
                    THEN Made(snap.cursor, v.run, {v.run}, snap.messages, snap.bubbles) ELSE snap
<1>1. Reconciled(v, snap) =
           IF snap.cursor < v.cursor
             THEN IF Revives(v, snap)
                    THEN WithActive(WithRun(v, snap.run), {snap.run}) ELSE v
             ELSE IF Keeps(v, snap)
                    THEN WithActive(WithRun(snap, v.run), {v.run}) ELSE snap
  BY DEF Reconciled, Revives, Keeps, WithActive, WithRun
<1>2. WithActive(WithRun(v, snap.run), {snap.run}) =
        Made(v.cursor, snap.run, {snap.run}, v.messages, v.bubbles)
  BY MadeOfFields, ChangedRun
<1>3. WithActive(WithRun(snap, v.run), {v.run}) =
        Made(snap.cursor, v.run, {v.run}, snap.messages, snap.bubbles)
  BY MadeOfFields, ChangedRun
<1> QED
  BY <1>1, <1>2, <1>3

LEMMA ReconciledTyped ==
  ASSUME NEW v \in View, NEW snap \in View
  PROVE  Reconciled(v, snap) \in View
<1>1. /\ v.cursor \in 0..MaxSeq /\ v.run \in ARun /\ v.messages \in Messages
      /\ v.bubbles \subseteq RunIds /\ snap.cursor \in 0..MaxSeq /\ snap.run \in ARun
      /\ snap.messages \in Messages /\ snap.bubbles \subseteq RunIds
  BY ViewFields
<1>2. /\ Made(v.cursor, snap.run, {snap.run}, v.messages, v.bubbles) \in View
      /\ Made(snap.cursor, v.run, {v.run}, snap.messages, snap.bubbles) \in View
  BY <1>1, MadeTyped
<1> QED
  BY <1>2, ReconciledIs

-----------------------------------------------------------------------------
(* Replaying what waited *)

LEMMA NumbersWellFounded == IsWellFoundedOn({ss \in Nat \X Nat : ss[1] < ss[2]}, Nat)
  BY NatLessThanWellFounded, Zenon DEF OpToRel

LEMMA LeastNumber ==
  ASSUME NEW T \in SUBSET Nat, T # {}
  PROVE  \E n \in T : \A m \in T : n <= m
<1> DEFINE R == {ss \in Nat \X Nat : ss[1] < ss[2]}
<1>1. IsWellFoundedOn(R, Nat)
  BY NumbersWellFounded
<1> HIDE DEF R
<1>2. PICK n \in T : \A m \in T : ~ (<<m, n>> \in R)
  BY <1>1, WFMin
<1>3. \A m \in T : ~ (m < n)
  BY <1>2 DEF R
<1> QED
  BY <1>3

LEMMA CountUp ==
  ASSUME NEW top \in Nat, NEW G, 0 \in G, \A n \in 1..top : n - 1 \in G => n \in G
  PROVE  \A n \in 0..top : n \in G
<1> DEFINE T == (0..top) \ G
<1> SUFFICES ASSUME T # {} PROVE FALSE
  OBVIOUS
<1>0. T \in SUBSET Nat
  OBVIOUS
<1>1. PICK n \in T : \A m \in T : n <= m
  <2> HIDE DEF T
  <2> QED
    BY <1>0, LeastNumber
<1>2. n \in 1..top /\ n - 1 \in 0..top /\ ~ (n <= n - 1)
  BY <1>1
<1> QED
  BY <1>1, <1>2

\* Replayed, one number at a time: the function in its definition exists.
ReplayStep(events, x, n) ==
  IF \E e \in events : e.seq = n THEN Applied(x, CHOOSE e \in events : e.seq = n) ELSE x

Chain(view, events, h, top) ==
  h = [n \in 0..top |-> IF n = 0 THEN view ELSE ReplayStep(events, h[n - 1], n)]

LEMMA ChainsExist ==
  ASSUME NEW view, NEW events, NEW top \in Nat
  PROVE  \E h : Chain(view, events, h, top)
<1> DEFINE G == {n \in 0..top : \E h : Chain(view, events, h, n)}
<1>1. 0 \in G
  <2> DEFINE h == [n \in 0..0 |-> view]
  <2>1. Chain(view, events, h, 0)
    BY DEF Chain
  <2> QED
    BY <2>1
<1>2. ASSUME NEW n \in 1..top, n - 1 \in G PROVE n \in G
  <2>1. PICK h : Chain(view, events, h, n - 1)
    BY <1>2
  <2> DEFINE g == [k \in 0..n |-> IF k = n THEN ReplayStep(events, h[n - 1], n) ELSE h[k]]
  <2>2. \A k \in 0..(n - 1) : g[k] = h[k]
    OBVIOUS
  <2>3. \A k \in 0..(n - 1) : h[k] = IF k = 0 THEN view ELSE ReplayStep(events, h[k - 1], k)
    BY <2>1 DEF Chain
  <2>4. \A k \in 0..n : g[k] = IF k = 0 THEN view ELSE ReplayStep(events, g[k - 1], k)
    <3> SUFFICES ASSUME NEW k \in 0..n
                 PROVE  g[k] = IF k = 0 THEN view ELSE ReplayStep(events, g[k - 1], k)
      OBVIOUS
    <3>1. CASE k = n
      BY <2>2, <3>1
    <3>2. CASE k # n
      <4>1. k \in 0..(n - 1) /\ (k # 0 => k - 1 \in 0..(n - 1))
        BY <3>2
      <4> HIDE DEF g
      <4> QED
        BY <2>2, <2>3, <4>1
    <3> QED
      BY <3>1, <3>2
  <2>5. g = [k \in 0..n |-> g[k]]
    OBVIOUS
  <2> HIDE DEF g
  <2>6. Chain(view, events, g, n)
    BY <2>4, <2>5 DEF Chain
  <2> QED
    BY <2>6
<1> HIDE DEF G
<1>3. top \in G
  BY <1>1, <1>2, CountUp
<1> QED
  BY <1>3 DEF G

LEMMA ReplayedIs ==
  ASSUME NEW view, NEW events
  PROVE  \E h : Chain(view, events, h, MaxSeq) /\ Replayed(view, events) = h[MaxSeq]
<1> DEFINE f == CHOOSE h : Chain(view, events, h, MaxSeq)
<1>1. Chain(view, events, f, MaxSeq)
  BY ChainsExist
<1>2. Replayed(view, events) = f[MaxSeq]
  BY DEF Replayed, Chain, ReplayStep
<1> QED
  BY <1>1, <1>2

-----------------------------------------------------------------------------
(* What a view that is behind the log shows *)

Waiting == {"waiting_input", "waiting_takeover"}

\* Events that tell of the run; those after which nothing of an earlier run matters; those
\* that tell of a run's card, of its reply, and that a run stopped working.
OfRun(e)        == e.type \in {"started", "completed", "cleared"} \union Waiting
Fresh(e)        == e.type \in {"started", "cleared"}
Of(e, r, types) == e.type = "cleared" \/ (e.type \in types /\ e.run = r)
OfCard(e, r)    == Of(e, r, {"card", "answered"})
OfReply(e, r)   == Of(e, r, {"reply"})
Drops(e, r)     == Of(e, r, {"completed", "waiting_input"})

\* What a client that received everything up to k has yet to receive of thread t.
Ahead(t, k) == {e \in t.events : e.seq > k}

\* What the newest event of a run says of the run; it may have been queued again since.
Tells(t, e) ==
  /\ e.type = "started" => t.run = [id |-> e.run, status |-> "running"]
  /\ e.type \in Waiting => t.run.id = e.run /\ t.run.status \in {e.type, "queued"}
  /\ e.type \in {"completed", "cleared"} => t.run = NoRun \/ t.run.status = "queued"

NewestOfRun(t, e) ==
  e \in t.events /\ OfRun(e) /\ \A f \in t.events : OfRun(f) => f.seq <= e.seq

NewestTells(t) ==
  IF \E e \in t.events : OfRun(e)
    THEN \E e \in t.events : NewestOfRun(t, e) /\ Tells(t, e)
    ELSE t.run = NoRun \/ t.run.status = "queued"

\* A run starts right before it waits or completes.
StartsBefore(t, f) ==
  \E e \in t.events :
    /\ e.type = "started" /\ e.run = f.run /\ e.seq < f.seq
    /\ \A g \in t.events : OfRun(g) => g.seq <= e.seq \/ g.seq >= f.seq

\* The log tells the run: by its newest event, by the order of events, by its progress.
RunTold(t) ==
  /\ NewestTells(t)
  /\ \A f \in t.events : OfRun(f) /\ ~Fresh(f) => StartsBefore(t, f)
  /\ \A f \in t.events : f.type = "waiting_input" =>
       \E e \in t.events : e.type = "card" /\ e.seq = f.seq - 1
  /\ \A f \in t.events : f.type = "card" =>
       \E e \in t.events : e.type = "waiting_input" /\ e.seq = f.seq + 1
  /\ \A e \in t.events : e.type = "progress" => t.run = [id |-> e.run, status |-> "running"]

CardOf(e) == CASE e.type = "card" -> "open" [] e.type = "answered" -> "answered" [] OTHER -> "none"

\* The log tells the messages: by the newest event of each card and reply.
MessagesTold(t) ==
  \A e \in t.events, r \in RunIds :
  /\ OfCard(e, r) /\ (\A f \in t.events : OfCard(f, r) => f.seq <= e.seq) =>
       t.messages.card[r] = CardOf(e)
  /\ OfReply(e, r) /\ (\A f \in t.events : OfReply(f, r) => f.seq <= e.seq) =>
       (r \in t.messages.reply <=> e.type = "reply")

\* A run is worked on, or an event ahead says that it is not.
Works(t, r, k) ==
  \/ t.run.id = r /\ t.run.status # "waiting_input"
  \/ \E e \in Ahead(t, k) : Drops(e, r)

\* The view's messages are the thread's, but for what events ahead say.
MessagesSettled(t, view, k) ==
  \A r \in RunIds :
  /\ (\A e \in Ahead(t, k) : ~OfCard(e, r)) => view.messages.card[r] = t.messages.card[r]
  /\ (\A e \in Ahead(t, k) : ~OfReply(e, r)) =>
       (r \in view.messages.reply <=> r \in t.messages.reply)

\* Nothing is asked of the view's run while the run is queued, which no event says, or
\* before a run's start or a clearing.
RunOpen(t, k) == t.run.status = "queued" \/ \E e \in Ahead(t, k) : Fresh(e)

\* Otherwise it is the thread's, or that of the one event of a run that is ahead.
RunSettled(t, view, k) ==
  ~RunOpen(t, k) =>
    /\ view.active = {view.run} \ {NoRun}
    /\ (\A e \in Ahead(t, k) : ~OfRun(e)) => view.run = t.run
    /\ \A e \in Ahead(t, k) : OfRun(e) => view.run = NoRun \/ view.run.id = e.run

BubblesSettled(t, view, k) == \A r \in view.bubbles : Works(t, r, k)

Settled(t, view, k) ==
  MessagesSettled(t, view, k) /\ RunSettled(t, view, k) /\ BubblesSettled(t, view, k)

\* The view's cursor may be behind the client's: applyThreadEvent leaves out waits that
\* the view shows.
OnlyWaits(t, view, k) ==
  \A e \in t.events : e.seq > view.cursor /\ e.seq <= k => e.type \in Waiting

Distinct(S) == \A e, f \in S : e.seq = f.seq => e = f

ThreadTyped(t) ==
  /\ t.run \in ARun /\ t.last \in 0..MaxRuns /\ t.messages \in Messages
  /\ t.events \subseteq Event /\ t.next \in 1..(MaxSeq + 1)
  /\ \A e \in t.events : e.type # "cleared" => e.run \in RunIds

\* What holds of the thread and its log.
Story(t) == ThreadTyped(t) /\ Distinct(t.events) /\ RunTold(t) /\ MessagesTold(t)

\* The event is the first one after k: what a client receives next.
Follows(t, k, e) ==
  e.seq > k /\ \A f \in t.events : f.seq > k => f.seq > e.seq \/ f = e

\* An event under way is in the log, or it was deleted with the run's progress or by a
\* later clearing.
Genuine(t, e) ==
  /\ \/ e \in t.events \/ e.type = "progress"
     \/ \E f \in t.events : f.type = "cleared" /\ f.seq > e.seq
  /\ e.type = "progress" => Works(t, e.run, e.seq)

LEMMA EventFields ==
  ASSUME NEW e \in Event
  PROVE  e.seq \in Nat \ {0} /\ e.seq \in 1..MaxSeq /\ e.type \in EventTypes
         /\ e.run \in 0..MaxRuns
  BY DEF Event

LEMMA AppliedParts ==
  ASSUME NEW v \in View, NEW e, e.type \in EventTypes
  PROVE  LET a == Applied(v, e) IN
         /\ a.run = RunAfter(v, e) /\ a.active = ActiveAfter(v, e)
         /\ a.messages = MessagesAfter(v, e) /\ a.bubbles = BubblesAfter(v, e)
         /\ IF Skips(v, e) THEN a = v ELSE a.cursor = e.seq
<1>1. CASE Skips(v, e)
  <2>1. Applied(v, e) = v
    BY <1>1, AppliedIs
  <2> DEFINE c == IF e.type = "cleared" THEN 0 ELSE v.cursor
  <2>2. v = Made(c, RunAfter(v, e), ActiveAfter(v, e), MessagesAfter(v, e), BubblesAfter(v, e))
    BY <1>1, ReducedIs DEF Skips
  <2> HIDE DEF c
  <2>3. /\ v.run = RunAfter(v, e) /\ v.active = ActiveAfter(v, e)
        /\ v.messages = MessagesAfter(v, e) /\ v.bubbles = BubblesAfter(v, e)
    BY <2>2, FieldsOfMade
  <2> QED
    BY <1>1, <2>1, <2>3
<1>2. CASE ~Skips(v, e)
  BY <1>2, AppliedIs, FieldsOfMade
<1> QED
  BY <1>1, <1>2

LEMMA MessagesThen ==
  ASSUME NEW v \in View, NEW e \in Event, e.type # "cleared" => e.run \in RunIds,
         NEW r \in RunIds
  PROVE  LET m == MessagesAfter(v, e) IN
         /\ m.card[r] = IF OfCard(e, r) THEN CardOf(e) ELSE v.messages.card[r]
         /\ r \in m.reply <=> IF OfReply(e, r) THEN e.type = "reply" ELSE r \in v.messages.reply
<1>0. v.messages \in Messages /\ e.type \in EventTypes
  BY ViewFields, EventFields
<1> DEFINE m == MessagesAfter(v, e)
<1>1. CASE e.type = "cleared"
  <2>1. m = NoMessage
    BY <1>1 DEF MessagesAfter
  <2> QED
    BY <1>1, <2>1 DEF NoMessage, OfCard, OfReply, Of, CardOf
<1>2. CASE e.type = "card"
  <2>1. m = [v.messages EXCEPT !.card[e.run] = "open"]
    BY <1>2 DEF MessagesAfter
  <2>2. m.card[r] = (IF e.run = r THEN "open" ELSE v.messages.card[r])
        /\ m.reply = v.messages.reply
    BY <1>0, <1>2, <2>1 DEF Messages
  <2> QED
    BY <1>2, <2>2 DEF OfCard, OfReply, Of, CardOf
<1>3. CASE e.type = "answered"
  <2>1. m = [v.messages EXCEPT !.card[e.run] = "answered"]
    BY <1>3 DEF MessagesAfter
  <2>2. m.card[r] = (IF e.run = r THEN "answered" ELSE v.messages.card[r])
        /\ m.reply = v.messages.reply
    BY <1>0, <1>3, <2>1 DEF Messages
  <2> QED
    BY <1>3, <2>2 DEF OfCard, OfReply, Of, CardOf
<1>4. CASE e.type = "reply"
  <2>1. m = [v.messages EXCEPT !.reply = @ \union {e.run}]
    BY <1>4 DEF MessagesAfter
  <2>2. m.card = v.messages.card /\ m.reply = v.messages.reply \union {e.run}
    BY <1>0, <2>1 DEF Messages
  <2> QED
    BY <1>4, <2>2 DEF OfCard, OfReply, Of
<1>5. CASE e.type \notin {"cleared", "card", "answered", "reply"}
  <2>1. m = v.messages
    BY <1>5 DEF MessagesAfter
  <2> QED
    BY <1>5, <2>1 DEF OfCard, OfReply, Of
<1> QED
  BY <1>1, <1>2, <1>3, <1>4, <1>5

-----------------------------------------------------------------------------
(* Applying an event *)

\* What is ahead, before and after an event that follows.
LEMMA AheadAfter ==
  ASSUME NEW t, ThreadTyped(t), NEW k \in Nat, NEW e \in Event, Follows(t, k, e)
  PROVE  /\ Ahead(t, e.seq) \subseteq Ahead(t, k)
         /\ \A f \in Ahead(t, k) : f = e \/ f \in Ahead(t, e.seq)
         /\ e \in t.events => e \in Ahead(t, k)
         /\ \A f \in t.events : f.seq > e.seq => f \in Ahead(t, e.seq)
<1>1. \A f \in t.events : f.seq \in Nat
  BY EventFields DEF ThreadTyped
<1>2. e.seq \in Nat
  BY EventFields
<1> QED
  BY <1>1, <1>2 DEF Ahead, Follows

LEMMA MessagesSettle ==
  ASSUME NEW t, Story(t), NEW v \in View, NEW k \in Nat, MessagesSettled(t, v, k),
         NEW e \in Event, e.type # "cleared" => e.run \in RunIds, Follows(t, k, e),
         e \in t.events \/ \A r \in RunIds : ~OfCard(e, r) /\ ~OfReply(e, r)
  PROVE  MessagesSettled(t, Applied(v, e), e.seq)
<1> DEFINE m == MessagesAfter(v, e)
<1>1. Applied(v, e).messages = m
  BY AppliedParts, EventFields
<1>2. /\ \A f \in Ahead(t, k) : f = e \/ f \in Ahead(t, e.seq)
      /\ \A f \in t.events : f.seq > e.seq => f \in Ahead(t, e.seq)
  BY AheadAfter DEF Story
<1>3. \A f \in t.events : f.seq \in Nat
  BY EventFields DEF Story, ThreadTyped
<1>4. e.seq \in Nat
  BY EventFields
<1> SUFFICES ASSUME NEW r \in RunIds
             PROVE  /\ (\A f \in Ahead(t, e.seq) : ~OfCard(f, r)) => m.card[r] = t.messages.card[r]
                    /\ (\A f \in Ahead(t, e.seq) : ~OfReply(f, r)) =>
                         (r \in m.reply <=> r \in t.messages.reply)
  BY <1>1 DEF MessagesSettled
<1>5. /\ m.card[r] = IF OfCard(e, r) THEN CardOf(e) ELSE v.messages.card[r]
      /\ r \in m.reply <=> IF OfReply(e, r) THEN e.type = "reply" ELSE r \in v.messages.reply
  BY MessagesThen
<1> HIDE DEF m
<1>6. ASSUME \A f \in Ahead(t, e.seq) : ~OfCard(f, r)
      PROVE  m.card[r] = t.messages.card[r]
  <2>1. CASE OfCard(e, r)
    <3>1. e \in t.events
      BY <2>1
    <3>2. \A f \in t.events : OfCard(f, r) => f.seq <= e.seq
      BY <1>2, <1>3, <1>4, <1>6
    <3>3. t.messages.card[r] = CardOf(e)
      BY <2>1, <3>1, <3>2 DEF Story, MessagesTold
    <3> QED
      BY <1>5, <2>1, <3>3
  <2>2. CASE ~OfCard(e, r)
    <3>1. \A f \in Ahead(t, k) : ~OfCard(f, r)
      BY <1>2, <1>6, <2>2
    <3>2. v.messages.card[r] = t.messages.card[r]
      BY <3>1 DEF MessagesSettled
    <3> QED
      BY <1>5, <2>2, <3>2
  <2> QED
    BY <2>1, <2>2
<1>7. ASSUME \A f \in Ahead(t, e.seq) : ~OfReply(f, r)
      PROVE  r \in m.reply <=> r \in t.messages.reply
  <2>1. CASE OfReply(e, r)
    <3>1. e \in t.events
      BY <2>1
    <3>2. \A f \in t.events : OfReply(f, r) => f.seq <= e.seq
      BY <1>2, <1>3, <1>4, <1>7
    <3>3. r \in t.messages.reply <=> e.type = "reply"
      BY <2>1, <3>1, <3>2 DEF Story, MessagesTold
    <3> QED
      BY <1>5, <2>1, <3>3
  <2>2. CASE ~OfReply(e, r)
    <3>1. \A f \in Ahead(t, k) : ~OfReply(f, r)
      BY <1>2, <1>7, <2>2
    <3>2. r \in v.messages.reply <=> r \in t.messages.reply
      BY <3>1 DEF MessagesSettled
    <3> QED
      BY <1>5, <2>2, <3>2
  <2> QED
    BY <2>1, <2>2
<1> QED
  BY <1>6, <1>7

LEMMA BubblesSettle ==
  ASSUME NEW t, ThreadTyped(t), NEW v \in View, NEW k \in Nat, BubblesSettled(t, v, k),
         NEW e \in Event, Follows(t, k, e), e.type = "progress" => Works(t, e.run, e.seq)
  PROVE  BubblesSettled(t, Applied(v, e), e.seq)
<1>1. Applied(v, e).bubbles = BubblesAfter(v, e)
  BY AppliedParts, EventFields
<1>2. \A f \in Ahead(t, k) : f = e \/ f \in Ahead(t, e.seq)
  BY AheadAfter
<1> SUFFICES ASSUME NEW r \in BubblesAfter(v, e) PROVE Works(t, r, e.seq)
  BY <1>1 DEF BubblesSettled
<1>3. CASE e.type = "progress" /\ r = e.run
  BY <1>3
<1>4. CASE ~ (e.type = "progress" /\ r = e.run)
  <2>1. r \in v.bubbles /\ ~Drops(e, r)
    BY <1>4 DEF BubblesAfter, Drops, Of
  <2>2. Works(t, r, k)
    BY <2>1 DEF BubblesSettled
  <2> QED
    BY <1>2, <2>1, <2>2 DEF Works
<1> QED
  BY <1>3, <1>4

LEMMA WaitsSettle ==
  ASSUME NEW t, ThreadTyped(t), NEW v \in View, NEW k \in Nat, OnlyWaits(t, v, k),
         NEW e \in Event, Follows(t, k, e)
  PROVE  OnlyWaits(t, Applied(v, e), e.seq)
<1>1. \A f \in t.events : f.seq \in Nat
  BY EventFields DEF ThreadTyped
<1>2. e.seq \in Nat /\ e.type \in EventTypes
  BY EventFields
<1>3. CASE Skips(v, e)
  <2>1. Applied(v, e) = v /\ e.type \in Waiting
    BY <1>2, <1>3, AppliedParts DEF Skips, Waiting
  <2> QED
    BY <1>1, <1>2, <2>1 DEF OnlyWaits, Follows
<1>4. CASE ~Skips(v, e)
  <2>1. Applied(v, e).cursor = e.seq
    BY <1>2, <1>4, AppliedParts
  <2> QED
    BY <1>1, <1>2, <2>1 DEF OnlyWaits
<1> QED
  BY <1>3, <1>4

\* When nothing fresh is ahead, at most one event of a run is.
LEMMA OneRunEvent ==
  ASSUME NEW t, Story(t), NEW k \in Nat, \A f \in Ahead(t, k) : ~Fresh(f),
         NEW e \in Ahead(t, k), NEW f \in Ahead(t, k), OfRun(e), OfRun(f)
  PROVE  e = f
<1>1. \A g \in t.events : g.seq \in Nat
  BY EventFields DEF Story, ThreadTyped
<1>2. ASSUME NEW a \in Ahead(t, k), NEW b \in Ahead(t, k), OfRun(a), OfRun(b), a.seq < b.seq
      PROVE  FALSE
  <2>1. a \in t.events /\ b \in t.events /\ a.seq > k /\ ~Fresh(b)
    BY <1>2 DEF Ahead
  <2>2. PICK s \in t.events :
          s.type = "started" /\ \A g \in t.events : OfRun(g) => g.seq <= s.seq \/ g.seq >= b.seq
    BY <1>2, <2>1 DEF Story, RunTold, StartsBefore
  <2>3. a.seq <= s.seq
    BY <1>1, <1>2, <2>1, <2>2
  <2>4. s \in Ahead(t, k)
    BY <1>1, <2>1, <2>3 DEF Ahead
  <2> QED
    BY <2>2, <2>4 DEF Fresh
<1>3. e.seq = f.seq
  BY <1>1, <1>2 DEF Ahead
<1> QED
  BY <1>3 DEF Story, Distinct, Ahead

\* The newest event of a run tells the run.
LEMMA NewestIs ==
  ASSUME NEW t, Story(t), NEW e, NewestOfRun(t, e)
  PROVE  Tells(t, e)
<1>1. PICK f \in t.events : NewestOfRun(t, f) /\ Tells(t, f)
  BY DEF Story, RunTold, NewestTells, NewestOfRun
<1>2. e.seq \in Nat /\ f.seq \in Nat
  BY EventFields DEF Story, ThreadTyped, NewestOfRun
<1>3. e = f
  BY <1>1, <1>2 DEF NewestOfRun, Story, Distinct
<1> QED
  BY <1>1, <1>3

LEMMA RunSettles ==
  ASSUME NEW t, Story(t), NEW v \in View, NEW k \in Nat, RunSettled(t, v, k),
         NEW e \in Event, e.type # "cleared" => e.run \in RunIds, Follows(t, k, e),
         e \in t.events \/ ~OfRun(e)
  PROVE  RunSettled(t, Applied(v, e), e.seq)
<1> DEFINE a == Applied(v, e)
           run == [id |-> e.run, status |-> e.type]
<1>0. a.run = RunAfter(v, e) /\ a.active = ActiveAfter(v, e)
  BY AppliedParts, EventFields
<1>1. /\ \A f \in Ahead(t, k) : f = e \/ f \in Ahead(t, e.seq)
      /\ Ahead(t, e.seq) \subseteq Ahead(t, k)
      /\ e \in t.events => e \in Ahead(t, k)
      /\ \A f \in t.events : f.seq > e.seq => f \in Ahead(t, e.seq)
  BY AheadAfter DEF Story
<1>2. /\ e.seq \in Nat /\ \A f \in t.events : f.seq \in Nat
      /\ \A f \in Ahead(t, e.seq) : f \in t.events /\ f.seq > e.seq
      /\ 0 \notin RunIds
  BY EventFields, RunIdsAreNumbers DEF Story, ThreadTyped, Ahead
<1> HIDE DEF a
<1> SUFFICES ASSUME t.run.status # "queued", \A f \in Ahead(t, e.seq) : ~Fresh(f)
             PROVE  /\ a.active = {a.run} \ {NoRun}
                    /\ (\A f \in Ahead(t, e.seq) : ~OfRun(f)) => a.run = t.run
                    /\ \A f \in Ahead(t, e.seq) : OfRun(f) => a.run = NoRun \/ a.run.id = f.run
  BY DEF RunSettled, RunOpen, a
\* The newest event of a run is this one, if none is ahead of it.
<1>3. ASSUME OfRun(e), \A f \in Ahead(t, e.seq) : ~OfRun(f) PROVE Tells(t, e)
  <2>1. e \in t.events /\ \A f \in t.events : OfRun(f) => f.seq <= e.seq
    BY <1>1, <1>2, <1>3
  <2>2. NewestOfRun(t, e)
    BY <1>3, <2>1 DEF NewestOfRun
  <2> QED
    BY <2>2, NewestIs
\* What is ahead of it started right before.
<1>4. ASSUME NEW f \in Ahead(t, e.seq), OfRun(e), OfRun(f)
      PROVE  e.type = "started" /\ e.run = f.run
  <2>1. PICK s \in t.events :
          /\ s.type = "started" /\ s.run = f.run /\ s.seq < f.seq
          /\ \A g \in t.events : OfRun(g) => g.seq <= s.seq \/ g.seq >= f.seq
    BY <1>2, <1>4 DEF Story, RunTold, StartsBefore
  <2>2. e.seq <= s.seq
    BY <1>1, <1>2, <1>4, <2>1
  <2>3. s \notin Ahead(t, e.seq)
    BY <2>1 DEF Fresh
  <2>4. s.seq = e.seq
    BY <1>1, <1>2, <2>1, <2>2, <2>3
  <2>5. s = e
    BY <1>4, <2>1, <2>4 DEF Story, Distinct
  <2> QED
    BY <2>1, <2>5
\* What the view shows before it.
<1>5. ASSUME ~Fresh(e)
      PROVE  /\ v.active = {v.run} \ {NoRun}
             /\ (\A f \in Ahead(t, k) : ~OfRun(f)) => v.run = t.run
             /\ \A f \in Ahead(t, k) : OfRun(f) => v.run = NoRun \/ v.run.id = f.run
  <2>1. ~RunOpen(t, k)
    BY <1>1, <1>5 DEF RunOpen
  <2> QED
    BY <2>1 DEF RunSettled
<1>6. CASE ~OfRun(e)
  <2>1. a.run = v.run /\ a.active = v.active
    BY <1>0, <1>6 DEF RunAfter, ActiveAfter, OfRun, Waiting
  <2>2. ~Fresh(e)
    BY <1>6 DEF Fresh, OfRun
  <2> QED
    BY <1>1, <1>5, <1>6, <2>1, <2>2
<1>7. CASE e.type = "cleared"
  <2>1. a.run = NoRun /\ a.active = {}
    BY <1>0, <1>7 DEF RunAfter, ActiveAfter
  <2>2. OfRun(e)
    BY <1>7 DEF OfRun
  <2>3. Tells(t, e) => t.run = NoRun
    BY <1>7 DEF Tells, Waiting
  <2> QED
    BY <1>3, <2>1, <2>2, <2>3
<1>8. CASE e.type = "started"
  <2> DEFINE now == [id |-> e.run, status |-> "running"]
  <2>1. a.run = now /\ a.active = {now}
    BY <1>0, <1>8 DEF RunAfter, ActiveAfter
  <2>2. OfRun(e) /\ now # NoRun /\ now.id = e.run
    BY <1>2, <1>8 DEF OfRun, NoRun
  <2>3. Tells(t, e) => t.run = now
    BY <1>8 DEF Tells
  <2> HIDE DEF now
  <2>4. {now} = {now} \ {NoRun}
    BY <2>2
  <2>5. \A f \in Ahead(t, e.seq) : OfRun(f) => a.run.id = f.run
    BY <1>4, <2>1, <2>2
  <2>6. (\A f \in Ahead(t, e.seq) : ~OfRun(f)) => a.run = t.run
    BY <1>3, <2>1, <2>2, <2>3
  <2> QED
    BY <2>1, <2>4, <2>5, <2>6
<1>9. CASE e.type \in Waiting
  <2>1. OfRun(e) /\ ~Fresh(e) /\ e \in Ahead(t, k)
    BY <1>1, <1>9 DEF OfRun, Fresh, Waiting
  <2>2. v.active = {v.run} \ {NoRun} /\ (v.run = NoRun \/ v.run.id = e.run)
    BY <1>5, <2>1
  <2>3. e.run \in RunIds /\ e.run # 0 /\ run # NoRun
    BY <1>2, <1>9 DEF NoRun, Waiting
  <2>4. a.run = run /\ a.active = {run}
    <3>1. CASE v.run = NoRun
      <4>1. v.active = {} /\ v.run.id = 0 /\ v.run.status = "none"
        BY <2>2, <3>1 DEF NoRun
      <4>2. ~Known(v, e.run)
        BY <2>3, <4>1 DEF Known
      <4>3. RunAfter(v, e) = run
        BY <1>9, <4>1, <4>2 DEF RunAfter, Waiting
      <4>4. ActiveAfter(v, e) = v.active \union {run}
        BY <1>9, <4>2 DEF ActiveAfter, Waiting
      <4> QED
        BY <1>0, <4>1, <4>3, <4>4
    <3>2. CASE v.run # NoRun
      <4>1. v.active = {v.run} /\ v.run.id = e.run
        BY <2>2, <3>2
      <4>2. Known(v, e.run)
        BY <4>1 DEF Known
      <4>3. RunAfter(v, e) = run
        BY <1>9, <4>1 DEF RunAfter, Waiting
      <4>4. ActiveAfter(v, e) = {IF d.id = e.run THEN run ELSE d : d \in v.active}
        BY <1>9, <4>2 DEF ActiveAfter, Waiting
      <4>5. ActiveAfter(v, e) = {run}
        BY <4>1, <4>4
      <4> QED
        BY <1>0, <4>3, <4>5
    <3> QED
      BY <3>1, <3>2
  <2>5. Tells(t, e) => t.run.id = e.run /\ t.run.status = e.type
    BY <1>9 DEF Tells, Waiting
  <2>6. t.run = [id |-> t.run.id, status |-> t.run.status]
    BY RunFields DEF Story, ThreadTyped
  <2>7. Tells(t, e) => t.run = run
    BY <2>5, <2>6
  <2>8. \A f \in Ahead(t, e.seq) : ~OfRun(f)
    BY <1>4, <1>9, <2>1 DEF Waiting
  <2> QED
    BY <1>3, <2>1, <2>3, <2>4, <2>7, <2>8
<1>10. CASE e.type = "completed"
  <2>1. OfRun(e) /\ ~Fresh(e) /\ e \in Ahead(t, k)
    BY <1>1, <1>10 DEF OfRun, Fresh
  <2>2. v.active = {v.run} \ {NoRun} /\ (v.run = NoRun \/ v.run.id = e.run)
    BY <1>5, <2>1
  <2>3. {d \in v.active : d.id # e.run} = {}
    BY <2>2
  <2>4. a.active = {} /\ a.run = NoRun
    BY <1>0, <1>10, <2>2, <2>3 DEF RunAfter, ActiveAfter
  <2>5. Tells(t, e) => t.run = NoRun
    BY <1>10 DEF Tells, Waiting
  <2> QED
    BY <1>3, <2>1, <2>4, <2>5
<1> QED
  BY <1>6, <1>7, <1>8, <1>9, <1>10 DEF OfRun

\* An event that is cleared later leaves everything open.
LEMMA OpenSettles ==
  ASSUME NEW t, NEW v, NEW k, NEW f \in Ahead(t, k), f.type = "cleared"
  PROVE  Settled(t, v, k)
<1>1. Fresh(f) /\ \A r : OfCard(f, r) /\ OfReply(f, r) /\ Drops(f, r)
  BY DEF Fresh, OfCard, OfReply, Drops, Of
<1> QED
  BY <1>1 DEF Settled, MessagesSettled, RunSettled, RunOpen, BubblesSettled, Works

LEMMA AppliedSettles ==
  ASSUME NEW t, Story(t), NEW v \in View, NEW k \in Nat, Settled(t, v, k), OnlyWaits(t, v, k),
         NEW e \in Event, e.type # "cleared" => e.run \in RunIds, Follows(t, k, e),
         Genuine(t, e)
  PROVE  Settled(t, Applied(v, e), e.seq) /\ OnlyWaits(t, Applied(v, e), e.seq)
<1>1. OnlyWaits(t, Applied(v, e), e.seq)
  BY WaitsSettle DEF Story
<1>2. CASE e \in t.events \/ e.type = "progress"
  <2>1. e \in t.events \/ (~OfRun(e) /\ \A r \in RunIds : ~OfCard(e, r) /\ ~OfReply(e, r))
    BY <1>2 DEF OfRun, Waiting, OfCard, OfReply, Of
  <2>2. MessagesSettled(t, Applied(v, e), e.seq)
    BY <2>1, MessagesSettle DEF Settled
  <2>3. RunSettled(t, Applied(v, e), e.seq)
    BY <2>1, RunSettles DEF Settled
  <2>4. BubblesSettled(t, Applied(v, e), e.seq)
    BY BubblesSettle DEF Settled, Story, Genuine
  <2> QED
    BY <1>1, <2>2, <2>3, <2>4 DEF Settled
<1>3. CASE \E f \in t.events : f.type = "cleared" /\ f.seq > e.seq
  <2>1. PICK f \in Ahead(t, e.seq) : f.type = "cleared"
    BY <1>3 DEF Ahead
  <2> QED
    BY <1>1, <2>1, OpenSettles
<1> QED
  BY <1>2, <1>3 DEF Genuine

-----------------------------------------------------------------------------
(* Snapshots *)

\* A view that is settled without some waits that the log has since.
SnapshotFits(t, snap) ==
  /\ snap \in View /\ Settled(t, snap, snap.cursor)
  /\ ~RunOpen(t, snap.cursor) =>
       \A e \in Ahead(t, snap.cursor) : OfRun(e) => snap.run.id = e.run
  /\ \A e \in t.events : e.type = "card" => e.seq # snap.cursor

LEMMA Seqs ==
  ASSUME NEW t, ThreadTyped(t)
  PROVE  /\ \A e \in t.events : e.seq \in Nat
         /\ \A k \in Nat, j \in Nat : j <= k => Ahead(t, k) \subseteq Ahead(t, j)
         /\ \A k \in Nat, j \in Nat : \A e \in Ahead(t, j) :
              e \in Ahead(t, k) \/ (e \in t.events /\ e.seq > j /\ e.seq <= k)
<1>1. \A e \in t.events : e.seq \in Nat
  BY EventFields DEF ThreadTyped
<1> QED
  BY <1>1 DEF Ahead

\* The newest event of a run, if it is all that is ahead.
LEMMA OnlyRunEvent ==
  ASSUME NEW t, Story(t), NEW k \in Nat, ~RunOpen(t, k), NEW e \in Ahead(t, k), OfRun(e)
  PROVE  /\ Tells(t, e)
         /\ e.type \in Waiting \/ e.type = "completed"
         /\ e.type \in Waiting => t.run = [id |-> e.run, status |-> e.type]
         /\ e.type = "completed" => t.run = NoRun
         /\ t.run = NoRun \/ t.run.id = e.run
<1>1. \A f \in Ahead(t, k) : ~Fresh(f)
  BY DEF RunOpen
<1>2. \A f \in t.events : f.seq \in Nat
  BY Seqs DEF Story
<1>3. \A f \in t.events : OfRun(f) => f.seq <= e.seq
  <2> SUFFICES ASSUME NEW f \in t.events, OfRun(f) PROVE f.seq <= e.seq
    OBVIOUS
  <2>1. CASE f \in Ahead(t, k)
    BY <1>1, <1>2, <2>1, OneRunEvent
  <2>2. CASE f \notin Ahead(t, k)
    BY <1>2, <2>2 DEF Ahead
  <2> QED
    BY <2>1, <2>2
<1>4. Tells(t, e)
  BY <1>3, NewestIs DEF NewestOfRun, Ahead
<1>5. e.type \in Waiting \/ e.type = "completed"
  BY <1>1 DEF OfRun, Fresh
<1>6. t.run.status # "queued"
  BY DEF RunOpen
<1>7. t.run = [id |-> t.run.id, status |-> t.run.status]
  BY RunFields DEF Story, ThreadTyped
<1> QED
  BY <1>4, <1>5, <1>6, <1>7 DEF Tells

\* A settled view is settled for a client that has seen less.
LEMMA SettledBack ==
  ASSUME NEW t, Story(t), NEW v \in View, NEW s \in Nat, NEW c \in Nat, c <= s, Settled(t, v, s)
  PROVE  Settled(t, v, c)
<1>1. Ahead(t, s) \subseteq Ahead(t, c)
  BY Seqs DEF Story
<1>2. MessagesSettled(t, v, c)
  BY <1>1 DEF Settled, MessagesSettled
<1>3. BubblesSettled(t, v, c)
  BY <1>1 DEF Settled, BubblesSettled, Works
<1>4. RunSettled(t, v, c)
  <2> SUFFICES ASSUME ~RunOpen(t, c)
               PROVE  /\ v.active = {v.run} \ {NoRun}
                      /\ (\A e \in Ahead(t, c) : ~OfRun(e)) => v.run = t.run
                      /\ \A e \in Ahead(t, c) : OfRun(e) => v.run = NoRun \/ v.run.id = e.run
    BY DEF RunSettled
  <2>1. ~RunOpen(t, s) /\ \A f \in Ahead(t, c) : ~Fresh(f)
    BY <1>1 DEF RunOpen
  <2>2. /\ v.active = {v.run} \ {NoRun}
        /\ (\A e \in Ahead(t, s) : ~OfRun(e)) => v.run = t.run
        /\ \A e \in Ahead(t, s) : OfRun(e) => v.run = NoRun \/ v.run.id = e.run
    BY <2>1 DEF Settled, RunSettled
  <2>3. ASSUME NEW e \in Ahead(t, c), OfRun(e) PROVE v.run = NoRun \/ v.run.id = e.run
    <3>1. CASE \E f \in Ahead(t, s) : OfRun(f)
      <4>1. PICK f \in Ahead(t, s) : OfRun(f)
        BY <3>1
      <4>2. e = f
        BY <1>1, <2>1, <2>3, <4>1, OneRunEvent
      <4> QED
        BY <2>2, <4>1, <4>2
    <3>2. CASE \A f \in Ahead(t, s) : ~OfRun(f)
      <4>1. v.run = t.run
        BY <2>2, <3>2
      <4>2. t.run = NoRun \/ t.run.id = e.run
        BY <2>3, OnlyRunEvent
      <4> QED
        BY <4>1, <4>2
    <3> QED
      BY <3>1, <3>2
  <2> QED
    BY <1>1, <2>2, <2>3
<1> QED
  BY <1>2, <1>3, <1>4 DEF Settled

\* What a snapshot says of messages and bubbles holds on while there are only waits.
LEMMA SnapshotParts ==
  ASSUME NEW t, Story(t), NEW snap, SnapshotFits(t, snap), NEW c \in Nat, snap.cursor <= c,
         OnlyWaits(t, snap, c)
  PROVE  /\ MessagesSettled(t, snap, c) /\ BubblesSettled(t, snap, c)
         /\ ~RunOpen(t, c) => ~RunOpen(t, snap.cursor)
         /\ \A e \in Ahead(t, snap.cursor) : e \in Ahead(t, c) \/ e.type = "waiting_takeover"
<1> DEFINE s == snap.cursor
<1>0. snap \in View /\ s \in Nat /\ s <= c
  BY ViewFields DEF SnapshotFits
<1>1. \A f \in t.events : f.seq \in Nat
  BY Seqs DEF Story
<1>2. \A e \in Ahead(t, s) : e \in Ahead(t, c) \/ (e.seq <= c /\ e.type \in Waiting)
  BY <1>0, <1>1 DEF Ahead, OnlyWaits
<1>3. Settled(t, snap, s) /\ \A e \in t.events : e.type = "card" => e.seq # s
  BY DEF SnapshotFits
<1> HIDE DEF s
<1>4. \A e \in Ahead(t, s) : e \in Ahead(t, c) \/ e.type = "waiting_takeover"
  <2> SUFFICES ASSUME NEW e \in Ahead(t, s), e \notin Ahead(t, c), e.type = "waiting_input"
               PROVE  FALSE
    BY <1>2 DEF Waiting
  <2>1. e \in t.events /\ e.seq > s /\ e.seq <= c
    BY <1>2 DEF Ahead
  <2>2. PICK d \in t.events : d.type = "card" /\ d.seq = e.seq - 1
    BY <2>1 DEF Story, RunTold
  <2>3. d.seq > s /\ d.seq <= c
    <3>1. d.seq # s /\ d.seq \in Nat /\ e.seq \in Nat
      BY <1>1, <1>3, <2>1, <2>2
    <3> QED
      BY <1>0, <2>1, <2>2, <3>1
  <2>4. d.type \in Waiting
    BY <2>3 DEF OnlyWaits, s
  <2> QED
    BY <2>2, <2>4 DEF Waiting
<1>5. \A e \in Ahead(t, s) : \A r : e.type = "waiting_takeover" =>
        ~OfCard(e, r) /\ ~OfReply(e, r) /\ ~Drops(e, r) /\ ~Fresh(e)
  BY DEF OfCard, OfReply, Drops, Of, Fresh
<1>6. MessagesSettled(t, snap, c)
  <2> SUFFICES ASSUME NEW r \in RunIds
               PROVE  /\ (\A e \in Ahead(t, c) : ~OfCard(e, r)) =>
                           snap.messages.card[r] = t.messages.card[r]
                      /\ (\A e \in Ahead(t, c) : ~OfReply(e, r)) =>
                           (r \in snap.messages.reply <=> r \in t.messages.reply)
    BY DEF MessagesSettled
  <2>1. MessagesSettled(t, snap, s)
    BY <1>3 DEF Settled
  <2>2. (\A e \in Ahead(t, c) : ~OfCard(e, r)) => \A e \in Ahead(t, s) : ~OfCard(e, r)
    BY <1>4, <1>5
  <2>3. (\A e \in Ahead(t, c) : ~OfReply(e, r)) => \A e \in Ahead(t, s) : ~OfReply(e, r)
    BY <1>4, <1>5
  <2> QED
    BY <2>1, <2>2, <2>3 DEF MessagesSettled
<1>7. BubblesSettled(t, snap, c)
  BY <1>3, <1>4, <1>5 DEF Settled, BubblesSettled, Works
<1>8. ~RunOpen(t, c) => ~RunOpen(t, s)
  BY <1>4, <1>5 DEF RunOpen
<1> QED
  BY <1>4, <1>6, <1>7, <1>8 DEF s

\* Settled again with another cursor, run or messages.
LEMMA SettledOfParts ==
  ASSUME NEW t, NEW v, NEW u, NEW w, NEW k,
         MessagesSettled(t, v, k), BubblesSettled(t, u, k), RunSettled(t, w, k),
         NEW x, x.messages = v.messages, x.bubbles = u.bubbles, x.run = w.run,
         x.active = w.active
  PROVE  Settled(t, x, k)
<1>1. MessagesSettled(t, x, k)
  BY DEF MessagesSettled
<1>2. BubblesSettled(t, x, k)
  BY DEF BubblesSettled
<1>3. RunSettled(t, x, k)
  BY DEF RunSettled
<1> QED
  BY <1>1, <1>2, <1>3 DEF Settled

\* A snapshot behind the view, of a run that the view shows working.
LEMMA RevivedSettles ==
  ASSUME NEW t, Story(t), NEW v \in View, NEW c \in Nat, Settled(t, v, c),
         NEW snap \in View, Revives(v, snap)
  PROVE  RunSettled(t, Made(v.cursor, snap.run, {snap.run}, v.messages, v.bubbles), c)
<1> DEFINE m == Made(v.cursor, snap.run, {snap.run}, v.messages, v.bubbles)
           q == snap.run.id
<1>1. m.run = snap.run /\ m.active = {snap.run} /\ snap.run # NoRun /\ v.run = NoRun
      /\ q \in v.bubbles
  BY FieldsOfMade DEF Revives
<1> HIDE DEF m
<1> SUFFICES ASSUME ~RunOpen(t, c)
             PROVE  /\ (\A e \in Ahead(t, c) : ~OfRun(e)) => m.run = t.run
                    /\ \A e \in Ahead(t, c) : OfRun(e) => m.run.id = e.run
  BY <1>1 DEF RunSettled, m
<1>2. q \in RunIds /\ q # 0 /\ NoRun.id = 0
  BY <1>1, ViewFields, RunIdsAreNumbers DEF NoRun
<1>3. Works(t, q, c)
  BY <1>1 DEF Settled, BubblesSettled
<1>4. \A d \in Ahead(t, c) : Drops(d, q) => OfRun(d) /\ d.run = q
  BY DEF RunOpen, Drops, Of, OfRun, Fresh, Waiting
<1>5. (\A e \in Ahead(t, c) : ~OfRun(e)) => t.run = NoRun
  BY <1>1 DEF Settled, RunSettled
<1>6. ASSUME \A e \in Ahead(t, c) : ~OfRun(e) PROVE FALSE
  BY <1>2, <1>3, <1>4, <1>5, <1>6 DEF Works
<1>7. ASSUME NEW e \in Ahead(t, c), OfRun(e) PROVE q = e.run
  <2>1. CASE \E d \in Ahead(t, c) : Drops(d, q)
    <3>1. PICK d \in Ahead(t, c) : Drops(d, q)
      BY <2>1
    <3>2. \A f \in Ahead(t, c) : ~Fresh(f)
      BY DEF RunOpen
    <3>3. d = e
      BY <1>4, <1>7, <3>1, <3>2, OneRunEvent
    <3> QED
      BY <1>4, <3>1, <3>3
  <2>2. CASE t.run.id = q
    <3>1. t.run = NoRun \/ t.run.id = e.run
      BY <1>7, OnlyRunEvent
    <3> QED
      BY <1>2, <2>2, <3>1
  <2> QED
    BY <1>3, <2>1, <2>2 DEF Works
<1> QED
  BY <1>1, <1>6, <1>7

\* A snapshot behind the client, but not behind what its view took in.
LEMMA SnapshotSettles ==
  ASSUME NEW t, Story(t), NEW v \in View, NEW c \in Nat, Settled(t, v, c),
         NEW snap, SnapshotFits(t, snap), snap.cursor <= c, OnlyWaits(t, snap, c),
         ~Keeps(v, snap)
  PROVE  RunSettled(t, snap, c)
<1> DEFINE s == snap.cursor
<1>1. /\ ~RunOpen(t, c) => ~RunOpen(t, s)
      /\ \A e \in Ahead(t, s) : e \in Ahead(t, c) \/ e.type = "waiting_takeover"
  BY SnapshotParts
<1>2. snap \in View /\ s \in Nat /\ s <= c
  BY ViewFields DEF SnapshotFits
<1>3. Ahead(t, c) \subseteq Ahead(t, s)
  BY <1>2, Seqs DEF Story
<1> SUFFICES ASSUME ~RunOpen(t, c)
             PROVE  /\ snap.active = {snap.run} \ {NoRun}
                    /\ (\A e \in Ahead(t, c) : ~OfRun(e)) => snap.run = t.run
                    /\ \A e \in Ahead(t, c) : OfRun(e) => snap.run = NoRun \/ snap.run.id = e.run
  BY DEF RunSettled
<1>4. /\ snap.active = {snap.run} \ {NoRun}
      /\ (\A e \in Ahead(t, s) : ~OfRun(e)) => snap.run = t.run
      /\ \A e \in Ahead(t, s) : OfRun(e) => snap.run.id = e.run
  BY <1>1 DEF SnapshotFits, Settled, RunSettled
<1> HIDE DEF s
<1>5. ASSUME \A e \in Ahead(t, c) : ~OfRun(e) PROVE \A e \in Ahead(t, s) : ~OfRun(e)
  <2> SUFFICES ASSUME NEW e \in Ahead(t, s), OfRun(e) PROVE FALSE
    OBVIOUS
  <2>1. e.type = "waiting_takeover"
    BY <1>1, <1>5
  <2>2. t.run = [id |-> e.run, status |-> e.type]
    BY <1>1, <1>2, <2>1, OnlyRunEvent DEF Waiting
  <2>3. v.run = t.run
    BY <1>5 DEF Settled, RunSettled
  <2>4. snap.run.id = e.run
    BY <1>4
  <2> QED
    BY <2>1, <2>2, <2>3, <2>4 DEF Keeps
<1> QED
  BY <1>3, <1>4, <1>5

LEMMA ReconciledSettles ==
  ASSUME NEW t, Story(t), NEW v \in View, NEW c \in Nat, Settled(t, v, c), OnlyWaits(t, v, c),
         NEW snap, SnapshotFits(t, snap)
  PROVE  Settled(t, Reconciled(v, snap), c) /\ OnlyWaits(t, Reconciled(v, snap), c)
<1> DEFINE s == snap.cursor
           revived == Made(v.cursor, snap.run, {snap.run}, v.messages, v.bubbles)
           kept == Made(s, v.run, {v.run}, snap.messages, snap.bubbles)
<1>0. snap \in View /\ s \in Nat /\ v.cursor \in Nat /\ \A e \in t.events : e.seq \in Nat
  BY ViewFields, Seqs DEF SnapshotFits, Story
<1>1. Reconciled(v, snap) = IF s < v.cursor THEN IF Revives(v, snap) THEN revived ELSE v
                            ELSE IF Keeps(v, snap) THEN kept ELSE snap
  BY <1>0, ReconciledIs
<1>2. /\ revived.cursor = v.cursor /\ revived.run = snap.run /\ revived.active = {snap.run}
      /\ revived.messages = v.messages /\ revived.bubbles = v.bubbles
      /\ kept.cursor = s /\ kept.run = v.run /\ kept.active = {v.run}
      /\ kept.messages = snap.messages /\ kept.bubbles = snap.bubbles
  BY FieldsOfMade
<1>3. MessagesSettled(t, v, c) /\ BubblesSettled(t, v, c) /\ RunSettled(t, v, c)
  BY DEF Settled
<1> HIDE DEF revived, kept
<1>4. CASE s < v.cursor
  <2>1. CASE Revives(v, snap)
    <3>1. Reconciled(v, snap) = revived
      BY <1>1, <1>4, <2>1
    <3>2. RunSettled(t, revived, c)
      BY <1>0, <2>1, RevivedSettles DEF revived
    <3>3. Settled(t, revived, c)
      BY <1>2, <1>3, <3>2, SettledOfParts
    <3> QED
      BY <1>2, <3>1, <3>3 DEF OnlyWaits
  <2>2. CASE ~Revives(v, snap)
    BY <1>1, <1>4, <2>2
  <2> QED
    BY <2>1, <2>2
<1>5. CASE ~(s < v.cursor)
  <2>1. OnlyWaits(t, snap, c) /\ OnlyWaits(t, kept, c)
    BY <1>0, <1>2, <1>5 DEF OnlyWaits
  <2>2. MessagesSettled(t, snap, c) /\ BubblesSettled(t, snap, c)
    <3>1. CASE s <= c
      BY <2>1, <3>1, SnapshotParts
    <3>2. CASE ~(s <= c)
      BY <1>0, <3>2, SettledBack DEF SnapshotFits, Settled
    <3> QED
      BY <3>1, <3>2
  <2>3. CASE Keeps(v, snap)
    <3>1. Reconciled(v, snap) = kept
      BY <1>1, <1>5, <2>3
    <3>2. v.run # NoRun
      BY <2>3 DEF Keeps, NoRun
    <3>3. RunSettled(t, kept, c)
      BY <1>2, <1>3, <3>2 DEF RunSettled
    <3>4. Settled(t, kept, c)
      BY <1>2, <2>2, <3>3, SettledOfParts
    <3> QED
      BY <2>1, <3>1, <3>4
  <2>4. CASE ~Keeps(v, snap)
    <3>1. Reconciled(v, snap) = snap
      BY <1>1, <1>5, <2>4
    <3>2. RunSettled(t, snap, c)
      <4>1. CASE s <= c
        BY <2>1, <2>4, <4>1, SnapshotSettles
      <4>2. CASE ~(s <= c)
        BY <1>0, <4>2, SettledBack DEF SnapshotFits, Settled
      <4> QED
        BY <4>1, <4>2
    <3> QED
      BY <2>1, <2>2, <3>1, <3>2 DEF Settled
  <2> QED
    BY <2>3, <2>4
<1> QED
  BY <1>4, <1>5

-----------------------------------------------------------------------------
(* Replaying *)

\* Nothing in the log with this number.
LEMMA SettledSkips ==
  ASSUME NEW t, ThreadTyped(t), NEW v, NEW k \in Nat, \A e \in t.events : e.seq # k + 1,
         Settled(t, v, k), OnlyWaits(t, v, k)
  PROVE  Settled(t, v, k + 1) /\ OnlyWaits(t, v, k + 1)
<1>1. \A e \in t.events : e.seq \in Nat /\ e.seq # k + 1
  BY Seqs
<1>2. Ahead(t, k + 1) = Ahead(t, k)
  BY <1>1 DEF Ahead
<1>3. OnlyWaits(t, v, k + 1)
  BY <1>1 DEF OnlyWaits
<1> QED
  BY <1>2, <1>3 DEF Settled, MessagesSettled, RunSettled, RunOpen, BubblesSettled, Works

\* The events that waited, from the snapshot's cursor to the client's.
LEMMA ReplayedSettles ==
  ASSUME NEW t, Story(t), NEW snap \in View, Settled(t, snap, snap.cursor),
         NEW c \in 0..MaxSeq, NEW waited \in SUBSET Event, Distinct(t.events \union waited),
         \A e \in waited : /\ e.seq > snap.cursor /\ e.seq <= c /\ Genuine(t, e)
                           /\ e.type # "cleared" => e.run \in RunIds,
         \A e \in Ahead(t, snap.cursor) : e.seq <= c => e \in waited
  PROVE  LET v == Replayed(snap, waited) IN
         v \in View /\ Settled(t, v, c) /\ OnlyWaits(t, v, c)
<1> DEFINE s == snap.cursor
           level(n) == IF n <= s THEN s ELSE IF n <= c THEN n ELSE IF c <= s THEN s ELSE c
<1>1. PICK h : Chain(snap, waited, h, MaxSeq) /\ Replayed(snap, waited) = h[MaxSeq]
  BY ReplayedIs
<1>2. \A n \in 0..MaxSeq : h[n] = IF n = 0 THEN snap ELSE ReplayStep(waited, h[n - 1], n)
  BY <1>1 DEF Chain
<1>3. s \in 0..MaxSeq /\ \A e \in waited : e.seq \in Nat \ {0}
  BY ViewFields, EventFields
<1>4. ThreadTyped(t) /\ \A e \in t.events : e.seq \in Nat \ {0}
  BY EventFields DEF Story, ThreadTyped
<1> DEFINE P(n) == /\ h[n] \in View /\ Settled(t, h[n], level(n)) /\ OnlyWaits(t, h[n], level(n))
           G == {n \in 0..MaxSeq : P(n)}
<1> HIDE DEF s
<1>5. P(0)
  <2>1. h[0] = snap /\ level(0) = s
    BY <1>2, <1>3
  <2>2. OnlyWaits(t, snap, s)
    BY <1>3, <1>4 DEF OnlyWaits, s
  <2> HIDE DEF level
  <2> QED
    BY <2>1, <2>2 DEF s
<1>6. ASSUME NEW n \in 1..MaxSeq, P(n - 1) PROVE P(n)
  <2>1. h[n] = ReplayStep(waited, h[n - 1], n) /\ n - 1 \in 0..MaxSeq
    BY <1>2
  <2>2. CASE n <= s \/ n > c
    <3>1. level(n) = level(n - 1)
      BY <1>3, <2>2
    <3>2. \A e \in waited : e.seq # n
      BY <1>3, <2>2 DEF s
    <3>3. h[n] = h[n - 1]
      BY <2>1, <3>2 DEF ReplayStep
    <3> HIDE DEF level
    <3> QED
      BY <1>6, <3>1, <3>3
  <2>3. CASE n > s /\ n <= c
    <3>1. level(n) = n /\ level(n - 1) = n - 1
      BY <1>3, <2>3
    <3> HIDE DEF level
    <3> DEFINE k == n - 1
               v == h[k]
    <3>2. k \in Nat /\ k + 1 = n /\ s <= k /\ v \in View /\ Settled(t, v, k) /\ OnlyWaits(t, v, k)
      BY <1>3, <1>6, <2>3, <3>1
    <3>3. h[n] = ReplayStep(waited, v, n)
      BY <2>1
    <3> HIDE DEF k, v
    <3>4. CASE \E e \in waited : e.seq = n
      <4> DEFINE e == CHOOSE d \in waited : d.seq = n
      <4>1. e \in waited /\ e.seq = n
        BY <3>4
      <4>2. h[n] = Applied(v, e)
        BY <3>3, <3>4 DEF ReplayStep
      <4> HIDE DEF e
      <4>3. e \in Event /\ Genuine(t, e) /\ (e.type # "cleared" => e.run \in RunIds)
        BY <4>1
      <4>4. Follows(t, k, e)
        BY <1>4, <3>2, <4>1 DEF Follows, Distinct
      <4>5. Settled(t, Applied(v, e), e.seq) /\ OnlyWaits(t, Applied(v, e), e.seq)
        BY <3>2, <4>3, <4>4, AppliedSettles
      <4>6. Applied(v, e) \in View
        BY <3>2, <4>3, AppliedTyped
      <4> QED
        BY <3>1, <4>1, <4>2, <4>5, <4>6
    <3>5. CASE ~ \E e \in waited : e.seq = n
      <4>1. h[n] = v
        BY <3>3, <3>5 DEF ReplayStep
      <4>2. \A e \in t.events : e.seq # n
        BY <1>3, <1>4, <2>3, <3>5 DEF Ahead, s
      <4>3. Settled(t, v, n) /\ OnlyWaits(t, v, n)
        BY <1>4, <3>2, <4>2, SettledSkips
      <4> QED
        BY <3>1, <3>2, <4>1, <4>3
    <3> QED
      BY <3>4, <3>5
  <2> QED
    BY <1>3, <2>2, <2>3
<1> HIDE DEF P
<1>7. P(MaxSeq)
  <2>1. 0 \in G
    BY <1>5
  <2>2. \A n \in 1..MaxSeq : n - 1 \in G => n \in G
    BY <1>6
  <2> HIDE DEF G
  <2>3. \A n \in 0..MaxSeq : n \in G
    BY <2>1, <2>2, CountUp
  <2> QED
    BY <2>3 DEF G
<1> DEFINE v == h[MaxSeq]
<1>8. v \in View /\ Settled(t, v, level(MaxSeq)) /\ OnlyWaits(t, v, level(MaxSeq))
  BY <1>7 DEF P
<1> HIDE DEF v
<1>9. CASE c <= s
  <2>1. level(MaxSeq) = s
    BY <1>3, <1>9
  <2>2. Settled(t, v, c)
    BY <1>3, <1>8, <1>9, <2>1, SettledBack
  <2>3. OnlyWaits(t, v, c)
    BY <1>3, <1>4, <1>8, <1>9, <2>1 DEF OnlyWaits
  <2> QED
    BY <1>1, <1>8, <2>2, <2>3 DEF v
<1>10. CASE ~(c <= s)
  <2>1. level(MaxSeq) = c
    BY <1>3, <1>10
  <2> QED
    BY <1>1, <1>8, <2>1 DEF v
<1> QED
  BY <1>9, <1>10

-----------------------------------------------------------------------------
(* The log grows *)

\* What a step of thread t to u with these new events may do.
GrowsLog(t, u, new) ==
  /\ ThreadTyped(u) /\ u.next >= t.next /\ Distinct(new)
  /\ \A e \in new : e.seq >= t.next /\ e \in u.events
  /\ \A e \in u.events : e \in t.events \/ e \in new
  /\ \A e \in t.events : e.type # "progress" => e \in u.events

GrowsMessages(t, u, new) ==
  \A r \in RunIds :
  /\ (\A e \in new : ~OfCard(e, r)) => u.messages.card[r] = t.messages.card[r]
  /\ (\A e \in new : ~OfReply(e, r)) => (r \in u.messages.reply <=> r \in t.messages.reply)
  /\ \A e \in new : OfCard(e, r) => u.messages.card[r] = CardOf(e)
  /\ \A e \in new : OfReply(e, r) => (r \in u.messages.reply <=> e.type = "reply")
  /\ t.run.id = r /\ t.run.status # "waiting_input" =>
       (u.run.id = r /\ u.run.status # "waiting_input") \/ \E e \in new : Drops(e, r)

GrowsRun(t, u, new) ==
  /\ (\A e \in new : ~Fresh(e)) /\ t.run.status = "queued" => u.run.status = "queued"
  /\ (\A e \in new : ~OfRun(e)) =>
       \/ u.run = t.run
       \/ t.run = NoRun /\ u.run.status = "queued"
       \/ t.run.status \in Waiting /\ u.run.id = t.run.id /\ u.run.status = "queued"
  /\ \A e \in new : OfRun(e) =>
       Tells(u, e) /\ (\A f \in new : OfRun(f) => f = e)
       /\ (~Fresh(e) => t.run = [id |-> e.run, status |-> "running"])
  /\ \A e \in new : e.type = "waiting_input" => \E f \in new : f.type = "card" /\ f.seq = e.seq - 1
  /\ \A e \in new : e.type = "card" => \E f \in new : f.type = "waiting_input" /\ f.seq = e.seq + 1
  /\ \A e \in u.events : e.type = "progress" => u.run = [id |-> e.run, status |-> "running"]

Grows(t, u, new) == GrowsLog(t, u, new) /\ GrowsMessages(t, u, new) /\ GrowsRun(t, u, new)

Below(t) == \A e \in t.events : e.seq < t.next

\* Which events of runs, cards and replies are ahead then.
LEMMA AheadGrows ==
  ASSUME NEW t, NEW u, NEW new, Story(t), Below(t), Grows(t, u, new), NEW k \in Nat, k < t.next
  PROVE  /\ \A e \in Ahead(t, k) : e.type # "progress" => e \in Ahead(u, k)
         /\ new \subseteq Ahead(u, k)
         /\ \A e \in Ahead(u, k) : e \in Ahead(t, k) \/ e \in new
<1>1. \A e \in t.events : e.seq \in Nat
  BY Seqs DEF Story
<1>2. \A e \in u.events : e.seq \in Nat
  BY Seqs DEF Grows, GrowsLog
<1>3. t.next \in Nat
  BY DEF Story, ThreadTyped
<1> QED
  BY <1>1, <1>2, <1>3 DEF Ahead, Grows, GrowsLog

LEMMA Kinds ==
  ASSUME NEW e, e.type = "progress"
  PROVE  ~OfRun(e) /\ ~Fresh(e) /\ \A r : ~OfCard(e, r) /\ ~OfReply(e, r) /\ ~Drops(e, r)
  BY DEF OfRun, Fresh, Waiting, OfCard, OfReply, Drops, Of

LEMMA Freshness ==
  ASSUME NEW e PROVE (Fresh(e) => OfRun(e)) /\ (e.type \in Waiting => OfRun(e) /\ ~Fresh(e))
  BY DEF OfRun, Fresh, Waiting

LEMMA WorksGrows ==
  ASSUME NEW t, NEW u, NEW new, Story(t), Below(t), Grows(t, u, new), NEW k \in Nat, k < t.next,
         NEW r \in RunIds, Works(t, r, k)
  PROVE  Works(u, r, k)
<1>1. \A e \in Ahead(t, k) : Drops(e, r) => e \in Ahead(u, k)
  BY AheadGrows, Kinds
<1>2. new \subseteq Ahead(u, k)
  BY AheadGrows
<1> QED
  BY <1>1, <1>2 DEF Works, Grows, GrowsMessages

LEMMA MessagesGrow ==
  ASSUME NEW t, NEW u, NEW new, Story(t), Below(t), Grows(t, u, new), NEW k \in Nat, k < t.next,
         NEW v, MessagesSettled(t, v, k)
  PROVE  MessagesSettled(u, v, k)
<1> SUFFICES ASSUME NEW r \in RunIds
             PROVE  /\ (\A e \in Ahead(u, k) : ~OfCard(e, r)) =>
                         v.messages.card[r] = u.messages.card[r]
                    /\ (\A e \in Ahead(u, k) : ~OfReply(e, r)) =>
                         (r \in v.messages.reply <=> r \in u.messages.reply)
  BY DEF MessagesSettled
<1>1. new \subseteq Ahead(u, k)
  BY AheadGrows
<1>2. \A e \in Ahead(t, k) : OfCard(e, r) \/ OfReply(e, r) => e \in Ahead(u, k)
  BY AheadGrows, Kinds
<1>3. ASSUME \A e \in Ahead(u, k) : ~OfCard(e, r)
      PROVE  v.messages.card[r] = u.messages.card[r]
  <2>1. v.messages.card[r] = t.messages.card[r]
    BY <1>2, <1>3 DEF MessagesSettled
  <2>2. t.messages.card[r] = u.messages.card[r]
    BY <1>1, <1>3 DEF Grows, GrowsMessages
  <2> QED
    BY <2>1, <2>2
<1>4. ASSUME \A e \in Ahead(u, k) : ~OfReply(e, r)
      PROVE  r \in v.messages.reply <=> r \in u.messages.reply
  <2>1. r \in v.messages.reply <=> r \in t.messages.reply
    BY <1>2, <1>4 DEF MessagesSettled
  <2>2. r \in t.messages.reply <=> r \in u.messages.reply
    BY <1>1, <1>4 DEF Grows, GrowsMessages
  <2> QED
    BY <2>1, <2>2
<1> QED
  BY <1>3, <1>4

\* What a run's new event finds ahead.
LEMMA RunAheadGrows ==
  ASSUME NEW t, NEW u, NEW new, Story(t), Below(t), Grows(t, u, new), NEW k \in Nat, k < t.next,
         ~RunOpen(u, k)
  PROVE  /\ ~RunOpen(t, k)
         /\ \A e \in Ahead(u, k) : OfRun(e) =>
              e \in Ahead(t, k) \/ ((\A f \in Ahead(t, k) : ~OfRun(f)) /\ t.run.id = e.run)
         /\ (\A e \in Ahead(u, k) : ~OfRun(e)) =>
              u.run = t.run /\ \A e \in Ahead(t, k) : ~OfRun(e)
<1>1. \A e \in Ahead(t, k) : OfRun(e) => e \in Ahead(u, k)
  BY AheadGrows, Kinds
<1>2. new \subseteq Ahead(u, k) /\ \A e \in Ahead(u, k) : e \in Ahead(t, k) \/ e \in new
  BY AheadGrows
<1>3. (\A e \in Ahead(u, k) : ~Fresh(e)) /\ u.run.status # "queued"
  BY DEF RunOpen
<1>4. \A e \in Ahead(t, k) : ~Fresh(e)
  BY <1>1, <1>3, Freshness
<1>5. t.run.status # "queued"
  BY <1>2, <1>3 DEF Grows, GrowsRun
<1>6. ~RunOpen(t, k)
  BY <1>4, <1>5 DEF RunOpen
<1>7. ASSUME NEW e \in new, OfRun(e)
      PROVE  (\A f \in Ahead(t, k) : ~OfRun(f)) /\ t.run.id = e.run
  <2>1. t.run = [id |-> e.run, status |-> "running"]
    BY <1>2, <1>3, <1>7 DEF Grows, GrowsRun
  <2>2. ASSUME NEW f \in Ahead(t, k), OfRun(f) PROVE FALSE
    <3>1. /\ f.type \in Waiting \/ f.type = "completed"
          /\ f.type \in Waiting => t.run = [id |-> f.run, status |-> f.type]
          /\ f.type = "completed" => t.run = NoRun
      BY <1>6, <2>2, OnlyRunEvent
    <3>2. t.run.status = "running"
      BY <2>1
    <3> QED
      BY <3>1, <3>2 DEF Waiting, NoRun
  <2> QED
    BY <2>1, <2>2
<1>8. ASSUME \A e \in Ahead(u, k) : ~OfRun(e)
      PROVE  u.run = t.run /\ \A e \in Ahead(t, k) : ~OfRun(e)
  BY <1>1, <1>2, <1>3, <1>8 DEF Grows, GrowsRun
<1> QED
  BY <1>2, <1>6, <1>7, <1>8

LEMMA SettledGrows ==
  ASSUME NEW t, NEW u, NEW new, Story(t), Below(t), Grows(t, u, new), NEW k \in Nat, k < t.next,
         NEW v \in View, Settled(t, v, k)
  PROVE  Settled(u, v, k)
<1>1. MessagesSettled(u, v, k)
  BY MessagesGrow DEF Settled
<1>2. BubblesSettled(u, v, k)
  BY WorksGrows, ViewFields DEF Settled, BubblesSettled
<1>3. RunSettled(u, v, k)
  <2> SUFFICES ASSUME ~RunOpen(u, k)
               PROVE  /\ v.active = {v.run} \ {NoRun}
                      /\ (\A e \in Ahead(u, k) : ~OfRun(e)) => v.run = u.run
                      /\ \A e \in Ahead(u, k) : OfRun(e) => v.run = NoRun \/ v.run.id = e.run
    BY DEF RunSettled
  <2>1. /\ ~RunOpen(t, k)
        /\ \A e \in Ahead(u, k) : OfRun(e) =>
             e \in Ahead(t, k) \/ ((\A f \in Ahead(t, k) : ~OfRun(f)) /\ t.run.id = e.run)
        /\ (\A e \in Ahead(u, k) : ~OfRun(e)) =>
             u.run = t.run /\ \A e \in Ahead(t, k) : ~OfRun(e)
    BY RunAheadGrows
  <2> QED
    BY <2>1 DEF Settled, RunSettled
<1> QED
  BY <1>1, <1>2, <1>3 DEF Settled

LEMMA WaitsGrow ==
  ASSUME NEW t, NEW u, NEW new, Story(t), Below(t), Grows(t, u, new), NEW k \in Nat, k < t.next,
         NEW v, OnlyWaits(t, v, k)
  PROVE  OnlyWaits(u, v, k)
<1>1. \A e \in u.events : e.seq \in Nat
  BY Seqs DEF Grows, GrowsLog
<1>2. t.next \in Nat
  BY DEF Story, ThreadTyped
<1> QED
  BY <1>1, <1>2 DEF OnlyWaits, Grows, GrowsLog

LEMMA SnapshotGrows ==
  ASSUME NEW t, NEW u, NEW new, Story(t), Below(t), Grows(t, u, new),
         NEW snap, SnapshotFits(t, snap), snap.cursor < t.next
  PROVE  SnapshotFits(u, snap)
<1> DEFINE s == snap.cursor
<1>0. snap \in View /\ s \in Nat
  BY ViewFields DEF SnapshotFits
<1>1. Settled(u, snap, s)
  BY <1>0, SettledGrows DEF SnapshotFits
<1>2. ASSUME ~RunOpen(u, s), NEW e \in Ahead(u, s), OfRun(e) PROVE snap.run.id = e.run
  <2>1. /\ ~RunOpen(t, s)
        /\ e \in Ahead(t, s) \/ ((\A f \in Ahead(t, s) : ~OfRun(f)) /\ t.run.id = e.run)
    BY <1>0, <1>2, RunAheadGrows
  <2>2. CASE e \in Ahead(t, s)
    BY <1>2, <2>1, <2>2 DEF SnapshotFits
  <2>3. CASE (\A f \in Ahead(t, s) : ~OfRun(f)) /\ t.run.id = e.run
    BY <2>1, <2>3 DEF SnapshotFits, Settled, RunSettled
  <2> QED
    BY <2>1, <2>2, <2>3
<1>3. \A e \in u.events : e.type = "card" => e.seq # s
  <2>1. t.next \in Nat /\ \A e \in new : e.seq \in Nat
    BY Seqs DEF Story, ThreadTyped, Grows, GrowsLog
  <2> QED
    BY <1>0, <2>1 DEF SnapshotFits, Grows, GrowsLog
<1> QED
  BY <1>0, <1>1, <1>2, <1>3 DEF SnapshotFits

\* The log tells the thread's story after the step, too.
LEMMA StoryGrows ==
  ASSUME NEW t, NEW u, NEW new, Story(t), Below(t), Grows(t, u, new)
  PROVE  Story(u)
<1>1. ThreadTyped(u) /\ t.next \in Nat
  BY DEF Story, ThreadTyped, Grows, GrowsLog
<1>2. /\ \A e \in t.events : e.seq \in Nat /\ e.seq < t.next
      /\ \A e \in u.events : e.seq \in Nat
      /\ \A e \in new : e.seq >= t.next /\ e \in u.events
      /\ \A e \in u.events : e \in t.events \/ e \in new
      /\ \A e \in t.events : e.type # "progress" => e \in u.events
  BY <1>1, Seqs DEF Story, Below, Grows, GrowsLog
<1>3. Distinct(u.events)
  BY <1>1, <1>2 DEF Story, Distinct, Grows, GrowsLog
<1>4. MessagesTold(u)
  <2> SUFFICES ASSUME NEW e \in u.events, NEW r \in RunIds
               PROVE  /\ OfCard(e, r) /\ (\A f \in u.events : OfCard(f, r) => f.seq <= e.seq) =>
                           u.messages.card[r] = CardOf(e)
                      /\ OfReply(e, r) /\ (\A f \in u.events : OfReply(f, r) => f.seq <= e.seq) =>
                           (r \in u.messages.reply <=> e.type = "reply")
    BY DEF MessagesTold
  <2>1. ASSUME OfCard(e, r), \A f \in u.events : OfCard(f, r) => f.seq <= e.seq
        PROVE  u.messages.card[r] = CardOf(e)
    <3>1. CASE e \in new
      BY <2>1, <3>1 DEF Grows, GrowsMessages
    <3>2. CASE e \notin new
      <4>1. e \in t.events /\ \A f \in new : ~OfCard(f, r)
        BY <1>1, <1>2, <2>1, <3>2
      <4>2. \A f \in t.events : OfCard(f, r) => f.seq <= e.seq
        BY <1>2, <2>1, Kinds
      <4>3. t.messages.card[r] = CardOf(e)
        BY <2>1, <4>1, <4>2 DEF Story, MessagesTold
      <4> QED
        BY <4>1, <4>3 DEF Grows, GrowsMessages
    <3> QED
      BY <3>1, <3>2
  <2>2. ASSUME OfReply(e, r), \A f \in u.events : OfReply(f, r) => f.seq <= e.seq
        PROVE  r \in u.messages.reply <=> e.type = "reply"
    <3>1. CASE e \in new
      BY <2>2, <3>1 DEF Grows, GrowsMessages
    <3>2. CASE e \notin new
      <4>1. e \in t.events /\ \A f \in new : ~OfReply(f, r)
        BY <1>1, <1>2, <2>2, <3>2
      <4>2. \A f \in t.events : OfReply(f, r) => f.seq <= e.seq
        BY <1>2, <2>2, Kinds
      <4>3. r \in t.messages.reply <=> e.type = "reply"
        BY <2>2, <4>1, <4>2 DEF Story, MessagesTold
      <4> QED
        BY <4>1, <4>3 DEF Grows, GrowsMessages
    <3> QED
      BY <3>1, <3>2
  <2> QED
    BY <2>1, <2>2
<1>5. NewestTells(u)
  <2>1. CASE \E e \in new : OfRun(e)
    <3>1. PICK e \in new : OfRun(e)
      BY <2>1
    <3>2. Tells(u, e) /\ \A f \in new : OfRun(f) => f = e
      BY <3>1 DEF Grows, GrowsRun
    <3>3. NewestOfRun(u, e)
      BY <1>1, <1>2, <3>1, <3>2 DEF NewestOfRun
    <3> QED
      BY <3>2, <3>3 DEF NewestTells, NewestOfRun
  <2>2. CASE \A e \in new : ~OfRun(e)
    <3>1. \/ u.run = t.run
          \/ t.run = NoRun /\ u.run.status = "queued"
          \/ t.run.status \in Waiting /\ u.run.id = t.run.id /\ u.run.status = "queued"
      BY <2>2 DEF Grows, GrowsRun
    <3>2. \A e \in u.events : OfRun(e) => e \in t.events
      BY <1>2, <2>2
    <3>3. \A e \in t.events : OfRun(e) => e \in u.events
      BY <1>2, Kinds
    <3>4. CASE \E e \in t.events : OfRun(e)
      <4>1. PICK e \in t.events : NewestOfRun(t, e) /\ Tells(t, e)
        BY <3>4 DEF Story, RunTold, NewestTells
      <4>2. NewestOfRun(u, e)
        BY <3>2, <3>3, <4>1 DEF NewestOfRun
      <4>3. e.type # "cleared" => e.run # 0
        BY RunIdsAreNumbers DEF Story, ThreadTyped
      <4>4. Tells(u, e)
        <5>1. NoRun.id = 0 /\ NoRun.status = "none"
          BY DEF NoRun
        <5>2. CASE e.type = "started"
          <6>1. t.run = [id |-> e.run, status |-> "running"]
            BY <4>1, <5>2 DEF Tells
          <6>2. t.run.status = "running"
            BY <6>1
          <6>3. u.run = t.run
            BY <3>1, <5>1, <6>2 DEF Waiting
          <6> QED
            BY <5>2, <6>1, <6>3 DEF Tells, Waiting
        <5>3. CASE e.type \in Waiting
          <6>1. t.run.id = e.run /\ t.run.status \in {e.type, "queued"} /\ e.run # 0
            BY <4>1, <4>3, <5>3 DEF Tells, Waiting
          <6>2. u.run.id = e.run /\ u.run.status \in {e.type, "queued"}
            BY <3>1, <5>1, <6>1
          <6> QED
            BY <5>3, <6>2 DEF Tells, Waiting
        <5>4. CASE e.type \in {"completed", "cleared"}
          <6>1. t.run = NoRun \/ t.run.status = "queued"
            BY <4>1, <5>4 DEF Tells
          <6>2. u.run = NoRun \/ u.run.status = "queued"
            BY <3>1, <6>1
          <6> QED
            BY <5>4, <6>2 DEF Tells, Waiting
        <5> QED
          BY <4>1, <5>2, <5>3, <5>4 DEF NewestOfRun, OfRun
      <4> QED
        BY <4>2, <4>4 DEF NewestTells, NewestOfRun
    <3>5. CASE \A e \in t.events : ~OfRun(e)
      <4>1. t.run = NoRun \/ t.run.status = "queued"
        BY <3>5 DEF Story, RunTold, NewestTells
      <4>2. u.run = NoRun \/ u.run.status = "queued"
        BY <3>1, <4>1
      <4> QED
        BY <3>2, <3>5, <4>2 DEF NewestTells
    <3> QED
      BY <3>4, <3>5
  <2> QED
    BY <2>1, <2>2
<1>6. ASSUME NEW f \in u.events, OfRun(f), ~Fresh(f) PROVE StartsBefore(u, f)
  <2>1. CASE f \in new
    <3>1. t.run = [id |-> f.run, status |-> "running"] /\ \A g \in new : OfRun(g) => g = f
      BY <1>6, <2>1 DEF Grows, GrowsRun
    <3>2. t.run.status = "running" /\ t.run.id = f.run /\ t.run # NoRun
      BY <3>1 DEF NoRun
    <3>3. PICK e \in t.events : NewestOfRun(t, e) /\ Tells(t, e)
      BY <3>2 DEF Story, RunTold, NewestTells
    <3>4. e.type = "started" /\ e.run = f.run
      <4>1. e.type \notin Waiting \union {"completed", "cleared"}
        BY <3>2, <3>3 DEF Tells, Waiting
      <4>2. e.type = "started"
        BY <3>3, <4>1 DEF NewestOfRun, OfRun
      <4>3. t.run = [id |-> e.run, status |-> "running"]
        BY <3>3, <4>2 DEF Tells
      <4> QED
        BY <3>2, <4>2, <4>3
    <3>5. e \in u.events /\ e.seq < f.seq
      BY <1>1, <1>2, <2>1, <3>4
    <3>6. \A g \in u.events : OfRun(g) => g.seq <= e.seq \/ g.seq >= f.seq
      BY <1>2, <3>1, <3>3 DEF NewestOfRun
    <3> QED
      BY <3>4, <3>5, <3>6 DEF StartsBefore
  <2>2. CASE f \notin new
    <3>1. f \in t.events
      BY <1>2, <2>2
    <3>2. PICK e \in t.events :
            /\ e.type = "started" /\ e.run = f.run /\ e.seq < f.seq
            /\ \A g \in t.events : OfRun(g) => g.seq <= e.seq \/ g.seq >= f.seq
      BY <1>6, <3>1 DEF Story, RunTold, StartsBefore
    <3>3. e \in u.events
      BY <1>2, <3>2
    <3>4. \A g \in u.events : OfRun(g) => g.seq <= e.seq \/ g.seq >= f.seq
      BY <1>1, <1>2, <3>1, <3>2
    <3> QED
      BY <3>2, <3>3, <3>4 DEF StartsBefore
  <2> QED
    BY <2>1, <2>2
<1>7. ASSUME NEW f \in u.events, f.type = "waiting_input"
      PROVE  \E e \in u.events : e.type = "card" /\ e.seq = f.seq - 1
  <2>1. CASE f \in new
    BY <1>2, <1>7, <2>1 DEF Grows, GrowsRun
  <2>2. CASE f \notin new
    <3>1. PICK e \in t.events : e.type = "card" /\ e.seq = f.seq - 1
      BY <1>2, <1>7, <2>2 DEF Story, RunTold
    <3> QED
      BY <1>2, <3>1
  <2> QED
    BY <2>1, <2>2
<1>8. ASSUME NEW f \in u.events, f.type = "card"
      PROVE  \E e \in u.events : e.type = "waiting_input" /\ e.seq = f.seq + 1
  <2>1. CASE f \in new
    BY <1>2, <1>8, <2>1 DEF Grows, GrowsRun
  <2>2. CASE f \notin new
    <3>1. PICK e \in t.events : e.type = "waiting_input" /\ e.seq = f.seq + 1
      BY <1>2, <1>8, <2>2 DEF Story, RunTold
    <3> QED
      BY <1>2, <3>1
  <2> QED
    BY <2>1, <2>2
<1>9. \A e \in u.events : e.type = "progress" => u.run = [id |-> e.run, status |-> "running"]
  BY DEF Grows, GrowsRun
<1>10. RunTold(u)
  BY <1>5, <1>6, <1>7, <1>8, <1>9 DEF RunTold
<1> QED
  BY <1>1, <1>3, <1>4, <1>10 DEF Story

-----------------------------------------------------------------------------
(* The invariant of the view *)

\* The fields of the other variables.
FieldsTyped ==
  /\ owed \in BOOLEAN /\ breaks \in 0..MaxBreaks /\ follower.changed \in BOOLEAN
  /\ wire \subseteq Event
  /\ client.at \in {"closed", "reading", "retry"} /\ client.ready \in BOOLEAN
  /\ client.view \in View /\ client.pending \subseteq Event
  /\ request.at \in {"none", "served"} /\ request.view \in View
  /\ request = [at |-> request.at, view |-> request.view]
  /\ \A e \in wire \union client.pending : e.type # "cleared" => e.run \in RunIds

\* All events that are not only in a view.
Everywhere == thread.events \union wire \union client.pending

EventsInv ==
  /\ Distinct(Everywhere)
  /\ \A e \in wire \union client.pending : Genuine(thread, e)

\* What is under way is ahead of the client and behind the follower; what waits for a
\* snapshot was received.
StreamInv ==
  /\ client.at = "reading" <=> follower.at # "off"
  /\ client.at = "closed" => ~client.ready /\ client.pending = {} /\ request.at = "none"
  /\ client.at # "reading" => wire = {}
  /\ client.at = "reading" => client.cursor <= follower.seq
  /\ \A e \in wire : client.cursor < e.seq /\ e.seq <= follower.seq
  /\ \A e \in client.pending : e.seq <= client.cursor

\* A snapshot that was served fits the log; what it lacks and was received waits for it.
RequestInv ==
  request.at = "served" =>
    /\ SnapshotFits(thread, request.view) /\ request.view.cursor < thread.next
    /\ ~client.ready => \A e \in Ahead(thread, request.view.cursor) :
                          e.seq <= client.cursor => e \in client.pending

\* The view is settled as of what the client received.
ShownInv ==
  client.ready => Settled(thread, client.view, client.cursor)
                  /\ OnlyWaits(thread, client.view, client.cursor)

ViewInv == /\ FollowInv /\ Story(thread) /\ FieldsTyped
           /\ EventsInv /\ StreamInv /\ RequestInv /\ ShownInv

-----------------------------------------------------------------------------
(* The steps of the thread *)

LEMMA CommitIs ==
  ASSUME FollowInv, Story(thread), thread.run.id \in RunIds,
         NEW run \in ARun, NEW messages \in Messages, NEW types \in Seq(EventTypes),
         NEW ends \in BOOLEAN, Commit(run, messages, types, ends)
  PROVE  /\ thread'.run = run /\ thread'.messages = messages
         /\ \A e \in thread'.events : e.type = "progress" =>
              (e \in thread.events /\ ~ends) \/ e \in NewEvents(types, thread.run.id)
         /\ GrowsLog(thread, thread', NewEvents(types, thread.run.id))
<1> DEFINE q == thread.run.id
           new == NewEvents(types, q)
<1>1. /\ thread'.run = run /\ thread'.messages = messages /\ thread'.last = thread.last
      /\ thread'.next = thread.next + Len(types)
      /\ thread'.events = {e \in thread.events : ends => e.type # "progress"} \union new
      /\ thread.next + Len(types) <= MaxSeq + 1
  BY DEF Commit, FollowInv, LogAndReaders, Shapes
<1>2. Len(types) \in Nat /\ DOMAIN types = 1..Len(types)
      /\ \A i \in DOMAIN types : types[i] \in EventTypes
  BY LenProperties, ElementOfSeq
<1>3. thread.next \in 1..(MaxSeq + 1) /\ thread.events \subseteq Event
      /\ \A e \in thread.events : e.type # "cleared" => e.run \in RunIds
  BY DEF Story, ThreadTyped
<1>4. \A e \in new : \E i \in 1..Len(types) :
        e = [seq |-> thread.next + i - 1, type |-> types[i], run |-> q]
  BY <1>2 DEF NewEvents
<1>5. \A e \in new : e \in Event /\ e.seq >= thread.next /\ e.run \in RunIds
  <2> SUFFICES ASSUME NEW e \in new PROVE e \in Event /\ e.seq >= thread.next /\ e.run \in RunIds
    OBVIOUS
  <2>1. PICK i \in 1..Len(types) :
          e = [seq |-> thread.next + i - 1, type |-> types[i], run |-> q]
    BY <1>4
  <2>2. thread.next + i - 1 \in 1..MaxSeq /\ thread.next + i - 1 >= thread.next
    BY <1>1, <1>2, <1>3
  <2>3. q \in 0..MaxRuns /\ types[i] \in EventTypes
    BY <1>2, RunIdsAreNumbers
  <2> QED
    BY <2>1, <2>2, <2>3 DEF Event
<1>6. Distinct(new)
  <2> SUFFICES ASSUME NEW e \in new, NEW f \in new, e.seq = f.seq PROVE e = f
    BY DEF Distinct
  <2>1. PICK i \in 1..Len(types) :
          e = [seq |-> thread.next + i - 1, type |-> types[i], run |-> q]
    BY <1>4
  <2>2. PICK j \in 1..Len(types) :
          f = [seq |-> thread.next + j - 1, type |-> types[j], run |-> q]
    BY <1>4
  <2>3. i = j
    BY <1>2, <1>3, <2>1, <2>2
  <2> QED
    BY <2>1, <2>2, <2>3
<1> HIDE DEF new
<1>7. ThreadTyped(thread')
  <2>1. thread'.last \in 0..MaxRuns /\ thread'.next \in 1..(MaxSeq + 1)
    BY <1>1, <1>2, <1>3 DEF Story, ThreadTyped
  <2>2. thread'.events \subseteq Event
        /\ \A e \in thread'.events : e.type # "cleared" => e.run \in RunIds
    BY <1>1, <1>3, <1>5
  <2> QED
    BY <1>1, <2>1, <2>2 DEF ThreadTyped
<1>8. GrowsLog(thread, thread', new)
  BY <1>1, <1>2, <1>3, <1>5, <1>6, <1>7 DEF GrowsLog
<1> QED
  BY <1>1, <1>8 DEF new

LEMMA OneNewEvent ==
  ASSUME Story(thread), NEW ty, NEW q
  PROVE  NewEvents(<<ty>>, q) = {[seq |-> thread.next, type |-> ty, run |-> q]}
<1>1. thread.next + 1 - 1 = thread.next
  BY DEF Story, ThreadTyped
<1> QED
  BY <1>1 DEF NewEvents

LEMMA TwoNewEvents ==
  ASSUME Story(thread), NEW ty, NEW ty2, NEW q
  PROVE  NewEvents(<<ty, ty2>>, q) = {[seq |-> thread.next, type |-> ty, run |-> q],
                                      [seq |-> thread.next + 1, type |-> ty2, run |-> q]}
<1>1. thread.next + 1 - 1 = thread.next /\ thread.next + 2 - 1 = thread.next + 1
  BY DEF Story, ThreadTyped
<1>2. DOMAIN <<ty, ty2>> = {1, 2} /\ <<ty, ty2>>[1] = ty /\ <<ty, ty2>>[2] = ty2
  OBVIOUS
<1> QED
  BY <1>1, <1>2 DEF NewEvents

\* What the run may be.
LEMMA RunNow ==
  ASSUME Story(thread)
  PROVE  /\ thread.run \in ARun
         /\ thread.run = [id |-> thread.run.id, status |-> thread.run.status]
         /\ thread.run.status # "none" =>
              /\ thread.run # NoRun /\ thread.run.id \in RunIds /\ thread.run.id # 0
              /\ thread.run.status \in RunStatus
              /\ \A s \in RunStatus : [id |-> thread.run.id, status |-> s] \in ARun
         /\ thread.run.status = "none" => thread.run = NoRun /\ thread.run.id = 0
         /\ \A s : Becomes(s) = [id |-> thread.run.id, status |-> s]
         /\ thread.next \in Nat \ {0} /\ thread.messages \in Messages
<1>1. thread.run \in ARun
  BY DEF Story, ThreadTyped
<1>2. thread.run = [id |-> thread.run.id, status |-> thread.run.status]
  BY <1>1, RunFields
<1>3. \A s : Becomes(s) = [id |-> thread.run.id, status |-> s]
  BY <1>2 DEF Becomes
<1>4. thread.next \in Nat \ {0} /\ thread.messages \in Messages
  BY DEF Story, ThreadTyped
<1>5. \/ thread.run.id \in RunIds /\ thread.run.status \in RunStatus /\ thread.run # NoRun
      \/ thread.run.id = 0 /\ thread.run.status = "none" /\ thread.run = NoRun
  BY <1>1, RunFields
<1>6. "none" \notin RunStatus /\ 0 \notin RunIds
  BY RunIdsAreNumbers DEF RunStatus
<1>7. CASE thread.run.status = "none"
  BY <1>1, <1>2, <1>3, <1>4, <1>5, <1>6, <1>7
<1>8. CASE thread.run.status # "none"
  <2>1. \A s \in RunStatus : [id |-> thread.run.id, status |-> s] \in ARun
    BY <1>5, <1>8, MadeRuns
  <2> QED
    BY <1>1, <1>2, <1>3, <1>4, <1>5, <1>6, <1>8, <2>1
<1> QED
  BY <1>7, <1>8

\* Progress is deleted when the run stops working.
LEMMA NothingWorks ==
  ASSUME Story(thread), thread.run.status # "running"
  PROVE  \A e \in thread.events : e.type # "progress"
<1> SUFFICES ASSUME NEW e \in thread.events, e.type = "progress" PROVE FALSE
  OBVIOUS
<1>1. thread.run = [id |-> e.run, status |-> "running"]
  BY DEF Story, RunTold
<1> QED
  BY <1>1

LEMMA RunStartedGrows ==
  ASSUME FollowInv, Story(thread), RunStarted
  PROVE  \E new : Grows(thread, thread', new)
<1> DEFINE q == thread.run.id
           x == [seq |-> thread.next, type |-> "started", run |-> q]
<1>1. thread.run = [id |-> q, status |-> "queued"] /\ q \in RunIds /\ thread.run.status = "queued"
  BY RunNow DEF RunStarted, RunStatus
<1>2. Becomes("running") = [id |-> q, status |-> "running"] /\ Becomes("running") \in ARun
  BY <1>1, RunNow DEF RunStatus, NoRun
<1>3. NewEvents(<<"started">>, q) = {x}
  BY RunNow, OneNewEvent
<1>4. <<"started">> \in Seq(EventTypes)
  BY DEF EventTypes
<1>0. Commit(Becomes("running"), thread.messages, <<"started">>, FALSE) /\ thread.messages \in Messages
  BY RunNow DEF RunStarted
<1>5. /\ thread'.run = [id |-> q, status |-> "running"] /\ thread'.messages = thread.messages
      /\ \A e \in thread'.events : e.type = "progress" =>
           e \in thread.events \/ e \in {x}
      /\ GrowsLog(thread, thread', {x})
  BY <1>1, <1>2, <1>3, <1>4, <1>0, CommitIs
<1>6. x.type = "started" /\ x.run = q
  OBVIOUS
<1> HIDE DEF q, x
<1>7. GrowsMessages(thread, thread', {x})
  BY <1>1, <1>5, <1>6 DEF GrowsMessages, OfCard, OfReply, Of
<1>8. GrowsRun(thread, thread', {x})
  <2>1. \A e \in thread.events : e.type # "progress"
    BY <1>1, NothingWorks
  <2>2. \A e \in thread'.events : e.type # "progress"
    BY <1>5, <1>6, <2>1
  <2>3. Fresh(x) /\ OfRun(x) /\ Tells(thread', x)
    BY <1>5, <1>6 DEF Fresh, OfRun, Tells, Waiting
  <2> QED
    BY <1>6, <2>2, <2>3 DEF GrowsRun
<1> QED
  BY <1>5, <1>7, <1>8 DEF Grows

LEMMA ProgressGrows ==
  ASSUME FollowInv, Story(thread), Progress
  PROVE  \E new : Grows(thread, thread', new)
<1> DEFINE q == thread.run.id
           x == [seq |-> thread.next, type |-> "progress", run |-> q]
<1>1. thread.run = [id |-> q, status |-> "running"] /\ q \in RunIds /\ thread.run \in ARun
      /\ thread.run.status = "running"
  BY RunNow DEF Progress, RunStatus, Story, ThreadTyped
<1>3. NewEvents(<<"progress">>, q) = {x}
  BY RunNow, OneNewEvent
<1>4. <<"progress">> \in Seq(EventTypes)
  BY DEF EventTypes
<1>0. Commit(thread.run, thread.messages, <<"progress">>, FALSE) /\ thread.messages \in Messages
  BY RunNow DEF Progress
<1>5. /\ thread'.run = thread.run /\ thread'.messages = thread.messages
      /\ \A e \in thread'.events : e.type = "progress" =>
           e \in thread.events \/ e \in {x}
      /\ GrowsLog(thread, thread', {x})
  BY <1>1, <1>3, <1>4, <1>0, CommitIs
<1>6. x.type = "progress" /\ x.run = q
  OBVIOUS
<1> HIDE DEF q, x
<1>7. GrowsMessages(thread, thread', {x})
  BY <1>1, <1>5, <1>6 DEF GrowsMessages, OfCard, OfReply, Of
<1>8. GrowsRun(thread, thread', {x})
  <2>1. \A e \in thread'.events : e.type = "progress" =>
          thread'.run = [id |-> e.run, status |-> "running"]
    BY <1>1, <1>5, <1>6 DEF Story, RunTold
  <2>3. ~Fresh(x) /\ ~OfRun(x)
    BY <1>6 DEF Fresh, OfRun, Waiting
  <2> QED
    BY <1>5, <1>6, <2>1, <2>3 DEF GrowsRun
<1> QED
  BY <1>5, <1>7, <1>8 DEF Grows

LEMMA NoteGrows ==
  ASSUME FollowInv, Story(thread), PublishNote
  PROVE  \E new : Grows(thread, thread', new)
<1> DEFINE q == thread.run.id
           x == [seq |-> thread.next, type |-> "note", run |-> q]
<1>1. thread.run = [id |-> q, status |-> "running"] /\ q \in RunIds /\ thread.run \in ARun
      /\ thread.run.status = "running"
  BY RunNow DEF PublishNote, RunStatus, Story, ThreadTyped
<1>3. NewEvents(<<"note">>, q) = {x}
  BY RunNow, OneNewEvent
<1>4. <<"note">> \in Seq(EventTypes)
  BY DEF EventTypes
<1>0. Commit(thread.run, thread.messages, <<"note">>, FALSE) /\ thread.messages \in Messages
  BY RunNow DEF PublishNote
<1>5. /\ thread'.run = thread.run /\ thread'.messages = thread.messages
      /\ \A e \in thread'.events : e.type = "progress" =>
           e \in thread.events \/ e \in {x}
      /\ GrowsLog(thread, thread', {x})
  BY <1>1, <1>3, <1>4, <1>0, CommitIs
<1>6. x.type = "note" /\ x.run = q
  OBVIOUS
<1> HIDE DEF q, x
<1>7. GrowsMessages(thread, thread', {x})
  BY <1>1, <1>5, <1>6 DEF GrowsMessages, OfCard, OfReply, Of
<1>8. GrowsRun(thread, thread', {x})
  <2>1. \A e \in thread'.events : e.type = "progress" =>
          thread'.run = [id |-> e.run, status |-> "running"]
    BY <1>1, <1>5, <1>6 DEF Story, RunTold
  <2>3. ~Fresh(x) /\ ~OfRun(x)
    BY <1>6 DEF Fresh, OfRun, Waiting
  <2> QED
    BY <1>5, <1>6, <2>1, <2>3 DEF GrowsRun
<1> QED
  BY <1>5, <1>7, <1>8 DEF Grows

LEMMA AnswerGrows ==
  ASSUME FollowInv, Story(thread), Answer
  PROVE  \E new : Grows(thread, thread', new)
<1> DEFINE q == thread.run.id
           x == [seq |-> thread.next, type |-> "answered", run |-> q]
           m == [thread.messages EXCEPT !.card[q] = "answered"]
<1>1. thread.run.status = "waiting_input" /\ q \in RunIds /\ thread.run # NoRun
  BY RunNow DEF Answer, RunStatus
<1>2. Becomes("queued") = [id |-> q, status |-> "queued"] /\ Becomes("queued") \in ARun
  BY <1>1, RunNow DEF RunStatus
<1>3. NewEvents(<<"answered">>, q) = {x}
  BY RunNow, OneNewEvent
<1>4. <<"answered">> \in Seq(EventTypes)
  BY DEF EventTypes
<1>5. m \in Messages
  BY <1>1, RunNow, MessagesTyped
<1>6. Commit(Becomes("queued"), m, <<"answered">>, FALSE)
  BY DEF Answer
<1> HIDE DEF m
<1>7. /\ thread'.run = [id |-> q, status |-> "queued"] /\ thread'.messages = m
      /\ \A e \in thread'.events : e.type = "progress" =>
           e \in thread.events \/ e \in {x}
      /\ GrowsLog(thread, thread', {x})
  BY <1>1, <1>2, <1>3, <1>4, <1>5, <1>6, CommitIs
<1>8. x.type = "answered" /\ x.run = q
  OBVIOUS
<1>9. m.reply = thread.messages.reply
      /\ \A r \in RunIds : m.card[r] = IF r = q THEN "answered" ELSE thread.messages.card[r]
  BY <1>1, RunNow DEF Messages, m
<1> HIDE DEF q, x
<1>10. GrowsMessages(thread, thread', {x})
  BY <1>1, <1>7, <1>8, <1>9 DEF GrowsMessages, OfCard, OfReply, Of, CardOf
<1>11. GrowsRun(thread, thread', {x})
  <2>1. \A e \in thread.events : e.type # "progress"
    BY <1>1, NothingWorks
  <2>2. \A e \in thread'.events : e.type # "progress"
    BY <1>7, <1>8, <2>1
  <2>3. ~Fresh(x) /\ ~OfRun(x)
    BY <1>8 DEF Fresh, OfRun, Waiting
  <2>4. thread.run.status \in Waiting /\ thread'.run.id = thread.run.id
        /\ thread'.run.status = "queued"
    BY <1>1, <1>7 DEF Waiting, q
  <2> QED
    BY <1>8, <2>2, <2>3, <2>4 DEF GrowsRun
<1> QED
  BY <1>7, <1>10, <1>11 DEF Grows

LEMMA TakeoverGrows ==
  ASSUME FollowInv, Story(thread), PauseForTakeover
  PROVE  \E new : Grows(thread, thread', new)
<1> DEFINE q == thread.run.id
           x == [seq |-> thread.next, type |-> "waiting_takeover", run |-> q]
<1>1. thread.run = [id |-> q, status |-> "running"] /\ q \in RunIds /\ thread.run # NoRun
      /\ thread.run.status = "running"
  BY RunNow DEF PauseForTakeover, RunStatus
<1>2. Becomes("waiting_takeover") = [id |-> q, status |-> "waiting_takeover"]
      /\ Becomes("waiting_takeover") \in ARun
  BY <1>1, RunNow DEF RunStatus
<1>3. NewEvents(<<"waiting_takeover">>, q) = {x}
  BY RunNow, OneNewEvent
<1>4. <<"waiting_takeover">> \in Seq(EventTypes)
  BY DEF EventTypes
<1>0. Commit(Becomes("waiting_takeover"), thread.messages, <<"waiting_takeover">>, TRUE) /\ thread.messages \in Messages
  BY RunNow DEF PauseForTakeover
<1>5. /\ thread'.run = [id |-> q, status |-> "waiting_takeover"]
      /\ thread'.messages = thread.messages
      /\ \A e \in thread'.events : e.type = "progress" =>
           e \in {x}
      /\ GrowsLog(thread, thread', {x})
  BY <1>1, <1>2, <1>3, <1>4, <1>0, CommitIs
<1>6. x.type = "waiting_takeover" /\ x.run = q
  OBVIOUS
<1> HIDE DEF q, x
<1>7. GrowsMessages(thread, thread', {x})
  BY <1>1, <1>5, <1>6 DEF GrowsMessages, OfCard, OfReply, Of
<1>8. GrowsRun(thread, thread', {x})
  <2>2. \A e \in thread'.events : e.type # "progress"
    BY <1>5, <1>6
  <2>3. ~Fresh(x) /\ OfRun(x) /\ Tells(thread', x)
    BY <1>5, <1>6 DEF Fresh, OfRun, Tells, Waiting
  <2> QED
    BY <1>1, <1>6, <2>2, <2>3 DEF GrowsRun
<1> QED
  BY <1>5, <1>7, <1>8 DEF Grows

LEMMA PauseGrows ==
  ASSUME FollowInv, Story(thread), PauseForInput
  PROVE  \E new : Grows(thread, thread', new)
<1> DEFINE q == thread.run.id
           x == [seq |-> thread.next, type |-> "card", run |-> q]
           y == [seq |-> thread.next + 1, type |-> "waiting_input", run |-> q]
           m == [thread.messages EXCEPT !.card[q] = "open"]
<1>1. thread.run = [id |-> q, status |-> "running"] /\ q \in RunIds /\ thread.run # NoRun
      /\ thread.run.status = "running"
  BY RunNow DEF PauseForInput, RunStatus
<1>2. Becomes("waiting_input") = [id |-> q, status |-> "waiting_input"]
      /\ Becomes("waiting_input") \in ARun
  BY <1>1, RunNow DEF RunStatus
<1>3. NewEvents(<<"card", "waiting_input">>, q) = {x, y}
  BY RunNow, TwoNewEvents
<1>4. <<"card", "waiting_input">> \in Seq(EventTypes)
  BY DEF EventTypes
<1>5. m \in Messages
  BY <1>1, RunNow, MessagesTyped
<1>6. Commit(Becomes("waiting_input"), m, <<"card", "waiting_input">>, TRUE)
  BY DEF PauseForInput
<1> HIDE DEF m
<1>7. /\ thread'.run = [id |-> q, status |-> "waiting_input"] /\ thread'.messages = m
      /\ \A e \in thread'.events : e.type = "progress" =>
           e \in {x, y}
      /\ GrowsLog(thread, thread', {x, y})
  BY <1>1, <1>2, <1>3, <1>4, <1>5, <1>6, CommitIs
<1>8. /\ x.type = "card" /\ x.run = q /\ y.type = "waiting_input" /\ y.run = q
      /\ y.seq = x.seq + 1 /\ x.seq = y.seq - 1
  BY RunNow
<1>9. m.reply = thread.messages.reply
      /\ \A r \in RunIds : m.card[r] = IF r = q THEN "open" ELSE thread.messages.card[r]
  BY <1>1, RunNow DEF Messages, m
<1>10. thread.run.id = q
  OBVIOUS
<1> HIDE DEF q, x, y
<1>11. GrowsMessages(thread, thread', {x, y})
  BY <1>1, <1>7, <1>8, <1>9, <1>10 DEF GrowsMessages, OfCard, OfReply, Of, CardOf, Drops
<1>12. GrowsRun(thread, thread', {x, y})
  <2>2. \A e \in thread'.events : e.type # "progress"
    BY <1>7, <1>8
  <2>3. ~Fresh(x) /\ ~OfRun(x) /\ ~Fresh(y) /\ OfRun(y) /\ Tells(thread', y)
    BY <1>7, <1>8 DEF Fresh, OfRun, Tells, Waiting
  <2> QED
    BY <1>1, <1>8, <2>2, <2>3 DEF GrowsRun
<1> QED
  BY <1>7, <1>11, <1>12 DEF Grows

LEMMA FinalizeGrows ==
  ASSUME FollowInv, Story(thread), FinalizeRun
  PROVE  \E new : Grows(thread, thread', new)
<1> DEFINE q == thread.run.id
           x == [seq |-> thread.next, type |-> "reply", run |-> q]
           y == [seq |-> thread.next + 1, type |-> "completed", run |-> q]
           m == [thread.messages EXCEPT !.reply = @ \union {q}]
<1>1. thread.run = [id |-> q, status |-> "running"] /\ q \in RunIds /\ thread.run # NoRun
      /\ thread.run.status = "running"
  BY RunNow DEF FinalizeRun, RunStatus
<1>3. NewEvents(<<"reply", "completed">>, q) = {x, y}
  BY RunNow, TwoNewEvents
<1>4. <<"reply", "completed">> \in Seq(EventTypes)
  BY DEF EventTypes
<1>5. m \in Messages
  BY <1>1, RunNow, MessagesTyped
<1>6. Commit(NoRun, m, <<"reply", "completed">>, TRUE)
  BY DEF FinalizeRun
<1> HIDE DEF m
<1>7. /\ thread'.run = NoRun /\ thread'.messages = m
      /\ \A e \in thread'.events : e.type = "progress" =>
           e \in {x, y}
      /\ GrowsLog(thread, thread', {x, y})
  BY <1>1, <1>3, <1>4, <1>5, <1>6, CommitIs, MadeRuns
<1>8. x.type = "reply" /\ x.run = q /\ y.type = "completed" /\ y.run = q
  OBVIOUS
<1>9. m.card = thread.messages.card /\ m.reply = thread.messages.reply \union {q}
  BY <1>1, RunNow DEF Messages, m
<1>10. thread.run.id = q
  OBVIOUS
<1> HIDE DEF q, x, y
<1>11. GrowsMessages(thread, thread', {x, y})
  BY <1>1, <1>7, <1>8, <1>9, <1>10 DEF GrowsMessages, OfCard, OfReply, Of, CardOf, Drops
<1>12. GrowsRun(thread, thread', {x, y})
  <2>2. \A e \in thread'.events : e.type # "progress"
    BY <1>7, <1>8
  <2>3. ~Fresh(x) /\ ~OfRun(x) /\ ~Fresh(y) /\ OfRun(y) /\ Tells(thread', y)
    BY <1>7, <1>8 DEF Fresh, OfRun, Tells, Waiting
  <2> QED
    BY <1>1, <1>8, <2>2, <2>3 DEF GrowsRun
<1> QED
  BY <1>7, <1>11, <1>12 DEF Grows

\* SendMessage and Release write no event.
LEMMA QuietlyGrows ==
  ASSUME FollowInv, Story(thread), SendMessage \/ Release
  PROVE  Grows(thread, thread', {})
<1>1. /\ thread'.messages = thread.messages /\ thread'.events = thread.events
      /\ thread'.next = thread.next /\ thread'.last \in 0..MaxRuns
  <2>1. thread.last \in 0..MaxRuns /\ (thread.last < MaxRuns => thread.last + 1 \in 0..MaxRuns)
    BY DEF Story, ThreadTyped
  <2>2. CASE SendMessage
    BY <2>1, <2>2 DEF SendMessage, FollowInv, LogAndReaders, Shapes
  <2>3. CASE Release
    BY <2>1, <2>3 DEF Release, FollowInv, LogAndReaders, Shapes
  <2> QED
    BY <2>2, <2>3
<1>2. /\ \/ thread.run = NoRun /\ thread'.run.id \in RunIds
         \/ thread.run.status = "waiting_takeover" /\ thread'.run.id = thread.run.id
      /\ thread'.run = [id |-> thread'.run.id, status |-> "queued"]
      /\ thread'.run.id \in RunIds /\ thread'.run.status = "queued"
  <2>1. CASE SendMessage
    <3>1. thread'.run = [id |-> thread.last + 1, status |-> "queued"]
      BY <2>1 DEF SendMessage, FollowInv, LogAndReaders, Shapes
    <3>2. thread.last + 1 \in RunIds
      BY <2>1 DEF SendMessage, Story, ThreadTyped, RunIds
    <3> QED
      BY <2>1, <3>1, <3>2 DEF SendMessage
  <2>2. CASE Release
    <3>1. thread'.run = Becomes("queued")
      BY <2>2 DEF Release, FollowInv, LogAndReaders, Shapes
    <3>2. thread.run.status = "waiting_takeover" /\ thread.run.id \in RunIds
      BY <2>2, RunNow DEF Release
    <3> QED
      BY <3>1, <3>2, RunNow
  <2> QED
    BY <2>1, <2>2
<1>3. thread'.run \in ARun
  BY <1>2, MadeRuns DEF RunStatus
<1>4. GrowsLog(thread, thread', {})
  BY <1>1, <1>3 DEF GrowsLog, Distinct, Story, ThreadTyped
<1>5. GrowsMessages(thread, thread', {})
  <2>1. NoRun.id \notin RunIds
    BY MadeRuns, RunIdsAreNumbers
  <2> QED
    BY <1>1, <1>2, <2>1 DEF GrowsMessages
<1>6. GrowsRun(thread, thread', {})
  <2>1. \A e \in thread.events : e.type # "progress"
    BY <1>2, NothingWorks DEF NoRun
  <2> QED
    BY <1>1, <1>2, <2>1 DEF GrowsRun, Waiting
<1> QED
  BY <1>4, <1>5, <1>6 DEF Grows

LEMMA ThreadGrows ==
  ASSUME FollowInv, Story(thread), ThreadStep, ~ClearThread
  PROVE  \E new : Grows(thread, thread', new)
<1>1. (SendMessage \/ Release) => \E new : Grows(thread, thread', new)
  BY QuietlyGrows
<1> QED
  BY <1>1, RunStartedGrows, ProgressGrows, PauseGrows, AnswerGrows, NoteGrows, TakeoverGrows,
     FinalizeGrows DEF ThreadStep

\* Everything there is was numbered.
LEMMA AllBelow ==
  ASSUME ViewInv
  PROVE  /\ Below(thread) /\ thread.next \in Nat
         /\ \A e \in Everywhere : e.seq \in Nat \ {0} /\ e.seq < thread.next
         /\ client.cursor \in Nat /\ client.cursor < thread.next
         /\ client.cursor \in 0..MaxSeq /\ follower.seq \in 0..MaxSeq
<1>1. LogInv /\ ReadersInv
  BY DEF ViewInv, FollowInv, LogAndReaders
<1>2. Below(thread) /\ thread.next \in 1..(MaxSeq + 1)
  BY <1>1 DEF LogInv, Below, ViewInv, Story, ThreadTyped
<1>3. client.cursor \in Nat /\ client.cursor < thread.next /\ client.cursor \in 0..MaxSeq
      /\ follower.seq \in 0..MaxSeq
  BY <1>1, <1>2 DEF ReadersInv
<1>4. \A e \in Everywhere : e \in Event
  BY DEF Everywhere, ViewInv, Story, ThreadTyped, FieldsTyped
<1>5. \A e \in client.pending : e.seq <= client.cursor
  BY DEF ViewInv, StreamInv
<1>6. ASSUME NEW e \in Everywhere PROVE e.seq \in Nat \ {0} /\ e.seq < thread.next
  <2>1. e.seq \in Nat \ {0}
    BY <1>4, EventFields
  <2> QED
    BY <1>1, <1>2, <1>3, <1>5, <2>1 DEF LogInv, ReadersInv, Everywhere
<1> QED
  BY <1>2, <1>3, <1>6

LEMMA GenuineGrows ==
  ASSUME NEW t, NEW u, NEW new, Story(t), Below(t), Grows(t, u, new),
         NEW e \in Event, e.type # "cleared" => e.run \in RunIds, e.seq < t.next, Genuine(t, e)
  PROVE  Genuine(u, e)
<1>1. e.seq \in Nat
  BY EventFields
<1>2. \A f \in t.events : f.type # "progress" => f \in u.events
  BY DEF Grows, GrowsLog
<1>3. e.type = "progress" => Works(u, e.run, e.seq)
  BY <1>1, WorksGrows DEF Genuine
<1> QED
  BY <1>2, <1>3 DEF Genuine

LEMMA GrowsViews ==
  ASSUME ViewInv, FollowInv', owed' \in BOOLEAN,
         UNCHANGED <<conn, follower, wire, client, request, breaks>>,
         NEW new, Grows(thread, thread', new)
  PROVE  ViewInv'
<1> DEFINE t == thread
           u == thread'
<1>1. /\ Story(t) /\ Below(t) /\ t.next \in Nat /\ client.cursor \in Nat /\ client.cursor < t.next
      /\ \A e \in Everywhere : e.seq \in Nat /\ e.seq < t.next
  BY AllBelow DEF ViewInv
<1>2. Story(u)
  BY <1>1, StoryGrows
<1>3. FieldsTyped'
  BY DEF ViewInv, FieldsTyped
<1>4. EventsInv'
  <2>1. Distinct(Everywhere')
    <3>1. \A e \in Everywhere' : e \in Everywhere \/ e \in new
      BY DEF Everywhere, Grows, GrowsLog
    <3>2. \A e \in new : e.seq >= t.next /\ e.seq \in Nat
      BY <1>2, Seqs DEF Grows, GrowsLog, Story
    <3>3. Distinct(Everywhere) /\ Distinct(new)
      BY DEF ViewInv, EventsInv, Grows, GrowsLog
    <3> QED
      BY <1>1, <3>1, <3>2, <3>3 DEF Distinct
  <2>2. ASSUME NEW e \in wire \union client.pending PROVE Genuine(u, e)
    <3>1. e \in Event /\ (e.type # "cleared" => e.run \in RunIds) /\ Genuine(t, e) /\ e.seq < t.next
      BY <1>1 DEF ViewInv, FieldsTyped, EventsInv, Everywhere
    <3> QED
      BY <1>1, <3>1, GenuineGrows
  <2> QED
    BY <2>1, <2>2 DEF EventsInv
<1>5. StreamInv'
  BY DEF ViewInv, StreamInv
<1>6. RequestInv'
  <2> SUFFICES ASSUME request.at = "served"
               PROVE  /\ SnapshotFits(u, request.view) /\ request.view.cursor < u.next
                      /\ ~client.ready => \A e \in Ahead(u, request.view.cursor) :
                                            e.seq <= client.cursor => e \in client.pending
    BY DEF RequestInv
  <2> DEFINE snap == request.view
  <2>1. /\ SnapshotFits(t, snap) /\ snap.cursor < t.next /\ snap.cursor \in Nat
        /\ ~client.ready => \A e \in Ahead(t, snap.cursor) :
                              e.seq <= client.cursor => e \in client.pending
    BY ViewFields DEF ViewInv, RequestInv, FieldsTyped
  <2>2. SnapshotFits(u, snap)
    BY <1>1, <2>1, SnapshotGrows
  <2>3. snap.cursor < u.next
    BY <1>1, <1>2, <2>1 DEF Grows, GrowsLog, Story, ThreadTyped
  <2>4. \A e \in Ahead(u, snap.cursor) : e \in Ahead(t, snap.cursor) \/ e.seq >= t.next
    BY <1>1, <2>1, AheadGrows DEF Grows, GrowsLog
  <2>5. \A e \in u.events : e.seq \in Nat
    BY <1>2, Seqs DEF Story
  <2>6. ASSUME ~client.ready, NEW e \in Ahead(u, snap.cursor), e.seq <= client.cursor
        PROVE  e \in client.pending
    <3>1. e \in Ahead(t, snap.cursor)
      BY <1>1, <2>4, <2>5, <2>6 DEF Ahead
    <3> QED
      BY <2>1, <2>6, <3>1
  <2> QED
    BY <2>2, <2>3, <2>6
<1>7. ShownInv'
  <2> SUFFICES ASSUME client.ready
               PROVE  Settled(u, client.view, client.cursor) /\ OnlyWaits(u, client.view, client.cursor)
    BY DEF ShownInv
  <2>1. client.view \in View /\ Settled(t, client.view, client.cursor)
        /\ OnlyWaits(t, client.view, client.cursor)
    BY DEF ViewInv, FieldsTyped, ShownInv
  <2> QED
    BY <1>1, <2>1, SettledGrows, WaitsGrow
<1> QED
  BY <1>2, <1>3, <1>4, <1>5, <1>6, <1>7 DEF ViewInv

LEMMA ClearedViews ==
  ASSUME ViewInv, FollowInv', ClearThread
  PROVE  ViewInv'
<1> DEFINE t == thread
           u == thread'
           x == [seq |-> thread.next, type |-> "cleared", run |-> 0]
<1>1. /\ t.next \in Nat /\ client.cursor \in Nat /\ client.cursor < t.next
      /\ \A e \in Everywhere : e.seq \in Nat /\ e.seq < t.next
  BY AllBelow
<1>2. /\ u.events = {x} /\ u.run = NoRun /\ u.messages = NoMessage /\ u.next = t.next + 1
      /\ u.last = t.last /\ owed' = TRUE /\ t.next <= MaxSeq
      /\ UNCHANGED <<conn, follower, wire, client, request, breaks>>
  BY DEF ClearThread, Others, ViewInv, FollowInv, LogAndReaders, Shapes
<1>3. x \in Event /\ x.type = "cleared" /\ x.seq = t.next
  BY <1>1, <1>2 DEF Event, EventTypes, ViewInv, Story, ThreadTyped
<1> HIDE DEF x
<1>4. Story(u)
  <2>1. ThreadTyped(u)
    <3>1. NoMessage \in Messages
      BY DEF NoMessage, Messages
    <3> QED
      BY <1>1, <1>2, <1>3, <3>1, MadeRuns DEF ThreadTyped, ViewInv, Story
  <2>2. Distinct(u.events)
    BY <1>2 DEF Distinct
  <2>3. RunTold(u)
    <3>1. OfRun(x) /\ Fresh(x) /\ Tells(u, x)
      BY <1>2, <1>3 DEF OfRun, Fresh, Tells, Waiting
    <3>2. NewestOfRun(u, x)
      BY <1>1, <1>2, <1>3, <3>1 DEF NewestOfRun
    <3>3. NewestTells(u)
      BY <1>2, <3>1, <3>2 DEF NewestTells
    <3> QED
      BY <1>2, <1>3, <3>1, <3>3 DEF RunTold
  <2>4. MessagesTold(u)
    BY <1>2, <1>3 DEF MessagesTold, OfCard, OfReply, Of, CardOf, NoMessage
  <2> QED
    BY <2>1, <2>2, <2>3, <2>4 DEF Story
<1>5. \A k \in Nat : k < t.next => x \in Ahead(u, k)
  BY <1>1, <1>2, <1>3 DEF Ahead
<1>6. \A v : \A k \in Nat : k < t.next => Settled(u, v, k) /\ OnlyWaits(u, v, k)
  <2> SUFFICES ASSUME NEW v, NEW k \in Nat, k < t.next PROVE Settled(u, v, k) /\ OnlyWaits(u, v, k)
    OBVIOUS
  <2>1. Settled(u, v, k)
    BY <1>3, <1>5, OpenSettles
  <2>2. OnlyWaits(u, v, k)
    BY <1>1, <1>2, <1>3 DEF OnlyWaits
  <2> QED
    BY <2>1, <2>2
<1>7. FieldsTyped'
  BY <1>2 DEF ViewInv, FieldsTyped
<1>8. EventsInv'
  <2>1. Distinct(Everywhere')
    BY <1>1, <1>2, <1>3 DEF Distinct, Everywhere, ViewInv, EventsInv
  <2>2. ASSUME NEW e \in wire \union client.pending PROVE Genuine(u, e)
    <3>1. e.seq \in Nat /\ e.seq < t.next
      BY <1>1 DEF Everywhere
    <3>2. x \in Ahead(u, e.seq) /\ x \in u.events
      BY <1>2, <1>5, <3>1
    <3>3. \A r : Drops(x, r)
      BY <1>3 DEF Drops, Of
    <3> QED
      BY <1>3, <3>1, <3>2, <3>3 DEF Genuine, Works
  <2> QED
    BY <1>2, <2>1, <2>2 DEF EventsInv
<1>9. StreamInv'
  BY <1>2 DEF ViewInv, StreamInv
<1>10. RequestInv'
  <2> SUFFICES ASSUME request.at = "served"
               PROVE  /\ SnapshotFits(u, request.view) /\ request.view.cursor < u.next
                      /\ ~client.ready => \A e \in Ahead(u, request.view.cursor) :
                                            e.seq <= client.cursor => e \in client.pending
    BY <1>2 DEF RequestInv
  <2> DEFINE snap == request.view
  <2>1. snap \in View /\ snap.cursor < t.next /\ snap.cursor \in Nat
    BY ViewFields DEF ViewInv, RequestInv, FieldsTyped
  <2> HIDE DEF snap
  <2>2. Settled(u, snap, snap.cursor)
    BY <1>6, <2>1
  <2>3. RunOpen(u, snap.cursor)
    BY <1>3, <1>5, <2>1 DEF RunOpen, Fresh
  <2>4. SnapshotFits(u, snap)
    BY <1>2, <1>3, <2>1, <2>2, <2>3 DEF SnapshotFits
  <2>5. \A e \in Ahead(u, snap.cursor) : ~ (e.seq <= client.cursor)
    BY <1>1, <1>2, <1>3 DEF Ahead
  <2> QED
    BY <1>1, <1>2, <2>1, <2>4, <2>5 DEF snap
<1>11. ShownInv'
  BY <1>1, <1>2, <1>6 DEF ShownInv
<1> QED
  BY <1>4, <1>7, <1>8, <1>9, <1>10, <1>11 DEF ViewInv

LEMMA ThreadViews ==
  ASSUME ViewInv, ThreadStep PROVE ViewInv'
<1>1. FollowInv /\ FollowInv' /\ Story(thread)
  BY ThreadKeeps DEF ViewInv
<1>2. CASE ClearThread
  BY <1>1, <1>2, ClearedViews
<1>3. CASE ~ClearThread
  <2>1. PICK new : Grows(thread, thread', new)
    BY <1>1, <1>3, ThreadGrows
  <2>2. owed' \in BOOLEAN /\ UNCHANGED <<conn, follower, wire, client, request, breaks>>
    BY DEF ThreadStep, SendMessage, RunStarted, Progress, PauseForInput, Answer, PublishNote,
           PauseForTakeover, Release, FinalizeRun, ClearThread, Commit, Others, ViewInv, FieldsTyped
  <2> QED
    BY <1>1, <2>1, <2>2, GrowsViews
<1> QED
  BY <1>2, <1>3

-----------------------------------------------------------------------------
(* The steps of the API process and of the client *)

\* Nothing that the view depends on changes.
LEMMA Framed ==
  ASSUME ViewInv, FollowInv', FieldsTyped', UNCHANGED <<thread, wire, client, request>>,
         follower'.at = "off" <=> follower.at = "off", follower'.seq = follower.seq
  PROVE  ViewInv'
<1>1. Story(thread')
  BY DEF ViewInv
<1>2. EventsInv'
  BY DEF ViewInv, EventsInv, Everywhere
<1>3. StreamInv'
  BY DEF ViewInv, StreamInv
<1>4. RequestInv' /\ ShownInv'
  BY DEF ViewInv, RequestInv, ShownInv
<1> QED
  BY <1>1, <1>2, <1>3, <1>4 DEF ViewInv

LEMMA ServerViews ==
  ASSUME ViewInv, Notify \/ Disconnect \/ Reconnect \/ FollowerReads \/ FollowerWaits
  PROVE  ViewInv'
<1>0. FollowInv' /\ UNCHANGED <<thread, client, request>>
  BY ServerKeeps DEF ViewInv, Notify, Disconnect, Reconnect, FollowerReads, FollowerWaits
<1>1. CASE Notify \/ Disconnect \/ Reconnect
  <2>1. Told.seq = follower.seq /\ Told.at = follower.at /\ Told.changed \in BOOLEAN
    BY DEF Told, Off, ViewInv, FollowInv, LogAndReaders, Shapes, FieldsTyped
  <2>2. UNCHANGED wire /\ follower'.seq = follower.seq /\ follower'.at = follower.at
        /\ follower'.changed \in BOOLEAN
    BY <1>1, <2>1 DEF Notify, Disconnect, Reconnect, CaughtUpAfterConnect, ViewInv, FieldsTyped
  <2>3. owed' \in BOOLEAN /\ breaks' \in 0..MaxBreaks
    <3>1. owed \in BOOLEAN /\ breaks \in 0..MaxBreaks
      BY DEF ViewInv, FieldsTyped
    <3>2. owed' = FALSE \/ owed' = owed
      BY <1>1 DEF Notify, Disconnect, Reconnect
    <3>3. breaks' = breaks \/ (breaks < MaxBreaks /\ breaks' = breaks + 1)
      BY <1>1 DEF Notify, Disconnect, Reconnect, Break
    <3>4. owed' \in BOOLEAN
      BY <3>1, <3>2, Zenon
    <3>5. breaks' \in 0..MaxBreaks
      BY <3>1, <3>3
    <3> QED
      BY <3>4, <3>5
  <2>4. FieldsTyped'
    BY <1>0, <2>2, <2>3 DEF ViewInv, FieldsTyped
  <2> QED
    BY <1>0, <2>2, <2>4, Framed
<1>2. CASE FollowerWaits
  <2>1. UNCHANGED <<wire, owed, breaks>> /\ follower.at = "read" /\ follower'.at = "wait"
        /\ follower'.seq = follower.seq /\ follower'.changed = follower.changed
    BY <1>2 DEF FollowerWaits, LatchKeeps, ViewInv, FollowInv, LogAndReaders, Shapes
  <2>2. FieldsTyped'
    BY <1>0, <2>1 DEF ViewInv, FieldsTyped
  <2> QED
    BY <1>0, <2>1, <2>2, Framed
<1>3. CASE FollowerReads
  <2>1. /\ wire' = wire \union {e \in thread.events : e.seq > follower.seq}
        /\ UNCHANGED <<owed, breaks>> /\ follower'.at = "read" /\ follower'.changed = FALSE
        /\ follower.at \in {"new", "wait"}
    BY <1>3 DEF FollowerReads
  <2>2. /\ follower'.seq \in Nat /\ follower'.seq >= follower.seq
        /\ \A e \in thread.events : e.seq <= follower'.seq
    BY <1>3, ReadsToTheEnd DEF ViewInv, FollowInv, LogAndReaders
  <2>3. /\ \A e \in Everywhere : e.seq \in Nat
        /\ client.cursor \in Nat /\ follower.seq \in Nat
    BY AllBelow
  <2>4. FieldsTyped'
    BY <1>0, <2>1 DEF ViewInv, FieldsTyped, Story, ThreadTyped
  <2>5. EventsInv'
    <3>1. Everywhere' = Everywhere
      BY <1>0, <2>1 DEF Everywhere
    <3>2. ASSUME NEW e \in thread.events PROVE Genuine(thread, e)
      <4>1. e.type = "progress" => thread.run = [id |-> e.run, status |-> "running"]
        BY DEF ViewInv, Story, RunTold
      <4>2. e.type = "progress" => thread.run.id = e.run /\ thread.run.status = "running"
        BY <4>1
      <4> QED
        BY <4>2 DEF Genuine, Works
    <3> QED
      BY <1>0, <2>1, <3>1, <3>2 DEF ViewInv, EventsInv
  <2>6. StreamInv'
    <3>1. client.at = "reading" /\ client.cursor <= follower.seq
      BY <2>1 DEF ViewInv, StreamInv
    <3>2. \A e \in wire' : client.cursor < e.seq /\ e.seq <= follower'.seq
      BY <2>1, <2>2, <2>3, <3>1 DEF ViewInv, StreamInv, Everywhere
    <3> QED
      BY <1>0, <2>1, <2>2, <2>3, <3>1, <3>2 DEF ViewInv, StreamInv
  <2>7. RequestInv' /\ ShownInv'
    BY <1>0 DEF ViewInv, RequestInv, ShownInv
  <2> QED
    BY <1>0, <2>4, <2>5, <2>6, <2>7 DEF ViewInv
<1> QED
  BY <1>1, <1>2, <1>3

\* What threadSnapshot returns.
LEMMA SnapshotNow ==
  ASSUME ViewInv
  PROVE  /\ SnapshotFits(thread, Snapshot) /\ Snapshot.cursor = LastSeq
         /\ Snapshot \in View /\ LastSeq \in 0..MaxSeq
         /\ LastSeq < thread.next /\ Ahead(thread, LastSeq) = {}
<1> DEFINE t == thread
           snap == Snapshot
<1>1. /\ snap.cursor = LastSeq /\ snap.run = t.run /\ snap.active = {t.run} \ {NoRun}
      /\ snap.messages = t.messages
      /\ snap.bubbles = {r \in RunIds : r = t.run.id /\
                           \E e \in t.events : e.type = "progress" /\ e.run = r}
      /\ snap = [cursor |-> snap.cursor, run |-> snap.run, active |-> snap.active,
                 messages |-> snap.messages, bubbles |-> snap.bubbles]
  BY DEF Snapshot
<1>2. LastSeq \in Nat /\ LastSeq < t.next /\ \A e \in t.events : e.seq <= LastSeq
  BY NewestEvent DEF ViewInv, FollowInv, LogAndReaders
<1>3. \A e \in t.events : e.seq \in Nat
  BY Seqs DEF ViewInv, Story
<1>4. Ahead(t, LastSeq) = {}
  BY <1>2, <1>3 DEF Ahead
<1>5. Story(t) /\ t.run \in ARun /\ t.messages \in Messages /\ t.next \in 1..(MaxSeq + 1)
  BY DEF ViewInv, Story, ThreadTyped
<1> HIDE DEF snap
<1>6. LastSeq \in 0..MaxSeq
  BY <1>2, <1>5
<1>7. snap \in View
  BY <1>1, <1>5, <1>6 DEF View
<1>8. Settled(t, snap, LastSeq)
  <2>1. MessagesSettled(t, snap, LastSeq)
    BY <1>1 DEF MessagesSettled
  <2>2. RunSettled(t, snap, LastSeq)
    BY <1>1, <1>4 DEF RunSettled
  <2>3. ASSUME NEW r \in snap.bubbles PROVE Works(t, r, LastSeq)
    <3>1. PICK e \in t.events : e.type = "progress" /\ e.run = r
      BY <1>1
    <3>2. t.run = [id |-> r, status |-> "running"]
      BY <1>5, <3>1 DEF Story, RunTold
    <3>3. t.run.id = r /\ t.run.status = "running"
      BY <3>2
    <3> QED
      BY <3>3 DEF Works
  <2> QED
    BY <2>1, <2>2, <2>3 DEF Settled, BubblesSettled
<1>9. \A e \in t.events : e.type = "card" => e.seq # LastSeq
  <2> SUFFICES ASSUME NEW e \in t.events, e.type = "card", e.seq = LastSeq PROVE FALSE
    OBVIOUS
  <2>1. PICK f \in t.events : f.seq = e.seq + 1
    BY <1>5 DEF Story, RunTold
  <2> QED
    BY <1>2, <2>1
<1>10. SnapshotFits(t, snap)
  BY <1>1, <1>4, <1>7, <1>8, <1>9 DEF SnapshotFits
<1> QED
  BY <1>1, <1>2, <1>4, <1>6, <1>7, <1>10 DEF snap

LEMMA OpenViews ==
  ASSUME ViewInv, OpenThread PROVE ViewInv'
<1>0. FollowInv' /\ UNCHANGED <<thread, owed, conn, wire, request, breaks>>
  BY ClientKeeps DEF OpenThread, ViewInv
<1>1. /\ follower'.at = "new" /\ follower'.seq = LastSeq /\ follower'.changed = FALSE
      /\ client.at = "closed"
  BY DEF OpenThread, Subscribe
<1>2. ~client.ready /\ client.pending = {} /\ request.at = "none" /\ wire = {}
  BY <1>1 DEF ViewInv, StreamInv
<1>3. /\ client'.at = "reading" /\ client'.cursor = LastSeq /\ client'.pending = {}
      /\ \/ client'.ready = TRUE /\ client'.view = Snapshot
         \/ client'.ready = FALSE /\ client'.view = client.view
  <2>1. CASE client' = [client EXCEPT !.at = "reading", !.cursor = LastSeq]
    BY <1>2, <2>1 DEF ViewInv, FollowInv, LogAndReaders, Shapes, FieldsTyped
  <2>2. CASE client' = [at |-> "reading", cursor |-> LastSeq, ready |-> TRUE,
                        view |-> Snapshot, pending |-> {}]
    BY <2>2
  <2> QED
    BY <2>1, <2>2 DEF OpenThread
<1>4. /\ SnapshotFits(thread, Snapshot) /\ Snapshot.cursor = LastSeq /\ Snapshot \in View
      /\ LastSeq \in 0..MaxSeq
  BY SnapshotNow
<1>5. FieldsTyped'
  BY <1>0, <1>1, <1>2, <1>3, <1>4 DEF ViewInv, FieldsTyped
<1>6. EventsInv'
  <2>1. Everywhere' = Everywhere
    BY <1>0, <1>2, <1>3 DEF Everywhere
  <2> QED
    BY <1>0, <1>2, <1>3, <2>1 DEF ViewInv, EventsInv
<1>7. StreamInv'
  BY <1>0, <1>1, <1>2, <1>3, <1>4 DEF StreamInv
<1>8. RequestInv'
  BY <1>0, <1>2 DEF RequestInv
<1>9. ShownInv'
  <2>1. OnlyWaits(thread, Snapshot, LastSeq)
    <3>1. \A e \in thread.events : e.seq \in Nat
      BY Seqs DEF ViewInv, Story
    <3> QED
      BY <1>4, <3>1 DEF OnlyWaits
  <2>2. Settled(thread, Snapshot, LastSeq)
    BY <1>4 DEF SnapshotFits
  <2> QED
    BY <1>0, <1>3, <2>1, <2>2 DEF ShownInv
<1> QED
  BY <1>0, <1>5, <1>6, <1>7, <1>8, <1>9 DEF ViewInv

LEMMA ReceiveViews ==
  ASSUME ViewInv, Receive PROVE ViewInv'
<1>0. FollowInv' /\ UNCHANGED <<thread, owed, conn, follower, breaks>>
  BY ClientKeeps DEF Receive, ViewInv
<1>1. PICK e \in wire :
        /\ client.at = "reading" /\ \A f \in wire : e.seq <= f.seq
        /\ wire' = wire \ {e}
        /\ client' = [client EXCEPT
             !.cursor = IF e.seq > @ THEN e.seq ELSE @,
             !.view = IF client.ready THEN Applied(@, e) ELSE @,
             !.pending = IF client.ready THEN @ ELSE @ \union {e}]
        /\ request' = IF e.type = "cleared" THEN NoRequest ELSE request
  BY DEF Receive
<1>2. /\ \A f \in Everywhere : f.seq \in Nat
      /\ client.cursor \in Nat /\ follower.seq \in Nat
  BY AllBelow
<1>3. /\ e \in Everywhere /\ e \in Event /\ (e.type # "cleared" => e.run \in RunIds)
      /\ Genuine(thread, e) /\ e.seq \in Nat /\ client.cursor < e.seq /\ e.seq <= follower.seq
  BY <1>1, <1>2 DEF Everywhere, ViewInv, FieldsTyped, EventsInv, StreamInv
<1>4. /\ client'.at = "reading" /\ client'.cursor = e.seq /\ client'.ready = client.ready
      /\ client'.view = (IF client.ready THEN Applied(client.view, e) ELSE client.view)
      /\ client'.pending = (IF client.ready THEN client.pending ELSE client.pending \union {e})
  <2>1. e.seq > client.cursor
    BY <1>2, <1>3
  <2> QED
    BY <1>1, <2>1 DEF ViewInv, FollowInv, LogAndReaders, Shapes
<1>5. Follows(thread, client.cursor, e)
  <2> SUFFICES ASSUME NEW f \in thread.events, f.seq > client.cursor
               PROVE  f.seq > e.seq \/ f = e
    BY <1>2, <1>3 DEF Follows
  <2>1. f.seq > follower.seq \/ f \in wire
    BY <1>1 DEF ViewInv, FollowInv, NothingSkipped
  <2>2. f \in Everywhere /\ f.seq >= e.seq
    BY <1>1, <1>2, <1>3, <2>1 DEF Everywhere
  <2>3. f.seq = e.seq => f = e
    BY <1>3, <2>2 DEF ViewInv, EventsInv, Distinct
  <2> QED
    BY <1>2, <1>3, <2>2, <2>3
<1>6. client.view \in View /\ Applied(client.view, e) \in View
  BY <1>3, AppliedTyped DEF ViewInv, FieldsTyped
<1>7. FieldsTyped'
  <2>1. request'.at \in {"none", "served"} /\ request'.view \in View
        /\ request' = [at |-> request'.at, view |-> request'.view]
    BY <1>1, NoViewTyped DEF NoRequest, ViewInv, FieldsTyped
  <2> QED
    BY <1>0, <1>1, <1>3, <1>4, <1>6, <2>1 DEF ViewInv, FieldsTyped
<1>8. EventsInv'
  <2>1. \A f \in Everywhere' : f \in Everywhere
    BY <1>0, <1>1, <1>3, <1>4 DEF Everywhere
  <2>2. \A f \in wire' \union client'.pending : f \in wire \union client.pending
    BY <1>1, <1>4
  <2> QED
    BY <1>0, <2>1, <2>2 DEF ViewInv, EventsInv, Distinct
<1>9. StreamInv'
  <2>1. \A f \in wire' : f.seq > e.seq /\ f.seq <= follower.seq
    <3> SUFFICES ASSUME NEW f \in wire' PROVE f.seq > e.seq /\ f.seq <= follower.seq
      OBVIOUS
    <3>1. f \in wire /\ f # e /\ f \in Everywhere
      BY <1>1 DEF Everywhere
    <3>2. f.seq >= e.seq /\ f.seq # e.seq /\ f.seq <= follower.seq
      BY <1>1, <1>3, <3>1 DEF ViewInv, EventsInv, Distinct, StreamInv
    <3> QED
      BY <1>2, <1>3, <3>1, <3>2
  <2>2. \A f \in client'.pending : f.seq <= e.seq
    <3>1. \A f \in client.pending : f.seq \in Nat /\ f.seq <= client.cursor
      BY <1>2 DEF Everywhere, ViewInv, StreamInv
    <3> QED
      BY <1>2, <1>3, <1>4, <3>1
  <2> QED
    BY <1>0, <1>1, <1>3, <1>4, <2>1, <2>2 DEF ViewInv, StreamInv
<1>10. RequestInv'
  <2> SUFFICES ASSUME request'.at = "served" PROVE RequestInv'
    BY DEF RequestInv
  <2>1. request' = request /\ request.at = "served"
    BY <1>1 DEF NoRequest
  <2>2. /\ SnapshotFits(thread, request.view) /\ request.view.cursor < thread.next
        /\ ~client.ready => \A f \in Ahead(thread, request.view.cursor) :
                              f.seq <= client.cursor => f \in client.pending
    BY <2>1 DEF ViewInv, RequestInv
  <2>3. ASSUME ~client.ready, NEW f \in Ahead(thread, request.view.cursor), f.seq <= e.seq
        PROVE  f \in client'.pending
    <3>1. f \in thread.events /\ f.seq \in Nat
      BY <1>2 DEF Ahead, Everywhere
    <3>2. CASE f.seq <= client.cursor
      BY <1>4, <2>2, <2>3, <3>2
    <3>3. CASE ~ (f.seq <= client.cursor)
      <4>1. f = e
        BY <1>2, <1>3, <1>5, <2>3, <3>1, <3>3 DEF Follows
      <4> QED
        BY <1>4, <2>3, <4>1
    <3> QED
      BY <3>2, <3>3
  <2> QED
    BY <1>0, <1>4, <2>1, <2>2, <2>3 DEF RequestInv
<1>11. ShownInv'
  <2> SUFFICES ASSUME client.ready
               PROVE  Settled(thread, Applied(client.view, e), e.seq)
                      /\ OnlyWaits(thread, Applied(client.view, e), e.seq)
    BY <1>0, <1>4 DEF ShownInv
  <2>1. Settled(thread, client.view, client.cursor) /\ OnlyWaits(thread, client.view, client.cursor)
        /\ Story(thread)
    BY DEF ViewInv, ShownInv
  <2> QED
    BY <1>2, <1>3, <1>5, <1>6, <2>1, AppliedSettles
<1>12. Story(thread')
  BY <1>0 DEF ViewInv
<1> QED
  BY <1>0, <1>7, <1>8, <1>9, <1>10, <1>11, <1>12 DEF ViewInv

LEMMA StreamViews ==
  ASSUME ViewInv, StreamEnds \/ Resubscribe PROVE ViewInv'
<1>0. FollowInv' /\ UNCHANGED <<thread, owed, conn>>
  BY ClientKeeps DEF StreamEnds, Resubscribe, ViewInv
<1>1. /\ client'.cursor = client.cursor /\ client'.ready = client.ready
      /\ client'.view = client.view /\ client'.pending = client.pending
  BY DEF StreamEnds, Resubscribe, ViewInv, FollowInv, LogAndReaders, Shapes
<1>2. /\ wire' = {} /\ client.at # "closed" /\ client.cursor \in Nat
      /\ \/ follower'.at = "off" /\ client'.at = "retry" /\ request' = NoRequest
         \/ follower'.at = "new" /\ client'.at = "reading" /\ UNCHANGED request
            /\ follower'.seq = client.cursor
      /\ breaks' \in 0..MaxBreaks /\ follower'.changed = FALSE
  <2>0. client.cursor \in Nat /\ breaks \in 0..MaxBreaks
    BY AllBelow DEF ViewInv, FieldsTyped
  <2>1. CASE StreamEnds
    BY <2>0, <2>1 DEF StreamEnds, Break, Off, ViewInv, FollowInv, LogAndReaders, Shapes
  <2>2. CASE Resubscribe
    BY <2>0, <2>2 DEF Resubscribe, ResumeFrom, Subscribe, ViewInv, FollowInv, LogAndReaders,
                      Shapes, StreamInv
  <2> QED
    BY <2>1, <2>2
<1>3. FieldsTyped'
  <2>1. request'.at \in {"none", "served"} /\ request'.view \in View
        /\ request' = [at |-> request'.at, view |-> request'.view]
    BY <1>2, NoViewTyped DEF NoRequest, ViewInv, FieldsTyped
  <2> QED
    BY <1>0, <1>1, <1>2, <2>1 DEF ViewInv, FieldsTyped
<1>4. EventsInv'
  <2>1. \A f \in Everywhere' : f \in Everywhere
    BY <1>0, <1>1, <1>2 DEF Everywhere
  <2> QED
    BY <1>0, <1>1, <1>2, <2>1 DEF ViewInv, EventsInv, Distinct
<1>5. StreamInv'
  BY <1>1, <1>2 DEF ViewInv, StreamInv
<1>6. RequestInv'
  BY <1>0, <1>1, <1>2 DEF ViewInv, RequestInv, NoRequest
<1>7. ShownInv'
  BY <1>0, <1>1 DEF ViewInv, ShownInv
<1> QED
  BY <1>0, <1>3, <1>4, <1>5, <1>6, <1>7 DEF ViewInv

LEMMA SnapshotViews ==
  ASSUME ViewInv, ServeSnapshot \/ TakeSnapshot PROVE ViewInv'
<1>0. FollowInv' /\ UNCHANGED <<thread, owed, conn, follower, wire, breaks>>
  BY ClientKeeps DEF ServeSnapshot, TakeSnapshot, ViewInv
<1>1. CASE ServeSnapshot
  <2>1. /\ request' = [at |-> "served", view |-> Snapshot] /\ UNCHANGED client
        /\ client.at # "closed"
    BY <1>1 DEF ServeSnapshot
  <2>2. request'.at = "served" /\ request'.view = Snapshot
    BY <2>1
  <2>3. /\ SnapshotFits(thread, Snapshot) /\ Snapshot.cursor = LastSeq /\ Snapshot \in View
        /\ LastSeq < thread.next /\ Ahead(thread, LastSeq) = {}
    BY SnapshotNow
  <2>4. FieldsTyped'
    BY <1>0, <2>1, <2>2, <2>3 DEF ViewInv, FieldsTyped
  <2>5. EventsInv' /\ StreamInv' /\ ShownInv'
    BY <1>0, <2>1 DEF ViewInv, EventsInv, Everywhere, StreamInv, ShownInv
  <2>6. RequestInv'
    BY <1>0, <2>1, <2>2, <2>3 DEF RequestInv
  <2> QED
    BY <1>0, <2>4, <2>5, <2>6 DEF ViewInv
<1>2. CASE TakeSnapshot
  <2> DEFINE snap == request.view
             waited == Waited(snap.cursor)
             c == client.cursor
  <2>1. /\ request.at = "served" /\ request' = NoRequest
        /\ client'.at = client.at /\ client'.cursor = c /\ client'.ready = TRUE
        /\ client'.pending = {}
        /\ client'.view = IF client.ready THEN Reconciled(client.view, snap)
                          ELSE Replayed(snap, waited)
    BY <1>2 DEF TakeSnapshot, ViewInv, FollowInv, LogAndReaders, Shapes
  <2>2. /\ SnapshotFits(thread, snap) /\ snap \in View /\ snap.cursor \in Nat
        /\ Settled(thread, snap, snap.cursor)
        /\ ~client.ready => \A e \in Ahead(thread, snap.cursor) : e.seq <= c => e \in client.pending
    BY <2>1, ViewFields DEF ViewInv, RequestInv, SnapshotFits
  <2>3. c \in 0..MaxSeq /\ Story(thread)
    BY AllBelow DEF ViewInv
  <2>4. /\ client'.view \in View /\ Settled(thread, client'.view, c)
        /\ OnlyWaits(thread, client'.view, c)
    <3>1. CASE client.ready
      <4>1. /\ client.view \in View /\ Settled(thread, client.view, c)
            /\ OnlyWaits(thread, client.view, c)
        BY <3>1 DEF ViewInv, FieldsTyped, ShownInv
      <4>2. c \in Nat
        BY <2>3
      <4> HIDE DEF c, snap, waited
      <4>3. /\ Settled(thread, Reconciled(client.view, snap), c)
            /\ OnlyWaits(thread, Reconciled(client.view, snap), c)
        BY <2>2, <2>3, <4>1, <4>2, ReconciledSettles
      <4>4. Reconciled(client.view, snap) \in View
        BY <2>2, <4>1, ReconciledTyped
      <4> QED
        BY <2>1, <3>1, <4>3, <4>4
    <3>2. CASE ~client.ready
      <4>1. waited \subseteq client.pending /\ waited \in SUBSET Event
            /\ \A e \in client.pending : e.seq > snap.cursor => e \in waited
        BY DEF Waited, ViewInv, FieldsTyped
      <4>2. Distinct(thread.events \union waited)
        BY <4>1 DEF ViewInv, EventsInv, Everywhere, Distinct
      <4>3. \A e \in waited : /\ e.seq > snap.cursor /\ e.seq <= c /\ Genuine(thread, e)
                              /\ e.type # "cleared" => e.run \in RunIds
        BY <4>1 DEF Waited, ViewInv, StreamInv, EventsInv, FieldsTyped
      <4>4. \A e \in Ahead(thread, snap.cursor) : e.seq <= c => e \in waited
        BY <2>2, <3>2, <4>1 DEF Ahead
      <4> HIDE DEF c, snap, waited
      <4>5. LET v == Replayed(snap, waited) IN
            v \in View /\ Settled(thread, v, c) /\ OnlyWaits(thread, v, c)
        BY <2>2, <2>3, <4>1, <4>2, <4>3, <4>4, ReplayedSettles
      <4> QED
        BY <2>1, <3>2, <4>5
    <3> QED
      BY <3>1, <3>2
  <2>5. client.at # "closed"
    BY <2>1 DEF ViewInv, StreamInv
  <2>6. request'.at = "none" /\ request'.view = NoView
        /\ request' = [at |-> request'.at, view |-> request'.view]
    BY <2>1 DEF NoRequest
  <2> HIDE DEF snap, waited
  <2>7. FieldsTyped'
    BY <1>0, <2>1, <2>4, <2>6, NoViewTyped DEF ViewInv, FieldsTyped
  <2>8. EventsInv'
    BY <1>0, <2>1 DEF ViewInv, EventsInv, Everywhere, Distinct
  <2>9. StreamInv'
    BY <1>0, <2>1, <2>5 DEF ViewInv, StreamInv
  <2>10. RequestInv' /\ ShownInv'
    BY <1>0, <2>1, <2>4, <2>6 DEF RequestInv, ShownInv
  <2> QED
    BY <1>0, <2>3, <2>7, <2>8, <2>9, <2>10 DEF ViewInv
<1> QED
  BY <1>1, <1>2

-----------------------------------------------------------------------------
(* Theorems about the view *)

LEMMA InitViews == FollowInit => ViewInv
<1> SUFFICES ASSUME FollowInit PROVE ViewInv
  OBVIOUS
<1>1. FollowInv
  BY InitFollow
<1>2. /\ thread.run = NoRun /\ thread.last = 0 /\ thread.messages = NoMessage
      /\ thread.events = {} /\ thread.next = 1
  BY DEF FollowInit
<1>3. Story(thread)
  <2>1. NoMessage \in Messages
    BY DEF NoMessage, Messages
  <2>2. ThreadTyped(thread)
    BY <1>2, <2>1, MadeRuns DEF ThreadTyped
  <2>3. Distinct(thread.events) /\ RunTold(thread) /\ MessagesTold(thread)
    BY <1>2 DEF Distinct, RunTold, NewestTells, MessagesTold
  <2> QED
    BY <2>2, <2>3 DEF Story
<1>4. FieldsTyped
  <2>1. /\ owed = FALSE /\ breaks = 0 /\ wire = {} /\ follower.changed = FALSE
        /\ client.at = "closed" /\ client.ready = FALSE /\ client.view = NoView
        /\ client.pending = {} /\ request.at = "none" /\ request.view = NoView
        /\ request = [at |-> "none", view |-> NoView]
    BY DEF FollowInit, Off, NoRequest
  <2>2. owed \in BOOLEAN /\ follower.changed \in BOOLEAN /\ client.ready \in BOOLEAN
    BY <2>1, Zenon
  <2>3. breaks \in 0..MaxBreaks /\ wire \subseteq Event /\ client.pending \subseteq Event
        /\ client.view \in View /\ request.view \in View
    BY <2>1, NoViewTyped
  <2>4. \A e \in wire \union client.pending : FALSE
    BY <2>1
  <2> QED
    BY <2>1, <2>2, <2>3, <2>4 DEF FieldsTyped
<1>5. EventsInv /\ StreamInv /\ RequestInv /\ ShownInv
  BY DEF FollowInit, Off, NoRequest, EventsInv, Everywhere, Distinct, StreamInv, RequestInv, ShownInv
<1> QED
  BY <1>1, <1>3, <1>4, <1>5 DEF ViewInv

LEMMA ViewsInductive == ViewInv /\ [FollowNext]_followVars => ViewInv'
<1> SUFFICES ASSUME ViewInv, [FollowNext]_followVars PROVE ViewInv'
  OBVIOUS
<1>1. CASE UNCHANGED followVars
  <2>1. FollowInv'
    BY <1>1, FollowInductive DEF ViewInv
  <2>2. FieldsTyped'
    BY <1>1 DEF followVars, ViewInv, FieldsTyped
  <2> QED
    BY <1>1, <2>1, <2>2, Framed DEF followVars
<1>2. CASE FollowNext
  BY <1>2, ThreadViews, ServerViews, OpenViews, ReceiveViews, StreamViews, SnapshotViews
     DEF FollowNext
<1> QED
  BY <1>1, <1>2

LEMMA ViewInvHolds == FollowSpec => []ViewInv
  BY InitViews, ViewsInductive, PTL DEF FollowSpec

\* A client that received everything has nothing ahead.
LEMMA CurrentView == ViewInv => ViewIsCurrent
<1> SUFFICES ASSUME ViewInv, CaughtUp, thread.run.status # "queued"
             PROVE  /\ client.view.run = thread.run
                    /\ client.view.messages = thread.messages
                    /\ thread.run.status \notin {"running", "waiting_takeover"} =>
                         client.view.bubbles = {}
  BY DEF ViewIsCurrent
<1> DEFINE v == client.view
           t == thread
           c == client.cursor
<1>1. Ahead(t, c) = {}
  <2>1. LastSeq \in Nat /\ \A e \in t.events : e.seq <= LastSeq
    BY NewestEvent DEF ViewInv, FollowInv, LogAndReaders
  <2>2. \A e \in t.events : e.seq \in Nat
    BY Seqs DEF ViewInv, Story
  <2>3. follower.seq \in Nat /\ follower.seq >= LastSeq /\ wire = {} /\ client.at = "reading"
    BY AllBelow DEF CaughtUp
  <2> SUFFICES ASSUME NEW e \in t.events, e.seq > c PROVE FALSE
    BY DEF Ahead
  <2>4. e.seq > follower.seq
    BY <2>3 DEF ViewInv, FollowInv, NothingSkipped
  <2> QED
    BY <2>1, <2>2, <2>3, <2>4
<1>2. Settled(t, v, c) /\ v \in View /\ Story(t)
  BY DEF CaughtUp, ViewInv, ShownInv, FieldsTyped
<1>3. v.run = t.run
  BY <1>1, <1>2 DEF Settled, RunSettled, RunOpen
<1>4. v.messages = t.messages
  <2>1. v.messages \in Messages /\ t.messages \in Messages
    BY <1>2, ViewFields DEF Story, ThreadTyped
  <2>2. \A r \in RunIds : v.messages.card[r] = t.messages.card[r]
                          /\ (r \in v.messages.reply <=> r \in t.messages.reply)
    BY <1>1, <1>2 DEF Settled, MessagesSettled
  <2>3. v.messages.card = t.messages.card
    BY <2>1, <2>2 DEF Messages
  <2>4. v.messages.reply = t.messages.reply
    BY <2>1, <2>2 DEF Messages
  <2> QED
    BY <2>1, <2>3, <2>4 DEF Messages
<1>5. ASSUME t.run.status \notin {"running", "waiting_takeover"} PROVE v.bubbles = {}
  <2> SUFFICES ASSUME NEW r \in v.bubbles PROVE FALSE
    OBVIOUS
  <2>1. t.run.id = r /\ t.run.status # "waiting_input"
    BY <1>1, <1>2 DEF Settled, BubblesSettled, Works
  <2>2. r \in RunIds
    BY <1>2, ViewFields
  <2>3. t.run.status \in RunStatus
    BY <1>2, <2>1, <2>2, RunNow, RunIdsAreNumbers
  <2> QED
    BY <1>5, <2>1, <2>3 DEF RunStatus
<1> QED
  BY <1>3, <1>4, <1>5

LEMMA TypesOK == ViewInv => FollowTypeOK
<1> SUFFICES ASSUME ViewInv PROVE FollowTypeOK
  OBVIOUS
<1>1. Shapes /\ FieldsTyped /\ ThreadTyped(thread)
  BY DEF ViewInv, FollowInv, LogAndReaders, Story
<1>2. conn \in {"up", "down"} /\ follower.at \in {"off", "new", "read", "wait"}
  BY DEF ViewInv, FollowInv, WakeInv
<1>3. client.cursor \in 0..MaxSeq /\ follower.seq \in 0..MaxSeq
  BY AllBelow
<1>4. thread \in Thread
  BY <1>1 DEF Shapes, ThreadTyped, Thread
<1>5. follower \in [at : {"off", "new", "read", "wait"}, seq : 0..MaxSeq, changed : BOOLEAN]
  BY <1>1, <1>2, <1>3 DEF Shapes, FieldsTyped
<1>6. client \in Client
  BY <1>1, <1>3 DEF Shapes, FieldsTyped, Client
<1>7. request \in [at : {"none", "served"}, view : View]
  BY <1>1 DEF FieldsTyped
<1> QED
  BY <1>1, <1>2, <1>4, <1>5, <1>6, <1>7 DEF FollowTypeOK, FieldsTyped

\* The types of the thread, the stream and the view, in every reachable state.
THEOREM FollowTypeCorrect == FollowSpec => []FollowTypeOK
  BY ViewInvHolds, TypesOK, PTL

\* applyThreadEvent, reconcileRefreshedThread and the replay of pending events together:
\* whatever snapshots and broken streams come in between, a client that received every
\* event shows the thread's run and messages, and no bubble of a run that does not work.
THEOREM ViewsAreCurrent == FollowSpec => []ViewIsCurrent
  BY ViewInvHolds, CurrentView, PTL

=============================================================================
