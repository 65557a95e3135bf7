------------------------------ MODULE ThreadFollow ------------------------------
(***************************************************************************)
(* How an open thread stays up to date: the thread's durable events, the   *)
(* API process that follows them for a client (woken by notifications over *)
(* a database connection that may break), and the web client, which folds  *)
(* the events into its view while snapshots of the thread come in between. *)
(* There is one bot's thread and one client; a run is a number, and its    *)
(* messages are the card it asks with and its reply.                       *)
(***************************************************************************)
EXTENDS Naturals, Sequences, FiniteSetsExt

CONSTANTS
  MaxSeq,         \* bound: how many events are appended
  MaxRuns,        \* bound: how many runs there are
  MaxBreaks       \* bound: how often a connection breaks

ASSUME FollowBounds == MaxSeq \in Nat /\ MaxRuns \in Nat \ {0} /\ MaxBreaks \in Nat

VARIABLES
  thread,    \* the rows: run, messages and events
  owed,      \* a committed change was not notified yet
  conn,      \* the LISTEN connection of the API process
  follower,  \* followThreadEvents for the client
  wire,      \* events on their way to the client
  client,    \* runThreadSubscription and the view
  request,   \* the client's latest request for a snapshot
  breaks

followVars == <<thread, owed, conn, follower, wire, client, request, breaks>>

RunIds == 1..MaxRuns
NoRun  == [id |-> 0, status |-> "none"]

RunStatus == {"queued", "running", "waiting_input", "waiting_takeover"}
ARun      == [id : RunIds, status : RunStatus] \union {NoRun}
Messages  == [card : [RunIds -> {"none", "open", "answered"}], reply : SUBSET RunIds]
NoMessage == [card |-> [r \in RunIds |-> "none"], reply |-> {}]

EventTypes == {"started", "progress", "card", "answered", "waiting_input", "note",
               "waiting_takeover", "reply", "completed", "cleared"}
Event      == [seq : 1..MaxSeq, type : EventTypes, run : 0..MaxRuns]

\* last: the newest run; next: nextEventSeq.
Thread == [run : ARun, last : 0..MaxRuns, messages : Messages, events : SUBSET Event,
           next : 1..(MaxSeq + 1)]

\* bubbles: the runs that are shown working.
View   == [cursor : 0..MaxSeq, run : ARun, active : SUBSET ARun,
           messages : Messages, bubbles : SUBSET RunIds]
NoView == [cursor |-> 0, run |-> NoRun, active |-> {}, messages |-> NoMessage, bubbles |-> {}]

\* pending: events that wait for the first snapshot.
Client == [at : {"closed", "reading", "retry"}, cursor : 0..MaxSeq, ready : BOOLEAN,
           view : View, pending : SUBSET Event]

NoRequest == [at |-> "none", view |-> NoView]

Off == [at |-> "off", seq |-> 0, changed |-> FALSE]

FollowInit ==
  /\ thread = [run |-> NoRun, last |-> 0, messages |-> NoMessage, events |-> {}, next |-> 1]
  /\ owed = FALSE /\ conn = "up"
  /\ follower = Off
  /\ wire = {}
  /\ client = [at |-> "closed", cursor |-> 0, ready |-> FALSE, view |-> NoView, pending |-> {}]
  /\ request = NoRequest
  /\ breaks = 0

Break == breaks < MaxBreaks /\ breaks' = breaks + 1

NewEvents(types, run) ==
  {[seq |-> thread.next + i - 1, type |-> types[i], run |-> run] : i \in DOMAIN types}

Others == <<conn, follower, wire, client, request, breaks>>

\* A transaction that appends events and may delete the run's progress.
Commit(run, messages, types, ends) ==
  /\ thread.next + Len(types) <= MaxSeq + 1
  /\ thread' = [thread EXCEPT
       !.run = run, !.messages = messages, !.next = @ + Len(types),
       !.events = {e \in @ : ends => e.type # "progress"}
                    \union NewEvents(types, thread.run.id)]
  /\ owed' = TRUE
  /\ UNCHANGED Others

Becomes(status) == [thread.run EXCEPT !.status = status]

-----------------------------------------------------------------------------
(* The thread *)

SendMessage ==
  /\ thread.run = NoRun /\ thread.last < MaxRuns
  /\ thread' = [thread EXCEPT !.run = [id |-> thread.last + 1, status |-> "queued"],
                              !.last = @ + 1]
  /\ UNCHANGED <<owed, Others>>

RunStarted ==
  /\ thread.run.status = "queued"
  /\ Commit(Becomes("running"), thread.messages, <<"started">>, FALSE)

LastSeq == Max({0} \union {e.seq : e \in thread.events})

\* Bound: two of a kind in a row tell nothing more.
Repeats(type) == \E e \in thread.events : e.seq = LastSeq /\ e.type = type

Progress ==
  /\ thread.run.status = "running" /\ ~Repeats("progress")
  /\ Commit(thread.run, thread.messages, <<"progress">>, FALSE)

PauseForInput ==
  /\ thread.run.status = "running"
  /\ Commit(Becomes("waiting_input"), [thread.messages EXCEPT !.card[thread.run.id] = "open"],
            <<"card", "waiting_input">>, TRUE)

Answer ==
  /\ thread.run.status = "waiting_input"
  /\ Commit(Becomes("queued"), [thread.messages EXCEPT !.card[thread.run.id] = "answered"],
            <<"answered">>, FALSE)

\* publishMessage while the turn goes on: what it adds is not told apart here.
PublishNote ==
  /\ thread.run.status = "running" /\ ~Repeats("note")
  /\ Commit(thread.run, thread.messages, <<"note">>, FALSE)

\* The executor has just published why it needs the user.
PauseForTakeover ==
  /\ thread.run.status = "running" /\ Repeats("note")
  /\ Commit(Becomes("waiting_takeover"), thread.messages, <<"waiting_takeover">>, TRUE)

Release ==
  /\ thread.run.status = "waiting_takeover"
  /\ thread' = [thread EXCEPT !.run = Becomes("queued")]
  /\ UNCHANGED <<owed, Others>>

FinalizeRun ==
  /\ thread.run.status = "running"
  /\ Commit(NoRun, [thread.messages EXCEPT !.reply = @ \union {thread.run.id}],
            <<"reply", "completed">>, TRUE)

\* clearThread: the runs are cancelled, messages and events deleted.
ClearThread ==
  /\ thread.next <= MaxSeq
  /\ thread' = [thread EXCEPT
       !.run = NoRun, !.messages = NoMessage, !.next = @ + 1,
       !.events = {[seq |-> thread.next, type |-> "cleared", run |-> 0]}]
  /\ owed' = TRUE
  /\ UNCHANGED Others

ThreadStep == \/ SendMessage \/ RunStarted \/ Progress \/ PauseForInput \/ Answer
              \/ PublishNote \/ PauseForTakeover \/ Release \/ FinalizeRun \/ ClearThread

\* threadSnapshot, under a lock of the thread's row; progress events are the live view
\* of the active run.
Snapshot ==
  [cursor |-> LastSeq, run |-> thread.run, active |-> {thread.run} \ {NoRun},
   messages |-> thread.messages,
   bubbles |-> {r \in RunIds : r = thread.run.id /\
                  \E e \in thread.events : e.type = "progress" /\ e.run = r}]

-----------------------------------------------------------------------------
(* The API process *)

\* What a subscriber is told of; nobody is subscribed while the stream is off.
Told == IF follower = Off THEN Off ELSE [follower EXCEPT !.changed = TRUE]

\* notifyRealtime: heard only while the connection listens.
Notify ==
  /\ owed
  /\ owed' = FALSE
  /\ follower' = IF conn = "up" THEN Told ELSE follower
  /\ UNCHANGED <<thread, conn, wire, client, request, breaks>>

Disconnect ==
  /\ conn = "up" /\ Break
  /\ conn' = "down"
  /\ UNCHANGED <<thread, owed, follower, wire, client, request>>

\* (wrong: who subscribed before is not told)
NobodyCatchesUp == follower

\* notifySubscribersToCatchUp
CaughtUpAfterConnect == Told

Reconnect ==
  /\ conn = "down"
  /\ conn' = "up"
  /\ follower' = CaughtUpAfterConnect
  /\ UNCHANGED <<thread, owed, wire, client, request, breaks>>

\* The next batch, at once or when the latch or the catch-up timer ends the wait. What is
\* notified from here on counts for the wait that follows: its generation is taken first.
FollowerReads ==
  LET unseen == {e \in thread.events : e.seq > follower.seq} IN
  /\ follower.at \in {"new", "wait"}
  /\ wire' = wire \union unseen
  /\ follower' = [at |-> "read", changed |-> FALSE,
                  seq |-> Max({follower.seq} \union {e.seq : e \in unseen})]
  /\ UNCHANGED <<thread, owed, conn, client, request, breaks>>

\* waitForChange: a change since the generation was taken ends the wait at once.
LatchKeeps == follower.changed

FollowerWaits ==
  /\ follower.at = "read"
  /\ follower' = [follower EXCEPT !.at = "wait", !.changed = LatchKeeps]
  /\ UNCHANGED <<thread, owed, conn, wire, client, request, breaks>>

-----------------------------------------------------------------------------
(* The view *)

UpdateRun(view, run) ==
  [view EXCEPT !.run = run, !.active = {a \in @ : a.id # run.id} \union {run}]

Known(view, r) == view.run.id = r \/ \E a \in view.active : a.id = r

\* A run the view does not show is taken in when it waits.
Waits(view, run) ==
  IF ~Known(view, run.id)
    THEN [view EXCEPT !.run = IF @.status \in {"waiting_input", "waiting_takeover"} THEN @ ELSE run,
                      !.active = @ \union {run}]
    ELSE [view EXCEPT !.run = IF @.id = run.id THEN run ELSE @,
                      !.active = {IF a.id = run.id THEN run ELSE a : a \in @}]

Ends(view, r) ==
  LET active == {a \in view.active : a.id # r} IN
  [view EXCEPT !.active = active, !.bubbles = @ \ {r},
               !.run = IF @.id # r THEN @
                       ELSE IF active = {} THEN NoRun ELSE CHOOSE a \in active : TRUE]

Message(view, e) ==
  [view EXCEPT !.bubbles = @ \ {e.run},
               !.messages = CASE e.type = "card"     -> [@ EXCEPT !.card[e.run] = "open"]
                              [] e.type = "answered" -> [@ EXCEPT !.card[e.run] = "answered"]
                              [] e.type = "reply"    -> [@ EXCEPT !.reply = @ \union {e.run}]
                              [] OTHER               -> @]

Reduced(view, e) ==
  CASE e.type = "cleared"  -> NoView
    [] e.type = "started"  -> [view EXCEPT !.run = [id |-> e.run, status |-> "running"],
                                           !.active = {[id |-> e.run, status |-> "running"]}]
    [] e.type = "progress" -> [view EXCEPT !.bubbles = @ \union {e.run}]
    [] e.type \in {"waiting_input", "waiting_takeover"} ->
         [Waits(view, [id |-> e.run, status |-> e.type]) EXCEPT
            !.bubbles = IF e.type = "waiting_input" THEN @ \ {e.run} ELSE @]
    [] e.type = "completed" -> Ends(view, e.run)
    [] OTHER -> Message(view, e)

\* applyThreadEvent: the cursor of the view is the event's, even if it was further; a
\* wait that the view shows already is left out.
Applied(view, e) ==
  IF e.type \in {"waiting_input", "waiting_takeover"} /\ Reduced(view, e) = view
    THEN view
    ELSE [Reduced(view, e) EXCEPT !.cursor = e.seq]

\* (wrong: a snapshot is taken whatever the view has seen)
ReconciledAlways(view, snap) == snap

\* reconcileRefreshedThread: a snapshot that is behind the view is left, but for a run
\* the view shows working; a takeover that the view waits for is kept.
Reconciled(view, snap) ==
  IF snap.cursor < view.cursor
    THEN IF view.run = NoRun /\ snap.run # NoRun /\ snap.run.id \in view.bubbles
           THEN [view EXCEPT !.run = snap.run, !.active = {snap.run}]
           ELSE view
    ELSE IF view.run.status = "waiting_takeover" /\ snap.run.id = view.run.id
           THEN [snap EXCEPT !.run = view.run, !.active = {view.run}]
           ELSE snap

-----------------------------------------------------------------------------
(* The client *)

Subscribe(cursor) == follower' = [at |-> "new", seq |-> cursor, changed |-> FALSE]

\* With a snapshot, or with the head of the thread only.
OpenThread ==
  /\ client.at = "closed"
  /\ \/ client' = [at |-> "reading", cursor |-> LastSeq, ready |-> TRUE, view |-> Snapshot,
                   pending |-> {}]
     \/ client' = [client EXCEPT !.at = "reading", !.cursor = LastSeq]
  /\ Subscribe(LastSeq)
  /\ UNCHANGED <<thread, owed, conn, wire, request, breaks>>

\* The event that clears the thread voids the request under way.
Receive ==
  \E e \in wire :
  /\ client.at = "reading" /\ \A f \in wire : e.seq <= f.seq
  /\ wire' = wire \ {e}
  /\ client' = [client EXCEPT
       !.cursor = IF e.seq > @ THEN e.seq ELSE @,
       !.view = IF client.ready THEN Applied(@, e) ELSE @,
       !.pending = IF client.ready THEN @ ELSE @ \union {e}]
  /\ request' = IF e.type = "cleared" THEN NoRequest ELSE request
  /\ UNCHANGED <<thread, owed, conn, follower, breaks>>

\* The stream breaks: what was on its way is lost.
StreamEnds ==
  /\ client.at = "reading" /\ Break
  /\ wire' = {}
  /\ follower' = Off
  /\ client' = [client EXCEPT !.at = "retry"]
  /\ request' = NoRequest
  /\ UNCHANGED <<thread, owed, conn>>

\* (wrong: from where the thread is now)
ResumeFromTheHead == LastSeq

ResumeFrom == client.cursor

\* After the refresh, from the last event that was received.
Resubscribe ==
  /\ client.at = "retry" /\ request.at = "none"
  /\ client' = [client EXCEPT !.at = "reading"]
  /\ Subscribe(ResumeFrom)
  /\ UNCHANGED <<thread, owed, conn, wire, request, breaks>>

\* refreshThread, at a run's end, when it waits, after a broken stream, while there is no
\* snapshot and at the user's actions: the answer, as of when the server reads the
\* thread. A new request makes the earlier ones void; one that fails is never answered.
ServeSnapshot ==
  /\ client.at # "closed"
  /\ request' = [at |-> "served", view |-> Snapshot]
  /\ UNCHANGED <<thread, owed, conn, follower, wire, client, breaks>>

\* The events that waited and that the first snapshot does not contain are applied to it in
\* their order.
Waited(cursor) == {e \in client.pending : e.seq > cursor}

Replayed(view, events) ==
  LET upTo[n \in 0..MaxSeq] ==
        IF n = 0 THEN view
        ELSE IF \E e \in events : e.seq = n
               THEN Applied(upTo[n - 1], CHOOSE e \in events : e.seq = n)
               ELSE upTo[n - 1]
  IN  upTo[MaxSeq]

TakeSnapshot ==
  LET snap == request.view IN
  /\ request.at = "served"
  /\ request' = NoRequest
  /\ client' = [client EXCEPT
       !.ready = TRUE, !.pending = {},
       !.view = IF client.ready THEN Reconciled(@, snap)
                ELSE Replayed(snap, Waited(snap.cursor))]
  /\ UNCHANGED <<thread, owed, conn, follower, wire, breaks>>

FollowNext ==
  \/ ThreadStep
  \/ Notify \/ Disconnect \/ Reconnect
  \/ FollowerReads \/ FollowerWaits
  \/ OpenThread \/ Receive \/ StreamEnds \/ Resubscribe
  \/ ServeSnapshot \/ TakeSnapshot

FollowSpec == FollowInit /\ [][FollowNext]_followVars

-----------------------------------------------------------------------------
(* Properties *)

\* The thread, the stream and the view keep their types.
FollowTypeOK ==
  /\ thread \in Thread /\ owed \in BOOLEAN /\ conn \in {"up", "down"}
  /\ follower \in [at : {"off", "new", "read", "wait"}, seq : 0..MaxSeq, changed : BOOLEAN]
  /\ wire \subseteq Event /\ client \in Client
  /\ request \in [at : {"none", "served"}, view : View]
  /\ breaks \in 0..MaxBreaks

\* A follower that waits while there are events it has not read is about to be woken:
\* by its latch, by a notification on its way, or by the connection that comes back.
NoLostWakeup ==
  follower.at = "wait" /\ LastSeq > follower.seq => follower.changed \/ owed \/ conn = "down"

\* The client is never subscribed past an event it did not receive, over broken streams and
\* new subscriptions: what it has not received is on its way or still to be read.
NothingSkipped ==
  client.at = "reading" =>
    \A e \in thread.events :
      e.seq > client.cursor => e.seq > follower.seq \/ e \in wire

CaughtUp == /\ client.at = "reading" /\ client.ready
            /\ wire = {} /\ follower.at = "wait" /\ follower.seq >= LastSeq

\* A client that received every event shows the thread as a reload would: the run, its
\* card and the messages, whatever snapshots came in between; and it shows nothing as being
\* worked on once the run is over or asks the user.
ViewIsCurrent ==
  CaughtUp /\ thread.run.status # "queued" =>
    /\ client.view.run = thread.run
    /\ client.view.messages = thread.messages
    /\ thread.run.status \notin {"running", "waiting_takeover"} => client.view.bubbles = {}

=============================================================================
