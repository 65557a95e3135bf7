------------------------- MODULE HistoryCompaction -------------------------
(* How the older messages of a bot's thread are summarised.  Jobs compact     *)
(* the messages after a cursor into a summary kept in the thread row, and     *)
(* save a copy in an external memory; runs read the row, the latest messages  *)
(* and the memory; clearing the thread deletes the messages, moves the cursor *)
(* past them and starts a new generation.  A text is the set of the sequence  *)
(* numbers it tells of.                                                       *)
EXTENDS Integers, FiniteSets, FiniteSetsExt

CONSTANTS
  Calls,           \* the history.compact jobs that may run at once
  BatchSize,       \* COMPACTION_BATCH_SIZE
  WindowSize,      \* HISTORY_WINDOW_SIZE
  LegacySize,      \* LEGACY_HISTORY_WINDOW_SIZE
  Semantic,        \* whether the space has a memory provider that keeps histories
  MaxLegacy,       \* bound: messages in a thread from before summaries were kept in its row
  MaxMessages,     \* bound: messages ever stored in the thread
  MaxGeneration,   \* bound: how often the thread is cleared
  MaxUpsets        \* bound: crashes, failed model calls and failed purges

ASSUME SizesAssumption ==
  /\ BatchSize \in Nat \ {0} /\ WindowSize \in Nat \ {0} /\ LegacySize \in Nat
  /\ LegacySize >= WindowSize + BatchSize
  /\ Semantic \in BOOLEAN
  /\ MaxLegacy \in Nat /\ MaxMessages \in Nat /\ MaxGeneration \in Nat /\ MaxUpsets \in Nat

VARIABLES
  thread,     \* next, cursor, summary and gen of the Thread row
  messages,   \* sequence numbers of its Message rows
  memory,     \* summaries in the external memory, each under its generation
  job,        \* whether a history.compact job of the thread is waiting
  call,       \* the locals of each call of compactHistory
  clears,     \* generations read by clears whose purge is still to come
  run,        \* what the bot's run has read of the thread
  leftover,   \* generations whose purge failed or died with its worker
  upsets      \* faults so far

vars == <<thread, messages, memory, job, call, clears, run, leftover, upsets>>

\* historyCompactedUpToSeq: null and the code's NOTHING_COMPACTED are both -1.
NothingCompacted == -1

Seqs == 0 .. (MaxMessages - 1)
Texts == SUBSET Seqs
Generations == 0 .. MaxGeneration
Thread == [next: 0 .. MaxMessages, cursor: -1 .. (MaxMessages - 1), summary: Texts, gen: Generations]
Memory == [gen: Generations, text: Texts]

NoRow == [next |-> 0, cursor |-> NothingCompacted, summary |-> {}, gen |-> 0]
Idle == [at |-> "idle", seen |-> NoRow, last |-> NothingCompacted, text |-> {},
         saved |-> FALSE, due |-> FALSE]
NoRun == [at |-> "idle", row |-> NoRow, window |-> {}, context |-> {}, recalled |-> {}, cut |-> FALSE]

\* The columns a reader keeps.
Columns(row) == [row EXCEPT !.next = 0]

Fault == upsets < MaxUpsets /\ upsets' = upsets + 1

\* shouldEnqueueCompaction
Backlog(row) == row.next - row.cursor - 1 >= WindowSize + BatchSize

\* The last messages of S, n at most.
Latest(S, n) == {s \in S : Cardinality({t \in S : t > s}) < n}
\* The first messages of S, n at most.
Earliest(S, n) == {s \in S : Cardinality({t \in S : t < s}) < n}
\* S has every number from a to the end of S.
ContiguousFrom(S, a) == \A s \in S : s >= a /\ a .. s \subseteq S

-----------------------------------------------------------------------------
(* The thread *)

SendMessage ==
  /\ thread.next < MaxMessages
  /\ thread' = [thread EXCEPT !.next = @ + 1]
  /\ messages' = messages \union {thread.next}
  /\ UNCHANGED <<memory, job, call, clears, run, leftover, upsets>>

\* A run that has not ended is cancelled.
Cancelled == IF run.at = "due" THEN run ELSE NoRun

\* The rows are deleted, but numbers are not given again, so the cursor moves past
\* the deleted messages.
ClearThread ==
  /\ thread.gen < MaxGeneration
  /\ messages' = {}
  /\ thread' = [thread EXCEPT !.cursor = IF thread.next > 0 THEN thread.next - 1 ELSE @,
                              !.summary = {}, !.gen = @ + 1]
  /\ clears' = clears \union {thread.gen}
  /\ run' = Cancelled
  /\ UNCHANGED <<memory, job, call, leftover, upsets>>

Without(gens) == {m \in memory : m.gen \notin gens}

\* After its commit the clear purges two generations; g is the one it read before it
\* added one.
PurgedByClear(g) == {IF g > 0 THEN g - 1 ELSE 0, g}

PurgeAfterClear(g) ==
  /\ clears' = clears \ {g}
  /\ \/ memory' = Without(PurgedByClear(g)) /\ UNCHANGED <<leftover, upsets>>
     \/ Fault /\ leftover' = leftover \union {g} /\ UNCHANGED memory
  /\ UNCHANGED <<thread, messages, job, call, run>>

-----------------------------------------------------------------------------
(* A run of the bot *)

\* A run that starts sends two queries at once, for the row and for the messages; they
\* are answered in any order.
ReadRow ==
  /\ run.at \in {"idle", "messages"}
  /\ run' = [run EXCEPT !.at = IF @ = "idle" THEN "row" ELSE "recall", !.row = Columns(thread)]
  /\ UNCHANGED <<thread, messages, memory, job, call, clears, leftover, upsets>>

ReadMessages ==
  /\ run.at \in {"idle", "row"}
  /\ run' = [run EXCEPT !.at = IF @ = "idle" THEN "messages" ELSE "recall",
                        !.window = Latest(messages, LegacySize)]
  /\ UNCHANGED <<thread, messages, memory, job, call, clears, leftover, upsets>>

After(S, cursor) == {s \in S : s > cursor}

\* (wrong: a gap between the summary and the messages is not looked for)
UsesAnySummary(row, window) == row.summary # {}

\* selectCompactedHistory: the summary is used only if the messages after it are all there.
UsesSummary(row, window) ==
  row.summary # {} /\ ContiguousFrom(After(window, row.cursor), row.cursor + 1)

\* historyWindowSize: the short window, which relies on what was recalled.
Cut(row, window, found) ==
  /\ ~UsesSummary(row, window)
  /\ Semantic /\ row.summary = {} /\ row.cursor # NothingCompacted /\ found

\* What the model is told of the thread, besides what was recalled.
Context(row, window, found) ==
  IF UsesSummary(row, window) THEN row.summary \union After(window, row.cursor)
  ELSE IF Cut(row, window, found) THEN Latest(window, WindowSize) ELSE window

Talk(found, recalled) ==
  run' = [run EXCEPT !.at = "talk", !.row = NoRow,
                     !.context = Context(run.row, run.window, found), !.recalled = recalled,
                     !.cut = Cut(run.row, run.window, found)]

\* The memory is asked about the row's generation if anything was compacted; it may
\* find durable facts whatever the thread.
Recall ==
  /\ run.at = "recall"
  /\ \/ /\ Semantic /\ run.row.cursor # NothingCompacted
        /\ \E found \in SUBSET {m \in memory : m.gen = run.row.gen}, durable \in BOOLEAN :
             Talk(durable \/ found # {}, UNION {m.text : m \in found})
     \/ Talk(FALSE, {})
  /\ UNCHANGED <<thread, messages, memory, job, call, clears, leftover, upsets>>

\* A run completes and looks at the backlog, or fails and does not.
EndRun ==
  /\ run.at = "talk"
  /\ run' \in {NoRun, [NoRun EXCEPT !.at = IF Backlog(thread) THEN "due" ELSE "idle"]}
  /\ UNCHANGED <<thread, messages, memory, job, call, clears, leftover, upsets>>

EnqueueAfterRun ==
  /\ run.at = "due"
  /\ job' = TRUE
  /\ run' = NoRun
  /\ UNCHANGED <<thread, messages, memory, call, clears, leftover, upsets>>

-----------------------------------------------------------------------------
(* compactHistory *)

Set(c, locals) == call' = [call EXCEPT ![c] = locals]
GoTo(c, at) == Set(c, [call[c] EXCEPT !.at = at])

\* The thread row is read.
TakeJob(c) ==
  /\ job /\ call[c].at = "idle"
  /\ job' = FALSE
  /\ Set(c, [Idle EXCEPT !.at = "read", !.seen = Columns(thread)])
  /\ UNCHANGED <<thread, messages, memory, clears, run, leftover, upsets>>

\* A thread compacted before summaries were kept in its row has a cursor and no
\* summary: what the cursor covers is summarised first.
Covered(row) == {s \in messages : s <= row.cursor}
Bootstraps(row) ==
  row.gen = 0 /\ row.cursor # NothingCompacted /\ row.summary = {} /\ Covered(row) # {}

\* Of a legacy thread everything the cursor covers, at most LegacySize messages; else
\* the next batch, or as much of its start as fits the transcript.
Batches(row) ==
  IF Bootstraps(row)
    THEN {B \in {Covered(row)} : Cardinality(B) <= LegacySize /\ row.cursor \in B
                                   /\ ContiguousFrom(B, Min(B))}
    ELSE LET B == Earliest(After(messages, row.cursor), BatchSize) IN
         IF ContiguousFrom(B, row.cursor + 1) THEN {Earliest(B, k) : k \in 1 .. Cardinality(B)} ELSE {}

\* The batch is read and summarised together with the summary so far; or there is
\* nothing to read or to use, and the job is done; or the model fails, and the job
\* is tried again.
ReadBatch(c) ==
  LET row == call[c].seen IN
  /\ call[c].at = "read"
  /\ \/ \E B \in Batches(row) :
          Set(c, [call[c] EXCEPT !.at = "advance", !.last = Max(B), !.text = row.summary \union B])
     \/ Set(c, Idle)
  /\ UNCHANGED <<thread, messages, memory, job, clears, run, leftover, upsets>>

ModelFails(c) ==
  /\ call[c].at = "advance"
  /\ Fault
  /\ job' = TRUE
  /\ Set(c, Idle)
  /\ UNCHANGED <<thread, messages, memory, clears, run, leftover>>

\* (wrong: only the cursor is compared)
SameCursor(c) == thread.cursor = call[c].seen.cursor

\* The row is still the one that was read.
Unmoved(c) == thread.cursor = call[c].seen.cursor /\ thread.gen = call[c].seen.gen

Advance(c) ==
  /\ call[c].at = "advance"
  /\ \/ /\ Unmoved(c)
        /\ thread' = [thread EXCEPT !.cursor = call[c].last, !.summary = call[c].text]
        /\ Set(c, [Idle EXCEPT !.at = "save", !.seen.gen = call[c].seen.gen, !.text = call[c].text])
     \/ ~Unmoved(c) /\ Set(c, Idle) /\ UNCHANGED thread
  /\ UNCHANGED <<messages, memory, job, clears, run, leftover, upsets>>

\* The summary is saved under the generation that was read; the save may fail.
Save(c) ==
  LET copy == [gen |-> call[c].seen.gen, text |-> call[c].text] IN
  /\ call[c].at = "save"
  /\ \/ /\ Semantic
        /\ memory' \in {memory, memory \union {copy}}
        /\ Set(c, [call[c] EXCEPT !.at = "look", !.text = {}, !.saved = TRUE])
     \/ Set(c, [call[c] EXCEPT !.at = "look", !.text = {}]) /\ UNCHANGED memory
  /\ UNCHANGED <<thread, messages, job, clears, run, leftover, upsets>>

\* (wrong: the late save is never undone)
NeverStale(c) == FALSE

\* A save was attempted and a clear has come since the row was read.
Stale(c) == call[c].saved /\ thread.gen # call[c].seen.gen

\* The row is read again, for the purge and for the backlog.
LookAgain(c) ==
  /\ call[c].at = "look"
  /\ Set(c, [Idle EXCEPT !.at = IF Stale(c) THEN "purge" ELSE "more",
                         !.seen.gen = call[c].seen.gen, !.due = Backlog(thread)])
  /\ UNCHANGED <<thread, messages, memory, job, clears, run, leftover, upsets>>

PurgeStale(c) ==
  /\ call[c].at = "purge"
  /\ \/ memory' = Without({call[c].seen.gen}) /\ UNCHANGED <<leftover, upsets>>
     \/ Fault /\ leftover' = leftover \union {call[c].seen.gen} /\ UNCHANGED memory
  /\ GoTo(c, "more")
  /\ UNCHANGED <<thread, messages, job, clears, run>>

CompactMore(c) ==
  /\ call[c].at = "more"
  /\ job' = (job \/ call[c].due)
  /\ Set(c, Idle)
  /\ UNCHANGED <<thread, messages, memory, clears, run, leftover, upsets>>

\* A worker dies and its job is given out again.
Crash(c) ==
  /\ call[c].at # "idle"
  /\ Fault
  /\ leftover' = IF call[c].at \in {"save", "look", "purge"}
                   THEN leftover \union {call[c].seen.gen} ELSE leftover
  /\ job' = TRUE
  /\ Set(c, Idle)
  /\ UNCHANGED <<thread, messages, memory, clears, run>>

-----------------------------------------------------------------------------

\* A thread of any length, with some prefix cleared and some of the rest compacted
\* before summaries were kept in the row.
Init ==
  /\ \E next \in 0 .. Min({MaxLegacy, MaxMessages}) : \E first \in 0 .. next, cursor \in -1 .. (next - 1) :
       /\ first <= cursor + 1
       /\ thread = [NoRow EXCEPT !.next = next, !.cursor = cursor]
       /\ messages = first .. (next - 1)
  /\ memory = {} /\ job = FALSE /\ call = [c \in Calls |-> Idle]
  /\ clears = {} /\ run = NoRun /\ leftover = {} /\ upsets = 0

CallStep(c) ==
  \/ TakeJob(c) \/ ReadBatch(c) \/ ModelFails(c) \/ Advance(c) \/ Save(c)
  \/ LookAgain(c) \/ PurgeStale(c) \/ CompactMore(c) \/ Crash(c)

RunStep ==
  \/ ReadRow \/ ReadMessages \/ Recall \/ EndRun \/ EnqueueAfterRun

Next ==
  \/ SendMessage \/ ClearThread \/ (\E g \in clears : PurgeAfterClear(g))
  \/ RunStep \/ (\E c \in Calls : CallStep(c))

CompactionSpec == Init /\ [][Next]_vars

-----------------------------------------------------------------------------
(* Properties *)

CallState ==
  [at : {"idle", "read", "advance", "save", "look", "purge", "more"}, seen : Thread,
   last : -1 .. (MaxMessages - 1), text : Texts, saved : BOOLEAN, due : BOOLEAN]
RunState ==
  [at : {"idle", "row", "messages", "recall", "talk", "due"}, row : Thread, window : Texts,
   context : Texts, recalled : Texts, cut : BOOLEAN]

\* The variables keep their types: cursors name sequence numbers the thread gave, and
\* texts tell of nothing else.
CompactionTypeOK ==
  /\ thread \in Thread /\ messages \in Texts /\ memory \subseteq Memory
  /\ job \in BOOLEAN /\ call \in [Calls -> CallState] /\ run \in RunState
  /\ clears \subseteq Generations /\ leftover \subseteq Generations
  /\ upsets \in 0 .. MaxUpsets

\* A run that talks is told only of messages the thread still has: neither a summary
\* written late, nor one saved late, nor an answer of the memory brings back what a
\* clear deleted.
ToldIsInTheThread == run.at = "talk" => run.context \union run.recalled \subseteq messages

\* A run that talks is told of the thread's latest messages, by the summary or word for
\* word, with nothing left out in between; only the short window leaves older ones to
\* what was recalled.
ContextIsWhole ==
  run.at = "talk" =>
    /\ run.cut \/ run.window \subseteq run.context
    /\ \A s, t \in run.context : s .. t \subseteq run.context

\* Copies of an earlier conversation are in the memory only as long as somebody is about
\* to purge them, except when a purge failed or died with its worker.
StaleCopiesArePurged ==
  \A m \in memory : m.gen < thread.gen =>
    \/ m.gen \in clears \union leftover
    \/ \E c \in Calls : /\ call[c].seen.gen = m.gen
                        /\ call[c].at = "purge" \/ (call[c].at = "look" /\ call[c].saved)

\* The short window is used only for a conversation that was compacted since its clear.
ShortWindowIsCompacted ==
  run.at = "talk" /\ run.cut => \E s \in messages : s <= thread.cursor

=============================================================================
