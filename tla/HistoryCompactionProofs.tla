---------------------- MODULE HistoryCompactionProofs ----------------------
(***************************************************************************)
(* Theorems about HistoryCompaction, for every number of jobs, messages,   *)
(* clears and faults, and all sizes of the batch and of the windows.       *)
(***************************************************************************)
EXTENDS HistoryCompaction, FiniteSetTheorems, WellFoundedInduction, TLAPS

USE SizesAssumption

-----------------------------------------------------------------------------
(* Finite sets of numbers *)

Above(S, s) == {t \in S : t > s}
Below(S, s) == {t \in S : t < s}

LEMMA Greatest ==
  ASSUME NEW S, S \subseteq Int, IsFiniteSet(S), S # {}
  PROVE  /\ Max(S) \in S
         /\ \A y \in S : y <= Max(S)
<1> DEFINE T == {Above(S, s) : s \in S}
<1>1. T \subseteq FiniteSubsetsOf(S)
  <2>1. \A s \in S : Above(S, s) \in SUBSET S /\ IsFiniteSet(Above(S, s))
    BY FS_Subset DEF Above
  <2> QED BY <2>1 DEF FiniteSubsetsOf
<1>2. T # {}
  OBVIOUS
<1>3. PICK X \in T : \A Y \in T : <<Y, X>> \notin StrictSubsetOrdering(S)
  <2> HIDE DEF T
  <2> QED BY <1>1, <1>2, FS_StrictSubsetOrderingWellFounded, WFMin
<1>4. PICK x \in S : X = Above(S, x)
  OBVIOUS
<1>5. ASSUME NEW y \in S, y > x PROVE FALSE
  <2>1. Above(S, y) \in T /\ Above(S, y) \in SUBSET S /\ X \in SUBSET S
    BY <1>4 DEF Above
  <2>2. x \in Int /\ y \in Int
    OBVIOUS
  <2>3. Above(S, y) \subseteq X
    <3> SUFFICES ASSUME NEW t \in Above(S, y) PROVE t \in X
      OBVIOUS
    <3>1. t \in S /\ t \in Int /\ t > y
      BY DEF Above
    <3>2. t > x
      BY <3>1, <2>2, <1>5
    <3> QED BY <3>1, <3>2, <1>4 DEF Above
  <2>4. y \in X /\ y \notin Above(S, y)
    BY <1>4, <1>5, <2>2 DEF Above
  <2> QED BY <1>3, <2>1, <2>3, <2>4 DEF StrictSubsetOrdering
<1>6. \A y \in S : x >= y
  BY <1>5
<1> QED BY <1>6 DEF Max

LEMMA Least ==
  ASSUME NEW S, S \subseteq Int, IsFiniteSet(S), S # {}
  PROVE  \E x \in S : Below(S, x) = {}
<1> DEFINE T == {Below(S, s) : s \in S}
<1>1. T \subseteq FiniteSubsetsOf(S)
  <2>1. \A s \in S : Below(S, s) \in SUBSET S /\ IsFiniteSet(Below(S, s))
    BY FS_Subset DEF Below
  <2> QED BY <2>1 DEF FiniteSubsetsOf
<1>2. T # {}
  OBVIOUS
<1>3. PICK X \in T : \A Y \in T : <<Y, X>> \notin StrictSubsetOrdering(S)
  <2> HIDE DEF T
  <2> QED BY <1>1, <1>2, FS_StrictSubsetOrderingWellFounded, WFMin
<1>4. PICK x \in S : X = Below(S, x)
  OBVIOUS
<1>5. ASSUME NEW y \in S, y < x PROVE FALSE
  <2>1. Below(S, y) \in T /\ Below(S, y) \in SUBSET S /\ X \in SUBSET S
    BY <1>4 DEF Below
  <2>2. x \in Int /\ y \in Int
    OBVIOUS
  <2>3. Below(S, y) \subseteq X
    <3> SUFFICES ASSUME NEW t \in Below(S, y) PROVE t \in X
      OBVIOUS
    <3>1. t \in S /\ t \in Int /\ t < y
      BY DEF Below
    <3>2. t < x
      BY <3>1, <2>2, <1>5
    <3> QED BY <3>1, <3>2, <1>4 DEF Below
  <2>4. y \in X /\ y \notin Below(S, y)
    BY <1>4, <1>5, <2>2 DEF Below
  <2> QED BY <1>3, <2>1, <2>3, <2>4 DEF StrictSubsetOrdering
<1> QED BY <1>5 DEF Below

\* No number is missing between two of S.
Whole(S) == \A s, t \in S : s .. t \subseteq S

LEMMA LatestIsWhole ==
  ASSUME NEW S, S \subseteq Int, IsFiniteSet(S), Whole(S), NEW n \in Nat
  PROVE  Latest(S, n) \subseteq S /\ Whole(Latest(S, n))
<1>1. Latest(S, n) \subseteq S
  BY DEF Latest
<1>2. ASSUME NEW s \in Latest(S, n), NEW t \in Latest(S, n), NEW u \in s .. t
      PROVE  u \in Latest(S, n)
  <2>1. s \in S /\ t \in S /\ s \in Int /\ t \in Int
    BY <1>1
  <2>2. u \in S /\ u \in Int /\ u >= s
    BY <2>1 DEF Whole
  <2>3. Above(S, s) \in SUBSET S /\ IsFiniteSet(Above(S, s))
    BY FS_Subset DEF Above
  <2>4. Above(S, u) \in SUBSET Above(S, s)
    <3> SUFFICES ASSUME NEW v \in Above(S, u) PROVE v \in Above(S, s)
      OBVIOUS
    <3>1. v \in S /\ v \in Int
      BY DEF Above
    <3> QED BY <3>1, <2>1, <2>2 DEF Above
  <2>5. Cardinality(Above(S, u)) <= Cardinality(Above(S, s))
    BY <2>3, <2>4, FS_Subset
  <2>6. Cardinality(Above(S, u)) \in Nat /\ Cardinality(Above(S, s)) \in Nat
    BY <2>3, <2>4, FS_Subset, FS_CardinalityType
  <2>7. Cardinality(Above(S, s)) < n
    BY <1>2 DEF Latest, Above
  <2> QED BY <2>2, <2>5, <2>6, <2>7 DEF Latest, Above
<1> QED BY <1>1, <1>2 DEF Whole

LEMMA EarliestIsFirst ==
  ASSUME NEW S, S \subseteq Int, IsFiniteSet(S), NEW n \in Nat
  PROVE  /\ Earliest(S, n) \subseteq S
         /\ \A x \in Earliest(S, n), y \in S : y < x => y \in Earliest(S, n)
         /\ S # {} /\ n > 0 => Earliest(S, n) # {}
<1>1. Earliest(S, n) \subseteq S
  BY DEF Earliest
<1>2. ASSUME NEW x \in Earliest(S, n), NEW y \in S, y < x
      PROVE  y \in Earliest(S, n)
  <2>1. x \in S /\ x \in Int /\ y \in Int
    BY <1>1
  <2>2. Below(S, x) \in SUBSET S /\ IsFiniteSet(Below(S, x))
    BY FS_Subset DEF Below
  <2>3. Below(S, y) \in SUBSET Below(S, x)
    <3> SUFFICES ASSUME NEW v \in Below(S, y) PROVE v \in Below(S, x)
      OBVIOUS
    <3>1. v \in S /\ v \in Int
      BY DEF Below
    <3> QED BY <3>1, <1>2, <2>1 DEF Below
  <2>4. Cardinality(Below(S, y)) <= Cardinality(Below(S, x))
    BY <2>2, <2>3, FS_Subset
  <2>5. Cardinality(Below(S, y)) \in Nat /\ Cardinality(Below(S, x)) \in Nat
    BY <2>2, <2>3, FS_Subset, FS_CardinalityType
  <2>6. Cardinality(Below(S, x)) < n
    BY <1>2 DEF Earliest, Below
  <2> QED BY <2>4, <2>5, <2>6 DEF Earliest, Below
<1>3. ASSUME S # {}, n > 0 PROVE Earliest(S, n) # {}
  <2>1. PICK x \in S : Below(S, x) = {}
    BY <1>3, Least
  <2>2. Cardinality(Below(S, x)) < n
    BY <1>3, <2>1, FS_EmptySet
  <2> QED BY <2>2 DEF Earliest, Below
<1> QED BY <1>1, <1>2, <1>3

-----------------------------------------------------------------------------
(* The inductive invariant *)

\* The messages run up to the last one given.
Unbroken == /\ messages \subseteq 0 .. (thread.next - 1)
            /\ \A s \in messages : s .. (thread.next - 1) \subseteq messages

\* A row of the current conversation: its summary tells of all it covers, or there is
\* none; without one it covers something only before the first clear.
Sound(row) ==
  /\ row.gen = thread.gen /\ row.cursor < thread.next
  /\ row.summary = {} \/ row.summary = Covered(row)
  /\ row.summary = {} /\ row.gen > 0 => Covered(row) = {}

ThreadInv == Unbroken /\ Sound(thread)

\* A call that read the row before the last clear is bound to nothing: it will find the
\* generation changed.
CallInv(c) ==
  /\ call[c].seen.gen <= thread.gen
  /\ call[c].seen.gen = thread.gen =>
       /\ call[c].at = "read" => Sound(call[c].seen)
       /\ call[c].at = "advance" =>
            /\ call[c].last < thread.next
            /\ call[c].text = {s \in messages : s <= call[c].last}
       /\ call[c].at = "save" => call[c].text \subseteq messages

MemoryInv == \A m \in memory :
  /\ m.gen <= thread.gen
  /\ m.gen = thread.gen => m.text \subseteq messages

RunInv ==
  /\ run.window \subseteq messages /\ Whole(run.window)
  /\ run.at \in {"row", "recall"} => Sound(run.row)
  /\ run.at = "talk" =>
       /\ run.context \union run.recalled \subseteq messages /\ Whole(run.context)
       /\ run.cut \/ run.window \subseteq run.context
  /\ run.at = "due" => run.window = {}

Inv ==
  /\ CompactionTypeOK /\ ThreadInv /\ MemoryInv /\ RunInv /\ StaleCopiesArePurged
  /\ \A c \in Calls : CallInv(c)

-----------------------------------------------------------------------------
(* Reading the thread *)

LEMMA MessagesAreFinite ==
  ASSUME CompactionTypeOK, Unbroken
  PROVE  /\ IsFiniteSet(messages) /\ messages \subseteq Int /\ Whole(messages)
         /\ \A S \in SUBSET messages : IsFiniteSet(S) /\ S \subseteq Int
         /\ thread.next \in Int
<1>1. thread.next \in Int /\ thread.next - 1 \in Int
  BY DEF CompactionTypeOK, Thread
<1>2. IsFiniteSet(0 .. (thread.next - 1))
  BY <1>1, FS_Interval
<1>3. IsFiniteSet(messages)
  BY <1>2, FS_Subset DEF Unbroken
<1>4. messages \subseteq Int
  BY DEF Unbroken
<1>5. \A s, t \in messages : s .. t \subseteq s .. (thread.next - 1)
  <2> SUFFICES ASSUME NEW s \in messages, NEW t \in messages, NEW u \in s .. t
               PROVE  u \in s .. (thread.next - 1)
    OBVIOUS
  <2>1. s \in Int /\ t \in 0 .. (thread.next - 1)
    BY DEF Unbroken
  <2> QED BY <1>1, <2>1
<1>6. Whole(messages)
  BY <1>5 DEF Whole, Unbroken
<1> QED BY <1>1, <1>3, <1>4, <1>6, FS_Subset

\* What the model is told, if the row and the window are of this conversation.
LEMMA ContextIsSound ==
  ASSUME CompactionTypeOK, Unbroken, NEW row \in Thread, Sound(row), NEW found,
         NEW window \in SUBSET messages, Whole(window)
  PROVE  /\ Context(row, window, found) \subseteq messages
         /\ Whole(Context(row, window, found))
         /\ Cut(row, window, found) \/ window \subseteq Context(row, window, found)
<1>1. IsFiniteSet(window) /\ window \subseteq Int
  BY MessagesAreFinite
<1>2. row.cursor \in Int
  BY DEF Thread
<1>3. CASE UsesSummary(row, window)
  <2> DEFINE rest == After(window, row.cursor)
  <2>1. Context(row, window, found) = row.summary \union rest
    BY <1>3 DEF Context
  <2>2. row.summary = {s \in messages : s <= row.cursor}
    BY <1>3 DEF UsesSummary, Sound, Covered
  <2>3. rest = {s \in window : s > row.cursor} /\ rest \subseteq messages
    BY DEF After
  <2>4. \A s \in rest : row.cursor + 1 .. s \subseteq rest
    BY <1>3 DEF UsesSummary, ContiguousFrom
  <2> HIDE DEF rest
  <2>5. window \subseteq row.summary \union rest
    <3> SUFFICES ASSUME NEW s \in window, s \notin rest PROVE s \in row.summary
      OBVIOUS
    <3> QED BY <1>1, <1>2, <2>2, <2>3
  <2>6. ASSUME NEW s \in row.summary \union rest, NEW t \in row.summary \union rest,
               NEW u \in s .. t
        PROVE  u \in row.summary \union rest
    <3>1. s \in messages /\ t \in messages /\ s \in Int /\ t \in Int
      BY <2>2, <2>3, MessagesAreFinite
    <3>2. u \in messages /\ u \in Int /\ u <= t
      BY <3>1, MessagesAreFinite DEF Whole
    <3>3. CASE u <= row.cursor
      BY <3>2, <3>3, <2>2
    <3>4. CASE u > row.cursor
      <4>1. t > row.cursor
        BY <3>1, <3>2, <3>4, <1>2
      <4>2. t \in rest
        BY <4>1, <2>2, <3>1, <1>2
      <4> QED BY <4>2, <2>4, <3>1, <3>2, <3>4, <1>2
    <3> QED BY <3>2, <3>3, <3>4, <1>2
  <2> QED BY <2>1, <2>2, <2>3, <2>5, <2>6 DEF Whole
<1>4. CASE ~UsesSummary(row, window) /\ Cut(row, window, found)
  <2>1. Context(row, window, found) = Latest(window, WindowSize)
    BY <1>4 DEF Context
  <2> QED BY <1>1, <1>4, <2>1, LatestIsWhole
<1>5. CASE ~UsesSummary(row, window) /\ ~Cut(row, window, found)
  BY <1>5 DEF Context
<1> QED BY <1>3, <1>4, <1>5

LEMMA BatchShape ==
  ASSUME CompactionTypeOK, Unbroken, NEW row \in Thread, NEW B \in Batches(row)
  PROVE  /\ B \subseteq messages /\ Max(B) \in messages
         /\ \A s \in B : s <= Max(B)
<1>1. B \subseteq messages /\ B # {}
  <2>1. CASE Bootstraps(row)
    BY <2>1 DEF Batches, Covered
  <2>2. CASE ~Bootstraps(row)
    <3> DEFINE rest == After(messages, row.cursor)
               E == Earliest(rest, BatchSize)
    <3>1. IsFiniteSet(rest) /\ rest \subseteq Int /\ rest \subseteq messages
      BY MessagesAreFinite DEF After
    <3>2. E \subseteq rest /\ IsFiniteSet(E) /\ E \subseteq Int
      BY <3>1, EarliestIsFirst, FS_Subset
    <3>3. PICK k \in 1 .. Cardinality(E) : B = Earliest(E, k)
      BY <2>2 DEF Batches
    <3>4. Cardinality(E) \in Nat
      BY <3>2, FS_CardinalityType
    <3>5. E # {} /\ k \in Nat /\ k > 0
      <4> HIDE DEF E
      <4>1. E = {} => Cardinality(E) = 0
        BY FS_EmptySet
      <4> QED BY <3>4, <4>1
    <3> HIDE DEF E, rest
    <3> QED BY <3>1, <3>2, <3>3, <3>5, EarliestIsFirst
  <2> QED BY <2>1, <2>2
<1> QED BY <1>1, MessagesAreFinite, Greatest

\* A batch and the summary so far tell of all messages up to the batch's last.
LEMMA BatchIsSound ==
  ASSUME CompactionTypeOK, Unbroken, NEW row \in Thread, Sound(row), NEW B \in Batches(row)
  PROVE  row.summary \union B = {s \in messages : s <= Max(B)}
<1>1. B \subseteq messages /\ Max(B) \in messages /\ \A s \in B : s <= Max(B)
  BY BatchShape
<1>2. row.cursor \in Int /\ messages \subseteq Int /\ Max(B) \in Int
  BY <1>1, MessagesAreFinite DEF Thread
<1>3. CASE Bootstraps(row)
  <2>1. B = {s \in messages : s <= row.cursor} /\ row.cursor \in B /\ row.summary = {}
    BY <1>3 DEF Batches, Bootstraps, Covered
  <2>2. Max(B) = row.cursor
    <3>1. row.cursor <= Max(B)
      BY <1>1, <2>1
    <3>2. Max(B) \in B
      BY <2>1, MessagesAreFinite, Greatest
    <3>3. Max(B) <= row.cursor
      BY <2>1, <3>2
    <3> QED BY <3>1, <3>3, <1>2
  <2> QED BY <2>1, <2>2
<1>4. CASE ~Bootstraps(row)
  <2> DEFINE rest == After(messages, row.cursor)
             E == Earliest(rest, BatchSize)
  <2>1. IsFiniteSet(rest) /\ rest \subseteq Int
    BY MessagesAreFinite DEF After
  <2>2. /\ E \subseteq rest /\ IsFiniteSet(E) /\ E \subseteq Int
        /\ \A x \in E, y \in rest : y < x => y \in E
    BY <2>1, EarliestIsFirst, FS_Subset
  <2>3. PICK k \in 1 .. Cardinality(E) : B = Earliest(E, k)
    BY <1>4 DEF Batches
  <2>4. k \in Nat
    BY <2>2, FS_CardinalityType
  <2>5. B \subseteq E /\ \A x \in B, y \in E : y < x => y \in B
    <3> HIDE DEF E
    <3> QED BY <2>2, <2>3, <2>4, EarliestIsFirst
  <2>6. rest = {s \in messages : s > row.cursor}
    BY DEF After
  <2>7. Max(B) \in B
    <3>1. B # {} /\ IsFiniteSet(B) /\ B \subseteq Int
      <4>1. E # {} /\ k > 0
        <5> HIDE DEF E
        <5>1. E = {} => Cardinality(E) = 0
          BY FS_EmptySet
        <5> QED BY <5>1, <2>2, FS_CardinalityType
      <4> HIDE DEF E
      <4> QED BY <4>1, <2>2, <2>3, <2>4, EarliestIsFirst, FS_Subset
    <3> QED BY <3>1, Greatest
  <2>8. row.summary = {s \in messages : s <= row.cursor}
    <3>1. CASE row.summary # {}
      BY <3>1 DEF Sound, Covered
    <3>2. CASE row.summary = {}
      <4>1. CASE row.gen > 0
        BY <3>2, <4>1 DEF Sound, Covered
      <4>2. CASE row.gen = 0
        <5>1. row.cursor = -1 \/ Covered(row) = {}
          BY <1>4, <3>2, <4>2 DEF Bootstraps, NothingCompacted
        <5>2. \A s \in messages : s \in Int /\ s >= 0
          BY MessagesAreFinite DEF Unbroken
        <5>3. row.cursor = -1 => Covered(row) = {}
          <6> SUFFICES ASSUME row.cursor = -1, NEW s \in messages, s <= -1 PROVE FALSE
            BY DEF Covered
          <6> QED BY <5>2
        <5> QED BY <3>2, <5>1, <5>3 DEF Covered
      <4>3. row.gen \in Nat
        BY DEF Thread, Generations
      <4> QED BY <4>1, <4>2, <4>3
    <3> QED BY <3>1, <3>2
  <2> HIDE DEF E, rest
  <2>9. ASSUME NEW s \in messages, s <= Max(B), s > row.cursor
        PROVE  s \in B
    <3>1. s \in rest /\ s \in Int
      BY <1>2, <2>6, <2>9
    <3>2. CASE s = Max(B)
      BY <3>2, <2>7
    <3>3. CASE s < Max(B)
      BY <3>1, <3>3, <2>2, <2>5, <2>7
    <3> QED BY <3>1, <3>2, <3>3, <2>9, <1>2
  <2>10. Max(B) > row.cursor
    BY <2>7, <2>5, <2>2, <2>6
  <2>11. ASSUME NEW s \in messages, s <= Max(B) PROVE s \in row.summary \union B
    <3>1. s \in Int
      BY <1>2
    <3> QED BY <3>1, <1>2, <2>8, <2>9, <2>11
  <2>12. ASSUME NEW s \in row.summary \union B PROVE s \in messages /\ s <= Max(B)
    <3>1. CASE s \in B
      BY <3>1, <1>1
    <3>2. CASE s \in row.summary
      <4>1. s \in messages /\ s \in Int /\ s <= row.cursor
        BY <3>2, <2>8, <1>2
      <4> QED BY <4>1, <2>10, <1>2
    <3> QED BY <3>1, <3>2
  <2> QED BY <2>11, <2>12
<1> QED BY <1>3, <1>4

-----------------------------------------------------------------------------
(* The invariant holds initially and every step keeps it *)

\* Rows and texts stay sound while messages only come in.
LEMMA GrowthKeepsSound ==
  ASSUME CompactionTypeOK, ThreadInv, thread' = [thread EXCEPT !.next = @ + 1],
         messages' = messages \union {thread.next}, thread.next < MaxMessages
  PROVE  /\ thread.next \in Nat /\ thread'.next = thread.next + 1
         /\ thread'.cursor = thread.cursor /\ thread'.summary = thread.summary
         /\ thread'.gen = thread.gen /\ thread' \in Thread /\ messages' \in Texts
         /\ messages \subseteq messages' /\ Unbroken'
         /\ \A n \in Int : n < thread.next =>
              /\ n < thread'.next
              /\ {s \in messages' : s <= n} = {s \in messages : s <= n}
<1>1. /\ thread.next \in Nat /\ thread'.next = thread.next + 1
      /\ thread'.cursor = thread.cursor /\ thread'.summary = thread.summary
      /\ thread'.gen = thread.gen /\ thread' \in Thread /\ messages' \in Texts
  BY DEF CompactionTypeOK, Thread, Texts, Seqs
<1>2. \A s \in messages : s \in Int /\ s >= 0 /\ s < thread.next
  BY <1>1 DEF ThreadInv, Unbroken
<1>3. messages' \subseteq 0 .. (thread'.next - 1)
  BY <1>1, <1>2
<1>4. ASSUME NEW s \in messages', NEW u \in s .. (thread'.next - 1)
      PROVE  u \in messages'
  <2>1. CASE s \in messages
    <3>1. u \in s .. (thread.next - 1) \/ u = thread.next
      BY <1>1, <1>2, <2>1
    <3> QED BY <3>1, <2>1 DEF ThreadInv, Unbroken
  <2>2. CASE s = thread.next
    BY <2>2, <1>1
  <2> QED BY <2>1, <2>2
<1>5. \A n \in Int : n < thread.next =>
        n < thread'.next /\ {s \in messages' : s <= n} = {s \in messages : s <= n}
  BY <1>1, <1>2
<1> QED BY <1>1, <1>3, <1>4, <1>5 DEF Unbroken

LEMMA RowIsKept ==
  ASSUME CompactionTypeOK, ThreadInv
  PROVE  Columns(thread) \in Thread /\ Sound(Columns(thread))
         /\ Columns(thread).gen = thread.gen
  BY DEF CompactionTypeOK, ThreadInv, Thread, Columns, Sound, Covered

LEMMA SendStep ==
  ASSUME Inv, SendMessage
  PROVE  Inv'
<1> USE DEF Inv
<1>1. /\ thread.next \in Nat /\ thread'.next = thread.next + 1
      /\ thread'.cursor = thread.cursor /\ thread'.summary = thread.summary
      /\ thread'.gen = thread.gen /\ thread' \in Thread /\ messages' \in Texts
      /\ messages \subseteq messages' /\ Unbroken'
      /\ \A n \in Int : n < thread.next =>
           n < thread'.next /\ {s \in messages' : s <= n} = {s \in messages : s <= n}
  BY GrowthKeepsSound DEF SendMessage
<1>2. UNCHANGED <<memory, job, call, clears, run, leftover, upsets>>
  BY DEF SendMessage
<1>3. CompactionTypeOK'
  BY <1>1, <1>2 DEF CompactionTypeOK
<1>4. \A row \in Thread : Sound(row) => Sound(row)'
  BY <1>1 DEF Sound, Covered, Thread
<1>5. ThreadInv'
  <2>1. thread \in Thread /\ Sound(thread)
    BY DEF CompactionTypeOK, ThreadInv
  <2>2. thread.cursor \in Int /\ thread.cursor < thread.next
    BY <2>1 DEF Sound, Thread
  <2> QED BY <1>1, <2>1, <2>2 DEF ThreadInv, Sound, Covered
<1>6. MemoryInv'
  BY <1>1, <1>2 DEF MemoryInv
<1>7. RunInv'
  <2>1. run.row \in Thread
    BY DEF CompactionTypeOK, RunState
  <2> QED BY <1>1, <1>2, <1>4, <2>1 DEF RunInv, Whole
<1>8. StaleCopiesArePurged'
  BY <1>1, <1>2 DEF StaleCopiesArePurged
<1>9. ASSUME NEW c \in Calls PROVE CallInv(c)'
  <2>1. call[c].seen \in Thread /\ call[c].last \in Int /\ CallInv(c)
    BY DEF CompactionTypeOK, CallState
  <2> QED BY <1>1, <1>2, <1>4, <2>1 DEF CallInv
<1> QED BY <1>3, <1>5, <1>6, <1>7, <1>8, <1>9

LEMMA ClearStep ==
  ASSUME Inv, ClearThread
  PROVE  Inv'
<1> USE DEF Inv
<1>1. /\ thread.next \in 0 .. MaxMessages /\ thread.cursor \in -1 .. (MaxMessages - 1)
      /\ thread.gen \in Nat /\ thread.cursor < thread.next
      /\ thread.gen < MaxGeneration /\ thread.gen \in Generations
  BY DEF CompactionTypeOK, Thread, Generations, ThreadInv, Sound, ClearThread
<1>2. /\ messages' = {} /\ thread'.next = thread.next /\ thread'.summary = {}
      /\ thread'.gen = thread.gen + 1
      /\ thread'.cursor = IF thread.next > 0 THEN thread.next - 1 ELSE thread.cursor
      /\ clears' = clears \union {thread.gen}
      /\ run' = Cancelled
      /\ UNCHANGED <<memory, job, call, leftover, upsets>>
  BY DEF ClearThread, CompactionTypeOK, Thread
<1>3. thread' \in Thread
  <2>1. /\ thread'.cursor \in -1 .. (MaxMessages - 1) /\ thread'.gen \in Generations
        /\ thread'.summary \in Texts
    BY <1>1, <1>2 DEF Generations, Texts
  <2>2. thread' = [thread EXCEPT !.cursor = thread'.cursor, !.summary = thread'.summary,
                                 !.gen = thread'.gen]
    BY <1>2 DEF ClearThread, CompactionTypeOK, Thread
  <2> HIDE DEF Inv
  <2>3. thread \in Thread
    BY DEF CompactionTypeOK, Inv
  <2> QED BY <2>1, <2>2, <2>3 DEF Thread
<1>4. NoRun \in RunState
  BY DEF NoRun, NoRow, NothingCompacted, RunState, Thread, Generations, Texts
<1>5. CompactionTypeOK'
  BY <1>1, <1>2, <1>3, <1>4 DEF CompactionTypeOK, Cancelled, Texts
<1>6. ThreadInv'
  BY <1>1, <1>2 DEF ThreadInv, Unbroken, Sound, Covered
<1>7. MemoryInv' 
  BY <1>1, <1>2 DEF MemoryInv, CompactionTypeOK, Memory, Generations
<1>8. RunInv'
  BY <1>2 DEF RunInv, Cancelled, NoRun, Whole
<1>9. StaleCopiesArePurged'
  <2> SUFFICES ASSUME NEW m \in memory, m.gen < thread.gen + 1,
                      m.gen \notin clears' \union leftover
               PROVE  \E c \in Calls :
                        /\ call[c].seen.gen = m.gen
                        /\ call[c].at = "purge" \/ (call[c].at = "look" /\ call[c].saved)
    BY <1>2 DEF StaleCopiesArePurged
  <2>1. m.gen \in Nat /\ m.gen # thread.gen
    BY <1>2 DEF CompactionTypeOK, Memory, Generations
  <2> QED BY <1>1, <1>2, <2>1 DEF StaleCopiesArePurged
<1>10. ASSUME NEW c \in Calls PROVE CallInv(c)'
  <2>1. call[c].seen.gen \in Nat /\ CallInv(c)
    BY DEF CompactionTypeOK, CallState, Thread, Generations
  <2> QED BY <1>1, <1>2, <2>1 DEF CallInv
<1> QED BY <1>5, <1>6, <1>7, <1>8, <1>9, <1>10

LEMMA PurgeAfterClearStep ==
  ASSUME Inv, NEW g \in clears, PurgeAfterClear(g)
  PROVE  Inv'
<1> USE DEF Inv
<1>1. UNCHANGED <<thread, messages, job, call, run>> /\ clears' = clears \ {g}
  BY DEF PurgeAfterClear
<1>2. /\ memory' \subseteq memory /\ leftover \subseteq leftover'
      /\ leftover' \subseteq Generations /\ upsets' \in 0 .. MaxUpsets
      /\ \A m \in memory' : m.gen = g => g \in leftover'
  <2>1. g \in Generations /\ leftover \subseteq Generations /\ upsets \in 0 .. MaxUpsets
    BY DEF CompactionTypeOK
  <2>2. CASE memory' = Without(PurgedByClear(g)) /\ UNCHANGED <<leftover, upsets>>
    BY <2>1, <2>2 DEF Without, PurgedByClear
  <2>3. CASE Fault /\ leftover' = leftover \union {g} /\ UNCHANGED memory
    BY <2>1, <2>3 DEF Fault
  <2> QED BY <2>2, <2>3 DEF PurgeAfterClear
<1>3. CompactionTypeOK'
  BY <1>1, <1>2 DEF CompactionTypeOK
<1>4. ThreadInv' /\ MemoryInv' /\ RunInv'
  BY <1>1, <1>2 DEF ThreadInv, Unbroken, Sound, Covered, MemoryInv, RunInv, Whole
<1>5. StaleCopiesArePurged'
  BY <1>1, <1>2 DEF StaleCopiesArePurged
<1>6. \A c \in Calls : CallInv(c)'
  BY <1>1 DEF CallInv, Sound, Covered
<1> QED BY <1>3, <1>4, <1>5, <1>6

-----------------------------------------------------------------------------
(* The run *)

\* A step of the run leaves the thread, the memory and the calls alone.
LEMMA RunMoves ==
  ASSUME Inv, run' \in RunState, RunInv', job' \in BOOLEAN,
         UNCHANGED <<thread, messages, memory, call, clears, leftover, upsets>>
  PROVE  Inv'
<1>1. CompactionTypeOK' /\ ThreadInv' /\ MemoryInv'
  BY DEF Inv, CompactionTypeOK, ThreadInv, Unbroken, Sound, Covered, MemoryInv
<1>2. StaleCopiesArePurged'
  BY DEF Inv, StaleCopiesArePurged
<1>3. \A c \in Calls : CallInv(c)'
  BY DEF Inv, CallInv, Sound, Covered
<1> QED BY <1>1, <1>2, <1>3 DEF Inv

LEMMA NoRowIsARow ==
  NoRow \in Thread
  BY DEF NoRow, NothingCompacted, Thread, Generations, Texts

LEMMA NoRunIsSound ==
  /\ NoRun \in RunState /\ [NoRun EXCEPT !.at = "due"] \in RunState
  /\ [NoRun EXCEPT !.at = "idle"] = NoRun
  /\ NoRun.at = "idle" /\ NoRun.window = {}
  /\ [NoRun EXCEPT !.at = "due"].at = "due" /\ [NoRun EXCEPT !.at = "due"].window = {}
<1>1. NoRow \in Thread
  BY NoRowIsARow
<1>2. NoRun \in RunState
  BY <1>1 DEF NoRun, RunState, Texts
<1>3. NoRun.at = "idle" /\ NoRun.window = {}
  BY DEF NoRun
<1>4. /\ [NoRun EXCEPT !.at = "due"] \in RunState
      /\ [NoRun EXCEPT !.at = "due"].at = "due" /\ [NoRun EXCEPT !.at = "due"].window = {}
  BY <1>2, <1>3 DEF RunState
<1>5. [NoRun EXCEPT !.at = "idle"] = NoRun
  BY <1>2, <1>3 DEF RunState
<1> QED BY <1>2, <1>3, <1>4, <1>5

LEMMA ReadRowStep ==
  ASSUME Inv, ReadRow
  PROVE  Inv'
<1> DEFINE at == IF run.at = "idle" THEN "row" ELSE "recall"
<1>1. /\ run' = [run EXCEPT !.at = at, !.row = Columns(thread)]
      /\ UNCHANGED <<thread, messages, memory, job, call, clears, leftover, upsets>>
  BY DEF ReadRow
<1>2. Columns(thread) \in Thread /\ Sound(Columns(thread)) /\ run \in RunState /\ RunInv
  BY RowIsKept DEF Inv, CompactionTypeOK
<1>3. /\ run' \in RunState /\ run'.at = at /\ run'.row = Columns(thread)
      /\ run'.window = run.window
  BY <1>1, <1>2 DEF RunState
<1>4. RunInv'
  BY <1>1, <1>2, <1>3 DEF RunInv, Sound, Covered, Whole
<1> QED BY <1>1, <1>3, <1>4, RunMoves DEF Inv, CompactionTypeOK

LEMMA ReadMessagesStep ==
  ASSUME Inv, ReadMessages
  PROVE  Inv'
<1> DEFINE at == IF run.at = "idle" THEN "messages" ELSE "recall"
           window == Latest(messages, LegacySize)
<1>1. /\ run.at \in {"idle", "row"}
      /\ run' = [run EXCEPT !.at = at, !.window = window]
      /\ UNCHANGED <<thread, messages, memory, job, call, clears, leftover, upsets>>
  BY DEF ReadMessages
<1>2. window \subseteq messages /\ Whole(window) /\ window \in Texts
  BY MessagesAreFinite, LatestIsWhole DEF Inv, ThreadInv, CompactionTypeOK, Texts
<1>3. run \in RunState /\ RunInv
  BY DEF Inv, CompactionTypeOK
<1> HIDE DEF window
<1>4. /\ run' \in RunState /\ run'.at = at /\ run'.row = run.row /\ run'.window = window
  BY <1>1, <1>2, <1>3 DEF RunState
<1>5. RunInv'
  BY <1>1, <1>2, <1>3, <1>4 DEF RunInv, Sound, Covered, Whole
<1> QED BY <1>1, <1>4, <1>5, RunMoves DEF Inv, CompactionTypeOK

LEMMA RecallStep ==
  ASSUME Inv, Recall
  PROVE  Inv'
<1>1. run.at = "recall"
      /\ UNCHANGED <<thread, messages, memory, job, call, clears, leftover, upsets>>
  BY DEF Recall
<1>2. /\ run \in RunState /\ run.row \in Thread /\ Sound(run.row) /\ run.window \subseteq messages
      /\ Whole(run.window) /\ CompactionTypeOK /\ Unbroken /\ MemoryInv /\ messages \in Texts
  BY <1>1 DEF Inv, RunInv, ThreadInv, CompactionTypeOK, RunState
<1>3. PICK found \in BOOLEAN, recalled \in SUBSET messages : Talk(found, recalled)
  <2>1. CASE Talk(FALSE, {})
    BY <2>1
  <2>2. ASSUME NEW found \in SUBSET {m \in memory : m.gen = run.row.gen},
               NEW durable \in BOOLEAN,
               Talk(durable \/ found # {}, UNION {m.text : m \in found})
        PROVE  \E f \in BOOLEAN, r \in SUBSET messages : Talk(f, r)
    <3>1. \A m \in found : m.text \subseteq messages
      BY <1>2 DEF MemoryInv, Sound
    <3>2. UNION {m.text : m \in found} \in SUBSET messages
      BY <3>1
    <3>3. (durable \/ found # {}) \in BOOLEAN
      OBVIOUS
    <3> QED BY <2>2, <3>2, <3>3
  <2> QED BY <2>1, <2>2 DEF Recall
<1> DEFINE context == Context(run.row, run.window, found)
           cut == Cut(run.row, run.window, found)
<1>4. context \subseteq messages /\ Whole(context) /\ (cut \/ run.window \subseteq context)
  BY <1>2, ContextIsSound
<1>5. cut \in BOOLEAN /\ context \in Texts /\ recalled \in Texts
  BY <1>2, <1>4 DEF Cut, Texts
<1>6. run' = [run EXCEPT !.at = "talk", !.row = NoRow, !.context = context,
                         !.recalled = recalled, !.cut = cut]
  BY <1>3 DEF Talk
<1> HIDE DEF context, cut
<1>7. NoRow \in Thread
  BY NoRowIsARow
<1>8. /\ run' \in RunState /\ run'.at = "talk" /\ run'.context = context
      /\ run'.recalled = recalled /\ run'.cut = cut /\ run'.window = run.window
  BY <1>2, <1>5, <1>6, <1>7 DEF RunState
<1>9. RunInv'
  BY <1>1, <1>2, <1>4, <1>8 DEF RunInv, Whole
<1> QED BY <1>1, <1>8, <1>9, RunMoves DEF Inv, CompactionTypeOK

LEMMA EndRunStep ==
  ASSUME Inv, EndRun \/ EnqueueAfterRun
  PROVE  Inv'
<1>1. /\ run' \in {NoRun, [NoRun EXCEPT !.at = "due"]}
      /\ UNCHANGED <<thread, messages, memory, call, clears, leftover, upsets>>
      /\ job' \in BOOLEAN
  BY NoRunIsSound DEF EndRun, EnqueueAfterRun, Inv, CompactionTypeOK
<1>2. run' \in RunState /\ run'.window = {} /\ run'.at \in {"idle", "due"}
  BY <1>1, NoRunIsSound
<1>3. RunInv'
  BY <1>2 DEF RunInv, Whole
<1> QED BY <1>1, <1>2, <1>3, RunMoves

-----------------------------------------------------------------------------
(* The calls *)

Others(c) == /\ call' = [d \in Calls |-> call'[d]]
             /\ \A d \in Calls \ {c} : call'[d] = call[d]

LEMMA SetCall ==
  ASSUME CompactionTypeOK, NEW c \in Calls, NEW locals \in CallState, Set(c, locals)
  PROVE  /\ Others(c) /\ call'[c] = locals /\ call' \in [Calls -> CallState]
  BY DEF Set, CompactionTypeOK, Others

LEMMA IdleIsACall ==
  /\ Idle \in CallState /\ Idle.at = "idle" /\ Idle.seen = NoRow /\ Idle.seen.gen = 0
<1>1. NoRow \in Thread /\ NoRow.gen = 0
  BY NoRowIsARow DEF NoRow
<1> QED BY <1>1 DEF Idle, CallState, NothingCompacted, Texts

\* A call that answers for a copy it saved: it will purge it, or look whether it must.
Vouches(c) == call[c].at = "purge" \/ (call[c].at = "look" /\ call[c].saved)

\* A step of a call that leaves the thread alone and adds nothing to the memory.
LEMMA CallMoves ==
  ASSUME Inv, NEW c \in Calls, Others(c), call' \in [Calls -> CallState], CallInv(c)',
         job' \in BOOLEAN, upsets' \in 0 .. MaxUpsets,
         leftover \subseteq leftover', leftover' \subseteq Generations,
         memory' \subseteq memory,
         Vouches(c) =>
           \/ call[c].seen.gen \in leftover' \/ call[c].seen.gen = thread.gen
           \/ Vouches(c)' /\ call'[c].seen.gen = call[c].seen.gen
           \/ \A m \in memory' : m.gen # call[c].seen.gen,
         UNCHANGED <<thread, messages, clears, run>>
  PROVE  Inv'
<1>1. CompactionTypeOK' /\ ThreadInv' /\ MemoryInv' /\ RunInv'
  BY DEF Inv, CompactionTypeOK, ThreadInv, Unbroken, Sound, Covered, MemoryInv, RunInv, Whole
<1>2. StaleCopiesArePurged'
  <2> SUFFICES ASSUME NEW m \in memory', m.gen < thread.gen,
                      m.gen \notin clears \union leftover'
               PROVE  \E d \in Calls : call'[d].seen.gen = m.gen /\ Vouches(d)'
    BY DEF StaleCopiesArePurged, Vouches
  <2>1. m.gen # thread.gen
    BY DEF Inv, CompactionTypeOK, Memory, Generations
  <2>2. PICK d \in Calls : call[d].seen.gen = m.gen /\ Vouches(d)
    BY DEF Inv, StaleCopiesArePurged, Vouches
  <2>3. CASE d = c
    BY <2>1, <2>2, <2>3
  <2>4. CASE d # c
    BY <2>2, <2>4 DEF Others, Vouches
  <2> QED BY <2>3, <2>4
<1>3. ASSUME NEW d \in Calls, d # c PROVE CallInv(d)'
  BY <1>3 DEF Inv, CallInv, Others, Sound, Covered
<1> QED BY <1>1, <1>2, <1>3 DEF Inv

\* A call that ends without a copy to vouch for.
LEMMA CallEnds ==
  ASSUME Inv, NEW c \in Calls, Set(c, Idle),
         job' \in BOOLEAN, upsets' \in 0 .. MaxUpsets,
         leftover \subseteq leftover', leftover' \subseteq Generations,
         Vouches(c) => call[c].seen.gen \in leftover' \/ call[c].seen.gen = thread.gen,
         UNCHANGED <<thread, messages, memory, clears, run>>
  PROVE  Inv'
<1>1. Others(c) /\ call'[c] = Idle /\ call' \in [Calls -> CallState]
  BY SetCall, IdleIsACall DEF Inv
<1>2. CallInv(c)'
  <2>1. thread.gen \in Nat
    BY DEF Inv, CompactionTypeOK, Thread, Generations
  <2> QED BY <1>1, <2>1, IdleIsACall DEF CallInv
<1> QED BY <1>1, <1>2, CallMoves

LEMMA TakeJobStep ==
  ASSUME Inv, NEW c \in Calls, TakeJob(c)
  PROVE  Inv'
<1> DEFINE q == [Idle EXCEPT !.at = "read", !.seen = Columns(thread)]
<1>1. Columns(thread) \in Thread /\ Sound(Columns(thread)) /\ Columns(thread).gen = thread.gen
  BY RowIsKept DEF Inv
<1>2. q \in CallState /\ q.at = "read" /\ q.seen = Columns(thread)
  BY <1>1, IdleIsACall DEF CallState
<1>3. Others(c) /\ call'[c] = q /\ call' \in [Calls -> CallState]
  BY <1>2, SetCall DEF Inv, TakeJob
<1> HIDE DEF q
<1>4. CallInv(c)'
  <2>1. thread.gen \in Nat
    BY DEF Inv, CompactionTypeOK, Thread, Generations
  <2> QED BY <1>1, <1>2, <1>3, <2>1 DEF CallInv, TakeJob, Sound, Covered
<1> QED BY <1>3, <1>4, CallMoves DEF Inv, CompactionTypeOK, TakeJob, Vouches

LEMMA ReadBatchStep ==
  ASSUME Inv, NEW c \in Calls, ReadBatch(c)
  PROVE  Inv'
<1> DEFINE row == call[c].seen
<1>1. /\ call[c].at = "read" /\ call[c] \in CallState /\ row \in Thread /\ CallInv(c)
      /\ UNCHANGED <<thread, messages, memory, job, clears, run, leftover, upsets>>
      /\ CompactionTypeOK /\ Unbroken
  BY DEF ReadBatch, Inv, CompactionTypeOK, CallState, ThreadInv
<1>2. CASE Set(c, Idle)
  BY <1>1, <1>2, CallEnds DEF CompactionTypeOK, Vouches
<1>3. ASSUME NEW B \in Batches(row),
             Set(c, [call[c] EXCEPT !.at = "advance", !.last = Max(B),
                                    !.text = row.summary \union B])
      PROVE  Inv'
  <2> DEFINE q == [call[c] EXCEPT !.at = "advance", !.last = Max(B),
                                  !.text = row.summary \union B]
  <2>1. B \subseteq messages /\ Max(B) \in messages
    BY <1>1, BatchShape
  <2>2. Max(B) \in -1 .. (MaxMessages - 1) /\ Max(B) < thread.next
        /\ (row.summary \union B) \in Texts
    <3>1. row.summary \in Texts /\ messages \in Texts
      BY <1>1 DEF CompactionTypeOK, Thread
    <3>2. Max(B) \in 0 .. (MaxMessages - 1) /\ Max(B) \in 0 .. (thread.next - 1)
      BY <1>1, <2>1, <3>1 DEF Unbroken, Texts, Seqs
    <3>3. thread.next \in Int
      BY <1>1, MessagesAreFinite
    <3> HIDE DEF row
    <3> QED BY <2>1, <3>1, <3>2, <3>3 DEF Texts
  <2>3. /\ q \in CallState /\ q.at = "advance" /\ q.last = Max(B)
        /\ q.text = row.summary \union B /\ q.seen = row
    BY <1>1, <2>2 DEF CallState
  <2>4. Others(c) /\ call'[c] = q /\ call' \in [Calls -> CallState]
    BY <1>1, <1>3, <2>3, SetCall
  <2>5. Sound(row) => row.summary \union B = {s \in messages : s <= Max(B)}
    BY <1>1, BatchIsSound
  <2> HIDE DEF q
  <2>6. CallInv(c)'
    BY <1>1, <2>2, <2>3, <2>4, <2>5 DEF CallInv
  <2> QED BY <1>1, <2>4, <2>6, CallMoves DEF CompactionTypeOK, Vouches
<1> QED BY <1>2, <1>3 DEF ReadBatch

LEMMA ModelFailsStep ==
  ASSUME Inv, NEW c \in Calls, ModelFails(c)
  PROVE  Inv'
<1>1. upsets' \in 0 .. MaxUpsets
  BY DEF ModelFails, Fault, Inv, CompactionTypeOK
<1> QED BY <1>1, CallEnds DEF ModelFails, Inv, CompactionTypeOK, Vouches

LEMMA AdvanceStep ==
  ASSUME Inv, NEW c \in Calls, Advance(c)
  PROVE  Inv'
<1>1. /\ call[c].at = "advance" /\ call[c] \in CallState /\ CallInv(c) /\ CompactionTypeOK
      /\ UNCHANGED <<messages, memory, job, clears, run, leftover, upsets>>
  BY DEF Advance, Inv, CompactionTypeOK
<1>2. CASE ~Unmoved(c) /\ Set(c, Idle) /\ UNCHANGED thread
  BY <1>1, <1>2, CallEnds DEF CompactionTypeOK, Vouches
<1>3. CASE /\ Unmoved(c)
           /\ thread' = [thread EXCEPT !.cursor = call[c].last, !.summary = call[c].text]
           /\ Set(c, [Idle EXCEPT !.at = "save", !.seen.gen = call[c].seen.gen,
                                  !.text = call[c].text])
  <2> DEFINE q == [Idle EXCEPT !.at = "save", !.seen.gen = call[c].seen.gen,
                               !.text = call[c].text]
  <2>1. /\ call[c].seen.gen = thread.gen /\ call[c].last < thread.next
        /\ call[c].text = {s \in messages : s <= call[c].last}
    BY <1>1, <1>3 DEF Unmoved, CallInv
  <2>2. /\ call[c].last \in -1 .. (MaxMessages - 1) /\ call[c].text \in Texts
        /\ call[c].seen.gen \in Generations /\ thread \in Thread
    BY <1>1 DEF CallState, Thread, CompactionTypeOK
  <2>3. /\ thread' \in Thread /\ thread'.next = thread.next /\ thread'.gen = thread.gen
        /\ thread'.cursor = call[c].last /\ thread'.summary = call[c].text
    BY <1>3, <2>2 DEF Thread
  <2>4. q \in CallState /\ q.at = "save" /\ q.text = call[c].text
        /\ q.seen.gen = thread.gen
    <3>1. [NoRow EXCEPT !.gen = call[c].seen.gen] \in Thread
          /\ [NoRow EXCEPT !.gen = call[c].seen.gen].gen = call[c].seen.gen
      BY <2>2, NoRowIsARow DEF Thread
    <3> QED BY <2>1, <2>2, <3>1, IdleIsACall DEF CallState
  <2>5. Others(c) /\ call'[c] = q /\ call' \in [Calls -> CallState]
    BY <1>1, <1>3, <2>4, SetCall
  <2> HIDE DEF q
  <2>6. CompactionTypeOK'
    BY <1>1, <2>3, <2>5 DEF CompactionTypeOK
  <2>7. ThreadInv'
    BY <1>1, <2>1, <2>3 DEF Inv, ThreadInv, Unbroken, Sound, Covered
  <2>8. MemoryInv' /\ RunInv'
    BY <1>1, <2>3 DEF Inv, MemoryInv, RunInv, Sound, Covered, Whole
  <2>9. StaleCopiesArePurged'
    BY <1>1, <2>3, <2>5 DEF Inv, StaleCopiesArePurged, Others
  <2>10. ASSUME NEW d \in Calls PROVE CallInv(d)'
    <3>1. CASE d = c
      <4>1. thread.gen \in Nat
        BY <2>2 DEF Thread, Generations
      <4>2. call[c].text \subseteq messages
        BY <2>1
      <4> QED BY <1>1, <2>3, <2>4, <2>5, <3>1, <4>1, <4>2 DEF CallInv
    <3>2. CASE d # c
      BY <1>1, <2>3, <2>5, <3>2 DEF Inv, CallInv, Others, Sound, Covered
    <3> QED BY <3>1, <3>2
  <2> QED BY <2>6, <2>7, <2>8, <2>9, <2>10 DEF Inv
<1> QED BY <1>2, <1>3 DEF Advance

LEMMA SaveStep ==
  ASSUME Inv, NEW c \in Calls, Save(c)
  PROVE  Inv'
<1> DEFINE copy == [gen |-> call[c].seen.gen, text |-> call[c].text]
<1>1. /\ call[c].at = "save" /\ call[c] \in CallState /\ CallInv(c) /\ CompactionTypeOK
      /\ UNCHANGED <<thread, messages, job, clears, run, leftover, upsets>>
  BY DEF Save, Inv, CompactionTypeOK
<1>2. PICK saved \in BOOLEAN :
        /\ Set(c, [call[c] EXCEPT !.at = "look", !.text = {}, !.saved = saved])
        /\ memory' = memory \/ (saved /\ memory' \subseteq memory \union {copy})
  <2>1. [call[c] EXCEPT !.at = "look", !.text = {}] =
          [call[c] EXCEPT !.at = "look", !.text = {}, !.saved = call[c].saved]
    BY <1>1 DEF CallState
  <2>2. call[c].saved \in BOOLEAN
    BY <1>1 DEF CallState
  <2>3. ASSUME memory' \in {memory, memory \union {copy}}
        PROVE  memory' \subseteq memory \union {copy}
    BY <2>3
  <2> HIDE DEF copy
  <2> QED BY <2>1, <2>2, <2>3 DEF Save, copy
<1> DEFINE q == [call[c] EXCEPT !.at = "look", !.text = {}, !.saved = saved]
<1>3. /\ q \in CallState /\ q.at = "look" /\ q.saved = saved /\ q.seen = call[c].seen
  BY <1>1 DEF CallState, Texts
<1>4. Others(c) /\ call'[c] = q /\ call' \in [Calls -> CallState]
  BY <1>1, <1>2, <1>3, SetCall
<1> HIDE DEF q
<1>5. copy \in Memory /\ copy.gen = call[c].seen.gen /\ copy.text = call[c].text
  BY <1>1 DEF CallState, Thread, Memory
<1> HIDE DEF copy
<1>6. CompactionTypeOK' /\ ThreadInv' /\ RunInv'
  BY <1>1, <1>2, <1>4, <1>5
    DEF Inv, CompactionTypeOK, ThreadInv, Unbroken, Sound, Covered, RunInv, Whole
<1>7. MemoryInv'
  BY <1>1, <1>2, <1>5 DEF Inv, MemoryInv, CallInv
<1>8. StaleCopiesArePurged'
  <2> SUFFICES ASSUME NEW m \in memory', m.gen < thread.gen, m.gen \notin clears \union leftover
               PROVE  \E d \in Calls : call'[d].seen.gen = m.gen /\ Vouches(d)'
    BY <1>1 DEF StaleCopiesArePurged, Vouches
  <2>1. CASE m \in memory
    <3>1. PICK d \in Calls : call[d].seen.gen = m.gen /\ Vouches(d)
      BY <2>1 DEF Inv, StaleCopiesArePurged, Vouches
    <3>2. d # c \/ ~ (call[c].at \in {"look", "purge"})
      BY <1>1
    <3>3. d # c
      BY <3>1, <3>2 DEF Vouches
    <3> QED BY <1>4, <3>1, <3>3 DEF Others, Vouches
  <2>2. CASE m \notin memory
    <3>1. m = copy /\ saved = TRUE
      BY <1>2, <2>2
    <3> QED BY <1>3, <1>4, <1>5, <3>1 DEF Vouches
  <2> QED BY <2>1, <2>2
<1>9. ASSUME NEW d \in Calls PROVE CallInv(d)'
  BY <1>1, <1>3, <1>4 DEF Inv, CallInv, Others, Sound, Covered
<1> QED BY <1>6, <1>7, <1>8, <1>9 DEF Inv

LEMMA LookAgainStep ==
  ASSUME Inv, NEW c \in Calls, LookAgain(c)
  PROVE  Inv'
<1> DEFINE due == Backlog(thread)
           at == IF Stale(c) THEN "purge" ELSE "more"
           q == [Idle EXCEPT !.at = at, !.seen.gen = call[c].seen.gen, !.due = due]
<1>1. /\ call[c].at = "look" /\ call[c] \in CallState /\ CallInv(c) /\ CompactionTypeOK
      /\ UNCHANGED <<thread, messages, memory, job, clears, run, leftover, upsets>>
      /\ Set(c, q)
  BY DEF LookAgain, Inv, CompactionTypeOK
<1>2. [NoRow EXCEPT !.gen = call[c].seen.gen] \in Thread
      /\ [NoRow EXCEPT !.gen = call[c].seen.gen].gen = call[c].seen.gen
  BY <1>1, NoRowIsARow DEF Thread, CallState
<1>3. due \in BOOLEAN /\ at \in {"purge", "more"}
  BY DEF Backlog
<1>4. q \in CallState /\ q.at = at /\ q.seen.gen = call[c].seen.gen
  <2> HIDE DEF due, at
  <2> QED BY <1>2, <1>3, IdleIsACall DEF CallState
<1>5. Others(c) /\ call'[c] = q /\ call' \in [Calls -> CallState]
  BY <1>1, <1>4, SetCall
<1> HIDE DEF q
<1>6. CallInv(c)'
  BY <1>1, <1>3, <1>4, <1>5 DEF CallInv
<1>7. Vouches(c) => call[c].seen.gen = thread.gen
                    \/ (Vouches(c)' /\ call'[c].seen.gen = call[c].seen.gen)
  BY <1>1, <1>4, <1>5 DEF Vouches, Stale
<1> QED BY <1>1, <1>5, <1>6, <1>7, CallMoves DEF CompactionTypeOK

LEMMA PurgeStaleStep ==
  ASSUME Inv, NEW c \in Calls, PurgeStale(c)
  PROVE  Inv'
<1> DEFINE q == [call[c] EXCEPT !.at = "more"]
<1>1. /\ call[c] \in CallState /\ CallInv(c) /\ CompactionTypeOK
      /\ UNCHANGED <<thread, messages, job, clears, run>>
      /\ Set(c, q)
  BY DEF PurgeStale, GoTo, Inv, CompactionTypeOK
<1>2. q \in CallState /\ q.at = "more" /\ q.seen = call[c].seen
  BY <1>1 DEF CallState
<1>3. Others(c) /\ call'[c] = q /\ call' \in [Calls -> CallState]
  BY <1>1, <1>2, SetCall
<1> HIDE DEF q
<1>4. CallInv(c)'
  BY <1>1, <1>2, <1>3 DEF CallInv
<1>5. /\ memory' \subseteq memory /\ leftover \subseteq leftover'
      /\ leftover' \subseteq Generations /\ upsets' \in 0 .. MaxUpsets
      /\ call[c].seen.gen \in leftover' \/ \A m \in memory' : m.gen # call[c].seen.gen
  <2>1. /\ call[c].seen.gen \in Generations /\ leftover \subseteq Generations
        /\ upsets \in 0 .. MaxUpsets
    BY <1>1 DEF CompactionTypeOK, CallState, Thread
  <2>2. CASE memory' = Without({call[c].seen.gen}) /\ UNCHANGED <<leftover, upsets>>
    BY <2>1, <2>2 DEF Without
  <2>3. CASE /\ Fault /\ leftover' = leftover \union {call[c].seen.gen}
             /\ UNCHANGED memory
    BY <2>1, <2>3 DEF Fault
  <2> QED BY <2>2, <2>3 DEF PurgeStale
<1> QED BY <1>1, <1>3, <1>4, <1>5, CallMoves DEF CompactionTypeOK

LEMMA CompactMoreStep ==
  ASSUME Inv, NEW c \in Calls, CompactMore(c)
  PROVE  Inv'
<1>1. (job \/ call[c].due) \in BOOLEAN
  OBVIOUS
<1> QED BY <1>1, CallEnds DEF CompactMore, Inv, CompactionTypeOK, Vouches

LEMMA CrashStep ==
  ASSUME Inv, NEW c \in Calls, Crash(c)
  PROVE  Inv'
<1>1. call[c].seen.gen \in Generations
  BY DEF Inv, CompactionTypeOK, CallState, Thread
<1>2. upsets' \in 0 .. MaxUpsets
  BY DEF Crash, Fault, Inv, CompactionTypeOK
<1>3. /\ leftover \subseteq leftover' /\ leftover' \subseteq Generations
      /\ Vouches(c) => call[c].seen.gen \in leftover'
  BY <1>1 DEF Crash, Inv, CompactionTypeOK, Vouches
<1> QED BY <1>2, <1>3, CallEnds DEF Crash, Inv, CompactionTypeOK

-----------------------------------------------------------------------------
(* The theorems *)

LEMMA InitInv ==
  Init => Inv
<1> SUFFICES ASSUME Init PROVE Inv
  OBVIOUS
<1>1. Min({MaxLegacy, MaxMessages}) \in Nat /\ Min({MaxLegacy, MaxMessages}) <= MaxMessages
  <2>1. \E x \in {MaxLegacy, MaxMessages} : \A y \in {MaxLegacy, MaxMessages} : x <= y
    OBVIOUS
  <2>2. /\ Min({MaxLegacy, MaxMessages}) \in {MaxLegacy, MaxMessages}
        /\ \A y \in {MaxLegacy, MaxMessages} : Min({MaxLegacy, MaxMessages}) <= y
    BY <2>1 DEF Min
  <2> QED BY <2>2
<1>2. PICK next \in 0 .. Min({MaxLegacy, MaxMessages}) :
        \E first \in 0 .. next, cursor \in -1 .. (next - 1) :
          /\ thread = [NoRow EXCEPT !.next = next, !.cursor = cursor]
          /\ messages = first .. (next - 1)
  BY DEF Init
<1>3. PICK first \in 0 .. next, cursor \in -1 .. (next - 1) :
        /\ thread = [NoRow EXCEPT !.next = next, !.cursor = cursor]
        /\ messages = first .. (next - 1)
  BY <1>2
<1>4. next \in 0 .. MaxMessages /\ cursor \in -1 .. (MaxMessages - 1)
  BY <1>1
<1>5. /\ thread \in Thread /\ thread.next = next /\ thread.cursor = cursor
      /\ thread.summary = {} /\ thread.gen = 0
  <2>1. NoRow \in Thread /\ NoRow.summary = {} /\ NoRow.gen = 0
    BY NoRowIsARow DEF NoRow
  <2> QED BY <1>3, <1>4, <2>1 DEF Thread
<1>6. /\ memory = {} /\ job = FALSE /\ call = [c \in Calls |-> Idle]
      /\ clears = {} /\ run = NoRun /\ leftover = {} /\ upsets = 0
  BY DEF Init
<1>7. CompactionTypeOK
  <2>1. messages \in Texts
    BY <1>3, <1>4 DEF Texts, Seqs
  <2>2. call \in [Calls -> CallState] /\ run \in RunState
    BY <1>6, IdleIsACall, NoRunIsSound
  <2>3. memory \subseteq Memory /\ clears \subseteq Generations /\ leftover \subseteq Generations
    BY <1>6
  <2>4. job \in BOOLEAN
    BY <1>6
  <2>5. 0 \in 0 .. MaxUpsets
    OBVIOUS
  <2>6. upsets \in 0 .. MaxUpsets
    BY <1>6, <2>5
  <2> QED BY <1>5, <2>1, <2>2, <2>3, <2>4, <2>6 DEF CompactionTypeOK
<1>8. ThreadInv
  BY <1>3, <1>5 DEF ThreadInv, Unbroken, Sound
<1>9. RunInv
  BY <1>6, NoRunIsSound DEF RunInv, Whole
<1>10. \A c \in Calls : CallInv(c)
  BY <1>5, <1>6, IdleIsACall DEF CallInv
<1> QED BY <1>6, <1>7, <1>8, <1>9, <1>10 DEF Inv, MemoryInv, StaleCopiesArePurged

LEMMA NextInv ==
  Inv /\ [Next]_vars => Inv'
<1> SUFFICES ASSUME Inv, [Next]_vars PROVE Inv'
  OBVIOUS
<1>1. CASE SendMessage
  BY <1>1, SendStep
<1>2. CASE ClearThread
  BY <1>2, ClearStep
<1>3. ASSUME NEW g \in clears, PurgeAfterClear(g) PROVE Inv'
  BY <1>3, PurgeAfterClearStep
<1>4. CASE RunStep
  BY <1>4, ReadRowStep, ReadMessagesStep, RecallStep, EndRunStep DEF RunStep
<1>5. ASSUME NEW c \in Calls, CallStep(c) PROVE Inv'
  BY <1>5, TakeJobStep, ReadBatchStep, ModelFailsStep, AdvanceStep, SaveStep,
     LookAgainStep, PurgeStaleStep, CompactMoreStep, CrashStep DEF CallStep
<1>6. CASE UNCHANGED vars
  BY <1>6 DEF vars, Inv, CompactionTypeOK, ThreadInv, Unbroken, Sound, Covered, MemoryInv,
     RunInv, Whole, StaleCopiesArePurged, CallInv
<1> QED BY <1>1, <1>2, <1>3, <1>4, <1>5, <1>6 DEF Next

\* The inductive invariant holds in every reachable state.
LEMMA Invariant ==
  CompactionSpec => []Inv
<1> QED BY InitInv, NextInv, PTL DEF CompactionSpec

\* Types: the cursor names a message the thread gave, and texts tell of nothing else.
THEOREM CompactionTypeCorrect ==
  CompactionSpec => []CompactionTypeOK
<1>1. Inv => CompactionTypeOK
  BY DEF Inv
<1> QED BY <1>1, Invariant, PTL

\* A run is told only of messages the thread still has, however many jobs, clears and
\* runs overlap.
THEOREM NothingComesBack ==
  CompactionSpec => []ToldIsInTheThread
<1>1. Inv => ToldIsInTheThread
  BY DEF Inv, RunInv, ToldIsInTheThread
<1> QED BY <1>1, Invariant, PTL

\* What a run is told has no hole in it, for all sizes of the batch and of the windows.
THEOREM ContextHasNoHole ==
  CompactionSpec => []ContextIsWhole
<1>1. Inv => ContextIsWhole
  BY DEF Inv, RunInv, ContextIsWhole, Whole
<1> QED BY <1>1, Invariant, PTL

\* A copy of an earlier conversation has somebody about to purge it, unless a purge
\* failed or died.
THEOREM CopiesArePurged ==
  CompactionSpec => []StaleCopiesArePurged
<1>1. Inv => StaleCopiesArePurged
  BY DEF Inv
<1> QED BY <1>1, Invariant, PTL

=============================================================================
