----------------------- MODULE ExternalEffectsProofs -----------------------
(***************************************************************************)
(* Theorems about ExternalEffects, for every number of workers, requests,  *)
(* tools, repetitions and attempts.                                        *)
(***************************************************************************)
EXTENDS ExternalEffects, TLAPS

USE EffectConstants

-----------------------------------------------------------------------------
(* Types; what is still to be replayed may be anything *)

WorkerShape(replay) ==
  [at : Places, fence : Nat, replay : {replay}, used : [Requests -> 0..MaxRepeats],
   rules : [Tools -> Rules], key : Keys \union {<<>>}, seen : EffectStatus, claimed : BOOLEAN]

RunShape ==
  [status : {"queued", "running", "waiting_input", "completed", "failed", "cancelled"},
   fence : Nat, card : Keys \union {<<>>}]

HasKey(w) == worker[w].at \notin {"idle", "load", "think"}

Types ==
  /\ policy \in Policy /\ rules \in [Tools -> Rules]
  /\ effect \in [Keys -> EffectStatus] /\ run \in RunShape
  /\ answering \in Answers \union {"none"}
  /\ told \in [Keys -> {"none", "approved", "denied"}] /\ ran \in [Keys -> Nat]
  /\ worker = [w \in Workers |-> worker[w]]

Shaped(w) == /\ worker[w] \in WorkerShape(worker[w].replay)
             /\ HasKey(w) => Key(w) \in Keys

\* A step that moves one worker.
Others(w) == /\ worker' = [v \in Workers |-> worker'[v]]
             /\ \A v \in Workers \ {w} : worker'[v] = worker[v]

LEMMA GoToWorker ==
  ASSUME Types, NEW w \in Workers, Shaped(w), NEW place \in Places, GoTo(w, place)
  PROVE  /\ Others(w) /\ worker'[w] \in WorkerShape(worker'[w].replay)
         /\ worker'[w].at = place
         /\ worker'[w].fence = worker[w].fence /\ worker'[w].rules = worker[w].rules
         /\ worker'[w].key = worker[w].key /\ worker'[w].seen = worker[w].seen
         /\ worker'[w].claimed = worker[w].claimed
  BY DEF GoTo, Types, Shaped, Others, WorkerShape

LEMMA ReturnWorker ==
  ASSUME Types, NEW w \in Workers, Shaped(w), Return(w)
  PROVE  /\ Others(w) /\ worker'[w] \in WorkerShape(worker'[w].replay)
         /\ worker'[w].at = "think"
         /\ worker'[w].fence = worker[w].fence /\ worker'[w].rules = worker[w].rules
<1> DEFINE q == [worker[w] EXCEPT !.at = "think", !.key = <<>>, !.seen = "none",
                                  !.claimed = FALSE]
<1>1. worker[w] \in WorkerShape(worker[w].replay)
  BY DEF Shaped
<1>2. /\ q \in WorkerShape(q.replay) /\ q.at = "think" /\ q.fence = worker[w].fence
      /\ q.rules = worker[w].rules
  BY <1>1 DEF WorkerShape, Places, EffectStatus
<1>3. worker' = [worker EXCEPT ![w] = q]
  BY <1>1 DEF Return, WorkerShape, Types
<1> HIDE DEF q
<1> QED
  BY <1>2, <1>3 DEF Types, Others

LEMMA IdleShape ==
  IdleWorker \in WorkerShape(IdleWorker.replay) /\ IdleWorker.at = "idle" /\ IdleWorker.fence = 0
  BY DEF IdleWorker, WorkerShape, Places, EffectStatus, Rules

LEMMA ExitWorker ==
  ASSUME Types, NEW w \in Workers, Exit(w)
  PROVE  /\ Others(w) /\ worker'[w] \in WorkerShape(worker'[w].replay)
         /\ worker'[w].at = "idle" /\ worker'[w].fence = 0
  BY IdleShape DEF Exit, Types, Others

-----------------------------------------------------------------------------
(* The inductive invariant *)

Loaded(w)    == worker[w].at \notin {"idle", "load"}
Undecided(w) == worker[w].seen \in {"none", "intended"}
Untaken      == {"none", "intended", "approved", "denied"}

\* A row whose action is only taken after a claim.
Guarded(k) == Consequential(k[1]) \/ rules[ToolOf[k[1]]] = "require_approval"

\* The attempt that leases the run knows the rules; an older one misses at most that a
\* tool was allowed.
Informed(w) ==
  /\ worker[w].fence <= run.fence
  /\ Loaded(w) =>
       /\ Leases(w) => worker[w].rules = rules
       /\ \A t \in Tools : \/ worker[w].rules[t] = rules[t]
                           \/ worker[w].rules[t] = "none" /\ rules[t] = "always_allow"

\* How a call came to where it is.
Placed(w) ==
  /\ At(w, "create") => worker[w].seen = "none"
  /\ At(w, "claim") => worker[w].seen = "approved" \/ (Undecided(w) /\ ~NeedsApproval(w))
  /\ At(w, "pause") => Undecided(w) /\ NeedsApproval(w)
  /\ worker[w].at \in {"execute", "complete"} /\ ~worker[w].claimed =>
       ~Consequential(Key(w)[1]) /\ ~NeedsApproval(w)

\* The row that the leased attempt is about to ask for is undecided ...
Asking(w) ==
  worker[w].at \in {"gate", "pause"} /\ Undecided(w) /\ NeedsApproval(w) /\ Leases(w) =>
    effect[Key(w)] = "intended"

\* ... and stays so while the card waits.
CardInv ==
  run.status = "waiting_input" =>
    /\ run.card \in Keys /\ effect[run.card] = "intended"
    /\ Asks(run.card[1], rules[ToolOf[run.card[1]]])

\* Who claimed a guarded row takes its action, and nobody else.
Taken(k) ==
  Guarded(k) =>
    /\ effect[k] \in Untaken => ran[k] = 0
    /\ effect[k] \in Untaken \/ ran[k] = 1 => \A w \in Workers : At(w, "execute") => Key(w) # k
    /\ ran[k] <= 1
    /\ \A v, w \in Workers :
         At(v, "execute") /\ At(w, "execute") /\ Key(v) = k /\ Key(w) = k => v = w

\* What the user said agrees with the row.
Said(k) ==
  /\ told[k] = "denied" => effect[k] = "denied"
  /\ told[k] # "none" => Guarded(k)
  /\ effect[k] = "approved" => told[k] = "approved"
  /\ Guarded(k) /\ effect[k] \notin Untaken /\ Asks(k[1], rules[ToolOf[k[1]]]) =>
       told[k] = "approved"

Local(w) == Shaped(w) /\ Informed(w) /\ Placed(w) /\ Asking(w)

Inv ==
  /\ Types /\ CardInv
  /\ \A w \in Workers : Local(w)
  /\ \A k \in Keys : Taken(k) /\ Said(k)

\* An attempt that has not loaded the run yet goes by nothing.
LEMMA RestingIsLocal ==
  ASSUME NEW w \in Workers, worker[w] \in WorkerShape(worker[w].replay),
         worker[w].at \in {"idle", "load"}, worker[w].fence <= run.fence
  PROVE  Local(w)
  BY DEF Local, Shaped, Informed, Placed, Asking, HasKey, Loaded, At

LEMMA InitInv == EffectInit => Inv
<1> SUFFICES ASSUME EffectInit PROVE Inv
  OBVIOUS
<1>1. \A w \in Workers : worker[w] = IdleWorker
  BY DEF EffectInit
<1>2. Types
  BY <1>1 DEF EffectInit, Types, RunShape, EffectStatus, Answers
<1>3. \A k \in Keys : effect[k] = "none" /\ ran[k] = 0 /\ told[k] = "none"
  BY DEF EffectInit
<1>4. run.status = "queued" /\ run.fence = 0
  BY DEF EffectInit
<1>5. ASSUME NEW w \in Workers PROVE Local(w)
  <2>1. /\ worker[w] \in WorkerShape(worker[w].replay)
        /\ worker[w].at = "idle" /\ worker[w].fence <= run.fence
    BY <1>1, <1>4, IdleShape
  <2> QED
    BY <2>1, RestingIsLocal
<1>6. \A k \in Keys : Taken(k) /\ Said(k)
  BY <1>1, <1>3, IdleShape DEF Taken, Said, Untaken, At
<1> QED
  BY <1>2, <1>4, <1>5, <1>6 DEF Inv, CardInv

\* The rules that an older attempt knows ask wherever the present ones do.
LEMMA OlderAsks ==
  ASSUME NEW r, NEW a, NEW b, a = b \/ (a = "none" /\ b = "always_allow"), Asks(r, b)
  PROVE  Asks(r, a)
  BY DEF Asks

LEMMA KnownAsks ==
  ASSUME NEW w \in Workers, Local(w), Loaded(w), NEW k \in Keys, Key(w) = k,
         Asks(k[1], rules[ToolOf[k[1]]])
  PROVE  NeedsApproval(w)
<1>1. ToolOf[k[1]] \in Tools
  BY DEF Keys
<1> QED
  BY <1>1, OlderAsks DEF Local, Informed, NeedsApproval

\* What an attempt does without a claim and without asking needs neither.
LEMMA Unclaimed ==
  ASSUME NEW w \in Workers, Local(w), Loaded(w), Key(w) \in Keys,
         ~Consequential(Key(w)[1]), ~NeedsApproval(w)
  PROVE  ~Guarded(Key(w)) /\ ~Asks(Key(w)[1], rules[ToolOf[Key(w)[1]]])
<1>1. ~Asks(Key(w)[1], rules[ToolOf[Key(w)[1]]])
  BY KnownAsks
<1> QED
  BY <1>1 DEF Guarded, Asks

-----------------------------------------------------------------------------
(* Steps of one worker *)

LEMMA OthersAreLocal ==
  ASSUME Inv, NEW w \in Workers, Others(w), UNCHANGED <<policy, rules, effect, run>>,
         NEW v \in Workers, v # w
  PROVE  Local(v)'
<1>1. worker'[v] = worker[v] /\ Local(v)
  BY DEF Others, Inv
<1>2. Shaped(v)' /\ Informed(v)' /\ Placed(v)'
  BY <1>1 DEF Local, Shaped, Informed, Placed, HasKey, Key, Loaded, Leases, At,
              Undecided, NeedsApproval, Asks, KindOf, Consequential
<1>3. Asking(v)'
  BY <1>1 DEF Local, Asking, Undecided, NeedsApproval, Leases, Key, Asks, KindOf
<1> QED
  BY <1>2, <1>3 DEF Local

\* A worker moves and nothing else changes.
LEMMA Move ==
  ASSUME Inv, NEW w \in Workers, Others(w), Local(w)',
         UNCHANGED <<policy, rules, effect, run, answering, told, ran>>,
         At(w, "execute")' => ~Guarded(Key(w)')
  PROVE  Inv'
<1>1. Types' /\ CardInv'
  BY DEF Inv, Types, Others, CardInv, Asks, KindOf
<1>2. ASSUME NEW v \in Workers, v # w PROVE Local(v)'
  BY <1>2, OthersAreLocal
<1>3. ASSUME NEW k \in Keys PROVE Taken(k)' /\ Said(k)'
  <2>1. Guarded(k)' = Guarded(k)
    BY DEF Guarded, Consequential, KindOf
  <2>2. Said(k)'
    BY <2>1 DEF Inv, Said, Asks, KindOf
  <2>3. Guarded(k) => \A v \in Workers : At(v, "execute")' /\ Key(v)' = k =>
                        At(v, "execute") /\ Key(v) = k
    BY DEF Others, At, Key
  <2>4. Taken(k)'
    BY <2>1, <2>3 DEF Inv, Taken
  <2> QED
    BY <2>2, <2>4
<1> QED
  BY <1>1, <1>2, <1>3 DEF Inv

\* The statuses a worker gives a row.
Settles(k, status) ==
  \/ effect[k] = "none" /\ status = "intended"
  \/ effect[k] = "executing" /\ status \in {"uncertain", "completed"}
  \/ effect[k] = "approved" /\ status = "executing"
  \/ /\ effect[k] = "intended" /\ ~Asks(k[1], rules[ToolOf[k[1]]])
     /\ status = "executing" \/ (status = "completed" /\ ~Guarded(k))

\* A worker moves and settles its row.
LEMMA SettleStep ==
  ASSUME Inv, NEW w \in Workers, Others(w), Local(w)', NEW k \in Keys, NEW status \in EffectStatus,
         Settles(k, status), effect' = [effect EXCEPT ![k] = status],
         UNCHANGED <<policy, rules, run, answering, told, ran>>,
         At(w, "execute")' => Key(w)' = k /\ status = "executing"
  PROVE  Inv'
<1>0. /\ effect \in [Keys -> EffectStatus]
      /\ effect'[k] = status /\ \A j \in Keys \ {k} : effect'[j] = effect[j]
  BY DEF Inv, Types
<1>1. Types'
  BY DEF Inv, Types, Others
<1>2. CardInv'
  BY <1>0 DEF Inv, CardInv, Settles, Asks, KindOf
<1>3. ASSUME NEW v \in Workers, v # w PROVE Local(v)'
  <2>1. worker'[v] = worker[v] /\ Local(v)
    BY <1>3 DEF Others, Inv
  <2>2. Shaped(v)' /\ Informed(v)' /\ Placed(v)'
    BY <2>1 DEF Local, Shaped, Informed, Placed, HasKey, Key, Loaded, Leases, At,
                Undecided, NeedsApproval, Asks, KindOf, Consequential
  <2>3. Asking(v)'
    <3> SUFFICES ASSUME worker[v].at \in {"gate", "pause"}, Undecided(v), NeedsApproval(v),
                        Leases(v)
                 PROVE  effect'[Key(v)] = "intended"
      BY <2>1 DEF Asking, Undecided, NeedsApproval, Leases, Key, Asks, KindOf
    <3>1. effect[Key(v)] = "intended" /\ Key(v) \in Keys
      BY <2>1 DEF Local, Asking, Shaped, HasKey
    <3>2. Asks(Key(v)[1], rules[ToolOf[Key(v)[1]]])
      BY <2>1 DEF Local, Informed, Loaded, NeedsApproval
    <3>3. Key(v) # k
      BY <3>1, <3>2 DEF Settles
    <3> QED
      BY <1>0, <3>1, <3>3
  <2> QED
    BY <2>2, <2>3 DEF Local
<1>4. ASSUME NEW j \in Keys PROVE Taken(j)' /\ Said(j)'
  <2>1. Guarded(j)' = Guarded(j)
    BY DEF Guarded, Consequential, KindOf
  <2>2. Taken(j) /\ Said(j)
    BY DEF Inv
  <2>3. \A v \in Workers \ {w} : (At(v, "execute")' <=> At(v, "execute")) /\ Key(v)' = Key(v)
    BY DEF Others, At, Key
  <2>4. CASE j # k
    <3>1. effect'[j] = effect[j] /\ (At(w, "execute")' => Key(w)' # j)
      BY <1>0, <2>4
    <3> QED
      BY <2>1, <2>2, <2>3, <3>1 DEF Taken, Said, Asks, KindOf
  <2>5. CASE j = k
    <3>1. Said(k)'
      BY <1>0, <2>1, <2>2, <2>5 DEF Said, Settles, Untaken, Asks, KindOf
    <3>2. Taken(k)'
      BY <1>0, <2>1, <2>2, <2>3, <2>5 DEF Taken, Settles, Untaken
    <3> QED
      BY <2>5, <3>1, <3>2
  <2> QED
    BY <2>4, <2>5
<1> QED
  BY <1>1, <1>2, <1>3, <1>4 DEF Inv

-----------------------------------------------------------------------------
(* The attempt *)

LEMMA ExitStep ==
  ASSUME Inv, NEW w \in Workers, Exit(w),
         UNCHANGED <<policy, rules, effect, run, answering, told, ran>>
  PROVE  Inv'
<1>1. /\ Others(w) /\ worker'[w] \in WorkerShape(worker'[w].replay)
      /\ worker'[w].at = "idle" /\ worker'[w].fence = 0
  BY ExitWorker DEF Inv
<1>2. run'.fence \in Nat
  BY DEF Inv, Types, RunShape
<1>3. Local(w)'
  BY <1>1, <1>2 DEF Local, Shaped, Informed, Placed, Asking, HasKey, Loaded, At
<1> QED
  BY <1>1, <1>3, Move DEF At

\* A call that returns is local to nothing but its rules.
LEMMA ReturnIsLocal ==
  ASSUME Inv, NEW w \in Workers, Loaded(w), Return(w), UNCHANGED <<policy, rules, run>>
  PROVE  Others(w) /\ Local(w)' /\ worker'[w].at = "think"
<1>0. Types /\ Local(w)
  BY DEF Inv
<1>1. /\ Others(w) /\ worker'[w] \in WorkerShape(worker'[w].replay)
      /\ worker'[w].at = "think"
      /\ worker'[w].fence = worker[w].fence /\ worker'[w].rules = worker[w].rules
  BY <1>0, ReturnWorker DEF Local
<1>2. Informed(w)'
  BY <1>0, <1>1 DEF Local, Informed, Loaded, Leases
<1> QED
  BY <1>1, <1>2 DEF Local, Shaped, Placed, Asking, HasKey, At

LEMMA ReturnStep ==
  ASSUME Inv, NEW w \in Workers, Loaded(w), Return(w),
         UNCHANGED <<policy, rules, effect, run, answering, told, ran>>
  PROVE  Inv'
  BY ReturnIsLocal, Move DEF At

LEMMA LoadStep == ASSUME Inv, NEW w \in Workers, LoadApproved(w) PROVE Inv'
<1>0. Types /\ Local(w) /\ rules \in [Tools -> Rules]
  BY DEF Inv, Types
<1> DEFINE q == [worker[w] EXCEPT !.at = "think", !.replay = Approved, !.rules = rules]
<1>1. worker' = [worker EXCEPT ![w] = q]
  BY <1>0 DEF LoadApproved, Types, Local, Shaped, WorkerShape
<1>2. /\ q \in WorkerShape(q.replay) /\ q.at = "think" /\ q.rules = rules
      /\ q.fence = worker[w].fence
  BY <1>0 DEF Local, Shaped, WorkerShape, Places
<1> HIDE DEF q
<1>3. Others(w) /\ worker'[w] = q
  BY <1>0, <1>1 DEF Types, Others
<1>4. UNCHANGED <<policy, rules, effect, run, answering, told, ran>>
  BY DEF LoadApproved, World
<1>5. Local(w)'
  BY <1>0, <1>2, <1>3, <1>4
     DEF Local, Shaped, Informed, Placed, Asking, HasKey, Loaded, Leases, At
<1> QED
  BY <1>2, <1>3, <1>4, <1>5, Move DEF At

LEMMA CallStep == ASSUME Inv, NEW w \in Workers, Call(w) PROVE Inv'
<1>0. Types /\ Local(w) /\ worker[w].at = "think" /\ worker[w] \in WorkerShape(worker[w].replay)
  BY DEF Inv, Call, At, Local, Shaped
<1>1. PICK r \in Requests :
        /\ worker[w].used[r] < MaxRepeats
        /\ worker' = [worker EXCEPT
             ![w].at = "record", ![w].key = <<r, worker[w].used[r]>>,
             ![w].used[r] = @ + 1, ![w].replay = IF @ = <<>> THEN @ ELSE Tail(@)]
  BY DEF Call
<1> DEFINE key  == <<r, worker[w].used[r]>>
           used == [worker[w].used EXCEPT ![r] = @ + 1]
           rest == IF worker[w].replay = <<>> THEN worker[w].replay ELSE Tail(worker[w].replay)
           q    == [worker[w] EXCEPT !.at = "record", !.key = key, !.used = used, !.replay = rest]
<1>2. key \in Keys /\ used \in [Requests -> 0..MaxRepeats]
  <2>1. worker[w].used \in [Requests -> 0..MaxRepeats]
    BY <1>0 DEF WorkerShape
  <2> QED
    BY <1>1, <2>1 DEF Keys
<1>3. worker' = [worker EXCEPT ![w] = q]
  BY <1>0, <1>1 DEF Types, WorkerShape
<1> HIDE DEF key, used, rest
<1>4. /\ q \in WorkerShape(q.replay) /\ q.at = "record" /\ q.key = key
      /\ q.fence = worker[w].fence /\ q.rules = worker[w].rules
  BY <1>0, <1>2 DEF WorkerShape, Places
<1> HIDE DEF q
<1>5. Others(w) /\ worker'[w] = q
  BY <1>0, <1>3 DEF Types, Others
<1>6. UNCHANGED <<policy, rules, effect, run, answering, told, ran>>
  BY DEF Call, World
<1>7. Informed(w)'
  BY <1>0, <1>4, <1>5, <1>6 DEF Local, Informed, Loaded, Leases
<1>8. Local(w)'
  BY <1>2, <1>4, <1>5, <1>7 DEF Local, Shaped, Placed, Asking, HasKey, Key, At
<1> QED
  BY <1>4, <1>5, <1>6, <1>8, Move DEF At

LEMMA RecordStep == ASSUME Inv, NEW w \in Workers, RecordEffect(w) PROVE Inv'
<1>0. /\ Types /\ Local(w) /\ worker[w].at = "record" /\ Key(w) \in Keys
      /\ worker[w] \in WorkerShape(worker[w].replay) /\ effect[Key(w)] \in EffectStatus
  BY DEF Inv, Types, RecordEffect, At, Local, Shaped, HasKey
<1> DEFINE place == IF effect[Key(w)] = "none" THEN "create" ELSE "gate"
           q == [worker[w] EXCEPT !.at = place, !.seen = effect[Key(w)]]
<1>1. worker' = [worker EXCEPT ![w] = q]
  BY <1>0 DEF RecordEffect, Types, WorkerShape
<1>2. /\ q \in WorkerShape(q.replay) /\ q.at = place /\ q.seen = effect[Key(w)]
      /\ q.key = worker[w].key /\ q.fence = worker[w].fence /\ q.rules = worker[w].rules
  BY <1>0 DEF WorkerShape, Places
<1> HIDE DEF q
<1>3. Others(w) /\ worker'[w] = q
  BY <1>0, <1>1 DEF Types, Others
<1>4. UNCHANGED <<policy, rules, effect, run, answering, told, ran>>
  BY DEF RecordEffect, World
<1>5. Informed(w)'
  BY <1>0, <1>2, <1>3, <1>4 DEF Local, Informed, Loaded, Leases
<1>6. Local(w)'
  BY <1>0, <1>2, <1>3, <1>4, <1>5
     DEF Local, Shaped, Placed, Asking, HasKey, Key, At, Undecided, EffectStatus
<1> QED
  BY <1>2, <1>3, <1>4, <1>6, Move DEF At

\* A call that goes on with its key, to a place that asks for nothing more than it knows.
LEMMA GoToIsLocal ==
  ASSUME Inv, NEW w \in Workers, HasKey(w), NEW place \in Places \ {"idle", "load"},
         GoTo(w, place), UNCHANGED <<policy, rules, run>>, Placed(w)', Asking(w)'
  PROVE  Others(w) /\ Local(w)' /\ worker'[w].at = place /\ Key(w)' = Key(w)
<1>0. Types /\ Local(w) /\ Key(w) \in Keys
  BY DEF Inv, Local, Shaped
<1>1. /\ Others(w) /\ worker'[w] \in WorkerShape(worker'[w].replay)
      /\ worker'[w].at = place /\ worker'[w].key = worker[w].key
      /\ worker'[w].fence = worker[w].fence /\ worker'[w].rules = worker[w].rules
  BY <1>0, GoToWorker DEF Local
<1>2. Informed(w)'
  BY <1>0, <1>1 DEF Local, Informed, Loaded, HasKey, Leases
<1> QED
  BY <1>0, <1>1, <1>2 DEF Local, Shaped, HasKey, Key

LEMMA CreateStep == ASSUME Inv, NEW w \in Workers, CreateEffect(w) PROVE Inv'
<1>0. /\ Types /\ Local(w) /\ worker[w].at = "create" /\ HasKey(w) /\ Loaded(w) /\ Key(w) \in Keys
      /\ worker[w].seen = "none"
  BY DEF Inv, CreateEffect, At, Local, Shaped, HasKey, Loaded, Placed
<1>1. UNCHANGED <<policy, rules, run, answering, told, ran>>
  BY DEF CreateEffect, World
<1>2. CASE /\ effect[Key(w)] = "none" /\ GoTo(w, "gate")
           /\ effect' = [effect EXCEPT ![Key(w)] = "intended"]
  <2>1. "gate" \in Places \ {"idle", "load"} /\ "intended" \in EffectStatus
    BY DEF Places, EffectStatus
  <2>2. worker'[w].at = "gate" /\ worker'[w].key = worker[w].key
    BY <1>0, <1>2, <2>1, GoToWorker DEF Local
  <2>3. effect'[Key(w)] = "intended"
    BY <1>0, <1>2 DEF Types
  <2>4. Placed(w)' /\ Asking(w)'
    BY <2>2, <2>3 DEF Placed, Asking, At, Key
  <2>5. Others(w) /\ Local(w)'
    BY <1>0, <1>1, <1>2, <2>1, <2>4, GoToIsLocal
  <2>6. Settles(Key(w), "intended")
    BY <1>2 DEF Settles
  <2> QED
    BY <1>0, <1>1, <1>2, <2>1, <2>2, <2>5, <2>6, SettleStep DEF At
<1>3. CASE Return(w) /\ UNCHANGED effect
  BY <1>0, <1>1, <1>3, ReturnStep
<1> QED
  BY <1>2, <1>3 DEF CreateEffect

LEMMA GateStep == ASSUME Inv, NEW w \in Workers, Gate(w) PROVE Inv'
<1>0. /\ Types /\ Local(w) /\ worker[w].at = "gate" /\ HasKey(w) /\ Loaded(w) /\ Key(w) \in Keys
      /\ worker[w].seen \in EffectStatus
  BY DEF Inv, Gate, At, Local, Shaped, HasKey, Loaded, WorkerShape
<1>1. UNCHANGED <<policy, rules, effect, run, answering, told, ran>>
  BY DEF Gate, World
<1> DEFINE place == AfterGate(w)
<1>2. CASE place = "think"
  BY <1>0, <1>1, <1>2, ReturnStep DEF Gate
<1>3. CASE place # "think"
  <2>1. /\ place \in {"settle", "claim", "pause", "execute"}
        /\ place = "pause" => Undecided(w) /\ NeedsApproval(w)
        /\ place = "claim" =>
             worker[w].seen = "approved" \/ (Undecided(w) /\ ~NeedsApproval(w))
        /\ place = "execute" => ~Consequential(Key(w)[1]) /\ ~NeedsApproval(w)
    <3>1. place # "think"
      BY <1>3
    <3>2. CASE worker[w].seen = "executing"
      <4>1. place = "settle"
        BY <3>2 DEF AfterGate, Settled
      <4> QED
        BY <4>1
    <3>3. CASE worker[w].seen = "approved"
      <4>1. place = "claim"
        BY <3>3 DEF AfterGate, Settled
      <4> QED
        BY <4>1, <3>3
    <3>4. CASE Undecided(w) /\ NeedsApproval(w)
      <4>1. place = "pause"
        BY <3>4 DEF AfterGate, Settled, Undecided
      <4> QED
        BY <4>1, <3>4
    <3>5. CASE worker[w].seen = "intended" /\ ~NeedsApproval(w)
      <4>1. place = "claim"
        BY <3>5 DEF AfterGate, Settled
      <4> QED
        BY <4>1, <3>5 DEF Undecided
    <3>6. CASE worker[w].seen = "none" /\ ~NeedsApproval(w)
      <4>1. place = IF Consequential(Key(w)[1]) THEN "claim" ELSE "execute"
        BY <3>6 DEF AfterGate, Settled
      <4> QED
        BY <4>1, <3>6 DEF Undecided
    <3>7. worker[w].seen \notin Settled
      BY <3>1 DEF AfterGate, Settled
    <3> QED
      BY <1>0, <3>2, <3>3, <3>4, <3>5, <3>6, <3>7 DEF Settled, EffectStatus, Undecided
  <2>2. place \in Places \ {"idle", "load"}
    BY <2>1 DEF Places
  <2>3. GoTo(w, place)
    BY <1>3 DEF Gate
  <2> HIDE DEF place
  <2>4. /\ worker'[w].at = place /\ worker'[w].key = worker[w].key
        /\ worker'[w].seen = worker[w].seen /\ worker'[w].rules = worker[w].rules
        /\ worker'[w].fence = worker[w].fence
    BY <1>0, <2>2, <2>3, GoToWorker DEF Local
  <2>5. /\ NeedsApproval(w)' = NeedsApproval(w) /\ Undecided(w)' = Undecided(w)
        /\ Consequential(Key(w)[1])' = Consequential(Key(w)[1]) /\ Leases(w)' = Leases(w)
    BY <1>1, <2>4 DEF NeedsApproval, Asks, KindOf, Key, Undecided, Consequential, Leases
  <2>6. Placed(w)'
    BY <2>1, <2>4, <2>5 DEF Placed, At
  <2>7. Asking(w)'
    BY <1>0, <1>1, <2>4, <2>5 DEF Local, Asking, Key
  <2>8. Others(w) /\ Local(w)' /\ Key(w)' = Key(w)
    BY <1>0, <1>1, <2>2, <2>3, <2>6, <2>7, GoToIsLocal
  <2>9. place = "execute" => ~Guarded(Key(w))
    BY <1>0, <2>1, Unclaimed
  <2>10. At(w, "execute")' => ~Guarded(Key(w)')
    BY <1>1, <2>4, <2>8, <2>9 DEF At, Guarded, Consequential, KindOf
  <2> QED
    BY <1>1, <2>8, <2>10, Move
<1> QED
  BY <1>2, <1>3

LEMMA SettleEffectStep == ASSUME Inv, NEW w \in Workers, Settle(w) PROVE Inv'
<1>0. /\ effect \in [Keys -> EffectStatus] /\ Local(w) /\ Loaded(w) /\ Key(w) \in Keys
  BY DEF Inv, Types, Settle, At, Local, Shaped, HasKey, Loaded
<1>1. UNCHANGED <<policy, rules, run, answering, told, ran>> /\ Return(w)
  BY DEF Settle, World
<1>2. Others(w) /\ Local(w)' /\ worker'[w].at = "think"
  BY <1>0, <1>1, ReturnIsLocal
<1>3. CASE effect[Key(w)] = "executing"
  <2>1. effect' = [effect EXCEPT ![Key(w)] = "uncertain"]
    BY <1>3 DEF Settle
  <2>2. Settles(Key(w), "uncertain") /\ "uncertain" \in EffectStatus
    BY <1>3 DEF Settles, EffectStatus
  <2> QED
    BY <1>0, <1>1, <1>2, <2>1, <2>2, SettleStep DEF At
<1>4. CASE effect[Key(w)] # "executing"
  <2>1. effect' = effect
    BY <1>0, <1>4 DEF Settle
  <2> QED
    BY <1>0, <1>1, <2>1, ReturnStep
<1> QED
  BY <1>3, <1>4

\* The worker that wins a claim.
LEMMA ClaimIsLocal ==
  ASSUME Inv, NEW w \in Workers, HasKey(w), UNCHANGED <<policy, rules, run>>,
         worker' = [worker EXCEPT ![w].at = "execute", ![w].claimed = TRUE]
  PROVE  Others(w) /\ Local(w)' /\ worker'[w].at = "execute" /\ Key(w)' = Key(w)
<1>0. Types /\ Local(w) /\ Key(w) \in Keys /\ worker[w] \in WorkerShape(worker[w].replay)
  BY DEF Inv, Local, Shaped
<1> DEFINE q == [worker[w] EXCEPT !.at = "execute", !.claimed = TRUE]
<1>1. worker' = [worker EXCEPT ![w] = q]
  BY <1>0 DEF Types, WorkerShape
<1>2. /\ q \in WorkerShape(q.replay) /\ q.at = "execute" /\ q.claimed = TRUE
      /\ q.key = worker[w].key /\ q.fence = worker[w].fence /\ q.rules = worker[w].rules
  BY <1>0 DEF WorkerShape, Places
<1> HIDE DEF q
<1>3. Others(w) /\ worker'[w] = q
  BY <1>0, <1>1 DEF Types, Others
<1>4. Informed(w)'
  BY <1>0, <1>2, <1>3 DEF Local, Informed, Loaded, HasKey, Leases
<1> QED
  BY <1>0, <1>2, <1>3, <1>4 DEF Local, Shaped, Placed, Asking, HasKey, Key, At

LEMMA ClaimStep == ASSUME Inv, NEW w \in Workers, ClaimEffect(w) PROVE Inv'
<1>0. /\ Local(w) /\ worker[w].at = "claim" /\ HasKey(w) /\ Loaded(w) /\ Key(w) \in Keys
      /\ worker[w].seen = "approved" \/ (Undecided(w) /\ ~NeedsApproval(w))
  BY DEF Inv, ClaimEffect, At, Local, Shaped, HasKey, Loaded, Placed
<1>1. UNCHANGED <<policy, rules, run, answering, told, ran>>
  BY DEF ClaimEffect, World
<1>2. CASE /\ Claimable(w) /\ effect' = [effect EXCEPT ![Key(w)] = "executing"]
           /\ worker' = [worker EXCEPT ![w].at = "execute", ![w].claimed = TRUE]
  <2>1. Others(w) /\ Local(w)' /\ worker'[w].at = "execute" /\ Key(w)' = Key(w)
    BY <1>0, <1>1, <1>2, ClaimIsLocal
  <2>2. ~NeedsApproval(w) => ~Asks(Key(w)[1], rules[ToolOf[Key(w)[1]]])
    BY <1>0, KnownAsks
  <2>3. Settles(Key(w), "executing")
    BY <1>0, <1>2, <2>2 DEF Settles, Claimable, Undecided
  <2>4. "executing" \in EffectStatus
    BY DEF EffectStatus
  <2> QED
    BY <1>0, <1>1, <1>2, <2>1, <2>3, <2>4, SettleStep
<1>3. CASE UNCHANGED effect /\ GoTo(w, "settle")
  <2>1. "settle" \in Places \ {"idle", "load"}
    BY DEF Places
  <2>2. worker'[w].at = "settle"
    BY <1>0, <1>3, <2>1, GoToWorker DEF Inv, Local
  <2>3. Placed(w)' /\ Asking(w)'
    BY <2>2 DEF Placed, Asking, At
  <2>4. Others(w) /\ Local(w)'
    BY <1>0, <1>1, <1>3, <2>1, <2>3, GoToIsLocal
  <2> QED
    BY <1>1, <1>3, <2>2, <2>4, Move DEF At
<1>4. CASE UNCHANGED effect /\ Return(w)
  BY <1>0, <1>1, <1>4, ReturnStep
<1> QED
  BY <1>2, <1>3, <1>4 DEF ClaimEffect

LEMMA CompleteStep == ASSUME Inv, NEW w \in Workers, CompleteEffect(w) PROVE Inv'
<1> DEFINE k == Key(w)
           expected == IF worker[w].claimed THEN "executing" ELSE "intended"
<1>0. /\ effect \in [Keys -> EffectStatus] /\ Local(w) /\ Loaded(w) /\ k \in Keys
      /\ worker[w].at = "complete"
  BY DEF Inv, Types, CompleteEffect, At, Local, Shaped, HasKey, Loaded
<1>1. /\ UNCHANGED <<policy, rules, run, answering, told, ran>> /\ Return(w)
      /\ effect' = [effect EXCEPT ![k] = IF @ = expected THEN "completed" ELSE @]
  BY DEF CompleteEffect, World
<1>2. Others(w) /\ Local(w)' /\ worker'[w].at = "think"
  BY <1>0, <1>1, ReturnIsLocal
<1>3. CASE effect[k] = expected
  <2>1. effect' = [effect EXCEPT ![k] = "completed"]
    BY <1>1, <1>3
  <2>2. Settles(k, "completed")
    <3>1. CASE worker[w].claimed
      BY <1>3, <3>1 DEF Settles
    <3>2. CASE ~worker[w].claimed
      <4>1. ~Guarded(k) /\ ~Asks(k[1], rules[ToolOf[k[1]]])
        BY <1>0, <3>2, Unclaimed DEF Local, Placed, At
      <4> QED
        BY <1>3, <3>2, <4>1 DEF Settles
    <3> QED
      BY <3>1, <3>2
  <2>3. "completed" \in EffectStatus
    BY DEF EffectStatus
  <2> QED
    BY <1>0, <1>1, <1>2, <2>1, <2>2, <2>3, SettleStep DEF At
<1>4. CASE effect[k] # expected
  <2>1. effect' = effect
    BY <1>0, <1>1, <1>4
  <2> QED
    BY <1>0, <1>1, <2>1, ReturnStep
<1> QED
  BY <1>3, <1>4

\* Who takes a guarded action is the one that claimed it, and takes it for the first time.
LEMMA ExecuteStep == ASSUME Inv, NEW w \in Workers, Execute(w) PROVE Inv'
<1> DEFINE k == Key(w)
<1>0. /\ Types /\ Local(w) /\ worker[w].at = "execute" /\ HasKey(w) /\ k \in Keys
  BY DEF Inv, Execute, At, Local, Shaped, HasKey
<1>1. /\ UNCHANGED <<policy, rules, effect, run, answering, told>>
      /\ ran' = [ran EXCEPT ![k] = @ + 1] /\ GoTo(w, "complete")
  BY DEF Execute, World
<1>2. "complete" \in Places \ {"idle", "load"}
  BY DEF Places
<1>3. /\ worker'[w].at = "complete" /\ worker'[w].key = worker[w].key
      /\ worker'[w].claimed = worker[w].claimed /\ worker'[w].rules = worker[w].rules
  BY <1>0, <1>1, <1>2, GoToWorker DEF Local
<1>4. Placed(w)' /\ Asking(w)'
  BY <1>0, <1>1, <1>3 DEF Local, Placed, Asking, At, Key, NeedsApproval, Asks, KindOf, Consequential
<1>5. Others(w) /\ Local(w)'
  BY <1>0, <1>1, <1>2, <1>4, GoToIsLocal
<1>6. Types' /\ CardInv'
  BY <1>0, <1>1, <1>5 DEF Inv, Types, Others, CardInv, Asks, KindOf
<1>7. ASSUME NEW v \in Workers PROVE Local(v)'
  BY <1>1, <1>5, OthersAreLocal
<1>8. ASSUME NEW j \in Keys PROVE Taken(j)' /\ Said(j)'
  <2>1. Guarded(j)' = Guarded(j)
    BY <1>1 DEF Guarded, Consequential, KindOf
  <2>2. Said(j)'
    BY <1>1, <2>1 DEF Inv, Said, Asks, KindOf
  <2>3. Taken(j) /\ ran \in [Keys -> Nat]
    BY <1>0 DEF Inv, Types
  <2>4. \A v \in Workers : At(v, "execute")' /\ Key(v)' = j =>
          At(v, "execute") /\ Key(v) = j /\ v # w
    BY <1>3, <1>5 DEF Others, At, Key
  <2>5. CASE j # k
    <3>1. ran'[j] = ran[j]
      BY <1>0, <1>1, <2>3, <2>5
    <3> QED
      BY <1>1, <2>1, <2>2, <2>3, <2>4, <3>1 DEF Taken
  <2>6. CASE j = k /\ Guarded(j)
    <3>1. effect[j] \notin Untaken /\ ran[j] # 1 /\ ran[j] <= 1
      BY <1>0, <2>3, <2>6 DEF Taken, At
    <3>2. ran'[j] = 1
      BY <1>0, <1>1, <2>3, <2>6, <3>1
    <3>3. \A v \in Workers : At(v, "execute")' => Key(v)' # j
      BY <1>0, <2>3, <2>4, <2>6 DEF Taken, At
    <3> QED
      BY <1>1, <2>2, <3>1, <3>2, <3>3 DEF Taken
  <2>7. CASE ~Guarded(j)
    BY <2>1, <2>2, <2>7 DEF Taken
  <2> QED
    BY <2>5, <2>6, <2>7
<1> QED
  BY <1>6, <1>7, <1>8 DEF Inv

-----------------------------------------------------------------------------
(* The run and the user *)

\* The run moves; who leased it has left, or leases it no more.
LEMMA RunStep ==
  ASSUME Inv, UNCHANGED <<policy, rules, effect, answering, told, ran>>,
         run' \in RunShape, run'.fence >= run.fence, CardInv',
         worker' = [v \in Workers |-> worker'[v]],
         \A v \in Workers : \/ worker'[v] = worker[v] /\ ~Leases(v)'
                            \/ Local(v)' /\ ~At(v, "execute")'
  PROVE  Inv'
<1>0. run.fence \in Nat /\ run'.fence \in Nat
  BY DEF Inv, Types, RunShape
<1>1. Types'
  BY DEF Inv, Types
<1>2. ASSUME NEW v \in Workers PROVE Local(v)'
  <2>1. CASE worker'[v] = worker[v] /\ ~Leases(v)'
    <3>1. Local(v)
      BY DEF Inv
    <3>2. Shaped(v)' /\ Placed(v)' /\ Asking(v)'
      BY <2>1, <3>1 DEF Local, Shaped, Placed, HasKey, Key, At, Undecided, NeedsApproval,
                        Asks, KindOf, Consequential, Asking
    <3>3. worker[v].fence \in Nat
      BY <3>1 DEF Local, Shaped, WorkerShape
    <3>4. Informed(v)'
      BY <1>0, <2>1, <3>1, <3>3 DEF Local, Informed, Loaded
    <3> QED
      BY <3>2, <3>4 DEF Local
  <2> QED
    BY <2>1
<1>3. ASSUME NEW k \in Keys PROVE Taken(k)' /\ Said(k)'
  <2>1. Guarded(k)' = Guarded(k)
    BY DEF Guarded, Consequential, KindOf
  <2>2. Said(k)'
    BY <2>1 DEF Inv, Said, Asks, KindOf
  <2>3. \A v \in Workers : At(v, "execute")' => At(v, "execute") /\ Key(v)' = Key(v)
    BY DEF At, Key
  <2>4. Taken(k)'
    <3>1. Taken(k)
      BY DEF Inv
    <3>2. \A v \in Workers : At(v, "execute")' /\ Key(v)' = k => At(v, "execute") /\ Key(v) = k
      BY <2>3
    <3> QED
      BY <2>1, <3>1, <3>2 DEF Taken
  <2> QED
    BY <2>2, <2>4
<1> QED
  BY <1>1, <1>2, <1>3 DEF Inv

\* A worker that leaves.
LEMMA ExitIsLocal ==
  ASSUME Inv, NEW w \in Workers, Exit(w), run' \in RunShape
  PROVE  Others(w) /\ Local(w)' /\ worker'[w].at = "idle"
<1>1. /\ Others(w) /\ worker'[w] \in WorkerShape(worker'[w].replay)
      /\ worker'[w].at = "idle" /\ worker'[w].fence = 0
  BY ExitWorker DEF Inv
<1>2. run'.fence \in Nat
  BY DEF RunShape
<1> QED
  BY <1>1, <1>2 DEF Local, Shaped, Informed, Placed, Asking, HasKey, Loaded, At

\* The attempt that leases the run lets it go.
LEMMA LeaveStep ==
  ASSUME Inv, NEW w \in Workers, Exit(w),
         UNCHANGED <<policy, rules, effect, answering, told, ran>>,
         run' \in RunShape, run'.fence = run.fence, run'.status # "running", CardInv'
  PROVE  Inv'
<1>1. Others(w) /\ Local(w)' /\ worker'[w].at = "idle"
  BY ExitIsLocal
<1>2. \A v \in Workers : ~Leases(v)'
  BY DEF Leases
<1>3. run'.fence >= run.fence
  BY DEF Inv, Types, RunShape
<1> QED
  BY <1>1, <1>2, <1>3, RunStep DEF Others, At

LEMMA PauseStep == ASSUME Inv, NEW w \in Workers, PauseForApproval(w) PROVE Inv'
<1>0. /\ Types /\ Local(w) /\ worker[w].at = "pause" /\ Loaded(w) /\ Key(w) \in Keys
      /\ run \in RunShape
  BY DEF Inv, Types, PauseForApproval, At, Local, Shaped, HasKey, Loaded
<1>1. UNCHANGED <<policy, rules, effect, answering, told, ran>> /\ Exit(w)
  BY DEF PauseForApproval, World
<1>2. CASE Leases(w)
  <2>1. run' = [run EXCEPT !.status = "waiting_input", !.card = Key(w)]
    BY <1>2 DEF PauseForApproval, MayPause
  <2>2. /\ run' \in RunShape /\ run'.fence = run.fence
        /\ run'.status = "waiting_input" /\ run'.card = Key(w)
    BY <1>0, <2>1 DEF RunShape
  <2>3. Undecided(w) /\ NeedsApproval(w)
    BY <1>0 DEF Local, Placed, At
  <2>4. effect[Key(w)] = "intended"
    BY <1>0, <1>2, <2>3 DEF Local, Asking
  <2>5. Asks(Key(w)[1], rules[ToolOf[Key(w)[1]]])
    BY <1>0, <1>2, <2>3 DEF Local, Informed, NeedsApproval
  <2>6. CardInv'
    BY <1>0, <1>1, <2>2, <2>4, <2>5 DEF CardInv, Asks, KindOf
  <2> QED
    BY <1>1, <2>2, <2>6, LeaveStep
<1>3. CASE ~Leases(w)
  <2>1. run' = run
    BY <1>3 DEF PauseForApproval, MayPause
  <2> QED
    BY <1>1, <2>1, ExitStep
<1> QED
  BY <1>2, <1>3

LEMMA EndTurnStep == ASSUME Inv, NEW w \in Workers, EndTurn(w) PROVE Inv'
<1>0. run \in RunShape
  BY DEF Inv, Types
<1>1. UNCHANGED <<policy, rules, effect, answering, told, ran>> /\ Exit(w)
  BY DEF EndTurn, World
<1>2. CASE Leases(w)
  <2>1. PICK status \in {"completed", "failed"} : run' = [run EXCEPT !.status = status]
    BY <1>2 DEF EndTurn
  <2>2. run' \in RunShape /\ run'.fence = run.fence /\ run'.status = status
    BY <1>0, <2>1 DEF RunShape
  <2> QED
    BY <1>1, <2>2, LeaveStep DEF CardInv
<1>3. CASE ~Leases(w)
  <2>1. run' = run
    BY <1>3 DEF EndTurn
  <2> QED
    BY <1>1, <2>1, ExitStep
<1> QED
  BY <1>2, <1>3

LEMMA StopAttemptStep == ASSUME Inv, NEW w \in Workers, StopAttempt(w) PROVE Inv'
  BY ExitStep DEF StopAttempt, World

LEMMA StartStep == ASSUME Inv, NEW w \in Workers, StartAttempt(w) PROVE Inv'
<1>0. /\ Types /\ Local(w) /\ worker[w].at = "idle" /\ run \in RunShape /\ run.fence \in Nat
      /\ worker[w] \in WorkerShape(worker[w].replay)
  BY DEF Inv, Types, RunShape, StartAttempt, At, Local, Shaped
<1>1. UNCHANGED <<policy, rules, effect, answering, told, ran>>
  BY DEF StartAttempt, World
<1>2. /\ run' \in RunShape /\ run'.status = "running" /\ run'.fence = run.fence + 1
  <2>1. run' = [run EXCEPT !.status = "running", !.fence = @ + 1, !.card = <<>>]
    BY DEF StartAttempt
  <2>2. run.fence + 1 \in Nat
    BY <1>0
  <2> QED
    BY <1>0, <2>1, <2>2 DEF RunShape
<1> DEFINE next == run.fence + 1
           q == [worker[w] EXCEPT !.at = "load", !.fence = next]
<1>3. worker' = [worker EXCEPT ![w] = q]
  BY <1>0 DEF StartAttempt, Types, WorkerShape
<1>4. q \in WorkerShape(q.replay) /\ q.at = "load" /\ q.fence = run.fence + 1
  <2>1. next \in Nat
    BY <1>0
  <2> HIDE DEF next
  <2>2. q \in WorkerShape(q.replay) /\ q.at = "load" /\ q.fence = next
    BY <1>0, <2>1 DEF WorkerShape, Places
  <2> QED
    BY <2>2 DEF next
<1> HIDE DEF q
<1>5. Others(w) /\ worker'[w] = q
  BY <1>0, <1>3 DEF Types, Others
<1>6. Local(w)'
  BY <1>0, <1>2, <1>4, <1>5 DEF Local, Shaped, Informed, Placed, Asking, HasKey, Loaded, At
<1>7. ASSUME NEW v \in Workers, v # w PROVE worker'[v] = worker[v] /\ ~Leases(v)'
  <2>1. worker'[v] = worker[v] /\ worker[v].fence \in Nat /\ worker[v].fence <= run.fence
    BY <1>5, <1>7 DEF Others, Inv, Local, Shaped, Informed, WorkerShape
  <2> QED
    BY <1>0, <1>2, <2>1 DEF Leases
<1>8. CardInv' /\ run'.fence >= run.fence
  BY <1>0, <1>2 DEF CardInv
<1>9. \A v \in Workers : \/ worker'[v] = worker[v] /\ ~Leases(v)'
                         \/ Local(v)' /\ ~At(v, "execute")'
  BY <1>4, <1>5, <1>6, <1>7 DEF At
<1> QED
  BY <1>1, <1>2, <1>5, <1>8, <1>9, RunStep DEF Others

LEMMA StopRunStep == ASSUME Inv, StopRun PROVE Inv'
<1>0. run \in RunShape /\ run.fence \in Nat /\ worker = [v \in Workers |-> worker[v]]
  BY DEF Inv, Types, RunShape
<1>1. UNCHANGED <<policy, rules, effect, answering, told, ran, worker>>
  BY DEF StopRun, World
<1>2. run' \in RunShape /\ run'.fence = run.fence /\ run'.status = "cancelled"
  BY <1>0 DEF StopRun, RunShape
<1>3. CardInv' /\ run'.fence >= run.fence
  BY <1>0, <1>2 DEF CardInv
<1>4. \A v \in Workers : worker'[v] = worker[v] /\ ~Leases(v)'
  BY <1>1, <1>2 DEF Leases
<1> QED
  BY <1>0, <1>1, <1>2, <1>3, <1>4, RunStep

\* What the user is about to say touches nothing yet.
LEMMA AnsweringStep ==
  ASSUME Inv, UNCHANGED <<policy, rules, effect, run, worker, told, ran>>,
         answering' \in Answers \union {"none"}
  PROVE  Inv'
<1>1. Types' /\ CardInv'
  BY DEF Inv, Types, CardInv, Asks, KindOf
<1>2. ASSUME NEW v \in Workers PROVE Local(v)'
  BY DEF Inv, Local, Shaped, Informed, Placed, Asking, HasKey, Key, Loaded, Leases, At,
         Undecided, NeedsApproval, Asks, KindOf, Consequential
<1>3. ASSUME NEW k \in Keys PROVE Taken(k)' /\ Said(k)'
  BY DEF Inv, Taken, Said, Guarded, Consequential, Asks, KindOf, At, Key
<1> QED
  BY <1>1, <1>2, <1>3 DEF Inv

\* The row that the card names is undecided: what the user says of it is all there is.
LEMMA AnswerStep == ASSUME Inv, AnswerCommit PROVE Inv'
<1> DEFINE k == run.card
           said == IF answering = "deny" THEN "denied" ELSE "approved"
<1>1. CASE run.status # "waiting_input"
  BY <1>1, AnsweringStep DEF AnswerCommit
<1>2. CASE run.status = "waiting_input"
  <2>0. /\ Types /\ run \in RunShape /\ k \in Keys /\ effect[k] = "intended"
        /\ Asks(k[1], rules[ToolOf[k[1]]])
        /\ rules \in [Tools -> Rules] /\ effect \in [Keys -> EffectStatus]
        /\ told \in [Keys -> {"none", "approved", "denied"}]
    BY <1>2 DEF Inv, Types, CardInv
  <2>1. /\ UNCHANGED <<policy, worker, ran>> /\ answering' = "none"
        /\ run' = [run EXCEPT !.status = "queued", !.card = <<>>]
        /\ effect' = [effect EXCEPT ![k] = said] /\ told' = [told EXCEPT ![k] = said]
        /\ rules' = IF answering = "always"
                      THEN [rules EXCEPT ![ToolOf[k[1]]] = IF @ = "none" THEN "always_allow" ELSE @]
                      ELSE rules
    BY <1>2 DEF AnswerCommit
  <2>2. ToolOf[k[1]] \in Tools
    BY <2>0 DEF Keys
  <2>3. /\ rules' \in [Tools -> Rules]
        /\ \A t \in Tools : rules'[t] = rules[t] \/ (rules[t] = "none" /\ rules'[t] = "always_allow")
    BY <2>0, <2>1, <2>2 DEF Rules
  <2>4. /\ run' \in RunShape /\ run'.status = "queued" /\ run'.fence = run.fence
    BY <2>0, <2>1 DEF RunShape
  <2>5. said \in {"approved", "denied"} /\ said \in EffectStatus
    BY DEF EffectStatus
  <2>6. /\ effect' \in [Keys -> EffectStatus] /\ told' \in [Keys -> {"none", "approved", "denied"}]
        /\ effect'[k] = said /\ told'[k] = said
        /\ \A j \in Keys \ {k} : effect'[j] = effect[j] /\ told'[j] = told[j]
    BY <2>0, <2>1, <2>5
  <2> HIDE DEF k, said
  <2>7. Types' /\ CardInv'
    BY <2>0, <2>1, <2>3, <2>4, <2>6 DEF Types, CardInv
  <2>8. ASSUME NEW v \in Workers PROVE Local(v)'
    <3>1. Local(v) /\ worker'[v] = worker[v] /\ ~Leases(v)'
      BY <2>1, <2>4 DEF Inv, Leases
    <3>2. Shaped(v)' /\ Placed(v)' /\ Asking(v)'
      BY <2>1, <3>1 DEF Local, Shaped, Placed, HasKey, Key, At, Undecided, NeedsApproval,
                        Asks, KindOf, Consequential, Asking
    <3>3. Informed(v)'
      BY <2>1, <2>3, <2>4, <3>1 DEF Local, Informed, Loaded
    <3> QED
      BY <3>2, <3>3 DEF Local
  <2>9. ASSUME NEW j \in Keys PROVE Taken(j)' /\ Said(j)'
    <3>0. ToolOf[j[1]] \in Tools
      BY DEF Keys
    <3>1. Guarded(j)' = Guarded(j)
      BY <2>1, <2>3, <3>0 DEF Guarded, Consequential, KindOf
    <3>2. Asks(j[1], rules[ToolOf[j[1]]])' => Asks(j[1], rules[ToolOf[j[1]]])
      BY <2>1, <2>3, <3>0 DEF Asks, KindOf
    <3>3. Taken(j) /\ Said(j)
      BY DEF Inv
    <3>4. Taken(j)'
      <4>1. effect'[j] \in Untaken <=> effect[j] \in Untaken
        BY <2>0, <2>5, <2>6 DEF Untaken
      <4> QED
        BY <2>1, <3>1, <3>3, <4>1 DEF Taken, At, Key
    <3>5. CASE j # k
      BY <2>6, <3>1, <3>2, <3>3, <3>4, <3>5 DEF Said
    <3>6. CASE j = k
      <4>1. Guarded(k)
        BY <2>0 DEF Guarded, Asks, Consequential
      <4> QED
        BY <2>5, <2>6, <3>1, <3>4, <3>6, <4>1 DEF Said, Untaken
    <3> QED
      BY <3>5, <3>6
  <2> QED
    BY <2>7, <2>8, <2>9 DEF Inv
<1> QED
  BY <1>1, <1>2

LEMMA InvStep == Inv /\ [EffectNext]_effectVars => Inv'
<1> SUFFICES ASSUME Inv, [EffectNext]_effectVars PROVE Inv'
  OBVIOUS
<1>1. ASSUME NEW w \in Workers,
             \/ StartAttempt(w) \/ LoadApproved(w) \/ Call(w) \/ RecordEffect(w) \/ CreateEffect(w)
             \/ Gate(w) \/ Settle(w) \/ ClaimEffect(w) \/ PauseForApproval(w) \/ Execute(w)
             \/ CompleteEffect(w) \/ EndTurn(w) \/ StopAttempt(w)
      PROVE  Inv'
  BY <1>1, StartStep, LoadStep, CallStep, RecordStep, CreateStep, GateStep, SettleEffectStep,
     ClaimStep, PauseStep, ExecuteStep, CompleteStep, EndTurnStep, StopAttemptStep
<1>2. CASE AnswerRead
  BY <1>2, AnsweringStep DEF AnswerRead
<1>3. CASE UNCHANGED effectVars
  BY <1>3, AnsweringStep DEF effectVars, Inv, Types
<1> QED
  BY <1>1, <1>2, <1>3, AnswerStep, StopRunStep DEF EffectNext

\* The inductive invariant holds in every reachable state.
THEOREM AlwaysInv == EffectSpec => []Inv
  BY InitInv, InvStep, PTL DEF EffectSpec

-----------------------------------------------------------------------------
(* The properties *)

\* A consequential action is taken once for its row, whichever attempts meet over it.
THEOREM OnceTaken == EffectSpec => []TakenOnce
<1>1. Inv => TakenOnce
  BY DEF Inv, TakenOnce, Taken, Guarded
<1> QED
  BY <1>1, AlwaysInv, PTL

\* What was denied is never done, and what asks is done only after it was approved.
THEOREM ConsentBeforeTheAct == EffectSpec => []ConsentFirst
<1>1. ASSUME Inv, NEW k \in Keys, ran[k] > 0
      PROVE  told[k] # "denied" /\ (Asks(k[1], rules[ToolOf[k[1]]]) => told[k] = "approved")
  <2>1. Taken(k) /\ Said(k) /\ ran[k] \in Nat
    BY <1>1 DEF Inv, Types
  <2>2. Guarded(k) => effect[k] \notin Untaken
    BY <1>1, <2>1 DEF Taken
  <2>3. Asks(k[1], rules[ToolOf[k[1]]]) => Guarded(k)
    BY DEF Asks, Guarded, Consequential
  <2> QED
    BY <2>1, <2>2, <2>3 DEF Said, Untaken
<1>2. Inv => ConsentFirst
  BY <1>1 DEF ConsentFirst
<1> QED
  BY <1>2, AlwaysInv, PTL

\* The card of a run that waits can be answered: its row is undecided.
THEOREM CardsAreAnswerable == EffectSpec => []CardIsAnswerable
<1>1. Inv => CardIsAnswerable
  BY DEF Inv, CardInv, CardIsAnswerable
<1> QED
  BY <1>1, AlwaysInv, PTL
=============================================================================
