------------------------- MODULE SharedTurns_proofs -------------------------
(***************************************************************************)
(* Proofs about SharedTurns: for any nodes, super-steps, crashes and        *)
(* resumes, an accepted turn was answered from the turns accepted before    *)
(* it, and every generation a crash leaves passes the checks of a resume.   *)
(***************************************************************************)
EXTENDS SharedTurns, FiniteSetTheorems, SequenceTheorems, TLAPS

-----------------------------------------------------------------------------
(* The inductive invariant.                                                  *)

Points == {"idle", "acquire", "released", "parked", "prepare", "agent", "accept", "done",
           "interrupted", "unwind", "error"}

TurnTypes ==
    /\ durable \in BOOLEAN /\ phase \in {"admit", "running", "down", "ended", "refused"}
    /\ step \in 0..MaxStep /\ frontier \subseteq Nodes
    /\ ledger \in [Nodes -> LoopStates]
    /\ saved \in [step : 0..MaxStep, pending : SUBSET Nodes]
    /\ history \in [turns : Seq(Turns), pending : Nodes \cup {None}]
    /\ pc \in [Nodes -> Points]
    /\ saw \in [Visits -> Seq(Turns) \cup {None}] /\ calls \in [Visits -> Nat]
    /\ phase \in {"admit", "running"} => step \in Steps
    /\ \A n \in Nodes : pc[n] # "idle" => phase = "running" /\ n \in frontier

\* A visit that has its finish, one that is prepared, one whose turn is accepted, and a
\* node with nothing left to do.
Finishes(s) == s.finish # None
Waits(s) == s.pending # None
Answered(s) == s.turns # <<>> /\ s.turns[Len(s.turns)].step = s.owner
Settled(s) == ~Waits(s) /\ (s.owner = 0 \/ Finishes(s))

\* h is the turns of all nodes, each at the place its ordinal names.
IsLog(l, h) ==
    /\ h \in Seq(Turns) /\ Range(h) = AllTurns(l)
    /\ \A i \in 1..Len(h) : h[i].ordinal = i - 1

\* The loop state s of node n, in a ledger whose turns are h.
NodeValid(n, s, h) ==
    /\ \A i \in 1..Len(s.turns) :
          /\ s.turns[i].node = n /\ s.turns[i].step <= s.owner
          /\ s.turns[i].output = s.finishes[i]
          /\ s.turns[i].step = s.owner => s.finish = s.turns[i].output
    /\ \A i, j \in 1..Len(s.turns) : i < j => s.turns[i].step < s.turns[j].step
    /\ ~(Waits(s) /\ Finishes(s)) => Len(s.finishes) = Len(s.turns)
    /\ Waits(s) /\ Finishes(s) =>
          Len(s.finishes) = Len(s.turns) + 1 /\ s.finishes[Len(s.turns) + 1] = s.finish
    /\ s.owner = 0 => s.turns = <<>> /\ ~Waits(s) /\ s.iters = 0
    /\ s.start <= s.iters /\ (Finishes(s) => s.start < s.iters)
    /\ s.start < s.iters /\ ~Waits(s) => Answered(s)
    /\ Waits(s) => /\ s.pending = [step |-> s.owner, ordinal |-> Len(h), digest |-> h]
                   /\ ~Answered(s)

LedgerValid(l, h) ==
    /\ IsLog(l, h)
    /\ \A n \in Nodes : NodeValid(n, l[n], h)
    /\ \A m, n \in Nodes : Waits(l[m]) /\ Waits(l[n]) => m = n

\* The ledger and the graph continuation saved with it are of one super-step.
Generation ==
    /\ \A n \in Nodes : ledger[n].owner <= saved.step
    /\ \A n \in saved.pending : ledger[n].owner = saved.step
    /\ \A n \in Nodes \ saved.pending : Settled(ledger[n])
    /\ phase = "running" => saved = [step |-> step, pending |-> frontier]
    /\ phase = "admit" =>
          \/ saved.step < step /\ \A n \in Nodes : Settled(ledger[n])
          \/ saved.step = step /\ saved.pending = frontier
    /\ phase = "down" => step = saved.step /\ frontier = saved.pending

\* What the ledger holds of a visit, by where its call is.
Progress ==
    \A n \in Nodes :
        /\ pc[n] = "agent" => Waits(ledger[n]) \/ Answered(ledger[n])
        /\ pc[n] = "accept" => Finishes(ledger[n])
        /\ pc[n] = "done" => Answered(ledger[n])

Log == SortedTurns(ledger)

\* A visit that waits for its answer was shown the log as it still is.
DurableInv ==
    durable =>
        /\ LedgerValid(ledger, Log) /\ Generation /\ Progress
        /\ phase \in {"admit", "running"} => history.turns = Log
        /\ \A n \in Nodes : Waits(ledger[n]) /\ ledger[n].start < ledger[n].iters =>
              saw[<<n, ledger[n].owner>>] = Log

\* Without a ledger the history lock alone keeps a turn's prefix, and a visit that has
\* answered never asks again.
MemoryInv ==
    ~durable =>
        /\ \A n \in Nodes : pc[n] \in {"prepare", "agent", "accept"} => lock = n
        /\ \A n \in Nodes : pc[n] = "accept" => saw[<<n, step>>] = history.turns
        /\ phase \in {"admit", "running"} =>
              \A i \in 1..Len(history.turns) :
                 \/ history.turns[i].step < step
                 \/ /\ history.turns[i].step = step /\ phase = "running"
                    /\ pc[history.turns[i].node] = "done"

\* Each iteration of the model has left its content in the conversation, those before the
\* visit before its first one; a call waits only in a visit that has not finished.
Said(c, k) == Cardinality({i \in 1..k : c[i]})

TalkOK(s, t) ==
    /\ t.from <= Len(t.contents)
    /\ Said(t.contents, t.from) = s.start
    /\ Said(t.contents, Len(t.contents)) = s.iters
    /\ t.call # 0 => s.start < t.call
    /\ s.owner = 0 \/ Finishes(s) => t.call = 0

TalkInv == durable => talk \in [Nodes -> Talks] /\ \A n \in Nodes : TalkOK(ledger[n], talk[n])

TurnsIInv == TurnTypes /\ DurableInv /\ MemoryInv /\ AnsweredFromItsPrefix

-----------------------------------------------------------------------------
(* The log.                                                                  *)

LEMMA SeqFacts ==
    ASSUME NEW T, NEW h \in Seq(T)
    PROVE  /\ Len(h) \in Nat /\ DOMAIN h = 1..Len(h)
           /\ Range(h) = {h[i] : i \in 1..Len(h)} /\ \A i \in 1..Len(h) : h[i] \in T
           /\ h \in [1..Len(h) -> T]
<1>1. Len(h) \in Nat /\ h \in [1..Len(h) -> T] /\ DOMAIN h = 1..Len(h)
  BY LenProperties
<1>2. Range(h) = {h[i] : i \in 1..Len(h)}
  BY <1>1 DEF Range
<1>3. QED
  BY <1>1, <1>2

\* The ledger's turns, in the order of their ordinals, are the log.
LEMMA SortedIsLog ==
    ASSUME NEW l, NEW h, IsLog(l, h)
    PROVE  SortedTurns(l) = h /\ Cardinality(AllTurns(l)) = Len(h)
<1>1. /\ h \in Seq(Turns) /\ Len(h) \in Nat /\ DOMAIN h = 1..Len(h)
      /\ AllTurns(l) = {h[i] : i \in 1..Len(h)} /\ \A i \in 1..Len(h) : h[i].ordinal = i - 1
  BY SeqFacts DEF IsLog
<1> DEFINE all == AllTurns(l)
           N == 1..Len(h)
<1>2. h \in Bijection(N, all)
  <2>1. h \in [N -> all]
    BY <1>1
  <2>2. \A a, b \in N : h[a] = h[b] => a = b
    <3> SUFFICES ASSUME NEW a \in N, NEW b \in N, h[a] = h[b] PROVE a = b
      OBVIOUS
    <3>1. a - 1 = b - 1
      BY <1>1
    <3>2. QED
      BY <3>1, <1>1
  <2>3. \A t \in all : \E a \in N : h[a] = t
    BY <1>1
  <2>4. QED
    BY <2>1, <2>2, <2>3 DEF Bijection, Injection, Surjection, IsInjective
<1>3. Cardinality(all) = Len(h)
  <2>1. ExistsBijection(N, all)
    BY <1>2 DEF ExistsBijection
  <2>2. QED
    BY <1>1, <2>1, FS_CountingElements
<1>4. \A i \in N : (CHOOSE t \in all : t.ordinal = i - 1) = h[i]
  <2> SUFFICES ASSUME NEW i \in N PROVE (CHOOSE t \in all : t.ordinal = i - 1) = h[i]
    OBVIOUS
  <2>1. h[i] \in all /\ h[i].ordinal = i - 1
    BY <1>1
  <2>2. ASSUME NEW t \in all, t.ordinal = i - 1 PROVE t = h[i]
    <3>1. PICK j \in N : t = h[j]
      BY <1>1
    <3>2. j - 1 = i - 1
      BY <1>1, <2>2, <3>1
    <3>3. QED
      BY <1>1, <3>1, <3>2
  <2>3. QED
    BY <2>1, <2>2
<1>5. SortedTurns(l) = [i \in N |-> h[i]]
  BY <1>3, <1>4 DEF SortedTurns
<1>6. h = [i \in N |-> h[i]]
  BY <1>1, LenProperties
<1>7. QED
  BY <1>3, <1>5, <1>6

LEMMA StateFacts ==
    ASSUME NEW l \in [Nodes -> LoopStates], NEW n \in Nodes
    PROVE  /\ l[n] \in LoopStates
           /\ l[n].owner \in 0..MaxStep /\ l[n].start \in Nat /\ l[n].iters \in Nat
           /\ l[n].finish \in Outputs \cup {None} /\ l[n].pending \in Prepared \cup {None}
           /\ l[n].finishes \in Seq(Outputs) /\ l[n].turns \in Seq(Turns)
           /\ Len(l[n].turns) \in Nat /\ DOMAIN l[n].turns = 1..Len(l[n].turns)
           /\ \A i \in 1..Len(l[n].turns) : l[n].turns[i] \in Turns
           /\ Len(l[n].finishes) \in Nat
<1>1. /\ l[n] \in LoopStates
      /\ l[n].owner \in 0..MaxStep /\ l[n].start \in Nat /\ l[n].iters \in Nat
      /\ l[n].finish \in Outputs \cup {None} /\ l[n].pending \in Prepared \cup {None}
      /\ l[n].finishes \in Seq(Outputs) /\ l[n].turns \in Seq(Turns)
  BY DEF LoopStates
<1>2. QED
  BY <1>1, SeqFacts

\* Every turn of the ledger is kept by its own node.
LEMMA TurnOwner ==
    ASSUME NEW l \in [Nodes -> LoopStates], NEW h, LedgerValid(l, h), NEW t \in AllTurns(l)
    PROVE  /\ t \in Turns /\ t.node \in Nodes
           /\ \E i \in 1..Len(l[t.node].turns) : l[t.node].turns[i] = t
<1>1. PICK n \in Nodes : t \in Range(l[n].turns)
  BY DEF AllTurns
<1>2. PICK i \in 1..Len(l[n].turns) : l[n].turns[i] = t
  BY <1>1, StateFacts DEF Range
<1>3. t \in Turns /\ t.node = n
  BY <1>2, StateFacts DEF LedgerValid, NodeValid
<1>4. QED
  BY <1>2, <1>3

\* A visit is answered exactly if one of its turns is of the owner's step, and then the
\* last one is.
LEMMA AnsweredFacts ==
    ASSUME NEW l \in [Nodes -> LoopStates], NEW h, LedgerValid(l, h), NEW n \in Nodes
    PROVE  /\ AnsweredNow(l, n) <=> Answered(l[n])
           /\ ~Answered(l[n]) => \A i \in 1..Len(l[n].turns) : l[n].turns[i].step < l[n].owner
           /\ Answered(l[n]) =>
                 /\ Len(l[n].turns) \in 1..Len(l[n].turns)
                 /\ l[n].turns[Len(l[n].turns)].output = l[n].finish
                 /\ Finishes(l[n]) /\ ~Waits(l[n]) /\ l[n].owner # 0
<1>1. /\ Len(l[n].turns) \in Nat /\ l[n].turns \in Seq(Turns) /\ l[n].owner \in 0..MaxStep
      /\ \A i \in 1..Len(l[n].turns) : l[n].turns[i] \in Turns
  BY StateFacts
<1>2. AnsweredNow(l, n) <=> Answered(l[n])
  BY DEF AnsweredNow, Answered, Last
<1>3. l[n].turns # <<>> => Len(l[n].turns) \in 1..Len(l[n].turns)
  BY <1>1
<1>4. NodeValid(n, l[n], h)
  BY DEF LedgerValid
<1>5. ASSUME ~Answered(l[n]), NEW i \in 1..Len(l[n].turns) PROVE l[n].turns[i].step < l[n].owner
  <2>1. l[n].turns # <<>>
    BY <1>1
  <2>2. l[n].turns[Len(l[n].turns)].step # l[n].owner
    BY <1>5, <2>1 DEF Answered
  <2>3. /\ l[n].turns[Len(l[n].turns)].step <= l[n].owner
        /\ l[n].turns[i].step <= l[n].owner
        /\ i < Len(l[n].turns) => l[n].turns[i].step < l[n].turns[Len(l[n].turns)].step
    BY <1>3, <1>4, <2>1 DEF NodeValid
  <2>4. /\ l[n].turns[i].step \in Int /\ l[n].turns[Len(l[n].turns)].step \in Int
        /\ l[n].owner \in Int
    <3>1. l[n].turns[i] \in Turns /\ l[n].turns[Len(l[n].turns)] \in Turns
      BY <1>1, <1>3, <2>1
    <3>2. \A t \in Turns : t.step \in Int
      BY SharedAssumption DEF Turns, Steps
    <3>3. QED
      BY <1>1, <3>1, <3>2, SharedAssumption
  <2>5. i = Len(l[n].turns) \/ i < Len(l[n].turns)
    BY <1>1
  <2>6. QED
    BY <2>2, <2>3, <2>4, <2>5
<1>6. ASSUME Answered(l[n])
      PROVE  /\ Len(l[n].turns) \in 1..Len(l[n].turns)
             /\ l[n].turns[Len(l[n].turns)].output = l[n].finish
             /\ Finishes(l[n]) /\ ~Waits(l[n]) /\ l[n].owner # 0
  <2>1. Len(l[n].turns) \in 1..Len(l[n].turns)
    BY <1>3, <1>6 DEF Answered
  <2>2. l[n].turns[Len(l[n].turns)].output = l[n].finish
    BY <1>4, <1>6, <2>1 DEF Answered, NodeValid
  <2>3. l[n].finish \in Outputs
    BY <1>1, <2>1, <2>2 DEF Turns
  <2>4. Finishes(l[n])
    BY <2>3, NoneAssumption DEF Finishes
  <2>5. l[n].owner # 0 /\ ~Waits(l[n])
    BY <1>4, <1>6 DEF NodeValid, Answered
  <2>6. QED
    BY <2>1, <2>2, <2>4, <2>5
<1>7. QED
  BY <1>2, <1>5, <1>6

\* A valid ledger passes the checks of shared::history and shared::validate.
LEMMA ValidPasses ==
    ASSUME NEW l \in [Nodes -> LoopStates], NEW h, LedgerValid(l, h)
    PROVE  HistoryValid(l) /\ ValidateShared(l)
<1>1. /\ SortedTurns(l) = h /\ Cardinality(AllTurns(l)) = Len(h) /\ IsLog(l, h)
      /\ h \in Seq(Turns) /\ Len(h) \in Nat /\ AllTurns(l) = {h[i] : i \in 1..Len(h)}
  BY SortedIsLog, SeqFacts DEF LedgerValid, IsLog
<1>0. Len(h) \in Nat
  BY <1>1
<1>2. TurnsValid(l)
  <2>1. {t.ordinal : t \in AllTurns(l)} = 0..Len(h) - 1
    <3>1. ASSUME NEW k \in 0..Len(h) - 1 PROVE \E t \in AllTurns(l) : t.ordinal = k
      <4>1. k + 1 \in 1..Len(h) /\ (k + 1) - 1 = k
        BY <1>0
      <4>2. h[k + 1].ordinal = k /\ h[k + 1] \in AllTurns(l)
        BY <1>1, <4>1 DEF IsLog
      <4>3. QED
        BY <4>2
    <3>2. ASSUME NEW t \in AllTurns(l) PROVE t.ordinal \in 0..Len(h) - 1
      <4>1. PICK i \in 1..Len(h) : t = h[i]
        BY <1>1
      <4>2. t.ordinal = i - 1
        BY <1>1, <4>1 DEF IsLog
      <4>3. QED
        BY <1>0, <4>2
    <3>3. QED
      BY <3>1, <3>2
  <2>2. ASSUME NEW t \in AllTurns(l)
        PROVE  /\ l[t.node].owner # 0
               /\ t.step <= l[t.node].owner
               /\ t.step = l[t.node].owner => l[t.node].finish = t.output
    <3>1. PICK i \in 1..Len(l[t.node].turns) : l[t.node].turns[i] = t
      BY TurnOwner
    <3>2. t.node \in Nodes /\ t \in Turns
      BY TurnOwner
    <3>3. NodeValid(t.node, l[t.node], h)
      BY <3>2 DEF LedgerValid
    <3>4. t.step \in Steps /\ l[t.node].owner \in Int
      BY <3>2, StateFacts DEF Turns
    <3>5. t.step <= l[t.node].owner /\ (t.step = l[t.node].owner => l[t.node].finish = t.output)
      BY <3>1, <3>3 DEF NodeValid
    <3>6. QED
      BY <3>4, <3>5 DEF Steps
  <2>3. QED
    BY <1>1, <2>1, <2>2 DEF TurnsValid
<1>3. Cardinality(PendingNodes(l)) <= 1
  <2>1. \A m, n \in PendingNodes(l) : m = n
    BY DEF PendingNodes, LedgerValid, Waits
  <2>2. PendingNodes(l) = {} \/ \E n : PendingNodes(l) = {n}
    BY <2>1
  <2>3. Cardinality(PendingNodes(l)) = 0 \/ Cardinality(PendingNodes(l)) = 1
    BY <2>2, FS_EmptySet, FS_Singleton
  <2>4. QED
    BY <2>3
<1>4. ASSUME NEW n \in Nodes PROVE NodeTurnsValid(l, n) /\ PendingValid(l, n, h)
  <2>1. NodeValid(n, l[n], h)
    BY DEF LedgerValid
  <2>2. NodeTurnsValid(l, n)
    <3>1. DOMAIN l[n].turns = 1..Len(l[n].turns) /\ Len(l[n].turns) \in Nat
      BY StateFacts
    <3>2. Len(l[n].finishes) = Len(l[n].turns)
             + IF l[n].pending # None /\ l[n].finish # None THEN 1 ELSE 0
      <4>1. /\ ~(l[n].pending # None /\ l[n].finish # None)
                  => Len(l[n].finishes) = Len(l[n].turns)
            /\ l[n].pending # None /\ l[n].finish # None
                  => Len(l[n].finishes) = Len(l[n].turns) + 1
        BY <2>1 DEF NodeValid, Waits, Finishes
      <4>2. CASE l[n].pending # None /\ l[n].finish # None
        BY <4>1, <4>2
      <4>3. CASE ~(l[n].pending # None /\ l[n].finish # None)
        <5>1. Len(l[n].turns) + 0 = Len(l[n].turns)
          BY <3>1
        <5>2. QED
          BY <4>1, <4>3, <5>1
      <4>4. QED
        BY <4>2, <4>3
    <3>3. /\ \A i \in 1..Len(l[n].turns) :
                l[n].turns[i].node = n /\ l[n].turns[i].output = l[n].finishes[i]
          /\ \A i, j \in 1..Len(l[n].turns) : i < j => l[n].turns[i].step < l[n].turns[j].step
      BY <2>1 DEF NodeValid
    <3>4. QED
      BY <3>1, <3>2, <3>3 DEF NodeTurnsValid
  <2>3. PendingValid(l, n, h)
    <3> SUFFICES ASSUME Waits(l[n]) PROVE PendingValid(l, n, h)
      BY DEF PendingValid, Waits
    <3>1. l[n].pending = [step |-> l[n].owner, ordinal |-> Len(h), digest |-> h]
      BY <2>1 DEF NodeValid
    <3>2. l[n].turns # <<>> => l[n].turns[Len(l[n].turns)].step < l[n].owner
      <4>1. ~Answered(l[n])
        BY <2>1 DEF NodeValid
      <4>2. l[n].turns # <<>> => Len(l[n].turns) \in 1..Len(l[n].turns)
        BY StateFacts
      <4>3. QED
        BY <4>1, <4>2, AnsweredFacts
    <3>3. QED
      BY <3>1, <3>2 DEF PendingValid, Last
  <2>4. QED
    BY <2>2, <2>3
<1>5. HistoryValid(l)
  BY <1>1, <1>2, <1>3, <1>4 DEF HistoryValid
<1>6. ASSUME NEW n \in Nodes, l[n].iters > l[n].start, l[n].pending = None
      PROVE  l[n].turns # <<>> /\ Last(l[n].turns).step = l[n].owner
  BY <1>6, StateFacts DEF LedgerValid, NodeValid, Waits, Answered, Last
<1>7. QED
  BY <1>5, <1>6 DEF ValidateShared

LEMMA AppendRange ==
    ASSUME NEW T, NEW h \in Seq(T), NEW t \in T
    PROVE  Range(Append(h, t)) = Range(h) \cup {t}
<1>1. /\ Append(h, t) \in Seq(T) /\ Len(Append(h, t)) = Len(h) + 1 /\ Len(h) \in Nat
      /\ Append(h, t)[Len(h) + 1] = t /\ \A i \in 1..Len(h) : Append(h, t)[i] = h[i]
  BY AppendProperties
<1>2. Range(Append(h, t)) = {Append(h, t)[i] : i \in 1..Len(h) + 1}
  BY <1>1, SeqFacts
<1>3. Range(h) = {h[i] : i \in 1..Len(h)}
  BY SeqFacts
<1>4. \A i : i \in 1..Len(h) + 1 <=> i \in 1..Len(h) \/ i = Len(h) + 1
  BY <1>1
<1> DEFINE g == Append(h, t)
<1> HIDE DEF g
<1>5. \A x : x \in {g[i] : i \in 1..Len(h) + 1} <=> x \in {g[i] : i \in 1..Len(h)} \cup {g[Len(h) + 1]}
  BY <1>4
<1>6. QED
  BY <1>1, <1>2, <1>3, <1>5 DEF g

LEMMA SameTurns ==
    ASSUME NEW l, NEW k, NEW h, \A n \in Nodes : k[n].turns = l[n].turns
    PROVE  AllTurns(k) = AllTurns(l) /\ (IsLog(k, h) <=> IsLog(l, h))
<1>1. {Range(k[n].turns) : n \in Nodes} = {Range(l[n].turns) : n \in Nodes}
  OBVIOUS
<1>2. AllTurns(k) = AllTurns(l)
  BY <1>1 DEF AllTurns
<1>3. QED
  BY <1>2 DEF IsLog

\* The ledger after a turn is prepared, accepted, or asked of the model.
PreparedLedger(l, n, h) ==
    [l EXCEPT ![n].pending = [step |-> l[n].owner, ordinal |-> Len(h), digest |-> h]]

NewTurn(l, n) == Turn(n, l[n].owner, l[n].pending.ordinal, l[n].finish)

AcceptedLedger(l, n) == [l EXCEPT ![n].pending = None, ![n].turns = Append(@, NewTurn(l, n))]

AskedLedger(l, n, f, fs) == [l EXCEPT ![n].iters = @ + 1, ![n].finish = f, ![n].finishes = fs]

\* prepare_shared: the turn is answered or under way, or its preparation is entered.
LEMMA PrepareFacts ==
    ASSUME NEW l \in [Nodes -> LoopStates], NEW h, LedgerValid(l, h), NEW n \in Nodes, NEW e,
           PrepareShared(l, n, e) # None
    PROVE  \/ PrepareShared(l, n, e) = l /\ (Waits(l[n]) \/ Answered(l[n]))
           \/ /\ PrepareShared(l, n, e) = PreparedLedger(l, n, h)
              /\ l[n].owner # 0 /\ ~Answered(l[n]) /\ \A m \in Nodes : ~Waits(l[m])
<1>1. SortedTurns(l) = h
  BY SortedIsLog DEF LedgerValid
<1>2. e = h /\ l[n].owner # 0
  BY <1>1 DEF PrepareShared
<1>3. CASE AnsweredNow(l, n) \/ l[n].pending # None
  BY <1>3, AnsweredFacts DEF PrepareShared, Waits
<1>4. CASE ~(AnsweredNow(l, n) \/ l[n].pending # None)
  <2>1. PendingNodes(l) = {}
    BY <1>4 DEF PrepareShared
  <2>2. \A m \in Nodes : ~Waits(l[m])
    BY <2>1 DEF PendingNodes, Waits
  <2>3. PrepareShared(l, n, e) = PreparedLedger(l, n, h)
    BY <1>2, <1>4, <2>1 DEF PrepareShared, PreparedLedger
  <2>4. QED
    BY <1>2, <1>4, <2>2, <2>3, AnsweredFacts
<1>5. QED
  BY <1>3, <1>4

LEMMA PreparedValid ==
    ASSUME NEW l \in [Nodes -> LoopStates], NEW h, LedgerValid(l, h), NEW n \in Nodes, NEW k,
           l[n].owner # 0, ~Answered(l[n]), \A m \in Nodes : ~Waits(l[m]),
           k = PreparedLedger(l, n, h)
    PROVE  /\ k \in [Nodes -> LoopStates] /\ LedgerValid(k, h)
           /\ \A m \in Nodes : m # n => k[m] = l[m]
           /\ Waits(k[n]) /\ ~Finishes(k[n]) /\ k[n].start = k[n].iters /\ ~Answered(k[n])
           /\ k[n].owner = l[n].owner /\ k[n].finish = l[n].finish
<1> DEFINE p == [step |-> l[n].owner, ordinal |-> Len(h), digest |-> h]
<1>0. k = [l EXCEPT ![n].pending = p]
  BY DEF PreparedLedger
<1>1. h \in Seq(Turns) /\ Len(h) \in Nat
  BY DEF LedgerValid, IsLog
<1>2. p \in Prepared
  BY <1>1, StateFacts DEF Prepared, Steps
<1>3. /\ k[n] \in LoopStates /\ k[n].owner = l[n].owner /\ k[n].start = l[n].start
      /\ k[n].iters = l[n].iters /\ k[n].finish = l[n].finish /\ k[n].finishes = l[n].finishes
      /\ k[n].turns = l[n].turns /\ k[n].pending = p
  <2> DEFINE q == l[n]
  <2>1. q \in LoopStates /\ k[n] = [q EXCEPT !.pending = p]
    BY <1>0, StateFacts
  <2> HIDE DEF q, p
  <2>2. /\ k[n] \in LoopStates /\ k[n].owner = q.owner /\ k[n].start = q.start
        /\ k[n].iters = q.iters /\ k[n].finish = q.finish /\ k[n].finishes = q.finishes
        /\ k[n].turns = q.turns /\ k[n].pending = p
    BY <1>2, <2>1 DEF LoopStates
  <2>3. QED
    BY <2>2 DEF q
<1>4. \A m \in Nodes : m # n => k[m] = l[m]
  BY <1>0
<1>5. k \in [Nodes -> LoopStates]
  BY <1>0, <1>3
<1>6. p # None
  BY <1>2, NoneAssumption
<1> HIDE DEF p
<1>7. Waits(k[n]) /\ ~Answered(k[n])
  BY <1>3, <1>6 DEF Waits, Answered
<1>8. NodeValid(n, l[n], h) /\ ~Waits(l[n])
  BY DEF LedgerValid
<1>9. ~Finishes(k[n]) /\ k[n].start = k[n].iters
  <2>1. l[n].start = l[n].iters
    BY <1>8, StateFacts DEF NodeValid
  <2>2. ~Finishes(l[n])
    BY <1>8, <2>1, StateFacts DEF NodeValid
  <2>3. QED
    BY <1>3, <2>1, <2>2 DEF Finishes
<1>10. NodeValid(n, k[n], h)
  <2>1. ~Finishes(l[n])
    BY <1>3, <1>9 DEF Finishes
  <2>2. Len(k[n].finishes) = Len(k[n].turns)
    BY <1>3, <1>8 DEF NodeValid
  <2>3. k[n].pending = [step |-> k[n].owner, ordinal |-> Len(h), digest |-> h]
    BY <1>3 DEF p
  <2>4. k[n].start <= k[n].iters
    BY <1>3, <1>9, StateFacts
  <2>5. QED
    BY <1>3, <1>7, <1>8, <1>9, <2>2, <2>3, <2>4 DEF NodeValid
<1>11. IsLog(k, h)
  BY <1>3, <1>4, SameTurns DEF LedgerValid
<1>12. LedgerValid(k, h)
  BY <1>4, <1>10, <1>11 DEF LedgerValid
<1>13. QED
  BY <1>3, <1>4, <1>5, <1>7, <1>9, <1>12

LEMMA LoopStateTurn ==
    ASSUME NEW s \in LoopStates, NEW q \in Seq(Turns)
    PROVE  [s EXCEPT !.pending = None, !.turns = q] \in LoopStates
BY DEF LoopStates

\* accept_shared: the turn is appended to the log, and the ledger stays valid.
LEMMA AcceptedValid ==
    ASSUME NEW l \in [Nodes -> LoopStates], NEW h, LedgerValid(l, h), NEW n \in Nodes, NEW k, NEW t,
           Waits(l[n]), Finishes(l[n]), t = NewTurn(l, n), k = AcceptedLedger(l, n)
    PROVE  /\ k \in [Nodes -> LoopStates] /\ LedgerValid(k, Append(h, t))
           /\ \A m \in Nodes : m # n => k[m] = l[m]
           /\ \A m \in Nodes : ~Waits(k[m])
           /\ Answered(k[n]) /\ k[n].owner = l[n].owner /\ k[n].finish = l[n].finish
           /\ t \in Turns /\ h \in Seq(Turns)
<1>0. /\ t = Turn(n, l[n].owner, l[n].pending.ordinal, l[n].finish)
      /\ k = [l EXCEPT ![n].pending = None, ![n].turns = Append(@, t)]
  BY DEF NewTurn, AcceptedLedger
<1>1. h \in Seq(Turns) /\ Len(h) \in Nat /\ IsLog(l, h) /\ NodeValid(n, l[n], h)
  BY DEF LedgerValid, IsLog
<1>2. l[n].pending = [step |-> l[n].owner, ordinal |-> Len(h), digest |-> h] /\ ~Answered(l[n])
  BY <1>1 DEF NodeValid
<1>3. l[n].owner \in Steps
  BY <1>1, StateFacts DEF NodeValid, Steps
<1>4. l[n].finish \in Outputs
  BY StateFacts DEF Finishes
<1>5. /\ t \in Turns /\ t.node = n /\ t.step = l[n].owner /\ t.ordinal = Len(h)
      /\ t.output = l[n].finish
  BY <1>0, <1>1, <1>2, <1>3, <1>4 DEF Turn, Turns
<1> DEFINE s == l[n]
           N == Len(l[n].turns)
<1>6. /\ k[n].owner = s.owner /\ k[n].start = s.start
      /\ k[n].iters = s.iters /\ k[n].finish = s.finish /\ k[n].finishes = s.finishes
      /\ k[n].turns = Append(s.turns, t) /\ k[n].pending = None
  BY <1>0, StateFacts DEF LoopStates
<1>7. /\ Append(s.turns, t) \in Seq(Turns) /\ Len(Append(s.turns, t)) = N + 1 /\ N \in Nat
      /\ Append(s.turns, t)[N + 1] = t /\ \A i \in 1..N : Append(s.turns, t)[i] = s.turns[i]
  BY <1>5, StateFacts, AppendProperties
<1>8. k[n] \in LoopStates
  <2> DEFINE turns == Append(s.turns, t)
  <2>1. k[n] = [s EXCEPT !.pending = None, !.turns = turns]
    BY <1>0
  <2>2. s \in LoopStates /\ turns \in Seq(Turns)
    BY <1>7, StateFacts
  <2> HIDE DEF s, turns
  <2>3. QED
    BY <2>1, <2>2, LoopStateTurn
<1>9. \A m \in Nodes : m # n => k[m] = l[m]
  BY <1>0
<1>10. k \in [Nodes -> LoopStates]
  BY <1>0, <1>8
<1>11. Answered(k[n]) /\ ~Waits(k[n])
  <2>1. k[n].turns # <<>> /\ k[n].turns[Len(k[n].turns)] = t
    <3>1. N + 1 # 0
      BY <1>7
    <3>2. Len(k[n].turns) = N + 1
      BY <1>6, <1>7
    <3>3. Len(k[n].turns) # Len(<<>>)
      BY <3>1, <3>2
    <3>4. QED
      BY <1>6, <1>7, <3>2, <3>3
  <2>2. QED
    BY <1>5, <1>6, <2>1 DEF Answered, Waits
<1>12. \A m \in Nodes : ~Waits(k[m])
  BY <1>9, <1>11 DEF LedgerValid
<1>13. NodeValid(n, k[n], Append(h, t))
  <2>1. \A i \in 1..N : s.turns[i].step < s.owner
    BY <1>2, AnsweredFacts
  <2>2. Len(k[n].finishes) = N + 1 /\ s.finishes[N + 1] = s.finish
    BY <1>1, <1>6 DEF NodeValid
  <2>3. \A i \in 1..Len(k[n].turns) : (i \in 1..N /\ k[n].turns[i] = s.turns[i])
                                      \/ (i = N + 1 /\ k[n].turns[i] = t)
    <3>1. N \in Nat
      BY <1>7
    <3>2. \A i \in 1..N + 1 : i \in 1..N \/ i = N + 1
      BY <3>1
    <3>3. QED
      BY <1>6, <1>7, <3>2
  <2>4. ASSUME NEW i \in 1..Len(k[n].turns)
        PROVE  /\ k[n].turns[i].node = n /\ k[n].turns[i].step <= k[n].owner
               /\ k[n].turns[i].output = k[n].finishes[i]
               /\ k[n].turns[i].step = k[n].owner => k[n].finish = k[n].turns[i].output
    <3>1. CASE i \in 1..N /\ k[n].turns[i] = s.turns[i]
      BY <1>1, <1>6, <3>1 DEF NodeValid
    <3>2. CASE i = N + 1 /\ k[n].turns[i] = t
      <4>1. s.owner <= s.owner
        BY <1>3, SharedAssumption DEF Steps
      <4>2. QED
        BY <1>5, <1>6, <2>2, <3>2, <4>1
    <3>3. QED
      BY <2>3, <3>1, <3>2
  <2>5. ASSUME NEW i \in 1..Len(k[n].turns), NEW j \in 1..Len(k[n].turns), i < j
        PROVE  k[n].turns[i].step < k[n].turns[j].step
    <3>1. i \in 1..N /\ k[n].turns[i] = s.turns[i]
      BY <1>6, <1>7, <2>3, <2>5
    <3>2. CASE j \in 1..N /\ k[n].turns[j] = s.turns[j]
      BY <1>1, <2>5, <3>1, <3>2 DEF NodeValid
    <3>3. CASE j = N + 1 /\ k[n].turns[j] = t
      BY <1>5, <2>1, <3>1, <3>3
    <3>4. QED
      BY <2>3, <3>2, <3>3
  <2>6. Len(k[n].finishes) = Len(k[n].turns)
    BY <1>6, <1>7, <2>2
  <2>7. /\ s.start <= s.iters /\ (Finishes(s) => s.start < s.iters) /\ s.owner # 0
    BY <1>1 DEF NodeValid
  <2>8. QED
    BY <1>6, <1>11, <2>4, <2>5, <2>6, <2>7 DEF NodeValid, Finishes
<1>14. IsLog(k, Append(h, t))
  <2>1. /\ Append(h, t) \in Seq(Turns) /\ Len(Append(h, t)) = Len(h) + 1
        /\ Append(h, t)[Len(h) + 1] = t /\ \A i \in 1..Len(h) : Append(h, t)[i] = h[i]
    BY <1>1, <1>5, AppendProperties
  <2>2. ASSUME NEW i \in 1..Len(Append(h, t)) PROVE Append(h, t)[i].ordinal = i - 1
    <3>1. CASE i \in 1..Len(h)
      BY <1>1, <2>1, <3>1 DEF IsLog
    <3>2. CASE i = Len(h) + 1
      BY <1>1, <1>5, <2>1, <3>2
    <3>3. QED
      BY <1>1, <2>1, <3>1, <3>2
  <2>3. Range(Append(h, t)) = Range(h) \cup {t}
    BY <1>1, <1>5, AppendRange
  <2>4. Range(k[n].turns) = Range(s.turns) \cup {t}
    BY <1>5, <1>6, StateFacts, AppendRange
  <2>5. AllTurns(k) = AllTurns(l) \cup {t}
    <3>1. ASSUME NEW u \in AllTurns(k) PROVE u \in AllTurns(l) \cup {t}
      BY <1>9, <2>4 DEF AllTurns
    <3>2. ASSUME NEW u \in AllTurns(l) \cup {t} PROVE u \in AllTurns(k)
      BY <1>9, <2>4 DEF AllTurns
    <3>3. QED
      BY <3>1, <3>2
  <2>6. QED
    BY <1>1, <2>1, <2>2, <2>3, <2>5 DEF IsLog
<1>15. ASSUME NEW m \in Nodes, m # n PROVE NodeValid(m, k[m], Append(h, t))
  <2>1. k[m] = l[m] /\ NodeValid(m, l[m], h) /\ ~Waits(l[m])
    BY <1>9, <1>12, <1>15 DEF LedgerValid
  <2>2. QED
    BY <2>1 DEF NodeValid
<1>16. LedgerValid(k, Append(h, t))
  BY <1>12, <1>13, <1>14, <1>15 DEF LedgerValid
<1>17. QED
  BY <1>1, <1>5, <1>6, <1>9, <1>10, <1>11, <1>12, <1>16

LEMMA AcceptFacts ==
    ASSUME NEW l \in [Nodes -> LoopStates], NEW h, LedgerValid(l, h), NEW n \in Nodes,
           Finishes(l[n])
    PROVE  \/ Answered(l[n]) /\ AcceptShared(l, n, l[n].finish) = l
           \/ /\ ~Answered(l[n]) /\ Waits(l[n])
              /\ AcceptShared(l, n, l[n].finish) = AcceptedLedger(l, n)
<1>1. CASE Answered(l[n])
  <2>1. AnsweredNow(l, n) /\ Last(l[n].turns).output = l[n].finish
    BY <1>1, AnsweredFacts DEF Last
  <2>2. QED
    BY <1>1, <2>1 DEF AcceptShared, Finishes
<1>2. CASE ~Answered(l[n])
  <2>1. Waits(l[n])
    BY <1>2 DEF LedgerValid, NodeValid
  <2>2. l[n].pending.step = l[n].owner
    <3>1. l[n].pending = [step |-> l[n].owner, ordinal |-> Len(h), digest |-> h]
      BY <2>1 DEF LedgerValid, NodeValid
    <3>2. QED
      BY <3>1
  <2>3. /\ AcceptedLedger(l, n) \in [Nodes -> LoopStates]
        /\ LedgerValid(AcceptedLedger(l, n), Append(h, NewTurn(l, n)))
    BY <2>1, AcceptedValid
  <2>4. HistoryValid(AcceptedLedger(l, n))
    BY <2>3, ValidPasses
  <2>5. ~AnsweredNow(l, n)
    BY <1>2, AnsweredFacts
  <2>6. QED
    BY <1>2, <2>1, <2>2, <2>4, <2>5 DEF AcceptShared, AcceptedLedger, NewTurn, Finishes, Waits
<1>3. QED
  BY <1>1, <1>2

\* accept_shared does not refuse an answer that the ledger has admitted.
LEMMA AcceptNeverRefuses ==
    ASSUME NEW l \in [Nodes -> LoopStates], NEW h, LedgerValid(l, h), NEW n \in Nodes,
           Finishes(l[n])
    PROVE  AcceptShared(l, n, l[n].finish) # None
<1>1. AcceptShared(l, n, l[n].finish) \in [Nodes -> LoopStates]
  BY AcceptFacts, AcceptedValid
<1>2. QED
  BY <1>1, NoneAssumption

\* The nodes may be admitted: none has a later visit, and one of an earlier is settled.
Admissible(l, nodes, s) ==
    /\ \A n \in Nodes : l[n].owner <= s
    /\ \A n \in nodes : l[n].owner # s => Settled(l[n])

\* admit_frontier: settled nodes start a visit of the super-step; the others keep theirs.
LEMMA AdmittedValid ==
    ASSUME NEW l \in [Nodes -> LoopStates], NEW h, LedgerValid(l, h), NEW nodes \in SUBSET Nodes,
           NEW s \in Steps, Admissible(l, nodes, s), NEW k, k = AdmitFrontierLedger(l, nodes, s)
    PROVE  /\ k # None /\ k \in [Nodes -> LoopStates] /\ LedgerValid(k, h)
           /\ \A n \in nodes : k[n].owner = s
           /\ \A n \in Nodes \ nodes : k[n] = l[n]
           /\ \A n \in Nodes : Waits(k[n]) => k[n] = l[n]
<1> DEFINE fresh == {n \in nodes : l[n].owner # s}
<1> USE DEF Admissible
<1>1. k = [n \in Nodes |-> IF n \in fresh THEN AdmitNode(l, n, s) ELSE l[n]]
  <2>1. \A n \in fresh : ~(l[n].pending # None \/ (l[n].owner # 0 /\ l[n].finish = None))
    BY DEF Settled, Waits, Finishes
  <2>2. QED
    BY <2>1 DEF AdmitFrontierLedger
<1>2. ASSUME NEW n \in fresh
      PROVE  /\ k[n] \in LoopStates /\ k[n].owner = s /\ k[n].start = l[n].iters
             /\ k[n].iters = l[n].iters /\ k[n].finish = None
             /\ k[n].finishes = l[n].finishes /\ k[n].turns = l[n].turns
             /\ k[n].pending = l[n].pending
  <2>1. k[n] = [l[n] EXCEPT !.owner = s, !.start = l[n].iters, !.finish = None]
    BY <1>1 DEF AdmitNode
  <2>2. s \in 0..MaxStep
    BY SharedAssumption DEF Steps
  <2>3. QED
    <3> DEFINE q == l[n]
    <3>1. q \in LoopStates /\ k[n] = [q EXCEPT !.owner = s, !.start = q.iters, !.finish = None]
      BY <2>1, StateFacts
    <3> HIDE DEF q
    <3>2. /\ k[n] \in LoopStates /\ k[n].owner = s /\ k[n].start = q.iters
          /\ k[n].iters = q.iters /\ k[n].finish = None
          /\ k[n].finishes = q.finishes /\ k[n].turns = q.turns /\ k[n].pending = q.pending
      BY <2>2, <3>1 DEF LoopStates
    <3>3. QED
      BY <3>2 DEF q
<1>3. \A n \in Nodes : n \notin fresh => k[n] = l[n]
  BY <1>1
<1>4. k \in [Nodes -> LoopStates]
  BY <1>1, <1>2
<1>5. \A n \in Nodes : Waits(k[n]) => k[n] = l[n]
  <2>1. \A n \in fresh : ~Waits(k[n])
    BY <1>2 DEF Settled, Waits
  <2>2. QED
    BY <1>3, <2>1
<1>6. ASSUME NEW n \in Nodes PROVE NodeValid(n, k[n], h)
  <2>1. NodeValid(n, l[n], h)
    BY DEF LedgerValid
  <2>2. CASE n \notin fresh
    BY <1>3, <2>1, <2>2
  <2>3. CASE n \in fresh
    <3>1. ~Waits(l[n]) /\ ~Waits(k[n]) /\ ~Finishes(k[n])
      BY <1>2, <2>3 DEF Settled, Waits, Finishes
    <3>2. l[n].owner < s /\ s # 0 /\ s \in Int /\ l[n].owner \in Int
      BY <2>3, StateFacts, SharedAssumption DEF Steps
    <3>3. ASSUME NEW i \in 1..Len(l[n].turns) PROVE l[n].turns[i].step < s
      <4>1. l[n].turns[i].step <= l[n].owner
        BY <2>1 DEF NodeValid
      <4>2. l[n].turns[i].step \in Int
        BY StateFacts, SharedAssumption DEF Turns, Steps
      <4>3. QED
        BY <3>2, <4>1, <4>2
    <3>4. \A i \in 1..Len(l[n].turns) : l[n].turns[i].step <= s /\ l[n].turns[i].step # s
      <4>1. \A i \in 1..Len(l[n].turns) : l[n].turns[i].step \in Int
        BY StateFacts, SharedAssumption DEF Turns, Steps
      <4>2. QED
        BY <3>2, <3>3, <4>1
    <3>5. Len(l[n].finishes) = Len(l[n].turns)
      BY <2>1, <3>1 DEF NodeValid
    <3>6. k[n].start <= k[n].iters /\ ~(k[n].start < k[n].iters)
      BY <1>2, <2>3, StateFacts
    <3>7. \A i \in 1..Len(l[n].turns) :
              l[n].turns[i].node = n /\ l[n].turns[i].output = l[n].finishes[i]
      BY <2>1 DEF NodeValid
    <3>8. \A i, j \in 1..Len(l[n].turns) : i < j => l[n].turns[i].step < l[n].turns[j].step
      BY <2>1 DEF NodeValid
    <3>9. QED
      BY <1>2, <2>3, <3>1, <3>2, <3>4, <3>5, <3>6, <3>7, <3>8 DEF NodeValid
  <2>4. QED
    BY <2>2, <2>3
<1>7. \A n \in Nodes : k[n].turns = l[n].turns
  BY <1>2, <1>3
<1>8. LedgerValid(k, h)
  BY <1>5, <1>6, <1>7, SameTurns DEF LedgerValid
<1>9. k # None
  BY <1>4, NoneAssumption
<1>10. QED
  BY <1>2, <1>3, <1>4, <1>5, <1>8, <1>9

\* observe_model: a model turn of a prepared visit, f and fs the finish and the finishes
\* it leaves.
LEMMA AskedValid ==
    ASSUME NEW l \in [Nodes -> LoopStates], NEW h, LedgerValid(l, h), NEW n \in Nodes,
           Waits(l[n]), ~Finishes(l[n]), NEW f, NEW fs, NEW k,
           \/ f = None /\ fs = l[n].finishes
           \/ f \in Outputs /\ fs = Append(l[n].finishes, f),
           k = AskedLedger(l, n, f, fs)
    PROVE  /\ k \in [Nodes -> LoopStates] /\ LedgerValid(k, h)
           /\ \A m \in Nodes : m # n => k[m] = l[m]
           /\ Waits(k[n]) /\ k[n].start < k[n].iters /\ k[n].owner = l[n].owner
           /\ k[n].finish = f /\ \A m \in Nodes : k[m].turns = l[m].turns
<1>0. k = [l EXCEPT ![n].iters = @ + 1, ![n].finish = f, ![n].finishes = fs]
  BY DEF AskedLedger
<1>1. l[n].finishes \in Seq(Outputs) /\ Len(l[n].finishes) \in Nat
  BY StateFacts
<1>2. /\ fs \in Seq(Outputs) /\ f \in Outputs \cup {None}
      /\ \A i \in 1..Len(l[n].finishes) : fs[i] = l[n].finishes[i]
      /\ f = None => Len(fs) = Len(l[n].finishes)
      /\ f # None => Len(fs) = Len(l[n].finishes) + 1 /\ fs[Len(l[n].finishes) + 1] = f
  <2>1. CASE f = None /\ fs = l[n].finishes
    BY <1>1, <2>1
  <2>2. CASE f \in Outputs /\ fs = Append(l[n].finishes, f)
    BY <1>1, <2>2, AppendProperties, NoneAssumption
  <2>3. QED
    BY <2>1, <2>2
<1>3. /\ k[n] \in LoopStates /\ k[n].owner = l[n].owner /\ k[n].start = l[n].start
      /\ k[n].iters = l[n].iters + 1 /\ k[n].finish = f /\ k[n].finishes = fs
      /\ k[n].turns = l[n].turns /\ k[n].pending = l[n].pending
  <2>1. k[n] = [l[n] EXCEPT !.iters = l[n].iters + 1, !.finish = f, !.finishes = fs]
    BY <1>0
  <2>2. l[n].iters + 1 \in Nat
    BY StateFacts
  <2>3. QED
    <3> DEFINE q == l[n]
    <3>1. q \in LoopStates /\ q.iters + 1 \in Nat
          /\ k[n] = [q EXCEPT !.iters = q.iters + 1, !.finish = f, !.finishes = fs]
      BY <2>1, <2>2, StateFacts
    <3> HIDE DEF q
    <3>2. /\ k[n] \in LoopStates /\ k[n].owner = q.owner /\ k[n].start = q.start
          /\ k[n].iters = q.iters + 1 /\ k[n].finish = f /\ k[n].finishes = fs
          /\ k[n].turns = q.turns /\ k[n].pending = q.pending
      BY <1>2, <3>1 DEF LoopStates
    <3>3. QED
      BY <3>2 DEF q
<1>4. \A m \in Nodes : m # n => k[m] = l[m]
  BY <1>0
<1>5. k \in [Nodes -> LoopStates]
  BY <1>0, <1>3
<1>6. NodeValid(n, l[n], h)
  BY DEF LedgerValid
<1>7. l[n].start <= l[n].iters
  BY <1>6 DEF NodeValid
<1>8. k[n].start < k[n].iters
  BY <1>3, <1>7, StateFacts
<1>9. Waits(k[n]) /\ (Answered(k[n]) <=> Answered(l[n]))
  BY <1>3 DEF Waits, Answered
<1>10. Len(l[n].finishes) = Len(l[n].turns) /\ ~Answered(l[n])
  BY <1>6 DEF NodeValid
<1>11. NodeValid(n, k[n], h)
  <2>1. \A i \in 1..Len(l[n].turns) :
            /\ l[n].turns[i].node = n /\ l[n].turns[i].step <= l[n].owner
            /\ l[n].turns[i].output = l[n].finishes[i]
    BY <1>6 DEF NodeValid
  <2>2. \A i \in 1..Len(l[n].turns) : l[n].turns[i].step # l[n].owner
    <3>1. \A i \in 1..Len(l[n].turns) : l[n].turns[i].step < l[n].owner /\ l[n].turns[i].step \in Int
      BY <1>10, AnsweredFacts, StateFacts, SharedAssumption DEF Turns, Steps
    <3>2. l[n].owner \in Int
      BY StateFacts, SharedAssumption
    <3>3. QED
      BY <3>1, <3>2
  <2>3. \A i \in 1..Len(k[n].turns) :
            /\ k[n].turns[i].node = n /\ k[n].turns[i].step <= k[n].owner
            /\ k[n].turns[i].output = k[n].finishes[i]
            /\ k[n].turns[i].step # k[n].owner
    BY <1>2, <1>3, <1>10, <2>1, <2>2
  <2>4. \A i, j \in 1..Len(k[n].turns) : i < j => k[n].turns[i].step < k[n].turns[j].step
    BY <1>3, <1>6 DEF NodeValid
  <2>5. /\ ~Finishes(k[n]) => Len(k[n].finishes) = Len(k[n].turns)
        /\ Finishes(k[n]) => /\ Len(k[n].finishes) = Len(k[n].turns) + 1
                             /\ k[n].finishes[Len(k[n].turns) + 1] = k[n].finish
    BY <1>2, <1>3, <1>10 DEF Finishes
  <2>6. k[n].owner # 0
    BY <1>3, <1>6 DEF NodeValid
  <2>7. k[n].start <= k[n].iters
    BY <1>3, <1>8, StateFacts
  <2>8. k[n].pending = [step |-> k[n].owner, ordinal |-> Len(h), digest |-> h] /\ ~Answered(k[n])
    BY <1>3, <1>6, <1>9 DEF NodeValid
  <2>9. QED
    BY <1>8, <1>9, <2>3, <2>4, <2>5, <2>6, <2>7, <2>8 DEF NodeValid
<1>12. \A m \in Nodes : k[m].turns = l[m].turns
  BY <1>3, <1>4
<1>13. \A m \in Nodes : Waits(k[m]) <=> Waits(l[m])
  BY <1>4, <1>9
<1>14. LedgerValid(k, h)
  BY <1>4, <1>11, <1>12, <1>13, SameTurns DEF LedgerValid
<1>15. QED
  BY <1>3, <1>4, <1>5, <1>8, <1>9, <1>12, <1>14

-----------------------------------------------------------------------------
(* The conversations.                                                        *)

\* d is c with one content more.
Longer(c, d) ==
    /\ d \in Seq(BOOLEAN) /\ Len(d) = Len(c) + 1
    /\ \A i \in 1..Len(c) : d[i] = c[i]

\* It adds one to the model's if it is the model's.
LEMMA SaidFacts ==
    ASSUME NEW c \in Seq(BOOLEAN), NEW d, Longer(c, d)
    PROVE  /\ \A k \in 0..Len(c) : Said(c, k) \in Nat /\ Said(d, k) = Said(c, k)
           /\ d[Len(d)] => Said(d, Len(d)) = Said(c, Len(c)) + 1
           /\ ~d[Len(d)] => Said(d, Len(d)) = Said(c, Len(c))
<1>1. /\ Len(c) \in Nat /\ d \in Seq(BOOLEAN) /\ Len(d) = Len(c) + 1
      /\ \A i \in 1..Len(c) : d[i] = c[i]
  BY SeqFacts DEF Longer
<1>2. ASSUME NEW k \in 0..Len(c)
      PROVE  IsFiniteSet({i \in 1..k : c[i]}) /\ {i \in 1..k : d[i]} = {i \in 1..k : c[i]}
  <2>1. IsFiniteSet(1..k)
    BY <1>1, FS_Interval
  <2>2. IsFiniteSet({i \in 1..k : c[i]})
    BY <2>1, FS_Subset
  <2>3. \A i \in 1..k : i \in 1..Len(c)
    BY <1>1
  <2>4. QED
    BY <1>1, <2>2, <2>3
<1>3. \A k \in 0..Len(c) : Said(c, k) \in Nat /\ Said(d, k) = Said(c, k)
  BY <1>2, FS_CardinalityType DEF Said
<1> DEFINE S == {i \in 1..Len(c) : c[i]}
<1>4. IsFiniteSet(S) /\ {i \in 1..Len(c) : d[i]} = S /\ Len(c) + 1 \notin S
  <2>1. Len(c) \in 0..Len(c)
    BY <1>1
  <2>2. QED
    BY <1>1, <1>2, <2>1
<1>5. CASE d[Len(d)]
  <2>1. {i \in 1..Len(c) + 1 : d[i]} = S \cup {Len(c) + 1}
    BY <1>1, <1>4, <1>5
  <2>2. Cardinality(S \cup {Len(c) + 1}) = Cardinality(S) + 1
    BY <1>4, FS_AddElement
  <2>3. Said(d, Len(d)) = Said(c, Len(c)) + 1
    BY <1>1, <2>1, <2>2 DEF Said
  <2>4. QED
    BY <1>3, <1>5, <2>3
<1>6. CASE ~d[Len(d)]
  <2>1. {i \in 1..Len(c) + 1 : d[i]} = S
    BY <1>1, <1>4, <1>6
  <2>2. Said(d, Len(d)) = Said(c, Len(c))
    BY <1>1, <2>1 DEF Said
  <2>3. QED
    BY <1>3, <1>6, <2>2
<1>7. QED
  BY <1>5, <1>6

LEMMA AppendLonger ==
    ASSUME NEW c \in Seq(BOOLEAN), NEW b \in BOOLEAN
    PROVE  Longer(c, Append(c, b)) /\ Append(c, b)[Len(Append(c, b))] = b
BY AppendProperties DEF Longer

\* A conversation with one content more, from the model or not.
LEMMA Extended ==
    ASSUME NEW s \in LoopStates, NEW t \in Talks, TalkOK(s, t), NEW u \in Talks,
           u.from = t.from, Longer(t.contents, u.contents)
    PROVE  /\ u.from <= Len(u.contents) /\ Said(u.contents, u.from) = s.start
           /\ u.contents[Len(u.contents)] => Said(u.contents, Len(u.contents)) = s.iters + 1
           /\ ~u.contents[Len(u.contents)] => Said(u.contents, Len(u.contents)) = s.iters
<1> PICK c, d : c = t.contents /\ d = u.contents
  OBVIOUS
<1>1. c \in Seq(BOOLEAN) /\ t.from \in Nat /\ Longer(c, d)
  BY DEF Talks
<1>2. Len(c) \in Nat /\ Len(d) = Len(c) + 1
  BY <1>1, SeqFacts DEF Longer
<1>3. /\ \A k \in 0..Len(c) : Said(c, k) \in Nat /\ Said(d, k) = Said(c, k)
      /\ d[Len(d)] => Said(d, Len(d)) = Said(c, Len(c)) + 1
      /\ ~d[Len(d)] => Said(d, Len(d)) = Said(c, Len(c))
  BY <1>1, SaidFacts
<1>4. t.from <= Len(c) /\ Said(c, t.from) = s.start /\ Said(c, Len(c)) = s.iters
  BY DEF TalkOK
<1>5. t.from \in 0..Len(c) /\ t.from <= Len(d)
  BY <1>1, <1>2, <1>4
<1>6. QED
  BY <1>3, <1>4, <1>5

\* observe_tool and complete_pending.
LEMMA RespondedOK ==
    ASSUME NEW s \in LoopStates, NEW t \in Talks, TalkOK(s, t)
    PROVE  RespondedTalk(t) \in Talks /\ TalkOK(s, RespondedTalk(t))
<1>1. CASE t.call = 0
  BY <1>1 DEF RespondedTalk
<1>2. CASE t.call # 0
  <2> PICK d : d = Append(t.contents, FALSE)
    OBVIOUS
  <2>1. t.contents \in Seq(BOOLEAN)
    BY DEF Talks
  <2>2. Longer(t.contents, d) /\ ~d[Len(d)]
    BY <2>1, AppendLonger
  <2> PICK u : u = [t EXCEPT !.contents = d, !.call = 0]
    OBVIOUS
  <2>3. RespondedTalk(t) = u
    BY <1>2 DEF RespondedTalk
  <2>4. u \in Talks /\ u.call = 0 /\ u.from = t.from /\ u.contents = d
    BY <2>2 DEF Talks, Longer
  <2>5. /\ u.from <= Len(u.contents) /\ Said(u.contents, u.from) = s.start
        /\ Said(u.contents, Len(u.contents)) = s.iters
    <3>1. Longer(t.contents, u.contents) /\ ~u.contents[Len(u.contents)]
      BY <2>2, <2>4
    <3>2. QED
      BY <2>4, <3>1, Extended
  <2>6. QED
    BY <2>3, <2>4, <2>5 DEF TalkOK
<1>3. QED
  BY <1>1, <1>2

\* prepare_request and observe_model.
LEMMA AskedOK ==
    ASSUME NEW s \in LoopStates, NEW k \in LoopStates, NEW t \in Talks, TalkOK(s, t),
           NEW b \in BOOLEAN, s.start <= s.iters, t.call = 0,
           k.iters = s.iters + 1, k.start = s.start, k.owner # 0, Finishes(k) => b
    PROVE  /\ AskedTalk(t, s.iters + 1, b) \in Talks
           /\ TalkOK(k, AskedTalk(t, s.iters + 1, b))
<1>0. s.start \in Nat /\ s.iters \in Nat /\ t.contents \in Seq(BOOLEAN)
  BY DEF LoopStates, Talks
<1>a. PICK asked : asked = IF Len(t.contents) = t.from THEN Append(t.contents, FALSE) ELSE t.contents
  OBVIOUS
<1>v. PICK v : v = [t EXCEPT !.contents = asked]
  OBVIOUS
<1>1. v \in Talks /\ TalkOK(s, v) /\ v.contents = asked /\ v.from = t.from
  <2>1. CASE Len(t.contents) = t.from
    <3>1. Longer(t.contents, asked) /\ ~asked[Len(asked)]
      BY <1>0, <1>a, <2>1, AppendLonger
    <3>2. v \in Talks /\ v.call = 0 /\ v.from = t.from /\ v.contents = asked
      BY <1>v, <3>1 DEF Talks, Longer
    <3>3. /\ v.from <= Len(v.contents) /\ Said(v.contents, v.from) = s.start
          /\ Said(v.contents, Len(v.contents)) = s.iters
      <4>1. Longer(t.contents, v.contents) /\ ~v.contents[Len(v.contents)]
        BY <3>1, <3>2
      <4>2. QED
        BY <3>2, <4>1, Extended
    <3>4. QED
      BY <3>2, <3>3 DEF TalkOK
  <2>2. CASE Len(t.contents) # t.from
    <3>1. asked = t.contents /\ v = t
      BY <1>a, <1>v, <2>2 DEF Talks
    <3>2. QED
      BY <3>1
  <2>3. QED
    BY <2>1, <2>2
<1>c. PICK call \in Nat : call = IF b THEN 0 ELSE s.iters + 1
  BY <1>0
<1>d. PICK d : d = Append(asked, TRUE)
  OBVIOUS
<1>u. PICK u : u = [t EXCEPT !.contents = d, !.call = call]
  OBVIOUS
<1>2. AskedTalk(t, s.iters + 1, b) = u
  BY <1>a, <1>c, <1>d, <1>u DEF AskedTalk
<1>3. Longer(v.contents, d) /\ d[Len(d)]
  <2>1. asked \in Seq(BOOLEAN)
    BY <1>1 DEF Talks
  <2>2. QED
    BY <1>1, <1>d, <2>1, AppendLonger
<1>4. u \in Talks /\ u.call = call /\ u.from = v.from /\ u.contents = d
  BY <1>1, <1>3, <1>u DEF Talks, Longer
<1>5. /\ u.from <= Len(u.contents)
      /\ Said(u.contents, u.from) = s.start /\ Said(u.contents, Len(u.contents)) = s.iters + 1
  <2>1. Longer(v.contents, u.contents) /\ u.contents[Len(u.contents)]
    BY <1>3, <1>4
  <2>2. v \in Talks /\ TalkOK(s, v) /\ u \in Talks /\ u.from = v.from
    BY <1>1, <1>4
  <2>3. /\ u.from <= Len(u.contents) /\ Said(u.contents, u.from) = s.start
        /\ u.contents[Len(u.contents)] => Said(u.contents, Len(u.contents)) = s.iters + 1
    BY <2>1, <2>2, Extended
  <2>4. QED
    BY <2>1, <2>3
<1>6. (call # 0 => s.start < call) /\ (Finishes(k) => call = 0)
  BY <1>0, <1>c
<1>7. QED
  BY <1>2, <1>4, <1>5, <1>6 DEF TalkOK

\* A visit begins where the last conversation ended.
LEMMA AdmittedOK ==
    ASSUME NEW l \in [Nodes -> LoopStates], NEW n \in Nodes, NEW t \in Talks, TalkOK(l[n], t),
           t.call = 0, NEW s \in Steps, NEW u, u = [t EXCEPT !.from = Len(t.contents)]
    PROVE  u \in Talks /\ TalkOK(AdmitNode(l, n, s), u)
<1> DEFINE q == l[n]
           k == AdmitNode(l, n, s)
<1>1. q \in LoopStates /\ k = [q EXCEPT !.owner = s, !.start = q.iters, !.finish = None]
  BY DEF AdmitNode
<1>2. t.contents \in Seq(BOOLEAN) /\ Len(t.contents) \in Nat
  <2>1. t.contents \in Seq(BOOLEAN)
    BY DEF Talks
  <2>2. QED
    BY <2>1, SeqFacts
<1>3. Said(t.contents, Len(t.contents)) = q.iters
  BY DEF TalkOK
<1> HIDE DEF q, k
<1>4. k.owner = s /\ k.start = q.iters /\ k.iters = q.iters /\ k.finish = None
  BY <1>1 DEF LoopStates
<1>5. u \in Talks /\ u.contents = t.contents /\ u.from = Len(t.contents) /\ u.call = 0
  BY <1>2 DEF Talks
<1>6. TalkOK(k, u)
  BY <1>2, <1>3, <1>4, <1>5 DEF TalkOK
<1>7. QED
  BY <1>5, <1>6 DEF k

-----------------------------------------------------------------------------
(* The steps.                                                                *)

LEMMA DurableFacts ==
    ASSUME TurnsIInv, durable
    PROVE  /\ ledger \in [Nodes -> LoopStates] /\ LedgerValid(ledger, Log)
           /\ Log \in Seq(Turns) /\ Len(Log) \in Nat /\ DOMAIN Log = 1..Len(Log)
           /\ \A i \in 1..Len(Log) : Log[i] \in Turns
           /\ Accepted = Log
           /\ \A i \in 1..Len(Log) : saw[<<Log[i].node, Log[i].step>>] = SubSeq(Log, 1, i - 1)
<1>1. ledger \in [Nodes -> LoopStates] /\ LedgerValid(ledger, Log)
  BY DEF TurnsIInv, TurnTypes, DurableInv
<1>2. Log \in Seq(Turns)
  BY <1>1 DEF LedgerValid, IsLog
<1>3. Len(Log) \in Nat /\ DOMAIN Log = 1..Len(Log) /\ \A i \in 1..Len(Log) : Log[i] \in Turns
  BY <1>2, SeqFacts
<1>4. Accepted = Log
  BY DEF Accepted, Log
<1>5. \A i \in 1..Len(Log) : saw[<<Log[i].node, Log[i].step>>] = SubSeq(Log, 1, i - 1)
  BY <1>3, <1>4 DEF TurnsIInv, AnsweredFromItsPrefix
<1>6. QED
  BY <1>1, <1>2, <1>3, <1>4, <1>5

\* A call is open only in a visit the frontier goes on with.
LEMMA NoCallsOpen ==
    ASSUME TurnsIInv, TalkInv, durable, phase = "admit"
    PROVE  /\ ~CallsOpen(ledger, talk, frontier, step)
           /\ \A n \in frontier : ledger[n].owner # step => talk[n].call = 0
<1>1. frontier \subseteq Nodes /\ Generation
  BY DEF TurnsIInv, TurnTypes, DurableInv
<1>2. \A n \in frontier : ledger[n].owner # step => Settled(ledger[n])
  BY <1>1 DEF Generation
<1>3. \A n \in frontier : ledger[n].owner # step => talk[n].call = 0
  BY <1>1, <1>2 DEF TalkInv, TalkOK, Settled
<1>4. QED
  BY <1>3 DEF CallsOpen

LEMMA TurnsInit == Init => TurnsIInv
<1> SUFFICES ASSUME Init PROVE TurnsIInv
  OBVIOUS
<1>1. /\ durable \in BOOLEAN /\ phase = "admit" /\ step = 1 /\ frontier \subseteq Nodes
      /\ ledger = [n \in Nodes |-> Blank] /\ saved = [step |-> 0, pending |-> {}]
      /\ history = [turns |-> <<>>, pending |-> None] /\ pc = [n \in Nodes |-> "idle"]
      /\ saw = [v \in Visits |-> None] /\ calls = [v \in Visits |-> 0]
  BY DEF Init
<1>2. <<>> \in Seq(Turns) /\ <<>> \in Seq(Outputs) /\ Len(<<>>) = 0
  OBVIOUS
<1>3. Blank \in LoopStates
  BY <1>2, SharedAssumption DEF Blank, LoopStates
<1>4. TurnTypes
  BY <1>1, <1>2, <1>3, SharedAssumption DEF TurnTypes, Points, Steps
<1>5. LedgerValid(ledger, <<>>)
  <2>1. \A n \in Nodes : ledger[n] = Blank
    BY <1>1
  <2>2. Range(<<>>) = {}
    BY DEF Range
  <2>3. AllTurns(ledger) = {}
    BY <2>1, <2>2 DEF AllTurns, Blank
  <2>4. \A n \in Nodes : NodeValid(n, Blank, <<>>) /\ ~Waits(Blank)
    BY <1>2 DEF NodeValid, Blank, Waits, Finishes
  <2>5. QED
    BY <1>2, <2>1, <2>2, <2>3, <2>4 DEF LedgerValid, IsLog
<1>6. Log = <<>>
  BY <1>5, SortedIsLog DEF LedgerValid, Log
<1>7. Generation
  <2>1. \A n \in Nodes : ledger[n].owner = 0 /\ Settled(ledger[n])
    BY <1>1 DEF Settled, Blank, Waits
  <2>2. QED
    BY <1>1, <2>1 DEF Generation
<1>8. Progress
  BY <1>1 DEF Progress
<1>9. DurableInv
  <2>1. \A n \in Nodes : ~Waits(ledger[n])
    BY <1>1 DEF Blank, Waits
  <2>2. QED
    BY <1>1, <1>5, <1>6, <1>7, <1>8, <2>1 DEF DurableInv
<1>10. MemoryInv
  BY <1>1, <1>2 DEF MemoryInv
<1>11. AnsweredFromItsPrefix
  <2>1. Accepted = <<>>
    BY <1>1, <1>6 DEF Accepted, Log
  <2>2. QED
    BY <2>1 DEF AnsweredFromItsPrefix
<1>12. QED
  BY <1>4, <1>9, <1>10, <1>11 DEF TurnsIInv

\* A step of node n that keeps the ledger, the history and what was shown.
LEMMA QuietStep ==
    ASSUME TurnsIInv, NEW n \in Nodes, NEW w \in Points \ {"done"}, phase = "running",
           UNCHANGED <<durable, phase, step, frontier, ledger, saved, history, saw, calls>>,
           pc[n] \notin {"idle", "done"}, pc' = [pc EXCEPT ![n] = w],
           durable /\ w = "agent" => Waits(ledger[n]) \/ Answered(ledger[n]),
           w = "accept" => durable /\ Finishes(ledger[n]),
           ~durable => lock' = lock \/ lock \in {n, None},
           ~durable /\ w \in {"prepare", "agent"} => lock' = n
    PROVE  TurnsIInv'
<1>1. pc' \in [Nodes -> Points] /\ pc'[n] = w /\ \A m \in Nodes \ {n} : pc'[m] = pc[m]
  BY DEF TurnsIInv, TurnTypes
<1>2. TurnTypes'
  BY <1>1 DEF TurnsIInv, TurnTypes
<1>3. Log' = Log
  BY DEF Log
<1>4. Generation' <=> Generation
  BY DEF Generation
<1>5. durable => Progress'
  BY <1>1 DEF TurnsIInv, DurableInv, Progress
<1>6. DurableInv'
  BY <1>3, <1>4, <1>5 DEF TurnsIInv, DurableInv
<1>7. MemoryInv'
  <2> SUFFICES ASSUME ~durable PROVE MemoryInv'
    BY DEF MemoryInv
  <2>1. \A m \in Nodes : pc'[m] \in {"prepare", "agent", "accept"} => lock' = m
    <3> SUFFICES ASSUME NEW m \in Nodes, pc'[m] \in {"prepare", "agent", "accept"} PROVE lock' = m
      OBVIOUS
    <3>1. CASE m = n
      BY <1>1, <3>1
    <3>2. CASE m # n
      <4>1. lock = m
        BY <1>1, <3>2 DEF TurnsIInv, MemoryInv
      <4>2. QED
        BY <3>2, <4>1, SharedAssumption
    <3>3. QED
      BY <3>1, <3>2
  <2>2. \A m \in Nodes : pc'[m] = "accept" => saw[<<m, step>>] = history.turns
    BY <1>1 DEF TurnsIInv, MemoryInv
  <2>3. \A m \in Nodes : pc[m] = "done" => pc'[m] = "done"
    BY <1>1
  <2>4. \A i \in 1..Len(history.turns) :
            \/ history.turns[i].step < step
            \/ /\ history.turns[i].step = step /\ phase = "running"
               /\ pc'[history.turns[i].node] = "done"
    <3>1. \A i \in 1..Len(history.turns) : history.turns[i].node \in Nodes
      <4>1. history.turns \in Seq(Turns)
        BY DEF TurnsIInv, TurnTypes
      <4>2. \A i \in 1..Len(history.turns) : history.turns[i] \in Turns
        BY <4>1, SeqFacts
      <4>3. QED
        BY <4>2 DEF Turns
    <3>2. QED
      BY <2>3, <3>1 DEF TurnsIInv, MemoryInv
  <2>5. QED
    BY <2>1, <2>2, <2>4 DEF MemoryInv
<1>8. AnsweredFromItsPrefix'
  BY DEF TurnsIInv, AnsweredFromItsPrefix, Accepted
<1>9. QED
  BY <1>2, <1>6, <1>7, <1>8 DEF TurnsIInv

\* What the visits that wait, and those that have answered, were shown.
ShownLog(l, s, h) ==
    \A m \in Nodes : Waits(l[m]) /\ l[m].start < l[m].iters => s[<<m, l[m].owner>>] = h

ShownPrefix(s, h) == \A i \in 1..Len(h) : s[<<h[i].node, h[i].step>>] = SubSeq(h, 1, i - 1)

\* A step of node n that changes its loop state in the ledger; h is the log after it.
LEMMA LedgerStep ==
    ASSUME TurnsIInv, durable, phase = "running", NEW n \in Nodes, NEW h, NEW w \in Points,
           UNCHANGED <<durable, phase, step, frontier, saved>>,
           pc[n] # "idle", pc' = [pc EXCEPT ![n] = w],
           ledger' \in [Nodes -> LoopStates], LedgerValid(ledger', h),
           \A m \in Nodes : m # n => ledger'[m] = ledger[m],
           ledger'[n].owner = ledger[n].owner,
           w = "agent" => Waits(ledger'[n]) \/ Answered(ledger'[n]),
           w = "accept" => Finishes(ledger'[n]),
           w = "done" => Answered(ledger'[n]),
           history' \in [turns : Seq(Turns), pending : Nodes \cup {None}], history'.turns = h,
           saw' \in [Visits -> Seq(Turns) \cup {None}], calls' \in [Visits -> Nat],
           ShownLog(ledger', saw', h), ShownPrefix(saw', h)
    PROVE  TurnsIInv'
<1>1. pc' \in [Nodes -> Points] /\ pc'[n] = w /\ \A m \in Nodes \ {n} : pc'[m] = pc[m]
  BY DEF TurnsIInv, TurnTypes
<1>2. n \in frontier
  BY DEF TurnsIInv, TurnTypes
<1>3. TurnTypes'
  BY <1>1, <1>2 DEF TurnsIInv, TurnTypes
<1>4. Log' = h /\ h \in Seq(Turns) /\ DOMAIN h = 1..Len(h)
  BY SortedIsLog, SeqFacts DEF LedgerValid, IsLog, Log
<1>5. Generation'
  <2>1. Generation /\ saved.pending = frontier
    BY DEF TurnsIInv, DurableInv, Generation
  <2>2. \A m \in Nodes : ledger'[m].owner = ledger[m].owner
    OBVIOUS
  <2>3. \A m \in Nodes \ saved.pending : ledger'[m] = ledger[m]
    BY <1>2, <2>1
  <2>4. saved.pending \subseteq Nodes
    BY DEF TurnsIInv, TurnTypes
  <2>5. QED
    BY <2>1, <2>2, <2>3, <2>4 DEF Generation
<1>6. Progress'
  BY <1>1 DEF TurnsIInv, DurableInv, Progress
<1>7. DurableInv'
  BY <1>4, <1>5, <1>6 DEF DurableInv, ShownLog
<1>8. MemoryInv'
  BY DEF MemoryInv
<1>9. AnsweredFromItsPrefix'
  <2>1. Accepted' = h
    BY <1>4 DEF Accepted, Log
  <2>2. QED
    BY <1>4, <2>1 DEF AnsweredFromItsPrefix, ShownPrefix
<1>10. QED
  BY <1>3, <1>7, <1>8, <1>9 DEF TurnsIInv

LEMMA TryEnterStep ==
    ASSUME TurnsIInv, NEW n \in Nodes, TryEnter(n)
    PROVE  TurnsIInv'
<1>1. /\ phase = "running" /\ pc[n] = "acquire" /\ lock = None
      /\ UNCHANGED <<durable, phase, step, frontier, ledger, saved, history, saw, calls>>
  BY DEF TryEnter
<1>2. PICK w \in {"unwind", "prepare", "released"} :
          pc' = [pc EXCEPT ![n] = w] /\ (w = "prepare" => lock' = n)
  BY DEF TryEnter, Goto
<1>3. w \in Points \ {"done"}
  BY DEF Points
<1>4. QED
  BY <1>1, <1>2, <1>3, QuietStep

LEMMA WaitingStep ==
    ASSUME TurnsIInv, NEW n \in Nodes, Park(n) \/ Wake(n) \/ Unwind(n)
    PROVE  TurnsIInv'
<1>1. /\ phase = "running" /\ pc[n] \in {"released", "parked", "unwind"} /\ lock' = lock
      /\ UNCHANGED <<durable, phase, step, frontier, ledger, saved, history, saw, calls>>
  BY DEF Park, Wake, Unwind
<1>2. PICK w \in {"parked", "acquire", "error"} : pc' = [pc EXCEPT ![n] = w]
  BY DEF Park, Wake, Unwind, Goto
<1>3. w \in Points \ {"done"}
  BY DEF Points
<1>4. QED
  BY <1>1, <1>2, <1>3, QuietStep

LEMMA StoppedStep ==
    ASSUME TurnsIInv, NEW n \in Nodes, AgentFails(n) \/ Confirmation(n) \/ Abandon(n)
    PROVE  TurnsIInv'
<1>1. /\ phase = "running" /\ pc[n] \notin {"idle", "done"}
      /\ UNCHANGED <<durable, phase, step, frontier, ledger, saved, history, saw, calls>>
  BY DEF AgentFails, Confirmation, Abandon
<1>2. PICK w \in {"unwind", "interrupted"} : pc' = [pc EXCEPT ![n] = w]
  BY DEF AgentFails, Confirmation, Abandon, Goto
<1>3. w \in Points \ {"done"}
  BY DEF Points
<1>4. ~durable => lock' = lock \/ lock \in {n, None}
  BY DEF AgentFails, Confirmation, Abandon, TurnsIInv, MemoryInv
<1>5. QED
  BY <1>1, <1>2, <1>3, <1>4, QuietStep

LEMMA ReplayStep ==
    ASSUME TurnsIInv, NEW n \in Nodes, Replay(n)
    PROVE  TurnsIInv'
<1>1. /\ phase = "running" /\ pc[n] = "agent" /\ durable /\ Finishes(ledger[n])
      /\ UNCHANGED <<durable, phase, step, frontier, ledger, saved, history, saw, calls>>
      /\ pc' = [pc EXCEPT ![n] = "accept"]
  BY DEF Replay, Replays, Goto, Finishes
<1>2. "accept" \in Points \ {"done"}
  BY DEF Points
<1>3. QED
  BY <1>1, <1>2, QuietStep

LEMMA PrepareStep ==
    ASSUME TurnsIInv, NEW n \in Nodes, Prepare(n)
    PROVE  TurnsIInv'
<1>1. /\ phase = "running" /\ pc[n] = "prepare"
      /\ UNCHANGED <<durable, phase, step, frontier, saved, history, saw, calls>>
  BY DEF Prepare
<1>2. ~durable => lock \in {n, None}
  BY <1>1 DEF TurnsIInv, MemoryInv
<1>3. {"agent", "unwind"} \subseteq Points \ {"done"}
  BY DEF Points
<1>4. CASE ledger' = ledger /\ pc' = [pc EXCEPT ![n] = "unwind"]
  <2>1. UNCHANGED <<durable, phase, step, frontier, ledger, saved, history, saw, calls>>
    BY <1>1, <1>4
  <2>2. QED
    BY <1>1, <1>2, <1>3, <1>4, <2>1, QuietStep
<1>5. CASE ~durable /\ ledger' = ledger /\ pc' = [pc EXCEPT ![n] = "agent"] /\ lock' = n
  <2>1. UNCHANGED <<durable, phase, step, frontier, ledger, saved, history, saw, calls>>
    BY <1>1, <1>5
  <2>2. QED
    BY <1>1, <1>2, <1>3, <1>5, <2>1, QuietStep
<1>6. CASE /\ durable /\ PrepareShared(ledger, n, history.turns) # None
           /\ ledger' = PrepareShared(ledger, n, history.turns)
           /\ pc' = [pc EXCEPT ![n] = "agent"]
  <2>1. ledger \in [Nodes -> LoopStates] /\ LedgerValid(ledger, Log)
    BY <1>6, DurableFacts
  <2>2. CASE ledger' = ledger /\ (Waits(ledger[n]) \/ Answered(ledger[n]))
    <3>1. UNCHANGED <<durable, phase, step, frontier, ledger, saved, history, saw, calls>>
      BY <1>1, <2>2
    <3>2. QED
      BY <1>1, <1>2, <1>3, <1>6, <2>2, <3>1, QuietStep
  <2>3. CASE /\ ledger' = PreparedLedger(ledger, n, Log)
             /\ ledger[n].owner # 0 /\ ~Answered(ledger[n]) /\ \A m \in Nodes : ~Waits(ledger[m])
    <3>1. /\ ledger' \in [Nodes -> LoopStates] /\ LedgerValid(ledger', Log)
          /\ \A m \in Nodes : m # n => ledger'[m] = ledger[m]
          /\ Waits(ledger'[n]) /\ ledger'[n].start = ledger'[n].iters
          /\ ledger'[n].owner = ledger[n].owner
      BY <2>1, <2>3, PreparedValid
    <3>2. /\ history' \in [turns : Seq(Turns), pending : Nodes \cup {None}]
          /\ saw' \in [Visits -> Seq(Turns) \cup {None}] /\ calls' \in [Visits -> Nat]
      BY <1>1 DEF TurnsIInv, TurnTypes
    <3>3. history'.turns = Log
      BY <1>1, <1>6 DEF TurnsIInv, DurableInv
    <3>4. \A m \in Nodes : ~(Waits(ledger'[m]) /\ ledger'[m].start < ledger'[m].iters)
      <4>1. ledger'[n].start \in Nat
        BY <3>1, StateFacts
      <4>2. ~(ledger'[n].start < ledger'[n].iters)
        BY <3>1, <4>1
      <4>3. QED
        BY <2>3, <3>1, <4>2
    <3>5. \A i \in 1..Len(Log) : saw'[<<Log[i].node, Log[i].step>>] = SubSeq(Log, 1, i - 1)
      BY <1>1, <1>6, DurableFacts
    <3>6. "agent" \in Points /\ durable' = durable
      BY <1>1, <1>3
    <3>7. ShownLog(ledger', saw', Log) /\ ShownPrefix(saw', Log)
      BY <3>4, <3>5 DEF ShownLog, ShownPrefix
    <3>8. PICK h : h = Log
      OBVIOUS
    <3>9. QED
      BY <1>1, <1>6, <3>1, <3>2, <3>3, <3>6, <3>7, <3>8, LedgerStep
  <2>4. QED
    BY <1>6, <2>1, <2>2, <2>3, PrepareFacts
<1>7. QED
  BY <1>4, <1>5, <1>6 DEF Prepare, Goto, LockDuringTurn

\* What is before a place of a sequence stays when the sequence is appended to.
LEMMA PrefixAppend ==
    ASSUME NEW T, NEW h \in Seq(T), NEW t \in T, NEW k \in 0..Len(h)
    PROVE  SubSeq(Append(h, t), 1, k) = SubSeq(h, 1, k) /\ SubSeq(h, 1, Len(h)) = h
<1>1. Len(h) \in Nat /\ h \in [1..Len(h) -> T]
  BY LenProperties
<1>2. /\ Append(h, t) \in Seq(T) /\ Len(Append(h, t)) = Len(h) + 1
      /\ \A i \in 1..Len(h) : Append(h, t)[i] = h[i]
  BY AppendProperties
<1> DEFINE g == Append(h, t)
<1> HIDE DEF g
<1>3. /\ SubSeq(g, 1, k) = [i \in 1..k |-> g[i]]
      /\ SubSeq(h, 1, k) = [i \in 1..k |-> h[i]]
      /\ SubSeq(h, 1, Len(h)) = [i \in 1..Len(h) |-> h[i]]
  BY <1>1, <1>2 DEF g
<1>4. \A i \in 1..k : g[i] = h[i]
  BY <1>1, <1>2 DEF g
<1>5. QED
  BY <1>1, <1>3, <1>4 DEF g

\* The history without a ledger, and where its turns come from.
LEMMA MemoryFacts ==
    ASSUME TurnsIInv, ~durable, phase = "running"
    PROVE  /\ history.turns \in Seq(Turns) /\ Len(history.turns) \in Nat
           /\ DOMAIN history.turns = 1..Len(history.turns)
           /\ \A i \in 1..Len(history.turns) : history.turns[i] \in Turns
           /\ Accepted = history.turns
           /\ \A i \in 1..Len(history.turns) :
                 saw[<<history.turns[i].node, history.turns[i].step>>] = SubSeq(history.turns, 1, i - 1)
           /\ \A i \in 1..Len(history.turns) :
                 history.turns[i].step = step => pc[history.turns[i].node] = "done"
           /\ step \in Steps
<1>1. history.turns \in Seq(Turns) /\ step \in Steps
  BY DEF TurnsIInv, TurnTypes
<1>2. /\ Len(history.turns) \in Nat /\ DOMAIN history.turns = 1..Len(history.turns)
      /\ \A i \in 1..Len(history.turns) : history.turns[i] \in Turns
  BY <1>1, SeqFacts
<1>3. Accepted = history.turns
  BY DEF Accepted
<1>4. \A i \in 1..Len(history.turns) :
          saw[<<history.turns[i].node, history.turns[i].step>>] = SubSeq(history.turns, 1, i - 1)
  BY <1>2, <1>3 DEF TurnsIInv, AnsweredFromItsPrefix
<1>5. ASSUME NEW i \in 1..Len(history.turns), history.turns[i].step = step
      PROVE  pc[history.turns[i].node] = "done"
  <2>1. ~(step < step)
    BY <1>1, SharedAssumption DEF Steps
  <2>2. QED
    BY <1>5, <2>1 DEF TurnsIInv, MemoryInv
<1>6. QED
  BY <1>1, <1>2, <1>3, <1>4, <1>5

\* No visit but that of the lock's holder is between its preparation and its answer.
LEMMA ModelTurnStep ==
    ASSUME TurnsIInv, NEW n \in Nodes, ModelTurn(n)
    PROVE  TurnsIInv'
<1> DEFINE v == <<n, step>>
<1>1. /\ phase = "running" /\ pc[n] = "agent" /\ ~Replays(n)
      /\ UNCHANGED <<durable, phase, step, frontier, saved, history, lock>>
      /\ calls' = [calls EXCEPT ![v] = @ + 1] /\ saw' = [saw EXCEPT ![v] = history.turns]
  BY DEF ModelTurn
<1>2. PICK finishes \in BOOLEAN :
         /\ ledger' = IF ~durable THEN ledger
                      ELSE [ledger EXCEPT ![n].iters = @ + 1,
                              ![n].finish = IF finishes THEN Output(n) ELSE None,
                              ![n].finishes = IF finishes THEN Append(@, Output(n)) ELSE @]
         /\ IF finishes THEN Goto(n, "accept") ELSE UNCHANGED pc
  BY DEF ModelTurn
<1>3. /\ step \in Steps /\ v \in Visits /\ history.turns \in Seq(Turns)
      /\ pc \in [Nodes -> Points]
  BY <1>1 DEF TurnsIInv, TurnTypes, Visits
<1>4. PICK w \in {"agent", "accept"} : /\ pc' = [pc EXCEPT ![n] = w] /\ (w = "accept" <=> finishes)
  <2>1. CASE finishes
    BY <1>2, <2>1 DEF Goto
  <2>2. CASE ~finishes
    <3>1. pc' = [pc EXCEPT ![n] = "agent"]
      BY <1>1, <1>2, <1>3, <2>2
    <3>2. QED
      BY <2>2, <3>1
  <2>3. QED
    BY <2>1, <2>2
<1>5. /\ saw' \in [Visits -> Seq(Turns) \cup {None}] /\ calls' \in [Visits -> Nat]
      /\ saw'[v] = history.turns /\ \A u \in Visits : u # v => saw'[u] = saw[u]
  <2>1. saw \in [Visits -> Seq(Turns) \cup {None}] /\ calls \in [Visits -> Nat]
    BY DEF TurnsIInv, TurnTypes
  <2> HIDE DEF v
  <2>2. QED
    BY <1>1, <1>3, <2>1
<1>6. Output(n) \in Outputs
  BY <1>3 DEF Output, Outputs
<1>7. CASE durable
  <2>1. /\ ledger \in [Nodes -> LoopStates] /\ LedgerValid(ledger, Log) /\ Log \in Seq(Turns)
        /\ \A i \in 1..Len(Log) : Log[i] \in Turns
    BY <1>7, DurableFacts
  <2>2. n \in frontier /\ saved = [step |-> step, pending |-> frontier] /\ Generation
    BY <1>1, <1>7 DEF TurnsIInv, TurnTypes, DurableInv, Generation
  <2>3. ledger[n].owner = step
    BY <2>2 DEF Generation
  <2>4. ~Finishes(ledger[n])
    BY <1>1, <1>7 DEF Replays, Finishes
  <2>5. ~Answered(ledger[n])
    BY <2>1, <2>4, AnsweredFacts
  <2>6. Waits(ledger[n])
    BY <1>1, <1>7, <2>5 DEF TurnsIInv, DurableInv, Progress
  <2>7. history.turns = Log
    BY <1>1, <1>7 DEF TurnsIInv, DurableInv
  <2>8. PICK f, fs :
            /\ \/ f = None /\ fs = ledger[n].finishes /\ w = "agent"
               \/ f \in Outputs /\ fs = Append(ledger[n].finishes, f)
            /\ ledger' = AskedLedger(ledger, n, f, fs)
    <3>1. CASE finishes
      <4>1. ledger' = AskedLedger(ledger, n, Output(n), Append(ledger[n].finishes, Output(n)))
        BY <1>2, <1>7, <2>1, <3>1 DEF AskedLedger
      <4>2. QED
        BY <1>6, <4>1
    <3>2. CASE ~finishes
      <4>1. ledger' = AskedLedger(ledger, n, None, ledger[n].finishes)
        BY <1>2, <1>7, <2>1, <3>2 DEF AskedLedger
      <4>2. QED
        BY <1>4, <3>2, <4>1
    <3>3. QED
      BY <3>1, <3>2
  <2>9. /\ ledger' \in [Nodes -> LoopStates] /\ LedgerValid(ledger', Log)
        /\ \A m \in Nodes : m # n => ledger'[m] = ledger[m]
        /\ Waits(ledger'[n]) /\ ledger'[n].owner = ledger[n].owner /\ ledger'[n].finish = f
    BY <2>1, <2>4, <2>6, <2>8, AskedValid
  <2>10. w = "accept" => Finishes(ledger'[n])
    BY <2>8, <2>9, NoneAssumption DEF Finishes
  <2>11. ASSUME NEW m \in Nodes, Waits(ledger'[m]), ledger'[m].start < ledger'[m].iters
         PROVE  saw'[<<m, ledger'[m].owner>>] = Log
    <3>1. m = n
      BY <2>9, <2>11 DEF LedgerValid
    <3>2. QED
      BY <1>5, <2>3, <2>7, <2>9, <3>1
  <2>12. ASSUME NEW i \in 1..Len(Log)
         PROVE  saw'[<<Log[i].node, Log[i].step>>] = SubSeq(Log, 1, i - 1)
    <3>1. Log[i] \in AllTurns(ledger)
      BY <2>1, SeqFacts DEF LedgerValid, IsLog
    <3>2. Log[i].node \in Nodes /\ Log[i].step \in Steps
      BY <2>1 DEF Turns
    <3>3. <<Log[i].node, Log[i].step>> # v
      <4> SUFFICES ASSUME Log[i].node = n, Log[i].step = step PROVE FALSE
        OBVIOUS
      <4>1. PICK j \in 1..Len(ledger[n].turns) : ledger[n].turns[j] = Log[i]
        BY <2>1, <3>1, TurnOwner
      <4>2. step < step
        BY <2>1, <2>3, <2>5, <4>1, AnsweredFacts
      <4>3. QED
        BY <1>3, <4>2, SharedAssumption DEF Steps
    <3>4. saw'[<<Log[i].node, Log[i].step>>] = saw[<<Log[i].node, Log[i].step>>]
      BY <1>5, <3>2, <3>3 DEF Visits
    <3>5. QED
      BY <1>7, <3>4, DurableFacts
  <2>13. history' \in [turns : Seq(Turns), pending : Nodes \cup {None}] /\ history'.turns = Log
    BY <1>1, <2>7 DEF TurnsIInv, TurnTypes
  <2>14. w \in Points /\ pc[n] # "idle"
    BY <1>1 DEF Points
  <2>15. PICK h : h = Log
    OBVIOUS
  <2>16. /\ LedgerValid(ledger', h) /\ history'.turns = h
         /\ ShownLog(ledger', saw', h) /\ ShownPrefix(saw', h)
    BY <2>9, <2>11, <2>12, <2>13, <2>15 DEF ShownLog, ShownPrefix
  <2>17. /\ UNCHANGED <<durable, phase, step, frontier, saved>>
         /\ phase = "running" /\ pc' = [pc EXCEPT ![n] = w] /\ w # "done"
         /\ saw' \in [Visits -> Seq(Turns) \cup {None}] /\ calls' \in [Visits -> Nat]
    BY <1>1, <1>4, <1>5
  <2>18. /\ ledger' \in [Nodes -> LoopStates] /\ Waits(ledger'[n])
         /\ \A m \in Nodes : m # n => ledger'[m] = ledger[m]
         /\ ledger'[n].owner = ledger[n].owner
    BY <2>9
  <2>19. QED
    BY <1>7, <2>10, <2>13, <2>14, <2>16, <2>17, <2>18, LedgerStep
<1>8. CASE ~durable
  <2>1. ledger' = ledger
    BY <1>2, <1>8
  <2>2. pc' \in [Nodes -> Points] /\ pc'[n] = w /\ \A m \in Nodes \ {n} : pc'[m] = pc[m]
    BY <1>3, <1>4 DEF Points
  <2>3. TurnTypes'
    BY <1>1, <1>5, <2>1, <2>2 DEF TurnsIInv, TurnTypes
  <2>4. DurableInv'
    BY <1>1, <1>8 DEF DurableInv
  <2>5. ASSUME NEW i \in 1..Len(history.turns)
        PROVE  /\ <<history.turns[i].node, history.turns[i].step>> \in Visits
               /\ <<history.turns[i].node, history.turns[i].step>> # v
    BY <1>1, <1>8, MemoryFacts DEF Turns, Visits
  <2>6. AnsweredFromItsPrefix'
    <3>1. Accepted' = history.turns
      BY <1>1, <1>8 DEF Accepted
    <3>2. ASSUME NEW i \in DOMAIN history.turns
          PROVE  saw'[<<history.turns[i].node, history.turns[i].step>>] = SubSeq(history.turns, 1, i - 1)
      BY <1>1, <1>5, <1>8, <2>5, MemoryFacts
    <3>3. QED
      BY <3>1, <3>2 DEF AnsweredFromItsPrefix
  <2>7. MemoryInv'
    <3>1. lock = n
      BY <1>1, <1>8 DEF TurnsIInv, MemoryInv
    <3>2. \A m \in Nodes : pc'[m] \in {"prepare", "agent", "accept"} => m = n
      BY <1>8, <2>2, <3>1 DEF TurnsIInv, MemoryInv
    <3>3. \A m \in Nodes : pc[m] = "done" => pc'[m] = "done"
      BY <1>1, <2>2
    <3>4. \A i \in 1..Len(history.turns) :
            \/ history.turns[i].step < step
            \/ /\ history.turns[i].step = step /\ phase = "running"
               /\ pc'[history.turns[i].node] = "done"
      <4>1. \A i \in 1..Len(history.turns) : history.turns[i].node \in Nodes
        BY <1>1, <1>8, MemoryFacts DEF Turns
      <4>2. QED
        BY <1>1, <1>8, <3>3, <4>1 DEF TurnsIInv, MemoryInv
    <3>5. QED
      BY <1>1, <1>5, <1>8, <3>1, <3>2, <3>4 DEF MemoryInv
  <2>8. QED
    BY <2>3, <2>4, <2>6, <2>7 DEF TurnsIInv
<1>9. QED
  BY <1>7, <1>8

LEMMA HistoryFacts ==
    ASSUME NEW l, NEW h, IsLog(l, h)
    PROVE  /\ History(l).turns = h
           /\ History(l) \in [turns : Seq(Turns), pending : Nodes \cup {None}]
<1>1. SortedTurns(l) = h /\ h \in Seq(Turns)
  BY SortedIsLog DEF IsLog
<1> DEFINE p == IF PendingNodes(l) = {} THEN None ELSE CHOOSE n \in PendingNodes(l) : TRUE
<1>2. p \in Nodes \cup {None}
  <2>1. PendingNodes(l) \subseteq Nodes
    BY DEF PendingNodes
  <2>2. PendingNodes(l) # {} => (CHOOSE n \in PendingNodes(l) : TRUE) \in PendingNodes(l)
    OBVIOUS
  <2>3. QED
    BY <2>1, <2>2
<1>3. History(l) = [turns |-> h, pending |-> p]
  BY <1>1 DEF History
<1> HIDE DEF p
<1>4. QED
  BY <1>1, <1>2, <1>3

\* An answer of a durable run is appended to the log it was shown.
LEMMA AcceptDurable ==
    ASSUME TurnsIInv, NEW n \in Nodes, durable, phase = "running", pc[n] = "accept",
           UNCHANGED <<durable, phase, step, frontier, saved, saw, calls>>,
           ledger' = AcceptShared(ledger, n, ledger[n].finish),
           history' = History(ledger'), pc' = [pc EXCEPT ![n] = "done"]
    PROVE  TurnsIInv'
<1>1. /\ ledger \in [Nodes -> LoopStates] /\ LedgerValid(ledger, Log)
      /\ Log \in Seq(Turns) /\ Len(Log) \in Nat
      /\ \A i \in 1..Len(Log) : saw[<<Log[i].node, Log[i].step>>] = SubSeq(Log, 1, i - 1)
  BY DurableFacts
<1>2. Finishes(ledger[n])
  BY DEF TurnsIInv, DurableInv, Progress
<1>3. saw' \in [Visits -> Seq(Turns) \cup {None}] /\ calls' \in [Visits -> Nat]
  BY DEF TurnsIInv, TurnTypes
<1>4. "done" \in Points /\ pc[n] # "idle"
  BY DEF Points
<1>5. CASE Answered(ledger[n]) /\ ledger' = ledger
  <2>1. PICK h : h = Log
    OBVIOUS
  <2>2. /\ ledger' \in [Nodes -> LoopStates] /\ LedgerValid(ledger', h) /\ IsLog(ledger', h)
        /\ \A m \in Nodes : m # n => ledger'[m] = ledger[m]
        /\ ledger'[n].owner = ledger[n].owner /\ Answered(ledger'[n])
    BY <1>1, <1>5, <2>1 DEF LedgerValid
  <2>3. /\ history' \in [turns : Seq(Turns), pending : Nodes \cup {None}]
        /\ history'.turns = h
    BY <2>2, HistoryFacts
  <2>4. ShownLog(ledger', saw', h)
    BY <1>5, <2>1 DEF TurnsIInv, DurableInv, ShownLog
  <2>5. ShownPrefix(saw', h)
    BY <1>1, <2>1 DEF ShownPrefix
  <2>6. QED
    BY <1>3, <1>4, <2>2, <2>3, <2>4, <2>5, LedgerStep
<1>6. CASE ~Answered(ledger[n]) /\ Waits(ledger[n]) /\ ledger' = AcceptedLedger(ledger, n)
  <2>1. PICK t, h : t = NewTurn(ledger, n) /\ h = Append(Log, t)
    OBVIOUS
  <2>2. /\ ledger' \in [Nodes -> LoopStates] /\ LedgerValid(ledger', h) /\ IsLog(ledger', h)
        /\ \A m \in Nodes : m # n => ledger'[m] = ledger[m]
        /\ ledger'[n].owner = ledger[n].owner /\ Answered(ledger'[n])
        /\ \A m \in Nodes : ~Waits(ledger'[m])
        /\ t \in Turns
    BY <1>1, <1>2, <1>6, <2>1, AcceptedValid DEF LedgerValid
  <2>3. /\ history' \in [turns : Seq(Turns), pending : Nodes \cup {None}]
        /\ history'.turns = h
    BY <2>2, HistoryFacts
  <2>4. t.node = n /\ t.step = ledger[n].owner
    BY <2>1 DEF NewTurn, Turn
  <2>5. saw[<<n, ledger[n].owner>>] = Log
    <3>1. ledger[n].start < ledger[n].iters
      BY <1>1, <1>2 DEF LedgerValid, NodeValid
    <3>2. QED
      BY <1>6, <3>1 DEF TurnsIInv, DurableInv
  <2>6. ASSUME NEW i \in 1..Len(h)
        PROVE  saw'[<<h[i].node, h[i].step>>] = SubSeq(h, 1, i - 1)
    <3>1. /\ Len(h) = Len(Log) + 1 /\ h[Len(Log) + 1] = t
          /\ \A j \in 1..Len(Log) : h[j] = Log[j]
      BY <1>1, <2>1, <2>2, AppendProperties
    <3>2. i \in 1..Len(Log) \/ i = Len(Log) + 1
      BY <1>1, <3>1
    <3>3. CASE i \in 1..Len(Log)
      <4>1. i - 1 \in 0..Len(Log)
        BY <1>1, <3>3
      <4>2. SubSeq(h, 1, i - 1) = SubSeq(Log, 1, i - 1)
        BY <1>1, <2>1, <2>2, <4>1, PrefixAppend
      <4>3. QED
        BY <1>1, <3>1, <3>3, <4>2
    <3>4. CASE i = Len(Log) + 1
      <4>1. i - 1 = Len(Log) /\ Len(Log) \in 0..Len(Log)
        BY <1>1, <3>4
      <4>2. SubSeq(h, 1, Len(Log)) = SubSeq(Log, 1, Len(Log)) /\ SubSeq(Log, 1, Len(Log)) = Log
        BY <1>1, <2>1, <2>2, <4>1, PrefixAppend
      <4>3. h[i] = t
        BY <3>1, <3>4
      <4>4. QED
        BY <2>4, <2>5, <4>1, <4>2, <4>3
    <3>5. QED
      BY <3>2, <3>3, <3>4
  <2>7. ShownLog(ledger', saw', h) /\ ShownPrefix(saw', h)
    BY <2>2, <2>6 DEF ShownLog, ShownPrefix
  <2>8. QED
    BY <1>3, <1>4, <2>2, <2>3, <2>7, LedgerStep
<1>7. QED
  BY <1>1, <1>2, <1>5, <1>6, AcceptFacts

\* Without a ledger it is appended to the history the lock has kept.
LEMMA AcceptInMemory ==
    ASSUME TurnsIInv, NEW n \in Nodes, ~durable, phase = "running", pc[n] = "accept",
           UNCHANGED <<durable, phase, step, frontier, saved, saw, calls, ledger>>,
           history' = [history EXCEPT !.turns = Append(@, Turn(n, step, Len(@), Output(n)))],
           pc' = [pc EXCEPT ![n] = "done"]
    PROVE  TurnsIInv'
<1> DEFINE old == history.turns
           t == Turn(n, step, Len(old), Output(n))
           new == Append(old, t)
<1>1. /\ old \in Seq(Turns) /\ Len(old) \in Nat /\ step \in Steps
      /\ \A i \in 1..Len(old) : old[i] \in Turns
      /\ \A i \in 1..Len(old) : saw[<<old[i].node, old[i].step>>] = SubSeq(old, 1, i - 1)
  BY MemoryFacts
<1>2. t \in Turns /\ t.node = n /\ t.step = step
  BY <1>1 DEF Turn, Turns, Output, Outputs
<1>3. /\ history' \in [turns : Seq(Turns), pending : Nodes \cup {None}]
      /\ history'.turns = new
  <2>1. history \in [turns : Seq(Turns), pending : Nodes \cup {None}]
    BY DEF TurnsIInv, TurnTypes
  <2>2. new \in Seq(Turns)
    BY <1>1, <1>2, AppendProperties
  <2>3. history' = [history EXCEPT !.turns = new]
    OBVIOUS
  <2> HIDE DEF new
  <2>4. QED
    BY <2>1, <2>2, <2>3
<1> HIDE DEF t
<1>4. /\ new \in Seq(Turns) /\ Len(new) = Len(old) + 1 /\ new[Len(old) + 1] = t
      /\ \A i \in 1..Len(old) : new[i] = old[i]
  BY <1>1, <1>2, AppendProperties
<1>5. saw[<<n, step>>] = old /\ lock = n
  BY DEF TurnsIInv, MemoryInv
<1>6. pc' \in [Nodes -> Points] /\ pc'[n] = "done" /\ \A m \in Nodes \ {n} : pc'[m] = pc[m]
  BY DEF TurnsIInv, TurnTypes, Points
<1>7. \A i \in 1..Len(new) : (i \in 1..Len(old) /\ new[i] = old[i]) \/ (i = Len(old) + 1 /\ new[i] = t)
  <2>1. \A i \in 1..Len(old) + 1 : i \in 1..Len(old) \/ i = Len(old) + 1
    BY <1>1
  <2>2. QED
    BY <1>4, <2>1
<1>8. TurnTypes'
  BY <1>3, <1>6 DEF TurnsIInv, TurnTypes
<1>9. DurableInv'
  BY DEF DurableInv
<1>10. MemoryInv'
  <2>1. \A m \in Nodes : pc'[m] \notin {"prepare", "agent", "accept"}
    BY <1>5, <1>6 DEF TurnsIInv, MemoryInv
  <2>2. ASSUME NEW i \in 1..Len(new)
        PROVE  \/ new[i].step < step
               \/ new[i].step = step /\ pc'[new[i].node] = "done"
    <3>1. CASE i \in 1..Len(old) /\ new[i] = old[i]
      <4>1. old[i].node \in Nodes
        BY <1>1, <3>1 DEF Turns
      <4>2. old[i].step < step \/ (old[i].step = step /\ pc[old[i].node] = "done")
        BY <3>1 DEF TurnsIInv, MemoryInv
      <4>3. QED
        BY <1>6, <3>1, <4>1, <4>2
    <3>2. CASE i = Len(old) + 1 /\ new[i] = t
      BY <1>2, <1>6, <3>2
    <3>3. QED
      BY <1>7, <3>1, <3>2
  <2> HIDE DEF new
  <2>3. QED
    BY <1>3, <2>1, <2>2 DEF MemoryInv
<1>11. AnsweredFromItsPrefix'
  <2>1. Accepted' = new /\ DOMAIN new = 1..Len(new)
    BY <1>3, <1>4, SeqFacts DEF Accepted
  <2>2. ASSUME NEW i \in 1..Len(new)
        PROVE  saw'[<<new[i].node, new[i].step>>] = SubSeq(new, 1, i - 1)
    <3>1. CASE i \in 1..Len(old) /\ new[i] = old[i]
      <4>1. i - 1 \in 0..Len(old)
        BY <1>1, <3>1
      <4>2. SubSeq(new, 1, i - 1) = SubSeq(old, 1, i - 1)
        BY <1>1, <1>2, <4>1, PrefixAppend
      <4>3. QED
        BY <1>1, <3>1, <4>2
    <3>2. CASE i = Len(old) + 1 /\ new[i] = t
      <4>1. i - 1 = Len(old) /\ Len(old) \in 0..Len(old)
        BY <1>1, <3>2
      <4>2. SubSeq(new, 1, Len(old)) = SubSeq(old, 1, Len(old)) /\ SubSeq(old, 1, Len(old)) = old
        BY <1>1, <1>2, <4>1, PrefixAppend
      <4>3. QED
        BY <1>2, <1>5, <3>2, <4>1, <4>2
    <3>3. QED
      BY <1>7, <3>1, <3>2
  <2> HIDE DEF new
  <2>3. QED
    BY <2>1, <2>2 DEF AnsweredFromItsPrefix
<1>12. QED
  BY <1>8, <1>9, <1>10, <1>11 DEF TurnsIInv

LEMMA AcceptStep ==
    ASSUME TurnsIInv, NEW n \in Nodes, Accept(n)
    PROVE  TurnsIInv'
<1>1. /\ phase = "running" /\ pc[n] = "accept"
      /\ UNCHANGED <<durable, phase, step, frontier, saved, saw, calls>>
  BY DEF Accept
<1>2. CASE /\ durable /\ ledger' = AcceptShared(ledger, n, ledger[n].finish)
           /\ history' = History(ledger') /\ pc' = [pc EXCEPT ![n] = "done"]
  BY <1>1, <1>2, AcceptDurable
<1>3. CASE /\ ~durable /\ ledger' = ledger /\ pc' = [pc EXCEPT ![n] = "done"]
           /\ history' = [history EXCEPT !.turns = Append(@, Turn(n, step, Len(@), Output(n)))]
  BY <1>1, <1>3, AcceptInMemory
<1>4. CASE durable /\ ledger' = ledger /\ history' = history /\ pc' = [pc EXCEPT ![n] = "unwind"]
  <2>1. "unwind" \in Points \ {"done"}
    BY DEF Points
  <2>2. UNCHANGED <<durable, phase, step, frontier, ledger, saved, history, saw, calls>>
    BY <1>1, <1>4
  <2>3. QED
    BY <1>1, <1>4, <2>1, <2>2, QuietStep
<1>5. QED
  BY <1>2, <1>3, <1>4 DEF Accept, Goto

LEMMA AdmitStep ==
    ASSUME TurnsIInv, TalkInv, AdmitFrontier
    PROVE  TurnsIInv'
<1>1. /\ phase = "admit"
      /\ UNCHANGED <<durable, step, frontier, history, lock, saw, calls>>
      /\ step \in Steps /\ frontier \subseteq Nodes /\ \A n \in Nodes : pc[n] = "idle"
  BY DEF AdmitFrontier, TurnsIInv, TurnTypes
<1> DEFINE entered == [n \in Nodes |-> IF n \in frontier THEN "acquire" ELSE "idle"]
<1>2. entered \in [Nodes -> Points] /\ \A n \in Nodes : entered[n] \in {"acquire", "idle"}
                                    /\ (entered[n] # "idle" => n \in frontier)
  BY DEF Points
<1> HIDE DEF entered
<1>3. CASE durable
  <2> DEFINE k == AdmitFrontierLedger(ledger, frontier, step)
  <2>1. ledger \in [Nodes -> LoopStates] /\ LedgerValid(ledger, Log) /\ Generation
    BY <1>3, DurableFacts DEF TurnsIInv, DurableInv
  <2>2. \/ saved.step < step /\ \A n \in Nodes : Settled(ledger[n])
        \/ saved.step = step /\ saved.pending = frontier
    BY <1>1, <2>1 DEF Generation
  <2>3. \A n \in Nodes : ledger[n].owner <= step
    <3>1. \A n \in Nodes : ledger[n].owner \in Int /\ ledger[n].owner <= saved.step
      BY <2>1, StateFacts, SharedAssumption DEF Generation
    <3>2. saved.step \in Int /\ step \in Int
      BY <1>1, SharedAssumption DEF TurnsIInv, TurnTypes, Steps
    <3>3. saved.step <= step
      BY <2>2, <3>2
    <3>4. QED
      BY <3>1, <3>2, <3>3
  <2>4. \A n \in frontier : ledger[n].owner # step => Settled(ledger[n])
    BY <1>1, <2>1, <2>2 DEF Generation
  <2>5. /\ k # None /\ k \in [Nodes -> LoopStates] /\ LedgerValid(k, Log)
        /\ \A n \in frontier : k[n].owner = step
        /\ \A n \in Nodes \ frontier : k[n] = ledger[n]
        /\ \A n \in Nodes : Waits(k[n]) => k[n] = ledger[n]
    <3>1. /\ step \in Steps /\ frontier \subseteq Nodes
          /\ ledger \in [Nodes -> LoopStates] /\ LedgerValid(ledger, Log)
      BY <1>1, <2>1
    <3>2. Admissible(ledger, frontier, step)
      BY <2>3, <2>4 DEF Admissible
    <3>3. QED
      BY <3>1, <3>2, AdmittedValid
  <2>6. /\ phase' = "running" /\ ledger' = k /\ saved' = [step |-> step, pending |-> frontier]
        /\ pc' = entered
    <3>1. ~CallsOpen(ledger, talk, frontier, step)
      BY <1>1, <1>3, NoCallsOpen
    <3>2. QED
      BY <1>3, <2>5, <3>1 DEF AdmitFrontier, entered
  <2> HIDE DEF k
  <2>7. TurnTypes'
    <3>1. step \in 0..MaxStep
      BY <1>1, SharedAssumption DEF Steps
    <3>2. saved' \in [step : 0..MaxStep, pending : SUBSET Nodes]
      BY <1>1, <2>6, <3>1
    <3>3. QED
      BY <1>1, <1>2, <2>5, <2>6, <3>2 DEF TurnsIInv, TurnTypes
  <2>8. Log' = Log
    BY <2>5, <2>6, SortedIsLog DEF LedgerValid, Log
  <2>9. Generation'
    <3>1. \A n \in Nodes \ frontier : Settled(k[n])
      BY <2>1, <2>2, <2>5 DEF Generation
    <3>2. \A n \in Nodes : k[n].owner <= step
      <4>1. step <= step
        BY <1>1, SharedAssumption DEF Steps
      <4>2. QED
        BY <2>3, <2>5, <4>1
    <3>3. QED
      BY <1>1, <2>5, <2>6, <3>1, <3>2 DEF Generation
  <2>10. Progress'
    BY <1>2, <2>6 DEF Progress
  <2>11. history.turns = Log
    BY <1>1, <1>3 DEF TurnsIInv, DurableInv
  <2>12. \A n \in Nodes : Waits(ledger'[n]) /\ ledger'[n].start < ledger'[n].iters =>
              saw'[<<n, ledger'[n].owner>>] = Log
    BY <1>1, <1>3, <2>5, <2>6 DEF TurnsIInv, DurableInv
  <2>13. DurableInv'
    BY <1>1, <2>5, <2>6, <2>8, <2>9, <2>10, <2>11, <2>12 DEF DurableInv
  <2>14. MemoryInv'
    BY <1>1, <1>3 DEF MemoryInv
  <2>15. AnsweredFromItsPrefix'
    <3>1. Accepted' = Accepted
      BY <1>1, <1>3, <2>8 DEF Accepted, Log
    <3>2. QED
      BY <1>1, <3>1 DEF TurnsIInv, AnsweredFromItsPrefix
  <2>16. QED
    BY <2>7, <2>13, <2>14, <2>15 DEF TurnsIInv
<1>4. CASE ~durable
  <2>1. phase' = "running" /\ ledger' = ledger /\ saved' = saved /\ pc' = entered
    BY <1>4 DEF AdmitFrontier, entered
  <2>2. TurnTypes'
    BY <1>1, <1>2, <2>1 DEF TurnsIInv, TurnTypes
  <2>3. DurableInv'
    BY <1>1, <1>4 DEF DurableInv
  <2>4. MemoryInv'
    <3>1. \A i \in 1..Len(history.turns) : history.turns[i].step < step
      BY <1>1, <1>4 DEF TurnsIInv, MemoryInv
    <3>2. QED
      BY <1>1, <1>2, <2>1, <3>1 DEF MemoryInv
  <2>5. AnsweredFromItsPrefix'
    BY <1>1, <1>4 DEF TurnsIInv, AnsweredFromItsPrefix, Accepted
  <2>6. QED
    BY <2>2, <2>3, <2>4, <2>5 DEF TurnsIInv
<1>5. QED
  BY <1>3, <1>4 DEF TurnsIInv, TurnTypes

LEMMA AdvanceStep ==
    ASSUME TurnsIInv, Advance
    PROVE  TurnsIInv'
<1>1. /\ phase = "running" /\ \A n \in frontier : pc[n] = "done"
      /\ UNCHANGED <<durable, ledger, saved, history, saw, calls>>
      /\ pc' = [n \in Nodes |-> "idle"]
      /\ step \in Steps /\ frontier \subseteq Nodes
  BY DEF Advance, TurnsIInv, TurnTypes
<1>2. \/ /\ phase' = "admit" /\ step' = step + 1 /\ step < MaxStep /\ frontier' \subseteq Nodes
      \/ phase' = "ended" /\ step' = step /\ frontier' = frontier
  BY DEF Advance
<1>3. pc' \in [Nodes -> Points] /\ \A n \in Nodes : pc'[n] = "idle"
  BY <1>1 DEF Points
<1>4. step' \in Steps /\ step < step + 1 /\ step \in Int
  BY <1>1, <1>2, SharedAssumption DEF Steps
<1>5. TurnTypes'
  <2>1. step' \in 0..MaxStep
    BY <1>4, SharedAssumption DEF Steps
  <2>2. QED
    BY <1>1, <1>2, <1>3, <1>4, <2>1 DEF TurnsIInv, TurnTypes
<1>6. Log' = Log
  BY <1>1 DEF Log
<1>7. durable => Generation'
  <2> SUFFICES ASSUME durable PROVE Generation'
    OBVIOUS
  <2>1. /\ ledger \in [Nodes -> LoopStates] /\ LedgerValid(ledger, Log)
        /\ Generation /\ Progress /\ saved = [step |-> step, pending |-> frontier]
    BY <1>1, DurableFacts DEF TurnsIInv, DurableInv, Generation
  <2>2. \A n \in Nodes : Settled(ledger[n])
    <3>1. \A n \in frontier : Answered(ledger[n])
      BY <1>1, <2>1 DEF Progress
    <3>2. \A n \in frontier : Settled(ledger[n])
      BY <1>1, <2>1, <3>1, AnsweredFacts DEF Settled
    <3>3. QED
      BY <2>1, <3>2 DEF Generation
  <2>3. QED
    BY <1>1, <1>2, <1>4, <2>1, <2>2 DEF Generation
<1>8. Progress'
  BY <1>3 DEF Progress
<1>9. DurableInv'
  BY <1>1, <1>2, <1>6, <1>7, <1>8 DEF TurnsIInv, DurableInv
<1>10. MemoryInv'
  <2> SUFFICES ASSUME ~durable PROVE MemoryInv'
    BY <1>1 DEF MemoryInv
  <2>1. phase' = "admit" => \A i \in 1..Len(history.turns) : history.turns[i].step < step'
    <3> SUFFICES ASSUME phase' = "admit", NEW i \in 1..Len(history.turns)
                 PROVE  history.turns[i].step < step'
      OBVIOUS
    <3>1. history.turns[i].step \in Int
      BY <1>1, MemoryFacts, SharedAssumption DEF Turns, Steps
    <3>2. history.turns[i].step < step \/ history.turns[i].step = step
      BY <1>1 DEF TurnsIInv, MemoryInv
    <3>3. QED
      BY <1>2, <1>4, <3>1, <3>2
  <2>2. QED
    BY <1>1, <1>2, <1>3, <2>1 DEF MemoryInv
<1>11. AnsweredFromItsPrefix'
  BY <1>1 DEF TurnsIInv, AnsweredFromItsPrefix, Accepted
<1>12. QED
  BY <1>5, <1>9, <1>10, <1>11 DEF TurnsIInv

LEMMA DownStep ==
    ASSUME TurnsIInv, InvocationFails \/ Crash
    PROVE  TurnsIInv'
<1>1. /\ phase' = "down" /\ step' = saved.step /\ frontier' = saved.pending
      /\ history' = [turns |-> <<>>, pending |-> None]
      /\ pc' = [n \in Nodes |-> "idle"]
      /\ UNCHANGED <<durable, ledger, saved, saw, calls>>
  BY DEF InvocationFails, Crash, Down, Forget
<1>2. pc' \in [Nodes -> Points] /\ \A n \in Nodes : pc'[n] = "idle"
  BY <1>1 DEF Points
<1>3. TurnTypes'
  <2>1. history' \in [turns : Seq(Turns), pending : Nodes \cup {None}]
    BY <1>1
  <2>2. saved.step \in 0..MaxStep /\ saved.pending \subseteq Nodes
    BY DEF TurnsIInv, TurnTypes
  <2>3. QED
    BY <1>1, <1>2, <2>1, <2>2 DEF TurnsIInv, TurnTypes
<1>4. Log' = Log
  BY <1>1 DEF Log
<1>5. durable => Generation'
  BY <1>1 DEF TurnsIInv, DurableInv, Generation
<1>6. Progress'
  BY <1>2 DEF Progress
<1>7. DurableInv'
  BY <1>1, <1>4, <1>5, <1>6 DEF TurnsIInv, DurableInv
<1>8. MemoryInv'
  BY <1>1, <1>2 DEF MemoryInv
<1>9. AnsweredFromItsPrefix'
  <2>1. CASE durable
    BY <1>1, <2>1 DEF TurnsIInv, AnsweredFromItsPrefix, Accepted
  <2>2. CASE ~durable
    <3>1. Accepted' = <<>>
      BY <1>1, <2>2 DEF Accepted
    <3>2. QED
      BY <3>1 DEF AnsweredFromItsPrefix
  <2>3. QED
    BY <2>1, <2>2
<1>10. QED
  BY <1>3, <1>7, <1>8, <1>9 DEF TurnsIInv

LEMMA ResumeStep ==
    ASSUME TurnsIInv, Resume
    PROVE  TurnsIInv'
<1>1. /\ phase = "down" /\ durable /\ saved.step # 0 /\ phase' \in {"admit", "down", "refused"}
      /\ history' = IF phase' = "admit" THEN History(ledger) ELSE history
      /\ UNCHANGED <<durable, step, frontier, ledger, saved, lock, pc, saw, calls>>
  BY DEF Resume
<1>2. LedgerValid(ledger, Log) /\ Generation
  BY <1>1, DurableFacts DEF TurnsIInv, DurableInv
<1>3. History(ledger).turns = Log
      /\ History(ledger) \in [turns : Seq(Turns), pending : Nodes \cup {None}]
  BY <1>2, HistoryFacts DEF LedgerValid
<1>4. step = saved.step /\ frontier = saved.pending /\ step \in Steps
  BY <1>1, <1>2, SharedAssumption DEF Generation, TurnsIInv, TurnTypes, Steps
<1>5. TurnTypes'
  BY <1>1, <1>3, <1>4 DEF TurnsIInv, TurnTypes
<1>6. Log' = Log
  BY <1>1 DEF Log
<1>7. Generation'
  BY <1>1, <1>2, <1>4 DEF Generation
<1>8. Progress'
  BY <1>1 DEF TurnsIInv, DurableInv, Progress
<1>9. DurableInv'
  BY <1>1, <1>3, <1>6, <1>7, <1>8 DEF TurnsIInv, DurableInv
<1>10. MemoryInv'
  BY <1>1 DEF MemoryInv
<1>11. AnsweredFromItsPrefix'
  BY <1>1 DEF TurnsIInv, AnsweredFromItsPrefix, Accepted
<1>12. QED
  BY <1>5, <1>9, <1>10, <1>11 DEF TurnsIInv

LEMMA SameTurnsIInv ==
    ASSUME TurnsIInv,
           UNCHANGED <<durable, phase, step, frontier, ledger, saved, history, lock, pc, saw, calls>>
    PROVE  TurnsIInv'
<1>1. TurnTypes'
  BY DEF TurnsIInv, TurnTypes
<1>2. DurableInv'
  BY DEF TurnsIInv, DurableInv, Log, Generation, Progress
<1>3. MemoryInv'
  BY DEF TurnsIInv, MemoryInv
<1>4. AnsweredFromItsPrefix'
  BY DEF TurnsIInv, AnsweredFromItsPrefix, Accepted
<1>5. QED
  BY <1>1, <1>2, <1>3, <1>4 DEF TurnsIInv

LEMMA TurnsNext == TurnsIInv /\ TalkInv /\ [Next]_vars => TurnsIInv'
<1> SUFFICES ASSUME TurnsIInv, TalkInv, [Next]_vars PROVE TurnsIInv'
  OBVIOUS
<1>1. CASE AdmitFrontier
  BY <1>1, AdmitStep
<1>2. CASE Advance
  BY <1>2, AdvanceStep
<1>3. CASE InvocationFails \/ Crash
  BY <1>3, DownStep
<1>4. CASE Resume
  BY <1>4, ResumeStep
<1>5. CASE Cancel \/ UNCHANGED vars
  <2>1. UNCHANGED <<durable, phase, step, frontier, ledger, saved, history, lock, pc, saw, calls>>
    BY <1>5 DEF Cancel, vars, memory
  <2>2. QED
    BY <2>1, SameTurnsIInv
<1>6. ASSUME NEW n \in Nodes, TaskStep(n) PROVE TurnsIInv'
  <2>1. CASE TryEnter(n)
    BY <2>1, TryEnterStep
  <2>2. CASE Park(n) \/ Wake(n) \/ Unwind(n)
    BY <2>2, WaitingStep
  <2>3. CASE Prepare(n)
    BY <2>3, PrepareStep
  <2>4. CASE Replay(n)
    BY <2>4, ReplayStep
  <2>5. CASE ModelTurn(n)
    BY <2>5, ModelTurnStep
  <2>6. CASE AgentFails(n) \/ Confirmation(n) \/ Abandon(n)
    BY <2>6, StoppedStep
  <2>7. CASE Accept(n)
    BY <2>7, AcceptStep
  <2>8. CASE ToolsRespond(n)
    <3>1. UNCHANGED <<durable, phase, step, frontier, ledger, saved, history, lock, pc, saw, calls>>
      BY <2>8 DEF ToolsRespond, memory
    <3>2. QED
      BY <3>1, SameTurnsIInv
  <2>9. QED
    BY <1>6, <2>1, <2>2, <2>3, <2>4, <2>5, <2>6, <2>7, <2>8 DEF TaskStep
<1>7. QED
  BY <1>1, <1>2, <1>3, <1>4, <1>5, <1>6 DEF Next

LEMMA TalkInit == Init => TalkInv
<1> SUFFICES ASSUME Init PROVE TalkInv
  OBVIOUS
<1>1. <<>> \in Seq(BOOLEAN) /\ Len(<<>>) = 0
  OBVIOUS
<1>2. Silence \in Talks
  BY <1>1 DEF Silence, Talks
<1>3. Said(<<>>, 0) = 0
  <2>1. {i \in 1..0 : <<>>[i]} = {}
    OBVIOUS
  <2>2. QED
    BY <2>1, FS_EmptySet DEF Said
<1>4. TalkOK(Blank, Silence)
  BY <1>1, <1>3 DEF TalkOK, Blank, Silence
<1>5. QED
  BY <1>2, <1>4 DEF Init, TalkInv

\* What a conversation is held against: the rest of a loop state may change.
LEMMA KeptOK ==
    ASSUME NEW s, NEW k, NEW t, TalkOK(s, t),
           k.owner = s.owner, k.start = s.start, k.iters = s.iters, k.finish = s.finish
    PROVE  TalkOK(k, t)
BY DEF TalkOK, Finishes

LEMMA TalkNext == TurnsIInv /\ TalkInv /\ [Next]_vars => TalkInv'
<1> SUFFICES ASSUME TurnsIInv, TalkInv, [Next]_vars, durable' PROVE TalkInv'
  BY DEF TalkInv
<1>0. durable
  BY DEF Next, TaskStep, vars, AdmitFrontier, Advance, InvocationFails, Cancel, Crash, Resume,
         TryEnter, Park, Wake, Prepare, Replay, ModelTurn, ToolsRespond, AgentFails, Confirmation,
         Accept, Unwind, Abandon
<1>1. /\ ledger \in [Nodes -> LoopStates] /\ LedgerValid(ledger, Log) /\ talk \in [Nodes -> Talks]
      /\ \A n \in Nodes : TalkOK(ledger[n], talk[n])
  BY <1>0, DurableFacts DEF TalkInv
<1>2. CASE UNCHANGED <<ledger, talk>>
  BY <1>1, <1>2 DEF TalkInv
<1>3. CASE AdmitFrontier
  <2>1. /\ phase = "admit" /\ frontier \subseteq Nodes /\ step \in Steps
    BY <1>3 DEF AdmitFrontier, TurnsIInv, TurnTypes
  <2>2. \A n \in frontier : ledger[n].owner # step => talk[n].call = 0
    BY <1>0, <2>1, NoCallsOpen
  <2>3. CASE UNCHANGED <<ledger, talk>>
    BY <1>2, <2>3
  <2>4. CASE ~UNCHANGED <<ledger, talk>>
    <3>1. /\ ledger' = AdmitFrontierLedger(ledger, frontier, step) /\ ledger' # None
          /\ talk' = AdmitTalk(ledger, talk, frontier, step)
      BY <1>0, <1>3, <2>4 DEF AdmitFrontier
    <3>2. ledger' = [n \in Nodes |-> IF n \in frontier /\ ledger[n].owner # step
                                     THEN AdmitNode(ledger, n, step) ELSE ledger[n]]
      BY <3>1 DEF AdmitFrontierLedger
    <3>3. talk' = [n \in Nodes |-> IF n \in frontier /\ ledger[n].owner # step
                         THEN [talk[n] EXCEPT !.from = Len(talk[n].contents)] ELSE talk[n]]
      BY <3>1 DEF AdmitTalk
    <3>4. ASSUME NEW n \in Nodes PROVE talk'[n] \in Talks /\ TalkOK(ledger'[n], talk'[n])
      <4>1. CASE n \in frontier /\ ledger[n].owner # step
        <5>1. /\ ledger'[n] = AdmitNode(ledger, n, step)
              /\ talk'[n] = [talk[n] EXCEPT !.from = Len(talk[n].contents)]
          BY <3>2, <3>3, <4>1
        <5>2. talk[n] \in Talks /\ talk[n].call = 0
          BY <1>1, <2>2, <4>1
        <5>3. talk'[n] \in Talks /\ TalkOK(AdmitNode(ledger, n, step), talk'[n])
          BY <1>1, <2>1, <5>1, <5>2, AdmittedOK
        <5>4. QED
          BY <5>1, <5>3
      <4>2. CASE ~(n \in frontier /\ ledger[n].owner # step)
        BY <1>1, <3>2, <3>3, <4>2
      <4>3. QED
        BY <4>1, <4>2
    <3>5. talk' \in [Nodes -> Talks]
      BY <3>3, <3>4
    <3>6. QED
      BY <3>4, <3>5 DEF TalkInv
  <2>5. QED
    BY <2>3, <2>4
<1>4. ASSUME NEW n \in Nodes, Prepare(n) \/ Accept(n) PROVE TalkInv'
  <2>1. talk' = talk
    BY <1>4 DEF Prepare, Accept
  <2>2. ASSUME NEW m \in Nodes
        PROVE  /\ ledger'[m].owner = ledger[m].owner /\ ledger'[m].start = ledger[m].start
               /\ ledger'[m].iters = ledger[m].iters /\ ledger'[m].finish = ledger[m].finish
    <3>1. PICK p, ts : ledger' \in {ledger, [ledger EXCEPT ![n].pending = p],
                                    [ledger EXCEPT ![n].pending = p, ![n].turns = ts]}
      <4>1. CASE Prepare(n)
        BY <4>1, <1>0 DEF Prepare, PrepareShared
      <4>2. CASE Accept(n)
        BY <4>2, <1>0, <1>1 DEF Accept, AcceptShared
      <4>3. QED
        BY <1>4, <4>1, <4>2
    <3> PICK l, q : l = ledger' /\ q = ledger
      OBVIOUS
    <3>2. q \in [Nodes -> LoopStates]
      BY <1>1
    <3>3. CASE l = q
      BY <3>3
    <3>4. CASE l = [q EXCEPT ![n].pending = p]
      BY <3>2, <3>4 DEF LoopStates
    <3>5. CASE l = [q EXCEPT ![n].pending = p, ![n].turns = ts]
      BY <3>2, <3>5 DEF LoopStates
    <3>6. QED
      BY <3>1, <3>3, <3>4, <3>5
  <2>3. \A m \in Nodes : TalkOK(ledger'[m], talk[m])
    BY <1>1, <2>2, KeptOK
  <2>4. QED
    BY <1>1, <2>1, <2>3 DEF TalkInv
<1>5. ASSUME NEW n \in Nodes, ModelTurn(n) PROVE TalkInv'
  <2>1. /\ phase = "running" /\ pc[n] = "agent" /\ ~Replays(n) /\ talk[n].call = 0
    BY <1>5 DEF ModelTurn
  <2>2. PICK b \in BOOLEAN :
           /\ ledger' = [ledger EXCEPT ![n].iters = @ + 1,
                            ![n].finish = IF b THEN Output(n) ELSE None,
                            ![n].finishes = IF b THEN Append(@, Output(n)) ELSE @]
           /\ talk' = [talk EXCEPT ![n] = AskedTalk(@, ledger[n].iters + 1, b)]
    BY <1>0, <1>5 DEF ModelTurn
  <2>3. ledger'[n] \in LoopStates
    <3>1. TurnsIInv'
      BY TurnsNext
    <3>2. QED
      BY <3>1 DEF TurnsIInv, TurnTypes
  <2>4. /\ ledger'[n].iters = ledger[n].iters + 1 /\ ledger'[n].start = ledger[n].start
        /\ ledger'[n].owner = ledger[n].owner /\ (Finishes(ledger'[n]) => b)
        /\ \A m \in Nodes : m # n => ledger'[m] = ledger[m]
    BY <1>1, <2>2 DEF LoopStates, Finishes
  <2>5. ledger[n].owner # 0 /\ ledger[n].start <= ledger[n].iters
    <3>1. n \in frontier /\ saved = [step |-> step, pending |-> frontier] /\ Generation
          /\ step \in Steps
      BY <1>0, <2>1 DEF TurnsIInv, TurnTypes, DurableInv, Generation
    <3>2. ledger[n].owner = step /\ step # 0
      BY <3>1, SharedAssumption DEF Generation, Steps
    <3>3. QED
      BY <1>1, <3>2 DEF LedgerValid, NodeValid
  <2> PICK s, k, t : s = ledger[n] /\ k = ledger'[n] /\ t = talk[n]
    OBVIOUS
  <2>6. /\ AskedTalk(t, s.iters + 1, b) \in Talks
        /\ TalkOK(k, AskedTalk(t, s.iters + 1, b))
    <3>1. /\ s \in LoopStates /\ k \in LoopStates /\ t \in Talks /\ TalkOK(s, t)
          /\ s.start <= s.iters /\ t.call = 0 /\ k.iters = s.iters + 1 /\ k.start = s.start
          /\ k.owner # 0 /\ (Finishes(k) => b)
      BY <1>1, <2>1, <2>3, <2>4, <2>5
    <3>2. QED
      BY <3>1, AskedOK
  <2>7. /\ talk' \in [Nodes -> Talks] /\ talk'[n] = AskedTalk(t, s.iters + 1, b)
        /\ \A m \in Nodes : m # n => talk'[m] = talk[m]
    BY <1>1, <2>2, <2>6
  <2>8. \A m \in Nodes : TalkOK(ledger'[m], talk'[m])
    BY <1>1, <2>4, <2>6, <2>7
  <2>9. QED
    BY <2>7, <2>8 DEF TalkInv
<1>6. \A n \in Nodes : RespondedTalk(talk[n]) \in Talks /\ TalkOK(ledger[n], RespondedTalk(talk[n]))
  BY <1>1, RespondedOK
<1>7. ASSUME NEW n \in Nodes, ToolsRespond(n) PROVE TalkInv'
  <2>1. ledger' = ledger /\ talk' = [talk EXCEPT ![n] = RespondedTalk(talk[n])]
    BY <1>7 DEF ToolsRespond
  <2>2. QED
    BY <1>1, <1>6, <2>1 DEF TalkInv
<1>8. CASE Resume
  <2>1. ledger' = ledger /\ talk' \in {talk, [n \in Nodes |-> RespondedTalk(talk[n])]}
    BY <1>8 DEF Resume
  <2>2. QED
    BY <1>1, <1>6, <2>1 DEF TalkInv
<1>9. CASE Advance \/ InvocationFails \/ Cancel \/ Crash \/ UNCHANGED vars
  <2>1. UNCHANGED <<ledger, talk>>
    BY <1>9 DEF Advance, InvocationFails, Cancel, Crash, vars
  <2>2. QED
    BY <1>2, <2>1
<1>10. ASSUME NEW n \in Nodes, TaskStep(n) PROVE TalkInv'
  <2>1. CASE TryEnter(n) \/ Park(n) \/ Wake(n) \/ Replay(n) \/ AgentFails(n) \/ Confirmation(n)
             \/ Unwind(n) \/ Abandon(n)
    <3>1. UNCHANGED <<ledger, talk>>
      BY <2>1 DEF TryEnter, Park, Wake, Replay, AgentFails, Confirmation, Unwind, Abandon
    <3>2. QED
      BY <1>2, <3>1
  <2>2. QED
    BY <1>4, <1>5, <1>7, <1>10, <2>1 DEF TaskStep
<1>11. QED
  BY <1>3, <1>8, <1>9, <1>10 DEF Next

-----------------------------------------------------------------------------
(* The theorems.                                                             *)

\* The inductive invariant of the shared session holds in every state, whatever nodes,
\* super-steps and restarts.
THEOREM TurnsInvariance == Spec => [](TurnsIInv /\ TalkInv)
BY TurnsInit, TalkInit, TurnsNext, TalkNext, PTL DEF Spec

\* Whichever nodes are interrupted and resumed, an accepted turn was answered from exactly
\* the turns accepted before it (prepare_shared, accept_shared, the history lock).
THEOREM AnsweredFromPrefix == Spec => []AnsweredFromItsPrefix
<1>1. TurnsIInv => AnsweredFromItsPrefix
  BY DEF TurnsIInv
<1>2. QED
  BY <1>1, TurnsInvariance, PTL

LEMMA TurnsRecoverable == TurnsIInv /\ TalkInv => AlwaysRecoverable
<1> SUFFICES ASSUME TurnsIInv, TalkInv, durable PROVE AlwaysRecoverable
  BY DEF AlwaysRecoverable
<1>1. ledger \in [Nodes -> LoopStates] /\ LedgerValid(ledger, Log) /\ Generation
  BY DurableFacts DEF TurnsIInv, DurableInv
<1>2. ValidateShared(ledger) /\ ValidInvocation(ledger, talk)
  <2>1. ValidateShared(ledger)
    BY <1>1, ValidPasses
  <2>2. ASSUME NEW n \in Nodes
        PROVE  /\ ledger[n].start <= ledger[n].iters
               /\ ledger[n].finish # None => ledger[n].start < ledger[n].iters
               /\ talk[n].call # 0 => talk[n].call > ledger[n].start
               /\ talk[n].from <= Len(talk[n].contents)
               /\ Cardinality({i \in 1..talk[n].from : talk[n].contents[i]}) = ledger[n].start
    <3>1. NodeValid(n, ledger[n], Log) /\ TalkOK(ledger[n], talk[n])
      BY <1>1 DEF LedgerValid, TalkInv
    <3>2. ledger[n].start \in Nat /\ talk[n].call \in Nat
      BY <1>1, StateFacts DEF TalkInv, Talks
    <3>3. talk[n].call # 0 => talk[n].call > ledger[n].start
      BY <3>1, <3>2 DEF TalkOK
    <3>4. QED
      BY <3>1, <3>3 DEF NodeValid, TalkOK, Said, Finishes
  <2>3. QED
    BY <2>1, <2>2 DEF ValidInvocation
<1>3. ValidateCheckpoint(ledger, saved)
  <2> SUFFICES ASSUME NEW n \in Nodes
               PROVE  /\ ledger[n].pending # None => n \in saved.pending
                      /\ ledger[n].owner # 0 =>
                            /\ ledger[n].owner <= saved.step
                            /\ n \in saved.pending => ledger[n].owner = saved.step
                      /\ ledger[n].owner = 0 /\ ledger[n].iters > 0 => n \notin saved.pending
    BY DEF ValidateCheckpoint
  <2>1. ledger[n].pending # None => n \in saved.pending
    BY <1>1 DEF Generation, Settled, Waits
  <2>2. ledger[n].owner <= saved.step /\ (n \in saved.pending => ledger[n].owner = saved.step)
    BY <1>1 DEF Generation
  <2>3. ledger[n].owner = 0 => ~(ledger[n].iters > 0)
    <3>1. ledger[n].owner = 0 => ledger[n].iters = 0
      BY <1>1 DEF LedgerValid, NodeValid
    <3>2. QED
      BY <3>1
  <2>4. QED
    BY <2>1, <2>2, <2>3
<1>4. phase = "admit" => AdmitFrontierLedger(ledger, frontier, step) # None
  <2> SUFFICES ASSUME phase = "admit" PROVE AdmitFrontierLedger(ledger, frontier, step) # None
    OBVIOUS
  <2>1. \/ \A n \in Nodes : Settled(ledger[n])
        \/ saved.step = step /\ saved.pending = frontier
    BY <1>1 DEF Generation
  <2>2. step \in Steps /\ frontier \in SUBSET Nodes /\ saved.step \in Int /\ step \in Int
    BY SharedAssumption DEF TurnsIInv, TurnTypes, Steps
  <2>3. \A n \in frontier : ledger[n].owner # step => Settled(ledger[n])
    BY <1>1, <2>1, <2>2 DEF Generation
  <2>4. \A n \in Nodes : ledger[n].owner <= step
    <3>1. \A n \in Nodes : ledger[n].owner \in Int /\ ledger[n].owner <= saved.step
      BY <1>1, StateFacts, SharedAssumption DEF Generation
    <3>2. saved.step <= step
      BY <1>1, <2>2 DEF Generation
    <3>3. QED
      BY <2>2, <3>1, <3>2
  <2> DEFINE k == AdmitFrontierLedger(ledger, frontier, step)
  <2>5. /\ step \in Steps /\ frontier \subseteq Nodes
        /\ ledger \in [Nodes -> LoopStates] /\ LedgerValid(ledger, Log)
    BY <1>1, <2>2
  <2>6. Admissible(ledger, frontier, step)
    BY <2>3, <2>4 DEF Admissible
  <2>7. /\ k # None /\ k \in [Nodes -> LoopStates] /\ LedgerValid(k, Log)
        /\ \A n \in frontier : k[n].owner = step
        /\ \A n \in Nodes \ frontier : k[n] = ledger[n]
        /\ \A n \in Nodes : Waits(k[n]) => k[n] = ledger[n]
    BY <2>5, <2>6, AdmittedValid
  <2>8. QED
    BY <2>7
<1>5. ASSUME NEW n \in Nodes, pc[n] = "accept"
      PROVE  AcceptShared(ledger, n, ledger[n].finish) # None
  <2>1. Finishes(ledger[n])
    BY <1>5 DEF TurnsIInv, DurableInv, Progress
  <2>2. QED
    BY <1>1, <2>1, AcceptNeverRefuses
<1>6. phase = "admit" => ~CallsOpen(ledger, talk, frontier, step)
  BY NoCallsOpen
<1>7. QED
  BY <1>2, <1>3, <1>4, <1>5, <1>6 DEF AlwaysRecoverable

\* Every generation a crash may leave passes shared::validate, valid_invocation and
\* validate_checkpoint; admit_frontier admits every frontier the run comes to, and
\* accept_shared refuses no answer the ledger has admitted.
THEOREM GenerationsRecover == Spec => []AlwaysRecoverable
BY TurnsInvariance, TurnsRecoverable, PTL

-----------------------------------------------------------------------------
(* What was accepted stays.                                                  *)

\* A log whose turns are all in another begins it, for the ordinals name the places.
LEMMA LogPrefix ==
    ASSUME NEW l, NEW h, NEW k, NEW g, IsLog(l, h), IsLog(k, g), AllTurns(l) \subseteq AllTurns(k)
    PROVE  Len(h) <= Len(g) /\ \A i \in 1..Len(h) : g[i] = h[i]
<1>1. /\ Len(h) \in Nat /\ AllTurns(l) = {h[i] : i \in 1..Len(h)}
      /\ \A i \in 1..Len(h) : h[i].ordinal = i - 1
  BY SeqFacts DEF IsLog
<1>2. /\ Len(g) \in Nat /\ AllTurns(k) = {g[i] : i \in 1..Len(g)}
      /\ \A i \in 1..Len(g) : g[i].ordinal = i - 1
  BY SeqFacts DEF IsLog
<1>3. ASSUME NEW i \in 1..Len(h) PROVE i \in 1..Len(g) /\ g[i] = h[i]
  <2>1. PICK j \in 1..Len(g) : g[j] = h[i]
    BY <1>1, <1>2
  <2>2. j - 1 = i - 1
    BY <1>1, <1>2, <2>1
  <2>3. j = i
    BY <1>1, <1>2, <2>2
  <2>4. QED
    BY <2>1, <2>3
<1>4. Len(h) <= Len(g)
  <2>1. CASE Len(h) = 0
    BY <1>2, <2>1
  <2>2. CASE Len(h) # 0
    <3>1. Len(h) \in 1..Len(h)
      BY <1>1, <2>2
    <3>2. Len(h) \in 1..Len(g)
      BY <1>3, <3>1
    <3>3. QED
      BY <1>1, <1>2, <3>2
  <2>3. QED
    BY <2>1, <2>2
<1>5. QED
  BY <1>3, <1>4

\* An operation that leaves the turns of every node, or appends to those of one.
LEMMA TurnsKept ==
    ASSUME NEW l \in [Nodes -> LoopStates], NEW k, NEW n \in Nodes, NEW t,
           \A m \in Nodes : m # n => k[m].turns = l[m].turns,
           k[n].turns \in {l[n].turns, Append(l[n].turns, t)}
    PROVE  AllTurns(l) \subseteq AllTurns(k)
<1>1. Range(l[n].turns) \subseteq Range(Append(l[n].turns, t))
  <2> DEFINE s == l[n].turns
  <2>1. s \in Seq(Turns)
    BY StateFacts
  <2> HIDE DEF s
  <2>2. s \in Seq(Turns \cup {t})
    BY <2>1, SeqFacts, SeqDef
  <2>3. /\ Append(s, t) \in Seq(Turns \cup {t}) /\ Len(Append(s, t)) = Len(s) + 1
        /\ \A i \in 1..Len(s) : Append(s, t)[i] = s[i]
    BY <2>2, AppendProperties
  <2>4. /\ Len(s) \in Nat /\ Range(s) = {s[i] : i \in 1..Len(s)}
        /\ Range(Append(s, t)) = {Append(s, t)[i] : i \in 1..Len(s) + 1}
    <3>1. Len(s) \in Nat /\ Range(s) = {s[i] : i \in 1..Len(s)}
      BY <2>2, SeqFacts
    <3>2. PICK a : a = Append(s, t)
      OBVIOUS
    <3>3. Range(a) = {a[i] : i \in 1..Len(a)}
      <4>1. a \in Seq(Turns \cup {t})
        BY <2>3, <3>2
      <4>2. QED
        BY <4>1, SeqFacts
    <3>4. QED
      BY <2>3, <3>1, <3>2, <3>3
  <2>5. \A i \in 1..Len(s) : i \in 1..Len(s) + 1
    BY <2>4
  <2>6. Range(s) \subseteq Range(Append(s, t))
    BY <2>3, <2>4, <2>5
  <2>7. QED
    BY <2>6 DEF s
<1>2. \A m \in Nodes : Range(l[m].turns) \subseteq Range(k[m].turns)
  BY <1>1
<1>3. QED
  BY <1>2 DEF AllTurns

\* No step of a run with a ledger takes a turn from it.
LEMMA StepKeepsTurns ==
    ASSUME TurnsIInv, durable, [Next]_vars
    PROVE  durable' /\ AllTurns(ledger) \subseteq AllTurns(ledger')
<1>1. ledger \in [Nodes -> LoopStates]
  BY DurableFacts
<1>2. \A n \in Nodes : ledger[n] \in LoopStates
  BY <1>1
<1>3. CASE ledger' = ledger /\ durable' = durable
  BY <1>3
<1>4. CASE AdmitFrontier
  <2>1. ASSUME NEW n \in Nodes PROVE AdmitNode(ledger, n, step).turns = ledger[n].turns
    <3> DEFINE q == ledger[n]
    <3>1. q \in LoopStates /\ AdmitNode(ledger, n, step) =
             [q EXCEPT !.owner = step, !.start = q.iters, !.finish = None]
      BY <1>2 DEF AdmitNode
    <3> HIDE DEF q
    <3>2. AdmitNode(ledger, n, step).turns = q.turns
      BY <3>1 DEF LoopStates
    <3>3. QED
      BY <3>2 DEF q
  <2>2. durable' = durable /\ (ledger' # ledger =>
           ledger' = AdmitFrontierLedger(ledger, frontier, step) /\ ledger' # None)
    BY <1>4 DEF AdmitFrontier
  <2>3. ledger' # ledger => \A n \in Nodes : ledger'[n].turns = ledger[n].turns
    BY <2>1, <2>2 DEF AdmitFrontierLedger
  <2>4. QED
    BY <2>2, <2>3 DEF AllTurns
<1>5. ASSUME NEW n \in Nodes, Prepare(n) PROVE durable' /\ AllTurns(ledger) \subseteq AllTurns(ledger')
  <2> DEFINE p == [step |-> ledger[n].owner, ordinal |-> Len(history.turns), digest |-> history.turns]
  <2>1. durable' = durable /\ ledger' \in {ledger, [ledger EXCEPT ![n].pending = p]}
    BY <1>5 DEF Prepare, PrepareShared
  <2> HIDE DEF p
  <2>2. \A m \in Nodes : [ledger EXCEPT ![n].pending = p][m].turns = ledger[m].turns
    BY <1>1 DEF LoopStates
  <2>3. QED
    BY <2>1, <2>2 DEF AllTurns
<1>6. ASSUME NEW n \in Nodes, ModelTurn(n) PROVE durable' /\ AllTurns(ledger) \subseteq AllTurns(ledger')
  <2>1. PICK f, fs : /\ durable' = durable
                     /\ ledger' = [ledger EXCEPT ![n].iters = @ + 1, ![n].finish = f, ![n].finishes = fs]
    <3>1. PICK b \in BOOLEAN :
             ledger' = [ledger EXCEPT ![n].iters = @ + 1,
                          ![n].finish = IF b THEN Output(n) ELSE None,
                          ![n].finishes = IF b THEN Append(@, Output(n)) ELSE @]
      BY <1>6 DEF ModelTurn
    <3>2. PICK f, fs : /\ f = IF b THEN Output(n) ELSE None
                       /\ fs = IF b THEN Append(ledger[n].finishes, Output(n)) ELSE ledger[n].finishes
      OBVIOUS
    <3>3. ledger' = [ledger EXCEPT ![n].iters = @ + 1, ![n].finish = f, ![n].finishes = fs]
      BY <1>1, <3>1, <3>2
    <3>4. durable' = durable
      BY <1>6 DEF ModelTurn
    <3>5. QED
      BY <3>3, <3>4
  <2>2. \A m \in Nodes : ledger'[m].turns = ledger[m].turns
    BY <1>1, <2>1 DEF LoopStates
  <2>3. QED
    BY <2>1, <2>2 DEF AllTurns
<1>7. ASSUME NEW n \in Nodes, Accept(n) PROVE durable' /\ AllTurns(ledger) \subseteq AllTurns(ledger')
  <2> DEFINE t == Turn(n, ledger[n].owner, ledger[n].pending.ordinal, ledger[n].finish)
             k == [ledger EXCEPT ![n].pending = None, ![n].turns = Append(@, t)]
  <2>1. durable' = durable /\ ledger' \in {ledger, k}
    BY <1>7 DEF Accept, AcceptShared
  <2> HIDE DEF t
  <2>2. /\ \A m \in Nodes : m # n => k[m].turns = ledger[m].turns
        /\ k[n].turns = Append(ledger[n].turns, t)
    BY <1>1 DEF LoopStates
  <2> HIDE DEF k
  <2>3. AllTurns(ledger) \subseteq AllTurns(k)
    BY <1>1, <2>2, TurnsKept
  <2>4. QED
    BY <2>1, <2>3
<1>8. CASE UNCHANGED vars
  BY <1>8 DEF vars
<1>9. CASE Advance \/ InvocationFails \/ Cancel \/ Crash \/ Resume
  <2>1. ledger' = ledger /\ durable' = durable
    BY <1>9 DEF Advance, InvocationFails, Cancel, Crash, Resume, Forget, memory
  <2>2. QED
    BY <2>1
<1>10. ASSUME NEW n \in Nodes, TaskStep(n) PROVE durable' /\ AllTurns(ledger) \subseteq AllTurns(ledger')
  <2>1. CASE TryEnter(n) \/ Park(n) \/ Wake(n) \/ Replay(n) \/ ToolsRespond(n) \/ AgentFails(n)
             \/ Confirmation(n) \/ Unwind(n) \/ Abandon(n)
    <3>1. ledger' = ledger /\ durable' = durable
      BY <2>1 DEF TryEnter, Park, Wake, Replay, ToolsRespond, AgentFails, Confirmation, Unwind,
                  Abandon
    <3>2. QED
      BY <3>1
  <2>2. QED
    BY <1>5, <1>6, <1>7, <1>10, <2>1 DEF TaskStep
<1>11. QED
  BY <1>4, <1>8, <1>9, <1>10 DEF Next

\* The log of accepted turns only grows: whatever is interrupted, refused, forgotten or resumed,
\* a turn that accept_shared has recorded keeps its place.
LogOnlyGrows ==
    [][durable => /\ durable' /\ Len(Log) <= Len(Log')
                  /\ \A i \in 1..Len(Log) : Log'[i] = Log[i]]_vars

\* A recorded turn is never lost, replaced or moved by a crash, a resume or another node.
THEOREM AcceptedStays == Spec => LogOnlyGrows
<1>1. ASSUME TurnsIInv, TurnsIInv', [Next]_vars
      PROVE  [durable => /\ durable' /\ Len(Log) <= Len(Log')
                         /\ \A i \in 1..Len(Log) : Log'[i] = Log[i]]_vars
  <2> SUFFICES ASSUME durable
               PROVE  durable' /\ Len(Log) <= Len(Log') /\ \A i \in 1..Len(Log) : Log'[i] = Log[i]
    OBVIOUS
  <2>1. durable' /\ AllTurns(ledger) \subseteq AllTurns(ledger')
    BY <1>1, StepKeepsTurns
  <2>2. IsLog(ledger, Log)
    BY <1>1 DEF TurnsIInv, DurableInv, LedgerValid
  <2>3. IsLog(ledger', Log')
    BY <1>1, <2>1 DEF TurnsIInv, DurableInv, LedgerValid
  <2>4. PICK h, g : h = Log /\ g = Log'
    OBVIOUS
  <2>5. Len(h) <= Len(g) /\ \A i \in 1..Len(h) : g[i] = h[i]
    BY <2>1, <2>2, <2>3, <2>4, LogPrefix
  <2>6. QED
    BY <2>1, <2>4, <2>5
<1>2. QED
  BY <1>1, TurnsInvariance, PTL DEF Spec, LogOnlyGrows

=============================================================================
