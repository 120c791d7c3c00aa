-------------------------- MODULE DurableRun_proofs --------------------------
(***************************************************************************)
(* Proofs about DurableRun: whatever crashes, failed writes and resumes a   *)
(* run goes through, its files agree, its events are those of published     *)
(* completions, its calls stay within the budget, and a tool acts only      *)
(* while its call is pending in the checkpoint.                             *)
(***************************************************************************)
EXTENDS DurableRun, FiniteSetTheorems, SequenceTheorems, WellFoundedInduction, TLAPS

USE DEF visit

-----------------------------------------------------------------------------
(* The inductive invariant.                                                 *)

LedgerFile == [nodes : Generation, ck : Generation \union {Absent}]
CheckpointFile == [gen : Generation, seq : Nat, front : Frontier]
Persisted == [step : {"events", "ledger", "checkpoint"}, gen : Generation, frontier : BOOLEAN]
Memory == [pending : SUBSET Calls, completed : SUBSET Calls, phase : [Nodes -> Phase], owner : [Nodes -> Nat]]

\* The files and the persistence under way are whole records.
Shapes ==
    /\ ledger \in LedgerFile \union {Absent}
    /\ checkpoint \in CheckpointFile \union {Absent}
    /\ persist \in Persisted \union {Idle}

\* An identity is recorded once.
Once(s) == \A i, j \in DOMAIN s : i # j /\ s[i] = s[j] => s[i][2] = 0

\* What the checkpoint binds; nothing before the first one.
Bound == IF checkpoint = Absent THEN Empty ELSE checkpoint.gen

\* The generation the checkpoint binds is in the ledger and its events exist;
\* the manifest admits a resume only once there is a checkpoint.
FilesAgree ==
    /\ checkpoint # Absent =>
          /\ ledger # Absent
          /\ checkpoint.gen \in {ledger.nodes, ledger.ck}
          /\ checkpoint.seq <= Len(events)
    /\ Resumable => checkpoint # Absent

\* Events on disk and in memory are those of completions the checkpoint binds.
EventsBound ==
    /\ Tokens(events) \subseteq Done(Bound) /\ Once(events)
    /\ Tokens(log) \subseteq Done(durable) /\ Once(log)

\* A process holds the bound generation in memory, and its log covers the checkpoint.
InMemory ==
    pc # "off" =>
        /\ durable = Bound
        /\ checkpoint # Absent => checkpoint.seq <= Len(log)

\* How far the start, or the resume, has got.
StartPc == {"create", "started", "initial", "publish"}
StartProgress ==
    /\ pc \in StartPc =>
          mode = "start" /\ durable = Empty /\ mem = Loaded(Empty) /\ persist = Idle
          /\ handler = Quiet /\ ~terminal /\ exec = "none"
    /\ pc = "create" => log = <<>>
    /\ pc \in {"create", "started", "initial"} => checkpoint = Absent
    /\ pc \in {"started", "initial"} => ledger = [nodes |-> Empty, ck |-> Absent]
    /\ pc = "initial" => events = log
    /\ pc \in {"publish", "graph", "replay"} => checkpoint # Absent
    /\ pc = "replay" => mode = "resume"

\* Nothing of a process outlives it.
OffIsClean ==
    pc = "off" =>
        /\ mem = Loaded(Empty) /\ durable = Empty /\ persist = Idle /\ log = <<>>
        /\ handler = Quiet /\ ~terminal
        /\ exec = "none" /\ ~perr /\ ~ckfail

\* A generation being persisted has the memory's calls, and keeps every identity
\* that was published; once it is in the ledger, the ledger's first generation is
\* it, and that of a frontier gets there after the whole log.
PersistKeeps ==
    persist # Idle =>
        /\ pc \in Running
        /\ persist.gen.pending = mem.pending
        /\ \A c \in Calls : durable.done[c] # 0 => persist.gen.done[c] = durable.done[c]
        /\ \A c \in Calls : persist.gen.done[c] # 0 => c \in mem.completed
        /\ persist.step = "checkpoint" => ledger # Absent /\ ledger.nodes = persist.gen
        /\ persist.frontier /\ persist.step # "events" => events = log

\* The memory never falls behind the published generation, and is it as long
\* as no write failed.
MemoryAhead ==
    /\ \A c \in Calls : durable.done[c] # 0 => c \in mem.completed
    /\ pc \in Running /\ exec = "none" /\ persist = Idle => mem = Loaded(durable)

\* The budget counts what the memory and what the checkpoint admit.
Budget ==
    /\ Cardinality(Admitted(mem)) <= MaxToolCalls
    /\ Cardinality(Admitted(Loaded(Bound))) <= MaxToolCalls

\* A handler that has not acted serves a call that is pending in the
\* published generation and in the memory.
ReadyIsPending ==
    \A c \in Calls : handler[c] \in {"ready", "admitted"} => c \in durable.pending /\ c \in mem.pending

\* A journaled tool that acted has left its key in the journal.
ActedIsJournaled ==
    \A c \in Journaled : acts[c] <= 1 /\ (acts[c] # 0 => c \in journal)

\* The way to an Ok receipt: each closing step leaves what the next relies on.
ClosingPc == {"reconcile", "write", "save", "manifest"}
Closing ==
    /\ pc \in ClosingPc => exec # "none"
    /\ exec # "none" => pc \in ClosingPc \/ (exec = "error" /\ pc \in Running /\ terminal)
    /\ exec = "denied" => mode = "resume" /\ pc \notin {"save", "manifest"}
    /\ exec \in {"ok", "denied"} => checkpoint # Absent
    /\ ckfail => perr
    /\ pc \in {"write", "save", "manifest"} /\ ~perr => Tokens(log) = Done(durable)
    /\ pc = "save" => exec = "ok" /\ ~perr /\ events = log
    /\ pc = "manifest" /\ exec = "ok" /\ ~perr => events = log /\ checkpoint = FinalCheckpoint

\* What an Ok receipt says, as long as nobody touches the run again.
Receipt ==
    result = "ok" =>
        /\ pc = "off" /\ status = "succeeded" /\ checkpoint # Absent
        /\ checkpoint.seq = Len(events) /\ Tokens(events) = Done(checkpoint.gen)

IInv ==
    /\ TypeOK /\ Shapes /\ FilesAgree /\ EventsBound /\ InMemory /\ StartProgress /\ OffIsClean
    /\ PersistKeeps /\ MemoryAhead /\ Budget /\ ReadyIsPending /\ ActedIsJournaled
    /\ Closing /\ Receipt

-----------------------------------------------------------------------------
(* Sequences of events.                                                     *)

\* What it means to be recorded.
LEMMA TokensIn ==
    ASSUME NEW s \in Seq(Event), NEW t
    PROVE  t \in Tokens(s) <=> \E i \in 1..Len(s) : s[i] = t /\ t[2] # 0
BY DEF Tokens

LEMMA EventFacts ==
    /\ Started \in Event /\ Resumed \in Event /\ Failed \in Event /\ Entered \in Event
    /\ Started[2] = 0 /\ Resumed[2] = 0 /\ Failed[2] = 0 /\ Entered[2] = 0
BY DEF Event, Started, Resumed, Failed, Entered

LEMMA EmptyLog ==
    <<>> \in Seq(Event) /\ Tokens(<<>>) = {} /\ Once(<<>>)
BY DEF Tokens, Once

\* The first events of a log record no more than the log.
LEMMA PrefixRecords ==
    ASSUME NEW s \in Seq(Event), NEW n \in Nat, n <= Len(s), Once(s)
    PROVE  LET p == SubSeq(s, 1, n)
           IN  p \in Seq(Event) /\ Len(p) = n /\ Tokens(p) \subseteq Tokens(s) /\ Once(p)
<1> DEFINE p == SubSeq(s, 1, n)
<1>1. /\ p \in Seq(Event) /\ Len(p) = n /\ \A i \in 1..n : p[i] = s[i]
  BY DEF p
<1>2. DOMAIN p = 1..n /\ DOMAIN s = 1..Len(s) /\ 1..n \subseteq 1..Len(s)
  BY <1>1
<1> HIDE DEF p
<1>3. Tokens(p) \subseteq Tokens(s)
  BY <1>1, <1>2, TokensIn
<1>4. Once(p)
  BY <1>1, <1>2 DEF Once
<1>5. QED
  BY <1>1, <1>3, <1>4 DEF p

\* Two logs that share no identity record, one after the other, what both record.
LEMMA ConcatRecords ==
    ASSUME NEW s \in Seq(Event), NEW u \in Seq(Event), Once(s), Once(u),
           Tokens(s) \intersect Tokens(u) = {}
    PROVE  /\ s \o u \in Seq(Event) /\ Len(s \o u) >= Len(s)
           /\ Tokens(s \o u) = Tokens(s) \union Tokens(u)
           /\ Once(s \o u)
<1> DEFINE w == s \o u
<1>1. /\ w \in Seq(Event) /\ Len(w) = Len(s) + Len(u) /\ Len(s) \in Nat /\ Len(u) \in Nat
      /\ \A i \in 1..Len(w) : w[i] = IF i <= Len(s) THEN s[i] ELSE u[i - Len(s)]
  BY ConcatProperties
<1> HIDE DEF w
<1>2. DOMAIN w = 1..Len(w) /\ DOMAIN s = 1..Len(s) /\ DOMAIN u = 1..Len(u)
  BY <1>1, LenProperties
<1>3. \A i \in 1..Len(s) : i \in 1..Len(w) /\ w[i] = s[i]
  BY <1>1
<1>4. ASSUME NEW i \in 1..Len(u)
      PROVE  i + Len(s) \in 1..Len(w) /\ w[i + Len(s)] = u[i]
  <2>1. i \in Nat /\ i >= 1 /\ i <= Len(u) /\ i + Len(s) \in 1..Len(w)
    BY <1>1
  <2>2. ~(i + Len(s) <= Len(s)) /\ (i + Len(s)) - Len(s) = i
    BY <1>1, <2>1
  <2>3. QED
    BY <1>1, <2>1, <2>2
<1>5. ASSUME NEW i \in 1..Len(w)
      PROVE  \/ i \in 1..Len(s) /\ w[i] = s[i]
             \/ \E k \in 1..Len(u) : i = k + Len(s) /\ w[i] = u[k]
  <2>1. CASE i <= Len(s)
    BY <2>1, <1>1
  <2>2. CASE ~(i <= Len(s))
    <3> DEFINE k == i - Len(s)
    <3>1. w[i] = u[k]
      BY <2>2, <1>1
    <3>2. k \in 1..Len(u) /\ i = k + Len(s)
      BY <2>2, <1>1
    <3>3. QED
      BY <3>1, <3>2
  <2>3. QED
    BY <2>1, <2>2
<1>6. Tokens(w) = Tokens(s) \union Tokens(u)
  <2>1. ASSUME NEW t \in Tokens(w) PROVE t \in Tokens(s) \union Tokens(u)
    <3>1. PICK i \in 1..Len(w) : w[i] = t /\ t[2] # 0
      BY <1>1, TokensIn
    <3>2. (\E k \in 1..Len(s) : s[k] = t) \/ (\E k \in 1..Len(u) : u[k] = t)
      BY <3>1, <1>5
    <3>3. QED
      BY <3>1, <3>2, TokensIn
  <2>2. ASSUME NEW t \in Tokens(s) PROVE t \in Tokens(w)
    BY <1>1, <1>3, TokensIn
  <2>3. ASSUME NEW t \in Tokens(u) PROVE t \in Tokens(w)
    <3>1. PICK i \in 1..Len(u) : u[i] = t /\ t[2] # 0
      BY TokensIn
    <3>2. QED
      BY <3>1, <1>1, <1>4, TokensIn
  <2>4. QED
    BY <2>1, <2>2, <2>3
<1>7. Once(w)
  <2> SUFFICES ASSUME NEW i \in 1..Len(w), NEW j \in 1..Len(w), i # j, w[i] = w[j], w[i][2] # 0
               PROVE  FALSE
    BY <1>2 DEF Once
  <2>1. CASE i \in 1..Len(s) /\ w[i] = s[i]
    <3>1. CASE j \in 1..Len(s) /\ w[j] = s[j]
      BY <2>1, <3>1, <1>2 DEF Once
    <3>2. ASSUME NEW k \in 1..Len(u), w[j] = u[k] PROVE FALSE
      BY <2>1, <3>2, TokensIn
    <3>3. QED
      BY <3>1, <3>2, <1>5
  <2>2. ASSUME NEW k \in 1..Len(u), i = k + Len(s), w[i] = u[k] PROVE FALSE
    <3>1. CASE j \in 1..Len(s) /\ w[j] = s[j]
      BY <2>2, <3>1, TokensIn
    <3>2. ASSUME NEW l \in 1..Len(u), j = l + Len(s), w[j] = u[l] PROVE FALSE
      <4>1. k # l
        BY <2>2, <3>2
      <4>2. QED
        BY <4>1, <2>2, <3>2, <1>2 DEF Once
    <3>3. QED
      BY <3>1, <3>2, <1>5
  <2>3. QED
    BY <2>1, <2>2, <1>5
<1>8. QED
  BY <1>1, <1>6, <1>7 DEF w

\* One event that is no completion records nothing.
LEMMA MarkRecordsNothing ==
    ASSUME NEW e \in {Started, Resumed, Failed}
    PROVE  <<e>> \in Seq(Event) /\ Len(<<e>>) = 1 /\ Tokens(<<e>>) = {} /\ Once(<<e>>)
<1> DEFINE s == <<e>>
<1>1. e \in Event /\ e[2] = 0
  BY EventFacts
<1>2. s \in Seq(Event) /\ Len(s) = 1 /\ s[1] = e /\ DOMAIN s = {1}
  BY <1>1
<1> HIDE DEF s
<1>3. Tokens(s) = {}
  BY <1>1, <1>2 DEF Tokens
<1>4. Once(s)
  BY <1>1, <1>2 DEF Once
<1>5. QED
  BY <1>2, <1>3, <1>4 DEF s

-----------------------------------------------------------------------------
(* Generations and their identities.                                        *)

\* The parts of a generation and of the memory.
LEMMA GenerationParts ==
    ASSUME NEW g \in Generation
    PROVE  /\ g.pending \subseteq Calls /\ g.done \in [Calls -> Nat] /\ g.phase \in [Nodes -> Phase]
           /\ g.owner \in [Nodes -> Nat] /\ \A c \in Calls : g.done[c] \in Nat
BY DEF Generation

\* The identities of a generation: finitely many, all of them events.
LEMMA DoneIn ==
    ASSUME NEW g
    PROVE  \A t : t \in Done(g) <=> \E c \in Calls : g.done[c] # 0 /\ t = <<c, g.done[c]>>
BY DEF Done

LEMMA DoneFacts ==
    ASSUME NEW g \in Generation
    PROVE  /\ Done(g) \subseteq Event /\ IsFiniteSet(Done(g))
           /\ \A t \in Done(g) : t[2] # 0
<1> USE GenerationParts
<1> DEFINE C == {x \in Calls : g.done[x] # 0}
<1>1. \A t \in Done(g) : t \in Calls \X (Nat \ {0}) /\ t[2] # 0
  BY DoneIn
<1>2. Done(g) \subseteq Event
  BY <1>1 DEF Event
<1>3. IsFiniteSet(C)
  BY RunAssumption, FS_Subset
<1>4. IsFiniteSet(Done(g))
  <2> DEFINE f == [c \in C |-> <<c, g.done[c]>>]
  <2>1. f \in Surjection(C, Done(g))
    BY DEF Surjection, Done
  <2>2. QED
    BY <1>3, <2>1, FS_Surjection
<1>5. QED
  BY <1>1, <1>2, <1>4

\* Identities that are kept stay recorded.
LEMMA DoneGrows ==
    ASSUME NEW g, NEW h, \A c \in Calls : g.done[c] # 0 => h.done[c] = g.done[c]
    PROVE  Done(g) \subseteq Done(h)
BY DEF Done

LEMMA EmptyFacts ==
    /\ Empty \in Generation /\ Done(Empty) = {}
    /\ Empty.pending = {} /\ \A c \in Calls : Empty.done[c] = 0
    /\ Empty.phase \in [Nodes -> Phase] /\ \A n \in Nodes : Empty.phase[n] = "new"
    /\ Loaded(Empty) = [pending |-> {}, completed |-> {}, phase |-> Empty.phase, owner |-> Empty.owner]
    /\ Admitted(Loaded(Empty)) = {}
<1>1. Empty.pending = {} /\ Empty.done = [c \in Calls |-> 0] /\ Empty.phase = [n \in Nodes |-> "new"]
  BY DEF Empty
<1>2. Empty \in Generation
  BY DEF Generation, Empty, Phase
<1>3. \A c \in Calls : Empty.done[c] = 0
  BY <1>1
<1>4. {c \in Calls : Empty.done[c] # 0} = {}
  BY <1>3
<1>5. Done(Empty) = {}
  BY <1>3 DEF Done
<1>6. Loaded(Empty) = [pending |-> {}, completed |-> {}, phase |-> Empty.phase, owner |-> Empty.owner]
  BY <1>1, <1>4 DEF Loaded
<1>7. Admitted(Loaded(Empty)) = {}
  BY <1>6 DEF Admitted
<1>8. QED
  BY <1>1, <1>2, <1>3, <1>5, <1>6, <1>7, GenerationParts

\* What a resume reads back.
LEMMA LoadedFacts ==
    ASSUME NEW g \in Generation
    PROVE  /\ Loaded(g) \in Memory
           /\ Loaded(g).pending = g.pending /\ Loaded(g).phase = g.phase /\ Loaded(g).owner = g.owner
           /\ Loaded(g).completed = {c \in Calls : g.done[c] # 0}
BY GenerationParts DEF Loaded, Memory

\* A record of a file is not the absence of one.
LEMMA NotAbsent ==
    /\ \A x \in LedgerFile : x # Absent
    /\ \A x \in CheckpointFile : x # Absent
    /\ \A x \in Generation : x # Absent
    /\ \A x \in Persisted : x # Idle
BY DEF LedgerFile, CheckpointFile, Generation, Persisted, Absent, Idle

\* The identities a reconciliation maps, in some order, each of them once.
LEMMA ListRecords ==
    ASSUME NEW S \in SUBSET Event, IsFiniteSet(S), \A t \in S : t[2] # 0
    PROVE  /\ SetToSeq(S) \in Seq(Event)
           /\ Tokens(SetToSeq(S)) = S /\ Once(SetToSeq(S))
<1> DEFINE n == Cardinality(S)
<1> DEFINE s == SetToSeq(S)
<1>1. n \in Nat /\ \E f : f \in Bijection(1..n, S)
  BY FS_CardinalityType DEF ExistsBijection
<1>2. \E f \in [1..n -> S] : IsInjective(f)
  BY <1>1 DEF Bijection, Injection
<1>3. s \in [1..n -> S] /\ IsInjective(s)
  BY <1>2 DEF SetToSeq
<1>4. s \in Surjection(1..n, S)
  <2>1. s \in Injection(1..n, S)
    BY <1>3 DEF Injection
  <2>2. IsFiniteSet(1..n) /\ Cardinality(1..n) = n
    BY <1>1, FS_Interval
  <2>3. QED
    BY <2>1, <2>2, FS_Injection
<1> HIDE DEF s
<1>5. s \in Seq(Event) /\ Len(s) = n /\ DOMAIN s = 1..n
  <2>1. s \in Seq(S)
    BY <1>1, <1>3
  <2>2. QED
    BY <1>1, <1>3, <2>1
<1>6. \A t : t \in Tokens(s) <=> t \in S
  BY <1>3, <1>4, <1>5, TokensIn DEF Surjection
<1>7. Once(s)
  BY <1>3, <1>5 DEF Once, IsInjective
<1>8. QED
  BY <1>5, <1>6, <1>7 DEF s

\* Only finitely many identities are known.
LEMMA KnownIsFinite ==
    ASSUME TypeOK, Shapes
    PROVE  IsFiniteSet(Known)
<1> DEFINE G == {durable} \union
                 (IF ledger = Absent THEN {} ELSE {ledger.nodes, ledger.ck} \ {Absent}) \union
                 (IF checkpoint = Absent THEN {} ELSE {checkpoint.gen})
<1> DEFINE D == {Done(g) : g \in G}
<1>1. G \subseteq Generation
  <2>1. durable \in Generation
    BY DEF TypeOK
  <2>2. ledger # Absent => ledger.nodes \in Generation /\ ledger.ck \in Generation \union {Absent}
    BY DEF Shapes, LedgerFile
  <2>3. checkpoint # Absent => checkpoint.gen \in Generation
    BY DEF Shapes, CheckpointFile
  <2>4. QED
    BY <2>1, <2>2, <2>3
<1>2. IsFiniteSet(G)
  <2> DEFINE H == ((({} \union {durable}) \union {ledger.nodes}) \union {ledger.ck}) \union {checkpoint.gen}
  <2>1. IsFiniteSet(H)
    BY FS_EmptySet, FS_AddElement
  <2>2. G \subseteq H
    OBVIOUS
  <2>3. QED
    BY <2>1, <2>2, FS_Subset
<1> HIDE DEF G
<1>3. IsFiniteSet(D)
  <2> DEFINE f == [g \in G |-> Done(g)]
  <2>1. f \in Surjection(G, D)
    BY DEF Surjection
  <2>2. QED
    BY <1>2, <2>1, FS_Surjection
<1>4. \A T \in D : IsFiniteSet(T)
  BY <1>1, DoneFacts
<1>5. IsFiniteSet(UNION D)
  BY <1>3, <1>4, FS_UNION
<1>6. ASSUME NEW s \in Seq(Event) PROVE IsFiniteSet(Tokens(s))
  <2> DEFINE I == {j \in DOMAIN s : s[j][2] # 0}
  <2> DEFINE f == [i \in I |-> s[i]]
  <2>1. IsFiniteSet(I)
    <3>1. DOMAIN s = 1..Len(s) /\ Len(s) \in Nat
      OBVIOUS
    <3>2. IsFiniteSet(1..Len(s))
      BY <3>1, FS_Interval
    <3>3. QED
      BY <3>1, <3>2, FS_Subset
  <2>2. f \in Surjection(I, Tokens(s))
    BY DEF Surjection, Tokens
  <2>3. QED
    BY <2>1, <2>2, FS_Surjection
<1>7. IsFiniteSet(Tokens(log)) /\ IsFiniteSet(Tokens(events))
  BY <1>6 DEF TypeOK
<1>8. Known = ((UNION D) \union Tokens(log)) \union Tokens(events)
  BY DEF Known, G
<1> HIDE DEF D
<1>9. IsFiniteSet((UNION D) \union Tokens(log))
  BY <1>5, <1>7, FS_Union
<1>10. IsFiniteSet(((UNION D) \union Tokens(log)) \union Tokens(events))
  BY <1>7, <1>9, FS_Union
<1>11. QED
  BY <1>8, <1>10

\* There is always an identity nobody mentions, and the one drawn is such.
LEMMA FreshTokenFacts ==
    ASSUME TypeOK, Shapes, NEW c
    PROVE  FreshToken(c) \in Nat \ {0} /\ <<c, FreshToken(c)>> \notin Known
<1> DEFINE N == Cardinality(Known)
<1> DEFINE T == {k \in 1..(N + 1) : <<c, k>> \notin Known}
<1>1. IsFiniteSet(Known) /\ N \in Nat
  BY KnownIsFinite, FS_CardinalityType
<1> HIDE DEF N
<1>2. T # {}
  <2> SUFFICES ASSUME \A k \in 1..(N + 1) : <<c, k>> \in Known PROVE FALSE
    OBVIOUS
  <2> DEFINE f == [k \in 1..(N + 1) |-> <<c, k>>]
  <2>1. f \in Injection(1..(N + 1), Known)
    BY DEF Injection, IsInjective
  <2>2. Cardinality(1..(N + 1)) <= Cardinality(Known)
    BY <1>1, <2>1, FS_Injection
  <2>3. Cardinality(1..(N + 1)) = N + 1
    BY <1>1, FS_Interval
  <2>4. QED
    BY <1>1, <2>2, <2>3 DEF N
<1>3. \E k \in T : \A j \in T : ~(j < k)
  <2>1. T \subseteq Nat
    BY <1>1
  <2>2. IsWellFoundedOn(OpToRel(<, Nat), Nat)
    BY NatLessThanWellFounded
  <2>3. \E k \in T : \A j \in T : ~(<<j, k>> \in OpToRel(<, Nat))
    BY <1>2, <2>1, <2>2, WFMin
  <2>4. QED
    BY <2>1, <2>3 DEF OpToRel
<1>4. \E k \in 1..(N + 1) : <<c, k>> \notin Known /\ \A j \in 1..(k - 1) : <<c, j>> \in Known
  <2>1. PICK k \in T : \A j \in T : ~(j < k)
    BY <1>3
  <2>2. k \in 1..(N + 1) /\ <<c, k>> \notin Known
    BY <2>1
  <2>3. ASSUME NEW j \in 1..(k - 1) PROVE <<c, j>> \in Known
    <3>1. j \in 1..(N + 1) /\ j < k
      BY <1>1, <2>2
    <3>2. QED
      BY <3>1, <2>1
  <2>4. QED
    BY <2>2, <2>3
<1>5. FreshToken(c) \in 1..(N + 1) /\ <<c, FreshToken(c)>> \notin Known
  BY <1>4 DEF FreshToken, N
<1>6. QED
  BY <1>1, <1>5

\* The generation that is made of a memory: identities are kept, every other
\* completion gets one, and nothing else is completed.
LEMMA PrepareFacts ==
    ASSUME TypeOK, Shapes, NEW m \in Memory,
           \A c \in Calls : durable.done[c] # 0 => c \in m.completed
    PROVE  /\ Prepare(m) \in Generation
           /\ Prepare(m).pending = m.pending /\ Prepare(m).phase = m.phase /\ Prepare(m).owner = m.owner
           /\ \A c \in Calls : durable.done[c] # 0 => Prepare(m).done[c] = durable.done[c]
           /\ \A c \in Calls : Prepare(m).done[c] # 0 <=> c \in m.completed
<1> DEFINE d == [c \in Calls |-> IF c \notin m.completed THEN 0
                                ELSE IF durable.done[c] # 0 THEN durable.done[c]
                                ELSE FreshToken(c)]
<1>1. durable \in Generation
  BY DEF TypeOK
<1>2. \A c \in Calls : durable.done[c] \in Nat
  BY <1>1, GenerationParts
<1>3. \A c \in Calls : FreshToken(c) \in Nat \ {0}
  BY FreshTokenFacts
<1>4. d \in [Calls -> Nat]
  BY <1>2, <1>3
<1>5. \A c \in Calls : durable.done[c] # 0 => d[c] = durable.done[c]
  OBVIOUS
<1>6. \A c \in Calls : d[c] # 0 <=> c \in m.completed
  BY <1>3
<1>7. Prepare(m) = [pending |-> m.pending, phase |-> m.phase, owner |-> m.owner, done |-> d]
  BY DEF Prepare
<1> HIDE DEF d
<1>8. m.pending \subseteq Calls /\ m.phase \in [Nodes -> Phase] /\ m.owner \in [Nodes -> Nat]
  BY DEF Memory
<1>9. /\ Prepare(m) \in Generation /\ Prepare(m).pending = m.pending /\ Prepare(m).phase = m.phase
      /\ Prepare(m).owner = m.owner /\ Prepare(m).done = d
  BY <1>4, <1>7, <1>8 DEF Generation
<1>10. QED
  BY <1>5, <1>6, <1>9

-----------------------------------------------------------------------------
(* Initial states, and the steps of the graph.                              *)

\* The parts of the memory, and how much it admits.
LEMMA MemoryParts ==
    ASSUME NEW m \in Memory
    PROVE  /\ m.pending \subseteq Calls /\ m.completed \subseteq Calls /\ m.phase \in [Nodes -> Phase] /\ m.owner \in [Nodes -> Nat]
           /\ IsFiniteSet(Admitted(m)) /\ Cardinality(Admitted(m)) \in Nat
<1>1. m.pending \subseteq Calls /\ m.completed \subseteq Calls /\ m.phase \in [Nodes -> Phase] /\ m.owner \in [Nodes -> Nat]
  BY DEF Memory
<1>2. Admitted(m) \subseteq Calls
  BY <1>1 DEF Admitted
<1>3. QED
  BY <1>1, <1>2, RunAssumption, FS_Subset, FS_CardinalityType

\* Admitting no more costs no more.
LEMMA AdmitsLess ==
    ASSUME NEW m \in Memory, NEW k \in Memory, Admitted(m) \subseteq Admitted(k),
           Cardinality(Admitted(k)) <= MaxToolCalls
    PROVE  Cardinality(Admitted(m)) <= MaxToolCalls
<1>1. IsFiniteSet(Admitted(k)) /\ Cardinality(Admitted(m)) \in Nat /\ Cardinality(Admitted(k)) \in Nat
  BY MemoryParts
<1>2. Cardinality(Admitted(m)) <= Cardinality(Admitted(k))
  BY <1>1, FS_Subset
<1>3. QED
  BY <1>1, <1>2, RunAssumption

\* Nothing is pending or paid for in the empty generation.
LEMMA EmptyIsQuiet ==
    /\ Cardinality(Admitted(Loaded(Empty))) <= MaxToolCalls
    /\ Loaded(Empty) \in Memory
    /\ Loaded(Empty).pending = {} /\ Loaded(Empty).completed = {} /\ Loaded(Empty).phase = Empty.phase
<1>1. Loaded(Empty).pending = {} /\ Loaded(Empty).completed = {} /\ Loaded(Empty).phase = Empty.phase
  BY EmptyFacts
<1>2. Cardinality(Admitted(Loaded(Empty))) <= MaxToolCalls
  <2>1. Admitted(Loaded(Empty)) = {}
    BY EmptyFacts
  <2>2. Cardinality({}) = 0
    BY FS_EmptySet
  <2>3. QED
    BY <2>1, <2>2, RunAssumption
<1>3. QED
  BY <1>1, <1>2, EmptyFacts, LoadedFacts

LEMMA InitIInv == Init => IInv
<1> SUFFICES ASSUME Init PROVE IInv
  OBVIOUS
<1> USE DEF Init
<1>1. TypeOK
  <2>1. mem \in [pending : SUBSET Calls, completed : SUBSET Calls, phase : [Nodes -> Phase], owner : [Nodes -> Nat]]
    BY EmptyIsQuiet DEF Memory
  <2>2. durable \in Generation /\ events \in Seq(Event) /\ log \in Seq(Event)
    BY EmptyFacts, EmptyLog
  <2>3. handler \in [Calls -> {"none", "ready", "admitted", "acted", "reported"}]
    BY DEF Quiet
  <2>4. acts \in [Calls -> Nat] /\ resumes \in 0..MaxResumes /\ frontier \in Frontier /\ begun \subseteq Nodes
    BY RunAssumption DEF FirstFrontier, Frontier
  <2>5. QED
    BY <2>1, <2>2, <2>3, <2>4 DEF TypeOK
<1>2. Shapes
  BY DEF Shapes
<1>3. FilesAgree /\ InMemory /\ PersistKeeps /\ Receipt
  BY DEF FilesAgree, InMemory, PersistKeeps, Receipt, Resumable, Bound
<1>4. EventsBound
  BY EmptyLog, EmptyFacts DEF EventsBound, Bound
<1>5. StartProgress /\ OffIsClean /\ Closing
  BY DEF StartProgress, OffIsClean, Closing, StartPc, ClosingPc
<1>6. MemoryAhead /\ Budget
  BY EmptyFacts, EmptyIsQuiet DEF MemoryAhead, Budget, Bound, Running
<1>7. ReadyIsPending /\ ActedIsJournaled
  BY RunAssumption DEF ReadyIsPending, ActedIsJournaled, Quiet
<1>8. QED
  BY <1>1, <1>2, <1>3, <1>4, <1>5, <1>6, <1>7 DEF IInv

\* A change of the memory that starts a persistence keeps the invariant.
LEMMA PersistingIInv ==
    ASSUME IInv, persist = Idle, pc \in Running, NEW m \in Memory,
           mem.completed \subseteq m.completed,
           Cardinality(Admitted(m)) <= MaxToolCalls,
           \A c \in Calls : handler[c] \in {"ready", "admitted"} => c \in m.pending,
           Persisting(m),
           UNCHANGED <<disk, journal, pc, mode, durable, log, handler, terminal, outcome, acts, resumes, visit>>
    PROVE  IInv'
<1>1. /\ ledger' = ledger /\ checkpoint' = checkpoint /\ events' = events /\ status' = status
      /\ journal' = journal /\ pc' = pc /\ mode' = mode /\ durable' = durable /\ log' = log
      /\ handler' = handler /\ terminal' = terminal /\ acts' = acts /\ resumes' = resumes /\ frontier' = frontier /\ begun' = begun
      /\ exec' = exec /\ perr' = perr /\ ckfail' = ckfail /\ result' = result /\ mem' = m
  BY DEF disk, outcome, Persisting
<1>2. PICK g \in Generation :
        /\ persist' = [step |-> "ledger", gen |-> g, frontier |-> FALSE]
        /\ g.pending = m.pending
        /\ \A c \in Calls : durable.done[c] # 0 => g.done[c] = durable.done[c]
        /\ \A c \in Calls : g.done[c] # 0 <=> c \in m.completed
  <2>1. \A c \in Calls : durable.done[c] # 0 => c \in m.completed
    BY DEF IInv, MemoryAhead
  <2>2. QED
    BY <2>1, PrepareFacts DEF IInv, Persisting
<1>3. persist' \in Persisted /\ persist' # Idle /\ persist'.gen = g /\ persist'.step = "ledger" /\ ~persist'.frontier
  BY <1>2, NotAbsent DEF Persisted
<1>4. TypeOK'
  BY <1>1, <1>3, <1>2 DEF IInv, TypeOK, Memory
<1>5. Shapes'
  BY <1>1, <1>3 DEF IInv, Shapes
<1>6. FilesAgree' /\ EventsBound' /\ InMemory'
  BY <1>1 DEF IInv, FilesAgree, EventsBound, InMemory, Bound, Resumable
<1>7. pc \notin StartPc /\ pc \notin ClosingPc /\ pc # "off" /\ checkpoint # Absent
  BY DEF IInv, StartProgress, Running, StartPc, ClosingPc
<1>8. StartProgress' /\ OffIsClean'
  BY <1>1, <1>7 DEF IInv, StartProgress, OffIsClean, StartPc
<1>9. PersistKeeps'
  BY <1>1, <1>2, <1>3 DEF PersistKeeps
<1>10. MemoryAhead' /\ Budget'
  BY <1>1, <1>3 DEF IInv, MemoryAhead, Budget, Bound
<1>11. ReadyIsPending' /\ ActedIsJournaled'
  BY <1>1 DEF IInv, ReadyIsPending, ActedIsJournaled
<1>12. Closing' /\ Receipt'
  BY <1>1 DEF IInv, Closing, Receipt, ClosingPc, FinalCheckpoint
<1>13. QED
  BY <1>4, <1>5, <1>6, <1>8, <1>9, <1>10, <1>11, <1>12 DEF IInv

\* before_model and the end of a node only move the phase of the node.
LEMMA MovePhaseIInv ==
    ASSUME IInv, InGraph, NEW n \in Nodes, NEW p \in {"asked", "finished"},
           Persisting([mem EXCEPT !.phase[n] = p]),
           UNCHANGED <<disk, journal, pc, mode, durable, log, handler, terminal, outcome, acts, resumes, visit>>
    PROVE  IInv'
<1> DEFINE m == [mem EXCEPT !.phase[n] = p]
<1>1. mem \in Memory
  BY DEF IInv, TypeOK, Memory
<1>2. /\ m \in Memory /\ m.pending = mem.pending /\ m.completed = mem.completed
      /\ m.phase = [mem.phase EXCEPT ![n] = p]
  BY <1>1 DEF Memory, Phase
<1> HIDE DEF m
<1>4. Admitted(m) = Admitted(mem)
  BY <1>2 DEF Admitted
<1>5. \A c \in Calls : handler[c] \in {"ready", "admitted"} => c \in m.pending
  BY <1>2 DEF IInv, ReadyIsPending
<1>6. persist = Idle /\ pc \in Running
  BY DEF InGraph, Running
<1>7. Persisting(m) /\ Cardinality(Admitted(m)) <= MaxToolCalls
  BY <1>4 DEF m, IInv, Budget
<1>8. QED
  BY <1>2, <1>5, <1>6, <1>7, PersistingIInv

LEMMA BeforeModelIInv == ASSUME IInv, NEW n \in Nodes, BeforeModel(n) PROVE IInv'
BY MovePhaseIInv DEF BeforeModel, Visiting

LEMMA AdmitFinishIInv == ASSUME IInv, NEW n \in Nodes, AdmitFinish(n) PROVE IInv'
BY MovePhaseIInv DEF AdmitFinish, Visiting

\* after_model: the calls are admitted within the budget of all nodes.
LEMMA AdmitCallsIInv ==
    ASSUME IInv, NEW n \in Nodes, NEW S \in SUBSET NodeCalls(n), AdmitCalls(n, S)
    PROVE  IInv'
<1> DEFINE m == [mem EXCEPT !.pending = mem.pending \union S]
<1>1. mem \in Memory /\ S \subseteq Calls
  BY DEF IInv, TypeOK, Memory, NodeCalls
<1>2. /\ m \in Memory /\ m.pending = mem.pending \union S /\ m.completed = mem.completed
      /\ m.phase = mem.phase
  BY <1>1 DEF Memory
<1>3. WithinLimit(n, m) /\ Persisting(m)
  BY DEF AdmitCalls
<1> HIDE DEF m
<1>5. \A c \in Calls : handler[c] \in {"ready", "admitted"} => c \in m.pending
  BY <1>2 DEF IInv, ReadyIsPending
<1>6. persist = Idle /\ pc \in Running
  BY DEF AdmitCalls, Visiting, InGraph, Running
<1>7. Cardinality(Admitted(m)) <= MaxToolCalls
  BY <1>3 DEF WithinLimit
<1>8. UNCHANGED <<disk, journal, pc, mode, durable, log, handler, terminal, outcome, acts, resumes, visit>>
  BY DEF AdmitCalls
<1>9. QED
  BY <1>2, <1>3, <1>5, <1>6, <1>7, <1>8, PersistingIInv

\* A handler's answer moves its call from pending to completed.
LEMMA CompleteIInv ==
    ASSUME IInv, persist = Idle, pc \in Running, NEW c \in Calls, handler[c] = "acted",
           c \in mem.pending,
           Persisting([mem EXCEPT !.pending = @ \ {c}, !.completed = @ \union {c}]),
           UNCHANGED <<disk, journal, pc, mode, durable, log, handler, terminal, outcome, acts, resumes, visit>>
    PROVE  IInv'
<1> DEFINE m == [mem EXCEPT !.pending = mem.pending \ {c}, !.completed = mem.completed \union {c}]
<1>1. mem \in Memory
  BY DEF IInv, TypeOK, Memory
<1>2. /\ m \in Memory /\ m.pending = mem.pending \ {c} /\ m.completed = mem.completed \union {c}
      /\ m.phase = mem.phase
  BY <1>1 DEF Memory
<1>3. Persisting(m)
  BY <1>1 DEF Memory
<1> HIDE DEF m
<1>5. Cardinality(Admitted(m)) <= MaxToolCalls
  <2>1. Admitted(m) \subseteq Admitted(mem)
    BY <1>2 DEF Admitted
  <2>2. QED
    BY <1>1, <1>2, <2>1, AdmitsLess DEF IInv, Budget
<1>6. \A d \in Calls : handler[d] \in {"ready", "admitted"} => d \in m.pending
  BY <1>2 DEF IInv, ReadyIsPending
<1>7. mem.completed \subseteq m.completed
  BY <1>2
<1>8. QED
  BY <1>2, <1>3, <1>5, <1>6, <1>7, PersistingIInv

LEMMA ObserveToolIInv == ASSUME IInv, NEW c \in Calls, ObserveTool(c) PROVE IInv'
BY CompleteIInv DEF ObserveTool, InGraph, Running

LEMMA CompletePendingIInv == ASSUME IInv, NEW c \in Calls, CompletePending(c) PROVE IInv'
BY CompleteIInv DEF CompletePending, InReplay, Running

\* A step of a handler thread: its own state, its tool and the journal.
LEMMA HandlerStepIInv ==
    ASSUME IInv, pc \notin StartPc, pc # "off",
           handler' \in [Calls -> {"none", "ready", "admitted", "acted", "reported"}],
           acts' \in [Calls -> Nat], journal' \subseteq Journaled,
           ReadyIsPending', ActedIsJournaled',
           UNCHANGED <<disk, pc, mode, mem, durable, persist, log, terminal, outcome, resumes, visit>>
    PROVE  IInv'
<1>1. /\ ledger' = ledger /\ checkpoint' = checkpoint /\ events' = events /\ status' = status
      /\ pc' = pc /\ mode' = mode /\ mem' = mem /\ durable' = durable /\ persist' = persist /\ log' = log
      /\ terminal' = terminal /\ resumes' = resumes /\ frontier' = frontier /\ begun' = begun
      /\ exec' = exec /\ perr' = perr /\ ckfail' = ckfail /\ result' = result
  BY DEF disk, outcome
<1>2. TypeOK'
  BY <1>1 DEF IInv, TypeOK
<1>3. Shapes' /\ FilesAgree' /\ EventsBound' /\ InMemory'
  BY <1>1 DEF IInv, Shapes, FilesAgree, EventsBound, InMemory, Bound, Resumable
<1>4. StartProgress' /\ OffIsClean'
  BY <1>1 DEF IInv, StartProgress, OffIsClean, StartPc
<1>5. PersistKeeps' /\ MemoryAhead' /\ Budget'
  BY <1>1 DEF IInv, PersistKeeps, MemoryAhead, Budget, Bound
<1>6. Closing' /\ Receipt'
  BY <1>1 DEF IInv, Closing, Receipt, ClosingPc, FinalCheckpoint
<1>7. QED
  BY <1>2, <1>3, <1>4, <1>5, <1>6 DEF IInv

\* A process that starts or is gone has no live handler.
LEMMA LiveHandler ==
    ASSUME IInv, NEW c \in Calls, handler[c] # "none"
    PROVE  pc \notin StartPc /\ pc # "off"
BY DEF IInv, StartProgress, OffIsClean, Quiet

LEMMA FenceAdmitIInv == ASSUME IInv, NEW c \in Calls, FenceAdmit(c) PROVE IInv'
<1>1. pc \notin StartPc /\ pc # "off"
  BY LiveHandler DEF FenceAdmit
<1>2. /\ handler \in [Calls -> {"none", "ready", "admitted", "acted", "reported"}]
      /\ handler[c] = "ready" /\ handler' = [handler EXCEPT ![c] = "admitted"]
      /\ acts' = acts /\ journal' = journal /\ durable' = durable /\ mem' = mem
  BY DEF FenceAdmit, IInv, TypeOK
<1>3. handler' \in [Calls -> {"none", "ready", "admitted", "acted", "reported"}] /\ ReadyIsPending'
  BY <1>2 DEF IInv, ReadyIsPending
<1>4. ActedIsJournaled' /\ acts' \in [Calls -> Nat] /\ journal' \subseteq Journaled
  BY <1>2 DEF IInv, ActedIsJournaled, TypeOK
<1>5. UNCHANGED <<disk, pc, mode, mem, durable, persist, log, terminal, outcome, resumes, visit>>
  BY DEF FenceAdmit
<1>6. QED
  BY <1>1, <1>3, <1>4, <1>5, HandlerStepIInv

LEMMA HandlerActsIInv == ASSUME IInv, NEW c \in Calls, HandlerActs(c) PROVE IInv'
<1>1. pc \notin StartPc /\ pc # "off"
  BY LiveHandler DEF HandlerActs
<1>2. /\ handler \in [Calls -> {"none", "ready", "admitted", "acted", "reported"}]
      /\ acts \in [Calls -> Nat] /\ journal \subseteq Journaled
      /\ handler' = [handler EXCEPT ![c] = "acted"]
      /\ durable' = durable /\ mem' = mem
  BY DEF HandlerActs, IInv, TypeOK
<1>3. handler' \in [Calls -> {"none", "ready", "admitted", "acted", "reported"}] /\ ReadyIsPending'
  BY <1>2 DEF IInv, ReadyIsPending
<1>4. ActedIsJournaled' /\ acts' \in [Calls -> Nat] /\ journal' \subseteq Journaled
  <2>1. CASE c \in Journaled /\ c \in journal
    BY <1>2, <2>1 DEF HandlerActs, Commit, IInv, ActedIsJournaled
  <2>2. CASE c \in Journaled /\ c \notin journal
    <3>1. journal' = journal \union {c} /\ acts' = [acts EXCEPT ![c] = acts[c] + 1]
      BY <2>2 DEF HandlerActs, Commit
    <3>2. acts[c] = 0
      BY <2>2 DEF IInv, ActedIsJournaled
    <3>3. QED
      BY <1>2, <2>2, <3>1, <3>2, RunAssumption DEF IInv, ActedIsJournaled
  <2>3. CASE c \notin Journaled
    <3>1. journal' = journal /\ acts' = [acts EXCEPT ![c] = acts[c] + 1]
      BY <2>3 DEF HandlerActs
    <3>2. \A d \in Journaled : acts'[d] = acts[d]
      BY <2>3, <3>1, <1>2, RunAssumption
    <3>3. acts' \in [Calls -> Nat]
      BY <3>1, <1>2
    <3>4. QED
      BY <1>2, <3>1, <3>2, <3>3 DEF IInv, ActedIsJournaled
  <2>4. QED
    BY <2>1, <2>2, <2>3
<1>5. UNCHANGED <<disk, pc, mode, mem, durable, persist, log, terminal, outcome, resumes, visit>>
  BY DEF HandlerActs
<1>6. QED
  BY <1>1, <1>3, <1>4, <1>5, HandlerStepIInv

\* The replay starts a call that the memory, and so the checkpoint, has pending.
LEMMA ReplayPendingIInv == ASSUME IInv, NEW c \in Calls, ReplayPending(c) PROVE IInv'
<1>1. pc \notin StartPc /\ pc # "off"
  BY DEF ReplayPending, InReplay, StartPc
<1>2. /\ handler \in [Calls -> {"none", "ready", "admitted", "acted", "reported"}]
      /\ handler' = [handler EXCEPT ![c] = "ready"]
      /\ acts' = acts /\ journal' = journal /\ durable' = durable /\ mem' = mem
  BY DEF ReplayPending, IInv, TypeOK
<1>3. c \in mem.pending /\ c \in durable.pending
  <2>1. exec = "none"
    BY DEF ReplayPending, InReplay, IInv, Closing, ClosingPc
  <2>2. mem = Loaded(durable) /\ durable \in Generation
    BY <2>1 DEF ReplayPending, InReplay, IInv, MemoryAhead, Running, TypeOK
  <2>3. QED
    BY <2>2, LoadedFacts DEF ReplayPending
<1>4. handler' \in [Calls -> {"none", "ready", "admitted", "acted", "reported"}] /\ ReadyIsPending'
  BY <1>2, <1>3 DEF IInv, ReadyIsPending
<1>5. ActedIsJournaled' /\ acts' \in [Calls -> Nat] /\ journal' \subseteq Journaled
  BY <1>2 DEF IInv, ActedIsJournaled, TypeOK
<1>6. UNCHANGED <<disk, pc, mode, mem, durable, persist, log, terminal, outcome, resumes, visit>>
  BY DEF ReplayPending
<1>7. QED
  BY <1>1, <1>4, <1>5, <1>6, HandlerStepIInv

-----------------------------------------------------------------------------
(* persist_generation.                                                      *)

LEMMA PersistLedgerIInv == ASSUME IInv, PersistLedger PROVE IInv'
<1>1. persist # Idle /\ persist \in Persisted /\ persist.gen \in Generation /\ persist.step = "ledger"
  <2>1. persist # Idle
    BY DEF PersistLedger, Idle
  <2>2. QED
    BY <2>1 DEF PersistLedger, IInv, Shapes, Persisted
<1>2. pc \in Running /\ checkpoint # Absent /\ ledger # Absent
  BY <1>1 DEF IInv, PersistKeeps, StartProgress, FilesAgree, Running
<1>3. /\ checkpoint \in CheckpointFile /\ checkpoint.gen \in Generation
      /\ ledger \in LedgerFile /\ checkpoint.gen \in {ledger.nodes, ledger.ck}
  BY <1>2 DEF IInv, Shapes, FilesAgree, CheckpointFile
<1>4. ledger' = [nodes |-> persist.gen, ck |-> checkpoint.gen]
  BY <1>3 DEF PersistLedger, WithCheckpointGeneration
<1>5. /\ ledger' \in LedgerFile /\ ledger' # Absent
      /\ ledger'.nodes = persist.gen /\ ledger'.ck = checkpoint.gen
  BY <1>1, <1>3, <1>4, NotAbsent DEF LedgerFile
<1>6. persist' = [persist EXCEPT !.step = "checkpoint"]
  BY DEF PersistLedger
<1>7. persist' \in Persisted /\ persist' # Idle /\ persist'.gen = persist.gen /\ persist'.step = "checkpoint"
      /\ persist'.frontier = persist.frontier /\ persist.frontier \in BOOLEAN
  BY <1>1, <1>6, NotAbsent DEF Persisted
<1>8. /\ checkpoint' = checkpoint /\ events' = events /\ status' = status
      /\ journal' = journal /\ pc' = pc /\ mode' = mode /\ durable' = durable /\ log' = log
      /\ handler' = handler /\ terminal' = terminal /\ acts' = acts /\ resumes' = resumes /\ frontier' = frontier /\ begun' = begun
      /\ exec' = exec /\ perr' = perr /\ ckfail' = ckfail /\ result' = result /\ mem' = mem
  BY DEF PersistLedger, outcome
<1>9. TypeOK'
  <2>1. ledger'.nodes \in Generation /\ ledger'.ck \in Generation
    BY <1>1, <1>3, <1>5
  <2>2. QED
    BY <1>1, <1>7, <1>8, <2>1 DEF IInv, TypeOK
<1>10. Shapes'
  BY <1>5, <1>7, <1>8 DEF IInv, Shapes
<1>11. FilesAgree' /\ EventsBound' /\ InMemory'
  BY <1>5, <1>8 DEF IInv, FilesAgree, EventsBound, InMemory, Bound, Resumable
<1>12. StartProgress' /\ OffIsClean'
  BY <1>2, <1>8 DEF IInv, StartProgress, OffIsClean, StartPc, Running
<1>13. PersistKeeps'
  BY <1>1, <1>5, <1>7, <1>8 DEF IInv, PersistKeeps
<1>14. MemoryAhead' /\ Budget'
  BY <1>7, <1>8 DEF IInv, MemoryAhead, Budget, Bound
<1>15. ReadyIsPending' /\ ActedIsJournaled'
  BY <1>8 DEF IInv, ReadyIsPending, ActedIsJournaled
<1>16. Closing' /\ Receipt'
  BY <1>8 DEF IInv, Closing, Receipt, ClosingPc, FinalCheckpoint
<1>17. QED
  BY <1>9, <1>10, <1>11, <1>12, <1>13, <1>14, <1>15, <1>16 DEF IInv

\* The log is on disk before the ledger and the checkpoint of a frontier.
LEMMA PersistEventsIInv == ASSUME IInv, PersistEvents PROVE IInv'
<1>1. persist # Idle /\ persist \in Persisted /\ persist.step = "events"
  <2>1. persist # Idle
    BY DEF PersistEvents, Idle
  <2>2. QED
    BY <2>1 DEF PersistEvents, IInv, Shapes
<1>2. pc \in Running /\ pc # "off" /\ pc \notin StartPc /\ pc \notin ClosingPc /\ checkpoint # Absent
  BY <1>1 DEF IInv, PersistKeeps, StartProgress, Running, StartPc, ClosingPc
<1>3. persist' = [persist EXCEPT !.step = "ledger"]
  BY DEF PersistEvents
<1>4. /\ persist' \in Persisted /\ persist' # Idle /\ persist'.gen = persist.gen
      /\ persist'.step = "ledger" /\ persist'.frontier = persist.frontier
      /\ persist'.gen \in Generation /\ persist'.frontier \in BOOLEAN
  BY <1>1, <1>3, NotAbsent DEF Persisted
<1>5. /\ events' = log /\ ledger' = ledger /\ checkpoint' = checkpoint /\ status' = status
      /\ journal' = journal /\ pc' = pc /\ mode' = mode /\ durable' = durable /\ log' = log
      /\ handler' = handler /\ terminal' = terminal /\ acts' = acts /\ resumes' = resumes
      /\ exec' = exec /\ perr' = perr /\ ckfail' = ckfail /\ result' = result /\ mem' = mem
      /\ frontier' = frontier /\ begun' = begun
  BY DEF PersistEvents, outcome
<1>6. TypeOK'
  BY <1>4, <1>5 DEF IInv, TypeOK
<1>7. Shapes'
  BY <1>4, <1>5 DEF IInv, Shapes
<1>8. FilesAgree' /\ EventsBound' /\ InMemory'
  BY <1>2, <1>5 DEF IInv, FilesAgree, EventsBound, InMemory, Bound, Resumable
<1>9. StartProgress' /\ OffIsClean'
  BY <1>2, <1>5 DEF IInv, StartProgress, OffIsClean, StartPc
<1>10. PersistKeeps'
  BY <1>1, <1>4, <1>5 DEF IInv, PersistKeeps
<1>11. MemoryAhead' /\ Budget'
  BY <1>4, <1>5 DEF IInv, MemoryAhead, Budget, Bound
<1>12. ReadyIsPending' /\ ActedIsJournaled'
  BY <1>5 DEF IInv, ReadyIsPending, ActedIsJournaled
<1>13. Closing' /\ Receipt'
  BY <1>2, <1>5 DEF IInv, Closing, Receipt, ClosingPc
<1>14. QED
  BY <1>6, <1>7, <1>8, <1>9, <1>10, <1>11, <1>12, <1>13 DEF IInv

\* The checkpoint moves to the generation the ledger already holds, which
\* keeps every identity the events mention; with a frontier also to the end of
\* the log, which is on disk by then.
LEMMA PersistCheckpointIInv == ASSUME IInv, PersistCheckpoint PROVE IInv'
<1> DEFINE g == persist.gen
<1>1. persist # Idle /\ g \in Generation /\ persist.step = "checkpoint" /\ persist.frontier \in BOOLEAN
  <2>1. persist # Idle
    BY DEF PersistCheckpoint, Idle
  <2>2. QED
    BY <2>1 DEF PersistCheckpoint, IInv, Shapes, Persisted
<1>2. /\ pc \in Running /\ checkpoint # Absent /\ ledger # Absent /\ ledger.nodes = g
      /\ g.pending = mem.pending
      /\ \A c \in Calls : durable.done[c] # 0 => g.done[c] = durable.done[c]
      /\ \A c \in Calls : g.done[c] # 0 => c \in mem.completed
      /\ persist.frontier => events = log
  BY <1>1 DEF IInv, PersistKeeps, StartProgress, Running
<1>3. /\ checkpoint \in CheckpointFile /\ checkpoint.seq \in Nat /\ durable = checkpoint.gen
      /\ checkpoint.seq <= Len(log) /\ checkpoint.seq <= Len(events)
      /\ Len(log) \in Nat /\ frontier \in Frontier
  BY <1>2 DEF IInv, TypeOK, Shapes, CheckpointFile, FilesAgree, InMemory, Bound, Running
<1>4. /\ checkpoint' = NextCheckpoint /\ durable' = g /\ persist' = Idle
      /\ handler' = AfterPersist /\ mem' = Loaded(g)
      /\ ledger' = ledger /\ events' = events /\ status' = status
      /\ journal' = journal /\ pc' = pc /\ mode' = mode /\ log' = log
      /\ terminal' = terminal /\ acts' = acts /\ resumes' = resumes
      /\ exec' = exec /\ perr' = perr /\ ckfail' = ckfail /\ result' = result
      /\ frontier' = frontier /\ begun' = begun
  BY DEF PersistCheckpoint, outcome
<1>5. /\ checkpoint' \in CheckpointFile /\ checkpoint' # Absent
      /\ checkpoint'.gen = g /\ checkpoint'.seq \in {checkpoint.seq, Len(log)}
      /\ checkpoint'.seq # checkpoint.seq => persist.frontier
  <2>1. CASE persist.frontier
    BY <2>1, <1>1, <1>3, <1>4, NotAbsent DEF CheckpointFile, NextCheckpoint
  <2>2. CASE ~persist.frontier
    BY <2>2, <1>1, <1>3, <1>4, NotAbsent DEF CheckpointFile, NextCheckpoint
  <2>3. QED
    BY <2>1, <2>2
<1>6. checkpoint'.seq <= Len(events) /\ checkpoint'.seq <= Len(log) /\ checkpoint'.seq \in Nat
  <2>1. Len(events) \in Nat
    BY DEF IInv, TypeOK
  <2>2. CASE persist.frontier
    BY <2>1, <2>2, <1>2, <1>3, <1>5
  <2>3. CASE ~persist.frontier
    BY <2>3, <1>3, <1>5
  <2>4. QED
    BY <2>2, <2>3
<1>7. Done(durable) \subseteq Done(g)
  BY <1>2, DoneGrows
<1>8. handler' \in [Calls -> {"none", "ready", "admitted", "acted", "reported"}]
  <2>1. handler \in [Calls -> {"none", "ready", "admitted", "acted", "reported"}]
    BY DEF IInv, TypeOK
  <2>2. QED
    BY <1>4, <2>1 DEF AfterPersist
<1>9. /\ mem' \in Memory /\ mem'.pending = g.pending
      /\ mem'.completed = {c \in Calls : g.done[c] # 0} /\ mem \in Memory
  BY <1>1, <1>4, LoadedFacts DEF IInv, TypeOK, Memory
<1>10. ReadyIsPending'
  <2> SUFFICES ASSUME NEW c \in Calls, handler'[c] \in {"ready", "admitted"}
               PROVE  c \in g.pending
    BY <1>4, <1>9 DEF ReadyIsPending
  <2>1. \/ handler[c] = handler'[c]
        \/ c \in g.pending
        \/ handler'[c] = "reported"
    BY <1>4 DEF AfterPersist
  <2>2. QED
    BY <1>2, <2>1 DEF IInv, ReadyIsPending
<1> HIDE DEF g
<1>11. TypeOK'
  <2>1. checkpoint'.gen \in Generation /\ checkpoint'.front \in Frontier
    BY <1>5 DEF CheckpointFile
  <2>2. QED
    BY <1>1, <1>4, <1>5, <1>6, <1>8, <1>9, <2>1 DEF IInv, TypeOK, Memory
<1>12. Shapes'
  BY <1>4, <1>5 DEF IInv, Shapes
<1>13. FilesAgree'
  BY <1>2, <1>4, <1>5, <1>6 DEF IInv, FilesAgree, Resumable
<1>14. EventsBound'
  <2>1. Tokens(events) \subseteq Done(g) /\ Tokens(log) \subseteq Done(g)
    BY <1>2, <1>3, <1>7 DEF IInv, EventsBound, Bound
  <2>2. QED
    BY <1>4, <1>5, <2>1 DEF IInv, EventsBound, Bound
<1>15. InMemory'
  BY <1>2, <1>4, <1>5, <1>6 DEF InMemory, Bound, Running
<1>16. StartProgress' /\ OffIsClean'
  BY <1>2, <1>4, <1>5 DEF IInv, StartProgress, OffIsClean, StartPc, Running
<1>17. PersistKeeps'
  BY <1>4 DEF PersistKeeps
<1>18. MemoryAhead'
  BY <1>4, <1>9 DEF MemoryAhead
<1>19. Budget'
  <2>1. Admitted(Loaded(g)) \subseteq Admitted(mem)
    BY <1>1, <1>2, LoadedFacts DEF Admitted
  <2>2. Cardinality(Admitted(Loaded(g))) <= MaxToolCalls
    BY <1>4, <1>9, <2>1, AdmitsLess DEF IInv, Budget
  <2>3. QED
    BY <1>4, <1>5, <2>2 DEF Budget, Bound
<1>20. ActedIsJournaled'
  BY <1>4 DEF IInv, ActedIsJournaled
<1>21. Closing'
  <2>1. exec \in {"none", "error"} /\ pc \notin ClosingPc
    BY <1>2 DEF IInv, Closing, Running, ClosingPc
  <2>2. QED
    BY <1>2, <1>4, <2>1 DEF IInv, Closing, ClosingPc
<1>22. Receipt'
  BY <1>2, <1>4 DEF IInv, Receipt, Running
<1>23. QED
  BY <1>10, <1>11, <1>12, <1>13, <1>14, <1>15, <1>16, <1>17, <1>18, <1>19, <1>20, <1>21, <1>22 DEF IInv

\* A failure is recorded, or a stop: the memory may be ahead from then on.
LEMMA RecordFailureIInv ==
    ASSUME IInv, pc \in Running, persist' \in {persist, Idle}, terminal' = TRUE,
           (exec' = exec /\ persist' = persist) \/ (exec' = "error" /\ persist' = Idle), pc' = pc,
           UNCHANGED <<disk, journal, mode, mem, durable, log, handler, perr, ckfail, result, acts, resumes, visit>>
    PROVE  IInv'
<1>1. /\ ledger' = ledger /\ checkpoint' = checkpoint /\ events' = events /\ status' = status
      /\ journal' = journal /\ pc' = pc /\ mode' = mode /\ durable' = durable /\ log' = log
      /\ handler' = handler /\ mem' = mem /\ acts' = acts /\ resumes' = resumes /\ frontier' = frontier /\ begun' = begun
      /\ perr' = perr /\ ckfail' = ckfail /\ result' = result
  BY DEF disk
<1>2. pc \notin StartPc /\ pc \notin ClosingPc /\ pc # "off" /\ exec \in {"none", "error"}
  BY DEF Running, StartPc, ClosingPc, IInv, Closing
<1>3. TypeOK'
  BY <1>1 DEF IInv, TypeOK
<1>4. Shapes' /\ FilesAgree' /\ EventsBound' /\ InMemory'
  BY <1>1 DEF IInv, Shapes, FilesAgree, EventsBound, InMemory, Bound, Resumable
<1>5. StartProgress' /\ OffIsClean'
  BY <1>1, <1>2 DEF IInv, StartProgress, OffIsClean, StartPc
<1>6. PersistKeeps'
  BY <1>1 DEF IInv, PersistKeeps
<1>7. MemoryAhead' /\ Budget'
  BY <1>1 DEF IInv, MemoryAhead, Budget, Bound
<1>8. ReadyIsPending' /\ ActedIsJournaled'
  BY <1>1 DEF IInv, ReadyIsPending, ActedIsJournaled
<1>9. Closing' /\ Receipt'
  BY <1>1, <1>2 DEF IInv, Closing, Receipt, ClosingPc
<1>10. QED
  BY <1>3, <1>4, <1>5, <1>6, <1>7, <1>8, <1>9 DEF IInv


LEMMA StopIInv == ASSUME IInv, Stop PROVE IInv'
BY RecordFailureIInv DEF Stop, outcome

-----------------------------------------------------------------------------
(* The start.                                                               *)

\* What a step of the start leaves alone, and what holds as long as the
\* checkpoint binds nothing but the empty generation.
LEMMA StartStepFrame ==
    ASSUME IInv, pc \in StartPc, Bound' = Empty,
           UNCHANGED <<journal, mode, mem, durable, persist, handler, terminal, ckfail, result, acts, resumes, visit>>
    PROVE  /\ PersistKeeps' /\ MemoryAhead' /\ Budget' /\ ReadyIsPending' /\ ActedIsJournaled' /\ Receipt'
           /\ Bound = Empty /\ durable = Empty /\ mem = Loaded(Empty) /\ persist = Idle /\ handler = Quiet
           /\ mode = "start" /\ ~terminal /\ exec = "none" /\ result # "ok"
<1>1. /\ durable = Empty /\ mem = Loaded(Empty) /\ persist = Idle /\ handler = Quiet
      /\ mode = "start" /\ ~terminal /\ exec = "none"
  BY DEF IInv, StartProgress
<1>2. pc # "off" /\ Bound = Empty /\ result # "ok"
  BY <1>1 DEF StartPc, IInv, InMemory, Receipt
<1>3. PersistKeeps'
  BY <1>1 DEF PersistKeeps
<1>4. MemoryAhead'
  BY <1>1, EmptyFacts, EmptyIsQuiet DEF MemoryAhead
<1>5. Budget'
  BY <1>1, EmptyIsQuiet DEF Budget
<1>6. ReadyIsPending'
  BY <1>1 DEF ReadyIsPending, Quiet
<1>7. ActedIsJournaled'
  BY DEF IInv, ActedIsJournaled
<1>8. Receipt'
  BY <1>2 DEF Receipt
<1>9. QED
  BY <1>1, <1>2, <1>3, <1>4, <1>5, <1>6, <1>7, <1>8

LEMMA StartFailsIInv == ASSUME IInv, StartFails PROVE IInv'
<1>1. /\ pc \in StartPc /\ pc' = "reconcile" /\ exec' = "error" /\ perr' = TRUE
      /\ ledger' = ledger /\ checkpoint' = checkpoint /\ events' = events
      /\ journal' = journal /\ mode' = mode /\ durable' = durable /\ persist' = persist
      /\ handler' = handler /\ mem' = mem /\ acts' = acts /\ resumes' = resumes /\ frontier' = frontier /\ begun' = begun
      /\ terminal' = terminal /\ ckfail' = ckfail /\ result' = result
      /\ log' = (IF pc = "create" THEN <<Started>> ELSE log)
      /\ status' \in IF pc = "publish" THEN {status, "running"} ELSE {status}
  BY DEF StartFails, StartPc
<1>2. Bound' = Bound /\ Bound = Empty
  BY <1>1 DEF Bound, IInv, InMemory, StartProgress, StartPc
<1>3. /\ PersistKeeps' /\ MemoryAhead' /\ Budget' /\ ReadyIsPending' /\ ActedIsJournaled' /\ Receipt'
      /\ durable = Empty /\ persist = Idle /\ mode = "start" /\ exec = "none"
  BY <1>1, <1>2, StartStepFrame
<1>4. log' \in Seq(Event) /\ Tokens(log') \subseteq Done(durable) /\ Once(log')
  <2>1. CASE pc = "create"
    BY <1>1, <2>1, MarkRecordsNothing
  <2>2. CASE pc # "create"
    BY <1>1, <2>2 DEF IInv, EventsBound, TypeOK
  <2>3. QED
    BY <2>1, <2>2
<1>5. status' \in {"absent", "running", "succeeded", "failed"}
  BY <1>1 DEF IInv, TypeOK
<1>6. TypeOK'
  BY <1>1, <1>4, <1>5 DEF IInv, TypeOK
<1>7. Shapes'
  BY <1>1 DEF IInv, Shapes
<1>8. FilesAgree'
  <2>1. status' = status \/ checkpoint # Absent
    BY <1>1 DEF IInv, StartProgress
  <2>2. QED
    BY <1>1, <2>1 DEF IInv, FilesAgree, Resumable
<1>9. EventsBound'
  BY <1>1, <1>2, <1>4 DEF IInv, EventsBound
<1>10. InMemory'
  <2>1. checkpoint # Absent => log' = log
    BY <1>1 DEF IInv, StartProgress
  <2>2. QED
    BY <1>1, <1>2, <2>1 DEF IInv, InMemory, StartPc
<1>11. StartProgress' /\ OffIsClean'
  BY <1>1 DEF StartProgress, OffIsClean, StartPc
<1>12. Closing'
  BY <1>1 DEF Closing, ClosingPc
<1>13. QED
  BY <1>3, <1>6, <1>7, <1>8, <1>9, <1>10, <1>11, <1>12 DEF IInv

LEMMA CreateLedgerIInv == ASSUME IInv, CreateLedger PROVE IInv'
<1>1. /\ pc = "create" /\ pc' = "started" /\ ledger' = [nodes |-> Empty, ck |-> Absent]
      /\ log' = <<Started>> /\ checkpoint' = checkpoint /\ events' = events /\ status' = status
      /\ journal' = journal /\ mode' = mode /\ durable' = durable /\ persist' = persist
      /\ handler' = handler /\ mem' = mem /\ acts' = acts /\ resumes' = resumes /\ frontier' = frontier /\ begun' = begun
      /\ terminal' = terminal /\ exec' = exec /\ perr' = perr /\ ckfail' = ckfail /\ result' = result
  BY DEF CreateLedger, outcome
<1>2. pc \in StartPc /\ checkpoint = Absent /\ Bound' = Empty /\ Bound = Empty
  BY <1>1 DEF StartPc, Bound, IInv, StartProgress
<1>3. /\ PersistKeeps' /\ MemoryAhead' /\ Budget' /\ ReadyIsPending' /\ ActedIsJournaled' /\ Receipt'
      /\ durable = Empty /\ mem = Loaded(Empty) /\ persist = Idle /\ handler = Quiet
      /\ mode = "start" /\ ~terminal /\ exec = "none"
  BY <1>1, <1>2, StartStepFrame
<1>4. log' \in Seq(Event) /\ Tokens(log') \subseteq Done(durable) /\ Once(log')
  BY <1>1, MarkRecordsNothing
<1>5. ledger' \in LedgerFile /\ ledger'.nodes \in Generation /\ ledger'.ck = Absent
  BY <1>1, EmptyFacts DEF LedgerFile
<1>6. TypeOK'
  BY <1>1, <1>4, <1>5 DEF IInv, TypeOK
<1>7. Shapes' /\ FilesAgree'
  BY <1>1, <1>2, <1>5 DEF IInv, Shapes, FilesAgree, Resumable
<1>8. EventsBound' /\ InMemory'
  BY <1>1, <1>2, <1>3, <1>4 DEF IInv, EventsBound, InMemory
<1>9. StartProgress' /\ OffIsClean' /\ Closing'
  BY <1>1, <1>2, <1>3 DEF IInv, StartProgress, OffIsClean, StartPc, Closing, ClosingPc
<1>10. QED
  BY <1>3, <1>6, <1>7, <1>8, <1>9 DEF IInv

LEMMA StartEventsIInv == ASSUME IInv, StartEvents PROVE IInv'
<1>1. /\ pc = "started" /\ pc' = "initial" /\ events' = log
      /\ ledger' = ledger /\ log' = log /\ checkpoint' = checkpoint /\ status' = status
      /\ journal' = journal /\ mode' = mode /\ durable' = durable /\ persist' = persist
      /\ handler' = handler /\ mem' = mem /\ acts' = acts /\ resumes' = resumes /\ frontier' = frontier /\ begun' = begun
      /\ terminal' = terminal /\ exec' = exec /\ perr' = perr /\ ckfail' = ckfail /\ result' = result
  BY DEF StartEvents, outcome
<1>2. /\ pc \in StartPc /\ checkpoint = Absent /\ Bound' = Empty /\ Bound = Empty
      /\ ledger = [nodes |-> Empty, ck |-> Absent]
  BY <1>1 DEF StartPc, Bound, IInv, StartProgress
<1>3. /\ PersistKeeps' /\ MemoryAhead' /\ Budget' /\ ReadyIsPending' /\ ActedIsJournaled' /\ Receipt'
      /\ durable = Empty /\ mem = Loaded(Empty) /\ persist = Idle /\ handler = Quiet
      /\ mode = "start" /\ ~terminal /\ exec = "none"
  BY <1>1, <1>2, StartStepFrame
<1>4. TypeOK'
  BY <1>1 DEF IInv, TypeOK
<1>5. Shapes' /\ FilesAgree'
  BY <1>1, <1>2 DEF IInv, Shapes, FilesAgree, Resumable
<1>6. EventsBound' /\ InMemory'
  BY <1>1, <1>2, <1>3 DEF IInv, EventsBound, InMemory
<1>7. StartProgress' /\ OffIsClean' /\ Closing'
  BY <1>1, <1>2, <1>3 DEF IInv, StartProgress, OffIsClean, StartPc, Closing, ClosingPc
<1>8. QED
  BY <1>3, <1>4, <1>5, <1>6, <1>7 DEF IInv

LEMMA InitialCheckpointIInv == ASSUME IInv, InitialCheckpoint PROVE IInv'
<1>1. /\ pc = "initial" /\ pc' = "publish" /\ checkpoint' = [gen |-> Empty, seq |-> Len(log), front |-> frontier]
      /\ ledger' = ledger /\ log' = log /\ events' = events /\ status' = status
      /\ journal' = journal /\ mode' = mode /\ durable' = durable /\ persist' = persist
      /\ handler' = handler /\ mem' = mem /\ acts' = acts /\ resumes' = resumes /\ frontier' = frontier /\ begun' = begun
      /\ terminal' = terminal /\ exec' = exec /\ perr' = perr /\ ckfail' = ckfail /\ result' = result
  BY DEF InitialCheckpoint, outcome
<1>2. /\ log \in Seq(Event) /\ Len(log) \in Nat /\ frontier \in Frontier
  BY DEF IInv, TypeOK
<1>3. /\ checkpoint' \in CheckpointFile /\ checkpoint' # Absent
      /\ checkpoint'.gen = Empty /\ checkpoint'.seq = Len(log) /\ checkpoint'.front = frontier
  BY <1>1, <1>2, EmptyFacts, NotAbsent DEF CheckpointFile
<1>4. /\ pc \in StartPc /\ checkpoint = Absent /\ Bound' = Empty /\ Bound = Empty
      /\ ledger = [nodes |-> Empty, ck |-> Absent] /\ events = log
  BY <1>1, <1>3 DEF StartPc, Bound, IInv, StartProgress
<1>5. /\ PersistKeeps' /\ MemoryAhead' /\ Budget' /\ ReadyIsPending' /\ ActedIsJournaled' /\ Receipt'
      /\ durable = Empty /\ mem = Loaded(Empty) /\ persist = Idle /\ handler = Quiet
      /\ mode = "start" /\ ~terminal /\ exec = "none"
  BY <1>1, <1>4, StartStepFrame
<1>6. ledger # Absent /\ ledger.nodes = Empty
  <2>1. ledger \in LedgerFile
    BY <1>4, EmptyFacts DEF LedgerFile
  <2>2. QED
    BY <1>4, <2>1, NotAbsent
<1>7. TypeOK'
  BY <1>1, <1>2, <1>3, EmptyFacts DEF IInv, TypeOK
<1>8. Shapes'
  BY <1>1, <1>3 DEF IInv, Shapes
<1>9. FilesAgree'
  BY <1>1, <1>2, <1>3, <1>4, <1>6 DEF IInv, FilesAgree, Resumable
<1>10. EventsBound' /\ InMemory'
  BY <1>1, <1>2, <1>3, <1>4, <1>5 DEF IInv, EventsBound, InMemory
<1>11. StartProgress' /\ OffIsClean' /\ Closing'
  BY <1>1, <1>3, <1>5 DEF IInv, StartProgress, OffIsClean, StartPc, Closing, ClosingPc
<1>12. QED
  BY <1>5, <1>7, <1>8, <1>9, <1>10, <1>11 DEF IInv

LEMMA PublishRunIInv == ASSUME IInv, PublishRun PROVE IInv'
<1>1. /\ pc = "publish" /\ pc' = "graph" /\ status' = "running"
      /\ ledger' = ledger /\ log' = log /\ events' = events /\ checkpoint' = checkpoint
      /\ journal' = journal /\ mode' = mode /\ durable' = durable /\ persist' = persist
      /\ handler' = handler /\ mem' = mem /\ acts' = acts /\ resumes' = resumes /\ frontier' = frontier /\ begun' = begun
      /\ terminal' = terminal /\ exec' = exec /\ perr' = perr /\ ckfail' = ckfail /\ result' = result
  BY DEF PublishRun, outcome
<1>2. /\ pc \in StartPc /\ checkpoint # Absent /\ Bound' = Bound /\ Bound = Empty
  BY <1>1 DEF StartPc, Bound, IInv, StartProgress, InMemory
<1>3. /\ PersistKeeps' /\ MemoryAhead' /\ Budget' /\ ReadyIsPending' /\ ActedIsJournaled' /\ Receipt'
      /\ exec = "none"
  BY <1>1, <1>2, StartStepFrame
<1>4. TypeOK'
  BY <1>1 DEF IInv, TypeOK
<1>5. Shapes' /\ FilesAgree'
  BY <1>1, <1>2 DEF IInv, Shapes, FilesAgree, Resumable
<1>6. EventsBound' /\ InMemory'
  BY <1>1, <1>2 DEF IInv, EventsBound, InMemory
<1>7. StartProgress' /\ OffIsClean' /\ Closing'
  BY <1>1, <1>2, <1>3 DEF IInv, StartProgress, OffIsClean, StartPc, Closing, ClosingPc
<1>8. QED
  BY <1>3, <1>4, <1>5, <1>6, <1>7 DEF IInv

-----------------------------------------------------------------------------
(* Events that are mapped.                                                  *)

LEMMA AppendRecords ==
    ASSUME NEW s \in Seq(Event), NEW e \in Event, Once(s), e[2] = 0 \/ e \notin Tokens(s)
    PROVE  /\ Append(s, e) \in Seq(Event) /\ Len(Append(s, e)) = Len(s) + 1
           /\ Tokens(Append(s, e)) = Tokens(s) \union (IF e[2] = 0 THEN {} ELSE {e})
           /\ Once(Append(s, e))
<1> DEFINE w == Append(s, e)
<1> DEFINE n == Len(s)
<1>1. /\ w \in Seq(Event) /\ n \in Nat /\ Len(w) = n + 1
      /\ \A i \in 1..n : w[i] = s[i]
      /\ w[n + 1] = e
  OBVIOUS
<1>2. DOMAIN w = 1..(n + 1) /\ DOMAIN s = 1..n
  BY <1>1
<1> HIDE DEF w, n
<1>3. \A i \in 1..(n + 1) : i \in 1..n \/ i = n + 1
  BY <1>1
<1>4. \A i \in 1..n : i \in 1..(n + 1)
  BY <1>1
<1>5. n + 1 \in 1..(n + 1)
  BY <1>1
<1>6. \A t : t \in Tokens(w) <=> t \in Tokens(s) \/ (t = e /\ e[2] # 0)
  BY <1>1, <1>2, <1>3, <1>4, <1>5 DEF Tokens
<1>7. Once(w)
  <2> SUFFICES ASSUME NEW i \in 1..(n + 1), NEW j \in 1..(n + 1), i # j, w[i] = w[j], w[i][2] # 0
               PROVE  FALSE
    BY <1>2 DEF Once
  <2>1. CASE i \in 1..n /\ j \in 1..n
    BY <2>1, <1>1, <1>2 DEF Once
  <2>2. CASE i \in 1..n /\ j = n + 1
    BY <2>2, <1>1, <1>2 DEF Tokens
  <2>3. CASE j \in 1..n /\ i = n + 1
    BY <2>3, <1>1, <1>2 DEF Tokens
  <2>4. QED
    BY <2>1, <2>2, <2>3, <1>3
<1>8. QED
  BY <1>1, <1>6, <1>7 DEF w, n

\* Mapping some of the missing completions, and then perhaps a failure, keeps
\* the log within the generation; mapping all of them makes it complete.
LEMMA MappingRecords ==
    ASSUME IInv, NEW T \in SUBSET Missing, NEW e \in {<<>>, <<Failed>>}
    PROVE  LET w == log \o SetToSeq(T) \o e
           IN  /\ w \in Seq(Event) /\ Len(w) >= Len(log) /\ Once(w)
               /\ Tokens(w) = Tokens(log) \union T /\ Tokens(w) \subseteq Done(durable)
               /\ T = Missing => Tokens(w) = Done(durable)
<1> DEFINE u == SetToSeq(T)
<1> DEFINE v == log \o u
<1> DEFINE w == v \o e
<1>1. /\ log \in Seq(Event) /\ Len(log) \in Nat /\ Once(log) /\ Tokens(log) \subseteq Done(durable)
      /\ durable \in Generation
  BY DEF IInv, TypeOK, EventsBound
<1>2. T \subseteq Done(durable) /\ T \intersect Tokens(log) = {}
  BY DEF Missing
<1>3. IsFiniteSet(T) /\ T \subseteq Event /\ \A t \in T : t[2] # 0
  BY <1>1, <1>2, DoneFacts, FS_Subset
<1>4. u \in Seq(Event) /\ Tokens(u) = T /\ Once(u)
  BY <1>3, ListRecords
<1> HIDE DEF u
<1>5. v \in Seq(Event) /\ Len(v) >= Len(log) /\ Tokens(v) = Tokens(log) \union T /\ Once(v)
  BY <1>1, <1>2, <1>4, ConcatRecords
<1> HIDE DEF v
<1>6. e \in Seq(Event) /\ Tokens(e) = {} /\ Once(e)
  BY EmptyLog, MarkRecordsNothing
<1>7. w \in Seq(Event) /\ Len(w) >= Len(v) /\ Tokens(w) = Tokens(v) /\ Once(w)
  <2>1. Tokens(v) \intersect Tokens(e) = {} /\ Tokens(v) \union Tokens(e) = Tokens(v)
    BY <1>6
  <2>2. QED
    BY <1>5, <1>6, <2>1, ConcatRecords
<1> HIDE DEF w
<1>8. Len(w) >= Len(log)
  BY <1>1, <1>5, <1>7
<1>9. Tokens(w) = Tokens(log) \union T /\ Tokens(w) \subseteq Done(durable)
  BY <1>1, <1>2, <1>5, <1>7
<1>10. T = Missing => Tokens(w) = Done(durable)
  BY <1>9 DEF Missing
<1>11. w = log \o SetToSeq(T) \o e
  BY DEF w, v, u
<1>12. QED
  BY <1>7, <1>8, <1>9, <1>10, <1>11

\* A log that only gained published identities keeps what is bound.
LEMMA LogCompletionIInv == ASSUME IInv, NEW c \in Calls, LogCompletion(c) PROVE IInv'
<1> DEFINE e == <<c, durable.done[c]>>
<1>1. /\ pc = "graph" /\ persist = Idle /\ durable.done[c] # 0 /\ e \notin Tokens(log)
      /\ log' = Append(log, e)
      /\ ledger' = ledger /\ events' = events /\ checkpoint' = checkpoint /\ status' = status
      /\ journal' = journal /\ pc' = pc /\ mode' = mode /\ durable' = durable /\ persist' = persist
      /\ handler' = handler /\ mem' = mem /\ acts' = acts /\ resumes' = resumes /\ frontier' = frontier /\ begun' = begun
      /\ terminal' = terminal /\ exec' = exec /\ perr' = perr /\ ckfail' = ckfail /\ result' = result
  BY DEF LogCompletion, InGraph, disk, outcome
<1>2. e \in Done(durable) /\ e \in Event
  <2>1. e \in Done(durable)
    BY <1>1, DoneIn
  <2>2. QED
    BY <2>1, DoneFacts DEF IInv, TypeOK
<1> HIDE DEF e
<1>3. log \in Seq(Event) /\ Len(log) \in Nat /\ Once(log) /\ Tokens(log) \subseteq Done(durable)
  BY DEF IInv, TypeOK, EventsBound
<1>4. /\ log' \in Seq(Event) /\ Len(log') = Len(log) + 1 /\ Once(log')
      /\ Tokens(log') \subseteq Done(durable)
  BY <1>1, <1>2, <1>3, AppendRecords
<1>5. TypeOK'
  BY <1>1, <1>4 DEF IInv, TypeOK
<1>6. Shapes' /\ FilesAgree' /\ EventsBound'
  BY <1>1, <1>4 DEF IInv, Shapes, FilesAgree, EventsBound, Bound, Resumable
<1>7. InMemory'
  <2>1. checkpoint # Absent => checkpoint.seq \in Nat
    BY DEF IInv, Shapes, CheckpointFile
  <2>2. QED
    BY <1>1, <1>3, <1>4, <2>1 DEF IInv, InMemory, Bound
<1>8. StartProgress' /\ OffIsClean'
  BY <1>1 DEF IInv, StartProgress, OffIsClean, StartPc
<1>9. PersistKeeps' /\ MemoryAhead' /\ Budget'
  BY <1>1 DEF IInv, PersistKeeps, MemoryAhead, Budget, Bound
<1>10. ReadyIsPending' /\ ActedIsJournaled'
  BY <1>1 DEF IInv, ReadyIsPending, ActedIsJournaled
<1>11. Closing' /\ Receipt'
  BY <1>1 DEF IInv, Closing, Receipt, ClosingPc
<1>12. QED
  BY <1>5, <1>6, <1>7, <1>8, <1>9, <1>10, <1>11 DEF IInv

\* tool_audit::reconcile makes the log complete.
LEMMA ReconciledRecords ==
    ASSUME IInv
    PROVE  /\ Reconciled \in Seq(Event) /\ Len(Reconciled) >= Len(log) /\ Once(Reconciled)
           /\ Tokens(Reconciled) = Done(durable)
           /\ Reconciled \o <<>> = Reconciled
<1>1. log \in Seq(Event) /\ durable \in Generation
  BY DEF IInv, TypeOK
<1>2. SetToSeq(Missing) \in Seq(Event)
  <2>1. Missing \subseteq Done(durable)
    BY DEF Missing
  <2>2. IsFiniteSet(Missing) /\ Missing \subseteq Event /\ \A t \in Missing : t[2] # 0
    BY <1>1, <2>1, DoneFacts, FS_Subset
  <2>3. QED
    BY <2>2, ListRecords
<1>3. Reconciled \in Seq(Event)
  BY <1>1, <1>2, ConcatProperties DEF Reconciled
<1>4. Reconciled \o <<>> = Reconciled
  BY <1>3, ConcatEmptySeq
<1>5. (log \o SetToSeq(Missing) \o <<>>) = Reconciled
  BY <1>4 DEF Reconciled
<1>6. /\ Len(log \o SetToSeq(Missing) \o <<>>) >= Len(log) /\ Once(log \o SetToSeq(Missing) \o <<>>)
      /\ Tokens(log \o SetToSeq(Missing) \o <<>>) = Done(durable)
  BY MappingRecords
<1>7. QED
  BY <1>3, <1>4, <1>5, <1>6

LEMMA ReplayDoneIInv == ASSUME IInv, ReplayDone PROVE IInv'
<1>1. /\ pc = "replay" /\ persist = Idle /\ ~terminal /\ log' = Reconciled /\ pc' = "graph" /\ handler' = Quiet
      /\ ledger' = ledger /\ events' = events /\ checkpoint' = checkpoint /\ status' = status
      /\ journal' = journal /\ mode' = mode /\ durable' = durable /\ persist' = persist
      /\ mem' = mem /\ acts' = acts /\ resumes' = resumes /\ frontier' = frontier /\ begun' = begun
      /\ terminal' = terminal /\ exec' = exec /\ perr' = perr /\ ckfail' = ckfail /\ result' = result
  BY DEF ReplayDone, InReplay, disk, outcome
<1>2. /\ log' \in Seq(Event) /\ Len(log') >= Len(log) /\ Once(log') /\ Tokens(log') \subseteq Done(durable)
  BY <1>1, ReconciledRecords
<1>3. handler' \in [Calls -> {"none", "ready", "admitted", "acted", "reported"}] /\ ReadyIsPending'
  BY <1>1 DEF Quiet, ReadyIsPending
<1>4. TypeOK'
  BY <1>1, <1>2, <1>3 DEF IInv, TypeOK
<1>5. Shapes' /\ FilesAgree' /\ EventsBound'
  BY <1>1, <1>2 DEF IInv, Shapes, FilesAgree, EventsBound, Bound, Resumable
<1>6. InMemory'
  <2>1. checkpoint # Absent => checkpoint.seq \in Nat
    BY DEF IInv, Shapes, CheckpointFile
  <2>2. Len(log) \in Nat /\ Len(log') \in Nat
    BY <1>2 DEF IInv, TypeOK
  <2>3. QED
    BY <1>1, <1>2, <2>1, <2>2 DEF IInv, InMemory, Bound
<1>7. StartProgress' /\ OffIsClean'
  BY <1>1 DEF IInv, StartProgress, OffIsClean, StartPc
<1>8. PersistKeeps' /\ MemoryAhead' /\ Budget'
  BY <1>1 DEF IInv, PersistKeeps, MemoryAhead, Budget, Bound, Running
<1>9. ActedIsJournaled'
  BY <1>1 DEF IInv, ActedIsJournaled
<1>10. Closing' /\ Receipt'
  BY <1>1 DEF IInv, Closing, Receipt, ClosingPc
<1>11. QED
  BY <1>3, <1>4, <1>5, <1>6, <1>7, <1>8, <1>9, <1>10 DEF IInv

\* The graph or the replay ends; what it reports is true of the generation.
LEMMA CloseIInv ==
    ASSUME IInv, pc \in Running, persist' = Idle, terminal' \in BOOLEAN, pc' = "reconcile",
           exec' \in {"ok", "error", "denied"},
           exec' = "denied" => pc = "replay",
           UNCHANGED <<disk, journal, mode, mem, durable, log, handler, perr, ckfail, result, acts, resumes, visit>>
    PROVE  IInv'
<1>1. /\ ledger' = ledger /\ events' = events /\ checkpoint' = checkpoint /\ status' = status
      /\ journal' = journal /\ mode' = mode /\ durable' = durable /\ log' = log
      /\ mem' = mem /\ handler' = handler /\ acts' = acts /\ resumes' = resumes /\ frontier' = frontier /\ begun' = begun
      /\ perr' = perr /\ ckfail' = ckfail /\ result' = result
  BY DEF disk
<1>2. checkpoint # Absent /\ pc # "off" /\ (exec' = "denied" => mode = "resume")
  BY DEF IInv, StartProgress, Running
<1>3. TypeOK'
  BY <1>1 DEF IInv, TypeOK
<1>4. Shapes' /\ FilesAgree' /\ EventsBound' /\ InMemory'
  BY <1>1, <1>2 DEF IInv, Shapes, FilesAgree, EventsBound, InMemory, Bound, Resumable
<1>5. StartProgress' /\ OffIsClean'
  BY DEF StartProgress, OffIsClean, StartPc
<1>6. PersistKeeps' /\ MemoryAhead' /\ Budget'
  BY <1>1 DEF IInv, PersistKeeps, MemoryAhead, Budget, Bound, Running
<1>7. ReadyIsPending' /\ ActedIsJournaled'
  BY <1>1 DEF IInv, ReadyIsPending, ActedIsJournaled
<1>8. Closing'
  BY <1>1, <1>2 DEF IInv, Closing, ClosingPc
<1>9. Receipt'
  BY <1>1, <1>2 DEF IInv, Receipt
<1>10. QED
  BY <1>3, <1>4, <1>5, <1>6, <1>7, <1>8, <1>9 DEF IInv

LEMMA ReplayDeniedIInv == ASSUME IInv, ReplayDenied PROVE IInv'
BY CloseIInv DEF ReplayDenied, InReplay, Running, IInv, TypeOK

LEMMA ReplayFailsIInv == ASSUME IInv, ReplayFails PROVE IInv'
BY CloseIInv DEF ReplayFails, InReplay, Running, IInv, TypeOK

LEMMA GraphFailsIInv == ASSUME IInv, GraphFails PROVE IInv'
BY CloseIInv DEF GraphFails, InGraph, Running, IInv, TypeOK

LEMMA GraphDoneIInv == ASSUME IInv, GraphDone PROVE IInv'
BY CloseIInv DEF GraphDone, InGraph, Running, IInv, TypeOK

\* The failure of a frontier ends the graph, that of a node's generation is recorded.
LEMMA PersistFailsIInv == ASSUME IInv, PersistFails PROVE IInv'
<1>1. pc \in Running
  BY DEF PersistFails, IInv, PersistKeeps
<1>2. CASE persist.frontier
  BY <1>1, <1>2, CloseIInv DEF PersistFails
<1>3. CASE ~persist.frontier
  BY <1>1, <1>3, RecordFailureIInv DEF PersistFails
<1>4. QED
  BY <1>2, <1>3

\* The SDK goes on to the next super-step: no file and no memory changes.
LEMMA NextFrontierIInv == ASSUME IInv, NEW F \in SUBSET Nodes, NextFrontier(F) PROVE IInv'
<1>1. /\ ledger' = ledger /\ events' = events /\ checkpoint' = checkpoint /\ status' = status
      /\ journal' = journal /\ pc' = pc /\ mode' = mode /\ durable' = durable /\ persist' = persist
      /\ handler' = handler /\ mem' = mem /\ acts' = acts /\ resumes' = resumes /\ log' = log
      /\ terminal' = terminal /\ exec' = exec /\ perr' = perr /\ ckfail' = ckfail /\ result' = result
      /\ pc = "graph"
  BY DEF NextFrontier, InGraph, disk, outcome
<1>2. frontier' \in Frontier /\ begun' \subseteq Nodes
  BY DEF NextFrontier, Frontier, IInv, TypeOK
<1>3. TypeOK'
  BY <1>1, <1>2 DEF IInv, TypeOK
<1>4. Shapes' /\ FilesAgree' /\ EventsBound' /\ InMemory' /\ StartProgress' /\ OffIsClean'
  BY <1>1 DEF IInv, Shapes, FilesAgree, EventsBound, InMemory, Bound, Resumable, StartProgress, OffIsClean
<1>5. PersistKeeps' /\ MemoryAhead' /\ Budget' /\ ReadyIsPending' /\ ActedIsJournaled'
  BY <1>1 DEF IInv, PersistKeeps, MemoryAhead, Budget, Bound, ReadyIsPending, ActedIsJournaled
<1>6. Closing' /\ Receipt'
  BY <1>1 DEF IInv, Closing, Receipt, ClosingPc
<1>7. QED
  BY <1>3, <1>4, <1>5, <1>6 DEF IInv

\* A memory admitted to a frontier has the same calls.
LEMMA AdmittedFacts ==
    ASSUME NEW m \in Memory, NEW f \in Frontier
    PROVE  /\ AdmittedTo(m, f) \in Memory
           /\ AdmittedTo(m, f).pending = m.pending /\ AdmittedTo(m, f).completed = m.completed
           /\ \A n \in f.nodes : ~OwnedBy(m, n, f.step) =>
                 AdmittedTo(m, f).phase[n] = "entered" /\ AdmittedTo(m, f).owner[n] = f.step
           /\ \A n \in Nodes : n \notin f.nodes \/ OwnedBy(m, n, f.step) =>
                 AdmittedTo(m, f).phase[n] = m.phase[n] /\ AdmittedTo(m, f).owner[n] = m.owner[n]
<1> DEFINE E == {n \in f.nodes : ~OwnedBy(m, n, f.step)}
<1> DEFINE ph == [n \in Nodes |-> IF n \in E THEN "entered" ELSE m.phase[n]]
<1> DEFINE ow == [n \in Nodes |-> IF n \in E THEN f.step ELSE m.owner[n]]
<1>1. f.nodes \subseteq Nodes /\ f.step \in Nat
  BY DEF Frontier
<1>2. m.phase \in [Nodes -> Phase] /\ m.owner \in [Nodes -> Nat]
  BY DEF Memory
<1>3. ph \in [Nodes -> Phase] /\ ow \in [Nodes -> Nat]
  BY <1>1, <1>2 DEF Phase
<1>4. AdmittedTo(m, f) = [m EXCEPT !.phase = ph, !.owner = ow]
  BY DEF AdmittedTo
<1>5. /\ \A n \in f.nodes : ~OwnedBy(m, n, f.step) => ph[n] = "entered" /\ ow[n] = f.step
      /\ \A n \in Nodes : n \notin f.nodes \/ OwnedBy(m, n, f.step) => ph[n] = m.phase[n] /\ ow[n] = m.owner[n]
  BY <1>1
<1> HIDE DEF ph, ow
<1>6. /\ AdmittedTo(m, f) \in Memory /\ AdmittedTo(m, f).pending = m.pending
      /\ AdmittedTo(m, f).completed = m.completed
      /\ AdmittedTo(m, f).phase = ph /\ AdmittedTo(m, f).owner = ow
  BY <1>3, <1>4 DEF Memory
<1>7. QED
  BY <1>5, <1>6

\* The start of a node is logged and its frontier prepared; the memory waits.
LEMMA NodeStartIInv == ASSUME IInv, NEW n \in Nodes, NodeStart(n) PROVE IInv'
<1>1. /\ ledger' = ledger /\ events' = events /\ checkpoint' = checkpoint /\ status' = status
      /\ journal' = journal /\ pc' = pc /\ mode' = mode /\ durable' = durable /\ log' = Append(log, Entered)
      /\ handler' = handler /\ mem' = mem /\ acts' = acts /\ resumes' = resumes
      /\ terminal' = terminal /\ exec' = exec /\ perr' = perr /\ ckfail' = ckfail /\ result' = result
      /\ pc = "graph" /\ frontier' = frontier /\ begun' = begun \union {n}
  BY DEF NodeStart, InGraph, disk, outcome
<1>2. mem \in Memory /\ frontier \in Frontier /\ begun' \subseteq Nodes
  BY <1>1 DEF IInv, TypeOK, Memory
<1>3. PICK g \in Generation :
        /\ persist' = [step |-> "events", gen |-> g, frontier |-> TRUE]
        /\ g.pending = mem.pending
        /\ \A c \in Calls : durable.done[c] # 0 => g.done[c] = durable.done[c]
        /\ \A c \in Calls : g.done[c] # 0 <=> c \in mem.completed
  <2> DEFINE m == AdmittedTo(mem, frontier)
  <2>1. m \in Memory /\ m.pending = mem.pending /\ m.completed = mem.completed
    BY <1>2, AdmittedFacts
  <2>2. persist' = [step |-> "events", gen |-> Prepare(m), frontier |-> TRUE]
    BY DEF NodeStart
  <2> HIDE DEF m
  <2>3. \A c \in Calls : durable.done[c] # 0 => c \in m.completed
    BY <2>1 DEF IInv, MemoryAhead
  <2>4. TypeOK /\ Shapes
    BY DEF IInv
  <2>5. /\ Prepare(m) \in Generation /\ Prepare(m).pending = m.pending
        /\ \A c \in Calls : durable.done[c] # 0 => Prepare(m).done[c] = durable.done[c]
        /\ \A c \in Calls : Prepare(m).done[c] # 0 <=> c \in m.completed
    BY <2>1, <2>3, <2>4, PrepareFacts
  <2>6. QED
    BY <2>1, <2>2, <2>5
<1>4. persist' \in Persisted /\ persist' # Idle /\ persist'.gen = g /\ persist'.step = "events" /\ persist'.frontier
  BY <1>3, NotAbsent DEF Persisted
<1>5. log \in Seq(Event) /\ Len(log) \in Nat /\ Once(log) /\ Tokens(log) \subseteq Done(durable)
  BY DEF IInv, TypeOK, EventsBound
<1>6. /\ log' \in Seq(Event) /\ Len(log') = Len(log) + 1 /\ Once(log')
      /\ Tokens(log') \subseteq Done(durable)
  BY <1>1, <1>5, AppendRecords, EventFacts
<1>7. TypeOK'
  BY <1>1, <1>2, <1>3, <1>4, <1>6 DEF IInv, TypeOK
<1>8. Shapes' /\ FilesAgree' /\ EventsBound'
  BY <1>1, <1>4, <1>6 DEF IInv, Shapes, FilesAgree, EventsBound, Bound, Resumable
<1>9. InMemory'
  <2>1. checkpoint # Absent => checkpoint.seq \in Nat
    BY DEF IInv, Shapes, CheckpointFile
  <2>2. QED
    BY <1>1, <1>5, <1>6, <2>1 DEF IInv, InMemory, Bound
<1>10. StartProgress' /\ OffIsClean'
  BY <1>1 DEF IInv, StartProgress, OffIsClean, StartPc
<1>11. PersistKeeps'
  BY <1>1, <1>3, <1>4 DEF PersistKeeps, Running
<1>12. MemoryAhead' /\ Budget'
  BY <1>1, <1>4 DEF IInv, MemoryAhead, Budget, Bound
<1>13. ReadyIsPending' /\ ActedIsJournaled'
  BY <1>1 DEF IInv, ReadyIsPending, ActedIsJournaled
<1>14. Closing' /\ Receipt'
  BY <1>1 DEF IInv, Closing, Receipt, ClosingPc
<1>15. QED
  BY <1>7, <1>8, <1>9, <1>10, <1>11, <1>12, <1>13, <1>14 DEF IInv

-----------------------------------------------------------------------------
(* The end of a command.                                                    *)

\* A process ends: what it leaves is the files.
LEMMA ExitIInv ==
    ASSUME IInv, NEW a \in {"ok", "error", "crashed"}, Exit(a),
           ledger' = ledger, checkpoint' = checkpoint,
           events' \in Seq(Event), Tokens(events') \subseteq Done(Bound), Once(events'),
           checkpoint # Absent => checkpoint.seq <= Len(events'),
           status' \in {"absent", "running", "succeeded", "failed"},
           Resumable' => checkpoint # Absent,
           a = "ok" => Receipt'
    PROVE  IInv'
<1>1. /\ pc' = "off" /\ result' = a /\ mem' = Loaded(Empty) /\ durable' = Empty /\ persist' = Idle
      /\ log' = <<>> /\ handler' = Quiet /\ terminal' = FALSE
      /\ exec' = "none" /\ perr' = FALSE /\ ckfail' = FALSE
      /\ journal' = journal /\ mode' = mode /\ acts' = acts /\ resumes' = resumes
      /\ frontier' = NoFrontier /\ begun' = {}
  BY DEF Exit
<1>2. TypeOK'
  <2>1. mem' \in [pending : SUBSET Calls, completed : SUBSET Calls, phase : [Nodes -> Phase], owner : [Nodes -> Nat]]
    BY <1>1, EmptyIsQuiet DEF Memory
  <2>2. durable' \in Generation /\ log' \in Seq(Event) /\ frontier' \in Frontier /\ begun' \subseteq Nodes
    BY <1>1, EmptyFacts, EmptyLog DEF NoFrontier, Frontier
  <2>3. handler' \in [Calls -> {"none", "ready", "admitted", "acted", "reported"}]
    BY <1>1 DEF Quiet
  <2>4. QED
    BY <1>1, <2>1, <2>2, <2>3 DEF IInv, TypeOK
<1>3. Shapes'
  BY <1>1 DEF IInv, Shapes
<1>4. FilesAgree'
  BY DEF IInv, FilesAgree
<1>5. Bound' = Bound
  BY DEF Bound
<1>6. EventsBound'
  BY <1>1, <1>5, EmptyLog, EmptyFacts DEF EventsBound
<1>7. InMemory' /\ StartProgress' /\ OffIsClean' /\ PersistKeeps' /\ Closing'
  BY <1>1 DEF InMemory, StartProgress, OffIsClean, PersistKeeps, Closing, StartPc, ClosingPc
<1>8. MemoryAhead' /\ Budget'
  BY <1>1, <1>5, EmptyFacts, EmptyIsQuiet DEF IInv, MemoryAhead, Budget, Running
<1>9. ReadyIsPending' /\ ActedIsJournaled'
  BY <1>1 DEF IInv, ReadyIsPending, ActedIsJournaled, Quiet
<1>10. Receipt'
  BY <1>1 DEF Receipt
<1>11. QED
  BY <1>2, <1>3, <1>4, <1>6, <1>7, <1>8, <1>9, <1>10 DEF IInv

\* In particular when it leaves the files as they are.
LEMMA ExitQuietlyIInv ==
    ASSUME IInv, NEW a \in {"error", "crashed"}, Exit(a), UNCHANGED disk
    PROVE  IInv'
<1>1. /\ ledger' = ledger /\ checkpoint' = checkpoint /\ events' = events /\ status' = status
  BY DEF disk
<1>2. /\ events' \in Seq(Event) /\ Tokens(events') \subseteq Done(Bound) /\ Once(events')
      /\ checkpoint # Absent => checkpoint.seq <= Len(events')
      /\ status' \in {"absent", "running", "succeeded", "failed"}
      /\ Resumable' => checkpoint # Absent
  BY <1>1 DEF IInv, TypeOK, EventsBound, FilesAgree, Resumable
<1>3. QED
  BY <1>1, <1>2, ExitIInv

LEMMA CrashIInv == ASSUME IInv, Crash PROVE IInv'
BY ExitQuietlyIInv DEF Crash

LEMMA ReplayReconcileFailsIInv == ASSUME IInv, ReplayReconcileFails PROVE IInv'
BY ExitQuietlyIInv DEF ReplayReconcileFails

\* What a closing step that goes on to the next one leaves alone.
LEMMA ClosingFrame ==
    ASSUME IInv, pc \in ClosingPc, pc' \in ClosingPc, Bound' = Bound,
           UNCHANGED <<journal, mode, mem, durable, persist, handler, terminal, exec, result, acts, resumes, visit>>
    PROVE  /\ PersistKeeps' /\ MemoryAhead' /\ Budget' /\ ReadyIsPending' /\ ActedIsJournaled' /\ Receipt'
           /\ StartProgress' /\ OffIsClean' /\ persist = Idle /\ durable = Bound
<1>1. pc # "off" /\ pc \notin Running /\ pc' \notin Running
  BY DEF ClosingPc, Running
<1>2. persist = Idle /\ result # "ok" /\ durable = Bound
  BY <1>1 DEF IInv, PersistKeeps, Receipt, InMemory
<1>3. PersistKeeps' /\ Receipt'
  BY <1>2 DEF PersistKeeps, Receipt
<1>4. MemoryAhead' /\ Budget'
  BY <1>1 DEF IInv, MemoryAhead, Budget
<1>5. ReadyIsPending' /\ ActedIsJournaled'
  BY DEF IInv, ReadyIsPending, ActedIsJournaled
<1>6. StartProgress' /\ OffIsClean'
  BY DEF StartProgress, OffIsClean, ClosingPc, StartPc
<1>7. QED
  BY <1>2, <1>3, <1>4, <1>5, <1>6

\* Reconciling, wholly or (if it fails) in part.
LEMMA ReconcileIInv ==
    ASSUME IInv, pc = "reconcile", pc' = "write", NEW T \in SUBSET Missing,
           NEW e \in {<<>>, <<Failed>>}, log' = log \o SetToSeq(T) \o e,
           perr' \in {perr, TRUE}, T = Missing \/ perr' = TRUE,
           UNCHANGED <<disk, journal, mode, mem, durable, persist, handler, terminal, exec, ckfail, result, acts, resumes, visit>>
    PROVE  IInv'
<1>1. ledger' = ledger /\ checkpoint' = checkpoint /\ events' = events /\ status' = status /\ Bound' = Bound
  BY DEF disk, Bound
<1>2. pc \in ClosingPc /\ pc' \in ClosingPc
  BY DEF ClosingPc
<1>3. /\ PersistKeeps' /\ MemoryAhead' /\ Budget' /\ ReadyIsPending' /\ ActedIsJournaled' /\ Receipt'
      /\ StartProgress' /\ OffIsClean' /\ durable = Bound
  BY <1>1, <1>2, ClosingFrame
<1>4. /\ log' \in Seq(Event) /\ Len(log') >= Len(log) /\ Once(log')
      /\ Tokens(log') \subseteq Done(durable)
      /\ T = Missing => Tokens(log') = Done(durable)
  BY MappingRecords
<1>5. TypeOK'
  <2>1. perr' \in BOOLEAN
    BY DEF IInv, TypeOK
  <2>2. QED
    BY <1>1, <1>4, <2>1 DEF IInv, TypeOK
<1>6. Shapes' /\ FilesAgree' /\ EventsBound'
  BY <1>1, <1>4 DEF IInv, Shapes, FilesAgree, EventsBound, Resumable
<1>7. InMemory'
  <2>1. checkpoint # Absent => checkpoint.seq \in Nat
    BY DEF IInv, Shapes, CheckpointFile
  <2>2. Len(log) \in Nat /\ Len(log') \in Nat
    BY <1>4 DEF IInv, TypeOK
  <2>3. QED
    BY <1>1, <1>3, <1>4, <2>1, <2>2 DEF IInv, InMemory
<1>8. Closing'
  BY <1>1, <1>2, <1>4 DEF IInv, Closing, ClosingPc
<1>9. QED
  BY <1>3, <1>5, <1>6, <1>7, <1>8 DEF IInv

LEMMA EndReconcileIInv == ASSUME IInv, EndReconcile PROVE IInv'
<1> DEFINE e == IF mode = "start" /\ exec = "error" THEN <<Failed>> ELSE <<>>
<1>1. log' = log \o SetToSeq(Missing) \o e /\ e \in {<<>>, <<Failed>>}
  BY DEF EndReconcile, Reconciled
<1> HIDE DEF e
<1>2. /\ pc = "reconcile" /\ pc' = "write" /\ perr' = perr /\ Missing \in SUBSET Missing
      /\ UNCHANGED <<disk, journal, mode, mem, durable, persist, handler, terminal, exec, ckfail, result, acts, resumes, visit>>
  BY DEF EndReconcile, outcome
<1>3. QED
  BY <1>1, <1>2, ReconcileIInv

LEMMA EndReconcileFailsIInv == ASSUME IInv, EndReconcileFails PROVE IInv'
<1>1. CASE ReturnsEarly
  BY <1>1, ExitQuietlyIInv DEF EndReconcileFails
<1>2. CASE ~ReturnsEarly
  <2> DEFINE e == IF mode = "start" /\ exec = "error" THEN <<Failed>> ELSE <<>>
  <2>1. PICK T \in SUBSET Missing : log' = log \o SetToSeq(T) \o e
    BY <1>2 DEF EndReconcileFails
  <2>2. e \in {<<>>, <<Failed>>}
    OBVIOUS
  <2> HIDE DEF e
  <2>3. /\ pc = "reconcile" /\ pc' = "write" /\ perr' = TRUE
        /\ UNCHANGED <<disk, journal, mode, mem, durable, persist, handler, terminal, exec, ckfail, result, acts, resumes, visit>>
    BY <1>2 DEF EndReconcileFails
  <2>4. QED
    BY <2>1, <2>2, <2>3, ReconcileIInv
<1>3. QED
  BY <1>1, <1>2

\* Whether or not the log is written, the events on disk are within the checkpoint.
LEMMA WrittenEvents ==
    ASSUME IInv, pc = "write", events' \in {events, log}
    PROVE  /\ events' \in Seq(Event) /\ Tokens(events') \subseteq Done(Bound) /\ Once(events')
           /\ checkpoint # Absent => checkpoint.seq <= Len(events')
<1>1. durable = Bound /\ (checkpoint # Absent => checkpoint.seq <= Len(log))
  BY DEF IInv, InMemory
<1>2. QED
  BY <1>1 DEF IInv, TypeOK, EventsBound, FilesAgree

\* Going on after the events: to the checkpoint only if nothing failed.
LEMMA WriteIInv ==
    ASSUME IInv, pc = "write", exec # "denied", events' \in {events, log},
           perr' \in BOOLEAN, ckfail' \in BOOLEAN, ckfail' => perr',
           ~perr' => events' = log /\ ~perr,
           pc' = IF exec = "ok" /\ ~perr' THEN "save" ELSE "manifest",
           UNCHANGED <<ledger, checkpoint, status, journal, mode, mem, durable, persist, log, handler, terminal, exec, result, acts, resumes, visit>>
    PROVE  IInv'
<1>1. Bound' = Bound /\ pc \in ClosingPc /\ pc' \in ClosingPc /\ pc' # "off"
  BY DEF Bound, ClosingPc
<1>2. /\ PersistKeeps' /\ MemoryAhead' /\ Budget' /\ ReadyIsPending' /\ ActedIsJournaled' /\ Receipt'
      /\ StartProgress' /\ OffIsClean' /\ durable = Bound
  BY <1>1, ClosingFrame
<1>3. /\ events' \in Seq(Event) /\ Tokens(events') \subseteq Done(Bound) /\ Once(events')
      /\ checkpoint # Absent => checkpoint.seq <= Len(events')
  BY WrittenEvents
<1>4. TypeOK'
  BY <1>3 DEF IInv, TypeOK
<1>5. Shapes' /\ FilesAgree'
  BY <1>3 DEF IInv, Shapes, FilesAgree, Resumable
<1>6. EventsBound' /\ InMemory'
  BY <1>1, <1>2, <1>3 DEF IInv, EventsBound, InMemory
<1>7. Closing'
  <2>1. ~perr' => Tokens(log) = Done(durable)
    BY DEF IInv, Closing
  <2>2. QED
    BY <1>1, <2>1 DEF IInv, Closing, ClosingPc
<1>8. QED
  BY <1>2, <1>4, <1>5, <1>6, <1>7 DEF IInv

LEMMA EndWriteEventsIInv == ASSUME IInv, EndWriteEvents PROVE IInv'
<1>1. /\ pc = "write" /\ events' = log /\ ledger' = ledger /\ checkpoint' = checkpoint /\ status' = status
  BY DEF EndWriteEvents
<1>2. CASE exec = "denied"
  <2>1. Exit("error")
    BY <1>2 DEF EndWriteEvents
  <2>2. /\ events' \in Seq(Event) /\ Tokens(events') \subseteq Done(Bound) /\ Once(events')
        /\ checkpoint # Absent => checkpoint.seq <= Len(events')
    BY <1>1, WrittenEvents
  <2>3. status' \in {"absent", "running", "succeeded", "failed"} /\ (Resumable' => checkpoint # Absent)
    BY <1>1 DEF IInv, TypeOK, FilesAgree, Resumable
  <2>4. QED
    BY <1>1, <2>1, <2>2, <2>3, ExitIInv
<1>3. CASE exec # "denied"
  <2>1. /\ pc' = AfterWrite(perr) /\ perr' = perr /\ ckfail' = ckfail
        /\ UNCHANGED <<journal, mode, mem, durable, persist, log, handler, terminal, exec, result, acts, resumes, visit>>
    BY <1>3 DEF EndWriteEvents, outcome
  <2>2. perr \in BOOLEAN /\ ckfail \in BOOLEAN /\ (ckfail => perr)
    BY DEF IInv, TypeOK, Closing
  <2>3. pc' = IF exec = "ok" /\ ~perr' THEN "save" ELSE "manifest"
    BY <2>1 DEF AfterWrite
  <2>4. QED
    BY <1>1, <1>3, <2>1, <2>2, <2>3, WriteIInv
<1>4. QED
  BY <1>2, <1>3

LEMMA EndWriteFailsIInv == ASSUME IInv, EndWriteFails PROVE IInv'
<1>1. /\ pc = "write" /\ events' \in {events, log} /\ ledger' = ledger /\ checkpoint' = checkpoint /\ status' = status
  BY DEF EndWriteFails
<1>2. CASE ReturnsEarly
  <2>1. Exit("error")
    BY <1>2 DEF EndWriteFails
  <2>2. /\ events' \in Seq(Event) /\ Tokens(events') \subseteq Done(Bound) /\ Once(events')
        /\ checkpoint # Absent => checkpoint.seq <= Len(events')
    BY <1>1, WrittenEvents
  <2>3. status' \in {"absent", "running", "succeeded", "failed"} /\ (Resumable' => checkpoint # Absent)
    BY <1>1 DEF IInv, TypeOK, FilesAgree, Resumable
  <2>4. QED
    BY <1>1, <2>1, <2>2, <2>3, ExitIInv
<1>3. CASE ~ReturnsEarly
  <2>1. /\ pc' = AfterWrite(TRUE) /\ perr' = TRUE /\ ckfail' \in {ckfail, mode = "start"}
        /\ UNCHANGED <<journal, mode, mem, durable, persist, log, handler, terminal, exec, result, acts, resumes, visit>>
    BY <1>3 DEF EndWriteFails
  <2>2. ckfail' \in BOOLEAN
    BY <2>1 DEF IInv, TypeOK
  <2>3. exec # "denied"
    BY <1>3 DEF ReturnsEarly, IInv, Closing
  <2>4. pc' = IF exec = "ok" /\ ~perr' THEN "save" ELSE "manifest"
    BY <2>1 DEF AfterWrite
  <2>5. QED
    BY <1>1, <2>1, <2>2, <2>3, <2>4, WriteIInv
<1>4. QED
  BY <1>2, <1>3

\* The final checkpoint binds the generation it bound before, and more events.
LEMMA EndSaveIInv == ASSUME IInv, EndSave PROVE IInv'
<1>1. /\ pc = "save" /\ pc' = "manifest" /\ checkpoint' = [gen |-> durable, seq |-> Len(log), front |-> frontier]
      /\ UNCHANGED <<ledger, events, status, journal, mode, mem, durable, persist, log, handler, terminal, exec, perr, ckfail, result, acts, resumes, visit>>
  BY DEF EndSave, FinalCheckpoint, outcome
<1>2. /\ exec = "ok" /\ ~perr /\ events = log /\ checkpoint # Absent /\ durable \in Generation
      /\ Len(log) \in Nat /\ frontier \in Frontier
  BY <1>1 DEF IInv, Closing, TypeOK
<1>3. /\ checkpoint' \in CheckpointFile /\ checkpoint' # Absent
      /\ checkpoint'.gen = durable /\ checkpoint'.seq = Len(log) /\ checkpoint'.front = frontier
  BY <1>1, <1>2, NotAbsent DEF CheckpointFile
<1>4. durable = checkpoint.gen /\ durable = Bound
  BY <1>1, <1>2 DEF IInv, InMemory, Bound
<1>5. Bound' = Bound /\ pc \in ClosingPc /\ pc' \in ClosingPc
  BY <1>1, <1>3, <1>4 DEF Bound, ClosingPc
<1>6. /\ PersistKeeps' /\ MemoryAhead' /\ Budget' /\ ReadyIsPending' /\ ActedIsJournaled' /\ Receipt'
      /\ StartProgress' /\ OffIsClean'
  BY <1>1, <1>5, ClosingFrame
<1>7. TypeOK' /\ Shapes'
  BY <1>1, <1>2, <1>3 DEF IInv, TypeOK, Shapes
<1>8. FilesAgree'
  BY <1>1, <1>2, <1>3, <1>4 DEF IInv, FilesAgree, Resumable
<1>9. EventsBound' /\ InMemory'
  BY <1>1, <1>2, <1>3, <1>4, <1>5 DEF IInv, EventsBound, InMemory
<1>10. Closing'
  BY <1>1, <1>2, <1>3 DEF IInv, Closing, ClosingPc, FinalCheckpoint
<1>11. QED
  BY <1>6, <1>7, <1>8, <1>9, <1>10 DEF IInv

LEMMA EndSaveFailsIInv == ASSUME IInv, EndSaveFails PROVE IInv'
<1>1. CASE ReturnsEarly
  BY <1>1, ExitQuietlyIInv DEF EndSaveFails
<1>2. CASE ~ReturnsEarly
  <2>1. /\ pc = "save" /\ pc' = "manifest" /\ perr' = TRUE /\ ckfail' = TRUE
        /\ ledger' = ledger /\ checkpoint' = checkpoint /\ events' = events /\ status' = status
        /\ UNCHANGED <<journal, mode, mem, durable, persist, log, handler, terminal, exec, result, acts, resumes, visit>>
    BY <1>2 DEF EndSaveFails, disk
  <2>2. Bound' = Bound /\ pc \in ClosingPc /\ pc' \in ClosingPc
    BY <2>1 DEF Bound, ClosingPc
  <2>3. /\ PersistKeeps' /\ MemoryAhead' /\ Budget' /\ ReadyIsPending' /\ ActedIsJournaled' /\ Receipt'
        /\ StartProgress' /\ OffIsClean' /\ durable = Bound
    BY <2>1, <2>2, ClosingFrame
  <2>4. TypeOK' /\ Shapes' /\ FilesAgree'
    BY <2>1 DEF IInv, TypeOK, Shapes, FilesAgree, Resumable
  <2>5. EventsBound' /\ InMemory'
    BY <2>1, <2>2, <2>3 DEF IInv, EventsBound, InMemory
  <2>6. Closing'
    BY <2>1 DEF IInv, Closing, ClosingPc
  <2>7. QED
    BY <2>3, <2>4, <2>5, <2>6 DEF IInv
<1>3. QED
  BY <1>1, <1>2

\* The manifest says succeeded only of a run with a checkpoint, and an Ok
\* receipt is backed by the final one.
LEMMA EndManifestIInv == ASSUME IInv, EndManifest PROVE IInv'
<1>1. /\ pc = "manifest" /\ status' = FinalStatus /\ Exit(Answer)
      /\ ledger' = ledger /\ checkpoint' = checkpoint /\ events' = events
  BY DEF EndManifest
<1>2. /\ exec \in {"ok", "error"} /\ status' \in {"succeeded", "failed"} /\ Answer \in {"ok", "error"}
      /\ Resumable' => checkpoint # Absent
  BY <1>1 DEF IInv, TypeOK, Closing, ClosingPc, FinalStatus, Answer, Resumable
<1>3. /\ events' \in Seq(Event) /\ Tokens(events') \subseteq Done(Bound) /\ Once(events')
      /\ checkpoint # Absent => checkpoint.seq <= Len(events')
  BY <1>1 DEF IInv, TypeOK, EventsBound, FilesAgree
<1>4. ASSUME Answer = "ok" PROVE Receipt'
  <2>1. exec = "ok" /\ ~perr /\ ~ckfail
    BY <1>4 DEF Answer, IInv, Closing
  <2>2. status' = "succeeded" /\ pc' = "off"
    BY <1>1, <2>1 DEF FinalStatus, Exit
  <2>3. /\ checkpoint # Absent /\ events = log /\ checkpoint = FinalCheckpoint
        /\ Tokens(log) = Done(durable)
    BY <1>1, <2>1 DEF IInv, Closing
  <2>4. checkpoint.gen = durable /\ checkpoint.seq = Len(log)
    BY <2>3 DEF FinalCheckpoint
  <2>5. QED
    BY <1>1, <2>2, <2>3, <2>4 DEF Receipt
<1>5. QED
  BY <1>1, <1>2, <1>3, <1>4, ExitIInv

LEMMA EndManifestFailsIInv == ASSUME IInv, EndManifestFails PROVE IInv'
<1>1. /\ pc = "manifest" /\ status' \in {status, FinalStatus} /\ Exit("error")
      /\ ledger' = ledger /\ checkpoint' = checkpoint /\ events' = events
  BY DEF EndManifestFails
<1>2. /\ status' \in {"absent", "running", "succeeded", "failed"}
      /\ Resumable' => checkpoint # Absent
  BY <1>1 DEF IInv, TypeOK, Closing, ClosingPc, FinalStatus, Resumable, FilesAgree
<1>3. /\ events' \in Seq(Event) /\ Tokens(events') \subseteq Done(Bound) /\ Once(events')
      /\ checkpoint # Absent => checkpoint.seq <= Len(events')
  BY <1>1 DEF IInv, TypeOK, EventsBound, FilesAgree
<1>4. QED
  BY <1>1, <1>2, <1>3, ExitIInv

-----------------------------------------------------------------------------
(* Resume.                                                                  *)

\* Truncating the log to the checkpoint's sequence keeps it within the checkpoint.
LEMMA TruncatedEvents ==
    ASSUME IInv, checkpoint # Absent
    PROVE  LET p == Truncated(events, checkpoint.seq)
           IN  /\ p \in Seq(Event) /\ Len(p) = checkpoint.seq /\ checkpoint.seq \in Nat
               /\ Tokens(p) \subseteq Done(Bound) /\ Once(p)
<1>1. checkpoint.seq \in Nat /\ checkpoint.seq <= Len(events)
  BY DEF IInv, Shapes, CheckpointFile, FilesAgree
<1>2. events \in Seq(Event) /\ Once(events) /\ Tokens(events) \subseteq Done(Bound)
  BY DEF IInv, TypeOK, EventsBound
<1>3. QED
  BY <1>1, <1>2, PrefixRecords DEF Truncated

LEMMA ResumeIInv == ASSUME IInv, Resume PROVE IInv'
<1> DEFINE p == Truncated(events, checkpoint.seq)
<1>1. /\ pc = "off" /\ resumes < MaxResumes /\ checkpoint # Absent
      /\ events' = p /\ log' = Append(p, Resumed)
      /\ mem' = Loaded(checkpoint.gen) /\ durable' = checkpoint.gen
      /\ pc' = "replay" /\ mode' = "resume" /\ resumes' = resumes + 1 /\ result' = "none"
      /\ ledger' = ledger /\ checkpoint' = checkpoint /\ status' = status /\ journal' = journal
      /\ persist' = persist /\ handler' = handler /\ terminal' = terminal
      /\ exec' = exec /\ perr' = perr /\ ckfail' = ckfail /\ acts' = acts
      /\ frontier' = checkpoint.front /\ begun' = {}
  BY DEF Resume, Consistent
<1>2. persist = Idle /\ handler = Quiet /\ ~terminal /\ exec = "none" /\ ~perr /\ ~ckfail
  BY <1>1 DEF IInv, OffIsClean
<1>3. /\ p \in Seq(Event) /\ Len(p) = checkpoint.seq /\ checkpoint.seq \in Nat
      /\ Tokens(p) \subseteq Done(Bound) /\ Once(p)
  BY <1>1, TruncatedEvents
<1> HIDE DEF p
<1>4. Bound = checkpoint.gen /\ Bound' = Bound /\ checkpoint.gen \in Generation /\ checkpoint.front \in Frontier
  BY <1>1 DEF Bound, IInv, Shapes, CheckpointFile
<1>5. /\ log' \in Seq(Event) /\ Len(log') = checkpoint.seq + 1 /\ Once(log')
      /\ Tokens(log') \subseteq Done(checkpoint.gen)
  BY <1>1, <1>3, <1>4, AppendRecords, EventFacts
<1>6. /\ mem' \in Memory /\ mem'.pending = checkpoint.gen.pending /\ mem'.phase = checkpoint.gen.phase
      /\ mem'.completed = {c \in Calls : checkpoint.gen.done[c] # 0}
  BY <1>1, <1>4, LoadedFacts
<1>7. TypeOK'
  <2>1. resumes' \in 0..MaxResumes
    BY <1>1, RunAssumption DEF IInv, TypeOK
  <2>2. mem' \in [pending : SUBSET Calls, completed : SUBSET Calls, phase : [Nodes -> Phase], owner : [Nodes -> Nat]]
    BY <1>6 DEF Memory
  <2>3. QED
    BY <1>1, <1>3, <1>4, <1>5, <2>1, <2>2 DEF IInv, TypeOK
<1>8. Shapes' /\ FilesAgree'
  BY <1>1, <1>3 DEF IInv, Shapes, FilesAgree, Resumable
<1>9. EventsBound' /\ InMemory'
  BY <1>1, <1>3, <1>4, <1>5 DEF EventsBound, InMemory
<1>10. StartProgress' /\ OffIsClean' /\ PersistKeeps' /\ Closing' /\ Receipt'
  BY <1>1, <1>2 DEF StartProgress, OffIsClean, PersistKeeps, Closing, Receipt, StartPc, ClosingPc
<1>11. MemoryAhead'
  BY <1>1, <1>6 DEF MemoryAhead
<1>12. Budget'
  BY <1>1, <1>4 DEF IInv, Budget
<1>13. ReadyIsPending' /\ ActedIsJournaled'
  BY <1>1, <1>2 DEF IInv, ReadyIsPending, ActedIsJournaled, Quiet
<1>14. QED
  BY <1>7, <1>8, <1>9, <1>10, <1>11, <1>12, <1>13 DEF IInv

\* A resume that fails or is refused leaves no process behind, and the files
\* as they are or with the log truncated.
LEMMA ResumeEndsIInv ==
    ASSUME IInv, pc = "off", resumes < MaxResumes, resumes' = resumes + 1,
           result' \in {"error", "refused"},
           events' = events \/ (checkpoint # Absent /\ events' = Truncated(events, checkpoint.seq)),
           UNCHANGED <<ledger, checkpoint, status, journal, pc, mode, mem, durable, persist, log, handler, terminal, exec, perr, ckfail, acts, visit>>
    PROVE  IInv'
<1>1. /\ events' \in Seq(Event) /\ Tokens(events') \subseteq Done(Bound) /\ Once(events')
      /\ checkpoint # Absent => checkpoint.seq <= Len(events')
  <2>1. CASE events' = events
    BY <2>1 DEF IInv, TypeOK, EventsBound, FilesAgree
  <2>2. CASE checkpoint # Absent /\ events' = Truncated(events, checkpoint.seq)
    BY <2>2, TruncatedEvents
  <2>3. QED
    BY <2>1, <2>2
<1>2. Bound' = Bound
  BY DEF Bound
<1>3. TypeOK'
  <2>1. resumes' \in 0..MaxResumes
    BY RunAssumption DEF IInv, TypeOK
  <2>2. QED
    BY <1>1, <2>1 DEF IInv, TypeOK
<1>4. Shapes' /\ FilesAgree' /\ EventsBound' /\ InMemory'
  BY <1>1, <1>2 DEF IInv, Shapes, FilesAgree, EventsBound, InMemory, Resumable
<1>5. StartProgress' /\ OffIsClean' /\ Closing'
  <2>1. pc' = "off" /\ exec' = "none" /\ ~ckfail'
    BY DEF IInv, OffIsClean
  <2>2. StartProgress' /\ Closing'
    BY <2>1 DEF StartProgress, Closing, StartPc, ClosingPc
  <2>3. QED
    BY <2>2 DEF IInv, OffIsClean
<1>6. PersistKeeps' /\ MemoryAhead' /\ Budget'
  <2>1. persist' = Idle /\ pc' \notin Running
    BY DEF IInv, OffIsClean, Running
  <2>2. PersistKeeps'
    BY <2>1 DEF PersistKeeps
  <2>3. MemoryAhead'
    BY <2>1 DEF IInv, MemoryAhead
  <2>4. QED
    BY <1>2, <2>2, <2>3 DEF IInv, Budget
<1>7. ReadyIsPending' /\ ActedIsJournaled' /\ Receipt'
  BY DEF IInv, ReadyIsPending, ActedIsJournaled, Receipt
<1>8. QED
  BY <1>3, <1>4, <1>5, <1>6, <1>7 DEF IInv

LEMMA ResumeFailsIInv == ASSUME IInv, ResumeFails PROVE IInv'
BY ResumeEndsIInv DEF ResumeFails, Consistent

LEMMA ResumeRefusedIInv == ASSUME IInv, ResumeRefused PROVE IInv'
BY ResumeEndsIInv DEF ResumeRefused, disk

-----------------------------------------------------------------------------
(* The theorems.                                                            *)

LEMMA StutterIInv == ASSUME IInv, UNCHANGED vars PROVE IInv'
<1>1. /\ UNCHANGED <<ledger, checkpoint, events, status>> /\ UNCHANGED <<exec, perr, ckfail, result>>
      /\ UNCHANGED <<journal, pc, mode, mem, durable, persist, log, handler, terminal, acts, resumes, frontier, begun>>
  BY DEF vars, disk, outcome
<1>2. TypeOK' /\ Shapes' /\ FilesAgree' /\ EventsBound' /\ InMemory'
  BY <1>1 DEF IInv, TypeOK, Shapes, FilesAgree, EventsBound, InMemory, Bound, Resumable
<1>3. StartProgress' /\ OffIsClean' /\ PersistKeeps' /\ MemoryAhead' /\ Budget'
  BY <1>1 DEF IInv, StartProgress, OffIsClean, PersistKeeps, MemoryAhead, Budget, Bound
<1>4. ReadyIsPending' /\ ActedIsJournaled' /\ Closing' /\ Receipt'
  BY <1>1 DEF IInv, ReadyIsPending, ActedIsJournaled, Closing, Receipt, FinalCheckpoint
<1>5. QED
  BY <1>2, <1>3, <1>4 DEF IInv

LEMMA NextIInv == IInv /\ [Next]_vars => IInv'
<1> SUFFICES ASSUME IInv, [Next]_vars PROVE IInv'
  OBVIOUS
<1>1. CASE Starting
  BY <1>1, StartFailsIInv, CreateLedgerIInv, StartEventsIInv, InitialCheckpointIInv, PublishRunIInv DEF Starting
<1>2. CASE Persist
  BY <1>2, PersistEventsIInv, PersistLedgerIInv, PersistCheckpointIInv, PersistFailsIInv DEF Persist
<1>3. CASE Ending
  BY <1>3, EndReconcileIInv, EndReconcileFailsIInv, EndWriteEventsIInv, EndWriteFailsIInv,
     EndSaveIInv, EndSaveFailsIInv, EndManifestIInv, EndManifestFailsIInv DEF Ending
<1>4. ASSUME NEW n \in Nodes, NodeStep(n) PROVE IInv'
  BY <1>4, NodeStartIInv, BeforeModelIInv, AdmitFinishIInv, AdmitCallsIInv DEF NodeStep
<1>5. ASSUME NEW c \in Calls, CallStep(c) PROVE IInv'
  BY <1>5, ObserveToolIInv, LogCompletionIInv, FenceAdmitIInv, HandlerActsIInv,
     ReplayPendingIInv, CompletePendingIInv DEF CallStep
<1>6. CASE Stop \/ GraphDone \/ GraphFails \/ \E F \in SUBSET Nodes : NextFrontier(F)
  BY <1>6, NextFrontierIInv, StopIInv, GraphDoneIInv, GraphFailsIInv
<1>7. CASE Resume \/ ResumeFails \/ ResumeRefused
  BY <1>7, ResumeIInv, ResumeFailsIInv, ResumeRefusedIInv
<1>8. CASE ReplayReconcileFails \/ ReplayDenied \/ ReplayFails \/ ReplayDone
  BY <1>8, ReplayReconcileFailsIInv, ReplayDeniedIInv, ReplayFailsIInv, ReplayDoneIInv
<1>9. CASE Crash
  BY <1>9, CrashIInv
<1>10. CASE Finished \/ UNCHANGED vars
  BY <1>10, StutterIInv DEF Finished
<1>11. QED
  BY <1>1, <1>2, <1>3, <1>4, <1>5, <1>6, <1>7, <1>8, <1>9, <1>10 DEF Next

\* The inductive invariant holds of every run, whatever fails.
THEOREM Invariance == Spec => []IInv
BY InitIInv, NextIInv, PTL DEF Spec

\* Type correctness, for any nodes, calls and limits.
THEOREM TypeCorrect == Spec => []TypeOK
<1>1. IInv => TypeOK
  BY DEF IInv
<1>2. QED
  BY Invariance, <1>1, PTL

-----------------------------------------------------------------------------
(* The visits of the nodes.                                                 *)

\* The visits of a generation, or of the memory, belong to super-steps up to
\* this one; the open ones are its own nodes', and a call is pending only in a
\* node whose model was asked.
Fits(m, f) ==
    /\ \A n \in Nodes : m.phase[n] # "new" => m.owner[n] <= f.step
    /\ \A n \in Nodes : m.phase[n] \in {"entered", "asked"} => n \in f.nodes /\ m.owner[n] = f.step
    /\ \A c \in m.pending : m.phase[Owner[c]] = "asked"

\* No node of the super-step still has the visit of an earlier one.
Settled(m, f) == \A n \in f.nodes : m.phase[n] # "new" => m.owner[n] = f.step

Entering == persist # Idle /\ persist.frontier

\* Nobody starts a node before the graph runs.
NothingBegun == pc \in StartPc \union {"replay"} => begun = {}

CheckpointFits ==
    checkpoint # Absent =>
        Fits(checkpoint.gen, checkpoint.front) /\ Settled(checkpoint.gen, checkpoint.front)

MemoryFits == pc \in Running => Fits(mem, frontier)

\* Once the first start of a super-step is persisted, the checkpoint is at it.
FrontierSaved ==
    pc = "replay" \/ (pc = "graph" /\ begun # {} /\ ~Entering) =>
        checkpoint.front = frontier /\ Settled(mem, frontier)

\* No call is pending before the whole frontier has started.
QuietUntilBegun == pc = "graph" /\ (begun # frontier.nodes \/ Entering) => mem.pending = {}

PersistFits ==
    persist # Idle =>
        /\ Fits(persist.gen, frontier) /\ Settled(persist.gen, frontier)
        /\ ~persist.frontier => checkpoint.front = frontier

\* What the end of the graph leaves to its last checkpoint, and an Ok receipt.
DoneFits == exec = "ok" => frontier.nodes = {} /\ Fits(durable, frontier)
ReceiptFits == result = "ok" => checkpoint.front.nodes = {}

VisitInv ==
    /\ NothingBegun /\ CheckpointFits /\ MemoryFits /\ FrontierSaved /\ QuietUntilBegun
    /\ PersistFits /\ DoneFits /\ ReceiptFits

\* Only the calls, phases and owners matter, and an empty generation fits everywhere.
LEMMA SameVisits ==
    ASSUME NEW a, NEW b, NEW f, a.pending = b.pending, a.phase = b.phase, a.owner = b.owner
    PROVE  /\ Fits(a, f) => Fits(b, f)
           /\ Settled(a, f) => Settled(b, f)
BY DEF Fits, Settled

LEMMA EmptyFits ==
    ASSUME NEW f \in Frontier
    PROVE  /\ Fits(Empty, f) /\ Settled(Empty, f)
           /\ Fits(Loaded(Empty), f) /\ Settled(Loaded(Empty), f)
<1>1. Empty.pending = {} /\ \A n \in Nodes : Empty.phase[n] = "new"
  BY EmptyFacts
<1>2. f.nodes \subseteq Nodes
  BY DEF Frontier
<1>3. Fits(Empty, f) /\ Settled(Empty, f)
  BY <1>1, <1>2 DEF Fits, Settled
<1>4. QED
  BY <1>3, EmptyFacts, LoadedFacts, SameVisits

\* Without an open visit in the super-step nothing is pending.
LEMMA NothingOpen ==
    ASSUME NEW m \in Memory, NEW f, Fits(m, f),
           \A n \in f.nodes : m.phase[n] \notin {"entered", "asked"}
    PROVE  m.pending = {} /\ \A n \in Nodes : m.phase[n] \in {"new", "finished"}
<1>1. m.pending \subseteq Calls /\ m.phase \in [Nodes -> Phase] /\ \A c \in Calls : Owner[c] \in Nodes
  BY MemoryParts, RunAssumption
<1>2. \A n \in Nodes : m.phase[n] \in {"new", "finished"}
  BY <1>1 DEF Fits, Phase
<1>3. QED
  BY <1>1, <1>2 DEF Fits

LEMMA InitVisit == Init => VisitInv
<1> SUFFICES ASSUME Init PROVE VisitInv
  OBVIOUS
<1>1. /\ pc = "create" /\ begun = {} /\ checkpoint = Absent /\ persist = Idle
      /\ exec = "none" /\ result = "none"
  BY DEF Init
<1>2. QED
  BY <1>1 DEF VisitInv, NothingBegun, CheckpointFits, MemoryFits, FrontierSaved, QuietUntilBegun,
     PersistFits, DoneFits, ReceiptFits, Running

\* Most steps move neither the checkpoint nor the memory nor the super-step.
LEMMA FrameVisit ==
    ASSUME VisitInv, checkpoint' = checkpoint, mem' = mem, durable' = durable,
           frontier' = frontier, begun' = begun,
           persist' # Idle => persist # Idle /\ persist'.gen = persist.gen /\ persist'.frontier = persist.frontier,
           pc' \in Running => pc' = pc /\ (Entering' <=> Entering),
           pc' \in StartPc => pc \in StartPc,
           exec' = "ok" => exec = "ok",
           result' = "ok" => result = "ok"
    PROVE  VisitInv'
<1>1. NothingBegun'
  BY DEF VisitInv, NothingBegun, Running
<1>2. CheckpointFits' /\ MemoryFits' /\ PersistFits'
  BY DEF VisitInv, CheckpointFits, MemoryFits, PersistFits
<1>3. FrontierSaved' /\ QuietUntilBegun'
  BY DEF VisitInv, FrontierSaved, QuietUntilBegun, Running
<1>4. DoneFits' /\ ReceiptFits'
  BY DEF VisitInv, DoneFits, ReceiptFits
<1>5. QED
  BY <1>1, <1>2, <1>3, <1>4 DEF VisitInv

\* A process ends: what it leaves is the files.
LEMMA ExitVisit ==
    ASSUME VisitInv, NEW a, Exit(a), checkpoint' = checkpoint,
           a = "ok" => checkpoint.front.nodes = {}
    PROVE  VisitInv'
<1>1. pc' = "off" /\ persist' = Idle /\ exec' = "none" /\ result' = a
  BY DEF Exit
<1>2. QED
  BY <1>1 DEF VisitInv, NothingBegun, CheckpointFits, MemoryFits, FrontierSaved, QuietUntilBegun,
     PersistFits, DoneFits, ReceiptFits, Running, StartPc

\* A change of the memory that starts a persistence, once the checkpoint is at
\* the super-step.
LEMMA PersistingVisit ==
    ASSUME IInv, VisitInv, persist = Idle, pc \in Running, NEW m \in Memory,
           mem.completed \subseteq m.completed, Persisting(m),
           checkpoint.front = frontier, Fits(m, frontier), Settled(m, frontier),
           pc = "graph" => begun = frontier.nodes,
           UNCHANGED <<disk, journal, pc, mode, durable, log, handler, terminal, outcome, acts, resumes, visit>>
    PROVE  VisitInv'
<1>1. /\ checkpoint' = checkpoint /\ pc' = pc /\ durable' = durable /\ exec' = exec /\ result' = result
      /\ frontier' = frontier /\ begun' = begun /\ mem' = m
  BY DEF disk, outcome, Persisting
<1>2. PICK g \in Generation :
        /\ persist' = [step |-> "ledger", gen |-> g, frontier |-> FALSE]
        /\ g.pending = m.pending /\ g.phase = m.phase /\ g.owner = m.owner
  <2>1. \A c \in Calls : durable.done[c] # 0 => c \in m.completed
    BY DEF IInv, MemoryAhead
  <2>2. QED
    BY <2>1, PrepareFacts DEF IInv, Persisting
<1>3. persist' # Idle /\ persist'.gen = g /\ ~persist'.frontier
  <2>1. persist' \in Persisted /\ persist'.gen = g /\ ~persist'.frontier
    BY <1>2 DEF Persisted
  <2>2. QED
    BY <2>1, NotAbsent
<1>4. Fits(g, frontier) /\ Settled(g, frontier)
  BY <1>2, SameVisits
<1>5. NothingBegun' /\ CheckpointFits' /\ DoneFits' /\ ReceiptFits'
  BY <1>1 DEF VisitInv, NothingBegun, CheckpointFits, DoneFits, ReceiptFits
<1>6. MemoryFits' /\ FrontierSaved' /\ PersistFits'
  BY <1>1, <1>3, <1>4 DEF MemoryFits, FrontierSaved, PersistFits
<1>7. QuietUntilBegun'
  BY <1>1, <1>3 DEF QuietUntilBegun, Entering
<1>8. QED
  BY <1>5, <1>6, <1>7 DEF VisitInv

\* A node that is running is of a super-step the checkpoint is at.
LEMMA VisitingFacts ==
    ASSUME IInv, VisitInv, NEW n \in Nodes, Visiting(n)
    PROVE  /\ persist = Idle /\ pc = "graph" /\ pc \in Running /\ begun = frontier.nodes
           /\ checkpoint.front = frontier /\ Settled(mem, frontier) /\ Fits(mem, frontier)
           /\ mem \in Memory
<1>1. persist = Idle /\ pc = "graph" /\ begun = frontier.nodes /\ n \in frontier.nodes
  BY DEF Visiting, InGraph
<1>2. ~Entering /\ begun # {}
  BY <1>1 DEF Entering
<1>3. checkpoint.front = frontier /\ Settled(mem, frontier)
  BY <1>1, <1>2 DEF VisitInv, FrontierSaved
<1>4. QED
  BY <1>1, <1>3 DEF VisitInv, MemoryFits, Running, IInv, TypeOK, Memory

\* before_model, and the end of a node.
LEMMA MovePhaseVisit ==
    ASSUME IInv, VisitInv, NEW n \in Nodes, Visiting(n), NEW p \in {"asked", "finished"},
           \/ p = "asked" /\ mem.phase[n] = "entered"
           \/ p = "finished" /\ mem.phase[n] = "asked" /\ mem.pending \intersect NodeCalls(n) = {},
           Persisting([mem EXCEPT !.phase[n] = p]),
           UNCHANGED <<disk, journal, pc, mode, durable, log, handler, terminal, outcome, acts, resumes, visit>>
    PROVE  VisitInv'
<1> DEFINE m == [mem EXCEPT !.phase[n] = p]
<1>1. /\ persist = Idle /\ pc = "graph" /\ pc \in Running /\ begun = frontier.nodes
      /\ checkpoint.front = frontier /\ Settled(mem, frontier) /\ Fits(mem, frontier)
      /\ mem \in Memory
  BY VisitingFacts
<1>2. /\ m \in Memory /\ m.pending = mem.pending /\ m.completed = mem.completed
      /\ m.phase = [mem.phase EXCEPT ![n] = p] /\ m.owner = mem.owner
  BY <1>1 DEF Memory, Phase
<1>3. Persisting(m)
  OBVIOUS
<1> HIDE DEF m
<1>4. mem.phase \in [Nodes -> Phase] /\ mem.pending \subseteq Calls
  BY <1>1, MemoryParts
<1>5. m.phase[n] = p /\ \A x \in Nodes : x # n => m.phase[x] = mem.phase[x]
  BY <1>2, <1>4
<1>6. Settled(m, frontier)
  <2>1. mem.phase[n] # "new" /\ frontier.nodes \subseteq Nodes
    BY DEF IInv, TypeOK, Frontier
  <2>2. QED
    BY <1>1, <1>2, <1>5, <2>1 DEF Settled
<1>7. Fits(m, frontier)
  <2>1. mem.phase[n] \in {"entered", "asked"}
    OBVIOUS
  <2>2. \A x \in Nodes : m.phase[x] # "new" => m.owner[x] <= frontier.step
    BY <1>1, <1>2, <1>5, <2>1 DEF Fits
  <2>3. \A x \in Nodes : m.phase[x] \in {"entered", "asked"} => x \in frontier.nodes /\ m.owner[x] = frontier.step
    BY <1>1, <1>2, <1>5, <2>1 DEF Fits
  <2>4. \A c \in m.pending : m.phase[Owner[c]] = "asked"
    <3> SUFFICES ASSUME NEW c \in mem.pending PROVE m.phase[Owner[c]] = "asked"
      BY <1>2
    <3>1. mem.phase[Owner[c]] = "asked" /\ Owner[c] \in Nodes /\ c \in Calls
      BY <1>1, <1>4, RunAssumption DEF Fits
    <3>2. CASE p = "asked"
      BY <3>1, <3>2, <1>5
    <3>3. CASE p = "finished"
      BY <3>1, <3>3, <1>5 DEF NodeCalls
    <3>4. QED
      BY <3>2, <3>3
  <2>5. QED
    BY <2>2, <2>3, <2>4 DEF Fits
<1>8. QED
  BY <1>1, <1>2, <1>3, <1>6, <1>7, PersistingVisit

LEMMA BeforeModelVisit == ASSUME IInv, VisitInv, NEW n \in Nodes, BeforeModel(n) PROVE VisitInv'
BY MovePhaseVisit DEF BeforeModel

LEMMA AdmitFinishVisit == ASSUME IInv, VisitInv, NEW n \in Nodes, AdmitFinish(n) PROVE VisitInv'
BY MovePhaseVisit DEF AdmitFinish

LEMMA AdmitCallsVisit ==
    ASSUME IInv, VisitInv, NEW n \in Nodes, NEW S \in SUBSET NodeCalls(n), AdmitCalls(n, S)
    PROVE  VisitInv'
<1> DEFINE m == [mem EXCEPT !.pending = mem.pending \union S]
<1>1. Visiting(n) /\ mem.phase[n] = "asked" /\ Persisting(m)
  BY DEF AdmitCalls
<1>2. /\ persist = Idle /\ pc = "graph" /\ pc \in Running /\ begun = frontier.nodes
      /\ checkpoint.front = frontier /\ Settled(mem, frontier) /\ Fits(mem, frontier)
      /\ mem \in Memory
  BY <1>1, VisitingFacts
<1>3. /\ m \in Memory /\ m.pending = mem.pending \union S /\ m.completed = mem.completed
      /\ m.phase = mem.phase /\ m.owner = mem.owner
  BY <1>2 DEF Memory, NodeCalls
<1> HIDE DEF m
<1>4. \A c \in S : Owner[c] = n
  BY DEF NodeCalls
<1>5. Fits(m, frontier) /\ Settled(m, frontier)
  BY <1>1, <1>2, <1>3, <1>4 DEF Fits, Settled
<1>6. UNCHANGED <<disk, journal, pc, mode, durable, log, handler, terminal, outcome, acts, resumes, visit>>
  BY DEF AdmitCalls
<1>7. QED
  BY <1>1, <1>2, <1>3, <1>5, <1>6, PersistingVisit

\* A handler's answer ends its call, in the graph or in the replay.
LEMMA CompleteVisit ==
    ASSUME IInv, VisitInv, persist = Idle, pc \in Running, NEW c \in Calls, c \in mem.pending,
           Persisting([mem EXCEPT !.pending = @ \ {c}, !.completed = @ \union {c}]),
           UNCHANGED <<disk, journal, pc, mode, durable, log, handler, terminal, outcome, acts, resumes, visit>>
    PROVE  VisitInv'
<1> DEFINE m == [mem EXCEPT !.pending = mem.pending \ {c}, !.completed = mem.completed \union {c}]
<1>1. mem \in Memory /\ Fits(mem, frontier) /\ ~Entering
  BY DEF IInv, TypeOK, Memory, VisitInv, MemoryFits, Entering
<1>2. /\ m \in Memory /\ m.pending = mem.pending \ {c} /\ m.completed = mem.completed \union {c}
      /\ m.phase = mem.phase /\ m.owner = mem.owner
  BY <1>1 DEF Memory
<1>3. Persisting(m)
  BY <1>1 DEF Memory
<1> HIDE DEF m
<1>4. pc = "graph" => begun = frontier.nodes
  BY DEF VisitInv, QuietUntilBegun
<1>5. Owner[c] \in frontier.nodes
  BY <1>1, RunAssumption DEF Fits
<1>6. checkpoint.front = frontier /\ Settled(mem, frontier)
  BY <1>1, <1>4, <1>5 DEF VisitInv, FrontierSaved, Running
<1>7. Fits(m, frontier) /\ Settled(m, frontier)
  BY <1>1, <1>2, <1>6 DEF Fits, Settled
<1>8. mem.completed \subseteq m.completed
  BY <1>2
<1>9. QED
  BY <1>2, <1>3, <1>4, <1>6, <1>7, <1>8, PersistingVisit

LEMMA ObserveToolVisit == ASSUME IInv, VisitInv, NEW c \in Calls, ObserveTool(c) PROVE VisitInv'
BY CompleteVisit DEF ObserveTool, InGraph, Running

LEMMA CompletePendingVisit == ASSUME IInv, VisitInv, NEW c \in Calls, CompletePending(c) PROVE VisitInv'
BY CompleteVisit DEF CompletePending, InReplay, Running

\* Admitting the frontier gives every node of it a visit of this super-step.
LEMMA NodeStartVisit == ASSUME IInv, VisitInv, NEW n \in Nodes, NodeStart(n) PROVE VisitInv'
<1> DEFINE m == AdmittedTo(mem, frontier)
<1>1. /\ checkpoint' = checkpoint /\ pc' = pc /\ durable' = durable /\ exec' = exec /\ result' = result
      /\ frontier' = frontier /\ mem' = mem /\ pc = "graph" /\ persist = Idle
      /\ n \in frontier.nodes \ begun
  BY DEF NodeStart, InGraph, disk, outcome
<1>2. mem \in Memory /\ frontier \in Frontier /\ Fits(mem, frontier) /\ mem.pending = {}
  BY <1>1 DEF IInv, TypeOK, Memory, VisitInv, MemoryFits, QuietUntilBegun, Running
<1>3. /\ m \in Memory /\ m.pending = {} /\ m.completed = mem.completed
      /\ \A x \in frontier.nodes : ~OwnedBy(mem, x, frontier.step) =>
            m.phase[x] = "entered" /\ m.owner[x] = frontier.step
      /\ \A x \in Nodes : x \notin frontier.nodes \/ OwnedBy(mem, x, frontier.step) =>
            m.phase[x] = mem.phase[x] /\ m.owner[x] = mem.owner[x]
  BY <1>2, AdmittedFacts
<1>4. persist' = [step |-> "events", gen |-> Prepare(m), frontier |-> TRUE]
  BY DEF NodeStart
<1> HIDE DEF m
<1>5. frontier.nodes \subseteq Nodes /\ frontier.step \in Nat
  BY <1>2 DEF Frontier
<1>6. \A x \in frontier.nodes : m.owner[x] = frontier.step
  BY <1>3, <1>5 DEF OwnedBy
<1>7. Settled(m, frontier)
  BY <1>6 DEF Settled
<1>8. Fits(m, frontier)
  <2>1. \A x \in Nodes : x \notin frontier.nodes => m.phase[x] = mem.phase[x] /\ m.owner[x] = mem.owner[x]
    BY <1>3
  <2>2. \A x \in Nodes : m.phase[x] # "new" => m.owner[x] <= frontier.step
    BY <1>2, <1>5, <1>6, <2>1 DEF Fits
  <2>3. \A x \in Nodes : m.phase[x] \in {"entered", "asked"} => x \in frontier.nodes /\ m.owner[x] = frontier.step
    BY <1>2, <1>6, <2>1 DEF Fits
  <2>4. QED
    BY <1>3, <2>2, <2>3 DEF Fits
<1>9. PICK g \in Generation :
        /\ persist' = [step |-> "events", gen |-> g, frontier |-> TRUE]
        /\ g.pending = m.pending /\ g.phase = m.phase /\ g.owner = m.owner
  <2>1. \A c \in Calls : durable.done[c] # 0 => c \in m.completed
    BY <1>3 DEF IInv, MemoryAhead
  <2>2. QED
    BY <1>3, <1>4, <2>1, PrepareFacts DEF IInv
<1>10. persist' # Idle /\ persist'.gen = g /\ persist'.frontier
  <2>1. persist' \in Persisted /\ persist'.gen = g /\ persist'.frontier
    BY <1>9 DEF Persisted
  <2>2. QED
    BY <2>1, NotAbsent
<1>11. Fits(g, frontier) /\ Settled(g, frontier)
  BY <1>7, <1>8, <1>9, SameVisits
<1>12. NothingBegun' /\ CheckpointFits' /\ DoneFits' /\ ReceiptFits'
  BY <1>1 DEF VisitInv, NothingBegun, CheckpointFits, DoneFits, ReceiptFits, StartPc
<1>13. MemoryFits' /\ FrontierSaved' /\ QuietUntilBegun' /\ PersistFits'
  BY <1>1, <1>2, <1>10, <1>11 DEF MemoryFits, FrontierSaved, QuietUntilBegun, PersistFits, Entering
<1>14. QED
  BY <1>12, <1>13 DEF VisitInv

\* All nodes finished: no visit is open when the next super-step begins.
LEMMA NextFrontierVisit ==
    ASSUME IInv, VisitInv, NEW F \in SUBSET Nodes, NextFrontier(F) PROVE VisitInv'
<1>1. /\ checkpoint' = checkpoint /\ pc' = pc /\ durable' = durable /\ exec' = exec /\ result' = result
      /\ mem' = mem /\ pc = "graph" /\ persist = Idle /\ persist' = persist /\ exec = "none"
      /\ begun' = {} /\ frontier' = [step |-> frontier.step + 1, nodes |-> F]
      /\ \A n \in frontier.nodes : mem.phase[n] = "finished"
  BY DEF NextFrontier, InGraph, disk, outcome
<1>2. mem \in Memory /\ frontier \in Frontier /\ Fits(mem, frontier)
  BY <1>1 DEF IInv, TypeOK, Memory, VisitInv, MemoryFits, Running
<1>3. mem.pending = {} /\ \A n \in Nodes : mem.phase[n] \in {"new", "finished"}
  BY <1>1, <1>2, NothingOpen
<1>4. Fits(mem, frontier')
  <2>1. frontier.step \in Nat /\ \A n \in Nodes : mem.owner[n] \in Nat
    BY <1>2, MemoryParts DEF Frontier
  <2>2. \A n \in Nodes : mem.phase[n] # "new" => mem.owner[n] <= frontier.step + 1
    BY <1>2, <2>1 DEF Fits
  <2>3. QED
    BY <1>1, <1>3, <2>2 DEF Fits
<1>5. NothingBegun' /\ CheckpointFits' /\ DoneFits' /\ ReceiptFits' /\ PersistFits'
  BY <1>1 DEF VisitInv, NothingBegun, CheckpointFits, DoneFits, ReceiptFits, PersistFits
<1>6. MemoryFits' /\ FrontierSaved' /\ QuietUntilBegun'
  BY <1>1, <1>3, <1>4 DEF MemoryFits, FrontierSaved, QuietUntilBegun
<1>7. QED
  BY <1>5, <1>6 DEF VisitInv

\* The checkpoint and the memory move to the generation that was prepared.
LEMMA PersistCheckpointVisit == ASSUME IInv, VisitInv, PersistCheckpoint PROVE VisitInv'
<1> DEFINE g == persist.gen
<1>1. persist # Idle /\ persist \in Persisted /\ g \in Generation /\ persist.frontier \in BOOLEAN
  <2>1. persist # Idle
    BY DEF PersistCheckpoint, Idle
  <2>2. QED
    BY <2>1 DEF IInv, Shapes, Persisted
<1>2. /\ pc \in Running /\ checkpoint # Absent /\ g.pending = mem.pending /\ exec # "ok" /\ result # "ok"
  BY <1>1 DEF IInv, PersistKeeps, StartProgress, Running, Closing, ClosingPc, Receipt
<1>3. /\ checkpoint' = NextCheckpoint /\ durable' = g /\ persist' = Idle /\ mem' = Loaded(g)
      /\ pc' = pc /\ exec' = exec /\ result' = result /\ frontier' = frontier /\ begun' = begun
  BY DEF PersistCheckpoint, outcome
<1>4. Fits(g, frontier) /\ Settled(g, frontier) /\ (~persist.frontier => checkpoint.front = frontier)
  BY <1>1 DEF VisitInv, PersistFits
<1>5. checkpoint'.gen = g /\ checkpoint'.front = frontier
  <2>1. checkpoint \in CheckpointFile
    BY <1>2 DEF IInv, Shapes
  <2>2. QED
    BY <1>3, <1>4, <2>1 DEF NextCheckpoint, CheckpointFile
<1>6. Fits(Loaded(g), frontier) /\ Settled(Loaded(g), frontier) /\ Loaded(g).pending = mem.pending
  BY <1>1, <1>2, <1>4, LoadedFacts, SameVisits
<1> HIDE DEF g
<1>7. NothingBegun' /\ CheckpointFits' /\ DoneFits' /\ ReceiptFits' /\ PersistFits'
  BY <1>2, <1>3, <1>4, <1>5 DEF VisitInv, NothingBegun, CheckpointFits, DoneFits, ReceiptFits, PersistFits
<1>8. MemoryFits' /\ FrontierSaved'
  BY <1>3, <1>5, <1>6 DEF MemoryFits, FrontierSaved
<1>9. QuietUntilBegun'
  <2>1. ~Entering'
    BY <1>3 DEF Entering
  <2>2. QED
    BY <1>3, <1>6, <2>1 DEF VisitInv, QuietUntilBegun
<1>10. QED
  BY <1>7, <1>8, <1>9 DEF VisitInv

LEMMA PersistVisit == ASSUME IInv, VisitInv, Persist PROVE VisitInv'
<1>1. CASE PersistEvents
  <2>1. persist # Idle /\ persist' = [persist EXCEPT !.step = "ledger"]
    BY <1>1 DEF PersistEvents, Idle
  <2>2. persist' \in Persisted /\ persist'.gen = persist.gen /\ persist'.frontier = persist.frontier
    BY <2>1 DEF IInv, Shapes, Persisted
  <2>3. Entering' <=> Entering
    BY <2>1, <2>2, NotAbsent DEF Entering
  <2>4. QED
    BY <1>1, <2>1, <2>2, <2>3, FrameVisit DEF PersistEvents, outcome
<1>2. CASE PersistLedger
  <2>1. persist # Idle /\ persist' = [persist EXCEPT !.step = "checkpoint"]
    BY <1>2 DEF PersistLedger, Idle
  <2>2. persist' \in Persisted /\ persist'.gen = persist.gen /\ persist'.frontier = persist.frontier
    BY <2>1 DEF IInv, Shapes, Persisted
  <2>3. Entering' <=> Entering
    BY <2>1, <2>2, NotAbsent DEF Entering
  <2>4. QED
    BY <1>2, <2>1, <2>2, <2>3, FrameVisit DEF PersistLedger, outcome
<1>3. CASE PersistCheckpoint
  BY <1>3, PersistCheckpointVisit
<1>4. CASE PersistFails
  <2>1. /\ checkpoint' = checkpoint /\ mem' = mem /\ durable' = durable /\ frontier' = frontier /\ begun' = begun
        /\ persist' = Idle /\ exec' = "error" /\ result' = result
        /\ pc' = IF persist.frontier THEN "reconcile" ELSE pc
    BY <1>4 DEF PersistFails, disk
  <2>2. pc' \in Running => pc' = pc /\ (Entering' <=> Entering)
    BY <2>1 DEF Entering, Running
  <2>3. pc' \in StartPc => pc \in StartPc
    BY <2>1 DEF StartPc
  <2>4. QED
    BY <2>1, <2>2, <2>3, FrameVisit
<1>5. QED
  BY <1>1, <1>2, <1>3, <1>4 DEF Persist

LEMMA StartVisit == ASSUME IInv, VisitInv, Starting PROVE VisitInv'
<1>1. CASE StartFails \/ CreateLedger \/ StartEvents
  <2>1. /\ checkpoint' = checkpoint /\ mem' = mem /\ durable' = durable /\ frontier' = frontier /\ begun' = begun
        /\ persist' = persist /\ result' = result /\ exec' \in {exec, "error"}
        /\ pc \in StartPc /\ pc' \notin Running
    BY <1>1 DEF StartFails, CreateLedger, StartEvents, outcome, StartPc, Running
  <2>2. QED
    BY <2>1, FrameVisit
<1>2. CASE InitialCheckpoint
  <2>1. /\ checkpoint' = [gen |-> Empty, seq |-> Len(log), front |-> frontier] /\ pc' = "publish"
        /\ mem' = mem /\ durable' = durable /\ frontier' = frontier /\ begun' = begun
        /\ persist' = persist /\ result' = result /\ exec' = exec /\ pc = "initial"
    BY <1>2 DEF InitialCheckpoint, outcome
  <2>2. /\ frontier \in Frontier /\ persist = Idle /\ exec = "none" /\ result # "ok" /\ begun = {}
    BY <2>1 DEF IInv, TypeOK, StartProgress, StartPc, Receipt, VisitInv, NothingBegun
  <2>3. Fits(checkpoint'.gen, checkpoint'.front) /\ Settled(checkpoint'.gen, checkpoint'.front)
    BY <2>1, <2>2, EmptyFits
  <2>4. QED
    BY <2>1, <2>2, <2>3 DEF VisitInv, NothingBegun, CheckpointFits, MemoryFits, FrontierSaved,
       QuietUntilBegun, PersistFits, DoneFits, ReceiptFits, Running
<1>3. CASE PublishRun
  <2>1. /\ checkpoint' = checkpoint /\ pc' = "graph"
        /\ mem' = mem /\ durable' = durable /\ frontier' = frontier /\ begun' = begun
        /\ persist' = persist /\ result' = result /\ exec' = exec /\ pc = "publish"
    BY <1>3 DEF PublishRun, outcome
  <2>2. /\ frontier \in Frontier /\ persist = Idle /\ exec = "none" /\ begun = {} /\ mem = Loaded(Empty)
    BY <2>1 DEF IInv, TypeOK, StartProgress, StartPc, VisitInv, NothingBegun
  <2>3. Fits(mem, frontier) /\ mem.pending = {}
    BY <2>2, EmptyFits, EmptyIsQuiet
  <2>4. NothingBegun' /\ FrontierSaved' /\ PersistFits' /\ DoneFits'
    BY <2>1, <2>2 DEF NothingBegun, FrontierSaved, PersistFits, DoneFits
  <2>5. CheckpointFits' /\ MemoryFits' /\ QuietUntilBegun' /\ ReceiptFits'
    BY <2>1, <2>3 DEF VisitInv, CheckpointFits, MemoryFits, QuietUntilBegun, ReceiptFits
  <2>6. QED
    BY <2>4, <2>5 DEF VisitInv
<1>4. QED
  BY <1>1, <1>2, <1>3 DEF Starting

\* The last checkpoint of a run is at a super-step without nodes.
LEMMA EndSaveVisit == ASSUME IInv, VisitInv, EndSave PROVE VisitInv'
<1>1. /\ checkpoint' = [gen |-> durable, seq |-> Len(log), front |-> frontier] /\ pc' = "manifest"
      /\ mem' = mem /\ durable' = durable /\ frontier' = frontier /\ begun' = begun
      /\ persist' = persist /\ result' = result /\ exec' = exec /\ pc = "save"
  BY DEF EndSave, FinalCheckpoint, outcome
<1>2. /\ exec = "ok" /\ frontier.nodes = {} /\ Fits(durable, frontier) /\ persist = Idle /\ result # "ok"
  BY <1>1 DEF IInv, Closing, PersistKeeps, Running, Receipt, VisitInv, DoneFits
<1>3. Settled(durable, frontier)
  BY <1>2 DEF Settled
<1>4. checkpoint'.gen = durable /\ checkpoint'.front = frontier
  BY <1>1
<1>5. NothingBegun' /\ MemoryFits' /\ FrontierSaved' /\ QuietUntilBegun' /\ PersistFits'
  BY <1>1, <1>2 DEF NothingBegun, MemoryFits, FrontierSaved, QuietUntilBegun, PersistFits, Running, StartPc
<1>6. CheckpointFits' /\ DoneFits' /\ ReceiptFits'
  BY <1>1, <1>2, <1>3, <1>4 DEF CheckpointFits, DoneFits, ReceiptFits
<1>7. QED
  BY <1>5, <1>6 DEF VisitInv

LEMMA EndVisit == ASSUME IInv, VisitInv, Ending PROVE VisitInv'
<1>1. CASE EndSave
  BY <1>1, EndSaveVisit
<1>2. CASE EndManifest
  <2>1. /\ pc = "manifest" /\ Exit(Answer) /\ checkpoint' = checkpoint
    BY <1>2 DEF EndManifest
  <2>2. Answer = "ok" => checkpoint.front.nodes = {}
    BY <2>1 DEF Answer, IInv, Closing, FinalCheckpoint, VisitInv, DoneFits
  <2>3. QED
    BY <2>1, <2>2, ExitVisit
<1>3. CASE EndManifestFails
  BY <1>3, ExitVisit DEF EndManifestFails
<1>4. ASSUME Exit("error"), checkpoint' = checkpoint PROVE VisitInv'
  BY <1>4, ExitVisit
<1>5. ASSUME pc \in ClosingPc, pc' \in ClosingPc, checkpoint' = checkpoint, mem' = mem, durable' = durable,
             frontier' = frontier, begun' = begun, persist' = persist, exec' = exec, result' = result
      PROVE  VisitInv'
  <2>1. pc' \notin Running /\ pc' \notin StartPc
    BY <1>5 DEF ClosingPc, Running, StartPc
  <2>2. QED
    BY <1>5, <2>1, FrameVisit
<1>6. CASE EndReconcile \/ EndReconcileFails
  BY <1>4, <1>5, <1>6 DEF EndReconcile, EndReconcileFails, disk, outcome, ClosingPc
<1>7. CASE EndWriteEvents \/ EndWriteFails
  BY <1>4, <1>5, <1>7 DEF EndWriteEvents, EndWriteFails, AfterWrite, outcome, ClosingPc
<1>8. CASE EndSaveFails
  BY <1>4, <1>5, <1>8 DEF EndSaveFails, disk, ClosingPc
<1>9. QED
  BY <1>1, <1>2, <1>3, <1>6, <1>7, <1>8 DEF Ending

\* A resume takes the super-step of its checkpoint, and goes on from it.
LEMMA ResumeVisit == ASSUME IInv, VisitInv, Resume PROVE VisitInv'
<1>1. /\ checkpoint # Absent /\ checkpoint' = checkpoint /\ mem' = Loaded(checkpoint.gen)
      /\ frontier' = checkpoint.front /\ begun' = {} /\ pc' = "replay" /\ result' = "none"
      /\ persist' = persist /\ exec' = exec /\ pc = "off"
  BY DEF Resume, Consistent
<1>2. persist = Idle /\ exec = "none" /\ checkpoint.gen \in Generation
  BY <1>1 DEF IInv, OffIsClean, Shapes, CheckpointFile
<1>3. /\ Fits(checkpoint.gen, checkpoint.front) /\ Settled(checkpoint.gen, checkpoint.front)
  BY <1>1 DEF VisitInv, CheckpointFits
<1>4. Fits(mem', frontier') /\ Settled(mem', frontier')
  BY <1>1, <1>2, <1>3, LoadedFacts, SameVisits
<1>5. NothingBegun' /\ CheckpointFits' /\ QuietUntilBegun' /\ PersistFits' /\ DoneFits' /\ ReceiptFits'
  BY <1>1, <1>2, <1>3 DEF NothingBegun, CheckpointFits, QuietUntilBegun, PersistFits, DoneFits, ReceiptFits
<1>6. MemoryFits' /\ FrontierSaved'
  BY <1>1, <1>4 DEF MemoryFits, FrontierSaved
<1>7. QED
  BY <1>5, <1>6 DEF VisitInv

LEMMA ReplayDoneVisit == ASSUME IInv, VisitInv, ReplayDone PROVE VisitInv'
<1>1. /\ checkpoint' = checkpoint /\ mem' = mem /\ durable' = durable /\ frontier' = frontier /\ begun' = begun
      /\ persist' = persist /\ exec' = exec /\ result' = result /\ pc = "replay" /\ pc' = "graph"
      /\ persist = Idle /\ mem.pending = {}
  BY DEF ReplayDone, InReplay, disk, outcome
<1>2. begun = {} /\ Fits(mem, frontier)
  BY <1>1 DEF VisitInv, NothingBegun, MemoryFits, Running
<1>3. NothingBegun' /\ MemoryFits' /\ FrontierSaved' /\ QuietUntilBegun'
  BY <1>1, <1>2 DEF NothingBegun, MemoryFits, FrontierSaved, QuietUntilBegun, StartPc
<1>4. CheckpointFits' /\ PersistFits' /\ DoneFits' /\ ReceiptFits'
  BY <1>1 DEF VisitInv, CheckpointFits, PersistFits, DoneFits, ReceiptFits
<1>5. QED
  BY <1>3, <1>4 DEF VisitInv

\* The graph is done: the published generation fits a super-step without nodes.
LEMMA GraphDoneVisit == ASSUME IInv, VisitInv, GraphDone PROVE VisitInv'
<1>1. /\ checkpoint' = checkpoint /\ mem' = mem /\ durable' = durable /\ frontier' = frontier /\ begun' = begun
      /\ persist' = persist /\ result' = result /\ pc = "graph" /\ pc' = "reconcile" /\ exec = "none"
      /\ persist = Idle /\ frontier.nodes = {}
  BY DEF GraphDone, InGraph, disk
<1>2. Fits(mem, frontier) /\ mem = Loaded(durable) /\ durable \in Generation
  BY <1>1 DEF VisitInv, MemoryFits, Running, IInv, MemoryAhead, TypeOK
<1>3. Fits(durable, frontier)
  BY <1>2, LoadedFacts, SameVisits
<1>4. NothingBegun' /\ MemoryFits' /\ FrontierSaved' /\ QuietUntilBegun' /\ PersistFits'
  BY <1>1 DEF NothingBegun, MemoryFits, FrontierSaved, QuietUntilBegun, PersistFits, StartPc, Running
<1>5. CheckpointFits' /\ DoneFits' /\ ReceiptFits'
  BY <1>1, <1>3 DEF VisitInv, CheckpointFits, DoneFits, ReceiptFits
<1>6. QED
  BY <1>4, <1>5 DEF VisitInv

\* Steps of the handlers, of the log, and those that only end or refuse.
LEMMA QuietVisit ==
    ASSUME VisitInv, persist' = persist, pc' = pc \/ pc' \in ClosingPc,
           exec' = exec \/ exec' # "ok", result' = result \/ result' # "ok",
           UNCHANGED <<checkpoint, mem, durable, visit>>
    PROVE  VisitInv'
<1>1. pc' \in Running => pc' = pc
  BY DEF Running, ClosingPc
<1>2. pc' \in StartPc => pc \in StartPc
  BY DEF StartPc, ClosingPc
<1>3. Entering' <=> Entering
  BY DEF Entering
<1>4. QED
  BY <1>1, <1>2, <1>3, FrameVisit

LEMMA NextVisit == IInv /\ VisitInv /\ [Next]_vars => VisitInv'
<1> SUFFICES ASSUME IInv, VisitInv, [Next]_vars PROVE VisitInv'
  OBVIOUS
<1>1. CASE Starting \/ Persist \/ Ending
  BY <1>1, StartVisit, PersistVisit, EndVisit
<1>2. ASSUME NEW n \in Nodes, NodeStep(n) PROVE VisitInv'
  BY <1>2, NodeStartVisit, BeforeModelVisit, AdmitFinishVisit, AdmitCallsVisit DEF NodeStep
<1>3. ASSUME NEW c \in Calls, CallStep(c) PROVE VisitInv'
  <2>1. CASE ObserveTool(c) \/ CompletePending(c)
    BY <2>1, ObserveToolVisit, CompletePendingVisit
  <2>2. CASE LogCompletion(c) \/ FenceAdmit(c) \/ HandlerActs(c) \/ ReplayPending(c)
    BY <2>2, QuietVisit DEF LogCompletion, FenceAdmit, HandlerActs, ReplayPending, disk, outcome
  <2>3. QED
    BY <1>3, <2>1, <2>2 DEF CallStep
<1>4. CASE \E F \in SUBSET Nodes : NextFrontier(F)
  BY <1>4, NextFrontierVisit
<1>5. CASE GraphDone \/ Resume \/ ReplayDone
  BY <1>5, GraphDoneVisit, ResumeVisit, ReplayDoneVisit
<1>6. CASE Stop \/ GraphFails \/ ReplayDenied \/ ReplayFails \/ ResumeFails \/ ResumeRefused
  BY <1>6, QuietVisit DEF Stop, GraphFails, ReplayDenied, ReplayFails, ResumeFails, ResumeRefused,
     disk, outcome, ClosingPc
<1>7. CASE ReplayReconcileFails \/ Crash
  BY <1>7, ExitVisit DEF ReplayReconcileFails, Crash, disk
<1>8. CASE Finished \/ UNCHANGED vars
  BY <1>8, QuietVisit DEF Finished, vars, disk, outcome
<1>9. QED
  BY <1>1, <1>2, <1>3, <1>4, <1>5, <1>6, <1>7, <1>8 DEF Next

\* The visits stay in order in every run, whatever fails.
THEOREM VisitInvariance == Spec => [](IInv /\ VisitInv)
<1>1. Init => IInv /\ VisitInv
  BY InitIInv, InitVisit
<1>2. (IInv /\ VisitInv) /\ [Next]_vars => (IInv /\ VisitInv)'
  BY NextIInv, NextVisit
<1>3. QED
  BY <1>1, <1>2, PTL DEF Spec

\* The files of a run with a checkpoint are those a resume accepts.
LEMMA FilesConsistent == ASSUME IInv, VisitInv, checkpoint # Absent PROVE Consistent
<1>1. /\ checkpoint \in CheckpointFile /\ checkpoint.seq \in Nat /\ ledger # Absent
      /\ checkpoint.gen \in {ledger.nodes, ledger.ck} /\ checkpoint.seq <= Len(events)
  BY DEF IInv, Shapes, CheckpointFile, FilesAgree
<1>2. events \in Seq(Event) /\ Len(events) \in Nat /\ Once(events) /\ Tokens(events) \subseteq Done(checkpoint.gen)
  BY DEF IInv, TypeOK, EventsBound, Bound
<1> DEFINE p == SubSeq(events, 1, checkpoint.seq)
<1>3. Tokens(p) \subseteq Tokens(events) /\ Once(p)
  BY <1>1, <1>2, PrefixRecords
<1> HIDE DEF p
<1>4. Validated(checkpoint.gen, p)
  BY <1>2, <1>3 DEF Validated, Once
<1>5. OwnersValid(checkpoint.gen, checkpoint.front)
  BY DEF VisitInv, CheckpointFits, Fits, Settled, OwnersValid
<1>6. QED
  BY <1>1, <1>2, <1>4, <1>5 DEF Consistent, p

\* A run whose manifest says running or succeeded can be resumed, wherever
\* the process died and whichever write failed.
THEOREM RunsCanResume == Spec => []AlwaysResumable
<1>1. IInv /\ VisitInv => AlwaysResumable
  <2> SUFFICES ASSUME IInv, VisitInv PROVE AlwaysResumable
    OBVIOUS
  <2>1. ASSUME NEW m \in Memory, NEW f \in Frontier, Fits(m, f), NEW n \in f.nodes
        PROVE  MayEnter(m, n, f.step)
    <3>1. n \in Nodes /\ m.phase[n] \in Phase
      BY <2>1, MemoryParts DEF Frontier
    <3>2. CASE m.phase[n] \in {"entered", "asked"}
      BY <2>1, <3>1, <3>2 DEF Fits, MayEnter, OwnedBy
    <3>3. CASE m.phase[n] \in {"new", "finished"}
      <4>1. \A c \in m.pending : m.phase[Owner[c]] = "asked"
        BY <2>1 DEF Fits
      <4>2. m.pending \intersect NodeCalls(n) = {}
        BY <3>3, <4>1 DEF NodeCalls
      <4>3. QED
        BY <3>3, <4>2 DEF MayEnter
    <3>4. QED
      BY <3>1, <3>2, <3>3 DEF Phase
  <2>2. ASSUME Resumable
        PROVE  Consistent /\ \A n \in checkpoint.front.nodes :
                                MayEnter(Loaded(checkpoint.gen), n, checkpoint.front.step)
    <3>1. checkpoint # Absent /\ checkpoint.gen \in Generation /\ checkpoint.front \in Frontier
      BY <2>2 DEF IInv, FilesAgree, Shapes, CheckpointFile
    <3>2. Loaded(checkpoint.gen) \in Memory /\ Fits(Loaded(checkpoint.gen), checkpoint.front)
      BY <3>1, LoadedFacts, SameVisits DEF VisitInv, CheckpointFits
    <3>3. QED
      BY <2>1, <3>1, <3>2, FilesConsistent
  <2>3. ASSUME InGraph, exec = "none"
        PROVE  \A n \in frontier.nodes : MayEnter(mem, n, frontier.step)
    <3>1. mem \in Memory /\ frontier \in Frontier /\ Fits(mem, frontier)
      BY <2>3 DEF IInv, TypeOK, Memory, VisitInv, MemoryFits, InGraph, Running
    <3>2. QED
      BY <2>1, <3>1
  <2>4. QED
    BY <2>2, <2>3 DEF AlwaysResumable
<1>2. QED
  BY VisitInvariance, <1>1, PTL

\* Every completion event names a completion of the checkpoint, and an Ok
\* receipt is backed by a complete run.
THEOREM ReportsAreDurable == Spec => []ReportedIsDurable
<1>1. IInv /\ VisitInv => ReportedIsDurable
  <2> SUFFICES ASSUME IInv, VisitInv PROVE ReportedIsDurable
    OBVIOUS
  <2>1. Tokens(log) \subseteq Done(Bound)
    <3>1. CASE pc = "off"
      BY <3>1, EmptyLog DEF IInv, OffIsClean
    <3>2. CASE pc # "off"
      BY <3>2 DEF IInv, InMemory, EventsBound
    <3>3. QED
      BY <3>1, <3>2
  <2>2. (Tokens(log) \union Tokens(events)) \subseteq (IF checkpoint = Absent THEN {} ELSE Done(checkpoint.gen))
    BY <2>1, EmptyFacts DEF IInv, EventsBound, Bound
  <2>3. result = "ok" => Consistent
    BY FilesConsistent DEF IInv, Receipt
  <2>4. ASSUME result = "ok"
        PROVE  /\ checkpoint.gen.pending = {} /\ checkpoint.front.nodes = {}
               /\ \A n \in Nodes : checkpoint.gen.phase[n] \in {"new", "finished"}
    <3> DEFINE m == Loaded(checkpoint.gen)
    <3>1. checkpoint # Absent /\ checkpoint.gen \in Generation /\ checkpoint.front.nodes = {}
      BY <2>4 DEF IInv, Receipt, Shapes, CheckpointFile, VisitInv, ReceiptFits
    <3>2. m \in Memory /\ m.pending = checkpoint.gen.pending /\ m.phase = checkpoint.gen.phase
      BY <3>1, LoadedFacts
    <3>3. Fits(m, checkpoint.front)
      BY <3>1, LoadedFacts, SameVisits DEF VisitInv, CheckpointFits
    <3> HIDE DEF m
    <3>4. QED
      BY <3>1, <3>2, <3>3, NothingOpen
  <2>5. result = "ok" => /\ status = "succeeded"
                         /\ checkpoint.seq = Len(events) /\ Tokens(events) = Done(checkpoint.gen)
    BY DEF IInv, Receipt
  <2>6. QED
    BY <2>2, <2>3, <2>4, <2>5 DEF ReportedIsDurable
<1>2. QED
  BY VisitInvariance, <1>1, PTL

\* The nodes of a run share one budget of tool calls across resumes, and a
\* journaled tool acts once.
THEOREM BudgetHolds == Spec => []WithinToolCalls
<1>1. IInv => WithinToolCalls
  BY DEF IInv, Budget, Bound, ActedIsJournaled, WithinToolCalls
<1>2. QED
  BY Invariance, <1>1, PTL

\* A tool acts only while its call is pending in the checkpoint.
THEOREM ActsWhilePending == Spec => EffectOnlyWhilePending
<1> DEFINE A == \A c \in Calls : acts'[c] # acts[c] => checkpoint # Absent /\ c \in checkpoint.gen.pending
<1>1. IInv /\ [Next]_vars => [A]_vars
  <2> SUFFICES ASSUME IInv, Next, NEW c \in Calls, acts'[c] # acts[c]
               PROVE  checkpoint # Absent /\ c \in checkpoint.gen.pending
    OBVIOUS
  <2>1. PICK d \in Calls : HandlerActs(d)
    <3>1. ASSUME NEW a, Exit(a) PROVE acts' = acts
      BY <3>1 DEF Exit
    <3>2. CASE Starting \/ Persist
      BY <3>2 DEF Starting, StartFails, CreateLedger, StartEvents, InitialCheckpoint, PublishRun,
          Persist, PersistEvents, PersistLedger, PersistCheckpoint, PersistFails
    <3>3. CASE Ending
      BY <3>1, <3>3 DEF Ending, EndReconcile, EndReconcileFails, EndWriteEvents, EndWriteFails,
          EndSave, EndSaveFails, EndManifest, EndManifestFails
    <3>4. ASSUME NEW n \in Nodes, NodeStep(n) PROVE FALSE
      BY <3>4 DEF NodeStep, NodeStart, BeforeModel, AdmitFinish, AdmitCalls
    <3>5. ASSUME NEW d \in Calls, CallStep(d) PROVE HandlerActs(d)
      BY <3>5 DEF CallStep, ObserveTool, LogCompletion, FenceAdmit, ReplayPending, CompletePending
    <3>6. CASE (\E F \in SUBSET Nodes : NextFrontier(F)) \/ Stop \/ GraphDone \/ GraphFails \/ Resume \/ ResumeFails \/ ResumeRefused
               \/ ReplayDenied \/ ReplayFails \/ ReplayDone
      BY <3>6 DEF NextFrontier, Stop, GraphDone, GraphFails, Resume, ResumeFails, ResumeRefused,
          ReplayDenied, ReplayFails, ReplayDone
    <3>7. CASE ReplayReconcileFails \/ Crash
      BY <3>1, <3>7 DEF ReplayReconcileFails, Crash
    <3>8. CASE Finished
      BY <3>8 DEF Finished, vars
    <3>9. QED
      BY <3>2, <3>3, <3>4, <3>5, <3>6, <3>7, <3>8 DEF Next
  <2>2. d = c
    BY <2>1 DEF HandlerActs, Commit, IInv, TypeOK
  <2>3. handler[c] = "admitted"
    BY <2>1, <2>2 DEF HandlerActs
  <2>4. c \in durable.pending /\ pc # "off"
    BY <2>3, LiveHandler DEF IInv, ReadyIsPending
  <2>5. durable = Bound
    BY <2>4 DEF IInv, InMemory
  <2>6. QED
    BY <2>4, <2>5, EmptyFacts DEF Bound
<1>2. QED
  BY <1>1, Invariance, PTL DEF Spec, EffectOnlyWhilePending

\* A completion the checkpoint binds is never lost, and never gets another identity,
\* whichever process goes on with the run.
CompletionsStay ==
    [][checkpoint # Absent =>
          /\ checkpoint' # Absent
          /\ \A c \in Calls : checkpoint.gen.done[c] # 0 =>
                checkpoint'.gen.done[c] = checkpoint.gen.done[c]]_vars

\* A step that saves no checkpoint leaves it alone.
LEMMA SavesCheckpoint ==
    ASSUME Next, checkpoint' # checkpoint
    PROVE  InitialCheckpoint \/ PersistCheckpoint \/ EndSave
<1>1. ASSUME NEW a, Exit(a), UNCHANGED disk PROVE checkpoint' = checkpoint
  BY <1>1 DEF disk
<1>2. CASE Starting \/ Persist
  BY <1>2 DEF Starting, StartFails, CreateLedger, StartEvents, PublishRun, Persist, PersistEvents, PersistLedger,
      PersistFails, disk
<1>3. CASE Ending
  BY <1>3 DEF Ending, EndReconcile, EndReconcileFails, EndWriteEvents, EndWriteFails,
      EndSaveFails, EndManifest, EndManifestFails, disk
<1>4. ASSUME NEW n \in Nodes, NodeStep(n) PROVE FALSE
  BY <1>4 DEF NodeStep, NodeStart, BeforeModel, AdmitFinish, AdmitCalls, disk
<1>5. ASSUME NEW d \in Calls, CallStep(d) PROVE FALSE
  BY <1>5 DEF CallStep, ObserveTool, LogCompletion, FenceAdmit, HandlerActs, ReplayPending,
      CompletePending, disk
<1>6. CASE (\E F \in SUBSET Nodes : NextFrontier(F)) \/ Stop \/ GraphDone \/ GraphFails \/ Resume \/ ResumeFails \/ ResumeRefused
           \/ ReplayDenied \/ ReplayFails \/ ReplayDone
  BY <1>6 DEF NextFrontier, Stop, GraphDone, GraphFails, Resume, ResumeFails, ResumeRefused,
      ReplayDenied, ReplayFails, ReplayDone, disk
<1>7. CASE ReplayReconcileFails \/ Crash
  BY <1>1, <1>7 DEF ReplayReconcileFails, Crash, disk
<1>8. CASE Finished
  BY <1>8 DEF Finished, vars, disk
<1>9. QED
  BY <1>2, <1>3, <1>4, <1>5, <1>6, <1>7, <1>8 DEF Next

\* A completion that a checkpoint has bound stays bound under its identity, across
\* every persist, failed write, crash and resume.
THEOREM CompletionsAreKept == Spec => CompletionsStay
<1> DEFINE A == checkpoint # Absent =>
                   /\ checkpoint' # Absent
                   /\ \A c \in Calls : checkpoint.gen.done[c] # 0 =>
                         checkpoint'.gen.done[c] = checkpoint.gen.done[c]
<1>1. IInv /\ [Next]_vars => [A]_vars
  <2> SUFFICES ASSUME IInv, Next, checkpoint' # checkpoint, checkpoint # Absent
               PROVE  /\ checkpoint' # Absent
                      /\ \A c \in Calls : checkpoint.gen.done[c] # 0 =>
                            checkpoint'.gen.done[c] = checkpoint.gen.done[c]
    OBVIOUS
  <2>1. checkpoint \in CheckpointFile
    BY DEF IInv, Shapes
  <2>2. CASE InitialCheckpoint
    BY <2>2 DEF InitialCheckpoint, IInv, StartProgress
  <2>3. CASE PersistCheckpoint
    <3>1. persist # Idle /\ checkpoint' = NextCheckpoint
      BY <2>3 DEF PersistCheckpoint, Idle
    <3>2. /\ pc # "off" /\ \A c \in Calls : durable.done[c] # 0 => persist.gen.done[c] = durable.done[c]
      BY <3>1 DEF IInv, PersistKeeps, Running
    <3>3. durable = checkpoint.gen
      BY <3>2 DEF IInv, InMemory, Bound
    <3>4. checkpoint'.gen = persist.gen /\ checkpoint' \in CheckpointFile
      <4>1. persist \in Persisted /\ Len(log) \in Nat /\ frontier \in Frontier
        BY <3>1, LenProperties DEF IInv, Shapes, TypeOK
      <4>2. CASE persist.frontier
        BY <3>1, <4>1, <4>2 DEF NextCheckpoint, CheckpointFile, Persisted
      <4>3. CASE ~persist.frontier
        BY <2>1, <3>1, <4>1, <4>3 DEF NextCheckpoint, CheckpointFile, Persisted
      <4>4. QED
        BY <4>2, <4>3
    <3>5. checkpoint' # Absent
      BY <3>4, NotAbsent
    <3>6. QED
      BY <3>2, <3>3, <3>4, <3>5
  <2>4. CASE EndSave
    <3>1. checkpoint' = FinalCheckpoint
      BY <2>4 DEF EndSave
    <3>2. pc # "off"
      BY <2>4 DEF EndSave
    <3>3. durable = checkpoint.gen
      BY <3>2 DEF IInv, InMemory, Bound
    <3>4. checkpoint'.gen = durable /\ checkpoint' \in CheckpointFile
      BY <3>1 DEF FinalCheckpoint, CheckpointFile, IInv, TypeOK
    <3>5. QED
      BY <3>3, <3>4, NotAbsent
  <2>5. QED
    BY <2>2, <2>3, <2>4, SavesCheckpoint
<1>2. QED
  BY <1>1, Invariance, PTL DEF Spec, CompletionsStay

=============================================================================
