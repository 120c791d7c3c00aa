------------------------- MODULE EffectLedger_proofs -------------------------
(***************************************************************************)
(* Proofs about EffectLedger: the inductive invariant IInv, the safety      *)
(* properties that follow from it, and the refinement of EffectLifecycle.   *)
(***************************************************************************)
EXTENDS EffectLedger, TLAPS

\* What a new row does to the rows, the last state and the past of a key.
LEMMA AppendFacts ==
    ASSUME history \in [Keys -> Seq(EffectState)],
           NEW k \in Keys, NEW s \in EffectState, AppendRow(k, s)
    PROVE  /\ history' \in [Keys -> Seq(EffectState)]
           /\ history'[k] = Append(history[k], s)
           /\ history'[k] # <<>>
           /\ State(k)' = s
           /\ Past(k)' = Past(k) \union {s}
           /\ \A j \in Keys \ {k} : /\ history'[j] = history[j]
                                    /\ State(j)' = State(j)
                                    /\ Past(j)' = Past(j)
<1> DEFINE rows == history[k]
<1>1. rows \in Seq(EffectState) /\ Append(rows, s) \in Seq(EffectState)
    OBVIOUS
<1>2. history' = [history EXCEPT ![k] = Append(rows, s)]
    BY DEF AppendRow
<1>3. history' \in [Keys -> Seq(EffectState)] /\ history'[k] = Append(rows, s)
    BY <1>1, <1>2
<1>4. /\ Len(Append(rows, s)) = Len(rows) + 1
      /\ Len(rows) \in Nat
      /\ Append(rows, s)[Len(rows) + 1] = s
      /\ \A i \in 1..Len(rows) : Append(rows, s)[i] = rows[i]
      /\ DOMAIN rows = 1..Len(rows)
      /\ DOMAIN Append(rows, s) = 1..(Len(rows) + 1)
    BY <1>1
<1>5. Append(rows, s) # <<>>
    BY <1>1, <1>4
<1>6. State(k)' = s
    BY <1>3, <1>4, <1>5 DEF State
<1>7. Past(k)' = Past(k) \union {s}
    <2>1. Past(k)' = {Append(rows, s)[i] : i \in 1..(Len(rows) + 1)}
        BY <1>3, <1>4 DEF Past
    <2>2. Past(k) = {rows[i] : i \in 1..Len(rows)}
        BY <1>4 DEF Past
    <2>3. 1..(Len(rows) + 1) = 1..Len(rows) \union {Len(rows) + 1}
        BY <1>4
    <2> HIDE DEF rows
    <2>4. \A x : x \in Past(k)' <=> x \in Past(k) \union {s}
        BY <1>4, <2>1, <2>2, <2>3
    <2> QED
        BY <2>4
<1>8. \A j \in Keys \ {k} : history'[j] = history[j]
    BY <1>2
<1>9. \A j \in Keys \ {k} : State(j)' = State(j) /\ Past(j)' = Past(j)
    BY <1>8 DEF State, Past
<1> QED
    BY <1>3, <1>5, <1>6, <1>7, <1>8, <1>9

\* The last state of a non-empty history is one of its rows.
LEMMA StateInPast ==
    ASSUME NEW k \in Keys, history \in [Keys -> Seq(EffectState)], history[k] # <<>>
    PROVE  State(k) \in Past(k) /\ State(k) \in EffectState
<1>1. /\ history[k] \in Seq(EffectState)
      /\ Len(history[k]) \in 1..Len(history[k])
      /\ DOMAIN history[k] = 1..Len(history[k])
    OBVIOUS
<1> QED
    BY <1>1 DEF State, Past

\* A row that the closed table allows keeps the history readable.
LEMMA ValidAppend ==
    ASSUME NEW rows \in Seq(EffectState), NEW s \in EffectState,
           ValidRows(rows),
           \/ rows = <<>> /\ s = "Proposed"
           \/ rows # <<>> /\ <<rows[Len(rows)], s>> \in Transitions
    PROVE  ValidRows(Append(rows, s))
<1> DEFINE new == Append(rows, s)
<1>1. /\ Len(new) = Len(rows) + 1
      /\ Len(rows) \in Nat
      /\ new[Len(rows) + 1] = s
      /\ \A i \in 1..Len(rows) : new[i] = rows[i]
    OBVIOUS
<1>2. CASE rows = <<>>
    <2>1. Len(rows) = 0 /\ s = "Proposed"
        BY <1>2
    <2> QED
        BY <1>1, <2>1 DEF ValidRows
<1>3. CASE rows # <<>>
    <2>1. Len(rows) > 0
        BY <1>1, <1>3
    <2>2. new[1] = "Proposed"
        BY <1>1, <1>3, <2>1 DEF ValidRows
    <2>3. ASSUME NEW i \in 1..(Len(new) - 1)
          PROVE  <<new[i], new[i + 1]>> \in Transitions
        <3>1. CASE i = Len(rows)
            BY <1>1, <1>3, <2>1, <3>1
        <3>2. CASE i # Len(rows)
            <4>1. i \in 1..(Len(rows) - 1) /\ i \in 1..Len(rows) /\ i + 1 \in 1..Len(rows)
                BY <1>1, <2>3, <3>2
            <4> QED
                BY <1>1, <1>3, <4>1 DEF ValidRows
        <3> QED
            BY <3>1, <3>2
    <2> QED
        BY <2>2, <2>3 DEF ValidRows
<1> QED
    BY <1>2, <1>3

-----------------------------------------------------------------------------
(* One step preserves the invariant.                                        *)

\* A new row about key k keeps KeyInv of every key, provided the closed table
\* allows it, a commit is real, and only an effect that was never requested,
\* or that committed, fails.
LEMMA KeyStep ==
    ASSUME TypeOK, \A k \in Keys : KeyInv(k),
           NEW key \in Keys, NEW s \in EffectState,
           AppendRow(key, s),
           UNCHANGED <<approvals, applied, sent>>,
           \A k \in Keys : k \in older' => k \in sent,
           history[key] # <<>>,
           <<State(key), s>> \in Transitions,
           s \in {"Committed", "Verified"} => key \in applied,
           s = "Failed" => State(key) \in {"Approved", "Committed"},
           granted' = IF s = "Approved" THEN granted \union {approvals[key]} ELSE granted
    PROVE  \A k \in Keys : KeyInv(k)'
<1> SUFFICES ASSUME NEW k \in Keys
             PROVE  KeyInv(k)'
    OBVIOUS
<1> USE DEF TypeOK
<1>1. KeyInv(k) /\ KeyInv(key)
    OBVIOUS
<1>2. /\ history' \in [Keys -> Seq(EffectState)]
      /\ history'[key] = Append(history[key], s)
      /\ history'[key] # <<>>
      /\ State(key)' = s
      /\ Past(key)' = Past(key) \union {s}
      /\ \A j \in Keys \ {key} : /\ history'[j] = history[j]
                                 /\ State(j)' = State(j)
                                 /\ Past(j)' = Past(j)
    BY AppendFacts
<1>3. CASE k # key
    BY <1>1, <1>2, <1>3 DEF KeyInv
<1>4. CASE k = key
    <2>1. State(key) \in Past(key) /\ State(key) \in EffectState
        BY StateInPast
    <2>2. ValidRows(history[key])'
        <3>1. State(key) = history[key][Len(history[key])]
            BY DEF State
        <3>2. ValidRows(Append(history[key], s))
            BY <1>1, <3>1, ValidAppend DEF KeyInv
        <3> QED
            BY <1>2, <3>2 DEF ValidRows
    <2>3. s \notin {"Missing", "Proposed"} /\ State(key) \notin {"Missing", "Failed", "Verified"}
        BY DEF Transitions, EffectState
    <2>4. "Failed" \notin Past(key)
        BY <1>1, <2>3 DEF KeyInv
    <2>5. "Failed" \in Past(key)' => State(key)' = "Failed"
        BY <1>2, <2>4
    <2>6. "Committed" \in Past(key)' \/ "Verified" \in Past(key)' => key \in applied'
        BY <1>1, <1>2 DEF KeyInv
    <2>7. approvals'[key] \in granted'
        <3>1. CASE s = "Approved"
            <4>1. State(key) = "Proposed"
                BY <3>1 DEF Transitions
            <4> QED
                BY <3>1, <1>1, <4>1 DEF KeyInv
        <3>2. CASE s # "Approved"
            <4>1. State(key) # "Proposed"
                BY <3>2 DEF Transitions
            <4> QED
                BY <3>2, <1>1, <4>1, <2>3 DEF KeyInv
        <3> QED
            BY <3>1, <3>2
    <2>8. key \in sent' => s # "Approved"
        BY <1>1 DEF KeyInv, Transitions
    <2>9. s = "Failed" /\ "Committed" \notin Past(key)' => key \notin sent'
        BY <1>1, <1>2, <2>1 DEF KeyInv
    <2>10. key \in older' \/ key \in applied' => key \in sent'
        BY <1>1 DEF KeyInv
    <2>11. approvals'[key] = NoDigest <=> history'[key] = <<>>
        BY <1>1, <1>2 DEF KeyInv
    <2> QED
        BY <1>2, <1>4, <2>2, <2>3, <2>5, <2>6, <2>7, <2>8, <2>9, <2>10, <2>11 DEF KeyInv
<1> QED
    BY <1>3, <1>4

\* Hosts other than the owner are closed and see nothing change.
LEMMA OthersClosed ==
    ASSUME TypeOK, \A h \in Hosts : HostInv(h), NEW h \in Hosts, pc[h] # "closed"
    PROVE  lease = h /\ \A g \in Hosts \ {h} : pc[g] = "closed"
BY DEF HostInv, TypeOK

\* The end of an advance: Record(h, s) preserves the invariant whenever the
\* row is one the closed table allows and a commit or success is real.
LEMMA RecordStep ==
    ASSUME IInv, NEW h \in Hosts, NEW s \in EffectState,
           NEW key \in Keys, key = call[h].req.key,
           pc[h] \notin Idle, pc[h] # "closed", Record(h, s),
           Bound(call[h].req),
           s = State(key) \/ <<State(key), s>> \in Transitions,
           s # "Approved",
           s \in {"Committed", "Verified"} => key \in applied,
           s = "Failed" => State(key) \in {"Approved", "Committed", "Failed"},
           UNCHANGED <<applied, sent, granted, now>>,
           older' \in SUBSET Keys,
           \A k \in Keys : k \in older' => k \in sent
    PROVE  IInv'
<1>1. /\ call[h] \in Call /\ call[h].req \in Requests
      /\ call[h].fuel \in 1..HandlerFuel
      /\ lease = h /\ \A g \in Hosts \ {h} : pc[g] = "closed"
      /\ history[key] # <<>>
    <2>1. call[h] \in Call /\ call[h].fuel > 0
        BY DEF IInv, TypeOK, HostInv
    <2>2. call[h].req \in Requests /\ call[h].fuel \in 1..HandlerFuel
        BY <2>1, RequestAssumption, BoundAssumption DEF Call, Request
    <2>3. approvals[key] # NoDigest
        BY <2>2, RequestAssumption, NullAssumption DEF Bound, Request
    <2> QED
        BY <2>1, <2>2, <2>3, OthersClosed DEF IInv, KeyInv
<1> DEFINE c == [call[h] EXCEPT !.fuel = @ - 1, !.wire = "none"]
           more == c.fuel > 0 /\ s \notin Terminal
           p == IF more THEN "advance" ELSE "idle"
<1>2. /\ call' = [call EXCEPT ![h] = c]
      /\ pc' = [pc EXCEPT ![h] = p]
      /\ \/ result' = result
         \/ result' = [result EXCEPT ![h] = Outcome(s)]
      /\ UNCHANGED <<lease, approvals, registry>>
    <2>1. result' = [result EXCEPT ![h] = IF more THEN @ ELSE Outcome(s)]
        BY DEF Record, Advanced
    <2>2. result' = result \/ result' = [result EXCEPT ![h] = Outcome(s)]
        BY <2>1 DEF IInv, TypeOK
    <2> QED
        BY <2>2 DEF Record, Advanced
<1>3. /\ call' \in [Hosts -> Call]
      /\ call'[h].req = call[h].req /\ call'[h].fuel = call[h].fuel - 1
      /\ call'[h].wall = call[h].wall /\ call'[h].entered = call[h].entered
      /\ \A g \in Hosts \ {h} : call'[g] = call[g]
    <2>1. /\ c \in Call /\ c.req = call[h].req /\ c.fuel = call[h].fuel - 1
          /\ c.wall = call[h].wall /\ c.entered = call[h].entered
        <3>1. call[h] \in [req : Requests, fuel : 0..HandlerFuel, wall : 0..MaxTime,
                            entered : 0..MaxTime, wire : {"none", "sent", "applied"}]
            BY <1>1 DEF Call
        <3>2. call[h].fuel - 1 \in 0..HandlerFuel
            BY <1>1, BoundAssumption
        <3> QED
            BY <3>1, <3>2 DEF Call
    <2> HIDE DEF c
    <2> QED
        BY <1>2, <2>1 DEF IInv, TypeOK
<1>31. /\ pc'[h] = p /\ \A g \in Hosts \ {h} : pc'[g] = pc[g]
       /\ p \in {"advance", "idle"}
       /\ p = "advance" => call'[h].fuel > 0
    BY <1>2, <1>3 DEF IInv, TypeOK
<1> HIDE DEF c, more, p
<1>4. \/ s = State(key) /\ UNCHANGED history
      \/ <<State(key), s>> \in Transitions /\ AppendRow(key, s)
    BY DEF Record
<1>5. /\ \A k \in Keys : KeyInv(k)'
      /\ history' \in [Keys -> Seq(EffectState)]
      /\ State(key)' = s
      /\ \A k \in Keys \ {key} : State(k)' = State(k)
      /\ State(key) = "Verified" => s = "Verified"
    <2>1. CASE s = State(key) /\ UNCHANGED history
        <3>1. \A k \in Keys : State(k)' = State(k) /\ Past(k)' = Past(k)
            BY <2>1 DEF State, Past
        <3> QED
            BY <1>1, <1>2, <2>1, <3>1 DEF IInv, TypeOK, KeyInv, ValidRows
    <2>2. CASE <<State(key), s>> \in Transitions /\ AppendRow(key, s)
        <3>1. State(key) \notin {"Verified", "Failed"}
            BY <2>2 DEF Transitions
        <3>2. s = "Failed" => State(key) \in {"Approved", "Committed"}
            BY <3>1
        <3>3. TypeOK /\ \A k \in Keys : KeyInv(k)
            BY DEF IInv
        <3>4. \A k \in Keys : KeyInv(k)'
            BY <1>1, <1>2, <2>2, <3>2, <3>3, KeyStep
        <3> QED
            <4>1. history \in [Keys -> Seq(EffectState)]
                BY <3>3 DEF TypeOK
            <4>2. /\ history' \in [Keys -> Seq(EffectState)]
                  /\ State(key)' = s
                  /\ \A j \in Keys \ {key} : State(j)' = State(j)
                BY <1>1, <2>2, <4>1, AppendFacts
            <4> QED
                BY <3>1, <3>4, <4>2
    <2> QED
        BY <1>4, <2>1, <2>2
<1>6. TypeOK'
    <2>1. pc' \in [Hosts -> PC]
        BY <1>2, <1>31 DEF IInv, TypeOK, PC, Idle
    <2>2. result' \in [Hosts -> Result]
        BY <1>2 DEF IInv, TypeOK, Result, Outcome
    <2> QED
        BY <1>2, <1>3, <1>5, <2>1, <2>2 DEF IInv, TypeOK
<1>7. ASSUME NEW g \in Hosts
      PROVE  HostInv(g)'
    <2>0. HostInv(g) /\ TypeOK
        BY DEF IInv
    <2>1. CASE g = h
        <3>1. result'[h] = "success" => s = "Verified"
            <4>1. CASE result' = result
                BY <4>1, <1>5, <2>0, <2>1 DEF HostInv
            <4>2. CASE result' = [result EXCEPT ![h] = Outcome(s)]
                BY <4>2, <2>0 DEF TypeOK, Outcome
            <4> QED
                BY <1>2, <4>1, <4>2
        <3> QED
            BY <1>1, <1>2, <1>3, <1>31, <1>5, <2>0, <2>1, <3>1 DEF HostInv, Idle
    <2>2. CASE g # h
        <3>1. pc'[g] = "closed" /\ call'[g] = call[g] /\ result'[g] = result[g]
            BY <1>1, <1>2, <1>3, <1>31, <2>0, <2>2 DEF TypeOK
        <3>2. call[g].req.key \in Keys
            BY <2>0, RequestAssumption DEF TypeOK, Call, Request
        <3> QED
            BY <1>2, <1>5, <2>0, <3>1, <3>2 DEF HostInv, Idle
    <2> QED
        BY <2>1, <2>2
<1> QED
    BY <1>5, <1>6, <1>7 DEF IInv

\* A step that writes no row keeps KeyInv if what it sends has been recorded
\* and what the service applies has been sent.
LEMMA QuietKeys ==
    ASSUME \A k \in Keys : KeyInv(k),
           UNCHANGED <<approvals, history, granted>>,
           sent \subseteq sent', applied \subseteq applied',
           \A k \in Keys : /\ k \in older' \/ k \in applied' => k \in sent'
                           /\ k \in sent' /\ k \notin sent =>
                                  State(k) \in {"Started", "Indeterminate"}
    PROVE  \A k \in Keys : KeyInv(k)'
<1> SUFFICES ASSUME NEW k \in Keys
             PROVE  KeyInv(k)'
    OBVIOUS
<1>1. State(k)' = State(k) /\ Past(k)' = Past(k)
    BY DEF State, Past
<1>3. ValidRows(history[k])'
    BY DEF KeyInv, ValidRows
<1>4. "Committed" \in Past(k) \/ "Verified" \in Past(k) => k \in applied'
    BY DEF KeyInv
<1>2. /\ k \in sent' => State(k) \notin {"Missing", "Proposed", "Approved"}
      /\ State(k) = "Failed" /\ "Committed" \notin Past(k) => k \notin sent'
    BY DEF KeyInv
<1> QED
    <2>1. approvals'[k] = NoDigest <=> history'[k] = <<>>
        BY DEF KeyInv
    <2>2. "Failed" \in Past(k)' => State(k)' = "Failed"
        BY <1>1 DEF KeyInv
    <2>3. State(k)' \notin {"Missing", "Proposed"} => approvals'[k] \in granted'
        BY <1>1 DEF KeyInv
    <2> QED
        BY <1>1, <1>2, <1>3, <1>4, <2>1, <2>2, <2>3 DEF KeyInv

\* A host that takes no part in a step that writes no row keeps HostInv.
LEMMA QuietHost ==
    ASSUME NEW g \in Hosts, HostInv(g), TypeOK, TypeOK',
           pc'[g] = pc[g], call'[g] = call[g], result'[g] = result[g],
           lease' = lease \/ pc[g] = "closed",
           UNCHANGED <<approvals, history>>,
           sent \subseteq sent', now <= now'
    PROVE  HostInv(g)'
<1>1. \A k \in Keys : State(k)' = State(k)
    BY DEF State
<1>2. call[g] \in Call /\ call[g].req.key \in Keys
    BY RequestAssumption DEF TypeOK, Call, Request
<1>3. now \in Int /\ now' \in Int /\ call[g].entered \in Int
    BY <1>2 DEF TypeOK, Call
<1> QED
    BY <1>1, <1>2, <1>3 DEF HostInv, Bound

\* The invariant holds before any host has opened the ledger.
LEMMA InitIInv == Init => IInv
<1> SUFFICES ASSUME Init
             PROVE  IInv
    OBVIOUS
<1> USE DEF Init
<1>1. TypeOK
    <2>1. call \in [Hosts -> Call]
        BY RequestAssumption, BoundAssumption DEF Call
    <2>2. history \in [Keys -> Seq(EffectState)]
        OBVIOUS
    <2> QED
        BY <2>1, <2>2, BoundAssumption DEF TypeOK, PC, Idle, Result, EmptyRegistry
<1>2. ASSUME NEW k \in Keys
      PROVE  KeyInv(k)
    BY DEF KeyInv, State, Past, ValidRows
<1>3. ASSUME NEW h \in Hosts
      PROVE  HostInv(h)
    BY DEF HostInv, Idle
<1> QED
    BY <1>1, <1>2, <1>3 DEF IInv

\* Open, Drop and Crash move the lease; no two hosts ever hold it.
LEMMA OwnershipStep ==
    ASSUME IInv, NEW h \in Hosts, Open(h) \/ Drop(h) \/ Crash(h)
    PROVE  IInv'
<1> USE DEF IInv
<1>1. /\ UNCHANGED <<approvals, history, call, applied, sent, granted, now>>
      /\ lease' \in {h, NoHost}
      /\ pc' = [pc EXCEPT ![h] = IF lease' = h THEN "idle" ELSE "closed"]
      /\ registry' = registry \/ registry' = [registry EXCEPT ![h] = EmptyRegistry]
      /\ result' = result \/ result' = [result EXCEPT ![h] = "none"]
      /\ \A g \in Hosts \ {h} : pc[g] = "closed"
    <2>1. CASE Open(h)
        BY <2>1, NullAssumption DEF Open, durable, remote, TypeOK, HostInv
    <2>2. CASE Drop(h)
        BY <2>2, OthersClosed, NullAssumption DEF Drop, Release, durable, remote
    <2>3. CASE Crash(h)
        BY <2>3, OthersClosed, NullAssumption DEF Crash, Release, durable, remote
    <2> QED
        BY <2>1, <2>2, <2>3
<1>2. older' = older \/ (pc[h] = "await" /\ older' = older \union {call[h].req.key})
    BY DEF Open, Drop, Crash, Linger, remote
<1>3. TypeOK'
    <2>1. older' \in SUBSET Keys
        BY <1>2, RequestAssumption DEF TypeOK, Call, Request
    <2>2. pc' \in [Hosts -> PC]
        BY <1>1 DEF TypeOK, PC, Idle
    <2>3. registry' \in [Hosts -> [Slots -> Rules \union {NoRule}]]
        BY <1>1 DEF TypeOK, EmptyRegistry
    <2>4. result' \in [Hosts -> Result]
        BY <1>1 DEF TypeOK, Result
    <2> QED
        BY <1>1, <2>1, <2>2, <2>3, <2>4 DEF TypeOK
<1>4. \A k \in Keys : KeyInv(k)'
    <2>1. \A k \in Keys : k \in older' \/ k \in applied' => k \in sent'
        BY <1>1, <1>2 DEF KeyInv, HostInv
    <2> QED
        BY <1>1, <2>1, QuietKeys
<1>5. ASSUME NEW g \in Hosts
      PROVE  HostInv(g)'
    <2>1. CASE g # h
        <3>1. pc'[g] = pc[g] /\ pc[g] = "closed" /\ result'[g] = result[g]
            BY <1>1, <2>1 DEF TypeOK
        <3>2. now <= now' /\ call'[g] = call[g] /\ sent \subseteq sent'
            BY <1>1 DEF TypeOK
        <3> QED
            BY <1>1, <1>3, <3>1, <3>2, QuietHost
    <2>2. CASE g = h
        <3>1. /\ pc'[h] = IF lease' = h THEN "idle" ELSE "closed"
              /\ result'[h] = "none" \/ result'[h] = result[h]
            BY <1>1 DEF TypeOK
        <3>2. \A k \in Keys : State(k)' = State(k)
            BY <1>1 DEF State
        <3>3. call[h].req.key \in Keys
            BY RequestAssumption DEF TypeOK, Call, Request
        <3> QED
            BY <1>1, <2>2, <3>1, <3>2, <3>3 DEF HostInv, Idle
    <2> QED
        BY <2>1, <2>2
<1> QED
    BY <1>3, <1>4, <1>5

\* The steps that leave the tables alone: registration, the entry and the
\* remote half of a call, failures, the service and the clock.
LEMMA QuietStep ==
    ASSUME IInv, NEW h \in Hosts,
           UNCHANGED <<approvals, history, lease, granted>>,
           TypeOK',
           \A g \in Hosts \ {h} : pc'[g] = pc[g] /\ call'[g] = call[g] /\ result'[g] = result[g],
           sent \subseteq sent', applied \subseteq applied', now <= now',
           \A k \in Keys : k \in older' \/ k \in applied' => k \in sent',
           \A k \in Keys : k \in sent' /\ k \notin sent =>
                              State(k) \in {"Started", "Indeterminate"},
           HostInv(h)'
    PROVE  IInv'
<1>1. \A k \in Keys : KeyInv(k)'
    BY QuietKeys DEF IInv
<1>2. ASSUME NEW g \in Hosts
      PROVE  HostInv(g)'
    BY QuietHost DEF IInv
<1> QED
    BY <1>1, <1>2 DEF IInv

\* Registering an executor and calling the ledger.
LEMMA EntryStep ==
    ASSUME IInv, NEW h \in Hosts,
           \/ \E s \in Slots, rule \in Rules : Register(h, s, rule)
           \/ \E r \in Requests, fuel \in {1, HandlerFuel} : Invoke(h, r, fuel)
    PROVE  IInv'
<1> USE DEF IInv
<1>0. \A k \in Keys : State(k)' = State(k) /\ (k \in older \/ k \in applied => k \in sent)
    BY DEF KeyInv, State, Register, Invoke, durable
<1>1. CASE \E s \in Slots, rule \in Rules : Register(h, s, rule)
    <2>1. TypeOK'
        BY <1>1 DEF Register, TypeOK, durable, remote
    <2>2. UNCHANGED <<lease, approvals, history, pc, call, result, applied, older, sent, granted, now>>
        BY <1>1 DEF Register, durable, remote
    <2>3. now <= now' /\ sent \subseteq sent' /\ applied \subseteq applied'
        BY <2>2 DEF TypeOK
    <2>4. \A g \in Hosts : pc'[g] = pc[g] /\ call'[g] = call[g] /\ result'[g] = result[g]
        BY <2>2
    <2>5. HostInv(h)'
        BY <2>1, <2>2, <2>3, <2>4, QuietHost
    <2> QED
        BY <1>0, <2>1, <2>2, <2>3, <2>4, <2>5, QuietStep
<1>2. CASE \E r \in Requests, fuel \in {1, HandlerFuel} : Invoke(h, r, fuel)
    <2>1. PICK r \in Requests, fuel \in {1, HandlerFuel} : Invoke(h, r, fuel)
        BY <1>2
    <2> DEFINE c == [req |-> r, fuel |-> fuel, wall |-> now, entered |-> now, wire |-> "none"]
    <2>2. c \in Call /\ c.req = r /\ c.fuel = fuel /\ c.wall = now /\ c.entered = now
        BY BoundAssumption DEF Call, TypeOK
    <2>3. /\ call' = [call EXCEPT ![h] = c]
          /\ pc' = [pc EXCEPT ![h] = "advance"]
          /\ result' = [result EXCEPT ![h] = "none"]
          /\ pc[h] = "idle"
          /\ UNCHANGED <<lease, approvals, history, registry, applied, older, sent, granted, now>>
        BY <2>1 DEF Invoke, durable, remote
    <2> HIDE DEF c
    <2>4. TypeOK'
        BY <2>2, <2>3 DEF TypeOK, PC, Idle, Result
    <2>5. call'[h] = c /\ pc'[h] = "advance" /\ result'[h] = "none"
        BY <2>3 DEF TypeOK
    <2>6. HostInv(h)'
        BY <2>2, <2>3, <2>5, BoundAssumption DEF HostInv, Idle, TypeOK
    <2>7. \A g \in Hosts \ {h} : pc'[g] = pc[g] /\ call'[g] = call[g] /\ result'[g] = result[g]
        BY <2>3 DEF TypeOK
    <2>8. now <= now' /\ sent \subseteq sent' /\ applied \subseteq applied'
        BY <2>3 DEF TypeOK
    <2> QED
        BY <1>0, <2>3, <2>4, <2>6, <2>7, <2>8, QuietStep
<1> QED
    BY <1>1, <1>2

\* Binding and approving.
LEMMA ApprovalStep ==
    ASSUME IInv, NEW h \in Hosts, NEW r \in Requests,
           \/ Propose(h, r)
           \/ \E d \in Digests, a \in Approvers : Approve(h, r, d, a)
    PROVE  IInv'
<1> USE DEF IInv
<1>1. PICK key \in Keys : key = r.key
    BY RequestAssumption DEF Request
<1>2. r.digest \in Digests /\ r.digest # NoDigest
    BY RequestAssumption, NullAssumption DEF Request
<1>3. /\ pc[h] = "idle"
      /\ lease = h /\ \A g \in Hosts \ {h} : pc[g] = "closed"
    BY OthersClosed DEF Propose, Approve
<1>4. UNCHANGED <<lease, registry, pc, call, result, applied, older, sent, now>>
    BY DEF Propose, Approve, remote
<1>5. /\ \A k \in Keys : KeyInv(k)'
      /\ State(key) # "Verified"
      /\ \A k \in Keys \ {key} : State(k)' = State(k)
      /\ TypeOK'
    <2>1. CASE Propose(h, r)
        <3>1. /\ approvals[key] = NoDigest /\ AppendRow(key, "Proposed")
              /\ approvals' = [approvals EXCEPT ![key] = r.digest]
              /\ UNCHANGED granted
            BY <1>1, <2>1 DEF Propose, remote
        <3>2. /\ history' \in [Keys -> Seq(EffectState)]
              /\ history'[key] = Append(history[key], "Proposed")
              /\ history'[key] # <<>>
              /\ State(key)' = "Proposed"
              /\ Past(key)' = Past(key) \union {"Proposed"}
              /\ \A j \in Keys \ {key} : /\ history'[j] = history[j]
                                         /\ State(j)' = State(j)
                                         /\ Past(j)' = Past(j)
            BY <3>1, AppendFacts DEF TypeOK, EffectState
        <3>3. history[key] = <<>> /\ KeyInv(key)
            BY <3>1 DEF KeyInv
        <3>4. Past(key) = {} /\ State(key) = "Missing"
            BY <3>3 DEF Past, State
        <3>5. ASSUME NEW k \in Keys
              PROVE  KeyInv(k)'
            <4>1. CASE k = key
                <5>1. ValidRows(history[key])'
                    BY <3>2, <3>3, ValidAppend DEF TypeOK, ValidRows, EffectState
                <5>2. approvals'[key] = r.digest
                    BY <3>1 DEF TypeOK
                <5> QED
                    BY <4>1, <1>2, <1>4, <3>2, <3>3, <3>4, <5>1, <5>2 DEF KeyInv
            <4>2. CASE k # key
                BY <4>2, <1>4, <3>1, <3>2 DEF KeyInv, TypeOK
            <4> QED
                BY <4>1, <4>2
        <3>6. TypeOK'
            BY <1>2, <1>4, <3>1, <3>2 DEF TypeOK
        <3> QED
            BY <3>2, <3>4, <3>5, <3>6
    <2>2. CASE \E d \in Digests, a \in Approvers : Approve(h, r, d, a)
        <3>1. /\ AppendRow(key, "Approved") /\ State(key) = "Proposed"
              /\ Bound(r) /\ granted' = granted \union {r.digest}
              /\ UNCHANGED approvals
            BY <1>1, <2>2 DEF Approve
        <3>2. history[key] # <<>> /\ <<State(key), "Approved">> \in Transitions
            BY <3>1 DEF State, Transitions
        <3>3. approvals[key] = r.digest
            BY <1>1, <3>1 DEF Bound
        <3>4. \A k \in Keys : k \in older' => k \in sent
            BY <1>4 DEF KeyInv
        <3>5. \A k \in Keys : KeyInv(k)'
            BY <1>4, <3>1, <3>2, <3>3, <3>4, KeyStep DEF EffectState
        <3>6. /\ history' \in [Keys -> Seq(EffectState)]
              /\ \A j \in Keys \ {key} : State(j)' = State(j)
            BY <3>1, AppendFacts DEF TypeOK, EffectState
        <3>7. TypeOK'
            BY <1>2, <1>4, <3>1, <3>6 DEF TypeOK
        <3> QED
            BY <3>1, <3>5, <3>6, <3>7
    <2> QED
        BY <2>1, <2>2
<1>6. ASSUME NEW g \in Hosts
      PROVE  HostInv(g)'
    <2>1. call[g].req.key \in Keys /\ HostInv(g)
        BY RequestAssumption DEF TypeOK, Call, Request
    <2>2. State(call[g].req.key) = "Verified" => State(call[g].req.key)' = "Verified"
        BY <1>4, <1>5, <2>1
    <2> QED
        BY <1>3, <1>4, <2>1, <2>2 DEF HostInv, Idle
<1> QED
    BY <1>5, <1>6

\* What an advance that was not refused knows about its effect.
LEMMA NotRefused ==
    ASSUME TypeOK, NEW h \in Hosts, ~ Refused(h)
    PROVE  /\ Bound(call[h].req)
           /\ State(call[h].req.key) \in EffectState \ {"Proposed"}
<1>1. call[h].req.key \in Keys
    BY RequestAssumption DEF TypeOK, Call, Request
<1>2. Bound(call[h].req) /\ history[call[h].req.key] # <<>> /\ State(call[h].req.key) # "Proposed"
    BY DEF Refused, Corrupt
<1> QED
    BY <1>1, <1>2, StateInPast DEF TypeOK

\* The actions that end an advance by recording its outcome.
LEMMA OutcomeStep ==
    ASSUME IInv, NEW h \in Hosts,
           \/ AdvanceTerminal(h) \/ AdvanceApproved(h) \/ ReconcileSettled(h)
           \/ Withhold(h) \/ ExecuteCommitted(h) \/ ExecuteRejected(h)
           \/ ExecuteUnknown(h) \/ Verify(h)
    PROVE  IInv'
<1> USE DEF IInv
<1>1. PICK key \in Keys : key = call[h].req.key
    BY RequestAssumption DEF TypeOK, Call, Request
<1>2. /\ UNCHANGED <<applied, sent, granted, now>>
      /\ pc[h] \notin Idle /\ pc[h] # "closed"
    BY DEF AdvanceTerminal, AdvanceApproved, ReconcileSettled, Withhold, ExecuteCommitted,
           ExecuteRejected, ExecuteUnknown, Verify, remote, Idle
<1>3. older' \in SUBSET Keys /\ \A k \in Keys : k \in older' => k \in sent
    <2>1. older' = older \/ (pc[h] = "await" /\ older' = older \union {key})
        BY <1>1 DEF AdvanceTerminal, AdvanceApproved, ReconcileSettled, Withhold,
                    ExecuteCommitted, ExecuteRejected, ExecuteUnknown, Verify, remote, Linger
    <2>2. pc[h] = "await" => key \in sent
        BY <1>1 DEF HostInv
    <2>3. \A k \in Keys : k \in older => k \in sent
        BY DEF KeyInv
    <2> QED
        BY <2>1, <2>2, <2>3 DEF TypeOK
<1>4. \E s \in EffectState :
         /\ Record(h, s)
         /\ Bound(call[h].req)
         /\ s = State(key) \/ <<State(key), s>> \in Transitions
         /\ s # "Approved"
         /\ s \in {"Committed", "Verified"} => key \in applied
         /\ s = "Failed" => State(key) \in {"Approved", "Committed", "Failed"}
    <2>0. HostInv(h) /\ KeyInv(key)
        OBVIOUS
    <2>1. CASE AdvanceTerminal(h)
        <3>1. /\ Record(h, State(key)) /\ State(key) \in Terminal /\ Bound(call[h].req)
            BY <1>1, <2>1, NotRefused DEF AdvanceTerminal
        <3>2. history[key] # <<>>
            BY <3>1 DEF State, Terminal
        <3>3. State(key) \in Past(key) /\ State(key) \in EffectState
            BY <3>2, StateInPast DEF TypeOK
        <3> QED
            BY <2>0, <3>1, <3>3 DEF Terminal, KeyInv
    <2>2. CASE AdvanceApproved(h)
        <3>1. /\ Record(h, "Failed") \/ Record(h, "Started")
              /\ State(key) = "Approved" /\ Bound(call[h].req)
            BY <1>1, <2>2, NotRefused DEF AdvanceApproved
        <3> QED
            BY <3>1 DEF EffectState, Transitions
    <2>3. CASE \/ ReconcileSettled(h) \/ Withhold(h) \/ ExecuteCommitted(h)
               \/ ExecuteRejected(h) \/ ExecuteUnknown(h)
        <3>1. \/ key \in applied /\ Record(h, "Committed")
              \/ Record(h, "Indeterminate")
            BY <1>1, <2>3 DEF ReconcileSettled, Withhold, ExecuteCommitted, ExecuteRejected,
                              ExecuteUnknown
        <3>2. State(key) \in {"Started", "Indeterminate"} /\ Bound(call[h].req)
            BY <1>1, <2>0, <2>3 DEF HostInv, ReconcileSettled, Withhold, ExecuteCommitted,
                                    ExecuteRejected, ExecuteUnknown
        <3> QED
            BY <3>1, <3>2 DEF EffectState, Transitions
    <2>4. CASE Verify(h)
        <3>1. \/ key \in applied /\ Record(h, "Verified")
              \/ Record(h, "Failed")
              \/ Record(h, "Committed")
            BY <1>1, <2>4 DEF Verify
        <3>2. State(key) = "Committed" /\ Bound(call[h].req)
            BY <1>1, <2>0, <2>4 DEF HostInv, Verify
        <3>3. history[key] # <<>>
            BY <3>2 DEF State
        <3>4. State(key) \in Past(key)
            BY <3>3, StateInPast DEF TypeOK
        <3>5. key \in applied
            BY <2>0, <3>2, <3>4 DEF KeyInv
        <3> QED
            BY <3>1, <3>2, <3>5 DEF EffectState, Transitions
    <2> QED
        BY <2>1, <2>2, <2>3, <2>4
<1> QED
    BY <1>1, <1>2, <1>3, <1>4, RecordStep

\* The actions in the middle of an advance, and its failures.
LEMMA MiddleStep ==
    ASSUME IInv, NEW h \in Hosts,
           \/ AdvanceRefused(h) \/ StorageFailure(h) \/ AdvanceRemote(h)
           \/ ReconcileAbsent(h) \/ Dispatch(h) \/ RemoteApplyCurrent(h)
    PROVE  IInv'
<1> USE DEF IInv
<1>1. PICK key \in Keys : key = call[h].req.key
    BY RequestAssumption DEF TypeOK, Call, Request
<1>2. HostInv(h) /\ call[h] \in Call /\ \A k \in Keys : k \in older \/ k \in applied => k \in sent
    BY DEF TypeOK, KeyInv
<1>3. UNCHANGED <<approvals, history, lease, granted, now, registry>>
    BY DEF AdvanceRefused, StorageFailure, Fail, AdvanceRemote, ReconcileAbsent, Dispatch,
           RemoteApplyCurrent, durable, remote
<1>4. \A k \in Keys : State(k)' = State(k)
    BY <1>3 DEF State
<1>5. ASSUME NEW p \in PC, NEW c \in Call, NEW res \in Result,
             pc' = [pc EXCEPT ![h] = p], call' = [call EXCEPT ![h] = c],
             result' = [result EXCEPT ![h] = res],
             c.req = call[h].req, c.wall = c.entered, c.entered <= now,
             c.fuel = call[h].fuel, pc[h] \notin Idle,
             p # "closed", res # "success" \/ res = result[h],
             p \in {"reconcile", "decide", "await"} =>
                 Bound(call[h].req) /\ State(key) \in {"Started", "Indeterminate"},
             p = "verify" => Bound(call[h].req) /\ State(key) = "Committed",
             p = "await" => key \in sent',
             older' \in SUBSET Keys, sent' \in SUBSET Keys, applied' \in SUBSET Keys,
             sent \subseteq sent', applied \subseteq applied',
             \A k \in Keys : k \in older' \/ k \in applied' => k \in sent',
             \A k \in Keys : k \in sent' /\ k \notin sent =>
                                State(k) \in {"Started", "Indeterminate"}
      PROVE  IInv'
    <2>1. TypeOK'
        BY <1>3, <1>5 DEF TypeOK
    <2>2. /\ pc'[h] = p /\ call'[h] = c /\ result'[h] = res
          /\ \A g \in Hosts \ {h} : pc'[g] = pc[g] /\ call'[g] = call[g] /\ result'[g] = result[g]
          /\ now <= now'
        BY <1>3, <1>5 DEF TypeOK
    <2>3. HostInv(h)'
        <3>1. lease' = h /\ c.fuel > 0
            BY <1>2, <1>3, <1>5 DEF HostInv, Idle
        <3>2. c.req.key = key /\ (Bound(c.req)' <=> Bound(call[h].req))
            BY <1>1, <1>3, <1>5 DEF Bound
        <3>3. res = "success" => State(key) = "Verified"
            BY <1>1, <1>2, <1>5 DEF HostInv
        <3>4. c.wall = c.entered /\ c.entered <= now'
            BY <1>3, <1>5
        <3> QED
            BY <1>4, <1>5, <2>2, <3>1, <3>2, <3>3, <3>4 DEF HostInv, Bound
    <2> QED
        BY <1>3, <1>5, <2>1, <2>2, <2>3, QuietStep
<1>6. CASE AdvanceRefused(h) \/ StorageFailure(h)
    <2>1. /\ pc' = [pc EXCEPT ![h] = "idle"] /\ call' = [call EXCEPT ![h] = call[h]]
          /\ result' = [result EXCEPT ![h] = "error"]
          /\ UNCHANGED <<applied, sent>> /\ pc[h] \notin Idle
          /\ older' = older \/ (pc[h] = "await" /\ older' = older \union {key})
        BY <1>1, <1>6 DEF AdvanceRefused, StorageFailure, Fail, Linger, remote, Idle, TypeOK
    <2>2. older' \in SUBSET Keys /\ \A k \in Keys : k \in older' \/ k \in applied' => k \in sent'
        BY <1>1, <1>2, <2>1 DEF TypeOK, HostInv
    <2>3. call[h].wall = call[h].entered /\ call[h].entered <= now
        BY <1>2 DEF HostInv
    <2>4. "idle" \in PC /\ "error" \in Result
        BY DEF PC, Idle, Result
    <2> QED
        BY <1>2, <1>5, <2>1, <2>2, <2>3, <2>4 DEF TypeOK
<1>7. CASE AdvanceRemote(h)
    <2> DEFINE c == [call[h] EXCEPT !.wall = now, !.entered = now]
               p == IF State(key) = "Committed" THEN "verify" ELSE "reconcile"
    <2>1. /\ c \in Call /\ c.req = call[h].req /\ c.fuel = call[h].fuel
          /\ c.wall = now /\ c.entered = now
        <3>1. call[h] \in [req : Requests, fuel : 0..HandlerFuel, wall : 0..MaxTime,
                            entered : 0..MaxTime, wire : {"none", "sent", "applied"}]
            BY <1>2 DEF Call
        <3>2. now \in 0..MaxTime
            BY DEF TypeOK
        <3> QED
            BY <3>1, <3>2 DEF Call
    <2>2. /\ pc' = [pc EXCEPT ![h] = p] /\ call' = [call EXCEPT ![h] = c]
          /\ result' = [result EXCEPT ![h] = result[h]]
          /\ UNCHANGED <<applied, older, sent>> /\ pc[h] \notin Idle
          /\ State(key) \in {"Started", "Indeterminate", "Committed"}
        BY <1>1, <1>7 DEF AdvanceRemote, remote, Idle, TypeOK
    <2>3. Bound(call[h].req)
        BY <1>7, NotRefused DEF AdvanceRemote
    <2>4. /\ p \in PC /\ result[h] \in Result /\ p \notin {"closed", "decide", "await"}
          /\ p = "verify" => State(key) = "Committed"
          /\ p = "reconcile" => State(key) \in {"Started", "Indeterminate"}
        BY <2>2 DEF PC, Idle, TypeOK
    <2>5. c.wall = c.entered /\ c.entered <= now
        BY <2>1 DEF TypeOK
    <2> HIDE DEF c, p
    <2> QED
        BY <1>2, <1>5, <2>1, <2>2, <2>3, <2>4, <2>5 DEF TypeOK
<1>8. CASE ReconcileAbsent(h)
    <2>1. /\ pc' = [pc EXCEPT ![h] = "decide"] /\ call' = [call EXCEPT ![h] = call[h]]
          /\ result' = [result EXCEPT ![h] = result[h]]
          /\ UNCHANGED <<applied, older, sent>> /\ pc[h] = "reconcile" /\ pc[h] \notin Idle
        BY <1>8 DEF ReconcileAbsent, remote, Idle, TypeOK
    <2>2. /\ Bound(call[h].req) /\ State(key) \in {"Started", "Indeterminate"}
          /\ call[h].wall = call[h].entered /\ call[h].entered <= now
        BY <1>1, <1>2, <2>1 DEF HostInv
    <2>3. "decide" \in PC /\ result[h] \in Result
        BY DEF PC, TypeOK
    <2> QED
        BY <1>2, <1>5, <2>1, <2>2, <2>3 DEF TypeOK
<1>9. CASE Dispatch(h) \/ RemoteApplyCurrent(h)
    <2> DEFINE c == [call[h] EXCEPT !.wire = IF Dispatch(h) THEN "sent" ELSE "applied"]
    <2>1. /\ c \in Call /\ c.req = call[h].req /\ c.fuel = call[h].fuel
          /\ c.wall = call[h].wall /\ c.entered = call[h].entered
        <3>1. call[h] \in [req : Requests, fuel : 0..HandlerFuel, wall : 0..MaxTime,
                            entered : 0..MaxTime, wire : {"none", "sent", "applied"}]
            BY <1>2 DEF Call
        <3> QED
            BY <3>1 DEF Call
    <2>2. /\ pc' = [pc EXCEPT ![h] = "await"] /\ call' = [call EXCEPT ![h] = c]
          /\ result' = [result EXCEPT ![h] = result[h]]
          /\ pc[h] \in {"decide", "await"} /\ pc[h] \notin Idle
          /\ UNCHANGED older
        BY <1>9 DEF Dispatch, RemoteApplyCurrent, Idle, TypeOK
    <2>3. /\ Bound(call[h].req) /\ State(key) \in {"Started", "Indeterminate"}
          /\ call[h].wall = call[h].entered /\ call[h].entered <= now
          /\ pc[h] = "await" => key \in sent
        BY <1>1, <1>2, <2>2 DEF HostInv
    <2>4. /\ sent' = sent \union {key} \/ (sent' = sent /\ pc[h] = "await")
          /\ applied' = applied \/ (applied' = applied \union {key})
        BY <1>1, <1>9 DEF Dispatch, RemoteApplyCurrent
    <2>5. /\ key \in sent' /\ sent' \in SUBSET Keys /\ applied' \in SUBSET Keys
          /\ sent \subseteq sent' /\ applied \subseteq applied'
          /\ \A k \in Keys : k \in older' \/ k \in applied' => k \in sent'
          /\ \A k \in Keys : k \in sent' /\ k \notin sent => k = key
        BY <1>2, <2>2, <2>3, <2>4 DEF TypeOK
    <2>6. "await" \in PC /\ result[h] \in Result
        BY DEF PC, TypeOK
    <2> HIDE DEF c
    <2> QED
        BY <1>2, <1>5, <2>1, <2>2, <2>3, <2>5, <2>6 DEF TypeOK
<1> QED
    BY <1>6, <1>7, <1>8, <1>9

\* Late and lost requests and the clock.
LEMMA EnvironmentStep ==
    ASSUME IInv, Tick \/ \E k \in Keys : RemoteApplyOlder(k) \/ RemoteLose(k)
    PROVE  IInv'
<1> USE DEF IInv
<1>1. /\ UNCHANGED <<lease, approvals, history, registry, pc, call, result, sent, granted>>
      /\ older' \subseteq older /\ applied \subseteq applied'
      /\ applied' \subseteq applied \union older
      /\ now <= now' /\ now' \in 0..MaxTime
    BY BoundAssumption DEF Tick, RemoteApplyOlder, RemoteLose, durable, remote, TypeOK
<1>2. TypeOK'
    BY <1>1 DEF TypeOK
<1>3. \A k \in Keys : KeyInv(k)'
    <2>1. \A k \in Keys : k \in older' \/ k \in applied' => k \in sent'
        BY <1>1 DEF KeyInv
    <2> QED
        BY <1>1, <2>1, QuietKeys
<1>4. \A h \in Hosts : HostInv(h)'
    BY <1>1, <1>2, QuietHost
<1> QED
    BY <1>2, <1>3, <1>4

\* Every step of the specification preserves the inductive invariant.
LEMMA NextIInv == IInv /\ [Next]_vars => IInv'
<1> SUFFICES ASSUME IInv, [Next]_vars
             PROVE  IInv'
    OBVIOUS
<1>1. CASE UNCHANGED vars
    BY <1>1 DEF IInv, TypeOK, KeyInv, HostInv, State, Past, Bound, vars
<1>2. CASE Tick \/ \E k \in Keys : RemoteApplyOlder(k) \/ RemoteLose(k)
    BY <1>2, EnvironmentStep
<1>3. ASSUME NEW h \in Hosts,
             \/ Open(h) \/ Drop(h) \/ Crash(h)
             \/ \E s \in Slots, rule \in Rules : Register(h, s, rule)
             \/ \E r \in Requests : Propose(h, r)
             \/ \E r \in Requests, d \in Digests, a \in Approvers : Approve(h, r, d, a)
             \/ \E r \in Requests, fuel \in {1, HandlerFuel} : Invoke(h, r, fuel)
             \/ CallStep(h)
             \/ RemoteApplyCurrent(h)
      PROVE  IInv'
    BY <1>3, OwnershipStep, EntryStep, ApprovalStep, OutcomeStep, MiddleStep DEF CallStep, Advance
<1> QED
    BY <1>1, <1>2, <1>3 DEF Next

-----------------------------------------------------------------------------
(* The theorems.                                                            *)

\* The inductive invariant holds in every reachable state.
THEOREM Invariance == Spec => []IInv
BY InitIInv, NextIInv, PTL DEF Spec

\* Type correctness of the tables, the calls and the clock.
THEOREM TypeCorrect == Spec => []TypeOK
<1>1. IInv => TypeOK
    BY DEF IInv
<1> QED
    BY <1>1, Invariance, PTL

\* Any number of owners, crashes and failed appends leave the history of every
\* key readable by EffectLedger::history.
THEOREM HistoryReadable == Spec => []HistoryNeverCorrupt
<1>1. IInv => HistoryNeverCorrupt
    BY DEF IInv, KeyInv, HistoryNeverCorrupt
<1> QED
    BY <1>1, Invariance, PTL

\* A host that may dispatch is the only owner, and its durable row says so.
THEOREM DispatchDurable == Spec => []InFlightIsDurable
<1>1. IInv => InFlightIsDurable
    BY DEF IInv, HostInv, InFlightIsDurable, Bound, Idle
<1> QED
    BY <1>1, Invariance, PTL

\* A host that may dispatch works for a digest its approver approved.
THEOREM DispatchApproved == Spec => []DispatchIsApproved
<1>1. IInv => DispatchIsApproved
    <2> SUFFICES ASSUME IInv, NEW h \in Hosts, pc[h] \in {"decide", "await"}
                 PROVE  call[h].req.digest \in granted
        BY DEF DispatchIsApproved
    <2>1. call[h].req.key \in Keys
        BY RequestAssumption DEF IInv, TypeOK, Call, Request
    <2> QED
        BY <2>1 DEF IInv, HostInv, KeyInv, Bound
<1> QED
    BY <1>1, Invariance, PTL

\* The ledger records a commit only of an effect the service has applied.
THEOREM CommitReal == Spec => []CommittedIsReal
<1>1. IInv => CommittedIsReal
    BY DEF IInv, KeyInv, CommittedIsReal
<1> QED
    BY <1>1, Invariance, PTL

\* An effect given up without a commit was never requested.
THEOREM AbandonedUnsent == Spec => []AbandonedWasNeverSent
<1>1. IInv => AbandonedWasNeverSent
    BY DEF IInv, KeyInv, AbandonedWasNeverSent
<1> QED
    BY <1>1, Invariance, PTL

\* A caller is told of success only for a verified effect that has happened.
THEOREM SuccessVerified == Spec => []SuccessIsVerified
<1>1. IInv => SuccessIsVerified
    <2> SUFFICES ASSUME IInv, NEW h \in Hosts, result[h] = "success"
                 PROVE  State(call[h].req.key) = "Verified" /\ call[h].req.key \in applied
        BY DEF SuccessIsVerified
    <2>1. PICK key \in Keys : key = call[h].req.key
        BY RequestAssumption DEF IInv, TypeOK, Call, Request
    <2>2. State(key) = "Verified"
        BY <2>1 DEF IInv, HostInv
    <2>3. history[key] # <<>>
        BY <2>2 DEF State
    <2>4. "Verified" \in Past(key)
        BY <2>2, <2>3, StateInPast DEF IInv, TypeOK
    <2> QED
        BY <2>1, <2>2, <2>4 DEF IInv, KeyInv
<1> QED
    BY <1>1, Invariance, PTL

\* No request leaves a host at or after the expiry of its approval.
THEOREM DispatchInTime == Spec => NoLateDispatch
<1> DEFINE InTime == \A h \in Hosts : pc[h] = "decide" /\ pc'[h] = "await" =>
                                        now < call[h].req.expiry
<1>1. IInv /\ [Next]_vars => [InTime]_vars
    <2> SUFFICES ASSUME IInv, Next, NEW g \in Hosts, pc[g] = "decide", pc'[g] = "await"
                 PROVE  now < call[g].req.expiry
        BY DEF InTime
    <2>1. pc \in [Hosts -> PC] /\ now \in Int /\ call[g].entered \in Int
          /\ call[g].wall = call[g].entered
        BY DEF IInv, TypeOK, HostInv, Call
    <2>2. Dispatch(g)
        <3>1. PICK h \in Hosts :
                 \/ Open(h) \/ Drop(h) \/ Crash(h)
                 \/ \E r \in Requests, fuel \in {1, HandlerFuel} : Invoke(h, r, fuel)
                 \/ CallStep(h)
            BY <2>1 DEF Next, Tick, RemoteApplyOlder, RemoteLose, Register, Propose, Approve,
                        RemoteApplyCurrent
        <3>2. pc' # pc
            BY <2>1
        <3>3. CASE Open(h) \/ Drop(h) \/ Crash(h)
                   \/ \E r \in Requests, fuel \in {1, HandlerFuel} : Invoke(h, r, fuel)
            BY <2>1, <3>3 DEF Open, Drop, Crash, Release, Invoke
        <3>4. CASE AdvanceRefused(h) \/ StorageFailure(h) \/ AdvanceRemote(h) \/ ReconcileAbsent(h)
            BY <2>1, <3>4 DEF AdvanceRefused, StorageFailure, Fail, AdvanceRemote, ReconcileAbsent
        <3>5. CASE \E s : Record(h, s)
            BY <2>1, <3>5 DEF Record, Advanced
        <3>6. CASE Dispatch(h)
            BY <2>1, <3>6 DEF Dispatch
        <3> QED
            BY <3>1, <3>3, <3>4, <3>5, <3>6
               DEF CallStep, Advance, AdvanceTerminal, AdvanceApproved, ReconcileSettled,
                   Withhold, ExecuteCommitted, ExecuteRejected, ExecuteUnknown, Verify
    <2> QED
        BY <2>1, <2>2 DEF Dispatch, DispatchTime
<1> QED
    BY <1>1, Invariance, PTL DEF Spec, NoLateDispatch

-----------------------------------------------------------------------------
(* Refinement of EffectLifecycle.                                           *)

AbstractStep == [Lifecycle!LifecycleNext]_(Lifecycle!avars)

\* A row that moves the effect along the lifecycle is an abstract step.
LEMMA RowIsStep ==
    ASSUME TypeOK, NEW key \in Keys, NEW s \in EffectState,
           AppendRow(key, s), UNCHANGED applied,
           \/ State(key) = "Missing" /\ s = "Proposed"
           \/ State(key) = "Proposed" /\ s = "Approved"
           \/ State(key) = "Approved" /\ s \in {"Started", "Failed"}
           \/ State(key) \in {"Started", "Indeterminate"} /\ s = "Indeterminate"
           \/ State(key) \in {"Started", "Indeterminate"} /\ s = "Committed" /\ key \in applied
           \/ State(key) = "Committed" /\ s \in {"Verified", "Failed"}
    PROVE  AbstractStep
<1> DEFINE phase == [k \in Keys |-> PhaseOf(State(k))]
<1>1. State(key)' = s /\ \A j \in Keys \ {key} : State(j)' = State(j)
    BY AppendFacts DEF TypeOK
<1>2. phase' = [phase EXCEPT ![key] = PhaseOf(s)]
    BY <1>1
<1>3. phase[key] = PhaseOf(State(key))
    OBVIOUS
<1> HIDE DEF phase
<1>4. \/ PhaseOf(s) = phase[key]
      \/ phase[key] = "none" /\ PhaseOf(s) = "proposed"
      \/ phase[key] = "proposed" /\ PhaseOf(s) = "approved"
      \/ phase[key] = "approved" /\ PhaseOf(s) \in {"requested", "failed"}
      \/ phase[key] = "requested" /\ PhaseOf(s) = "committed" /\ key \in applied
      \/ phase[key] = "committed" /\ PhaseOf(s) \in {"verified", "failed"}
    BY <1>3 DEF PhaseOf
<1>5. CASE PhaseOf(s) = phase[key]
    <2>1. phase' = phase
        BY <1>2, <1>5 DEF phase
    <2> QED
        BY <2>1 DEF AbstractStep, Lifecycle!avars, phase
<1>6. CASE PhaseOf(s) # phase[key]
    BY <1>2, <1>4, <1>6 DEF AbstractStep, Lifecycle!LifecycleNext, Lifecycle!Move,
                            Lifecycle!Commit, Lifecycle!Conclude, phase
<1> QED
    BY <1>5, <1>6

\* A step that writes no row is abstract if the service applies at most one
\* key, and only one whose request was sent.
LEMMA QuietIsStep ==
    ASSUME IInv, UNCHANGED history,
           \/ UNCHANGED applied
           \/ \E k \in Keys : applied' = applied \union {k} /\ k \in sent
    PROVE  AbstractStep
<1> DEFINE phase == [k \in Keys |-> PhaseOf(State(k))]
<1>1. phase' = phase
    BY DEF State
<1>2. CASE UNCHANGED applied
    BY <1>1, <1>2 DEF AbstractStep, Lifecycle!avars
<1>3. ASSUME NEW k \in Keys, applied' = applied \union {k}, k \in sent
      PROVE  AbstractStep
    <2>1. CASE k \in applied
        <3>1. applied' = applied
            BY <1>3, <2>1
        <3> QED
            BY <1>1, <3>1 DEF AbstractStep, Lifecycle!avars
    <2>2. CASE k \notin applied
        <3>1. KeyInv(k) /\ TypeOK
            BY DEF IInv
        <3>2. history[k] # <<>>
            BY <1>3, <3>1 DEF KeyInv, State
        <3>3. State(k) \in Past(k) /\ State(k) \in EffectState
            BY <3>1, <3>2, StateInPast DEF TypeOK
        <3>4. State(k) \in {"Started", "Indeterminate"}
            BY <1>3, <2>2, <3>1, <3>3 DEF KeyInv, EffectState
        <3>5. phase[k] = "requested"
            BY <3>4 DEF PhaseOf
        <3> QED
            BY <1>1, <1>3, <2>2, <3>5 DEF AbstractStep, Lifecycle!LifecycleNext, Lifecycle!Happen
    <2> QED
        BY <2>1, <2>2
<1> QED
    BY <1>2, <1>3

\* Every step of the ledger is a step of the lifecycle or a stutter.
LEMMA StepSimulation == IInv /\ [Next]_vars => AbstractStep
<1> SUFFICES ASSUME IInv, [Next]_vars
             PROVE  AbstractStep
    OBVIOUS
<1>1. CASE UNCHANGED vars
    BY <1>1, QuietIsStep DEF vars
<1>2. CASE Tick
    BY <1>2, QuietIsStep DEF Tick, durable, remote
<1>3. ASSUME NEW k \in Keys, RemoteApplyOlder(k) \/ RemoteLose(k)
      PROVE  AbstractStep
    BY <1>3, QuietIsStep DEF RemoteApplyOlder, RemoteLose, durable, IInv, KeyInv
<1>4. ASSUME NEW h \in Hosts,
             \/ Open(h) \/ Drop(h) \/ Crash(h)
             \/ \E s \in Slots, rule \in Rules : Register(h, s, rule)
             \/ \E r \in Requests, fuel \in {1, HandlerFuel} : Invoke(h, r, fuel)
             \/ AdvanceRefused(h) \/ StorageFailure(h) \/ AdvanceRemote(h)
             \/ ReconcileAbsent(h) \/ Dispatch(h)
      PROVE  AbstractStep
    BY <1>4, QuietIsStep DEF Open, Drop, Crash, Register, Invoke, AdvanceRefused, StorageFailure,
          Fail, AdvanceRemote, ReconcileAbsent, Dispatch, durable, remote
<1>5. ASSUME NEW h \in Hosts, RemoteApplyCurrent(h)
      PROVE  AbstractStep
    <2>1. call[h].req.key \in Keys
        BY RequestAssumption DEF IInv, TypeOK, Call, Request
    <2>2. call[h].req.key \in sent
        BY <1>5 DEF RemoteApplyCurrent, IInv, HostInv
    <2> QED
        BY <1>5, <2>1, <2>2, QuietIsStep DEF RemoteApplyCurrent, durable
<1>6. ASSUME NEW h \in Hosts, NEW r \in Requests,
             \/ Propose(h, r)
             \/ \E d \in Digests, a \in Approvers : Approve(h, r, d, a)
      PROVE  AbstractStep
    <2>1. r.key \in Keys /\ TypeOK /\ KeyInv(r.key)
        BY RequestAssumption DEF Request, IInv
    <2>2. /\ UNCHANGED applied
          /\ \/ AppendRow(r.key, "Proposed") /\ State(r.key) = "Missing"
             \/ AppendRow(r.key, "Approved") /\ State(r.key) = "Proposed"
        BY <1>6, <2>1 DEF Propose, Approve, remote, KeyInv, State
    <2> QED
        BY <2>1, <2>2, RowIsStep DEF EffectState
<1>7. ASSUME NEW h \in Hosts,
             \/ AdvanceTerminal(h) \/ AdvanceApproved(h) \/ ReconcileSettled(h)
             \/ Withhold(h) \/ ExecuteCommitted(h) \/ ExecuteRejected(h)
             \/ ExecuteUnknown(h) \/ Verify(h)
      PROVE  AbstractStep
    <2>1. PICK key \in Keys : key = call[h].req.key
        BY RequestAssumption DEF IInv, TypeOK, Call, Request
    <2>2. UNCHANGED applied /\ TypeOK /\ HostInv(h)
        BY <1>7 DEF AdvanceTerminal, AdvanceApproved, ReconcileSettled, Withhold, ExecuteCommitted,
              ExecuteRejected, ExecuteUnknown, Verify, remote, IInv
    <2>3. \E s \in EffectState :
             /\ Record(h, s)
             /\ \/ s = State(key)
                \/ State(key) = "Approved" /\ s \in {"Started", "Failed"}
                \/ State(key) \in {"Started", "Indeterminate"} /\ s = "Indeterminate"
                \/ State(key) \in {"Started", "Indeterminate"} /\ s = "Committed" /\ key \in applied
                \/ State(key) = "Committed" /\ s \in {"Verified", "Failed"}
        <3>1. CASE AdvanceTerminal(h) \/ AdvanceApproved(h)
            BY <2>1, <3>1 DEF AdvanceTerminal, AdvanceApproved, Terminal, EffectState
        <3>2. CASE \/ ReconcileSettled(h) \/ Withhold(h) \/ ExecuteCommitted(h)
                   \/ ExecuteRejected(h) \/ ExecuteUnknown(h)
            <4>1. State(key) \in {"Started", "Indeterminate"}
                BY <2>1, <2>2, <3>2 DEF HostInv, ReconcileSettled, Withhold, ExecuteCommitted,
                                        ExecuteRejected, ExecuteUnknown
            <4>2. Record(h, "Indeterminate") \/ (key \in applied /\ Record(h, "Committed"))
                BY <2>1, <3>2 DEF ReconcileSettled, Withhold, ExecuteCommitted, ExecuteRejected,
                                  ExecuteUnknown
            <4> QED
                BY <4>1, <4>2 DEF EffectState
        <3>3. CASE Verify(h)
            <4>1. State(key) = "Committed"
                BY <2>1, <2>2, <3>3 DEF HostInv, Verify
            <4>2. Record(h, "Verified") \/ Record(h, "Failed") \/ Record(h, "Committed")
                BY <3>3 DEF Verify
            <4> QED
                BY <4>1, <4>2 DEF EffectState
        <3> QED
            BY <1>7, <3>1, <3>2, <3>3
    <2>4. PICK s \in EffectState :
             /\ Record(h, s)
             /\ \/ s = State(key)
                \/ State(key) = "Approved" /\ s \in {"Started", "Failed"}
                \/ State(key) \in {"Started", "Indeterminate"} /\ s = "Indeterminate"
                \/ State(key) \in {"Started", "Indeterminate"} /\ s = "Committed" /\ key \in applied
                \/ State(key) = "Committed" /\ s \in {"Verified", "Failed"}
        BY <2>3
    <2>5. (s = State(key) /\ UNCHANGED history) \/ (s # State(key) /\ AppendRow(key, s))
        BY <2>1, <2>4 DEF Record
    <2>6. CASE s = State(key) /\ UNCHANGED history
        BY <2>2, <2>6, QuietIsStep
    <2>7. CASE s # State(key) /\ AppendRow(key, s)
        BY <2>2, <2>4, <2>7, RowIsStep
    <2> QED
        BY <2>5, <2>6, <2>7
<1> QED
    BY <1>1, <1>2, <1>3, <1>4, <1>5, <1>6, <1>7 DEF Next, CallStep, Advance

\* The ledger implements the abstract lifecycle, for any number of hosts,
\* keys and requests and whatever the service and the clock do.
THEOREM Refinement == Spec => ImplementsLifecycle
<1>1. Init => Lifecycle!LifecycleInit
    BY DEF Init, Lifecycle!LifecycleInit, State, PhaseOf
<1> QED
    BY <1>1, Invariance, StepSimulation, PTL
       DEF Spec, ImplementsLifecycle, Lifecycle!LifecycleSpec, AbstractStep
=============================================================================
