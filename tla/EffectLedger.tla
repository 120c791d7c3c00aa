---------------------------- MODULE EffectLedger ----------------------------
(***************************************************************************)
(* The durable effect ledger of workflow-runtime: host processes that share *)
(* one SQLite ledger under an exclusive lease, bind approvals to effect     *)
(* keys, and drive an approved effect against a remote service through      *)
(* EffectLedger::advance and DurableEffectHandler::execute.                 *)
(*                                                                          *)
(* `approvals' and `history' are the two tables on disk and survive a       *)
(* crash; `lease', `registry', `pc', `call' and `result' belong to the      *)
(* processes; `applied' and `older' are the remote service (external,       *)
(* modelled from the EffectExecutor contract); `sent' and `granted' are     *)
(* history variables: the keys for which a request ever left a host, and    *)
(* the digests their own approver approved.                                 *)
(***************************************************************************)
EXTENDS Integers, Sequences

CONSTANTS
    Hosts,        \* host processes that may open the ledger
    Keys,         \* effect keys
    Digests,      \* approval digests
    Approvers,    \* authenticated actors
    Slots,        \* (tool id, tool version) pairs of an executor registry
    Rules,        \* digests of Firewall rules
    Requests,     \* the ApprovalRequests that ApprovalRequest::bind admitted
    HandlerFuel,  \* advances one handler call may make (4 in the code)
    MaxTime,      \* bound on the clock
    NoHost, NoDigest, NoRule

Request == [key : Keys, digest : Digests, approver : Approvers,
            expiry : Nat, slot : Slots, rule : Rules]

\* Fingerprints are collision free: one digest is one bound request.
ASSUME RequestAssumption ==
    /\ Requests \subseteq Request
    /\ Requests # {}
    /\ \A r, s \in Requests : r.digest = s.digest => r = s
ASSUME NullAssumption ==
    NoHost \notin Hosts /\ NoDigest \notin Digests /\ NoRule \notin Rules
ASSUME BoundAssumption == HandlerFuel \in Nat \ {0} /\ MaxTime \in Nat

EffectState == {"Proposed", "Approved", "Started", "Committed",
                "Verified", "Failed", "Indeterminate"}
Terminal == {"Verified", "Failed"}
Idle == {"closed", "idle"}
PC == Idle \union {"advance", "reconcile", "decide", "await", "verify"}
Result == {"none", "success", "failure", "pending", "error"}

VARIABLES lease, approvals, history, registry, pc, call, result,
          applied, older, sent, granted, now

durable == <<approvals, history>>
remote == <<applied, older, sent, granted>>
vars == <<lease, approvals, history, registry, pc, call, result,
          applied, older, sent, granted, now>>

Call == [req : Requests, fuel : 0..HandlerFuel, wall : 0..MaxTime,
         entered : 0..MaxTime, wire : {"none", "sent", "applied"}]

TypeOK ==
    /\ lease \in Hosts \union {NoHost}
    /\ approvals \in [Keys -> Digests \union {NoDigest}]
    /\ history \in [Keys -> Seq(EffectState)]
    /\ registry \in [Hosts -> [Slots -> Rules \union {NoRule}]]
    /\ pc \in [Hosts -> PC]
    /\ call \in [Hosts -> Call]
    /\ result \in [Hosts -> Result]
    /\ applied \in SUBSET Keys
    /\ older \in SUBSET Keys
    /\ sent \in SUBSET Keys
    /\ granted \in SUBSET Digests
    /\ now \in 0..MaxTime

EmptyRegistry == [s \in Slots |-> NoRule]

Init ==
    /\ lease = NoHost
    /\ approvals = [k \in Keys |-> NoDigest]
    /\ history = [k \in Keys |-> <<>>]
    /\ registry = [h \in Hosts |-> EmptyRegistry]
    /\ pc = [h \in Hosts |-> "closed"]
    /\ call = [h \in Hosts |-> [req |-> CHOOSE r \in Requests : TRUE, fuel |-> 0,
                               wall |-> 0, entered |-> 0, wire |-> "none"]]
    /\ result = [h \in Hosts |-> "none"]
    /\ applied = {} /\ older = {} /\ sent = {} /\ granted = {}
    /\ now = 0

-----------------------------------------------------------------------------
(* The two tables.                                                          *)

Past(k) == {history[k][i] : i \in DOMAIN history[k]}

State(k) == IF history[k] = <<>> THEN "Missing" ELSE history[k][Len(history[k])]

\* EffectLedger::binding accepted the request and EffectLedger::history found
\* at least one row for it.
Bound(r) == approvals[r.key] = r.digest

\* The closed transition table that EffectLedger::history re-validates on
\* every read; any other pair of neighbours makes the read fail as Corrupt.
Transitions ==
    {<<"Proposed", "Approved">>,
     <<"Approved", "Started">>, <<"Approved", "Failed">>,
     <<"Started", "Committed">>, <<"Started", "Failed">>,
     <<"Started", "Indeterminate">>,
     <<"Indeterminate", "Committed">>, <<"Indeterminate", "Failed">>,
     <<"Committed", "Verified">>, <<"Committed", "Failed">>}

ValidRows(rows) ==
    rows # <<>> =>
        /\ rows[1] = "Proposed"
        /\ \A i \in 1..(Len(rows) - 1) : <<rows[i], rows[i + 1]>> \in Transitions

\* What a reader of the rows of a bound request gets.
Corrupt(r) == ~ (history[r.key] # <<>> /\ ValidRows(history[r.key]))

AppendRow(k, s) == history' = [history EXCEPT ![k] = Append(@, s)]

-----------------------------------------------------------------------------
(* Ownership: Lease::acquire, Drop for Lease, and the death of a process.   *)

\* EffectLedger::open.  A second owner, in this process or another one, is
\* refused as Busy and nothing changes.
Open(h) ==
    /\ pc[h] = "closed"
    /\ lease = NoHost
    /\ lease' = h
    /\ pc' = [pc EXCEPT ![h] = "idle"]
    /\ UNCHANGED <<durable, registry, call, result, remote, now>>

Release(h) ==
    /\ lease' = NoHost
    /\ pc' = [pc EXCEPT ![h] = "closed"]
    /\ registry' = [registry EXCEPT ![h] = EmptyRegistry]
    /\ result' = [result EXCEPT ![h] = "none"]

\* DurableEffectHandler owns its ledger and its registry.
Drop(h) ==
    /\ pc[h] = "idle"
    /\ Release(h)
    /\ UNCHANGED <<durable, call, remote, now>>

\* A request of this call that has neither been applied nor been rejected
\* outlives the call: it may still reach the service later.
Linger(h) ==
    older' = IF pc[h] = "await" /\ call[h].wire = "sent"
             THEN older \union {call[h].req.key} ELSE older

\* The kernel drops the lock of a dead process; only the tables remain.
Crash(h) ==
    /\ pc[h] # "closed"
    /\ Release(h)
    /\ Linger(h)
    /\ UNCHANGED <<durable, call, applied, sent, granted, now>>

\* ExecutorRegistry::register: a taken slot is never replaced.
Register(h, s, rule) ==
    /\ pc[h] = "idle"
    /\ registry[h][s] = NoRule
    /\ registry' = [registry EXCEPT ![h][s] = rule]
    /\ UNCHANGED <<lease, durable, pc, call, result, remote, now>>

-----------------------------------------------------------------------------
(* Approval.                                                                *)

\* One transaction inserts the binding and the first row.  A key that is
\* already bound is left as it is, whatever digest the new request carries.
Propose(h, r) ==
    /\ pc[h] = "idle"
    /\ approvals[r.key] = NoDigest
    /\ approvals' = [approvals EXCEPT ![r.key] = r.digest]
    /\ AppendRow(r.key, "Proposed")
    /\ UNCHANGED <<lease, registry, pc, call, result, remote, now>>

Approve(h, r, digest, actor) ==
    /\ pc[h] = "idle"
    /\ digest = r.digest /\ actor = r.approver
    /\ now < r.expiry
    /\ Bound(r) /\ ~ Corrupt(r)
    /\ State(r.key) = "Proposed"
    /\ AppendRow(r.key, "Approved")
    /\ granted' = granted \union {digest}
    /\ UNCHANGED <<lease, approvals, registry, pc, call, result, applied, older,
                   sent, now>>

-----------------------------------------------------------------------------
(* Execution.                                                               *)

\* DurableEffectHandler::execute makes up to HandlerFuel advances; a host that
\* calls EffectLedger::advance itself makes one.
Invoke(h, r, fuel) ==
    /\ pc[h] = "idle"
    /\ pc' = [pc EXCEPT ![h] = "advance"]
    /\ call' = [call EXCEPT ![h] = [req |-> r, fuel |-> fuel, wall |-> now,
                                    entered |-> now, wire |-> "none"]]
    /\ result' = [result EXCEPT ![h] = "none"]
    /\ UNCHANGED <<lease, durable, registry, remote, now>>

Outcome(s) == CASE s = "Verified" -> "success"
                [] s = "Failed" -> "failure"
                [] OTHER -> "pending"

\* Slip: a retry that made no progress is not counted.
AdvancedUncounted(h, s) ==
    LET n == IF s = State(call[h].req.key) THEN 0 ELSE 1
        c == [call[h] EXCEPT !.fuel = @ - n, !.wire = "none"]
        more == c.fuel > 0 /\ s \notin Terminal
    IN  /\ call' = [call EXCEPT ![h] = c]
        /\ pc' = [pc EXCEPT ![h] = IF more THEN "advance" ELSE "idle"]
        /\ result' = [result EXCEPT ![h] = IF more THEN @ ELSE Outcome(s)]

\* The end of one advance that leaves the effect in state s: the loop of the
\* handler goes on while fuel is left and s is not terminal.
Advanced(h, s) ==
    LET c == [call[h] EXCEPT !.fuel = @ - 1, !.wire = "none"]
        more == c.fuel > 0 /\ s \notin Terminal
    IN  /\ call' = [call EXCEPT ![h] = c]
        /\ pc' = [pc EXCEPT ![h] = IF more THEN "advance" ELSE "idle"]
        /\ result' = [result EXCEPT ![h] = IF more THEN @ ELSE Outcome(s)]

\* Slip: the row is appended even when the state did not change.
RecordAlways(h, s) ==
    /\ Advanced(h, s)
    /\ AppendRow(call[h].req.key, s)
    /\ UNCHANGED <<lease, approvals, registry>>

\* Appends the new state unless it is the current one.
Record(h, s) ==
    LET k == call[h].req.key
    IN  /\ Advanced(h, s)
        /\ IF s = State(k) THEN UNCHANGED history ELSE AppendRow(k, s)
        /\ UNCHANGED <<lease, approvals, registry>>

Fail(h) ==
    /\ pc' = [pc EXCEPT ![h] = "idle"]
    /\ result' = [result EXCEPT ![h] = "error"]
    /\ UNCHANGED <<lease, durable, registry, call, now>>

\* No readable row, a proposal that nobody approved, or no executor for the
\* rule the request was admitted under.
Refused(h) ==
    LET r == call[h].req
    IN  \/ ~ Bound(r)
        \/ Corrupt(r)
        \/ State(r.key) = "Proposed"
        \/ /\ State(r.key) \notin Terminal
           /\ registry[h][r.slot] # r.rule

AdvanceRefused(h) ==
    /\ pc[h] = "advance"
    /\ Refused(h)
    /\ Fail(h)
    /\ UNCHANGED remote

\* LedgerError::Storage: SQLite refuses the read at the start of an advance or
\* the append at its end, when the executor may already have been called.
StorageFailure(h) ==
    /\ pc[h] \notin Idle
    /\ Fail(h)
    /\ Linger(h)
    /\ UNCHANGED <<applied, sent, granted>>

\* A terminal effect is returned without any remote call.
AdvanceTerminal(h) ==
    /\ pc[h] = "advance"
    /\ ~ Refused(h)
    /\ State(call[h].req.key) \in Terminal
    /\ Record(h, State(call[h].req.key))
    /\ UNCHANGED <<remote, now>>

\* Started is on disk before any request leaves the host.
AdvanceApproved(h) ==
    LET r == call[h].req
    IN  /\ pc[h] = "advance"
        /\ ~ Refused(h)
        /\ State(r.key) = "Approved"
        /\ Record(h, IF now >= r.expiry THEN "Failed" ELSE "Started")
        /\ UNCHANGED <<remote, now>>

\* Entry of an advance that will call the executor: the wall clock and the
\* monotonic instant are sampled here.
AdvanceRemote(h) ==
    LET s == State(call[h].req.key)
    IN  /\ pc[h] = "advance"
        /\ ~ Refused(h)
        /\ s \in {"Started", "Indeterminate", "Committed"}
        /\ pc' = [pc EXCEPT ![h] = IF s = "Committed" THEN "verify" ELSE "reconcile"]
        /\ call' = [call EXCEPT ![h].wall = now, ![h].entered = now]
        /\ UNCHANGED <<lease, durable, registry, result, remote, now>>

\* EffectExecutor::reconcile: a snapshot, or no answer.
ReconcileSettled(h) ==
    /\ pc[h] = "reconcile"
    /\ \/ call[h].req.key \in applied /\ Record(h, "Committed")
       \/ Record(h, "Indeterminate")
    /\ UNCHANGED <<remote, now>>

ReconcileAbsent(h) ==
    /\ pc[h] = "reconcile"
    /\ call[h].req.key \notin applied
    /\ pc' = [pc EXCEPT ![h] = "decide"]
    /\ UNCHANGED <<lease, durable, registry, call, result, remote, now>>

\* Slip: the clock of the entry decides, the time of the lookup is ignored.
DispatchTimeAtEntry(h) == call[h].wall

\* The dispatch-expiry check includes the time the lookup took.
DispatchTime(h) == call[h].wall + (now - call[h].entered)

\* Slip: expiry settles an effect of which an earlier request may be alive.
WithholdFailed(h) ==
    /\ pc[h] = "decide"
    /\ DispatchTime(h) >= call[h].req.expiry
    /\ Record(h, "Failed")
    /\ UNCHANGED <<remote, now>>

Withhold(h) ==
    /\ pc[h] = "decide"
    /\ DispatchTime(h) >= call[h].req.expiry
    /\ Record(h, "Indeterminate")
    /\ UNCHANGED <<remote, now>>

Dispatch(h) ==
    /\ pc[h] = "decide"
    /\ DispatchTime(h) < call[h].req.expiry
    /\ pc' = [pc EXCEPT ![h] = "await"]
    /\ call' = [call EXCEPT ![h].wire = "sent"]
    /\ sent' = sent \union {call[h].req.key}
    /\ UNCHANGED <<lease, durable, registry, result, applied, older, granted, now>>

\* EffectExecutor::execute answers Committed only for an applied key.
ExecuteCommitted(h) ==
    /\ pc[h] = "await"
    /\ call[h].req.key \in applied
    /\ Record(h, "Committed")
    /\ UNCHANGED <<remote, now>>

\* Rejected: this dispatch is dead, but an earlier one may still commit.
ExecuteRejected(h) ==
    /\ pc[h] = "await"
    /\ call[h].wire = "sent"
    /\ Record(h, "Indeterminate")
    /\ UNCHANGED <<remote, now>>

\* Slip: an uncertain answer is taken for a commit.
ExecuteUnknownCommitted(h) ==
    /\ pc[h] = "await"
    /\ Linger(h)
    /\ Record(h, "Committed")
    /\ UNCHANGED <<applied, sent, granted, now>>

ExecuteUnknown(h) ==
    /\ pc[h] = "await"
    /\ Linger(h)
    /\ Record(h, "Indeterminate")
    /\ UNCHANGED <<applied, sent, granted, now>>

\* EffectExecutor::verify.
Verify(h) ==
    /\ pc[h] = "verify"
    /\ \/ call[h].req.key \in applied /\ Record(h, "Verified")
       \/ Record(h, "Failed")
       \/ Record(h, "Committed")
    /\ UNCHANGED <<remote, now>>

-----------------------------------------------------------------------------
(* The remote service, which deduplicates by effect key, and the clock.     *)

RemoteApplyCurrent(h) ==
    /\ pc[h] = "await"
    /\ call[h].wire = "sent"
    /\ call' = [call EXCEPT ![h].wire = "applied"]
    /\ applied' = applied \union {call[h].req.key}
    /\ UNCHANGED <<lease, durable, registry, pc, result, older, sent, granted, now>>

\* A request of an earlier dispatch arrives late, or is lost for good.
RemoteApplyOlder(k) ==
    /\ k \in older
    /\ applied' = applied \union {k}
    /\ older' \in {older, older \ {k}}
    /\ UNCHANGED <<lease, durable, registry, pc, call, result, sent, granted, now>>

RemoteLose(k) ==
    /\ k \in older
    /\ older' = older \ {k}
    /\ UNCHANGED <<lease, durable, registry, pc, call, result, applied, sent, granted,
                   now>>

Tick ==
    /\ now < MaxTime
    /\ now' = now + 1
    /\ UNCHANGED <<lease, durable, registry, pc, call, result, remote>>

-----------------------------------------------------------------------------
Advance(h) ==
    \/ AdvanceRefused(h) \/ AdvanceTerminal(h)
    \/ AdvanceApproved(h) \/ AdvanceRemote(h)

\* One step of the code of a running call.
CallStep(h) ==
    \/ Advance(h)
    \/ ReconcileSettled(h) \/ ReconcileAbsent(h)
    \/ Withhold(h) \/ Dispatch(h)
    \/ ExecuteCommitted(h) \/ ExecuteRejected(h) \/ ExecuteUnknown(h)
    \/ Verify(h)
    \/ StorageFailure(h)

Next ==
    \/ \E h \in Hosts :
          \/ Open(h) \/ Drop(h) \/ Crash(h)
          \/ \E s \in Slots, rule \in Rules : Register(h, s, rule)
          \/ \E r \in Requests : Propose(h, r)
          \/ \E r \in Requests, d \in Digests, a \in Approvers : Approve(h, r, d, a)
          \/ \E r \in Requests, fuel \in {1, HandlerFuel} : Invoke(h, r, fuel)
          \/ CallStep(h)
          \/ RemoteApplyCurrent(h)
    \/ \E k \in Keys : RemoteApplyOlder(k) \/ RemoteLose(k)
    \/ Tick

Spec == Init /\ [][Next]_vars

\* Executors bound their IO and the loop of a handler is ordinary code, so a
\* process that is not dead keeps taking the steps of its call.
FairSpec == Spec /\ \A h \in Hosts : WF_vars(CallStep(h))

-----------------------------------------------------------------------------
(* Properties.                                                              *)

\* The reader of the history never meets rows it calls Corrupt: what every
\* interleaving of owners, crashes and failed appends leaves in the table is
\* inside the closed transition table that EffectLedger::history enforces.
HistoryNeverCorrupt == \A k \in Keys : ValidRows(history[k])

\* "Started is committed before IO" and "committed effects only verify": a
\* host that is deciding on, or waiting for, a request owns the lease, works
\* for the digest bound to the key, and the last durable row says so.
InFlightIsDurable ==
    \A h \in Hosts : pc[h] \in {"decide", "await"} =>
        /\ lease = h
        /\ Bound(call[h].req)
        /\ State(call[h].req.key) \in {"Started", "Indeterminate"}

\* Nothing is dispatched for a digest that its own approver did not approve:
\* neither a replayed proposal nor a renewed request inherits an approval.
DispatchIsApproved ==
    \A h \in Hosts : pc[h] \in {"decide", "await"} =>
        call[h].req.digest \in granted

\* A row Committed is never a guess: the remote service has applied the key,
\* whatever was lost, late or answered by an earlier dispatch.
CommittedIsReal ==
    \A k \in Keys : "Committed" \in Past(k) => k \in applied

\* An effect that is given up without a commit was never requested, so it
\* cannot happen behind the ledger's back: rejection and expiry after a
\* request leave it Indeterminate.
AbandonedWasNeverSent ==
    \A k \in Keys :
        "Failed" \in Past(k) /\ "Committed" \notin Past(k) => k \notin sent

\* "committed is not success until verified": a caller is told of success
\* only for a verified effect that has happened.
SuccessIsVerified ==
    \A h \in Hosts : result[h] = "success" =>
        /\ State(call[h].req.key) = "Verified"
        /\ call[h].req.key \in applied

\* No request leaves a host at or after the expiry of its approval, however
\* long the lookup that precedes it took.
NoLateDispatch ==
    [][\A h \in Hosts :
           pc[h] = "decide" /\ pc'[h] = "await" => now < call[h].req.expiry]_vars

\* The ledger implements the abstract lifecycle: Started and Indeterminate
\* both mean that a request may be outstanding.
PhaseOf(s) == CASE s = "Missing" -> "none"
                [] s = "Proposed" -> "proposed"
                [] s = "Approved" -> "approved"
                [] s = "Committed" -> "committed"
                [] s = "Verified" -> "verified"
                [] s = "Failed" -> "failed"
                [] OTHER -> "requested"

Lifecycle == INSTANCE EffectLifecycle
                 WITH phase <- [k \in Keys |-> PhaseOf(State(k))],
                      world <- applied

\* Every step of every host, crash and late request is a step of the abstract
\* lifecycle or changes nothing in it.
ImplementsLifecycle == Lifecycle!LifecycleSpec

-----------------------------------------------------------------------------
(* The inductive invariant behind the theorems of EffectLedger_proofs.      *)

\* What the rows of one key say about its approval and about the service.
KeyInv(k) ==
    /\ approvals[k] = NoDigest <=> history[k] = <<>>
    /\ ValidRows(history[k])
    /\ "Committed" \in Past(k) \/ "Verified" \in Past(k) => k \in applied
    /\ "Failed" \in Past(k) => State(k) = "Failed"
    /\ State(k) \notin {"Missing", "Proposed"} => approvals[k] \in granted
    /\ k \in sent => State(k) \notin {"Missing", "Proposed", "Approved"}
    /\ State(k) = "Failed" /\ "Committed" \notin Past(k) => k \notin sent
    /\ k \in older \/ k \in applied => k \in sent

\* What the program counter of one host says about the rows it works on.
HostInv(h) ==
    LET r == call[h].req
    IN  /\ pc[h] # "closed" => lease = h
        /\ pc[h] \notin Idle => call[h].fuel > 0
        /\ pc[h] \in {"reconcile", "decide", "await"} =>
               Bound(r) /\ State(r.key) \in {"Started", "Indeterminate"}
        /\ pc[h] = "verify" => Bound(r) /\ State(r.key) = "Committed"
        /\ pc[h] = "await" => r.key \in sent
        /\ call[h].wall = call[h].entered /\ call[h].entered <= now
        /\ result[h] = "success" => State(r.key) = "Verified"

IInv ==
    /\ TypeOK
    /\ \A k \in Keys : KeyInv(k)
    /\ \A h \in Hosts : HostInv(h)

-----------------------------------------------------------------------------
\* Every call returns: "Advances one durable phase, never an unbounded
\* workflow loop", and the loop of the handler is bounded.
CallReturns == \A h \in Hosts : pc[h] \notin Idle ~> pc[h] \in Idle
=============================================================================
