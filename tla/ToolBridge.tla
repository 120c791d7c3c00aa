----------------------------- MODULE ToolBridge -----------------------------
(***************************************************************************)
(* ToolBridge::invoke behind the mutex of AdkToolBridge, with the call-     *)
(* scoped ApprovalLedger.  A caller holds the lock for the whole of invoke, *)
(* the wait included; handlers run on threads of their own and outlive a    *)
(* wait that times out.  A call stands for its idempotency key: the key is  *)
(* the digest of tool, actor, call id and argument fingerprint.             *)
(***************************************************************************)
EXTENDS Integers, FiniteSets

CONSTANTS
    Callers,
    Calls,          \* records [tool, id, actor, args]
    Registration,   \* tool -> [readOnly, stableKey, scopes, caps, schema]
    CallCaps,       \* call -> capabilities the handler asks for it
    NeedsApproval,  \* calls for which requires_approval answers true
    Grantable,      \* calls the host grants, and the expiries it grants them with
    Expiries,
    Authority,      \* the layers of CapabilityIntersection
    MaxThreads,     \* bound on handler threads
    MaxTime,
    NoCaller, NoGrant

ASSUME BridgeAssumption ==
    /\ MaxThreads \in Nat /\ MaxTime \in Nat
    /\ NoCaller \notin Callers /\ Calls # {}
    /\ NeedsApproval \subseteq Calls /\ Grantable \subseteq Calls
    /\ Expiries \subseteq 0..MaxTime

Threads == 1..MaxThreads
Time == 0..MaxTime
GrantKeys == {<<c.tool, c.id, c.actor>> : c \in Calls}
Grants == [args : {c.args : c \in Calls}, expires : Expiries]

\* How a handler thread can end: a valid envelope, an envelope that provenance,
\* schema, size or artifact retention reject, an error, a panic.
Outcome == {"valid", "invalid", "error", "panic"}
ErrorKind == {"UnknownTool", "CapabilityDenied", "IdempotencyRequired", "InvalidInput",
              "SandboxDenied", "ApprovalDenied", "HandlerFailed", "OutputRejected"}

VARIABLES
    now,       \* elapsed time of the adapter
    grants,    \* ApprovalLedger.records
    holder,    \* the caller inside invoke, which holds the mutex
    call,      \* its call
    waiting,   \* the thread whose receiver it waits on
    thread,    \* handler threads: [call, state]
    spawned,   \* number of threads spawned so far
    inFlight,  \* in_flight: call -> thread, 0 for none
    results,   \* idempotent_results: call -> the thread that produced it, or 0
    effects,   \* history: how often the handler of a call has acted
    answer     \* what the last invocation of a caller returned

vars == <<now, grants, holder, call, waiting, thread, spawned, inFlight, results,
          effects, answer>>

Running == {"started", "acted"}

TypeOK ==
    /\ now \in Time
    /\ grants \in [GrantKeys -> Grants \union {NoGrant}]
    /\ holder \in Callers \union {NoCaller}
    /\ call \in [Callers -> Calls]
    /\ waiting \in Threads \union {0}
    /\ spawned \in 0..MaxThreads
    /\ thread \in [Threads -> [call : Calls, state : Running \union Outcome \union {"none"}]]
    /\ inFlight \in [Calls -> 0..spawned]
    /\ results \in [Calls -> 0..spawned]
    /\ effects \in [Calls -> 0..spawned]
    /\ answer \in [Callers -> [ok : 0..MaxThreads, kind : ErrorKind \union {"none"}]]

Init ==
    /\ now = 0
    /\ grants = [g \in GrantKeys |-> NoGrant]
    /\ holder = NoCaller /\ waiting = 0
    /\ call \in [Callers -> {CHOOSE c \in Calls : TRUE}]
    /\ thread = [i \in Threads |-> [call |-> CHOOSE c \in Calls : TRUE, state |-> "none"]]
    /\ spawned = 0
    /\ inFlight = [c \in Calls |-> 0]
    /\ results = [c \in Calls |-> 0]
    /\ effects = [c \in Calls |-> 0]
    /\ answer = [a \in Callers |-> [ok |-> 0, kind |-> "none"]]

-----------------------------------------------------------------------------
(* Authority.                                                               *)

Registered(c) == c.tool \in DOMAIN Registration

\* CapabilityIntersection::authorize: no layer can widen another.
Authorized(c) ==
    LET r == Registration[c.tool]
    IN  /\ \A layer \in {"workflow", "skill", "tenant", "role"} : c.tool \in Authority[layer]
        /\ r.scopes \subseteq Authority["scopes"]
        /\ r.caps \subseteq Authority["runtime"] \intersect Authority["sandbox"]

Idempotent(c) == Registration[c.tool].readOnly \/ Registration[c.tool].stableKey

\* authorize_capabilities over the registered and the call-specific ones.
Sandboxed(c) ==
    Registration[c.tool].caps \union CallCaps[c]
        \subseteq Authority["runtime"] \intersect Authority["sandbox"]

Effectful(c) == ~Registration[c.tool].readOnly \/ c \in NeedsApproval

\* ApprovalLedger::authorize.
Approved(c) ==
    LET g == grants[<<c.tool, c.id, c.actor>>]
    IN  g # NoGrant /\ g.args = c.args /\ now < g.expires

\* Slip: a completed call is answered before its approval is looked at.
RefusalUnlessCached(c) ==
    IF ~Registered(c) THEN "UnknownTool"
    ELSE IF ~Authorized(c) THEN "CapabilityDenied"
    ELSE IF ~Idempotent(c) THEN "IdempotencyRequired"
    ELSE IF c.args \notin Registration[c.tool].schema THEN "InvalidInput"
    ELSE IF ~Sandboxed(c) THEN "SandboxDenied"
    ELSE IF Effectful(c) /\ results[c] = 0 /\ ~Approved(c) THEN "ApprovalDenied"
    ELSE "none"

\* What invoke answers before it looks at results or threads, "none" to go on.
Refusal(c) ==
    IF ~Registered(c) THEN "UnknownTool"
    ELSE IF ~Authorized(c) THEN "CapabilityDenied"
    ELSE IF ~Idempotent(c) THEN "IdempotencyRequired"
    ELSE IF c.args \notin Registration[c.tool].schema THEN "InvalidInput"
    ELSE IF ~Sandboxed(c) THEN "SandboxDenied"
    ELSE IF Effectful(c) /\ ~Approved(c) THEN "ApprovalDenied"
    ELSE "none"

-----------------------------------------------------------------------------
(* invoke.                                                                  *)

\* The host records a grant; a second one for the same call id replaces it.
Grant(c, expires) ==
    /\ grants' = [grants EXCEPT ![<<c.tool, c.id, c.actor>>] =
                     [args |-> c.args, expires |-> expires]]
    /\ UNCHANGED <<now, holder, call, waiting, thread, spawned, inFlight, results,
                   effects, answer>>

Answer(a, ok, kind) == answer' = [answer EXCEPT ![a] = [ok |-> ok, kind |-> kind]]

\* The lock is released and the caller has its answer.
Return(a, ok, kind) ==
    /\ Answer(a, ok, kind)
    /\ holder' = NoCaller /\ waiting' = 0
    /\ UNCHANGED <<now, grants>>

\* A call that is answered without running or awaiting a handler.
Immediate(a, c, ok, kind) ==
    /\ holder = NoCaller
    /\ call' = [call EXCEPT ![a] = c]
    /\ Return(a, ok, kind)
    /\ UNCHANGED <<thread, spawned, inFlight, results, effects>>

Refuse(a, c) == Refusal(c) # "none" /\ Immediate(a, c, 0, Refusal(c))

AnswerFromCache(a, c) ==
    /\ Refusal(c) = "none"
    /\ Effectful(c) /\ results[c] # 0
    /\ Immediate(a, c, results[c], "none")

Wait(a, c, i) ==
    /\ holder = NoCaller
    /\ holder' = a /\ waiting' = i
    /\ call' = [call EXCEPT ![a] = c]
    /\ answer' = [answer EXCEPT ![a] = [ok |-> 0, kind |-> "none"]]
    /\ UNCHANGED <<now, grants, results, effects>>

Spawn(c) ==
    /\ spawned < MaxThreads
    /\ spawned' = spawned + 1
    /\ thread' = [thread EXCEPT ![spawned + 1] = [call |-> c, state |-> "started"]]

StartEffect(a, c) ==
    /\ Refusal(c) = "none" /\ Effectful(c)
    /\ results[c] = 0 /\ inFlight[c] = 0
    /\ Spawn(c)
    /\ inFlight' = [inFlight EXCEPT ![c] = spawned + 1]
    /\ Wait(a, c, spawned + 1)

\* A retry of a call whose handler still runs waits on that handler.
JoinEffect(a, c) ==
    /\ Refusal(c) = "none" /\ Effectful(c)
    /\ results[c] = 0 /\ inFlight[c] # 0
    /\ Wait(a, c, inFlight[c])
    /\ UNCHANGED <<thread, spawned, inFlight>>

StartRead(a, c) ==
    /\ Refusal(c) = "none" /\ ~Effectful(c)
    /\ Spawn(c)
    /\ Wait(a, c, spawned + 1)
    /\ UNCHANGED inFlight

\* thread::Builder::spawn fails: nothing is in flight.
SpawnFails(a, c) ==
    /\ Refusal(c) = "none"
    /\ Effectful(c) => results[c] = 0 /\ inFlight[c] = 0
    /\ Immediate(a, c, 0, "HandlerFailed")

\* The receiver yields.  An effectful call leaves in_flight whatever the
\* envelope is worth; only an accepted one is kept as its result.
Receive ==
    /\ holder # NoCaller /\ thread[waiting].state \in {"valid", "invalid", "error"}
    /\ LET c == call[holder]
       IN  /\ inFlight' = [inFlight EXCEPT ![c] = 0]
           /\ \/ /\ thread[waiting].state = "valid"
                 /\ results' = IF Effectful(c) THEN [results EXCEPT ![c] = waiting]
                               ELSE results
                 /\ Return(holder, waiting, "none")
              \/ /\ thread[waiting].state = "invalid"
                 /\ Return(holder, 0, "OutputRejected")
                 /\ UNCHANGED results
              \/ /\ thread[waiting].state = "error"
                 /\ Return(holder, 0, "HandlerFailed")
                 /\ UNCHANGED results
    /\ UNCHANGED <<call, thread, spawned, effects>>

\* Slip: the retry after a timeout starts over.
TimeoutForgets ==
    /\ holder # NoCaller /\ thread[waiting].state \in Running \union {"panic"}
    /\ inFlight' = [inFlight EXCEPT ![call[holder]] = 0]
    /\ Return(holder, 0, "HandlerFailed")
    /\ UNCHANGED <<call, thread, spawned, results, effects>>

\* Slip: recv instead of recv_timeout.
TimeoutNever ==
    /\ holder # NoCaller /\ thread[waiting].state = "panic"
    /\ Return(holder, 0, "HandlerFailed")
    /\ UNCHANGED <<call, thread, spawned, inFlight, results, effects>>

\* recv_timeout fails: the handler is still running, or its thread panicked and
\* the channel is disconnected.  in_flight keeps the receiver.
Timeout ==
    /\ holder # NoCaller /\ thread[waiting].state \in Running \union {"panic"}
    /\ Return(holder, 0, "HandlerFailed")
    /\ UNCHANGED <<call, thread, spawned, inFlight, results, effects>>

-----------------------------------------------------------------------------
(* Handler threads and time.                                                *)

HandlerVars == <<now, grants, holder, call, waiting, spawned, inFlight, results, answer>>

\* The handler does what it is for.
Act(i) ==
    /\ thread[i].state = "started"
    /\ thread' = [thread EXCEPT ![i].state = "acted"]
    /\ effects' = [effects EXCEPT ![thread[i].call] = @ + 1]
    /\ UNCHANGED HandlerVars

\* It ends, with an envelope only if it acted; an error or a panic can come
\* before or after the act.
End(i, outcome) ==
    /\ thread[i].state \in Running
    /\ outcome \in {"valid", "invalid"} => thread[i].state = "acted"
    /\ thread' = [thread EXCEPT ![i].state = outcome]
    /\ UNCHANGED <<effects, HandlerVars>>

Tick ==
    /\ now < MaxTime
    /\ now' = now + 1
    /\ UNCHANGED <<grants, holder, call, waiting, thread, spawned, inFlight, results,
                   effects, answer>>

Next ==
    \/ \E a \in Callers, c \in Calls :
          \/ Refuse(a, c) \/ AnswerFromCache(a, c)
          \/ StartEffect(a, c) \/ JoinEffect(a, c) \/ StartRead(a, c)
          \/ SpawnFails(a, c)
    \/ Receive \/ Timeout
    \/ \E i \in Threads : Act(i) \/ \E outcome \in Outcome : End(i, outcome)
    \/ \E c \in Grantable, expires \in Expiries : Grant(c, expires)
    \/ Tick

Spec == Init /\ [][Next]_vars

\* A caller inside invoke is a running thread with a bounded wait.
FairSpec == Spec /\ WF_vars(Receive \/ Timeout)

-----------------------------------------------------------------------------
(* Properties.                                                              *)

\* Timeouts and retries in any order never run two handlers of one effectful
\* call at the same time; and every caller that is answered for it is given
\* the one envelope of that call, which comes from a handler that acted.
OncePerKey ==
    /\ \A i, j \in Threads :
          /\ thread[i].state \in Running /\ thread[j].state \in Running
          /\ thread[i].call = thread[j].call /\ Effectful(thread[i].call)
          => i = j
    /\ \A a \in Callers : answer[a].ok # 0 =>
          /\ thread[answer[a].ok].call = call[a]
          /\ Effectful(call[a]) => results[call[a]] = answer[a].ok /\ effects[call[a]] > 0

\* An effectful call begins or is answered from the cache only under a grant
\* for these arguments that has not expired, even when the effect is done.
AnswersAreApproved ==
    [][\A a \in Callers :
          /\ holder = NoCaller
          /\ holder' = a \/ (answer'[a] # answer[a] /\ answer'[a].ok # 0)
          /\ Effectful(call'[a])
          => Approved(call'[a])]_vars

\* A timed-out handler does not hold the bridge: the lock is always released.
LockIsReleased == (holder # NoCaller) ~> (holder = NoCaller)
=============================================================================
