---------------------------- MODULE ModelRoutes ----------------------------
(***************************************************************************)
(* Calls of a model through a published route: the publisher's snapshots,   *)
(* the captured policy, authorization, the caller's session, binding with a  *)
(* credential, the provider's stream, validation retries and fallback, all   *)
(* under one absolute deadline and a cancellation token.  Also the single    *)
(* probe call, bind_authorized, the call on an existing binding and the      *)
(* agent's own call with its one retry.  Calls of one session identity are   *)
(* serialized by the caller, so the model has one call at a time; the        *)
(* publisher, the token and the clocks run beside it.                        *)
(***************************************************************************)
EXTENDS Integers, FiniteSets, Sequences, SequencesExt

CONSTANTS
    Offers,         \* inputs of reload: [registry, candidates, allowed]
    MaxCandidates,  \* MAX_MODEL_ROUTE_CANDIDATES
    MaxRetries,     \* the invocation budget's max_retries
    MaxOutput,      \* max_output_bytes, in text parts
    MaxFrames,      \* bound on the responses of one stream
    MaxCalls,       \* bound on calls
    None

\* SnapshotError's answers.
SnapshotErrors ==
    {"EmptyCandidates", "CandidateLimit", "DuplicateCandidate", "InvalidRegistry", "MissingProfile"}

\* What a session can hold.
Entries == [call : Nat, author : {"user", "model"}]

ASSUME RouteAssumption ==
    /\ MaxCandidates \in Nat \ {0} /\ MaxRetries \in Nat /\ MaxOutput \in Nat
    /\ MaxFrames \in Nat /\ MaxCalls \in Nat
    /\ \A o \in Offers :
          /\ DOMAIN o = {"registry", "candidates", "allowed"}
          /\ o.candidates \in Seq(Range(o.candidates))

ASSUME NoneAssumption ==
    None \notin SnapshotErrors \cup {"ok"} \cup Seq(Entries)

VARIABLES
    current,    \* ModelRoutePublisher.current
    calls,      \* number of calls started
    call,       \* the call in progress, or the last one
    pc,         \* its await point
    stream,     \* responses of the provider's stream so far
    complete,   \* the collector's terminal evidence
    usage,      \* its last usage snapshot
    cancelled,  \* ModelRouteCancellation
    expired,    \* the policy's deadline has passed
    timeout,    \* the profile's own timer has fired
    session,    \* events of the caller's session: [call, author]
    asked       \* history: the provider requests of the call

ghosts == <<asked>>
clocks == <<cancelled, expired, timeout>>
collector == <<stream, complete, usage>>
vars == <<current, calls, call, pc, collector, clocks, session, ghosts>>

-----------------------------------------------------------------------------
(* Snapshots.                                                                *)

\* A registry: its profiles, those that do not validate, those a probe refuses (they
\* bring their own extensions or tool parser), those that need a credential, the roles.
ValidRegistry(r) ==
    /\ r.profiles \cap r.broken = {}
    /\ {r.worker, r.reviewer} \subseteq r.profiles \cup {None}

SnapshotError(o) ==
    CASE o.candidates = <<>> -> "EmptyCandidates"
      [] Len(o.candidates) > MaxCandidates -> "CandidateLimit"
      [] ~IsInjective(o.candidates) -> "DuplicateCandidate"
      [] ~ValidRegistry(o.registry) -> "InvalidRegistry"
      [] \E i \in DOMAIN o.candidates : o.candidates[i].profile \notin o.registry.profiles ->
             "MissingProfile"
      [] OTHER -> None

\* Identity of a probe's only candidate; authorization is not part of it.
ProbeDeclaration(o) ==
    LET c == o.candidates[1]
    IN  IF Len(o.candidates) # 1 \/ c.profile \in o.registry.broken \cup o.registry.tuned
        THEN None ELSE [candidate |-> c, registry |-> o.registry]

CapturedSnapshot == call.snapshot

Candidates == CapturedSnapshot.candidates

\* Slip: authorization is looked up in what is published now.
AllowsNow(c) == c \in current.allowed

Allows(c) == c \in CapturedSnapshot.allowed

-----------------------------------------------------------------------------
(* Provider errors and responses.                                            *)

AdkErrors == {"rate_limited", "unavailable", "timeout", "invalid_input", "internal"}

MapAdkError(e) ==
    CASE e \in {"rate_limited", "unavailable"} -> "RetryableProvider"
      [] e = "timeout" -> "Timeout"
      [] e = "invalid_input" -> "InvalidRequest"
      [] OTHER -> "Provider"

Response(content, partial, finish, done, tokens) ==
    [content |-> content, partial |-> partial, finish |-> finish, done |-> done, usage |-> tokens]

Delta == Response("text", TRUE, None, FALSE, None)
Text == Response("text", FALSE, None, FALSE, None)
Stop == Response("text", FALSE, "stop", TRUE, 1)
HalfStop == Response(None, FALSE, "stop", FALSE, None)
Trailer == Response(None, FALSE, None, TRUE, 2)
Thought == Response("other", FALSE, None, FALSE, None)
Broken == Response(None, FALSE, "failed", TRUE, None)
Responses == {Delta, Text, Stop, HalfStop, Trailer, Thought, Broken}

\* Interrupted, an error code or message, or a finish other than Stop.
ResponseFailure(r) == r.finish = "failed"

\* A bare trailer leaves the evidence; content or progress needs a fresh Stop.
CompleteAfter(r) ==
    IF r.content # None \/ r.partial \/ r.finish # None
    THEN r.done /\ ~r.partial /\ r.finish = "stop"
    ELSE complete

UsageAfter(r) == IF r.usage # None THEN r.usage ELSE usage

Texts(s) == Len(SelectSeq(s, LAMBDA r : r.content = "text"))

-----------------------------------------------------------------------------
RouteKinds == {"invoke", "complete_text", "session"}
Kinds == RouteKinds \cup {"bind", "probe", "observer", "direct", "agent"}
Declared == {"probe", "observer"}
InSession == call.kind \in {"session", "direct"}
CompleteText == call.kind \in {"complete_text"} \cup Declared

\* The await points a policy's deadline and token watch.
\* Slip: credential resolution is left to finish.
AwaitsExceptBind == {"load", "append_user", "ask", "frames", "append_model"}

Awaits == {"load", "append_user", "bind", "ask", "frames", "append_model"}

\* Cancellation is looked at first.
RouteStop ==
    IF cancelled THEN "Cancelled" ELSE IF expired THEN "DeadlineExceeded" ELSE None

Idle == [kind |-> None, snapshot |-> None, expected |-> None, index |-> 0, tries |-> 0, prepared |-> None,
         attempts |-> <<>>, outcome |-> None]

\* End the call with an error kind, after attempts.
Ends(kind, attempts) ==
    /\ call' = [call EXCEPT !.outcome = kind, !.attempts = attempts]
    /\ pc' = "done"

Attempt(kind) == Append(call.attempts, [ordinal |-> call.index, kind |-> kind])

Init ==
    /\ \E o \in Offers : SnapshotError(o) = None /\ current = o
    /\ calls = 0 /\ call = Idle /\ pc = "done"
    /\ stream = <<>> /\ complete = FALSE /\ usage = None
    /\ cancelled = FALSE /\ expired = FALSE /\ timeout = FALSE
    /\ session = <<>> /\ asked = <<>>

\* publish and reload: an invalid snapshot leaves the last valid one.
Reload(o) ==
    /\ current' = IF SnapshotError(o) = None THEN o ELSE current
    /\ UNCHANGED <<calls, call, pc, collector, clocks, session, ghosts>>

\* policy(deadline), then the call; a direct call has a binding of its first candidate.
\* A probe brings the declaration the host has authenticated, of this or of an earlier
\* publication.
StartCall(kind) ==
    /\ pc = "done" /\ calls < MaxCalls
    /\ calls' = calls + 1
    /\ \E o \in IF kind \in Declared THEN {x \in Offers : SnapshotError(x) = None} ELSE {current} :
          call' = [Idle EXCEPT !.kind = kind, !.snapshot = current,
                     !.expected = IF kind \in Declared THEN ProbeDeclaration(o) ELSE None]
    /\ pc' = IF kind = "agent" THEN "try" ELSE "head"
    /\ stream' = <<>> /\ complete' = FALSE /\ usage' = None
    /\ cancelled' = FALSE /\ expired' = FALSE /\ timeout' = FALSE
    /\ asked' = <<>>
    /\ UNCHANGED <<current, session>>

Cancel ==
    /\ pc # "done" /\ ~cancelled /\ call.kind # "agent"
    /\ cancelled' = TRUE
    /\ UNCHANGED <<current, calls, call, pc, collector, expired, timeout, session, ghosts>>

DeadlinePasses ==
    /\ pc # "done" /\ ~expired /\ call.kind # "agent"
    /\ expired' = TRUE
    /\ UNCHANGED <<current, calls, call, pc, collector, cancelled, timeout, session, ghosts>>

ProfileTimer ==
    /\ pc \in {"ask", "frames", "try", "collect"} /\ ~timeout
    /\ timeout' = TRUE
    /\ UNCHANGED <<current, calls, call, pc, collector, cancelled, expired, session, ghosts>>

Goto(where) == pc' = where /\ UNCHANGED call

\* Slip: every candidate prepares the session again.
PrepareAgain == InSession

NeedsPrepare == InSession /\ call.prepared = None

\* The head of the candidate loop, up to its first await.
NextCandidate ==
    LET i == call.index + 1
        next == [call EXCEPT !.index = i, !.tries = 0]
        denied == [next EXCEPT !.outcome = "AuthorizationDenied",
                               !.attempts = Append(@, [ordinal |-> i, kind |-> "AuthorizationDenied"])]
    IN  /\ pc = "head" /\ call.kind \in RouteKinds
        /\ IF i > Len(Candidates) THEN Ends("Exhausted", call.attempts)
           ELSE IF RouteStop # None THEN Ends(RouteStop, call.attempts)
           ELSE IF ~Allows(Candidates[i]) THEN call' = denied /\ pc' = "done"
           ELSE call' = next /\ pc' = IF NeedsPrepare THEN "load" ELSE "bind"
        /\ UNCHANGED <<current, calls, collector, clocks, session, ghosts>>

\* The first candidate only, no fallback.
Only(allowed, denials) ==
    IF ~allowed THEN Ends("AuthorizationDenied", denials)
    ELSE call' = [call EXCEPT !.index = 1] /\ pc' = "bind"

BindAuthorized ==
    /\ pc = "head" /\ call.kind = "bind"
    /\ IF RouteStop # None THEN Ends(RouteStop, <<>>)
       ELSE Only(Allows(Candidates[1]), <<[ordinal |-> 1, kind |-> "AuthorizationDenied"]>>)
    /\ UNCHANGED <<current, calls, collector, clocks, session, ghosts>>

Probe ==
    LET declared == ProbeDeclaration(CapturedSnapshot)
    IN  /\ pc = "head" /\ call.kind = "probe"
        /\ IF RouteStop # None THEN Ends(RouteStop, <<>>)
           ELSE IF declared = None THEN Ends("Configuration", <<>>)
           ELSE Only(declared = call.expected /\ Allows(Candidates[1]), <<>>)
        /\ UNCHANGED <<current, calls, collector, clocks, session, ghosts>>

\* The trajectory observer: an authorized reviewer is part of its declaration.
Observe ==
    LET declared == ProbeDeclaration(CapturedSnapshot)
        reviewer == Candidates[1].role = "reviewer" /\ Allows(Candidates[1])
    IN  /\ pc = "head" /\ call.kind = "observer"
        /\ IF RouteStop # None THEN Ends(RouteStop, <<>>)
           ELSE IF declared = None \/ ~reviewer THEN Ends("Configuration", <<>>)
           ELSE Only(declared = call.expected, <<>>)
        /\ UNCHANGED <<current, calls, collector, clocks, session, ghosts>>

\* ModelInvocationSpec::invoke_in_session_validated; the spec may name another route.
DirectCall ==
    /\ pc = "head" /\ call.kind = "direct"
    /\ \/ Ends("RouteMismatch", <<>>)
       \/ call' = [call EXCEPT !.index = 1] /\ pc' = "load"
    /\ UNCHANGED <<current, calls, collector, clocks, session, ghosts>>

\* await_route: the token or the deadline ends the call and drops what it waits for.
Stopped ==
    /\ pc \in Awaits /\ call.kind # "agent" /\ RouteStop # None
    /\ Ends(RouteStop, call.attempts)
    /\ UNCHANGED <<current, calls, collector, clocks, session, ghosts>>

\* The awaited future is ready and neither has struck (checked before and after).
Ready(where) == pc = where /\ RouteStop = None

\* A store failure is terminal.  A direct call has no attempts to report.
SessionFails ==
    /\ Ready(pc) /\ pc \in {"load", "append_user", "append_model"}
    /\ Ends("Session", IF call.kind = "direct" THEN <<>> ELSE Attempt("Session"))
    /\ UNCHANGED <<current, calls, collector, clocks, session, ghosts>>

\* get_for_identity; an answer for another identity is a SessionFails.
Load ==
    /\ Ready("load")
    /\ call' = [call EXCEPT !.prepared = session]
    /\ pc' = "append_user"
    /\ UNCHANGED <<current, calls, collector, clocks, session, ghosts>>

Entry(author) == [call |-> calls, author |-> author]
Stored(author) == session # <<>> /\ Last(session) = Entry(author)

\* The store applies an append; its answer may still come too late.
StoreApplies ==
    \E author \in {"user", "model"} :
        /\ pc = IF author = "user" THEN "append_user" ELSE "append_model"
        /\ ~Stored(author)
        /\ session' = Append(session, Entry(author))
        /\ UNCHANGED <<current, calls, call, pc, collector, clocks, ghosts>>

AppendedUser ==
    /\ Ready("append_user") /\ Stored("user")
    /\ Goto(IF call.kind = "direct" THEN "ask" ELSE "bind")
    /\ UNCHANGED <<current, calls, collector, clocks, session, ghosts>>

\* validate, resolve the credential, construct the provider client.
Bind ==
    /\ Ready("bind")
    /\ \/ /\ Candidates[call.index].profile \notin CapturedSnapshot.registry.broken
          /\ IF call.kind = "bind" THEN Ends("ok", <<>>) ELSE Goto("ask")
       \/ Ends("Configuration",               \* no credential, no client
               IF call.kind = "observer" THEN <<>> ELSE Attempt("Configuration"))
    /\ UNCHANGED <<current, calls, collector, clocks, session, ghosts>>

Shown == IF InSession THEN Append(call.prepared, Entry("user")) ELSE <<>>

\* The call of the provider that opens a stream.
Ask ==
    /\ Ready("ask") /\ ~timeout
    /\ call' = [call EXCEPT !.tries = @ + 1]
    /\ pc' = "frames"
    /\ stream' = <<>> /\ complete' = FALSE /\ usage' = None
    /\ asked' = Append(asked, [candidate |-> Candidates[call.index], shown |-> Shown])
    /\ UNCHANGED <<current, calls, clocks, session>>

\* A failed invocation: a retryable provider error goes to the next candidate of a
\* route, any other failure is terminal.
InvocationFails(profileError) ==
    LET kind == CASE profileError = "StructuredOutput" -> "Protocol"
                  [] profileError = "Timeout" -> "Timeout"
                  [] OTHER -> "TerminalProvider"
    IN  IF profileError = "RetryableProvider" /\ call.kind \in RouteKinds
        THEN /\ call' = [call EXCEPT !.attempts = Attempt("RetryableProvider")]
             /\ pc' = "head"
        ELSE Ends(IF profileError = "StructuredOutput" THEN "Protocol" ELSE "Provider",
                  IF call.kind = "direct" THEN <<>> ELSE Attempt(kind))

\* The provider refuses the request, or its stream errs; the profile's timer is one
\* for the request and its stream.
ProviderErrs ==
    /\ RouteStop = None /\ pc \in {"ask", "frames"}
    /\ \E e \in AdkErrors :
          /\ timeout => e = "timeout"
          /\ InvocationFails(MapAdkError(e))
    /\ timeout' = FALSE
    /\ asked' = IF pc = "frames" THEN asked
                ELSE Append(asked, [candidate |-> Candidates[call.index], shown |-> Shown])
    /\ UNCHANGED <<current, calls, collector, cancelled, expired, session>>

\* One response of the stream.
Receive ==
    /\ Ready("frames") /\ ~timeout /\ Len(stream) < MaxFrames
    /\ \E r \in Responses :
         /\ stream' = Append(stream, r)
         /\ IF ResponseFailure(r)
            THEN InvocationFails("Provider") /\ UNCHANGED <<complete, usage>>
            ELSE /\ usage' = UsageAfter(r)
                 /\ complete' = CompleteAfter(r)
                 /\ IF Texts(stream') > MaxOutput \/ (r.content = "other" /\ CompleteText)
                    THEN InvocationFails("StructuredOutput")
                    ELSE UNCHANGED <<call, pc>>
    /\ UNCHANGED <<current, calls, clocks, session, ghosts>>

\* The stream ends: incomplete, invalid with or without a try left, or accepted.
StreamEnds ==
    /\ Ready("frames") /\ ~timeout
    /\ \/ ~complete /\ InvocationFails("Provider") /\ UNCHANGED collector
       \/ /\ complete /\ call.tries <= MaxRetries
          /\ Goto("ask")
          /\ stream' = <<>> /\ complete' = FALSE /\ usage' = None
       \/ complete /\ call.tries > MaxRetries /\ InvocationFails("StructuredOutput")
          /\ UNCHANGED collector
       \/ /\ complete
          /\ IF InSession THEN Goto("append_model") ELSE Ends("ok", call.attempts)
          /\ UNCHANGED collector
    /\ UNCHANGED <<current, calls, clocks, session, ghosts>>

AppendedModel ==
    /\ Ready("append_model") /\ Stored("model")
    /\ Ends("ok", call.attempts)
    /\ UNCHANGED <<current, calls, collector, clocks, session, ghosts>>

-----------------------------------------------------------------------------
(* The agent's own call: Llm for ModelBinding.  tries counts its requests;   *)
(* the profile's deadline is one for both.                                   *)

Payload(r) == r.content = "text"

AgentFails(error) ==
    IF error = "rate_limited" /\ call.tries = 1
    THEN pc' = "try" /\ UNCHANGED call /\ stream' = <<>> /\ usage' = None
    ELSE Ends(error, <<>>) /\ UNCHANGED <<stream, usage>>

AgentTry ==
    /\ pc = "try"
    /\ IF timeout THEN Ends("timeout", <<>>) /\ UNCHANGED asked
       ELSE /\ call' = [call EXCEPT !.tries = @ + 1]
            /\ pc' = "collect"
            /\ asked' = Append(asked, [candidate |-> Candidates[1], shown |-> <<>>])
    /\ UNCHANGED <<current, calls, collector, clocks, session>>

AgentErrs ==
    /\ pc = "collect"
    /\ \E e \in AdkErrors :
          /\ timeout => e = "timeout"
          /\ AgentFails(e)
    /\ UNCHANGED <<current, calls, complete, clocks, session, ghosts>>

AgentReceive ==
    /\ pc = "collect" /\ ~timeout /\ Len(stream) < MaxFrames
    /\ \E r \in Responses :
         /\ IF ResponseFailure(r) THEN Ends("internal", <<>>) ELSE UNCHANGED <<call, pc>>
         /\ stream' = Append(stream, r)
         /\ usage' = IF ResponseFailure(r) THEN usage ELSE UsageAfter(r)
    /\ UNCHANGED <<current, calls, complete, clocks, session, ghosts>>

\* Nothing but metadata is unreachable; otherwise the payloads are delivered.
AgentStreamEnds ==
    /\ pc = "collect" /\ ~timeout
    /\ IF \E i \in DOMAIN stream : Payload(stream[i]) THEN Ends("ok", <<>>)
       ELSE Ends("internal", <<>>)
    /\ UNCHANGED <<current, calls, collector, clocks, session, ghosts>>

-----------------------------------------------------------------------------
Local ==
    \/ NextCandidate \/ BindAuthorized \/ Probe \/ Observe \/ DirectCall
    \/ Stopped \/ AppendedUser \/ AppendedModel

Environment ==
    \/ SessionFails \/ Load \/ StoreApplies \/ Bind \/ Ask \/ ProviderErrs \/ Receive \/ StreamEnds

Agent == AgentTry \/ AgentErrs \/ AgentReceive \/ AgentStreamEnds

Next ==
    \/ \E o \in Offers : Reload(o)
    \/ \E kind \in Kinds : StartCall(kind)
    \/ Cancel \/ DeadlinePasses \/ ProfileTimer
    \/ Local \/ Environment \/ Agent

Spec == Init /\ [][Next]_vars

\* The executor polls the call and the clocks run; stores, brokers and providers may
\* never answer.
FairSpec ==
    /\ Spec
    /\ WF_vars(Local) /\ WF_vars(DeadlinePasses)
    /\ WF_vars(AgentTry) /\ WF_vars(ProfileTimer) /\ WF_vars(timeout /\ AgentErrs)

-----------------------------------------------------------------------------
\* Each call leaves at most its user and, right after it, its accepted answer; each
\* request of the call, whatever the retries and fallbacks before it, shows the session as
\* it was before the call and its user once; a call that succeeds has left both
\* (sessions::prepare, append_accepted, await_route).
SessionIsATranscript ==
    /\ \A i, j \in DOMAIN session : session[i] = session[j] => i = j
    /\ \A i \in DOMAIN session : session[i].author = "model" =>
          i > 1 /\ session[i - 1] = [session[i] EXCEPT !.author = "user"]
    /\ InSession => \E n \in 0..Len(session) :
          /\ \A i \in DOMAIN session : session[i].call < calls <=> i <= n
          /\ \A k \in DOMAIN asked : asked[k].shown = SubSeq(session, 1, n) \o <<Entry("user")>>
    /\ InSession /\ call.outcome = "ok" => Stored("model")

\* A request goes only to a candidate that the snapshot captured by the call allows, and
\* only after every earlier candidate of it was asked and failed retryably, whatever is
\* published meanwhile (ModelRoutePublisher::policy, invoke_with_response_policy).
AskedWasAuthorized ==
    call.kind \notin {"direct", "agent", None} =>
        \A k \in DOMAIN asked :
            \E i \in DOMAIN call.snapshot.candidates :
                /\ asked[k].candidate = call.snapshot.candidates[i]
                /\ asked[k].candidate \in call.snapshot.allowed
                /\ \A j \in 1..i - 1 :
                      /\ \E m \in 1..k - 1 : asked[m].candidate = call.snapshot.candidates[j]
                      /\ [ordinal |-> j, kind |-> "RetryableProvider"] \in Range(call.attempts)

\* A call ends although stores, brokers and providers may never answer it.
CallEnds == pc # "done" ~> pc = "done"
=============================================================================
