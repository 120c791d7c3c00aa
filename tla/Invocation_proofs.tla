------------------------- MODULE Invocation_proofs --------------------------
(***************************************************************************)
(* Proofs about what bounds and authorises the calls of one invocation.    *)
(*                                                                         *)
(* RunController: the ceilings, the single closing of every tool call, the *)
(* latch and the deadlines hold for every RunLimits.                       *)
(*                                                                         *)
(* ModelRoutes: for any offers, retry budgets, sessions and answers of the *)
(* providers, a request goes only to a candidate that the captured snapshot*)
(* allows, in its order, and the session is the transcript of the calls.   *)
(***************************************************************************)
EXTENDS RunController, ModelRoutes, SequenceTheorems, TLAPS

(***************************************************************************)
(* RunController.                                                          *)
(***************************************************************************)

\* A run that still runs has handed no call to cleanup.  Without it nothing
\* bounds the cleanups by one.
NothingCleanedYet == cause = "none" => cleaned = 0

IInv == TypeOK /\ WithinCeilings /\ EveryCallClosedOnce /\ NothingCleanedYet

-----------------------------------------------------------------------------
(* Lemmas about the helpers.                                                *)

\* A reached timeout is a kind, or "none".
LEMMA ReachedTimeoutType ==
    ASSUME NEW e \in Samples
    PROVE  ReachedTimeout(e) \in TimeoutKind \union {"none"}
BY DEF ReachedTimeout, Consider, TimeoutKind

\* Deadlines are natural numbers.
LEMMA DeadlineType ==
    ASSUME TypeOK, NEW kind \in TimeoutKind
    PROVE  Deadline(kind) \in Nat
BY LimitAssumption, ToolAssumption DEF TypeOK, Deadline, TimeoutKind, Positive

\* reached_timeout answers None only before every armed deadline.
LEMMA NoneReached ==
    ASSUME TypeOK, NEW e \in Samples, ReachedTimeout(e) = "none",
           NEW kind \in Armed
    PROVE  e < Deadline(kind)
<1>1. kind \in TimeoutKind
  BY DEF Armed, TimeoutKind
<1>2. Deadline(kind) \in Nat /\ e \in Nat
  BY <1>1, DeadlineType, ToolAssumption DEF Samples
<1>3. ~(e >= Deadline(kind))
  <2>1. CASE kind = "WallTime"
    BY <2>1 DEF ReachedTimeout, Consider
  <2>2. CASE kind = "IdleTime"
    BY <2>2 DEF ReachedTimeout, Consider
  <2>3. CASE kind = "ToolTime"
    BY <2>3 DEF ReachedTimeout, Consider
  <2>4. QED
    BY <1>1, <2>1, <2>2, <2>3 DEF TimeoutKind
<1>4. QED
  BY <1>2, <1>3

\* The timeout that reached_timeout names is armed, reached and earliest.
LEMMA EarliestReached ==
    ASSUME TypeOK, NEW e \in Samples, ReachedTimeout(e) # "none"
    PROVE  /\ ReachedTimeout(e) \in Armed
           /\ e >= Deadline(ReachedTimeout(e))
           /\ \A kind \in Armed : e >= Deadline(kind)
                  => Deadline(ReachedTimeout(e)) <= Deadline(kind)
<1> DEFINE w == Deadline("WallTime")
<1> DEFINE i == Deadline("IdleTime")
<1> DEFINE t == Deadline("ToolTime")
<1>1. w \in Nat /\ i \in Nat /\ t \in Nat /\ e \in Nat
  BY DeadlineType, ToolAssumption DEF TimeoutKind, Samples
<1>2. Armed \subseteq TimeoutKind
  BY DEF Armed, TimeoutKind
<1> HIDE DEF w, i, t
<1>3. ReachedTimeout(e) \in Armed /\ e >= Deadline(ReachedTimeout(e))
  BY <1>1 DEF ReachedTimeout, Consider, w, i, t
<1>4. ASSUME NEW kind \in Armed, e >= Deadline(kind)
      PROVE  Deadline(ReachedTimeout(e)) <= Deadline(kind)
  <2>1. CASE kind = "WallTime"
    BY <2>1, <1>1, <1>4 DEF ReachedTimeout, Consider, w, i, t
  <2>2. CASE kind = "IdleTime"
    BY <2>2, <1>1, <1>4 DEF ReachedTimeout, Consider, w, i, t
  <2>3. CASE kind = "ToolTime"
    BY <2>3, <1>1, <1>4 DEF ReachedTimeout, Consider, w, i, t
  <2>4. QED
    BY <1>2, <2>1, <2>2, <2>3 DEF TimeoutKind
<1>5. QED
  BY <1>3, <1>4

-----------------------------------------------------------------------------
(* The inductive invariant.                                                 *)

LEMMA InitIInv == ControllerInit => IInv
BY LimitAssumption, ToolAssumption
   DEF ControllerInit, IInv, TypeOK, WithinCeilings, EveryCallClosedOnce, NothingCleanedYet,
       Ended, Positive, Cause

\* terminate keeps the invariant: it is only reached while the run runs.
LEMMA TerminateIInv ==
    ASSUME IInv, Running, NEW c \in Cause, c # "none", Terminate(c),
           last' \in last..MaxElapsed
    PROVE  IInv'
<1>1. TypeOK'
  <2>1. cleaned' \in Nat
    BY DEF IInv, TypeOK, Terminate
  <2>2. /\ last' \in 0..MaxElapsed /\ idle' \in 0..last' /\ started' \in 0..last'
        /\ UNCHANGED <<turns, total, perTool, bytes, authority, closed>>
    BY ToolAssumption DEF IInv, TypeOK, Terminate, charged
  <2>3. active' \in Tools \union {NoTool} /\ cause' \in Cause \union {"none"}
    BY DEF Terminate
  <2>4. QED
    BY <2>1, <2>2, <2>3 DEF IInv, TypeOK
<1>2. WithinCeilings'
  BY DEF IInv, WithinCeilings, Terminate, charged
<1>3. EveryCallClosedOnce'
  <2>1. total = closed + (IF active = NoTool THEN 0 ELSE 1) /\ cleaned = 0
    BY DEF IInv, TypeOK, EveryCallClosedOnce, NothingCleanedYet, Running
  <2>2. /\ total' = total /\ closed' = closed /\ active' = NoTool
        /\ cleaned' = (IF active = NoTool THEN 0 ELSE 1)
    BY <2>1 DEF Terminate, charged
  <2>3. QED
    BY <2>1, <2>2 DEF IInv, TypeOK, EveryCallClosedOnce
<1>4. NothingCleanedYet'
  BY DEF NothingCleanedYet, Terminate
<1>5. QED
  BY <1>1, <1>2, <1>3, <1>4 DEF IInv

\* So does a refusal, which passed the boundary.
LEMMA RefuseIInv ==
    ASSUME IInv, NEW e \in Samples, NEW c \in Cause, c # "none", Refuse(e, c)
    PROVE  IInv'
<1>1. Running /\ Terminate(c)
  BY DEF Refuse, Passes, Running
<1>2. last' \in last..MaxElapsed
  BY ToolAssumption DEF Refuse, Passes, Samples, IInv, TypeOK
<1>3. QED
  BY <1>1, <1>2, TerminateIInv

\* The causes an operation can be refused with.
LEMMA CauseFacts ==
    /\ "none" \notin Cause
    /\ TimeoutKind \subseteq Cause /\ LimitKind \subseteq Cause
    /\ ControlError \subseteq Cause /\ "Cancelled" \in Cause
BY DEF Cause, TimeoutKind, LimitKind, ControlError

\* An operation that is progress moves the clock to its sample.
LEMMA ProgressFacts ==
    ASSUME IInv, NEW e \in Samples, Progress(e)
    PROVE  /\ Running /\ cleaned = 0
           /\ last' \in 0..MaxElapsed /\ last' >= last /\ last' = e /\ idle' = e
           /\ cause' = cause /\ authority' = authority /\ cleaned' = cleaned
           /\ e \in 0..MaxElapsed
BY ToolAssumption DEF IInv, TypeOK, NothingCleanedYet, Progress, Passes, Running, Samples

LEMMA NextIInv == IInv /\ [ControllerNext]_controllerVars => IInv'
<1> SUFFICES ASSUME IInv, [ControllerNext]_controllerVars PROVE IInv'
  OBVIOUS
<1> USE DEF TypeOK
<1>1. ASSUME NEW e \in Samples, ClockRegressed(e) PROVE IInv'
  BY <1>1, CauseFacts, TerminateIInv, ToolAssumption
     DEF ClockRegressed, ControlError, IInv
<1>2. ASSUME NEW e \in Samples, TimedOut(e) PROVE IInv'
  BY <1>2, CauseFacts, TerminateIInv, ReachedTimeoutType, ToolAssumption
     DEF TimedOut, IInv, Samples
<1>3. ASSUME NEW e \in Samples, Poll(e) PROVE IInv'
  BY <1>3, ToolAssumption
     DEF Poll, Passes, Samples, IInv, WithinCeilings, EveryCallClosedOnce,
         NothingCleanedYet, Ended, charged
<1>4. ASSUME NEW e \in Samples, AdmitModelTurn(e) PROVE IInv'
  BY <1>4, ProgressFacts, LimitAssumption
     DEF AdmitModelTurn, IInv, WithinCeilings, EveryCallClosedOnce,
         NothingCleanedYet, Ended, Positive
<1>5. ASSUME NEW e \in Samples, RefuseModelTurn(e) PROVE IInv'
  BY <1>5, CauseFacts, RefuseIInv DEF RefuseModelTurn, ControlError, LimitKind
<1>6. ASSUME NEW e \in Samples, NEW t \in Tools, BeginToolCall(e, t) PROVE IInv'
  <2>1. /\ perTool' \in [Tools -> Nat]
        /\ \A u \in Tools : perTool'[u] <= MaxCallsPerTool
    BY <1>6, LimitAssumption DEF BeginToolCall, IInv, WithinCeilings, Positive
  <2>2. TypeOK'
    BY <1>6, <2>1, ProgressFacts DEF BeginToolCall, IInv
  <2>3. WithinCeilings'
    BY <1>6, <2>1, LimitAssumption DEF BeginToolCall, IInv, WithinCeilings, Positive
  <2>4. EveryCallClosedOnce' /\ NothingCleanedYet'
    BY <1>6, ProgressFacts, ToolAssumption
       DEF BeginToolCall, IInv, EveryCallClosedOnce, NothingCleanedYet, Ended, Running
  <2>5. QED
    BY <2>2, <2>3, <2>4 DEF IInv
<1>7. ASSUME NEW e \in Samples, NEW t \in Tools, RefuseToolCall(e, t) PROVE IInv'
  BY <1>7, CauseFacts, RefuseIInv DEF RefuseToolCall, ControlError, LimitKind
<1>8. ASSUME NEW e \in Samples, NEW n \in Chunks, AcceptToolOutput(e, n) PROVE IInv'
  <2>1. n \in Nat /\ e \in 0..MaxElapsed
    BY LimitAssumption, ToolAssumption DEF Chunks, Samples, Positive
  <2>2. TypeOK'
    BY <1>8, <2>1 DEF AcceptToolOutput, Passes, IInv
  <2>3. WithinCeilings'
    BY <1>8, <2>1, LimitAssumption DEF AcceptToolOutput, IInv, WithinCeilings, Positive
  <2>4. EveryCallClosedOnce' /\ NothingCleanedYet'
    BY <1>8 DEF AcceptToolOutput, IInv, EveryCallClosedOnce, NothingCleanedYet, Ended
  <2>5. QED
    BY <2>2, <2>3, <2>4 DEF IInv
<1>9. ASSUME NEW e \in Samples, NEW n \in Chunks, RefuseToolOutput(e, n) PROVE IInv'
  BY <1>9, CauseFacts, RefuseIInv DEF RefuseToolOutput, ControlError, LimitKind
<1>10. ASSUME NEW e \in Samples, FinishToolCall(e) PROVE IInv'
  <2>1. CASE active = NoTool
    BY <2>1, <1>10, CauseFacts, RefuseIInv DEF FinishToolCall, ControlError
  <2>2. CASE active # NoTool
    BY <2>2, <1>10, ProgressFacts
       DEF FinishToolCall, IInv, WithinCeilings, EveryCallClosedOnce,
           NothingCleanedYet, Ended, charged
  <2>3. QED
    BY <2>1, <2>2
<1>11. ASSUME NEW e \in Samples, MarkProgress(e) PROVE IInv'
  BY <1>11, ProgressFacts
     DEF MarkProgress, IInv, WithinCeilings, EveryCallClosedOnce,
         NothingCleanedYet, Ended, charged
<1>12. ASSUME NEW e \in Samples, RequestCancel(e) PROVE IInv'
  BY <1>12, CauseFacts, RefuseIInv DEF RequestCancel
<1>13. ASSUME NEW e \in Samples, Finish(e) PROVE IInv'
  <2>1. CASE active # NoTool
    BY <2>1, <1>13, CauseFacts, RefuseIInv DEF Finish, ControlError
  <2>2. CASE active = NoTool
    BY <2>2, <1>13, ToolAssumption
       DEF Finish, Passes, Samples, IInv, WithinCeilings, EveryCallClosedOnce,
           NothingCleanedYet, Ended, charged
  <2>3. QED
    BY <2>1, <2>2
<1>14. ASSUME RejectIdentity PROVE IInv'
  <2>1. CASE active # NoTool
    BY <2>1, <1>14, CauseFacts, TerminateIInv, ToolAssumption
       DEF RejectIdentity, ControlError, IInv
  <2>2. CASE active = NoTool
    BY <2>2, <1>14
       DEF RejectIdentity, IInv, WithinCeilings, EveryCallClosedOnce,
           NothingCleanedYet, Ended, charged, clock
  <2>3. QED
    BY <2>1, <2>2
<1>15. ASSUME UNCHANGED controllerVars PROVE IInv'
  BY <1>15 DEF controllerVars, IInv, WithinCeilings, EveryCallClosedOnce, NothingCleanedYet, Ended
<1>16. QED
  BY <1>1, <1>2, <1>3, <1>4, <1>5, <1>6, <1>7, <1>8, <1>9, <1>10, <1>11, <1>12,
     <1>13, <1>14, <1>15 DEF ControllerNext

\* The inductive invariant holds of every run of the controller.
THEOREM Invariance == ControllerSpec => []IInv
BY InitIInv, NextIInv, PTL DEF ControllerSpec

\* Type correctness for every RunLimits.
THEOREM TypeCorrect == ControllerSpec => []TypeOK
<1>1. IInv => TypeOK
  BY DEF IInv
<1>2. QED
  BY Invariance, <1>1, PTL

\* No sequence of operations charges a run more than its ceilings.
THEOREM CeilingsHold == ControllerSpec => []WithinCeilings
<1>1. IInv => WithinCeilings
  BY DEF IInv
<1>2. QED
  BY Invariance, <1>1, PTL

\* Every admitted call is closed once, by finish_tool_call or by cleanup.
THEOREM CallsClosedOnce == ControllerSpec => []EveryCallClosedOnce
<1>1. IInv => EveryCallClosedOnce
  BY DEF IInv
<1>2. QED
  BY Invariance, <1>1, PTL

-----------------------------------------------------------------------------
(* Action properties.                                                       *)

\* A run that has ended accepts nothing more.
THEOREM LatchHolds == ControllerSpec => EndedIsFinal
<1>1. [ControllerNext]_controllerVars => [Ended => UNCHANGED controllerVars]_controllerVars
  <2> SUFFICES ASSUME ControllerNext, Ended PROVE FALSE
    BY DEF EndedIsFinal
  <2>1. ~Running
    BY DEF Running, Ended
  <2>2. QED
    BY <2>1 DEF ControllerNext, ClockRegressed, TimedOut, Poll, Refuse, Progress, AdmitModelTurn,
        RefuseModelTurn, BeginToolCall, RefuseToolCall, AcceptToolOutput,
        RefuseToolOutput, FinishToolCall, MarkProgress, RequestCancel, Finish,
        RejectIdentity, Passes, Running
<1>2. QED
  BY <1>1, PTL DEF ControllerSpec, EndedIsFinal

\* A run is charged, and finishes, only before every armed deadline.
THEOREM ChargedInTime == ControllerSpec => NoWorkPastDeadline
<1> DEFINE A == charged' # charged \/ (authority = "held" /\ authority' = "finished") =>
                   \A kind \in Armed : last' < Deadline(kind)
<1>1. IInv /\ [ControllerNext]_controllerVars => [A]_controllerVars
  <2> SUFFICES ASSUME IInv, ControllerNext,
                      charged' # charged \/ (authority = "held" /\ authority' = "finished"),
                      NEW kind \in Armed
               PROVE  last' < Deadline(kind)
    OBVIOUS
  <2>1. ASSUME NEW e \in Samples, Passes(e), last' = e
        PROVE  last' < Deadline(kind)
    BY <2>1, NoneReached DEF Passes, IInv
  <2>2. ASSUME NEW c, Terminate(c) PROVE FALSE
    BY <2>2 DEF Terminate, charged
  <2>3. \E e \in Samples : Passes(e) /\ last' = e
    BY <2>2 DEF ControllerNext, ClockRegressed, TimedOut, Poll, Refuse, Progress, AdmitModelTurn,
        RefuseModelTurn, BeginToolCall, RefuseToolCall, AcceptToolOutput,
        RefuseToolOutput, FinishToolCall, MarkProgress, RequestCancel, Finish,
        RejectIdentity, charged
  <2>4. QED
    BY <2>1, <2>3
<1>2. QED
  BY <1>1, Invariance, PTL DEF ControllerSpec, NoWorkPastDeadline

\* A run that times out names the earliest deadline it reached.
THEOREM EarliestNamed == ControllerSpec => TimeoutIsEarliest
<1> DEFINE A == cause = "none" /\ cause' \in TimeoutKind =>
                   /\ cause' \in Armed
                   /\ last' >= Deadline(cause')
                   /\ \A kind \in Armed : Deadline(cause') <= Deadline(kind)
<1>1. IInv /\ [ControllerNext]_controllerVars => [A]_controllerVars
  <2> SUFFICES ASSUME IInv, ControllerNext, cause = "none", cause' \in TimeoutKind
               PROVE  /\ cause' \in Armed
                      /\ last' >= Deadline(cause')
                      /\ \A kind \in Armed : Deadline(cause') <= Deadline(kind)
    OBVIOUS
  <2>1. PICK e \in Samples : TimedOut(e)
    BY DEF ControllerNext, ClockRegressed, TimedOut, Poll, Refuse, Progress, AdmitModelTurn,
        RefuseModelTurn, BeginToolCall, RefuseToolCall, AcceptToolOutput,
        RefuseToolOutput, FinishToolCall, MarkProgress, RequestCancel, Finish,
        RejectIdentity, Terminate, TimeoutKind
  <2>2. cause' = ReachedTimeout(e) /\ last' = e /\ ReachedTimeout(e) # "none"
    BY <2>1 DEF TimedOut, Terminate
  <2>3. \A kind \in Armed : Deadline(kind) \in Nat
    BY DeadlineType DEF Armed, TimeoutKind, IInv
  <2>4. e \in Nat
    BY ToolAssumption DEF Samples
  <2>5. QED
    BY <2>2, <2>3, <2>4, EarliestReached DEF IInv
<1>2. QED
  BY <1>1, Invariance, PTL DEF ControllerSpec, TimeoutIsEarliest

(***************************************************************************)
(* ModelRoutes.                                                            *)
(***************************************************************************)

(* The inductive invariant.                                                  *)

RouteCall == call.kind \notin {"direct", "agent", None}
SingleKinds == {"bind"} \cup Declared

Attempts == [ordinal : Nat,
             kind : {"RetryableProvider", "AuthorizationDenied", "Session", "Configuration",
                     "Protocol", "Timeout", "TerminalProvider"}]

CallFields ==
    {"kind", "snapshot", "expected", "index", "tries", "prepared", "attempts", "outcome"}

IsCall(c) == c = [f \in CallFields |-> c[f]]

\* The types the argument needs: the call is a record of its fields, and the histories
\* and the session are sequences.
RouteTypes ==
    /\ IsCall(call)
    /\ call.index \in Nat /\ call.attempts \in Seq(Attempts)
    /\ calls \in Nat /\ session \in Seq(Entries)
    /\ asked \in Seq(Range(asked))

\* Only valid snapshots are published, and a call under way has captured one of them.
SnapshotIsValid ==
    /\ current \in Offers /\ SnapshotError(current) = None
    /\ pc # "done" => call.snapshot \in Offers /\ SnapshotError(call.snapshot) = None

\* Where each kind of call can be.
KindAtPoint ==
    /\ pc \in Awaits \cup {"done", "head", "try", "collect"}
    /\ pc # "done" => call.kind \in Kinds
    /\ pc \in {"try", "collect"} <=> pc # "done" /\ call.kind = "agent"
    /\ pc \in {"load", "append_user", "append_model"} => InSession
    /\ call.kind = "direct" => pc # "bind" /\ (pc = "head" => call.prepared = None)

\* Candidate j was asked among the first k requests, and failed retryably.
WasAsked(j, k) == \E m \in 1..k : asked[m].candidate = Candidates[j]
Failed(j) == [ordinal |-> j, kind |-> "RetryableProvider"] \in Range(call.attempts)

\* The candidate a call works on is allowed, and those before it were asked and failed.
\* A call of the first candidate only has asked nothing before it is bound.
CandidateIsNext ==
    RouteCall =>
        /\ pc \in Awaits =>
              /\ call.index \in 1..Len(Candidates)
              /\ Candidates[call.index] \in call.snapshot.allowed
              /\ \A j \in 1..call.index - 1 : WasAsked(j, Len(asked)) /\ Failed(j)
        /\ pc = "head" => \A j \in 1..call.index : WasAsked(j, Len(asked)) /\ Failed(j)
        /\ pc = "frames" => WasAsked(call.index, Len(asked))
        /\ pc \in {"head", "bind"} /\ call.kind \in SingleKinds => asked = <<>>

-----------------------------------------------------------------------------
\* The last t entries of a session are those of call c: its user, then its model.
OwnIn(s, c, t) ==
    /\ t <= Len(s)
    /\ \A i \in 1..Len(s) - t : s[i].call < c
    /\ t > 0 => s[Len(s) - t + 1] = [call |-> c, author |-> "user"]
    /\ t > 1 => s[Len(s) - t + 2] = [call |-> c, author |-> "model"]

Own(t) == OwnIn(session, calls, t)

Prior(t) == SubSeq(session, 1, Len(session) - t)

\* How much of the call is in the session, by where the call is.
OwnEntries ==
    /\ \E t \in 0..2 : Own(t)
    /\ ~InSession \/ pc = "load" \/ (pc = "head" /\ call.prepared = None) => Own(0)
    /\ pc = "append_user" => Own(0) \/ Own(1)
    /\ InSession /\ (pc \in {"bind", "ask", "frames"} \/ (pc = "head" /\ call.prepared # None)) => Own(1)
    /\ pc = "append_model" => Own(1) \/ Own(2)
    /\ InSession /\ call.outcome = "ok" => pc = "done" /\ Own(2)
    /\ pc \in {"bind", "ask", "frames", "append_user", "append_model"} /\ InSession => call.prepared # None

\* A user comes before its model, and nothing is there twice.
Ordered ==
    /\ \A i, j \in DOMAIN session : session[i] = session[j] => i = j
    /\ \A i \in DOMAIN session : session[i].author = "model" =>
          i > 1 /\ session[i - 1] = [session[i] EXCEPT !.author = "user"]

\* What was loaded is the session before the call, and each request shows that and the user.
ShownIsPrior ==
    InSession => \A t \in 0..2 : Own(t) =>
        /\ call.prepared # None => call.prepared = Prior(t)
        /\ \A k \in DOMAIN asked : asked[k].shown = Prior(t) \o <<Entry("user")>>

RouteIInv ==
    /\ RouteTypes /\ SnapshotIsValid /\ KindAtPoint
    /\ CandidateIsNext /\ AskedWasAuthorized
    /\ OwnEntries /\ Ordered /\ ShownIsPrior

-----------------------------------------------------------------------------
(* Lemmas about the fields of a call, its attempts and its requests.         *)

\* A call that ends keeps all but its outcome and its attempts.
LEMMA EndsFacts ==
    ASSUME NEW o, NEW attempts, IsCall(call), Ends(o, attempts)
    PROVE  /\ IsCall(call') /\ call'.kind = call.kind /\ call'.snapshot = call.snapshot
           /\ call'.index = call.index /\ call'.prepared = call.prepared
           /\ call'.attempts = attempts /\ call'.outcome = o /\ pc' = "done"
BY DEF Ends, IsCall, CallFields

\* A recorded attempt joins the others.
LEMMA AttemptFacts ==
    ASSUME NEW s \in Seq(Attempts), NEW e \in Attempts
    PROVE  /\ Append(s, e) \in Seq(Attempts)
           /\ Range(s) \subseteq Range(Append(s, e))
           /\ e \in Range(Append(s, e))
<1>1. /\ Append(s, e) \in Seq(Attempts) /\ Len(Append(s, e)) = Len(s) + 1
      /\ \A i \in 1..Len(s) : Append(s, e)[i] = s[i]
      /\ Append(s, e)[Len(s) + 1] = e
  OBVIOUS
<1>2. Range(s) \subseteq Range(Append(s, e))
  BY <1>1 DEF Range
<1>3. e \in Range(Append(s, e))
  BY <1>1 DEF Range
<1>4. QED
  BY <1>1, <1>2, <1>3

\* The request that is sent to the candidate the call works on.
Request == [candidate |-> Candidates[call.index], shown |-> Shown]

Asks == pc = "ask" /\ asked' = Append(asked, Request)

\* The call goes on, or ends, with what it captured and its attempts.
SameCall ==
    /\ call'.kind = call.kind /\ call'.snapshot = call.snapshot
    /\ Range(call.attempts) \subseteq Range(call'.attempts)

LEMMA AskedFacts ==
    ASSUME RouteTypes, asked' = asked \/ Asks
    PROVE  /\ asked' \in Seq(Range(asked'))
           /\ Len(asked) <= Len(asked')
           /\ \A k \in 1..Len(asked) : asked'[k] = asked[k]
           /\ Asks => Len(asked') = Len(asked) + 1 /\ asked'[Len(asked) + 1] = Request
           /\ ~Asks => asked' = asked
<1>1. CASE asked' = asked /\ ~Asks
  BY <1>1 DEF RouteTypes
<1>2. CASE Asks
  <2>1. asked \in Seq(Range(asked) \cup {Request})
    BY DEF RouteTypes
  <2>2. /\ asked' \in Seq(Range(asked) \cup {Request}) /\ Len(asked') = Len(asked) + 1
        /\ \A k \in 1..Len(asked) : asked'[k] = asked[k]
        /\ asked'[Len(asked) + 1] = Request
    BY <1>2, <2>1 DEF Asks
  <2>3. asked' \in Seq(Range(asked'))
    BY <2>2 DEF Range
  <2>4. QED
    BY <1>2, <2>1, <2>2, <2>3
<1>3. QED
  BY <1>1, <1>2

\* What was asked and what failed stays so.
LEMMA PastStays ==
    ASSUME RouteTypes, SameCall, asked' = asked \/ Asks
    PROVE  /\ \A j : WasAsked(j, Len(asked)) => WasAsked(j, Len(asked))'
           /\ \A j : Failed(j) => Failed(j)'
           /\ Asks => \E m \in 1..Len(asked') : asked'[m].candidate = Candidates[call.index]
<1>1. Len(asked) \in Nat /\ Len(asked') \in Nat
  BY AskedFacts DEF RouteTypes
<1>2. ASSUME NEW j, WasAsked(j, Len(asked)) PROVE WasAsked(j, Len(asked))'
  BY <1>1, <1>2, AskedFacts DEF WasAsked, SameCall, Candidates, CapturedSnapshot
<1>3. ASSUME NEW j, Failed(j) PROVE Failed(j)'
  BY <1>3 DEF Failed, SameCall
<1>4. ASSUME Asks PROVE \E m \in 1..Len(asked') : asked'[m].candidate = Candidates[call.index]
  BY <1>1, <1>4, AskedFacts DEF Request
<1>5. QED
  BY <1>2, <1>3, <1>4

\* The requests stay authorized when one more goes to the candidate the call works on.
LEMMA AuthorizedStays ==
    ASSUME RouteIInv, SameCall, asked' = asked \/ Asks
    PROVE  AskedWasAuthorized'
<1> SUFFICES ASSUME RouteCall, NEW k \in DOMAIN asked'
             PROVE  \E i \in DOMAIN Candidates :
                       /\ asked'[k].candidate = Candidates[i]
                       /\ asked'[k].candidate \in call.snapshot.allowed
                       /\ \A j \in 1..i - 1 :
                             /\ \E m \in 1..k - 1 : asked'[m].candidate = Candidates[j]
                             /\ Failed(j)'
  BY DEF AskedWasAuthorized, SameCall, RouteCall, Candidates, CapturedSnapshot, Failed
<1>1. /\ Len(asked) \in Nat /\ Len(asked') \in Nat /\ DOMAIN asked = 1..Len(asked)
      /\ DOMAIN asked' = 1..Len(asked')
  BY AskedFacts DEF RouteIInv, RouteTypes
<1>2. \A j : Failed(j) => Failed(j)'
  BY PastStays DEF RouteIInv
<1>0. /\ Len(asked) <= Len(asked')
      /\ \A n \in 1..Len(asked) : asked'[n] = asked[n]
      /\ Asks => Len(asked') = Len(asked) + 1 /\ asked'[Len(asked) + 1] = Request
      /\ ~Asks => asked' = asked
  BY AskedFacts DEF RouteIInv
<1>3. CASE k <= Len(asked)
  <2>1. PICK i \in DOMAIN Candidates :
            /\ asked[k].candidate = Candidates[i]
            /\ asked[k].candidate \in call.snapshot.allowed
            /\ \A j \in 1..i - 1 :
                  /\ \E m \in 1..k - 1 : asked[m].candidate = Candidates[j]
                  /\ Failed(j)
    BY <1>1, <1>3 DEF RouteIInv, AskedWasAuthorized, RouteCall, Candidates, CapturedSnapshot, Failed
  <2>2. \A m \in 1..k : asked'[m] = asked[m]
    <3>1. \A m \in 1..k : m \in 1..Len(asked)
      BY <1>1, <1>3
    <3>2. QED
      BY <1>0, <3>1
  <2>3. QED
    BY <1>1, <1>2, <2>1, <2>2
<1>4. CASE ~(k <= Len(asked))
  <2>1. Asks /\ k = Len(asked) + 1 /\ asked'[k] = Request
    <3>1. k \in Nat /\ k <= Len(asked') /\ k > Len(asked)
      BY <1>1, <1>4
    <3>2. Asks
      BY <1>0, <3>1
    <3>3. QED
      BY <1>0, <1>1, <3>1, <3>2
  <2>2. /\ call.index \in 1..Len(Candidates)
        /\ Candidates[call.index] \in call.snapshot.allowed
        /\ \A j \in 1..call.index - 1 : WasAsked(j, Len(asked)) /\ Failed(j)
    BY <2>1 DEF RouteIInv, CandidateIsNext, Asks, Awaits
  <2>3. call.snapshot \in Offers
    BY <2>1 DEF RouteIInv, SnapshotIsValid, Asks
  <2>4. DOMAIN Candidates = 1..Len(Candidates)
    BY <2>3, RouteAssumption DEF Candidates, CapturedSnapshot
  <2>5. \A j \in 1..call.index - 1 : \E m \in 1..k - 1 : asked'[m].candidate = Candidates[j]
    BY <1>0, <1>1, <2>1, <2>2 DEF WasAsked
  <2>6. asked'[k].candidate = Candidates[call.index]
    BY <2>1 DEF Request
  <2>7. QED
    BY <1>2, <2>2, <2>4, <2>5, <2>6
<1>5. QED
  BY <1>1, <1>3, <1>4

-----------------------------------------------------------------------------
(* Lemmas about the session.                                                 *)

\* Only one number of own entries fits.
LEMMA OwnIsUnique ==
    ASSUME NEW s \in Seq(Entries), NEW c \in Nat, NEW a \in 0..2, NEW b \in 0..2,
           OwnIn(s, c, a), OwnIn(s, c, b)
    PROVE  a = b
<1>1. Len(s) \in Nat
  OBVIOUS
<1>2. ASSUME NEW x \in 0..2, NEW y \in 0..2, OwnIn(s, c, x), OwnIn(s, c, y), x < y PROVE FALSE
  <2>1. /\ s[Len(s) - y + 1] = [call |-> c, author |-> "user"]
        /\ Len(s) - y + 1 \in 1..Len(s) - x
    BY <1>1, <1>2 DEF OwnIn
  <2>2. [call |-> c, author |-> "user"].call < c
    BY <1>2, <2>1 DEF OwnIn
  <2>3. QED
    BY <2>2
<1>3. QED
  BY <1>2

\* A request of a session call shows what was there before the call and its user.
LEMMA RequestShows ==
    ASSUME RouteIInv, InSession, Asks, NEW t \in 0..2, Own(t)
    PROVE  Request.shown = Prior(t) \o <<Entry("user")>>
<1>1. call.prepared # None
  BY DEF RouteIInv, OwnEntries, Asks
<1>2. call.prepared = Prior(t)
  BY <1>1 DEF RouteIInv, ShownIsPrior
<1>3. Prior(t) \in Seq(Entries)
  <2>1. session \in Seq(Entries) /\ Len(session) \in Nat /\ t <= Len(session)
    BY DEF RouteIInv, RouteTypes, Own, OwnIn
  <2>2. QED
    BY <2>1, SubSeqProperties DEF Prior
<1>4. Entry("user") \in Entries
  BY DEF Entry, Entries, RouteIInv, RouteTypes
<1>5. Append(Prior(t), Entry("user")) = Prior(t) \o <<Entry("user")>>
  BY <1>3, <1>4, AppendIsConcat
<1>6. QED
  BY <1>2, <1>5 DEF Request, Shown

\* Steps that leave the session alone.
LEMMA SessionStays ==
    ASSUME RouteIInv, session' = session, calls' = calls, call'.kind = call.kind,
           call'.prepared = call.prepared, asked' = asked \/ Asks
    PROVE  /\ \A t \in 0..2 : Own(t)' = Own(t)
           /\ InSession' = InSession
           /\ Ordered' /\ ShownIsPrior'
<1>1. \A t \in 0..2 : Own(t)' = Own(t) /\ Prior(t)' = Prior(t)
  BY DEF Own, OwnIn, Prior, Entry
<1>2. InSession' = InSession
  BY DEF InSession
<1>3. Ordered'
  BY DEF Ordered, RouteIInv
<1>4. ASSUME InSession, NEW t \in 0..2, Own(t)
      PROVE  /\ call.prepared # None => call.prepared = Prior(t)
             /\ \A k \in DOMAIN asked' : asked'[k].shown = Prior(t) \o <<Entry("user")>>
  <2>1. /\ call.prepared # None => call.prepared = Prior(t)
        /\ \A k \in DOMAIN asked : asked[k].shown = Prior(t) \o <<Entry("user")>>
    BY <1>4 DEF RouteIInv, ShownIsPrior
  <2>2. Asks => Request.shown = Prior(t) \o <<Entry("user")>>
    BY <1>4, RequestShows
  <2>3. /\ Len(asked) \in Nat /\ DOMAIN asked = 1..Len(asked) /\ Len(asked') \in Nat
        /\ DOMAIN asked' = 1..Len(asked')
    BY AskedFacts DEF RouteIInv, RouteTypes
  <2>4. /\ Len(asked) <= Len(asked')
        /\ \A n \in 1..Len(asked) : asked'[n] = asked[n]
        /\ Asks => Len(asked') = Len(asked) + 1 /\ asked'[Len(asked) + 1] = Request
        /\ ~Asks => asked' = asked
    BY AskedFacts DEF RouteIInv
  <2>5. CASE ~Asks
    BY <2>1, <2>4, <2>5
  <2>6. CASE Asks
    <3>1. \A k \in 1..Len(asked') : k \in 1..Len(asked) \/ k = Len(asked) + 1
      BY <2>3, <2>4, <2>6
    <3>2. QED
      BY <2>1, <2>2, <2>3, <2>4, <2>6, <3>1
  <2>7. QED
    BY <2>5, <2>6
<1>5. Entry("user")' = Entry("user")
  BY DEF Entry
<1>6. ShownIsPrior'
  BY <1>1, <1>2, <1>4, <1>5 DEF ShownIsPrior
<1>7. QED
  BY <1>1, <1>2, <1>3, <1>6

-----------------------------------------------------------------------------
(* The two ways a call takes a step: it goes on, or it ends.                 *)

Quiet == current' = current /\ calls' = calls /\ session' = session

LEMMA GoesOn ==
    ASSUME RouteIInv, Quiet, pc # "done", IsCall(call'), SameCall,
           call'.index \in Nat, call'.attempts \in Seq(Attempts), call'.prepared = call.prepared,
           asked' = asked \/ Asks, KindAtPoint', CandidateIsNext', OwnEntries'
    PROVE  RouteIInv'
<1>1. RouteTypes'
  BY AskedFacts DEF RouteIInv, RouteTypes, Quiet
<1>2. SnapshotIsValid'
  BY DEF RouteIInv, SnapshotIsValid, Quiet, SameCall
<1>3. AskedWasAuthorized'
  BY AuthorizedStays
<1>4. Ordered' /\ ShownIsPrior'
  BY SessionStays DEF Quiet, SameCall
<1>5. QED
  BY <1>1, <1>2, <1>3, <1>4 DEF RouteIInv

LEMMA EndedIInv ==
    ASSUME RouteIInv, Quiet, pc # "done",
           NEW o, NEW attempts \in Seq(Attempts), Ends(o, attempts),
           asked' = asked \/ Asks,
           ~RouteCall \/ asked' = <<>> \/ Range(call.attempts) \subseteq Range(attempts),
           InSession /\ o = "ok" => Own(2)
    PROVE  RouteIInv'
<1>1. /\ IsCall(call') /\ call'.kind = call.kind /\ call'.snapshot = call.snapshot
      /\ call'.index = call.index /\ call'.prepared = call.prepared
      /\ call'.attempts = attempts /\ call'.outcome = o /\ pc' = "done"
  BY EndsFacts DEF RouteIInv, RouteTypes
<1>2. RouteTypes'
  BY <1>1, AskedFacts DEF RouteIInv, RouteTypes, Quiet
<1>3. SnapshotIsValid' /\ KindAtPoint' /\ CandidateIsNext'
  BY <1>1 DEF RouteIInv, SnapshotIsValid, KindAtPoint, CandidateIsNext, Quiet, Awaits
<1>4. AskedWasAuthorized'
  <2>1. CASE ~RouteCall
    BY <1>1, <2>1 DEF AskedWasAuthorized, RouteCall
  <2>2. CASE asked' = <<>>
    BY <2>2 DEF AskedWasAuthorized
  <2>3. CASE Range(call.attempts) \subseteq Range(attempts)
    BY <1>1, <2>3, AuthorizedStays DEF SameCall
  <2>4. QED
    BY <2>1, <2>2, <2>3
<1>5. /\ \A t \in 0..2 : Own(t)' = Own(t)
      /\ InSession' = InSession
      /\ Ordered' /\ ShownIsPrior'
  BY <1>1, SessionStays DEF Quiet
<1>6. OwnEntries'
  <2>1. /\ \E t \in 0..2 : Own(t)
        /\ ~InSession => Own(0)
    BY DEF RouteIInv, OwnEntries
  <2>2. InSession' /\ call'.outcome = "ok" => pc' = "done" /\ Own(2)'
    BY <1>1, <1>5
  <2>3. QED
    BY <1>1, <1>5, <2>1, <2>2 DEF OwnEntries
<1>7. QED
  BY <1>2, <1>3, <1>4, <1>5, <1>6 DEF RouteIInv

\* A step that leaves the call alone keeps the invariant.
LEMMA UntouchedIInv ==
    ASSUME RouteIInv, current' \in Offers, SnapshotError(current') = None,
           UNCHANGED <<calls, call, pc, session, asked>>
    PROVE  RouteIInv'
<1>1. RouteTypes' /\ KindAtPoint' /\ CandidateIsNext' /\ AskedWasAuthorized'
  BY DEF RouteIInv, RouteTypes, KindAtPoint, CandidateIsNext, AskedWasAuthorized, InSession,
         RouteCall, WasAsked, Failed, Candidates, CapturedSnapshot, Awaits
<1>2. SnapshotIsValid'
  BY DEF RouteIInv, SnapshotIsValid
<1>3. (\A t \in 0..2 : Own(t)' = Own(t)) /\ InSession' = InSession
  BY DEF Own, OwnIn, Entry, InSession
<1>4. OwnEntries'
  BY <1>3 DEF RouteIInv, OwnEntries
<1>5. Ordered'
  BY DEF RouteIInv, Ordered
<1>6. ShownIsPrior'
  BY <1>3 DEF RouteIInv, ShownIsPrior, Prior, Entry
<1>7. QED
  BY <1>1, <1>2, <1>4, <1>5, <1>6 DEF RouteIInv

-----------------------------------------------------------------------------
(* One lemma per action.                                                     *)

LEMMA RouteInitIInv == Init => RouteIInv
<1> SUFFICES ASSUME Init PROVE RouteIInv
  OBVIOUS
<1>1. /\ current \in Offers /\ SnapshotError(current) = None
      /\ calls = 0 /\ pc = "done" /\ session = <<>> /\ asked = <<>>
  BY DEF Init
<1>2. /\ IsCall(call) /\ call.kind = None /\ call.index = 0 /\ call.attempts = <<>>
      /\ call.outcome = None /\ call.prepared = None
  BY DEF Init, Idle, IsCall, CallFields
<1>3. RouteTypes
  <2>1. asked \in Seq(Range(asked)) /\ session \in Seq(Entries) /\ call.attempts \in Seq(Attempts)
    BY <1>1, <1>2
  <2>2. QED
    BY <1>1, <1>2, <2>1 DEF RouteTypes
<1>4. SnapshotIsValid /\ KindAtPoint /\ CandidateIsNext /\ AskedWasAuthorized
  BY <1>1, <1>2 DEF SnapshotIsValid, KindAtPoint, CandidateIsNext, AskedWasAuthorized, RouteCall, Awaits
<1>5. Own(0)
  BY <1>1 DEF Own, OwnIn
<1>6. OwnEntries
  BY <1>1, <1>2, <1>5, NoneAssumption DEF OwnEntries
<1>7. Ordered /\ ShownIsPrior
  BY <1>1, <1>2 DEF Ordered, ShownIsPrior
<1>8. QED
  BY <1>3, <1>4, <1>6, <1>7 DEF RouteIInv

LEMMA StartCallIInv ==
    ASSUME RouteIInv, NEW kind \in Kinds, StartCall(kind)
    PROVE  RouteIInv'
<1>1. /\ current' = current /\ session' = session /\ calls' = calls + 1 /\ asked' = <<>>
      /\ pc' = (IF kind = "agent" THEN "try" ELSE "head") /\ pc = "done"
  BY DEF StartCall
<1>2. /\ IsCall(call') /\ call'.kind = kind /\ call'.snapshot = current /\ call'.index = 0
      /\ call'.attempts = <<>> /\ call'.outcome = None /\ call'.prepared = None
  BY DEF StartCall, Idle, IsCall, CallFields
<1>3. RouteTypes'
  <2>1. asked' \in Seq(Range(asked')) /\ call'.attempts \in Seq(Attempts)
    BY <1>1, <1>2
  <2>2. QED
    BY <1>1, <1>2, <2>1 DEF RouteIInv, RouteTypes
<1>4. SnapshotIsValid'
  BY <1>1, <1>2 DEF RouteIInv, SnapshotIsValid
<1>5. KindAtPoint' /\ CandidateIsNext' /\ AskedWasAuthorized'
  BY <1>1, <1>2 DEF KindAtPoint, CandidateIsNext, AskedWasAuthorized, RouteCall, Awaits
<1>6. Own(0)'
  <2>0. Len(session) \in Nat /\ calls \in Nat /\ \A i \in 1..Len(session) : session[i] \in Entries
    BY DEF RouteIInv, RouteTypes
  <2>1. Len(session) \in Nat /\ calls \in Nat /\ \A i \in 1..Len(session) : session[i].call \in Nat
    BY <2>0 DEF Entries
  <2>2. PICK t \in 0..2 : Own(t)
    BY DEF RouteIInv, OwnEntries
  <2>3. \A i \in 1..Len(session) : session[i].call <= calls
    <3> SUFFICES ASSUME NEW i \in 1..Len(session) PROVE session[i].call <= calls
      OBVIOUS
    <3>1. \/ i \in 1..Len(session) - t
          \/ t > 0 /\ i = Len(session) - t + 1
          \/ t > 1 /\ i = Len(session) - t + 2
      BY <2>1, <2>2
    <3>2. session[i].call < calls \/ session[i].call = calls
      BY <2>2, <3>1 DEF Own, OwnIn
    <3>3. QED
      BY <2>1, <3>2
  <2>4. QED
    BY <1>1, <2>1, <2>3 DEF Own, OwnIn
<1>7. OwnEntries'
  BY <1>1, <1>2, <1>6, NoneAssumption DEF OwnEntries
<1>8. Ordered'
  BY <1>1 DEF RouteIInv, Ordered
<1>9. ShownIsPrior'
  BY <1>1, <1>2 DEF ShownIsPrior
<1>10. QED
  BY <1>3, <1>4, <1>5, <1>7, <1>8, <1>9 DEF RouteIInv

\* The publisher, the token and the clocks.
LEMMA BesideIInv ==
    ASSUME RouteIInv, (\E o \in Offers : Reload(o)) \/ Cancel \/ DeadlinePasses \/ ProfileTimer
    PROVE  RouteIInv'
<1>1. current' \in Offers /\ SnapshotError(current') = None
  BY DEF RouteIInv, SnapshotIsValid, Reload, Cancel, DeadlinePasses, ProfileTimer
<1>2. UNCHANGED <<calls, call, pc, session, asked>>
  BY DEF Reload, Cancel, DeadlinePasses, ProfileTimer, ghosts
<1>3. QED
  BY <1>1, <1>2, UntouchedIInv

\* A published snapshot has a first candidate, and its candidates are a sequence.
LEMMA CandidatesFacts ==
    ASSUME RouteIInv, pc # "done"
    PROVE  /\ Len(Candidates) \in Nat /\ DOMAIN Candidates = 1..Len(Candidates)
           /\ 1 \in 1..Len(Candidates)
<1>1. call.snapshot \in Offers /\ SnapshotError(call.snapshot) = None
  BY DEF RouteIInv, SnapshotIsValid
<1>2. Candidates # <<>>
  BY <1>1, NoneAssumption DEF SnapshotError, SnapshotErrors, Candidates, CapturedSnapshot
<1>3. Candidates \in Seq(Range(Candidates))
  BY <1>1, RouteAssumption DEF Candidates, CapturedSnapshot
<1>4. QED
  BY <1>2, <1>3

LEMMA NextCandidateIInv == ASSUME RouteIInv, NextCandidate PROVE RouteIInv'
<1> DEFINE i == call.index + 1
           next == [call EXCEPT !.index = i, !.tries = 0]
           note == [ordinal |-> i, kind |-> "AuthorizationDenied"]
           denied == [next EXCEPT !.outcome = "AuthorizationDenied", !.attempts = Append(@, note)]
<1>1. pc = "head" /\ call.kind \in RouteKinds /\ Quiet /\ asked' = asked
  BY DEF NextCandidate, Quiet, ghosts
<1>2. call.attempts \in Seq(Attempts) /\ call.index \in Nat /\ IsCall(call) /\ note \in Attempts
  BY DEF RouteIInv, RouteTypes, Attempts
<1>3. \/ \E o \in {"Exhausted", "Cancelled", "DeadlineExceeded"} : Ends(o, call.attempts)
      \/ call' = denied /\ pc' = "done"
      \/ /\ i <= Len(Candidates) /\ Allows(Candidates[i])
         /\ call' = next /\ pc' = IF NeedsPrepare THEN "load" ELSE "bind"
  <2>1. \/ i > Len(Candidates) /\ Ends("Exhausted", call.attempts)
        \/ RouteStop # None /\ Ends(RouteStop, call.attempts)
        \/ call' = denied /\ pc' = "done"
        \/ /\ ~(i > Len(Candidates)) /\ Allows(Candidates[i])
           /\ call' = next /\ pc' = IF NeedsPrepare THEN "load" ELSE "bind"
    BY DEF NextCandidate
  <2>2. RouteStop # None => RouteStop \in {"Cancelled", "DeadlineExceeded"}
    BY DEF RouteStop
  <2>3. Len(Candidates) \in Nat
    BY <1>1, CandidatesFacts
  <2>4. QED
    BY <1>2, <2>1, <2>2, <2>3
<1>4. CASE \E o \in {"Exhausted", "Cancelled", "DeadlineExceeded"} : Ends(o, call.attempts)
  <2>1. PICK o \in {"Exhausted", "Cancelled", "DeadlineExceeded"} : Ends(o, call.attempts)
    BY <1>4
  <2>2. QED
    BY <1>1, <1>2, <2>1, EndedIInv
<1>5. CASE call' = denied /\ pc' = "done"
  <2>1. /\ IsCall(call') /\ call'.kind = call.kind /\ call'.snapshot = call.snapshot
        /\ call'.index = i /\ call'.prepared = call.prepared
        /\ call'.attempts = Append(call.attempts, note) /\ call'.outcome = "AuthorizationDenied"
    BY <1>2, <1>5 DEF IsCall, CallFields
  <2>2. call'.attempts \in Seq(Attempts) /\ SameCall
    BY <1>2, <2>1, AttemptFacts DEF SameCall
  <2>3. KindAtPoint' /\ CandidateIsNext'
    BY <1>5, <2>1 DEF KindAtPoint, CandidateIsNext, Awaits
  <2>4. (\A t \in 0..2 : Own(t)' = Own(t)) /\ InSession' = InSession
    BY <1>1, <2>1, SessionStays DEF Quiet
  <2>5. OwnEntries'
    BY <1>5, <2>1, <2>4 DEF RouteIInv, OwnEntries
  <2>6. QED
    BY <1>1, <1>2, <2>1, <2>2, <2>3, <2>5, GoesOn
<1>6. CASE /\ i <= Len(Candidates) /\ Allows(Candidates[i])
           /\ call' = next /\ pc' = IF NeedsPrepare THEN "load" ELSE "bind"
  <2>1. /\ IsCall(call') /\ call'.kind = call.kind /\ call'.snapshot = call.snapshot
        /\ call'.index = i /\ call'.prepared = call.prepared
        /\ call'.attempts = call.attempts /\ call'.outcome = call.outcome
    BY <1>2, <1>6 DEF IsCall, CallFields
  <2>2. SameCall /\ call'.attempts \in Seq(Attempts)
    BY <1>2, <2>1 DEF SameCall
  <2>3. pc' \in {"load", "bind"} /\ (pc' = "load" <=> NeedsPrepare)
    BY <1>6
  <2>4. KindAtPoint'
    BY <1>1, <2>1, <2>3 DEF KindAtPoint, RouteKinds, Kinds, Awaits, InSession, NeedsPrepare
  <2>5. CandidateIsNext'
    <3>1. Candidates' = Candidates /\ call'.index \in 1..Len(Candidates)
          /\ Candidates[call'.index] \in call'.snapshot.allowed
      BY <1>2, <1>6, <2>1 DEF Candidates, CapturedSnapshot, Allows
    <3>2. RouteCall => \A j \in 1..call.index : WasAsked(j, Len(asked)) /\ Failed(j)
      BY <1>1 DEF RouteIInv, CandidateIsNext
    <3>3. \A j : WasAsked(j, Len(asked))' = WasAsked(j, Len(asked)) /\ Failed(j)' = Failed(j)
      BY <1>1, <2>1, <3>1 DEF WasAsked, Failed
    <3>4. RouteCall' => RouteCall
      BY <2>1 DEF RouteCall
    <3>5. call'.index - 1 = call.index
      BY <1>2, <2>1
    <3>6. call'.kind \notin SingleKinds /\ pc' # "head" /\ pc' # "frames"
      BY <1>1, <2>1, <2>3 DEF SingleKinds, Declared, RouteKinds
    <3>7. QED
      BY <3>1, <3>2, <3>3, <3>4, <3>5, <3>6 DEF CandidateIsNext
  <2>6. (\A t \in 0..2 : Own(t)' = Own(t)) /\ InSession' = InSession
    BY <1>1, <2>1, SessionStays DEF Quiet
  <2>7. OwnEntries'
    BY <1>1, <2>1, <2>3, <2>6 DEF RouteIInv, OwnEntries, NeedsPrepare
  <2>8. QED
    BY <1>1, <1>2, <2>1, <2>2, <2>4, <2>5, <2>7, GoesOn
<1>7. QED
  BY <1>3, <1>4, <1>5, <1>6

\* The call goes to where, and nothing else of it changes.
LEMMA GotoIInv ==
    ASSUME RouteIInv, Quiet, asked' = asked, pc # "done", NEW where, Goto(where),
           KindAtPoint', OwnEntries', where \in Awaits, pc \in Awaits,
           where = "frames" => pc = "frames",
           where = "bind" => call.kind \notin SingleKinds
    PROVE  RouteIInv'
<1>1. call' = call /\ pc' = where
  BY DEF Goto
<1>2. SameCall /\ IsCall(call') /\ call'.index \in Nat /\ call'.attempts \in Seq(Attempts)
  BY <1>1 DEF SameCall, RouteIInv, RouteTypes
<1>3. CandidateIsNext'
  <2>1. /\ Candidates' = Candidates /\ RouteCall' = RouteCall
        /\ \A j : WasAsked(j, Len(asked))' = WasAsked(j, Len(asked)) /\ Failed(j)' = Failed(j)
    BY <1>1 DEF Candidates, CapturedSnapshot, RouteCall, WasAsked, Failed
  <2>2. WasAsked(call.index, Len(asked))' = WasAsked(call.index, Len(asked))
    BY <1>1, <2>1 DEF WasAsked
  <2>3. pc' # "head"
    BY <1>1 DEF Awaits
  <2>4. QED
    BY <1>1, <2>1, <2>2, <2>3 DEF RouteIInv, CandidateIsNext
<1>4. QED
  BY <1>1, <1>2, <1>3, GoesOn

\* The call of the first candidate only.
LEMMA OnlyIInv ==
    ASSUME RouteIInv, Quiet, asked' = asked, pc = "head", call.kind \in SingleKinds,
           NEW allowed \in BOOLEAN, NEW denials \in Seq(Attempts), Only(allowed, denials),
           allowed => Allows(Candidates[1])
    PROVE  RouteIInv'
<1>1. IsCall(call) /\ call.attempts \in Seq(Attempts)
  BY DEF RouteIInv, RouteTypes
<1>2. RouteCall => asked = <<>>
  BY DEF RouteIInv, CandidateIsNext
<1>3. CASE ~allowed
  BY <1>1, <1>2, <1>3, EndedIInv DEF Only
<1>4. CASE allowed
  <2>1. call' = [call EXCEPT !.index = 1] /\ pc' = "bind"
    BY <1>4 DEF Only
  <2>2. /\ IsCall(call') /\ call'.kind = call.kind /\ call'.snapshot = call.snapshot
        /\ call'.index = 1 /\ call'.prepared = call.prepared
        /\ call'.attempts = call.attempts /\ call'.outcome = call.outcome
    BY <1>1, <2>1 DEF IsCall, CallFields
  <2>3. SameCall
    BY <2>2 DEF SameCall
  <2>4. KindAtPoint' /\ ~InSession
    BY <2>1, <2>2 DEF KindAtPoint, SingleKinds, Declared, Kinds, Awaits, InSession
  <2>5. CandidateIsNext'
    BY <1>2, <1>4, <2>1, <2>2, CandidatesFacts
       DEF CandidateIsNext, RouteCall, Candidates, CapturedSnapshot, Allows, SingleKinds, Declared
  <2>6. (\A t \in 0..2 : Own(t)' = Own(t)) /\ InSession' = InSession
    BY <2>2, SessionStays DEF Quiet
  <2>7. OwnEntries'
    BY <2>1, <2>2, <2>4, <2>6 DEF RouteIInv, OwnEntries
  <2>8. QED
    BY <1>1, <2>1, <2>2, <2>3, <2>4, <2>5, <2>7, GoesOn
<1>5. QED
  BY <1>3, <1>4

LEMMA SingleIInv ==
    ASSUME RouteIInv, BindAuthorized \/ Probe \/ Observe
    PROVE  RouteIInv'
<1> DEFINE refusal == [ordinal |-> 1, kind |-> "AuthorizationDenied"]
<1>1. pc = "head" /\ call.kind \in SingleKinds /\ Quiet /\ asked' = asked
  BY DEF BindAuthorized, Probe, Observe, SingleKinds, Declared, Quiet, ghosts
<1>2. RouteCall => asked' = <<>>
  BY <1>1 DEF RouteIInv, CandidateIsNext
<1>3. <<>> \in Seq(Attempts) /\ <<refusal>> \in Seq(Attempts)
  <2>1. refusal \in Attempts
    BY DEF Attempts
  <2>2. QED
    BY <2>1
<1>4. RouteStop # None => RouteStop \in {"Cancelled", "DeadlineExceeded"}
  BY DEF RouteStop
<1>5. \/ \E o \in {"Cancelled", "DeadlineExceeded", "Configuration"} : Ends(o, <<>>)
      \/ \E allowed \in BOOLEAN, denials \in {<<>>, <<refusal>>} :
            Only(allowed, denials) /\ (allowed => Allows(Candidates[1]))
  <2>1. CASE BindAuthorized
    <3>1. \/ RouteStop # None /\ Ends(RouteStop, <<>>)
          \/ Only(Allows(Candidates[1]), <<refusal>>)
      BY <2>1 DEF BindAuthorized
    <3>2. Allows(Candidates[1]) \in BOOLEAN
      BY DEF Allows
    <3>3. QED
      BY <1>4, <3>1, <3>2
  <2>2. CASE Probe
    <3> DEFINE yes == ProbeDeclaration(CapturedSnapshot) = call.expected /\ Allows(Candidates[1])
    <3>1. \/ RouteStop # None /\ Ends(RouteStop, <<>>)
          \/ Ends("Configuration", <<>>)
          \/ Only(yes, <<>>)
      BY <2>2 DEF Probe
    <3>2. yes \in BOOLEAN /\ (yes => Allows(Candidates[1]))
      BY DEF Allows
    <3> HIDE DEF yes
    <3>3. QED
      BY <1>4, <3>1, <3>2
  <2>3. CASE Observe
    <3> DEFINE yes == ProbeDeclaration(CapturedSnapshot) = call.expected
    <3>1. \/ RouteStop # None /\ Ends(RouteStop, <<>>)
          \/ Ends("Configuration", <<>>)
          \/ Allows(Candidates[1]) /\ Only(yes, <<>>)
      BY <2>3 DEF Observe
    <3>2. yes \in BOOLEAN
      OBVIOUS
    <3> HIDE DEF yes
    <3>3. QED
      BY <1>4, <3>1, <3>2
  <2>4. QED
    BY <2>1, <2>2, <2>3
<1>6. CASE \E o \in {"Cancelled", "DeadlineExceeded", "Configuration"} : Ends(o, <<>>)
  <2>1. PICK o \in {"Cancelled", "DeadlineExceeded", "Configuration"} : Ends(o, <<>>)
    BY <1>6
  <2>2. QED
    BY <1>1, <1>2, <1>3, <2>1, EndedIInv
<1>7. CASE \E allowed \in BOOLEAN, denials \in {<<>>, <<refusal>>} :
              Only(allowed, denials) /\ (allowed => Allows(Candidates[1]))
  <2>1. PICK allowed \in BOOLEAN, denials \in {<<>>, <<refusal>>} :
            Only(allowed, denials) /\ (allowed => Allows(Candidates[1]))
    BY <1>7
  <2>2. denials \in Seq(Attempts)
    BY <1>3
  <2>3. QED
    BY <1>1, <2>1, <2>2, OnlyIInv
<1>8. QED
  BY <1>5, <1>6, <1>7

LEMMA DirectCallIInv == ASSUME RouteIInv, DirectCall PROVE RouteIInv'
<1>1. pc = "head" /\ call.kind = "direct" /\ Quiet /\ asked' = asked
  BY DEF DirectCall, Quiet, ghosts
<1>2. IsCall(call) /\ call.attempts \in Seq(Attempts) /\ ~RouteCall
  BY <1>1 DEF RouteIInv, RouteTypes, RouteCall
<1>3. CASE Ends("RouteMismatch", <<>>)
  <2>1. <<>> \in Seq(Attempts)
    OBVIOUS
  <2>2. QED
    BY <1>1, <1>2, <1>3, <2>1, EndedIInv
<1>4. CASE call' = [call EXCEPT !.index = 1] /\ pc' = "load"
  <2>2. /\ IsCall(call') /\ call'.kind = call.kind /\ call'.snapshot = call.snapshot
        /\ call'.index = 1 /\ call'.prepared = call.prepared
        /\ call'.attempts = call.attempts /\ call'.outcome = call.outcome
    BY <1>2, <1>4 DEF IsCall, CallFields
  <2>3. SameCall
    BY <2>2 DEF SameCall
  <2>4. KindAtPoint' /\ CandidateIsNext'
    BY <1>1, <1>4, <2>2 DEF KindAtPoint, CandidateIsNext, RouteCall, Kinds, Awaits, InSession
  <2>5. (\A t \in 0..2 : Own(t)' = Own(t)) /\ InSession' = InSession
    BY <1>1, <2>2, SessionStays DEF Quiet
  <2>6. OwnEntries'
    BY <1>1, <1>4, <2>2, <2>5 DEF RouteIInv, OwnEntries, KindAtPoint
  <2>7. QED
    BY <1>1, <1>2, <2>2, <2>3, <2>4, <2>6, GoesOn
<1>5. QED
  BY <1>3, <1>4 DEF DirectCall

LEMMA StoppedIInv == ASSUME RouteIInv, Stopped PROVE RouteIInv'
<1>1. /\ pc # "done" /\ Quiet /\ asked' = asked /\ Ends(RouteStop, call.attempts)
      /\ call.attempts \in Seq(Attempts)
  BY DEF Stopped, Awaits, Quiet, ghosts, RouteIInv, RouteTypes
<1>2. RouteStop # "ok"
  BY NoneAssumption DEF RouteStop
<1>3. QED
  BY <1>1, <1>2, EndedIInv

\* An attempt of the call is recorded with its ordinal.
LEMMA NotedAttempt ==
    ASSUME RouteIInv,
           NEW kind \in {"RetryableProvider", "Session", "Configuration", "Protocol", "Timeout",
                         "TerminalProvider"}
    PROVE  /\ Attempt(kind) \in Seq(Attempts)
           /\ Range(call.attempts) \subseteq Range(Attempt(kind))
           /\ [ordinal |-> call.index, kind |-> kind] \in Range(Attempt(kind))
<1>1. call.attempts \in Seq(Attempts) /\ [ordinal |-> call.index, kind |-> kind] \in Attempts
  BY DEF RouteIInv, RouteTypes, Attempts
<1>2. QED
  BY <1>1, AttemptFacts DEF Attempt

LEMMA SessionFailsIInv == ASSUME RouteIInv, SessionFails PROVE RouteIInv'
<1>1. pc # "done" /\ Quiet /\ asked' = asked
  BY DEF SessionFails, Quiet, ghosts
<1>2. CASE call.kind = "direct"
  <2>1. Ends("Session", <<>>) /\ ~RouteCall /\ <<>> \in Seq(Attempts)
    BY <1>2 DEF SessionFails, RouteCall
  <2>2. QED
    BY <1>1, <2>1, EndedIInv
<1>3. CASE call.kind # "direct"
  <2>1. Ends("Session", Attempt("Session"))
    BY <1>3 DEF SessionFails
  <2>2. QED
    BY <1>1, <2>1, EndedIInv, NotedAttempt
<1>4. QED
  BY <1>2, <1>3

\* The session as it is before the call.
LEMMA LoadIInv == ASSUME RouteIInv, Load PROVE RouteIInv'
<1>1. pc = "load" /\ Quiet /\ asked' = asked /\ pc' = "append_user"
  BY DEF Load, Ready, Quiet, ghosts
<1>2. /\ IsCall(call') /\ call'.kind = call.kind /\ call'.snapshot = call.snapshot
      /\ call'.index = call.index /\ call'.prepared = session
      /\ call'.attempts = call.attempts /\ call'.outcome = call.outcome
  BY DEF Load, IsCall, CallFields, RouteIInv, RouteTypes
<1>3. RouteTypes' /\ SnapshotIsValid'
  BY <1>1, <1>2 DEF RouteIInv, RouteTypes, SnapshotIsValid, Quiet
<1>4. InSession /\ InSession' /\ KindAtPoint'
  BY <1>1, <1>2 DEF RouteIInv, KindAtPoint, InSession, Awaits
<1>5. CandidateIsNext' /\ AskedWasAuthorized'
  <2>1. /\ Candidates' = Candidates /\ RouteCall' = RouteCall
        /\ \A j : WasAsked(j, Len(asked))' = WasAsked(j, Len(asked)) /\ Failed(j)' = Failed(j)
    BY <1>1, <1>2 DEF Candidates, CapturedSnapshot, RouteCall, WasAsked, Failed
  <2>2. SameCall
    BY <1>2 DEF SameCall
  <2>3. CandidateIsNext'
    BY <1>1, <1>2, <2>1 DEF RouteIInv, CandidateIsNext, Awaits
  <2>4. QED
    BY <1>1, <2>2, <2>3, AuthorizedStays
<1>6. \A t \in 0..2 : Own(t)' = Own(t) /\ Prior(t)' = Prior(t)
  BY <1>1 DEF Own, OwnIn, Prior, Entry, Quiet
<1>7. Own(0) /\ \A t \in 0..2 : Own(t) => t = 0
  BY <1>1, OwnIsUnique DEF RouteIInv, RouteTypes, OwnEntries, Own
<1>8. session # None
  BY NoneAssumption DEF RouteIInv, RouteTypes
<1>9. OwnEntries'
  BY <1>1, <1>2, <1>4, <1>6, <1>7, <1>8 DEF RouteIInv, OwnEntries
<1>10. Ordered'
  BY <1>1 DEF RouteIInv, Ordered, Quiet
<1>11. ShownIsPrior'
  <2>1. Prior(0) = session
    BY DEF Prior, RouteIInv, RouteTypes
  <2>2. \A k \in DOMAIN asked : asked[k].shown = Prior(0) \o <<Entry("user")>>
    BY <1>4, <1>7 DEF RouteIInv, ShownIsPrior
  <2>3. Entry("user")' = Entry("user")
    BY <1>1 DEF Entry, Quiet
  <2>4. QED
    BY <1>1, <1>2, <1>6, <1>7, <2>1, <2>2, <2>3 DEF ShownIsPrior
<1>12. QED
  BY <1>3, <1>4, <1>5, <1>9, <1>10, <1>11 DEF RouteIInv

LEMMA AppendedUserIInv == ASSUME RouteIInv, AppendedUser PROVE RouteIInv'
<1>1. /\ pc = "append_user" /\ Quiet /\ asked' = asked /\ call' = call
      /\ pc' = (IF call.kind = "direct" THEN "ask" ELSE "bind") /\ Stored("user")
      /\ Goto(IF call.kind = "direct" THEN "ask" ELSE "bind")
  BY DEF AppendedUser, Ready, Quiet, ghosts, Goto
<1>2. InSession /\ InSession' /\ KindAtPoint'
  BY <1>1 DEF RouteIInv, KindAtPoint, InSession, Awaits
<1>3. (\A t \in 0..2 : Own(t)' = Own(t)) /\ InSession' = InSession
  BY <1>1, SessionStays DEF Quiet
<1>4. Own(1)
  <2>1. Own(0) \/ Own(1)
    BY <1>1 DEF RouteIInv, OwnEntries
  <2>2. Len(session) \in Nat /\ calls \in Nat
    BY DEF RouteIInv, RouteTypes
  <2>3. session # <<>> => Last(session) = session[Len(session)] /\ Len(session) \in 1..Len(session)
    BY DEF RouteIInv, RouteTypes, Last
  <2>4. ~Own(0)
    BY <1>1, <2>2, <2>3 DEF Own, OwnIn, Stored, Entry
  <2>5. QED
    BY <2>1, <2>4
<1>5. OwnEntries'
  BY <1>1, <1>2, <1>3, <1>4 DEF RouteIInv, OwnEntries
<1>6. call.kind \notin SingleKinds
  BY <1>2 DEF InSession, SingleKinds, Declared
<1>7. QED
  BY <1>1, <1>2, <1>5, <1>6, GotoIInv DEF Awaits

\* The store appends the next entry of the call.
LEMMA AppendOwn ==
    ASSUME RouteIInv, NEW t \in 0..1, Own(t), calls' = calls,
           session' = Append(session, Entry(IF t = 0 THEN "user" ELSE "model"))
    PROVE  /\ session' \in Seq(Entries) /\ Own(t + 1)' /\ Prior(t + 1)' = Prior(t) /\ Ordered'
<1> DEFINE e == Entry(IF t = 0 THEN "user" ELSE "model")
           n == Len(session)
<1>1. n \in Nat /\ calls \in Nat /\ e \in Entries /\ session \in Seq(Entries)
      /\ e = [call |-> calls, author |-> IF t = 0 THEN "user" ELSE "model"]
  BY DEF RouteIInv, RouteTypes, Entry, Entries
<1>2. /\ session' \in Seq(Entries) /\ Len(session') = n + 1 /\ session'[n + 1] = e
      /\ \A i \in 1..n : session'[i] = session[i]
      /\ DOMAIN session = 1..n /\ DOMAIN session' = 1..(n + 1)
  BY <1>1
<1>3. Entry("user")' = Entry("user") /\ Entry("model")' = Entry("model")
  BY DEF Entry
<1>4. /\ t <= n
      /\ \A i \in 1..n - t : session[i].call < calls
      /\ t = 1 => session[n] = Entry("user")
  BY <1>1 DEF Own, OwnIn, Entry
<1>5. Own(t + 1)'
  <2>1. CASE t = 0
    BY <1>1, <1>2, <1>3, <1>4, <2>1 DEF Own, OwnIn, Entry
  <2>2. CASE t = 1
    BY <1>1, <1>2, <1>3, <1>4, <2>2 DEF Own, OwnIn, Entry
  <2>3. QED
    BY <2>1, <2>2
<1>6. Prior(t + 1)' = Prior(t)
  <2>1. (n + 1) - (t + 1) = n - t /\ n - t \in 0..n
    BY <1>1, <1>4
  <2>2. SubSeq(session', 1, n - t) = SubSeq(session, 1, n - t)
    BY <1>1, <1>2, <2>1
  <2>3. QED
    BY <1>2, <2>1, <2>2 DEF Prior
<1>7. Ordered'
  <2>1. \A i \in 1..n : session[i] # e
    <3>1. \A i \in 1..n - t : session[i] # e
      BY <1>1, <1>4
    <3>2. t = 1 => session[n] # e
      BY <1>1, <1>4 DEF Entry
    <3>3. \A i \in 1..n : i \in 1..n - t \/ (t = 1 /\ i = n)
      BY <1>1, <1>4
    <3>4. QED
      BY <3>1, <3>2, <3>3
  <2>2. \A i, j \in 1..(n + 1) : session'[i] = session'[j] => i = j
    <3>1. \A i, j \in 1..n : session[i] = session[j] => i = j
      BY <1>2 DEF RouteIInv, Ordered
    <3>2. \A i \in 1..(n + 1) : i \in 1..n \/ i = n + 1
      BY <1>1
    <3>3. ASSUME NEW i \in 1..(n + 1), NEW j \in 1..(n + 1), session'[i] = session'[j] PROVE i = j
      <4>1. CASE i \in 1..n /\ j \in 1..n
        BY <1>2, <3>1, <3>3, <4>1
      <4>2. CASE i \in 1..n /\ j = n + 1
        BY <1>2, <2>1, <3>3, <4>2
      <4>3. CASE i = n + 1 /\ j \in 1..n
        BY <1>2, <2>1, <3>3, <4>3
      <4>4. QED
        BY <3>2, <4>1, <4>2, <4>3
    <3>4. QED
      BY <3>3
  <2>3. e.author = "model" => t = 1 /\ session[n] = [e EXCEPT !.author = "user"]
    BY <1>1, <1>4 DEF Entry
  <2>4. ASSUME NEW i \in 1..(n + 1), session'[i].author = "model"
        PROVE  i > 1 /\ session'[i - 1] = [session'[i] EXCEPT !.author = "user"]
    <3>1. CASE i \in 1..n
      <4>1. i > 1 /\ session[i - 1] = [session[i] EXCEPT !.author = "user"]
        BY <1>2, <2>4, <3>1 DEF RouteIInv, Ordered
      <4>2. i - 1 \in 1..n
        BY <1>1, <3>1, <4>1
      <4>3. QED
        BY <1>2, <3>1, <4>1, <4>2
    <3>2. CASE i = n + 1
      <4>1. t = 1 /\ session[n] = [e EXCEPT !.author = "user"]
        BY <1>2, <2>3, <2>4, <3>2
      <4>2. n \in 1..n /\ i - 1 = n /\ i > 1
        BY <1>1, <1>4, <3>2, <4>1
      <4>3. QED
        BY <1>2, <3>2, <4>1, <4>2
    <3>3. i \in 1..n \/ i = n + 1
      BY <1>1
    <3>4. QED
      BY <3>1, <3>2, <3>3
  <2>5. QED
    BY <1>2, <2>2, <2>4 DEF Ordered
<1>8. QED
  BY <1>2, <1>5, <1>6, <1>7

LEMMA StoreAppliesIInv == ASSUME RouteIInv, StoreApplies PROVE RouteIInv'
<1>1. PICK author \in {"user", "model"} :
        /\ pc = (IF author = "user" THEN "append_user" ELSE "append_model")
        /\ ~Stored(author)
        /\ session' = Append(session, Entry(author))
        /\ current' = current /\ calls' = calls /\ call' = call /\ pc' = pc /\ asked' = asked
  BY DEF StoreApplies, ghosts
<1>2. PICK t \in 0..1 : Own(t) /\ author = (IF t = 0 THEN "user" ELSE "model")
  <2>1. Len(session) \in Nat /\ session \in Seq(Entries)
    BY DEF RouteIInv, RouteTypes
  <2>2. session # <<>> => Last(session) = session[Len(session)]
    BY <2>1 DEF Last
  <2>3. Own(1) => session # <<>> /\ session[Len(session)] = Entry("user")
    BY <2>1 DEF Own, OwnIn, Entry
  <2>4. Own(2) => session # <<>> /\ session[Len(session)] = Entry("model")
    BY <2>1 DEF Own, OwnIn, Entry
  <2>5. CASE author = "user"
    <3>1. Own(0)
      BY <1>1, <2>2, <2>3, <2>5 DEF Stored, RouteIInv, OwnEntries
    <3>2. QED
      BY <2>5, <3>1
  <2>6. CASE author = "model"
    <3>1. Own(1)
      BY <1>1, <2>2, <2>4, <2>6 DEF Stored, RouteIInv, OwnEntries
    <3>2. QED
      BY <2>6, <3>1
  <2>7. QED
    BY <2>5, <2>6
<1>3. /\ session' \in Seq(Entries) /\ Own(t + 1)' /\ Prior(t + 1)' = Prior(t) /\ Ordered'
  BY <1>1, <1>2, AppendOwn
<1>4. RouteTypes'
  BY <1>1, <1>3 DEF RouteIInv, RouteTypes
<1>5. SnapshotIsValid' /\ KindAtPoint' /\ CandidateIsNext' /\ AskedWasAuthorized'
  BY <1>1 DEF RouteIInv, SnapshotIsValid, KindAtPoint, CandidateIsNext, AskedWasAuthorized, InSession,
         RouteCall, WasAsked, Failed, Candidates, CapturedSnapshot, Awaits
<1>6. InSession /\ InSession' = InSession /\ call.prepared # None /\ call.outcome # "ok"
  BY <1>1 DEF RouteIInv, KindAtPoint, InSession, OwnEntries
<1>7. OwnEntries'
  BY <1>1, <1>2, <1>3, <1>6 DEF OwnEntries
<1>8. \A s \in 0..2 : Own(s)' => s = t + 1
  <2>1. session' \in Seq(Entries) /\ calls' \in Nat /\ t + 1 \in 0..2
    BY <1>4 DEF RouteTypes
  <2>2. OwnIn(session', calls', t + 1)
    BY <1>3 DEF Own
  <2>3. QED
    BY <2>1, <2>2, OwnIsUnique DEF Own
<1>9. ShownIsPrior'
  <2>1. /\ call.prepared = Prior(t)
        /\ \A k \in DOMAIN asked : asked[k].shown = Prior(t) \o <<Entry("user")>>
    BY <1>2, <1>6 DEF RouteIInv, ShownIsPrior
  <2>2. Entry("user")' = Entry("user")
    BY <1>1 DEF Entry
  <2>3. QED
    BY <1>1, <1>3, <1>8, <2>1, <2>2 DEF ShownIsPrior
<1>10. QED
  BY <1>3, <1>4, <1>5, <1>7, <1>9 DEF RouteIInv

LEMMA BindIInv == ASSUME RouteIInv, Bind PROVE RouteIInv'
<1>1. pc = "bind" /\ Quiet /\ asked' = asked /\ <<>> \in Seq(Attempts)
  BY DEF Bind, Ready, Quiet, ghosts
<1>2. call.kind \in SingleKinds => ~RouteCall \/ asked' = <<>>
  BY <1>1 DEF RouteIInv, CandidateIsNext
<1>3. CASE call.kind = "bind" /\ Ends("ok", <<>>)
  <2>1. ~InSession /\ call.kind \in SingleKinds
    BY <1>3 DEF InSession, SingleKinds
  <2>2. QED
    BY <1>1, <1>2, <1>3, <2>1, EndedIInv
<1>4. CASE Goto("ask")
  <2>1. call' = call /\ pc' = "ask"
    BY <1>4 DEF Goto
  <2>2. KindAtPoint'
    BY <1>1, <2>1 DEF RouteIInv, KindAtPoint, Awaits, InSession
  <2>3. (\A t \in 0..2 : Own(t)' = Own(t)) /\ InSession' = InSession
    BY <1>1, <2>1, SessionStays DEF Quiet
  <2>4. OwnEntries'
    BY <1>1, <2>1, <2>3 DEF RouteIInv, OwnEntries
  <2>5. QED
    BY <1>1, <1>4, <2>2, <2>4, GotoIInv DEF Awaits
<1>5. CASE Ends("Configuration", IF call.kind = "observer" THEN <<>> ELSE Attempt("Configuration"))
  <2>1. CASE call.kind = "observer"
    <3>1. Ends("Configuration", <<>>) /\ call.kind \in SingleKinds
      BY <1>5, <2>1 DEF SingleKinds, Declared
    <3>2. QED
      BY <1>1, <1>2, <3>1, EndedIInv
  <2>2. CASE call.kind # "observer"
    <3>1. Ends("Configuration", Attempt("Configuration"))
      BY <1>5, <2>2
    <3>2. QED
      BY <1>1, <3>1, EndedIInv, NotedAttempt
  <2>3. QED
    BY <2>1, <2>2
<1>6. QED
  BY <1>3, <1>4, <1>5 DEF Bind

LEMMA AskIInv == ASSUME RouteIInv, Ask PROVE RouteIInv'
<1>1. pc = "ask" /\ pc' = "frames" /\ Quiet /\ Asks
  BY DEF Ask, Ready, Quiet, Asks, Request
<1>2. /\ IsCall(call') /\ call'.kind = call.kind /\ call'.snapshot = call.snapshot
      /\ call'.index = call.index /\ call'.prepared = call.prepared
      /\ call'.attempts = call.attempts /\ call'.outcome = call.outcome
  BY DEF Ask, IsCall, CallFields, RouteIInv, RouteTypes
<1>3. SameCall /\ call'.index \in Nat /\ call'.attempts \in Seq(Attempts)
  BY <1>2 DEF SameCall, RouteIInv, RouteTypes
<1>4. KindAtPoint'
  BY <1>1, <1>2 DEF RouteIInv, KindAtPoint, Awaits, InSession
<1>5. CandidateIsNext'
  <2>1. /\ \A j : WasAsked(j, Len(asked)) => WasAsked(j, Len(asked))'
        /\ \A j : Failed(j) => Failed(j)'
        /\ \E m \in 1..Len(asked') : asked'[m].candidate = Candidates[call.index]
    BY <1>1, <1>3, PastStays DEF RouteIInv
  <2>2. Candidates' = Candidates /\ RouteCall' = RouteCall
    BY <1>2 DEF Candidates, CapturedSnapshot, RouteCall
  <2>3. WasAsked(call.index, Len(asked))'
    BY <1>2, <2>1, <2>2 DEF WasAsked
  <2>4. RouteCall =>
          /\ call.index \in 1..Len(Candidates)
          /\ Candidates[call.index] \in call.snapshot.allowed
          /\ \A j \in 1..call.index - 1 : WasAsked(j, Len(asked)) /\ Failed(j)
    BY <1>1 DEF RouteIInv, CandidateIsNext, Awaits
  <2>5. QED
    BY <1>1, <1>2, <2>1, <2>2, <2>3, <2>4 DEF CandidateIsNext
<1>6. (\A t \in 0..2 : Own(t)' = Own(t)) /\ InSession' = InSession
  BY <1>1, <1>2, SessionStays DEF Quiet
<1>7. OwnEntries'
  BY <1>1, <1>2, <1>6 DEF RouteIInv, OwnEntries
<1>8. QED
  BY <1>1, <1>2, <1>3, <1>4, <1>5, <1>7, GoesOn

\* The next candidate is tried only after this one was asked and failed retryably.
LEMMA InvocationFailsIInv ==
    ASSUME RouteIInv, Quiet, pc \in {"ask", "frames"}, NEW e, InvocationFails(e),
           asked' = asked \/ Asks, pc = "ask" => Asks
    PROVE  RouteIInv'
<1>1. pc # "done" /\ <<>> \in Seq(Attempts)
  OBVIOUS
<1>2. CASE e = "RetryableProvider" /\ call.kind \in RouteKinds
  <2>1. call' = [call EXCEPT !.attempts = Attempt("RetryableProvider")] /\ pc' = "head"
    BY <1>2 DEF InvocationFails
  <2>2. /\ IsCall(call') /\ call'.kind = call.kind /\ call'.snapshot = call.snapshot
        /\ call'.index = call.index /\ call'.prepared = call.prepared
        /\ call'.attempts = Attempt("RetryableProvider") /\ call'.outcome = call.outcome
    BY <2>1 DEF IsCall, CallFields, RouteIInv, RouteTypes
  <2>3. SameCall /\ call'.index \in Nat /\ call'.attempts \in Seq(Attempts)
    BY <2>2, NotedAttempt DEF SameCall, RouteIInv, RouteTypes
  <2>4. KindAtPoint'
    BY <1>2, <2>1, <2>2 DEF KindAtPoint, RouteKinds, Kinds, InSession
  <2>5. CandidateIsNext'
    <3>1. /\ \A j : WasAsked(j, Len(asked)) => WasAsked(j, Len(asked))'
          /\ \A j : Failed(j) => Failed(j)'
          /\ Asks => \E m \in 1..Len(asked') : asked'[m].candidate = Candidates[call.index]
      BY <2>3, PastStays DEF RouteIInv
    <3>2. Candidates' = Candidates /\ RouteCall' = RouteCall
      BY <2>2 DEF Candidates, CapturedSnapshot, RouteCall
    <3>3. CASE ~RouteCall
      BY <3>2, <3>3 DEF CandidateIsNext
    <3>4. CASE RouteCall
      <4>1. \E m \in 1..Len(asked') : asked'[m].candidate = Candidates[call.index]
        <5>1. CASE pc = "ask"
          BY <3>1, <5>1
        <5>2. CASE pc = "frames"
          <6>1. asked' = asked /\ WasAsked(call.index, Len(asked))
            BY <3>4, <5>2 DEF RouteIInv, CandidateIsNext, Asks
          <6>2. QED
            BY <6>1 DEF WasAsked
        <5>3. QED
          BY <5>1, <5>2
      <4>2. Failed(call.index)'
        <5>1. [ordinal |-> call.index, kind |-> "RetryableProvider"] \in Range(call'.attempts)
          BY <2>2, NotedAttempt
        <5>2. QED
          BY <2>2, <5>1 DEF Failed
      <4>3. call.index \in Nat /\ \A j \in 1..call.index - 1 : WasAsked(j, Len(asked)) /\ Failed(j)
        BY <3>4 DEF RouteIInv, RouteTypes, CandidateIsNext, Awaits
      <4>4. \A j \in 1..call.index : j \in 1..call.index - 1 \/ j = call.index
        BY <4>3
      <4>5. WasAsked(call.index, Len(asked))'
        BY <2>2, <3>2, <4>1 DEF WasAsked
      <4>6. \A j \in 1..call'.index : WasAsked(j, Len(asked))' /\ Failed(j)'
        BY <2>2, <3>1, <4>2, <4>3, <4>4, <4>5
      <4>7. call'.kind \notin SingleKinds
        BY <1>2, <2>2 DEF SingleKinds, Declared, RouteKinds
      <4>8. QED
        BY <2>1, <4>6, <4>7 DEF CandidateIsNext, Awaits
    <3>5. QED
      BY <3>3, <3>4
  <2>6. (\A t \in 0..2 : Own(t)' = Own(t)) /\ InSession' = InSession
    BY <2>2, SessionStays DEF Quiet
  <2>7. OwnEntries'
    BY <2>1, <2>2, <2>6 DEF RouteIInv, OwnEntries
  <2>8. QED
    BY <1>1, <2>2, <2>3, <2>4, <2>5, <2>7, GoesOn
<1>3. CASE ~(e = "RetryableProvider" /\ call.kind \in RouteKinds)
  <2>1. \E o \in {"Protocol", "Provider"}, k \in {"Protocol", "Timeout", "TerminalProvider"} :
            Ends(o, IF call.kind = "direct" THEN <<>> ELSE Attempt(k))
    BY <1>3 DEF InvocationFails
  <2>2. PICK o \in {"Protocol", "Provider"}, k \in {"Protocol", "Timeout", "TerminalProvider"} :
            Ends(o, IF call.kind = "direct" THEN <<>> ELSE Attempt(k))
    BY <2>1
  <2>3. CASE call.kind = "direct"
    <3>1. Ends(o, <<>>) /\ ~RouteCall
      BY <2>2, <2>3 DEF RouteCall
    <3>2. QED
      BY <1>1, <3>1, EndedIInv
  <2>4. CASE call.kind # "direct"
    <3>1. Ends(o, Attempt(k))
      BY <2>2, <2>4
    <3>2. QED
      BY <1>1, <3>1, EndedIInv, NotedAttempt
  <2>5. QED
    BY <2>3, <2>4
<1>4. QED
  BY <1>2, <1>3

LEMMA ProviderErrsIInv == ASSUME RouteIInv, ProviderErrs PROVE RouteIInv'
<1>1. pc \in {"ask", "frames"} /\ Quiet
  BY DEF ProviderErrs, Quiet
<1>2. (asked' = asked \/ Asks) /\ (pc = "ask" => Asks)
  BY DEF ProviderErrs, Asks, Request
<1>3. PICK e \in AdkErrors : InvocationFails(MapAdkError(e))
  BY DEF ProviderErrs
<1>4. QED
  BY <1>1, <1>2, <1>3, InvocationFailsIInv

LEMMA ReceiveIInv == ASSUME RouteIInv, Receive PROVE RouteIInv'
<1>1. pc = "frames" /\ Quiet /\ asked' = asked
  BY DEF Receive, Ready, Quiet, ghosts
<1>2. \/ InvocationFails("Provider") \/ InvocationFails("StructuredOutput")
      \/ UNCHANGED <<call, pc>>
  BY DEF Receive
<1>3. CASE UNCHANGED <<call, pc>>
  <2>1. current' \in Offers /\ SnapshotError(current') = None
    BY <1>1 DEF RouteIInv, SnapshotIsValid, Quiet
  <2>2. UNCHANGED <<calls, call, pc, session, asked>>
    BY <1>1, <1>3 DEF Quiet
  <2>3. QED
    BY <2>1, <2>2, UntouchedIInv
<1>4. QED
  BY <1>1, <1>2, <1>3, InvocationFailsIInv

LEMMA StreamEndsIInv == ASSUME RouteIInv, StreamEnds PROVE RouteIInv'
<1>1. pc = "frames" /\ Quiet /\ asked' = asked /\ call.attempts \in Seq(Attempts)
  BY DEF StreamEnds, Ready, Quiet, ghosts, RouteIInv, RouteTypes
<1>2. \/ InvocationFails("Provider") \/ InvocationFails("StructuredOutput")
      \/ Goto("ask")
      \/ InSession /\ Goto("append_model")
      \/ ~InSession /\ Ends("ok", call.attempts)
  <2>1. \/ InvocationFails("Provider") \/ InvocationFails("StructuredOutput") \/ Goto("ask")
        \/ IF InSession THEN Goto("append_model") ELSE Ends("ok", call.attempts)
    BY DEF StreamEnds
  <2>2. CASE InSession
    BY <2>1, <2>2
  <2>3. CASE ~InSession
    BY <2>1, <2>3
  <2>4. QED
    BY <2>2, <2>3
<1>3. CASE Goto("ask") \/ (InSession /\ Goto("append_model"))
  <2>1. PICK where \in {"ask", "append_model"} :
            Goto(where) /\ (where = "append_model" => InSession)
    BY <1>3
  <2>2. call' = call /\ pc' = where
    BY <2>1 DEF Goto
  <2>3. KindAtPoint'
    BY <1>1, <2>1, <2>2 DEF RouteIInv, KindAtPoint, Awaits, InSession
  <2>4. (\A t \in 0..2 : Own(t)' = Own(t)) /\ InSession' = InSession
    BY <1>1, <2>2, SessionStays DEF Quiet
  <2>5. OwnEntries'
    BY <1>1, <2>1, <2>2, <2>4 DEF RouteIInv, OwnEntries
  <2>6. QED
    BY <1>1, <2>1, <2>3, <2>5, GotoIInv DEF Awaits
<1>4. CASE ~InSession /\ Ends("ok", call.attempts)
  BY <1>1, <1>4, EndedIInv
<1>5. QED
  BY <1>1, <1>2, <1>3, <1>4, InvocationFailsIInv

LEMMA AppendedModelIInv == ASSUME RouteIInv, AppendedModel PROVE RouteIInv'
<1>1. /\ pc = "append_model" /\ Quiet /\ asked' = asked /\ call.attempts \in Seq(Attempts)
      /\ Ends("ok", call.attempts) /\ Stored("model")
  BY DEF AppendedModel, Ready, Quiet, ghosts, RouteIInv, RouteTypes
<1>2. Own(2)
  <2>1. Len(session) \in Nat /\ session \in Seq(Entries)
    BY DEF RouteIInv, RouteTypes
  <2>2. session # <<>> => Last(session) = session[Len(session)]
    BY <2>1 DEF Last
  <2>3. Own(1) => session[Len(session)] = Entry("user")
    BY <2>1 DEF Own, OwnIn, Entry
  <2>4. QED
    BY <1>1, <2>2, <2>3 DEF RouteIInv, OwnEntries, Stored, Entry
<1>3. QED
  BY <1>1, <1>2, EndedIInv

LEMMA AgentIInv == ASSUME RouteIInv, Agent PROVE RouteIInv'
<1>1. /\ pc \in {"try", "collect"} /\ Quiet /\ <<>> \in Seq(Attempts)
  BY DEF Agent, AgentTry, AgentErrs, AgentReceive, AgentStreamEnds, Quiet
<1>2. call.kind = "agent" /\ ~RouteCall /\ ~InSession
  BY <1>1 DEF RouteIInv, KindAtPoint, RouteCall, InSession
<1>3. \/ (\E o : Ends(o, <<>>)) /\ asked' = asked
      \/ call' = call /\ pc' \in {"try", "collect"} /\ asked' = asked
      \/ /\ pc' = "collect" /\ call' = [call EXCEPT !.tries = @ + 1]
         /\ asked' = Append(asked, [candidate |-> Candidates[1], shown |-> <<>>])
  <2>1. CASE AgentTry
    BY <2>1 DEF AgentTry
  <2>2. CASE AgentErrs
    BY <2>2 DEF AgentErrs, AgentFails, ghosts
  <2>3. CASE AgentReceive
    BY <1>1, <2>3 DEF AgentReceive, ghosts
  <2>4. CASE AgentStreamEnds
    BY <2>4 DEF AgentStreamEnds, ghosts
  <2>5. QED
    BY <2>1, <2>2, <2>3, <2>4 DEF Agent
<1>4. CASE (\E o : Ends(o, <<>>)) /\ asked' = asked
  <2>1. PICK o : Ends(o, <<>>)
    BY <1>4
  <2>2. QED
    BY <1>1, <1>2, <1>4, <2>1, EndedIInv
<1>5. CASE /\ IsCall(call') /\ call'.kind = call.kind /\ call'.snapshot = call.snapshot
           /\ call'.index = call.index /\ call'.prepared = call.prepared
           /\ call'.attempts = call.attempts /\ call'.outcome = call.outcome
           /\ pc' \in {"try", "collect"} /\ asked' \in Seq(Range(asked'))
  <2>1. RouteTypes' /\ SnapshotIsValid'
    BY <1>1, <1>5 DEF RouteIInv, RouteTypes, SnapshotIsValid, Quiet
  <2>2. ~InSession' /\ ~RouteCall' /\ KindAtPoint'
    BY <1>1, <1>2, <1>5 DEF RouteIInv, KindAtPoint, InSession, RouteCall, Kinds
  <2>3. CandidateIsNext' /\ AskedWasAuthorized' /\ ShownIsPrior'
    BY <2>2 DEF CandidateIsNext, AskedWasAuthorized, RouteCall, ShownIsPrior
  <2>4. (\A t \in 0..2 : Own(t)' = Own(t)) /\ Ordered'
    BY <1>1 DEF Own, Ordered, Quiet, RouteIInv
  <2>5. OwnEntries'
    <3>1. Own(0)
      BY <1>2 DEF RouteIInv, OwnEntries
    <3>2. QED
      BY <1>5, <2>2, <2>4, <3>1 DEF OwnEntries
  <2>6. QED
    BY <2>1, <2>2, <2>3, <2>4, <2>5 DEF RouteIInv
<1>6. CASE call' = call /\ pc' \in {"try", "collect"} /\ asked' = asked
  <2>1. IsCall(call') /\ asked' \in Seq(Range(asked'))
    BY <1>6 DEF RouteIInv, RouteTypes
  <2>2. QED
    BY <1>5, <1>6, <2>1
<1>7. CASE /\ pc' = "collect" /\ call' = [call EXCEPT !.tries = @ + 1]
           /\ asked' = Append(asked, [candidate |-> Candidates[1], shown |-> <<>>])
  <2> DEFINE r == [candidate |-> Candidates[1], shown |-> <<>>]
  <2>1. asked \in Seq(Range(asked) \cup {r})
    BY DEF RouteIInv, RouteTypes
  <2>2. asked' \in Seq(Range(asked) \cup {r}) /\ asked' = Append(asked, r)
    BY <1>7, <2>1
  <2>3. asked' \in Seq(Range(asked'))
    BY <2>2 DEF Range
  <2>4. /\ IsCall(call') /\ call'.kind = call.kind /\ call'.snapshot = call.snapshot
        /\ call'.index = call.index /\ call'.prepared = call.prepared
        /\ call'.attempts = call.attempts /\ call'.outcome = call.outcome
    BY <1>7 DEF IsCall, CallFields, RouteIInv, RouteTypes
  <2>5. QED
    BY <1>5, <1>7, <2>3, <2>4
<1>8. QED
  BY <1>3, <1>4, <1>6, <1>7

LEMMA RouteNextIInv == RouteIInv /\ [Next]_vars => RouteIInv'
<1> SUFFICES ASSUME RouteIInv, [Next]_vars PROVE RouteIInv'
  OBVIOUS
<1>1. CASE (\E o \in Offers : Reload(o)) \/ Cancel \/ DeadlinePasses \/ ProfileTimer
  BY <1>1, BesideIInv
<1>2. CASE \E kind \in Kinds : StartCall(kind)
  BY <1>2, StartCallIInv
<1>3. CASE Local
  BY <1>3, NextCandidateIInv, SingleIInv, DirectCallIInv, StoppedIInv, AppendedUserIInv,
     AppendedModelIInv DEF Local
<1>4. CASE Environment
  BY <1>4, SessionFailsIInv, LoadIInv, StoreAppliesIInv, BindIInv, AskIInv, ProviderErrsIInv,
     ReceiveIInv, StreamEndsIInv DEF Environment
<1>5. CASE Agent
  BY <1>5, AgentIInv
<1>6. CASE UNCHANGED vars
  <2>1. current' \in Offers /\ SnapshotError(current') = None
    BY <1>6 DEF RouteIInv, SnapshotIsValid, vars
  <2>2. UNCHANGED <<calls, call, pc, session, asked>>
    BY <1>6 DEF vars, ghosts
  <2>3. QED
    BY <2>1, <2>2, UntouchedIInv
<1>7. QED
  BY <1>1, <1>2, <1>3, <1>4, <1>5, <1>6 DEF Next

-----------------------------------------------------------------------------
\* The inductive invariant holds whatever hosts publish and providers answer.
THEOREM RouteInvariance == Spec => []RouteIInv
BY RouteInitIInv, RouteNextIInv, PTL DEF Spec

\* A request goes only to a candidate that the captured snapshot allows, after every
\* earlier candidate was asked and failed retryably.
THEOREM RequestsAuthorized == Spec => []AskedWasAuthorized
<1>1. RouteIInv => AskedWasAuthorized
  BY DEF RouteIInv
<1>2. QED
  BY RouteInvariance, <1>1, PTL

\* The caller's session is a transcript, and each request shows it as it was before the call.
THEOREM SessionTranscript == Spec => []SessionIsATranscript
<1>1. ASSUME RouteIInv PROVE SessionIsATranscript
  <2>1. Len(session) \in Nat /\ calls \in Nat /\ DOMAIN session = 1..Len(session)
        /\ session \in Seq(Entries)
    BY <1>1 DEF RouteIInv, RouteTypes
  <2>2. ASSUME InSession
        PROVE  \E n \in 0..Len(session) :
                  /\ \A i \in DOMAIN session : session[i].call < calls <=> i <= n
                  /\ \A k \in DOMAIN asked : asked[k].shown = SubSeq(session, 1, n) \o <<Entry("user")>>
    <3>1. PICK t \in 0..2 : Own(t)
      BY <1>1 DEF RouteIInv, OwnEntries
    <3> DEFINE n == Len(session) - t
    <3>2. n \in 0..Len(session) /\ \A i \in 1..n : session[i].call < calls
      BY <2>1, <3>1 DEF Own, OwnIn
    <3>3. \A i \in 1..Len(session) : i > n => session[i].call = calls
      <4>1. t > 0 => session[n + 1].call = calls
        BY <2>1, <3>1 DEF Own, OwnIn
      <4>2. t > 1 => session[n + 2].call = calls
        BY <2>1, <3>1 DEF Own, OwnIn
      <4>3. \A i \in 1..Len(session) : i > n => (t > 0 /\ i = n + 1) \/ (t > 1 /\ i = n + 2)
        BY <2>1, <3>2
      <4>4. QED
        BY <4>1, <4>2, <4>3
    <3>4. \A i \in DOMAIN session : session[i].call < calls <=> i <= n
      <4>1. \A i \in 1..Len(session) : i <= n => i \in 1..n
        BY <2>1, <3>2
      <4>2. \A i \in 1..Len(session) : i > n => ~(session[i].call < calls)
        BY <2>1, <3>3
      <4>3. \A i \in 1..Len(session) : i <= n \/ i > n
        BY <2>1, <3>2
      <4> HIDE DEF n
      <4>4. QED
        BY <2>1, <3>2, <4>1, <4>2, <4>3
    <3>5. \A k \in DOMAIN asked : asked[k].shown = SubSeq(session, 1, n) \o <<Entry("user")>>
      BY <1>1, <2>2, <3>1 DEF RouteIInv, ShownIsPrior, Prior
    <3>6. QED
      BY <3>2, <3>4, <3>5
  <2>3. InSession /\ call.outcome = "ok" => Stored("model")
    <3>1. Own(2) => session # <<>> /\ session[Len(session)] = Entry("model")
      BY <2>1 DEF Own, OwnIn, Entry
    <3>2. QED
      BY <1>1, <2>1, <3>1 DEF RouteIInv, OwnEntries, Stored, Last
  <2>4. QED
    BY <1>1, <2>2, <2>3 DEF SessionIsATranscript, RouteIInv, Ordered
<1>2. QED
  BY RouteInvariance, <1>1, PTL

=============================================================================
