------------------------------ MODULE ReviewLoop ------------------------------
(***************************************************************************)
(* The bounded producer -> validator -> reviewer -> reviser loop of        *)
(* workflow-review (review_loop.rs), with the authority a reviewer gets.   *)
(*                                                                         *)
(* The four parties are callbacks of the caller: each may return any value *)
(* of its type, return an error or (reviewer and reviser) panic, and the   *)
(* validator may answer differently for the same candidate.  The reviewer  *)
(* is handed a clonable ReviewerAuthority: Helpers are the threads that    *)
(* hold a clone, the reviewer's own thread among them, and may invoke      *)
(* tools at any time, also after the reviewer has returned.  A tool call   *)
(* holds the lease's mutex from the check of the lease to the answer.      *)
(*                                                                         *)
(* Candidates stand for their bytes and for the SHA-256 of them (no        *)
(* collisions).  A defect list is abstracted to its fingerprint, as a      *)
(* function from the codes that occur to the severity's rank (codes are    *)
(* distinct in one list), and to how its evidence references resolve.      *)
(***************************************************************************)
EXTENDS Integers, Sequences, FiniteSets, SequencesExt

CONSTANTS
    Candidates,      \* artifacts the producer and the reviser may emit
    Fingerprints,    \* defect lists: functions from codes to severity ranks
    Helpers,         \* threads holding a clone of the reviewer's authority
    Turns,           \* model turns a response may report
    MaxRevisions, MaxSameDefectRounds, MaxModelTurns, MaxToolCalls,
    MaxCount,        \* largest value of the u64 the turns are counted in
    None

ASSUME ReviewLoopAssumption ==
    /\ {MaxRevisions, MaxSameDefectRounds, MaxModelTurns, MaxToolCalls, MaxCount} \subseteq Nat
    /\ Turns \subseteq 0..MaxCount
    /\ None \notin Candidates /\ None \notin Helpers

VARIABLES
    config,          \* the two switches of ReviewLoopConfig
    phase,           \* whose answer the loop waits for
    candidate,       \* the candidate the loop works on
    hashes,          \* digests of the producer's and every accepted revision
    lastDefects,     \* the last non-empty fingerprint, None before
    sameRounds,      \* rounds it has stood without improving
    metrics,         \* reviewer attempts, revisions and billed cost
    answer,          \* what the reviewer returned, until it is judged
    lease,           \* one per reviewer attempt: closed, and who holds its mutex
    holds,           \* the attempt whose authority each helper holds, 0 if none
    consumed,        \* ReviewerToolBudgetState.consumed
    trail,           \* history: what each party last said yes to
    outcome          \* how run_bounded_review_loop returned

loopVars == <<config, phase, candidate, hashes, lastDefects, sameRounds,
              metrics, answer, trail, outcome>>
vars == <<loopVars, lease, holds, consumed>>

-----------------------------------------------------------------------------
Severe == 2          \* rank of Error; Critical is above it

\* What a validator may report: valid() or invalid(defects), any defects.
Reports == {[valid |-> TRUE, defects |-> <<>>]} \cup
           {[valid |-> FALSE, defects |-> f] : f \in Fingerprints}

\* A review that ReviewResult::new accepts: Pass carries no blocking defect.
\* "none" stands for a defect without evidence references, "unbound" for a
\* reference that is not a selected evidence, "bound" for the rest.
Reviews ==
    {r \in [verdict: {"Pass", "Revise", "Abstain"}, defects: Fingerprints,
            refs: {"bound", "none", "unbound"}] :
        /\ r.verdict = "Pass" => \A c \in DOMAIN r.defects : r.defects[c] < Severe
        /\ DOMAIN r.defects = {} => r.refs = "bound"}

Answers == [ok: {TRUE}, review: Reviews, turns: Turns] \cup [ok: {FALSE}, error: {"Reviewer", "panic"}]
Leases == [closed: BOOLEAN, holder: Helpers \cup {None}]
Said == Candidates \cup {None}
Metrics == [attempts: Nat, revisions: 0..MaxRevisions, turns: 0..MaxCount, tools: 0..MaxToolCalls]
Codes == {"Publish", "MaxRevisionsExceeded", "BudgetExhausted", "RepeatedDefectSet",
          "ReviewerOutputRejected", "ReviewerAbstained", "OscillationDetected",
          "RepeatedOutputHash", "FinalValidationFailed", "InvalidConfiguration", "Producer",
          "SessionIdentity", "Validator", "Reviewer", "Reviser", "panic"}
Outcomes == [kind: {"published", "abstained", "error"}, code: Codes, artifact: Said,
             counted: BOOLEAN]

TypeOK ==
    /\ config \in [repeated: BOOLEAN, twoCycle: BOOLEAN]
    /\ phase \in {"producer", "validate", "reviewer", "closing", "reviser", "final", "done"}
    /\ candidate \in Said /\ hashes \in Seq(Candidates)
    /\ lastDefects \in Fingerprints \cup {None} /\ sameRounds \in Nat
    /\ metrics \in Metrics
    /\ answer \in Answers \cup {None}
    /\ lease \in Seq(Leases) /\ holds \in [Helpers -> 0..Len(lease)]
    /\ consumed \in 0..MaxToolCalls
    /\ trail \in [valid: Said, passed: Said, final: Said]
    /\ outcome \in Outcomes \cup {None}

\* The evidence rules a review must obey before the loop acts on it.
ReviewOutputIsBound(r) ==
    /\ r.verdict = "Revise" => DOMAIN r.defects # {} /\ r.refs # "none"
    /\ r.refs # "unbound"

\* observe_defects: the new counter; an empty list leaves it alone.
SameCodes(f) == lastDefects # None /\ DOMAIN lastDefects = DOMAIN f
SeverityDropped(f) == \E c \in DOMAIN f : f[c] < lastDefects[c]
RoundsAfter(f) ==
    IF DOMAIN f = {} THEN sameRounds
    ELSE IF SameCodes(f) /\ ~SeverityDropped(f) THEN sameRounds + 1 ELSE 0
RepeatedTooOften(f) == DOMAIN f # {} /\ RoundsAfter(f) > MaxSameDefectRounds
ObserveDefects(f) ==
    /\ sameRounds' = RoundsAfter(f)
    /\ lastDefects' = IF DOMAIN f = {} THEN lastDefects ELSE f

\* A response is billed at least one turn; the tools come from the budget
\* the boundary shares with every clone of the authority.
Billed(turns) == IF turns < 1 THEN 1 ELSE turns
CanRecord(turns) == metrics.turns + Billed(turns) <= MaxCount
WithCost(m, turns) == IF m.turns + Billed(turns) > MaxCount THEN m
                      ELSE [m EXCEPT !.turns = @ + Billed(turns), !.tools = consumed]
Result(kind, code) == [kind |-> kind, code |-> code, artifact |-> None, counted |-> TRUE]
Return(result) == phase' = "done" /\ outcome' = result
Abstain(code) == Return(Result("abstained", code))
Fail(code) == Return(Result("error", code))

BudgetExhausted(m) == m.turns >= MaxModelTurns \/ m.tools >= MaxToolCalls
\* Slip: only the next call looks at the budget.
NeverOverrun(m) == FALSE
BudgetOverrun(m) == m.turns > MaxModelTurns \/ m.tools > MaxToolCalls

-----------------------------------------------------------------------------
Init ==
    /\ config \in [repeated: BOOLEAN, twoCycle: BOOLEAN]
    /\ phase = "producer" /\ candidate = None /\ hashes = <<>>
    /\ lastDefects = None /\ sameRounds = 0
    /\ metrics = [attempts |-> 0, revisions |-> 0, turns |-> 0, tools |-> 0]
    /\ answer = None
    /\ lease = <<>> /\ holds = [h \in Helpers |-> 0] /\ consumed = 0
    /\ trail = [valid |-> None, passed |-> None, final |-> None]
    /\ outcome = None

\* validate_config may refuse the configuration, the producer may fail, and
\* so may the allocation of the session ids.
Produce ==
    /\ phase = "producer"
    /\ \/ \E c \in Candidates :
             /\ candidate' = c /\ hashes' = <<c>> /\ phase' = "validate"
             /\ UNCHANGED outcome
       \/ /\ \E e \in {"InvalidConfiguration", "Producer", "SessionIdentity"} : Fail(e)
          /\ UNCHANGED <<candidate, hashes>>
    /\ UNCHANGED <<config, lastDefects, sameRounds, metrics, answer, trail, lease, holds, consumed>>

\* revise_candidate up to the reviser's call, with the metrics m so far.
AskReviser(m) ==
    IF m.revisions >= MaxRevisions
    THEN metrics' = m /\ Abstain("MaxRevisionsExceeded")
    ELSE IF BudgetExhausted(m)
    THEN metrics' = m /\ Abstain("BudgetExhausted")
    ELSE /\ metrics' = [m EXCEPT !.revisions = @ + 1]
         /\ phase' = "reviser" /\ UNCHANGED outcome

\* A reviewer attempt gets an authority with an open lease of its own.
AskReviewer ==
    /\ metrics' = [metrics EXCEPT !.attempts = @ + 1]
    /\ lease' = Append(lease, [closed |-> FALSE, holder |-> None])
    /\ phase' = "reviewer" /\ UNCHANGED outcome

\* The validator at the head of the loop.
Validate ==
    /\ phase = "validate"
    /\ \/ Fail("Validator") /\ UNCHANGED <<lastDefects, sameRounds, metrics, lease, trail>>
       \/ \E r \in Reports :
            /\ ~r.valid
            /\ ObserveDefects(r.defects)
            /\ IF RepeatedTooOften(r.defects)
               THEN Abstain("RepeatedDefectSet") /\ UNCHANGED metrics
               ELSE AskReviser(metrics)
            /\ UNCHANGED <<lease, trail>>
       \/ /\ trail' = [trail EXCEPT !.valid = candidate]
          /\ IF BudgetExhausted(metrics)
             THEN Abstain("BudgetExhausted") /\ UNCHANGED <<metrics, lease>>
             ELSE AskReviewer
          /\ UNCHANGED <<lastDefects, sameRounds>>
    /\ UNCHANGED <<config, candidate, hashes, answer, holds, consumed>>

-----------------------------------------------------------------------------
\* A helper gets a clone of the authority while the reviewer runs.
TakeAuthority(h) ==
    /\ phase = "reviewer" /\ holds[h] # metrics.attempts
    /\ \A k \in 1..Len(lease) : lease[k].holder # h
    /\ holds' = [holds EXCEPT ![h] = metrics.attempts]
    /\ UNCHANGED <<loopVars, lease, consumed>>

\* ReviewerToolBudget::reserve.
CanReserve == consumed < MaxToolCalls

\* ReviewerAuthority::invoke_tool up to the dispatch: under the lease's
\* mutex, the lease is open, the tool is one of the read-only tools and the
\* budget has a call left.  A refused call changes nothing (it is a stutter).
MayDispatch(k) == ~lease[k].closed /\ CanReserve
InvokeTool(h) ==
    /\ holds[h] # 0
    /\ lease[holds[h]].holder = None
    /\ \A k \in 1..Len(lease) : lease[k].holder # h
    /\ MayDispatch(holds[h])
    /\ consumed' = consumed + 1
    /\ lease' = [lease EXCEPT ![holds[h]].holder = h]
    /\ UNCHANGED <<loopVars, holds>>

\* Slip: the mutex is not released when the answer is late.
ToolReturnsHeld(h) ==
    /\ holds[h] # 0 /\ lease[holds[h]].holder = h
    /\ UNCHANGED vars

\* The bridge answers: the handler's result, a denial, or HandlerFailed when
\* the handler is not done within its timeout.  The mutex is released.
ToolReturns(h) ==
    /\ holds[h] # 0 /\ lease[holds[h]].holder = h
    /\ lease' = [lease EXCEPT ![holds[h]].holder = None]
    /\ UNCHANGED <<loopVars, holds, consumed>>

-----------------------------------------------------------------------------
\* The reviewer's callback returns a response, an error or by a panic.
ReviewerReturns ==
    /\ phase = "reviewer"
    /\ \/ \E r \in Reviews, t \in Turns : answer' = [ok |-> TRUE, review |-> r, turns |-> t]
       \/ \E e \in {"Reviewer", "panic"} : answer' = [ok |-> FALSE, error |-> e]
    /\ phase' = "closing"
    /\ UNCHANGED <<config, candidate, hashes, lastDefects, sameRounds, metrics, trail, outcome,
                   lease, holds, consumed>>

\* Slip: the lease is an atomic flag, set whoever is in a call.
CloseFlag == lease' = [lease EXCEPT ![metrics.attempts].closed = TRUE]

\* Dropping the guard closes the lease, once its mutex is free.
CloseLease == /\ lease[metrics.attempts].holder = None
              /\ lease' = [lease EXCEPT ![metrics.attempts].closed = TRUE]

\* What the loop does with a reviewer's response, m being the bill with it.
JudgeReview(r, m) ==
    IF ~ReviewOutputIsBound(r)
    THEN /\ metrics' = m /\ Abstain("ReviewerOutputRejected")
         /\ UNCHANGED <<lastDefects, sameRounds, trail>>
    ELSE /\ ObserveDefects(r.defects)
         /\ trail' = IF r.verdict = "Pass" THEN [trail EXCEPT !.passed = candidate] ELSE trail
         /\ IF RepeatedTooOften(r.defects)
            THEN metrics' = m /\ Abstain("RepeatedDefectSet")
            ELSE CASE r.verdict = "Abstain" -> metrics' = m /\ Abstain("ReviewerAbstained")
                   [] r.verdict = "Revise" -> AskReviser(m)
                   [] r.verdict = "Pass" -> metrics' = m /\ phase' = "final" /\ UNCHANGED outcome

\* The lease is closed first, then the cost recorded and the answer judged.
CloseAndJudge ==
    /\ phase = "closing"
    /\ CloseLease
    /\ answer' = None
    /\ \/ /\ ~answer.ok
          /\ metrics' = WithCost(metrics, 0)
          /\ Return([Result("error", answer.error) EXCEPT !.counted = CanRecord(0)])
          /\ UNCHANGED <<lastDefects, sameRounds, trail>>
       \/ /\ answer.ok
          /\ LET m == WithCost(metrics, answer.turns)
             IN  IF CanRecord(answer.turns) /\ ~BudgetOverrun(m)
                 THEN JudgeReview(answer.review, m)
                 ELSE /\ metrics' = m
                      /\ Return([Result("abstained", "BudgetExhausted") EXCEPT
                                    !.counted = CanRecord(answer.turns)])
                      /\ UNCHANGED <<lastDefects, sameRounds, trail>>
    /\ UNCHANGED <<config, candidate, hashes, holds, consumed>>

\* The end of revise_candidate: the revision is taken unless it is the
\* candidate before the last one, or any earlier one.
Oscillates(c) == config.twoCycle /\ Len(hashes) >= 2 /\ hashes[Len(hashes) - 1] = c
Repeats(c) == config.repeated /\ Contains(hashes, c)
TakeRevision(c) ==
    CASE Oscillates(c) -> Abstain("OscillationDetected") /\ UNCHANGED <<candidate, hashes>>
      [] ~Oscillates(c) /\ Repeats(c) ->
            Abstain("RepeatedOutputHash") /\ UNCHANGED <<candidate, hashes>>
      [] OTHER -> /\ hashes' = Append(hashes, c) /\ candidate' = c
                  /\ phase' = "validate" /\ UNCHANGED outcome

\* The reviser's callback returns a revision, an error or by a panic.
ReviserReturns ==
    /\ phase = "reviser"
    /\ \/ \E e \in {"Reviser", "panic"} :
            /\ metrics' = WithCost(metrics, 0)
            /\ Return([Result("error", e) EXCEPT !.counted = CanRecord(0)])
            /\ UNCHANGED <<candidate, hashes>>
       \/ \E c \in Candidates, t \in Turns :
            LET m == WithCost(metrics, t)
            IN  /\ metrics' = m
                /\ IF CanRecord(t) /\ ~BudgetOverrun(m)
                   THEN TakeRevision(c)
                   ELSE /\ Return([Result("abstained", "BudgetExhausted") EXCEPT
                                      !.counted = CanRecord(t)])
                        /\ UNCHANGED <<candidate, hashes>>
    /\ UNCHANGED <<config, lastDefects, sameRounds, answer, trail, lease, holds, consumed>>

\* The validation after a Pass; the candidate is published when it holds.
FinalValidate ==
    /\ phase = "final"
    /\ \/ Fail("Validator") /\ UNCHANGED trail
       \/ Abstain("FinalValidationFailed") /\ UNCHANGED trail
       \/ /\ trail' = [trail EXCEPT !.final = candidate]
          /\ Return([Result("published", "Publish") EXCEPT !.artifact = candidate])
    /\ UNCHANGED <<config, candidate, hashes, lastDefects, sameRounds, metrics, answer,
                   lease, holds, consumed>>

\* The run has returned; helpers that still hold an authority may call on.
Returned == phase = "done" /\ UNCHANGED vars

HelperStep(h) == TakeAuthority(h) \/ InvokeTool(h) \/ ToolReturns(h)
LoopStep == Produce \/ Validate \/ ReviewerReturns \/ CloseAndJudge
            \/ ReviserReturns \/ FinalValidate
Next == LoopStep \/ Returned \/ \E h \in Helpers : HelperStep(h)

\* Fairness: a callback the loop has called returns, and a tool call returns
\* by its timeout at the latest.  Nobody has to call a tool.
Spec == /\ Init /\ [][Next]_vars
        /\ WF_vars(LoopStep)
        /\ \A h \in Helpers : WF_vars(ToolReturns(h))

-----------------------------------------------------------------------------
InCall(h) == \E k \in 1..Len(lease) : lease[k].holder = h

\* A published artifact is the very candidate the validator last accepted at
\* the head of the loop, the reviewer passed and the final validation
\* accepted, and the turns and the tool calls that were really spent on the
\* way stay within the limits: no revision slips in between.
PublishedWasAccepted ==
    phase = "done" /\ outcome.kind = "published" =>
        /\ trail = [valid |-> outcome.artifact, passed |-> outcome.artifact,
                    final |-> outcome.artifact]
        /\ metrics.turns <= MaxModelTurns /\ consumed <= MaxToolCalls
        /\ metrics.revisions <= MaxRevisions

\* When the run has returned, no tool call made with a reviewer's authority
\* is in progress or can still be made, and the bill it returns names every
\* call that was dispatched, whatever threads the reviewer left behind; only
\* a turn count that overflows leaves the bill as it was.
BillIsComplete ==
    phase = "done" =>
        /\ \A h \in Helpers : ~InCall(h)
        /\ outcome.counted => metrics.tools = consumed

\* The loop returns, however the callbacks answer, and even if a thread the
\* reviewer left behind holds the lease when the reviewer returns.
LoopEnds == <>(phase = "done")
=============================================================================
