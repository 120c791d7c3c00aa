-------------------------- MODULE Acceptance_proofs --------------------------
(***************************************************************************)
(* Proofs about the two places where an answer of a model becomes a result   *)
(* that others rely on, and has to be accepted first.                       *)
(*                                                                         *)
(* ReviewLoop: whatever the callbacks answer and whatever threads the       *)
(* reviewer leaves behind, only an accepted candidate is published, within  *)
(* the limits, and a returned run has a complete bill.                      *)
(*                                                                         *)
(* NodeCache: for any runs, keys, outputs, retention and faults, the cache  *)
(* stores and reuses accepted outputs only, and what a call that answered   *)
(* Ok left at its key survives a loss of power.                             *)
(***************************************************************************)
EXTENDS ReviewLoop, NodeCache, SequenceTheorems, TLAPS

(***************************************************************************)
(* ReviewLoop.                                                             *)
(***************************************************************************)

\* A reviewer attempt is open from its call until its answer is judged.
InReview == phase \in {"reviewer", "closing"}

\* There is one lease per attempt.  A closed lease has no tool call under way,
\* and only the lease of the attempt that runs is open.
LeasesClosed ==
    /\ Len(lease) = metrics.attempts
    /\ \A k \in 1..Len(lease) : lease[k].closed => lease[k].holder = None
    /\ \A k \in 1..Len(lease) : ~lease[k].closed => InReview /\ k = metrics.attempts
    /\ InReview => metrics.attempts > 0

\* Between two attempts the bill names every call; a run that has returned
\* with an overflowed turn count says so.
BilledSoFar ==
    ~InReview /\ (phase = "done" => outcome.counted) => metrics.tools = consumed

\* The answer is there while it waits to be judged.
AnswerPending == phase = "closing" => answer \in Answers

\* What the parties said yes to is the candidate the loop works on.
TrailIsCandidate ==
    /\ phase \in {"reviewer", "closing", "final"} => trail.valid = candidate
    /\ phase = "final" => trail.passed = candidate /\ metrics.turns <= MaxModelTurns

IInv == TypeOK /\ LeasesClosed /\ BilledSoFar /\ AnswerPending /\ TrailIsCandidate
        /\ PublishedWasAccepted

-----------------------------------------------------------------------------
(* Lemmas about the helpers.                                                *)

\* A response adds at least one turn and the calls of the shared budget to
\* the bill; a count that would overflow leaves the bill as it was.
LEMMA WithCostFacts ==
    ASSUME TypeOK, NEW t \in Turns \cup {0}
    PROVE  /\ WithCost(metrics, t) \in Metrics
           /\ WithCost(metrics, t).attempts = metrics.attempts
           /\ WithCost(metrics, t).revisions = metrics.revisions
           /\ CanRecord(t) => WithCost(metrics, t).tools = consumed
           /\ CanRecord(t) \in BOOLEAN
<1> DEFINE b == Billed(t)
<1>1. b \in Nat
  BY ReviewLoopAssumption DEF Billed
<1>2. metrics.turns \in Nat /\ MaxCount \in Nat
  BY ReviewLoopAssumption DEF TypeOK, Metrics
<1>3. CanRecord(t) <=> ~(metrics.turns + b > MaxCount)
  BY <1>1, <1>2 DEF CanRecord
<1> HIDE DEF b
<1>4. CASE metrics.turns + b > MaxCount
  BY <1>3, <1>4 DEF WithCost, TypeOK, b, CanRecord
<1>5. CASE ~(metrics.turns + b > MaxCount)
  <2>1. WithCost(metrics, t) = [metrics EXCEPT !.turns = metrics.turns + b, !.tools = consumed]
    BY <1>5 DEF WithCost, b
  <2>4. metrics \in Metrics /\ consumed \in 0..MaxToolCalls
    BY DEF TypeOK
  <2>2. metrics.turns + b \in 0..MaxCount
    BY <1>1, <1>2, <1>5
  <2>3. QED
    <3>1. /\ WithCost(metrics, t) \in Metrics
          /\ WithCost(metrics, t).attempts = metrics.attempts
          /\ WithCost(metrics, t).revisions = metrics.revisions
          /\ WithCost(metrics, t).tools = consumed
      BY <2>1, <2>2, <2>4 DEF Metrics
    <3>2. QED
      BY <3>1 DEF CanRecord
<1>6. QED
  BY <1>4, <1>5

\* How an early return looks: nothing is published by it.
Ends == phase' = "done" /\ outcome' \in Outcomes /\ outcome'.kind # "published"
EndsCounted == Ends /\ outcome'.counted = TRUE

LEMMA AbstainEnds == \A code \in Codes : Abstain(code) => EndsCounted
BY DEF Abstain, Return, Result, Ends, EndsCounted, Outcomes, Said

LEMMA FailEnds == \A code \in Codes : Fail(code) => EndsCounted
BY DEF Fail, Return, Result, Ends, EndsCounted, Outcomes, Said

LEMMA ReturnEnds ==
    ASSUME NEW kind \in {"abstained", "error"}, NEW code \in Codes, NEW b \in BOOLEAN,
           Return([Result(kind, code) EXCEPT !.counted = b])
    PROVE  Ends /\ outcome'.counted = b
BY DEF Return, Result, Ends, EndsCounted, Outcomes, Said

\* revise_candidate asks the reviser, or ends the run; it bills nothing.
LEMMA AskReviserFacts ==
    ASSUME NEW m \in Metrics, AskReviser(m)
    PROVE  /\ metrics' \in Metrics
           /\ metrics'.attempts = m.attempts /\ metrics'.tools = m.tools
           /\ EndsCounted \/ (phase' = "reviser" /\ outcome' = outcome)
<1>1. CASE m.revisions >= MaxRevisions
  <2>1. metrics' = m /\ Abstain("MaxRevisionsExceeded")
    BY <1>1 DEF AskReviser
  <2>2. QED
    BY <2>1, AbstainEnds DEF Codes
<1>2. CASE ~(m.revisions >= MaxRevisions) /\ BudgetExhausted(m)
  <2>1. metrics' = m /\ Abstain("BudgetExhausted")
    BY <1>2 DEF AskReviser
  <2>2. QED
    BY <2>1, AbstainEnds DEF Codes
<1>3. CASE ~(m.revisions >= MaxRevisions) /\ ~BudgetExhausted(m)
  <2>1. metrics' = [m EXCEPT !.revisions = m.revisions + 1]
        /\ phase' = "reviser" /\ outcome' = outcome
    BY <1>3 DEF AskReviser, Metrics
  <2>2. m.revisions + 1 \in 0..MaxRevisions
    BY <1>3, ReviewLoopAssumption DEF Metrics
  <2>3. QED
    BY <2>1, <2>2 DEF Metrics
<1>4. QED
  BY <1>1, <1>2, <1>3

\* Observing a defect list keeps a counter and the last list.
LEMMA ObserveType ==
    ASSUME TypeOK, NEW f \in Fingerprints, ObserveDefects(f)
    PROVE  lastDefects' \in Fingerprints \cup {None} /\ sameRounds' \in Nat
BY DEF TypeOK, ObserveDefects, RoundsAfter

\* A lease that changes, the others staying as they are.
LEMMA LeaseUpdate ==
    ASSUME TypeOK, NEW k \in 1..Len(lease), NEW r \in Leases, lease' = [lease EXCEPT ![k] = r]
    PROVE  /\ lease' \in Seq(Leases) /\ Len(lease') = Len(lease)
           /\ \A j \in 1..Len(lease) : lease'[j] = IF j = k THEN r ELSE lease[j]
BY ExceptSeq DEF TypeOK

\* Leases stay closed while no reviewer is asked.
LEMMA LeasesKept ==
    ASSUME LeasesClosed, lease' = lease, metrics'.attempts = metrics.attempts,
           ~InReview, ~InReview'
    PROVE  LeasesClosed'
BY DEF LeasesClosed, InReview

-----------------------------------------------------------------------------
(* The inductive invariant.                                                 *)

LEMMA InitIInv == Init => IInv
<1> SUFFICES ASSUME Init PROVE IInv
  OBVIOUS
<1>1. TypeOK
  <2>1. metrics \in Metrics /\ trail \in [valid: Said, passed: Said, final: Said]
    BY ReviewLoopAssumption DEF Init, Metrics, Said
  <2>2. hashes \in Seq(Candidates) /\ lease \in Seq(Leases) /\ Len(lease) = 0
    BY DEF Init
  <2>3. holds \in [Helpers -> 0..Len(lease)] /\ consumed \in 0..MaxToolCalls
    BY <2>2, ReviewLoopAssumption DEF Init
  <2>4. QED
    BY <2>1, <2>2, <2>3 DEF Init, TypeOK, Said
<1>2. LeasesClosed /\ BilledSoFar /\ AnswerPending /\ TrailIsCandidate /\ PublishedWasAccepted
  BY DEF Init, LeasesClosed, BilledSoFar, AnswerPending, TrailIsCandidate,
         PublishedWasAccepted, InReview
<1>3. QED
  BY <1>1, <1>2 DEF IInv

\* A step between two attempts that neither publishes nor accepts a review
\* keeps the invariant when it keeps the bill.
LEMMA QuietIInv ==
    ASSUME IInv, TypeOK', ~InReview, ~InReview', phase # "done",
           UNCHANGED <<lease, holds, consumed>>,
           metrics'.attempts = metrics.attempts,
           (phase' = "done" => outcome'.counted) => metrics'.tools = consumed,
           phase' = "done" => outcome'.kind # "published",
           phase' # "final"
    PROVE  IInv'
<1>1. LeasesClosed'
  BY LeasesKept DEF IInv
<1>2. BilledSoFar' /\ AnswerPending' /\ TrailIsCandidate' /\ PublishedWasAccepted'
  BY DEF BilledSoFar, AnswerPending, TrailIsCandidate, PublishedWasAccepted, InReview
<1>3. QED
  BY <1>1, <1>2 DEF IInv

\* The producer answers, or the run ends before it began.
LEMMA ProduceIInv == ASSUME IInv, Produce PROVE IInv'
<1>1. /\ phase = "producer"
      /\ UNCHANGED <<config, lastDefects, sameRounds, metrics, answer, trail, lease, holds,
                     consumed>>
  BY DEF Produce
<1>2. ~InReview /\ metrics.tools = consumed
  BY <1>1 DEF IInv, InReview, BilledSoFar
<1>3. CASE \E c \in Candidates : /\ candidate' = c /\ hashes' = <<c>> /\ phase' = "validate"
                                 /\ UNCHANGED outcome
  <2>1. candidate' \in Said /\ hashes' \in Seq(Candidates)
    BY <1>3 DEF Said
  <2>2. TypeOK'
    BY <1>1, <1>3, <2>1 DEF IInv, TypeOK
  <2>3. QED
    BY <1>1, <1>2, <1>3, <2>2, QuietIInv DEF InReview
<1>4. CASE /\ \E e \in {"InvalidConfiguration", "Producer", "SessionIdentity"} : Fail(e)
           /\ UNCHANGED <<candidate, hashes>>
  <2>1. EndsCounted
    BY <1>4, FailEnds DEF Codes
  <2>2. TypeOK'
    BY <1>1, <1>4, <2>1 DEF IInv, TypeOK, EndsCounted, Ends
  <2>3. QED
    BY <1>1, <1>2, <2>1, <2>2, QuietIInv DEF InReview, EndsCounted, Ends
<1>5. QED
  BY <1>3, <1>4 DEF Produce

\* The validator answers; only an accepted candidate reaches a reviewer.
LEMMA ValidateIInv == ASSUME IInv, Validate PROVE IInv'
<1>1. phase = "validate" /\ UNCHANGED <<config, candidate, hashes, answer, holds, consumed>>
  BY DEF Validate
<1>2. ~InReview /\ metrics.tools = consumed
  BY <1>1 DEF IInv, InReview, BilledSoFar
<1>3. CASE Fail("Validator") /\ UNCHANGED <<lastDefects, sameRounds, metrics, lease, trail>>
  <2>1. EndsCounted
    BY <1>3, FailEnds DEF Codes
  <2>2. TypeOK'
    BY <1>1, <1>3, <2>1 DEF IInv, TypeOK, EndsCounted, Ends
  <2>3. QED
    BY <1>1, <1>2, <1>3, <2>1, <2>2, QuietIInv DEF InReview, EndsCounted, Ends
<1>4. ASSUME NEW r \in Reports, ~r.valid, ObserveDefects(r.defects),
             IF RepeatedTooOften(r.defects)
             THEN Abstain("RepeatedDefectSet") /\ UNCHANGED metrics
             ELSE AskReviser(metrics),
             UNCHANGED <<lease, trail>>
      PROVE  IInv'
  <2>1. r.defects \in Fingerprints
    BY <1>4 DEF Reports
  <2>2. lastDefects' \in Fingerprints \cup {None} /\ sameRounds' \in Nat
    BY <1>4, <2>1, ObserveType DEF IInv
  <2>3. /\ metrics' \in Metrics
        /\ metrics'.attempts = metrics.attempts /\ metrics'.tools = metrics.tools
        /\ EndsCounted \/ (phase' = "reviser" /\ outcome' = outcome)
    <3>1. metrics \in Metrics
      BY DEF IInv, TypeOK
    <3>2. CASE RepeatedTooOften(r.defects)
      <4>1. Abstain("RepeatedDefectSet") /\ metrics' = metrics
        BY <1>4, <3>2
      <4>2. QED
        BY <3>1, <4>1, AbstainEnds DEF Codes
    <3>3. CASE ~RepeatedTooOften(r.defects)
      BY <1>4, <3>1, <3>3, AskReviserFacts
    <3>4. QED
      BY <3>2, <3>3
  <2>4. TypeOK'
    BY <1>1, <1>4, <2>2, <2>3 DEF IInv, TypeOK, EndsCounted, Ends
  <2>5. QED
    BY <1>1, <1>2, <1>4, <2>3, <2>4, QuietIInv DEF InReview, EndsCounted, Ends
<1>5. CASE /\ trail' = [trail EXCEPT !.valid = candidate]
           /\ IF BudgetExhausted(metrics)
              THEN Abstain("BudgetExhausted") /\ UNCHANGED <<metrics, lease>>
              ELSE AskReviewer
           /\ UNCHANGED <<lastDefects, sameRounds>>
  <2>1. trail' \in [valid: Said, passed: Said, final: Said] /\ trail'.valid = candidate
    BY <1>5 DEF IInv, TypeOK
  <2>2. CASE BudgetExhausted(metrics)
    <3>1. EndsCounted /\ UNCHANGED <<metrics, lease>>
      BY <1>5, <2>2, AbstainEnds DEF Codes
    <3>2. TypeOK'
      BY <1>1, <1>5, <2>1, <3>1 DEF IInv, TypeOK, EndsCounted, Ends
    <3>3. QED
      BY <1>1, <1>2, <3>1, <3>2, QuietIInv DEF InReview, EndsCounted, Ends
  <2>3. CASE ~BudgetExhausted(metrics)
    <3> DEFINE new == [closed |-> FALSE, holder |-> None]
    <3>1. /\ metrics' = [metrics EXCEPT !.attempts = metrics.attempts + 1]
          /\ lease' = Append(lease, new)
          /\ phase' = "reviewer" /\ outcome' = outcome
      BY <1>5, <2>3 DEF AskReviewer
    <3>2. metrics' \in Metrics /\ metrics'.attempts = metrics.attempts + 1
          /\ metrics.attempts \in Nat
      <4>1. metrics \in Metrics
        BY DEF IInv, TypeOK
      <4>2. metrics.attempts + 1 \in Nat
        BY <4>1 DEF Metrics
      <4>3. QED
        BY <3>1, <4>1, <4>2 DEF Metrics
    <3>3. new \in Leases /\ lease \in Seq(Leases) /\ ~new.closed
      BY DEF IInv, TypeOK, Leases
    <3> HIDE DEF new
    <3>4. /\ lease' \in Seq(Leases) /\ Len(lease') = Len(lease) + 1 /\ Len(lease) \in Nat
          /\ lease'[Len(lease) + 1] = new
          /\ \A k \in 1..Len(lease) : lease'[k] = lease[k]
      BY <3>1, <3>3
    <3>5. holds' \in [Helpers -> 0..Len(lease')]
      BY <1>1, <3>4 DEF IInv, TypeOK
    <3>6. TypeOK'
      BY <1>1, <1>5, <2>1, <3>1, <3>2, <3>4, <3>5 DEF IInv, TypeOK
    <3>7. LeasesClosed'
      <4>1. Len(lease) = metrics.attempts /\ Len(lease') = metrics'.attempts
            /\ metrics'.attempts > 0
        BY <3>2, <3>4 DEF IInv, LeasesClosed
      <4>2. \A k \in 1..Len(lease) : lease[k].closed /\ lease[k].holder = None
        BY <1>2 DEF IInv, LeasesClosed
      <4>3. ASSUME NEW k \in 1..Len(lease'), k # Len(lease')
            PROVE  lease'[k].closed /\ lease'[k].holder = None
        BY <3>4, <4>2, <4>3
      <4>4. ~lease'[Len(lease')].closed /\ InReview'
        BY <3>1, <3>3, <3>4 DEF InReview
      <4>5. QED
        BY <4>1, <4>3, <4>4 DEF LeasesClosed
    <3>8. BilledSoFar' /\ AnswerPending' /\ TrailIsCandidate' /\ PublishedWasAccepted'
      BY <1>1, <2>1, <3>1 DEF BilledSoFar, AnswerPending, TrailIsCandidate,
          PublishedWasAccepted, InReview
    <3>9. QED
      BY <3>6, <3>7, <3>8 DEF IInv
  <2>4. QED
    BY <2>2, <2>3
<1>6. QED
  BY <1>3, <1>4, <1>5 DEF Validate

\* The reviewer returns; its lease stays open until it is closed.
LEMMA ReviewerReturnsIInv == ASSUME IInv, ReviewerReturns PROVE IInv'
<1>1. /\ phase = "reviewer" /\ phase' = "closing"
      /\ UNCHANGED <<config, candidate, hashes, lastDefects, sameRounds, metrics, trail,
                     outcome, lease, holds, consumed>>
  BY DEF ReviewerReturns
<1>2. answer' \in Answers
  <2>1. ASSUME NEW r \in Reviews, NEW t \in Turns, answer' = [ok |-> TRUE, review |-> r, turns |-> t]
        PROVE  answer' \in [ok: {TRUE}, review: Reviews, turns: Turns]
    BY <2>1
  <2>2. ASSUME NEW e \in {"Reviewer", "panic"}, answer' = [ok |-> FALSE, error |-> e]
        PROVE  answer' \in [ok: {FALSE}, error: {"Reviewer", "panic"}]
    BY <2>2
  <2>3. QED
    BY <2>1, <2>2 DEF ReviewerReturns, Answers
<1>3. TypeOK'
  BY <1>1, <1>2 DEF IInv, TypeOK
<1>4. LeasesClosed' /\ BilledSoFar' /\ AnswerPending' /\ TrailIsCandidate' /\ PublishedWasAccepted'
  BY <1>1, <1>2 DEF IInv, LeasesClosed, BilledSoFar, AnswerPending, TrailIsCandidate,
      PublishedWasAccepted, InReview
<1>5. QED
  BY <1>3, <1>4 DEF IInv

\* What the loop does with a billed review: it goes on to the final
\* validation only with a review that passes, within the budget.
LEMMA JudgeReviewFacts ==
    ASSUME IInv, phase = "closing", NEW r \in Reviews, NEW m \in Metrics, JudgeReview(r, m)
    PROVE  /\ metrics' \in Metrics
           /\ metrics'.attempts = m.attempts /\ metrics'.tools = m.tools
           /\ lastDefects' \in Fingerprints \cup {None} /\ sameRounds' \in Nat
           /\ trail' \in [valid: Said, passed: Said, final: Said]
           /\ \/ EndsCounted
              \/ phase' = "reviser" /\ outcome' = outcome
              \/ /\ phase' = "final" /\ outcome' = outcome /\ metrics' = m
                 /\ trail'.valid = candidate /\ trail'.passed = candidate
<1>1. r.defects \in Fingerprints /\ r.verdict \in {"Pass", "Revise", "Abstain"}
  BY DEF Reviews
<1>2. /\ lastDefects \in Fingerprints \cup {None} /\ sameRounds \in Nat /\ candidate \in Said
      /\ trail \in [valid: Said, passed: Said, final: Said] /\ trail.valid = candidate
  BY DEF IInv, TypeOK, TrailIsCandidate
<1>3. CASE ~ReviewOutputIsBound(r)
  <2>1. metrics' = m /\ Abstain("ReviewerOutputRejected") /\ UNCHANGED <<lastDefects, sameRounds, trail>>
    BY <1>3 DEF JudgeReview
  <2>2. QED
    BY <1>2, <2>1, AbstainEnds DEF Codes
<1>4. CASE ReviewOutputIsBound(r)
  <2>1. /\ ObserveDefects(r.defects)
        /\ trail' = IF r.verdict = "Pass" THEN [trail EXCEPT !.passed = candidate] ELSE trail
    BY <1>4 DEF JudgeReview
  <2>2. lastDefects' \in Fingerprints \cup {None} /\ sameRounds' \in Nat
    BY <1>1, <2>1, ObserveType DEF IInv
  <2>3. trail' \in [valid: Said, passed: Said, final: Said] /\ trail'.valid = candidate
        /\ (r.verdict = "Pass" => trail'.passed = candidate)
    BY <1>2, <2>1
  <2>4. CASE RepeatedTooOften(r.defects)
    <3>1. metrics' = m /\ Abstain("RepeatedDefectSet")
      BY <1>4, <2>4 DEF JudgeReview
    <3>2. QED
      BY <2>2, <2>3, <3>1, AbstainEnds DEF Codes
  <2>5. CASE ~RepeatedTooOften(r.defects) /\ r.verdict = "Abstain"
    <3>1. metrics' = m /\ Abstain("ReviewerAbstained")
      BY <1>4, <2>5 DEF JudgeReview
    <3>2. QED
      BY <2>2, <2>3, <3>1, AbstainEnds DEF Codes
  <2>6. CASE ~RepeatedTooOften(r.defects) /\ r.verdict = "Revise"
    <3>1. AskReviser(m)
      BY <1>4, <2>6 DEF JudgeReview
    <3>2. QED
      BY <2>2, <2>3, <3>1, AskReviserFacts
  <2>7. CASE ~RepeatedTooOften(r.defects) /\ r.verdict = "Pass"
    <3>1. metrics' = m /\ phase' = "final" /\ outcome' = outcome
      BY <1>4, <2>7 DEF JudgeReview
    <3>2. QED
      BY <2>2, <2>3, <2>7, <3>1
  <2>8. QED
    BY <1>1, <2>4, <2>5, <2>6, <2>7
<1>5. QED
  BY <1>3, <1>4

\* Closing the lease waits for the call under way; the bill is taken after.
LEMMA CloseAndJudgeIInv == ASSUME IInv, CloseAndJudge PROVE IInv'
<1> DEFINE n == metrics.attempts
<1>1. /\ phase = "closing" /\ CloseLease /\ answer' = None
      /\ UNCHANGED <<config, candidate, hashes, holds, consumed>>
  BY DEF CloseAndJudge
<1>2. answer \in Answers /\ InReview
  BY <1>1 DEF IInv, AnswerPending, InReview
<1>3. n \in 1..Len(lease) /\ lease[n].holder = None /\ lease \in Seq(Leases)
  <2>1. n = Len(lease) /\ n > 0 /\ n \in Nat
    BY <1>2 DEF IInv, TypeOK, Metrics, LeasesClosed
  <2>2. QED
    BY <1>1, <2>1 DEF CloseLease, IInv, TypeOK
<1> DEFINE new == [lease[n] EXCEPT !.closed = TRUE]
<1>4. /\ new \in Leases /\ new.closed /\ new.holder = None
      /\ lease' = [lease EXCEPT ![n] = new]
  <2>1. lease' = [lease EXCEPT ![n] = new]
    BY <1>1 DEF CloseLease
  <2>2. lease[n] \in Leases
    BY <1>3
  <2>3. new \in Leases /\ new.closed = TRUE /\ new.holder = None
    BY <1>3, <2>2 DEF Leases
  <2>4. QED
    BY <2>1, <2>3
<1>5. /\ lease' \in Seq(Leases) /\ Len(lease') = Len(lease)
      /\ \A k \in 1..Len(lease) : lease'[k] = IF k = n THEN new ELSE lease[k]
  BY <1>3, <1>4, LeaseUpdate DEF IInv
<1>6. \A k \in 1..Len(lease') : lease'[k].closed /\ lease'[k].holder = None
  <2>1. \A k \in 1..Len(lease) : k # n => lease[k].closed /\ lease[k].holder = None
    BY DEF IInv, LeasesClosed
  <2>2. QED
    BY <1>4, <1>5, <2>1
<1>7. /\ metrics' \in Metrics /\ metrics'.attempts = n
      /\ lastDefects' \in Fingerprints \cup {None} /\ sameRounds' \in Nat
      /\ trail' \in [valid: Said, passed: Said, final: Said]
      /\ \/ Ends /\ (outcome'.counted => metrics'.tools = consumed)
         \/ phase' = "reviser" /\ outcome' = outcome /\ metrics'.tools = consumed
         \/ /\ phase' = "final" /\ outcome' = outcome /\ metrics'.tools = consumed
            /\ metrics'.turns <= MaxModelTurns
            /\ trail'.valid = candidate /\ trail'.passed = candidate
  <2>1. CASE /\ ~answer.ok
             /\ metrics' = WithCost(metrics, 0)
             /\ Return([Result("error", answer.error) EXCEPT !.counted = CanRecord(0)])
             /\ UNCHANGED <<lastDefects, sameRounds, trail>>
    <3>1. answer.error \in Codes
      BY <1>2, <2>1 DEF Answers, Codes
    <3>2. Ends /\ outcome'.counted = CanRecord(0)
      BY <2>1, <3>1, ReturnEnds, WithCostFacts DEF IInv
    <3>3. metrics' \in Metrics /\ metrics'.attempts = n
          /\ (CanRecord(0) => metrics'.tools = consumed)
      BY <2>1, WithCostFacts DEF IInv
    <3>4. QED
      BY <2>1, <3>2, <3>3 DEF IInv, TypeOK
  <2>2. ASSUME answer.ok
        PROVE  answer.turns \in Turns /\ answer.review \in Reviews
    BY <1>2, <2>2 DEF Answers
  <2> DEFINE m == WithCost(metrics, answer.turns)
  <2>3. CASE answer.ok /\ CanRecord(answer.turns) /\ ~BudgetOverrun(m) /\ JudgeReview(answer.review, m)
    <3>1. m \in Metrics /\ m.attempts = n /\ m.tools = consumed
      BY <2>2, <2>3, WithCostFacts DEF IInv
    <3>2. m.turns <= MaxModelTurns
      BY <2>3, <3>1, ReviewLoopAssumption DEF BudgetOverrun, Metrics
    <3> HIDE DEF m
    <3>3. /\ metrics' \in Metrics
          /\ metrics'.attempts = m.attempts /\ metrics'.tools = m.tools
          /\ lastDefects' \in Fingerprints \cup {None} /\ sameRounds' \in Nat
          /\ trail' \in [valid: Said, passed: Said, final: Said]
          /\ \/ EndsCounted
             \/ phase' = "reviser" /\ outcome' = outcome
             \/ /\ phase' = "final" /\ outcome' = outcome /\ metrics' = m
                /\ trail'.valid = candidate /\ trail'.passed = candidate
      BY <1>1, <2>2, <2>3, <3>1, JudgeReviewFacts
    <3>4. QED
      BY <3>1, <3>2, <3>3 DEF EndsCounted
  <2>4. CASE /\ answer.ok /\ metrics' = m
             /\ Return([Result("abstained", "BudgetExhausted") EXCEPT
                           !.counted = CanRecord(answer.turns)])
             /\ UNCHANGED <<lastDefects, sameRounds, trail>>
    <3>1. CanRecord(answer.turns) \in BOOLEAN /\ m \in Metrics /\ m.attempts = n
          /\ (CanRecord(answer.turns) => m.tools = consumed)
      BY <2>2, <2>4, WithCostFacts DEF IInv
    <3>2. Ends /\ outcome'.counted = CanRecord(answer.turns)
      BY <2>4, <3>1, ReturnEnds DEF Codes
    <3>3. QED
      BY <2>4, <3>1, <3>2 DEF IInv, TypeOK
  <2>5. QED
    BY <2>1, <2>3, <2>4 DEF CloseAndJudge
<1> HIDE DEF n, new
<1>8. TypeOK'
  <2>1. phase' \in {"reviser", "final", "done"} /\ outcome' \in Outcomes \cup {None}
    BY <1>7 DEF Ends, IInv, TypeOK
  <2>2. holds' \in [Helpers -> 0..Len(lease')]
    BY <1>1, <1>5 DEF IInv, TypeOK
  <2>3. QED
    BY <1>1, <1>5, <1>7, <2>1, <2>2 DEF IInv, TypeOK
<1>9. LeasesClosed'
  <2>1. ~InReview'
    BY <1>7 DEF InReview, Ends
  <2>2. Len(lease') = metrics'.attempts
    BY <1>5, <1>7 DEF IInv, LeasesClosed, n
  <2>3. QED
    BY <1>6, <2>1, <2>2 DEF LeasesClosed
<1>10. BilledSoFar' /\ AnswerPending'
  BY <1>1, <1>7 DEF BilledSoFar, AnswerPending, Ends
<1>11. TrailIsCandidate' /\ PublishedWasAccepted'
  BY <1>1, <1>7 DEF TrailIsCandidate, PublishedWasAccepted, Ends
<1>12. QED
  BY <1>8, <1>9, <1>10, <1>11 DEF IInv

\* The end of revise_candidate takes the revision or abstains.
LEMMA TakeRevisionFacts ==
    ASSUME TypeOK, NEW c \in Candidates, TakeRevision(c)
    PROVE  /\ candidate' \in Said /\ hashes' \in Seq(Candidates)
           /\ EndsCounted \/ (phase' = "validate" /\ outcome' = outcome)
<1>1. candidate \in Said /\ hashes \in Seq(Candidates)
  BY DEF TypeOK
<1>2. CASE Oscillates(c)
  <2>1. Abstain("OscillationDetected") /\ UNCHANGED <<candidate, hashes>>
    BY <1>2 DEF TakeRevision
  <2>2. QED
    BY <1>1, <2>1, AbstainEnds DEF Codes
<1>3. CASE ~Oscillates(c) /\ Repeats(c)
  <2>1. Abstain("RepeatedOutputHash") /\ UNCHANGED <<candidate, hashes>>
    BY <1>3 DEF TakeRevision
  <2>2. QED
    BY <1>1, <2>1, AbstainEnds DEF Codes
<1>4. CASE ~Oscillates(c) /\ ~Repeats(c)
  <2>1. hashes' = Append(hashes, c) /\ candidate' = c /\ phase' = "validate" /\ outcome' = outcome
    BY <1>4 DEF TakeRevision
  <2>2. QED
    BY <1>1, <2>1 DEF Said
<1>5. QED
  BY <1>2, <1>3, <1>4

\* The reviser answers and is billed; a taken revision is validated again.
LEMMA ReviserReturnsIInv == ASSUME IInv, ReviserReturns PROVE IInv'
<1>1. /\ phase = "reviser" /\ ~InReview
      /\ UNCHANGED <<config, lastDefects, sameRounds, answer, trail, lease, holds, consumed>>
  BY DEF ReviserReturns, InReview
<1>2. SUFFICES /\ metrics' \in Metrics /\ metrics'.attempts = metrics.attempts
               /\ candidate' \in Said /\ hashes' \in Seq(Candidates)
               /\ \/ Ends /\ (outcome'.counted => metrics'.tools = consumed)
                  \/ phase' = "validate" /\ outcome' = outcome /\ metrics'.tools = consumed
  <2>1. outcome' \in Outcomes \cup {None} /\ phase' \in {"validate", "done"}
    BY <1>2 DEF Ends, IInv, TypeOK
  <2>2. TypeOK'
    BY <1>1, <1>2, <2>1 DEF IInv, TypeOK
  <2>3. QED
    BY <1>1, <1>2, <2>2, QuietIInv DEF InReview, Ends
<1>3. CASE \E e \in {"Reviser", "panic"} :
              /\ metrics' = WithCost(metrics, 0)
              /\ Return([Result("error", e) EXCEPT !.counted = CanRecord(0)])
              /\ UNCHANGED <<candidate, hashes>>
  <2>1. CanRecord(0) \in BOOLEAN
    BY WithCostFacts DEF IInv
  <2>2. Ends /\ outcome'.counted = CanRecord(0)
    BY <1>3, <2>1, ReturnEnds DEF Codes
  <2>3. metrics' \in Metrics /\ metrics'.attempts = metrics.attempts
        /\ (CanRecord(0) => metrics'.tools = consumed)
    BY <1>3, WithCostFacts DEF IInv
  <2>4. QED
    BY <1>3, <2>2, <2>3 DEF IInv, TypeOK
<1>4. ASSUME NEW c \in Candidates, NEW t \in Turns, metrics' = WithCost(metrics, t),
             IF CanRecord(t) /\ ~BudgetOverrun(WithCost(metrics, t))
             THEN TakeRevision(c)
             ELSE /\ Return([Result("abstained", "BudgetExhausted") EXCEPT
                                !.counted = CanRecord(t)])
                  /\ UNCHANGED <<candidate, hashes>>
      PROVE  /\ metrics' \in Metrics /\ metrics'.attempts = metrics.attempts
             /\ candidate' \in Said /\ hashes' \in Seq(Candidates)
             /\ \/ Ends /\ (outcome'.counted => metrics'.tools = consumed)
                \/ phase' = "validate" /\ outcome' = outcome /\ metrics'.tools = consumed
  <2>1. metrics' \in Metrics /\ metrics'.attempts = metrics.attempts
        /\ (CanRecord(t) => metrics'.tools = consumed) /\ CanRecord(t) \in BOOLEAN
    BY <1>4, WithCostFacts DEF IInv
  <2>2. CASE CanRecord(t) /\ ~BudgetOverrun(WithCost(metrics, t))
    <3>1. TakeRevision(c)
      BY <1>4, <2>2
    <3>2. /\ candidate' \in Said /\ hashes' \in Seq(Candidates)
          /\ EndsCounted \/ (phase' = "validate" /\ outcome' = outcome)
      BY <3>1, TakeRevisionFacts DEF IInv
    <3>3. QED
      BY <2>1, <2>2, <3>2 DEF EndsCounted
  <2>3. CASE ~(CanRecord(t) /\ ~BudgetOverrun(WithCost(metrics, t)))
    <3>1. Return([Result("abstained", "BudgetExhausted") EXCEPT !.counted = CanRecord(t)])
          /\ UNCHANGED <<candidate, hashes>>
      BY <1>4, <2>3
    <3>2. Ends /\ outcome'.counted = CanRecord(t)
      BY <2>1, <3>1, ReturnEnds DEF Codes
    <3>3. QED
      BY <2>1, <3>1, <3>2 DEF IInv, TypeOK
  <2>4. QED
    BY <2>2, <2>3
<1>5. QED
  BY <1>3, <1>4 DEF ReviserReturns

\* The final validation publishes the candidate the reviewer passed.
LEMMA FinalValidateIInv == ASSUME IInv, FinalValidate PROVE IInv'
<1>1. /\ phase = "final" /\ ~InReview
      /\ UNCHANGED <<config, candidate, hashes, lastDefects, sameRounds, metrics, answer,
                     lease, holds, consumed>>
  BY DEF FinalValidate, InReview
<1>2. metrics.tools = consumed
  BY <1>1 DEF IInv, BilledSoFar
<1>3. CASE (Fail("Validator") \/ Abstain("FinalValidationFailed")) /\ UNCHANGED trail
  <2>1. EndsCounted
    BY <1>3, AbstainEnds, FailEnds DEF Codes
  <2>2. TypeOK'
    BY <1>1, <1>3, <2>1 DEF IInv, TypeOK, EndsCounted, Ends
  <2>3. QED
    BY <1>1, <1>2, <2>1, <2>2, QuietIInv DEF EndsCounted, Ends, InReview
<1>4. CASE /\ trail' = [trail EXCEPT !.final = candidate]
           /\ Return([Result("published", "Publish") EXCEPT !.artifact = candidate])
  <2>1. /\ phase' = "done" /\ outcome' \in Outcomes /\ outcome'.artifact = candidate
    BY <1>4 DEF Return, Result, Outcomes, Codes, IInv, TypeOK
  <2>2. trail' \in [valid: Said, passed: Said, final: Said]
        /\ trail' = [valid |-> candidate, passed |-> candidate, final |-> candidate]
    BY <1>1, <1>4 DEF IInv, TypeOK, TrailIsCandidate
  <2>3. TypeOK'
    BY <1>1, <2>1, <2>2 DEF IInv, TypeOK
  <2>4. LeasesClosed'
    BY <1>1, <2>1, LeasesKept DEF IInv, InReview
  <2>5. BilledSoFar' /\ AnswerPending' /\ TrailIsCandidate'
    BY <1>1, <1>2, <2>1 DEF BilledSoFar, AnswerPending, TrailIsCandidate
  <2>6. PublishedWasAccepted'
    <3>1. metrics.turns <= MaxModelTurns /\ metrics.revisions <= MaxRevisions
          /\ consumed <= MaxToolCalls
      BY <1>1 DEF IInv, TypeOK, Metrics, TrailIsCandidate
    <3>2. QED
      BY <1>1, <2>1, <2>2, <3>1 DEF PublishedWasAccepted
  <2>7. QED
    BY <2>3, <2>4, <2>5, <2>6 DEF IInv
<1>5. QED
  BY <1>3, <1>4 DEF FinalValidate

\* A clone of the authority is one of an attempt that was made.
LEMMA TakeAuthorityIInv ==
    ASSUME IInv, NEW h \in Helpers, TakeAuthority(h) PROVE IInv'
<1>1. /\ UNCHANGED <<config, phase, candidate, hashes, lastDefects, sameRounds, metrics, answer,
                     trail, outcome, lease, consumed>>
      /\ holds' = [holds EXCEPT ![h] = metrics.attempts]
  BY DEF TakeAuthority, loopVars
<1>2. metrics.attempts \in 0..Len(lease)
  BY DEF IInv, TypeOK, Metrics, LeasesClosed
<1>3. TypeOK'
  BY <1>1, <1>2 DEF IInv, TypeOK
<1>4. LeasesClosed' /\ BilledSoFar' /\ AnswerPending' /\ TrailIsCandidate' /\ PublishedWasAccepted'
  BY <1>1 DEF IInv, LeasesClosed, BilledSoFar, AnswerPending, TrailIsCandidate,
      PublishedWasAccepted, InReview
<1>5. QED
  BY <1>3, <1>4 DEF IInv

\* A tool call takes the mutex of an open lease: the attempt still runs, so
\* the bill is not taken yet.
LEMMA InvokeToolIInv ==
    ASSUME IInv, NEW h \in Helpers, InvokeTool(h) PROVE IInv'
<1> DEFINE k == holds[h]
           new == [lease[k] EXCEPT !.holder = h]
<1>1. /\ k # 0 /\ ~lease[k].closed /\ consumed < MaxToolCalls /\ consumed' = consumed + 1
      /\ lease' = [lease EXCEPT ![k] = new]
      /\ UNCHANGED <<config, phase, candidate, hashes, lastDefects, sameRounds, metrics, answer,
                     trail, outcome, holds>>
  BY DEF InvokeTool, MayDispatch, CanReserve, loopVars
<1>2. k \in 1..Len(lease) /\ lease[k] \in Leases
  <2>1. k \in 0..Len(lease) /\ lease \in Seq(Leases)
    BY DEF IInv, TypeOK
  <2>2. QED
    BY <1>1, <2>1
<1>3. new \in Leases /\ new.closed = lease[k].closed
  BY <1>2 DEF Leases
<1>4. InReview /\ k = metrics.attempts
  BY <1>1, <1>2 DEF IInv, LeasesClosed
<1> HIDE DEF new
<1>5. /\ lease' \in Seq(Leases) /\ Len(lease') = Len(lease)
      /\ \A j \in 1..Len(lease) : lease'[j] = IF j = k THEN new ELSE lease[j]
  BY <1>1, <1>2, <1>3, LeaseUpdate DEF IInv
<1> HIDE DEF k
<1>6. TypeOK'
  <2>1. consumed' \in 0..MaxToolCalls
    BY <1>1, ReviewLoopAssumption DEF IInv, TypeOK
  <2>2. QED
    BY <1>1, <1>5, <2>1 DEF IInv, TypeOK
<1>7. LeasesClosed'
  <2>1. InReview' /\ metrics'.attempts > 0 /\ Len(lease') = metrics'.attempts
    BY <1>1, <1>4, <1>5 DEF IInv, LeasesClosed, InReview
  <2>2. ASSUME NEW j \in 1..Len(lease')
        PROVE  /\ lease'[j].closed => lease'[j].holder = None
               /\ ~lease'[j].closed => j = metrics'.attempts
    <3>1. CASE j = k
      BY <1>1, <1>3, <1>4, <1>5, <3>1
    <3>2. CASE j # k
      BY <1>1, <1>5, <3>2 DEF IInv, LeasesClosed
    <3>3. QED
      BY <3>1, <3>2
  <2>3. QED
    BY <2>1, <2>2 DEF LeasesClosed
<1>8. BilledSoFar' /\ AnswerPending' /\ TrailIsCandidate' /\ PublishedWasAccepted'
  BY <1>1, <1>4 DEF IInv, BilledSoFar, AnswerPending, TrailIsCandidate,
      PublishedWasAccepted, InReview
<1>9. QED
  BY <1>6, <1>7, <1>8 DEF IInv

\* A tool call ends: the mutex of its lease is free again.
LEMMA ToolReturnsIInv ==
    ASSUME IInv, NEW h \in Helpers, ToolReturns(h) PROVE IInv'
<1> DEFINE k == holds[h]
           new == [lease[k] EXCEPT !.holder = None]
<1>1. /\ k # 0 /\ lease' = [lease EXCEPT ![k] = new]
      /\ UNCHANGED <<config, phase, candidate, hashes, lastDefects, sameRounds, metrics, answer,
                     trail, outcome, holds, consumed>>
  BY DEF ToolReturns, loopVars
<1>2. k \in 1..Len(lease) /\ lease[k] \in Leases
  <2>1. k \in 0..Len(lease) /\ lease \in Seq(Leases)
    BY DEF IInv, TypeOK
  <2>2. QED
    BY <1>1, <2>1
<1>3. new \in Leases /\ new.closed = lease[k].closed /\ new.holder = None
  BY <1>2 DEF Leases
<1> HIDE DEF new
<1>4. /\ lease' \in Seq(Leases) /\ Len(lease') = Len(lease)
      /\ \A j \in 1..Len(lease) : lease'[j] = IF j = k THEN new ELSE lease[j]
  BY <1>1, <1>2, <1>3, LeaseUpdate DEF IInv
<1>5. TypeOK'
  BY <1>1, <1>4 DEF IInv, TypeOK
<1> HIDE DEF k
<1>6. LeasesClosed'
  <2>1. ASSUME NEW j \in 1..Len(lease')
        PROVE  /\ lease'[j].closed => lease'[j].holder = None
               /\ lease'[j].closed = lease[j].closed
    BY <1>3, <1>4 DEF IInv, LeasesClosed
  <2>2. QED
    BY <1>1, <1>4, <2>1 DEF IInv, LeasesClosed, InReview
<1>7. BilledSoFar' /\ AnswerPending' /\ TrailIsCandidate' /\ PublishedWasAccepted'
  BY <1>1 DEF IInv, BilledSoFar, AnswerPending, TrailIsCandidate, PublishedWasAccepted, InReview
<1>8. QED
  BY <1>5, <1>6, <1>7 DEF IInv

LEMMA NextIInv == IInv /\ [Next]_vars => IInv'
<1> SUFFICES ASSUME IInv, [Next]_vars PROVE IInv'
  OBVIOUS
<1>1. CASE LoopStep
  BY <1>1, ProduceIInv, ValidateIInv, ReviewerReturnsIInv, CloseAndJudgeIInv,
     ReviserReturnsIInv, FinalValidateIInv DEF LoopStep
<1>2. ASSUME NEW h \in Helpers, HelperStep(h) PROVE IInv'
  BY <1>2, TakeAuthorityIInv, InvokeToolIInv, ToolReturnsIInv DEF HelperStep
<1>3. CASE UNCHANGED vars
  BY <1>3 DEF vars, loopVars, IInv, TypeOK, LeasesClosed, BilledSoFar, AnswerPending,
      TrailIsCandidate, PublishedWasAccepted, InReview
<1>4. QED
  BY <1>1, <1>2, <1>3 DEF Next, Returned

\* The inductive invariant holds of every run of the loop.
THEOREM Invariance == Spec => []IInv
BY InitIInv, NextIInv, PTL DEF Spec

\* Type correctness: the counters stay within their limits.
THEOREM TypeCorrect == Spec => []TypeOK
<1>1. IInv => TypeOK
  BY DEF IInv
<1>2. QED
  BY Invariance, <1>1, PTL

\* Only a candidate that validator, reviewer and final validation accepted is
\* published, and within the limits.
THEOREM AcceptedBeforePublished == Spec => []PublishedWasAccepted
<1>1. IInv => PublishedWasAccepted
  BY DEF IInv
<1>2. QED
  BY Invariance, <1>1, PTL

\* A returned run has no tool call under way, and bills every one it made.
THEOREM CompleteBill == Spec => []BillIsComplete
<1>1. IInv => BillIsComplete
  <2> SUFFICES ASSUME IInv, phase = "done"
               PROVE  /\ \A h \in Helpers : ~InCall(h)
                      /\ outcome.counted => metrics.tools = consumed
    BY DEF BillIsComplete
  <2>1. ~InReview
    BY DEF InReview
  <2>2. \A k \in 1..Len(lease) : lease[k].holder = None
    BY <2>1 DEF IInv, LeasesClosed
  <2>3. \A h \in Helpers : ~InCall(h)
    BY <2>2, ReviewLoopAssumption DEF InCall
  <2>4. outcome.counted => metrics.tools = consumed
    BY <2>1 DEF IInv, BilledSoFar
  <2>5. QED
    BY <2>3, <2>4
<1>2. QED
  BY Invariance, <1>1, PTL

(***************************************************************************)
(* NodeCache.                                                              *)
(***************************************************************************)

\* put has an admitted output to store.
Putting == {"link", "compare", "remove", "removed", "relink", "recheck", "sync"}

\* What a node call knows: its key once it is under way, the answer of the
\* model before it is admitted, the admitted answer while put stores it, and
\* at the end, when the model was not called, an admitted answer of the past.
CallIsSound(s, acc) ==
    /\ s.pc # "idle" => s.key \in Keys
    /\ s.pc = "idle" => ~s.called
    /\ s.pc = "returned" => s.called /\ s.output \in Outputs
    /\ s.pc \in Putting => s.called /\ s.output \in Outputs /\ s.output \in acc[s.key]
    /\ s.pc = "done" /\ ~s.called => s.output \in acc[s.key]

CallsAreSound == \A r \in Runs : CallIsSound(run[r], accepted)

\* Both directories hold admitted outputs; a loss of power can bring back the
\* synced one.
StoredIsAccepted ==
    \A k \in Keys : /\ ent[k] \in Outputs => ent[k] \in accepted[k]
                    /\ disk[k] \in Outputs => disk[k] \in accepted[k]

CacheIInv == CacheTypeOK /\ CallsAreSound /\ StoredIsAccepted

-----------------------------------------------------------------------------
(* Lemmas about the steps of the file system and of a node call.            *)

\* What the type invariant and the others say of the directories alone.
Promises == promised \in [Keys -> Outputs \union {Nothing, Unknown}] /\ solo \subseteq Runs
FilesOK == ent \in [Keys -> Entries] /\ disk \in [Keys -> Entries] /\ Promises /\ StoredIsAccepted

\* Admitting an output forgets none.
Grows == accepted' \in [Keys -> SUBSET Outputs] /\ \A k \in Keys : accepted[k] \subseteq accepted'[k]

\* Nothing is written.
LEMMA KeepFiles == ASSUME FilesOK, Grows, ent' = ent, disk' = disk, Promises' PROVE FilesOK'
BY DEF FilesOK, Grows, StoredIsAccepted

\* Writing an entry: it is no output, or an admitted one.
LEMMA SetFiles ==
    ASSUME FilesOK, Grows, NEW k \in Keys, NEW e \in Entries, Set(k, e),
           e \in Outputs => e \in accepted[k]
    PROVE  FilesOK'
<1>1. ent' = [ent EXCEPT ![k] = e] /\ promised' = promised /\ solo' = solo /\ disk' = disk
  BY DEF Set
<1>2. ent' \in [Keys -> Entries] /\ Promises'
  BY <1>1 DEF FilesOK, Promises
<1>3. StoredIsAccepted'
  BY <1>1 DEF FilesOK, StoredIsAccepted, Grows
<1>4. QED
  BY <1>1, <1>2, <1>3 DEF FilesOK

\* Syncing the directory.
LEMMA SyncFiles == ASSUME FilesOK, Grows, disk' = ent, ent' = ent, Promises' PROVE FilesOK'
BY DEF FilesOK, StoredIsAccepted, Grows

\* One node call moves on, soundly; the others stay as sound as they were.
LEMMA CallMoves ==
    ASSUME CacheIInv, Grows, NEW r \in Runs, NEW s \in NodeCall, CallIsSound(s, accepted'),
           run' = [run EXCEPT ![r] = s]
    PROVE  run' \in [Runs -> NodeCall] /\ CallsAreSound'
<1>1. run' \in [Runs -> NodeCall]
  BY DEF CacheIInv, CacheTypeOK
<1>2. ASSUME NEW q \in Runs PROVE CallIsSound(run'[q], accepted')
  <2>1. CASE q = r
    BY <2>1 DEF CacheIInv, CacheTypeOK
  <2>2. CASE q # r
    <3>1. run'[q] = run[q]
      BY <2>2 DEF CacheIInv, CacheTypeOK
    <3>2. CallIsSound(run[q], accepted)
      BY DEF CacheIInv, CallsAreSound
    <3>3. QED
      BY <3>1, <3>2 DEF CallIsSound, Grows
  <2>3. QED
    BY <2>1, <2>2
<1>3. QED
  BY <1>1, <1>2 DEF CallsAreSound

\* Both parts together, for a step that leaves gc alone.
LEMMA Combine ==
    ASSUME CacheIInv, Grows, FilesOK', run' \in [Runs -> NodeCall], CallsAreSound',
           gc' \in [active : BOOLEAN, paths : SUBSET Keys]
    PROVE  CacheIInv'
BY DEF CacheIInv, CacheTypeOK, FilesOK, Promises, Grows

LEMMA FilesOfIInv ==
    ASSUME CacheIInv
    PROVE  FilesOK /\ (accepted' = accepted => Grows) /\ (Keep => Promises' /\ ent' = ent /\ disk' = disk)
BY DEF CacheIInv, CacheTypeOK, FilesOK, Promises, Grows, Keep

\* A node call under way moves to another step, perhaps with a disposition.
LEMMA StepMoves ==
    ASSUME CacheIInv, Grows, NEW r \in Runs, run[r].pc # "idle",
           NEW pc \in PC \ {"idle", "returned"}, NEW d \in Disposition,
           pc \in Putting => /\ run[r].called /\ run[r].output \in Outputs
                             /\ run[r].output \in accepted'[run[r].key],
           pc = "done" => run[r].called,
           \/ run' = [run EXCEPT ![r].pc = pc]
           \/ run' = [run EXCEPT ![r].pc = pc, ![r].disposition = d]
    PROVE  run' \in [Runs -> NodeCall] /\ CallsAreSound'
<1> DEFINE s == [run[r] EXCEPT !.pc = pc]
           t == [run[r] EXCEPT !.pc = pc, !.disposition = d]
<1>1. run[r] \in NodeCall /\ CallIsSound(run[r], accepted)
  BY DEF CacheIInv, CacheTypeOK, CallsAreSound
<1>2. run' = [run EXCEPT ![r] = s] \/ run' = [run EXCEPT ![r] = t]
  BY DEF CacheIInv, CacheTypeOK
<1>3. ASSUME NEW u \in {s, t}
      PROVE  /\ u \in NodeCall /\ u.pc = pc /\ u.key = run[r].key /\ u.output = run[r].output
             /\ u.called = run[r].called
  BY <1>1 DEF NodeCall
<1> HIDE DEF s, t
<1>4. ASSUME NEW u \in {s, t} PROVE CallIsSound(u, accepted')
  <2>1. pc # "idle" /\ pc # "returned" /\ run[r].key \in Keys
    BY <1>1 DEF CallIsSound
  <2>2. QED
    BY <1>3, <1>4, <2>1 DEF CallIsSound
<1>5. QED
  BY <1>2, <1>3, <1>4, CallMoves

\* A call that starts over knows nothing.
LEMMA FreshMoves ==
    ASSUME CacheIInv, Grows, NEW r \in Runs, NEW d \in Disposition,
           \/ run' = [run EXCEPT ![r] = Fresh]
           \/ run' = [run EXCEPT ![r] = [Fresh EXCEPT !.disposition = d]]
    PROVE  run' \in [Runs -> NodeCall] /\ CallsAreSound'
<1>1. Fresh \in NodeCall /\ CallIsSound(Fresh, accepted')
  BY DEF Fresh, NodeCall, PC, Disposition, CallIsSound, Putting
<1>2. [Fresh EXCEPT !.disposition = d] \in NodeCall /\ CallIsSound([Fresh EXCEPT !.disposition = d], accepted')
  BY DEF Fresh, NodeCall, PC, CallIsSound, Putting
<1>3. QED
  BY <1>1, <1>2, CallMoves

-----------------------------------------------------------------------------
(* The inductive invariant.                                                 *)

LEMMA CacheInitIInv == CacheInit => CacheIInv
<1> SUFFICES ASSUME CacheInit PROVE CacheIInv
  OBVIOUS
<1>1. Fresh \in NodeCall /\ CallIsSound(Fresh, accepted)
  BY DEF Fresh, NodeCall, PC, Disposition, CallIsSound, Putting
<1>2. CacheTypeOK
  BY <1>1 DEF CacheInit, CacheTypeOK, Entries, Idle
<1>3. CallsAreSound
  BY <1>1 DEF CacheInit, CallsAreSound
<1>4. StoredIsAccepted
  BY CacheAssumption DEF CacheInit, StoredIsAccepted
<1>5. QED
  BY <1>2, <1>3, <1>4 DEF CacheIInv

\* A lookup reuses what the directory holds when it verifies as a success.
LEMMA LookupIInv ==
    ASSUME CacheIInv, NEW r \in Runs, NEW k \in Keys, Lookup(r, k) PROVE CacheIInv'
<1>1. /\ run[r].pc = "idle" /\ ent' = ent /\ disk' = disk /\ promised' = promised
      /\ gc' = gc /\ accepted' = accepted /\ run[r] \in NodeCall /\ ~run[r].called
  BY DEF Lookup, CacheIInv, CacheTypeOK, CallsAreSound, CallIsSound
<1>2. Grows /\ FilesOK'
  <2>1. solo' \subseteq Runs
    BY DEF Lookup, Begin, CacheIInv, CacheTypeOK
  <2>2. QED
    BY <1>1, <2>1, FilesOfIInv, KeepFiles DEF CacheIInv, CacheTypeOK, Promises
<1> SUFFICES run' \in [Runs -> NodeCall] /\ CallsAreSound'
  BY <1>1, <1>2, Combine DEF CacheIInv, CacheTypeOK
<1> DEFINE a == [run[r] EXCEPT !.pc = "done", !.key = k, !.output = ent[k],
                               !.disposition = "reused"]
           b == [run[r] EXCEPT !.pc = "invalidate", !.key = k]
           m == [run[r] EXCEPT !.pc = "model", !.key = k]
<1>3. \/ CacheLookup(k) = "success" /\ run' = [run EXCEPT ![r] = a]
      \/ run' = [run EXCEPT ![r] = b]
      \/ run' = [run EXCEPT ![r] = m]
  BY DEF Lookup, CacheIInv, CacheTypeOK
<1>4. CASE CacheLookup(k) = "success" /\ run' = [run EXCEPT ![r] = a]
  <2>1. ent[k] \in Outputs /\ ent[k] \in accepted[k]
    BY <1>4 DEF CacheLookup, CacheIInv, CacheTypeOK, Entries, Unusable, StoredIsAccepted
  <2>2. a \in NodeCall /\ a.pc = "done" /\ a.key = k /\ a.output = ent[k]
    BY <1>1, <2>1 DEF NodeCall, PC, Disposition
  <2>3. CallIsSound(a, accepted')
    BY <1>1, <2>1, <2>2 DEF CallIsSound, Putting
  <2>4. QED
    BY <1>2, <1>4, <2>2, <2>3, CallMoves
<1>5. CASE run' = [run EXCEPT ![r] = b]
  <2>1. b \in NodeCall /\ b.pc = "invalidate" /\ b.key = k
    BY <1>1 DEF NodeCall, PC
  <2>2. CallIsSound(b, accepted')
    BY <2>1 DEF CallIsSound, Putting
  <2>3. QED
    BY <1>2, <1>5, <2>1, <2>2, CallMoves
<1>6. CASE run' = [run EXCEPT ![r] = m]
  <2>1. m \in NodeCall /\ m.pc = "model" /\ m.key = k
    BY <1>1 DEF NodeCall, PC
  <2>2. CallIsSound(m, accepted')
    BY <2>1 DEF CallIsSound, Putting
  <2>3. QED
    BY <1>2, <1>6, <2>1, <2>2, CallMoves
<1>7. QED
  BY <1>3, <1>4, <1>5, <1>6

\* The steps of a node call between the lookup and the end of put.  Each
\* changes the file system in one of the ways above and moves the call on.
LEMMA NodeCallIInv ==
    ASSUME CacheIInv, NEW r \in Runs,
           \/ InvalidateRemove(r) \/ InvalidateSync(r)
           \/ PutTmpFails(r) \/ PutLink(r) \/ PutCompare(r) \/ PutRemove(r)
           \/ PutRemoveSync(r) \/ PutRelink(r) \/ PutRecheck(r) \/ PutSync(r)
    PROVE  CacheIInv'
<1> DEFINE k == run[r].key
           o == run[r].output
<1>1. gc' = gc /\ accepted' = accepted
  BY DEF InvalidateRemove, InvalidateSync, PutTmpFails, PutLink, PutCompare, PutRemove,
      PutRemoveSync, PutRelink, PutRecheck, PutSync
<1>2. Grows /\ FilesOK
  BY <1>1, FilesOfIInv
<1>3. /\ run[r] \in NodeCall /\ CallIsSound(run[r], accepted)
  BY DEF CacheIInv, CacheTypeOK, CallsAreSound
<1>4. run[r].pc \in {"invalidate", "invalidated"} \union Putting
  BY DEF InvalidateRemove, InvalidateSync, PutTmpFails, PutLink, PutCompare, PutRemove,
      PutRemoveSync, PutRelink, PutRecheck, PutSync, Putting
<1>5. k \in Keys /\ run[r].pc # "idle"
  BY <1>3, <1>4 DEF CallIsSound, Putting
<1>6. run[r].pc \in Putting => run[r].called /\ o \in Outputs /\ o \in accepted[k]
  BY <1>3 DEF CallIsSound
<1>7. run[r].disposition \in Disposition
  BY <1>3 DEF NodeCall
<1> HIDE DEF k, o
<1>8. FilesOK'
  <2>1. \/ /\ ent' = ent /\ disk' \in {disk, ent} /\ solo' \in {solo, solo \ {r}}
           /\ \/ promised' = promised \/ promised' = [promised EXCEPT ![k] = Nothing]
              \/ run[r].pc \in Putting /\ promised' = [promised EXCEPT ![k] = o]
        \/ Set(k, Nothing) \/ (run[r].pc \in Putting /\ Set(k, o))
    BY DEF InvalidateRemove, InvalidateSync, PutTmpFails, PutLink, PutCompare, PutRemove,
        PutRemoveSync, PutRelink, PutRecheck, PutSync, PutFails, SyncEntries, Promise, Keep, Putting, k, o
  <2>2. Nothing \in Entries /\ Outputs \subseteq Entries
    BY DEF Entries
  <2>3. CASE /\ ent' = ent /\ disk' \in {disk, ent} /\ solo' \in {solo, solo \ {r}}
             /\ \/ promised' = promised \/ promised' = [promised EXCEPT ![k] = Nothing]
                \/ run[r].pc \in Putting /\ promised' = [promised EXCEPT ![k] = o]
    <3>1. Promises'
      BY <1>5, <1>6, <2>3 DEF CacheIInv, CacheTypeOK, Promises
    <3>2. QED
      BY <1>2, <2>3, <3>1, KeepFiles, SyncFiles
  <2>4. CASE Set(k, Nothing)
    BY <1>2, <1>5, <2>2, <2>4, SetFiles, CacheAssumption
  <2>5. CASE run[r].pc \in Putting /\ Set(k, o)
    BY <1>2, <1>5, <1>6, <2>2, <2>5, SetFiles
  <2>6. QED
    BY <2>1, <2>3, <2>4, <2>5
<1>9. run' \in [Runs -> NodeCall] /\ CallsAreSound'
  <2>1. \E pc \in PC \ {"idle", "returned"}, d \in Disposition :
           /\ pc \in Putting \union {"done"} => run[r].pc \in Putting
           /\ \/ run' = [run EXCEPT ![r].pc = pc]
              \/ run' = [run EXCEPT ![r].pc = pc, ![r].disposition = d]
    <3>1. CASE InvalidateRemove(r)
      BY <1>7, <3>1 DEF InvalidateRemove, Go, PC, Putting
    <3>2. CASE InvalidateSync(r)
      BY <3>2 DEF InvalidateSync, PC, Putting, Disposition
    <3>3. CASE PutTmpFails(r)
      BY <1>7, <3>3 DEF PutTmpFails, PutFails, End, PC, Putting
    <3>4. CASE PutLink(r)
      BY <1>7, <3>4 DEF PutLink, Go, PC, Putting
    <3>5. CASE PutCompare(r)
      BY <1>7, <3>5 DEF PutCompare, PutFails, End, Go, PC, Putting
    <3>6. CASE PutRemove(r)
      BY <1>7, <3>6 DEF PutRemove, PutFails, End, Go, PC, Putting
    <3>7. CASE PutRemoveSync(r)
      BY <1>7, <3>7 DEF PutRemoveSync, Go, PC, Putting
    <3>8. CASE PutRelink(r)
      BY <1>7, <3>8 DEF PutRelink, Go, PC, Putting
    <3>9. CASE PutRecheck(r)
      BY <1>7, <3>9 DEF PutRecheck, PutFails, End, Go, PC, Putting
    <3>10. CASE PutSync(r)
      BY <3>10 DEF PutSync, End, PC, Putting, Disposition
    <3>11. QED
      BY <3>1, <3>2, <3>3, <3>4, <3>5, <3>6, <3>7, <3>8, <3>9, <3>10
  <2>2. QED
    BY <1>1, <1>2, <1>5, <1>6, <2>1, StepMoves DEF k, o
<1>10. QED
  BY <1>1, <1>2, <1>8, <1>9, Combine DEF CacheIInv, CacheTypeOK

\* The model answers; the answer is pending, not admitted.
LEMMA ModelIInv ==
    ASSUME CacheIInv, NEW r \in Runs, NEW o \in Outputs, Model(r, o) PROVE CacheIInv'
<1> DEFINE s == [run[r] EXCEPT !.pc = "returned", !.called = TRUE, !.output = o]
<1>1. /\ run[r].pc = "model" /\ Keep /\ gc' = gc /\ accepted' = accepted
      /\ run' = [run EXCEPT ![r] = s]
  BY DEF Model, CacheIInv, CacheTypeOK
<1>2. run[r] \in NodeCall /\ CallIsSound(run[r], accepted)
  BY DEF CacheIInv, CacheTypeOK, CallsAreSound
<1>3. /\ s \in NodeCall /\ s.pc = "returned" /\ s.called = TRUE /\ s.output = o
      /\ s.key = run[r].key
  BY <1>2 DEF NodeCall, PC
<1>4. Grows /\ FilesOK'
  BY <1>1, FilesOfIInv, KeepFiles
<1> HIDE DEF s
<1>5. CallIsSound(s, accepted')
  BY <1>1, <1>2, <1>3 DEF CallIsSound, Putting
<1>6. QED
  BY <1>1, <1>3, <1>4, <1>5, CallMoves, Combine DEF CacheIInv, CacheTypeOK

\* The acceptance callback admits the pending answer, or nothing is stored.
LEMMA AcceptIInv ==
    ASSUME CacheIInv, NEW r \in Runs, Accept(r) PROVE CacheIInv'
<1> DEFINE k == run[r].key
           o == run[r].output
<1>1. run[r].pc = "returned" /\ ent' = ent /\ disk' = disk /\ gc' = gc
  BY DEF Accept
<1>2. run[r] \in NodeCall /\ run[r].called /\ k \in Keys /\ o \in Outputs
  BY <1>1 DEF CacheIInv, CacheTypeOK, CallsAreSound, CallIsSound
<1> HIDE DEF k, o
<1>a. Promises'
  <2>1. solo' \subseteq Runs
    BY DEF Accept, Begin, CacheIInv, CacheTypeOK
  <2>2. promised' = promised \/ promised' = [promised EXCEPT ![k] = IF promised[k] = o THEN promised[k] ELSE Unknown]
    BY DEF Accept, k, o
  <2>3. QED
    BY <1>2, <2>1, <2>2 DEF CacheIInv, CacheTypeOK, Promises
<1> USE DEF k, o
<1>3. CASE accepted' = [accepted EXCEPT ![k] = accepted[k] \union {o}] /\ Go(r, "link")
  <2>1. Grows /\ o \in accepted'[k]
    BY <1>2, <1>3 DEF Grows, CacheIInv, CacheTypeOK
  <2>2. run' = [run EXCEPT ![r].pc = "link"] /\ "link" \in PC \ {"idle", "returned"}
        /\ run[r].disposition \in Disposition /\ "link" # "done" /\ run[r].pc # "idle"
    BY <1>1, <1>2, <1>3 DEF Go, PC, NodeCall
  <2>3. run' \in [Runs -> NodeCall] /\ CallsAreSound'
    BY <1>2, <2>1, <2>2, StepMoves
  <2>4. FilesOK'
    BY <1>1, <1>a, <2>1, FilesOfIInv, KeepFiles
  <2>5. QED
    BY <1>1, <2>1, <2>3, <2>4, Combine DEF CacheIInv, CacheTypeOK
<1>4. CASE /\ run' = [run EXCEPT ![r].pc = "done", ![r].output = Nothing]
           /\ accepted' = accepted
  <2> DEFINE s == [run[r] EXCEPT !.pc = "done", !.output = Nothing]
  <2>1. run' = [run EXCEPT ![r] = s]
    BY <1>4 DEF CacheIInv, CacheTypeOK
  <2>2. s \in NodeCall /\ s.pc = "done" /\ s.called = run[r].called /\ s.key = k
    BY <1>2 DEF NodeCall, PC
  <2>3. Grows /\ FilesOK'
    BY <1>1, <1>a, <1>4, FilesOfIInv, KeepFiles
  <2> HIDE DEF s
  <2>4. CallIsSound(s, accepted')
    BY <1>2, <2>2 DEF CallIsSound, Putting
  <2>5. QED
    BY <1>1, <2>1, <2>2, <2>3, <2>4, CallMoves, Combine DEF CacheIInv, CacheTypeOK
<1>5. QED
  BY <1>3, <1>4 DEF Accept

\* gc removes entries and syncs; it stores none.
LEMMA GcIInv ==
    ASSUME CacheIInv, GcStart \/ GcRemove \/ GcSync PROVE CacheIInv'
<1>1. run' = run /\ accepted' = accepted
  BY DEF GcStart, GcRemove, GcSync
<1>2. Grows /\ FilesOK /\ run' \in [Runs -> NodeCall] /\ CallsAreSound'
  BY <1>1, FilesOfIInv DEF CacheIInv, CacheTypeOK, CallsAreSound, CallIsSound
<1>3. CASE GcStart
  <2>1. gc' \in [active : BOOLEAN, paths : SUBSET Keys]
    BY <1>3 DEF GcStart, Inspected
  <2>2. ent' = ent /\ disk' = disk /\ Promises'
    BY <1>3 DEF GcStart, CacheIInv, CacheTypeOK, Promises
  <2>3. FilesOK'
    BY <1>2, <2>2, KeepFiles
  <2>4. QED
    BY <1>2, <2>1, <2>3, Combine
<1>4. CASE GcRemove
  <2>1. PICK k \in gc.paths :
            \/ Set(k, Nothing) /\ gc' = [gc EXCEPT !.paths = @ \ {k}]
            \/ Keep /\ gc' = Idle
    BY <1>4 DEF GcRemove
  <2>2. k \in Keys /\ gc' \in [active : BOOLEAN, paths : SUBSET Keys]
    <3>1. gc \in [active : BOOLEAN, paths : SUBSET Keys]
      BY DEF CacheIInv, CacheTypeOK
    <3>2. gc.paths \ {k} \in SUBSET Keys /\ k \in Keys
      BY <3>1
    <3>3. Idle \in [active : BOOLEAN, paths : SUBSET Keys]
      BY DEF Idle
    <3>4. [gc EXCEPT !.paths = gc.paths \ {k}] \in [active : BOOLEAN, paths : SUBSET Keys]
      BY <3>1, <3>2
    <3>5. QED
      BY <2>1, <3>2, <3>3, <3>4
  <2>3. FilesOK'
    BY <1>2, <2>1, <2>2, FilesOfIInv, KeepFiles, SetFiles, CacheAssumption DEF Entries
  <2>4. QED
    BY <1>2, <2>2, <2>3, Combine
<1>5. CASE GcSync
  <2>1. gc' \in [active : BOOLEAN, paths : SUBSET Keys]
    BY <1>5 DEF GcSync, Idle
  <2>2. FilesOK'
    BY <1>2, <1>5, SyncFiles DEF GcSync, FilesOK, Promises
  <2>3. QED
    BY <1>2, <2>1, <2>2, Combine
<1>6. QED
  BY <1>3, <1>4, <1>5

\* A loss of power brings back, entry by entry, one of two sound directories.
LEMMA PowerLossIInv == ASSUME CacheIInv, PowerLoss PROVE CacheIInv'
<1>1. /\ ent' \in [Keys -> Entries] /\ \A k \in Keys : ent'[k] \in {ent[k], disk[k]}
      /\ disk' = ent' /\ run' = [r \in Runs |-> Fresh] /\ gc' = Idle
      /\ accepted' = accepted /\ promised' = promised /\ solo' = {}
  BY DEF PowerLoss
<1>2. StoredIsAccepted'
  BY <1>1 DEF CacheIInv, StoredIsAccepted
<1>3. Promises'
  BY <1>1 DEF CacheIInv, CacheTypeOK, Promises
<1>4. FilesOK' /\ Grows
  BY <1>1, <1>2, <1>3, FilesOfIInv DEF FilesOK
<1>5. Fresh \in NodeCall /\ CallIsSound(Fresh, accepted')
  BY DEF Fresh, NodeCall, PC, Disposition, CallIsSound, Putting
<1>6. run' \in [Runs -> NodeCall] /\ CallsAreSound'
  BY <1>1, <1>5 DEF CallsAreSound
<1>7. QED
  BY <1>1, <1>4, <1>6, Combine DEF Idle

\* Damage leaves nothing usable.
LEMMA DamageIInv ==
    ASSUME CacheIInv, NEW k \in Keys, NEW e \in Unusable, Damage(k, e) PROVE CacheIInv'
<1>1. /\ ent' = [ent EXCEPT ![k] = e] /\ disk' = [disk EXCEPT ![k] = e]
      /\ promised' = [promised EXCEPT ![k] = Unknown]
      /\ run' = run /\ gc' = gc /\ accepted' = accepted /\ solo' \subseteq solo
  BY DEF Damage
<1>2. e \in Entries /\ e \notin Outputs
  BY CacheAssumption DEF Entries
<1>3. ent' \in [Keys -> Entries] /\ disk' \in [Keys -> Entries] /\ Promises'
  BY <1>1, <1>2 DEF CacheIInv, CacheTypeOK, Promises
<1>4. StoredIsAccepted'
  BY <1>1, <1>2 DEF CacheIInv, CacheTypeOK, StoredIsAccepted
<1>6. Grows /\ FilesOK' /\ run' \in [Runs -> NodeCall] /\ CallsAreSound'
  BY <1>1, <1>3, <1>4, FilesOfIInv DEF FilesOK, CacheIInv, CacheTypeOK, CallsAreSound, CallIsSound
<1>7. QED
  BY <1>1, <1>6, Combine DEF CacheIInv, CacheTypeOK

LEMMA CacheNextIInv == CacheIInv /\ [CacheNext]_cacheVars => CacheIInv'
<1> SUFFICES ASSUME CacheIInv, [CacheNext]_cacheVars PROVE CacheIInv'
  OBVIOUS
<1>1. ASSUME NEW r \in Runs, NEW k \in Keys, Lookup(r, k) PROVE CacheIInv'
  BY <1>1, LookupIInv
<1>2. ASSUME NEW r \in Runs,
             \/ InvalidateRemove(r) \/ InvalidateSync(r)
             \/ PutTmpFails(r) \/ PutLink(r) \/ PutCompare(r) \/ PutRemove(r)
             \/ PutRemoveSync(r) \/ PutRelink(r) \/ PutRecheck(r) \/ PutSync(r)
      PROVE  CacheIInv'
  BY <1>2, NodeCallIInv
<1>3. ASSUME NEW r \in Runs, NEW o \in Outputs, Model(r, o) PROVE CacheIInv'
  BY <1>3, ModelIInv
<1>4. ASSUME NEW r \in Runs, Accept(r) PROVE CacheIInv'
  BY <1>4, AcceptIInv
<1>5. ASSUME NEW r \in Runs, Again(r) \/ Crash(r) PROVE CacheIInv'
  <2>1. gc' = gc /\ accepted' = accepted /\ ent' = ent /\ disk' = disk /\ Promises'
    BY <1>5 DEF Again, Crash, Keep, CacheIInv, CacheTypeOK, Promises
  <2>2. Grows /\ FilesOK'
    BY <2>1, FilesOfIInv, KeepFiles
  <2>3. run[r].disposition \in Disposition
    BY DEF CacheIInv, CacheTypeOK, NodeCall
  <2>4. run' \in [Runs -> NodeCall] /\ CallsAreSound'
    BY <1>5, <2>2, <2>3, FreshMoves DEF Again, Crash
  <2>5. QED
    BY <2>1, <2>2, <2>4, Combine DEF CacheIInv, CacheTypeOK
<1>6. ASSUME GcStart \/ GcRemove \/ GcSync PROVE CacheIInv'
  BY <1>6, GcIInv
<1>7. ASSUME PowerLoss PROVE CacheIInv'
  BY <1>7, PowerLossIInv
<1>8. ASSUME NEW k \in Keys, NEW e \in Unusable, Damage(k, e) PROVE CacheIInv'
  BY <1>8, DamageIInv
<1>9. CASE UNCHANGED cacheVars
  BY <1>9 DEF cacheVars, CacheIInv, CacheTypeOK, CallsAreSound, CallIsSound, StoredIsAccepted
<1>10. QED
  BY <1>1, <1>2, <1>3, <1>4, <1>5, <1>6, <1>7, <1>8, <1>9 DEF CacheNext

\* The inductive invariant holds of every use of the cache.
THEOREM CacheInvariance == CacheSpec => []CacheIInv
BY CacheInitIInv, CacheNextIInv, PTL DEF CacheSpec

\* Type correctness of the directories and the node calls.
THEOREM CacheTypeCorrect == CacheSpec => []CacheTypeOK
<1>1. CacheIInv => CacheTypeOK
  BY DEF CacheIInv
<1>2. QED
  BY CacheInvariance, <1>1, PTL

\* The cache is fail-closed: nothing unaccepted is stored or reused.
THEOREM FailClosed == CacheSpec => []OnlyAccepted
<1>1. CacheIInv => OnlyAccepted
  BY DEF CacheIInv, OnlyAccepted, CallsAreSound, CallIsSound, StoredIsAccepted
<1>2. QED
  BY CacheInvariance, <1>1, PTL

-----------------------------------------------------------------------------
(* What a call tells its caller.                                            *)

\* A call that is alone shares its key with no other call and no gc, and at its
\* last step the entry is what it is about to report.
IsAlone(r) ==
    /\ run[r].pc \in Changing /\ run[r].key \notin gc.paths
    /\ \A x \in Runs : x # r => ~Busy(x, run[r].key)
    /\ run[r].pc = "sync" => ent[run[r].key] = run[r].output
    /\ run[r].pc = "invalidated" => ent[run[r].key] = Nothing

\* A key whose entry was reported holds it, in both directories; gc is not after
\* it, and the calls at work on it store the same output and have found it there
\* or will.
IsKept(k) ==
    promised[k] # Unknown =>
        /\ ent[k] = promised[k] /\ disk[k] = promised[k] /\ k \notin gc.paths
        /\ \A x \in Runs : Busy(x, k) =>
              run[x].output = promised[k] /\ run[x].pc \in {"link", "compare", "sync"}

PromiseInv == (\A r \in solo : IsAlone(r)) /\ (\A k \in Keys : IsKept(k))

\* What a call at work on a key knows of itself.
LEMMA BusyFacts ==
    ASSUME CacheIInv, NEW r \in Runs, run[r].pc \in Changing
    PROVE  /\ run[r].key \in Keys /\ run[r] \in NodeCall /\ Busy(r, run[r].key)
           /\ run[r].pc \notin {"invalidate", "invalidated"} => run[r].output \in Outputs /\ run[r].output # Nothing
BY CacheAssumption DEF CacheIInv, CacheTypeOK, CallsAreSound, CallIsSound, Busy, Changing, Putting

\* A step of one call: it may change the entry of its own key, and sync.
LEMMA CallPromise ==
    ASSUME CacheIInv, PromiseInv, NEW r \in Runs, run[r].pc \in Changing, gc' = gc,
           NEW k \in Keys, k = run[r].key,
           NEW s, run' = [run EXCEPT ![r] = s], s.key = k, s.output = run[r].output,
           \A j \in Keys : j # k => ent'[j] = ent[j] /\ promised'[j] = promised[j],
           \A j \in Keys : j # k => disk'[j] \in {disk[j], ent[j]},
           solo' \subseteq solo, r \in solo' => s.pc \in Changing,
           r \in solo' => /\ s.pc = "sync" => ent'[k] = s.output
                          /\ s.pc = "invalidated" => ent'[k] = Nothing,
           IsKept(k)'
    PROVE  PromiseInv'
<1>1. /\ run'[r] = s /\ \A x \in Runs : x # r => run'[x] = run[x]
  BY DEF CacheIInv, CacheTypeOK
<1>2. Busy(r, k)
  BY DEF Busy
<1>3. ASSUME NEW x \in Runs, NEW j \in Keys, j # k \/ x # r PROVE Busy(x, j)' <=> Busy(x, j)
  BY <1>1, <1>3 DEF Busy
<1>4. ASSUME NEW x \in solo' PROVE IsAlone(x)'
  <2>1. x \in solo /\ x \in Runs /\ IsAlone(x)
    BY <1>4 DEF CacheIInv, CacheTypeOK, PromiseInv
  <2>2. CASE x = r
    <3>1. \A y \in Runs : y # r => ~Busy(y, k)
      BY <2>1, <2>2 DEF IsAlone
    <3>2. \A y \in Runs : y # r => ~Busy(y, k)'
      BY <1>3, <3>1
    <3>3. k \notin gc'.paths
      BY <2>1, <2>2 DEF IsAlone
    <3>4. run'[x] = s /\ x \in solo'
      BY <1>1, <1>4, <2>2
    <3>5. QED
      BY <2>2, <3>2, <3>3, <3>4 DEF IsAlone
  <2>3. CASE x # r
    <3>1. run'[x] = run[x] /\ run[x].key # k /\ run[x].key \in Keys
      BY <1>1, <1>2, <2>1, <2>3, BusyFacts DEF IsAlone
    <3>2. ent'[run[x].key] = ent[run[x].key]
      BY <3>1
    <3>5. \A y \in Runs : y # x => ~(run'[y].pc \in Changing /\ run'[y].key = run'[x].key)
      BY <2>1, <1>1, <1>2, <3>1 DEF IsAlone, Busy
    <3>6. QED
      BY <2>1, <3>1, <3>2, <3>5 DEF IsAlone, Busy
  <2>4. QED
    BY <2>2, <2>3
<1>5. ASSUME NEW j \in Keys PROVE IsKept(j)'
  <2>1. CASE j = k
    BY <2>1
  <2>2. CASE j # k
    <3>1. ent'[j] = ent[j] /\ promised'[j] = promised[j] /\ disk'[j] \in {disk[j], ent[j]}
      BY <2>2
    <3>2. IsKept(j)
      BY DEF PromiseInv
    <3>3. ASSUME NEW x \in Runs, Busy(x, j)' PROVE Busy(x, j) /\ run'[x] = run[x]
      <4>1. x # r
        BY <1>1, <2>2, <3>3 DEF Busy
      <4>2. QED
        BY <1>1, <1>3, <2>2, <3>3, <4>1
    <3>4. QED
      BY <3>1, <3>2, <3>3 DEF IsKept
  <2>3. QED
    BY <2>1, <2>2
<1>6. QED
  BY <1>4, <1>5 DEF PromiseInv

\* The steps of invalidate and put.
LEMMA NodeCallPromise ==
    ASSUME CacheIInv, PromiseInv, NEW r \in Runs,
           \/ InvalidateRemove(r) \/ InvalidateSync(r)
           \/ PutTmpFails(r) \/ PutLink(r) \/ PutCompare(r) \/ PutRemove(r)
           \/ PutRemoveSync(r) \/ PutRelink(r) \/ PutRecheck(r) \/ PutSync(r)
    PROVE  PromiseInv'
<1>1. run[r].pc \in Changing /\ gc' = gc
  BY DEF InvalidateRemove, InvalidateSync, PutTmpFails, PutLink, PutCompare, PutRemove,
      PutRemoveSync, PutRelink, PutRecheck, PutSync, Changing
<1> PICK k \in Keys : k = run[r].key
  BY <1>1, BusyFacts
<1> PICK o : o = run[r].output
  OBVIOUS
<1>2. /\ run[r] \in NodeCall /\ Busy(r, k)
      /\ run[r].pc \notin {"invalidate", "invalidated"} => o \in Outputs /\ o # Nothing
  BY <1>1, BusyFacts
<1>3. IsKept(k) /\ (r \in solo => IsAlone(r))
  BY <1>2 DEF PromiseInv
<1>4. /\ ent \in [Keys -> Entries] /\ disk \in [Keys -> Entries]
      /\ promised \in [Keys -> Outputs \union {Nothing, Unknown}] /\ solo \subseteq Runs
      /\ run \in [Runs -> NodeCall]
  BY DEF CacheIInv, CacheTypeOK
<1>5. PICK s :
        /\ run' = [run EXCEPT ![r] = s] /\ s.key = k /\ s.output = o
        /\ \/ InvalidateRemove(r) /\ s.pc = "invalidated"
           \/ InvalidateSync(r) /\ s.pc = "model"
           \/ PutLink(r) /\ s.pc = "sync" /\ ent[k] = Nothing /\ Set(k, o)
           \/ PutLink(r) /\ s.pc = "compare" /\ ent[k] # Nothing /\ Keep
           \/ PutCompare(r) /\ s.pc = "sync" /\ ent[k] = o /\ Keep
           \/ PutCompare(r) /\ s.pc = "remove" /\ ent[k] # o /\ Keep
           \/ PutRemove(r) /\ s.pc = "removed" /\ Set(k, Nothing)
           \/ PutRemoveSync(r) /\ s.pc = "relink"
           \/ PutRelink(r) /\ s.pc = "sync" /\ ent[k] = Nothing /\ Set(k, o)
           \/ PutRelink(r) /\ s.pc = "recheck" /\ Keep
           \/ PutRecheck(r) /\ s.pc = "sync" /\ ent[k] = o /\ Keep
           \/ PutSync(r) /\ s.pc = "done"
           \/ PutFails(r) /\ s.pc = "done"
  <2> DEFINE u(pc) == [run[r] EXCEPT !.pc = pc]
             w(pc, d) == [run[r] EXCEPT !.pc = pc, !.disposition = d]
  <2>1. ASSUME NEW pc PROVE /\ Go(r, pc) => run' = [run EXCEPT ![r] = u(pc)]
                            /\ u(pc).key = k /\ u(pc).output = o /\ u(pc).pc = pc
    BY <1>2, <1>4 DEF Go, NodeCall
  <2>2. ASSUME NEW pc, NEW d
        PROVE  /\ run' = [run EXCEPT ![r].pc = pc, ![r].disposition = d] => run' = [run EXCEPT ![r] = w(pc, d)]
               /\ w(pc, d).key = k /\ w(pc, d).output = o /\ w(pc, d).pc = pc
    BY <1>2, <1>4 DEF NodeCall
  <2> HIDE DEF u, w
  <2>3. CASE InvalidateRemove(r)
    BY <2>1, <2>3 DEF InvalidateRemove
  <2>4. CASE InvalidateSync(r)
    <3>1. PICK s : s = w("model", "reexecuted")
      OBVIOUS
    <3>2. run' = [run EXCEPT ![r] = s] /\ s.key = k /\ s.output = o /\ s.pc = "model"
      BY <1>2, <1>4, <2>4, <3>1 DEF InvalidateSync, w, NodeCall
    <3>3. QED
      BY <2>4, <3>2
  <2>5. CASE PutFails(r)
    <3>1. PICK d : run' = [run EXCEPT ![r].pc = "done", ![r].disposition = d]
      BY <2>5 DEF PutFails, End
    <3>2. PICK s : s = w("done", d)
      OBVIOUS
    <3>3. run' = [run EXCEPT ![r] = s] /\ s.key = k /\ s.output = o /\ s.pc = "done"
      BY <1>2, <1>4, <3>1, <3>2 DEF w, NodeCall
    <3>4. QED
      BY <2>5, <3>3
  <2>6. CASE PutTmpFails(r)
    BY <2>5, <2>6 DEF PutTmpFails
  <2>7. CASE PutLink(r)
    BY <2>1, <2>7 DEF PutLink
  <2>8. CASE PutCompare(r)
    BY <2>1, <2>5, <2>8 DEF PutCompare
  <2>9. CASE PutRemove(r)
    BY <2>1, <2>5, <2>9 DEF PutRemove
  <2>10. CASE PutRemoveSync(r)
    BY <2>1, <2>10 DEF PutRemoveSync
  <2>11. CASE PutRelink(r)
    BY <2>1, <2>11 DEF PutRelink
  <2>12. CASE PutRecheck(r)
    BY <2>1, <2>5, <2>12 DEF PutRecheck
  <2>13. CASE PutSync(r)
    <3>1. PICK d : run' = [run EXCEPT ![r].pc = "done", ![r].disposition = d]
      BY <2>13 DEF PutSync, End
    <3>2. PICK s : s = w("done", d)
      OBVIOUS
    <3>3. run' = [run EXCEPT ![r] = s] /\ s.key = k /\ s.output = o /\ s.pc = "done"
      BY <1>2, <1>4, <3>1, <3>2 DEF w, NodeCall
    <3>4. QED
      BY <2>13, <3>3
  <2>14. QED
    BY <2>3, <2>4, <2>6, <2>7, <2>8, <2>9, <2>10, <2>11, <2>12, <2>13
<1>6. run'[r] = s /\ \A x \in Runs : x # r => run'[x] = run[x]
  BY <1>4, <1>5
<1>7. \A x \in Runs : x # r => (Busy(x, k)' <=> Busy(x, k))
  <2>1. \A x \in Runs : x # r => (run'[x].pc \in Changing /\ run'[x].key = k <=> run[x].pc \in Changing /\ run[x].key = k)
    BY <1>6
  <2>3. QED
    BY <2>1 DEF Busy
<1>8. ASSUME promised' = promised, ent' = ent, disk' \in {disk, ent}, solo' \in {solo, solo \ {r}},
             s.pc \notin Changing => solo' = solo \ {r},
             s.pc \in Changing => s.pc \in {"link", "compare", "sync"} \/ promised[k] = Unknown,
             s.pc = "sync" => ent[k] = o,
             s.pc # "invalidated"
      PROVE  PromiseInv'
  <2>2. IsKept(k)'
    <3>1. ASSUME promised[k] # Unknown
          PROVE  /\ ent'[k] = promised'[k] /\ disk'[k] = promised'[k] /\ k \notin gc'.paths
                 /\ \A x \in Runs : Busy(x, k)' =>
                       run'[x].output = promised'[k] /\ run'[x].pc \in {"link", "compare", "sync"}
      <4>1. ent'[k] = promised'[k] /\ disk'[k] = promised'[k] /\ k \notin gc'.paths
        BY <1>1, <1>3, <1>8, <3>1 DEF IsKept
      <4>2. ASSUME NEW x \in Runs, Busy(x, k)'
            PROVE  run'[x].output = promised'[k] /\ run'[x].pc \in {"link", "compare", "sync"}
        <5>1. CASE x = r
          <6>1. s.pc \in Changing /\ s.output = o
            BY <1>5, <1>6, <4>2, <5>1 DEF Busy
          <6>2. o = promised[k]
            BY <1>2, <1>3, <3>1 DEF IsKept
          <6>3. QED
            BY <1>6, <1>8, <3>1, <5>1, <6>1, <6>2
        <5>2. CASE x # r
          BY <1>3, <1>6, <1>7, <1>8, <3>1, <4>2, <5>2 DEF IsKept
        <5>3. QED
          BY <5>1, <5>2
      <4>3. QED
        BY <4>1, <4>2
    <3>2. QED
      BY <1>8, <3>1 DEF IsKept
  <2>3. \A j \in Keys : j # k => ent'[j] = ent[j] /\ promised'[j] = promised[j]
    BY <1>8
  <2>4. \A j \in Keys : j # k => disk'[j] \in {disk[j], ent[j]}
    BY <1>8
  <2>5. solo' \subseteq solo /\ (r \in solo' => s.pc \in Changing)
    BY <1>8
  <2>6. r \in solo' => (s.pc = "sync" => ent'[k] = s.output) /\ (s.pc = "invalidated" => ent'[k] = Nothing)
    BY <1>5, <1>8
  <2>7. k = run[r].key /\ s.output = run[r].output
    BY <1>5
  <2>8. QED
    BY <1>1, <1>2, <1>5, <2>2, <2>3, <2>4, <2>5, <2>6, <2>7, CallPromise
<1>9. ASSUME NEW e, ent' = [ent EXCEPT ![k] = e], disk' = disk, promised' = promised, solo' = solo,
             promised[k] = Unknown, s.pc \in Changing,
             s.pc = "sync" => e = o, s.pc = "invalidated" => e = Nothing
      PROVE  PromiseInv'
  <2>2. IsKept(k)'
    BY <1>9 DEF IsKept
  <2>3. ent'[k] = e /\ \A j \in Keys : j # k => ent'[j] = ent[j] /\ promised'[j] = promised[j]
    BY <1>2, <1>4, <1>9
  <2>4. \A j \in Keys : j # k => disk'[j] \in {disk[j], ent[j]}
    BY <1>9
  <2>5. solo' \subseteq solo /\ (r \in solo' => s.pc \in Changing)
    BY <1>9
  <2>6. r \in solo' => (s.pc = "sync" => ent'[k] = s.output) /\ (s.pc = "invalidated" => ent'[k] = Nothing)
    BY <1>5, <1>9, <2>3
  <2>7. k = run[r].key /\ s.output = run[r].output
    BY <1>5
  <2>8. QED
    BY <1>1, <1>2, <1>5, <2>2, <2>3, <2>4, <2>5, <2>6, <2>7, CallPromise
<1>10. ASSUME NEW e, SyncEntries(r, e), s.pc \notin Changing, r \in solo => ent[k] = e
       PROVE  PromiseInv'
  <2>1. /\ disk' = ent /\ ent' = ent /\ solo' = solo \ {r}
        /\ promised' = IF r \in solo THEN [promised EXCEPT ![k] = e] ELSE promised
    BY <1>10 DEF SyncEntries, Promise
  <2>2. CASE r \notin solo
    <3>1. promised' = promised /\ s.pc # "sync" /\ s.pc # "invalidated"
      BY <1>10, <2>1, <2>2 DEF Changing
    <3>2. QED
      BY <1>8, <1>10, <2>1, <3>1
  <2>3. CASE r \in solo
    <3>1. IsAlone(r) /\ k \notin gc.paths /\ \A x \in Runs : x # r => ~Busy(x, k)
      BY <1>3, <2>3 DEF IsAlone
    <3>2. promised'[k] = e /\ ent[k] = e /\ \A j \in Keys : j # k => promised'[j] = promised[j]
      BY <1>2, <1>4, <1>10, <2>1, <2>3
    <3>4. \A x \in Runs : ~Busy(x, k)'
      <4>1. ~Busy(r, k)'
        BY <1>6, <1>10 DEF Busy
      <4>2. QED
        BY <1>7, <3>1, <4>1
    <3>5. IsKept(k)'
      <4>1. ent'[k] = promised'[k] /\ disk'[k] = promised'[k] /\ k \notin gc'.paths
        BY <1>1, <2>1, <3>1, <3>2
      <4>2. QED
        BY <3>4, <4>1 DEF IsKept
    <3>6. \A j \in Keys : j # k => ent'[j] = ent[j] /\ promised'[j] = promised[j]
      BY <2>1, <3>2
    <3>7. \A j \in Keys : j # k => disk'[j] \in {disk[j], ent[j]}
      BY <2>1
    <3>8. solo' \subseteq solo /\ r \notin solo'
      BY <2>1
    <3>9. k = run[r].key /\ s.output = run[r].output
      BY <1>5
    <3>10. QED
      BY <1>1, <1>2, <1>5, <3>5, <3>6, <3>7, <3>8, <3>9, CallPromise
  <2>4. QED
    BY <2>2, <2>3
\* Which step it is.
<1>11. ASSUME run[r].pc \in Changing \ {"link", "compare", "sync"} PROVE promised[k] = Unknown
  BY <1>2, <1>3, <1>11 DEF IsKept
<1>12. CASE InvalidateRemove(r) /\ s.pc = "invalidated"
  <2>1. ent' = [ent EXCEPT ![k] = Nothing] /\ disk' = disk /\ promised' = promised /\ solo' = solo
        /\ run[r].pc = "invalidate"
    BY <1>12 DEF InvalidateRemove, Set
  <2>2. promised[k] = Unknown
    BY <1>11, <2>1 DEF Changing
  <2>3. s.pc \in Changing /\ s.pc # "sync"
    BY <1>12 DEF Changing
  <2>4. QED
    BY <1>9, <2>1, <2>2, <2>3
<1>13. CASE InvalidateSync(r) /\ s.pc = "model"
  <2>1. SyncEntries(r, Nothing) /\ run[r].pc = "invalidated" /\ s.pc \notin Changing
    BY <1>13 DEF InvalidateSync, Changing
  <2>2. r \in solo => ent[k] = Nothing
    BY <1>3, <2>1 DEF IsAlone
  <2>3. QED
    BY <1>10, <2>1, <2>2
<1>14. CASE (PutLink(r) \/ PutRelink(r)) /\ s.pc = "sync" /\ ent[k] = Nothing /\ Set(k, o)
  <2>1. ent' = [ent EXCEPT ![k] = o] /\ disk' = disk /\ promised' = promised /\ solo' = solo
        /\ run[r].pc \in {"link", "relink"}
    BY <1>14 DEF Set, PutLink, PutRelink
  <2>2. promised[k] = Unknown
    BY <1>2, <1>3, <1>14, <2>1 DEF IsKept
  <2>3. s.pc \in Changing /\ s.pc # "invalidated"
    BY <1>14 DEF Changing
  <2>4. QED
    BY <1>9, <2>1, <2>2, <2>3
<1>15. CASE PutRemove(r) /\ s.pc = "removed" /\ Set(k, Nothing)
  <2>1. ent' = [ent EXCEPT ![k] = Nothing] /\ disk' = disk /\ promised' = promised /\ solo' = solo
        /\ run[r].pc = "remove"
    BY <1>15 DEF Set, PutRemove
  <2>2. promised[k] = Unknown
    BY <1>11, <2>1 DEF Changing
  <2>3. s.pc \in Changing /\ s.pc # "sync" /\ s.pc # "invalidated"
    BY <1>15 DEF Changing
  <2>4. QED
    BY <1>9, <2>1, <2>2, <2>3
<1>16. CASE \/ PutLink(r) /\ s.pc = "compare" /\ ent[k] # Nothing /\ Keep
            \/ PutCompare(r) /\ s.pc = "sync" /\ ent[k] = o /\ Keep
            \/ PutCompare(r) /\ s.pc = "remove" /\ ent[k] # o /\ Keep
            \/ PutRelink(r) /\ s.pc = "recheck" /\ Keep
            \/ PutRecheck(r) /\ s.pc = "sync" /\ ent[k] = o /\ Keep
            \/ PutRemoveSync(r) /\ s.pc = "relink"
  <2>1. promised' = promised /\ ent' = ent /\ disk' \in {disk, ent} /\ solo' = solo
    BY <1>16 DEF Keep, PutRemoveSync
  <2>2. s.pc \in {"compare", "sync", "remove", "recheck", "relink"} /\ (s.pc = "sync" => ent[k] = o)
    BY <1>16
  <2>3. s.pc \in {"compare", "sync"} \/ promised[k] = Unknown
    <3>1. CASE PutCompare(r) /\ ent[k] # o
      BY <1>2, <1>3, <3>1 DEF IsKept
    <3>2. CASE PutRelink(r) \/ PutRecheck(r) \/ PutRemoveSync(r)
      <4>1. run[r].pc \in {"relink", "recheck", "removed"}
        BY <3>2 DEF PutRelink, PutRecheck, PutRemoveSync
      <4>2. QED
        BY <1>11, <4>1 DEF Changing
    <3>3. QED
      BY <1>16, <3>1, <3>2
  <2>4. s.pc \in Changing /\ s.pc # "invalidated"
    BY <2>2 DEF Changing
  <2>5. QED
    BY <1>8, <2>1, <2>2, <2>3, <2>4
<1>17. CASE PutSync(r) /\ s.pc = "done"
  <2>1. SyncEntries(r, o) /\ run[r].pc = "sync" /\ s.pc \notin Changing
    BY <1>17 DEF PutSync, Changing
  <2>2. r \in solo => ent[k] = o
    BY <1>3, <2>1 DEF IsAlone
  <2>3. QED
    BY <1>10, <2>1, <2>2
<1>18. CASE PutFails(r) /\ s.pc = "done"
  <2>1. promised' = promised /\ ent' = ent /\ disk' = disk /\ solo' = solo \ {r}
    BY <1>18 DEF PutFails
  <2>2. s.pc \notin Changing /\ s.pc # "sync" /\ s.pc # "invalidated"
    BY <1>18 DEF Changing
  <2>3. QED
    BY <1>8, <2>1, <2>2
<1>19. QED
  BY <1>5, <1>12, <1>13, <1>14, <1>15, <1>16, <1>17, <1>18

\* A step in which no call changes its key, or begins or ends its work on it,
\* and the directory and the promises stay.
LEMMA QuietPromise ==
    ASSUME PromiseInv, solo' \subseteq solo, solo \subseteq Runs,
           \A x \in Runs : \/ run'[x] = run[x]
                           \/ run'[x].pc \notin Changing /\ x \notin solo',
           \A j \in Keys : promised'[j] \in {promised[j], Unknown},
           \A j \in Keys : promised'[j] # Unknown => ent'[j] = ent[j] /\ disk'[j] \in {disk[j], ent[j]},
           \A x \in solo' : ent'[run[x].key] = ent[run[x].key] /\ run[x].key \notin gc'.paths,
           \A j \in Keys : promised'[j] # Unknown /\ j \notin gc.paths => j \notin gc'.paths
    PROVE  PromiseInv'
<1>1. ASSUME NEW x \in Runs, NEW j, run'[x].pc \in Changing /\ run'[x].key = j
      PROVE  Busy(x, j) /\ run'[x] = run[x]
  BY <1>1 DEF Busy
<1>2. ASSUME NEW x \in solo' PROVE IsAlone(x)'
  <2>1. x \in Runs /\ IsAlone(x) /\ run'[x] = run[x]
    BY <1>2 DEF PromiseInv
  <2>2. \A y \in Runs : y # x => ~(run'[y].pc \in Changing /\ run'[y].key = run[x].key)
    BY <1>1, <2>1 DEF IsAlone
  <2>3. QED
    BY <1>2, <2>1, <2>2 DEF IsAlone, Busy
<1>3. ASSUME NEW j \in Keys PROVE IsKept(j)'
  <2>1. SUFFICES ASSUME promised'[j] # Unknown
        PROVE  /\ ent'[j] = promised'[j] /\ disk'[j] = promised'[j] /\ j \notin gc'.paths
               /\ \A x \in Runs : run'[x].pc \in Changing /\ run'[x].key = j =>
                     run'[x].output = promised'[j] /\ run'[x].pc \in {"link", "compare", "sync"}
    BY DEF IsKept, Busy
  <2>2. promised'[j] = promised[j] /\ IsKept(j)
    BY <2>1 DEF PromiseInv
  <2>3. ent'[j] = promised'[j] /\ disk'[j] = promised'[j] /\ j \notin gc'.paths
    BY <2>1, <2>2 DEF IsKept
  <2>4. ASSUME NEW x \in Runs, run'[x].pc \in Changing /\ run'[x].key = j
        PROVE  run'[x].output = promised'[j] /\ run'[x].pc \in {"link", "compare", "sync"}
    BY <1>1, <2>1, <2>2, <2>4 DEF IsKept
  <2>5. QED
    BY <2>3, <2>4
<1>4. QED
  BY <1>2, <1>3 DEF PromiseInv

\* A call of run r on key k begins, with what it will store: whoever is at work
\* on k is not alone from here on, and a promise of anything else has ended.
LEMMA BeginPromise ==
    ASSUME CacheIInv, PromiseInv, NEW r \in Runs, NEW k \in Keys, Begin(r, k), gc' = gc,
           r \notin solo, ent' = ent, disk' = disk,
           NEW s, run' = [run EXCEPT ![r] = s], s.key = k, s.pc \in {"invalidate", "link"},
           \A j \in Keys : j # k => promised'[j] = promised[j],
           promised'[k] # Unknown => promised'[k] = promised[k] /\ s.output = promised[k] /\ s.pc = "link"
    PROVE  PromiseInv'
<1>1. /\ run'[r] = s /\ \A x \in Runs : x # r => run'[x] = run[x]
  BY DEF CacheIInv, CacheTypeOK
<1>2. s.pc \in Changing /\ s.pc # "sync" /\ s.pc # "invalidated"
  BY DEF Changing
<1>3. ASSUME NEW x \in solo' PROVE IsAlone(x)'
  <2>1. CASE x = r
    <3>1. k \notin gc.paths /\ \A y \in Runs : ~Busy(y, k)
      BY <1>3, <2>1 DEF Begin
    <3>2. \A y \in Runs : y # r => ~(run'[y].pc \in Changing /\ run'[y].key = k)
      BY <1>1, <3>1 DEF Busy
    <3>3. QED
      BY <1>1, <1>2, <2>1, <3>1, <3>2 DEF IsAlone, Busy
  <2>2. CASE x # r
    <3>1. x \in solo /\ x \in Runs /\ run[x].key # k /\ run'[x] = run[x] /\ IsAlone(x)
      BY <1>1, <1>3, <2>2 DEF Begin, CacheIInv, CacheTypeOK, PromiseInv
    <3>2. \A y \in Runs : y # x => ~(run'[y].pc \in Changing /\ run'[y].key = run[x].key)
      BY <1>1, <3>1 DEF IsAlone, Busy
    <3>3. QED
      BY <3>1, <3>2 DEF IsAlone, Busy
  <2>3. QED
    BY <2>1, <2>2
<1>4. ASSUME NEW j \in Keys PROVE IsKept(j)'
  <2>1. SUFFICES ASSUME promised'[j] # Unknown
        PROVE  /\ ent'[j] = promised'[j] /\ disk'[j] = promised'[j] /\ j \notin gc'.paths
               /\ \A x \in Runs : run'[x].pc \in Changing /\ run'[x].key = j =>
                     run'[x].output = promised'[j] /\ run'[x].pc \in {"link", "compare", "sync"}
    BY DEF IsKept, Busy
  <2>2. promised'[j] = promised[j] /\ IsKept(j)
    BY <2>1 DEF PromiseInv
  <2>3. ent'[j] = promised'[j] /\ disk'[j] = promised'[j] /\ j \notin gc'.paths
    BY <2>1, <2>2 DEF IsKept
  <2>4. ASSUME NEW x \in Runs, run'[x].pc \in Changing /\ run'[x].key = j
        PROVE  run'[x].output = promised'[j] /\ run'[x].pc \in {"link", "compare", "sync"}
    <3>1. CASE x = r
      BY <1>1, <2>1, <2>2, <2>4, <3>1
    <3>2. CASE x # r
      BY <1>1, <2>1, <2>2, <2>4, <3>2 DEF IsKept, Busy
    <3>3. QED
      BY <3>1, <3>2
  <2>5. QED
    BY <2>3, <2>4
<1>5. QED
  BY <1>3, <1>4 DEF PromiseInv

\* A lookup that invalidates found an entry nobody was told about.
LEMMA LookupPromise ==
    ASSUME CacheIInv, PromiseInv, NEW r \in Runs, NEW k \in Keys, Lookup(r, k) PROVE PromiseInv'
<1>1. /\ run[r].pc = "idle" /\ ent' = ent /\ disk' = disk /\ promised' = promised /\ gc' = gc
      /\ run[r] \in NodeCall /\ run \in [Runs -> NodeCall] /\ solo \subseteq Runs
  BY DEF Lookup, CacheIInv, CacheTypeOK
<1>2. r \notin solo
  BY <1>1 DEF PromiseInv, IsAlone, Changing
<1>3. CASE CacheLookup(k) \in {"negative", "invalid"} /\ Begin(r, k)
           /\ run' = [run EXCEPT ![r].pc = "invalidate", ![r].key = k]
  <2>1. PICK s : s = [run[r] EXCEPT !.pc = "invalidate", !.key = k]
    OBVIOUS
  <2>2. run' = [run EXCEPT ![r] = s] /\ s.key = k /\ s.pc = "invalidate"
    BY <1>1, <1>3, <2>1 DEF NodeCall
  <2>3. promised[k] = Unknown
    <3>1. ent[k] \in Unusable
      BY <1>3 DEF CacheLookup, Unusable, CacheIInv, CacheTypeOK, Entries
    <3>2. promised[k] \in Outputs \union {Nothing, Unknown} /\ IsKept(k)
      BY DEF CacheIInv, CacheTypeOK, PromiseInv
    <3>3. QED
      BY <3>1, <3>2, CacheAssumption DEF IsKept
  <2>4. QED
    BY <1>1, <1>2, <1>3, <2>2, <2>3, BeginPromise
<1>4. CASE solo' = solo /\ \E pc \in {"done", "model"} : run'[r].pc = pc /\ \A x \in Runs : x # r => run'[x] = run[x]
  <2>1. \A x \in Runs : run'[x] = run[x] \/ (run'[x].pc \notin Changing /\ x \notin solo')
    BY <1>2, <1>4 DEF Changing
  <2>2. \A x \in solo : run[x].key \notin gc.paths
    BY DEF PromiseInv, IsAlone
  <2>3. QED
    BY <1>1, <1>4, <2>1, <2>2, QuietPromise
<1>5. \/ /\ CacheLookup(k) \in {"negative", "invalid"} /\ Begin(r, k)
         /\ run' = [run EXCEPT ![r].pc = "invalidate", ![r].key = k]
      \/ solo' = solo /\ \E pc \in {"done", "model"} : run'[r].pc = pc /\ \A x \in Runs : x # r => run'[x] = run[x]
  BY <1>1 DEF Lookup, NodeCall
<1>6. QED
  BY <1>3, <1>4, <1>5

\* An admitted output is about to be stored.
LEMMA AcceptPromise ==
    ASSUME CacheIInv, PromiseInv, NEW r \in Runs, Accept(r) PROVE PromiseInv'
<1>1. /\ run[r].pc = "returned" /\ ent' = ent /\ disk' = disk /\ gc' = gc
      /\ run[r] \in NodeCall /\ run \in [Runs -> NodeCall] /\ solo \subseteq Runs
      /\ promised \in [Keys -> Outputs \union {Nothing, Unknown}]
  BY DEF Accept, CacheIInv, CacheTypeOK
<1>2. r \notin solo
  BY <1>1 DEF PromiseInv, IsAlone, Changing
<1> PICK k \in Keys : k = run[r].key
  BY <1>1 DEF CacheIInv, CallsAreSound, CallIsSound
<1>3. CASE /\ run' = [run EXCEPT ![r].pc = "link"] /\ Begin(r, k)
           /\ promised' = [promised EXCEPT ![k] = IF @ = run[r].output THEN @ ELSE Unknown]
  <2>1. PICK s : s = [run[r] EXCEPT !.pc = "link"]
    OBVIOUS
  <2>2. run' = [run EXCEPT ![r] = s] /\ s.key = k /\ s.pc = "link" /\ s.output = run[r].output
    BY <1>1, <1>3, <2>1 DEF NodeCall
  <2>3. /\ \A j \in Keys : j # k => promised'[j] = promised[j]
        /\ promised'[k] # Unknown => promised'[k] = promised[k] /\ s.output = promised[k] /\ s.pc = "link"
    BY <1>1, <1>3, <2>2
  <2>4. s.pc \in {"invalidate", "link"}
    BY <2>2
  <2>5. QED
    BY <1>1, <1>2, <1>3, <2>2, <2>3, <2>4, BeginPromise
<1>4. CASE solo' = solo /\ promised' = promised /\ run' = [run EXCEPT ![r].pc = "done", ![r].output = Nothing]
  <2>1. run'[r].pc = "done" /\ \A x \in Runs : x # r => run'[x] = run[x]
    BY <1>1, <1>4 DEF NodeCall
  <2>2. \A x \in Runs : run'[x] = run[x] \/ (run'[x].pc \notin Changing /\ x \notin solo')
    BY <1>2, <1>4, <2>1 DEF Changing
  <2>3. \A x \in solo : run[x].key \notin gc.paths
    BY DEF PromiseInv, IsAlone
  <2>4. QED
    BY <1>1, <1>4, <2>2, <2>3, QuietPromise
<1>5. QED
  BY <1>3, <1>4 DEF Accept, Go

\* The model answers, or the call is over.
LEMMA IdlePromise ==
    ASSUME CacheIInv, PromiseInv, NEW r \in Runs,
           (\E o \in Outputs : Model(r, o)) \/ Again(r) \/ Crash(r)
    PROVE  PromiseInv'
<1>1. /\ ent' = ent /\ disk' = disk /\ gc' = gc /\ promised' = promised
      /\ run[r] \in NodeCall /\ run \in [Runs -> NodeCall] /\ solo \subseteq Runs
  BY DEF Model, Again, Crash, Keep, CacheIInv, CacheTypeOK
<1>2. solo' \subseteq solo /\ r \notin solo'
  <2>1. CASE Crash(r)
    BY <2>1 DEF Crash
  <2>2. CASE (\E o \in Outputs : Model(r, o)) \/ Again(r)
    <3>1. solo' = solo /\ run[r].pc \in {"model", "done"}
      BY <2>2 DEF Model, Again, Keep
    <3>2. QED
      BY <3>1 DEF PromiseInv, IsAlone, Changing
  <2>3. QED
    BY <2>1, <2>2
<1>3. run'[r].pc \in {"returned", "idle"} /\ \A x \in Runs : x # r => run'[x] = run[x]
  <2>1. ASSUME NEW o \in Outputs, Model(r, o)
        PROVE  run'[r].pc = "returned" /\ \A x \in Runs : x # r => run'[x] = run[x]
    BY <1>1, <2>1 DEF Model, NodeCall
  <2>2. CASE Again(r)
    BY <1>1, <2>2 DEF Again, Fresh
  <2>3. CASE Crash(r)
    BY <1>1, <2>3 DEF Crash, Fresh
  <2>4. QED
    BY <2>1, <2>2, <2>3
<1>4. \A x \in Runs : run'[x] = run[x] \/ (run'[x].pc \notin Changing /\ x \notin solo')
  BY <1>2, <1>3 DEF Changing
<1>5. \A x \in solo' : run[x].key \notin gc.paths
  BY <1>2 DEF PromiseInv, IsAlone
<1>6. QED
  BY <1>1, <1>2, <1>4, <1>5, QuietPromise

\* gc is after keys nothing is promised of, and on which no call is alone.
LEMMA GcPromise ==
    ASSUME CacheIInv, PromiseInv, GcStart \/ GcRemove \/ GcSync PROVE PromiseInv'
<1>1. /\ run' = run /\ solo \subseteq Runs /\ ent \in [Keys -> Entries]
      /\ promised \in [Keys -> Outputs \union {Nothing, Unknown}]
  BY DEF GcStart, GcRemove, GcSync, CacheIInv, CacheTypeOK
<1>2. \A x \in solo : run[x].key \notin gc.paths
  BY DEF PromiseInv, IsAlone
<1>3. \A j \in Keys : promised[j] # Unknown => j \notin gc.paths
  BY DEF PromiseInv, IsKept
<1>4. CASE GcStart
  <2>1. PICK paths \in SUBSET Inspected :
          /\ gc' = [active |-> TRUE, paths |-> paths]
          /\ promised' = [k \in Keys |-> IF k \in paths THEN Unknown ELSE promised[k]]
          /\ solo' = {r \in solo : run[r].key \notin paths}
    BY <1>4 DEF GcStart
  <2>2. ent' = ent /\ disk' = disk /\ gc'.paths = paths
    BY <1>4, <2>1 DEF GcStart
  <2>3. /\ \A j \in Keys : promised'[j] \in {promised[j], Unknown}
        /\ \A j \in Keys : promised'[j] # Unknown => j \notin gc'.paths
    BY <2>1, <2>2
  <2>4. solo' \subseteq solo /\ \A x \in solo' : run[x].key \notin gc'.paths
    BY <2>1, <2>2
  <2>5. QED
    BY <1>1, <2>2, <2>3, <2>4, QuietPromise
<1>5. CASE GcRemove
  <2>1. PICK k \in gc.paths :
          \/ ent' = [ent EXCEPT ![k] = Nothing] /\ gc' = [gc EXCEPT !.paths = @ \ {k}]
          \/ ent' = ent /\ gc' = Idle
    BY <1>5 DEF GcRemove, Set, Keep
  <2>2. disk' = disk /\ promised' = promised /\ solo' = solo
    BY <1>5 DEF GcRemove, Set, Keep
  <2>3. gc'.paths \subseteq gc.paths /\ \A j \in Keys : j # k => ent'[j] = ent[j]
    BY <1>1, <2>1 DEF Idle, CacheIInv, CacheTypeOK
  <2>4. \A x \in solo : run[x].key \in Keys /\ run[x].key # k
    BY <1>1, <1>2, BusyFacts DEF PromiseInv, IsAlone
  <2>5. \A x \in solo' : ent'[run[x].key] = ent[run[x].key] /\ run[x].key \notin gc'.paths
    BY <1>2, <2>2, <2>3, <2>4
  <2>6. \A j \in Keys : promised'[j] # Unknown => ent'[j] = ent[j] /\ disk'[j] \in {disk[j], ent[j]}
    BY <1>3, <2>2, <2>3
  <2>7. QED
    BY <1>1, <2>2, <2>3, <2>5, <2>6, QuietPromise
<1>6. CASE GcSync
  <2>1. disk' = ent /\ ent' = ent /\ promised' = promised /\ solo' = solo /\ gc'.paths = {}
    BY <1>6 DEF GcSync, Idle
  <2>2. QED
    BY <1>1, <2>1, QuietPromise
<1>7. QED
  BY <1>4, <1>5, <1>6

\* A loss of power takes every call with it, and no entry that both directories
\* hold.
LEMMA PowerLossPromise == ASSUME CacheIInv, PromiseInv, PowerLoss PROVE PromiseInv'
<1>1. /\ \A k \in Keys : ent'[k] \in {ent[k], disk[k]}
      /\ disk' = ent' /\ run' = [r \in Runs |-> Fresh] /\ gc'.paths = {}
      /\ solo' = {} /\ promised' = promised
  BY DEF PowerLoss, Idle
<1>2. \A x \in Runs : run'[x].pc \notin Changing
  BY <1>1 DEF Fresh, Changing
<1>3. ASSUME NEW k \in Keys PROVE IsKept(k)'
  <2>1. IsKept(k)
    BY DEF PromiseInv
  <2>2. QED
    BY <1>1, <1>2, <2>1 DEF IsKept, Busy
<1>4. QED
  BY <1>1, <1>3 DEF PromiseInv

LEMMA DamagePromise ==
    ASSUME CacheIInv, PromiseInv, NEW k \in Keys, NEW e \in Unusable, Damage(k, e)
    PROVE  PromiseInv'
<1>1. /\ ent' = [ent EXCEPT ![k] = e] /\ disk' = [disk EXCEPT ![k] = e]
      /\ promised' = [promised EXCEPT ![k] = Unknown] /\ run' = run /\ gc' = gc
      /\ solo' = {r \in solo : run[r].key # k}
      /\ ent \in [Keys -> Entries] /\ disk \in [Keys -> Entries] /\ solo \subseteq Runs
      /\ promised \in [Keys -> Outputs \union {Nothing, Unknown}]
  BY DEF Damage, CacheIInv, CacheTypeOK
<1>2. /\ promised'[k] = Unknown
      /\ \A j \in Keys : j # k => ent'[j] = ent[j] /\ disk'[j] = disk[j] /\ promised'[j] = promised[j]
  BY <1>1
<1>3. \A x \in solo : run[x].key \in Keys /\ run[x].key \notin gc.paths
  BY <1>1, BusyFacts DEF PromiseInv, IsAlone
<1>4. \A x \in solo' : ent'[run[x].key] = ent[run[x].key] /\ run[x].key \notin gc'.paths
  BY <1>1, <1>2, <1>3
<1>5. /\ \A j \in Keys : promised'[j] \in {promised[j], Unknown}
      /\ \A j \in Keys : promised'[j] # Unknown => ent'[j] = ent[j] /\ disk'[j] \in {disk[j], ent[j]}
  BY <1>2
<1>6. QED
  BY <1>1, <1>4, <1>5, QuietPromise

LEMMA CacheNextPromise == CacheIInv /\ PromiseInv /\ [CacheNext]_cacheVars => PromiseInv'
<1> SUFFICES ASSUME CacheIInv, PromiseInv, [CacheNext]_cacheVars PROVE PromiseInv'
  OBVIOUS
<1>1. ASSUME NEW r \in Runs, NEW k \in Keys, Lookup(r, k) PROVE PromiseInv'
  BY <1>1, LookupPromise
<1>2. ASSUME NEW r \in Runs,
             \/ InvalidateRemove(r) \/ InvalidateSync(r)
             \/ PutTmpFails(r) \/ PutLink(r) \/ PutCompare(r) \/ PutRemove(r)
             \/ PutRemoveSync(r) \/ PutRelink(r) \/ PutRecheck(r) \/ PutSync(r)
      PROVE  PromiseInv'
  BY <1>2, NodeCallPromise
<1>3. ASSUME NEW r \in Runs, Accept(r) PROVE PromiseInv'
  BY <1>3, AcceptPromise
<1>4. ASSUME NEW r \in Runs, (\E o \in Outputs : Model(r, o)) \/ Again(r) \/ Crash(r) PROVE PromiseInv'
  BY <1>4, IdlePromise
<1>5. ASSUME GcStart \/ GcRemove \/ GcSync PROVE PromiseInv'
  BY <1>5, GcPromise
<1>6. ASSUME PowerLoss PROVE PromiseInv'
  BY <1>6, PowerLossPromise
<1>7. ASSUME NEW k \in Keys, NEW e \in Unusable, Damage(k, e) PROVE PromiseInv'
  BY <1>7, DamagePromise
<1>8. CASE UNCHANGED cacheVars
  BY <1>8 DEF cacheVars, PromiseInv, IsAlone, IsKept, Busy
<1>9. QED
  BY <1>1, <1>2, <1>3, <1>4, <1>5, <1>6, <1>7, <1>8 DEF CacheNext

LEMMA CacheInitPromise == CacheInit => PromiseInv
BY CacheAssumption DEF CacheInit, PromiseInv, IsKept, Busy, Idle, Fresh, Changing

\* What a call that nobody's overlapped reported is there, through later calls,
\* crashes and losses of power, until a run stores another output, gc collects
\* the entry or something damages it.
THEOREM DurablePromise == CacheSpec => []PromiseSurvives
<1>1. PromiseInv => PromiseSurvives
  BY DEF PromiseInv, IsKept, PromiseSurvives
<1>2. CacheSpec => []PromiseInv
  BY CacheInvariance, CacheInitPromise, CacheNextPromise, PTL DEF CacheSpec
<1>3. QED
  BY <1>1, <1>2, PTL

=============================================================================
