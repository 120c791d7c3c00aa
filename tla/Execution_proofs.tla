-------------------------- MODULE Execution_proofs --------------------------
(***************************************************************************)
(* Proofs about what executes: the nodes of a graph, and the handlers of   *)
(* the tools that the nodes call.                                          *)
(*                                                                         *)
(* ToolBridge: for any callers, calls, registrations, grants and number of *)
(* handler threads, an effectful call runs one handler at a time, its      *)
(* callers share one envelope, and none is served unapproved.              *)
(*                                                                         *)
(* WorkflowGraph: for any workflows, selectors, crashes and resumes, a node*)
(* runs at most max_visits times and once more per resume, and nothing runs*)
(* before the firewall gate has allowed it.                                *)
(***************************************************************************)
EXTENDS ToolBridge, WorkflowGraph, FiniteSetTheorems, WellFoundedInduction, TLAPS

(***************************************************************************)
(* ToolBridge.                                                             *)
(***************************************************************************)

\* Threads are numbered in the order they are spawned.
SpawnedInOrder == \A i \in Threads : thread[i].state = "none" <=> i > spawned

\* in_flight holds the receiver of a handler of that key, which has no result
\* yet, and only keys of effectful calls are in flight.
InFlightIsOwn ==
    \A c \in Calls : inFlight[c] # 0 =>
        thread[inFlight[c]].call = c /\ Effectful(c) /\ results[c] = 0

\* A running effect is in flight: a timeout has not lost its receiver.
RunningIsInFlight ==
    \A i \in Threads :
        thread[i].state \in Running /\ Effectful(thread[i].call)
            => inFlight[thread[i].call] = i

\* A kept result is the valid envelope of a handler of that call.
ResultIsOwn ==
    \A c \in Calls : results[c] # 0 =>
        thread[results[c]].call = c /\ thread[results[c]].state = "valid"

\* A handler that answered with an envelope has acted.
AnsweredHasActed ==
    \A i \in Threads : thread[i].state \in {"acted", "valid", "invalid"}
        => effects[thread[i].call] > 0

\* Who holds the lock waits on a handler of its own call, in flight when the
\* call is effectful.
WaitsOnItsCall ==
    holder # NoCaller =>
        /\ waiting \in 1..spawned /\ thread[waiting].call = call[holder]
        /\ answer[holder].ok = 0
        /\ Effectful(call[holder]) => inFlight[call[holder]] = waiting

\* An answered caller was given the envelope of its call, the kept one when
\* the call is effectful.
AnswerIsOwn ==
    \A a \in Callers : answer[a].ok # 0 =>
        /\ answer[a].ok \in 1..spawned
        /\ thread[answer[a].ok].call = call[a]
        /\ thread[answer[a].ok].state = "valid"
        /\ Effectful(call[a]) => results[call[a]] = answer[a].ok

\* Handlers of a call that can have acted: all but the ones just started.
MayHaveActed(c) == {i \in 1..spawned : thread[i].call = c /\ thread[i].state # "started"}

\* A handler acts once.
ActsOnce == \A c \in Calls : effects[c] <= Cardinality(MayHaveActed(c))

\* TypeOK with every natural number for the effects; ActsOnce bounds them.
TypeInv ==
    /\ now \in Time
    /\ grants \in [GrantKeys -> Grants \union {NoGrant}]
    /\ holder \in Callers \union {NoCaller}
    /\ call \in [Callers -> Calls]
    /\ waiting \in Threads \union {0}
    /\ spawned \in 0..MaxThreads
    /\ thread \in [Threads -> [call : Calls, state : Running \union Outcome \union {"none"}]]
    /\ inFlight \in [Calls -> 0..spawned]
    /\ results \in [Calls -> 0..spawned]
    /\ effects \in [Calls -> Nat]
    /\ answer \in [Callers -> [ok : 0..MaxThreads, kind : ErrorKind \union {"none"}]]

HandlersInv == SpawnedInOrder /\ InFlightIsOwn /\ RunningIsInFlight /\ ResultIsOwn
               /\ AnsweredHasActed

IInv == TypeInv /\ HandlersInv /\ WaitsOnItsCall /\ AnswerIsOwn /\ ActsOnce

-----------------------------------------------------------------------------
(* Lemmas about the helpers.                                                *)

\* invoke refuses with an error kind, or goes on.
LEMMA RefusalType ==
    ASSUME NEW c \in Calls
    PROVE  Refusal(c) \in ErrorKind \union {"none"}
BY DEF Refusal, ErrorKind

\* invoke goes on with an effectful call only under a live grant.
LEMMA GoesOnApproved ==
    ASSUME NEW c \in Calls, Refusal(c) = "none", Effectful(c)
    PROVE  Approved(c)
BY DEF Refusal

\* The threads of a call are a finite set: no more than were spawned.
LEMMA MayHaveActedFinite ==
    ASSUME TypeInv, NEW c \in Calls
    PROVE  /\ IsFiniteSet(MayHaveActed(c))
           /\ Cardinality(MayHaveActed(c)) \in 0..spawned
<1>1. IsFiniteSet(1..spawned) /\ Cardinality(1..spawned) = spawned
  BY FS_Interval DEF TypeInv
<1>2. MayHaveActed(c) \subseteq 1..spawned
  BY DEF MayHaveActed
<1>3. IsFiniteSet(MayHaveActed(c)) /\ Cardinality(MayHaveActed(c)) <= Cardinality(1..spawned)
  BY <1>1, <1>2, FS_Subset
<1>4. Cardinality(MayHaveActed(c)) \in Nat
  BY <1>3, FS_CardinalityType
<1>5. QED
  BY <1>1, <1>3, <1>4 DEF TypeInv

\* What in_flight and the kept results point at is a spawned thread.
LEMMA PointsAtThreads ==
    ASSUME TypeInv
    PROVE  /\ spawned \in Nat /\ MaxThreads \in Nat /\ spawned <= MaxThreads
           /\ 1..spawned \subseteq Threads
           /\ \A c \in Calls : inFlight[c] # 0 => inFlight[c] \in 1..spawned
           /\ \A c \in Calls : results[c] # 0 => results[c] \in 1..spawned
<1>1. spawned \in Nat /\ MaxThreads \in Nat /\ spawned <= MaxThreads
  BY BridgeAssumption DEF TypeInv
<1>2. 1..spawned \subseteq Threads
  BY <1>1 DEF Threads
<1>3. ASSUME NEW n \in 0..spawned, n # 0 PROVE n \in 1..spawned
  BY <1>1, <1>3
<1>4. \A c \in Calls : inFlight[c] \in 0..spawned /\ results[c] \in 0..spawned
  BY DEF TypeInv
<1>5. QED
  BY <1>1, <1>2, <1>3, <1>4

\* Effects that do not grow stay bounded while no thread starts over.
LEMMA ActsOnceKept ==
    ASSUME TypeInv, TypeInv', ActsOnce, effects' = effects,
           \A c \in Calls : MayHaveActed(c) \subseteq MayHaveActed(c)'
    PROVE  ActsOnce'
<1> SUFFICES ASSUME NEW c \in Calls
             PROVE  effects'[c] <= Cardinality(MayHaveActed(c)')
  BY DEF ActsOnce
<1>1. IsFiniteSet(MayHaveActed(c)') /\ Cardinality(MayHaveActed(c)') \in Nat
  <2>1. (IsFiniteSet(MayHaveActed(c)) /\ Cardinality(MayHaveActed(c)) \in 0..spawned)'
    BY MayHaveActedFinite, PTL
  <2>2. QED
    BY <2>1 DEF TypeInv
<1>2. Cardinality(MayHaveActed(c)) <= Cardinality(MayHaveActed(c)')
  BY <1>1, FS_Subset
<1>3. Cardinality(MayHaveActed(c)) \in Nat
  BY MayHaveActedFinite DEF TypeInv
<1>4. QED
  BY <1>1, <1>2, <1>3 DEF ActsOnce, TypeInv

-----------------------------------------------------------------------------
(* The inductive invariant.                                                 *)

LEMMA InitIInv == Init => IInv
<1> SUFFICES ASSUME Init PROVE IInv
  OBVIOUS
<1>1. TypeInv
  BY BridgeAssumption DEF Init, TypeInv, Time, Threads
<1>2. HandlersInv
  BY BridgeAssumption DEF Init, HandlersInv, SpawnedInOrder, InFlightIsOwn, RunningIsInFlight,
     ResultIsOwn, AnsweredHasActed, Threads, Running
<1>3. WaitsOnItsCall /\ AnswerIsOwn
  BY DEF Init, WaitsOnItsCall, AnswerIsOwn
<1>4. ActsOnce
  BY <1>1, MayHaveActedFinite DEF Init, ActsOnce
<1>5. QED
  BY <1>1, <1>2, <1>3, <1>4 DEF IInv

\* An answer without a handler changes only what the caller has: ok is 0 or
\* the kept result of its call.
LEMMA ImmediateIInv ==
    ASSUME IInv, NEW a \in Callers, NEW c \in Calls,
           NEW ok \in 0..MaxThreads, NEW kind \in ErrorKind \union {"none"},
           Immediate(a, c, ok, kind),
           ok # 0 => Effectful(c) /\ ok = results[c]
    PROVE  IInv'
<1> USE DEF IInv, Immediate, Return, Answer
<1>1. TypeInv'
  BY DEF TypeInv
<1>2. HandlersInv'
  BY DEF HandlersInv, SpawnedInOrder, InFlightIsOwn, RunningIsInFlight, ResultIsOwn,
         AnsweredHasActed
<1>3. WaitsOnItsCall'
  BY DEF WaitsOnItsCall
<1>4. AnswerIsOwn'
  BY DEF AnswerIsOwn, HandlersInv, ResultIsOwn, TypeInv
<1>5. ActsOnce'
  BY DEF ActsOnce, MayHaveActed
<1>6. QED
  BY <1>1, <1>2, <1>3, <1>4, <1>5

\* A spawned handler is a new thread, and takes no other from its call: an
\* effectful one is in flight from now on, a read-only one never is.
LEMMA SpawnIInv ==
    ASSUME IInv, NEW a \in Callers, NEW c \in Calls,
           Spawn(c), Wait(a, c, spawned + 1),
           IF Effectful(c)
           THEN /\ results[c] = 0 /\ inFlight[c] = 0
                /\ inFlight' = [inFlight EXCEPT ![c] = spawned + 1]
           ELSE inFlight' = inFlight
    PROVE  IInv'
<1> DEFINE n == spawned + 1
<1>1. /\ n \in Threads /\ n \notin 0..spawned /\ n \in 1..n /\ 0..spawned \subseteq 0..n
      /\ n # 0 /\ spawned' = n /\ n \in 0..MaxThreads /\ 1..spawned \subseteq Threads
      /\ 1..spawned \subseteq 1..n /\ \A i \in Threads : i > n <=> (i > spawned /\ i # n)
  <2>1. spawned \in Nat /\ MaxThreads \in Nat /\ spawned < MaxThreads /\ spawned' = n
    BY PointsAtThreads DEF Spawn, IInv
  <2>2. n \in Threads /\ 1..spawned \subseteq Threads /\ n \in 0..MaxThreads
    BY <2>1 DEF Threads
  <2>3. n \notin 0..spawned /\ n \in 1..n /\ 0..spawned \subseteq 0..n /\ n # 0
        /\ 1..spawned \subseteq 1..n
    BY <2>1
  <2>4. \A i \in Threads : i > n <=> (i > spawned /\ i # n)
    BY <2>1 DEF Threads
  <2>5. QED
    BY <2>1, <2>2, <2>3, <2>4
<1>2. /\ thread' = [thread EXCEPT ![n] = [call |-> c, state |-> "started"]]
      /\ holder' = a /\ waiting' = n /\ call' = [call EXCEPT ![a] = c]
      /\ answer' = [answer EXCEPT ![a] = [ok |-> 0, kind |-> "none"]]
      /\ UNCHANGED <<now, grants, results, effects>>
  BY DEF Spawn, Wait
<1>3. thread[n].state = "none"
  BY <1>1 DEF IInv, HandlersInv, SpawnedInOrder, TypeInv
<1>4. thread'[n].call = c /\ thread'[n].state = "started"
      /\ \A i \in Threads : i # n => thread'[i] = thread[i]
  BY <1>1, <1>2 DEF IInv, TypeInv
<1>5. /\ \A b \in Calls : b # c => inFlight'[b] = inFlight[b]
      /\ inFlight'[c] = (IF Effectful(c) THEN n ELSE inFlight[c])
      /\ inFlight' \in [Calls -> 0..n]
      /\ \A b \in Calls : inFlight[b] \in 0..spawned /\ results[b] \in 0..spawned
      /\ \A b \in Calls : inFlight[b] # n /\ results[b] # n
  BY <1>1 DEF IInv, TypeInv
<1>6. \A b \in Calls : /\ inFlight[b] # 0 => inFlight[b] \in Threads
                       /\ results[b] # 0 => results[b] \in Threads
  BY <1>1, PointsAtThreads DEF IInv
<1> HIDE DEF n
<1>7. TypeInv'
  <2>1. thread' \in [Threads -> [call : Calls, state : Running \union Outcome \union {"none"}]]
    BY <1>1, <1>2 DEF IInv, TypeInv, Running
  <2>2. results' \in [Calls -> 0..n]
    BY <1>1, <1>2 DEF IInv, TypeInv
  <2>3. answer' \in [Callers -> [ok : 0..MaxThreads, kind : ErrorKind \union {"none"}]]
    BY <1>2, BridgeAssumption DEF IInv, TypeInv
  <2>4. call' \in [Callers -> Calls] /\ waiting' \in Threads \union {0}
    BY <1>1, <1>2 DEF IInv, TypeInv
  <2>5. QED
    BY <1>1, <1>2, <1>5, <2>1, <2>2, <2>3, <2>4 DEF IInv, TypeInv
<1>8. SpawnedInOrder'
  BY <1>1, <1>3, <1>4 DEF IInv, HandlersInv, SpawnedInOrder
<1>9. InFlightIsOwn'
  BY <1>1, <1>2, <1>4, <1>5, <1>6 DEF IInv, HandlersInv, InFlightIsOwn
<1>10. RunningIsInFlight'
  <2> SUFFICES ASSUME NEW i \in Threads, thread'[i].state \in Running, Effectful(thread'[i].call)
               PROVE  inFlight'[thread'[i].call] = i
    BY DEF RunningIsInFlight
  <2>1. CASE i = n
    BY <2>1, <1>4, <1>5
  <2>2. CASE i # n
    <3>1. thread'[i] = thread[i] /\ i # 0
      BY <2>2, <1>4 DEF Threads
    <3>2. inFlight[thread[i].call] = i
      BY <3>1 DEF IInv, HandlersInv, RunningIsInFlight
    <3>3. thread[i].call \in Calls
      BY DEF IInv, TypeInv
    <3>4. thread[i].call # c
      BY <3>1, <3>2
    <3>5. QED
      BY <3>1, <3>2, <3>3, <3>4, <1>5
  <2>3. QED
    BY <2>1, <2>2
<1>11. ResultIsOwn'
  BY <1>2, <1>4, <1>5, <1>6 DEF IInv, HandlersInv, ResultIsOwn
<1>12. AnsweredHasActed'
  BY <1>2, <1>4 DEF IInv, HandlersInv, AnsweredHasActed
<1>13. WaitsOnItsCall'
  <2>1. call'[a] = c /\ answer'[a].ok = 0
    BY <1>2 DEF IInv, TypeInv
  <2>2. QED
    BY <1>1, <1>2, <1>4, <1>5, <2>1 DEF WaitsOnItsCall
<1>14. AnswerIsOwn'
  <2> SUFFICES ASSUME NEW b \in Callers, answer'[b].ok # 0
               PROVE  /\ answer'[b].ok \in 1..n
                      /\ thread'[answer'[b].ok].call = call'[b]
                      /\ thread'[answer'[b].ok].state = "valid"
                      /\ Effectful(call'[b]) => results[call'[b]] = answer'[b].ok
    BY <1>1, <1>2 DEF AnswerIsOwn
  <2>1. b # a /\ answer'[b] = answer[b] /\ call'[b] = call[b]
    BY <1>2 DEF IInv, TypeInv
  <2>2. answer[b].ok \in 1..spawned /\ answer[b].ok # n /\ answer[b].ok \in Threads
    BY <1>1, <2>1 DEF IInv, AnswerIsOwn
  <2>3. QED
    BY <1>1, <1>4, <2>1, <2>2 DEF IInv, AnswerIsOwn
<1>15. ActsOnce'
  <2>1. \A b \in Calls : MayHaveActed(b) \subseteq MayHaveActed(b)'
    <3> SUFFICES ASSUME NEW b \in Calls, NEW i \in MayHaveActed(b)
                 PROVE  i \in MayHaveActed(b)'
      OBVIOUS
    <3>1. i \in 1..spawned /\ i \in Threads /\ i # n /\ thread[i].call = b /\ thread[i].state # "started"
      BY <1>1 DEF MayHaveActed
    <3>2. QED
      BY <1>1, <1>4, <3>1 DEF MayHaveActed
  <2>2. QED
    BY <1>2, <1>7, <2>1, ActsOnceKept DEF IInv
<1>16. QED
  BY <1>7, <1>8, <1>9, <1>10, <1>11, <1>12, <1>13, <1>14, <1>15 DEF IInv, HandlersInv

\* A retry waits on the handler in flight, which is of its call.
LEMMA JoinEffectIInv ==
    ASSUME IInv, NEW a \in Callers, NEW c \in Calls, JoinEffect(a, c)
    PROVE  IInv'
<1> USE DEF IInv, JoinEffect, Wait
<1>1. TypeInv'
  <2>1. inFlight[c] \in Threads
    BY PointsAtThreads
  <2>2. [ok |-> 0, kind |-> "none"] \in [ok : 0..MaxThreads, kind : ErrorKind \union {"none"}]
    BY BridgeAssumption
  <2>3. QED
    BY <2>1, <2>2 DEF TypeInv
<1>2. HandlersInv'
  BY DEF HandlersInv, SpawnedInOrder, InFlightIsOwn, RunningIsInFlight, ResultIsOwn,
         AnsweredHasActed
<1>3. WaitsOnItsCall'
  BY DEF TypeInv, WaitsOnItsCall, HandlersInv, InFlightIsOwn
<1>4. AnswerIsOwn'
  BY DEF TypeInv, AnswerIsOwn
<1>5. ActsOnce'
  BY DEF ActsOnce, MayHaveActed
<1>6. QED
  BY <1>1, <1>2, <1>3, <1>4, <1>5

\* The receiver yields: the handler in flight has ended, so no running effect
\* loses its receiver, and nobody had another envelope of the call.
LEMMA ReceiveIInv ==
    ASSUME IInv, Receive
    PROVE  IInv'
<1> DEFINE c == call[holder]
<1>1. /\ holder \in Callers /\ c \in Calls /\ waiting \in 1..spawned /\ waiting \in Threads
      /\ thread[waiting].call = c /\ answer[holder].ok = 0
      /\ Effectful(c) => inFlight[c] = waiting /\ results[c] = 0
      /\ thread[waiting].state \in {"valid", "invalid", "error"}
  BY BridgeAssumption DEF IInv, Receive, TypeInv, WaitsOnItsCall, HandlersInv, InFlightIsOwn, Threads
<1>2. /\ holder' = NoCaller /\ waiting' = 0
      /\ inFlight' = [inFlight EXCEPT ![c] = 0]
      /\ UNCHANGED <<now, grants, call, thread, spawned, effects>>
  BY DEF Receive, Return
<1>3. \/ /\ thread[waiting].state = "valid"
         /\ results' = (IF Effectful(c) THEN [results EXCEPT ![c] = waiting] ELSE results)
         /\ answer' = [answer EXCEPT ![holder] = [ok |-> waiting, kind |-> "none"]]
      \/ /\ results' = results
         /\ \E kind \in ErrorKind : answer' = [answer EXCEPT ![holder] = [ok |-> 0, kind |-> kind]]
  BY DEF Receive, Return, Answer, ErrorKind
<1> HIDE DEF c
<1>4. TypeInv'
  <2>1. spawned \in Nat /\ waiting \in 0..spawned /\ 0 \in 0..spawned /\ waiting \in 0..MaxThreads
    BY <1>1, PointsAtThreads DEF IInv
  <2>2. inFlight' \in [Calls -> 0..spawned] /\ results' \in [Calls -> 0..spawned]
    BY <1>1, <1>2, <1>3, <2>1 DEF IInv, TypeInv
  <2>3. \A kind \in ErrorKind \union {"none"}, ok \in {0, waiting} :
            [ok |-> ok, kind |-> kind] \in [ok : 0..MaxThreads, kind : ErrorKind \union {"none"}]
    BY <2>1, BridgeAssumption
  <2>4. answer' \in [Callers -> [ok : 0..MaxThreads, kind : ErrorKind \union {"none"}]]
    <3>1. \E r \in [ok : 0..MaxThreads, kind : ErrorKind \union {"none"}] :
             answer' = [answer EXCEPT ![holder] = r]
      BY <1>3, <2>3
    <3>2. QED
      BY <3>1 DEF IInv, TypeInv
  <2>5. QED
    BY <1>2, <2>2, <2>4 DEF IInv, TypeInv
<1>5. SpawnedInOrder' /\ AnsweredHasActed'
  BY <1>2 DEF IInv, HandlersInv, SpawnedInOrder, AnsweredHasActed
<1>6. InFlightIsOwn' /\ ResultIsOwn'
  BY <1>1, <1>2, <1>3 DEF IInv, TypeInv, HandlersInv, InFlightIsOwn, ResultIsOwn
<1>7. RunningIsInFlight'
  <2> SUFFICES ASSUME NEW i \in Threads, thread[i].state \in Running, Effectful(thread[i].call)
               PROVE  inFlight'[thread[i].call] = i
    BY <1>2 DEF RunningIsInFlight
  <2>1. inFlight[thread[i].call] = i
    BY DEF IInv, HandlersInv, RunningIsInFlight
  <2>2. thread[i].call # c
    BY <1>1, <2>1 DEF Running
  <2>3. QED
    BY <1>2, <2>1, <2>2 DEF IInv, TypeInv
<1>8. WaitsOnItsCall'
  BY <1>2 DEF WaitsOnItsCall
<1>9. AnswerIsOwn'
  <2> SUFFICES ASSUME NEW b \in Callers, answer'[b].ok # 0
               PROVE  /\ answer'[b].ok \in 1..spawned
                      /\ thread[answer'[b].ok].call = call[b]
                      /\ thread[answer'[b].ok].state = "valid"
                      /\ Effectful(call[b]) => results'[call[b]] = answer'[b].ok
    BY <1>2 DEF AnswerIsOwn
  <2>1. CASE b = holder
    BY <2>1, <1>1, <1>3 DEF IInv, TypeInv, c
  <2>2. CASE b # holder
    <3>1. answer'[b] = answer[b]
      BY <2>2, <1>1, <1>3 DEF IInv, TypeInv
    <3>2. /\ answer[b].ok \in 1..spawned /\ thread[answer[b].ok].call = call[b]
          /\ thread[answer[b].ok].state = "valid"
          /\ Effectful(call[b]) => results[call[b]] = answer[b].ok
      BY <3>1 DEF IInv, AnswerIsOwn
    <3>3. Effectful(call[b]) => results'[call[b]] = results[call[b]]
      BY <3>1, <3>2, <1>1, <1>3 DEF IInv, TypeInv
    <3>4. QED
      BY <3>1, <3>2, <3>3
  <2>3. QED
    BY <2>1, <2>2
<1>10. ActsOnce'
  BY <1>2 DEF IInv, ActsOnce, MayHaveActed
<1>11. QED
  BY <1>4, <1>5, <1>6, <1>7, <1>8, <1>9, <1>10 DEF IInv, HandlersInv

\* A timeout leaves the receiver where a retry finds it.
LEMMA TimeoutIInv ==
    ASSUME IInv, Timeout
    PROVE  IInv'
<1> USE DEF IInv, Timeout, Return, Answer
<1>1. TypeInv'
  <2>1. [ok |-> 0, kind |-> "HandlerFailed"]
           \in [ok : 0..MaxThreads, kind : ErrorKind \union {"none"}]
    BY BridgeAssumption DEF ErrorKind
  <2>2. QED
    BY <2>1 DEF TypeInv
<1>2. HandlersInv'
  BY DEF HandlersInv, SpawnedInOrder, InFlightIsOwn, RunningIsInFlight, ResultIsOwn,
         AnsweredHasActed
<1>3. WaitsOnItsCall'
  BY DEF WaitsOnItsCall
<1>4. AnswerIsOwn'
  BY DEF AnswerIsOwn, TypeInv
<1>5. ActsOnce'
  BY DEF ActsOnce, MayHaveActed
<1>6. QED
  BY <1>1, <1>2, <1>3, <1>4, <1>5

\* A handler acts: it had only started, so the bound of its call has room.
LEMMA ActIInv ==
    ASSUME IInv, NEW i \in Threads, Act(i)
    PROVE  IInv'
<1> DEFINE c == thread[i].call
<1>1. /\ c \in Calls /\ thread[i].state = "started" /\ i \in 1..spawned
      /\ thread' = [thread EXCEPT ![i].state = "acted"]
      /\ effects' = [effects EXCEPT ![c] = @ + 1]
      /\ UNCHANGED <<now, grants, holder, call, waiting, spawned, inFlight, results, answer>>
  BY DEF Act, HandlerVars, IInv, TypeInv, HandlersInv, SpawnedInOrder, Threads
<1>2. \A j \in Threads : /\ thread'[j].call = thread[j].call
                         /\ j # i => thread'[j].state = thread[j].state
  BY <1>1 DEF IInv, TypeInv
<1>3. thread'[i].state = "acted" /\ i <= spawned /\ i \in Threads
  BY <1>1 DEF IInv, TypeInv
<1> HIDE DEF c
<1>4. TypeInv'
  <2>1. thread' \in [Threads -> [call : Calls, state : Running \union Outcome \union {"none"}]]
    BY <1>1 DEF IInv, TypeInv, Running
  <2>2. effects' \in [Calls -> Nat]
    BY <1>1 DEF IInv, TypeInv
  <2>3. QED
    BY <1>1, <2>1, <2>2 DEF IInv, TypeInv
<1>5. SpawnedInOrder' /\ InFlightIsOwn' /\ RunningIsInFlight' /\ ResultIsOwn'
  <2>1. \A b \in Calls : inFlight[b] # 0 => inFlight[b] \in Threads
    BY PointsAtThreads DEF IInv
  <2>2. \A b \in Calls : results[b] # 0 => results[b] \in Threads /\ results[b] # i
    BY <1>1, PointsAtThreads DEF IInv, HandlersInv, ResultIsOwn
  <2>3. SpawnedInOrder'
    BY <1>1, <1>2, <1>3 DEF IInv, HandlersInv, SpawnedInOrder
  <2>4. InFlightIsOwn' /\ ResultIsOwn'
    BY <1>1, <1>2, <2>1, <2>2 DEF IInv, HandlersInv, InFlightIsOwn, ResultIsOwn
  <2>5. RunningIsInFlight'
    BY <1>1, <1>2 DEF IInv, HandlersInv, RunningIsInFlight, Running
  <2>6. QED
    BY <2>3, <2>4, <2>5
<1>6. AnsweredHasActed'
  <2>1. \A b \in Calls : effects'[b] >= effects[b] /\ {effects[b], effects'[b]} \subseteq Nat
    BY <1>1 DEF IInv, TypeInv
  <2>2. effects'[c] > 0
    BY <1>1 DEF IInv, TypeInv
  <2>3. \A j \in Threads : thread[j].call \in Calls
    BY DEF IInv, TypeInv
  <2>4. QED
    <3> SUFFICES ASSUME NEW j \in Threads, thread'[j].state \in {"acted", "valid", "invalid"}
                 PROVE  effects'[thread'[j].call] > 0
      BY DEF AnsweredHasActed
    <3>1. CASE j = i
      BY <3>1, <2>2, <1>2 DEF c
    <3>2. CASE j # i
      <4>1. effects[thread[j].call] > 0
        BY <3>2, <1>2 DEF IInv, HandlersInv, AnsweredHasActed
      <4>2. effects'[thread[j].call] > 0
        BY <4>1, <2>1, <2>3
      <4>3. QED
        BY <4>2, <1>2
    <3>3. QED
      BY <3>1, <3>2
<1>7. WaitsOnItsCall' /\ AnswerIsOwn'
  <2>1. spawned <= MaxThreads /\ spawned \in Nat /\ MaxThreads \in Nat
    BY BridgeAssumption DEF IInv, TypeInv
  <2>2. WaitsOnItsCall'
    BY <1>1, <1>2, <2>1 DEF IInv, WaitsOnItsCall, Threads
  <2>3. \A a \in Callers : answer[a].ok # 0 => answer[a].ok \in Threads /\ answer[a].ok # i
    BY <1>1, <2>1 DEF IInv, AnswerIsOwn, Threads
  <2>4. AnswerIsOwn'
    BY <1>1, <1>2, <2>3 DEF IInv, AnswerIsOwn
  <2>5. QED
    BY <2>2, <2>4
<1>8. ActsOnce'
  <2> SUFFICES ASSUME NEW b \in Calls
               PROVE  effects'[b] <= Cardinality(MayHaveActed(b)')
    BY DEF ActsOnce
  <2>1. 1..spawned \subseteq Threads
    BY BridgeAssumption DEF IInv, TypeInv, Threads
  <2>2. effects[b] <= Cardinality(MayHaveActed(b)) /\ effects[b] \in Nat
        /\ IsFiniteSet(MayHaveActed(b)) /\ Cardinality(MayHaveActed(b)) \in Nat
    BY MayHaveActedFinite DEF IInv, ActsOnce, TypeInv
  <2>3. CASE b = c
    <3>1. MayHaveActed(b)' = MayHaveActed(b) \union {i} /\ i \notin MayHaveActed(b)
      BY <2>1, <2>3, <1>1, <1>2, <1>3 DEF MayHaveActed, c
    <3>2. Cardinality(MayHaveActed(b)') = Cardinality(MayHaveActed(b)) + 1
      BY <3>1, <2>2, FS_AddElement
    <3>3. QED
      BY <3>2, <2>2, <2>3, <1>1 DEF IInv, TypeInv
  <2>4. CASE b # c
    <3>1. MayHaveActed(b)' = MayHaveActed(b)
      BY <2>1, <2>4, <1>1, <1>2, <1>3 DEF MayHaveActed, c
    <3>2. effects'[b] = effects[b]
      BY <2>4, <1>1 DEF IInv, TypeInv
    <3>3. QED
      BY <3>1, <3>2, <2>2
  <2>5. QED
    BY <2>3, <2>4
<1>9. QED
  BY <1>4, <1>5, <1>6, <1>7, <1>8 DEF IInv, HandlersInv

\* A handler ends; its receiver stays in flight until somebody receives.
LEMMA EndIInv ==
    ASSUME IInv, NEW i \in Threads, NEW outcome \in Outcome, End(i, outcome)
    PROVE  IInv'
<1>1. /\ thread[i].state \in Running /\ i \in 1..spawned
      /\ outcome \in {"valid", "invalid"} => thread[i].state = "acted"
      /\ thread' = [thread EXCEPT ![i].state = outcome]
      /\ UNCHANGED <<now, grants, holder, call, waiting, spawned, inFlight, results, answer,
                     effects>>
  BY DEF End, HandlerVars, IInv, TypeInv, HandlersInv, SpawnedInOrder, Threads, Running
<1>2. \A j \in Threads : /\ thread'[j].call = thread[j].call
                         /\ j # i => thread'[j].state = thread[j].state
  BY <1>1 DEF IInv, TypeInv
<1>3. thread'[i].state = outcome /\ outcome # "none" /\ outcome \notin Running /\ outcome # "acted"
  BY <1>1 DEF IInv, TypeInv, Outcome, Running
<1>4. TypeInv'
  <2>1. thread' \in [Threads -> [call : Calls, state : Running \union Outcome \union {"none"}]]
    BY <1>1 DEF IInv, TypeInv
  <2>2. QED
    BY <1>1, <2>1 DEF IInv, TypeInv
<1>5. SpawnedInOrder' /\ InFlightIsOwn' /\ RunningIsInFlight' /\ ResultIsOwn'
  <2>1. \A b \in Calls : inFlight[b] # 0 => inFlight[b] \in Threads
    BY PointsAtThreads DEF IInv
  <2>2. \A b \in Calls : results[b] # 0 => results[b] \in Threads /\ results[b] # i
    BY <1>1, PointsAtThreads DEF IInv, HandlersInv, ResultIsOwn, Running
  <2>3. SpawnedInOrder'
    BY <1>1, <1>2, <1>3 DEF IInv, HandlersInv, SpawnedInOrder, Running
  <2>4. InFlightIsOwn' /\ ResultIsOwn'
    BY <1>1, <1>2, <2>1, <2>2 DEF IInv, HandlersInv, InFlightIsOwn, ResultIsOwn
  <2>5. RunningIsInFlight'
    BY <1>1, <1>2, <1>3 DEF IInv, HandlersInv, RunningIsInFlight
  <2>6. QED
    BY <2>3, <2>4, <2>5
<1>6. AnsweredHasActed'
  BY <1>1, <1>2, <1>3 DEF IInv, HandlersInv, AnsweredHasActed
<1>7. WaitsOnItsCall' /\ AnswerIsOwn'
  <2>1. spawned <= MaxThreads /\ spawned \in Nat /\ MaxThreads \in Nat
    BY BridgeAssumption DEF IInv, TypeInv
  <2>2. WaitsOnItsCall'
    BY <1>1, <1>2, <2>1 DEF IInv, WaitsOnItsCall, Threads
  <2>3. \A a \in Callers : answer[a].ok # 0 => answer[a].ok \in Threads /\ answer[a].ok # i
    BY <1>1, <2>1 DEF IInv, AnswerIsOwn, Threads, Running
  <2>4. AnswerIsOwn'
    BY <1>1, <1>2, <2>3 DEF IInv, AnswerIsOwn
  <2>5. QED
    BY <2>2, <2>4
<1>8. ActsOnce'
  <2>1. 1..spawned \subseteq Threads
    BY BridgeAssumption DEF IInv, TypeInv, Threads
  <2>2. \A b \in Calls : MayHaveActed(b) \subseteq MayHaveActed(b)'
    BY <2>1, <1>1, <1>2, <1>3 DEF MayHaveActed, Running
  <2>3. QED
    BY <2>2, <1>1, <1>4, ActsOnceKept DEF IInv
<1>9. QED
  BY <1>4, <1>5, <1>6, <1>7, <1>8 DEF IInv, HandlersInv

\* Grants and time are read, never written, by what the invariant speaks of.
LEMMA HostIInv ==
    ASSUME IInv,
           UNCHANGED <<holder, call, waiting, thread, spawned, inFlight, results, effects,
                       answer>>,
           now' \in Time,
           grants' \in [GrantKeys -> Grants \union {NoGrant}]
    PROVE  IInv'
<1>1. TypeInv'
  BY DEF IInv, TypeInv
<1>2. HandlersInv' /\ WaitsOnItsCall' /\ AnswerIsOwn' /\ ActsOnce'
  BY DEF IInv, HandlersInv, SpawnedInOrder, InFlightIsOwn, RunningIsInFlight, ResultIsOwn,
         AnsweredHasActed, WaitsOnItsCall, AnswerIsOwn, ActsOnce, MayHaveActed
<1>3. QED
  BY <1>1, <1>2 DEF IInv

LEMMA NextIInv == IInv /\ [Next]_vars => IInv'
<1> SUFFICES ASSUME IInv, [Next]_vars PROVE IInv'
  OBVIOUS
<1>1. ASSUME NEW a \in Callers, NEW c \in Calls, Refuse(a, c) PROVE IInv'
  BY <1>1, ImmediateIInv, RefusalType, BridgeAssumption DEF Refuse
<1>2. ASSUME NEW a \in Callers, NEW c \in Calls, AnswerFromCache(a, c) PROVE IInv'
  <2>1. results[c] \in 0..MaxThreads
    BY BridgeAssumption DEF IInv, TypeInv
  <2>2. QED
    BY <1>2, <2>1, ImmediateIInv DEF AnswerFromCache
<1>3. ASSUME NEW a \in Callers, NEW c \in Calls, StartEffect(a, c) PROVE IInv'
  BY <1>3, SpawnIInv DEF StartEffect
<1>4. ASSUME NEW a \in Callers, NEW c \in Calls, JoinEffect(a, c) PROVE IInv'
  BY <1>4, JoinEffectIInv
<1>5. ASSUME NEW a \in Callers, NEW c \in Calls, StartRead(a, c) PROVE IInv'
  BY <1>5, SpawnIInv DEF StartRead
<1>6. ASSUME NEW a \in Callers, NEW c \in Calls, SpawnFails(a, c) PROVE IInv'
  BY <1>6, ImmediateIInv, BridgeAssumption DEF SpawnFails, ErrorKind
<1>7. ASSUME Receive PROVE IInv'
  BY <1>7, ReceiveIInv
<1>8. ASSUME Timeout PROVE IInv'
  BY <1>8, TimeoutIInv
<1>9. ASSUME NEW i \in Threads, Act(i) PROVE IInv'
  BY <1>9, ActIInv
<1>10. ASSUME NEW i \in Threads, NEW outcome \in Outcome, End(i, outcome) PROVE IInv'
  BY <1>10, EndIInv
<1>11. ASSUME NEW c \in Grantable, NEW expires \in Expiries, Grant(c, expires) PROVE IInv'
  <2>1. c \in Calls
    BY BridgeAssumption
  <2>2. [args |-> c.args, expires |-> expires] \in Grants /\ <<c.tool, c.id, c.actor>> \in GrantKeys
    BY <2>1 DEF Grants, GrantKeys
  <2>3. grants' \in [GrantKeys -> Grants \union {NoGrant}] /\ now' \in Time
    BY <1>11, <2>2 DEF Grant, IInv, TypeInv
  <2>4. QED
    BY <1>11, <2>3, HostIInv DEF Grant
<1>12. ASSUME Tick PROVE IInv'
  <2>1. now' \in Time /\ grants' \in [GrantKeys -> Grants \union {NoGrant}]
    BY <1>12, BridgeAssumption DEF Tick, Time, IInv, TypeInv
  <2>2. QED
    BY <1>12, <2>1, HostIInv DEF Tick
<1>13. ASSUME UNCHANGED vars PROVE IInv'
  <2>1. now' \in Time /\ grants' \in [GrantKeys -> Grants \union {NoGrant}]
    BY <1>13 DEF vars, IInv, TypeInv
  <2>2. QED
    BY <1>13, <2>1, HostIInv DEF vars
<1>14. QED
  BY <1>1, <1>2, <1>3, <1>4, <1>5, <1>6, <1>7, <1>8, <1>9, <1>10, <1>11, <1>12, <1>13 DEF Next

\* The inductive invariant holds of every behaviour of the bridge.
THEOREM Invariance == Spec => []IInv
BY InitIInv, NextIInv, PTL DEF Spec

\* Type correctness, with no more effects of a call than handlers spawned.
THEOREM TypeCorrect == Spec => []TypeOK
<1>1. IInv => TypeOK
  <2> SUFFICES ASSUME IInv PROVE TypeOK
    OBVIOUS
  <2>1. \A c \in Calls : effects[c] \in 0..spawned
    BY MayHaveActedFinite DEF IInv, ActsOnce, TypeInv
  <2>2. effects \in [Calls -> 0..spawned]
    BY <2>1 DEF IInv, TypeInv
  <2>3. QED
    BY <2>2 DEF IInv, TypeInv, TypeOK
<1>2. QED
  BY Invariance, <1>1, PTL

\* One handler of an effectful call at a time, one envelope for its callers.
THEOREM OneHandlerPerKey == Spec => []OncePerKey
<1>1. IInv => OncePerKey
  <2> SUFFICES ASSUME IInv PROVE OncePerKey
    OBVIOUS
  <2>1. ASSUME NEW i \in Threads, NEW j \in Threads,
               thread[i].state \in Running, thread[j].state \in Running,
               thread[i].call = thread[j].call, Effectful(thread[i].call)
        PROVE  i = j
    BY <2>1 DEF IInv, HandlersInv, RunningIsInFlight
  <2>2. ASSUME NEW a \in Callers, answer[a].ok # 0
        PROVE  /\ thread[answer[a].ok].call = call[a]
               /\ Effectful(call[a]) => results[call[a]] = answer[a].ok /\ effects[call[a]] > 0
    <3>1. /\ answer[a].ok \in Threads /\ thread[answer[a].ok].state = "valid"
          /\ thread[answer[a].ok].call = call[a]
          /\ Effectful(call[a]) => results[call[a]] = answer[a].ok
      BY <2>2, BridgeAssumption DEF IInv, TypeInv, AnswerIsOwn, Threads
    <3>2. QED
      BY <3>1 DEF IInv, HandlersInv, AnsweredHasActed
  <2>3. QED
    BY <2>1, <2>2 DEF OncePerKey
<1>2. QED
  BY Invariance, <1>1, PTL

-----------------------------------------------------------------------------
(* Action properties.                                                       *)

\* No effectful call begins, or is answered from the cache, unapproved.
THEOREM NeverServedUnapproved == Spec => AnswersAreApproved
<1> DEFINE Served(a) == /\ holder = NoCaller
                        /\ holder' = a \/ (answer'[a] # answer[a] /\ answer'[a].ok # 0)
                        /\ Effectful(call'[a])
           A == \A a \in Callers : Served(a) => Approved(call'[a])
<1>1. IInv /\ [Next]_vars => [A]_vars
  <2> SUFFICES ASSUME IInv, Next, NEW a \in Callers, Served(a)
               PROVE  Approved(call'[a])
    OBVIOUS
  <2>1. holder # a
    BY BridgeAssumption
  <2>2. PICK b \in Callers, c \in Calls :
            \/ Refuse(b, c) \/ AnswerFromCache(b, c) \/ StartEffect(b, c)
            \/ JoinEffect(b, c) \/ StartRead(b, c) \/ SpawnFails(b, c)
    <3>1. holder' = holder => answer' # answer
      BY <2>1
    <3>2. ~Receive /\ ~Timeout /\ ~Tick
      BY <3>1 DEF Receive, Timeout, Tick
    <3>3. \A i \in Threads : ~Act(i) /\ \A outcome \in Outcome : ~End(i, outcome)
      BY <3>1 DEF Act, End, HandlerVars
    <3>4. \A c \in Grantable, expires \in Expiries : ~Grant(c, expires)
      BY <3>1 DEF Grant
    <3>5. QED
      BY <3>2, <3>3, <3>4 DEF Next
  <2>3. ASSUME Refusal(c) = "none", Effectful(c), call' = [call EXCEPT ![b] = c], a = b
        PROVE  Approved(call'[a])
    BY <2>3, GoesOnApproved DEF IInv, TypeInv
  <2>4. call' = [call EXCEPT ![b] = c]
    BY <2>2 DEF Refuse, AnswerFromCache, StartEffect, JoinEffect, StartRead, SpawnFails,
        Immediate, Wait
  <2>5. a = b
    BY <2>1, <2>2, BridgeAssumption DEF Refuse, AnswerFromCache, StartEffect, JoinEffect,
        StartRead, SpawnFails, Immediate, Return, Answer, Wait, IInv, TypeInv
  <2>6. Effectful(c)
    BY <2>4, <2>5 DEF IInv, TypeInv
  <2>7. Refusal(c) = "none"
    BY <2>1, <2>2, <2>5, BridgeAssumption DEF Refuse, AnswerFromCache, StartEffect, JoinEffect,
        StartRead, SpawnFails, Immediate, Return, Answer, IInv, TypeInv
  <2>8. QED
    BY <2>3, <2>4, <2>5, <2>6, <2>7
<1>2. QED
  BY <1>1, Invariance, PTL DEF Spec, AnswersAreApproved

\* Once the accepted envelope of an effectful call is kept, the call is over:
\* no retry, late handler or stale receiver acts for it again or replaces the
\* envelope (results and in_flight of ToolBridge::invoke).
DoneIsDone ==
    [][\A c \in Calls : Effectful(c) /\ results[c] # 0 =>
          results'[c] = results[c] /\ effects'[c] = effects[c]]_vars

\* An answered effect is never performed again, and its answer never changes.
THEOREM EffectIsOver == Spec => DoneIsDone
<1> DEFINE A == \A c \in Calls : Effectful(c) /\ results[c] # 0 =>
                    results'[c] = results[c] /\ effects'[c] = effects[c]
<1>1. IInv /\ [Next]_vars => [A]_vars
  <2> SUFFICES ASSUME IInv, Next, NEW c \in Calls, Effectful(c), results[c] # 0
               PROVE  results'[c] = results[c] /\ effects'[c] = effects[c]
    OBVIOUS
  <2>1. inFlight[c] = 0
    BY DEF IInv, HandlersInv, InFlightIsOwn
  <2>2. CASE Receive
    <3>1. holder # NoCaller /\ holder \in Callers /\ waiting \in 1..spawned /\ spawned \in Nat
      BY <2>2, BridgeAssumption DEF Receive, IInv, TypeInv, WaitsOnItsCall
    <3>2. call[holder] # c
      BY <2>1, <3>1 DEF IInv, WaitsOnItsCall
    <3>3. QED
      BY <2>2, <3>1, <3>2 DEF Receive, IInv, TypeInv
  <2>3. ASSUME NEW i \in Threads, Act(i) PROVE results'[c] = results[c] /\ effects'[c] = effects[c]
    <3>1. thread[i].state \in Running
      BY <2>3 DEF Act, Running
    <3>2. thread[i].call # c
      BY <2>1, <3>1 DEF IInv, HandlersInv, RunningIsInFlight, Threads
    <3>3. QED
      BY <2>3, <3>2 DEF Act, HandlerVars, IInv, TypeInv
  <2>4. ASSUME ~Receive, \A i \in Threads : ~Act(i) PROVE UNCHANGED <<results, effects>>
    <3>1. ASSUME NEW a \in Callers, NEW d \in Calls,
                 \/ Refuse(a, d) \/ AnswerFromCache(a, d) \/ StartEffect(a, d)
                 \/ JoinEffect(a, d) \/ StartRead(a, d) \/ SpawnFails(a, d)
          PROVE  UNCHANGED <<results, effects>>
      BY <3>1 DEF Refuse, AnswerFromCache, StartEffect, JoinEffect, StartRead, SpawnFails,
          Immediate, Wait, Spawn
    <3>2. ASSUME Timeout \/ Tick \/ \E i \in Threads, outcome \in Outcome : End(i, outcome)
          PROVE  UNCHANGED <<results, effects>>
      BY <3>2 DEF Timeout, End, HandlerVars, Tick
    <3>3. ASSUME NEW d \in Grantable, NEW expires \in Expiries, Grant(d, expires)
          PROVE  UNCHANGED <<results, effects>>
      BY <3>3 DEF Grant
    <3>4. QED
      BY <2>4, <3>1, <3>2, <3>3 DEF Next
  <2>5. QED
    BY <2>2, <2>3, <2>4
<1>2. QED
  BY <1>1, Invariance, PTL DEF Spec, DoneIsDone

(***************************************************************************)
(* WorkflowGraph.                                                          *)
(***************************************************************************)

(* The inductive invariant.                                                  *)

Executing == {"running", "unsaved"}
BeforeRun == {"submitted", "compiled", "rejected", "translated"}
Translated == {"translated"} \cup Executing \cup Ended

GraphTypes ==
    /\ ir \in Workflows /\ phase \in BeforeRun \cup Executing \cup Ended
    /\ visits \in [ir.nodes -> Nat] /\ executed \in [ir.nodes -> Nat] /\ resumes \in Nat
    /\ ckpt # None => ckpt.visits \in [ir.nodes -> Nat]

\* Nothing has run before the first invocation.
NothingYet ==
    phase \in BeforeRun =>
        /\ visits = Zero(ir.nodes) /\ executed = Zero(ir.nodes) /\ resumes = 0 /\ ckpt = None

\* Only a graph with a checkpointer waits for a save and has a checkpoint.
SavedByCheckpointer == phase = "unsaved" \/ ckpt # None => adk.checkpointed

\* A node whose visits are bounded and counted.
Limited(n) == ir.kind[n] # "agent" /\ ir.firewall[n] = None /\ ir.max_visits[n] # None

\* While an invocation executes, its count is behind the runs of the node by at most one
\* per resume.  The checkpoint is behind by one more: the super-step that is not saved.
VisitsAccount(n) ==
    /\ visits[n] <= ir.max_visits[n]
    /\ executed[n] <= ir.max_visits[n] + resumes
    /\ phase \in Executing => executed[n] <= visits[n] + resumes
    /\ ckpt # None =>
          /\ ckpt.visits[n] <= ir.max_visits[n]
          /\ executed[n] <= ckpt.visits[n] + 1 + resumes
          /\ phase = "running" => visits[n] <= ckpt.visits[n]
          /\ phase = "unsaved" => visits[n] <= ckpt.visits[n] + 1

VisitsAccounted == \A n \in ir.nodes : Limited(n) => VisitsAccount(n)

\* The gate is the entry, and nothing leads to it.
GateIsApart(g) ==
    /\ Gates(g) = {g.entry}
    /\ StartId \notin g.nodes
    /\ \A e \in g.edges : e[1] \in g.nodes /\ e[2] # g.entry
    /\ \A r \in g.routes : g.entry \notin Targets(r)

\* A gated graph that executes came through the compiler, has its gate apart, and is not
\* checkpointed.
GatePlaced ==
    /\ phase = "compiled" => ValidatedIr(ir) = "ok"
    /\ phase \in Translated /\ Gates(ir) # {} =>
          GateIsApart(ir) /\ ir.entry \notin adk.guards /\ ~adk.checkpointed

\* Before the gate has allowed the invocation, the gate is all that is to run; after it,
\* the gate is not to run again.
GateFirst ==
    phase \in Executing /\ Gates(ir) # {} =>
        /\ ~allowed => /\ frontier \in {{Task("admit", ir.entry)}, {Task("node", ir.entry)}}
                       /\ \A n \in ir.nodes : executed[n] = 0
        /\ allowed => \A t \in frontier : t.id = ir.entry => t.at = "unknown"

GraphIInv ==
    /\ GraphTypes /\ NothingYet /\ SavedByCheckpointer /\ VisitsAccounted
    /\ GatePlaced /\ GateFirst /\ GateBeforeWork

-----------------------------------------------------------------------------
(* Lemmas about the checks of the compiler.                                  *)

LEMMA MinIsMember ==
    ASSUME NEW S, S \subseteq Nat, S # {}
    PROVE  Min(S) \in S
<1>1. \E k \in S : \A j \in S : ~(j < k)
  <2>1. IsWellFoundedOn(OpToRel(<, Nat), Nat)
    BY NatLessThanWellFounded
  <2>2. \E k \in S : \A j \in S : ~(<<j, k>> \in OpToRel(<, Nat))
    BY <2>1, WFMin
  <2>3. QED
    BY <2>2 DEF OpToRel
<1>2. \E k \in S : \A j \in S : k <= j
  BY <1>1
<1>3. QED
  BY <1>2 DEF Min

\* The answers of the binding and structure checks are not mistaken for "ok".
LEMMA ValidIr ==
    ASSUME NEW g \in Workflows, ValidatedIr(g) = "ok"
    PROVE  /\ \A n \in g.nodes : NodeBindingError(g, n) = None
           /\ ValidateGraph(g) = "ok"
<1> DEFINE faulty == {n \in g.nodes : NodeBindingError(g, n) # None}
<1>1. BindingError(g) = None /\ ValidateGraph(g) = "ok"
  <2>1. BindingError(g) # "ok"
    <3>1. \A n : NodeBindingError(g, n) # "ok" \/ NodeBindingError(g, n) = None
      BY DEF NodeBindingError
    <3>2. CASE faulty = {}
      <4>1. BindingError(g) = None
        BY <3>2 DEF BindingError
      <4>2. QED
        BY <4>1, NoneAssumption
    <3>3. CASE faulty # {}
      <4>1. BindingError(g) = NodeBindingError(g, Min(faulty))
        BY <3>3 DEF BindingError
      <4>2. Min(faulty) \in faulty
        BY <3>3, GraphAssumption, MinIsMember
      <4>3. QED
        BY <3>1, <4>1, <4>2
    <3>4. QED
      BY <3>2, <3>3
  <2>2. QED
    BY <2>1 DEF ValidatedIr
<1>2. faulty = {}
  <2> SUFFICES ASSUME faulty # {} PROVE FALSE
    OBVIOUS
  <2>1. BindingError(g) = NodeBindingError(g, Min(faulty))
    BY DEF BindingError
  <2>2. Min(faulty) \in faulty
    BY GraphAssumption, MinIsMember
  <2>3. QED
    BY <1>1, <2>1, <2>2
<1>3. QED
  BY <1>1, <1>2

\* What validate_graph rules out before it searches the graph.
LEMMA ValidGraph ==
    ASSUME NEW g, ValidateGraph(g) = "ok"
    PROVE  /\ StartId \notin g.nodes
           /\ \A e \in g.edges : e[1] \in g.nodes /\ e[2] \in g.nodes
<1>1. ~InvalidIdentifier(g)
  <2> SUFFICES ASSUME InvalidIdentifier(g) PROVE ValidateGraph(g) = "InvalidIdentifier"
    OBVIOUS
  <2>1. QED
    BY DEF ValidateGraph
<1>2. StartId \notin g.nodes
  BY <1>1 DEF InvalidIdentifier
<1>3. ~(\E e \in g.edges : ~HasNode(g, e[1]) \/ ~HasNode(g, e[2]))
  <2> SUFFICES ASSUME \E e \in g.edges : ~HasNode(g, e[1]) \/ ~HasNode(g, e[2])
               PROVE  ValidateGraph(g) # "ok"
    OBVIOUS
  <2>1. DanglingError(g) \in {"DanglingEdge", "DanglingRoute"}
    BY DEF DanglingError
  <2>2. RouteStructureError(g) # "ok" \/ RouteStructureError(g) = None
    BY DEF RouteStructureError
  <2>3. QED
    BY <2>1, <2>2, NoneAssumption DEF ValidateGraph
<1>4. QED
  BY <1>2, <1>3 DEF HasNode

\* The compiler accepts a gate only as an entry that nothing leads to.
LEMMA ValidGate ==
    ASSUME NEW g \in Workflows, ValidatedIr(g) = "ok", Gates(g) # {}
    PROVE  GateIsApart(g)
<1>1. ASSUME NEW n \in Gates(g) PROVE ~InvalidGate(g, n)
  <2>1. n \in g.nodes /\ g.firewall[n] # None
    BY DEF Gates
  <2>2. NodeBindingError(g, n) = None
    BY <2>1, ValidIr
  <2>3. QED
    BY <2>1, <2>2, NoneAssumption DEF NodeBindingError
<1>2. Gates(g) = {g.entry} /\ ~InvalidGate(g, g.entry)
  BY <1>1 DEF InvalidGate
<1>3. QED
  BY <1>2, ValidIr, ValidGraph DEF GateIsApart, InvalidGate

\* Both compilers and the graph builder answer "ok" only for a valid IR.
LEMMA CompiledIsValid ==
    ASSUME NEW g, \/ CompileWithoutPredicates(g) = "ok"
                  \/ CompileWithPredicates(g) = "ok"
                  \/ GraphBuild(g) = "ok"
    PROVE  ValidatedIr(g) = "ok"
<1>1. CASE CompileWithoutPredicates(g) = "ok" \/ CompileWithPredicates(g) = "ok"
  BY <1>1 DEF CompileWithoutPredicates, CompileWithPredicates
<1>2. CASE GraphBuild(g) = "ok"
  <2> DEFINE faulty == {b \in {r.predicate : r \in g.routes} \cup g.extra : CheckIdentity(g, b) # "ok"}
             pick == CHOOSE b \in faulty : TRUE
  <2>1. faulty # {} => CheckIdentity(g, pick) # "ok"
    <3>1. faulty # {} => pick \in faulty
      OBVIOUS
    <3>2. QED
      BY <3>1
  <2>2. \/ ValidatedIr(g) = "ok"
        \/ faulty # {} /\ CheckIdentity(g, pick) = "ok"
    BY <1>2 DEF GraphBuild
  <2>3. QED
    BY <2>1, <2>2
<1>3. QED
  BY <1>1, <1>2

\* Nothing leads to the gate, so it has no fan-in guard.
LEMMA GateHasNoGuard ==
    ASSUME NEW g, GateIsApart(g)
    PROVE  g.entry \notin FanIn(g)
<1>1. \A n \in g.nodes : g.entry \notin Adjacency(g)[n]
  BY DEF GateIsApart, Adjacency
<1>2. Predecessors(g, g.entry) = {}
  BY <1>1 DEF Predecessors
<1>3. FanInSources(g, g.entry) = {}
  BY <1>2 DEF FanInSources
<1>4. \A w : {s \in FanInSources(g, g.entry) : CanReachBeforeTarget(g, w, s, g.entry)} = {}
  BY <1>3
<1>5. Cardinality({}) = 0
  BY FS_EmptySet
<1>6. QED
  BY <1>4, <1>5 DEF FanIn

-----------------------------------------------------------------------------
(* Lemmas about a super-step.                                                *)

\* What a super-step adds to the runs of a node.
LEMMA RanFacts ==
    ASSUME GraphTypes
    PROVE  /\ Ran \in [ir.nodes -> Nat]
           /\ \A n \in ir.nodes : n \in NodeTasks /\ ~VisitExceeded(n) => Ran[n] = executed[n] + 1
           /\ \A n \in ir.nodes : ~(n \in NodeTasks /\ ~VisitExceeded(n)) => Ran[n] = executed[n]
BY DEF Ran, GraphTypes

\* A limited node that runs had a visit left.
LEMMA RanWithinLimit ==
    ASSUME GraphIInv, phase = "running", NEW n \in ir.nodes, Limited(n)
    PROVE  /\ Ran[n] <= ir.max_visits[n] + resumes
           /\ Ran[n] <= visits[n] + 1 + resumes
           /\ n \in NodeTasks /\ ~VisitExceeded(n) => visits[n] + 1 <= ir.max_visits[n]
           /\ n \in NodeTasks <=> n \in Counted
<1>1. VisitsAccount(n)
  BY DEF GraphIInv, VisitsAccounted
<1>2. /\ ir.max_visits[n] \in Nat /\ visits[n] \in Nat /\ executed[n] \in Nat /\ resumes \in Nat
  BY GraphAssumption DEF GraphIInv, GraphTypes, Limited
<1>3. executed[n] <= visits[n] + resumes /\ executed[n] <= ir.max_visits[n] + resumes
  BY <1>1 DEF VisitsAccount, Executing
<1>4. n \in NodeTasks <=> n \in Counted
  BY DEF Counted, Limited
<1>5. n \in NodeTasks /\ ~VisitExceeded(n) => visits[n] + 1 <= ir.max_visits[n]
  BY <1>2, <1>4 DEF VisitExceeded, Limited
<1>6. CASE n \in NodeTasks /\ ~VisitExceeded(n)
  <2>1. Ran[n] = executed[n] + 1
    BY <1>6, RanFacts DEF GraphIInv
  <2>2. QED
    BY <1>2, <1>3, <1>4, <1>5, <1>6, <2>1
<1>7. CASE ~(n \in NodeTasks /\ ~VisitExceeded(n))
  <2>1. Ran[n] = executed[n]
    BY <1>7, RanFacts DEF GraphIInv
  <2>2. QED
    BY <1>2, <1>3, <1>4, <1>5, <2>1
<1>8. QED
  BY <1>6, <1>7

\* Which nodes of a gated graph run in this super-step.
LEMMA GateTasks ==
    ASSUME GraphIInv, phase \in Executing, Gates(ir) # {}
    PROVE  /\ Gates(ir) = {ir.entry}
           /\ ~allowed => NodeTasks \subseteq {ir.entry}
           /\ allowed => ir.entry \notin NodeTasks
<1>1. GateIsApart(ir)
  BY DEF GraphIInv, GatePlaced, Translated
<1>2. ASSUME ~allowed PROVE NodeTasks \subseteq {ir.entry}
  BY <1>2 DEF GraphIInv, GateFirst, NodeTasks, Task
<1>3. ASSUME allowed PROVE ir.entry \notin NodeTasks
  BY <1>3 DEF GraphIInv, GateFirst, NodeTasks
<1>4. QED
  BY <1>1, <1>2, <1>3 DEF GateIsApart

\* The gate's promise after a super-step that failed or succeeded.
LEMMA GateRan ==
    ASSUME GraphIInv, phase = "running", Gates(ir) # {}
    PROVE  /\ \A n \in ir.nodes \ Gates(ir) : Ran[n] > 0 => allowed
           /\ \A n \in Gates(ir) : Ran[n] <= 1
<1>1. /\ Gates(ir) = {ir.entry} /\ Gates(ir) \subseteq ir.nodes
      /\ ~allowed => NodeTasks \subseteq {ir.entry}
      /\ allowed => ir.entry \notin NodeTasks
  BY GateTasks DEF Executing, Gates
<1>2. executed \in [ir.nodes -> Nat] /\ GraphTypes
  BY DEF GraphIInv, GraphTypes
<1>3. ~allowed => \A n \in ir.nodes : executed[n] = 0
  BY DEF GraphIInv, GateFirst, Executing
<1>4. \A n \in Gates(ir) : executed[n] <= 1
  BY DEF GraphIInv, GateBeforeWork
<1>5. CASE allowed
  BY <1>1, <1>2, <1>4, <1>5, RanFacts
<1>6. CASE ~allowed
  BY <1>1, <1>2, <1>3, <1>6, RanFacts
<1>7. QED
  BY <1>5, <1>6

\* The next frontier comes from the tasks of this one, each with some selector.
LEMMA NextFrontier ==
    ASSUME SuperStep
    PROVE  \E sel : frontier' = UNION {NextTasks(t, sel[t]) : t \in frontier}
<1>1. PICK selects : frontier' =
            UNION {NextTasks(t, IF t.at = "node" /\ t.id \in Routed THEN selects[t.id]
                                ELSE OtherSelector) : t \in frontier}
  BY DEF SuperStep
<1> DEFINE sel == [t \in frontier |-> IF t.at = "node" /\ t.id \in Routed THEN selects[t.id]
                                      ELSE OtherSelector]
<1>2. {NextTasks(t, sel[t]) : t \in frontier} =
        {NextTasks(t, IF t.at = "node" /\ t.id \in Routed THEN selects[t.id]
                      ELSE OtherSelector) : t \in frontier}
  OBVIOUS
<1>3. frontier' = UNION {NextTasks(t, sel[t]) : t \in frontier}
  BY <1>1, <1>2
<1> HIDE DEF sel
<1>4. QED
  BY <1>3

\* Nothing but its own admission leads to the gate.
LEMMA OutTasks ==
    ASSUME GateIsApart(ir), NEW t, NEW s, NEW u \in NextTasks(t, s), u.id = ir.entry,
           t.id = ir.entry => t.at \notin {"guard", "admit"}
    PROVE  u.at = "unknown"
<1>1. \A x : RewriteTarget(x).id = x
  BY DEF RewriteTarget, Task
<1>2. CASE t.at \in {"guard", "admit"}
  <2>1. u.id = t.id
    BY <1>2 DEF NextTasks, Task
  <2>2. QED
    BY <1>2, <2>1
<1>3. CASE t.at \notin {"guard", "admit"}
  <2>1. \/ u \in {RewriteTarget(e[2]) : e \in {d \in ir.edges : d[1] = t.id}}
        \/ u \in {RouteTask(r, s) : r \in {q \in ir.routes : q.from = t.id}}
    BY <1>3 DEF NextTasks
  <2>2. CASE u \in {RewriteTarget(e[2]) : e \in {d \in ir.edges : d[1] = t.id}}
    <3>1. PICK e \in ir.edges : u = RewriteTarget(e[2])
      BY <2>2
    <3>2. u.id = e[2]
      BY <1>1, <3>1
    <3>3. QED
      BY <3>2 DEF GateIsApart
  <2>3. CASE u \in {RouteTask(r, s) : r \in {q \in ir.routes : q.from = t.id}}
    <3>1. PICK r \in ir.routes : u = RouteTask(r, s)
      BY <2>3
    <3>2. CASE s \in DOMAIN r.cases
      <4>1. u.id = r.cases[s] /\ r.cases[s] \in Targets(r)
        BY <1>1, <3>1, <3>2 DEF RouteTask, Targets
      <4>2. QED
        BY <4>1 DEF GateIsApart
    <3>3. CASE s \notin DOMAIN r.cases /\ r.default # None
      <4>1. u.id = r.default /\ r.default \in Targets(r)
        BY <1>1, <3>1, <3>3 DEF RouteTask, Targets
      <4>2. QED
        BY <4>1 DEF GateIsApart
    <3>4. CASE s \notin DOMAIN r.cases /\ r.default = None
      BY <3>1, <3>4 DEF RouteTask, Task
    <3>5. QED
      BY <3>2, <3>3, <3>4
  <2>4. QED
    BY <2>1, <2>2, <2>3
<1>4. QED
  BY <1>2, <1>3

\* The admission node leads to its node.
LEMMA AdmitTask ==
    ASSUME NEW e, NEW s
    PROVE  NextTasks(Task("admit", e), s) = {Task("node", e)}
BY DEF NextTasks, Task

-----------------------------------------------------------------------------
(* One lemma per action.                                                     *)

LEMMA GraphInitIInv == GraphInit => GraphIInv
<1> SUFFICES ASSUME GraphInit PROVE GraphIInv
  OBVIOUS
<1>1. /\ ir \in Workflows /\ phase = "submitted" /\ visits = Zero(ir.nodes) /\ executed = Zero(ir.nodes)
      /\ resumes = 0 /\ ckpt = None
  BY DEF GraphInit
<1>2. \A n \in ir.nodes : visits[n] = 0 /\ executed[n] = 0
  BY <1>1 DEF Zero
<1>3. GraphTypes /\ NothingYet /\ SavedByCheckpointer
  BY <1>1 DEF GraphTypes, NothingYet, SavedByCheckpointer, BeforeRun, Zero
<1>4. VisitsAccounted
  BY <1>1, <1>2, GraphAssumption DEF VisitsAccounted, VisitsAccount, Limited, Executing
<1>5. GatePlaced /\ GateFirst /\ GateBeforeWork
  BY <1>1, <1>2 DEF GatePlaced, GateFirst, GateBeforeWork, Translated, Executing, Ended, Gates
<1>6. QED
  BY <1>3, <1>4, <1>5 DEF GraphIInv

\* The compiler and the translator run nothing.
LEMMA PreparesIInv ==
    ASSUME GraphIInv, phase \in BeforeRun, phase' \in BeforeRun, GatePlaced',
           ir' = ir, visits' = visits, executed' = executed, resumes' = resumes, ckpt' = ckpt
    PROVE  GraphIInv'
<1>1. visits = Zero(ir.nodes) /\ executed = Zero(ir.nodes) /\ resumes = 0 /\ ckpt = None
  BY DEF GraphIInv, NothingYet
<1>2. \A n \in ir.nodes : visits[n] = 0 /\ executed[n] = 0
  BY <1>1 DEF Zero
<1>3. GraphTypes' /\ NothingYet' /\ SavedByCheckpointer' /\ phase' \notin Executing
  BY <1>1 DEF GraphIInv, GraphTypes, NothingYet, SavedByCheckpointer, BeforeRun, Executing
<1>4. VisitsAccounted'
  <2>1. \A n \in ir.nodes : Limited(n) => ir.max_visits[n] \in Nat
    BY GraphAssumption DEF GraphIInv, GraphTypes, Limited
  <2>2. QED
    BY <1>1, <1>2, <1>3, <2>1 DEF VisitsAccounted, VisitsAccount, Limited
<1>5. GateFirst' /\ GateBeforeWork'
  BY <1>2, <1>3 DEF GateFirst, GateBeforeWork, Gates
<1>6. QED
  BY <1>3, <1>4, <1>5 DEF GraphIInv

LEMMA CompileIInv == ASSUME GraphIInv, Compile PROVE GraphIInv'
<1>1. /\ phase = "submitted" /\ phase' \in {"compiled", "rejected"} /\ ir' = ir /\ visits' = visits
      /\ executed' = executed /\ resumes' = resumes /\ ckpt' = ckpt
      /\ phase' = "compiled" => verdict' = "ok"
      /\ verdict' \in {CompileWithoutPredicates(ir), CompileWithPredicates(ir), GraphBuild(ir)}
  BY DEF Compile, state
<1>2. phase' = "compiled" => ValidatedIr(ir) = "ok"
  BY <1>1, CompiledIsValid
<1>3. GatePlaced'
  BY <1>1, <1>2 DEF GatePlaced, Translated, Executing, Ended
<1>4. QED
  BY <1>1, <1>3, PreparesIInv DEF BeforeRun

LEMMA TranslateIInv == ASSUME GraphIInv, Translate \/ TranslateResolved PROVE GraphIInv'
<1>1. PICK host \in {ir.host, None}, durable \in BOOLEAN :
        /\ TranslateIr(ir, host, durable)
        /\ \/ phase = "compiled" /\ host = ir.host /\ (host # None => durable = FALSE)
           \/ phase = "submitted" /\ host = None
  BY DEF Translate, TranslateResolved
<1>2. /\ ir' = ir /\ visits' = visits /\ executed' = executed /\ resumes' = resumes /\ ckpt' = ckpt
  BY DEF Translate, TranslateResolved, state
<1>3. phase' \in {"translated", "rejected"} /\ (phase' = "translated" => verdict' = "ok")
  BY <1>1 DEF TranslateIr
<1>4. ASSUME phase' = "translated", Gates(ir) # {}
      PROVE  GateIsApart(ir) /\ ir.entry \notin adk'.guards /\ ~adk'.checkpointed
  <2>1. verdict' = "ok"
    BY <1>3, <1>4
  <2>2. ValidateBinding(ir, host)
    BY <1>1, <2>1 DEF TranslateIr
  <2>3. host = "match" /\ host # None
    BY <1>4, <2>2, NoneAssumption DEF ValidateBinding
  <2>4. phase = "compiled" /\ durable = FALSE
    BY <1>1, <2>3
  <2>5. GateIsApart(ir)
    BY <1>4, <2>4, ValidGate DEF GraphIInv, GatePlaced, GraphTypes
  <2>6. adk'.guards = FanIn(ir) /\ adk'.checkpointed = durable
    BY <1>1, <2>1 DEF TranslateIr
  <2>7. QED
    BY <2>4, <2>5, <2>6, GateHasNoGuard
<1>5. GatePlaced'
  BY <1>2, <1>3, <1>4 DEF GatePlaced, Translated, Executing, Ended, Gates
<1>6. phase \in BeforeRun
  BY <1>1 DEF BeforeRun
<1>7. QED
  BY <1>2, <1>3, <1>5, <1>6, PreparesIInv DEF BeforeRun

LEMMA InvokeIInv == ASSUME GraphIInv, Invoke PROVE GraphIInv'
<1>1. /\ phase \in {"translated"} \cup Ended /\ phase' = "running" /\ frontier' = StartTasks
      /\ visits' = Zero(ir.nodes) /\ executed' = Zero(ir.nodes) /\ resumes' = 0 /\ allowed' = FALSE
      /\ ckpt' = None /\ ir' = ir /\ adk' = adk
  BY DEF Invoke
<1>2. \A n \in ir.nodes : visits'[n] = 0 /\ executed'[n] = 0
  BY <1>1 DEF Zero
<1>3. GraphTypes' /\ NothingYet' /\ SavedByCheckpointer'
  BY <1>1 DEF GraphIInv, GraphTypes, NothingYet, SavedByCheckpointer, BeforeRun, Executing, Zero
<1>4. VisitsAccounted'
  <2>1. \A n \in ir.nodes : Limited(n) => ir.max_visits[n] \in Nat
    BY GraphAssumption DEF GraphIInv, GraphTypes, Limited
  <2>2. QED
    BY <1>1, <1>2, <2>1 DEF VisitsAccounted, VisitsAccount, Limited
<1>5. GatePlaced' /\ GateBeforeWork'
  BY <1>1, <1>2 DEF GraphIInv, GatePlaced, GateBeforeWork, Translated, Executing, Ended, Gates
<1>6. GateFirst'
  <2> SUFFICES ASSUME Gates(ir) # {}
               PROVE  StartTasks \in {{Task("admit", ir.entry)}, {Task("node", ir.entry)}}
    BY <1>1, <1>2 DEF GateFirst, Gates
  <2>1. GateIsApart(ir) /\ ir.entry \notin adk.guards
    BY <1>1 DEF GraphIInv, GatePlaced, Translated
  <2>2. {d \in ir.edges : d[1] = StartId} = {}
    BY <2>1 DEF GateIsApart
  <2>3. StartTasks = {RewriteTarget(ir.entry)}
    BY <2>2 DEF StartTasks
  <2>4. QED
    BY <2>1, <2>3 DEF RewriteTarget
<1>7. QED
  BY <1>3, <1>4, <1>5, <1>6 DEF GraphIInv

\* A gated graph has no checkpoint to resume from.
LEMMA NoGatedCheckpoint ==
    ASSUME GraphIInv, Gates(ir) # {}, phase \in Translated
    PROVE  ckpt = None /\ phase # "unsaved"
BY DEF GraphIInv, GatePlaced, SavedByCheckpointer

LEMMA ResumeIInv == ASSUME GraphIInv, Resume PROVE GraphIInv'
<1>1. /\ phase \in {"failed", "down"} /\ ckpt # None /\ phase' = "running"
      /\ visits' = ckpt.visits /\ executed' = executed /\ resumes' = resumes + 1
      /\ ckpt' = ckpt /\ ir' = ir /\ adk' = adk /\ allowed' = allowed
  BY DEF Resume
<1>2. GraphTypes' /\ NothingYet' /\ SavedByCheckpointer'
  BY <1>1 DEF GraphIInv, GraphTypes, NothingYet, SavedByCheckpointer, BeforeRun, Executing
<1>3. VisitsAccounted'
  <2> SUFFICES ASSUME NEW n \in ir.nodes, Limited(n) PROVE VisitsAccount(n)'
    BY <1>1 DEF VisitsAccounted, Limited
  <2>1. /\ ir.max_visits[n] \in Nat /\ ckpt.visits[n] \in Nat /\ executed[n] \in Nat /\ resumes \in Nat
    BY <1>1, GraphAssumption DEF GraphIInv, GraphTypes, Limited
  <2>2. VisitsAccount(n)
    BY DEF GraphIInv, VisitsAccounted
  <2>3. QED
    BY <1>1, <2>1, <2>2 DEF VisitsAccount
<1>4. Gates(ir) = {}
  BY <1>1, NoGatedCheckpoint DEF Translated, Ended
<1>5. GatePlaced' /\ GateFirst' /\ GateBeforeWork'
  BY <1>1, <1>4 DEF GatePlaced, GateFirst, GateBeforeWork, Gates
<1>6. QED
  BY <1>2, <1>3, <1>5 DEF GraphIInv

\* A step after which no invocation executes, and no node has run.
LEMMA RestsIInv ==
    ASSUME GraphIInv, phase \in Executing \cup Ended, phase' \in Ended,
           ir' = ir, adk' = adk, ckpt' = ckpt, executed' = executed, resumes' = resumes,
           allowed' = allowed, visits' = visits \/ visits' = Zero(ir.nodes)
    PROVE  GraphIInv'
<1>1. GraphTypes' /\ NothingYet' /\ SavedByCheckpointer' /\ phase' \notin Executing
  BY DEF GraphIInv, GraphTypes, NothingYet, SavedByCheckpointer, BeforeRun, Executing, Ended, Zero
<1>2. VisitsAccounted'
  <2> SUFFICES ASSUME NEW n \in ir.nodes, Limited(n) PROVE VisitsAccount(n)'
    BY DEF VisitsAccounted, Limited
  <2>1. ir.max_visits[n] \in Nat /\ VisitsAccount(n)
    BY GraphAssumption DEF GraphIInv, GraphTypes, VisitsAccounted, Limited
  <2>2. visits'[n] = visits[n] \/ visits'[n] = 0
    BY DEF Zero
  <2>3. QED
    BY <1>1, <2>1, <2>2 DEF VisitsAccount, Executing, Ended
<1>3. GatePlaced' /\ GateFirst' /\ GateBeforeWork'
  BY <1>1 DEF GraphIInv, GatePlaced, GateFirst, GateBeforeWork, Translated, Executing, Ended, Gates
<1>4. QED
  BY <1>1, <1>2, <1>3 DEF GraphIInv

\* An error of the graph or of a node: the other nodes of the super-step may have run.
LEMMA StepFailsIInv ==
    ASSUME GraphIInv, StepFails \/ NodeFails
    PROVE  GraphIInv'
<1>1. /\ phase = "running" /\ phase' = "failed" /\ executed' = Ran /\ visits' = visits
      /\ ir' = ir /\ adk' = adk /\ ckpt' = ckpt /\ resumes' = resumes /\ allowed' = allowed
  BY DEF StepFails, NodeFails, Fail, state
<1>2. GraphTypes' /\ NothingYet' /\ SavedByCheckpointer'
  BY <1>1, RanFacts
     DEF GraphIInv, GraphTypes, NothingYet, SavedByCheckpointer, BeforeRun, Executing, Ended
<1>3. VisitsAccounted'
  <2> SUFFICES ASSUME NEW n \in ir.nodes, Limited(n) PROVE VisitsAccount(n)'
    BY <1>1 DEF VisitsAccounted, Limited
  <2>1. /\ ir.max_visits[n] \in Nat /\ VisitsAccount(n) /\ visits[n] \in Nat /\ Ran[n] \in Nat
        /\ resumes \in Nat /\ (ckpt # None => ckpt.visits[n] \in Nat)
    BY GraphAssumption, RanFacts DEF GraphIInv, GraphTypes, VisitsAccounted, Limited
  <2>2. Ran[n] <= ir.max_visits[n] + resumes /\ Ran[n] <= visits[n] + 1 + resumes
    BY <1>1, RanWithinLimit
  <2>3. QED
    BY <1>1, <2>1, <2>2 DEF VisitsAccount, Executing
<1>4. GatePlaced' /\ GateFirst'
  BY <1>1 DEF GraphIInv, GatePlaced, GateFirst, Translated, Executing, Ended, Gates
<1>5. GateBeforeWork'
  BY <1>1, GateRan DEF GateBeforeWork, Gates
<1>6. QED
  BY <1>2, <1>3, <1>4, <1>5 DEF GraphIInv

LEMMA SaveCheckpointIInv == ASSUME GraphIInv, SaveCheckpoint PROVE GraphIInv'
<1>1. /\ phase = "unsaved" /\ phase' = "running" /\ executed' = executed /\ visits' = visits
      /\ ir' = ir /\ adk' = adk /\ ckpt'.visits = visits /\ resumes' = resumes
      /\ allowed' = allowed
  BY DEF SaveCheckpoint, state
<1>2. GraphTypes' /\ NothingYet' /\ SavedByCheckpointer'
  BY <1>1 DEF GraphIInv, GraphTypes, NothingYet, SavedByCheckpointer, BeforeRun, Executing
<1>3. VisitsAccounted'
  <2> SUFFICES ASSUME NEW n \in ir.nodes, Limited(n) PROVE VisitsAccount(n)'
    BY <1>1 DEF VisitsAccounted, Limited
  <2>1. /\ ir.max_visits[n] \in Nat /\ VisitsAccount(n) /\ visits[n] \in Nat /\ executed[n] \in Nat
        /\ resumes \in Nat
    BY GraphAssumption DEF GraphIInv, GraphTypes, VisitsAccounted, Limited
  <2>2. QED
    BY <1>1, <2>1 DEF VisitsAccount, Executing
<1>4. Gates(ir) = {}
  BY <1>1, NoGatedCheckpoint DEF Translated, Executing
<1>5. GatePlaced' /\ GateFirst' /\ GateBeforeWork'
  BY <1>1, <1>4 DEF GatePlaced, GateFirst, GateBeforeWork, Gates
<1>6. QED
  BY <1>2, <1>3, <1>5 DEF GraphIInv

LEMMA SuperStepIInv == ASSUME GraphIInv, SuperStep PROVE GraphIInv'
<1>1. /\ phase = "running" /\ StepFault = None /\ executed' = Ran
      /\ visits' = [n \in DOMAIN visits |-> visits[n] + (IF n \in Counted THEN 1 ELSE 0)]
      /\ phase' = (IF adk.checkpointed THEN "unsaved" ELSE "running")
      /\ ir' = ir /\ adk' = adk /\ ckpt' = ckpt /\ resumes' = resumes
      /\ allowed' = (allowed \/ NodeTasks \cap Gates(ir) # {})
  BY DEF SuperStep
<1>2. \A n \in NodeTasks : ~VisitExceeded(n)
  BY <1>1, NoneAssumption DEF StepFault
<1>3. /\ visits' \in [ir.nodes -> Nat] /\ Ran \in [ir.nodes -> Nat]
      /\ \A n \in ir.nodes : visits'[n] = visits[n] + (IF n \in Counted THEN 1 ELSE 0)
  BY <1>1, RanFacts DEF GraphIInv, GraphTypes
<1>4. GraphTypes' /\ NothingYet' /\ SavedByCheckpointer' /\ phase' \in Executing
  <2>1. ckpt # None => adk.checkpointed
    BY DEF GraphIInv, SavedByCheckpointer
  <2>2. phase' \in Executing /\ (phase' = "unsaved" => adk.checkpointed)
    BY <1>1 DEF Executing
  <2>3. QED
    BY <1>1, <1>3, <2>1, <2>2
       DEF GraphIInv, GraphTypes, NothingYet, SavedByCheckpointer, BeforeRun, Executing
<1>5. VisitsAccounted'
  <2> SUFFICES ASSUME NEW n \in ir.nodes, Limited(n) PROVE VisitsAccount(n)'
    BY <1>1 DEF VisitsAccounted, Limited
  <2>1. /\ ir.max_visits[n] \in Nat /\ VisitsAccount(n) /\ visits[n] \in Nat /\ executed[n] \in Nat
        /\ resumes \in Nat /\ (ckpt # None => ckpt.visits[n] \in Nat)
    BY GraphAssumption DEF GraphIInv, GraphTypes, VisitsAccounted, Limited
  <2>2. /\ n \in Counted => visits[n] + 1 <= ir.max_visits[n] /\ Ran[n] = executed[n] + 1
        /\ n \notin Counted => Ran[n] = executed[n]
    BY <1>1, <1>2, RanWithinLimit, RanFacts DEF GraphIInv
  <2>3. ckpt # None => phase' = "unsaved"
    BY <1>1 DEF GraphIInv, SavedByCheckpointer
  <2>4. visits'[n] <= ir.max_visits[n] /\ Ran[n] <= visits'[n] + resumes /\ visits'[n] <= visits[n] + 1
    BY <1>1, <1>3, <2>1, <2>2 DEF VisitsAccount, Executing
  <2>5. visits'[n] \in Nat /\ Ran[n] \in Nat
    BY <1>3
  <2>6. ckpt # None => visits[n] <= ckpt.visits[n] /\ ckpt.visits[n] <= ir.max_visits[n]
    BY <1>1, <2>1 DEF VisitsAccount
  <2>7. QED
    BY <1>1, <2>1, <2>3, <2>4, <2>5, <2>6 DEF VisitsAccount, Executing
<1>6. GatePlaced'
  BY <1>1, <1>4 DEF GraphIInv, GatePlaced, Translated, Executing, Ended, Gates
<1>7. GateBeforeWork'
  <2>1. allowed => allowed'
    BY <1>1
  <2>2. QED
    BY <1>1, <2>1, GateRan DEF GateBeforeWork, Gates
<1>8. GateFirst'
  <2> SUFFICES ASSUME Gates(ir) # {}
               PROVE  /\ ~allowed' =>
                           /\ frontier' \in {{Task("admit", ir.entry)}, {Task("node", ir.entry)}}
                           /\ \A n \in ir.nodes : Ran[n] = 0
                      /\ allowed' => \A u \in frontier' : u.id = ir.entry => u.at = "unknown"
    BY <1>1 DEF GateFirst, Gates
  <2>1. GateIsApart(ir) /\ Gates(ir) = {ir.entry}
    BY <1>1 DEF GraphIInv, GatePlaced, Translated, Executing, GateIsApart
  <2>2. PICK sel : frontier' = UNION {NextTasks(t, sel[t]) : t \in frontier}
    BY NextFrontier
  <2>3. ASSUME \A t \in frontier : t.id = ir.entry => t.at \notin {"guard", "admit"}
        PROVE  \A u \in frontier' : u.id = ir.entry => u.at = "unknown"
    <3> SUFFICES ASSUME NEW u \in frontier', u.id = ir.entry PROVE u.at = "unknown"
      OBVIOUS
    <3>1. PICK t \in frontier : u \in NextTasks(t, sel[t])
      BY <2>2
    <3>2. QED
      BY <2>1, <2>3, <3>1, OutTasks
  <2>4. CASE allowed
    <3>1. \A t \in frontier : t.id = ir.entry => t.at = "unknown"
      BY <1>1, <2>4 DEF GraphIInv, GateFirst, Executing
    <3>2. allowed'
      BY <1>1, <2>4
    <3>3. QED
      BY <2>3, <3>1, <3>2
  <2>5. CASE ~allowed /\ frontier = {Task("node", ir.entry)}
    <3>1. ir.entry \in NodeTasks
      <4>1. Task("node", ir.entry).at = "node" /\ Task("node", ir.entry).id = ir.entry
        BY DEF Task
      <4>2. Task("node", ir.entry) \in {u \in frontier : u.at = "node"}
        BY <2>5, <4>1
      <4>3. QED
        BY <4>1, <4>2 DEF NodeTasks
    <3>2. allowed'
      BY <1>1, <2>1, <3>1
    <3>3. \A t \in frontier : t.at = "node"
      BY <2>5 DEF Task
    <3>4. QED
      BY <2>3, <3>2, <3>3
  <2>6. CASE ~allowed /\ frontier = {Task("admit", ir.entry)}
    <3>1. NodeTasks = {}
      BY <2>6 DEF NodeTasks, Task
    <3>2. ~allowed'
      BY <1>1, <2>6, <3>1
    <3>3. frontier' = NextTasks(Task("admit", ir.entry), sel[Task("admit", ir.entry)])
      BY <2>2, <2>6
    <3>4. frontier' = {Task("node", ir.entry)}
      BY <3>3, AdmitTask
    <3>5. \A n \in ir.nodes : executed[n] = 0
      BY <1>1, <2>6 DEF GraphIInv, GateFirst, Executing
    <3>6. \A n \in ir.nodes : Ran[n] = 0
      BY <3>1, <3>5, RanFacts DEF GraphIInv
    <3>7. QED
      BY <3>2, <3>4, <3>6
  <2>7. QED
    BY <1>1, <2>4, <2>5, <2>6 DEF GraphIInv, GateFirst, Executing
<1>9. QED
  BY <1>4, <1>5, <1>6, <1>7, <1>8 DEF GraphIInv

LEMMA GraphNextIInv == GraphIInv /\ [GraphNext]_graphVars => GraphIInv'
<1> SUFFICES ASSUME GraphIInv, [GraphNext]_graphVars PROVE GraphIInv'
  OBVIOUS
<1>1. CASE Compile
  BY <1>1, CompileIInv
<1>2. CASE Translate \/ TranslateResolved
  BY <1>2, TranslateIInv
<1>3. CASE Invoke
  BY <1>3, InvokeIInv
<1>4. CASE Resume
  BY <1>4, ResumeIInv
<1>5. CASE RefuseResume \/ Finish \/ LimitExceeded \/ SaveFails \/ Crash
  <2>1. /\ phase \in Executing \cup Ended /\ phase' \in Ended
        /\ ir' = ir /\ adk' = adk /\ ckpt' = ckpt /\ executed' = executed /\ resumes' = resumes
        /\ allowed' = allowed /\ (visits' = visits \/ visits' = Zero(ir.nodes))
    BY <1>5 DEF RefuseResume, Finish, LimitExceeded, SaveFails, Crash, Fail, state, Executing, Ended
  <2>2. QED
    BY <2>1, RestsIInv
<1>6. CASE StepFails \/ NodeFails
  BY <1>6, StepFailsIInv
<1>7. CASE SaveCheckpoint
  BY <1>7, SaveCheckpointIInv
<1>8. CASE SuperStep
  BY <1>8, SuperStepIInv
<1>9. CASE UNCHANGED graphVars
  <2>1. /\ ir' = ir /\ phase' = phase /\ adk' = adk /\ ckpt' = ckpt /\ executed' = executed
        /\ resumes' = resumes /\ allowed' = allowed /\ visits' = visits /\ frontier' = frontier
    BY <1>9 DEF graphVars
  <2>2. GraphTypes' /\ NothingYet' /\ SavedByCheckpointer' /\ VisitsAccounted'
    BY <2>1 DEF GraphIInv, GraphTypes, NothingYet, SavedByCheckpointer, VisitsAccounted,
         VisitsAccount, Limited
  <2>3. GatePlaced' /\ GateFirst' /\ GateBeforeWork'
    BY <2>1 DEF GraphIInv, GatePlaced, GateFirst, GateBeforeWork, Gates
  <2>4. QED
    BY <2>2, <2>3 DEF GraphIInv
<1>10. QED
  BY <1>1, <1>2, <1>3, <1>4, <1>5, <1>6, <1>7, <1>8, <1>9 DEF GraphNext, Progress

-----------------------------------------------------------------------------
\* The inductive invariant holds of every workflow, whatever its nodes answer.
THEOREM GraphInvariance == GraphSpec => []GraphIInv
BY GraphInitIInv, GraphNextIInv, PTL DEF GraphSpec

\* A bounded node runs at most max_visits times, and once more for each resume.
THEOREM VisitsBounded == GraphSpec => []VisitsSurviveResume
<1>1. ASSUME GraphIInv PROVE VisitsSurviveResume
  BY <1>1 DEF GraphIInv, VisitsAccounted, VisitsAccount, Limited, VisitsSurviveResume
<1>2. QED
  BY GraphInvariance, <1>1, PTL

\* Nothing of a gated workflow runs before its gate has allowed it, and the gate runs once.
THEOREM GateRunsFirst == GraphSpec => []GateBeforeWork
<1>1. GraphIInv => GateBeforeWork
  BY DEF GraphIInv
<1>2. QED
  BY GraphInvariance, <1>1, PTL

=============================================================================
