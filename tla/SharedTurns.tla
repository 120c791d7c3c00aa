---------------------------- MODULE SharedTurns ----------------------------
(***************************************************************************)
(* One model session shared by several agent nodes of a run.  The nodes of  *)
(* a super-step run together; each holds the session's history lock for its *)
(* whole turn, and after a restart waits until the turn a crash interrupted *)
(* has been completed by its owner.  A durable run keeps the turns in the   *)
(* loop ledger, one generation with the graph's checkpoint; a run without   *)
(* a ledger keeps them in memory.  Saving a generation is one step here     *)
(* (DurableRun has its parts).                                              *)
(***************************************************************************)
EXTENDS Integers, FiniteSets, Sequences, SequencesExt, FiniteSetsExt, TLC

CONSTANTS
    Nodes,
    MaxStep,      \* bound on super-steps
    MaxTurns,     \* bound on model turns of a visit
    MaxRestarts,  \* bound on resumes
    None

ASSUME SharedAssumption ==
    /\ Nodes # {} /\ None \notin Nodes
    /\ MaxStep \in Nat \ {0} /\ MaxTurns \in Nat \ {0} /\ MaxRestarts \in Nat

Steps == 1..MaxStep
Visits == Nodes \X Steps

\* What a finish answers, a Turn, a Prepared turn and the part of a LoopState that is
\* about the session.
Outputs == [node : Nodes, step : Steps]
Turns == [node : Nodes, step : Steps, ordinal : Nat, output : Outputs]
Prepared == [step : Steps, ordinal : Nat, digest : Seq(Turns)]
LoopStates == [owner : 0..MaxStep, start : Nat, iters : Nat, finish : Outputs \cup {None},
               finishes : Seq(Outputs), turns : Seq(Turns), pending : Prepared \cup {None}]

\* The part that is about the node's own conversation: the contents (TRUE: the model's,
\* FALSE: a request or a tool's response), where the visit's begin, and the iteration
\* whose tool calls wait for their responses (0: none).
Talks == [contents : Seq(BOOLEAN), from : Nat, call : Nat]

\* A missing value is told apart from a value.
ASSUME NoneAssumption == None \notin Outputs \cup Prepared \cup [Nodes -> LoopStates]

VARIABLES
    durable,   \* the run has a loop ledger
    phase,     \* "admit", "running", "down", "ended", "refused"
    step,      \* the graph's super-step
    frontier,  \* its nodes
    ledger,    \* node -> [owner, start, iters, finish, finishes, turns, pending]
    talk,      \* node -> [contents, from, call], in the same generation
    saved,     \* the graph continuation of the same generation: [step, pending]
    history,   \* in-memory History: [turns, pending]
    lock,      \* the node that holds its mutex
    pc,        \* node -> where its call of invoke is
    waiters,   \* nodes registered with `changed`
    woken,     \* nodes a notify_waiters has reached
    failed,    \* Run.failed
    cancelled,
    restarts,
    saw,       \* history: visit -> the turns its last model call was shown
    calls      \* history: visit -> number of model calls

memory == <<history, lock, pc, waiters, woken, failed>>
vars == <<durable, phase, step, frontier, ledger, talk, saved, history, lock, pc, waiters,
          woken, failed, cancelled, restarts, saw, calls>>

Blank == [owner |-> 0, start |-> 0, iters |-> 0, finish |-> None, finishes |-> <<>>,
          turns |-> <<>>, pending |-> None]
Silence == [contents |-> <<>>, from |-> 0, call |-> 0]
Turn(n, s, ordinal, output) == [node |-> n, step |-> s, ordinal |-> ordinal, output |-> output]

-----------------------------------------------------------------------------
(* The ledger's view of the shared history, and what a restart checks.       *)

AllTurns(l) == UNION {Range(l[n].turns) : n \in Nodes}

\* The turns of all nodes in the order of their ordinals, once these are their places
\* (TurnsValid).
SortedTurns(l) ==
    LET all == AllTurns(l)
    IN  [i \in 1..Cardinality(all) |-> CHOOSE t \in all : t.ordinal = i - 1]

PendingNodes(l) == {n \in Nodes : l[n].pending # None}

TurnsValid(l) ==
    LET all == AllTurns(l)
    IN  /\ {t.ordinal : t \in all} = 0..Cardinality(all) - 1
        /\ \A t \in all :
              /\ l[t.node].owner # 0
              /\ t.step <= l[t.node].owner
              /\ t.step = l[t.node].owner => l[t.node].finish = t.output

NodeTurnsValid(l, n) ==
    LET turns == l[n].turns
        open == IF l[n].pending # None /\ l[n].finish # None THEN 1 ELSE 0
    IN  /\ \A i \in DOMAIN turns : turns[i].node = n
        /\ \A i, j \in DOMAIN turns : i < j => turns[i].step < turns[j].step
        /\ (turns # <<>> \/ l[n].pending # None) =>
               /\ Len(l[n].finishes) = Len(turns) + open
               /\ \A i \in DOMAIN turns : turns[i].output = l[n].finishes[i]

PendingValid(l, n, turns) ==
    LET p == l[n].pending
    IN  p # None =>
           /\ l[n].owner = p.step
           /\ p.ordinal = Len(turns)
           /\ p.digest = turns
           /\ l[n].turns # <<>> => Last(l[n].turns).step < p.step

HistoryValid(l) ==
    /\ TurnsValid(l)
    /\ Cardinality(PendingNodes(l)) <= 1
    /\ LET turns == SortedTurns(l)
       IN  \A n \in Nodes : NodeTurnsValid(l, n) /\ PendingValid(l, n, turns)

History(l) ==
    [turns |-> SortedTurns(l),
     pending |-> IF PendingNodes(l) = {} THEN None ELSE CHOOSE n \in PendingNodes(l) : TRUE]

\* shared::validate: a visit that has asked the model is pending or accepted.
ValidateShared(l) ==
    /\ HistoryValid(l)
    /\ \A n \in Nodes :
          l[n].owner # 0 /\ l[n].iters > l[n].start /\ l[n].pending = None
              => l[n].turns # <<>> /\ Last(l[n].turns).step = l[n].owner

\* Open calls are of this visit, and the conversation before it has the contents of the
\* iterations before it.
ValidInvocation(l, t) ==
    \A n \in Nodes : l[n].owner # 0 =>
        /\ l[n].start <= l[n].iters
        /\ l[n].finish # None => l[n].start < l[n].iters
        /\ t[n].call # 0 => t[n].call > l[n].start
        /\ t[n].contents # <<>> =>
              /\ t[n].from <= Len(t[n].contents)
              /\ Cardinality({i \in 1..t[n].from : t[n].contents[i]}) = l[n].start

ValidateCheckpoint(l, s) ==
    \A n \in Nodes :
        /\ l[n].pending # None => n \in s.pending
        /\ l[n].owner # 0 => l[n].owner <= s.step /\ (n \in s.pending => l[n].owner = s.step)
        /\ l[n].owner = 0 /\ l[n].iters > 0 => n \notin s.pending

-----------------------------------------------------------------------------
(* Operations of the ledger.  Each yields the next node table, or None for   *)
(* InvalidRunState.                                                          *)

AdmitNode(l, n, s) == [l[n] EXCEPT !.owner = s, !.start = l[n].iters, !.finish = None]

AdmitFrontierLedger(l, nodes, s) ==
    LET fresh == {n \in nodes : l[n].owner # s}
    IN  IF \E n \in fresh : l[n].pending # None \/ (l[n].owner # 0 /\ l[n].finish = None)
        THEN None
        ELSE [n \in Nodes |-> IF n \in fresh THEN AdmitNode(l, n, s) ELSE l[n]]

CallsOpen(l, t, nodes, s) == \E n \in nodes : l[n].owner # s /\ t[n].call # 0

\* The conversation of a visit begins where the node's last one ended.
AdmitTalk(l, t, nodes, s) ==
    [n \in Nodes |-> IF n \in nodes /\ l[n].owner # s
                     THEN [t[n] EXCEPT !.from = Len(t[n].contents)] ELSE t[n]]

\* prepare_request and observe_model: the visit's first turn is preceded by its request.
AskedTalk(t, iteration, finishes) ==
    LET asked == IF Len(t.contents) = t.from THEN Append(t.contents, FALSE) ELSE t.contents
    IN  [t EXCEPT !.contents = Append(asked, TRUE), !.call = IF finishes THEN 0 ELSE iteration]

\* observe_tool, and complete_pending after a restart.
RespondedTalk(t) == IF t.call = 0 THEN t ELSE [t EXCEPT !.contents = Append(@, FALSE), !.call = 0]

AnsweredNow(l, n) == l[n].turns # <<>> /\ Last(l[n].turns).step = l[n].owner

\* Slip: a turn another node has prepared is not looked for.
PrepareSharedOver(l, n, expected) ==
    IF ~HistoryValid(l) \/ expected # SortedTurns(l) \/ l[n].owner = 0 THEN None
    ELSE IF AnsweredNow(l, n) \/ l[n].pending # None THEN l
    ELSE [l EXCEPT ![n].pending =
             [step |-> l[n].owner, ordinal |-> Len(expected), digest |-> expected]]

PrepareShared(l, n, expected) ==
    IF ~HistoryValid(l) \/ expected # SortedTurns(l) \/ l[n].owner = 0 THEN None
    ELSE IF AnsweredNow(l, n) \/ l[n].pending # None THEN l
    ELSE IF PendingNodes(l) # {} THEN None
    ELSE [l EXCEPT ![n].pending =
             [step |-> l[n].owner, ordinal |-> Len(expected), digest |-> expected]]

AcceptShared(l, n, output) ==
    LET p == l[n].pending
        next == [l EXCEPT ![n].pending = None,
                          ![n].turns = Append(@, Turn(n, l[n].owner, p.ordinal, output))]
    IN  IF l[n].finish = None \/ l[n].finish # output THEN None
        ELSE IF AnsweredNow(l, n) THEN (IF Last(l[n].turns).output = output THEN l ELSE None)
        ELSE IF p = None THEN None
        ELSE IF p.step # l[n].owner \/ ~HistoryValid(next) THEN None
        ELSE next

-----------------------------------------------------------------------------
Init ==
    /\ durable \in BOOLEAN
    /\ phase = "admit" /\ step = 1
    /\ frontier \in SUBSET Nodes \ {{}}
    /\ ledger = [n \in Nodes |-> Blank] /\ talk = [n \in Nodes |-> Silence]
    /\ saved = [step |-> 0, pending |-> {}]
    /\ history = [turns |-> <<>>, pending |-> None]
    /\ lock = None /\ pc = [n \in Nodes |-> "idle"] /\ waiters = {} /\ woken = {}
    /\ failed = FALSE /\ cancelled = FALSE /\ restarts = 0
    /\ saw = [v \in Visits |-> None] /\ calls = [v \in Visits |-> 0]

\* The frontier observer runs at the first NodeStart, before any node is polled.
AdmitFrontier ==
    /\ phase = "admit"
    /\ IF durable
       THEN LET next == AdmitFrontierLedger(ledger, frontier, step)
            IN  IF next = None \/ CallsOpen(ledger, talk, frontier, step)
                THEN phase' = "down" /\ UNCHANGED <<ledger, talk, saved, pc>>
                ELSE /\ phase' = "running"
                     /\ ledger' = next
                     /\ talk' = AdmitTalk(ledger, talk, frontier, step)
                     /\ saved' = [step |-> step, pending |-> frontier]
                     /\ pc' = [n \in Nodes |-> IF n \in frontier THEN "acquire" ELSE "idle"]
       ELSE /\ phase' = "running"
            /\ pc' = [n \in Nodes |-> IF n \in frontier THEN "acquire" ELSE "idle"]
            /\ UNCHANGED <<ledger, talk, saved>>
    /\ UNCHANGED <<durable, step, frontier, history, lock, waiters, woken, failed, cancelled,
                   restarts, saw, calls>>

Goto(n, where) == pc' = [pc EXCEPT ![n] = where]

\* notify_waiters reaches those registered now.
Notify == woken' = woken \cup waiters /\ waiters' = {}

\* Slip: the waiter registers when it is first polled, after the lock is released.
RegisterLate(n) == waiters

\* `notified` is enabled before the lock is taken.
Register(n) == waiters \cup {n}

\* One pass of the admission loop, up to the release of the lock.
TryEnter(n) ==
    /\ phase = "running" /\ pc[n] = "acquire" /\ lock = None
    /\ IF failed \/ cancelled
       THEN Goto(n, "unwind") /\ UNCHANGED <<lock, waiters>>
       ELSE IF history.pending \in {None, n}
       THEN Goto(n, "prepare") /\ lock' = n /\ UNCHANGED waiters
       ELSE Goto(n, "released") /\ waiters' = Register(n) /\ UNCHANGED lock
    /\ UNCHANGED <<durable, phase, step, frontier, ledger, talk, saved, history, woken, failed,
                   cancelled, restarts, saw, calls>>

\* `notified.await`: the first poll registers a waiter that is not registered yet.
Park(n) ==
    /\ phase = "running" /\ pc[n] = "released"
    /\ Goto(n, "parked")
    /\ waiters' = IF n \in woken THEN waiters ELSE waiters \cup {n}
    /\ UNCHANGED <<durable, phase, step, frontier, ledger, talk, saved, history, lock, woken,
                   failed, cancelled, restarts, saw, calls>>

Wake(n) ==
    /\ phase = "running" /\ pc[n] = "parked" /\ n \in woken
    /\ woken' = woken \ {n}
    /\ Goto(n, "acquire")
    /\ UNCHANGED <<durable, phase, step, frontier, ledger, talk, saved, history, lock, waiters, failed,
                   cancelled, restarts, saw, calls>>

\* Slip: the lock is given up while the agent runs.
LockFreed(n) == None

LockDuringTurn(n) == n

\* prepare_shared, then the projection of the history for the agent.
Prepare(n) ==
    /\ phase = "running" /\ pc[n] = "prepare"
    /\ \/ /\ durable => PrepareShared(ledger, n, history.turns) # None
          /\ ledger' = IF durable THEN PrepareShared(ledger, n, history.turns) ELSE ledger
          /\ Goto(n, "agent")
          /\ lock' = LockDuringTurn(n)
       \/ /\ durable                       \* refused, or the generation cannot be saved
          /\ ledger' = ledger
          /\ Goto(n, "unwind")
          /\ lock' = None
    /\ IF pc'[n] = "agent" THEN UNCHANGED <<waiters, woken>> ELSE Notify
    /\ UNCHANGED <<durable, phase, step, frontier, talk, saved, history, failed, cancelled, restarts,
                   saw, calls>>

Output(n) == [node |-> n, step |-> step]

\* enter_isolated: a finish this visit has admitted is replayed, the model is not asked.
Replays(n) == durable /\ ledger[n].finish # None

Replay(n) ==
    /\ phase = "running" /\ pc[n] = "agent" /\ Replays(n)
    /\ Goto(n, "accept")
    /\ UNCHANGED <<durable, phase, step, frontier, ledger, talk, saved, history, lock, waiters, woken,
                   failed, cancelled, restarts, saw, calls>>

\* A model turn: a tool call, or a finish (observe_model keeps both in the ledger).
ModelTurn(n) ==
    /\ phase = "running" /\ pc[n] = "agent" /\ ~Replays(n)
    /\ ~cancelled /\ talk[n].call = 0
    /\ calls[<<n, step>>] < MaxTurns
    /\ calls' = [calls EXCEPT ![<<n, step>>] = @ + 1]
    /\ saw' = [saw EXCEPT ![<<n, step>>] = history.turns]
    /\ \E finishes \in BOOLEAN :
         /\ ledger' = IF ~durable THEN ledger
                      ELSE [ledger EXCEPT ![n].iters = @ + 1,
                              ![n].finish = IF finishes THEN Output(n) ELSE None,
                              ![n].finishes = IF finishes THEN Append(@, Output(n)) ELSE @]
         /\ talk' = IF ~durable THEN talk
                    ELSE [talk EXCEPT ![n] = AskedTalk(@, ledger[n].iters + 1, finishes)]
         /\ IF finishes THEN Goto(n, "accept") ELSE UNCHANGED pc
    /\ UNCHANGED <<durable, phase, step, frontier, saved, history, lock, waiters, woken, failed,
                   cancelled, restarts>>

\* The tool calls of the last turn are answered, and the loop asks again.
ToolsRespond(n) ==
    /\ phase = "running" /\ pc[n] = "agent" /\ ~cancelled /\ talk[n].call # 0
    /\ talk' = [talk EXCEPT ![n] = RespondedTalk(@)]
    /\ UNCHANGED <<durable, phase, step, frontier, ledger, saved, memory, cancelled, restarts,
                   saw, calls>>

\* The agent errs, or its stream has no final answer.
AgentFails(n) ==
    /\ phase = "running" /\ pc[n] = "agent"
    /\ Goto(n, "unwind") /\ lock' = None /\ Notify
    /\ UNCHANGED <<durable, phase, step, frontier, ledger, talk, saved, history, failed, cancelled,
                   restarts, saw, calls>>

\* A tool confirmation ends the call without a turn; a durable run cannot go on.
Confirmation(n) ==
    /\ phase = "running" /\ pc[n] = "agent" /\ ~Replays(n)
    /\ failed' = (failed \/ durable)
    /\ Goto(n, "interrupted") /\ lock' = None /\ Notify
    /\ UNCHANGED <<durable, phase, step, frontier, ledger, talk, saved, history, cancelled, restarts,
                   saw, calls>>

Accept(n) ==
    LET output == IF durable THEN ledger[n].finish ELSE Output(n)
        next == AcceptShared(ledger, n, output)
    IN  /\ phase = "running" /\ pc[n] = "accept"
        /\ \/ /\ durable /\ next # None
              /\ ledger' = next
              /\ history' = History(next)
              /\ Goto(n, "done")
           \/ /\ ~durable                  \* the code records the ordinal as the step too
              /\ history' = [history EXCEPT !.turns =
                               Append(@, Turn(n, step, Len(@), output))]
              /\ Goto(n, "done")
              /\ UNCHANGED ledger
           \/ /\ durable                   \* refused, or the generation cannot be saved
              /\ Goto(n, "unwind")
              /\ UNCHANGED <<ledger, history>>
        /\ lock' = None /\ Notify
        /\ UNCHANGED <<durable, phase, step, frontier, talk, saved, failed, cancelled, restarts, saw,
                       calls>>

\* FailureGuard: dropped after the lock.
Unwind(n) ==
    /\ phase = "running" /\ pc[n] = "unwind"
    /\ failed' = TRUE /\ Notify
    /\ Goto(n, "error")
    /\ UNCHANGED <<durable, phase, step, frontier, ledger, talk, saved, history, lock, cancelled,
                   restarts, saw, calls>>

Cancel ==
    /\ phase = "running" /\ ~cancelled
    /\ cancelled' = TRUE
    /\ UNCHANGED <<durable, phase, step, frontier, ledger, talk, saved, memory, restarts, saw, calls>>

\* The biased select drops the work where it stands.
Abandon(n) ==
    /\ phase = "running" /\ cancelled
    /\ pc[n] \in {"acquire", "released", "parked", "prepare", "agent", "accept"}
    /\ lock' = IF lock = n THEN None ELSE lock
    /\ waiters' = waiters \ {n} /\ woken' = woken \ {n}
    /\ Goto(n, "unwind")
    /\ UNCHANGED <<durable, phase, step, frontier, ledger, talk, saved, history, failed, cancelled,
                   restarts, saw, calls>>

\* Every node has answered: the graph goes on to another frontier, or ends.
Advance ==
    /\ phase = "running"
    /\ \A n \in frontier : pc[n] = "done"
    /\ \/ /\ step < MaxStep
          /\ step' = step + 1
          /\ frontier' \in SUBSET Nodes \ {{}}
          /\ phase' = "admit"
       \/ phase' = "ended" /\ UNCHANGED <<step, frontier>>
    /\ pc' = [n \in Nodes |-> "idle"]
    /\ UNCHANGED <<durable, ledger, talk, saved, history, lock, waiters, woken, failed, cancelled,
                   restarts, saw, calls>>

\* What a process keeps in memory goes with it.
Forget ==
    /\ history' = [turns |-> <<>>, pending |-> None]
    /\ lock' = None /\ pc' = [n \in Nodes |-> "idle"] /\ waiters' = {} /\ woken' = {}
    /\ failed' = FALSE /\ cancelled' = FALSE

Down == phase' = "down" /\ step' = saved.step /\ frontier' = saved.pending /\ Forget

\* The first error, or an interrupt once the others have ended, fails the invocation.
InvocationFails ==
    /\ phase = "running"
    /\ \/ \E n \in frontier : pc[n] = "error"
       \/ /\ \E n \in frontier : pc[n] = "interrupted"
          /\ \A n \in frontier : pc[n] \in {"done", "interrupted"}
    /\ Down
    /\ UNCHANGED <<durable, ledger, talk, saved, restarts, saw, calls>>

Crash ==
    /\ phase \in {"admit", "running"}
    /\ Down
    /\ UNCHANGED <<durable, ledger, talk, saved, restarts, saw, calls>>

\* Resume from the saved generation, after its checks: replay_pending_tools answers the
\* calls a crash left open, or ends the resume; begin() rebuilds the history.
Resume ==
    /\ phase = "down" /\ durable /\ saved.step # 0
    /\ restarts < MaxRestarts /\ restarts' = restarts + 1
    /\ IF ValidateShared(ledger) /\ ValidInvocation(ledger, talk) /\ ValidateCheckpoint(ledger, saved)
       THEN \/ /\ phase' = "admit" /\ history' = History(ledger)
               /\ talk' = [n \in Nodes |-> RespondedTalk(talk[n])]
            \/ /\ \E n \in Nodes : talk[n].call # 0
               /\ UNCHANGED <<phase, history, talk>>
       ELSE phase' = "refused" /\ UNCHANGED <<history, talk>>
    /\ UNCHANGED <<durable, step, frontier, ledger, saved, lock, pc, waiters, woken, failed,
                   cancelled, saw, calls>>

TaskStep(n) ==
    \/ TryEnter(n) \/ Park(n) \/ Wake(n) \/ Prepare(n) \/ Replay(n) \/ ModelTurn(n)
    \/ ToolsRespond(n) \/ AgentFails(n) \/ Confirmation(n) \/ Accept(n) \/ Unwind(n) \/ Abandon(n)

Next ==
    \/ AdmitFrontier \/ Advance \/ InvocationFails
    \/ \E n \in Nodes : TaskStep(n)
    \/ Cancel \/ Crash \/ Resume

Spec == Init /\ [][Next]_vars

\* The runtime polls every task and the graph stream; the agent's own loop is bounded.
FairSpec ==
    /\ Spec
    /\ \A n \in Nodes : WF_vars(TaskStep(n))
    /\ WF_vars(AdmitFrontier) /\ WF_vars(Advance) /\ WF_vars(InvocationFails)

-----------------------------------------------------------------------------
Accepted == IF durable THEN SortedTurns(ledger) ELSE history.turns

\* Every accepted turn was produced from exactly the turns accepted before it, whichever
\* node was interrupted and resumed in between (prepare_shared, history lock, waiters).
AnsweredFromItsPrefix ==
    LET turns == Accepted
    IN  \A i \in DOMAIN turns :
            saw[<<turns[i].node, turns[i].step>>] = SubSeq(turns, 1, i - 1)

\* Whatever generation a crash leaves passes the checks of resume and of admit_frontier,
\* and an answer the ledger has admitted is never refused by accept_shared.  A turn whose
\* agent failed leaves its node pending in the ledger, not in memory: for a moment the
\* next node holds the lock, and only prepare_shared stops it.
AlwaysRecoverable ==
    durable =>
        /\ saved.step # 0 => /\ ValidateShared(ledger) /\ ValidInvocation(ledger, talk)
                             /\ ValidateCheckpoint(ledger, saved)
        /\ phase = "admit" => /\ AdmitFrontierLedger(ledger, frontier, step) # None
                              /\ ~CallsOpen(ledger, talk, frontier, step)
        /\ \A n \in Nodes : pc[n] = "accept" => AcceptShared(ledger, n, ledger[n].finish) # None

\* No call of the session waits for ever: its super-step is answered, fails or is cut off.
CallsReturn == \A n \in Nodes : pc[n] = "parked" ~> (pc[n] # "parked" \/ phase # "running")
=============================================================================
