------------------------------ MODULE DurableRun ------------------------------
(***************************************************************************)
(* One workflow run as workflow-adk executes it, across crashes and         *)
(* resumes.  A run keeps four files: the loop ledger (two generations of    *)
(* the state of every agent node), the checkpoint (a digest of one          *)
(* generation and an event sequence), the event log and the run manifest    *)
(* (its status), beside the effect journal.  Each file is replaced in one   *)
(* step (write_atomic, a SQLite transaction), but a commit takes several    *)
(* files, and the process may die between any two of them.                  *)
(*                                                                          *)
(* A generation is a record: the tool calls admitted and not completed, the *)
(* audit token of every completed call (0: not completed), how far each     *)
(* node is in its visit and the super-step that owns the visit.  The digest *)
(* of a generation is the generation.  The graph runs in super-steps, each  *)
(* over a frontier of nodes: routes leave nodes out, loops visit them again.*)
(* It runs on one thread, so persisting excludes every other graph step;    *)
(* tool handlers run on threads of their own and outlive the graph.  Every  *)
(* command is a process of its own (workflowctl), so they die with it.      *)
(***************************************************************************)
EXTENDS Integers, Sequences, SequencesExt, FiniteSets

CONSTANTS
    Nodes,          \* the agent nodes
    Entry,          \* the first of them the graph enters
    Calls,          \* the calls the models may make: (tool, arguments)
    Owner,          \* the node whose model makes the call
    Journaled,      \* the calls served by StaticToolHandler, through the effect journal
    MaxToolCalls,   \* RunLimits.max_tool_calls, shared by all nodes
    MaxSteps,       \* bound on the super-steps of one behaviour
    MaxResumes,     \* bound on the resumes of one behaviour
    Faults          \* subset of {"crash", "io"}

ASSUME RunAssumption ==
    /\ Owner \in [Calls -> Nodes] /\ Journaled \subseteq Calls
    /\ Entry \in Nodes
    /\ MaxToolCalls \in Nat /\ MaxSteps \in Nat /\ MaxResumes \in Nat
    /\ IsFiniteSet(Calls) /\ IsFiniteSet(Nodes)

VARIABLES
    ledger,      \* loop-ledger.json: nodes, and checkpoint_nodes (ck)
    checkpoint,  \* checkpoint.sqlite: the digest it binds (gen), event_sequence (seq), continuation (front)
    events,      \* events.jsonl
    journal,     \* effects.sqlite: the calls with a committed result
    status,      \* run-manifest.json
    pc,          \* where the process is; "off": there is none
    mode,        \* "start" or "resume"
    mem,         \* LoopLedgerStore.nodes
    durable,     \* LoopLedgerStore.durable_nodes
    persist,     \* persist_generation under way: the generation, its next step, with a frontier or not
    frontier,    \* GraphCheckpointMemory: the super-step and its pending nodes
    begun,       \* the nodes of the super-step whose NodeStart was observed
    log,         \* AdkEventMapper.events
    handler,     \* per call: its handler thread in this process
    terminal,    \* terminal_kind is set, or the run is cancelled
    exec, perr, ckfail,   \* outcome of the graph, persistence_error, checkpoint_failed
    result,      \* what the last command returned
    acts,        \* how often each tool really acted
    resumes

disk == <<ledger, checkpoint, events, status>>
outcome == <<exec, perr, ckfail, result>>
visit == <<frontier, begun>>
vars == <<disk, journal, pc, mode, mem, durable, persist, log, handler, terminal, outcome, acts, resumes, visit>>

Phase == {"new", "entered", "asked", "finished"}
Empty == [pending |-> {}, done |-> [c \in Calls |-> 0],
          phase |-> [n \in Nodes |-> "new"], owner |-> [n \in Nodes |-> 0]]
Absent == [absent |-> TRUE]
Loaded(g) == [pending |-> g.pending, completed |-> {c \in Calls : g.done[c] # 0},
              phase |-> g.phase, owner |-> g.owner]
Done(g) == {<<c, g.done[c]>> : c \in {x \in Calls : g.done[x] # 0}}
\* An event is a pair: a completed call and its token, or another event and 0.
Started == <<"started", 0>>
Resumed == <<"resumed", 0>>
Failed == <<"failed", 0>>
Entered == <<"entered", 0>>
Tokens(s) == {s[i] : i \in {j \in DOMAIN s : s[j][2] # 0}}
Idle == [step |-> "none"]
Quiet == [c \in Calls |-> "none"]
Running == {"graph", "replay"}
FirstFrontier == [step |-> 0, nodes |-> {Entry}]
NoFrontier == [step |-> 0, nodes |-> {}]

Frontier == [step : Nat, nodes : SUBSET Nodes]
Generation == [pending : SUBSET Calls, done : [Calls -> Nat], phase : [Nodes -> Phase], owner : [Nodes -> Nat]]
Event == {Started, Resumed, Failed, Entered} \union (Calls \X (Nat \ {0}))
TypeOK ==
    /\ ledger = Absent \/ (ledger.nodes \in Generation /\ (ledger.ck = Absent \/ ledger.ck \in Generation))
    /\ checkpoint = Absent \/ (checkpoint.gen \in Generation /\ checkpoint.seq \in Nat /\ checkpoint.front \in Frontier)
    /\ events \in Seq(Event) /\ log \in Seq(Event)
    /\ journal \subseteq Journaled
    /\ status \in {"absent", "running", "succeeded", "failed"}
    /\ pc \in {"create", "started", "initial", "publish", "replay", "graph", "reconcile", "write", "save", "manifest", "off"}
    /\ mode \in {"start", "resume"} /\ exec \in {"none", "ok", "error", "denied"}
    /\ mem \in [pending : SUBSET Calls, completed : SUBSET Calls, phase : [Nodes -> Phase], owner : [Nodes -> Nat]]
    /\ durable \in Generation
    /\ persist = Idle \/ (persist.step \in {"events", "ledger", "checkpoint"} /\ persist.gen \in Generation /\ persist.frontier \in BOOLEAN)
    /\ frontier \in Frontier /\ begun \subseteq Nodes
    /\ handler \in [Calls -> {"none", "ready", "admitted", "acted", "reported"}]
    /\ {terminal, perr, ckfail} \subseteq BOOLEAN
    /\ result \in {"none", "ok", "error", "refused", "crashed"}
    /\ acts \in [Calls -> Nat] /\ resumes \in 0..MaxResumes

Init ==
    /\ ledger = Absent /\ checkpoint = Absent /\ events = <<>> /\ journal = {} /\ status = "absent"
    /\ pc = "create" /\ mode = "start" /\ mem = Loaded(Empty) /\ durable = Empty /\ persist = Idle
    /\ frontier = FirstFrontier /\ begun = {}
    /\ log = <<>> /\ handler = Quiet /\ terminal = FALSE
    /\ exec = "none" /\ perr = FALSE /\ ckfail = FALSE /\ result = "none"
    /\ acts = [c \in Calls |-> 0] /\ resumes = 0

-----------------------------------------------------------------------------
(* start: the four files are published before the graph runs.               *)

\* Any of the writes may fail (write_atomic even after its rename, if the
\* directory does not sync); the run is then closed as failed without a graph.
StartFails ==
    /\ pc \in {"create", "started", "initial", "publish"} /\ "io" \in Faults
    /\ perr' = TRUE /\ exec' = "error" /\ pc' = "reconcile"
    /\ log' = IF pc = "create" THEN <<Started>> ELSE log
    /\ status' \in IF pc = "publish" THEN {status, "running"} ELSE {status}
    /\ UNCHANGED <<ledger, checkpoint, events, journal, mode, mem, durable, persist, handler, terminal, ckfail, result, acts, resumes, visit>>

CreateLedger ==
    /\ pc = "create"
    /\ ledger' = [nodes |-> Empty, ck |-> Absent]
    /\ log' = <<Started>> /\ pc' = "started"
    /\ UNCHANGED <<checkpoint, events, status, journal, mode, mem, durable, persist, handler, terminal, outcome, acts, resumes, visit>>

StartEvents ==
    /\ pc = "started"
    /\ events' = log /\ pc' = "initial"
    /\ UNCHANGED <<ledger, checkpoint, status, journal, mode, mem, durable, persist, log, handler, terminal, outcome, acts, resumes, visit>>

InitialCheckpoint ==
    /\ pc = "initial"
    /\ checkpoint' = [gen |-> Empty, seq |-> Len(log), front |-> frontier] /\ pc' = "publish"
    /\ UNCHANGED <<ledger, events, status, journal, mode, mem, durable, persist, log, handler, terminal, outcome, acts, resumes, visit>>

PublishRun ==
    /\ pc = "publish"
    /\ status' = "running" /\ pc' = "graph"
    /\ UNCHANGED <<ledger, checkpoint, events, journal, mode, mem, durable, persist, log, handler, terminal, outcome, acts, resumes, visit>>

-----------------------------------------------------------------------------
(* persist_generation: ledger, then checkpoint, then the in-memory proof.   *)
(* With a frontier the event log comes first, and the checkpoint moves to   *)
(* its end and to the frontier's super-step.                                *)

\* A random identity: one that no file and no memory still mentions.
Known == (UNION {Done(g) : g \in {durable} \union
                  (IF ledger = Absent THEN {} ELSE {ledger.nodes, ledger.ck} \ {Absent}) \union
                  (IF checkpoint = Absent THEN {} ELSE {checkpoint.gen})})
            \union Tokens(log) \union Tokens(events)
FreshToken(c) == CHOOSE k \in 1..(Cardinality(Known) + 1) :
                    /\ <<c, k>> \notin Known
                    /\ \A j \in 1..(k - 1) : <<c, j>> \in Known

\* A completion the last generation already holds keeps its identity.
Prepare(m) == [pending |-> m.pending, phase |-> m.phase, owner |-> m.owner,
               done |-> [c \in Calls |-> IF c \notin m.completed THEN 0
                                         ELSE IF durable.done[c] # 0 THEN durable.done[c]
                                         ELSE FreshToken(c)]]

\* The memory is changed before the files are, and stays changed if they fail.
Persisting(m) ==
    /\ mem' = m
    /\ persist' = [step |-> "ledger", gen |-> Prepare(m), frontier |-> FALSE]

PersistEvents ==
    /\ persist.step = "events"
    /\ events' = log
    /\ persist' = [persist EXCEPT !.step = "ledger"]
    /\ UNCHANGED <<ledger, checkpoint, status, journal, pc, mode, mem, durable, log, handler, terminal, outcome, acts, resumes, visit>>

\* Slip: the generation before the new one is kept, whatever the checkpoint binds.
LedgerStale(g) == [nodes |-> g, ck |-> ledger.nodes]

\* Beside the new generation, the one the checkpoint binds is kept.
WithCheckpointGeneration(g) ==
    [nodes |-> g,
     ck |-> IF checkpoint.gen = ledger.nodes THEN ledger.nodes ELSE ledger.ck]

PersistLedger ==
    /\ persist.step = "ledger"
    /\ ledger' = WithCheckpointGeneration(persist.gen)
    /\ persist' = [persist EXCEPT !.step = "checkpoint"]
    /\ UNCHANGED <<checkpoint, events, status, journal, pc, mode, mem, durable, log, handler, terminal, outcome, acts, resumes, visit>>

\* What the thread goes on with: the calls just admitted are dispatched (the
\* replay dispatches its own), a completed call is reported.
AfterPersist ==
    [c \in Calls |->
        CASE persist.gen.done[c] # 0 /\ handler[c] = "acted" -> "reported"
          [] pc = "graph" /\ c \in persist.gen.pending \ durable.pending -> "ready"
          [] OTHER -> handler[c]]

\* What admit_frontier checkpoints, or sync_checkpoint, which only binds anew.
NextCheckpoint ==
    IF persist.frontier THEN [gen |-> persist.gen, seq |-> Len(log), front |-> frontier]
    ELSE [checkpoint EXCEPT !.gen = persist.gen]

\* The memory of a frontier is replaced only now; the others changed it before.
PersistCheckpoint ==
    /\ persist.step = "checkpoint"
    /\ checkpoint' = NextCheckpoint
    /\ durable' = persist.gen /\ mem' = Loaded(persist.gen)
    /\ handler' = AfterPersist
    /\ persist' = Idle
    /\ UNCHANGED <<ledger, events, status, journal, pc, mode, log, terminal, outcome, acts, resumes, visit>>

\* Opening a store, writing or saving fails: the terminal kind is recorded and
\* the caller returns an error.  The error of a frontier ends the graph at once;
\* that of a node (exec) cancels the run, and its super-step ends with it.
PersistFails ==
    /\ persist # Idle /\ "io" \in Faults
    /\ persist' = Idle
    /\ terminal' = TRUE /\ exec' = "error"
    /\ pc' = IF persist.frontier THEN "reconcile" ELSE pc
    /\ UNCHANGED <<disk, journal, mode, mem, durable, log, handler, perr, ckfail, result, acts, resumes, visit>>

-----------------------------------------------------------------------------
(* LoopController: the callbacks around a node's model and tools.            *)

InGraph == pc = "graph" /\ persist = Idle
Admitted(m) == m.pending \union m.completed
NodeCalls(n) == {c \in Calls : Owner[c] = n}

\* A visit is owned by one super-step.
OwnedBy(m, n, k) == m.phase[n] # "new" /\ m.owner[n] = k

\* A node may enter a super-step that owns its visit already, or with no visit open.
MayEnter(m, n, k) ==
    OwnedBy(m, n, k) \/ (m.phase[n] \in {"new", "finished"} /\ m.pending \intersect NodeCalls(n) = {})

\* admit_frontier: every pending node without a visit of this super-step gets one.
AdmittedTo(m, f) ==
    LET enters == {n \in f.nodes : ~OwnedBy(m, n, f.step)}
    IN  [m EXCEPT !.phase = [n \in Nodes |-> IF n \in enters THEN "entered" ELSE m.phase[n]],
                  !.owner = [n \in Nodes |-> IF n \in enters THEN f.step ELSE m.owner[n]]]

\* Every NodeStart of a super-step comes before any of its nodes runs, and each
\* one admits the whole frontier; the memory stays as it is until that is saved.
\* (A node that may not enter would fail the run: AlwaysResumable excludes it.)
NodeStart(n) ==
    /\ InGraph /\ exec = "none"
    /\ n \in frontier.nodes \ begun
    /\ \A x \in frontier.nodes : MayEnter(mem, x, frontier.step)
    /\ begun' = begun \union {n}
    /\ log' = Append(log, Entered)
    /\ persist' = [step |-> "events", gen |-> Prepare(AdmittedTo(mem, frontier)), frontier |-> TRUE]
    /\ UNCHANGED <<disk, journal, pc, mode, mem, durable, handler, terminal, outcome, acts, resumes, frontier>>

\* The SDK polls a node once its whole frontier has started.
Visiting(n) == InGraph /\ n \in frontier.nodes /\ begun = frontier.nodes

\* Every node of the super-step has ended: the SDK follows the edges of the
\* graph to the next one, over some of the nodes, or over none: it is done.
NextFrontier(F) ==
    /\ InGraph /\ exec = "none"
    /\ frontier.nodes # {} /\ begun = frontier.nodes
    /\ \A n \in frontier.nodes : mem.phase[n] = "finished"
    /\ frontier.step + 1 < MaxSteps \/ F = {}
    /\ frontier' = [step |-> frontier.step + 1, nodes |-> F] /\ begun' = {}
    /\ UNCHANGED <<disk, journal, pc, mode, mem, durable, persist, log, handler, terminal, outcome, acts, resumes>>

\* The first request of a node is recorded before its model is called.  This
\* callback and observe_tool look at the cancellation flag, which a failed
\* callback sets and a deadline does not, so a recorded terminal kind alone does
\* not keep them from running once more; observe_model does not look at it.
BeforeModel(n) ==
    /\ Visiting(n) /\ exec = "none"
    /\ mem.phase[n] = "entered"
    /\ Persisting([mem EXCEPT !.phase[n] = "asked"])
    /\ UNCHANGED <<disk, journal, pc, mode, durable, log, handler, terminal, outcome, acts, resumes, visit>>

\* Slip: every node has the whole budget to itself.
NodeOnlyLimit(n, m) == Cardinality(Admitted(m) \intersect NodeCalls(n)) <= MaxToolCalls

\* The node's candidate state counts together with the states of its siblings.
WithinLimit(n, m) == Cardinality(Admitted(m)) <= MaxToolCalls

\* Slip: the calls are dispatched before their admission is durable.
AdmitEagerly(n, S) ==
    /\ Visiting(n)
    /\ mem.phase[n] = "asked" /\ mem.pending \intersect NodeCalls(n) = {}
    /\ S # {} /\ S \subseteq NodeCalls(n) \ mem.completed
    /\ LET next == [mem EXCEPT !.pending = @ \union S]
       IN  WithinLimit(n, next) /\ Persisting(next)
    /\ handler' = [c \in Calls |-> IF c \in S THEN "ready" ELSE handler[c]]
    /\ UNCHANGED <<disk, journal, pc, mode, durable, log, terminal, outcome, acts, resumes, visit>>

\* The model answers with calls; every other answer of it stops the run.  A
\* call it made before, or one too many, does so too (see Stop).
AdmitCalls(n, S) ==
    /\ Visiting(n)
    /\ mem.phase[n] = "asked" /\ mem.pending \intersect NodeCalls(n) = {}
    /\ S # {} /\ S \subseteq NodeCalls(n) \ mem.completed
    /\ LET next == [mem EXCEPT !.pending = @ \union S]
       IN  WithinLimit(n, next) /\ Persisting(next)
    /\ UNCHANGED <<disk, journal, pc, mode, durable, log, handler, terminal, outcome, acts, resumes, visit>>

AdmitFinish(n) ==
    /\ Visiting(n)
    /\ mem.phase[n] = "asked" /\ mem.pending \intersect NodeCalls(n) = {}
    /\ Persisting([mem EXCEPT !.phase[n] = "finished"])
    /\ UNCHANGED <<disk, journal, pc, mode, durable, log, handler, terminal, outcome, acts, resumes, visit>>

\* A handler's answer ends the call: pending becomes completed.
ObserveTool(c) ==
    /\ InGraph /\ exec = "none"
    /\ handler[c] = "acted" /\ c \in mem.pending
    /\ Persisting([mem EXCEPT !.pending = @ \ {c}, !.completed = @ \union {c}])
    /\ UNCHANGED <<disk, journal, pc, mode, durable, log, handler, terminal, outcome, acts, resumes, visit>>

\* Slip: the event is mapped while its generation is still being persisted.
LogEarly(c) ==
    /\ pc = "graph" /\ persist # Idle
    /\ persist.gen.done[c] # 0 /\ handler[c] = "acted"
    /\ <<c, persist.gen.done[c]>> \notin Tokens(log)
    /\ log' = Append(log, <<c, persist.gen.done[c]>>)
    /\ UNCHANGED <<disk, journal, pc, mode, mem, durable, persist, handler, terminal, outcome, acts, resumes, visit>>

\* The event of a completed call is mapped with the identity that was published.
LogCompletion(c) ==
    /\ InGraph
    /\ handler[c] = "reported" /\ durable.done[c] # 0
    /\ <<c, durable.done[c]>> \notin Tokens(log)
    /\ log' = Append(log, <<c, durable.done[c]>>)
    /\ UNCHANGED <<disk, journal, pc, mode, mem, durable, persist, handler, terminal, outcome, acts, resumes, visit>>

-----------------------------------------------------------------------------
(* A handler thread: admitted by the effect fence, then acts.  Registered   *)
(* implementations are not behind the fence.                                *)

FenceAdmit(c) ==
    /\ handler[c] = "ready" /\ (c \in Journaled => ~terminal)
    /\ handler' = [handler EXCEPT ![c] = "admitted"]
    /\ UNCHANGED <<disk, journal, pc, mode, mem, durable, persist, log, terminal, outcome, acts, resumes, visit>>

\* EffectJournal::commit: the first commit of a key wins, later ones read it.
Commit(c) ==
    IF c \in journal THEN UNCHANGED <<journal, acts>>
    ELSE /\ journal' = journal \union {c}
         /\ acts' = [acts EXCEPT ![c] = @ + 1]

\* A tool without the journal acts each time it is called.
HandlerActs(c) ==
    /\ handler[c] = "admitted"
    /\ handler' = [handler EXCEPT ![c] = "acted"]
    /\ IF c \in Journaled THEN Commit(c)
       ELSE acts' = [acts EXCEPT ![c] = @ + 1] /\ UNCHANGED journal
    /\ UNCHANGED <<disk, pc, mode, mem, durable, persist, log, terminal, outcome, resumes, visit>>

\* A deadline, a cancellation, an invalid answer of a model, a limit, a failed tool.
Stop ==
    /\ pc \in Running /\ ~terminal
    /\ terminal' = TRUE
    /\ UNCHANGED <<disk, journal, pc, mode, mem, durable, persist, log, handler, outcome, acts, resumes, visit>>

-----------------------------------------------------------------------------
(* resume: what the files must agree on, then replay, then the graph.       *)

Truncated(s, n) == SubSeq(s, 1, n)
\* validate_existing: every completion event is one of the generation's.
Validated(g, s) ==
    /\ Tokens(s) \subseteq Done(g)
    /\ \A i, j \in DOMAIN s : i # j /\ s[i] = s[j] => s[i][2] = 0

\* isolated::validate_checkpoint: no visit is ahead of the continuation, and
\* those of its pending nodes are of its super-step.
OwnersValid(g, f) ==
    \A n \in Nodes : g.phase[n] # "new" =>
        g.owner[n] <= f.step /\ (n \in f.nodes => g.owner[n] = f.step)

\* The generation the checkpoint binds is in the ledger, and its events exist.
Consistent ==
    /\ checkpoint # Absent /\ ledger # Absent
    /\ checkpoint.gen \in {ledger.nodes, ledger.ck}
    /\ Len(events) >= checkpoint.seq
    /\ Validated(checkpoint.gen, SubSeq(events, 1, checkpoint.seq))
    /\ OwnersValid(checkpoint.gen, checkpoint.front)
Resumable == status \in {"running", "succeeded"}

Resume ==
    /\ pc = "off" /\ resumes < MaxResumes
    /\ Resumable /\ Consistent
    /\ LET prefix == Truncated(events, checkpoint.seq)
       IN  events' = prefix /\ log' = Append(prefix, Resumed)
    /\ mem' = Loaded(checkpoint.gen) /\ durable' = checkpoint.gen
    /\ frontier' = checkpoint.front /\ begun' = {}
    /\ pc' = "replay" /\ mode' = "resume" /\ resumes' = resumes + 1 /\ result' = "none"
    /\ UNCHANGED <<ledger, checkpoint, status, journal, persist, handler, terminal, exec, perr, ckfail, acts>>

\* A step between the truncation and the replay fails: the manifest is not touched.
ResumeFails ==
    /\ pc = "off" /\ resumes < MaxResumes /\ "io" \in Faults
    /\ Resumable /\ Consistent
    /\ events' \in {events, Truncated(events, checkpoint.seq)}
    /\ resumes' = resumes + 1 /\ result' = "error"
    /\ UNCHANGED <<ledger, checkpoint, status, journal, pc, mode, mem, durable, persist, log, handler, terminal, exec, perr, ckfail, acts, visit>>

ResumeRefused ==
    /\ pc = "off" /\ resumes < MaxResumes
    /\ ~(Resumable /\ Consistent)
    /\ resumes' = resumes + 1 /\ result' = "refused"
    /\ UNCHANGED <<disk, journal, pc, mode, mem, durable, persist, log, handler, terminal, exec, perr, ckfail, acts, visit>>

InReplay == pc = "replay" /\ persist = Idle
Live(c) == handler[c] \in {"ready", "admitted", "acted"}

\* Pending calls are run again, one after the other.
ReplayPending(c) ==
    /\ InReplay /\ ~terminal
    /\ c \in mem.pending /\ \A d \in Calls : ~Live(d)
    /\ handler' = [handler EXCEPT ![c] = "ready"]
    /\ UNCHANGED <<disk, journal, pc, mode, mem, durable, persist, log, terminal, outcome, acts, resumes, visit>>

CompletePending(c) ==
    /\ InReplay /\ ~terminal
    /\ handler[c] = "acted" /\ c \in mem.pending
    /\ Persisting([mem EXCEPT !.pending = @ \ {c}, !.completed = @ \union {c}])
    /\ UNCHANGED <<disk, journal, pc, mode, durable, log, handler, terminal, outcome, acts, resumes, visit>>

\* The bridge denies the call (no fresh approval): nothing is run.
ReplayDenied ==
    /\ InReplay /\ ~terminal /\ \E c \in mem.pending : ~Live(c)
    /\ \A d \in Calls : ~Live(d)
    /\ exec' = "denied" /\ pc' = "reconcile"
    /\ UNCHANGED <<disk, journal, mode, mem, durable, persist, log, handler, terminal, perr, ckfail, result, acts, resumes, visit>>

ReplayFails ==
    /\ InReplay /\ terminal
    /\ exec' = "error" /\ pc' = "reconcile"
    /\ UNCHANGED <<disk, journal, mode, mem, durable, persist, log, handler, terminal, perr, ckfail, result, acts, resumes, visit>>

\* tool_audit::reconcile: completions of the generation that no event records.
Missing == {t \in Done(durable) : t \notin Tokens(log)}
Reconciled == log \o SetToSeq(Missing)

-----------------------------------------------------------------------------
(* The end of a command, and of the replay.                                  *)

\* The memory of the process, gone when it ends.
Exit(answer) ==
    /\ pc' = "off" /\ result' = answer
    /\ mem' = Loaded(Empty) /\ durable' = Empty /\ persist' = Idle /\ log' = <<>>
    /\ handler' = Quiet /\ terminal' = FALSE
    /\ exec' = "none" /\ perr' = FALSE /\ ckfail' = FALSE
    /\ frontier' = NoFrontier /\ begun' = {}
    /\ UNCHANGED <<journal, mode, acts, resumes>>

\* Mapping a completion stores artifacts: it may fail after some were mapped.
ReplayReconcileFails ==
    /\ InReplay /\ ~terminal /\ mem.pending = {} /\ Done(durable) # {} /\ "io" \in Faults
    /\ Exit("error") /\ UNCHANGED disk

ReplayDone ==
    /\ InReplay /\ ~terminal /\ mem.pending = {}
    /\ log' = Reconciled /\ pc' = "graph"
    /\ handler' = Quiet
    /\ UNCHANGED <<disk, journal, mode, mem, durable, persist, terminal, outcome, acts, resumes, visit>>

\* The stream is done: no node is pending and none failed.  A start still looks
\* at the terminal kind, a resume does not.
GraphDone ==
    /\ InGraph /\ exec = "none" /\ (mode = "start" => ~terminal)
    /\ frontier.nodes = {}
    /\ exec' = "ok" /\ pc' = "reconcile"
    /\ UNCHANGED <<disk, journal, mode, mem, durable, persist, log, handler, terminal, perr, ckfail, result, acts, resumes, visit>>

\* Slip: the end of the graph waits for its handlers.
GraphJoins ==
    /\ InGraph /\ terminal /\ \A c \in Calls : ~Live(c)
    /\ exec' = "error" /\ pc' = "reconcile"
    /\ UNCHANGED <<disk, journal, mode, mem, durable, persist, log, handler, terminal, perr, ckfail, result, acts, resumes, visit>>

\* The graph future is dropped; handlers that were admitted go on.
GraphFails ==
    /\ InGraph /\ terminal
    /\ exec' = "error" /\ pc' = "reconcile"
    /\ UNCHANGED <<disk, journal, mode, mem, durable, persist, log, handler, terminal, perr, ckfail, result, acts, resumes, visit>>

\* A resume returns at the first failure on its way to success (or denial);
\* otherwise the error is kept and the closing steps go on.
ReturnsEarly == mode = "resume" /\ exec \in {"ok", "denied"}

EndReconcile ==
    /\ pc = "reconcile"
    /\ pc' = "write"
    /\ log' = Reconciled \o (IF mode = "start" /\ exec = "error" THEN <<Failed>> ELSE <<>>)
    /\ UNCHANGED <<disk, journal, mode, mem, durable, persist, handler, terminal, outcome, acts, resumes, visit>>

EndReconcileFails ==
    /\ pc = "reconcile" /\ "io" \in Faults /\ Done(durable) # {}
    /\ IF ReturnsEarly THEN Exit("error") /\ UNCHANGED disk
       ELSE /\ pc' = "write" /\ perr' = TRUE
            /\ \E T \in SUBSET Missing :
                 log' = log \o SetToSeq(T) \o (IF mode = "start" /\ exec = "error" THEN <<Failed>> ELSE <<>>)
            /\ UNCHANGED <<disk, journal, mode, mem, durable, persist, handler, terminal, exec, ckfail, result, acts, resumes, visit>>

\* The next closing step: only a successful graph saves a checkpoint, and only
\* if nothing failed before it; a denied resume leaves the manifest alone.
AfterWrite(failed) == IF exec = "ok" /\ ~failed THEN "save" ELSE "manifest"

EndWriteEvents ==
    /\ pc = "write"
    /\ events' = log
    /\ IF exec = "denied" THEN Exit("error")
       ELSE /\ pc' = AfterWrite(perr)
            /\ UNCHANGED <<journal, mode, mem, durable, persist, log, handler, terminal, outcome, acts, resumes, visit>>
    /\ UNCHANGED <<ledger, checkpoint, status>>

\* The log is not written, or the artifacts it names are not synced; a start
\* takes the latter for a failed checkpoint.
EndWriteFails ==
    /\ pc = "write" /\ "io" \in Faults
    /\ events' \in {events, log} /\ UNCHANGED <<ledger, checkpoint, status>>
    /\ IF ReturnsEarly THEN Exit("error")
       ELSE /\ pc' = AfterWrite(TRUE) /\ perr' = TRUE
            /\ ckfail' \in {ckfail, mode = "start"}
            /\ UNCHANGED <<journal, mode, mem, durable, persist, log, handler, terminal, exec, result, acts, resumes, visit>>

\* The final checkpoint covers every event and binds the published generation.
FinalCheckpoint == [gen |-> durable, seq |-> Len(log), front |-> frontier]

EndSave ==
    /\ pc = "save"
    /\ checkpoint' = FinalCheckpoint
    /\ pc' = "manifest"
    /\ UNCHANGED <<ledger, events, status, journal, mode, mem, durable, persist, log, handler, terminal, outcome, acts, resumes, visit>>

EndSaveFails ==
    /\ pc = "save" /\ "io" \in Faults
    /\ UNCHANGED disk
    /\ IF ReturnsEarly THEN Exit("error")
       ELSE /\ pc' = "manifest" /\ perr' = TRUE /\ ckfail' = TRUE
            /\ UNCHANGED <<journal, mode, mem, durable, persist, log, handler, terminal, exec, result, acts, resumes, visit>>

FinalStatus == IF exec = "error" \/ ckfail THEN "failed" ELSE "succeeded"

Answer == IF exec = "ok" /\ ~perr THEN "ok" ELSE "error"

EndManifest ==
    /\ pc = "manifest"
    /\ status' = FinalStatus
    /\ Exit(Answer)
    /\ UNCHANGED <<ledger, checkpoint, events>>

EndManifestFails ==
    /\ pc = "manifest" /\ "io" \in Faults
    /\ status' \in {status, FinalStatus}
    /\ Exit("error")
    /\ UNCHANGED <<ledger, checkpoint, events>>

Crash ==
    /\ pc # "off" /\ "crash" \in Faults
    /\ Exit("crashed")
    /\ UNCHANGED disk

-----------------------------------------------------------------------------
Persist == PersistEvents \/ PersistLedger \/ PersistCheckpoint \/ PersistFails
Starting == StartFails \/ CreateLedger \/ StartEvents \/ InitialCheckpoint \/ PublishRun
Ending == \/ EndReconcile \/ EndReconcileFails \/ EndWriteEvents \/ EndWriteFails
          \/ EndSave \/ EndSaveFails \/ EndManifest \/ EndManifestFails
NodeStep(n) == NodeStart(n) \/ BeforeModel(n) \/ AdmitFinish(n) \/ \E S \in SUBSET NodeCalls(n) : AdmitCalls(n, S)
CallStep(c) == \/ ObserveTool(c) \/ LogCompletion(c) \/ FenceAdmit(c) \/ HandlerActs(c)
               \/ ReplayPending(c) \/ CompletePending(c)
Finished == pc = "off" /\ resumes = MaxResumes /\ UNCHANGED vars

Next ==
    \/ Starting \/ Persist \/ Ending
    \/ \E n \in Nodes : NodeStep(n)
    \/ \E c \in Calls : CallStep(c)
    \/ \E F \in SUBSET Nodes : NextFrontier(F)
    \/ Stop \/ GraphDone \/ GraphFails
    \/ Resume \/ ResumeFails \/ ResumeRefused \/ ReplayReconcileFails \/ ReplayDenied \/ ReplayFails \/ ReplayDone
    \/ Crash \/ Finished

Spec == Init /\ [][Next]_vars

\* The process keeps running, and a run has a wall deadline (wait_for_run_deadline,
\* EffectFence::admit).  Models and tools may hang for ever: no fairness for them.
FairSpec ==
    /\ Spec
    /\ WF_vars(Starting) /\ WF_vars(Persist) /\ WF_vars(Ending) /\ WF_vars(Stop)
    /\ WF_vars(GraphDone \/ GraphFails) /\ WF_vars(ReplayFails \/ ReplayDone \/ ReplayReconcileFails)

-----------------------------------------------------------------------------
(* Properties.                                                              *)

\* Whenever the process dies, a run whose manifest says running or succeeded
\* can be resumed: LoopLedgerStore::open finds the generation the checkpoint
\* binds, the event log reaches its sequence, validate_existing and
\* validate_checkpoint accept them.  And admit_frontier refuses no node of a
\* super-step, neither in the running graph nor in the one resumed.
AlwaysResumable ==
    /\ Resumable =>
          /\ Consistent
          /\ \A n \in checkpoint.front.nodes :
                MayEnter(Loaded(checkpoint.gen), n, checkpoint.front.step)
    /\ InGraph /\ exec = "none" =>
          \A n \in frontier.nodes : MayEnter(mem, n, frontier.step)

\* What is reported is durable: a completion event exists, in memory or on
\* disk, only for a completion that the checkpoint's generation holds under
\* the same identity; and behind an Ok receipt no node is pending or in the
\* middle of a visit, whatever routes and loops it took, no call is pending,
\* every completed call recorded once, the log covered by the checkpoint.
ReportedIsDurable ==
    /\ (Tokens(log) \union Tokens(events)) \subseteq (IF checkpoint = Absent THEN {} ELSE Done(checkpoint.gen))
    /\ result = "ok" =>
          /\ status = "succeeded" /\ Consistent
          /\ checkpoint.gen.pending = {} /\ checkpoint.front.nodes = {}
          /\ \A n \in Nodes : checkpoint.gen.phase[n] \in {"new", "finished"}
          /\ checkpoint.seq = Len(events) /\ Tokens(events) = Done(checkpoint.gen)

\* max_tool_calls bounds the calls of all nodes together, across resumes, and
\* a tool behind the effect journal acts once, however often it is replayed.
WithinToolCalls ==
    /\ checkpoint = Absent \/ Cardinality(Admitted(Loaded(checkpoint.gen))) <= MaxToolCalls
    /\ \A c \in Journaled : acts[c] <= 1

\* A tool acts only while its call is admitted and not completed in the
\* checkpoint: not before the admission is durable, never again after its
\* completion is, whatever crashes and resumes lie between.
EffectOnlyWhilePending ==
    [][\A c \in Calls : acts'[c] # acts[c] => checkpoint # Absent /\ c \in checkpoint.gen.pending]_vars

\* Every command returns (or its process dies), though models and tools may hang.
CommandReturns == pc # "off" ~> pc = "off"
=============================================================================
