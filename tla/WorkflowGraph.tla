---------------------------- MODULE WorkflowGraph ----------------------------
(***************************************************************************)
(* A workflow from its IR to its result: the compiler's verdict, the        *)
(* translation into an ADK graph (fan-in guards, the revise admission node, *)
(* unknown-route nodes, the recursion limit), and the execution of that     *)
(* graph by super-steps with a checkpoint after each, crashes and resumes.  *)
(*                                                                          *)
(* The SDK's executor is external: it runs the nodes of the frontier        *)
(* together, merges their updates in the order they end, saves a checkpoint *)
(* with the next frontier, and stops at the recursion limit.                *)
(***************************************************************************)
EXTENDS GraphValidation

CONSTANTS
    Workflows,      \* the IRs that may be submitted
    Keys,           \* state keys agents write
    Selectors,      \* route keys; OtherSelector is a value no case names
    OtherSelector,
    ConfigLimit,    \* recursion limit of the caller's ExecutionConfig
    MaxRuns,        \* bound on invocations and resumes
    MaxStep         \* bound on super-steps, above every recursion limit

ASSUME GraphAssumption ==
    /\ OtherSelector \notin Selectors
    /\ ConfigLimit \in Nat \ {0} /\ MaxRuns \in Nat /\ MaxStep \in Nat
    /\ \A g \in Workflows :
          g.nodes \subseteq Nat /\ g.max_visits \in [g.nodes -> Nat \cup {None}]

\* A missing value is told apart from the answers of the checks and from the host's.
ASSUME NoneAssumption ==
    None \notin {"ok", "match", "InvalidPlacement", "ReviewerTool", "ReservedSkillTool",
                 "EmptyRouteCases", "DuplicateRouteOrigin", "MixedRouteAndEdgeOrigin",
                 "DanglingEdge", "DanglingRoute", "VisitBound", "FanInConflict", "UnknownRoute"}

\* The SDK's default recursion limit, which graph_recursion_limit falls back to.
DefaultLimit == 50

VARIABLES
    ir,        \* the submitted workflow
    phase,     \* "submitted", "compiled", "rejected", "translated", "running", "unsaved",
               \* "done", "failed", "down"
    verdict,   \* what the compiler or the translator answered
    adk,       \* the AdkGraph: guards, provenance, limit, bound, checkpointed
    frontier,  \* tasks of the next super-step
    step,
    mem,       \* the State: entries [target, source, gen, key, by]
    visits,    \* its visits:<node> entries
    gens,      \* <<agent, target>> -> in-memory generation counter
    ckpt,      \* the saved checkpoint, None for none
    reason,    \* why the last invocation failed
    runs,      \* invocations and resumes so far
    pend,      \* history: branch writes no guard has consumed
    executed,  \* history: node -> times it ran since the last fresh invocation
    resumes,   \* history: resumes since the last fresh invocation
    allowed    \* history: the firewall gate has let this invocation pass

state == <<frontier, step, mem, visits, pend>>
graphVars == <<ir, phase, verdict, adk, frontier, step, mem, visits, gens, ckpt, reason,
          runs, pend, executed, resumes, allowed>>

Ended == {"done", "failed", "down"}

-----------------------------------------------------------------------------
(* Translation.                                                              *)

Task(at, id) == [at |-> at, id |-> id]

Predecessors(g, t) == {n \in g.nodes : t \in Adjacency(g)[n]}

\* A walk from `from` to `to` that does not go on from the target.
CanReachBeforeTarget(g, from, to, target) ==
    to \in Reachability(from, [n \in g.nodes |-> IF n = target THEN {} ELSE Adjacency(g)[n]])

\* Predecessors that do not lie on one another's way to the target.
FanInSources(g, t) ==
    LET before(a, b) == CanReachBeforeTarget(g, a, b, t)
    IN  {s \in Predecessors(g, t) :
            \E o \in Predecessors(g, t) : s # o /\ ~before(s, o) /\ ~before(o, s)}

\* Targets some node reaches through two of these sources.
FanIn(g) ==
    {t \in g.nodes : \E w \in g.nodes :
        Cardinality({s \in FanInSources(g, t) : CanReachBeforeTarget(g, w, s, t)}) > 1}

\* The targets an agent writes for, each with the one source it reaches.
FanInTargets(g, w) ==
    {ts \in FanIn(g) \X g.nodes :
        {s \in FanInSources(g, ts[1]) : CanReachBeforeTarget(g, w, s, ts[1])} = {ts[2]}}

IrVisitBound(g) ==
    LET declared == {n \in g.nodes : g.max_visits[n] # None}
        bound == MapThenSumSet(LAMBDA n : g.max_visits[n], declared)
    IN  IF bound = 0 THEN None ELSE bound

GraphRecursionLimit(g) ==
    LET bound == IF IrVisitBound(g) = None THEN DefaultLimit ELSE IrVisitBound(g)
        revise == IF g.max_visits[g.revise] = None THEN 0 ELSE g.max_visits[g.revise]
    IN  IF g.revise = None THEN bound ELSE bound + 2 * (revise + 1) + 16

Gates(g) == {n \in g.nodes : g.firewall[n] # None}

ValidateBinding(g, host) ==
    \/ Gates(g) = {} /\ host = None
    \/ /\ Cardinality(Gates(g)) = 1 /\ host = "match"
       /\ \A n \in Gates(g) : g.kind[n] = "validator" /\ n = g.entry

\* translate_ir: the second validation, then the adapter's graph.
TranslateIr(g, host, durable) ==
    /\ verdict' = IF ValidateGraph(g) # "ok" THEN "InvalidGraph"
                  ELSE IF ~ValidateBinding(g, host) THEN "FirewallBinding"
                  ELSE "ok"
    /\ phase' = IF verdict' = "ok" THEN "translated" ELSE "rejected"
    /\ adk' = IF verdict' # "ok" THEN None
              ELSE [guards |-> FanIn(g),
                    provenance |-> [n \in g.nodes |->
                                      IF g.kind[n] = "agent" THEN FanInTargets(g, n) ELSE {}],
                    bound |-> IrVisitBound(g),
                    limit |-> IF IrVisitBound(g) # None THEN GraphRecursionLimit(g)
                              ELSE Min({GraphRecursionLimit(g), ConfigLimit}),
                    checkpointed |-> durable]

\* Edges into a fan-in target go to its guard, edges into "revise" to its admission node.
RewriteTarget(t) ==
    IF t \in adk.guards THEN Task("guard", t)
    ELSE IF t = ir.revise THEN Task("admit", t)
    ELSE Task("node", t)

\* START, and every edge authored from its reserved name.
StartTasks == {RewriteTarget(t) : t \in {ir.entry} \cup {e[2] : e \in {d \in ir.edges : d[1] = StartId}}}

RouteTask(r, selector) ==
    IF selector \in DOMAIN r.cases THEN RewriteTarget(r.cases[selector])
    ELSE IF r.default # None THEN RewriteTarget(r.default)
    ELSE Task("unknown", r.from)

NextTasks(task, selector) ==
    LET n == task.id
        taken == CASE task.at = "guard" -> {IF n = ir.revise THEN Task("admit", n) ELSE Task("node", n)}
                   [] task.at = "admit" -> {Task("node", n)}
                   [] OTHER -> {RewriteTarget(e[2]) : e \in {d \in ir.edges : d[1] = n}}
                                 \cup {RouteTask(r, selector) : r \in {q \in ir.routes : q.from = n}}
    IN  {t \in taken : t.at # "end"}

-----------------------------------------------------------------------------
(* What the tasks of a super-step do to the State.                           *)

Plain(key, by) == [target |-> None, source |-> None, gen |-> 0, key |-> key, by |-> by]
Slot(u) == [u EXCEPT !.by = None]
StripFanIn(m) == {u \in m : u.target = None}

\* FanInCheckpointer: consumed provenance is not saved.
StripConsumed(m) == {u \in m : u.target = None \/ u.by # None}

\* The output mapper of an agent that returned writes to the keys in w.
AgentUpdates(n, w) ==
    (IF adk.provenance[n] = {} THEN {Plain(k, n) : k \in w}
     ELSE {[target |-> ts[1], source |-> ts[2], gen |-> gens[<<n, ts[1]>>], key |-> k, by |-> n]
              : ts \in adk.provenance[n], k \in w})
    \cup (IF ir.contract[n] = None THEN {} ELSE {Plain(ir.contract[n].output, n)})

Pending(t) == {u \in mem : u.target = t /\ u.by # None}

GuardConflict(t) == \E u, v \in Pending(t) : u # v /\ u.key = v.key

GuardUpdates(t) == {Plain(u.key, u.by) : u \in Pending(t)} \cup {Slot(u) : u \in Pending(t)}

TaskUpdates(task, writes) ==
    CASE task.at = "guard" -> GuardUpdates(task.id)
      [] task.at = "node" /\ ir.kind[task.id] = "agent" -> AgentUpdates(task.id, writes[task.id])
      [] OTHER -> {}

\* The SDK merges updates in the order the nodes end: of those to one entry any may be last.
Merges(updates) ==
    {win \in SUBSET updates :
        \A u \in updates : Cardinality({v \in win : Slot(v) = Slot(u)}) = 1}

Merge(m, win) == {u \in m : \A v \in win : Slot(u) # Slot(v)} \cup win

-----------------------------------------------------------------------------
NodeTasks == {t.id : t \in {u \in frontier : u.at = "node"}}
Agents == {n \in NodeTasks : ir.kind[n] = "agent"}
Routed == {n \in NodeTasks : \E r \in ir.routes : r.from = n}
Counted == {n \in NodeTasks : ir.kind[n] # "agent" /\ ir.firewall[n] = None}

VisitExceeded(n) == n \in Counted /\ ir.max_visits[n] # None /\ visits[n] >= ir.max_visits[n]

\* What stops the super-step whatever its nodes answer.
StepFault ==
    CASE \E n \in NodeTasks : VisitExceeded(n) -> "VisitBound"
      [] \E t \in frontier : t.at = "guard" /\ GuardConflict(t.id) -> "FanInConflict"
      [] \E t \in frontier : t.at = "unknown" -> "UnknownRoute"
      [] OTHER -> None

\* A node at its bound is refused before its body runs.
Ran == [n \in DOMAIN executed |->
          executed[n] + (IF n \in NodeTasks /\ ~VisitExceeded(n) THEN 1 ELSE 0)]

Zero(S) == [x \in S |-> 0]
Generations == Zero((ir.nodes \cup {StartId}) \X ir.nodes)

GraphInit ==
    /\ ir \in Workflows
    /\ phase = "submitted" /\ verdict = None /\ adk = None
    /\ frontier = {} /\ step = 0 /\ mem = {} /\ visits = Zero(ir.nodes)
    /\ gens = Generations /\ ckpt = None /\ reason = None /\ runs = 0
    /\ pend = {} /\ executed = Zero(ir.nodes) /\ resumes = 0 /\ allowed = FALSE

Compile ==
    /\ phase = "submitted"
    /\ verdict' \in IF ir.registry = None THEN {CompileWithoutPredicates(ir)}
                    ELSE {CompileWithPredicates(ir), GraphBuild(ir)}
    /\ phase' = IF verdict' = "ok" THEN "compiled" ELSE "rejected"
    /\ UNCHANGED <<ir, adk, state, gens, ckpt, reason, runs, executed, resumes, allowed>>

\* translate_with_firewall has no checkpointer; the others take no invocation.
Translate ==
    /\ phase = "compiled"
    /\ \E durable \in IF ir.host = None THEN BOOLEAN ELSE {FALSE} : TranslateIr(ir, ir.host, durable)
    /\ UNCHANGED <<ir, state, gens, ckpt, reason, runs, executed, resumes, allowed>>

\* translate_resolved: an IR that did not come from the compiler.
TranslateResolved ==
    /\ phase = "submitted"
    /\ TranslateIr(ir, None, TRUE)
    /\ UNCHANGED <<ir, state, gens, ckpt, reason, runs, executed, resumes, allowed>>

\* invoke with a fresh state, or with the one the last invocation returned.
Invoke ==
    /\ phase \in {"translated"} \cup Ended
    /\ runs < MaxRuns /\ runs' = runs + 1
    /\ phase' = "running"
    /\ frontier' = StartTasks
    /\ step' = 0
    /\ mem' \in {{}, StripFanIn(mem)}
    /\ visits' = Zero(ir.nodes)
    /\ gens' = IF phase = "down" THEN Generations ELSE gens
    /\ pend' = {} /\ executed' = Zero(ir.nodes) /\ resumes' = 0 /\ allowed' = FALSE
    /\ ckpt' = None
    /\ reason' = None
    /\ UNCHANGED <<ir, verdict, adk>>

\* Slip: a resumed invocation drops its visit counts, as a fresh one does.
ResumeFresh ==
    /\ phase \in {"failed", "down"}
    /\ ckpt # None
    /\ runs < MaxRuns /\ runs' = runs + 1
    /\ phase' = "running"
    /\ frontier' = ckpt.frontier /\ step' = ckpt.step
    /\ mem' = StripConsumed(ckpt.mem) /\ visits' = Zero(ir.nodes) /\ pend' = ckpt.pend
    /\ gens' = IF phase = "down" THEN Generations ELSE gens
    /\ resumes' = resumes + 1
    /\ reason' = None
    /\ UNCHANGED <<ir, verdict, adk, ckpt, executed, allowed>>

\* invoke with resume_from: visits and pending provenance come from the checkpoint.
Resume ==
    /\ phase \in {"failed", "down"}
    /\ ckpt # None
    /\ runs < MaxRuns /\ runs' = runs + 1
    /\ phase' = "running"
    /\ frontier' = ckpt.frontier /\ step' = ckpt.step
    /\ mem' = StripConsumed(ckpt.mem) /\ visits' = ckpt.visits /\ pend' = ckpt.pend
    /\ gens' = IF phase = "down" THEN Generations ELSE gens
    /\ resumes' = resumes + 1
    /\ reason' = None
    /\ UNCHANGED <<ir, verdict, adk, ckpt, executed, allowed>>

\* A firewalled graph refuses to resume.
RefuseResume ==
    /\ phase \in Ended /\ Gates(ir) # {}
    /\ runs < MaxRuns /\ runs' = runs + 1
    /\ phase' = "failed" /\ reason' = "AuthorizationDenied"
    /\ UNCHANGED <<ir, verdict, adk, state, gens, ckpt, executed, resumes, allowed>>

\* One super-step in which every node succeeds.
SuperStep ==
    /\ phase = "running" /\ frontier # {} /\ step < adk.limit /\ step < MaxStep
    /\ StepFault = None
    /\ \E writes \in [Agents -> SUBSET Keys],
          selects \in [Routed -> Selectors \cup {OtherSelector}] :
         LET updates == UNION {TaskUpdates(t, writes) : t \in frontier}
             selector(t) == IF t.at = "node" /\ t.id \in Routed THEN selects[t.id] ELSE OtherSelector
             branch == UNION {{[target |-> ts[1], source |-> ts[2], key |-> k, by |-> n]
                                 : ts \in adk.provenance[n], k \in writes[n]} : n \in Agents}
         IN  /\ \E win \in Merges(updates) : mem' = Merge(mem, win)
             /\ frontier' = UNION {NextTasks(t, selector(t)) : t \in frontier}
             /\ gens' = [a \in DOMAIN gens |->
                            IF /\ a[1] \in Agents /\ writes[a[1]] # {}
                               /\ \E s \in ir.nodes : <<a[2], s>> \in adk.provenance[a[1]]
                            THEN gens[a] + 1 ELSE gens[a]]
             /\ pend' = {p \in pend : Task("guard", p.target) \notin frontier} \cup branch
    /\ visits' = [n \in DOMAIN visits |-> visits[n] + (IF n \in Counted THEN 1 ELSE 0)]
    /\ executed' = Ran
    /\ allowed' = (allowed \/ NodeTasks \cap Gates(ir) # {})
    /\ step' = step + 1
    /\ phase' = IF adk.checkpointed THEN "unsaved" ELSE "running"
    /\ UNCHANGED <<ir, verdict, adk, ckpt, reason, runs, resumes>>

SaveCheckpoint ==
    /\ phase = "unsaved"
    /\ ckpt' = [frontier |-> frontier, step |-> step, mem |-> StripConsumed(mem),
                visits |-> visits, pend |-> pend]
    /\ phase' = "running"
    /\ UNCHANGED <<ir, verdict, adk, state, gens, reason, runs, executed, resumes, allowed>>

Finish ==
    /\ phase = "running" /\ frontier = {}
    /\ phase' = "done"
    /\ mem' = StripFanIn(mem)
    /\ UNCHANGED <<ir, verdict, adk, frontier, step, visits, pend, gens, ckpt, reason, runs,
                   executed, resumes, allowed>>

Fail(why) ==
    /\ phase' = "failed" /\ reason' = why
    /\ UNCHANGED <<ir, verdict, adk, state, gens, ckpt, runs, resumes, allowed>>

SaveFails == phase = "unsaved" /\ Fail("Failed") /\ UNCHANGED executed

\* Slip: the limit counts as exceeded one step after the executor has stopped.
LimitPassed ==
    /\ phase = "running" /\ frontier # {} /\ step > adk.limit
    /\ Fail(IF adk.bound = adk.limit THEN "VisitBound" ELSE "RecursionLimit")
    /\ UNCHANGED executed

LimitExceeded ==
    /\ phase = "running" /\ frontier # {} /\ step >= adk.limit
    /\ Fail(IF adk.bound = adk.limit THEN "VisitBound" ELSE "RecursionLimit")
    /\ UNCHANGED executed

\* An error the graph itself raises; the other nodes of the super-step may have run.
StepFails ==
    /\ phase = "running" /\ frontier # {} /\ step < adk.limit
    /\ StepFault # None
    /\ Fail(StepFault)
    /\ executed' = Ran

\* The error of an agent, a transform or the gate.  An invalid answer of a routed
\* agent without default is reported as Unreachable.
NodeFails ==
    /\ phase = "running" /\ step < adk.limit
    /\ \E n \in {m \in NodeTasks : ir.kind[m] # "terminal"} :
         Fail(IF ir.firewall[n] # None THEN "AuthorizationDenied"
              ELSE IF n \notin Agents THEN "Failed"
              ELSE IF \E r \in ir.routes : r.from = n /\ r.default = None THEN "Unreachable"
              ELSE "InvalidOutput")
    /\ executed' = Ran

Crash ==
    /\ phase \in {"running", "unsaved"}
    /\ phase' = "down"
    /\ frontier' = {} /\ step' = 0 /\ mem' = {} /\ visits' = Zero(ir.nodes) /\ pend' = {}
    /\ UNCHANGED <<ir, verdict, adk, gens, ckpt, reason, runs, executed, resumes, allowed>>

Progress == SuperStep \/ SaveCheckpoint \/ Finish \/ LimitExceeded \/ StepFails

GraphNext ==
    \/ Compile \/ Translate \/ TranslateResolved
    \/ Invoke \/ Resume \/ RefuseResume
    \/ Progress \/ SaveFails \/ NodeFails \/ Crash

GraphSpec == GraphInit /\ [][GraphNext]_graphVars

\* The executor polls a run until its stream ends.
GraphFairSpec == GraphSpec /\ WF_graphVars(Progress)

-----------------------------------------------------------------------------
(* Properties.                                                               *)

\* Reference: y is reached from x if every set that holds the successors of x and of its
\* own members holds y.  A cycle is a node that reaches itself.
Leads(adj, x, y) ==
    \A S \in SUBSET DOMAIN adj : adj[x] \subseteq S /\ (\A n \in S : adj[n] \subseteq S) => y \in S

SoundGraph(g) ==
    LET adj == Adjacency(g)
        cyclic == {n \in g.nodes : Leads(adj, n, n)}
        terminals == {n \in g.nodes : g.kind[n] = "terminal"}
    IN  /\ \A n \in g.nodes : n = g.entry \/ Leads(adj, g.entry, n)
        /\ \A n \in g.nodes : n \in terminals \/ \E t \in terminals : Leads(adj, n, t)
        /\ \A n \in cyclic : g.max_visits[n] \notin {None, 0}
        /\ \A n \in cyclic : g.kind[n] = "action" => n \in g.idempotent

\* A graph is translated exactly if, by the closure of its edges, every node is reached,
\* every node reaches a terminal, every cycle is bounded and repeats no unsafe action
\* (validate_graph's two-pass search and closures decide this for every small graph).
VerdictIsReference ==
    /\ phase \in {"compiled", "translated"} => SoundGraph(ir)
    /\ verdict \in {"UnreachableNode", "NoReachableTerminal", "UnboundedCycle",
                    "NonIdempotentCycleNode", "CannotReachTerminal"} => ~SoundGraph(ir)

\* A bounded node runs at most max_visits times in an invocation, and a resume gives it
\* back at most the visit of the super-step that was not saved (visits:<node>).
VisitsSurviveResume ==
    \A n \in ir.nodes :
        ir.kind[n] # "agent" /\ ir.firewall[n] = None /\ ir.max_visits[n] # None
            => executed[n] <= ir.max_visits[n] + resumes

\* Where a workflow has a firewall gate, nothing else runs before the gate has allowed
\* it, and the gate runs once in an invocation.
GateBeforeWork ==
    Gates(ir) # {} =>
        /\ (\E n \in ir.nodes \ Gates(ir) : executed[n] > 0) => allowed
        /\ \A n \in Gates(ir) : executed[n] <= 1

\* Every invocation ends, cycles or not, for the recursion limit stops it.
RunEnds == phase \in {"running", "unsaved"} ~> phase \in Ended
=============================================================================
