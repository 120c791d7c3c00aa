--------------------------- MODULE GraphValidation ---------------------------
(***************************************************************************)
(* The compiler's preflight checks of a workflow graph, as operators on the *)
(* canonical IR: validated_ir with the checks it calls, in their order, and *)
(* the two graph algorithms they rest on (a breadth-first closure and the   *)
(* two-pass search for strongly connected components).                      *)
(*                                                                          *)
(* An IR is a record.  Node ids are naturals in the order of the sorted     *)
(* node list; StartId stands for "__start__", which ADK reads as control    *)
(* flow, and EmptyId for "".  What a node does not declare is None.         *)
(***************************************************************************)
EXTENDS Integers, FiniteSets, Sequences, SequencesExt, FiniteSetsExt

CONSTANT None

Kinds == {"agent", "action", "validator", "approval", "terminal"}
StartId == 0
EmptyId == -1

Targets(route) == {route.cases[c] : c \in DOMAIN route.cases}
                      \cup (IF route.default = None THEN {} ELSE {route.default})

ApprovalError(ir) ==
    \E n \in ir.nodes :
        IF ir.kind[n] = "approval" THEN ir.timeout[n] \in {None, 0} ELSE ir.timeout[n] # None

InvalidGate(ir, n) ==
    \/ ir.kind[n] # "validator"
    \/ n # ir.entry
    \/ ir.firewall[n] = "malformed"
    \/ \E e \in ir.edges : e[2] = n
    \/ \E r \in ir.routes : n \in Targets(r)

NodeBindingError(ir, n) ==
    CASE ir.firewall[n] # None /\ InvalidGate(ir, n) -> "InvalidPlacement"
      [] ir.kind[n] # "agent" /\ (ir.bindings[n] # {} \/ ir.contract[n] # None) -> "InvalidPlacement"
      [] "reviewer" \in ir.bindings[n]
             /\ ir.bindings[n] \cap {"tool", "reserved_tool", "skill"} # {} -> "ReviewerTool"
      [] "reserved_tool" \in ir.bindings[n] -> "ReservedSkillTool"
      [] OTHER -> None

\* The first node at fault, in the order of the list.
BindingError(ir) ==
    LET faulty == {n \in ir.nodes : NodeBindingError(ir, n) # None}
    IN  IF faulty = {} THEN None ELSE NodeBindingError(ir, Min(faulty))

\* Slip: reserved control identifiers are taken for ordinary nodes.
AnyIdentifier(ir) == FALSE

InvalidIdentifier(ir) ==
    \/ ir.entry = EmptyId
    \/ ir.nodes \cap {StartId, EmptyId} # {}
    \/ \E e \in ir.edges : EmptyId \in {e[1], e[2]}
    \/ \E r \in ir.routes : EmptyId \in {r.from} \cup {r.cases[c] : c \in DOMAIN r.cases}

\* Two entries of the sorted node list with one id.
DuplicateNode(ir) == ir.duplicates # {}

RouteStructureError(ir) ==
    CASE \E r \in ir.routes : DOMAIN r.cases = {} -> "EmptyRouteCases"
      [] \E r, q \in ir.routes : r # q /\ r.from = q.from -> "DuplicateRouteOrigin"
      [] \E r \in ir.routes : \E e \in ir.edges : e[1] = r.from -> "MixedRouteAndEdgeOrigin"
      [] OTHER -> None

HasNode(ir, n) == n \in ir.nodes

DanglingError(ir) ==
    CASE \E e \in ir.edges : ~HasNode(ir, e[1]) \/ ~HasNode(ir, e[2]) -> "DanglingEdge"
      [] \E r \in ir.routes : ~HasNode(ir, r.from)
                                \/ \E t \in Targets(r) : ~HasNode(ir, t) -> "DanglingRoute"
      [] OTHER -> None

Adjacency(ir) ==
    [n \in ir.nodes |-> {e[2] : e \in {d \in ir.edges : d[1] = n}}
                            \cup UNION {Targets(r) : r \in {q \in ir.routes : q.from = n}}]

Reversed(adj) == [n \in DOMAIN adj |-> {m \in DOMAIN adj : n \in adj[m]}]

\* The queue of the code, one layer at a time.
ReachabilityFrom(starts, adj) ==
    LET layer[k \in 0..Cardinality(DOMAIN adj)] ==
            IF k = 0 THEN starts
            ELSE LET reached == layer[k - 1] IN reached \cup UNION {adj[n] : n \in reached}
    IN  layer[Cardinality(DOMAIN adj)]

Reachability(start, adj) == ReachabilityFrom({start}, adj)

-----------------------------------------------------------------------------
(* cyclic_components: a depth-first search that records the order in which   *)
(* nodes are finished, then reverse searches in the opposite order.          *)

DfsStep(adj, d) ==
    LET unseen == DOMAIN adj \ d.visited
        enter(n, stack) == [d EXCEPT !.visited = @ \cup {n}, !.stack = Append(stack, n)]
        next == adj[Last(d.stack)] \ d.visited
    IN  IF d.stack = <<>>
        THEN IF unseen = {} THEN d ELSE enter(Min(unseen), <<>>)
        ELSE IF next # {} THEN enter(Min(next), d.stack)
        ELSE [d EXCEPT !.finished = Append(@, Last(d.stack)), !.stack = Front(@)]

Finished(adj) ==
    LET rounds == 2 * Cardinality(DOMAIN adj)
        dfs[k \in 0..rounds] == IF k = 0 THEN [visited |-> {}, stack |-> <<>>, finished |-> <<>>]
                                ELSE DfsStep(adj, dfs[k - 1])
    IN  dfs[rounds].finished

Components(adj) ==
    LET rev == Reversed(adj)
        collect(n, done) ==
            IF n \in UNION done THEN done
            ELSE LET open == DOMAIN adj \ UNION done
                 IN  done \cup {ReachabilityFrom({n}, [m \in open |-> rev[m] \cap open])}
    IN  FoldRight(LAMBDA n, done : collect(n, done), Finished(adj), {})

\* Slip: a component of one node is taken for acyclic.
LargeComponents(adj) == {c \in Components(adj) : Cardinality(c) > 1}

CyclicComponents(adj) ==
    {c \in Components(adj) : Cardinality(c) > 1 \/ \E n \in c : n \in adj[n]}

-----------------------------------------------------------------------------
ValidateGraph(ir) ==
    IF InvalidIdentifier(ir) THEN "InvalidIdentifier"
    ELSE IF DuplicateNode(ir) THEN "DuplicateNodeId"
    ELSE IF RouteStructureError(ir) # None THEN RouteStructureError(ir)
    ELSE IF ~HasNode(ir, ir.entry) THEN "MissingEntryNode"
    ELSE IF DanglingError(ir) # None THEN DanglingError(ir)
    ELSE
      LET adj == Adjacency(ir)
          terminals == {n \in ir.nodes : ir.kind[n] = "terminal"}
          cyclic == CyclicComponents(adj)
          unbounded == {c \in cyclic : \E n \in c : ir.max_visits[n] \in {None, 0}}
          unsafe == {c \in cyclic : \E n \in c : ir.kind[n] = "action" /\ n \notin ir.idempotent}
      IN  CASE Reachability(ir.entry, adj) # ir.nodes -> "UnreachableNode"
            [] terminals = {} -> "NoReachableTerminal"
            [] \E c \in unbounded : \A d \in unsafe : Min(c) <= Min(d) -> "UnboundedCycle"
            [] unsafe # {} -> "NonIdempotentCycleNode"
            [] ReachabilityFrom(terminals, Reversed(adj)) # ir.nodes -> "CannotReachTerminal"
            [] OTHER -> "ok"

ValidateState(ir) ==
    LET used == UNION {ir.contract[n].inputs \cup {ir.contract[n].output}
                         : n \in {m \in ir.nodes : ir.contract[m] # None}}
    IN  CASE used # {} /\ (ir.state = None \/ ~(used \subseteq ir.state.keys)) ->
                 "UndeclaredAgentStateKey"
          [] ir.state = None -> "ok"
          [] ir.state.version # 1 -> "UnsupportedSchemaVersion"
          [] ~(ir.state.required \subseteq ir.state.keys) -> "MissingRequiredKey"
          [] ir.state.shape \notin {"inline", "artifact"} -> "InvalidHandleShape"
          [] OTHER -> "ok"

ValidatedIr(ir) ==
    IF ApprovalError(ir) THEN "InvalidIdentifier"
    ELSE IF BindingError(ir) # None THEN BindingError(ir)
    ELSE IF ValidateGraph(ir) # "ok" THEN ValidateGraph(ir)
    ELSE ValidateState(ir)

CompileWithoutPredicates(ir) ==
    IF ValidatedIr(ir) = "ok" /\ ir.routes # {} THEN "PredicateRegistryRequired" ELSE ValidatedIr(ir)

\* registry: predicate -> the identity its entry reports.
CompileWithPredicates(ir) ==
    IF ValidatedIr(ir) = "ok" /\ \E r \in ir.routes : r.predicate \notin DOMAIN ir.registry
    THEN "Registry" ELSE ValidatedIr(ir)

CheckIdentity(ir, binding) ==
    CASE binding \notin DOMAIN ir.registry -> "Registry"
      [] ir.registry[binding] # binding -> "IdentityDrift"
      [] OTHER -> "ok"

\* GraphBuilder::build: routes and the caller's other bindings, by exact identity.
GraphBuild(ir) ==
    LET faulty == {b \in {r.predicate : r \in ir.routes} \cup ir.extra : CheckIdentity(ir, b) # "ok"}
    IN  IF ValidatedIr(ir) # "ok" \/ faulty = {} THEN ValidatedIr(ir)
        ELSE CheckIdentity(ir, CHOOSE b \in faulty : TRUE)
=============================================================================
