--------------------------- MODULE MCWorkflowGraph ---------------------------
(* Every graph of three nodes, and the shapes that need more: forks that join *)
(* after equal and unequal branches, exclusive branches, cycles with a join,  *)
(* a revise loop, a firewall gate, and the IRs each check refuses.            *)
EXTENDS WorkflowGraph

Base(nodes) ==
    [nodes |-> nodes, entry |-> 1, duplicates |-> {}, edges |-> {}, routes |-> {},
     kind |-> [n \in nodes |-> IF n = Max(nodes) THEN "terminal" ELSE "agent"],
     max_visits |-> [n \in nodes |-> None], idempotent |-> {}, revise |-> None,
     firewall |-> [n \in nodes |-> None], host |-> None,
     bindings |-> [n \in nodes |-> {}], contract |-> [n \in nodes |-> None],
     timeout |-> [n \in nodes |-> None], state |-> None, registry |-> ("p" :> "p"), extra |-> {}]

Line == [Base(1..2) EXCEPT !.edges = {<<1, 2>>}]
Bounded(g, bounds) == [g EXCEPT !.max_visits = [n \in g.nodes |-> IF n \in DOMAIN bounds THEN bounds[n] ELSE @[n]]]
Route(from, cases, default) == [from |-> from, cases |-> cases, default |-> default, predicate |-> "p"]

Fork == [Base(1..5) EXCEPT !.edges = {<<1, 2>>, <<1, 3>>, <<2, 4>>, <<3, 4>>, <<4, 5>>}]
UnevenFork == [Base(1..6) EXCEPT
    !.edges = {<<1, 2>>, <<1, 3>>, <<2, 4>>, <<4, 5>>, <<3, 5>>, <<5, 6>>}]
Exclusive == [Base(1..5) EXCEPT
    !.edges = {<<2, 4>>, <<3, 4>>, <<4, 5>>},
    !.routes = {Route(1, "x" :> 2 @@ "y" :> 3, None)}]
CyclicFork == Bounded([Base(1..5) EXCEPT
    !.edges = {<<1, 2>>, <<1, 3>>, <<2, 4>>, <<3, 4>>},
    !.routes = {Route(4, "x" :> 1, 5)}], 1 :> 1 @@ 2 :> 1 @@ 3 :> 2 @@ 4 :> 1)
LoopGraph == [Base(1..3) EXCEPT !.kind[2] = "action", !.idempotent = {2},
    !.edges = {<<1, 2>>, <<2, 2>>, <<2, 3>>}]
Loop == Bounded(LoopGraph, 1 :> 4 @@ 2 :> 2)
Revise == Bounded([LoopGraph EXCEPT !.revise = 2], 2 :> 1)
AgentLoop == Bounded([Base(1..3) EXCEPT
    !.routes = {Route(1, "x" :> 1 @@ "y" :> 2, None)}, !.edges = {<<2, 3>>}], 1 :> 1 @@ 2 :> 2)

Gate == [Base(1..3) EXCEPT !.kind[1] = "validator", !.firewall[1] = "bound", !.host = "match",
                           !.edges = {<<1, 2>>, <<2, 3>>}]
Contract(g, n, inputs, output) ==
    [g EXCEPT !.contract[n] = [inputs |-> inputs, output |-> output],
              !.state = [keys |-> {"k"}, required |-> {}, version |-> 1, shape |-> "inline"]]
Contracted == Contract(Line, 1, {}, "k")

Gated == {Gate,
    [Gate EXCEPT !.host = None], [Gate EXCEPT !.host = "other"],
    Bounded([Gate EXCEPT !.edges = @ \cup {<<2, 1>>}], 1 :> 2 @@ 2 :> 2),
    [Gate EXCEPT !.entry = 2], [Gate EXCEPT !.firewall[1] = "malformed"],
    [nodes |-> 0..3] @@ [Gate EXCEPT !.edges = @ \cup {<<0, 2>>, <<1, 0>>},
        !.kind = (0 :> "agent") @@ @, !.max_visits = (0 :> None) @@ @, !.firewall = (0 :> None) @@ @,
        !.bindings = (0 :> {}) @@ @, !.contract = (0 :> None) @@ @, !.timeout = (0 :> None) @@ @]}

Refused == {
    [Line EXCEPT !.duplicates = {1}], [Line EXCEPT !.entry = 3], [Line EXCEPT !.entry = EmptyId],
    [Line EXCEPT !.edges = @ \cup {<<1, 3>>}],
    [Line EXCEPT !.edges = {}, !.routes = {Route(1, "x" :> 3, None)}],
    [Line EXCEPT !.edges = {}, !.routes = {Route(1, <<>>, 2)}],
    [Line EXCEPT !.routes = {Route(1, "x" :> 2, None)}],
    [Line EXCEPT !.edges = {}, !.routes = {Route(1, "x" :> 2, None), Route(1, "y" :> 2, None)}],
    [Exclusive EXCEPT !.registry = None], [Exclusive EXCEPT !.registry = "z" :> "z"],
    [Exclusive EXCEPT !.registry = "p" :> "z"], [Line EXCEPT !.extra = {"q"}],
    [Line EXCEPT !.kind[1] = "approval"], [Line EXCEPT !.timeout[1] = 5],
    [Line EXCEPT !.kind[1] = "action", !.bindings[1] = {"model"}],
    [Line EXCEPT !.bindings[1] = {"reviewer", "tool"}],
    [Line EXCEPT !.bindings[1] = {"reserved_tool"}],
    [Contracted EXCEPT !.state = None], [Contracted EXCEPT !.state.version = 2],
    [Contracted EXCEPT !.state.required = {"z"}], [Contracted EXCEPT !.state.shape = "other"]}

Shapes == {Fork, UnevenFork, Exclusive, CyclicFork, Loop, Revise, AgentLoop, Contracted} \cup Gated \cup Refused

\* Node types of the exhaustive part: kind, max_visits and idempotence together.
Types == {<<"agent", None, FALSE>>, <<"agent", 1, FALSE>>, <<"action", 1, FALSE>>,
          <<"action", 1, TRUE>>, <<"terminal", None, FALSE>>}
ThreeNodes ==
    {[Base(1..3) EXCEPT !.edges = e, !.kind = [n \in 1..3 |-> t[n][1]],
         !.max_visits = [n \in 1..3 |-> t[n][2]],
         !.idempotent = {n \in 1..3 : t[n][3]}]
       : e \in SUBSET ((1..3) \X (1..3)), t \in [1..3 -> Types]}

AllWorkflows == Shapes \cup ThreeNodes
=============================================================================
