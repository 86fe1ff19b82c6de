------------------------------- MODULE FlowGraph -------------------------------
(***************************************************************************)
(* The pure part of visual_flow_service.py: which flow definitions may be   *)
(* saved and executed, the order their nodes are walked in, and which edges *)
(* an outcome activates.                                                    *)
(*                                                                          *)
(* A node is a record of kind, cont (continue_on_failure), bound (the nodes *)
(* its input bindings read) and ok: its reference, its overrides and its    *)
(* condition are as the validation of one node wants them.  Its id is its   *)
(* position, so two nodes never share one.  Edges are a set, so only their  *)
(* routes tell two edges of one pair apart.                                 *)
(***************************************************************************)
EXTENDS Integers, Sequences, FiniteSets

Kinds == {"start", "end", "api_case", "websocket_case", "condition", "delay"}
Routes == {"always", "success", "failure", "true", "false"}

Nodes(g) == DOMAIN g.nodes
Kind(g, n) == g.nodes[n].kind
OfKind(g, kind) == {n \in Nodes(g) : Kind(g, n) = kind}
Incoming(g, n) == {e \in g.edges : e.target = n}
Outgoing(g, n) == {e \in g.edges : e.source = n}
Upstream(g, n) == {e.source : e \in Incoming(g, n)}

-----------------------------------------------------------------------------
(* Kahn's walk: take the head of the queue, append the nodes whose last     *)
(* incoming edge it was.  Edges are a set here, so nodes freed together are  *)
(* appended by position, where the code takes the order of the edges.       *)
Sorted(S) == [i \in 1..Cardinality(S) |->
                 CHOOSE x \in S : Cardinality({y \in S : y < x}) = i - 1]

Ready(g, done) ==
    {n \in Nodes(g) \ done : \A e \in Incoming(g, n) : e.source \in done}

FirstStep(g) == [queue |-> Sorted(Ready(g, {})), order |-> <<>>]
NextStep(g, w) ==
    IF w.queue = <<>> THEN w
    ELSE LET before == {w.order[i] : i \in DOMAIN w.order}
             node == Head(w.queue)
             freed == Ready(g, before \cup {node}) \ Ready(g, before)
         IN [queue |-> Tail(w.queue) \o Sorted(freed \ {node}),
             order |-> Append(w.order, node)]

Walk(g) ==
    LET walk[k \in 0..Len(g.nodes)] ==
            IF k = 0 THEN FirstStep(g) ELSE NextStep(g, walk[k - 1])
    IN walk

TopologicalOrder(g) == Walk(g)[Len(g.nodes)].order

(* A walk of a definition: every node once, the start first, and none       *)
(* before a node that an edge to it comes from.                             *)
IsWalk(g, order) ==
    /\ order \in Seq(Nodes(g)) /\ order # <<>> /\ Kind(g, order[1]) = "start"
    /\ \A n \in Nodes(g) : \E i \in 1..Len(order) : order[i] = n
    /\ \A i, j \in 1..Len(order) : order[i] = order[j] => i = j
    /\ \A e \in g.edges : \A i, j \in 1..Len(order) :
           order[i] = e.source /\ order[j] = e.target => i < j

(* All nodes an edge relation leads to, those of from included.             *)
Targets(g, S) == {e.target : e \in {x \in g.edges : x.source \in S}}
Sources(g, S) == {e.source : e \in {x \in g.edges : x.target \in S}}

Reached(g, from) ==
    LET reach[k \in 0..Len(g.nodes)] ==
            IF k = 0 THEN from ELSE reach[k - 1] \cup Targets(g, reach[k - 1])
    IN reach

Reachable(g, from) == Reached(g, from)[Len(g.nodes)]

ReverseReachable(g, from) ==
    LET reach[k \in 0..Len(g.nodes)] ==
            IF k = 0 THEN from ELSE reach[k - 1] \cup Sources(g, reach[k - 1])
    IN reach[Len(g.nodes)]

-----------------------------------------------------------------------------
(* _validate for a definition that is saved ...                             *)
EdgesAreWellFormed(g) ==
    \A e \in g.edges :
        /\ e.source \in Nodes(g) /\ e.target \in Nodes(g)
        /\ e.source # e.target
        /\ \A f \in g.edges : f # e => <<f.source, f.target>> # <<e.source, e.target>>
        /\ e.route \in {"true", "false"} => Kind(g, e.source) = "condition"

NodesAreWellFormed(g) ==
    \A n \in Nodes(g) : g.nodes[n].ok /\ g.nodes[n].bound \subseteq Upstream(g, n)

Savable(g) ==
    /\ EdgesAreWellFormed(g)
    /\ Len(TopologicalOrder(g)) = Len(g.nodes)
    /\ NodesAreWellFormed(g)

(* ... and for one that is executed.                                        *)
ConditionHasBothRoutes(g, n) ==
    /\ Cardinality(Outgoing(g, n)) = 2
    /\ {e.route : e \in Outgoing(g, n)} = {"true", "false"}

Executable(g) ==
    /\ Savable(g)
    /\ Cardinality(OfKind(g, "start")) = 1
    /\ OfKind(g, "end") # {}
    /\ \A n \in OfKind(g, "start") : Incoming(g, n) = {}
    /\ \A n \in OfKind(g, "end") : Outgoing(g, n) = {}
    /\ \A n \in OfKind(g, "condition") : ConditionHasBothRoutes(g, n)
    /\ Reachable(g, OfKind(g, "start")) = Nodes(g)
    /\ ReverseReachable(g, OfKind(g, "end")) = Nodes(g)

-----------------------------------------------------------------------------
(* What a node may end with.  A condition that cannot be evaluated is an    *)
(* error; "true" and "false" are passed conditions with that result.        *)
Outcomes(kind) ==
    CASE kind \in {"api_case", "websocket_case"} -> {"passed", "failed", "error"}
      [] kind = "condition"                      -> {"true", "false", "error"}
      [] OTHER                                   -> {"passed"}

Failed(outcome) == outcome \in {"failed", "error"}
IsFatal(node, outcome) == Failed(outcome) /\ ~node.cont

RouteMatches(route, node, outcome) ==
    IF IsFatal(node, outcome) THEN route = "failure"
    ELSE CASE route = "always"  -> TRUE
           [] route = "success" -> ~Failed(outcome)
           [] route = "failure" -> Failed(outcome)
           [] OTHER             -> outcome = route

Activated(g, n, outcome) == {e \in Outgoing(g, n) : RouteMatches(e.route, g.nodes[n], outcome)}
=============================================================================
