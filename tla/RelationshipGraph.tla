--------------------------- MODULE RelationshipGraph ---------------------------
(* The graph algorithms of the relationship analysis (zscripts/infrastructure/ *)
(* relationship_analysis.py): strongly_connected_components, the cycle groups  *)
(* taken from them, and the bounded neighborhood of a node.                    *)
(*                                                                             *)
(* A node identifier is a number, which gives the order the code sorts by.  An *)
(* edge is one relationship; its target may be Unresolved.  The inner loop     *)
(* over the sorted neighbors of a node is one step per neighbor.  The graph is *)
(* that of one relationship type: cycle_groups first leaves out the nodes      *)
(* without an edge, which here become components of their own.                 *)
EXTENDS Integers, Sequences, FiniteSets

CONSTANTS
    Nodes,        \* identifiers of the nodes
    Unresolved,   \* the target of a relationship that was not resolved
    Candidates,   \* the edges a graph may have
    Queries       \* what a neighborhood may be asked for

ASSUME GraphAssumption ==
    /\ Nodes \subseteq Nat /\ IsFiniteSet(Nodes) /\ Unresolved \in Nat \ Nodes
    /\ Candidates \subseteq Nodes \X (Nodes \cup {Unresolved})
    /\ \A q \in Queries : /\ q.focus \in Nodes /\ q.depth \in Nat
                          /\ q.maxNodes \in Nat \ {0} /\ q.maxEdges \in Nat \ {0}

VARIABLES
    edges,        \* the relationships of the snapshot
    phase,        \* what runs: the first pass, the second, nothing, a query
    visited, stack, todo, finishOrder,    \* first pass; todo: neighbors still to push
    component,    \* number of the component of a node, 0 before it has one
    count, componentStack,                \* second pass
    query, distances, queue, truncated    \* neighborhood

graphVars == <<edges>>
firstVars == <<visited, stack, todo>>
secondVars == <<component, count, componentStack>>
queryVars == <<query, distances, queue, truncated>>
vars == <<graphVars, phase, firstVars, finishOrder, secondVars, queryVars>>

Resolved == {e \in edges : e[2] # Unresolved}
Successors(n) == {m \in Nodes : <<n, m>> \in edges}
Predecessors(n) == {m \in Nodes : <<m, n>> \in edges}

Init ==
    /\ edges \in SUBSET Candidates
    /\ phase = "finish"
    /\ visited = {} /\ stack = <<>> /\ todo = {} /\ finishOrder = <<>>
    /\ component = [n \in Nodes |-> 0] /\ count = 0 /\ componentStack = {}
    /\ query = [focus |-> Unresolved] /\ distances = <<>> /\ queue = <<>> /\ truncated = FALSE

-----------------------------------------------------------------------------
(* First pass: a node is visited when it is pushed, and finishes when it is   *)
(* popped for the second time.                                                *)

Top == stack[Len(stack)]
Pop(s) == SubSeq(s, 1, Len(s) - 1)
FirstPass == phase = "finish" /\ UNCHANGED <<graphVars, secondVars, queryVars>>

VisitRoot ==
    /\ FirstPass
    /\ stack = <<>>
    /\ \E start \in Nodes \ visited :
          /\ \A n \in Nodes \ visited : start <= n
          /\ visited' = visited \cup {start}
          /\ stack' = <<[node |-> start, expanded |-> FALSE]>>
    /\ UNCHANGED <<phase, todo, finishOrder>>

Expand ==
    /\ FirstPass
    /\ stack # <<>> /\ todo = {} /\ ~Top.expanded
    /\ stack' = Append(Pop(stack), [Top EXCEPT !.expanded = TRUE])
    /\ todo' = Successors(Top.node) \ visited
    /\ UNCHANGED <<phase, visited, finishOrder>>

\* The largest neighbor is pushed first.
PushNeighbor ==
    /\ FirstPass
    /\ \E neighbor \in todo :
          /\ \A m \in todo : m <= neighbor
          /\ todo' = todo \ {neighbor}
          /\ visited' = visited \cup {neighbor}
          /\ stack' = Append(stack, [node |-> neighbor, expanded |-> FALSE])
    /\ UNCHANGED <<phase, finishOrder>>

Finish ==
    /\ FirstPass
    /\ stack # <<>> /\ todo = {} /\ Top.expanded
    /\ finishOrder' = Append(finishOrder, Top.node)
    /\ stack' = Pop(stack)
    /\ UNCHANGED <<phase, visited, todo>>

StartSecondPass ==
    /\ FirstPass
    /\ stack = <<>> /\ visited = Nodes
    /\ phase' = "assign"
    /\ UNCHANGED <<firstVars, finishOrder>>

-----------------------------------------------------------------------------
(* Second pass: from the last finished node, everything that leads to it and  *)
(* has no component yet.  The order in which the stack of a component is      *)
(* emptied does not matter to what it holds; it is a set here.                *)

SecondPass == phase = "assign" /\ UNCHANGED <<graphVars, firstVars, queryVars>>

BugStartsComponent(n) == TRUE
StartsComponent(n) == component[n] = 0

NextComponent ==
    /\ SecondPass
    /\ componentStack = {} /\ finishOrder # <<>>
    /\ LET start == finishOrder[Len(finishOrder)]
       IN IF StartsComponent(start)
          THEN /\ count' = count + 1
               /\ component' = [component EXCEPT ![start] = count + 1]
               /\ componentStack' = {start}
          ELSE UNCHANGED secondVars
    /\ finishOrder' = Pop(finishOrder)
    /\ UNCHANGED phase

AssignPredecessors ==
    /\ SecondPass
    /\ \E n \in componentStack :
          LET found == {m \in Predecessors(n) : component[m] = 0}
          IN /\ component' = [m \in Nodes |-> IF m \in found THEN count ELSE component[m]]
             /\ componentStack' = (componentStack \ {n}) \cup found
    /\ UNCHANGED <<phase, count, finishOrder>>

FinishComponents ==
    /\ SecondPass
    /\ componentStack = {} /\ finishOrder = <<>>
    /\ phase' = "done"
    /\ UNCHANGED <<finishOrder, secondVars>>

\* cycle_groups: components of several nodes, and nodes that lead to themselves.
IsCycle(members) == \E u, v \in members : (u # v) \/ <<u, u>> \in edges

Members(k) == {n \in Nodes : component[n] = k}
CycleGroups == {g \in {Members(k) : k \in 1 .. count} : IsCycle(g)}

-----------------------------------------------------------------------------
(* The bounded neighborhood of a node: breadth first, in both directions.     *)

Queried == UNCHANGED <<graphVars, firstVars, finishOrder, secondVars>>

Neighbors(n) == Successors(n) \cup Predecessors(n)

Ask(q) ==
    /\ phase = "done"
    /\ phase' = "widen" /\ query' = q
    /\ distances' = [n \in {q.focus} |-> 0]
    /\ queue' = <<q.focus>> /\ truncated' = FALSE
    /\ Queried

\* The neighbors a step takes: the lowest ones, as many as there is room for.
BugTake(new) ==
    {n \in new : Cardinality(DOMAIN distances)
                 + Cardinality({m \in new : m < n}) <= query.maxNodes}
Take(new) ==
    {n \in new : Cardinality(DOMAIN distances)
                 + Cardinality({m \in new : m < n}) < query.maxNodes}

Order(q, taken) == q \o taken

Widen ==
    /\ phase = "widen" /\ queue # <<>>
    /\ LET current == Head(queue)
           new == Neighbors(current) \ DOMAIN distances
           taken == Take(new)
       IN IF distances[current] >= query.depth
          THEN queue' = Tail(queue) /\ UNCHANGED <<distances, truncated>>
          ELSE /\ distances' = [n \in DOMAIN distances \cup taken |->
                                   IF n \in taken THEN distances[current] + 1 ELSE distances[n]]
               /\ \E s \in [1 .. Cardinality(taken) -> taken] :
                     /\ \A i, j \in DOMAIN s : i < j => s[i] < s[j]
                     /\ queue' = Order(Tail(queue), s)
               /\ truncated' = (truncated \/ taken # new)
    /\ UNCHANGED <<phase, query>> /\ Queried

\* The edges between the nodes found, and those that lead nowhere, in order.
Selected ==
    {e \in edges : e[1] \in DOMAIN distances /\ e[2] \in DOMAIN distances \cup {Unresolved}}
Before(d, e) == d[1] < e[1] \/ (d[1] = e[1] /\ d[2] < e[2])
Shown == {e \in Selected : Cardinality({d \in Selected : Before(d, e)}) < query.maxEdges}

CutsEdges == Shown # Selected

Answer ==
    /\ phase = "widen" /\ queue = <<>>
    /\ phase' = "answered"
    /\ truncated' = (truncated \/ CutsEdges)
    /\ UNCHANGED <<query, distances, queue>> /\ Queried

\* The caller has read the answer.
Forget ==
    /\ phase = "answered"
    /\ phase' = "done"
    /\ query' = [focus |-> Unresolved] /\ distances' = <<>>
    /\ truncated' = FALSE
    /\ UNCHANGED queue /\ Queried

Next ==
    \/ VisitRoot \/ Expand \/ PushNeighbor \/ Finish \/ StartSecondPass
    \/ NextComponent \/ AssignPredecessors \/ FinishComponents
    \/ (\E q \in Queries : Ask(q)) \/ Widen \/ Answer \/ Forget

Spec == Init /\ [][Next]_vars

-----------------------------------------------------------------------------
(* Properties.                                                                *)

TypeOK ==
    /\ edges \subseteq Candidates
    /\ phase \in {"finish", "assign", "done", "widen", "answered"}
    /\ visited \subseteq Nodes /\ todo \subseteq Nodes
    /\ stack \in Seq([node : Nodes, expanded : BOOLEAN])
    /\ finishOrder \in Seq(Nodes)
    /\ component \in [Nodes -> Nat] /\ count \in Nat
    /\ componentStack \subseteq Nodes

ComponentsAreKnown == phase \notin {"finish", "assign"}

\* u leads to v: u is in every set that holds v and all that leads to it.
LeadsTo(u, v) ==
    \A S \in SUBSET Nodes :
        v \in S /\ (\A e \in Resolved : e[2] \in S => e[1] \in S) => u \in S
OnCycle(u) == \E v \in Successors(u) : LeadsTo(v, u)
CycleOf(u) == {v \in Nodes : LeadsTo(u, v) /\ LeadsTo(v, u)}

\* No import or inheritance cycle goes unreported, and none is reported in
\* pieces: the findings of the family "cycle" and the comparison of cycles go
\* by these groups (cycle_groups).
EveryCycleIsReported ==
    ComponentsAreKnown =>
        \A u \in Nodes : OnCycle(u) => \E g \in CycleGroups : CycleOf(u) \subseteq g

\* Only cycles are reported: the members of a component lead to each other
\* (docs/architecture.md: "Sorted Kosaraju traversal identifies strongly
\* connected components").
ComponentsAreStronglyConnected ==
    ComponentsAreKnown =>
        \A u, v \in Nodes : component[u] = component[v] => LeadsTo(u, v)

\* The nodes at most k of the edges away from n, in either direction.
Ball(n, k, pairs) ==
    LET within[i \in 0 .. k] ==
            IF i = 0 THEN {n}
            ELSE within[i - 1] \cup {m \in Nodes : \E l \in within[i - 1] :
                                        <<m, l>> \in pairs \/ <<l, m>> \in pairs}
    IN within[k]
Around(k) == Ball(query.focus, k, edges)

\* The distance shown for a node is the length of a shortest path, however
\* much of the graph was left out (bounded_neighborhood).
DistancesAreShortest ==
    phase = "answered" =>
        \A n \in DOMAIN distances :
            /\ n \in Around(distances[n])
            /\ distances[n] > 0 => n \notin Around(distances[n] - 1)

\* A neighborhood keeps to its limits, and says so exactly when they made it
\* leave out a node within its depth or an edge between its nodes.
TruncationIsAdmitted ==
    phase = "answered" =>
        /\ Cardinality(DOMAIN distances) <= query.maxNodes
        /\ Cardinality(Shown) <= query.maxEdges
        /\ truncated <=> \/ DOMAIN distances # Around(query.depth)
                         \/ Shown # Selected

\* What a neighborhood shows and what it says it left out are both true.
NeighborhoodsAreTrue == DistancesAreShortest /\ TruncationIsAdmitted

=============================================================================
