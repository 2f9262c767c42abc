--------------------------- MODULE SideBySideProofs ---------------------------
(* The components that share nothing, one after the other: that no cycle goes    *)
(* unreported and no neighborhood is wrong; what commands leave behind and what  *)
(* their exit code says; what the quality gate and the removal of worktrees can  *)
(* be trusted with; that a crawl misses nothing and keeps its pace; what an      *)
(* upgrade leaves in the database; what a scan tells of the files it leaves out, *)
(* and when it can be stored.  Each holds for any finite graph, any processes,   *)
(* any site, any files, and whatever others do meanwhile.                        *)
EXTENDS RelationshipGraph, CommandLine, QualityGate, WorktreeCleanup, WebCrawl, StoreUpgrade,
        RepositoryAnalysis,
        FiniteSetTheorems, FunctionTheorems, SequenceTheorems, WellFoundedInduction, TLAPS

-----------------------------------------------------------------------------
(* The graph's component search: its types, and that no cycle goes unreported.  *)
(* The argument is that after every component the nodes numbered so far are     *)
(* closed under "leads to": whatever the first pass left behind, a cycle enters *)
(* a component as a whole.  Nothing is used of the order in which nodes finish, *)
(* which is why the converse cannot be proved.                                  *)

\* A node that was visited waits on the stack or has finished.
VisitedIsKept ==
    \A n \in visited :
        \/ \E i \in 1 .. Len(stack) : stack[i].node = n
        \/ \E i \in 1 .. Len(finishOrder) : finishOrder[i] = n

\* Until the second pass has seen a finished node it has no component.
FinishedIsAssigned ==
    \A n \in Nodes : component[n] # 0 \/ \E i \in 1 .. Len(finishOrder) : finishOrder[i] = n

NumbersAreKept ==
    /\ \A n \in Nodes : component[n] <= count
    /\ \A n \in componentStack : component[n] = count /\ count # 0

\* What leads to a numbered node has a number that is not larger, unless the
\* node is still on the stack.
ClosedBackwards ==
    \A n \in Nodes : component[n] # 0 /\ n \notin componentStack =>
        \A m \in Predecessors(n) : component[m] # 0 /\ component[m] <= component[n]

SearchInv ==
    /\ TypeOK
    /\ phase = "finish" => VisitedIsKept
    /\ phase # "finish" => FinishedIsAssigned
    /\ NumbersAreKept
    /\ ClosedBackwards
    /\ ComponentsAreKnown => componentStack = {} /\ finishOrder = <<>>

-----------------------------------------------------------------------------
(* Types.                                                                     *)

LEMMA PopType ==
    ASSUME NEW T, NEW s \in Seq(T), s # <<>>
    PROVE  /\ Pop(s) \in Seq(T) /\ s[Len(s)] \in T
           /\ Len(s) \in Nat \ {0} /\ Len(Pop(s)) = Len(s) - 1
           /\ \A i \in 1 .. Len(s) - 1 : Pop(s)[i] = s[i]
<1>1. Len(s) \in Nat \ {0}
  BY EmptySeq
<1>2. s[Len(s)] \in T
  BY <1>1, ElementOfSeq
<1> DEFINE n == Len(s) - 1
<1>3. n \in Nat /\ n <= Len(s)
  BY <1>1
<1> HIDE DEF n
<1>4. SubSeq(s, 1, n) \in Seq(T)
  BY <1>3
<1>5. Len(SubSeq(s, 1, n)) = n
  BY <1>3
<1>6. \A i \in 1 .. n : SubSeq(s, 1, n)[i] = s[i]
  BY <1>3
<1> QED
  BY <1>1, <1>2, <1>4, <1>5, <1>6 DEF Pop, n

LEMMA TypeInit == Init => TypeOK
  BY GraphAssumption DEF Init, TypeOK

LEMMA TypeStep == TypeOK /\ [Next]_vars => TypeOK'
<1> SUFFICES ASSUME TypeOK, [Next]_vars PROVE TypeOK'
    OBVIOUS
<1> USE DEF TypeOK
<1>1. CASE VisitRoot
  BY <1>1 DEF VisitRoot, FirstPass, graphVars, secondVars
<1>2. CASE Expand
  <2>1. Pop(stack) \in Seq([node : Nodes, expanded : BOOLEAN])
        /\ Top \in [node : Nodes, expanded : BOOLEAN]
    BY <1>2, PopType DEF Expand, Top
  <2>2. [Top EXCEPT !.expanded = TRUE] \in [node : Nodes, expanded : BOOLEAN]
    BY <2>1
  <2> QED
    BY <1>2, <2>1, <2>2 DEF Expand, FirstPass, graphVars, secondVars, Successors
<1>3. CASE PushNeighbor
  BY <1>3 DEF PushNeighbor, FirstPass, graphVars, secondVars
<1>4. CASE Finish
  <2>1. Pop(stack) \in Seq([node : Nodes, expanded : BOOLEAN])
        /\ Top \in [node : Nodes, expanded : BOOLEAN]
    BY <1>4, PopType DEF Finish, Top
  <2> QED
    BY <1>4, <2>1 DEF Finish, FirstPass, graphVars, secondVars
<1>5. CASE StartSecondPass
  BY <1>5 DEF StartSecondPass, FirstPass, graphVars, firstVars, secondVars
<1>6. CASE NextComponent
  <2>1. Pop(finishOrder) \in Seq(Nodes) /\ finishOrder[Len(finishOrder)] \in Nodes
    BY <1>6, PopType DEF NextComponent
  <2>2. component' \in [Nodes -> Nat] /\ count' \in Nat /\ componentStack' \subseteq Nodes
    <3>1. CASE StartsComponent(finishOrder[Len(finishOrder)])
      BY <1>6, <2>1, <3>1 DEF NextComponent
    <3>2. CASE ~StartsComponent(finishOrder[Len(finishOrder)])
      BY <1>6, <2>1, <3>2 DEF NextComponent, secondVars
    <3> QED
      BY <3>1, <3>2
  <2> QED
    BY <1>6, <2>1, <2>2 DEF NextComponent, SecondPass, graphVars, firstVars
<1>7. CASE AssignPredecessors
  BY <1>7 DEF AssignPredecessors, SecondPass, graphVars, firstVars, Predecessors
<1>8. CASE FinishComponents
  BY <1>8 DEF FinishComponents, SecondPass, graphVars, firstVars, secondVars
<1>9. CASE (\E q \in Queries : Ask(q)) \/ Widen \/ Answer \/ Forget
  BY <1>9 DEF Ask, Widen, Answer, Forget, Queried, graphVars, firstVars, secondVars
<1>10. CASE UNCHANGED vars
  BY <1>10 DEF vars, graphVars, firstVars, secondVars
<1> QED
  BY <1>1, <1>2, <1>3, <1>4, <1>5, <1>6, <1>7, <1>8, <1>9, <1>10 DEF Next

\* The tables of the search keep their types, for any graph.
THEOREM TypeCorrect == Spec => []TypeOK
<1>1. Init => TypeOK
  BY TypeInit
<1>2. TypeOK /\ [Next]_vars => TypeOK'
  BY TypeStep
<1> QED
  BY <1>1, <1>2, PTL DEF Spec
-----------------------------------------------------------------------------
(* The invariant of the search.                                               *)

LEMMA SearchInit == Init => SearchInv
  BY TypeInit DEF Init, SearchInv, VisitedIsKept, NumbersAreKept, ClosedBackwards, ComponentsAreKnown

\* A step of the first pass keeps the nodes that were visited.
LEMMA FirstPassStep ==
    ASSUME SearchInv, TypeOK', VisitRoot \/ Expand \/ PushNeighbor \/ Finish
    PROVE  SearchInv'
<1> USE DEF SearchInv, TypeOK
<1>1. /\ phase = "finish" /\ phase' = "finish"
      /\ UNCHANGED <<edges, component, count, componentStack>>
  BY DEF VisitRoot, Expand, PushNeighbor, Finish, FirstPass, graphVars, secondVars
<1>2. NumbersAreKept' /\ ClosedBackwards'
  BY <1>1 DEF NumbersAreKept, ClosedBackwards, Predecessors
<1> DEFINE Waiting == [node : Nodes, expanded : BOOLEAN]
<1>3. /\ stack \in Seq(Waiting) /\ Len(stack) \in Nat
      /\ finishOrder \in Seq(Nodes) /\ Len(finishOrder) \in Nat
      /\ VisitedIsKept
  BY <1>1
<1> HIDE DEF SearchInv, TypeOK
<1>4. VisitedIsKept'
  <2>1. CASE VisitRoot
    BY <1>1, <1>3, <2>1 DEF VisitRoot, VisitedIsKept
  <2>2. CASE Expand
    <3>1. /\ Pop(stack) \in Seq(Waiting) /\ Top \in Waiting
          /\ Len(stack) \in Nat \ {0} /\ Len(Pop(stack)) = Len(stack) - 1
          /\ \A i \in 1 .. Len(stack) - 1 : Pop(stack)[i] = stack[i]
      BY <1>3, <2>2, PopType DEF Expand, Top
    <3> DEFINE again == [Top EXCEPT !.expanded = TRUE]
    <3>2. again \in Waiting /\ again.node = Top.node
      BY <3>1
    <3> HIDE DEF again
    <3>3. /\ stack' = Append(Pop(stack), again)
          /\ UNCHANGED <<visited, finishOrder>>
      BY <2>2 DEF Expand, again
    <3>4. /\ Len(stack') = Len(Pop(stack)) + 1
          /\ \A i \in 1 .. Len(Pop(stack)) : stack'[i] = Pop(stack)[i]
          /\ stack'[Len(Pop(stack)) + 1] = again
      BY <3>1, <3>2, <3>3, AppendProperties
    <3>5. Len(stack') = Len(stack) /\ stack'[Len(stack)] = again
      BY <3>1, <3>4
    <3>6. \A i \in 1 .. Len(stack) : stack'[i].node = stack[i].node
      BY <3>1, <3>2, <3>4, <3>5 DEF Top
    <3>7. ASSUME NEW n \in visited
          PROVE  \/ \E i \in 1 .. Len(stack) : stack'[i].node = n
                 \/ \E i \in 1 .. Len(finishOrder) : finishOrder[i] = n
      <4>1. CASE \E i \in 1 .. Len(stack) : stack[i].node = n
        BY <3>6, <4>1
      <4>2. CASE \E i \in 1 .. Len(finishOrder) : finishOrder[i] = n
        BY <4>2
      <4> QED
        BY <1>3, <4>1, <4>2 DEF VisitedIsKept
    <3> QED
      BY <3>3, <3>5, <3>7, Zenon DEF VisitedIsKept
  <2>3. CASE PushNeighbor
    <3>1. PICK n \in todo : /\ visited' = visited \cup {n}
                            /\ stack' = Append(stack, [node |-> n, expanded |-> FALSE])
      BY <2>3 DEF PushNeighbor
    <3>2. n \in Nodes /\ finishOrder' = finishOrder
      BY <2>3 DEF PushNeighbor, SearchInv, TypeOK
    <3>3. /\ Len(stack') = Len(stack) + 1
          /\ \A i \in 1 .. Len(stack) : stack'[i] = stack[i]
          /\ stack'[Len(stack) + 1].node = n
      BY <1>3, <3>1, <3>2
    <3>4. Len(stack) + 1 \in 1 .. Len(stack') /\ 1 .. Len(stack) \subseteq 1 .. Len(stack')
      BY <1>3, <3>3
    <3>5. ASSUME NEW m \in visited'
          PROVE  \/ \E i \in 1 .. Len(stack') : stack'[i].node = m
                 \/ \E i \in 1 .. Len(finishOrder) : finishOrder[i] = m
      <4>1. CASE m = n
        BY <3>3, <3>4, <4>1, Zenon
      <4>2. CASE m \in visited
        <5>1. \/ \E i \in 1 .. Len(stack) : stack[i].node = m
              \/ \E i \in 1 .. Len(finishOrder) : finishOrder[i] = m
          BY <1>3, <4>2, Zenon DEF VisitedIsKept
        <5> QED
          BY <3>3, <3>4, <5>1, Zenon
      <4> QED
        BY <3>1, <4>1, <4>2, Zenon
    <3> QED
      BY <3>2, <3>5, Zenon DEF VisitedIsKept
  <2>4. CASE Finish
    <3>1. /\ Len(stack) \in Nat \ {0} /\ Len(Pop(stack)) = Len(stack) - 1
          /\ \A i \in 1 .. Len(stack) - 1 : Pop(stack)[i] = stack[i]
          /\ Top \in Waiting
      BY <1>3, <2>4, PopType DEF Finish, Top
    <3>2. stack' = Pop(stack) /\ visited' = visited /\ finishOrder' = Append(finishOrder, Top.node)
      BY <2>4 DEF Finish
    <3>3. /\ Len(finishOrder') = Len(finishOrder) + 1
          /\ \A i \in 1 .. Len(finishOrder) : finishOrder'[i] = finishOrder[i]
          /\ finishOrder'[Len(finishOrder) + 1] = Top.node
      BY <1>3, <3>1, <3>2
    <3>4. /\ Len(finishOrder) + 1 \in 1 .. Len(finishOrder')
          /\ 1 .. Len(finishOrder) \subseteq 1 .. Len(finishOrder')
          /\ \A i \in 1 .. Len(stack) : i # Len(stack) => i \in 1 .. Len(stack')
          /\ \A i \in 1 .. Len(stack) : i # Len(stack) => stack'[i] = stack[i]
      BY <1>3, <3>1, <3>2, <3>3
    <3>5. ASSUME NEW n \in visited
          PROVE  \/ \E i \in 1 .. Len(stack') : stack'[i].node = n
                 \/ \E i \in 1 .. Len(finishOrder') : finishOrder'[i] = n
      <4>1. CASE \E i \in 1 .. Len(finishOrder) : finishOrder[i] = n
        BY <3>3, <3>4, <4>1, Zenon
      <4>2. CASE \E i \in 1 .. Len(stack) : stack[i].node = n
        <5>1. PICK i \in 1 .. Len(stack) : stack[i].node = n
          BY <4>2
        <5>2. CASE i = Len(stack)
          BY <3>3, <3>4, <5>1, <5>2, Zenon DEF Top
        <5>3. CASE i # Len(stack)
          BY <3>4, <5>1, <5>3, Zenon
        <5> QED
          BY <5>2, <5>3
      <4> QED
        BY <1>3, <4>1, <4>2, Zenon DEF VisitedIsKept
    <3> QED
      BY <3>2, <3>5 DEF VisitedIsKept
  <2> QED
    BY <2>1, <2>2, <2>3, <2>4
<1> QED
  BY <1>1, <1>2, <1>4 DEF ComponentsAreKnown, SearchInv

\* A new component starts at a node without a number.
LEMMA NextComponentStep ==
    ASSUME SearchInv, TypeOK', NextComponent
    PROVE  SearchInv'
<1>1. /\ component \in [Nodes -> Nat] /\ count \in Nat /\ finishOrder \in Seq(Nodes)
      /\ FinishedIsAssigned /\ NumbersAreKept /\ ClosedBackwards
      /\ phase = "assign" /\ phase' = "assign" /\ edges' = edges
      /\ componentStack = {} /\ finishOrder # <<>> /\ finishOrder' = Pop(finishOrder)
  BY DEF NextComponent, SecondPass, graphVars, SearchInv, TypeOK
<1>2. PICK start \in Nodes : start = finishOrder[Len(finishOrder)]
  BY <1>1, PopType
<1>3. /\ Len(finishOrder) \in Nat \ {0} /\ Len(Pop(finishOrder)) = Len(finishOrder) - 1
      /\ \A i \in 1 .. Len(finishOrder) - 1 : Pop(finishOrder)[i] = finishOrder[i]
  BY <1>1, PopType
<1>4. IF component[start] = 0
      THEN /\ count' = count + 1 /\ componentStack' = {start}
           /\ component' = [component EXCEPT ![start] = count + 1]
      ELSE UNCHANGED <<component, count, componentStack>>
  BY <1>2 DEF NextComponent, StartsComponent, secondVars
<1>5. \A n \in Nodes \ {start} : component'[n] = component[n]
  BY <1>1, <1>4
<1>6. component'[start] # 0
  BY <1>1, <1>4
<1>7. FinishedIsAssigned'
  <2> SUFFICES ASSUME NEW n \in Nodes, component'[n] = 0
               PROVE  \E i \in 1 .. Len(finishOrder') : finishOrder'[i] = n
    BY DEF FinishedIsAssigned
  <2>1. n # start /\ component[n] = 0
    BY <1>5, <1>6
  <2>2. PICK i \in 1 .. Len(finishOrder) : finishOrder[i] = n
    BY <1>1, <2>1 DEF FinishedIsAssigned
  <2>3. i \in 1 .. Len(finishOrder) - 1
    BY <1>2, <1>3, <2>1, <2>2
  <2>4. i \in 1 .. Len(Pop(finishOrder)) /\ Pop(finishOrder)[i] = n
    BY <1>3, <2>2, <2>3
  <2> QED
    BY <1>1, <2>4
<1>8. NumbersAreKept'
  <2>1. CASE component[start] # 0
    BY <1>1, <1>4, <2>1 DEF NumbersAreKept
  <2>2. CASE component[start] = 0
    <3>1. \A n \in Nodes : component[n] \in Nat /\ component[n] <= count
      BY <1>1 DEF NumbersAreKept
    <3>2. /\ count' = count + 1 /\ componentStack' = {start} /\ component'[start] = count + 1
      BY <1>1, <1>4, <2>2
    <3>3. \A n \in Nodes : component'[n] <= count'
      BY <1>1, <1>5, <3>1, <3>2
    <3> QED
      BY <1>1, <3>2, <3>3 DEF NumbersAreKept
  <2> QED
    BY <2>1, <2>2
<1>9. ClosedBackwards'
  <2>1. CASE component[start] # 0
    BY <1>1, <1>4, <2>1 DEF ClosedBackwards, Predecessors
  <2>2. CASE component[start] = 0
    <3> SUFFICES ASSUME NEW n \in Nodes, component'[n] # 0, n \notin componentStack',
                        NEW m \in Predecessors(n)
                 PROVE  component'[m] # 0 /\ component'[m] <= component'[n]
      BY <1>1 DEF ClosedBackwards, Predecessors
    <3>1. m \in Nodes /\ n # start
      BY <1>4, <2>2 DEF Predecessors
    <3>2. component[n] # 0 /\ component[n] = component'[n]
      BY <1>5, <3>1
    <3>3. component[m] # 0 /\ component[m] <= component[n]
      BY <1>1, <3>2 DEF ClosedBackwards
    <3>4. component'[m] = component[m]
      BY <1>5, <2>2, <3>1, <3>3
    <3> QED
      BY <3>2, <3>3, <3>4
  <2> QED
    BY <2>1, <2>2
<1> QED
  BY <1>1, <1>7, <1>8, <1>9 DEF ComponentsAreKnown, SearchInv

\* The component takes in what leads to one of its nodes.
LEMMA AssignStep ==
    ASSUME SearchInv, TypeOK', AssignPredecessors
    PROVE  SearchInv'
<1> USE DEF SearchInv, TypeOK
<1>1. /\ phase = "assign" /\ phase' = "assign" /\ UNCHANGED <<edges, count, finishOrder>>
  BY DEF AssignPredecessors, SecondPass, graphVars
<1>2. PICK n \in componentStack :
          LET found == {m \in Predecessors(n) : component[m] = 0}
          IN /\ component' = [m \in Nodes |-> IF m \in found THEN count ELSE component[m]]
             /\ componentStack' = (componentStack \ {n}) \cup found
  BY DEF AssignPredecessors
<1>3. component[n] = count /\ count # 0 /\ n \in Nodes
  BY DEF NumbersAreKept
<1>4. \A m \in Nodes : /\ component[m] # 0 => component'[m] = component[m]
                       /\ component'[m] # 0 /\ component[m] = 0 =>
                              component'[m] = count /\ m \in componentStack'
  BY <1>2
<1>5. \A m \in Predecessors(n) : component'[m] # 0
  BY <1>2, <1>3 DEF Predecessors
<1>6. FinishedIsAssigned'
  BY <1>1, <1>4 DEF FinishedIsAssigned
<1>7. NumbersAreKept'
  BY <1>1, <1>2, <1>3, <1>4 DEF NumbersAreKept
<1>8. ClosedBackwards'
  <2> SUFFICES ASSUME NEW k \in Nodes, component'[k] # 0, k \notin componentStack',
                      NEW m \in Predecessors(k)
               PROVE  component'[m] # 0 /\ component'[m] <= component'[k]
    BY <1>1 DEF ClosedBackwards, Predecessors
  <2>1. m \in Nodes
    BY DEF Predecessors
  <2>2. component[k] # 0
    BY <1>4
  <2>3. CASE k = n
    BY <1>1, <1>3, <1>4, <1>5, <1>7, <2>1, <2>3 DEF NumbersAreKept
  <2>4. CASE k # n
    <3>1. k \notin componentStack
      BY <1>2, <2>4
    <3> QED
      BY <1>4, <2>1, <2>2, <3>1 DEF ClosedBackwards
  <2> QED
    BY <2>3, <2>4
<1> QED
  BY <1>1, <1>6, <1>7, <1>8 DEF ComponentsAreKnown

LEMMA SearchStep == SearchInv /\ [Next]_vars => SearchInv'
<1> SUFFICES ASSUME SearchInv, [Next]_vars PROVE SearchInv'
    OBVIOUS
<1>1. TypeOK'
  BY TypeStep DEF SearchInv
<1>2. CASE VisitRoot \/ Expand \/ PushNeighbor \/ Finish
  BY <1>1, <1>2, FirstPassStep
<1>3. CASE StartSecondPass
  <2>1. /\ phase = "finish" /\ phase' = "assign" /\ stack = <<>> /\ visited = Nodes
        /\ UNCHANGED <<edges, finishOrder, component, count, componentStack>>
    BY <1>3 DEF StartSecondPass, FirstPass, graphVars, secondVars
  <2>2. FinishedIsAssigned'
    BY <2>1 DEF SearchInv, VisitedIsKept, FinishedIsAssigned
  <2> QED
    BY <1>1, <2>1, <2>2
       DEF SearchInv, NumbersAreKept, ClosedBackwards, Predecessors, ComponentsAreKnown
<1>4. CASE NextComponent
  BY <1>1, <1>4, NextComponentStep
<1>5. CASE AssignPredecessors
  BY <1>1, <1>5, AssignStep
<1>6. CASE FinishComponents
  BY <1>1, <1>6
     DEF FinishComponents, SecondPass, graphVars, secondVars, SearchInv, FinishedIsAssigned,
         NumbersAreKept, ClosedBackwards, Predecessors, ComponentsAreKnown
<1>7. CASE (\E q \in Queries : Ask(q)) \/ Widen \/ Answer \/ Forget
  <2>1. /\ ComponentsAreKnown /\ ComponentsAreKnown'
        /\ phase # "finish" /\ phase' # "finish"
        /\ UNCHANGED <<edges, finishOrder, component, count, componentStack>>
    BY <1>7 DEF Ask, Widen, Answer, Forget, Queried, graphVars, secondVars, ComponentsAreKnown
  <2> QED
    BY <1>1, <2>1 DEF SearchInv, FinishedIsAssigned, NumbersAreKept, ClosedBackwards, Predecessors
<1>8. CASE UNCHANGED vars
  BY <1>1, <1>8
     DEF vars, graphVars, firstVars, secondVars, SearchInv, VisitedIsKept, FinishedIsAssigned,
         NumbersAreKept, ClosedBackwards, Predecessors, ComponentsAreKnown
<1> QED
  BY <1>2, <1>3, <1>4, <1>5, <1>6, <1>7, <1>8 DEF Next

\* At the end a number never grows along "leads to".
LEMMA NumbersFollow ==
    ASSUME SearchInv, ComponentsAreKnown, NEW u \in Nodes, NEW v \in Nodes, LeadsTo(u, v)
    PROVE  component[u] <= component[v] /\ component[u] # 0
<1> USE DEF SearchInv, TypeOK
<1> DEFINE S == {m \in Nodes : component[m] <= component[v]}
<1>1. \A n \in Nodes : component[n] # 0
  BY DEF ComponentsAreKnown, FinishedIsAssigned
<1>2. \A e \in Resolved : e[2] \in S => e[1] \in S
  <2> SUFFICES ASSUME NEW e \in Resolved, e[2] \in S PROVE e[1] \in S
    OBVIOUS
  <2>1. e = <<e[1], e[2]>> /\ e[1] \in Nodes /\ e[2] \in Nodes
    BY GraphAssumption DEF Resolved
  <2>2. e[1] \in Predecessors(e[2])
    BY <2>1 DEF Predecessors, Resolved
  <2>3. component[e[1]] <= component[e[2]]
    BY <1>1, <2>1, <2>2 DEF ClosedBackwards, ComponentsAreKnown
  <2> QED
    BY <2>1, <2>3
<1>3. S \in SUBSET Nodes /\ v \in S
  OBVIOUS
<1> HIDE DEF S
<1>4. u \in S
  BY <1>2, <1>3 DEF LeadsTo
<1> QED
  BY <1>1, <1>4 DEF S

\* No cycle goes unreported, in any graph: the component of a node on a cycle
\* holds the whole cycle, and the groups reported include it.
THEOREM CyclesReported == Spec => []EveryCycleIsReported
<1>1. Init => SearchInv
  BY SearchInit
<1>2. SearchInv /\ [Next]_vars => SearchInv'
  BY SearchStep
<1>3. SearchInv => EveryCycleIsReported
  <2> SUFFICES ASSUME SearchInv, ComponentsAreKnown, NEW u \in Nodes, OnCycle(u)
               PROVE  \E g \in CycleGroups : CycleOf(u) \subseteq g
    BY DEF EveryCycleIsReported
  <2>1. PICK w \in Successors(u) : LeadsTo(w, u)
    BY DEF OnCycle
  <2>2. w \in Nodes /\ <<u, w>> \in Resolved
    BY <2>1, GraphAssumption DEF Successors, Resolved
  <2>3. LeadsTo(u, u) /\ LeadsTo(u, w)
    BY <2>2 DEF LeadsTo
  <2>4. \A v \in CycleOf(u) : v \in Nodes /\ component[v] = component[u]
    <3> SUFFICES ASSUME NEW v \in CycleOf(u) PROVE v \in Nodes /\ component[v] = component[u]
      OBVIOUS
    <3>1. v \in Nodes /\ LeadsTo(u, v) /\ LeadsTo(v, u)
      BY DEF CycleOf
    <3>2. component[u] <= component[v] /\ component[v] <= component[u]
      BY <3>1, NumbersFollow
    <3> QED
      BY <3>1, <3>2 DEF SearchInv, TypeOK
  <2> DEFINE g == Members(component[u])
  <2>5. CycleOf(u) \subseteq g
    BY <2>4 DEF Members
  <2>6. u \in g /\ w \in g
    BY <2>1, <2>2, <2>3, <2>5 DEF CycleOf
  <2>7. component[u] \in 1 .. count
    BY <2>3, NumbersFollow DEF SearchInv, TypeOK, NumbersAreKept
  <2>8. IsCycle(g)
    <3>1. CASE w = u
      BY <2>2, <2>6, <3>1 DEF IsCycle, Resolved
    <3>2. CASE w # u
      BY <2>6, <3>2 DEF IsCycle
    <3> QED
      BY <3>1, <3>2
  <2> QED
    BY <2>5, <2>7, <2>8 DEF CycleGroups
<1> QED
  BY <1>1, <1>2, <1>3, PTL DEF Spec
-----------------------------------------------------------------------------
(* Numbers of things before others.                                           *)

\* Of a finite set in order, those with fewer than r before them are r, unless
\* they are all.
LEMMA RoomTaken ==
    ASSUME NEW S, IsFiniteSet(S), NEW Under \in [S -> SUBSET S],
           \A a, b \in S : a = b \/ a \in Under[b] \/ b \in Under[a],
           \A a \in S : a \notin Under[a],
           \A a, b, c \in S : a \in Under[b] /\ b \in Under[c] => a \in Under[c],
           NEW r \in Nat, NEW T \in SUBSET S,
           \A n \in S : n \in T <=> Cardinality(Under[n]) < r
    PROVE  /\ IsFiniteSet(T) /\ Cardinality(T) \in Nat /\ Cardinality(T) <= r
           /\ T # S => Cardinality(T) = r
  <1> DEFINE rank == [n \in S |-> Cardinality(Under[n])]
  <1>1. \A n \in S : IsFiniteSet(Under[n]) /\ rank[n] \in Nat /\ rank[n] = Cardinality(Under[n])
    <2> SUFFICES ASSUME NEW n \in S
                 PROVE  IsFiniteSet(Under[n]) /\ Cardinality(Under[n]) \in Nat
      OBVIOUS
    <2>1. Under[n] \in SUBSET S
      OBVIOUS
    <2> QED  BY <2>1, FS_Subset, FS_CardinalityType
  <1>2. \A m, n \in S : m \in Under[n] => rank[m] < rank[n]
    <2> SUFFICES ASSUME NEW m \in S, NEW n \in S, m \in Under[n] PROVE rank[m] < rank[n]
      OBVIOUS
    <2>1. Under[m] \in SUBSET Under[n] /\ m \in Under[n] /\ m \notin Under[m]
      OBVIOUS
    <2>2. Cardinality(Under[m]) <= Cardinality(Under[n]) /\ Cardinality(Under[n]) # Cardinality(Under[m])
      BY <1>1, <2>1, FS_Subset
    <2>3. rank[m] \in Nat /\ rank[n] \in Nat /\ rank[m] = Cardinality(Under[m]) /\ rank[n] = Cardinality(Under[n])
      BY <1>1
    <2> HIDE DEF rank
    <2> QED  BY <2>2, <2>3
  <1>3. \A n \in S : n \in T <=> rank[n] < r
    BY <1>1
  <1> HIDE DEF rank
  <1>5. IsFiniteSet(T) /\ Cardinality(T) \in Nat
    <2>1. T \in SUBSET S
      BY <1>3
    <2> QED  BY <2>1, FS_Subset, FS_CardinalityType
  <1>6. Cardinality(T) <= r
    <2> DEFINE f == [n \in T |-> rank[n]]
    <2>1. f \in [T -> 0 .. (r - 1)]
      BY <1>1, <1>3
    <2>2. \A a, b \in T : f[a] = f[b] => a = b
      <3> SUFFICES ASSUME NEW a \in T, NEW b \in T, a # b PROVE rank[a] # rank[b]
        OBVIOUS
      <3>1. a \in S /\ b \in S
        BY <1>3
      <3>2. rank[a] < rank[b] \/ rank[b] < rank[a]
        BY <1>2, <3>1
      <3> QED  BY <1>1, <3>1, <3>2
    <2> HIDE DEF f
    <2>3. f \in Injection(T, 0 .. (r - 1))
      BY <2>1, <2>2, Fun_IsInj
    <2>4. IsFiniteSet(0 .. (r - 1)) /\ Cardinality(0 .. (r - 1)) = r
      BY FS_Interval
    <2> QED  BY <2>3, <2>4, FS_Injection
  <1>7. ASSUME T # S PROVE Cardinality(T) = r
    <2> DEFINE Ranks == {j \in Nat : \E m \in S : m \notin T /\ rank[m] = j}
    <2>1. Ranks \in SUBSET Nat /\ Ranks # {}
      <3>1. PICK n \in S : n \notin T
        BY <1>3, <1>7
      <3>2. rank[n] \in Nat
        BY <1>1
      <3> QED  BY <3>1, <3>2
    <2>2. PICK k \in Ranks : \A j \in Ranks : k <= j
      <3> HIDE DEF Ranks
      <3> QED  BY <2>1, LeastNumber
    <2>3. PICK n \in S \ T : k = rank[n]
      OBVIOUS
    <2>4. Under[n] \in SUBSET T
      <3> SUFFICES ASSUME NEW m \in Under[n], m \notin T PROVE FALSE
        OBVIOUS
      <3>1. m \in S /\ rank[m] < rank[n]
        BY <1>2, <2>3
      <3>2. rank[m] \in Ranks
        BY <1>1, <3>1
      <3>3. rank[n] <= rank[m] /\ rank[m] \in Nat /\ rank[n] \in Nat
        BY <1>1, <2>2, <2>3, <3>1, <3>2
      <3> QED  BY <3>1, <3>3
    <2>5. Cardinality(Under[n]) <= Cardinality(T)
      BY <1>5, <2>4, FS_Subset
    <2>6. rank[n] \in Nat /\ ~(rank[n] < r) /\ rank[n] = Cardinality(Under[n])
      BY <1>1, <1>3, <2>3
    <2> QED  BY <1>5, <1>6, <2>5, <2>6
  <1> QED  BY <1>5, <1>6, <1>7

-----------------------------------------------------------------------------
(* The nodes around a node.                                                   *)

Layer(f, i, n, pairs) ==
    IF i = 0 THEN {n}
    ELSE f[i - 1] \cup {m \in Nodes : \E l \in f[i - 1] : <<m, l>> \in pairs \/ <<l, m>> \in pairs}
IsLayered(f, k, n, pairs) == \A i \in 0 .. k : f[i] = Layer(f, i, n, pairs)

LEMMA LayersExist ==
    ASSUME NEW k \in Nat, NEW n, NEW pairs
    PROVE  \E f : f = [i \in 0 .. k |-> Layer(f, i, n, pairs)]
  <1> DEFINE P == {j \in 0 .. k : \E f : f = [i \in 0 .. j |-> Layer(f, i, n, pairs)]}
  <1>1. 0 \in P
    <2> DEFINE f == [i \in 0 .. 0 |-> {n}]
    <2>1. f = [i \in 0 .. 0 |-> Layer(f, i, n, pairs)]
      BY DEF Layer
    <2>2. 0 \in 0 .. k
      OBVIOUS
    <2> QED  BY <2>1, <2>2
  <1>2. ASSUME NEW j \in 1 .. k, j - 1 \in P PROVE j \in P
    <2>1. PICK f : f = [i \in 0 .. (j - 1) |-> Layer(f, i, n, pairs)]
      BY <1>2
    <2> DEFINE g == [i \in 0 .. j |-> IF i = j THEN Layer(f, j, n, pairs) ELSE f[i]]
    <2>2. \A i \in 0 .. j : g[i] = Layer(g, i, n, pairs)
      <3> SUFFICES ASSUME NEW i \in 0 .. j PROVE g[i] = Layer(g, i, n, pairs)
        OBVIOUS
      <3>1. i # 0 => g[i - 1] = f[i - 1]
        OBVIOUS
      <3>2. Layer(g, i, n, pairs) = Layer(f, i, n, pairs)
        BY <3>1 DEF Layer
      <3>3. i # j => f[i] = Layer(f, i, n, pairs)
        <4>1. i # j => i \in 0 .. (j - 1)
          OBVIOUS
        <4> QED  BY <2>1, <4>1
      <3> QED  BY <3>2, <3>3
    <2>3. g = [i \in 0 .. j |-> g[i]]
      OBVIOUS
    <2> HIDE DEF g
    <2>4. g = [i \in 0 .. j |-> Layer(g, i, n, pairs)]
      BY <2>2, <2>3
    <2>5. j \in 0 .. k
      OBVIOUS
    <2> QED  BY <2>4, <2>5
  <1>3. k \in 0 .. k
    OBVIOUS
  <1> HIDE DEF P
  <1>4. k \in P
    BY <1>1, <1>2, <1>3, UpToBound
  <1> QED  BY <1>4 DEF P

\* Whatever is made in layers is the ball.
LEMMA BallIsLayered ==
    ASSUME NEW k \in Nat, NEW n, NEW pairs
    PROVE  /\ \E f : IsLayered(f, k, n, pairs)
           /\ \A f : IsLayered(f, k, n, pairs) => f[k] = Ball(n, k, pairs)
  <1> DEFINE within == CHOOSE f : f = [i \in 0 .. k |-> Layer(f, i, n, pairs)]
  <1>1. Ball(n, k, pairs) = within[k]
    BY DEF Ball, Layer
  <1>2. within = [i \in 0 .. k |-> Layer(within, i, n, pairs)]
    BY LayersExist
  <1> HIDE DEF within
  <1>3. IsLayered(within, k, n, pairs)
    BY <1>2 DEF IsLayered
  <1>4. ASSUME NEW f, IsLayered(f, k, n, pairs) PROVE f[k] = within[k]
    <2> DEFINE P == {i \in 0 .. k : f[i] = within[i]}
    <2>1. 0 \in P
      <3>1. 0 \in 0 .. k
        OBVIOUS
      <3>2. f[0] = Layer(f, 0, n, pairs) /\ within[0] = Layer(within, 0, n, pairs)
        BY <1>3, <1>4, <3>1 DEF IsLayered
      <3>3. Layer(f, 0, n, pairs) = {n} /\ Layer(within, 0, n, pairs) = {n}
        BY DEF Layer
      <3> QED  BY <3>1, <3>2, <3>3
    <2>2. ASSUME NEW i \in 1 .. k, i - 1 \in P PROVE i \in P
      <3>1. i \in 0 .. k /\ f[i - 1] = within[i - 1]
        BY <2>2
      <3>2. f[i] = Layer(f, i, n, pairs) /\ within[i] = Layer(within, i, n, pairs)
        BY <1>3, <1>4, <3>1 DEF IsLayered
      <3>3. Layer(f, i, n, pairs) = Layer(within, i, n, pairs)
        BY <3>1 DEF Layer
      <3> QED  BY <3>1, <3>2, <3>3
    <2>3. k \in 0 .. k
      OBVIOUS
    <2> HIDE DEF P
    <2>4. k \in P
      BY <2>1, <2>2, <2>3, UpToBound
    <2> QED  BY <2>4 DEF P
  <1> QED  BY <1>1, <1>3, <1>4

LEMMA BallGrows ==
    ASSUME NEW n, NEW pairs
    PROVE  /\ Ball(n, 0, pairs) = {n}
           /\ \A k \in Nat \ {0} : \A m :
                m \in Ball(n, k, pairs) <=>
                  \/ m \in Ball(n, k - 1, pairs)
                  \/ m \in Nodes /\ \E l \in Ball(n, k - 1, pairs) : <<m, l>> \in pairs \/ <<l, m>> \in pairs
  <1>1. Ball(n, 0, pairs) = {n}
    <2>1. PICK f : IsLayered(f, 0, n, pairs)
      BY BallIsLayered
    <2>2. f[0] = Ball(n, 0, pairs)
      BY <2>1, BallIsLayered
    <2>3. 0 \in 0 .. 0
      OBVIOUS
    <2> QED  BY <2>1, <2>2, <2>3 DEF IsLayered, Layer
  <1>2. ASSUME NEW k \in Nat \ {0}
        PROVE  \A m :
                m \in Ball(n, k, pairs) <=>
                  \/ m \in Ball(n, k - 1, pairs)
                  \/ m \in Nodes /\ \E l \in Ball(n, k - 1, pairs) : <<m, l>> \in pairs \/ <<l, m>> \in pairs
    <2>1. PICK f : IsLayered(f, k, n, pairs)
      BY BallIsLayered
    <2>2. f[k] = Ball(n, k, pairs)
      BY <2>1, BallIsLayered
    <2>3. k - 1 \in Nat /\ 0 .. (k - 1) \subseteq 0 .. k
      OBVIOUS
    <2>4. IsLayered(f, k - 1, n, pairs)
      BY <2>1, <2>3 DEF IsLayered
    <2>5. f[k - 1] = Ball(n, k - 1, pairs)
      BY <2>3, <2>4, BallIsLayered
    <2>6. k \in 0 .. k /\ k # 0
      OBVIOUS
    <2>7. f[k] = Layer(f, k, n, pairs)
      BY <2>1, <2>6 DEF IsLayered
    <2> QED  BY <2>2, <2>5, <2>6, <2>7 DEF Layer
  <1> QED  BY <1>1, <1>2

LEMMA BallWidens ==
    ASSUME NEW n, NEW pairs, NEW k \in Nat, NEW u \in Ball(n, k, pairs), NEW v \in Nodes,
           <<u, v>> \in pairs \/ <<v, u>> \in pairs
    PROVE  v \in Ball(n, k + 1, pairs)
  <1> DEFINE K == k + 1
  <1>1. K \in Nat \ {0} /\ K - 1 = k
    OBVIOUS
  <1> HIDE DEF K
  <1>2. v \in Ball(n, K, pairs)
    BY <1>1, BallGrows
  <1> QED  BY <1>2 DEF K

LEMMA BallsNest ==
    ASSUME NEW n, NEW pairs, NEW j \in Nat, NEW k \in Nat, j <= k
    PROVE  Ball(n, j, pairs) \subseteq Ball(n, k, pairs)
  <1> DEFINE P == {i \in 0 .. k : j <= i => Ball(n, j, pairs) \subseteq Ball(n, i, pairs)}
  <1>1. 0 \in P
    OBVIOUS
  <1>2. ASSUME NEW i \in 1 .. k, i - 1 \in P PROVE i \in P
    <2>1. i \in 0 .. k /\ i \in Nat \ {0}
      OBVIOUS
    <2>2. Ball(n, i - 1, pairs) \subseteq Ball(n, i, pairs)
      BY <2>1, BallGrows
    <2>3. j <= i => j = i \/ j <= i - 1
      BY <2>1
    <2> QED  BY <1>2, <2>1, <2>2, <2>3
  <1>3. k \in 0 .. k
    OBVIOUS
  <1> HIDE DEF P
  <1>4. k \in P
    BY <1>1, <1>2, <1>3, UpToBound
  <1> QED  BY <1>4 DEF P

\* Nodes whose neighbors are all known up to a distance are the whole ball of it.
LEMMA BallIsKnown ==
    ASSUME NEW n, NEW pairs, NEW D, n \in D, NEW distance \in [D -> Nat], NEW k \in Nat,
           \A l \in D : distance[l] > 0 => l \notin Ball(n, distance[l] - 1, pairs),
           \A l \in D : distance[l] < k =>
                \A m \in Nodes : <<m, l>> \in pairs \/ <<l, m>> \in pairs => m \in D
    PROVE  Ball(n, k, pairs) \subseteq D
  <1> DEFINE P == {i \in 0 .. k : Ball(n, i, pairs) \subseteq D}
  <1>1. 0 \in P
    BY BallGrows
  <1>2. ASSUME NEW i \in 1 .. k, i - 1 \in P PROVE i \in P
    <2>1. i \in 0 .. k /\ i \in Nat \ {0} /\ i - 1 \in Nat
      OBVIOUS
    <2>2. ASSUME NEW l \in Ball(n, i - 1, pairs) PROVE l \in D /\ distance[l] < k
      <3>1. l \in D
        BY <1>2, <2>2
      <3>2. distance[l] \in Nat
        BY <3>1
      <3>3. ASSUME distance[l] >= i PROVE FALSE
        <4>1. distance[l] - 1 \in Nat /\ i - 1 <= distance[l] - 1 /\ distance[l] > 0
          BY <2>1, <3>2, <3>3
        <4>2. Ball(n, i - 1, pairs) \subseteq Ball(n, distance[l] - 1, pairs)
          BY <2>1, <4>1, BallsNest
        <4> QED  BY <2>2, <3>1, <4>1, <4>2
      <3> QED  BY <3>1, <3>2, <3>3
    <2>3. Ball(n, i, pairs) \subseteq D
      <3>1. ASSUME NEW m \in Ball(n, i, pairs), m \notin Ball(n, i - 1, pairs)
            PROVE  m \in Nodes /\ \E l \in Ball(n, i - 1, pairs) : <<m, l>> \in pairs \/ <<l, m>> \in pairs
        BY <2>1, <3>1, BallGrows
      <3> QED  BY <2>2, <3>1
    <2> QED  BY <2>1, <2>3
  <1>3. k \in 0 .. k
    OBVIOUS
  <1> HIDE DEF P
  <1>4. k \in P
    BY <1>1, <1>2, <1>3, UpToBound
  <1> QED  BY <1>4 DEF P

-----------------------------------------------------------------------------
(* The invariant of a neighborhood: the distances are right, and what is left *)
(* to widen from is in the queue, nearest first.  Once a node is left out     *)
(* there is no room for another, so a node that comes later never gets a      *)
(* distance that a longer way gave it.                                        *)

Known == DOMAIN distances

Reached ==
    /\ query \in Queries /\ Known \subseteq Nodes /\ query.focus \in Known
    /\ distances \in [Known -> Nat]
    /\ Cardinality(Known) <= query.maxNodes
    /\ \A n \in Known : /\ distances[n] <= query.depth
                        /\ n \in Around(distances[n])
                        /\ distances[n] > 0 => n \notin Around(distances[n] - 1)
QueueIsSorted ==
    /\ queue \in Seq(Nodes)
    /\ \A i \in 1 .. Len(queue) : queue[i] \in Known
    /\ \A i, j \in 1 .. Len(queue) : i < j => distances[queue[i]] <= distances[queue[j]]
    /\ \A i, j \in 1 .. Len(queue) : distances[queue[j]] <= distances[queue[i]] + 1
NoRoomIsLeft ==
    truncated => Cardinality(Known) = query.maxNodes /\ \E n \in Around(query.depth) : n \notin Known
RestIsQueued ==
    ~truncated => \A n \in Known : \/ \E i \in 1 .. Len(queue) : queue[i] = n
                                   \/ distances[n] = query.depth
                                   \/ Neighbors(n) \subseteq Known
WidenInv == Reached /\ QueueIsSorted /\ NoRoomIsLeft /\ RestIsQueued
AnswerInv == Reached /\ (truncated <=> Known # Around(query.depth) \/ CutsEdges)
NeighborhoodInv ==
    /\ phase = "widen" => WidenInv
    /\ phase = "answered" => AnswerInv

\* All nodes nearer than k have their neighbors: the ball is known.
LEMMA AroundIsKnown ==
    ASSUME Reached, NEW k \in Nat,
           \A l \in Known : distances[l] < k => Neighbors(l) \subseteq Known
    PROVE  Around(k) \subseteq Known
  <1>1. query.focus \in Known /\ distances \in [Known -> Nat]
    BY DEF Reached
  <1>2. \A l \in Known : distances[l] > 0 => l \notin Ball(query.focus, distances[l] - 1, edges)
    BY DEF Reached, Around
  <1>3. \A l \in Known : distances[l] < k =>
          \A m \in Nodes : <<m, l>> \in edges \/ <<l, m>> \in edges => m \in Known
    BY DEF Neighbors, Successors, Predecessors
  <1>4. Ball(query.focus, k, edges) \subseteq Known
    BY <1>1, <1>2, <1>3, BallIsKnown
  <1> QED  BY <1>4 DEF Around

LEMMA AroundNests ==
    ASSUME NEW j \in Nat, NEW k \in Nat, j <= k
    PROVE  Around(j) \subseteq Around(k)
  BY BallsNest DEF Around

LEMMA NeighborsAreNext ==
    ASSUME NEW k \in Nat, NEW u \in Around(k), NEW v \in Neighbors(u)
    PROVE  v \in Around(k + 1)
  <1>1. v \in Nodes /\ (<<u, v>> \in edges \/ <<v, u>> \in edges)
    BY DEF Neighbors, Successors, Predecessors
  <1>2. u \in Ball(query.focus, k, edges)
    BY DEF Around
  <1>3. v \in Ball(query.focus, k + 1, edges)
    BY <1>1, <1>2, BallWidens
  <1> QED  BY <1>3 DEF Around

LEMMA AroundStays ==
    ASSUME UNCHANGED <<query, edges>>
    PROVE  \A k : Around(k)' = Around(k)
  BY DEF Around

-----------------------------------------------------------------------------
(* What a step takes.                                                         *)

LEMMA TakenIs ==
    ASSUME Reached, NEW new \in SUBSET Nodes, new \cap Known = {}
    PROVE  /\ IsFiniteSet(Take(new)) /\ Take(new) \subseteq new
           /\ Cardinality(Take(new)) \in Nat
           /\ Cardinality(Known \cup Take(new)) <= query.maxNodes
           /\ Take(new) # new => Cardinality(Known \cup Take(new)) = query.maxNodes
           /\ Cardinality(Known) = query.maxNodes => Take(new) = {}
  <1> DEFINE T == Take(new)
             r == query.maxNodes - Cardinality(Known)
             Under == [n \in new |-> {m \in new : m < n}]
  <1>1. query.maxNodes \in Nat
    BY GraphAssumption DEF Reached
  <1>2. IsFiniteSet(Known) /\ Cardinality(Known) \in Nat /\ IsFiniteSet(new)
    <2>1. Known \in SUBSET Nodes
      BY DEF Reached
    <2> QED  BY <2>1, GraphAssumption, FS_Subset, FS_CardinalityType
  <1>3. r \in Nat
    BY <1>1, <1>2 DEF Reached
  <1>4. Under \in [new -> SUBSET new] /\ \A n \in new : Under[n] = {m \in new : m < n}
    OBVIOUS
  <1>5. \A n \in new : n \in T <=> Cardinality(Under[n]) < r
    <2> SUFFICES ASSUME NEW n \in new PROVE n \in T <=> Cardinality(Under[n]) < r
      OBVIOUS
    <2>1. n \in T <=> Cardinality(Known) + Cardinality({m \in new : m < n}) < query.maxNodes
      BY DEF Take, Known
    <2> HIDE DEF Under, T
    <2>2. n \in T <=> Cardinality(Known) + Cardinality(Under[n]) < query.maxNodes
      BY <1>4, <2>1
    <2>3. Under[n] \in SUBSET new
      BY <1>4
    <2>4. Cardinality(Under[n]) \in Nat
      BY <1>2, <2>3, FS_Subset, FS_CardinalityType
    <2> QED  BY <1>1, <1>2, <2>2, <2>4
  <1>6. /\ \A a, b \in new : a = b \/ a \in Under[b] \/ b \in Under[a]
        /\ \A a \in new : a \notin Under[a]
        /\ \A a, b, c \in new : a \in Under[b] /\ b \in Under[c] => a \in Under[c]
    <2>1. \A a, b \in new : a \in Nat /\ b \in Nat /\ (a \in Under[b] <=> a < b)
      BY <1>4, GraphAssumption
    <2> HIDE DEF Under
    <2> QED  BY <2>1
  <1> HIDE DEF r
  <1>7. /\ IsFiniteSet(T) /\ Cardinality(T) \in Nat /\ Cardinality(T) <= r
        /\ T # new => Cardinality(T) = r
    <2>1. T \in SUBSET new
      BY DEF Take
    <2> HIDE DEF T, Under
    <2> QED  BY <1>2, <1>3, <1>4, <1>5, <1>6, <2>1, RoomTaken
  <1>8. T \subseteq new
    BY DEF Take
  <1> HIDE DEF T
  <1>9. Cardinality(Known \cup T) = Cardinality(Known) + Cardinality(T)
    <2>1. Known \cap T = {}
      BY <1>8
    <2>2. Cardinality(Known \cup T) = Cardinality(Known) + Cardinality(T) - Cardinality({})
      BY <1>2, <1>7, <2>1, FS_Union
    <2> QED  BY <1>2, <1>7, <2>2, FS_EmptySet
  <1>10. Cardinality(Known) = query.maxNodes => T = {}
    <2>1. Cardinality(Known) = query.maxNodes => Cardinality(T) = 0
      BY <1>1, <1>2, <1>7 DEF r
    <2> QED  BY <1>7, <2>1, FS_EmptySet
  <1>11. /\ Cardinality(Known) + Cardinality(T) <= query.maxNodes
         /\ T # new => Cardinality(Known) + Cardinality(T) = query.maxNodes
    BY <1>1, <1>2, <1>7 DEF r
  <1> QED  BY <1>7, <1>8, <1>9, <1>10, <1>11 DEF T

\* A sequence of all of a finite set in order holds every one of them.
LEMMA InOrderIsAll ==
    ASSUME NEW T \in SUBSET Nat, IsFiniteSet(T), Cardinality(T) \in Nat,
           NEW s \in [1 .. Cardinality(T) -> T],
           \A i, j \in 1 .. Cardinality(T) : i < j => s[i] < s[j]
    PROVE  \A n \in T : \E i \in 1 .. Cardinality(T) : s[i] = n
  <1>1. \A i, j \in 1 .. Cardinality(T) : s[i] = s[j] => i = j
    <2> SUFFICES ASSUME NEW i \in 1 .. Cardinality(T), NEW j \in 1 .. Cardinality(T), s[i] = s[j], i # j
                 PROVE  FALSE
      OBVIOUS
    <2>1. i < j \/ j < i
      OBVIOUS
    <2>2. s[i] < s[j] \/ s[j] < s[i]
      BY <2>1
    <2>3. s[i] \in Nat /\ s[j] \in Nat
      OBVIOUS
    <2> QED  BY <2>2, <2>3
  <1>2. s \in Injection(1 .. Cardinality(T), T)
    BY <1>1, Fun_IsInj
  <1>3. IsFiniteSet(1 .. Cardinality(T)) /\ Cardinality(1 .. Cardinality(T)) = Cardinality(T)
    BY FS_Interval
  <1>4. s \in Surjection(1 .. Cardinality(T), T)
    BY <1>2, <1>3, FS_Injection
  <1> QED  BY <1>4 DEF Surjection

\* No more edges are shown than asked for.
LEMMA ShownIsBounded ==
    ASSUME edges \subseteq Candidates, query \in Queries
    PROVE  Cardinality(Shown) <= query.maxEdges
  <1> DEFINE Under == [e \in Selected |-> {d \in Selected : Before(d, e)}]
  <1>1. IsFiniteSet(Selected)
    <2>1. IsFiniteSet(Nodes \X (Nodes \cup {Unresolved}))
      BY GraphAssumption, FS_AddElement, FS_Product
    <2>2. Selected \in SUBSET (Nodes \X (Nodes \cup {Unresolved}))
      BY GraphAssumption DEF Selected
    <2> QED  BY <2>1, <2>2, FS_Subset
  <1>2. \A a \in Selected : a = <<a[1], a[2]>> /\ a[1] \in Nat /\ a[2] \in Nat
    <2>1. \A a \in Nodes \X (Nodes \cup {Unresolved}) : a = <<a[1], a[2]>> /\ a[1] \in Nat /\ a[2] \in Nat
      <3>1. Nodes \subseteq Nat /\ Nodes \cup {Unresolved} \subseteq Nat
        BY GraphAssumption
      <3> DEFINE Targets == Nodes \cup {Unresolved}
      <3> HIDE DEF Targets
      <3>2. \A a \in Nodes \X Targets : a = <<a[1], a[2]>> /\ a[1] \in Nodes /\ a[2] \in Targets
        OBVIOUS
      <3> QED  BY <3>1, <3>2 DEF Targets
    <2>2. Selected \subseteq Nodes \X (Nodes \cup {Unresolved})
      BY GraphAssumption DEF Selected
    <2> QED  BY <2>1, <2>2
  <1>3. Under \in [Selected -> SUBSET Selected]
    OBVIOUS
  <1>4. \A a, b \in Selected : a \in Under[b] <=> a[1] < b[1] \/ (a[1] = b[1] /\ a[2] < b[2])
    BY DEF Before
  <1>5. \A e \in Selected : e \in Shown <=> Cardinality(Under[e]) < query.maxEdges
    BY DEF Shown
  <1> HIDE DEF Under
  <1>6. /\ \A a, b \in Selected : a = b \/ a \in Under[b] \/ b \in Under[a]
        /\ \A a \in Selected : a \notin Under[a]
        /\ \A a, b, c \in Selected : a \in Under[b] /\ b \in Under[c] => a \in Under[c]
    BY <1>2, <1>4
  <1>7. query.maxEdges \in Nat /\ Shown \in SUBSET Selected
    BY GraphAssumption DEF Shown
  <1> QED  BY <1>1, <1>3, <1>5, <1>6, <1>7, RoomTaken

-----------------------------------------------------------------------------
(* The steps of a neighborhood.                                               *)

LEMMA AskStep ==
    ASSUME NEW q \in Queries, Ask(q)
    PROVE  WidenInv'
  <1>1. /\ query' = q /\ distances' = [n \in {q.focus} |-> 0] /\ queue' = <<q.focus>>
        /\ truncated' = FALSE /\ edges' = edges
    BY DEF Ask, Queried, graphVars
  <1>2. q.focus \in Nodes /\ q.depth \in Nat /\ q.maxNodes \in Nat \ {0}
    BY GraphAssumption
  <1>3. Known' = {q.focus} /\ distances'[q.focus] = 0 /\ distances' \in [Known' -> Nat]
    BY <1>1 DEF Known
  <1>4. Cardinality(Known') = 1
    BY <1>3, FS_Singleton
  <1>5. Around(0)' = {q.focus}
    BY <1>1, BallGrows DEF Around
  <1>6. Reached'
    BY <1>1, <1>2, <1>3, <1>4, <1>5 DEF Reached
  <1>7. Len(queue') = 1 /\ queue'[1] = q.focus /\ queue' \in Seq(Nodes)
    BY <1>1, <1>2
  <1>8. QueueIsSorted'
    BY <1>3, <1>7 DEF QueueIsSorted
  <1>9. NoRoomIsLeft' /\ RestIsQueued'
    BY <1>1, <1>3, <1>7 DEF NoRoomIsLeft, RestIsQueued
  <1> QED  BY <1>6, <1>8, <1>9 DEF WidenInv

LEMMA SkipStep ==
    ASSUME WidenInv, Widen, distances[Head(queue)] >= query.depth
    PROVE  WidenInv'
  <1>1. /\ queue # <<>> /\ queue' = Tail(queue) /\ UNCHANGED <<edges, query, distances, truncated>>
    BY DEF Widen, Queried, graphVars
  <1>2. Known' = Known /\ \A k : Around(k)' = Around(k)
    BY <1>1, AroundStays DEF Known
  <1>3. Reached /\ QueueIsSorted /\ NoRoomIsLeft /\ RestIsQueued
    BY DEF WidenInv
  <1>4. Reached'
    BY <1>1, <1>2, <1>3 DEF Reached
  <1>5. NoRoomIsLeft'
    BY <1>1, <1>2, <1>3 DEF NoRoomIsLeft
  <1>6. /\ queue \in Seq(Nodes) /\ Len(queue) \in Nat \ {0} /\ Head(queue) = queue[1]
        /\ queue' \in Seq(Nodes) /\ Len(queue') = Len(queue) - 1
        /\ \A i \in 1 .. Len(queue) - 1 : queue'[i] = queue[i + 1]
    BY <1>1, <1>3 DEF QueueIsSorted
  <1>7. QueueIsSorted'
    BY <1>1, <1>2, <1>3, <1>6 DEF QueueIsSorted
  <1>8. RestIsQueued'
    <2> SUFFICES ASSUME ~truncated', NEW n \in Known
                 PROVE  \/ \E i \in 1 .. Len(queue') : queue'[i] = n
                        \/ distances[n] = query.depth
                        \/ Neighbors(n) \subseteq Known
      BY <1>1, <1>2 DEF RestIsQueued, Neighbors, Successors, Predecessors
    <2>1. CASE \E i \in 1 .. Len(queue) : queue[i] = n
      <3>1. PICK i \in 1 .. Len(queue) : queue[i] = n
        BY <2>1
      <3>2. CASE i = 1
        <4>1. distances[n] \in Nat /\ query.depth \in Nat /\ distances[n] <= query.depth
          BY <1>3, GraphAssumption DEF Reached
        <4> QED  BY <1>6, <3>1, <3>2, <4>1
      <3>3. CASE i # 1
        <4>1. i - 1 \in 1 .. Len(queue') /\ queue'[i - 1] = n
          BY <1>6, <3>1, <3>3
        <4> QED  BY <4>1
      <3> QED  BY <3>2, <3>3
    <2>2. CASE ~ \E i \in 1 .. Len(queue) : queue[i] = n
      BY <1>1, <1>3, <2>2 DEF RestIsQueued
    <2> QED  BY <2>1, <2>2
  <1> QED  BY <1>4, <1>5, <1>7, <1>8 DEF WidenInv

\* What is taken at a distance was not within a shorter one.
LEMMA TakenIsNew ==
    ASSUME WidenInv, NEW c \in Nat, c <= query.depth, queue # <<>>, distances[queue[1]] = c,
           NEW n \in Nodes, n \notin Known, ~truncated
    PROVE  n \notin Around(c)
  <1>1. Reached /\ QueueIsSorted /\ RestIsQueued
    BY DEF WidenInv
  <1>2. ASSUME NEW l \in Known, distances[l] < c PROVE Neighbors(l) \subseteq Known
    <2>1. distances[l] \in Nat /\ distances[l] # query.depth
      BY <1>1, <1>2, GraphAssumption DEF Reached
    <2>2. ASSUME NEW i \in 1 .. Len(queue), queue[i] = l PROVE FALSE
      <3>1. Len(queue) \in Nat \ {0}
        BY <1>1 DEF QueueIsSorted
      <3>2. 1 \in 1 .. Len(queue)
        BY <3>1
      <3>3. i = 1 \/ distances[queue[1]] <= distances[queue[i]]
        BY <1>1, <3>1, <3>2 DEF QueueIsSorted
      <3> QED  BY <1>2, <2>1, <2>2, <3>3
    <2> QED  BY <1>1, <2>1, <2>2 DEF RestIsQueued
  <1>3. Around(c) \subseteq Known
    BY <1>1, <1>2, AroundIsKnown
  <1> QED  BY <1>3

LEMMA WidenStep ==
    ASSUME WidenInv, Widen, distances[Head(queue)] < query.depth
    PROVE  WidenInv'
  <1>1. Reached /\ QueueIsSorted /\ NoRoomIsLeft /\ RestIsQueued
    BY DEF WidenInv
  <1> DEFINE widened == Head(queue)
             c == distances[widened]
             new == Neighbors(widened) \ Known
             taken == Take(new)
  <1>2. /\ queue # <<>> /\ queue \in Seq(Nodes) /\ Len(queue) \in Nat \ {0} /\ widened = queue[1]
        /\ Tail(queue) \in Seq(Nodes) /\ Len(Tail(queue)) = Len(queue) - 1
        /\ \A i \in 1 .. Len(queue) - 1 : Tail(queue)[i] = queue[i + 1]
    <2>1. queue # <<>>
      BY DEF Widen
    <2> QED  BY <1>1, <2>1 DEF QueueIsSorted
  <1>3. widened \in Known /\ c \in Nat /\ query.depth \in Nat /\ c < query.depth /\ query.maxNodes \in Nat
    <2>1. widened \in Known
      BY <1>1, <1>2 DEF QueueIsSorted
    <2> QED  BY <1>1, <2>1, GraphAssumption DEF Reached
  <1>4. UNCHANGED <<query, edges>>
    BY DEF Widen, Queried, graphVars
  <1>5. ~(c >= query.depth)
    BY <1>3
  <1>6. /\ distances' = [n \in Known \cup taken |-> IF n \in taken THEN c + 1 ELSE distances[n]]
        /\ truncated' = (truncated \/ taken # new)
        /\ \E s \in [1 .. Cardinality(taken) -> taken] :
              /\ \A i, j \in DOMAIN s : i < j => s[i] < s[j]
              /\ queue' = Tail(queue) \o s
    BY <1>5 DEF Widen, Order, Known
  <1>7. PICK s \in [1 .. Cardinality(taken) -> taken] :
              /\ \A i, j \in 1 .. Cardinality(taken) : i < j => s[i] < s[j]
              /\ queue' = Tail(queue) \o s
    BY <1>6
  <1>8. new \in SUBSET Nodes /\ new \cap Known = {} /\ new \subseteq Neighbors(widened)
    BY DEF Neighbors, Successors, Predecessors
  <1>9. Neighbors(widened) \subseteq Known \cup new
    OBVIOUS
  <1> HIDE DEF new
  <1>10. /\ IsFiniteSet(taken) /\ taken \subseteq new /\ Cardinality(taken) \in Nat
         /\ Cardinality(Known \cup taken) <= query.maxNodes
         /\ taken # new => Cardinality(Known \cup taken) = query.maxNodes
         /\ Cardinality(Known) = query.maxNodes => taken = {}
    BY <1>1, <1>8, TakenIs
  <1>11. Known \subseteq Nodes /\ distances \in [Known -> Nat]
    BY <1>1 DEF Reached
  <1> HIDE DEF taken, c, widened
  <1>12. /\ Known' = Known \cup taken
         /\ distances' \in [Known' -> Nat]
         /\ \A n \in taken : distances'[n] = c + 1
         /\ \A n \in Known : distances'[n] = distances[n]
    BY <1>3, <1>6, <1>8, <1>10, <1>11 DEF Known
  <1>13. \A k : Around(k)' = Around(k)
    BY <1>4, AroundStays
  <1>14. \A n \in new : n \in Around(c + 1)
    <2>1. widened \in Around(c)
      BY <1>1, <1>3 DEF Reached, c
    <2> QED  BY <1>3, <1>8, <2>1, NeighborsAreNext
  <1>15. truncated => taken = {}
    BY <1>1, <1>10 DEF NoRoomIsLeft
  <1>16. Reached'
    <2>1. ASSUME NEW n \in Known' PROVE /\ distances'[n] <= query.depth
                                        /\ n \in Around(distances'[n])
                                        /\ distances'[n] > 0 => n \notin Around(distances'[n] - 1)
      <3>1. CASE n \in Known
        BY <1>1, <1>12, <3>1 DEF Reached
      <3>2. CASE n \in taken
        <4>1. distances'[n] = c + 1 /\ (c + 1) - 1 = c /\ c + 1 <= query.depth
          BY <1>3, <1>12, <3>2
        <4>2. n \in Around(c + 1)
          BY <1>10, <1>14, <3>2
        <4>3. n \in Nodes /\ n \notin Known /\ ~truncated
          BY <1>8, <1>10, <1>15, <3>2
        <4>4. distances[queue[1]] = c /\ c <= query.depth
          BY <1>2, <1>3 DEF c
        <4>5. n \notin Around(c)
          BY <1>2, <1>3, <4>3, <4>4, TakenIsNew
        <4> QED  BY <4>1, <4>2, <4>5
      <3> QED  BY <1>12, <3>1, <3>2
    <2>2. /\ query' \in Queries /\ Known' \subseteq Nodes /\ query'.focus \in Known'
          /\ Cardinality(Known') <= query'.maxNodes
      BY <1>1, <1>4, <1>8, <1>10, <1>12 DEF Reached
    <2>3. \A n \in Known' : /\ distances'[n] <= query'.depth
                            /\ n \in Around(distances[n])'
                            /\ distances'[n] > 0 => n \notin Around(distances[n] - 1)'
      BY <1>4, <2>1 DEF Around
    <2> QED  BY <1>12, <2>2, <2>3 DEF Reached
  <1>17. NoRoomIsLeft'
    <2> SUFFICES ASSUME truncated'
                 PROVE  Cardinality(Known') = query.maxNodes /\ \E n \in Around(query.depth) : n \notin Known'
      BY <1>4, <1>13 DEF NoRoomIsLeft
    <2>1. CASE truncated
      <3>1. Known' = Known
        BY <1>12, <1>15, <2>1
      <3> QED  BY <1>1, <2>1, <3>1 DEF NoRoomIsLeft
    <2>2. CASE taken # new
      <3>1. PICK n \in new : n \notin taken
        BY <1>10, <2>2
      <3>2. n \notin Known'
        BY <1>8, <1>12, <3>1
      <3>3. c + 1 \in Nat /\ c + 1 <= query.depth
        BY <1>3
      <3>4. n \in Around(query.depth)
        BY <1>3, <1>14, <3>3, AroundNests
      <3> QED  BY <1>10, <1>12, <2>2, <3>2, <3>4
    <2> QED  BY <1>6, <2>1, <2>2
  <1> DEFINE before == Len(queue) - 1
             more == Cardinality(taken)
  <1>18. /\ s \in Seq(Nodes) /\ Len(s) = more /\ before \in Nat /\ more \in Nat
         /\ queue' \in Seq(Nodes) /\ Len(queue') = before + more
         /\ \A i \in 1 .. before : queue'[i] = queue[i + 1]
         /\ \A i \in 1 .. more : queue'[before + i] = s[i]
    <2>1. taken \subseteq Nodes
      BY <1>8, <1>10
    <2>2. s \in Seq(Nodes) /\ Len(s) = more
      BY <1>10, <2>1
    <2> QED  BY <1>2, <1>7, <1>10, <2>2
  <1> HIDE DEF before, more
  <1>19. QueueIsSorted'
    <2>1. ASSUME NEW i \in 1 .. before
          PROVE  /\ queue'[i] \in Known /\ queue'[i] = queue[i + 1]
                 /\ i + 1 \in 1 .. Len(queue) /\ c <= distances[queue'[i]] /\ distances[queue'[i]] <= c + 1
      <3>1. i + 1 \in 1 .. Len(queue) /\ 1 \in 1 .. Len(queue) /\ 1 < i + 1 /\ queue'[i] = queue[i + 1]
        BY <1>2, <1>18 DEF before
      <3>2. c = distances[queue[1]]
        BY <1>2 DEF c
      <3> QED  BY <1>1, <3>1, <3>2 DEF QueueIsSorted
    <2>2. ASSUME NEW i \in 1 .. Len(queue'), ~(i \in 1 .. before)
          PROVE  queue'[i] \in taken
      <3>1. i - before \in 1 .. more /\ before + (i - before) = i
        BY <1>18, <2>2
      <3>2. queue'[i] = s[i - before]
        BY <1>18, <3>1
      <3> QED  BY <1>7, <3>1, <3>2 DEF more
    <2>3. ASSUME NEW i \in 1 .. Len(queue')
          PROVE  /\ queue'[i] \in Known' /\ distances'[queue'[i]] \in Nat
                 /\ c <= distances'[queue'[i]] /\ distances'[queue'[i]] <= c + 1
      <3>1. CASE i \in 1 .. before
        <4>1. distances'[queue'[i]] = distances[queue'[i]]
          BY <1>12, <2>1, <3>1
        <4>2. distances[queue'[i]] \in Nat
          BY <1>11, <2>1, <3>1
        <4> QED  BY <1>12, <2>1, <3>1, <4>1, <4>2
      <3>2. CASE ~(i \in 1 .. before)
        <4>1. queue'[i] \in taken
          BY <2>2, <3>2
        <4> QED  BY <1>3, <1>12, <4>1
      <3> QED  BY <3>1, <3>2
    <2>4. ASSUME NEW i \in 1 .. Len(queue'), NEW j \in 1 .. Len(queue'), i < j
          PROVE  distances'[queue'[i]] <= distances'[queue'[j]]
      <3>1. CASE j \in 1 .. before
        <4>1. i \in 1 .. before
          <5>1. i \in Nat /\ j \in Nat /\ 1 <= i /\ j <= before /\ i < j
            BY <1>18, <2>4, <3>1
          <5> QED  BY <1>18, <5>1
        <4>2. i + 1 \in 1 .. Len(queue) /\ j + 1 \in 1 .. Len(queue) /\ i + 1 < j + 1
          BY <2>1, <2>4, <3>1, <4>1
        <4>3. distances[queue[i + 1]] <= distances[queue[j + 1]]
          BY <1>1, <4>2 DEF QueueIsSorted
        <4> QED  BY <1>12, <2>1, <3>1, <4>1, <4>3
      <3>2. CASE ~(j \in 1 .. before)
        <4>1. distances'[queue'[j]] = c + 1
          BY <1>12, <2>2, <3>2
        <4> QED  BY <2>3, <4>1
      <3> QED  BY <3>1, <3>2
    <2>5. \A i, j \in 1 .. Len(queue') : distances'[queue'[j]] <= distances'[queue'[i]] + 1
      <3> SUFFICES ASSUME NEW i \in 1 .. Len(queue'), NEW j \in 1 .. Len(queue')
                   PROVE  distances'[queue'[j]] <= distances'[queue'[i]] + 1
        OBVIOUS
      <3>1. /\ distances'[queue'[i]] \in Nat /\ c <= distances'[queue'[i]]
            /\ distances'[queue'[j]] \in Nat /\ distances'[queue'[j]] <= c + 1
        BY <2>3
      <3> QED  BY <1>3, <3>1
    <2> QED  BY <1>18, <2>3, <2>4, <2>5 DEF QueueIsSorted
  <1>20. RestIsQueued'
    <2> SUFFICES ASSUME ~truncated', NEW n \in Known'
                 PROVE  \/ \E i \in 1 .. Len(queue') : queue'[i] = n
                        \/ distances'[n] = query.depth
                        \/ Neighbors(n) \subseteq Known'
      BY <1>4 DEF RestIsQueued, Neighbors, Successors, Predecessors
    <2>1. ~truncated /\ taken = new
      BY <1>6
    <2>2. CASE n \in taken
      <3>1. taken \in SUBSET Nat
        BY <1>8, <1>10, GraphAssumption
      <3>2. PICK i \in 1 .. more : s[i] = n
        BY <1>7, <1>10, <2>2, <3>1, InOrderIsAll DEF more
      <3>3. before + i \in 1 .. Len(queue') /\ queue'[before + i] = n
        BY <1>18, <3>2
      <3> QED  BY <3>3
    <2>3. CASE n \in Known /\ \E i \in 1 .. Len(queue) : queue[i] = n
      <3>1. PICK i \in 1 .. Len(queue) : queue[i] = n
        BY <2>3
      <3>2. CASE i = 1
        BY <1>2, <1>9, <1>12, <2>1, <3>1, <3>2
      <3>3. CASE i # 1
        <4>1. i - 1 \in 1 .. before /\ (i - 1) + 1 = i
          BY <1>2, <3>3 DEF before
        <4>2. i - 1 \in 1 .. Len(queue') /\ queue'[i - 1] = n
          BY <1>18, <3>1, <4>1
        <4> QED  BY <4>2
      <3> QED  BY <3>2, <3>3
    <2>4. CASE n \in Known /\ ~ \E i \in 1 .. Len(queue) : queue[i] = n
      BY <1>1, <1>12, <2>1, <2>4 DEF RestIsQueued
    <2> QED  BY <1>12, <2>2, <2>3, <2>4
  <1> QED  BY <1>16, <1>17, <1>19, <1>20 DEF WidenInv

LEMMA AnswerStep ==
    ASSUME WidenInv, Answer
    PROVE  AnswerInv'
  <1>1. /\ queue = <<>> /\ UNCHANGED <<edges, query, distances>> /\ truncated' = (truncated \/ CutsEdges)
    BY DEF Answer, Queried, graphVars
  <1>2. Reached /\ NoRoomIsLeft /\ RestIsQueued
    BY DEF WidenInv
  <1>3. Known' = Known /\ CutsEdges' = CutsEdges /\ \A k : Around(k)' = Around(k)
    BY <1>1, AroundStays DEF Known, CutsEdges, Shown, Selected
  <1>4. Reached'
    BY <1>1, <1>2, <1>3 DEF Reached
  <1>5. truncated <=> Known # Around(query.depth)
    <2>1. truncated => Known # Around(query.depth)
      BY <1>2 DEF NoRoomIsLeft
    <2>2. ASSUME ~truncated PROVE Known = Around(query.depth)
      <3>1. query.depth \in Nat
        BY <1>2, GraphAssumption DEF Reached
      <3>2. \A n \in Known : distances[n] < query.depth => Neighbors(n) \subseteq Known
        <4>1. Len(queue) = 0
          BY <1>1
        <4>2. \A n \in Known : distances[n] \in Nat
          BY <1>2 DEF Reached
        <4> QED  BY <1>2, <2>2, <3>1, <4>1, <4>2 DEF RestIsQueued
      <3>3. Around(query.depth) \subseteq Known
        BY <1>2, <3>1, <3>2, AroundIsKnown
      <3>4. \A n \in Known : n \in Around(query.depth)
        <4> SUFFICES ASSUME NEW n \in Known PROVE n \in Around(query.depth)
          OBVIOUS
        <4>1. distances[n] \in Nat /\ distances[n] <= query.depth /\ n \in Around(distances[n])
          BY <1>2 DEF Reached
        <4> QED  BY <3>1, <4>1, AroundNests
      <3> QED  BY <3>3, <3>4
    <2> QED  BY <2>1, <2>2
  <1>6. (truncated <=> Known # Around(query.depth) \/ CutsEdges)'
    BY <1>1, <1>3, <1>5 DEF Around
  <1> QED  BY <1>4, <1>6 DEF AnswerInv

LEMMA NeighborhoodStep ==
    ASSUME NeighborhoodInv, [Next]_vars
    PROVE  NeighborhoodInv'
  <1>1. CASE phase' \notin {"widen", "answered"}
    BY <1>1 DEF NeighborhoodInv
  <1>2. CASE VisitRoot \/ Expand \/ PushNeighbor \/ Finish \/ StartSecondPass
    BY <1>1, <1>2 DEF VisitRoot, Expand, PushNeighbor, Finish, StartSecondPass, FirstPass
  <1>3. CASE NextComponent \/ AssignPredecessors \/ FinishComponents \/ Forget
    BY <1>1, <1>3 DEF NextComponent, AssignPredecessors, FinishComponents, SecondPass, Forget
  <1>4. CASE \E q \in Queries : Ask(q)
    <2>1. phase' = "widen"
      BY <1>4 DEF Ask
    <2> QED  BY <1>4, <2>1, AskStep DEF NeighborhoodInv
  <1>5. CASE Widen
    <2>1. phase = "widen" /\ phase' = "widen"
      BY <1>5 DEF Widen
    <2>2. WidenInv
      BY <2>1 DEF NeighborhoodInv
    <2>3. distances[Head(queue)] \in Nat /\ query.depth \in Nat
      <3>1. queue # <<>>
        BY <1>5 DEF Widen
      <3>2. Len(queue) \in Nat \ {0} /\ Head(queue) = queue[1]
        BY <2>2, <3>1 DEF WidenInv, QueueIsSorted
      <3>3. queue[1] \in Known
        BY <2>2, <3>2 DEF WidenInv, QueueIsSorted
      <3> QED  BY <2>2, <3>2, <3>3, GraphAssumption DEF WidenInv, Reached
    <2>4. WidenInv'
      BY <1>5, <2>2, <2>3, SkipStep, WidenStep
    <2> QED  BY <2>1, <2>4 DEF NeighborhoodInv
  <1>6. CASE Answer
    <2>1. phase = "widen" /\ phase' = "answered"
      BY <1>6 DEF Answer
    <2> QED  BY <1>6, <2>1, AnswerStep DEF NeighborhoodInv
  <1>7. CASE UNCHANGED vars
    <2>1. UNCHANGED <<phase, edges, query, distances, queue, truncated>>
      BY <1>7 DEF vars, graphVars, queryVars
    <2> QED
      BY <2>1 DEF NeighborhoodInv, WidenInv, AnswerInv, Reached, QueueIsSorted, NoRoomIsLeft, RestIsQueued,
                  Known, Around, Neighbors, Successors, Predecessors, CutsEdges, Shown, Selected
  <1> QED  BY <1>2, <1>3, <1>4, <1>5, <1>6, <1>7 DEF Next

\* What a neighborhood shows and what it says it left out are both true, for any
\* graph, depth and limits: the distances are those of shortest paths though
\* nodes were left out, and the answer says it is cut exactly when it is
\* (bounded_neighborhood).
THEOREM NeighborhoodsAreAlwaysTrue == Spec => []NeighborhoodsAreTrue
  <1>1. Init => NeighborhoodInv
    BY DEF Init, NeighborhoodInv
  <1>2. NeighborhoodInv /\ [Next]_vars => NeighborhoodInv'
    BY NeighborhoodStep
  <1>3. TypeOK /\ NeighborhoodInv => NeighborhoodsAreTrue
    <2> SUFFICES ASSUME edges \subseteq Candidates, AnswerInv, phase = "answered"
                 PROVE  NeighborhoodsAreTrue
      BY DEF TypeOK, NeighborhoodInv, NeighborhoodsAreTrue, DistancesAreShortest, TruncationIsAdmitted
    <2>1. DistancesAreShortest
      BY DEF DistancesAreShortest, AnswerInv, Reached, Known
    <2>2. Cardinality(Shown) <= query.maxEdges
      BY ShownIsBounded DEF AnswerInv, Reached
    <2>3. TruncationIsAdmitted
      BY <2>2 DEF TruncationIsAdmitted, AnswerInv, Reached, Known, CutsEdges
    <2> QED  BY <2>1, <2>3 DEF NeighborhoodsAreTrue
  <1> QED  BY <1>1, <1>2, <1>3, TypeCorrect, PTL DEF Spec

-----------------------------------------------------------------------------
(* Commands: the inductive invariant.                                           *)

Early == {"configure", "extend", "parse", "start"}
CommandPlaces == Early \cup UnderWay \cup {"ended", "dead"}
Configs == {Defaults} \cup {LoadToolkitConfig(i) : i \in Invocations}
Logs == {NoLog} \cup {CollectFromSource(i.source) : i \in Invocations}
Bundles ==
    {NoBundle} \cup {Bundle(shown, Severity(log)) : shown \in Logs \cup {Redacted(l) : l \in Logs}, log \in Logs}
Texts == [by : Processes \cup {Unset}, whole : BOOLEAN]
FileStates == [output : Texts, temporary : [Processes -> Texts]]
Rows ==
    [at : CommandPlaces, invocation : Invocations, config : Configs, log : Logs, bundle : Bundles,
     code : {0, 1, 2, 130}, raised : BOOLEAN, counted : {"no", "error", "success"},
     printed : BOOLEAN, written : BOOLEAN]

CommandTyped ==
    /\ process \in [Processes -> Rows]
    /\ port \in Processes \cup {Unset}
    /\ files \in FileStates

\* A temporary file is there only while its process writes, or once it has failed,
\* and is whole when it gets the name of the output.
WritingInv ==
    /\ files.output.whole
    /\ \A p \in Processes :
          /\ files.temporary[p] # NoText =>
                \/ At(p, {"name", "write", "replace", "dead"})
                \/ At(p, {"ended"}) /\ process[p].code \in {2, 130}
          /\ At(p, {"replace"}) => files.temporary[p] = Whole(p)
          /\ At(p, Early \cup (UnderWay \ {"decide"})) => ~process[p].written
          /\ process[p].written => files.output # NoText /\ files.temporary[p] = NoText

\* Nothing is printed and no port is taken before the command is under way.
ServingInv ==
    /\ port # Unset => At(port, UnderWay)
    /\ \A p \in Processes :
          /\ At(p, Early) => ~process[p].printed
          /\ At(p, {"ended"}) /\ process[p].printed => process[p].counted # "no"

\* How far a report has come says what it knows.
ReportInv ==
    \A p \in Processes : process[p].invocation.command = "report" =>
        /\ At(p, UnderWay \cup {"extend", "parse", "start"}) =>
              process[p].config = LoadToolkitConfig(process[p].invocation)
        /\ At(p, UnderWay \ {"collect"}) => process[p].log = CollectFromSource(process[p].invocation.source)
        /\ At(p, UnderWay \ {"collect", "render"}) =>
              process[p].bundle.severity = Severity(CollectFromSource(process[p].invocation.source))
        /\ At(p, {"prepare", "open", "name", "write", "replace", "decide"}) => process[p].printed
        /\ At(p, {"decide"}) /\ process[p].invocation.output => process[p].written

CommandInv == CommandTyped /\ WritingInv /\ ServingInv /\ ReportInv /\ ExitCodeIsTruthful

USE CommandAssumption

-----------------------------------------------------------------------------
(* Texts and layers.                                                            *)

LEMMA TextsDiffer ==
    ASSUME NEW p \in Processes
    PROVE  /\ NoText \in Texts /\ Whole(p) \in Texts /\ Partial(p) \in Texts
           /\ Whole(p) # NoText /\ Partial(p) # NoText /\ Whole(p).whole /\ NoText.whole
  BY DEF NoText, Whole, Partial, Texts

LEMMA TemporaryPut ==
    ASSUME files \in FileStates, NEW p \in Processes, NEW t \in Texts
    PROVE  [files EXCEPT !.temporary[p] = t] \in FileStates
  BY DEF FileStates

(* The value in force is the one the user asked for: the last layer that says   *)
(* anything.                                                                    *)
LEMMA InForceIsAsked ==
    ASSUME NEW p, NEW k \in Settings,
           process[p].config = LoadToolkitConfig(process[p].invocation)
    PROVE  InForce(p, k) = Asked(process[p].invocation, k)
  <1> DEFINE i == process[p].invocation
             layers == <<Defaults[k], i.file[k], i.overrides[k], i.flags[k]>>
             IsLast(n) == layers[n] # Unset /\ \A m \in n + 1 .. 4 : layers[m] = Unset
             last == CHOOSE n \in 1 .. 4 : IsLast(n)
  <1>1. process[p].config[k] = IF i.overrides[k] # Unset THEN i.overrides[k]
                               ELSE IF i.file[k] # Unset THEN i.file[k] ELSE Defaults[k]
    BY DEF LoadToolkitConfig, ApplyConfigValues
  <1>2. layers[1] = Defaults[k] /\ layers[2] = i.file[k] /\ layers[3] = i.overrides[k] /\ layers[4] = i.flags[k]
    OBVIOUS
  <1>3. \E n \in 1 .. 4 : IsLast(n)
    <2>1. CASE layers[4] # Unset  BY <2>1
    <2>2. CASE layers[4] = Unset /\ layers[3] # Unset  BY <2>2
    <2>3. CASE layers[4] = Unset /\ layers[3] = Unset /\ layers[2] # Unset  BY <2>3
    <2>4. CASE layers[4] = Unset /\ layers[3] = Unset /\ layers[2] = Unset
      <3>1. layers[1] # Unset  BY <1>2
      <3> QED  BY <2>4, <3>1
    <2> QED  BY <2>1, <2>2, <2>3, <2>4
  <1>4. last \in 1 .. 4 /\ IsLast(last)
    BY <1>3
  <1> HIDE DEF last
  <1>5. layers[last] = InForce(p, k)
    BY <1>1, <1>2, <1>4 DEF InForce
  <1>6. Asked(i, k) = layers[last]
    BY DEF Asked, last
  <1> QED  BY <1>5, <1>6

-----------------------------------------------------------------------------
(* Commands: every step keeps the invariant.                                  *)

(* How a row looks when its process has ended.                                  *)
LEMMA RowAfterEnd ==
    ASSUME process \in [Processes -> Rows], NEW p \in Processes, NEW code \in {0, 1, 2, 130},
           NEW raised \in BOOLEAN, NEW counted \in {"no", "error", "success"},
           End(p, code, raised, counted)
    PROVE  /\ process' \in [Processes -> Rows]
           /\ process'[p].at = "ended" /\ process'[p].code = code /\ process'[p].raised = raised
           /\ process'[p].counted = counted
           /\ process'[p].invocation = process[p].invocation
           /\ process'[p].printed = process[p].printed /\ process'[p].written = process[p].written
           /\ \A q \in Processes : q # p => process'[q] = process[q]
  <1> DEFINE row == [process[p] EXCEPT !.at = "ended", !.code = code, !.raised = raised, !.counted = counted]
  <1>1. process' = [process EXCEPT ![p] = row]
    BY DEF End
  <1>2. process[p] \in Rows
    OBVIOUS
  <1>3. row \in Rows
    BY <1>2 DEF Rows, CommandPlaces
  <1>4. /\ row.at = "ended" /\ row.code = code /\ row.raised = raised /\ row.counted = counted
        /\ row.invocation = process[p].invocation /\ row.printed = process[p].printed
        /\ row.written = process[p].written
    BY <1>2 DEF Rows
  <1> HIDE DEF row
  <1> QED  BY <1>1, <1>3, <1>4

(* A process that ends in a failure keeps the invariant when it is counted or   *)
(* has printed nothing, and has no temporary file, or removes it or leaves it.   *)
LEMMA EndKeeps ==
    ASSUME CommandInv, NEW p \in Processes, NEW code \in {1, 2, 130}, NEW raised \in BOOLEAN,
           code = 1 => raised, NEW counted \in {"no", "error", "success"},
           counted = "no" => ~process[p].printed,
           End(p, code, raised, counted), StopTelemetry(p),
           CleanUp(p), code = 1 => files.temporary[p] = NoText /\ UNCHANGED files
    PROVE  CommandInv'
  <1> USE DEF CommandInv
  <1>1. process \in [Processes -> Rows]  BY DEF CommandTyped
  <1>2. /\ process' \in [Processes -> Rows]
        /\ process'[p].at = "ended" /\ process'[p].code = code /\ process'[p].raised = raised
        /\ process'[p].counted = counted
        /\ process'[p].invocation = process[p].invocation
        /\ process'[p].printed = process[p].printed /\ process'[p].written = process[p].written
        /\ \A q \in Processes : q # p => process'[q] = process[q]
    BY <1>1, RowAfterEnd
  <1>3. /\ files' \in FileStates /\ files'.output = files.output
        /\ files'.temporary[p] \in {files.temporary[p], NoText}
        /\ \A q \in Processes : q # p => files'.temporary[q] = files.temporary[q]
    BY TextsDiffer, TemporaryPut DEF CommandTyped, FileStates, CleanUp
  <1>4. CommandTyped'
    BY <1>2, <1>3 DEF CommandTyped, StopTelemetry
  <1>5. WritingInv'
    BY <1>2, <1>3 DEF WritingInv, Early, UnderWay, At
  <1>6. ServingInv'
    BY <1>2 DEF ServingInv, Early, UnderWay, At, StopTelemetry, CommandTyped
  <1>7. ReportInv'
    BY <1>2 DEF ReportInv, UnderWay, At
  <1>8. ExitCodeIsTruthful'
    BY <1>2 DEF ExitCodeIsTruthful, At
  <1> QED  BY <1>4, <1>5, <1>6, <1>7, <1>8

(* The ways in which the steps below end a process.                             *)
LEMMA EndingKeeps ==
    ASSUME CommandInv, NEW p \in Processes,
           \/ End(p, 2, FALSE, "error") \/ End(p, 1, TRUE, "error")
           \/ ~process[p].printed /\ (End(p, 1, TRUE, "no") \/ End(p, 2, FALSE, "no")),
           StopTelemetry(p), UNCHANGED files, files.temporary[p] = NoText
    PROVE  CommandInv'
  <1> USE DEF CleanUp
  <1>1. /\ 1 \in {1, 2, 130} /\ 2 \in {1, 2, 130} /\ 2 # 1 /\ TRUE \in BOOLEAN /\ FALSE \in BOOLEAN
        /\ "no" \in {"no", "error", "success"} /\ "error" \in {"no", "error", "success"} /\ "error" # "no"
    OBVIOUS
  <1>2. CASE End(p, 2, FALSE, "error")  BY <1>1, <1>2, EndKeeps
  <1>3. CASE End(p, 1, TRUE, "error")  BY <1>1, <1>3, EndKeeps
  <1>4. CASE ~process[p].printed /\ End(p, 1, TRUE, "no")  BY <1>1, <1>4, EndKeeps
  <1>5. CASE ~process[p].printed /\ End(p, 2, FALSE, "no")  BY <1>1, <1>5, EndKeeps
  <1> QED  BY <1>2, <1>3, <1>4, <1>5

LEMMA CommandInitKeeps == CommandInit => CommandInv
  <1> SUFFICES ASSUME CommandInit PROVE CommandInv
    OBVIOUS
  <1>1. NoBundle \in Bundles /\ NoLog \in Logs /\ Defaults \in Configs
    BY DEF Bundles, Logs, Configs
  <1>2. CommandTyped
    <2>1. ASSUME NEW i \in Invocations
          PROVE  [at |-> "configure", invocation |-> i, config |-> Defaults, log |-> NoLog, bundle |-> NoBundle,
                  code |-> 0, raised |-> FALSE, counted |-> "no", printed |-> FALSE, written |-> FALSE] \in Rows
      BY <1>1 DEF Rows, CommandPlaces, Early
    <2>2. process \in [Processes -> Rows]
      BY <2>1 DEF CommandInit
    <2>3. files \in FileStates
      BY DEF CommandInit, FileStates, NoText, Texts
    <2> QED  BY <2>2, <2>3 DEF CommandInit, CommandTyped
  <1>3. ASSUME NEW p \in Processes
        PROVE  process[p].at = "configure" /\ ~process[p].printed /\ ~process[p].written
    <2>1. PICK i \in Invocations : process[p] =
             [at |-> "configure", invocation |-> i, config |-> Defaults, log |-> NoLog, bundle |-> NoBundle,
              code |-> 0, raised |-> FALSE, counted |-> "no", printed |-> FALSE, written |-> FALSE]
      BY DEF CommandInit
    <2> QED  BY <2>1
  <1>4. WritingInv
    BY <1>3 DEF CommandInit, WritingInv, NoText, At
  <1>5. ServingInv /\ ReportInv /\ ExitCodeIsTruthful
    BY <1>3 DEF CommandInit, ServingInv, ReportInv, ExitCodeIsTruthful, At, UnderWay
  <1> QED  BY <1>2, <1>4, <1>5 DEF CommandInv

LEMMA ConfigureKeeps ==
    ASSUME CommandInv, NEW p \in Processes, Configure(p)
    PROVE  CommandInv'
  <1> DEFINE i == process[p].invocation
             Goes == /\ process' = [process EXCEPT ![p].at = "extend", ![p].config = LoadToolkitConfig(i)]
                     /\ UNCHANGED port
  <1> USE DEF CommandInv
  <1>1. files.temporary[p] = NoText /\ UNCHANGED files /\ port # p /\ ~process[p].printed
    BY DEF Configure, WritingInv, ServingInv, Early, UnderWay, At
  <1>2. CASE ~Goes
    <2>1. End(p, 1, TRUE, "no") \/ End(p, 2, FALSE, "no")
      BY <1>2 DEF Configure, EndRun
    <2>2. StopTelemetry(p)
      BY <1>1, <1>2 DEF Configure, StopTelemetry
    <2> QED  BY <1>1, <2>1, <2>2, EndingKeeps
  <1>3. CASE Goes
    <2>1. CommandTyped'
      <3>1. process[p] \in Rows /\ i \in Invocations /\ LoadToolkitConfig(i) \in Configs
        BY DEF CommandTyped, Rows, Configs
      <3>2. [process[p] EXCEPT !.at = "extend", !.config = LoadToolkitConfig(i)] \in Rows
        BY <3>1 DEF Rows, CommandPlaces, Early
      <3>3. process' \in [Processes -> Rows]
        BY <1>3, <3>2 DEF CommandTyped
      <3> QED  BY <1>1, <1>3, <3>3 DEF CommandTyped
    <2>2. \A q \in Processes : q # p => process'[q] = process[q]
      BY <1>3 DEF CommandTyped
    <2>3. WritingInv'
      BY <1>1, <1>3, <2>1, <2>2, TextsDiffer DEF Configure, CommandTyped, Rows, WritingInv, Early, UnderWay, At
    <2>4. ServingInv'
      BY <1>1, <1>3, <2>1, <2>2 DEF Configure, CommandTyped, Rows, ServingInv, Early, UnderWay, At
    <2>5. ReportInv'
      BY <1>3, <2>1, <2>2 DEF Configure, CommandTyped, Rows, ReportInv, UnderWay, At
    <2>6. ExitCodeIsTruthful'
      BY <1>3, <2>1, <2>2 DEF Configure, CommandTyped, Rows, ExitCodeIsTruthful, UnderWay, At
    <2> QED  BY <2>1, <2>3, <2>4, <2>5, <2>6
  <1> QED  BY <1>2, <1>3

LEMMA LoadExtensionsKeeps ==
    ASSUME CommandInv, NEW p \in Processes, LoadExtensions(p)
    PROVE  CommandInv'
  <1> DEFINE Goes == Step(p, "parse") /\ UNCHANGED port
  <1> USE DEF CommandInv
  <1>1. files.temporary[p] = NoText /\ UNCHANGED files /\ port # p /\ ~process[p].printed
    BY DEF LoadExtensions, WritingInv, ServingInv, Early, UnderWay, At
  <1>2. CASE ~Goes
    <2>1. End(p, 1, TRUE, "no")
      BY <1>2 DEF LoadExtensions, EndRun
    <2>2. StopTelemetry(p)
      BY <1>1, <1>2 DEF LoadExtensions, StopTelemetry
    <2> QED  BY <1>1, <2>1, <2>2, EndingKeeps
  <1>3. CASE Goes
    <2>1. CommandTyped'
      BY <1>1, <1>3 DEF LoadExtensions, Step, CommandTyped, Rows, CommandPlaces, Early, UnderWay, At
    <2>2. \A q \in Processes : q # p => process'[q] = process[q]
      BY <1>3 DEF Step, CommandTyped
    <2>3. WritingInv'
      BY <1>1, <1>3, <2>1, <2>2, TextsDiffer DEF LoadExtensions, Step, CommandTyped, Rows, WritingInv, Early, UnderWay, At
    <2>4. ServingInv'
      BY <1>1, <1>3, <2>1, <2>2 DEF LoadExtensions, Step, CommandTyped, Rows, ServingInv, Early, UnderWay, At
    <2>5. ReportInv'
      BY <1>3, <2>1, <2>2 DEF LoadExtensions, Step, CommandTyped, Rows, ReportInv, UnderWay, At
    <2>6. ExitCodeIsTruthful'
      BY <1>3, <2>1, <2>2 DEF LoadExtensions, Step, CommandTyped, Rows, ExitCodeIsTruthful, UnderWay, At
    <2> QED  BY <2>1, <2>3, <2>4, <2>5, <2>6
  <1> QED  BY <1>2, <1>3

LEMMA ParseArgumentsKeeps ==
    ASSUME CommandInv, NEW p \in Processes, ParseArguments(p)
    PROVE  CommandInv'
  <1> DEFINE Goes == Step(p, "start") /\ UNCHANGED port
  <1> USE DEF CommandInv
  <1>1. files.temporary[p] = NoText /\ UNCHANGED files /\ port # p /\ ~process[p].printed
    BY DEF ParseArguments, WritingInv, ServingInv, Early, UnderWay, At
  <1>2. CASE ~Goes
    <2>1. End(p, 2, FALSE, "error")
      BY <1>2 DEF ParseArguments, EndRun
    <2>2. StopTelemetry(p)
      BY <1>1, <1>2 DEF ParseArguments, StopTelemetry
    <2> QED  BY <1>1, <2>1, <2>2, EndingKeeps
  <1>3. CASE Goes
    <2>1. CommandTyped'
      BY <1>1, <1>3 DEF ParseArguments, Step, CommandTyped, Rows, CommandPlaces, Early, UnderWay, At
    <2>2. \A q \in Processes : q # p => process'[q] = process[q]
      BY <1>3 DEF Step, CommandTyped
    <2>3. WritingInv'
      BY <1>1, <1>3, <2>1, <2>2, TextsDiffer DEF ParseArguments, Step, CommandTyped, Rows, WritingInv, Early, UnderWay, At
    <2>4. ServingInv'
      BY <1>1, <1>3, <2>1, <2>2 DEF ParseArguments, Step, CommandTyped, Rows, ServingInv, Early, UnderWay, At
    <2>5. ReportInv'
      BY <1>3, <2>1, <2>2 DEF ParseArguments, Step, CommandTyped, Rows, ReportInv, UnderWay, At
    <2>6. ExitCodeIsTruthful'
      BY <1>3, <2>1, <2>2 DEF ParseArguments, Step, CommandTyped, Rows, ExitCodeIsTruthful, UnderWay, At
    <2> QED  BY <2>1, <2>3, <2>4, <2>5, <2>6
  <1> QED  BY <1>2, <1>3

LEMMA StartTelemetryKeeps ==
    ASSUME CommandInv, NEW p \in Processes, StartTelemetry(p)
    PROVE  CommandInv'
  <1> DEFINE Goes == Step(p, "collect") /\ (UNCHANGED port \/ port' = p)
  <1> USE DEF CommandInv
  <1>1. files.temporary[p] = NoText /\ UNCHANGED files /\ port # p /\ ~process[p].printed
    BY DEF StartTelemetry, WritingInv, ServingInv, Early, UnderWay, At
  <1>2. CASE ~Goes
    <2>1. End(p, 1, TRUE, "no")
      BY <1>2 DEF StartTelemetry, EndRun
    <2>2. StopTelemetry(p)
      BY <1>1, <1>2 DEF StartTelemetry, StopTelemetry
    <2> QED  BY <1>1, <2>1, <2>2, EndingKeeps
  <1>3. CASE Goes
    <2>1. CommandTyped'
      BY <1>1, <1>3 DEF StartTelemetry, Step, CommandTyped, Rows, CommandPlaces, Early, UnderWay, At
    <2>2. \A q \in Processes : q # p => process'[q] = process[q]
      BY <1>3 DEF Step, CommandTyped
    <2>3. WritingInv'
      BY <1>1, <1>3, <2>1, <2>2, TextsDiffer DEF StartTelemetry, Step, CommandTyped, Rows, WritingInv, Early, UnderWay, At
    <2>4. ServingInv'
      BY <1>1, <1>3, <2>1, <2>2 DEF StartTelemetry, Step, CommandTyped, Rows, ServingInv, Early, UnderWay, At
    <2>5. ReportInv'
      BY <1>3, <2>1, <2>2 DEF StartTelemetry, Step, CommandTyped, Rows, ReportInv, UnderWay, At
    <2>6. ExitCodeIsTruthful'
      BY <1>3, <2>1, <2>2 DEF StartTelemetry, Step, CommandTyped, Rows, ExitCodeIsTruthful, UnderWay, At
    <2> QED  BY <2>1, <2>3, <2>4, <2>5, <2>6
  <1> QED  BY <1>2, <1>3

LEMMA CollectKeeps ==
    ASSUME CommandInv, NEW p \in Processes, Collect(p)
    PROVE  CommandInv'
  <1> DEFINE i == process[p].invocation
             collected == CollectFromSource(i.source)
             Goes == /\ UNCHANGED port
                     /\ \/ i.command = "diagnostics" /\ Step(p, "render")
                        \/ process' = [process EXCEPT ![p].at = "render", ![p].log = collected]
  <1> USE DEF CommandInv
  <1>1. files.temporary[p] = NoText /\ UNCHANGED files
    BY DEF Collect, WritingInv, At
  <1>2. CASE ~Goes
    <2>1. End(p, 2, FALSE, "error") \/ End(p, 1, TRUE, "error")
      BY <1>2 DEF Collect, EndRun
    <2>2. StopTelemetry(p)
      BY <1>2 DEF Collect, EndRun, StopTelemetry
    <2> QED  BY <1>1, <2>1, <2>2, EndingKeeps
  <1>3. CASE Goes
    <2>1. CommandTyped'
      BY <1>1, <1>3 DEF Collect, Step, CommandTyped, Rows, CommandPlaces, Early, UnderWay, At, Logs
    <2>2. \A q \in Processes : q # p => process'[q] = process[q]
      BY <1>3 DEF Step, CommandTyped
    <2>3. WritingInv'
      BY <1>1, <1>3, <2>1, <2>2, TextsDiffer DEF Collect, Step, CommandTyped, Rows, WritingInv, Early, UnderWay, At
    <2>4. ServingInv'
      BY <1>1, <1>3, <2>1, <2>2 DEF Collect, Step, CommandTyped, Rows, ServingInv, Early, UnderWay, At
    <2>5. ReportInv'
      BY <1>3, <2>1, <2>2 DEF Collect, Step, CommandTyped, Rows, ReportInv, UnderWay, At
    <2>6. ExitCodeIsTruthful'
      BY <1>3, <2>1, <2>2 DEF Collect, Step, CommandTyped, Rows, ExitCodeIsTruthful, UnderWay, At
    <2> QED  BY <2>1, <2>3, <2>4, <2>5, <2>6
  <1> QED  BY <1>2, <1>3

LEMMA RenderKeeps ==
    ASSUME CommandInv, NEW p \in Processes, Render(p)
    PROVE  CommandInv'
  <1> USE DEF CommandInv
  <1>1. CommandTyped'
    BY TextsDiffer DEF Render, CommandTyped, Rows, CommandPlaces, Early, UnderWay, At, Bundles, GenerateReport
  <1>2. \A q \in Processes : q # p => process'[q] = process[q]
    BY DEF Render, CommandTyped
  <1>3. UNCHANGED <<port, files>> /\ process[p].at = "render"
    BY DEF Render, At
  <1>4. /\ process'[p].at \in {"prepare", "print"}
        /\ process'[p].at = "prepare" => process[p].invocation.command = "diagnostics"
        /\ process'[p].invocation = process[p].invocation /\ process'[p].config = process[p].config
        /\ process'[p].log = process[p].log /\ process'[p].printed = process[p].printed
        /\ process'[p].written = process[p].written
    BY DEF Render, CommandTyped, Rows, OnlyToFile
  <1>5. process[p].invocation.command = "report" =>
           process'[p].bundle.severity = Severity(process[p].log)
    <2>1. ASSUME process[p].invocation.command = "report"
          PROVE  process'[p].bundle = GenerateReport(process[p].log, InForce(p, "report_redact"))
      BY <2>1 DEF Render, CommandTyped, Rows
    <2> QED  BY <2>1 DEF GenerateReport, Bundle
  <1> HIDE DEF CommandInv
  <1>6. CommandTyped /\ WritingInv /\ ServingInv /\ ReportInv /\ ExitCodeIsTruthful
    BY DEF CommandInv
  <1>7. WritingInv'
    BY <1>2, <1>3, <1>4, <1>6 DEF WritingInv, Early, UnderWay, At
  <1>8. ServingInv'
    <2>1. port' # Unset => At(port, UnderWay)'
      <3>1. port # Unset => port \in Processes /\ process[port].at \in UnderWay
        BY <1>6 DEF ServingInv, At, CommandTyped
      <3> QED  BY <1>2, <1>3, <1>4, <3>1 DEF At, UnderWay
    <2>2. ASSUME NEW q \in Processes
          PROVE  /\ At(q, Early)' => ~process'[q].printed
                 /\ At(q, {"ended"})' /\ process'[q].printed => process'[q].counted # "no"
      BY <1>2, <1>4, <1>6 DEF ServingInv, At, Early
    <2> QED  BY <2>1, <2>2 DEF ServingInv
  <1>9. ReportInv'
    BY <1>2, <1>3, <1>4, <1>5, <1>6 DEF ReportInv, At, UnderWay
  <1>10. ExitCodeIsTruthful'
    BY <1>2, <1>4, <1>6 DEF ExitCodeIsTruthful, At
  <1> QED  BY <1>1, <1>7, <1>8, <1>9, <1>10 DEF CommandInv

LEMMA PrintOutKeeps ==
    ASSUME CommandInv, NEW p \in Processes, PrintOut(p)
    PROVE  CommandInv'
  <1> USE DEF CommandInv
  <1>1. CommandTyped'
    BY TextsDiffer DEF PrintOut, CommandTyped, Rows, CommandPlaces, Early, UnderWay, At
  <1>2. \A q \in Processes : q # p => process'[q] = process[q]
    BY DEF PrintOut, CommandTyped
  <1>3. WritingInv'
    BY <1>1, <1>2, TextsDiffer DEF PrintOut, CommandTyped, Rows, WritingInv, Early, UnderWay, At
  <1>4. ServingInv'
    BY <1>1, <1>2 DEF PrintOut, CommandTyped, Rows, ServingInv, Early, UnderWay, At
  <1>5. ReportInv'
    BY <1>1, <1>2 DEF PrintOut, CommandTyped, Rows, ReportInv, UnderWay, At
  <1>6. ExitCodeIsTruthful'
    BY <1>1, <1>2 DEF PrintOut, CommandTyped, Rows, ExitCodeIsTruthful, UnderWay, At
  <1> QED  BY <1>1, <1>3, <1>4, <1>5, <1>6

LEMMA RenderFailsKeeps ==
    ASSUME CommandInv, NEW p \in Processes, NEW c \in {1, 2}, RenderFails(p, c)
    PROVE  CommandInv'
  <1>1. /\ End(p, c, c = 1, "error") /\ StopTelemetry(p) /\ UNCHANGED files
        /\ files.temporary[p] = NoText /\ CleanUp(p)
    BY DEF RenderFails, EndRun, CommandInv, WritingInv, At, CleanUp
  <1> QED  BY <1>1, EndKeeps, Zenon

LEMMA PreparePathKeeps ==
    ASSUME CommandInv, NEW p \in Processes, PreparePath(p)
    PROVE  CommandInv'
  <1> DEFINE Goes == Step(p, "open") /\ UNCHANGED port
  <1> USE DEF CommandInv
  <1>1. files.temporary[p] = NoText /\ UNCHANGED files
    BY DEF PreparePath, WritingInv, At
  <1>2. CASE ~Goes
    <2>1. End(p, 2, FALSE, "error")
      BY <1>2 DEF PreparePath, EndRun
    <2>2. StopTelemetry(p)
      BY <1>2 DEF PreparePath, EndRun, StopTelemetry
    <2> QED  BY <1>1, <2>1, <2>2, EndingKeeps
  <1>3. CASE Goes
    <2>1. CommandTyped'
      BY <1>1, <1>3 DEF PreparePath, Step, CommandTyped, Rows, CommandPlaces, Early, UnderWay, At
    <2>2. \A q \in Processes : q # p => process'[q] = process[q]
      BY <1>3 DEF Step, CommandTyped
    <2>3. WritingInv'
      BY <1>1, <1>3, <2>1, <2>2, TextsDiffer DEF PreparePath, Step, CommandTyped, Rows, WritingInv, Early, UnderWay, At
    <2>4. ServingInv'
      BY <1>1, <1>3, <2>1, <2>2 DEF PreparePath, Step, CommandTyped, Rows, ServingInv, Early, UnderWay, At
    <2>5. ReportInv'
      BY <1>3, <2>1, <2>2 DEF PreparePath, Step, CommandTyped, Rows, ReportInv, UnderWay, At
    <2>6. ExitCodeIsTruthful'
      BY <1>3, <2>1, <2>2 DEF PreparePath, Step, CommandTyped, Rows, ExitCodeIsTruthful, UnderWay, At
    <2> QED  BY <2>1, <2>3, <2>4, <2>5, <2>6
  <1> QED  BY <1>2, <1>3

LEMMA OpenTemporaryKeeps ==
    ASSUME CommandInv, NEW p \in Processes, OpenTemporary(p)
    PROVE  CommandInv'
  <1> USE DEF CommandInv
  <1>1. CommandTyped'
    <2>1. process' \in [Processes -> Rows]
      BY DEF OpenTemporary, Step, Put, CommandTyped, Rows, CommandPlaces, Early, UnderWay, At
    <2>2. files' \in FileStates
      BY TemporaryPut, TextsDiffer DEF OpenTemporary, Step, Put, CommandTyped
    <2>3. port' \in Processes \cup {Unset}
      BY DEF OpenTemporary, Step, Put, CommandTyped
    <2> QED  BY <2>1, <2>2, <2>3 DEF CommandTyped
  <1>2. \A q \in Processes : q # p => process'[q] = process[q]
    BY DEF OpenTemporary, Step, Put, CommandTyped
  <1>3. WritingInv'
    <2>1. At(p, {"open"}) /\ files.temporary[p] = NoText
      BY DEF OpenTemporary, WritingInv, At
    <2>2. ~process[p].written
      BY <2>1 DEF WritingInv, Early, UnderWay, At
    <2>3. /\ process'[p].at = "name" /\ process'[p].written = process[p].written
          /\ files'.output = files.output
          /\ \A q \in Processes : q # p => files'.temporary[q] = files.temporary[q]
      BY DEF OpenTemporary, Step, Put, CommandTyped, Rows, FileStates
    <2> QED  BY <1>1, <1>2, <2>2, <2>3 DEF WritingInv, Early, UnderWay, At
  <1>4. ServingInv'
    BY <1>1, <1>2 DEF OpenTemporary, Step, Put, CommandTyped, Rows, ServingInv, Early, UnderWay, At
  <1>5. ReportInv'
    BY <1>1, <1>2 DEF OpenTemporary, Step, Put, CommandTyped, Rows, ReportInv, UnderWay, At
  <1>6. ExitCodeIsTruthful'
    BY <1>1, <1>2 DEF OpenTemporary, Step, Put, CommandTyped, Rows, ExitCodeIsTruthful, UnderWay, At
  <1> QED  BY <1>1, <1>3, <1>4, <1>5, <1>6

LEMMA NameTemporaryKeeps ==
    ASSUME CommandInv, NEW p \in Processes, NameTemporary(p)
    PROVE  CommandInv'
  <1> USE DEF CommandInv
  <1>1. CommandTyped'
    <2>1. process' \in [Processes -> Rows]
      BY DEF NameTemporary, Step, CommandTyped, Rows, CommandPlaces, Early, UnderWay, At
    <2>2. files' \in FileStates
      BY DEF NameTemporary, CommandTyped
    <2>3. port' \in Processes \cup {Unset}
      BY DEF NameTemporary, Step, CommandTyped
    <2> QED  BY <2>1, <2>2, <2>3 DEF CommandTyped
  <1>2. \A q \in Processes : q # p => process'[q] = process[q]
    BY DEF NameTemporary, Step, CommandTyped
  <1>3. WritingInv'
    BY <1>1, <1>2, TextsDiffer DEF NameTemporary, Step, CommandTyped, Rows, WritingInv, Early, UnderWay, At, FileStates
  <1>4. ServingInv'
    BY <1>1, <1>2 DEF NameTemporary, Step, CommandTyped, Rows, ServingInv, Early, UnderWay, At
  <1>5. ReportInv'
    BY <1>1, <1>2 DEF NameTemporary, Step, CommandTyped, Rows, ReportInv, UnderWay, At
  <1>6. ExitCodeIsTruthful'
    BY <1>1, <1>2 DEF NameTemporary, Step, CommandTyped, Rows, ExitCodeIsTruthful, UnderWay, At
  <1> QED  BY <1>1, <1>3, <1>4, <1>5, <1>6

LEMMA WriteTemporaryKeeps ==
    ASSUME CommandInv, NEW p \in Processes, WriteTemporary(p)
    PROVE  CommandInv'
  <1> USE DEF CommandInv
  <1>1. CommandTyped'
    <2>1. process' \in [Processes -> Rows]
      BY DEF WriteTemporary, Step, Put, CommandTyped, Rows, CommandPlaces, Early, UnderWay, At
    <2>2. files' \in FileStates
      BY TemporaryPut, TextsDiffer DEF WriteTemporary, Step, Put, CommandTyped
    <2>3. port' \in Processes \cup {Unset}
      BY DEF WriteTemporary, Step, Put, CommandTyped
    <2> QED  BY <2>1, <2>2, <2>3 DEF CommandTyped
  <1>2. \A q \in Processes : q # p => process'[q] = process[q]
    BY DEF WriteTemporary, Step, Put, CommandTyped
  <1>3. WritingInv'
    BY <1>1, <1>2, TextsDiffer DEF WriteTemporary, Step, Put, CommandTyped, Rows, WritingInv, Early, UnderWay, At, FileStates
  <1>4. ServingInv'
    BY <1>1, <1>2 DEF WriteTemporary, Step, Put, CommandTyped, Rows, ServingInv, Early, UnderWay, At
  <1>5. ReportInv'
    BY <1>1, <1>2 DEF WriteTemporary, Step, Put, CommandTyped, Rows, ReportInv, UnderWay, At
  <1>6. ExitCodeIsTruthful'
    BY <1>1, <1>2 DEF WriteTemporary, Step, Put, CommandTyped, Rows, ExitCodeIsTruthful, UnderWay, At
  <1> QED  BY <1>1, <1>3, <1>4, <1>5, <1>6

LEMMA ReplaceKeeps ==
    ASSUME CommandInv, NEW p \in Processes, Replace(p)
    PROVE  CommandInv'
  <1> DEFINE row == [process[p] EXCEPT !.at = "decide", !.written = TRUE]
  <1> USE DEF CommandInv
  <1>1. process[p] \in Rows /\ process[p].at = "replace" /\ files.temporary[p] = Whole(p)
    BY DEF Replace, CommandTyped, WritingInv, At
  <1>2. /\ row \in Rows /\ row.at = "decide" /\ row.written /\ row.invocation = process[p].invocation
        /\ row.config = process[p].config /\ row.log = process[p].log /\ row.bundle = process[p].bundle
        /\ row.printed = process[p].printed
    BY <1>1 DEF Rows, CommandPlaces, UnderWay
  <1> HIDE DEF row
  <1>3. /\ process' \in [Processes -> Rows] /\ process'[p] = row
        /\ \A q \in Processes : q # p => process'[q] = process[q]
    BY <1>2 DEF Replace, CommandTyped, row
  <1>4. files' = [files EXCEPT !.output = Whole(p), !.temporary[p] = NoText]
    BY <1>1, TextsDiffer DEF Replace
  <1>5. /\ files' \in FileStates /\ files'.output = Whole(p) /\ files'.temporary[p] = NoText
        /\ \A q \in Processes : q # p => files'.temporary[q] = files.temporary[q]
    BY <1>4, TextsDiffer DEF CommandTyped, FileStates
  <1>6. CommandTyped'
    BY <1>3, <1>5 DEF CommandTyped, Replace
  <1>7. WritingInv'
    BY <1>2, <1>3, <1>5, TextsDiffer DEF WritingInv, Early, UnderWay, At
  <1>8. ServingInv'
    BY <1>1, <1>2, <1>3 DEF ServingInv, Early, UnderWay, At, Replace, CommandTyped
  <1>9. ReportInv'
    BY <1>1, <1>2, <1>3 DEF ReportInv, UnderWay, At
  <1>10. ExitCodeIsTruthful'
    BY <1>2, <1>3 DEF ExitCodeIsTruthful, At
  <1> QED  BY <1>6, <1>7, <1>8, <1>9, <1>10

LEMMA WriteFailsKeeps ==
    ASSUME CommandInv, NEW p \in Processes, WriteFails(p)
    PROVE  CommandInv'
  <1>1. /\ End(p, 2, FALSE, "error") /\ StopTelemetry(p)
        /\ CleanUp(p)
    BY DEF WriteFails, EndRun
  <1>2. 2 \in {1, 2, 130} /\ (2 = 1 => FALSE) /\ "error" \in {"no", "error", "success"} /\ "error" # "no"
    OBVIOUS
  <1> QED  BY <1>1, <1>2, EndKeeps

LEMMA ReturnCodeKeeps ==
    ASSUME CommandInv, NEW p \in Processes, ReturnCode(p)
    PROVE  CommandInv'
  <1> DEFINE i == process[p].invocation
             fails == i.command = "report" /\ ShouldFail(InForce(p, "report_fail_on"), process[p].bundle.severity)
             code == IF fails THEN 1 ELSE 0
             status == IF fails THEN "error" ELSE "success"
  <1> USE DEF CommandInv
  <1>1. At(p, {"decide"}) /\ End(p, code, FALSE, status) /\ StopTelemetry(p) /\ UNCHANGED files
    BY DEF ReturnCode, EndRun
  <1>2. code \in {0, 1, 2, 130} /\ status \in {"no", "error", "success"} /\ status # "no" /\ FALSE \in BOOLEAN
    OBVIOUS
  <1>3. process \in [Processes -> Rows]  BY DEF CommandTyped
  <1> HIDE DEF code, status
  <1>4. /\ process' \in [Processes -> Rows]
        /\ process'[p].at = "ended" /\ process'[p].code = code /\ process'[p].raised = FALSE
        /\ process'[p].counted = status
        /\ process'[p].invocation = i /\ process'[p].printed = process[p].printed
        /\ process'[p].written = process[p].written
        /\ \A q \in Processes : q # p => process'[q] = process[q]
    <2>1. CASE fails
      <3>1. End(p, 1, FALSE, "error") /\ code = 1 /\ status = "error"  BY <1>1, <2>1 DEF code, status
      <3>2. 1 \in {0, 1, 2, 130} /\ "error" \in {"no", "error", "success"}  OBVIOUS
      <3> HIDE DEF fails, i, CommandInv
      <3>3. /\ process' \in [Processes -> Rows]
            /\ process'[p].at = "ended" /\ process'[p].code = 1 /\ process'[p].raised = FALSE
            /\ process'[p].counted = "error"
            /\ process'[p].invocation = process[p].invocation
            /\ process'[p].printed = process[p].printed /\ process'[p].written = process[p].written
            /\ \A q \in Processes : q # p => process'[q] = process[q]
        BY <1>2, <1>3, <3>1, <3>2, RowAfterEnd
      <3> QED  BY <3>1, <3>3 DEF i
    <2>2. CASE ~fails
      <3>1. End(p, 0, FALSE, "success") /\ code = 0 /\ status = "success"  BY <1>1, <2>2 DEF code, status
      <3>2. 0 \in {0, 1, 2, 130} /\ "success" \in {"no", "error", "success"}  OBVIOUS
      <3> HIDE DEF fails, i, CommandInv
      <3>3. /\ process' \in [Processes -> Rows]
            /\ process'[p].at = "ended" /\ process'[p].code = 0 /\ process'[p].raised = FALSE
            /\ process'[p].counted = "success"
            /\ process'[p].invocation = process[p].invocation
            /\ process'[p].printed = process[p].printed /\ process'[p].written = process[p].written
            /\ \A q \in Processes : q # p => process'[q] = process[q]
        BY <1>2, <1>3, <3>1, <3>2, RowAfterEnd
      <3> QED  BY <3>1, <3>3 DEF i
    <2> QED  BY <2>1, <2>2
  <1>5. CommandTyped'
    BY <1>1, <1>4 DEF CommandTyped, StopTelemetry
  <1>6. WritingInv'
    BY <1>1, <1>4 DEF WritingInv, Early, UnderWay, At
  <1>7. ServingInv'
    BY <1>1, <1>2, <1>4 DEF ServingInv, Early, UnderWay, At, StopTelemetry, CommandTyped
  <1>8. ReportInv'
    BY <1>4 DEF ReportInv, UnderWay, At
  <1>9. i.command = "report" =>
          /\ process[p].printed /\ (i.output => process[p].written)
          /\ process[p].bundle.severity = Severity(CollectFromSource(i.source))
          /\ InForce(p, "report_fail_on") = Asked(i, "report_fail_on")
    BY <1>1, InForceIsAsked DEF ReportInv, UnderWay, At
  <1>10. ExitCodeIsTruthful'
    BY <1>4, <1>9 DEF ExitCodeIsTruthful, At, code
  <1> QED  BY <1>5, <1>6, <1>7, <1>8, <1>10

LEMMA InterruptKeeps ==
    ASSUME CommandInv, NEW p \in Processes, Interrupt(p)
    PROVE  CommandInv'
  <1>1. End(p, 130, TRUE, "success") /\ StopTelemetry(p) /\ CleanUp(p)
    BY DEF Interrupt, EndRun
  <1>2. /\ 130 \in {1, 2, 130} /\ TRUE \in BOOLEAN /\ 130 # 1
        /\ "success" \in {"no", "error", "success"} /\ "success" # "no"
    OBVIOUS
  <1> QED  BY <1>1, <1>2, EndKeeps

LEMMA DieKeeps ==
    ASSUME CommandInv, NEW p \in Processes, Die(p)
    PROVE  CommandInv'
  <1> USE DEF CommandInv
  <1>1. CommandTyped'
    BY TextsDiffer DEF Die, Step, StopTelemetry, CommandTyped, Rows, CommandPlaces, Early, UnderWay, At
  <1>2. \A q \in Processes : q # p => process'[q] = process[q]
    BY DEF Die, Step, StopTelemetry, CommandTyped
  <1>3. WritingInv'
    BY <1>1, <1>2, TextsDiffer DEF Die, Step, StopTelemetry, CommandTyped, Rows, WritingInv, Early, UnderWay, At
  <1>4. ServingInv'
    BY <1>1, <1>2 DEF Die, Step, StopTelemetry, CommandTyped, Rows, ServingInv, Early, UnderWay, At
  <1>5. ReportInv'
    BY <1>1, <1>2 DEF Die, Step, StopTelemetry, CommandTyped, Rows, ReportInv, UnderWay, At
  <1>6. ExitCodeIsTruthful'
    BY <1>1, <1>2 DEF Die, Step, StopTelemetry, CommandTyped, Rows, ExitCodeIsTruthful, UnderWay, At
  <1> QED  BY <1>1, <1>3, <1>4, <1>5, <1>6

-----------------------------------------------------------------------------
(* Commands: the theorems.                                                    *)

LEMMA StutterKeeps == CommandInv /\ UNCHANGED commandVars => CommandInv'
  BY DEF CommandInv, CommandTyped, WritingInv, ServingInv, ReportInv, ExitCodeIsTruthful, At, InForce, commandVars

LEMMA CommandStepKeeps == CommandInv /\ [CommandNext]_commandVars => CommandInv'
  <1> SUFFICES ASSUME CommandInv, [CommandNext]_commandVars PROVE CommandInv'
    OBVIOUS
  <1>1. CASE UNCHANGED commandVars  BY <1>1, StutterKeeps
  <1>2. ASSUME NEW p \in Processes,
               \/ Configure(p) \/ LoadExtensions(p) \/ ParseArguments(p) \/ StartTelemetry(p)
               \/ Collect(p) \/ Render(p) \/ PrintOut(p) \/ RenderFails(p, 1) \/ RenderFails(p, 2)
        PROVE  CommandInv'
    <2>1. 1 \in {1, 2} /\ 2 \in {1, 2}
      OBVIOUS
    <2> QED
      BY <1>2, <2>1, ConfigureKeeps, LoadExtensionsKeeps, ParseArgumentsKeeps, StartTelemetryKeeps,
         CollectKeeps, RenderKeeps, PrintOutKeeps, RenderFailsKeeps
  <1>3. ASSUME NEW p \in Processes,
               \/ PreparePath(p) \/ OpenTemporary(p) \/ NameTemporary(p) \/ WriteTemporary(p) \/ Replace(p) \/ WriteFails(p)
               \/ ReturnCode(p) \/ Interrupt(p) \/ Die(p)
        PROVE  CommandInv'
    BY <1>3, PreparePathKeeps, OpenTemporaryKeeps, NameTemporaryKeeps, WriteTemporaryKeeps, ReplaceKeeps, WriteFailsKeeps,
       ReturnCodeKeeps, InterruptKeeps, DieKeeps
  <1> QED  BY <1>1, <1>2, <1>3 DEF CommandNext

LEMMA InvCleans == CommandInv => CommandsEndClean
  BY DEF CommandInv, WritingInv, ServingInv, CommandsEndClean, OutputFilesAreWhole, TelemetryEndsWithTheCommand, At

(* Whichever way commands end, fail, are interrupted or die, and however their  *)
(* writes of one file interleave, what they leave is whole: the output file     *)
(* (_atomic_write), a temporary file only beside a command that says it failed  *)
(* or was interrupted, and no health server (the finally of main).              *)
THEOREM CommandsAlwaysEndClean == CommandSpec => []CommandsEndClean
  <1>1. CommandSpec => []CommandInv
    BY CommandInitKeeps, CommandStepKeeps, PTL DEF CommandSpec
  <1> QED  BY <1>1, InvCleans, PTL

(* An exit code of 0 or 1 without a traceback tells what the report says of the *)
(* log as it was collected, under the policy that the last layer of             *)
(* configuration asked for (_handle_report, evaluate_report_severity).          *)
THEOREM ExitCodesAreTruthful == CommandSpec => []ExitCodeIsTruthful
  <1>1. CommandSpec => []CommandInv
    BY CommandInitKeeps, CommandStepKeeps, PTL DEF CommandSpec
  <1>2. CommandInv => ExitCodeIsTruthful
    BY DEF CommandInv
  <1> QED  BY <1>1, <1>2, PTL

-----------------------------------------------------------------------------
(* The quality gate: the inductive invariant.                                    *)

WithinOperation == {"operation", "poll", "stop passed", "stop failed", "stop raised"}
GatePlaces == WithinOperation \cup {"idle", "summary", "ended", "raised"}
Results == [operation : Operations, passed : BOOLEAN]

GateTyped ==
    /\ gate \in [run : Nat, at : GatePlaces, profile : Profiles \cup {<<>>}, results : Seq(Results),
                 returncode : {0, 1}]
    /\ reports \in [Operations -> [run : Nat, passed : BOOLEAN]]
    /\ summary = [run |-> summary.run, profile |-> summary.profile, passed |-> summary.passed,
                  results |-> summary.results]
    /\ summary.run \in Nat

\* The i-th operation of the profile has passed in this run.
HasPassed(i) ==
    /\ gate.results[i] = [operation |-> gate.profile[i], passed |-> TRUE]
    /\ reports[gate.profile[i]] = [run |-> gate.run, passed |-> TRUE]
    /\ gate.profile[i] = Smoke => gate.run \in smokes

AllPassed == \A i \in 1 .. Len(gate.results) : HasPassed(i)
OnlyLastFailed == \A i \in 1 .. Len(gate.results) : gate.results[i].passed <=> i # Len(gate.results)

\* Up to the operation under way all have passed; a run that ends has passed them
\* all or stopped at the first that failed.
RunInv ==
    /\ gate.at \in WithinOperation \cup {"summary"} => gate.profile \in Profiles
    /\ gate.at \in WithinOperation => AllPassed /\ Len(gate.results) < Len(gate.profile)
    /\ gate.at = "summary" /\ gate.returncode = 0 => AllPassed /\ Len(gate.results) = Len(gate.profile)
    /\ gate.at = "summary" /\ gate.returncode = 1 => OnlyLastFailed

\* A workspace is there only while its operation is.
WorkspaceInv ==
    /\ leftBehind \subseteq Nat
    /\ gate.at \in WithinOperation \ {"operation"} => Operation = Smoke
    /\ gate.at = "stop passed" => gate.run \in smokes
    /\ WorkspacesEndWithTheirSmoke
    /\ \A r \in leftBehind : r <= gate.run /\ r # 0

\* The summary is of an earlier run, or of this one when it has ended.
SummaryInv ==
    /\ summary.run <= gate.run
    /\ summary.run # 0 /\ summary.run = gate.run => gate.at = "ended"
    /\ summary.passed => summary.run # 0
    /\ gate.at # "idle" => gate.run # 0
    /\ PassesAreEarned

GateInv == GateTyped /\ RunInv /\ WorkspaceInv /\ SummaryInv

-----------------------------------------------------------------------------
LEMMA ProfileFacts ==
    ASSUME NEW p \in Profiles
    PROVE  /\ DOMAIN p = 1 .. Len(p) /\ Len(p) \in Nat \ {0}
           /\ \A i \in 1 .. Len(p) : p[i] \in Operations
           /\ ToSet(p) = {p[i] : i \in 1 .. Len(p)}
  <1>1. DOMAIN p = 1 .. Len(p) /\ Len(p) \in Nat \ {0}
    BY ProfilesAssumption
  <1>2. ToSet(p) = {p[i] : i \in 1 .. Len(p)}
    BY <1>1 DEF ToSet
  <1> QED  BY <1>1, <1>2 DEF Operations

\* A run that is under way has left nothing behind.
LEMMA NothingLeftYet ==
    ASSUME GateInv, gate.at \in WithinOperation \cup {"summary"}
    PROVE  gate.run \notin leftBehind
  BY DEF GateInv, WorkspaceInv, WorkspacesEndWithTheirSmoke, WithinOperation

LEMMA GateInitKeeps == GateInit => GateInv
  <1> SUFFICES ASSUME GateInit PROVE GateInv
    OBVIOUS
  <1>1. GateTyped
    BY DEF GateInit, GateTyped, GatePlaces, NoSummary
  <1>2. RunInv /\ WorkspaceInv /\ SummaryInv
    BY DEF GateInit, RunInv, WorkspaceInv, SummaryInv, WithinOperation, NoSummary, PassesAreEarned,
           WorkspacesEndWithTheirSmoke
  <1> QED  BY <1>1, <1>2 DEF GateInv

-----------------------------------------------------------------------------
(* The report of an operation.                                                  *)

LEMMA ReportKeeps ==
    ASSUME GateInv, NEW passed \in BOOLEAN, Report(passed), UNCHANGED <<smokes, leftBehind, summary>>,
           gate.at \in WithinOperation,
           passed /\ Operation = Smoke => gate.run \in smokes
    PROVE  /\ GateTyped' /\ RunInv' /\ SummaryInv'
           /\ gate'.at \in {"operation", "summary"} /\ gate'.run = gate.run
  <1> DEFINE n == Len(gate.results)
             o == gate.profile[n + 1]
             result == [operation |-> o, passed |-> passed]
             row == [run |-> gate.run, passed |-> passed]
  <1> USE DEF GateInv
  <1>1. /\ gate.profile \in Profiles /\ gate.results \in Seq(Results) /\ n \in Nat
        /\ n < Len(gate.profile) /\ Len(gate.profile) \in Nat /\ gate.run \in Nat /\ gate.run # 0
        /\ (summary.run = 0 \/ gate.run # summary.run)
    <2>1. gate.profile \in Profiles /\ n < Len(gate.profile)
      BY DEF RunInv
    <2>2. gate.results \in Seq(Results) /\ gate.run \in Nat
      BY DEF GateTyped
    <2>3. n \in Nat
      BY <2>2
    <2>4. gate.run # 0 /\ (summary.run = 0 \/ gate.run # summary.run)
      BY DEF SummaryInv, WithinOperation
    <2>5. Len(gate.profile) \in Nat
      BY <2>1, ProfileFacts
    <2> QED  BY <2>1, <2>2, <2>3, <2>4, <2>5
  <1>2. o \in Operations /\ Operation = o
    <2>1. /\ Len(gate.profile) \in Nat
          /\ \A i \in 1 .. Len(gate.profile) : gate.profile[i] \in Operations
      BY <1>1, ProfileFacts
    <2>2. n + 1 \in 1 .. Len(gate.profile)
      BY <1>1, <2>1
    <2> QED  BY <2>1, <2>2 DEF Operation
  <1>3. /\ gate'.at = (IF ~passed \/ n + 1 = Len(gate.profile) THEN "summary" ELSE "operation")
        /\ gate'.returncode = (IF passed THEN 0 ELSE 1) /\ gate'.results = Append(gate.results, result)
        /\ gate'.run = gate.run /\ gate'.profile = gate.profile
        /\ gate' \in [run : Nat, at : GatePlaces, profile : Profiles \cup {<<>>}, results : Seq(Results),
                      returncode : {0, 1}]
    <2>1. Append(gate.results, result) \in Seq(Results)
      BY <1>1, <1>2 DEF Results
    <2>2. AfterOperation(passed) \in GatePlaces
      BY DEF AfterOperation, GatePlaces, WithinOperation
    <2> QED  BY <1>2, <2>1, <2>2 DEF Report, AfterOperation, GateTyped
  <1>4. /\ reports' = [reports EXCEPT ![o] = row]
        /\ reports' \in [Operations -> [run : Nat, passed : BOOLEAN]] /\ reports'[o] = row
        /\ \A q \in Operations : q # o => reports'[q] = reports[q]
    BY <1>1, <1>2 DEF Report, GateTyped
  <1>5. GateTyped'
    BY <1>3, <1>4 DEF GateTyped
  <1>6. /\ Len(gate'.results) = n + 1 /\ gate'.results[n + 1] = result
        /\ \A i \in 1 .. n : gate'.results[i] = gate.results[i]
    BY <1>1, <1>2, <1>3 DEF Results
  <1>7. \A i \in 1 .. n : HasPassed(i)
    BY DEF RunInv, AllPassed
  <1>8. ASSUME passed, NEW i \in 1 .. n + 1 PROVE HasPassed(i)'
    <2>1. i \in 1 .. Len(gate.profile) /\ gate.profile[i] \in Operations
      <3>1. /\ Len(gate.profile) \in Nat
            /\ \A j \in 1 .. Len(gate.profile) : gate.profile[j] \in Operations
        BY <1>1, ProfileFacts
      <3> QED  BY <1>1, <1>8, <3>1
    <2>2. CASE i = n + 1
      BY <1>2, <1>3, <1>4, <1>6, <1>8, <2>2 DEF HasPassed
    <2>3. CASE i \in 1 .. n
      <3>1. HasPassed(i)
        BY <1>7, <2>3
      <3> QED  BY <1>3, <1>4, <1>6, <1>8, <2>1, <2>3, <3>1 DEF HasPassed
    <2> QED  BY <1>1, <2>2, <2>3
  <1>9. RunInv'
    <2>1. CASE passed
      <3>1. AllPassed'
        BY <1>6, <1>8, <2>1 DEF AllPassed
      <3>2. /\ gate'.returncode = 0
            /\ \/ gate'.at = "summary" /\ n + 1 = Len(gate.profile)
               \/ gate'.at = "operation" /\ n + 1 < Len(gate.profile)
        <4>1. n + 1 = Len(gate.profile) \/ n + 1 < Len(gate.profile)
          BY <1>1
        <4>2. CASE n + 1 = Len(gate.profile)  BY <1>3, <2>1, <4>2
        <4>3. CASE n + 1 < Len(gate.profile)
          <5>1. n + 1 # Len(gate.profile)  BY <1>1, <4>3
          <5> QED  BY <1>3, <2>1, <4>3, <5>1
        <4> QED  BY <4>1, <4>2, <4>3
      <3>3. gate'.profile \in Profiles /\ Len(gate'.profile) = Len(gate.profile)
        BY <1>1, <1>3
      <3>4. Len(gate'.results) = Len(gate'.profile) \/ gate'.at # "summary"
        BY <1>6, <3>2, <3>3
      <3>5. Len(gate'.results) < Len(gate'.profile) \/ gate'.at \notin WithinOperation
        BY <1>6, <3>2, <3>3 DEF WithinOperation
      <3>6. gate'.returncode # 1
        BY <3>2
      <3> QED  BY <3>1, <3>3, <3>4, <3>5, <3>6, Zenon DEF RunInv
    <2>2. CASE ~passed
      <3>1. OnlyLastFailed'
        <4>1. ASSUME NEW i \in 1 .. n PROVE gate'.results[i].passed
          <5>1. gate'.results[i] = gate.results[i]
            BY <1>6
          <5>2. gate.results[i] = [operation |-> gate.profile[i], passed |-> TRUE]
            BY <1>7 DEF HasPassed
          <5> QED  BY <5>1, <5>2
        <4>2. ~gate'.results[n + 1].passed
          BY <1>6, <2>2
        <4>3. ASSUME NEW i \in 1 .. n + 1 PROVE i = n + 1 \/ i \in 1 .. n
          BY <1>1
        <4>4. \A i \in 1 .. n : i # n + 1
          BY <1>1
        <4> QED  BY <1>6, <4>1, <4>2, <4>3, <4>4 DEF OnlyLastFailed
      <3>2. gate'.returncode = 1 /\ gate'.at = "summary" /\ gate'.profile \in Profiles
        BY <1>1, <1>3, <2>2
      <3>3. gate'.returncode # 0 /\ gate'.at \notin WithinOperation
        <4>1. gate'.returncode = 1 /\ gate'.at = "summary"
          BY <3>2
        <4>2. gate'.returncode # 0
          BY <4>1
        <4>3. gate'.at \notin WithinOperation
          BY <4>1, Zenon DEF WithinOperation
        <4> QED  BY <4>2, <4>3
      <3> QED  BY <3>1, <3>2, <3>3, Zenon DEF RunInv
    <2> QED  BY <2>1, <2>2
  <1>10. SummaryInv'
    <2>1. UNCHANGED <<smokes, leftBehind, summary>>
      OBVIOUS
    <2>2. PassesAreEarned'
      BY <1>1, <1>3, <2>1 DEF SummaryInv, PassesAreEarned
    <2> QED  BY <1>1, <1>3, <2>1, <2>2 DEF SummaryInv
  <1> QED  BY <1>3, <1>5, <1>9, <1>10

-----------------------------------------------------------------------------
(* The quality gate: every step keeps the invariant.                          *)

LEMMA StartProfileKeeps ==
    ASSUME GateInv, NEW profile \in Profiles, StartProfile(profile)
    PROVE  GateInv'
  <1> USE DEF GateInv
  <1>1. /\ gate' = [run |-> gate.run + 1, at |-> "operation", profile |-> profile, results |-> <<>>, returncode |-> 0]
        /\ UNCHANGED <<workspace, smokes, leftBehind, reports, summary>> /\ gate.run \in Nat
        /\ gate.at \notin WithinOperation
    BY DEF StartProfile, GateTyped, WithinOperation
  <1>2. GateTyped'
    <2>1. <<>> \in Seq(Results)
      OBVIOUS
    <2>2. gate.run + 1 \in Nat /\ "operation" \in GatePlaces
      <3>1. gate.run \in Nat  BY <1>1
      <3> QED  BY <3>1 DEF GatePlaces, WithinOperation
    <2>3. gate' \in [run : Nat, at : GatePlaces, profile : Profiles \cup {<<>>}, results : Seq(Results),
                     returncode : {0, 1}]
      BY <1>1, <2>1, <2>2
    <2> QED  BY <1>1, <2>3 DEF GateTyped
  <1>3. RunInv'
    <2>1. gate'.at = "operation" /\ gate'.profile = profile /\ gate'.results = <<>>
      BY <1>1
    <2>2. Len(profile) \in Nat \ {0}
      BY ProfileFacts
    <2>3. Len(gate'.results) = 0
      BY <2>1
    <2> QED  BY <2>1, <2>2, <2>3 DEF RunInv, AllPassed
  <1>4. WorkspaceInv'
    <2>1. gate'.run = gate.run + 1 /\ gate'.at = "operation"
      BY <1>1
    <2>2. ASSUME NEW r \in leftBehind PROVE r <= gate'.run /\ r # gate'.run /\ r # 0
      <3>1. r \in Nat /\ r <= gate.run /\ r # 0
        BY DEF WorkspaceInv
      <3> QED  BY <1>1, <2>1, <3>1
    <2>3. workspace \notin {"starting", "serving", "ending"}
      BY <1>1 DEF WorkspaceInv, WorkspacesEndWithTheirSmoke, WithinOperation, Stopping
    <2> QED  BY <1>1, <2>1, <2>2, <2>3 DEF WorkspaceInv, WorkspacesEndWithTheirSmoke, WithinOperation
  <1>5. SummaryInv'
    <2>1. /\ gate'.run = gate.run + 1 /\ gate'.at = "operation" /\ summary.run <= gate.run
          /\ summary.run \in Nat
      BY <1>1 DEF SummaryInv, GateTyped
    <2>2. PassesAreEarned'
      BY <1>1, <2>1 DEF SummaryInv, PassesAreEarned
    <2> QED  BY <1>1, <2>1, <2>2 DEF SummaryInv
  <1> QED  BY <1>2, <1>3, <1>4, <1>5

LEMMA RunOperationKeeps ==
    ASSUME GateInv, NEW passed \in BOOLEAN, RunOperation(passed)
    PROVE  GateInv'
  <1>1. /\ Report(passed) /\ UNCHANGED <<smokes, leftBehind, summary>> /\ gate.at \in WithinOperation
        /\ (passed => Operation # Smoke) /\ UNCHANGED workspace /\ gate.at = "operation"
    BY DEF RunOperation, WithinOperation
  <1>2. GateTyped' /\ RunInv' /\ SummaryInv' /\ gate'.at \in {"operation", "summary"} /\ gate'.run = gate.run
    BY <1>1, ReportKeeps
  <1>3. WorkspaceInv'
    BY <1>1, <1>2 DEF GateInv, WorkspaceInv, WorkspacesEndWithTheirSmoke, WithinOperation, Stopping
  <1> QED  BY <1>2, <1>3 DEF GateInv

(* Steps that change nothing but where the gate is, and perhaps the workspace    *)
(* and the runs it has served.                                                  *)
LEMMA MoveKeeps ==
    ASSUME GateInv, NEW at \in GatePlaces \ {"idle", "operation", "summary", "ended"},
           gate.at \in WithinOperation \cup {"summary"},
           gate' = [gate EXCEPT !.at = at], UNCHANGED <<leftBehind, reports, summary>>, smokes \subseteq smokes',
           at \in WithinOperation => gate.at \in WithinOperation
    PROVE  GateTyped' /\ RunInv' /\ SummaryInv' /\ Operation' = Operation /\ gate'.at = at /\ gate'.run = gate.run
  <1> USE DEF GateInv
  <1>1. /\ gate'.at = at /\ gate'.run = gate.run /\ gate'.profile = gate.profile
        /\ gate'.results = gate.results /\ gate'.returncode = gate.returncode
    BY DEF GateTyped
  <1>2. GateTyped'
    BY DEF GateTyped
  <1>3. \A i : HasPassed(i) => HasPassed(i)'
    BY <1>1 DEF HasPassed
  <1>4. RunInv'
    BY <1>1, <1>3 DEF RunInv, AllPassed, OnlyLastFailed
  <1>5. SummaryInv'
    BY <1>1 DEF SummaryInv, PassesAreEarned, WithinOperation
  <1> QED  BY <1>1, <1>2, <1>4, <1>5 DEF Operation

LEMMA OperationRaisesKeeps ==
    ASSUME GateInv, OperationRaises
    PROVE  GateInv'
  <1>1. /\ gate' = [gate EXCEPT !.at = "raised"] /\ UNCHANGED <<workspace, smokes, leftBehind, reports, summary>>
        /\ gate.at = "operation" /\ "raised" \in GatePlaces \ {"idle", "operation", "summary", "ended"}
        /\ gate.at \in WithinOperation \cup {"summary"} /\ "raised" \notin WithinOperation
    BY DEF OperationRaises, GatePlaces, WithinOperation
  <1>2. GateTyped' /\ RunInv' /\ SummaryInv' /\ gate'.at = "raised" /\ gate'.run = gate.run
    BY <1>1, MoveKeeps
  <1>3. WorkspaceInv'
    BY <1>1, <1>2 DEF GateInv, WorkspaceInv, WorkspacesEndWithTheirSmoke, WithinOperation, Stopping
  <1> QED  BY <1>2, <1>3 DEF GateInv

LEMMA StartWorkspaceKeeps ==
    ASSUME GateInv, StartWorkspace
    PROVE  GateInv'
  <1>1. /\ gate' = [gate EXCEPT !.at = "poll"] /\ UNCHANGED <<smokes, leftBehind, reports, summary>>
        /\ gate.at \in WithinOperation /\ "poll" \in GatePlaces \ {"idle", "operation", "summary", "ended"}
        /\ Operation = Smoke
    BY DEF StartWorkspace, GatePlaces, WithinOperation
  <1>2. GateTyped' /\ RunInv' /\ SummaryInv' /\ gate'.at = "poll" /\ gate'.run = gate.run
        /\ Operation' = Operation
    BY <1>1, MoveKeeps
  <1>3. WorkspaceInv'
    <2>1. gate'.run \notin leftBehind'
      BY <1>1, <1>2, NothingLeftYet
    <2>2. leftBehind' \subseteq Nat /\ \A r \in leftBehind' : r <= gate'.run /\ r # 0
      BY <1>1, <1>2 DEF GateInv, WorkspaceInv
    <2>3. WorkspacesEndWithTheirSmoke'
      BY <1>2, <2>1 DEF WorkspacesEndWithTheirSmoke, Stopping
    <2>4. (Operation = Smoke)'
      BY <1>1, <1>2 DEF GateInv, WorkspaceInv, WithinOperation
    <2> QED
      BY <1>2, <2>2, <2>3, <2>4 DEF WorkspaceInv
  <1> QED  BY <1>2, <1>3 DEF GateInv

\* What is left as it is but who answers, and how many polls are left.
LEMMA OthersKeep ==
    ASSUME GateInv, UNCHANGED <<gate, smokes, leftBehind, reports, summary>>,
           workspace' = workspace \/ workspace' = "gone"
              \/ (workspace \in {"starting", "serving", "ending"} /\ workspace' \in {"serving", "ending"})
    PROVE  GateInv'
  <1>1. GateTyped'
    BY DEF GateInv, GateTyped
  <1>2. RunInv'
    <2>1. AllPassed' <=> AllPassed
      BY DEF AllPassed, HasPassed
    <2>2. OnlyLastFailed' <=> OnlyLastFailed
      BY DEF OnlyLastFailed
    <2> QED  BY <2>1, <2>2 DEF GateInv, RunInv
  <1>3. WorkspaceInv'
    <2>1. Operation' = Operation /\ (Stopping' <=> Stopping)
      BY DEF Operation, Stopping
    <2> QED  BY <2>1 DEF GateInv, WorkspaceInv, WorkspacesEndWithTheirSmoke
  <1>4. SummaryInv'
    <2>1. PassesAreEarned' <=> PassesAreEarned
      BY DEF PassesAreEarned
    <2> QED  BY <2>1 DEF GateInv, SummaryInv
  <1> QED  BY <1>1, <1>2, <1>3, <1>4 DEF GateInv

LEMMA PollKeeps ==
    ASSUME GateInv, Poll
    PROVE  GateInv'
  <1>1. /\ gate.at = "poll" /\ UNCHANGED <<workspace, leftBehind, reports, summary>>
        /\ \/ gate' = [gate EXCEPT !.at = "stop failed"] /\ UNCHANGED smokes
           \/ gate' = [gate EXCEPT !.at = "stop passed"] /\ smokes' = smokes \cup {gate.run}
           \/ UNCHANGED <<gate, smokes>>
    BY DEF Poll
  <1>2. CASE UNCHANGED <<gate, smokes>>
    BY <1>1, <1>2, OthersKeep
  <1>3. ASSUME NEW at \in {"stop failed", "stop passed"}, gate' = [gate EXCEPT !.at = at],
               smokes \subseteq smokes', at = "stop passed" => gate.run \in smokes'
        PROVE  GateInv'
    <2>1. /\ at \in GatePlaces \ {"idle", "operation", "summary", "ended"}
          /\ gate.at \in WithinOperation /\ gate.at \in WithinOperation \cup {"summary"}
      BY <1>1 DEF GatePlaces, WithinOperation
    <2>2. /\ GateTyped' /\ RunInv' /\ SummaryInv' /\ Operation' = Operation /\ gate'.at = at
          /\ gate'.run = gate.run
      BY <1>1, <1>3, <2>1, MoveKeeps
    <2>3. WorkspaceInv'
      <3>1. gate'.run \notin leftBehind'
        BY <1>1, <2>1, <2>2, NothingLeftYet
      <3>2. leftBehind' \subseteq Nat /\ \A r \in leftBehind' : r <= gate'.run /\ r # 0
        BY <1>1, <2>2 DEF GateInv, WorkspaceInv
      <3>3. WorkspacesEndWithTheirSmoke'
        BY <2>2, <3>1 DEF WorkspacesEndWithTheirSmoke, Stopping
      <3>4. (Operation = Smoke)'
        BY <1>1, <2>2 DEF GateInv, WorkspaceInv, WithinOperation
      <3> QED
        BY <1>3, <2>2, <3>2, <3>3, <3>4 DEF WorkspaceInv
    <2> QED  BY <2>2, <2>3 DEF GateInv
  <1> QED  BY <1>1, <1>2, <1>3

LEMMA PollRaisesKeeps ==
    ASSUME GateInv, PollRaises
    PROVE  GateInv'
  <1>1. /\ gate' = [gate EXCEPT !.at = "stop raised"] /\ UNCHANGED <<workspace, smokes, leftBehind, reports, summary>>
        /\ gate.at = "poll" /\ gate.at \in WithinOperation
        /\ "stop raised" \in GatePlaces \ {"idle", "operation", "summary", "ended"}
    BY DEF PollRaises, GatePlaces, WithinOperation
  <1>2. GateTyped' /\ RunInv' /\ SummaryInv' /\ gate'.at = "stop raised" /\ gate'.run = gate.run
        /\ Operation' = Operation
    BY <1>1, MoveKeeps
  <1>3. WorkspaceInv'
    <2>1. gate'.run \notin leftBehind'
      <3>1. gate.run \notin leftBehind
        BY <1>1, NothingLeftYet
      <3>2. leftBehind' = leftBehind
        BY <1>1
      <3>3. gate'.run = gate.run
        BY <1>2
      <3> QED
        BY <3>1, <3>2, <3>3, Zenon
    <2>2. leftBehind' \subseteq Nat /\ \A r \in leftBehind' : r <= gate'.run /\ r # 0
      BY <1>1, <1>2 DEF GateInv, WorkspaceInv
    <2>3. WorkspacesEndWithTheirSmoke'
      BY <1>2, <2>1 DEF WorkspacesEndWithTheirSmoke, Stopping
    <2>4. (Operation = Smoke)'
      BY <1>1, <1>2 DEF GateInv, WorkspaceInv, WithinOperation
    <2> QED
      BY <1>2, <2>2, <2>3, <2>4 DEF WorkspaceInv
  <1> QED  BY <1>2, <1>3 DEF GateInv

LEMMA LeaveWorkspaceKeeps ==
    ASSUME GateInv, LeaveWorkspace
    PROVE  GateInv'
  <1> USE DEF GateInv
  <1>1. /\ gate' = [gate EXCEPT !.at = "raised"] /\ UNCHANGED <<smokes, reports, summary>>
        /\ workspace' = "none" /\ leftBehind' = leftBehind \cup {gate.run}
        /\ gate.at \in WithinOperation
    BY DEF LeaveWorkspace, Stopping, WithinOperation
  <1>2. /\ gate'.at = "raised" /\ gate'.run = gate.run /\ gate.run \in Nat
        /\ gate'.profile = gate.profile /\ gate'.results = gate.results
        /\ gate'.returncode = gate.returncode
        /\ "raised" \notin WithinOperation
    BY <1>1 DEF GateTyped, WithinOperation
  <1>3. gate.run # 0 /\ (summary.run = 0 \/ summary.run # gate.run)
    BY <1>1 DEF SummaryInv, WithinOperation
  <1>4. GateTyped' /\ RunInv'
    BY <1>1, <1>2 DEF GateTyped, GatePlaces, RunInv
  <1>5. WorkspaceInv'
    <2>1. ASSUME NEW r \in leftBehind' PROVE r \in Nat /\ r <= gate'.run /\ r # 0
      <3>1. CASE r = gate.run
        BY <1>2, <1>3, <3>1
      <3>2. CASE r \in leftBehind
        BY <1>2, <3>2 DEF WorkspaceInv
      <3> QED  BY <1>1, <3>1, <3>2
    <2> QED
      BY <1>1, <1>2, <2>1 DEF WorkspaceInv, WorkspacesEndWithTheirSmoke, WithinOperation
  <1>6. SummaryInv'
    BY <1>1, <1>2, <1>3 DEF SummaryInv, PassesAreEarned
  <1> QED  BY <1>4, <1>5, <1>6

LEMMA EndSmokeKeeps ==
    ASSUME GateInv, EndSmoke
    PROVE  GateInv'
  <1>1. /\ Stopping /\ workspace = "gone" /\ UNCHANGED <<workspace, smokes, leftBehind, summary>>
        /\ gate.at \in WithinOperation
    BY DEF EndSmoke, Stopping, WithinOperation
  <1>2. CASE gate' = [gate EXCEPT !.at = "raised"] /\ UNCHANGED reports
    <2>1. /\ "raised" \in GatePlaces \ {"idle", "operation", "summary", "ended"} /\ "raised" \notin WithinOperation
      BY DEF GatePlaces, WithinOperation
    <2>2. GateTyped' /\ RunInv' /\ SummaryInv' /\ gate'.at = "raised" /\ gate'.run = gate.run
      BY <1>1, <1>2, <2>1, MoveKeeps
    <2>3. WorkspaceInv'
      BY <1>1, <2>2 DEF GateInv, WorkspaceInv, WorkspacesEndWithTheirSmoke, WithinOperation, Stopping
    <2> QED  BY <2>2, <2>3 DEF GateInv
  <1>3. CASE Report(gate.at = "stop passed")
    <2> DEFINE passed == gate.at = "stop passed"
    <2>1. Report(passed) /\ passed \in BOOLEAN /\ (passed /\ Operation = Smoke => gate.run \in smokes)
      BY <1>3 DEF GateInv, WorkspaceInv
    <2> HIDE DEF passed
    <2>2. GateTyped' /\ RunInv' /\ SummaryInv' /\ gate'.at \in {"operation", "summary"} /\ gate'.run = gate.run
      BY <1>1, <2>1, ReportKeeps
    <2>3. WorkspaceInv'
      BY <1>1, <2>2 DEF GateInv, WorkspaceInv, WorkspacesEndWithTheirSmoke, WithinOperation, Stopping
    <2> QED  BY <2>2, <2>3 DEF GateInv
  <1> QED  BY <1>2, <1>3 DEF EndSmoke

LEMMA WriteSummaryKeeps ==
    ASSUME GateInv, WriteSummary
    PROVE  GateInv'
  <1> USE DEF GateInv
  <1>1. /\ gate.at = "summary" /\ gate' = [gate EXCEPT !.at = "ended"]
        /\ summary' = [run |-> gate.run, profile |-> gate.profile, passed |-> gate.returncode = 0,
                       results |-> gate.results]
        /\ UNCHANGED <<workspace, smokes, leftBehind, reports>>
    BY DEF WriteSummary
  <1>2. /\ gate'.at = "ended" /\ gate'.run = gate.run /\ gate.run \in Nat
        /\ gate.results \in Seq(Results) /\ gate.returncode \in {0, 1} /\ gate.profile \in Profiles
    BY <1>1 DEF GateTyped, RunInv
  <1>3. GateTyped'
    BY <1>1, <1>2 DEF GateTyped, GatePlaces
  <1>4. RunInv' /\ WorkspaceInv'
    BY <1>1, <1>2 DEF RunInv, WorkspaceInv, WorkspacesEndWithTheirSmoke, WithinOperation, Stopping
  <1>5. gate.run # 0
    BY <1>1 DEF SummaryInv
  <1>8. summary'.run \notin leftBehind'
    BY <1>1, NothingLeftYet
  <1>6. PassesAreEarned'
    <2>1. CASE gate.returncode = 0
      <3>1. /\ Len(gate.results) = Len(gate.profile)
            /\ \A i \in 1 .. Len(gate.profile) : HasPassed(i)
        BY <1>1, <2>1 DEF RunInv, AllPassed
      <3>2. DOMAIN gate.profile = 1 .. Len(gate.profile) /\ DOMAIN gate.results = 1 .. Len(gate.profile)
        BY <1>2, <3>1, ProfileFacts
      <3>3. gate.results = [i \in DOMAIN gate.profile |-> [operation |-> gate.profile[i], passed |-> TRUE]]
        <4>1. gate.results = [i \in DOMAIN gate.profile |-> gate.results[i]]
          BY <1>2, <3>1, <3>2
        <4>2. \A i \in DOMAIN gate.profile :
                 gate.results[i] = [operation |-> gate.profile[i], passed |-> TRUE]
          BY <3>1, <3>2 DEF HasPassed
        <4> QED  BY <4>1, <4>2
      <3>4. /\ \A o \in ToSet(gate.profile) : reports[o] = [run |-> gate.run, passed |-> TRUE]
            /\ Smoke \in ToSet(gate.profile) => gate.run \in smokes
        <4>1. ToSet(gate.profile) = {gate.profile[i] : i \in 1 .. Len(gate.profile)}
          BY <1>2, ProfileFacts
        <4> QED  BY <3>1, <4>1 DEF HasPassed
      <3> QED  BY <1>1, <1>2, <1>8, <2>1, <3>3, <3>4 DEF PassesAreEarned
    <2>2. CASE gate.returncode = 1
      <3>1. \A i \in 1 .. Len(gate.results) : gate.results[i].passed <=> i # Len(gate.results)
        BY <1>1, <2>2 DEF RunInv, OnlyLastFailed
      <3>2. DOMAIN gate.results = 1 .. Len(gate.results)
        BY <1>2
      <3>3. ~summary'.passed /\ summary'.results = gate.results
        <4>1. (gate.returncode = 0) = FALSE
          BY <2>2
        <4>2. summary' = [run |-> gate.run, profile |-> gate.profile, passed |-> FALSE, results |-> gate.results]
          BY <1>1, <4>1, Zenon
        <4> QED  BY <4>2
      <3> QED  BY <1>8, <3>1, <3>2, <3>3 DEF PassesAreEarned
    <2> QED  BY <1>2, <2>1, <2>2
  <1>7. SummaryInv'
    BY <1>1, <1>2, <1>5, <1>6 DEF SummaryInv
  <1> QED  BY <1>3, <1>4, <1>7

LEMMA SummaryFailsKeeps ==
    ASSUME GateInv, SummaryFails
    PROVE  GateInv'
  <1>1. /\ gate' = [gate EXCEPT !.at = "raised"] /\ UNCHANGED <<workspace, smokes, leftBehind, reports, summary>>
        /\ gate.at = "summary" /\ gate.at \in WithinOperation \cup {"summary"}
        /\ "raised" \in GatePlaces \ {"idle", "operation", "summary", "ended"} /\ "raised" \notin WithinOperation
    BY DEF SummaryFails, GatePlaces, WithinOperation
  <1>2. GateTyped' /\ RunInv' /\ SummaryInv' /\ gate'.at = "raised" /\ gate'.run = gate.run
    BY <1>1, MoveKeeps
  <1>3. WorkspaceInv'
    BY <1>1, <1>2 DEF GateInv, WorkspaceInv, WorkspacesEndWithTheirSmoke, WithinOperation, Stopping
  <1> QED  BY <1>2, <1>3 DEF GateInv

LEMMA GateStepKeeps == GateInv /\ [GateNext]_gateVars => GateInv'
  <1> SUFFICES ASSUME GateInv, [GateNext]_gateVars PROVE GateInv'
    OBVIOUS
  <1>1. CASE UNCHANGED gateVars
    BY <1>1, OthersKeep DEF gateVars
  <1>6. CASE LeaveWorkspace
    BY <1>6, LeaveWorkspaceKeeps
  <1>2. CASE StopWorkspace \/ KillWorkspace \/ WorkspaceServes \/ WorkspaceEnds \/ AnotherServer
    BY <1>2, OthersKeep DEF StopWorkspace, KillWorkspace, WorkspaceServes, WorkspaceEnds, AnotherServer
  <1>3. CASE \E profile \in Profiles : StartProfile(profile)
    BY <1>3, StartProfileKeeps
  <1>4. CASE \E passed \in BOOLEAN : RunOperation(passed)
    BY <1>4, RunOperationKeeps
  <1>5. CASE OperationRaises \/ StartWorkspace \/ Poll \/ PollRaises \/ EndSmoke \/ WriteSummary \/ SummaryFails
    BY <1>5, OperationRaisesKeeps, StartWorkspaceKeeps, PollKeeps, PollRaisesKeeps, EndSmokeKeeps,
       WriteSummaryKeeps, SummaryFailsKeeps
  <1> QED  BY <1>1, <1>2, <1>3, <1>4, <1>5, <1>6 DEF GateNext

-----------------------------------------------------------------------------
(* The quality gate: the theorems.                                            *)

(* A summary that says passed was earned in one run, whichever operations fail,  *)
(* raise or are interrupted before it (run_profile).                            *)
THEOREM PassesAreAlwaysEarned == GateSpec => []PassesAreEarned
  <1>1. GateSpec => []GateInv
    BY GateInitKeeps, GateStepKeeps, PTL DEF GateSpec
  <1>2. GateInv => PassesAreEarned
    BY DEF GateInv, SummaryInv
  <1> QED  BY <1>1, <1>2, PTL

(* The workspace that the gate starts outlives the operation that started it     *)
(* only when that operation raises and ends the run, whoever has its port and    *)
(* wherever the finally of the packaged workspace smoke is cut short.           *)
THEOREM WorkspacesAlwaysEnd == GateSpec => []WorkspacesEndWithTheirSmoke
  <1>1. GateSpec => []GateInv
    BY GateInitKeeps, GateStepKeeps, PTL DEF GateSpec
  <1>2. GateInv => WorkspacesEndWithTheirSmoke
    BY DEF GateInv, WorkspaceInv
  <1> QED  BY <1>1, <1>2, PTL

-----------------------------------------------------------------------------
(* The removal of a worktree: the inductive invariant.                           *)

IsCleaner == cleaner = [at |-> cleaner.at, todo |-> cleaner.todo, depth |-> cleaner.depth]

\* What there is lies below directories.
IsTree == tree = [p \in EntryPaths |-> tree[p]]
TreeInv == IsTree /\ \A p \in EntryPaths : tree[p].kind # "absent" => PlainChain(p)

\* Until somebody changes something, a directory above the entry in hand is as it
\* was looked at, and the entry as it was read.
LookedInv ==
    cleaner.at \in {"validate", "read", "remove"} =>
        \A p \in Below : IsInHand(p) =>
            \A d \in looked \cap Ancestors[p] : Outside(d) \/ tree[d].kind = "directory"
ReadInv ==
    cleaner.at = "remove" =>
        \A p \in Below : IsInHand(p) /\ p \in looked => AsReviewed(Lookup(p), p)

CleanupInv == IsCleaner /\ TreeInv /\ LookedInv /\ ReadInv /\ OnlyReviewedContentIsRemoved

-----------------------------------------------------------------------------
LEMMA PathFacts ==
    /\ Below \subseteq EntryPaths /\ ResidualRoot \in EntryPaths /\ Ancestors[ResidualRoot] = {}
    /\ \A p \in EntryPaths :
          /\ p \notin Ancestors[p] /\ Ancestors[p] \subseteq EntryPaths
          /\ \A a \in Ancestors[p] : Ancestors[a] \subseteq Ancestors[p]
  BY CleanupAssumption DEF EntryPaths

\* What there is, is not reached through a link.
LEMMA PlainIsInside ==
    ASSUME NEW p, PlainChain(p)
    PROVE  ~Outside(p) /\ Lookup(p) = tree[p]
  BY DEF PlainChain, Outside, Lookup

LEMMA CleanupInitKeeps == CleanupInit => CleanupInv
  <1> SUFFICES ASSUME CleanupInit PROVE CleanupInv
    OBVIOUS
  <1>1. TreeInv
    BY CleanupAssumption DEF CleanupInit, TreeInv, IsTree, PlainChain
  <1> QED  BY <1>1 DEF CleanupInit, CleanupInv, IsCleaner, LookedInv, ReadInv, IsInHand,
                       OnlyReviewedContentIsRemoved

\* A new inventory is made between applications only, and forgets what the last removed.
LEMMA ReviewKeeps ==
    ASSUME CleanupInv, BuildInventory \/ Approve \/ ApplyManifest
    PROVE  CleanupInv'
  <1>1. UNCHANGED <<tree, elsewhere>>
    BY DEF BuildInventory, Approve, ApplyManifest
  <1>2. TreeInv'
    BY <1>1 DEF CleanupInv, TreeInv, IsTree, PlainChain
  <1>3. CASE BuildInventory
    BY <1>2, <1>3
       DEF BuildInventory, CleanupInv, IsCleaner, LookedInv, ReadInv, OnlyReviewedContentIsRemoved
  <1>4. CASE Approve
    <2>1. IsCleaner' /\ cleaner' = cleaner /\ looked' = looked /\ removed' = removed
      BY <1>4 DEF Approve, CleanupInv, IsCleaner
    <2>2. manifest'.entries = manifest.entries
      BY <1>4 DEF Approve
    <2>3. LookedInv'
      BY <1>1, <2>1 DEF CleanupInv, LookedInv, IsInHand, Outside
    <2>4. ReadInv'
      BY <1>1, <2>1, <2>2 DEF CleanupInv, ReadInv, IsInHand, AsReviewed, Lookup, Outside
    <2>5. OnlyReviewedContentIsRemoved'
      BY <2>1, <2>2 DEF CleanupInv, OnlyReviewedContentIsRemoved, AsReviewed
    <2> QED  BY <1>2, <2>1, <2>3, <2>4, <2>5 DEF CleanupInv
  <1>5. CASE ApplyManifest
    <2>1. IsCleaner' /\ cleaner'.at # "remove" /\ looked' = {} /\ removed' = {}
      BY <1>5 DEF ApplyManifest, IsCleaner
    <2> QED  BY <1>2, <2>1 DEF CleanupInv, LookedInv, ReadInv, OnlyReviewedContentIsRemoved
  <1> QED  BY <1>3, <1>4, <1>5

LEMMA CheckDirectoryKeeps ==
    ASSUME CleanupInv, NEW p \in Below, CheckDirectory(p)
    PROVE  CleanupInv'
  <1>1. PICK d \in Ancestors[p] :
            /\ looked' = looked \cup {d}
            /\ IF PlainDirectory(d) THEN cleaner' = [cleaner EXCEPT !.depth = @ + 1] ELSE Stop
    BY DEF CheckDirectory
  <1>2. /\ cleaner.at = "validate" /\ p = Head(cleaner.todo)
        /\ UNCHANGED <<tree, elsewhere, manifest, removed>>
    BY DEF CheckDirectory, IsInHand
  <1>3. /\ IsCleaner' /\ cleaner'.todo = cleaner.todo /\ cleaner'.at \in {"validate", "stopped"}
        /\ cleaner'.at = "validate" => Lookup(d).kind = "directory"
    BY <1>1, <1>2 DEF CleanupInv, IsCleaner, Stop, PlainDirectory
  <1>4. TreeInv' /\ OnlyReviewedContentIsRemoved'
    BY <1>2 DEF CleanupInv, TreeInv, IsTree, PlainChain, OnlyReviewedContentIsRemoved, AsReviewed
  <1>5. cleaner'.at = "validate" => Outside(d) \/ tree[d].kind = "directory"
    BY <1>3 DEF Lookup
  <1>6. LookedInv'
    BY <1>1, <1>2, <1>3, <1>5 DEF CleanupInv, LookedInv, IsInHand, Outside
  <1>7. ReadInv'
    BY <1>3 DEF ReadInv
  <1> QED  BY <1>3, <1>4, <1>6, <1>7 DEF CleanupInv

\* A look at the entry itself.
LEMMA LookKeeps ==
    ASSUME CleanupInv, NEW p \in Below, StatEntry(p) \/ ReadEntry(p)
    PROVE  CleanupInv'
  <1>1. /\ cleaner.at \in {"validate", "read"} /\ cleaner.todo # <<>> /\ p = Head(cleaner.todo)
        /\ UNCHANGED <<tree, elsewhere, manifest, removed>>
        /\ looked' \subseteq looked \cup {p}
    BY DEF StatEntry, ReadEntry, IsInHand
  <1>2. /\ IsCleaner' /\ cleaner'.todo = cleaner.todo
        /\ cleaner'.at = "remove" => AsReviewed(Lookup(p), p)
    <2>1. CASE StatEntry(p)
      BY <2>1 DEF StatEntry, CleanupInv, IsCleaner, Stop, AsReviewed
    <2>2. CASE ReadEntry(p)
      BY <2>2 DEF ReadEntry, CleanupInv, IsCleaner, Stop, AsReviewed, MayBeSame
    <2> QED  BY <2>1, <2>2
  <1>3. TreeInv' /\ OnlyReviewedContentIsRemoved'
    BY <1>1 DEF CleanupInv, TreeInv, IsTree, PlainChain, OnlyReviewedContentIsRemoved, AsReviewed
  <1>4. LookedInv'
    <2>1. p \notin Ancestors[p]
      BY PathFacts
    <2>2. \A d \in looked' \cap Ancestors[p] : Outside(d) \/ tree[d].kind = "directory"
      BY <1>1, <2>1 DEF CleanupInv, LookedInv, IsInHand
    <2> QED  BY <1>1, <1>2, <2>2 DEF LookedInv, IsInHand, Outside
  <1>5. ReadInv'
    BY <1>1, <1>2 DEF ReadInv, IsInHand, AsReviewed, Lookup, Outside
  <1> QED  BY <1>2, <1>3, <1>4, <1>5 DEF CleanupInv

\* Where all directories above it are as they were looked at, an entry is inside.
LEMMA FreshIsInside ==
    ASSUME CleanupInv, NEW p \in Below, cleaner.at = "remove", IsInHand(p), Ancestors[p] \subseteq looked
    PROVE  ~Outside(p)
  <1> SUFFICES ASSUME Outside(p) PROVE FALSE
    OBVIOUS
  <1>1. PICK a \in Ancestors[p] : tree[a].kind = "reparse"
    BY DEF Outside
  <1>2. a \in EntryPaths
    BY PathFacts
  <1>3. ~Outside(a)
    BY <1>1, <1>2, PlainIsInside DEF CleanupInv, TreeInv
  <1> QED  BY <1>1, <1>3 DEF CleanupInv, LookedInv

\* What has nothing below it may go.
LEMMA TreeLosesLeaf ==
    ASSUME TreeInv, NEW p \in EntryPaths, tree[p].kind # "directory" \/ ~Holds(p),
           tree' = [tree EXCEPT ![p] = Nothing]
    PROVE  TreeInv'
  <1>1. IsTree' /\ \A q \in EntryPaths : tree'[q] = IF q = p THEN Nothing ELSE tree[q]
    BY DEF TreeInv, IsTree
  <1>2. SUFFICES ASSUME NEW q \in EntryPaths, tree'[q].kind # "absent"
                 PROVE  \A a \in Ancestors[q] : tree'[a].kind = "directory"
    BY <1>1 DEF TreeInv, PlainChain
  <1>3. q # p /\ tree'[q] = tree[q]
    BY <1>1, <1>2 DEF Nothing
  <1>4. \A a \in Ancestors[q] : tree[a].kind = "directory"
    BY <1>2, <1>3 DEF TreeInv, PlainChain
  <1>5. p \notin Ancestors[q]
    <2> SUFFICES ASSUME p \in Ancestors[q] PROVE FALSE
      OBVIOUS
    <2>1. q \in Below
      BY PathFacts DEF EntryPaths
    <2>2. Lookup(q) = tree[q]
      BY <1>4, PlainIsInside DEF PlainChain
    <2>3. Holds(p)
      BY <1>2, <1>3, <2>1, <2>2 DEF Holds
    <2> QED  BY <1>4, <2>3
  <1> QED  BY <1>1, <1>4, <1>5, PathFacts

\* What is removed is fresh and as reviewed, or somebody has changed something.
LEMMA RemoveKeeps ==
    ASSUME CleanupInv, NEW p \in Below, RemoveEntry(p)
    PROVE  CleanupInv'
  <1> DEFINE record == [path |-> p, entry |-> Lookup(p), outside |-> Outside(p), fresh |-> looked]
  <1>1. /\ cleaner.at = "remove" /\ IsInHand(p) /\ manifest' = manifest
        /\ removed' \in {removed, removed \cup {record}}
    BY DEF RemoveEntry
  <1>2. IsCleaner' /\ cleaner'.at # "remove" /\ ReadInv'
    BY DEF RemoveEntry, CleanupInv, IsCleaner, ReadInv, Stop
  <1>3. LookedInv'
    <2>1. looked' = {} \/ cleaner'.at = "stopped"
      BY DEF RemoveEntry, Stop, CleanupInv, IsCleaner
    <2> QED  BY <2>1 DEF LookedInv
  <1>4. TreeInv'
    <2>1. CASE tree' = tree
      BY <2>1 DEF CleanupInv, TreeInv, IsTree, PlainChain
    <2>2. CASE tree' # tree
      <3>1. ~Outside(p) /\ CanRemove(p) /\ tree' = [tree EXCEPT ![p] = Nothing]
        BY <2>2 DEF RemoveEntry
      <3>2. tree[p].kind # "directory" \/ ~Holds(p)
        BY <3>1 DEF CanRemove, EmptyDirectory, Lookup
      <3> QED  BY <3>1, <3>2, TreeLosesLeaf, PathFacts DEF CleanupInv
    <2> QED  BY <2>1, <2>2
  <1>5. /\ Ancestors[record.path] \subseteq record.fresh => ~record.outside
        /\ record.path \in record.fresh => AsReviewed(record.entry, record.path)
    BY <1>1, FreshIsInside DEF CleanupInv, ReadInv
  <1>6. OnlyReviewedContentIsRemoved'
    <2> HIDE DEF record
    <2> QED  BY <1>1, <1>5 DEF CleanupInv, OnlyReviewedContentIsRemoved, AsReviewed
  <1> QED  BY <1>2, <1>3, <1>4, <1>6 DEF CleanupInv

LEMMA RemoveRootKeeps ==
    ASSUME CleanupInv, RemoveRoot
    PROVE  CleanupInv'
  <1>1. /\ IsCleaner' /\ cleaner'.at \in {"removed", "stopped"}
        /\ UNCHANGED <<manifest, removed>>
    BY DEF RemoveRoot, CleanupInv, IsCleaner, Stop
  <1>2. TreeInv'
    <2>1. CASE tree' = tree
      BY <2>1 DEF CleanupInv, TreeInv, IsTree, PlainChain
    <2>2. CASE tree' # tree
      <3>1. ~Holds(ResidualRoot) /\ tree' = [tree EXCEPT ![ResidualRoot] = Nothing]
        BY <2>2 DEF RemoveRoot
      <3> QED  BY <3>1, TreeLosesLeaf, PathFacts DEF CleanupInv
    <2> QED  BY <2>1, <2>2
  <1> QED  BY <1>1, <1>2 DEF CleanupInv, LookedInv, ReadInv, OnlyReviewedContentIsRemoved, AsReviewed

\* A change hides no directory and no entry that still counts as looked at.
LEMMA OtherChangesKeep ==
    ASSUME CleanupInv, NEW p \in EntryPaths, NEW entry, OtherChanges(p, entry)
    PROVE  CleanupInv'
  <1>1. /\ looked' = looked \ AtOrBelow(p) /\ UNCHANGED <<manifest, cleaner, removed>>
        /\ \/ PlainChain(p) /\ tree' = Replaced(tree, p, entry) /\ elsewhere' = elsewhere
           \/ Outside(p) /\ elsewhere' = Replaced(elsewhere, p, entry) /\ tree' = tree
    BY DEF OtherChanges
  <1>2. ASSUME NEW q \in EntryPaths, q \notin AtOrBelow(p)
        PROVE  /\ tree'[q] = tree[q] /\ elsewhere'[q] = elsewhere[q]
               /\ \A a \in Ancestors[q] : tree'[a] = tree[a] /\ a \in EntryPaths /\ a \notin AtOrBelow(p)
    <2>1. \A a \in Ancestors[q] : a \in EntryPaths /\ a \notin AtOrBelow(p)
      BY <1>2, PathFacts DEF AtOrBelow
    <2>2. \A a \in EntryPaths \ AtOrBelow(p) : tree'[a] = tree[a] /\ elsewhere'[a] = elsewhere[a]
      BY <1>1 DEF Replaced, AtOrBelow
    <2> QED  BY <1>2, <2>1, <2>2
  <1>3. \A q \in EntryPaths \ AtOrBelow(p) : Outside(q)' = Outside(q) /\ Lookup(q)' = Lookup(q)
    BY <1>2 DEF Outside, Lookup
  <1>4. TreeInv'
    <2>1. CASE tree' = tree
      BY <2>1 DEF CleanupInv, TreeInv, IsTree, PlainChain
    <2>2. CASE tree' # tree
      <3>1. PlainChain(p) /\ tree' = Replaced(tree, p, entry)
        BY <1>1, <2>2
      <3>2. IsTree'
        BY <3>1 DEF IsTree, Replaced
      <3>3. ASSUME NEW q \in EntryPaths, tree'[q].kind # "absent"
            PROVE  \A a \in Ancestors[q] : tree'[a].kind = "directory"
        <4>1. CASE q = p
          <5>1. \A a \in Ancestors[p] : a \in EntryPaths /\ a \notin AtOrBelow(p)
            BY PathFacts DEF AtOrBelow
          <5> QED  BY <1>2, <3>1, <4>1, <5>1 DEF PlainChain
        <4>2. CASE q # p
          <5>1. p \notin Ancestors[q]
            BY <3>1, <3>3, <4>2 DEF Replaced, Nothing
          <5>2. q \notin AtOrBelow(p)
            BY <4>2, <5>1 DEF AtOrBelow
          <5>3. PlainChain(q)
            BY <1>2, <3>3, <5>2 DEF CleanupInv, TreeInv
          <5> QED  BY <1>2, <5>2, <5>3 DEF PlainChain
        <4> QED  BY <4>1, <4>2
      <3> QED  BY <3>2, <3>3 DEF TreeInv, PlainChain
    <2> QED  BY <2>1, <2>2
  <1>5. LookedInv'
    <2>1. SUFFICES ASSUME cleaner.at \in {"validate", "read", "remove"}, NEW e \in Below, IsInHand(e),
                          NEW d \in looked' \cap Ancestors[e]
                   PROVE  Outside(d)' \/ tree'[d].kind = "directory"
      BY <1>1 DEF LookedInv, IsInHand
    <2>2. d \in EntryPaths /\ d \notin AtOrBelow(p) /\ d \in looked
      BY <1>1, <2>1, PathFacts
    <2> QED  BY <1>2, <1>3, <2>1, <2>2 DEF CleanupInv, LookedInv
  <1>6. ReadInv'
    <2>1. SUFFICES ASSUME cleaner.at = "remove", NEW e \in Below, IsInHand(e), e \in looked'
                   PROVE  AsReviewed(Lookup(e)', e)
      BY <1>1 DEF ReadInv, IsInHand, AsReviewed
    <2>2. e \in EntryPaths /\ e \notin AtOrBelow(p) /\ e \in looked
      BY <1>1, <2>1, PathFacts
    <2> QED  BY <1>3, <2>1, <2>2 DEF CleanupInv, ReadInv
  <1>7. IsCleaner' /\ OnlyReviewedContentIsRemoved'
    BY <1>1 DEF CleanupInv, IsCleaner, OnlyReviewedContentIsRemoved, AsReviewed
  <1> QED  BY <1>4, <1>5, <1>6, <1>7 DEF CleanupInv

LEMMA OtherCleanupKeeps ==
    ASSUME CleanupInv, CleanerEnds \/ GitChanges \/ UNCHANGED cleanupVars
    PROVE  CleanupInv'
  <1>1. UNCHANGED <<tree, elsewhere, removed, manifest>>
    BY DEF CleanerEnds, GitChanges, cleanupVars
  <1>2. TreeInv' /\ OnlyReviewedContentIsRemoved'
    BY <1>1 DEF CleanupInv, TreeInv, IsTree, PlainChain, OnlyReviewedContentIsRemoved, AsReviewed
  <1>3. CASE CleanerEnds
    BY <1>2, <1>3 DEF CleanerEnds, CleanupInv, IsCleaner, LookedInv, ReadInv
  <1>4. CASE UNCHANGED <<cleaner, looked>>
    BY <1>1, <1>2, <1>4
       DEF CleanupInv, IsCleaner, LookedInv, ReadInv, IsInHand, AsReviewed, Lookup, Outside
  <1> QED  BY <1>3, <1>4 DEF GitChanges, cleanupVars

\* Whatever other processes put anywhere in the directory or beyond its links while
\* entries are removed one by one, each after three kinds of look at it, and however
\* often the removal is begun again (apply_manifest, _revalidate): an entry is
\* removed outside the root only if a directory above it was replaced after it was
\* looked at, and is another than reviewed only if it changed after it was read, or
\* is a link that took the place of a file.
THEOREM OnlyReviewedContentIsEverRemoved == CleanupSpec => []OnlyReviewedContentIsRemoved
  <1>1. CleanupInv /\ [CleanupNext]_cleanupVars => CleanupInv'
    BY ReviewKeeps, CheckDirectoryKeeps, LookKeeps, RemoveKeeps, RemoveRootKeeps, OtherChangesKeep,
       OtherCleanupKeeps DEF CleanupNext
  <1>2. CleanupInv => OnlyReviewedContentIsRemoved
    BY DEF CleanupInv
  <1> QED  BY <1>1, <1>2, CleanupInitKeeps, PTL DEF CleanupSpec

-----------------------------------------------------------------------------
(* The crawler: the inductive invariant.                                        *)

InHand == {"ready", "fetching", "persisting", "page"}
FrontierEntries == [url : Urls, depth : Nat]
KeptPages == [url : Urls, requested : Urls, depth : Nat, stored : BOOLEAN]
CrawlTyped ==
    /\ config \in ConfigSpace
    /\ work \in Running \cup {"finished", "raised", "dead"}
    /\ frontier \in Seq(FrontierEntries) /\ seen \subseteq Urls /\ results \in Seq(KeptPages)
    /\ current \in [url : Urls, depth : Nat, attempt : Nat, delay : Nat, written : 0 .. Len(Files),
                    path : BOOLEAN]
    /\ limiter \in [next : Nat, gate : Nat] /\ since \in Nat /\ late \in Nat /\ quiet \in Nat
    /\ disk \in [text : SUBSET Urls, meta : SUBSET Urls, index : SUBSET Urls, over : SUBSET Urls]

\* The next slot is an interval after that of the last request, and no slot is
\* before the time an answer has asked for.
PaceInv ==
    config.limited =>
        /\ (since + late) + limiter.next >= Interval /\ quiet <= limiter.gate
        /\ work = "ready" => limiter.next >= Interval /\ since + late >= Interval /\ quiet = 0

\* The frontier is in the order of depth, of at most two depths, below the pages.
FrontierInv ==
    work \in Running =>
        /\ \A i, j \in DOMAIN frontier :
             /\ i <= j => frontier[i].depth <= frontier[j].depth
             /\ frontier[j].depth <= frontier[i].depth + 1
        /\ \A i \in DOMAIN frontier : \A p \in Pages : p.depth <= frontier[i].depth
        /\ work \in InHand =>
             /\ \A i \in DOMAIN frontier :
                  current.depth <= frontier[i].depth /\ frontier[i].depth <= current.depth + 1
             /\ \A p \in Pages : p.depth <= current.depth

\* What was taken and what waits is the root and what pages link to.
Linked == {u \in Urls : \E p \in Pages : MayExpand(p) /\ LinksTo(p, u)}
Waiting == {frontier[i].url : i \in DOMAIN frontier}
ReachInv == work \in Running => seen \cup Waiting = {Root} \cup Linked

\* What was taken is a page, given up, skipped, or in hand.
Settled(u) ==
    \/ \E p \in Pages : p.requested = u
    \/ u \in abandoned
    \/ \E reason \in {"robots", "content-type", "duplicate-content"} :
           <<IF reason = "robots" THEN u ELSE FinalUrl[u], reason>> \in skips
OutcomeInv ==
    work \in Running =>
        /\ work \in InHand => current.url \in seen
        /\ \A p \in Pages : p.requested \in seen
        /\ \A u \in seen : Settled(u) \/ (work \in InHand /\ u = current.url)

\* A link is at most one level below its page: as a page, in hand, or waiting.
DepthInv ==
    work \in Running =>
        \A p \in Pages : \A u \in Urls :
            MayExpand(p) /\ LinksTo(p, u) =>
                /\ \A q \in Pages : q.requested = u => q.depth <= p.depth + 1
                /\ work \in InHand /\ current.url = u => current.depth <= p.depth + 1
                /\ u \notin seen =>
                      \E i \in DOMAIN frontier : frontier[i].url = u /\ frontier[i].depth <= p.depth + 1

\* The files of the page in hand are written in the order of Files.
FilesInv ==
    /\ disk.index \ disk.over \subseteq disk.text \cap disk.meta
    /\ \A p \in Pages : p.stored => p.url \in disk.index
    /\ current.path => FinalUrl[current.url] \in disk.index
    /\ work \in {"ready", "fetching"} => current.written = 0 /\ ~current.path
    /\ work = "persisting" =>
         /\ current.written < Len(Files)
         /\ current.written >= 2 => FinalUrl[current.url] \in disk.text
         /\ current.written >= 4 => FinalUrl[current.url] \in disk.meta

EndInv == work = "finished" => CrawlIsComplete

-----------------------------------------------------------------------------
(* The crawler: types.                                                          *)

LEMMA FollowedLinks ==
    ASSUME NEW page, page.url \in Urls
    PROVE  /\ Followed(page.url) \in Seq(Urls)
           /\ Picked(Followed(page.url), Urls \ seen) \in Seq(Urls)
           /\ \A u : (\E i \in DOMAIN Picked(Followed(page.url), Urls \ seen) :
                         Picked(Followed(page.url), Urls \ seen)[i] = u)
                     <=> (u \in Urls \ seen /\ LinksTo(page, u))
  <1> DEFINE F == Followed(page.url)
             S == Urls \ seen
             P == Picked(F, S)
  <1>1. LinksOf[page.url] \in Seq(Urls)
    BY SiteAssumption
  <1>2. F \in Seq(Urls)
    BY <1>1, PickedElements DEF Followed
  <1>3. \A u : LinksTo(page, u) <=> \E i \in DOMAIN F : F[i] = u
    BY DEF LinksTo
  <1> HIDE DEF F, S
  <1>4. /\ P \in Seq(Urls)
        /\ \A i \in DOMAIN P : P[i] \in S /\ \E j \in DOMAIN F : F[j] = P[i]
        /\ \A j \in DOMAIN F : F[j] \in S => \E i \in DOMAIN P : P[i] = F[j]
    BY <1>2, PickedElements
  <1> HIDE DEF P
  <1>5. P \in Seq(Urls) /\ \A u : (\E i \in DOMAIN P : P[i] = u) <=> (u \in S /\ LinksTo(page, u))
    BY <1>3, <1>4
  <1> QED  BY <1>2, <1>5 DEF F, S, P

LEMMA PageInHand ==
    ASSUME CrawlTyped
    PROVE  /\ Page \in KeptPages /\ Page.url = FinalUrl[current.url] /\ Page.url \in Urls
           /\ Page.requested = current.url /\ Page.depth = current.depth
           /\ Page.stored = current.path
  BY SiteAssumption DEF CrawlTyped, Page, KeptPages

IsEntry(e, url, depth) == e.url = url /\ e.depth = depth

LEMMA FrontierGrows ==
    ASSUME NEW q \in Seq(FrontierEntries), NEW links \in Seq(Urls), NEW d \in Nat,
           NEW added, Len(added) = Len(links), added \in Seq(FrontierEntries),
           \A k \in DOMAIN links : IsEntry(added[k], links[k], d)
    PROVE  /\ q \o added \in Seq(FrontierEntries)
           /\ \A i \in DOMAIN q : i \in DOMAIN (q \o added) /\ (q \o added)[i] = q[i]
           /\ \A k \in DOMAIN links : \E i \in DOMAIN (q \o added) : IsEntry((q \o added)[i], links[k], d)
           /\ \A i \in DOMAIN (q \o added) :
                 \/ i \in DOMAIN q
                 \/ i > Len(q) /\ \E k \in DOMAIN links : IsEntry((q \o added)[i], links[k], d)
  <1> DEFINE longer == q \o added
  <1>1. DOMAIN links = 1 .. Len(links) /\ Len(links) \in Nat /\ Len(q) \in Nat
    OBVIOUS
  <1>2. /\ longer \in Seq(FrontierEntries) /\ Len(longer) = Len(q) + Len(links)
        /\ \A i \in 1 .. Len(q) : longer[i] = q[i]
        /\ \A k \in 1 .. Len(links) : longer[Len(q) + k] = added[k]
    <2>1. /\ longer \in Seq(FrontierEntries) /\ Len(longer) = Len(q) + Len(added)
          /\ \A i \in 1 .. Len(q) + Len(added) : longer[i] = IF i <= Len(q) THEN q[i] ELSE added[i - Len(q)]
      BY ConcatProperties
    <2> HIDE DEF longer
    <2>2. \A i \in 1 .. Len(q) : longer[i] = q[i]
      BY <1>1, <2>1
    <2>3. ASSUME NEW k \in 1 .. Len(links) PROVE longer[Len(q) + k] = added[k]
      <3>1. Len(q) + k \in 1 .. Len(q) + Len(added) /\ ~(Len(q) + k <= Len(q)) /\ (Len(q) + k) - Len(q) = k
        BY <1>1
      <3> QED  BY <2>1, <3>1
    <2> QED  BY <2>1, <2>2, <2>3
  <1> HIDE DEF longer
  <1>3. DOMAIN longer = 1 .. (Len(q) + Len(links)) /\ DOMAIN q = 1 .. Len(q)
    BY <1>2
  <1>4. \A k \in DOMAIN links : Len(q) + k \in DOMAIN longer /\ IsEntry(longer[Len(q) + k], links[k], d)
    <2> SUFFICES ASSUME NEW k \in DOMAIN links
                 PROVE  Len(q) + k \in DOMAIN longer /\ IsEntry(longer[Len(q) + k], links[k], d)
      OBVIOUS
    <2>1. IsEntry(added[k], links[k], d)
      OBVIOUS
    <2>2. Len(q) + k \in DOMAIN longer
      BY <1>1, <1>3
    <2> QED  BY <1>1, <1>2, <2>1, <2>2
  <1>5. ASSUME NEW i \in DOMAIN longer, i \notin DOMAIN q
        PROVE  i > Len(q) /\ \E k \in DOMAIN links : IsEntry(longer[i], links[k], d)
    <2>1. i > Len(q) /\ i - Len(q) \in DOMAIN links /\ Len(q) + (i - Len(q)) = i
      BY <1>1, <1>3, <1>5
    <2> QED  BY <1>4, <2>1
  <1>6. \A i \in DOMAIN q : i \in DOMAIN longer
    BY <1>1, <1>3
  <1> QED  BY <1>2, <1>3, <1>4, <1>5, <1>6 DEF longer

\* What a page adds to the frontier: the links that were not taken, one level down.
LEMMA PageExpands ==
    ASSUME CrawlTyped, KeepPage, ~ReachedPages, ~ReachedDepth
    PROVE  /\ frontier' \in Seq(FrontierEntries)
           /\ \A i \in DOMAIN frontier : i \in DOMAIN frontier' /\ frontier'[i] = frontier[i]
           /\ \A u \in Urls \ seen : LinksTo(Page, u) =>
                 \E i \in DOMAIN frontier' : IsEntry(frontier'[i], u, current.depth + 1)
           /\ \A i \in DOMAIN frontier' :
                 \/ i \in DOMAIN frontier
                 \/ /\ i > Len(frontier)
                    /\ \E u \in Urls \ seen : LinksTo(Page, u) /\ IsEntry(frontier'[i], u, current.depth + 1)
  <1> DEFINE links == Picked(Followed(Page.url), Urls \ seen)
             d == current.depth + 1
             added == [i \in DOMAIN links |-> Entry(links[i], d)]
  <1>1. frontier' = frontier \o added
    BY DEF KeepPage
  <1>2. /\ links \in Seq(Urls)
        /\ \A u : (\E i \in DOMAIN links : links[i] = u) <=> (u \in Urls \ seen /\ LinksTo(Page, u))
    BY FollowedLinks, PageInHand
  <1>3. d \in Nat /\ frontier \in Seq(FrontierEntries)
    BY DEF CrawlTyped
  <1> HIDE DEF links, d
  <1>4. \A k \in DOMAIN links : IsEntry(added[k], links[k], d)
    BY DEF Entry, IsEntry
  <1>5. added \in Seq(FrontierEntries) /\ Len(added) = Len(links)
    <2>1. DOMAIN links = 1 .. Len(links) /\ Len(links) \in Nat
      BY <1>2
    <2>2. \A k \in DOMAIN links : Entry(links[k], d) \in FrontierEntries
      BY <1>2, <1>3 DEF Entry, FrontierEntries
    <2> QED  BY <2>1, <2>2
  <1> HIDE DEF added
  <1>6. /\ frontier' \in Seq(FrontierEntries)
        /\ \A i \in DOMAIN frontier : i \in DOMAIN frontier' /\ frontier'[i] = frontier[i]
        /\ \A k \in DOMAIN links : \E i \in DOMAIN frontier' : IsEntry(frontier'[i], links[k], d)
        /\ \A i \in DOMAIN frontier' :
             \/ i \in DOMAIN frontier
             \/ i > Len(frontier) /\ \E k \in DOMAIN links : IsEntry(frontier'[i], links[k], d)
    <2> DEFINE longer == frontier \o added
    <2>1. links \in Seq(Urls)
      BY <1>2
    <2>2. /\ longer \in Seq(FrontierEntries)
          /\ \A i \in DOMAIN frontier : i \in DOMAIN longer /\ longer[i] = frontier[i]
      BY <2>1, <1>3, <1>4, <1>5, FrontierGrows
    <2>3. \A k \in DOMAIN links : \E i \in DOMAIN longer : IsEntry(longer[i], links[k], d)
      BY <2>1, <1>3, <1>4, <1>5, FrontierGrows
    <2>4. \A i \in DOMAIN longer :
            \/ i \in DOMAIN frontier
            \/ i > Len(frontier) /\ \E k \in DOMAIN links : IsEntry(longer[i], links[k], d)
      BY <2>1, <1>3, <1>4, <1>5, FrontierGrows
    <2>5. frontier' = longer
      BY <1>1
    <2> HIDE DEF longer
    <2> QED  BY <2>2, <2>3, <2>4, <2>5
  <1>7. \A u \in Urls \ seen : LinksTo(Page, u) => \E i \in DOMAIN frontier' : IsEntry(frontier'[i], u, d)
    BY <1>2, <1>6
  <1>8. \A i \in DOMAIN frontier' :
            \/ i \in DOMAIN frontier
            \/ i > Len(frontier) /\ \E u \in Urls \ seen : LinksTo(Page, u) /\ IsEntry(frontier'[i], u, d)
    BY <1>2, <1>6
  <1> QED  BY <1>6, <1>7, <1>8 DEF d

LEMMA SleptTyped ==
    ASSUME NEW time \in Nat, NEW l \in [next : Nat, gate : Nat], since \in Nat, quiet \in Nat,
           Slept(time, l)
    PROVE  limiter' \in [next : Nat, gate : Nat] /\ since' \in Nat /\ quiet' \in Nat
  BY CrawlAssumption DEF Slept, Left, Most, Least

LEMMA SlotsTyped ==
    ASSUME NEW l \in [next : Nat, gate : Nat]
    PROVE  SlotWait(l) \in Nat /\ TakeSlot(l) \in [next : Nat, gate : Nat]
  BY CrawlAssumption DEF SlotWait, TakeSlot, Most

LEMMA CrawlInitTyped == CrawlInit => CrawlTyped
  <1> SUFFICES ASSUME CrawlInit PROVE CrawlTyped
    OBVIOUS
  <1>1. /\ frontier \in Seq(FrontierEntries)
        /\ current \in [url : Urls, depth : Nat, attempt : Nat, delay : Nat, written : 0 .. Len(Files),
                    path : BOOLEAN]
    BY CrawlAssumption DEF CrawlInit, Entry, Nowhere, FrontierEntries, Files
  <1>2. /\ limiter \in [next : Nat, gate : Nat] /\ since \in Nat /\ late \in Nat /\ quiet \in Nat
        /\ disk \in [text : SUBSET Urls, meta : SUBSET Urls, index : SUBSET Urls, over : SUBSET Urls]
    BY CrawlAssumption DEF CrawlInit
  <1>3. config \in ConfigSpace
    BY ConfigAssumption DEF CrawlInit
  <1> QED  BY <1>1, <1>2, <1>3 DEF CrawlInit, CrawlTyped, Running

LEMMA TakeUrlTyped ==
    ASSUME CrawlTyped, TakeUrl
    PROVE  CrawlTyped'
  <1> DEFINE head == Head(frontier)
  <1>1. /\ frontier # <<>> /\ frontier' = Tail(frontier) /\ seen' = seen \cup {head.url}
        /\ UNCHANGED <<config, results, late, disk>>
    BY DEF TakeUrl, PopLeft
  <1>2. head \in FrontierEntries /\ frontier' \in Seq(FrontierEntries)
    BY <1>1 DEF CrawlTyped
  <1>3. head.url \in Urls /\ head.depth \in Nat
    BY <1>2 DEF FrontierEntries
  <1>4. CASE head.url \in seen \/ ~Allowed(head.url)
    <2>1. UNCHANGED <<work, current, limiter, since, quiet>>
      BY <1>4 DEF TakeUrl, PopLeft
    <2> QED  BY <1>1, <1>2, <1>3, <2>1 DEF CrawlTyped
  <1>5. CASE ~(head.url \in seen \/ ~Allowed(head.url))
    <2>1. /\ work' = "ready"
          /\ current' = [url |-> head.url, depth |-> head.depth, attempt |-> 0, delay |-> 1, written |-> 0,
                         path |-> FALSE]
          /\ Slept(SlotWait(limiter), TakeSlot(limiter))
      BY <1>5 DEF TakeUrl, PopLeft
    <2>2. SlotWait(limiter) \in Nat /\ TakeSlot(limiter) \in [next : Nat, gate : Nat]
      BY SlotsTyped DEF CrawlTyped
    <2>3. limiter' \in [next : Nat, gate : Nat] /\ since' \in Nat /\ quiet' \in Nat
      BY <2>1, <2>2, SleptTyped DEF CrawlTyped
    <2>4. current' \in [url : Urls, depth : Nat, attempt : Nat, delay : Nat, written : 0 .. Len(Files),
                        path : BOOLEAN]
      BY <1>3, <2>1 DEF Files
    <2> QED  BY <1>1, <1>2, <1>3, <2>1, <2>3, <2>4 DEF CrawlTyped, Running
  <1> QED  BY <1>4, <1>5

LEMMA FailFetchTyped ==
    ASSUME CrawlTyped, NEW wait \in RetryAfters, NEW jitter \in 0 .. 1, FailFetch(wait, jitter)
    PROVE  CrawlTyped'
  <1> DEFINE registered == RegisterRetryAfter(limiter, wait)
             pause == Most(current.delay + jitter, wait)
             after == [next |-> Left(registered.next, pause), gate |-> Left(registered.gate, pause)]
             asked == Most(quiet, wait)
             slot == SlotWait(after)
  <1>1. wait \in Nat /\ Interval \in Nat
    BY CrawlAssumption
  <1>2. /\ current \in [url : Urls, depth : Nat, attempt : Nat, delay : Nat, written : 0 .. Len(Files),
                        path : BOOLEAN]
        /\ limiter \in [next : Nat, gate : Nat] /\ since \in Nat /\ quiet \in Nat
    BY DEF CrawlTyped
  <1>3. registered \in [next : Nat, gate : Nat] /\ pause \in Nat /\ asked \in Nat
    BY <1>1, <1>2 DEF RegisterRetryAfter, Most
  <1> HIDE DEF registered, pause, asked
  <1>4. after \in [next : Nat, gate : Nat]
    BY <1>3 DEF Left, Most
  <1> HIDE DEF after
  <1>5. slot \in Nat /\ TakeSlot(after) \in [next : Nat, gate : Nat]
    BY <1>4, SlotsTyped
  <1> HIDE DEF slot
  <1>6. UNCHANGED <<config, frontier, seen, results, late, disk>> /\ late \in Nat
    BY DEF FailFetch, CrawlTyped
  <1>7. CASE current.attempt >= config.retries
    <2>1. work' = "top" /\ limiter' = registered /\ quiet' = asked /\ UNCHANGED <<current, since>>
      BY <1>7 DEF FailFetch, registered, asked
    <2> QED  BY <1>2, <1>3, <1>6, <2>1 DEF CrawlTyped, Running
  <1>8. CASE ~(current.attempt >= config.retries)
    <2>1. work' = "ready" /\ current' = [current EXCEPT !.attempt = @ + 1, !.delay = 2 * @]
      BY <1>8 DEF FailFetch
    <2>2. current' \in [url : Urls, depth : Nat, attempt : Nat, delay : Nat, written : 0 .. Len(Files),
                        path : BOOLEAN]
      <3>1. current.attempt + 1 \in Nat /\ 2 * current.delay \in Nat
        BY <1>2
      <3> QED  BY <1>2, <2>1, <3>1
    <2>3. /\ limiter' = [next |-> Left(TakeSlot(after).next, slot), gate |-> Left(after.gate, slot)]
          /\ since' = Least(Interval, since + pause + slot)
          /\ quiet' = Left(asked, pause + slot)
      BY <1>8 DEF FailFetch, registered, pause, after, asked, slot
    <2>4. limiter' \in [next : Nat, gate : Nat]
      BY <1>4, <1>5, <2>3 DEF Left, Most
    <2>5. since' \in Nat
      BY <1>1, <1>2, <1>3, <1>5, <2>3 DEF Least
    <2>6. quiet' \in Nat
      BY <1>3, <1>5, <2>3 DEF Left, Most
    <2> QED  BY <1>6, <2>1, <2>2, <2>4, <2>5, <2>6 DEF CrawlTyped, Running
  <1> QED  BY <1>7, <1>8

LEMMA PersistTyped ==
    ASSUME CrawlTyped, work = "persisting" => current.written < Len(Files), Persist
    PROVE  CrawlTyped'
  <1> DEFINE n == current.written + 1
             url == FinalUrl[current.url]
  <1>1. n \in 1 .. 5 /\ Len(Files) = 5
    BY DEF CrawlTyped, Persist, Files
  <1>2. url \in Urls
    BY SiteAssumption DEF CrawlTyped
  <1>3. /\ disk' = AfterWrite(disk, url, n)
        /\ current' = [current EXCEPT !.written = n, !.path = n = Len(Files)]
        /\ work' \in Running
        /\ UNCHANGED <<config, frontier, seen, results, limiter, since, late, quiet>>
    BY DEF Persist, Running
  <1>4. current' \in [url : Urls, depth : Nat, attempt : Nat, delay : Nat, written : 0 .. Len(Files),
                      path : BOOLEAN]
    <2>1. (n = Len(Files)) \in BOOLEAN /\ n \in 0 .. Len(Files)
      BY <1>1
    <2> HIDE DEF n
    <2> QED  BY <1>3, <2>1 DEF CrawlTyped
  <1>5. disk' \in [text : SUBSET Urls, meta : SUBSET Urls, index : SUBSET Urls, over : SUBSET Urls]
    <2> HIDE DEF n, url
    <2> QED  BY <1>1, <1>2, <1>3 DEF CrawlTyped, AfterWrite, Files
  <1> QED  BY <1>3, <1>4, <1>5 DEF CrawlTyped

LEMMA KeepPageTyped ==
    ASSUME CrawlTyped, KeepPage
    PROVE  CrawlTyped'
  <1>1. /\ results' = Append(results, Page) /\ UNCHANGED <<config, seen, current, late, disk>>
        /\ work' \in {"top", "finished"}
    BY DEF KeepPage
  <1>2. results' \in Seq(KeptPages)
    BY <1>1, PageInHand DEF CrawlTyped
  <1>3. CASE UNCHANGED <<frontier, limiter, since, quiet>>
    BY <1>1, <1>2, <1>3 DEF CrawlTyped, Running
  <1>4. CASE ~UNCHANGED <<frontier, limiter, since, quiet>>
    <2>1. Slept(config.delay, limiter)
      BY <1>4 DEF KeepPage
    <2>2. frontier' \in Seq(FrontierEntries)
      BY <1>4, PageExpands DEF KeepPage
    <2>3. config.delay \in Nat
      BY DEF CrawlTyped, ConfigSpace
    <2>4. limiter' \in [next : Nat, gate : Nat] /\ since' \in Nat /\ quiet' \in Nat
      BY <2>1, <2>3, SleptTyped DEF CrawlTyped
    <2> QED  BY <1>1, <1>2, <2>2, <2>4 DEF CrawlTyped, Running
  <1> QED  BY <1>3, <1>4

LEMMA CrawlAgainTyped ==
    ASSUME CrawlTyped, CrawlAgain
    PROVE  CrawlTyped'
  <1>1. config' \in ConfigSpace
    BY DEF CrawlTyped, CrawlAgain, ConfigSpace
  <1>2. frontier' \in Seq(FrontierEntries)
    BY CrawlAssumption DEF CrawlAgain, Entry, FrontierEntries
  <1> QED  BY <1>1, <1>2 DEF CrawlTyped, CrawlAgain, Running

\* A failed attempt stays at the url in hand.
LEMMA RetryInHand ==
    ASSUME CrawlTyped, \E wait \in RetryAfters, jitter \in 0 .. 1 : FailFetch(wait, jitter)
    PROVE  /\ work = "fetching" /\ work' \in {"top", "ready"}
           /\ UNCHANGED <<config, frontier, seen, results, skips, disk>>
           /\ abandoned \subseteq abandoned' /\ (work' = "top" => current.url \in abandoned')
           /\ current'.url = current.url /\ current'.depth = current.depth
           /\ current'.path = current.path /\ current'.written = current.written
  <1>1. PICK wait \in RetryAfters, jitter \in 0 .. 1 : FailFetch(wait, jitter)
    OBVIOUS
  <1>2. work = "fetching" /\ UNCHANGED <<config, frontier, seen, results, skips, disk>>
    BY <1>1 DEF FailFetch
  <1>3. CASE current.attempt >= config.retries
    <2>1. work' = "top" /\ current' = current /\ abandoned' = abandoned \cup {current.url}
      BY <1>1, <1>3 DEF FailFetch
    <2> QED  BY <1>2, <2>1
  <1>4. CASE ~(current.attempt >= config.retries)
    <2>1. /\ work' = "ready" /\ abandoned' = abandoned
          /\ current' = [current EXCEPT !.attempt = @ + 1, !.delay = 2 * @]
      BY <1>1, <1>4 DEF FailFetch
    <2>2. /\ current'.url = current.url /\ current'.depth = current.depth
          /\ current'.path = current.path /\ current'.written = current.written
      BY <2>1 DEF CrawlTyped
    <2> QED  BY <1>2, <2>1, <2>2
  <1> QED  BY <1>3, <1>4

LEMMA SendTyped ==
    ASSUME CrawlTyped, NEW delay \in Delays, Send(delay)
    PROVE  CrawlTyped'
  <1>1. delay \in Nat /\ limiter \in [next : Nat, gate : Nat] /\ quiet \in Nat
    BY CrawlAssumption DEF CrawlTyped
  <1>2. limiter' \in [next : Nat, gate : Nat] /\ since' \in Nat /\ late' \in Nat /\ quiet' \in Nat
    BY <1>1 DEF Send, Left, Most
  <1> QED  BY <1>2 DEF Send, CrawlTyped, Running

LEMMA OtherStepsTyped ==
    ASSUME CrawlTyped, Respond \/ PersistFails \/ FinishCrawl \/ Raise \/ CrawlerDies
    PROVE  CrawlTyped'
  <1>1. /\ UNCHANGED <<config, frontier, current, limiter, since, late, quiet, disk, seen>>
        /\ work' \in Running \cup {"finished", "raised", "dead"}
    BY DEF Respond, PersistFails, FinishCrawl, Raise, CrawlerDies, Running
  <1>2. results' = results \/ results' = Append(results, Page)
    BY DEF Respond, PersistFails, FinishCrawl, Raise, CrawlerDies
  <1>3. results \in Seq(KeptPages) /\ Page \in KeptPages
    BY PageInHand DEF CrawlTyped
  <1>4. results' \in Seq(KeptPages)
    BY <1>2, <1>3
  <1> QED  BY <1>1, <1>4 DEF CrawlTyped

-----------------------------------------------------------------------------
(* The crawler: pace.                                                           *)

LEMMA SlotPaces ==
    ASSUME NEW l \in [next : Nat, gate : Nat], NEW passed \in Nat, NEW before \in Nat, NEW asked \in Nat,
           config.limited, (passed + before) + l.next >= Interval, asked <= l.gate
    PROVE  /\ Least(Interval, passed + SlotWait(l)) + before >= Interval
           /\ Left(TakeSlot(l).next, SlotWait(l)) = Interval /\ Left(asked, SlotWait(l)) = 0
           /\ SlotWait(l) \in Nat
  <1>1. SlotWait(l) \in Nat /\ SlotWait(l) >= l.next /\ SlotWait(l) >= l.gate
    BY DEF SlotWait, Most
  <1>2. TakeSlot(l).next = SlotWait(l) + Interval
    BY DEF TakeSlot
  <1>3. Interval \in Nat
    BY CrawlAssumption
  <1> QED  BY <1>1, <1>2, <1>3 DEF Least, Left, Most

\* What taking a slot, and sleeping until it, leaves.
LEMMA SleptToSlot ==
    ASSUME CrawlTyped, PaceInv, config.limited, Slept(SlotWait(limiter), TakeSlot(limiter)), late' = late
    PROVE  /\ since' \in Nat /\ since' + late' >= Interval /\ limiter'.next = Interval
           /\ limiter'.gate \in Nat /\ quiet' = 0
  <1>1. /\ limiter \in [next : Nat, gate : Nat] /\ since \in Nat /\ late \in Nat /\ quiet \in Nat
        /\ Interval \in Nat /\ (since + late) + limiter.next >= Interval /\ quiet <= limiter.gate
    BY CrawlAssumption DEF CrawlTyped, PaceInv
  <1>2. /\ Least(Interval, since + SlotWait(limiter)) + late >= Interval
        /\ Left(TakeSlot(limiter).next, SlotWait(limiter)) = Interval
        /\ Left(quiet, SlotWait(limiter)) = 0 /\ SlotWait(limiter) \in Nat
    BY <1>1, SlotPaces
  <1>3. /\ limiter'.next = Left(TakeSlot(limiter).next, SlotWait(limiter))
        /\ limiter'.gate = Left(TakeSlot(limiter).gate, SlotWait(limiter))
        /\ since' = Least(Interval, since + SlotWait(limiter)) /\ quiet' = Left(quiet, SlotWait(limiter))
    BY DEF Slept
  <1>4. TakeSlot(limiter).gate \in Nat
    BY <1>1, SlotsTyped
  <1>5. limiter'.gate \in Nat
    BY <1>2, <1>3, <1>4 DEF Left, Most
  <1>6. since' \in Nat
    BY <1>1, <1>2, <1>3 DEF Least
  <1> QED  BY <1>2, <1>3, <1>5, <1>6

LEMMA PaceInit == CrawlInit => PaceInv
  BY CrawlAssumption DEF CrawlInit, PaceInv

\* After a slot the pace is kept, whatever comes next.
LEMMA PacedAtSlot ==
    ASSUME Interval \in Nat, since' \in Nat, late' \in Nat, since' + late' >= Interval,
           limiter'.next = Interval, limiter'.gate \in Nat, quiet' = 0
    PROVE  PaceInv'
  <1>1. (since' + late') + limiter'.next >= Interval
    <2>1. \A n \in Nat : n >= Interval => n + Interval >= Interval
      OBVIOUS
    <2>2. \A m, n \in Nat : m + n \in Nat
      OBVIOUS
    <2>3. since' + late' \in Nat
      BY <2>2
    <2> QED  BY <2>1, <2>3
  <1>2. limiter'.next >= Interval /\ quiet' <= limiter'.gate
    OBVIOUS
  <1> QED  BY <1>1, <1>2 DEF PaceInv

LEMMA FailFetchPaces ==
    ASSUME CrawlTyped, PaceInv, config.limited, NEW wait \in RetryAfters, NEW jitter \in 0 .. 1,
           FailFetch(wait, jitter)
    PROVE  PaceInv'
  <1> DEFINE registered == RegisterRetryAfter(limiter, wait)
             pause == Most(current.delay + jitter, wait)
             after == [next |-> Left(registered.next, pause), gate |-> Left(registered.gate, pause)]
             asked == Most(quiet, wait)
             slot == SlotWait(after)
  <1>1. wait \in Nat /\ Interval \in Nat /\ since \in Nat /\ late \in Nat /\ quiet \in Nat
        /\ current.delay \in Nat /\ late' = late
    BY CrawlAssumption DEF CrawlTyped, FailFetch
  <1>2. /\ limiter.next \in Nat /\ limiter.gate \in Nat
        /\ (since + late) + limiter.next >= Interval /\ quiet <= limiter.gate
    BY DEF CrawlTyped, PaceInv
  <1>3. /\ registered.next \in Nat /\ registered.gate \in Nat /\ registered.next >= limiter.next
        /\ asked \in Nat /\ asked <= registered.gate
    <2>1. CASE wait = 0
      BY <1>1, <1>2, <2>1 DEF RegisterRetryAfter, Most
    <2>2. CASE wait # 0
      BY <1>1, <1>2, <2>2 DEF RegisterRetryAfter, Most
    <2> QED  BY <2>1, <2>2
  <1>4. pause \in Nat
    BY <1>1 DEF Most
  <1> HIDE DEF registered, pause, asked
  <1>5. CASE current.attempt >= config.retries
    <2>1. work' = "top" /\ limiter' = registered /\ quiet' = asked /\ UNCHANGED <<current, since>>
      BY <1>5 DEF FailFetch, registered, asked
    <2> QED  BY <1>1, <1>2, <1>3, <2>1 DEF PaceInv
  <1>6. CASE ~(current.attempt >= config.retries)
    <2>1. /\ limiter' = [next |-> Left(TakeSlot(after).next, slot), gate |-> Left(after.gate, slot)]
          /\ since' = Least(Interval, since + pause + slot)
          /\ quiet' = Left(asked, pause + slot)
      BY <1>6 DEF FailFetch, registered, pause, after, asked, slot
    <2>2. /\ after \in [next : Nat, gate : Nat] /\ ((since + pause) + late) + after.next >= Interval
          /\ Left(asked, pause) \in Nat /\ Left(asked, pause) <= after.gate
      BY <1>1, <1>2, <1>3, <1>4 DEF Left, Most
    <2> HIDE DEF after
    <2>3. /\ Least(Interval, (since + pause) + slot) + late >= Interval
          /\ Left(TakeSlot(after).next, slot) = Interval /\ Left(Left(asked, pause), slot) = 0
          /\ slot \in Nat
      <3>1. since + pause \in Nat /\ late \in Nat
        BY <1>1, <1>4
      <3> HIDE DEF slot
      <3> QED  BY <2>2, <3>1, SlotPaces DEF slot
    <2>4. since' \in Nat /\ since' + late' >= Interval /\ limiter'.next = Interval /\ quiet' = 0
      <3> HIDE DEF slot
      <3> QED  BY <1>1, <1>3, <1>4, <2>1, <2>3 DEF Left, Most, Least
    <2>5. limiter'.gate \in Nat
      <3>1. limiter'.gate = Left(after.gate, slot) /\ after.gate \in Nat /\ slot \in Nat
        BY <2>1, <2>2, <2>3
      <3> HIDE DEF slot
      <3> QED  BY <3>1 DEF Left, Most
    <2>6. late' \in Nat
      BY <1>1
    <2> QED  BY <1>1, <2>4, <2>5, <2>6, PacedAtSlot
  <1> QED  BY <1>5, <1>6

LEMMA PaceStep ==
    ASSUME CrawlTyped, PaceInv, [CrawlNext]_crawlVars
    PROVE  PaceInv'
  <1> SUFFICES ASSUME config'.limited PROVE PaceInv'
    BY DEF PaceInv
  <1>1. config.limited
    BY DEF CrawlNext, crawlVars, TakeUrl, Send, Respond, Persist, PersistFails, KeepPage, FinishCrawl, Raise,
           CrawlerDies, CrawlAgain, FailFetch, CrawlTyped, ConfigSpace
  <1>2. /\ limiter \in [next : Nat, gate : Nat] /\ limiter.next \in Nat /\ limiter.gate \in Nat
        /\ since \in Nat /\ late \in Nat /\ quiet \in Nat /\ Interval \in Nat
        /\ (since + late) + limiter.next >= Interval /\ quiet <= limiter.gate
    BY <1>1, CrawlAssumption DEF CrawlTyped, PaceInv
  <1>3. CASE UNCHANGED <<limiter, since, late, quiet>> /\ (work' = "ready" => work = "ready")
    BY <1>1, <1>2, <1>3 DEF PaceInv
  <1>4. CASE TakeUrl /\ ~UNCHANGED <<limiter, since, quiet>>
    <2>1. Slept(SlotWait(limiter), TakeSlot(limiter))
      BY <1>4 DEF TakeUrl
    <2>2. late' = late
      BY <1>4 DEF TakeUrl
    <2>3. /\ since' \in Nat /\ since' + late' >= Interval /\ limiter'.next = Interval
          /\ limiter'.gate \in Nat /\ quiet' = 0
      BY <1>1, <2>1, <2>2, SleptToSlot
    <2> QED  BY <1>2, <2>2, <2>3, PacedAtSlot
  <1>5. CASE \E delay \in Delays : Send(delay)
    <2>1. PICK delay \in Delays : Send(delay)
      BY <1>5
    <2>2. delay \in Nat
      BY CrawlAssumption
    <2>3. /\ since' = 0 /\ late' = delay /\ work' = "fetching" /\ quiet' = Left(quiet, delay)
          /\ limiter'.next = Left(limiter.next, delay) /\ limiter'.gate = Left(limiter.gate, delay)
      BY <2>1 DEF Send
    <2>4. work = "ready" => limiter.next >= Interval
      BY <1>1 DEF PaceInv
    <2>5. (since' + late') + limiter'.next >= Interval /\ quiet' <= limiter'.gate
      BY <1>2, <2>1, <2>2, <2>3, <2>4 DEF Send, Left, Most
    <2> QED  BY <2>3, <2>5 DEF PaceInv
  <1>6. CASE KeepPage /\ ~UNCHANGED <<limiter, since, quiet>>
    <2>1. Slept(config.delay, limiter) /\ work' = "top" /\ late' = late
      BY <1>6 DEF KeepPage
    <2>2. config.delay \in Nat
      BY DEF CrawlTyped, ConfigSpace
    <2>3. /\ limiter'.next = Left(limiter.next, config.delay) /\ limiter'.gate = Left(limiter.gate, config.delay)
          /\ since' = Least(Interval, since + config.delay) /\ quiet' = Left(quiet, config.delay)
      BY <2>1 DEF Slept
    <2>4. (since' + late') + limiter'.next >= Interval /\ quiet' <= limiter'.gate
      BY <1>2, <2>1, <2>2, <2>3 DEF Left, Most, Least
    <2> QED  BY <2>1, <2>4 DEF PaceInv
  <1>7. CASE \E wait \in RetryAfters, jitter \in 0 .. 1 : FailFetch(wait, jitter)
    BY <1>1, <1>7, FailFetchPaces
  <1>8. CASE TakeUrl /\ UNCHANGED <<limiter, since, quiet>>
    <2>1. CASE work' = "ready"
      <3>1. Slept(SlotWait(limiter), TakeSlot(limiter))
        BY <1>8, <2>1 DEF TakeUrl
      <3>2. late' = late
        BY <1>8 DEF TakeUrl
      <3>3. /\ since' \in Nat /\ since' + late' >= Interval /\ limiter'.next = Interval
            /\ limiter'.gate \in Nat /\ quiet' = 0
        BY <1>1, <3>1, <3>2, SleptToSlot
      <3> QED  BY <1>2, <3>2, <3>3, PacedAtSlot
    <2>2. CASE work' # "ready"
      <3>1. UNCHANGED <<limiter, since, late, quiet>>
        BY <1>8 DEF TakeUrl
      <3> QED  BY <1>3, <2>2, <3>1
    <2> QED  BY <2>1, <2>2
  <1> QED
    BY <1>3, <1>4, <1>5, <1>6, <1>7, <1>8
    DEF CrawlNext, crawlVars, Respond, Persist, PersistFails, KeepPage, FinishCrawl, Raise,
        CrawlerDies, CrawlAgain

-----------------------------------------------------------------------------
(* The crawler: the frontier.                                                   *)

LEMMA TailOfFrontier ==
    ASSUME NEW q \in Seq(FrontierEntries), q # <<>>
    PROVE  /\ Tail(q) \in Seq(FrontierEntries) /\ Head(q) = q[1] /\ 1 \in DOMAIN q
           /\ \A i \in DOMAIN Tail(q) : i + 1 \in DOMAIN q /\ Tail(q)[i] = q[i + 1] /\ i \in Nat
           /\ \A i \in DOMAIN q : i = 1 \/ (i - 1 \in DOMAIN Tail(q) /\ Tail(q)[i - 1] = q[i])
  <1>1. /\ Tail(q) \in Seq(FrontierEntries) /\ Head(q) = q[1] /\ 1 \in DOMAIN q
        /\ Len(Tail(q)) = Len(q) - 1 /\ Len(q) \in Nat /\ DOMAIN q = 1 .. Len(q)
        /\ DOMAIN Tail(q) = 1 .. (Len(q) - 1)
        /\ \A i \in 1 .. (Len(q) - 1) : Tail(q)[i] = q[i + 1]
    OBVIOUS
  <1>2. \A i \in DOMAIN q : i # 1 => i - 1 \in DOMAIN Tail(q) /\ (i - 1) + 1 = i
    BY <1>1
  <1> QED  BY <1>1, <1>2

LEMMA PagesGrow ==
    ASSUME CrawlTyped, results' = Append(results, Page)
    PROVE  Pages' = Pages \cup {Page}
  <1>1. results \in Seq(KeptPages) /\ Page \in KeptPages
    BY PageInHand DEF CrawlTyped
  <1>2. /\ DOMAIN results' = DOMAIN results \cup {Len(results) + 1}
        /\ results'[Len(results) + 1] = Page
        /\ \A i \in DOMAIN results : results'[i] = results[i]
    BY <1>1
  <1> QED  BY <1>2 DEF Pages

LEMMA PagesTyped ==
    ASSUME CrawlTyped, NEW p \in Pages
    PROVE  p \in KeptPages /\ p.depth \in Nat /\ p.url \in Urls /\ p.requested \in Urls
  <1>1. p \in KeptPages
    BY DEF CrawlTyped, Pages
  <1> QED  BY <1>1 DEF KeptPages

LEMMA FrontierTyped ==
    ASSUME CrawlTyped, NEW i \in DOMAIN frontier
    PROVE  frontier[i].depth \in Nat /\ frontier[i].url \in Urls /\ i \in Nat
  <1>1. frontier[i] \in FrontierEntries /\ i \in Nat
    BY DEF CrawlTyped
  <1> QED  BY <1>1 DEF FrontierEntries

LEMMA FrontierStart ==
    ASSUME frontier = <<Entry(Root, 0)>>, results = <<>>, work = "top"
    PROVE  FrontierInv
  <1>1. DOMAIN frontier = {1} /\ frontier[1].depth = 0 /\ Pages = {}
    BY DEF Entry, Pages
  <1> QED  BY <1>1 DEF FrontierInv, InHand

LEMMA TakeUrlFrontier ==
    ASSUME CrawlTyped, FrontierInv, TakeUrl
    PROVE  FrontierInv'
  <1>1. frontier # <<>> /\ frontier' = Tail(frontier) /\ work \in Running /\ UNCHANGED results
    BY DEF TakeUrl, PopLeft, Running
  <1>2. /\ Head(frontier) = frontier[1] /\ 1 \in DOMAIN frontier
        /\ \A i \in DOMAIN frontier' : i + 1 \in DOMAIN frontier /\ frontier'[i] = frontier[i + 1] /\ i \in Nat
    BY <1>1, TailOfFrontier DEF CrawlTyped
  <1>3. Pages' = Pages
    BY <1>1 DEF Pages
  <1>4. \A i, j \in DOMAIN frontier' :
            /\ i <= j => frontier'[i].depth <= frontier'[j].depth
            /\ frontier'[j].depth <= frontier'[i].depth + 1
    BY <1>1, <1>2 DEF FrontierInv
  <1>5. \A i \in DOMAIN frontier' : \A p \in Pages : p.depth <= frontier'[i].depth
    BY <1>1, <1>2 DEF FrontierInv
  <1>6. CASE work' \in InHand
    <2>1. current'.depth = frontier[1].depth
      BY <1>1, <1>2, <1>6 DEF TakeUrl, PopLeft, InHand
    <2>2. \A i \in DOMAIN frontier' : current'.depth <= frontier'[i].depth
                                      /\ frontier'[i].depth <= current'.depth + 1
      BY <1>1, <1>2, <2>1 DEF FrontierInv
    <2>3. \A p \in Pages : p.depth <= current'.depth
      BY <1>1, <1>2, <2>1 DEF FrontierInv
    <2> QED  BY <1>3, <1>4, <1>5, <2>2, <2>3 DEF FrontierInv
  <1>7. CASE work' \notin InHand
    BY <1>3, <1>4, <1>5, <1>7 DEF FrontierInv
  <1> QED  BY <1>6, <1>7

\* A page at the depth it was taken at; what it links to is one level below.
LEMMA KeepPageFrontier ==
    ASSUME CrawlTyped, FrontierInv, KeepPage
    PROVE  FrontierInv'
  <1> SUFFICES ASSUME work' \in Running PROVE FrontierInv'
    BY DEF FrontierInv
  <1>1. work \in Running /\ work \in InHand /\ work' = "top" /\ results' = Append(results, Page)
    BY DEF KeepPage, Running, InHand
  <1>2. Pages' = Pages \cup {Page} /\ Page.depth = current.depth
    BY <1>1, PagesGrow, PageInHand
  <1>3. current.depth \in Nat /\ current.depth + 1 \in Nat /\ frontier \in Seq(FrontierEntries)
    BY DEF CrawlTyped
  <1>4. \A i \in DOMAIN frontier : /\ current.depth <= frontier[i].depth
                                   /\ frontier[i].depth <= current.depth + 1
    BY <1>1 DEF FrontierInv
  <1>5. \A p \in Pages : p.depth <= current.depth
    BY <1>1 DEF FrontierInv
  <1>6. work' \notin InHand
    BY <1>1 DEF InHand
  <1>7. CASE UNCHANGED frontier
    BY <1>1, <1>2, <1>4, <1>6, <1>7 DEF FrontierInv
  <1>8. CASE ~UNCHANGED frontier
    <2>3. /\ \A i \in DOMAIN frontier : i \in DOMAIN frontier' /\ frontier'[i] = frontier[i]
          /\ frontier' \in Seq(FrontierEntries)
          /\ \A i \in DOMAIN frontier' :
               \/ i \in DOMAIN frontier
               \/ i > Len(frontier) /\ \E u \in Urls : IsEntry(frontier'[i], u, current.depth + 1)
      BY <1>8, PageExpands DEF KeepPage
    <2>4. \A i \in DOMAIN frontier' : /\ current.depth <= frontier'[i].depth
                                      /\ frontier'[i].depth <= current.depth + 1
      BY <1>3, <1>4, <2>3 DEF IsEntry
    <2>5. \A i \in DOMAIN frontier' : i \notin DOMAIN frontier =>
              i > Len(frontier) /\ frontier'[i].depth = current.depth + 1
      BY <2>3 DEF IsEntry
    <2>6. frontier' \in Seq(FrontierEntries) /\ Len(frontier) \in Nat /\ DOMAIN frontier = 1 .. Len(frontier)
      BY <1>3, <2>3
    <2>7. \A i \in DOMAIN frontier' : frontier'[i].depth \in Nat /\ i \in Nat
      <3>1. \A i \in DOMAIN frontier' : frontier'[i] \in FrontierEntries /\ i \in Nat
        BY <2>6
      <3> QED  BY <3>1 DEF FrontierEntries
    <2>8. ASSUME NEW i \in DOMAIN frontier', NEW j \in DOMAIN frontier'
          PROVE  /\ i <= j => frontier'[i].depth <= frontier'[j].depth
                 /\ frontier'[j].depth <= frontier'[i].depth + 1
      <3>1. frontier'[j].depth <= frontier'[i].depth + 1
        BY <1>3, <2>4, <2>7
      <3>2. CASE j \in DOMAIN frontier
        <4>1. i <= j => i \in DOMAIN frontier
          BY <2>5, <2>6, <2>7, <3>2
        <4> QED  BY <1>1, <2>3, <3>1, <3>2, <4>1 DEF FrontierInv
      <3>3. CASE j \notin DOMAIN frontier
        BY <2>4, <2>5, <3>1, <3>3
      <3> QED  BY <3>2, <3>3
    <2>9. \A i \in DOMAIN frontier' : \A p \in Pages' : p.depth <= frontier'[i].depth
      <3> SUFFICES ASSUME NEW i \in DOMAIN frontier', NEW p \in Pages' PROVE p.depth <= frontier'[i].depth
        OBVIOUS
      <3>1. p.depth <= current.depth /\ p.depth \in Nat
        BY <1>2, <1>3, <1>5, PagesTyped
      <3> QED  BY <1>3, <2>4, <2>7, <3>1
    <2> QED  BY <1>6, <2>8, <2>9 DEF FrontierInv
  <1> QED  BY <1>7, <1>8

LEMMA FrontierStep ==
    ASSUME CrawlTyped, FrontierInv, [CrawlNext]_crawlVars
    PROVE  FrontierInv'
  <1>1. CASE UNCHANGED <<frontier, results>> /\ current'.depth = current.depth
             /\ (work' \in Running => work \in Running) /\ (work' \in InHand => work \in InHand)
    BY <1>1 DEF FrontierInv, Pages
  <1>2. CASE TakeUrl
    BY <1>2, TakeUrlFrontier
  <1>3. CASE KeepPage
    BY <1>3, KeepPageFrontier
  <1>4. CASE CrawlAgain
    BY <1>4, FrontierStart DEF CrawlAgain, FrontierInv, Pages, InHand, Entry
  <1>5. CASE work' \notin Running
    BY <1>5 DEF FrontierInv
  <1>6. CASE \E wait \in RetryAfters, jitter \in 0 .. 1 : FailFetch(wait, jitter)
    BY <1>1, <1>6, RetryInHand DEF Running, InHand
  <1>7. CASE (\E delay \in Delays : Send(delay)) \/ Respond \/ PersistFails
    <2>1. current' = current /\ UNCHANGED <<frontier, results>> /\ work \in Running /\ work \in InHand
      BY <1>7 DEF Send, Respond, PersistFails, Running, InHand
    <2> QED  BY <1>1, <2>1
  <1>8. CASE Persist
    <2>1. current'.depth = current.depth
      BY <1>8 DEF Persist, CrawlTyped
    <2>2. UNCHANGED <<frontier, results>> /\ work \in Running /\ work \in InHand
      BY <1>8 DEF Persist, Running, InHand
    <2> QED  BY <1>1, <2>1, <2>2
  <1>9. CASE FinishCrawl \/ Raise \/ CrawlerDies
    BY <1>5, <1>9 DEF FinishCrawl, Raise, CrawlerDies, Running
  <1>10. CASE UNCHANGED crawlVars
    BY <1>1, <1>10 DEF crawlVars
  <1> QED  BY <1>2, <1>3, <1>4, <1>6, <1>7, <1>8, <1>9, <1>10 DEF CrawlNext

-----------------------------------------------------------------------------
(* The crawler: what is reached.                                                *)

LEMMA SameLinks ==
    ASSUME config' = config \/ config' = [config EXCEPT !.again = FALSE], config \in ConfigSpace,
           NEW p, NEW u
    PROVE  (MayExpand(p)' <=> MayExpand(p)) /\ (LinksTo(p, u)' <=> LinksTo(p, u))
  <1>1. config'.closed = config.closed /\ config'.depth = config.depth
    BY DEF ConfigSpace
  <1>2. {l \in Urls : l \notin External /\ l \notin config'.closed}
            = {l \in Urls : l \notin External /\ l \notin config.closed}
    BY <1>1
  <1>3. \A page : Followed(page)' = Followed(page)
    BY <1>2 DEF Followed, Allowed
  <1> QED  BY <1>1, <1>3 DEF MayExpand, LinksTo

LEMMA LinksAreUrls ==
    ASSUME CrawlTyped, NEW p \in Pages, NEW u, LinksTo(p, u)
    PROVE  u \in Urls
  <1>1. p.url \in Urls
    BY PagesTyped
  <1>2. Followed(p.url) \in Seq(Urls)
    BY <1>1, FollowedLinks
  <1> QED  BY <1>2 DEF LinksTo

LEMMA KeepPageReaches ==
    ASSUME CrawlTyped, ReachInv, KeepPage
    PROVE  ReachInv'
  <1> SUFFICES ASSUME work' \in Running PROVE seen' \cup Waiting' = {Root} \cup Linked'
    BY DEF ReachInv
  <1>1. work \in Running /\ work' = "top" /\ results' = Append(results, Page) /\ UNCHANGED <<config, seen>>
    BY DEF KeepPage, Running
  <1>2. ~ReachedPages
    BY <1>1 DEF KeepPage
  <1>3. Pages' = Pages \cup {Page} /\ Page.depth = current.depth /\ config \in ConfigSpace
    BY <1>1, PagesGrow, PageInHand DEF CrawlTyped
  <1>4. \A p, u : (MayExpand(p)' <=> MayExpand(p)) /\ (LinksTo(p, u)' <=> LinksTo(p, u))
    BY <1>1, <1>3, SameLinks
  <1>5. Linked' = Linked \cup {u \in Urls : MayExpand(Page) /\ LinksTo(Page, u)}
    BY <1>3, <1>4 DEF Linked
  <1>6. current.depth \in Nat /\ config.depth \in Nat \cup {Unlimited}
    BY DEF CrawlTyped, ConfigSpace
  <1>7. seen \cup Waiting = {Root} \cup Linked
    BY <1>1 DEF ReachInv
  <1>8. CASE ReachedDepth
    <2>1. ~MayExpand(Page)
      BY <1>3, <1>6, <1>8 DEF ReachedDepth, MayExpand
    <2>2. Waiting' = Waiting
      BY <1>2, <1>8 DEF KeepPage, Waiting
    <2> QED  BY <1>1, <1>5, <1>7, <2>1, <2>2
  <1>9. CASE ~ReachedDepth
    <2>1. MayExpand(Page)
      BY <1>3, <1>6, <1>9 DEF ReachedDepth, MayExpand
    <2>2. Waiting' = Waiting \cup {u \in Urls \ seen : LinksTo(Page, u)}
      <3>1. /\ \A i \in DOMAIN frontier : i \in DOMAIN frontier' /\ frontier'[i] = frontier[i]
            /\ \A u \in Urls \ seen : LinksTo(Page, u) => \E i \in DOMAIN frontier' : frontier'[i].url = u
            /\ \A i \in DOMAIN frontier' :
                 \/ i \in DOMAIN frontier
                 \/ \E u \in Urls \ seen : LinksTo(Page, u) /\ frontier'[i].url = u
        BY <1>2, <1>9, PageExpands DEF IsEntry
      <3> QED  BY <3>1 DEF Waiting
    <2> QED  BY <1>1, <1>5, <1>7, <2>1, <2>2
  <1> QED  BY <1>8, <1>9

LEMMA TakeUrlReaches ==
    ASSUME CrawlTyped, ReachInv, TakeUrl
    PROVE  ReachInv'
  <1>1. /\ frontier # <<>> /\ frontier' = Tail(frontier) /\ seen' = seen \cup {Head(frontier).url}
        /\ work \in Running /\ UNCHANGED <<results, config>>
    BY DEF TakeUrl, PopLeft, Running
  <1>2. /\ Head(frontier) = frontier[1] /\ 1 \in DOMAIN frontier
        /\ \A i \in DOMAIN frontier' : i + 1 \in DOMAIN frontier /\ frontier'[i] = frontier[i + 1]
        /\ \A i \in DOMAIN frontier : i = 1 \/ (i - 1 \in DOMAIN frontier' /\ frontier'[i - 1] = frontier[i])
    BY <1>1, TailOfFrontier DEF CrawlTyped
  <1>3. Waiting = Waiting' \cup {Head(frontier).url}
    BY <1>2 DEF Waiting
  <1>4. Linked' = Linked
    <2>1. \A p, u : (MayExpand(p)' <=> MayExpand(p)) /\ (LinksTo(p, u)' <=> LinksTo(p, u))
      BY <1>1, SameLinks DEF CrawlTyped
    <2>2. Pages' = Pages
      BY <1>1 DEF Pages
    <2> QED  BY <2>1, <2>2 DEF Linked
  <1> QED  BY <1>1, <1>3, <1>4 DEF ReachInv

LEMMA ReachStart ==
    ASSUME frontier = <<Entry(Root, 0)>>, seen = {}, results = <<>>
    PROVE  ReachInv
  <1>1. Waiting = {Root} /\ Linked = {}
    BY DEF Waiting, Linked, Pages, Entry
  <1> QED  BY <1>1 DEF ReachInv

LEMMA ReachStep ==
    ASSUME CrawlTyped, ReachInv, [CrawlNext]_crawlVars
    PROVE  ReachInv'
  <1>1. CASE UNCHANGED <<config, seen, frontier, results>> /\ (work' \in Running => work \in Running)
    <2>1. \A p, u : (MayExpand(p)' <=> MayExpand(p)) /\ (LinksTo(p, u)' <=> LinksTo(p, u))
      BY <1>1, SameLinks DEF CrawlTyped
    <2>2. Pages' = Pages /\ Waiting' = Waiting
      BY <1>1 DEF Pages, Waiting
    <2>3. Linked' = Linked
      BY <2>1, <2>2 DEF Linked
    <2> QED  BY <1>1, <2>2, <2>3 DEF ReachInv
  <1>2. CASE TakeUrl
    BY <1>2, TakeUrlReaches
  <1>3. CASE KeepPage
    BY <1>3, KeepPageReaches
  <1>4. CASE CrawlAgain
    <2>1. Waiting' = {Root} /\ Linked' = {} /\ seen' = {}
      BY <1>4 DEF CrawlAgain, Waiting, Linked, Pages, Entry
    <2> QED  BY <2>1 DEF ReachInv
  <1>5. CASE work' \notin Running
    BY <1>5 DEF ReachInv
  <1>6. CASE \/ \E wait \in RetryAfters, jitter \in 0 .. 1 : FailFetch(wait, jitter)
             \/ (\E delay \in Delays : Send(delay)) \/ Respond \/ PersistFails \/ Persist
    <2>1. UNCHANGED <<config, seen, frontier, results>> /\ work \in Running
      BY <1>6 DEF FailFetch, Send, Respond, PersistFails, Persist, Running
    <2> QED  BY <1>1, <2>1
  <1>7. CASE FinishCrawl \/ Raise \/ CrawlerDies
    BY <1>5, <1>7 DEF FinishCrawl, Raise, CrawlerDies, Running
  <1>8. CASE UNCHANGED crawlVars
    BY <1>1, <1>8 DEF crawlVars
  <1> QED  BY <1>2, <1>3, <1>4, <1>6, <1>7, <1>8 DEF CrawlNext

-----------------------------------------------------------------------------
(* The crawler: what becomes of a url.                                          *)

LEMMA SettledStays ==
    ASSUME Pages \subseteq Pages', abandoned \subseteq abandoned', skips \subseteq skips', NEW u, Settled(u)
    PROVE  Settled(u)'
  BY DEF Settled

LEMMA TakeUrlSettles ==
    ASSUME CrawlTyped, OutcomeInv, TakeUrl
    PROVE  OutcomeInv'
  <1> DEFINE url == Head(frontier).url
  <1>1. work = "top" /\ seen' = seen \cup {url} /\ UNCHANGED <<results, abandoned>>
    BY DEF TakeUrl, PopLeft
  <1>2. work \in Running /\ work \notin InHand /\ Pages' = Pages
    BY <1>1 DEF Running, InHand, Pages
  <1>3. skips \subseteq skips'
    BY DEF TakeUrl, PopLeft, Skip
  <1>4. \A u \in seen : Settled(u)'
    BY <1>1, <1>2, <1>3, SettledStays DEF OutcomeInv
  <1>5. CASE url \in seen \/ ~Allowed(url)
    <2>1. work' = work
      BY <1>5 DEF TakeUrl, PopLeft
    <2>2. url \notin seen => <<url, "robots">> \in skips'
      BY <1>5 DEF TakeUrl, PopLeft, Skip
    <2>3. \A u : u = url /\ url \notin seen => Settled(u)'
      BY <2>2 DEF Settled
    <2> QED  BY <1>1, <1>2, <1>4, <2>1, <2>3 DEF OutcomeInv
  <1>6. CASE ~(url \in seen \/ ~Allowed(url))
    <2>1. current'.url = url /\ work' \in InHand
      BY <1>6 DEF TakeUrl, PopLeft, InHand
    <2> QED  BY <1>1, <1>2, <1>4, <2>1 DEF OutcomeInv
  <1> QED  BY <1>5, <1>6

LEMMA OutcomeStep ==
    ASSUME CrawlTyped, OutcomeInv, [CrawlNext]_crawlVars
    PROVE  OutcomeInv'
  <1>1. CASE /\ UNCHANGED <<seen, results, abandoned, skips>> /\ current'.url = current.url
             /\ work' \in Running => work \in Running /\ (work' \in InHand <=> work \in InHand)
    <2>1. Pages' = Pages
      BY <1>1 DEF Pages
    <2>2. \A u \in seen : Settled(u) => Settled(u)'
      BY <1>1, <2>1 DEF Settled
    <2> QED  BY <1>1, <2>1, <2>2 DEF OutcomeInv
  <1>2. CASE TakeUrl
    BY <1>2, TakeUrlSettles
  <1>3. CASE KeepPage
    <2>1. /\ work \in Running /\ work \in InHand /\ work' \notin InHand
          /\ results' = Append(results, Page) /\ UNCHANGED <<seen, abandoned>>
      BY <1>3 DEF KeepPage, Running, InHand
    <2>2. Pages' = Pages \cup {Page} /\ Page.requested = current.url /\ skips \subseteq skips'
      BY <1>3, <2>1, PagesGrow, PageInHand DEF KeepPage
    <2>3. \A u \in seen : Settled(u) => Settled(u)'
      BY <2>1, <2>2, SettledStays
    <2>4. \A u : u = current.url => Settled(u)'
      BY <2>2 DEF Settled
    <2> QED  BY <2>1, <2>2, <2>3, <2>4 DEF OutcomeInv
  <1>4. CASE Respond
    <2>1. /\ work \in Running /\ work \in InHand /\ UNCHANGED <<seen, abandoned, results, current>>
          /\ skips \subseteq skips'
      BY <1>4 DEF Respond, Running, InHand, Skip
    <2>2. Pages' = Pages
      BY <2>1 DEF Pages
    <2>3. \A u \in seen : Settled(u) => Settled(u)'
      BY <2>1, <2>2, SettledStays
    <2>4. CASE Refusal(current.url) # "none"
      <3>1. <<FinalUrl[current.url], Refusal(current.url)>> \in skips' /\ work' \notin InHand
        BY <1>4, <2>4 DEF Respond, Skip, InHand
      <3>2. Refusal(current.url) \in {"content-type", "duplicate-content"}
        BY <2>4 DEF Refusal
      <3>3. \A u : u = current.url => Settled(u)'
        BY <3>1, <3>2 DEF Settled
      <3> QED  BY <2>1, <2>2, <2>3, <3>1, <3>3 DEF OutcomeInv
    <2>5. CASE Refusal(current.url) = "none"
      <3>1. work' \in InHand
        BY <1>4, <2>5 DEF Respond, InHand
      <3> QED  BY <2>1, <2>2, <2>3, <3>1 DEF OutcomeInv
    <2> QED  BY <2>4, <2>5
  <1>5. CASE \E wait \in RetryAfters, jitter \in 0 .. 1 : FailFetch(wait, jitter)
    <2>1. /\ work \in Running /\ work \in InHand /\ UNCHANGED <<seen, skips, results>>
          /\ abandoned \subseteq abandoned' /\ current'.url = current.url
          /\ work' = "top" => current.url \in abandoned'
          /\ work' \in {"top", "ready"}
      BY <1>5, RetryInHand DEF Running, InHand
    <2>2. Pages' = Pages
      BY <2>1 DEF Pages
    <2>3. \A u \in seen : Settled(u) => Settled(u)'
      BY <2>1, <2>2, SettledStays
    <2>4. work' \notin InHand => \A u : u = current.url => Settled(u)'
      BY <2>1 DEF Settled, InHand
    <2> QED  BY <2>1, <2>2, <2>3, <2>4 DEF OutcomeInv
  <1>6. CASE CrawlAgain
    BY <1>6 DEF CrawlAgain, OutcomeInv, Pages, InHand
  <1>7. CASE (\E delay \in Delays : Send(delay)) \/ PersistFails \/ Persist
    <2>1. UNCHANGED <<seen, results, abandoned, skips>> /\ work \in InHand /\ work \in Running
          /\ work' \in InHand
      BY <1>7 DEF Send, PersistFails, Persist, InHand, Running
    <2>2. current'.url = current.url
      BY <1>7 DEF Send, PersistFails, Persist, CrawlTyped
    <2> QED  BY <1>1, <2>1, <2>2
  <1>8. CASE FinishCrawl \/ Raise \/ CrawlerDies
    BY <1>8 DEF FinishCrawl, Raise, CrawlerDies, Running, OutcomeInv
  <1>9. CASE UNCHANGED crawlVars
    BY <1>1, <1>9 DEF crawlVars
  <1> QED  BY <1>2, <1>3, <1>4, <1>5, <1>6, <1>7, <1>8, <1>9 DEF CrawlNext

-----------------------------------------------------------------------------
(* The crawler: the shortest way.                                               *)

LEMMA TakeUrlDeepens ==
    ASSUME CrawlTyped, FrontierInv, OutcomeInv, DepthInv, TakeUrl
    PROVE  DepthInv'
  <1> DEFINE head == Head(frontier)
  <1>1. /\ frontier # <<>> /\ frontier' = Tail(frontier) /\ seen' = seen \cup {head.url}
        /\ work \in Running /\ work \notin InHand /\ UNCHANGED <<results, config>>
    BY DEF TakeUrl, PopLeft, Running, InHand
  <1>2. /\ head = frontier[1] /\ 1 \in DOMAIN frontier
        /\ \A i \in DOMAIN frontier : i = 1 \/ (i - 1 \in DOMAIN frontier' /\ frontier'[i - 1] = frontier[i])
    BY <1>1, TailOfFrontier DEF CrawlTyped
  <1>3. Pages' = Pages /\ \A p, u : (MayExpand(p)' <=> MayExpand(p)) /\ (LinksTo(p, u)' <=> LinksTo(p, u))
    BY <1>1, SameLinks DEF Pages, CrawlTyped
  <1> SUFFICES ASSUME NEW p \in Pages, NEW u \in Urls, MayExpand(p), LinksTo(p, u)
               PROVE  /\ \A q \in Pages : q.requested = u => q.depth <= p.depth + 1
                      /\ work' \in InHand /\ current'.url = u => current'.depth <= p.depth + 1
                      /\ u \notin seen' => \E i \in DOMAIN frontier' :
                              frontier'[i].url = u /\ frontier'[i].depth <= p.depth + 1
    BY <1>3 DEF DepthInv
  <1>4. /\ \A q \in Pages : q.requested = u => q.depth <= p.depth + 1
        /\ u \notin seen => \E i \in DOMAIN frontier : frontier[i].url = u /\ frontier[i].depth <= p.depth + 1
    BY <1>1 DEF DepthInv
  <1>5. ASSUME work' \in InHand, current'.url = u PROVE current'.depth <= p.depth + 1
    <2>1. current'.url = head.url /\ current'.depth = head.depth /\ head.url \notin seen
      BY <1>1, <1>5 DEF TakeUrl, PopLeft
    <2>2. PICK i \in DOMAIN frontier : frontier[i].depth <= p.depth + 1
      BY <1>4, <1>5, <2>1
    <2>3. i \in Nat /\ i >= 1 /\ frontier[i].depth \in Nat /\ frontier[1].depth \in Nat /\ p.depth \in Nat
      BY <1>2, FrontierTyped, PagesTyped DEF CrawlTyped
    <2>4. frontier[1].depth <= frontier[i].depth
      BY <1>1, <1>2, <2>3 DEF FrontierInv
    <2> QED  BY <1>2, <2>1, <2>2, <2>3, <2>4
  <1>6. ASSUME u \notin seen'
        PROVE  \E i \in DOMAIN frontier' : frontier'[i].url = u /\ frontier'[i].depth <= p.depth + 1
    <2>1. u \notin seen /\ u # frontier[1].url
      BY <1>1, <1>2, <1>6
    <2>2. PICK i \in DOMAIN frontier : frontier[i].url = u /\ frontier[i].depth <= p.depth + 1
      BY <1>4, <2>1
    <2> QED  BY <1>2, <2>1, <2>2
  <1> QED  BY <1>4, <1>5, <1>6

LEMMA KeepPageDeepens ==
    ASSUME CrawlTyped, FrontierInv, OutcomeInv, DepthInv, KeepPage
    PROVE  DepthInv'
  <1> SUFFICES ASSUME work' \in Running PROVE DepthInv'
    BY DEF DepthInv
  <1>1. /\ work \in Running /\ work \in InHand /\ work' = "top" /\ results' = Append(results, Page)
        /\ UNCHANGED <<config, seen, current>>
    BY DEF KeepPage, Running, InHand
  <1>2. ~ReachedPages
    BY <1>1 DEF KeepPage
  <1>3. /\ Pages' = Pages \cup {Page} /\ Page.depth = current.depth /\ Page.requested = current.url
        /\ Page \in KeptPages /\ config \in ConfigSpace /\ current.depth \in Nat
    BY <1>1, PagesGrow, PageInHand DEF CrawlTyped
  <1>4. \A p, u : (MayExpand(p)' <=> MayExpand(p)) /\ (LinksTo(p, u)' <=> LinksTo(p, u))
    BY <1>1, <1>3, SameLinks
  <1>5. \A p \in Pages : p.depth <= current.depth /\ p.depth \in Nat
    BY <1>1, PagesTyped DEF FrontierInv
  <1>6. work' \notin InHand
    BY <1>1 DEF InHand
  <1>7. \A i \in DOMAIN frontier : i \in DOMAIN frontier' /\ frontier'[i] = frontier[i]
    <2>1. CASE ReachedDepth
      BY <1>2, <2>1 DEF KeepPage
    <2>2. CASE ~ReachedDepth
      BY <1>2, <2>2, PageExpands
    <2> QED  BY <2>1, <2>2
  <1>8. ASSUME NEW u \in Urls, MayExpand(Page), LinksTo(Page, u), u \notin seen
        PROVE  \E i \in DOMAIN frontier' : frontier'[i].url = u /\ frontier'[i].depth <= current.depth + 1
    <2>1. ~ReachedDepth
      <3>1. config.depth \in Nat \cup {Unlimited}
        BY <1>3 DEF ConfigSpace
      <3> QED  BY <1>3, <1>8, <3>1 DEF ReachedDepth, MayExpand
    <2>2. PICK i \in DOMAIN frontier' : frontier'[i].url = u /\ frontier'[i].depth = current.depth + 1
      BY <1>2, <1>8, <2>1, PageExpands DEF IsEntry
    <2> QED  BY <1>3, <2>2
  <1> SUFFICES ASSUME NEW p \in Pages', NEW u \in Urls, MayExpand(p), LinksTo(p, u)
               PROVE  /\ \A q \in Pages' : q.requested = u => q.depth <= p.depth + 1
                      /\ u \notin seen => \E i \in DOMAIN frontier' :
                              frontier'[i].url = u /\ frontier'[i].depth <= p.depth + 1
    BY <1>1, <1>4, <1>6 DEF DepthInv
  <1>9. CASE p \in Pages
    <2>1. /\ \A q \in Pages : q.requested = u => q.depth <= p.depth + 1
          /\ current.url = u => current.depth <= p.depth + 1
          /\ u \notin seen =>
                \E i \in DOMAIN frontier : frontier[i].url = u /\ frontier[i].depth <= p.depth + 1
      BY <1>1, <1>9 DEF DepthInv
    <2>2. \A q \in Pages' : q.requested = u => q.depth <= p.depth + 1
      BY <1>3, <2>1
    <2>3. u \notin seen =>
              \E i \in DOMAIN frontier' : frontier'[i].url = u /\ frontier'[i].depth <= p.depth + 1
      BY <1>7, <2>1
    <2> QED  BY <2>2, <2>3
  <1>10. CASE p = Page
    <2>1. \A q \in Pages' : q.depth <= current.depth + 1
      BY <1>3, <1>5
    <2> QED  BY <1>3, <1>8, <1>10, <2>1
  <1> QED  BY <1>3, <1>9, <1>10

LEMMA DepthStep ==
    ASSUME CrawlTyped, FrontierInv, OutcomeInv, DepthInv, [CrawlNext]_crawlVars
    PROVE  DepthInv'
  <1>1. CASE /\ UNCHANGED <<config, seen, frontier, results>>
             /\ current'.url = current.url /\ current'.depth = current.depth
             /\ work' \in Running => work \in Running /\ (work' \in InHand => work \in InHand)
    <2>1. Pages' = Pages /\ \A p, u : (MayExpand(p)' <=> MayExpand(p)) /\ (LinksTo(p, u)' <=> LinksTo(p, u))
      BY <1>1, SameLinks DEF Pages, CrawlTyped
    <2> QED  BY <1>1, <2>1 DEF DepthInv
  <1>2. CASE TakeUrl
    BY <1>2, TakeUrlDeepens
  <1>3. CASE KeepPage
    BY <1>3, KeepPageDeepens
  <1>4. CASE CrawlAgain
    <2>1. Pages' = {}
      BY <1>4 DEF CrawlAgain, Pages
    <2> QED  BY <2>1 DEF DepthInv
  <1>5. CASE work' \notin Running
    BY <1>5 DEF DepthInv
  <1>6. CASE \/ \E wait \in RetryAfters, jitter \in 0 .. 1 : FailFetch(wait, jitter)
             \/ (\E delay \in Delays : Send(delay)) \/ Respond \/ PersistFails \/ Persist
    <2>1. UNCHANGED <<config, seen, frontier, results>> /\ work \in Running /\ work \in InHand
      BY <1>6 DEF FailFetch, Send, Respond, PersistFails, Persist, Running, InHand
    <2>2. current'.url = current.url /\ current'.depth = current.depth
      <3>1. CASE (\E delay \in Delays : Send(delay)) \/ Respond \/ PersistFails \/ Persist
        BY <3>1 DEF Send, Respond, PersistFails, Persist, CrawlTyped
      <3> QED  BY <1>6, <3>1, RetryInHand
    <2> QED  BY <1>1, <2>1, <2>2
  <1>7. CASE FinishCrawl \/ Raise \/ CrawlerDies
    BY <1>5, <1>7 DEF FinishCrawl, Raise, CrawlerDies, Running
  <1>8. CASE UNCHANGED crawlVars
    BY <1>1, <1>8 DEF crawlVars
  <1> QED  BY <1>2, <1>3, <1>4, <1>6, <1>7, <1>8 DEF CrawlNext

-----------------------------------------------------------------------------
(* The crawler: the end of a crawl, and the files.                              *)

LEMMA EndStep ==
    ASSUME CrawlTyped, ReachInv, OutcomeInv, DepthInv, EndInv, [CrawlNext]_crawlVars
    PROVE  EndInv'
  <1> SUFFICES ASSUME work' = "finished" PROVE CrawlIsComplete'
    BY DEF EndInv
  <1>1. CASE UNCHANGED crawlVars
    <2>1. CrawlIsComplete
      BY <1>1 DEF crawlVars, EndInv
    <2>2. Pages' = Pages /\ UNCHANGED <<config, seen, results, abandoned, skips, work>>
      BY <1>1 DEF crawlVars, Pages
    <2>3. \A p, u : (MayExpand(p)' <=> MayExpand(p)) /\ (LinksTo(p, u)' <=> LinksTo(p, u))
      BY <2>2, SameLinks DEF CrawlTyped
    <2> QED  BY <2>1, <2>2, <2>3 DEF CrawlIsComplete
  <1>2. CASE KeepPage
    <2>1. ReachedPages /\ results' = Append(results, Page) /\ UNCHANGED config
      BY <1>2 DEF KeepPage
    <2>2. config.pages # Unlimited /\ config.pages \in Nat /\ Len(results) + 1 >= config.pages
      BY <2>1 DEF ReachedPages, CrawlTyped, ConfigSpace
    <2>3. Len(results') = Len(results) + 1 /\ Len(results) \in Nat
      BY <2>1, PageInHand DEF CrawlTyped
    <2> QED  BY <2>1, <2>2, <2>3 DEF CrawlIsComplete
  <1>3. CASE FinishCrawl
    <2>1. /\ work = "top" /\ frontier = <<>>
          /\ UNCHANGED <<config, seen, results, abandoned, skips>>
      BY <1>3 DEF FinishCrawl
    <2>2. work \in Running /\ work \notin InHand /\ Waiting = {} /\ Pages' = Pages
      BY <2>1 DEF Running, InHand, Waiting, Pages
    <2>3. \A p, u : (MayExpand(p)' <=> MayExpand(p)) /\ (LinksTo(p, u)' <=> LinksTo(p, u))
      BY <2>1, SameLinks DEF CrawlTyped
    <2>4. seen = {Root} \cup {u \in Urls : \E p \in Pages : MayExpand(p) /\ LinksTo(p, u)}
      BY <2>2 DEF ReachInv, Linked
    <2>5. \A u \in seen : Settled(u)
      BY <2>2 DEF OutcomeInv
    <2>6. \A p, q \in Pages : MayExpand(p) /\ LinksTo(p, q.requested) => q.depth <= p.depth + 1
      <3> SUFFICES ASSUME NEW p \in Pages, NEW q \in Pages, MayExpand(p), LinksTo(p, q.requested)
                   PROVE  q.depth <= p.depth + 1
        OBVIOUS
      <3>1. q.requested \in Urls
        BY PagesTyped
      <3> QED  BY <2>2, <3>1 DEF DepthInv
    <2>7. seen' = {Root} \cup {u \in Urls : \E p \in Pages' : MayExpand(p)' /\ LinksTo(p, u)'}
      BY <2>1, <2>2, <2>3, <2>4
    <2>8. \A u \in seen' :
            \/ \E p \in Pages' : p.requested = u
            \/ u \in abandoned'
            \/ \E reason \in {"robots", "content-type", "duplicate-content"} :
                  <<IF reason = "robots" THEN u ELSE FinalUrl[u], reason>> \in skips'
      BY <2>1, <2>2, <2>5 DEF Settled
    <2>9. \A p, q \in Pages' : MayExpand(p)' /\ LinksTo(p, q.requested)' => q.depth <= p.depth + 1
      BY <2>2, <2>3, <2>6
    <2> QED  BY <2>7, <2>8, <2>9 DEF CrawlIsComplete
  <1> QED
    BY <1>1, <1>2, <1>3
    DEF CrawlNext, TakeUrl, Send, Respond, Persist, PersistFails, Raise, CrawlerDies, CrawlAgain,
        FailFetch, PopLeft

\* What each write does to what can be read.
LEMMA WritesInOrder ==
    ASSUME CrawlTyped, FilesInv, Persist
    PROVE  FilesInv'
  <1> DEFINE n == current.written + 1
             url == FinalUrl[current.url]
  <1>1. Len(Files) = 5 /\ n \in 1 .. 5 /\ work = "persisting" /\ current.written \in 0 .. 4
    BY DEF FilesInv, Persist, CrawlTyped, Files
  <1>2. /\ disk' = AfterWrite(disk, url, n) /\ current'.url = current.url /\ current'.written = n
        /\ current'.path = (n = 5)
        /\ work' = IF n = 5 THEN "page" ELSE "persisting"
        /\ UNCHANGED results
    BY <1>1 DEF Persist, CrawlTyped
  <1>3. disk \in [text : SUBSET Urls, meta : SUBSET Urls, index : SUBSET Urls, over : SUBSET Urls]
    BY DEF CrawlTyped
  <1>4. FinalUrl[current'.url] = url /\ Pages' = Pages
    BY <1>2 DEF Pages
  <1>5. /\ disk.index \ disk.over \subseteq disk.text \cap disk.meta
        /\ \A p \in Pages : p.stored => p.url \in disk.index
        /\ current.written >= 2 => url \in disk.text
        /\ current.written >= 4 => url \in disk.meta
    BY <1>1 DEF FilesInv
  <1>6. current.written = n - 1
    BY <1>1
  <1>8. /\ Files[1] = "text" /\ Files[2] = "text" /\ Files[3] = "meta" /\ Files[4] = "meta" /\ Files[5] = "index"
        /\ 2 - 1 = 1 /\ 3 - 1 = 2 /\ 4 - 1 = 3
    BY DEF Files
  <1> HIDE DEF n, url
  <1>7. /\ disk.index \subseteq disk'.index
        /\ n = 5 => url \in disk'.index
        /\ disk'.index \ disk'.over \subseteq disk'.text \cap disk'.meta
        /\ n >= 2 => url \in disk'.text
        /\ n >= 4 => url \in disk'.meta
    <2>1. CASE n = 1
      <3>1. disk' = [disk EXCEPT !.text = @ \ {url}, !.over = IF url \in disk.text THEN @ \cup {url} ELSE @]
        BY <1>2, <1>8, <2>1 DEF AfterWrite
      <3> QED  BY <1>3, <1>5, <2>1, <3>1
    <2>2. CASE n = 2
      <3>1. disk' = [disk EXCEPT !.text = @ \cup {url}]
        BY <1>2, <1>8, <2>2 DEF AfterWrite
      <3> QED  BY <1>3, <1>5, <2>2, <3>1
    <2>3. CASE n = 3
      <3>1. disk' = [disk EXCEPT !.meta = @ \ {url}, !.over = IF url \in disk.meta THEN @ \cup {url} ELSE @]
        BY <1>2, <1>8, <2>3 DEF AfterWrite
      <3> QED  BY <1>3, <1>5, <1>6, <2>3, <3>1
    <2>4. CASE n = 4
      <3>1. disk' = [disk EXCEPT !.meta = @ \cup {url}]
        BY <1>2, <1>8, <2>4 DEF AfterWrite
      <3> QED  BY <1>3, <1>5, <1>6, <2>4, <3>1
    <2>5. CASE n = 5
      <3>1. disk' = [disk EXCEPT !.index = @ \cup {url}]
        BY <1>2, <1>8, <2>5 DEF AfterWrite
      <3> QED  BY <1>3, <1>5, <1>6, <2>5, <3>1
    <2> QED  BY <1>1, <2>1, <2>2, <2>3, <2>4, <2>5
  <1>9. \A p \in Pages' : p.stored => p.url \in disk'.index
    BY <1>4, <1>5, <1>7
  <1>10. current'.path => FinalUrl[current'.url] \in disk'.index
    BY <1>2, <1>4, <1>7
  <1>11. work' \notin {"ready", "fetching"}
    BY <1>2
  <1>12. work' = "persisting" => n < 5
    BY <1>1, <1>2 DEF n
  <1>13. Len(Files)' = 5
    BY DEF Files
  <1> QED  BY <1>2, <1>4, <1>7, <1>9, <1>10, <1>11, <1>12, <1>13 DEF FilesInv

LEMMA FilesStep ==
    ASSUME CrawlTyped, FilesInv, [CrawlNext]_crawlVars
    PROVE  FilesInv'
  <1>1. CASE /\ UNCHANGED <<results, disk>> /\ current'.url = current.url
             /\ current'.path = current.path /\ current'.written = current.written
             /\ work' = work \/ work' \in {"page", "top", "finished", "raised", "dead"}
                \/ (work \in {"ready", "fetching"} /\ work' \in {"ready", "fetching", "persisting"})
    <2>1. Pages' = Pages /\ Len(Files) = 5
      BY <1>1 DEF Pages, Files
    <2> QED  BY <1>1, <2>1 DEF FilesInv
  <1>2. CASE Persist
    BY <1>2, WritesInOrder
  <1>3. CASE TakeUrl
    <2>1. CASE work' = work
      <3>1. UNCHANGED <<results, disk, current>>
        BY <1>3, <2>1 DEF TakeUrl
      <3> QED  BY <1>1, <2>1, <3>1
    <2>2. CASE work' # work
      <3>1. current'.written = 0 /\ current'.path = FALSE /\ work' = "ready" /\ UNCHANGED <<results, disk>>
        BY <1>3, <2>2 DEF TakeUrl
      <3>2. Pages' = Pages
        BY <3>1 DEF Pages
      <3> QED  BY <3>1, <3>2 DEF FilesInv
    <2> QED  BY <2>1, <2>2
  <1>4. CASE KeepPage \/ (Raise /\ results' = Append(results, Page))
    <2>1. results' = Append(results, Page) /\ UNCHANGED <<current, disk>> /\ work' \in {"top", "finished", "raised"}
      BY <1>4 DEF KeepPage, Raise
    <2>2. /\ Pages' = Pages \cup {Page} /\ Page.url = FinalUrl[current.url] /\ Page.stored = current.path
      BY <2>1, PagesGrow, PageInHand
    <2> QED  BY <2>1, <2>2 DEF FilesInv
  <1>5. CASE CrawlAgain
    <2>1. Pages' = {} /\ UNCHANGED <<current, disk>> /\ work' = "top"
      BY <1>5 DEF CrawlAgain, Pages
    <2> QED  BY <2>1 DEF FilesInv
  <1>6. CASE (\E delay \in Delays : Send(delay)) \/ Respond \/ PersistFails \/ FinishCrawl \/ (Raise /\ UNCHANGED results) \/ CrawlerDies
    <2>1. UNCHANGED <<results, disk, current>>
      BY <1>6 DEF Send, Respond, PersistFails, FinishCrawl, Raise, CrawlerDies
    <2>2. \/ work' \in {"page", "top", "finished", "raised", "dead"}
          \/ (work \in {"ready", "fetching"} /\ work' \in {"ready", "fetching", "persisting"})
      BY <1>6 DEF Send, Respond, PersistFails, FinishCrawl, Raise, CrawlerDies
    <2> QED  BY <1>1, <2>1, <2>2
  <1>7. CASE \E wait \in RetryAfters, jitter \in 0 .. 1 : FailFetch(wait, jitter)
    BY <1>1, <1>7, RetryInHand
  <1>8. CASE UNCHANGED crawlVars
    BY <1>1, <1>8 DEF crawlVars
  <1>9. Raise => UNCHANGED results \/ results' = Append(results, Page)
    BY DEF Raise
  <1> QED  BY <1>2, <1>3, <1>4, <1>5, <1>6, <1>7, <1>8, <1>9 DEF CrawlNext

LEMMA TypedStep ==
    ASSUME CrawlTyped, FilesInv, [CrawlNext]_crawlVars
    PROVE  CrawlTyped'
  <1>1. CASE UNCHANGED crawlVars
    BY <1>1 DEF crawlVars, CrawlTyped
  <1>2. CASE CrawlNext
    <2>1. work = "persisting" => current.written < Len(Files)
      BY DEF FilesInv
    <2> QED
      BY <1>2, <2>1, TakeUrlTyped, FailFetchTyped, PersistTyped, KeepPageTyped, CrawlAgainTyped,
         SendTyped, OtherStepsTyped DEF CrawlNext
  <1> QED  BY <1>1, <1>2

-----------------------------------------------------------------------------
(* The crawler: the theorems.                                                   *)

CrawlInv ==
    /\ CrawlTyped /\ PaceInv /\ FrontierInv /\ ReachInv /\ OutcomeInv /\ DepthInv /\ FilesInv /\ EndInv

LEMMA CrawlInitKeeps == CrawlInit => CrawlInv
  <1> SUFFICES ASSUME CrawlInit PROVE CrawlInv
    OBVIOUS
  <1>1. CrawlTyped /\ PaceInv
    BY CrawlInitTyped, PaceInit
  <1>2. FrontierInv /\ ReachInv
    BY FrontierStart, ReachStart DEF CrawlInit
  <1>3. Pages = {} /\ seen = {} /\ work = "top" /\ work \notin InHand
    BY DEF CrawlInit, Pages, InHand
  <1>4. OutcomeInv /\ DepthInv /\ EndInv
    BY <1>3 DEF OutcomeInv, DepthInv, EndInv
  <1>5. FilesInv
    <2>1. disk.index = {} /\ current.path = FALSE
      BY DEF CrawlInit, Nowhere
    <2> QED  BY <1>3, <2>1 DEF FilesInv
  <1> QED  BY <1>1, <1>2, <1>4, <1>5 DEF CrawlInv

LEMMA CrawlStepKeeps == CrawlInv /\ [CrawlNext]_crawlVars => CrawlInv'
  BY TypedStep, PaceStep, FrontierStep, ReachStep, OutcomeStep, DepthStep, FilesStep, EndStep DEF CrawlInv

(* Whatever the site and the limits of the crawl, and whatever fails: a crawl     *)
(* that ends by itself has taken the root and every open link of every page it   *)
(* could expand, by the shortest way, and each of them is a page, skipped or     *)
(* given up; and the index lists no page whose files are not whole, but for those *)
(* that are written over in place (Crawler.crawl, DirectoryStorage.persist).      *)
THEOREM CrawlsAreAlwaysComplete == CrawlInit /\ [][CrawlNext]_crawlVars => []CrawlsAreComplete
  <1>1. CrawlInv => CrawlsAreComplete
    BY DEF CrawlInv, EndInv, FilesInv, CrawlsAreComplete, CrawlIsComplete, IndexedPagesAreComplete
  <1> QED  BY <1>1, CrawlInitKeeps, CrawlStepKeeps, PTL

(* Whatever the intervals, whatever the answers ask for and however long a slot   *)
(* waits for its request: with a rate limiter the slots of pages and retries are  *)
(* an interval apart, so a request is sooner after the one before only by what    *)
(* that was late, and none is sent before the time an earlier answer asked for    *)
(* (FixedWindowRateLimiter, _apply_rate_limit, _fetch_with_retries).              *)
THEOREM RequestsAreAlwaysPaced == CrawlInit /\ [][CrawlNext]_crawlVars => []RequestsArePaced
  <1>1. CrawlInv => RequestsArePaced
    BY DEF CrawlInv, PaceInv, RequestsArePaced
  <1> QED  BY <1>1, CrawlInitKeeps, CrawlStepKeeps, PTL

-----------------------------------------------------------------------------
(* Upgrades: the inductive invariant.                                           *)

IsDatabase(db) ==
    db = [version |-> db.version, schema |-> db.schema, attempts |-> db.attempts, latest |-> db.latest]

\* The schema as the transaction has it is that of the version it has reached, or
\* of the next one when the statements of that have run.
DraftInv ==
    holder # Nobody =>
        /\ draft = [db |-> draft.db, executed |-> draft.executed] /\ IsDatabase(draft.db)
        /\ draft.db.version \in 0 .. DATABASE_SCHEMA_VERSION
        /\ draft.executed \in BOOLEAN
        /\ draft.executed => draft.db.version < DATABASE_SCHEMA_VERSION
        /\ draft.db.schema =
              SchemaUpTo(IF draft.executed THEN draft.db.version + 1 ELSE draft.db.version)

FileInv ==
    /\ IsDatabase(file) /\ file.version \in -1 .. 7
    /\ file.schema = SchemaUpTo(file.version)

OpenInv == \A p \in Openers : opener[p] = "open" => file.version = DATABASE_SCHEMA_VERSION

UpgradeInv ==
    /\ holder \in Openers \cup {Nobody}
    /\ opener \in [Openers -> {"starting", "upgrading", "open", "refused", "failed", "dead"}]
    /\ FileInv /\ DraftInv /\ OpenInv

USE OpenersAssumption

-----------------------------------------------------------------------------
(* Every version brings its own tables and columns, and only those.             *)

LEMMA NextSchema ==
    ASSUME NEW v \in 0 .. 5
    PROVE  SchemaUpTo(v + 1) = SchemaUpTo(v) \cup Schemas[v + 1]
  <1>1. DOMAIN Schemas = 1 .. 6
    BY DEF Schemas
  <1>2. {m \in DOMAIN Schemas : m <= v + 1} = {m \in DOMAIN Schemas : m <= v} \cup {v + 1}
    BY <1>1
  <1> QED  BY <1>2 DEF SchemaUpTo

LEMMA NoSchema == SchemaUpTo(NoFile) = {} /\ SchemaUpTo(0) = {}
  <1>1. DOMAIN Schemas = 1 .. 6
    BY DEF Schemas
  <1>2. {m \in DOMAIN Schemas : m <= NoFile} = {} /\ {m \in DOMAIN Schemas : m <= 0} = {}
    BY <1>1 DEF NoFile
  <1> QED  BY <1>2 DEF SchemaUpTo

-----------------------------------------------------------------------------
(* Upgrades: every step keeps the invariant.                                  *)

LEMMA UpgradeInitKeeps == UpgradeInit => UpgradeInv
  <1> SUFFICES ASSUME UpgradeInit PROVE UpgradeInv
    OBVIOUS
  <1>1. PICK v, h, o : v \in Versions /\ file = OldDatabase(v, h, o)
    BY DEF UpgradeInit, OldDatabases
  <1>2. FileInv
    BY <1>1, VersionsAssumption DEF FileInv, OldDatabase, IsDatabase
  <1>3. holder = Nobody /\ opener = [p \in Openers |-> "starting"]
    BY DEF UpgradeInit, NobodyHasOpened
  <1> QED  BY <1>2, <1>3 DEF UpgradeInv, DraftInv, OpenInv

LEMMA OpenStoreKeeps ==
    ASSUME UpgradeInv, NEW p \in Openers, OpenStore(p)
    PROVE  UpgradeInv'
  <1> USE DEF UpgradeInv
  <1>1. FileInv' /\ OpenInv'
    BY DEF OpenStore, FileInv, OpenInv, IsDatabase
  <1>2. CASE file.version > DATABASE_SCHEMA_VERSION
    BY <1>1, <1>2 DEF OpenStore, DraftInv, IsDatabase
  <1>3. CASE ~(file.version > DATABASE_SCHEMA_VERSION)
    <2> DEFINE db == [file EXCEPT !.version = IF @ = NoFile THEN 0 ELSE @]
    <2>1. holder' = p /\ draft' = [db |-> db, executed |-> FALSE]
      BY <1>3 DEF OpenStore
    <2>2. /\ IsDatabase(db) /\ db.schema = file.schema
          /\ db.version = IF file.version = NoFile THEN 0 ELSE file.version
      BY DEF FileInv, IsDatabase
    <2>3. db.version \in 0 .. DATABASE_SCHEMA_VERSION
      BY <1>3, <2>2 DEF FileInv, NoFile, DATABASE_SCHEMA_VERSION
    <2>4. db.schema = SchemaUpTo(db.version)
      BY <2>2, NoSchema DEF FileInv
    <2> HIDE DEF db
    <2>5. DraftInv'
      BY <2>1, <2>2, <2>3, <2>4 DEF DraftInv, IsDatabase
    <2> QED  BY <1>1, <1>3, <2>1, <2>5 DEF OpenStore
  <1> QED  BY <1>2, <1>3

LEMMA BusyKeeps ==
    ASSUME UpgradeInv, NEW p \in Openers, Busy(p)
    PROVE  UpgradeInv'
  BY DEF UpgradeInv, Busy, FileInv, DraftInv, OpenInv, IsDatabase

LEMMA MigrateKeeps ==
    ASSUME UpgradeInv, NEW p \in Openers, Migrate(p)
    PROVE  UpgradeInv'
  <1> DEFINE v == draft.db.version
  <1> USE DEF UpgradeInv
  <1>1. /\ draft = [db |-> draft.db, executed |-> draft.executed] /\ IsDatabase(draft.db)
        /\ v \in 0 .. 5 /\ draft.executed \in BOOLEAN
        /\ draft.db.schema = SchemaUpTo(IF draft.executed THEN v + 1 ELSE v)
    BY DEF Migrate, DraftInv, DATABASE_SCHEMA_VERSION
  <1>2. UNCHANGED <<file, holder, opener>>
    BY DEF Migrate, ExecuteSchema
  <1>3. CASE draft.executed
    <2> DEFINE db == Converted(draft.db, v + 1)
    <2>1. draft' = [db |-> db, executed |-> FALSE]
      BY <1>3 DEF Migrate
    <2>2. IsDatabase(db) /\ db.version = v + 1 /\ db.schema = draft.db.schema
      BY <1>1 DEF Converted, IsDatabase
    <2> HIDE DEF db
    <2>3. DraftInv'
      BY <1>1, <1>2, <1>3, <2>1, <2>2 DEF DraftInv, IsDatabase, DATABASE_SCHEMA_VERSION
    <2> QED  BY <1>2, <2>3 DEF FileInv, OpenInv, IsDatabase
  <1>4. CASE ~draft.executed
    <2> DEFINE db == [draft.db EXCEPT !.schema = @ \cup Schemas[v + 1]]
    <2>1. draft' = [db |-> db, executed |-> TRUE]
      BY <1>4 DEF Migrate, ExecuteSchema, Executed
    <2>2. IsDatabase(db) /\ db.version = v /\ db.schema = draft.db.schema \cup Schemas[v + 1]
      BY <1>1 DEF IsDatabase
    <2> HIDE DEF db
    <2>3. db.schema = SchemaUpTo(v + 1)
      BY <1>1, <1>4, <2>2, NextSchema
    <2>4. DraftInv'
      BY <1>1, <1>2, <2>1, <2>2, <2>3 DEF DraftInv, IsDatabase, DATABASE_SCHEMA_VERSION
    <2> QED  BY <1>2, <2>4 DEF FileInv, OpenInv, IsDatabase
  <1> QED  BY <1>1, <1>3, <1>4

LEMMA CommitKeeps ==
    ASSUME UpgradeInv, NEW p \in Openers, Commit(p)
    PROVE  UpgradeInv'
  <1> USE DEF UpgradeInv
  <1>1. file' = draft.db /\ draft.db.version = 6 /\ ~draft.executed
    BY DEF Commit, DraftInv, DATABASE_SCHEMA_VERSION
  <1>2. FileInv'
    BY <1>1 DEF FileInv, DraftInv, Commit, IsDatabase
  <1>3. OpenInv'
    BY <1>1 DEF OpenInv, DATABASE_SCHEMA_VERSION
  <1> QED  BY <1>2, <1>3 DEF Commit, DraftInv

LEMMA RollbackKeeps ==
    ASSUME UpgradeInv, NEW p \in Openers, NEW end \in {"failed", "dead"}, Rollback(p, end)
    PROVE  UpgradeInv'
  BY DEF UpgradeInv, Rollback, FileInv, DraftInv, OpenInv, IsDatabase

LEMMA BeginAnalysisKeeps ==
    ASSUME UpgradeInv, NEW p \in Openers, NEW r \in Repositories, NEW t \in Times,
           BeginAnalysis(p, r, t)
    PROVE  UpgradeInv'
  <1> USE DEF UpgradeInv
  <1>1. PICK g, a : file' = [file EXCEPT !.latest[r] = g, !.attempts = a]
    BY DEF BeginAnalysis
  <1>2. IsDatabase(file') /\ file'.version = file.version /\ file'.schema = file.schema
    BY <1>1 DEF FileInv, IsDatabase
  <1>3. UNCHANGED <<draft, holder, opener>> /\ holder = Nobody
    BY DEF BeginAnalysis
  <1> QED  BY <1>2, <1>3 DEF FileInv, DraftInv, OpenInv

LEMMA UpgradeStepKeeps == UpgradeInv /\ [UpgradeNext]_upgradeVars => UpgradeInv'
  <1> SUFFICES ASSUME UpgradeInv, [UpgradeNext]_upgradeVars PROVE UpgradeInv'
    OBVIOUS
  <1>1. CASE UNCHANGED upgradeVars
    BY <1>1 DEF UpgradeInv, FileInv, DraftInv, OpenInv, IsDatabase, upgradeVars
  <1>2. CASE UpgradeNext
    <2>1. "failed" \in {"failed", "dead"} /\ "dead" \in {"failed", "dead"}
      OBVIOUS
    <2> QED
      BY <1>2, <2>1, OpenStoreKeeps, BusyKeeps, MigrateKeeps, CommitKeeps, RollbackKeeps,
         BeginAnalysisKeeps DEF UpgradeNext
  <1> QED  BY <1>1, <1>2

-----------------------------------------------------------------------------
(* Upgrades: the history.                                                       *)

\* Attempts as a database has them before the fourth version, and after it: what
\* UpgradedHistoryIsOrdered says of a database that was of version first.
Attempts ==
    [id : Nat, repository : Repositories, started : Times, completed : BOOLEAN, generation : Nat,
     reconciled : BOOLEAN]
Unnumbered(attempts) ==
    /\ IsFiniteSet(attempts) /\ attempts \subseteq Attempts
    /\ \A a \in attempts : a.id \in Kept
    /\ \A a, b \in attempts : a.id = b.id => a = b
Ordered(attempts, first) ==
    \A a, b \in attempts :
        a.repository = b.repository /\ a # b =>
            /\ a.generation # b.generation
            /\ first < 4 /\ {a.id, b.id} \subseteq Kept /\ a.started < b.started =>
                  a.generation < b.generation
            /\ b.id \notin Kept /\ a.id < b.id => a.generation < b.generation
Counted(attempts, latest) ==
    \A a \in attempts : a.generation \in 1 .. latest[a.repository]
Continued(attempts, latest, first) ==
    /\ attempts \subseteq Attempts /\ latest \in [Repositories -> Nat]
    /\ Ordered(attempts, first) /\ Counted(attempts, latest) /\ latest = Newest(attempts)

History(db, first) ==
    /\ db.version < 4 => Unnumbered(db.attempts)
    /\ db.version \in 4 .. DATABASE_SCHEMA_VERSION => Continued(db.attempts, db.latest, first)

\* No attempt has the name of one that is still to begin.
Earlier(db, later) == \A a \in db.attempts : a.id \in 1 .. MaxKept + later
HistoryInv ==
    /\ begun \in Nat /\ origin \in -1 .. 7
    /\ History(file, origin) /\ Earlier(file, begun)
    /\ holder # Nobody => History(draft.db, origin) /\ Earlier(draft.db, begun)

\* A finite set of numbers has a greatest: the subsets of a finite set are well
\* founded, so one of those above a member is the smallest.
LEMMA GreatestNumber ==
    ASSUME NEW S \in SUBSET Nat, S # {}, IsFiniteSet(S)
    PROVE  \E n \in S : \A m \in S : m <= n
  <1> DEFINE Above(n) == {m \in S : m > n}
             R == StrictSubsetOrdering(S)
             Rests == {Above(n) : n \in S}
  <1>1. \A k \in S : k \in Nat
    OBVIOUS
  <1>2. \A n \in S : Above(n) \in FiniteSubsetsOf(S)
    <2>1. \A n \in S : Above(n) \in SUBSET S
      OBVIOUS
    <2>2. FiniteSubsetsOf(S) = SUBSET S
      BY FS_FiniteSubsetsOfFinite
    <2> HIDE DEF Above
    <2> QED  BY <2>1, <2>2
  <1>3. ASSUME NEW n \in S, NEW m \in S, m > n
        PROVE  <<Above(m), Above(n)>> \in R
    <2>1. m \in Above(n) /\ m \notin Above(m)
      BY <1>1, <1>3
    <2>2. \A k \in Above(m) : k \in Above(n)
      BY <1>1, <1>3
    <2> QED  BY <2>1, <2>2 DEF StrictSubsetOrdering
  <1>4. IsWellFoundedOn(R, FiniteSubsetsOf(S))
    BY FS_StrictSubsetOrderingWellFounded
  <1> HIDE DEF R, Above
  <1>5. PICK rest \in Rests : \A other \in Rests : ~(<<other, rest>> \in R)
    <2>1. Rests \subseteq FiniteSubsetsOf(S) /\ Rests # {}
      BY <1>2
    <2> HIDE DEF Rests
    <2> QED  BY <1>4, <2>1, WFMin
  <1>6. PICK n \in S : rest = Above(n)
    BY DEF Rests
  <1>7. \A m \in S : ~(m > n)
    BY <1>3, <1>5, <1>6
  <1> QED  BY <1>1, <1>7

\* The newest generation of a repository is one of its generations, and none is
\* above it; or there is none.
LEMMA NewestIsGreatest ==
    ASSUME NEW attempts, attempts \subseteq Attempts, NEW r \in Repositories, NEW bound \in Nat,
           \A a \in attempts : a.generation <= bound
    PROVE  /\ Newest(attempts)[r] \in GenerationsOf(attempts, r) \cup {0}
           /\ \A g \in GenerationsOf(attempts, r) : g <= Newest(attempts)[r]
  <1> DEFINE S == GenerationsOf(attempts, r)
  <1>1. S \in SUBSET Nat /\ \A g \in S : g <= bound
    BY DEF GenerationsOf, Attempts
  <1>2. IsFiniteSet(S)
    <2> HIDE DEF S
    <2> QED  BY <1>1, FS_BoundedSetOfNaturals
  <1>3. Newest(attempts)[r] = IF S = {} THEN 0 ELSE CHOOSE g \in S : \A h \in S : h <= g
    BY DEF Newest
  <1> HIDE DEF S
  <1>4. S # {} => \E g \in S : \A h \in S : h <= g
    BY <1>1, <1>2, GreatestNumber
  <1> QED  BY <1>3, <1>4 DEF S

\* A precedence of the attempts: every one precedes itself, of two one precedes the
\* other and its own precede that too.
IsPrecedence(upTo, attempts) ==
    /\ upTo \in [attempts -> SUBSET attempts]
    /\ \A a \in attempts : a \in upTo[a]
    /\ \A a, b \in attempts : a \in upTo[b] \/ b \in upTo[a]
    /\ \A a, b \in attempts : a \in upTo[b] /\ b \in upTo[a] => a = b
    /\ \A a, b \in attempts : a \in upTo[b] => upTo[a] \subseteq upTo[b]

\* Who started earlier precedes.
IsByTime(upTo, attempts) == \A a, b \in attempts : a.started < b.started => a \in upTo[b]

\* The attempts an attempt counts: more than those before it count.
Counts(upTo, a) == {b \in upTo[a] : b.repository = a.repository}

LEMMA LaterCountsMore ==
    ASSUME NEW attempts, Unnumbered(attempts), NEW upTo, IsPrecedence(upTo, attempts),
           NEW a \in attempts
    PROVE  /\ Cardinality(Counts(upTo, a)) \in 1 .. Cardinality(attempts)
           /\ Cardinality(attempts) \in Nat
           /\ \A b \in attempts :
                a.repository = b.repository /\ a # b /\ a \in upTo[b] =>
                    Cardinality(Counts(upTo, a)) < Cardinality(Counts(upTo, b))
  <1>1. \A b \in attempts : Counts(upTo, b) \in SUBSET attempts
    BY DEF IsPrecedence, Counts
  <1>2. \A b \in attempts :
            /\ IsFiniteSet(Counts(upTo, b)) /\ Cardinality(Counts(upTo, b)) \in Nat
            /\ Cardinality(Counts(upTo, b)) <= Cardinality(attempts)
    BY <1>1, FS_Subset, FS_CardinalityType DEF Unnumbered
  <1>3. Cardinality(attempts) \in Nat
    BY FS_CardinalityType DEF Unnumbered
  <1>4. a \in Counts(upTo, a)
    BY DEF IsPrecedence, Counts
  <1>5. Cardinality(Counts(upTo, a)) # 0
    BY <1>2, <1>4, FS_EmptySet
  <1>6. ASSUME NEW b \in attempts, a.repository = b.repository, a # b, a \in upTo[b]
        PROVE  Cardinality(Counts(upTo, a)) < Cardinality(Counts(upTo, b))
    <2>1. Counts(upTo, a) \in SUBSET Counts(upTo, b)
      BY <1>6 DEF IsPrecedence, Counts
    <2>2. b \in Counts(upTo, b) /\ b \notin Counts(upTo, a)
      BY <1>6 DEF IsPrecedence, Counts
    <2>3. Counts(upTo, a) # Counts(upTo, b)
      BY <2>2
    <2>4. /\ Cardinality(Counts(upTo, a)) <= Cardinality(Counts(upTo, b))
          /\ Cardinality(Counts(upTo, b)) = Cardinality(Counts(upTo, a))
                => Counts(upTo, b) = Counts(upTo, a)
      BY <1>2, <2>1, FS_Subset
    <2> QED  BY <1>2, <2>3, <2>4
  <1> QED  BY <1>2, <1>3, <1>5, <1>6

\* Numbered along a precedence, a history is one that can be continued.
LEMMA NumberedIsContinued ==
    ASSUME NEW attempts, Unnumbered(attempts), NEW upTo, IsPrecedence(upTo, attempts),
           NEW first \in Int, first < 4 => IsByTime(upTo, attempts)
    PROVE  Continued(Numbered(attempts, upTo), Newest(Numbered(attempts, upTo)), first)
  <1> DEFINE Number(a) == [a EXCEPT !.generation = Cardinality(Counts(upTo, a)), !.reconciled = a.completed]
             N == Numbered(attempts, upTo)
  <1>1. N = {Number(a) : a \in attempts}
    BY DEF Numbered, Counts
  <1>2. ASSUME NEW a \in attempts
        PROVE  /\ Number(a) \in Attempts /\ Number(a).repository = a.repository
               /\ Number(a).started = a.started /\ a.started \in Times
               /\ Number(a).id \in Kept
               /\ Number(a).generation = Cardinality(Counts(upTo, a))
    <2>1. a \in Attempts
      BY DEF Unnumbered
    <2>2. Cardinality(Counts(upTo, a)) \in Nat
      BY LaterCountsMore
    <2> QED  BY <2>1, <2>2 DEF Attempts, Unnumbered
  <1> HIDE DEF Number
  <1>3. N \subseteq Attempts
    BY <1>1, <1>2
  <1>4. Ordered(N, first)
    <2> SUFFICES ASSUME NEW a \in attempts, NEW b \in attempts, a.repository = b.repository,
                        Number(a) # Number(b)
                 PROVE  /\ Number(a).generation # Number(b).generation
                        /\ first < 4 /\ a.started < b.started =>
                              Number(a).generation < Number(b).generation
      BY <1>1, <1>2 DEF Ordered
    <2>1. a # b
      OBVIOUS
    <2>2. CASE a \in upTo[b]
      BY <1>2, <2>1, <2>2, LaterCountsMore
    <2>3. CASE b \in upTo[a]
      <3>1. Number(b).generation < Number(a).generation
        BY <1>2, <2>1, <2>3, LaterCountsMore
      <3>2. ~(first < 4 /\ a.started < b.started)
        BY <2>1, <2>3 DEF IsPrecedence, IsByTime
      <3>3. Number(a).generation \in Nat /\ Number(b).generation \in Nat
        BY <1>2, LaterCountsMore
      <3> QED  BY <3>1, <3>2, <3>3
    <2> QED  BY <2>2, <2>3 DEF IsPrecedence
  <1>5. \A n \in N : n.generation \in 1 .. Cardinality(attempts)
    BY <1>1, <1>2, LaterCountsMore
  <1>6. Cardinality(attempts) \in Nat
    BY FS_CardinalityType DEF Unnumbered
  <1>7. \A n \in N : n.generation <= Cardinality(attempts)
    BY <1>5, <1>6
  <1>8. \A n \in N : n.generation \in GenerationsOf(N, n.repository) /\ n.repository \in Repositories
    BY <1>3 DEF GenerationsOf, Attempts
  <1> HIDE DEF N
  <1>9. \A r \in Repositories :
            /\ Newest(N)[r] \in GenerationsOf(N, r) \cup {0}
            /\ \A g \in GenerationsOf(N, r) : g <= Newest(N)[r]
    BY <1>3, <1>6, <1>7, NewestIsGreatest
  <1>10. Newest(N) \in [Repositories -> Nat]
    <2>1. \A r \in Repositories : GenerationsOf(N, r) \subseteq Nat
      BY <1>3 DEF GenerationsOf, Attempts
    <2>2. \A r \in Repositories : Newest(N)[r] \in Nat
      BY <1>9, <2>1
    <2>3. Newest(N) = [r \in Repositories |-> Newest(N)[r]]
      BY DEF Newest
    <2> QED  BY <2>2, <2>3
  <1>11. Counted(N, Newest(N))
    <2> SUFFICES ASSUME NEW n \in N PROVE n.generation \in 1 .. Newest(N)[n.repository]
      BY DEF Counted
    <2>1. n.generation <= Newest(N)[n.repository]
      BY <1>8, <1>9
    <2> QED  BY <1>5, <1>6, <1>8, <1>10, <2>1
  <1> QED  BY <1>3, <1>4, <1>10, <1>11 DEF Continued, N

LEMMA TimesPrecede ==
    ASSUME NEW attempts, Unnumbered(attempts)
    PROVE  IsPrecedence(UpTo(attempts), attempts) /\ IsByTime(UpTo(attempts), attempts)
  <1>1. \A a \in attempts : a.id \in Nat /\ a.started \in Nat
    BY HistoryAssumption DEF Unnumbered, Attempts, Kept
  <1> QED  BY <1>1 DEF IsPrecedence, IsByTime, UpTo, Unnumbered

LEMMA OrdersPrecede ==
    ASSUME NEW attempts, Unnumbered(attempts), NEW order \in Orders
    PROVE  IsPrecedence(BegunUpTo(attempts, order), attempts)
  <1>1. \A a \in attempts : a.id \in Kept /\ order[a.id] \in Nat
    BY HistoryAssumption DEF Unnumbered, Orders, Kept
  <1>2. \A a, b \in attempts : order[a.id] = order[b.id] => a = b
    BY <1>1 DEF Unnumbered, Orders
  <1> QED  BY <1>1, <1>2 DEF IsPrecedence, BegunUpTo

LEMMA HistoriesAreUnnumbered ==
    ASSUME NEW h \in Histories
    PROVE  Unnumbered(h)
  <1>1. PICK r \in [Kept -> Repositories], t \in [Kept -> Times], c \in [Kept -> BOOLEAN] :
            h = {Attempt(i, r[i], t[i], c[i]) : i \in Kept}
    BY DEF Histories
  <1> DEFINE A(i) == Attempt(i, r[i], t[i], c[i])
  <1>2. h = {A(i) : i \in Kept}
    BY <1>1
  <1>3. \A i \in Kept : A(i) \in Attempts /\ A(i).id = i
    BY DEF Attempt, Attempts, Kept
  <1> HIDE DEF A
  <1>4. IsFiniteSet(h)
    <2> DEFINE F == [i \in Kept |-> A(i)]
    <2>1. IsFiniteSet(Kept)
      BY HistoryAssumption, FS_Interval DEF Kept
    <2>2. F \in Surjection(Kept, h)
      BY <1>2 DEF Surjection
    <2> QED  BY <2>1, <2>2, FS_Surjection
  <1> QED  BY <1>2, <1>3, <1>4 DEF Unnumbered, Kept

LEMMA NumberingNames ==
    ASSUME NEW attempts, Unnumbered(attempts), NEW upTo
    PROVE  \A n \in Numbered(attempts, upTo) : n.id \in Kept
  <1> DEFINE Number(a) == [a EXCEPT !.generation = Cardinality(Counts(upTo, a)), !.reconciled = a.completed]
  <1>1. Numbered(attempts, upTo) = {Number(a) : a \in attempts}
    BY DEF Numbered, Counts
  <1>2. \A a \in attempts : a \in Attempts /\ a.id \in Kept
    BY DEF Unnumbered
  <1>3. \A a \in attempts : Number(a).id = a.id
    BY <1>2 DEF Attempts
  <1> QED  BY <1>1, <1>2, <1>3

LEMMA OldHistories ==
    ASSUME NEW v \in Versions, NEW h \in Histories, NEW order \in Orders
    PROVE  History(OldDatabase(v, h, order), v) /\ Earlier(OldDatabase(v, h, order), 0)
  <1> DEFINE db == OldDatabase(v, h, order)
             N == Numbered(h, BegunUpTo(h, order))
  <1>1. v \in -1 .. 7
    BY VersionsAssumption
  <1>2. Unnumbered(h)
    BY HistoriesAreUnnumbered
  <1>3. Unnumbered({})
    BY FS_EmptySet DEF Unnumbered
  <1>4. CASE v < 4
    <2>1. db.version = v /\ db.attempts = IF v < 1 THEN {} ELSE h
      BY <1>1, <1>4 DEF OldDatabase
    <2> HIDE DEF db
    <2>2. History(db, v) /\ Earlier(db, 0)
      BY <1>1, <1>2, <1>3, <1>4, <2>1, HistoryAssumption DEF History, Earlier, Unnumbered, Kept
    <2> QED  BY <2>2 DEF db
  <1>5. CASE ~(v < 4)
    <2>1. db.version = v /\ db.attempts = N /\ db.latest = Newest(N)
      BY <1>1, <1>5 DEF OldDatabase
    <2>2. Continued(N, Newest(N), v)
      BY <1>1, <1>2, <1>5, OrdersPrecede, NumberedIsContinued
    <2>3. \A n \in N : n.id \in Kept
      BY <1>2, NumberingNames
    <2> HIDE DEF db, N
    <2>4. History(db, v) /\ Earlier(db, 0)
      BY <1>1, <1>5, <2>1, <2>2, <2>3, HistoryAssumption DEF History, Earlier, Kept
    <2> QED  BY <2>4 DEF db
  <1> QED  BY <1>1, <1>4, <1>5

LEMMA HistoryInit == UpgradeInit => HistoryInv
  <1> SUFFICES ASSUME UpgradeInit PROVE HistoryInv
    OBVIOUS
  <1>1. PICK v \in Versions, h \in Histories, o \in Orders : file = OldDatabase(v, h, o)
    BY DEF UpgradeInit, OldDatabases
  <1>2. file.version = v /\ v \in -1 .. 7
    BY <1>1, VersionsAssumption DEF OldDatabase
  <1> QED  BY <1>1, <1>2, OldHistories DEF HistoryInv, UpgradeInit, NobodyHasOpened

LEMMA MigrateKeepsHistory ==
    ASSUME UpgradeInv, HistoryInv, NEW p \in Openers, Migrate(p)
    PROVE  HistoryInv'
  <1> DEFINE v == draft.db.version
  <1>1. /\ IsDatabase(draft.db) /\ v \in 0 .. 5 /\ History(draft.db, origin) /\ holder' # Nobody
        /\ Earlier(draft.db, begun) /\ UNCHANGED <<file, begun, origin>> /\ origin \in -1 .. 7
    BY DEF Migrate, ExecuteSchema, DraftInv, UpgradeInv, HistoryInv, DATABASE_SCHEMA_VERSION
  <1>2. CASE ~draft.executed
    <2>1. /\ draft'.db.version = v /\ draft'.db.attempts = draft.db.attempts
          /\ draft'.db.latest = draft.db.latest
      BY <1>1, <1>2 DEF Migrate, ExecuteSchema, Executed, IsDatabase
    <2> QED  BY <1>1, <2>1 DEF HistoryInv, History, Earlier
  <1>3. CASE draft.executed /\ v + 1 # 4
    <2>1. /\ draft'.db.version = v + 1 /\ draft'.db.attempts = draft.db.attempts
          /\ draft'.db.latest = draft.db.latest
      BY <1>1, <1>3 DEF Migrate, Converted, IsDatabase
    <2> QED  BY <1>1, <1>3, <2>1 DEF HistoryInv, History, Earlier, DATABASE_SCHEMA_VERSION
  <1>4. CASE draft.executed /\ v + 1 = 4
    <2> DEFINE old == draft.db.attempts
               N == Numbered(old, UpTo(old))
    <2>1. draft' = [db |-> Converted(draft.db, 4), executed |-> FALSE]
      BY <1>1, <1>4 DEF Migrate
    <2>2. /\ Converted(draft.db, 4).version = 4 /\ Converted(draft.db, 4).attempts = N
          /\ Converted(draft.db, 4).latest = Newest(N)
      BY <1>1 DEF Converted, IsDatabase
    <2>3. Unnumbered(old)
      BY <1>1, <1>4 DEF History
    <2>4. Continued(N, Newest(N), origin)
      BY <1>1, <2>3, TimesPrecede, NumberedIsContinued
    <2>5. \A n \in N : n.id \in Kept
      BY <2>3, NumberingNames
    <2> HIDE DEF N
    <2>6. draft'.db.version = 4 /\ draft'.db.attempts = N /\ draft'.db.latest = Newest(N)
      BY <2>1, <2>2
    <2>7. begun \in Nat
      BY DEF HistoryInv
    <2>8. History(draft'.db, origin) /\ Earlier(draft'.db, begun)
      BY <2>4, <2>5, <2>6, <2>7, HistoryAssumption DEF History, Earlier, Kept
    <2> QED  BY <1>1, <2>7, <2>8 DEF HistoryInv
  <1> QED  BY <1>2, <1>3, <1>4

\* An attempt that begins gets a generation above all of its repository, and the
\* counter is moved on with it.
LEMMA BeginAnalysisContinues ==
    ASSUME NEW attempts, NEW latest, NEW first, Continued(attempts, latest, first),
           NEW r \in Repositories, NEW attempt \in Attempts, attempt.repository = r,
           attempt.generation = latest[r] + 1, attempt.id \notin Kept,
           \A a \in attempts : a.id < attempt.id
    PROVE  Continued(attempts \cup {attempt}, [latest EXCEPT ![r] = latest[r] + 1], first)
  <1> DEFINE all == attempts \cup {attempt}
             next == [latest EXCEPT ![r] = latest[r] + 1]
  <1>1. attempts \subseteq Attempts /\ latest \in [Repositories -> Nat]
    BY DEF Continued
  <1>2. /\ attempt \in Attempts /\ attempt.repository = r /\ attempt.id \notin Kept
        /\ attempt.generation = latest[r] + 1
    OBVIOUS
  <1>3. /\ next \in [Repositories -> Nat] /\ next[r] = latest[r] + 1
        /\ \A other \in Repositories \ {r} : next[other] = latest[other]
    BY <1>1
  <1>4. \A a \in attempts : /\ a.repository \in Repositories /\ a.generation \in Nat /\ a.id \in Nat
                            /\ a.generation \in 1 .. latest[a.repository]
    BY <1>1 DEF Attempts, Continued, Counted
  <1>5. \A a \in attempts : a.repository = r => a.generation < attempt.generation
    BY <1>1, <1>2, <1>4
  <1>6. Ordered(all, first)
    <2>1. attempt.generation \in Nat /\ attempt.id \in Nat
      BY <1>1, <1>2 DEF Attempts
    <2>2. ASSUME NEW a \in attempts, a.repository = r
          PROVE  a.generation # attempt.generation /\ a.generation < attempt.generation /\ ~(attempt.id < a.id)
      BY <1>4, <1>5, <2>1, <2>2
    <2>3. Ordered(attempts, first)
      BY DEF Continued
    <2> SUFFICES ASSUME NEW a \in all, NEW b \in all, a.repository = b.repository, a # b
                 PROVE  /\ a.generation # b.generation
                        /\ first < 4 /\ {a.id, b.id} \subseteq Kept /\ a.started < b.started =>
                              a.generation < b.generation
                        /\ b.id \notin Kept /\ a.id < b.id => a.generation < b.generation
      BY DEF Ordered
    <2>4. CASE a \in attempts /\ b \in attempts
      BY <2>3, <2>4 DEF Ordered
    <2>5. CASE a \in attempts /\ b = attempt
      BY <1>2, <2>2, <2>5
    <2>6. CASE a = attempt /\ b \in attempts
      BY <1>2, <1>4, <2>1, <2>2, <2>6
    <2> QED  BY <2>4, <2>5, <2>6
  <1> HIDE DEF next
  <1>7. Counted(all, next)
    <2>1. ASSUME NEW a \in attempts PROVE a.generation \in 1 .. next[a.repository]
      <3>1. CASE a.repository = r
        BY <1>1, <1>3, <1>4, <3>1
      <3>2. CASE a.repository # r
        BY <1>3, <1>4, <3>2
      <3> QED  BY <3>1, <3>2
    <2>2. attempt.generation \in 1 .. next[r]
      BY <1>1, <1>2, <1>3
    <2> QED  BY <1>2, <2>1, <2>2 DEF Counted
  <1>8. Newest(all)[r] = latest[r] + 1
    <2>1. GenerationsOf(all, r) = GenerationsOf(attempts, r) \cup {latest[r] + 1}
      BY <1>2 DEF GenerationsOf
    <2>2. \A g \in GenerationsOf(attempts, r) : g \in Nat /\ g < latest[r] + 1
      BY <1>2, <1>4, <1>5 DEF GenerationsOf
    <2>3. Newest(all)[r] =
            CHOOSE g \in GenerationsOf(all, r) : \A h \in GenerationsOf(all, r) : h <= g
      BY <2>1 DEF Newest
    <2>4. latest[r] + 1 \in Nat
      BY <1>1
    <2> HIDE DEF all
    <2>5. \A g \in GenerationsOf(all, r) :
            (\A h \in GenerationsOf(all, r) : h <= g) <=> g = latest[r] + 1
      BY <2>1, <2>2, <2>4
    <2>6. latest[r] + 1 \in GenerationsOf(all, r)
      BY <2>1
    <2> QED  BY <2>3, <2>5, <2>6
  <1>9. ASSUME NEW other \in Repositories \ {r} PROVE Newest(all)[other] = latest[other]
    <2>1. GenerationsOf(all, other) = GenerationsOf(attempts, other)
      BY <1>2 DEF GenerationsOf
    <2> HIDE DEF all
    <2>2. Newest(all)[other] = Newest(attempts)[other]
      BY <2>1 DEF Newest
    <2> QED  BY <2>2 DEF Continued
  <1>10. next = Newest(all)
    <2>1. Newest(all) = [q \in Repositories |-> Newest(all)[q]]
      BY DEF Newest
    <2> HIDE DEF all
    <2> QED  BY <1>3, <1>8, <1>9, <2>1
  <1>11. all \subseteq Attempts
    BY <1>1, <1>2
  <1> QED  BY <1>3, <1>6, <1>7, <1>10, <1>11 DEF Continued, next

LEMMA BeginAnalysisKeepsHistory ==
    ASSUME UpgradeInv, HistoryInv, NEW p \in Openers, NEW r \in Repositories, NEW t \in Times,
           BeginAnalysis(p, r, t)
    PROVE  HistoryInv'
  <1> DEFINE attempt == [Attempt(MaxKept + 1 + begun, r, t, FALSE) EXCEPT !.generation = file.latest[r] + 1]
  <1>1. file.version = DATABASE_SCHEMA_VERSION /\ IsDatabase(file)
    BY DEF BeginAnalysis, UpgradeInv, OpenInv, FileInv
  <1>2. Continued(file.attempts, file.latest, origin)
    BY <1>1 DEF HistoryInv, History, DATABASE_SCHEMA_VERSION
  <1>3. Continued(file.attempts \cup {attempt}, [file.latest EXCEPT ![r] = file.latest[r] + 1],
                  origin)
    <2>1. MaxKept + 1 + begun \in Nat /\ file.latest[r] + 1 \in Nat
      BY <1>2, HistoryAssumption DEF HistoryInv, Continued
    <2>2. Attempt(MaxKept + 1 + begun, r, t, FALSE) \in Attempts
      BY <2>1 DEF Attempt, Attempts
    <2>3. attempt \in Attempts
      BY <2>1, <2>2 DEF Attempts
    <2>4. /\ attempt.repository = r /\ attempt.id = MaxKept + 1 + begun
          /\ attempt.generation = file.latest[r] + 1
      BY DEF Attempt
    <2>5. \A a \in file.attempts : a.id < MaxKept + 1 + begun
      BY HistoryAssumption DEF HistoryInv, Earlier
    <2>6. MaxKept + 1 + begun \notin Kept
      BY HistoryAssumption DEF HistoryInv, Kept
    <2> HIDE DEF attempt
    <2> QED  BY <1>2, <2>3, <2>4, <2>5, <2>6, BeginAnalysisContinues
  <1>4. /\ file'.version = file.version /\ file'.attempts = file.attempts \cup {attempt}
        /\ file'.latest = [file.latest EXCEPT ![r] = file.latest[r] + 1]
    BY <1>1 DEF BeginAnalysis, IsDatabase
  <1>5. /\ holder' = Nobody /\ begun \in Nat /\ begun' = begun + 1
        /\ origin' = origin /\ origin \in -1 .. 7
    BY DEF BeginAnalysis, HistoryInv
  <1>6. attempt.id = MaxKept + 1 + begun
    BY DEF Attempt
  <1> HIDE DEF attempt
  <1>7. \A a \in file'.attempts : a.id \in 1 .. MaxKept + begun'
    <2>1. \A a \in file.attempts : a.id \in 1 .. MaxKept + begun
      BY DEF HistoryInv, Earlier
    <2> QED  BY <1>4, <1>5, <1>6, <2>1, HistoryAssumption
  <1> QED  BY <1>1, <1>3, <1>4, <1>5, <1>7 DEF HistoryInv, History, Earlier, DATABASE_SCHEMA_VERSION

LEMMA HistoryStep ==
    UpgradeInv /\ HistoryInv /\ [UpgradeNext]_upgradeVars => HistoryInv'
  <1> SUFFICES ASSUME UpgradeInv, HistoryInv, [UpgradeNext]_upgradeVars
               PROVE  HistoryInv'
    OBVIOUS
  <1>1. CASE UNCHANGED upgradeVars
    BY <1>1 DEF HistoryInv, History, Earlier, upgradeVars
  <1>2. CASE UpgradeNext
    <2>1. PICK p \in Openers :
            \/ OpenStore(p) \/ Busy(p) \/ Migrate(p) \/ Commit(p)
            \/ Rollback(p, "failed") \/ Rollback(p, "dead")
            \/ \E r \in Repositories, t \in Times : BeginAnalysis(p, r, t)
      BY <1>2 DEF UpgradeNext
    <2>2. UNCHANGED <<begun, origin>> \/ \E r \in Repositories, t \in Times : BeginAnalysis(p, r, t)
      BY <2>1 DEF OpenStore, Busy, Migrate, Commit, Rollback
    <2>3. CASE OpenStore(p)
      <3>1. UNCHANGED file
        BY <2>3 DEF OpenStore
      <3>2. CASE file.version > DATABASE_SCHEMA_VERSION
        BY <2>3, <3>1, <3>2 DEF OpenStore, HistoryInv
      <3>3. CASE ~(file.version > DATABASE_SCHEMA_VERSION)
        <4>1. /\ draft'.db.attempts = file.attempts /\ draft'.db.latest = file.latest
              /\ draft'.db.version = IF file.version = NoFile THEN 0 ELSE file.version
          BY <2>3, <3>3 DEF OpenStore, UpgradeInv, FileInv, IsDatabase
        <4>2. /\ History(file, origin) /\ Earlier(file, begun)
              /\ UNCHANGED <<begun, origin>> /\ begun \in Nat /\ origin \in -1 .. 7
          BY <2>3 DEF OpenStore, HistoryInv
        <4>3. CASE file.version = -1
          <5>1. draft'.db.version = 0 /\ Unnumbered(draft'.db.attempts)
            BY <4>1, <4>2, <4>3 DEF NoFile, History
          <5> QED  BY <3>1, <4>1, <4>2, <5>1 DEF HistoryInv, History, Earlier
        <4>4. CASE file.version # -1
          <5>1. draft'.db.version = file.version
            BY <4>1, <4>4 DEF NoFile
          <5> QED  BY <3>1, <4>1, <4>2, <5>1 DEF HistoryInv, History, Earlier
        <4> QED  BY <4>3, <4>4
      <3> QED  BY <3>2, <3>3
    <2>4. CASE Busy(p)
      BY <2>4 DEF Busy, HistoryInv, History, Earlier
    <2>5. CASE Migrate(p)
      BY <2>5, MigrateKeepsHistory
    <2>6. CASE Commit(p)
      BY <2>6 DEF Commit, HistoryInv, UpgradeInv
    <2>7. CASE Rollback(p, "failed") \/ Rollback(p, "dead")
      BY <2>7 DEF Rollback, HistoryInv
    <2>8. CASE \E r \in Repositories, t \in Times : BeginAnalysis(p, r, t)
      BY <2>8, BeginAnalysisKeepsHistory
    <2> QED  BY <2>1, <2>2, <2>3, <2>4, <2>5, <2>6, <2>7, <2>8
  <1> QED  BY <1>1, <1>2

-----------------------------------------------------------------------------
(* Upgrades: the theorems.                                                     *)

(* Whichever of the processes that upgrade one database fail or die, and in      *)
(* whichever order the others follow, the database has the tables and columns    *)
(* of its version and no others, and who has the store open has the newest       *)
(* version (SnapshotStore's initialisation and migrations).                      *)
THEOREM UpgradesAreAllOrNothing == UpgradeSpec => []UpgradeIsAllOrNothing
  <1>1. UpgradeSpec => []UpgradeInv
    BY UpgradeInitKeeps, UpgradeStepKeeps, PTL DEF UpgradeSpec
  <1>2. UpgradeInv => UpgradeIsAllOrNothing
    BY DEF UpgradeInv, FileInv, OpenInv, UpgradeIsAllOrNothing
  <1> QED  BY <1>1, <1>2, PTL

(* Whatever version a database has, of however many attempts, and wherever       *)
(* processes that open it fail or die: in a database of the current schema the    *)
(* attempts of a repository have generations of their own, those numbered by      *)
(* the upgrade in the order they started (those that had generations keep theirs, *)
(* which may be another order), its counters are at the newest, and attempts      *)
(* begun since are newer, in the order they begin (_migrate_to_v4,                *)
(* begin_analysis).                                                               *)
THEOREM UpgradedStoresAreAlwaysSound == UpgradeSpec => []UpgradedStoresAreSound
  <1>1. UpgradeSpec => []UpgradeInv
    BY UpgradeInitKeeps, UpgradeStepKeeps, PTL DEF UpgradeSpec
  <1>2. UpgradeSpec => []HistoryInv
    BY <1>1, HistoryInit, HistoryStep, PTL DEF UpgradeSpec
  <1>3. HistoryInv => UpgradedHistoryIsOrdered
    BY DEF HistoryInv, History, Continued, Ordered, Counted, UpgradedHistoryIsOrdered
  <1> QED  BY <1>2, <1>3, UpgradesAreAllOrNothing, PTL DEF UpgradedStoresAreSound

-----------------------------------------------------------------------------
(* A scan: what is told of the files it leaves out.  Every candidate gets one   *)
(* record, so that what it says is what curtailed and the diagnostics were told *)
(* when it was written; the files that are parsed are those that are included.  *)

\* A path is a candidate, the one that is read, or recorded, and never two of these.
RecordedOnce ==
    /\ candidates \subseteq Paths /\ DOMAIN records \subseteq Paths
    /\ reading # None => /\ reading.path \in Paths \ (candidates \cup DOMAIN records)
                         /\ stage = "inspect"
    /\ stage = "list" => DOMAIN records = {}
    /\ stage \in {"list", "inspect"} => candidates \cap DOMAIN records = {}

\* The bytes of a path are among those that may be found there.
BytesAreFound ==
    /\ DOMAIN checkout = Paths
    /\ \A p \in Paths : checkout[p] \in Contents[p]
    /\ \A p \in DOMAIN records :
          /\ records[p].included \in BOOLEAN
          /\ records[p].included =>
                records[p].text \in DOMAIN Trees \cup Unparsed \cup {TooDeep}

LimitsAreTold == curtailed <=> \E p \in DOMAIN records : records[p].reason \in Limits

GapDiagnostics == {d \in diagnostics : d.code \in GapCodes}
GapsAreTold ==
    /\ IsFiniteSet(diagnostics)
    /\ GapDiagnostics # {} <=> \E p \in DOMAIN parsed : parsed[p] # "parsed"

Evaluated == {"relationships", "findings", "stored", "rejected"}
ParsedIsIncluded ==
    /\ stage \in {"list", "inspect", "discovered"} => DOMAIN parsed = {}
    /\ stage = "analysis" => candidates \subseteq Included /\ DOMAIN parsed = Included \ candidates
    /\ stage \in Evaluated => DOMAIN parsed = Included
    /\ \A p \in DOMAIN parsed : p \in DOMAIN records /\ parsed[p] = ParseStatus(records[p].text)
                                /\ records[p].included /\ records[p].text # TooDeep

EvidenceIsOfTheFiles ==
    stage \in Evaluated => evidence.modules = Modules /\ evidence.symbols = Symbols

ScanInv ==
    /\ stage \in {"list", "inspect", "discovered", "analysis", "cancelled", "failed"} \cup Evaluated
    /\ RecordedOnce /\ BytesAreFound /\ LimitsAreTold /\ GapsAreTold /\ ParsedIsIncluded
    /\ EvidenceIsOfTheFiles

LEMMA ScanStarts == AnalysisInit => ScanInv
<1> SUFFICES ASSUME AnalysisInit PROVE ScanInv
  OBVIOUS
<1> USE DEF AnalysisInit, DiscoveryInit
<1>1. DOMAIN records = {} /\ DOMAIN parsed = {}
  BY EmptySeq
<1>2. RecordedOnce /\ BytesAreFound
  BY <1>1, DiscoveryAssumption DEF RecordedOnce, BytesAreFound
<1>3. LimitsAreTold /\ ParsedIsIncluded /\ EvidenceIsOfTheFiles
  BY <1>1 DEF LimitsAreTold, ParsedIsIncluded, EvidenceIsOfTheFiles, Evaluated
<1>4. GapsAreTold
  BY <1>1, FS_EmptySet DEF GapsAreTold, GapDiagnostics
<1> QED  BY <1>2, <1>3, <1>4 DEF ScanInv

\* What the discovery tells of is never a gap, and stays finite.
LEMMA NoGapAdded ==
    ASSUME GapsAreTold, NEW S, IsFiniteSet(S), \A d \in S : d.code \notin GapCodes,
           diagnostics' = diagnostics \cup S, parsed' = parsed
    PROVE  GapsAreTold'
<1>1. IsFiniteSet(diagnostics')
  BY FS_Union DEF GapsAreTold
<1>2. GapDiagnostics' = GapDiagnostics
  BY DEF GapDiagnostics
<1> QED  BY <1>1, <1>2 DEF GapsAreTold

LEMMA SameDiagnostics ==
    ASSUME GapsAreTold, diagnostics' = diagnostics, parsed' = parsed
    PROVE  GapsAreTold'
BY DEF GapsAreTold, GapDiagnostics

\* One more record, of a path that had none.
LEMMA RecordAdded ==
    ASSUME NEW p, NEW record, Record(p, record)
    PROVE  /\ DOMAIN records' = DOMAIN records \cup {p}
           /\ records'[p] = record
           /\ \A q \in DOMAIN records : q # p => records'[q] = records[q]
BY DEF Record

\* The reason a path is left out for is none of the limits.
LEMMA ReasonsAreNoLimits ==
    ASSUME NEW p, PreReadExclusion(p) # None
    PROVE  PreReadExclusion(p) \notin Limits \cup {"unreadable"}
<1> DEFINE tried == PreReadExclusions(p)
           hits == {i \in DOMAIN tried : tried[i][2]}
<1>1. hits # {} /\ PreReadExclusion(p) = tried[Min(hits)][1]
  BY DEF PreReadExclusion
<1>2. DOMAIN tried = 1 .. 9
  BY DEF PreReadExclusions
<1>3. hits \in SUBSET Nat
  BY <1>2
<1>4. Min(hits) \in hits
  <2> HIDE DEF hits
  <2>1. \E n \in hits : \A m \in hits : n <= m
    BY <1>1, <1>3, LeastNumber
  <2> QED  BY <2>1 DEF Min
<1>5. Min(hits) \in 1 .. 9
  BY <1>2, <1>4
<1> HIDE DEF hits
<1>6. /\ tried[1][1] = "sensitive"
      /\ tried[2][1] = "generated_or_cached"
      /\ tried[3][1] = "configured"
      /\ tried[4][1] = "gitignored"
      /\ tried[5][1] = "symlink_unresolved"
      /\ tried[6][1] = "symlink_escape"
      /\ tried[7][1] = "symlink"
      /\ tried[8][1] = "unsupported_language"
      /\ tried[9][1] = "not_regular_file"
  BY DEF PreReadExclusions
<1> HIDE DEF tried
<1>7. \A i \in 1 .. 9 : tried[i][1] \notin Limits \cup {"unreadable"}
  BY <1>6 DEF Limits
<1> QED  BY <1>1, <1>5, <1>7

LEMMA RecordKeeps ==
    ASSUME ScanInv, stage = "inspect", stage' = stage, checkout' = checkout, UNCHANGED analysisVars,
           NEW p \in Paths \ DOMAIN records, NEW record, Record(p, record),
           candidates' = candidates \ {p}, reading' = None,
           record.included \in BOOLEAN,
           record.included => record.text \in DOMAIN Trees \cup Unparsed \cup {TooDeep},
           curtailed' <=> curtailed \/ record.reason \in Limits,
           GapsAreTold'
    PROVE  ScanInv'
<1>1. /\ DOMAIN records' = DOMAIN records \cup {p} /\ records'[p] = record
      /\ \A q \in DOMAIN records : records'[q] = records[q]
  BY RecordAdded
<1>2. RecordedOnce'
  BY <1>1 DEF ScanInv, RecordedOnce
<1>3. BytesAreFound'
  BY <1>1 DEF ScanInv, BytesAreFound
<1>4. LimitsAreTold'
  BY <1>1 DEF ScanInv, LimitsAreTold
<1>5. ParsedIsIncluded' /\ EvidenceIsOfTheFiles'
  BY DEF ScanInv, ParsedIsIncluded, EvidenceIsOfTheFiles, Evaluated, analysisVars
<1> QED  BY <1>2, <1>3, <1>4, <1>5 DEF ScanInv

LEMMA InspectMissingKeeps ==
    ASSUME ScanInv, NEW p \in Paths, InspectMissing(p), UNCHANGED analysisVars
    PROVE  ScanInv'
<1>1. p \in candidates /\ stage = "inspect" /\ reading = None /\ p \notin DOMAIN records
  BY DEF InspectMissing, Inspecting, ScanInv, RecordedOnce
<1>2. GapsAreTold'
  <2>1. IsFiniteSet({Diagnostic("DISCOVERY_UNREADABLE", p)})
    BY FS_Singleton
  <2> QED  BY <2>1, NoGapAdded DEF InspectMissing, ScanInv, Diagnostic, GapCodes, analysisVars
<1>3. Excluded(p, 0, "unreadable").reason \notin Limits
  BY DEF Excluded, Limits
<1>4. Excluded(p, 0, "unreadable").included = FALSE
  BY DEF Excluded
<1> QED  BY <1>1, <1>2, <1>3, <1>4, RecordKeeps DEF InspectMissing, Inspecting

LEMMA LeaveOutKeeps ==
    ASSUME ScanInv, NEW p \in Paths, LeaveOut(p), UNCHANGED analysisVars
    PROVE  ScanInv'
<1>1. p \in candidates /\ stage = "inspect" /\ reading = None /\ p \notin DOMAIN records
  BY DEF LeaveOut, Inspecting, ScanInv, RecordedOnce
<1> DEFINE record == Excluded(p, checkout[p].size, PreReadExclusion(p))
<1>2. GapsAreTold'
  BY SameDiagnostics DEF LeaveOut, ScanInv, analysisVars
<1>3. record.reason \notin Limits /\ record.included = FALSE
  BY ReasonsAreNoLimits DEF LeaveOut, Excluded
<1>4. Record(p, record) /\ reading' = None /\ curtailed' = curtailed
  BY <1>1 DEF LeaveOut
<1>5. /\ candidates' = candidates \ {p} /\ stage' = stage /\ checkout' = checkout
  BY DEF LeaveOut, Inspecting
<1>6. curtailed' <=> curtailed \/ record.reason \in Limits
  BY <1>3, <1>4
<1> HIDE DEF record
<1> QED  BY <1>1, <1>2, <1>3, <1>4, <1>5, <1>6, RecordKeeps

LEMMA MeetLimitKeeps ==
    ASSUME ScanInv, NEW p \in Paths, MeetLimit(p), UNCHANGED analysisVars
    PROVE  ScanInv'
<1>1. p \in candidates /\ stage = "inspect" /\ reading = None /\ p \notin DOMAIN records
  BY DEF MeetLimit, Inspecting, ScanInv, RecordedOnce
<1> DEFINE limit == LimitMet(checkout[p].size)
           record == Excluded(p, checkout[p].size, limit)
<1>2. limit # None /\ Record(p, record) /\ curtailed' = (curtailed \/ LimitTruncates(limit))
      /\ diagnostics' = diagnostics \cup {LimitDiagnostic(limit, p)} /\ reading' = None
  BY <1>1 DEF MeetLimit
<1>3. limit \in Limits
  BY <1>2 DEF LimitMet, Limits
<1>4. record.reason \in Limits /\ record.included = FALSE
  BY <1>3 DEF Excluded
<1>5. curtailed' = TRUE
  BY <1>2 DEF LimitTruncates
<1> HIDE DEF limit, record
<1>6. GapsAreTold'
  <2>1. IsFiniteSet({LimitDiagnostic(limit, p)})
    BY FS_Singleton
  <2>2. LimitDiagnostic(limit, p).code \notin GapCodes
    BY <1>3 DEF LimitDiagnostic, Diagnostic, GapCodes, Limits
  <2> QED  BY <1>2, <2>1, <2>2, NoGapAdded DEF ScanInv, analysisVars
<1> QED  BY <1>1, <1>2, <1>4, <1>5, <1>6, RecordKeeps DEF MeetLimit, Inspecting

LEMMA ReadKeeps == ASSUME ScanInv, Read, UNCHANGED analysisVars PROVE ScanInv'
<1> DEFINE p == reading.path
           found == checkout[p]
           text == [included |-> TRUE, reason |-> None, size |-> reading.size, text |-> found.text]
<1>1. p \in Paths \ DOMAIN records /\ p \notin candidates /\ stage = "inspect"
  BY DEF Read, ScanInv, RecordedOnce
<1>2. found \in Contents[p]
  BY <1>1 DEF ScanInv, BytesAreFound
<1>3. candidates' = candidates \ {p}
  BY <1>1 DEF Read
<1>4. /\ curtailed' = curtailed /\ stage' = stage /\ checkout' = checkout /\ reading' = None
  BY DEF Read
<1>5. CASE ~found.readable
  <2>1. Record(p, Excluded(p, reading.size, "unreadable"))
        /\ diagnostics' = diagnostics \cup {Diagnostic("DISCOVERY_UNREADABLE", p)}
    BY <1>5 DEF Read
  <2>2. GapsAreTold'
    <3>1. IsFiniteSet({Diagnostic("DISCOVERY_UNREADABLE", p)})
      BY FS_Singleton
    <3> QED  BY <2>1, <3>1, NoGapAdded DEF ScanInv, Diagnostic, GapCodes, analysisVars
  <2>3. Excluded(p, reading.size, "unreadable").reason \notin Limits
        /\ Excluded(p, reading.size, "unreadable").included = FALSE
    BY DEF Excluded, Limits
  <2> HIDE DEF p
  <2> QED  BY <1>1, <1>3, <1>4, <2>1, <2>2, <2>3, RecordKeeps
<1>6. CASE found.readable /\ found.text = Binary
  <2>1. Record(p, Excluded(p, reading.size, "binary")) /\ diagnostics' = diagnostics
    BY <1>6 DEF Read
  <2>2. GapsAreTold'
    BY <2>1, SameDiagnostics DEF ScanInv, analysisVars
  <2>3. Excluded(p, reading.size, "binary").reason \notin Limits
        /\ Excluded(p, reading.size, "binary").included = FALSE
    BY DEF Excluded, Limits
  <2> HIDE DEF p
  <2> QED  BY <1>1, <1>3, <1>4, <2>1, <2>2, <2>3, RecordKeeps
<1>7. CASE found.readable /\ found.text # Binary
  <2>1. Record(p, text) /\ diagnostics' = diagnostics
    BY <1>7 DEF Read
  <2>2. GapsAreTold'
    BY <2>1, SameDiagnostics DEF ScanInv, analysisVars
  <2>3. text.reason \notin Limits
    BY AnalysisAssumption
  <2>4. text.included = TRUE /\ text.text \in DOMAIN Trees \cup Unparsed \cup {TooDeep}
    BY <1>1, <1>2, <1>7, AnalysisAssumption
  <2> HIDE DEF p, text
  <2> QED  BY <1>1, <1>3, <1>4, <2>1, <2>2, <2>3, <2>4, RecordKeeps
<1> QED  BY <1>5, <1>6, <1>7

\* What moves neither the files nor what was read of them.
LEMMA StageMoves ==
    ASSUME ScanInv, stage' \in {"inspect", "discovered", "cancelled", "failed"}, stage # "list",
           stage' \in {"inspect", "discovered"} => stage = "inspect",
           DOMAIN checkout' = Paths, \A p \in Paths : checkout'[p] \in Contents[p],
           candidates' \subseteq candidates, reading' = reading \/ reading' = None,
           stage' = "inspect" \/ reading' = None,
           UNCHANGED <<records, curtailed, diagnostics, analysisVars>>
    PROVE  ScanInv'
<1>1. RecordedOnce'
  BY DEF ScanInv, RecordedOnce
<1>2. BytesAreFound' /\ LimitsAreTold'
  BY DEF ScanInv, BytesAreFound, LimitsAreTold
<1>3. ParsedIsIncluded' /\ EvidenceIsOfTheFiles'
  BY DEF ScanInv, ParsedIsIncluded, EvidenceIsOfTheFiles, Evaluated, analysisVars
<1>4. GapsAreTold'
  BY SameDiagnostics DEF ScanInv, analysisVars
<1> QED  BY <1>1, <1>2, <1>3, <1>4 DEF ScanInv

LEMMA EditKeeps ==
    ASSUME ScanInv, NEW p \in Paths, Edit(p), UNCHANGED analysisVars
    PROVE  ScanInv'
<1>1. PICK found \in Contents[p] : checkout' = [checkout EXCEPT ![p] = found]
  BY DEF Edit
<1>2. BytesAreFound'
  BY <1>1 DEF ScanInv, BytesAreFound, Edit
<1>3. RecordedOnce' /\ LimitsAreTold'
  BY DEF ScanInv, RecordedOnce, LimitsAreTold, Edit
<1>4. ParsedIsIncluded' /\ EvidenceIsOfTheFiles'
  <2>1. Included' = Included
    BY DEF Included, Edit
  <2>2. stage \notin Evaluated
    BY DEF Edit, Evaluated
  <2> QED  BY <2>1, <2>2 DEF ScanInv, ParsedIsIncluded, EvidenceIsOfTheFiles, Edit, analysisVars
<1>5. GapsAreTold'
  BY SameDiagnostics DEF ScanInv, Edit, analysisVars
<1> QED  BY <1>2, <1>3, <1>4, <1>5 DEF ScanInv, Edit

LEMMA ListKeeps == ASSUME ScanInv, List, UNCHANGED analysisVars PROVE ScanInv'
<1> USE DEF List
<1>1. candidates' \subseteq Paths
  BY DEF GitCandidates, WalkCandidates
<1>2. RecordedOnce'
  BY <1>1 DEF ScanInv, RecordedOnce
<1>3. BytesAreFound' /\ LimitsAreTold'
  BY DEF ScanInv, BytesAreFound, LimitsAreTold
<1>4. ParsedIsIncluded' /\ EvidenceIsOfTheFiles'
  BY DEF ScanInv, ParsedIsIncluded, EvidenceIsOfTheFiles, Evaluated, analysisVars
<1>5. GapsAreTold'
  <2> DEFINE A == {Diagnostic("in_cached_directory", None)}
             B == {Diagnostic("in_configured_directory", None)}
             C == {Diagnostic("in_linked_directory", None)}
             All == (A \cup B) \cup C
  <2>1. IsFiniteSet(All)
    <3>1. IsFiniteSet(A) /\ IsFiniteSet(B) /\ IsFiniteSet(C)
      BY FS_Singleton
    <3> HIDE DEF A, B, C
    <3>2. IsFiniteSet(A \cup B)
      BY <3>1, FS_Union
    <3> QED  BY <3>1, <3>2, FS_Union
  <2>2. diagnostics' \subseteq All
    BY DEF DirectoryDiagnostics, Pruned
  <2>3. IsFiniteSet(diagnostics')
    <3> HIDE DEF All
    <3> QED  BY <2>1, <2>2, FS_Subset
  <2>4. \A d \in diagnostics' : d.code \notin GapCodes
    BY <2>2 DEF Pruned, GapCodes, Diagnostic
  <2>5. DOMAIN parsed' = {}
    BY DEF ScanInv, ParsedIsIncluded, analysisVars
  <2> QED  BY <2>3, <2>4, <2>5 DEF GapsAreTold, GapDiagnostics
<1> QED  BY <1>2, <1>3, <1>4, <1>5 DEF ScanInv

LEMMA DiscoveryKeeps == ASSUME ScanInv, Discovery PROVE ScanInv'
<1>0. UNCHANGED analysisVars
  BY DEF Discovery
<1>1. ASSUME NEW p \in Paths, Edit(p) PROVE ScanInv'
  BY <1>0, <1>1, EditKeeps
<1>2. ASSUME NEW p \in Paths, InspectMissing(p) PROVE ScanInv'
  BY <1>0, <1>2, InspectMissingKeeps
<1>3. ASSUME NEW p \in Paths, LeaveOut(p) PROVE ScanInv'
  BY <1>0, <1>3, LeaveOutKeeps
<1>4. ASSUME NEW p \in Paths, MeetLimit(p) PROVE ScanInv'
  BY <1>0, <1>4, MeetLimitKeeps
<1>5. ASSUME NEW p \in Paths, Open(p) PROVE ScanInv'
  <2> USE <1>5 DEF Open, Inspecting
  <2>1. reading'.path = p
    OBVIOUS
  <2>2. RecordedOnce'
    BY <2>1 DEF ScanInv, RecordedOnce
  <2>3. BytesAreFound' /\ LimitsAreTold'
    BY DEF ScanInv, BytesAreFound, LimitsAreTold
  <2>4. ParsedIsIncluded' /\ EvidenceIsOfTheFiles'
    BY <1>0 DEF ScanInv, ParsedIsIncluded, EvidenceIsOfTheFiles, Evaluated, analysisVars
  <2>5. GapsAreTold'
    BY <1>0, SameDiagnostics DEF ScanInv, analysisVars
  <2> QED  BY <2>2, <2>3, <2>4, <2>5 DEF ScanInv
<1>6. CASE List
  BY <1>0, <1>6, ListKeeps
<1>7. CASE Read
  BY <1>0, <1>7, ReadKeeps
<1>8. CASE Discovered \/ CancelDiscovery
  <2>1. DOMAIN checkout' = Paths /\ \A p \in Paths : checkout'[p] \in Contents[p]
    BY <1>8 DEF ScanInv, BytesAreFound, Discovered, CancelDiscovery
  <2> QED  BY <1>0, <1>8, <2>1, StageMoves DEF Discovered, CancelDiscovery
<1>9. CASE GitFails
  <2> USE <1>9 DEF GitFails
  <2>1. RecordedOnce' /\ BytesAreFound' /\ LimitsAreTold'
    BY DEF ScanInv, RecordedOnce, BytesAreFound, LimitsAreTold
  <2>2. ParsedIsIncluded' /\ EvidenceIsOfTheFiles'
    BY <1>0 DEF ScanInv, ParsedIsIncluded, EvidenceIsOfTheFiles, Evaluated, analysisVars
  <2>3. GapsAreTold'
    BY <1>0, SameDiagnostics DEF ScanInv, analysisVars
  <2> QED  BY <2>1, <2>2, <2>3 DEF ScanInv
<1> QED  BY <1>1, <1>2, <1>3, <1>4, <1>5, <1>6, <1>7, <1>8, <1>9 DEF Discovery, Discover

LEMMA StartAnalysisKeeps == ASSUME ScanInv, StartAnalysis PROVE ScanInv'
<1> USE DEF StartAnalysis
<1>1. Included' = Included /\ Included \subseteq DOMAIN records
  BY DEF Included
<1>2. RecordedOnce'
  BY <1>1 DEF ScanInv, RecordedOnce
<1>3. BytesAreFound' /\ LimitsAreTold'
  BY DEF ScanInv, BytesAreFound, LimitsAreTold
<1>4. ParsedIsIncluded' /\ EvidenceIsOfTheFiles'
  BY <1>1 DEF ScanInv, ParsedIsIncluded, EvidenceIsOfTheFiles, Evaluated, analysisVars
<1>5. GapsAreTold'
  BY SameDiagnostics DEF ScanInv, analysisVars
<1> QED  BY <1>2, <1>3, <1>4, <1>5 DEF ScanInv

LEMMA AnalyzeFileKeeps == ASSUME ScanInv, NEW p \in Paths, AnalyzeFile(p) PROVE ScanInv'
<1> USE DEF AnalyzeFile
<1>1. p \in Included /\ p \in DOMAIN records /\ p \notin DOMAIN parsed /\ records[p].included
  BY DEF ScanInv, ParsedIsIncluded, Included
<1>2. /\ DOMAIN parsed' = DOMAIN parsed \cup {p} /\ parsed'[p] = ParseStatus(records[p].text)
      /\ \A q \in DOMAIN parsed : parsed'[q] = parsed[q]
  BY <1>1
<1>3. RecordedOnce' /\ BytesAreFound' /\ LimitsAreTold'
  BY DEF ScanInv, RecordedOnce, BytesAreFound, LimitsAreTold
<1>4. ParsedIsIncluded'
  <2>1. Included' = Included
    BY DEF Included
  <2> QED  BY <1>1, <1>2, <2>1 DEF ScanInv, ParsedIsIncluded, Evaluated
<1>5. EvidenceIsOfTheFiles'
  BY DEF EvidenceIsOfTheFiles, Evaluated
<1>6. GapsAreTold'
  <2>1. IsFiniteSet(diagnostics')
    <3> DEFINE told == Diagnostic(IF records[p].text = "malformed" THEN "PY_PARSE_ERROR"
                                  ELSE "PY_DECODE_ERROR", p)
    <3>1. ParseDiagnostics(p) \subseteq {told} /\ IsFiniteSet({told})
      BY FS_Singleton DEF ParseDiagnostics
    <3>2. IsFiniteSet(ParseDiagnostics(p))
      BY <3>1, FS_Subset
    <3>3. IsFiniteSet(diagnostics)
      BY DEF ScanInv, GapsAreTold
    <3> QED  BY <3>2, <3>3, FS_Union
  <2>2. ParseDiagnostics(p) # {} <=> parsed'[p] # "parsed"
    BY <1>2 DEF ParseDiagnostics, ParseStatus, Unparsed
  <2>3. \A d \in ParseDiagnostics(p) : d.code \in GapCodes
    BY DEF ParseDiagnostics, Diagnostic, GapCodes
  <2>4. GapDiagnostics' = GapDiagnostics \cup ParseDiagnostics(p)
    BY <2>3 DEF GapDiagnostics
  <2>5. GapDiagnostics # {} <=> \E q \in DOMAIN parsed : parsed[q] # "parsed"
    BY DEF ScanInv, GapsAreTold
  <2> QED  BY <1>2, <2>1, <2>2, <2>4, <2>5 DEF GapsAreTold
<1> QED  BY <1>3, <1>4, <1>5, <1>6 DEF ScanInv

\* What is derived from the files stays as long as they do.
LEMMA SameEvidence ==
    ASSUME parsed' = parsed, records' = records
    PROVE  Modules' = Modules /\ Symbols' = Symbols
<1>1. ParsedPaths' = ParsedPaths
  BY DEF ParsedPaths
<1>2. \A p : ModuleRecord(p)' = ModuleRecord(p)
  BY DEF ModuleRecord, Tree
<1>3. \A p : Tree(p)' = Tree(p)
  BY DEF Tree
<1> QED  BY <1>1, <1>2, <1>3 DEF Modules, Symbols

\* The phases after the parsing leave the files alone.
LEMMA PhaseKeeps ==
    ASSUME ScanInv, stage \in {"analysis"} \cup Evaluated, stage' \in {"cancelled", "failed"} \cup Evaluated,
           stage = "analysis" => candidates = {} \/ stage' \notin Evaluated,
           UNCHANGED <<checkout, reading, records, curtailed, diagnostics, parsed, candidates>>,
           EvidenceIsOfTheFiles'
    PROVE  ScanInv'
<1>1. RecordedOnce' /\ BytesAreFound' /\ LimitsAreTold'
  BY DEF ScanInv, RecordedOnce, BytesAreFound, LimitsAreTold, Evaluated
<1>2. ParsedIsIncluded'
  <2>1. Included' = Included
    BY DEF Included
  <2> QED  BY <2>1 DEF ScanInv, ParsedIsIncluded, Evaluated
<1>3. GapsAreTold'
  BY SameDiagnostics DEF ScanInv
<1> QED  BY <1>1, <1>2, <1>3 DEF ScanInv, Evaluated

LEMMA RelateKeeps == ASSUME ScanInv, Relate PROVE ScanInv'
<1>1. parsed' = parsed /\ records' = records /\ stage' = "relationships"
  BY DEF Relate
<1>2. evidence'.modules = Modules /\ evidence'.symbols = Symbols
  BY DEF Relate
<1>3. EvidenceIsOfTheFiles'
  BY <1>1, <1>2, SameEvidence DEF EvidenceIsOfTheFiles
<1> QED  BY <1>1, <1>3, PhaseKeeps DEF Relate, Evaluated

LEMMA ScanStep == ScanInv /\ [AnalysisNext]_repositoryVars => ScanInv'
<1> SUFFICES ASSUME ScanInv, [AnalysisNext]_repositoryVars PROVE ScanInv'
  OBVIOUS
<1>1. CASE Discovery
  BY <1>1, DiscoveryKeeps
<1>2. CASE StartAnalysis
  BY <1>2, StartAnalysisKeeps
<1>3. ASSUME NEW p \in Paths, AnalyzeFile(p) PROVE ScanInv'
  BY <1>3, AnalyzeFileKeeps
<1>4. ASSUME NEW p \in Paths, ParserGivesUp(p) PROVE ScanInv'
  <2>1. EvidenceIsOfTheFiles'
    BY <1>4 DEF ParserGivesUp, EvidenceIsOfTheFiles, Evaluated
  <2> QED  BY <1>4, <2>1, PhaseKeeps DEF ParserGivesUp, Evaluated, analysisVars
<1>5. CASE Cancel
  <2>1. EvidenceIsOfTheFiles'
    BY <1>5 DEF Cancel, EvidenceIsOfTheFiles, Evaluated
  <2> QED  BY <1>5, <2>1, PhaseKeeps DEF Cancel, Evaluated, analysisVars
<1>6. CASE Relate
  BY <1>6, RelateKeeps
<1>7. CASE Find
  <2>1. evidence'.modules = evidence.modules /\ evidence'.symbols = evidence.symbols
    BY <1>7 DEF Find
  <2>2. parsed' = parsed /\ records' = records /\ stage = "relationships" /\ stage' = "findings"
    BY <1>7 DEF Find
  <2>3. EvidenceIsOfTheFiles'
    BY <2>1, <2>2, SameEvidence DEF ScanInv, EvidenceIsOfTheFiles, Evaluated
  <2> QED  BY <1>7, <2>2, <2>3, PhaseKeeps DEF Find, Evaluated
<1>8. CASE Store
  <2>2. parsed' = parsed /\ records' = records /\ evidence' = evidence /\ stage = "findings"
        /\ stage' \in {"stored", "rejected"}
    BY <1>8 DEF Store, analysisVars
  <2>3. EvidenceIsOfTheFiles'
    BY <2>2, SameEvidence DEF ScanInv, EvidenceIsOfTheFiles, Evaluated
  <2> QED  BY <1>8, <2>2, <2>3, PhaseKeeps DEF Store, Evaluated
<1>9. CASE UNCHANGED repositoryVars
  <2> USE <1>9 DEF repositoryVars, discoveryVars, analysisVars
  <2>1. RecordedOnce' /\ BytesAreFound' /\ LimitsAreTold'
    BY DEF ScanInv, RecordedOnce, BytesAreFound, LimitsAreTold
  <2>2. Included' = Included
    BY DEF Included
  <2>3. ParsedIsIncluded'
    BY <2>2 DEF ScanInv, ParsedIsIncluded
  <2>4. EvidenceIsOfTheFiles'
    BY SameEvidence DEF ScanInv, EvidenceIsOfTheFiles
  <2>5. GapsAreTold'
    BY SameDiagnostics DEF ScanInv
  <2> QED  BY <2>1, <2>3, <2>4, <2>5 DEF ScanInv
<1> QED  BY <1>1, <1>2, <1>3, <1>4, <1>5, <1>6, <1>7, <1>8, <1>9 DEF AnalysisNext

LEMMA ScansKeep == AnalysisSpec => []ScanInv
<1> QED  BY ScanStarts, ScanStep, PTL DEF AnalysisSpec

\* A file has the diagnostic of those that could not be read if it is one of them.
UnreadableAreTold ==
    \A p \in Paths : Diagnostic("DISCOVERY_UNREADABLE", p) \in diagnostics
                     <=> p \in DOMAIN records /\ records[p].reason = "unreadable"

\* One more record, and what is told with it.
LEMMA UnreadableRecorded ==
    ASSUME UnreadableAreTold, NEW p \in Paths \ DOMAIN records, NEW record, Record(p, record),
           NEW S, diagnostics' = diagnostics \cup S,
           \A q \in Paths : Diagnostic("DISCOVERY_UNREADABLE", q) \in S
                            <=> q = p /\ record.reason = "unreadable"
    PROVE  UnreadableAreTold'
<1>1. /\ DOMAIN records' = DOMAIN records \cup {p} /\ records'[p] = record
      /\ \A q \in DOMAIN records : records'[q] = records[q]
  BY RecordAdded
<1> QED  BY <1>1 DEF UnreadableAreTold

LEMMA OtherwiseRecorded ==
    ASSUME UnreadableAreTold, NEW p \in Paths \ DOMAIN records, NEW record, Record(p, record),
           diagnostics' = diagnostics, record.reason # "unreadable"
    PROVE  UnreadableAreTold'
<1>1. /\ DOMAIN records' = DOMAIN records \cup {p} /\ records'[p] = record
      /\ \A q \in DOMAIN records : records'[q] = records[q]
  BY RecordAdded
<1> QED  BY <1>1 DEF UnreadableAreTold

LEMMA UnreadableStep ==
    ASSUME ScanInv, UnreadableAreTold, [AnalysisNext]_repositoryVars
    PROVE  UnreadableAreTold'
<1> DEFINE told(q) == Diagnostic("DISCOVERY_UNREADABLE", q)
<1>0. \A q, r : told(q) = told(r) <=> q = r
  <2>1. \A q : told(q).path = q
    BY DEF Diagnostic
  <2> QED  BY <2>1
<1>1. ASSUME NEW p \in Paths, InspectMissing(p) PROVE UnreadableAreTold'
  <2>1. p \notin DOMAIN records
    BY <1>1 DEF InspectMissing, Inspecting, ScanInv, RecordedOnce
  <2> DEFINE record == Excluded(p, 0, "unreadable")
             S == {told(p)}
  <2>2. \A q \in Paths : told(q) \in S <=> q = p /\ record.reason = "unreadable"
    BY <1>0 DEF Excluded
  <2>3. Record(p, record) /\ diagnostics' = diagnostics \cup S
    BY <1>1 DEF InspectMissing
  <2> HIDE DEF record, S
  <2> QED  BY <2>1, <2>2, <2>3, UnreadableRecorded
<1>2. ASSUME NEW p \in Paths, LeaveOut(p) PROVE UnreadableAreTold'
  <2>1. p \notin DOMAIN records
    BY <1>2 DEF LeaveOut, Inspecting, ScanInv, RecordedOnce
  <2> DEFINE record == Excluded(p, checkout[p].size, PreReadExclusion(p))
  <2>2. record.reason # "unreadable"
    BY <1>2, ReasonsAreNoLimits DEF LeaveOut, Excluded
  <2>3. Record(p, record) /\ diagnostics' = diagnostics
    BY <1>2 DEF LeaveOut
  <2> HIDE DEF record
  <2> QED  BY <2>1, <2>2, <2>3, OtherwiseRecorded
<1>3. ASSUME NEW p \in Paths, MeetLimit(p) PROVE UnreadableAreTold'
  <2> DEFINE limit == LimitMet(checkout[p].size)
             record == Excluded(p, checkout[p].size, limit)
             S == {LimitDiagnostic(limit, p)}
  <2>1. p \notin DOMAIN records
    BY <1>3 DEF MeetLimit, Inspecting, ScanInv, RecordedOnce
  <2>2. limit \in Limits
    BY <1>3 DEF MeetLimit, LimitMet, Limits
  <2>3. record.reason # "unreadable"
    BY <2>2 DEF Excluded, Limits
  <2>4. \A q \in Paths : told(q) # LimitDiagnostic(limit, p)
    <3>1. LimitDiagnostic(limit, p).code \in Limits
      BY <2>2 DEF LimitDiagnostic, Diagnostic
    <3>2. \A q : told(q).code = "DISCOVERY_UNREADABLE"
      BY DEF Diagnostic
    <3> QED  BY <3>1, <3>2 DEF Limits
  <2>5. Record(p, record) /\ diagnostics' = diagnostics \cup S
    BY <1>3 DEF MeetLimit
  <2>6. \A q \in Paths : told(q) \in S <=> q = p /\ record.reason = "unreadable"
    BY <2>3, <2>4
  <2> HIDE DEF limit, record, S
  <2> QED  BY <2>1, <2>5, <2>6, UnreadableRecorded
<1>4. CASE Read
  <2> DEFINE p == reading.path
             found == checkout[p]
             text == [included |-> TRUE, reason |-> None, size |-> reading.size, text |-> found.text]
  <2>1. p \in Paths \ DOMAIN records
    BY <1>4 DEF Read, ScanInv, RecordedOnce
  <2>2. CASE ~found.readable
    <3> DEFINE record == Excluded(p, reading.size, "unreadable")
               S == {told(p)}
    <3>1. Record(p, record) /\ diagnostics' = diagnostics \cup S
      BY <1>4, <2>2 DEF Read
    <3>2. \A q \in Paths : told(q) \in S <=> q = p /\ record.reason = "unreadable"
      BY <1>0 DEF Excluded
    <3> HIDE DEF p, record, S
    <3> QED  BY <2>1, <3>1, <3>2, UnreadableRecorded
  <2>3. CASE found.readable /\ found.text = Binary
    <3> DEFINE record == Excluded(p, reading.size, "binary")
    <3>1. Record(p, record) /\ diagnostics' = diagnostics
      BY <1>4, <2>3 DEF Read
    <3>2. record.reason # "unreadable"
      BY DEF Excluded
    <3> HIDE DEF p, record
    <3> QED  BY <2>1, <3>1, <3>2, OtherwiseRecorded
  <2>4. CASE found.readable /\ found.text # Binary
    <3>1. Record(p, text) /\ diagnostics' = diagnostics
      BY <1>4, <2>4 DEF Read
    <3>2. text.reason # "unreadable"
      BY AnalysisAssumption
    <3> HIDE DEF p, text
    <3> QED  BY <2>1, <3>1, <3>2, OtherwiseRecorded
  <2> QED  BY <2>2, <2>3, <2>4
<1>5. CASE List
  <2>1. DOMAIN records = {} /\ records' = records
    BY <1>5 DEF List, ScanInv, RecordedOnce
  <2>2. \A d \in diagnostics' : d.code \in Pruned
    BY <1>5 DEF List, DirectoryDiagnostics, Diagnostic
  <2>3. \A q : told(q) \notin diagnostics'
    BY <2>2 DEF Diagnostic, Pruned
  <2> QED  BY <2>1, <2>3 DEF UnreadableAreTold
<1>6. ASSUME NEW p \in Paths, AnalyzeFile(p) PROVE UnreadableAreTold'
  <2>1. \A d \in ParseDiagnostics(p) : d.code \in GapCodes
    BY DEF ParseDiagnostics, Diagnostic, GapCodes
  <2>2. \A q : told(q) \notin ParseDiagnostics(p)
    BY <2>1 DEF Diagnostic, GapCodes
  <2>3. records' = records /\ diagnostics' = diagnostics \cup ParseDiagnostics(p)
    BY <1>6 DEF AnalyzeFile
  <2> QED  BY <2>2, <2>3 DEF UnreadableAreTold
<1>7. ASSUME UNCHANGED <<records, diagnostics>> PROVE UnreadableAreTold'
  BY <1>7 DEF UnreadableAreTold
<1>8. ASSUME NEW p \in Paths, Edit(p) \/ Open(p) \/ ParserGivesUp(p) PROVE UnreadableAreTold'
  BY <1>7, <1>8 DEF Edit, Open, ParserGivesUp
<1>9. CASE GitFails \/ Discovered \/ CancelDiscovery
  BY <1>7, <1>9 DEF GitFails, Discovered, CancelDiscovery
<1>10. CASE StartAnalysis \/ Relate \/ Find \/ Store \/ Cancel \/ UNCHANGED repositoryVars
  BY <1>7, <1>10 DEF StartAnalysis, Relate, Find, Store, Cancel, repositoryVars, discoveryVars
<1> QED  BY <1>1, <1>2, <1>3, <1>4, <1>5, <1>6, <1>8, <1>9, <1>10
         DEF AnalysisNext, Discovery, Discover

LEMMA UnreadableTold == AnalysisSpec => []UnreadableAreTold
<1>1. AnalysisInit => UnreadableAreTold
  BY DEF AnalysisInit, DiscoveryInit, UnreadableAreTold
<1>2. ScanInv /\ UnreadableAreTold /\ [AnalysisNext]_repositoryVars => UnreadableAreTold'
  BY UnreadableStep
<1> QED  BY <1>1, <1>2, ScansKeep, PTL DEF AnalysisSpec

LEMMA InvTells == ScanInv /\ UnreadableAreTold => LeftOutFilesAreTold
<1> SUFFICES ASSUME ScanInv, UnreadableAreTold, stage = "stored" PROVE
        /\ "snapshot-truncated" \in Told <=> \E p \in DOMAIN records : records[p].reason \in Limits
        /\ "snapshot-parse-gaps" \in Told <=> \E p \in Included : p \notin ParsedPaths
        /\ Told = {} => \A p \in Included : ModuleRecord(p) \in evidence.modules
  BY DEF LeftOutFilesAreTold, ScanInv, RecordedOnce, UnreadableAreTold
<1>1. SnapshotFacts.truncated = curtailed
      /\ SnapshotFacts.gaps = Cardinality(GapDiagnostics)
  BY DEF SnapshotFacts, GapDiagnostics
<1>2. LifecycleCode(SnapshotFacts.reason) \cap {"snapshot-truncated", "snapshot-parse-gaps"} = {}
  BY DEF LifecycleCode
<1>3. "snapshot-truncated" \in Told <=> curtailed
  BY <1>1, <1>2 DEF Told, Limitations
<1>4. "snapshot-parse-gaps" \in Told <=> GapDiagnostics # {}
  <2>1. IsFiniteSet(GapDiagnostics)
    <3>1. GapDiagnostics \subseteq diagnostics /\ IsFiniteSet(diagnostics)
      BY DEF ScanInv, GapsAreTold, GapDiagnostics
    <3> QED  BY <3>1, FS_Subset
  <2>2. Cardinality(GapDiagnostics) > 0 <=> GapDiagnostics # {}
    BY <2>1, FS_CardinalityType, FS_EmptySet
  <2> QED  BY <1>1, <1>2, <2>2 DEF Told, Limitations
<1>5. GapDiagnostics # {} <=> \E p \in Included : p \notin ParsedPaths
  BY DEF ScanInv, GapsAreTold, ParsedIsIncluded, ParsedPaths, Evaluated
<1>6. ASSUME Told = {} PROVE \A p \in Included : ModuleRecord(p) \in evidence.modules
  <2>1. \A p \in Included : p \in ParsedPaths
    BY <1>4, <1>5, <1>6
  <2> QED  BY <2>1 DEF ScanInv, EvidenceIsOfTheFiles, Evaluated, Modules
<1> QED  BY <1>3, <1>4, <1>5, <1>6 DEF ScanInv, LimitsAreTold

\* Whatever the limits, the files and those who write them meanwhile: what a limit
\* met truncates, what does not parse is a gap, what cannot be read has its
\* diagnostic, and with no limitation told all that was included is there.  What
\* is binary or cannot be read is no limitation (RepositoryReviewService.analyze).
THEOREM LeftOutFilesAreAlwaysTold == AnalysisSpec => []LeftOutFilesAreTold
<1> QED  BY ScansKeep, UnreadableTold, InvTells, PTL

-----------------------------------------------------------------------------
(* The symbols of a file.  The chains of definitions grow by one definition at  *)
(* a time, so that every symbol that is written in another has that one's row.  *)

IsChain(c) == \E U : c \in Seq(U) /\ c # <<>>

LEMMA ChainsGrow ==
    ASSUME NEW body, MaxNesting \in Nat \ {0}
    PROVE  \E f :
             /\ f[0] = {} /\ f[MaxNesting] = Chains(body)
             /\ \A n \in 1 .. MaxNesting :
                   f[n] = {<<d>> : d \in DefinedIn(body)} \cup Longer(f[n - 1])
<1> DEFINE single == {<<d>> : d \in DefinedIn(body)}
           next(f, n) == IF n = 0 THEN {} ELSE single \cup Longer(f[n - 1])
           N == MaxNesting
           upTo == CHOOSE f : f = [n \in 0 .. N |-> next(f, n)]
<1>1. Chains(body) = upTo[N]
  BY DEF Chains
<1> HIDE DEF single
<1>2. \E f : f = [n \in 0 .. N |-> next(f, n)]
  <2> DEFINE P == {k \in 0 .. N : \E f : /\ f = [n \in 0 .. k |-> f[n]]
                                         /\ \A n \in 0 .. k : f[n] = next(f, n)}
  <2>1. 0 \in P
    <3> DEFINE f == [n \in 0 .. 0 |-> {}]
    <3>1. f = [n \in 0 .. 0 |-> f[n]] /\ \A n \in 0 .. 0 : f[n] = next(f, n)
      OBVIOUS
    <3>2. 0 \in 0 .. N
      OBVIOUS
    <3> HIDE DEF f, next
    <3> QED  BY <3>1, <3>2
  <2>2. ASSUME NEW k \in 1 .. N, k - 1 \in P PROVE k \in P
    <3>1. PICK f : f = [n \in 0 .. (k - 1) |-> f[n]] /\ \A n \in 0 .. (k - 1) : f[n] = next(f, n)
      BY <2>2
    <3> DEFINE g == [n \in 0 .. k |-> IF n = k THEN next(f, k) ELSE f[n]]
    <3>3. g = [n \in 0 .. k |-> g[n]]
      OBVIOUS
    <3> HIDE DEF next
    <3>4. ASSUME NEW n \in 0 .. k PROVE g[n] = next(g, n)
      <4>1. n # 0 => g[n - 1] = f[n - 1]
        OBVIOUS
      <4>2. next(g, n) = next(f, n)
        BY <4>1 DEF next
      <4> QED  BY <3>1, <4>2
    <3>5. k \in 0 .. N
      OBVIOUS
    <3> HIDE DEF g
    <3> QED  BY <3>3, <3>4, <3>5
  <2>3. N \in P
    <3>1. N \in Nat /\ N \in 0 .. N
      OBVIOUS
    <3> HIDE DEF P, N
    <3>2. 0 .. N \subseteq P
      BY <2>1, <2>2, <3>1, UpToBound
    <3> QED  BY <3>1, <3>2
  <2>4. PICK f : f = [n \in 0 .. N |-> f[n]] /\ \A n \in 0 .. N : f[n] = next(f, n)
    BY <2>3
  <2> HIDE DEF next
  <2>5. f = [n \in 0 .. N |-> next(f, n)]
    BY <2>4
  <2> QED  BY <2>5
<1>3. upTo = [n \in 0 .. N |-> next(upTo, n)]
  <2> HIDE DEF next
  <2> QED  BY <1>2
<1>4. \A n \in 0 .. N : upTo[n] = next(upTo, n)
  <2> HIDE DEF next, upTo
  <2> QED  BY <1>3
<1> HIDE DEF upTo
<1>5. upTo[0] = {}
  <2>1. 0 \in 0 .. N
    OBVIOUS
  <2>2. upTo[0] = next(upTo, 0)
    <3> HIDE DEF next
    <3> QED  BY <1>4, <2>1
  <2> QED  BY <2>2
<1>6. ASSUME NEW n \in 1 .. N PROVE upTo[n] = single \cup Longer(upTo[n - 1])
  <2>1. n \in 0 .. N /\ n # 0
    OBVIOUS
  <2>2. upTo[n] = next(upTo, n)
    <3> HIDE DEF next
    <3> QED  BY <1>4, <2>1
  <2> QED  BY <2>1, <2>2
<1> QED  BY <1>1, <1>5, <1>6 DEF single

LEMMA ChainsClosed ==
    ASSUME NEW body, MaxNesting \in Nat \ {0}, NEW c \in Chains(body)
    PROVE  /\ IsChain(c) /\ Last(c) = c[Len(c)] /\ Len(c) \in Nat \ {0}
           /\ Len(c) # 1 => /\ Front(c) \in Chains(body) /\ IsChain(Front(c))
                            /\ Len(Front(c)) = Len(c) - 1
                            /\ \A i \in 1 .. Len(c) - 1 : Front(c)[i] = c[i]
<1>1. PICK f :
             /\ f[0] = {} /\ f[MaxNesting] = Chains(body)
             /\ \A n \in 1 .. MaxNesting :
                   f[n] = {<<d>> : d \in DefinedIn(body)} \cup Longer(f[n - 1])
  BY ChainsGrow
<1> DEFINE Good(n) == /\ n # 0 => f[n - 1] \subseteq f[n]
                      /\ \A e \in f[n] : IsChain(e)
           P == {n \in 0 .. MaxNesting : Good(n)}
<1>2. 0 \in P
  BY <1>1
<1>3. ASSUME NEW n \in 1 .. MaxNesting, n - 1 \in P PROVE n \in P
  <2>1. f[n] = {<<d>> : d \in DefinedIn(body)} \cup Longer(f[n - 1])
    BY <1>1
  <2>2. f[n - 1] \subseteq f[n]
    <3>1. CASE n = 1
      BY <1>1, <3>1
    <3>2. CASE n # 1
      <4>1. n - 1 \in 1 .. MaxNesting /\ n - 1 # 0
        BY <3>2
      <4>2. f[n - 1] = {<<d>> : d \in DefinedIn(body)} \cup Longer(f[n - 1 - 1])
        BY <1>1, <4>1
      <4>3. f[n - 1 - 1] \subseteq f[n - 1]
        BY <1>3, <4>1
      <4>4. Longer(f[n - 1 - 1]) \subseteq Longer(f[n - 1])
        BY <4>3 DEF Longer
      <4> QED  BY <2>1, <4>2, <4>4
    <3> QED  BY <3>1, <3>2
  <2>3. ASSUME NEW e \in f[n] PROVE IsChain(e)
    <3>1. ASSUME NEW d, e = <<d>> PROVE IsChain(e)
      <4>1. e \in Seq({d}) /\ e # <<>>
        BY <3>1
      <4> QED  BY <4>1 DEF IsChain
    <3>2. ASSUME NEW c1 \in f[n - 1], NEW d, e = Append(c1, d) PROVE IsChain(e)
      <4>1. PICK U : c1 \in Seq(U)
        BY <1>3 DEF IsChain
      <4>2. c1 \in Seq(U \cup {d})
        BY <4>1
      <4>3. e \in Seq(U \cup {d}) /\ e # <<>>
        BY <3>2, <4>2
      <4> QED  BY <4>3 DEF IsChain
    <3> QED  BY <2>1, <3>1, <3>2 DEF Longer
  <2> QED  BY <2>2, <2>3
<1> DEFINE N == MaxNesting
<1>4. 0 .. N \subseteq P
  <2>1. N \in Nat
    OBVIOUS
  <2> HIDE DEF N, P
  <2> QED  BY <1>2, <1>3, <2>1, UpToBound DEF N
<1>5. Good(N) /\ N \in 1 .. N /\ c \in f[N]
  BY <1>1, <1>4
<1> HIDE DEF P
<1>6. PICK U : c \in Seq(U) /\ c # <<>>
  BY <1>5 DEF IsChain
<1>7. Len(c) \in Nat \ {0} /\ Last(c) = c[Len(c)]
  BY <1>6, EmptySeq DEF Last
<1>8. ASSUME Len(c) # 1
      PROVE  /\ Front(c) \in Chains(body) /\ IsChain(Front(c))
             /\ Len(Front(c)) = Len(c) - 1
             /\ \A i \in 1 .. Len(c) - 1 : Front(c)[i] = c[i]
  <2>1. c \in {<<d>> : d \in DefinedIn(body)} \cup Longer(f[N - 1])
    BY <1>1, <1>5
  <2>2. PICK c1 \in f[N - 1] : \E d : c = Append(c1, d)
    BY <1>8, <2>1 DEF Longer
  <2>3. PICK d : c = Append(c1, d)
    BY <2>2
  <2>4. c1 \in f[N] /\ IsChain(c1)
    BY <1>5
  <2>5. PICK V : c1 \in Seq(V) /\ c1 # <<>>
    BY <2>4 DEF IsChain
  <2>6. c1 \in Seq(V \cup {d})
    BY <2>5
  <2>7. Front(c) = c1
    <3>1. Front(c) = SubSeq(c, 1, Len(c) - 1) /\ Len(c) = Len(c1) + 1
      BY <2>3, <2>6 DEF Front
    <3>2. \A i \in 1 .. Len(c1) : c[i] = c1[i]
      BY <2>3, <2>6
    <3>3. SubSeq(c, 1, Len(c1)) = c1
      BY <1>6, <2>6, <3>1, <3>2
    <3> QED  BY <2>6, <3>1, <3>3
  <2>8. Len(c1) = Len(c) - 1 /\ \A i \in 1 .. Len(c) - 1 : c1[i] = c[i]
    BY <2>3, <2>6
  <2> QED  BY <1>1, <2>4, <2>7, <2>8
<1> QED  BY <1>5, <1>7, <1>8

\* A symbol in another lies in a definition of the same file.
LEMMA HolderIsDefined ==
    ASSUME NEW body, MaxNesting \in Nat \ {0}, NEW d \in Definitions(body)
    PROVE  /\ d.node = d.chain[Len(d.chain)] /\ IsChain(d.chain) /\ Len(d.chain) \in Nat \ {0}
           /\ d = [chain |-> d.chain, node |-> d.node]
           /\ Len(d.chain) # 1 =>
                 \E e \in Definitions(body) : /\ e.chain = Front(d.chain)
                                              /\ e.node = d.chain[Len(d.chain) - 1]
<1>1. PICK c \in Chains(body) : d = [chain |-> c, node |-> Last(c)]
  BY DEF Definitions
<1>2. /\ IsChain(c) /\ Last(c) = c[Len(c)] /\ Len(c) \in Nat \ {0}
      /\ Len(c) # 1 => /\ Front(c) \in Chains(body) /\ IsChain(Front(c))
                       /\ Len(Front(c)) = Len(c) - 1
                       /\ \A i \in 1 .. Len(c) - 1 : Front(c)[i] = c[i]
  BY ChainsClosed
<1>3. ASSUME Len(c) # 1
      PROVE  \E e \in Definitions(body) : e.chain = Front(c) /\ e.node = c[Len(c) - 1]
  <2> DEFINE e == [chain |-> Front(c), node |-> Last(Front(c))]
  <2>1. e \in Definitions(body)
    BY <1>2, <1>3 DEF Definitions
  <2>2. Last(Front(c)) = Front(c)[Len(c) - 1] /\ Len(c) - 1 \in 1 .. Len(c) - 1
    <3>1. Last(Front(c)) = Front(c)[Len(Front(c))]
      BY <1>2, <1>3, ChainsClosed
    <3>2. Len(c) - 1 \in 1 .. Len(c) - 1
      BY <1>2, <1>3
    <3> QED  BY <1>2, <1>3, <3>1, <3>2
  <2>3. e.chain = Front(c) /\ e.node = c[Len(c) - 1]
    BY <1>2, <1>3, <2>2
  <2> QED  BY <2>1, <2>3
<1> QED  BY <1>1, <1>2, <1>3

\* Only files whose syntax is known are parsed.
LEMMA ParsedIsSyntax ==
    ASSUME ScanInv, NEW p \in ParsedPaths
    PROVE  p \in Paths /\ p \in DOMAIN records /\ IsSyntax(Tree(p))
<1>1. /\ p \in DOMAIN records /\ parsed[p] = ParseStatus(records[p].text)
      /\ records[p].included /\ records[p].text # TooDeep /\ parsed[p] = "parsed"
  BY DEF ParsedPaths, ScanInv, ParsedIsIncluded
<1>2. records[p].text \notin Unparsed
  BY <1>1 DEF ParseStatus, Unparsed
<1>3. records[p].text \in DOMAIN Trees
  BY <1>1, <1>2 DEF ScanInv, BytesAreFound
<1> QED  BY <1>1, <1>3, AnalysisAssumption DEF ScanInv, RecordedOnce, Tree

LEMMA ModulesAre ==
    ASSUME ScanInv, NEW m \in Modules
    PROVE  /\ m.path \in ParsedPaths /\ m.path \in Paths /\ m.path \in DOMAIN records
           /\ m.id = <<m.path, 0>> /\ m.parts = PartsOf[m.path] /\ m.imports = Imports(Tree(m.path))
           /\ m = ModuleRecord(m.path)
<1>1. PICK p \in ParsedPaths : m = ModuleRecord(p)
  BY DEF Modules
<1> QED  BY <1>1, ParsedIsSyntax DEF ModuleRecord, ModuleId

LEMMA SymbolsAre ==
    ASSUME ScanInv, NEW s \in Symbols
    PROVE  /\ s.path \in ParsedPaths /\ s.path \in Paths /\ s.path \in DOMAIN records
           /\ \E d \in Definitions(Tree(s.path)) :
                 /\ s = SymbolRecord(s.path, d) /\ s.id = <<s.path, d.node.line>>
                 /\ d.node.line \in Nat \ {0}
<1>1. PICK p \in ParsedPaths : s \in {SymbolRecord(p, d) : d \in Definitions(Tree(p))}
  BY DEF Symbols
<1>2. PICK d \in Definitions(Tree(p)) : s = SymbolRecord(p, d)
  BY <1>1
<1>3. s.path = p /\ s.id = <<p, d.node.line>>
  BY <1>2 DEF SymbolRecord
<1>4. IsSyntax(Tree(p)) /\ p \in Paths /\ p \in DOMAIN records
  BY ParsedIsSyntax
<1>5. d.node.line \in Nat \ {0}
  BY <1>4 DEF IsSyntax
<1> QED  BY <1>2, <1>3, <1>4, <1>5

LEMMA SymbolsDiffer ==
    ASSUME ScanInv, NEW s \in Symbols, NEW t \in Symbols, s.id = t.id
    PROVE  s = t
<1>1. PICK d \in Definitions(Tree(s.path)) : s = SymbolRecord(s.path, d) /\ s.id = <<s.path, d.node.line>>
  BY SymbolsAre
<1>2. PICK e \in Definitions(Tree(t.path)) : t = SymbolRecord(t.path, e) /\ t.id = <<t.path, e.node.line>>
  BY SymbolsAre
<1>3. s.path = t.path /\ d.node.line = e.node.line
  <2>1. <<s.path, d.node.line>> = <<t.path, e.node.line>>
    BY <1>1, <1>2
  <2> QED  BY <2>1
<1>4. IsSyntax(Tree(s.path))
  BY SymbolsAre, ParsedIsSyntax
<1>5. d = e
  BY <1>3, <1>4 DEF IsSyntax
<1> QED  BY <1>1, <1>2, <1>3, <1>5

LEMMA ModulesAndSymbolsFit ==
    ASSUME ScanInv, stage \in Evaluated
    PROVE  ModulesFit /\ SymbolsFit
<1>1. evidence.modules = Modules /\ evidence.symbols = Symbols
  BY DEF ScanInv, EvidenceIsOfTheFiles
<1>2. ModulesFit
  <2>1. ASSUME NEW m \in Modules, NEW n \in Modules, m.id = n.id PROVE m = n
    <3>1. m.path = n.path
      BY <2>1, ModulesAre
    <3> QED  BY <3>1, ModulesAre
  <2>2. IsInjective([m \in Modules |-> m.id])
    BY <2>1 DEF IsInjective
  <2> QED  BY <1>1, <2>2, ModulesAre DEF ModulesFit
<1>3. SymbolsFit
  <2>1. IsInjective([s \in Symbols |-> s.id])
    BY SymbolsDiffer DEF IsInjective
  <2> QED  BY <1>1, <2>1, SymbolsAre DEF SymbolsFit
<1> QED  BY <1>2, <1>3

-----------------------------------------------------------------------------
(* The relationships.                                                         *)

IsEdge(e, nodes) ==
    /\ e.source \in nodes /\ e.target \in nodes \cup {NoName}
    /\ e.target # NoName <=> e.status \in ResolvedStatuses

LEMMA NotEmpty ==
    ASSUME NEW S, Cardinality(S) = 1
    PROVE  (CHOOSE x \in S : TRUE) \in S
<1>1. S # {}
  BY FS_EmptySet
<1> QED  BY <1>1

LEMMA IdsAreNames ==
    ASSUME ScanInv
    PROVE  /\ \A m \in Modules : m.id # NoName
           /\ \A s \in Symbols : s.id # NoName
<1>1. \A p \in Paths : \A n \in Nat : <<p, n>> # NoName
  BY AnalysisAssumption
<1>2. ASSUME NEW m \in Modules PROVE m.id # NoName
  <2>1. m.id = <<m.path, 0>> /\ m.path \in Paths
    BY ModulesAre
  <2> QED  BY <1>1, <2>1
<1>3. ASSUME NEW s \in Symbols PROVE s.id # NoName
  BY <1>1, SymbolsAre
<1> QED  BY <1>2, <1>3

LEMMA ImportEdgeFits ==
    ASSUME ScanInv, NEW m \in Modules, NEW imported
    PROVE  /\ IsEdge(ImportEdge(Modules, m, imported), GraphNodes(Modules, Symbols))
           /\ ImportEdge(Modules, m, imported).source = m.id
           /\ ImportEdge(Modules, m, imported).place = <<imported.at, ImportEvidence(m, imported)>>
<1> DEFINE matches == Named(Modules, ImportedModule(Modules, m, imported))
           place == <<imported.at, ImportEvidence(m, imported)>>
           found == CHOOSE n \in matches : TRUE
           edge == ImportEdge(Modules, m, imported)
<1>1. m.id \in GraphNodes(Modules, Symbols)
  BY DEF GraphNodes
<1>2. CASE Cardinality(matches) = 1
  <2>1. found \in matches
    BY <1>2, NotEmpty
  <2>2. found \in Modules
    BY <2>1 DEF Named
  <2>3. found.id \in GraphNodes(Modules, Symbols) /\ found.id # NoName
    BY <2>2, IdsAreNames DEF GraphNodes
  <2>4. edge = Edge("imports", m.id, found.id, "resolved-static", place)
    BY <1>2 DEF ImportEdge
  <2> HIDE DEF found, edge, place
  <2>5. /\ edge.source = m.id /\ edge.target = found.id /\ edge.status = "resolved-static"
        /\ edge.place = place
    BY <2>4 DEF Edge
  <2> QED  BY <1>1, <2>3, <2>5 DEF IsEdge, ResolvedStatuses, place, edge
<1>3. CASE Cardinality(matches) # 1
  <2>4. edge = Edge("imports", m.id, NoName,
                    IF matches = {} THEN "unresolved-dynamic" ELSE "ambiguous", place)
    BY <1>3 DEF ImportEdge
  <2> HIDE DEF matches, edge, place
  <2>5. /\ edge.source = m.id /\ edge.target = NoName
        /\ edge.status \in {"unresolved-dynamic", "ambiguous"} /\ edge.place = place
    BY <2>4 DEF Edge
  <2> QED  BY <1>1, <2>5 DEF IsEdge, ResolvedStatuses, place, edge
<1> QED  BY <1>2, <1>3

LEMMA TargetsAreSymbols ==
    ASSUME NEW modules, NEW symbols, NEW reference
    PROVE  /\ Resolution(modules, symbols, reference).targets \subseteq symbols
           /\ Resolution(modules, symbols, reference).status \in ResolvedStatuses
<1>1. \A name : Classes(symbols, name) \subseteq symbols
  BY DEF Classes
<1>2. LocalMatches(symbols, reference) \subseteq symbols
  BY <1>1 DEF LocalMatches
<1>3. ASSUME NEW target, target.type \in {"symbol", "module-import", "module"}
      PROVE  BindingMatches(symbols, reference, target) \subseteq symbols
  BY <1>1, <1>3 DEF BindingMatches
<1>4. ASSUME NEW m, NEW b \in Bindings(modules, symbols, m)
      PROVE  b.type \in {"symbol", "module-import", "module"}
  BY <1>4 DEF Bindings
<1>6. ImportMatches(modules, symbols, reference) \subseteq symbols
  BY <1>3, <1>4 DEF ImportMatches
<1>5. ExportMatches(modules, symbols, reference) \subseteq symbols
  BY DEF ExportMatches
<1> QED  BY <1>2, <1>5, <1>6 DEF Resolution, ResolvedStatuses

LEMMA ReferenceEdgeFits ==
    ASSUME ScanInv, NEW reference, reference.source \in GraphNodes(Modules, Symbols)
    PROVE  LET edge == ReferenceEdge(Modules, Symbols, reference)
           IN /\ IsEdge(edge, GraphNodes(Modules, Symbols))
              /\ edge.source = reference.source
              /\ edge.type = IF reference.kind = "inheritance" THEN "inherits" ELSE "references-type"
              /\ edge.place[1] = reference.at /\ edge.place[2] = reference.evidence
              /\ edge.target = NoName => edge.place[3] = reference.text
<1> DEFINE resolution == Resolution(Modules, Symbols, reference)
           type == IF reference.kind = "inheritance" THEN "inherits" ELSE "references-type"
           place(name) == <<reference.at, reference.evidence, name>>
           found == CHOOSE s \in resolution.targets : TRUE
           edge == ReferenceEdge(Modules, Symbols, reference)
<1>1. resolution.targets \subseteq Symbols /\ resolution.status \in ResolvedStatuses
  BY TargetsAreSymbols
<1>2. CASE Cardinality(resolution.targets) = 1
  <2>1. found \in resolution.targets
    BY <1>2, NotEmpty
  <2>2. found \in Symbols
    BY <1>1, <2>1
  <2>3. found.id \in GraphNodes(Modules, Symbols) /\ found.id # NoName
    BY <2>2, IdsAreNames DEF GraphNodes
  <2>4. edge = Edge(type, reference.source, found.id, resolution.status, place(<<>>))
    BY <1>2 DEF ReferenceEdge
  <2> HIDE DEF found, edge, place, type, resolution
  <2>5. /\ edge.source = reference.source /\ edge.target = found.id /\ edge.status = resolution.status
        /\ edge.place = place(<<>>) /\ edge.type = type
    BY <2>4 DEF Edge
  <2> QED  BY <1>1, <2>3, <2>5 DEF IsEdge, place, edge, type
<1>3. CASE Cardinality(resolution.targets) # 1
  <2>4. edge = Edge(type, reference.source, NoName,
                 IF resolution.targets = {} THEN "unresolved-dynamic" ELSE "ambiguous", place(reference.text))
    BY <1>3 DEF ReferenceEdge
  <2> HIDE DEF edge, place, type, resolution
  <2>5. /\ edge.source = reference.source /\ edge.target = NoName
        /\ edge.status \in {"unresolved-dynamic", "ambiguous"}
        /\ edge.place = place(reference.text) /\ edge.type = type
    BY <2>4 DEF Edge
  <2> QED  BY <2>5 DEF IsEdge, ResolvedStatuses, place, edge, type
<1> QED  BY <1>2, <1>3

\* The rows Relate makes.
ImportRow(m, i) == [row |-> <<m.id, i>>, edge |-> ImportEdges(Modules, m)[i]]
AllImports == UNION {{ImportRow(m, i) : i \in DOMAIN m.imports} : m \in Modules}
RowOf(p, d, r) == ReferenceRow(Modules, Symbols, p, d, r)
AllReferences == UNION {ReferenceRows(Modules, Symbols, p) : p \in ParsedPaths}

Repeated == \E p \in ParsedPaths : RepeatsItself(p)

LEMMA ImportsDiffer ==
    ASSUME ScanInv, NEW r \in AllImports, NEW s \in AllImports, r.edge = s.edge
    PROVE  r = s \/ Repeated
<1>1. PICK m \in Modules : \E i \in DOMAIN m.imports : r = ImportRow(m, i)
  BY DEF AllImports
<1>2. PICK i \in DOMAIN m.imports : r = ImportRow(m, i)
  BY <1>1
<1>3. PICK n \in Modules : \E j \in DOMAIN n.imports : s = ImportRow(n, j)
  BY DEF AllImports
<1>4. PICK j \in DOMAIN n.imports : s = ImportRow(n, j)
  BY <1>3
<1> DEFINE a == m.imports[i]
           b == n.imports[j]
<1>5. r.edge = ImportEdge(Modules, m, a) /\ s.edge = ImportEdge(Modules, n, b)
  BY <1>2, <1>4 DEF ImportRow, ImportEdges
<1>6. m.id = n.id /\ <<a.at, ImportEvidence(m, a)>> = <<b.at, ImportEvidence(n, b)>>
  <2>1. r.edge.source = m.id /\ r.edge.place = <<a.at, ImportEvidence(m, a)>>
    BY <1>5, ImportEdgeFits
  <2>2. s.edge.source = n.id /\ s.edge.place = <<b.at, ImportEvidence(n, b)>>
    BY <1>5, ImportEdgeFits
  <2> QED  BY <2>1, <2>2
<1>7. m = n
  <2>1. <<m.path, 0>> = <<n.path, 0>>
    BY <1>6, ModulesAre
  <2>2. m.path = n.path
    BY <2>1
  <2> QED  BY <2>2, ModulesAre
<1>8. a.at = b.at /\ AbsoluteName(m, a) = AbsoluteName(m, b) /\ a.name = b.name
  <2>1. a.at = b.at /\ ImportEvidence(m, a) = ImportEvidence(m, b)
    BY <1>6, <1>7
  <2> QED  BY <2>1 DEF ImportEvidence
<1>9. /\ a \in Range(Imports(Tree(m.path))) /\ b \in Range(Imports(Tree(m.path)))
      /\ IsSyntax(Tree(m.path))
  <2>1. m.imports = Imports(Tree(m.path)) /\ n.imports = Imports(Tree(m.path))
    BY <1>7, ModulesAre
  <2>2. IsSyntax(Tree(m.path))
    BY ModulesAre, ParsedIsSyntax
  <2> QED  BY <2>1, <2>2 DEF Range
<1> DEFINE R == [op : {"import"}, module : Seq(STRING), name : STRING \cup {NoName},
                 alias : STRING \cup {NoName}, level : Nat, at : Nat]
<1>10. a \in R /\ b \in R /\ a.level = b.level /\ (a.level > 0 => a.module = b.module)
  BY <1>8, <1>9 DEF IsSyntax
<1> HIDE DEF a, b
<1>11. a.level \in Nat
  BY <1>10
<1>12. a.module = b.module
  <2>1. CASE a.level = 0
    BY <1>8, <1>10, <2>1 DEF AbsoluteName
  <2>2. CASE a.level # 0
    BY <1>10, <1>11, <2>2
  <2> QED  BY <2>1, <2>2
<1>13. [a EXCEPT !.alias = NoName] = [b EXCEPT !.alias = NoName]
  <2>1. a = [op |-> "import", module |-> a.module, name |-> a.name, alias |-> a.alias,
             level |-> a.level, at |-> a.at]
    BY <1>10
  <2>2. b = [op |-> "import", module |-> a.module, name |-> a.name, alias |-> b.alias,
             level |-> a.level, at |-> a.at]
    BY <1>8, <1>10, <1>12
  <2>3. [a EXCEPT !.alias = NoName] =
            [op |-> "import", module |-> a.module, name |-> a.name, alias |-> NoName,
             level |-> a.level, at |-> a.at]
    BY <2>1
  <2>4. [b EXCEPT !.alias = NoName] =
            [op |-> "import", module |-> a.module, name |-> a.name, alias |-> NoName,
             level |-> a.level, at |-> a.at]
    BY <2>2
  <2> QED  BY <2>3, <2>4
<1>14. CASE i = j
  BY <1>2, <1>4, <1>7, <1>14
<1>15. CASE i # j
  <2>1. m.imports = Imports(Tree(m.path)) /\ m.path \in ParsedPaths
    BY ModulesAre
  <2>2. ImportsTwice(m.path)
    BY <1>7, <1>13, <1>15, <2>1 DEF ImportsTwice, a, b
  <2> QED  BY <2>1, <2>2 DEF Repeated, RepeatsItself
<1> QED  BY <1>14, <1>15

LEMMA ReferenceShape ==
    ASSUME NEW node, NEW r \in References(node)
    PROVE  r.kind \in {"inheritance", "type"}
<1>1. CASE node.op = "class"
  BY <1>1 DEF References, BaseReference, TypeReference
<1>2. CASE node.op # "class"
  BY <1>2 DEF References, TypeReference
<1> QED  BY <1>1, <1>2

\* A reference stands in a definition of its file.
LEMMA ReferencesStand ==
    ASSUME ScanInv, NEW r \in AllReferences
    PROVE  \E p \in ParsedPaths : \E d \in Definitions(Tree(p)) : \E f \in References(d.node) :
             /\ r = RowOf(p, d, f)
             /\ <<p, d.node.line>> \in {s.id : s \in Symbols}
<1>1. PICK p \in ParsedPaths : r \in ReferenceRows(Modules, Symbols, p)
  BY DEF AllReferences
<1>2. PICK d \in Definitions(Tree(p)) : \E f \in References(d.node) : r = RowOf(p, d, f)
  BY <1>1 DEF ReferenceRows, RowOf
<1>4. PICK f \in References(d.node) : r = RowOf(p, d, f)
  BY <1>2
<1>5. SymbolRecord(p, d) \in Symbols
  BY DEF Symbols
<1>6. SymbolRecord(p, d).id = <<p, d.node.line>>
  BY DEF SymbolRecord
<1> QED  BY <1>4, <1>5, <1>6

LEMMA ReferencesDiffer ==
    ASSUME ScanInv, NEW r \in AllReferences, NEW s \in AllReferences, r.edge = s.edge
    PROVE  r = s \/ Repeated
<1>1a. PICK p \in ParsedPaths : \E d \in Definitions(Tree(p)) : \E f \in References(d.node) :
        r = RowOf(p, d, f) /\ <<p, d.node.line>> \in {t.id : t \in Symbols}
  BY ReferencesStand
<1>1. PICK d \in Definitions(Tree(p)) : \E f \in References(d.node) :
        r = RowOf(p, d, f) /\ <<p, d.node.line>> \in {t.id : t \in Symbols}
  BY <1>1a
<1>2. PICK f \in References(d.node) : r = RowOf(p, d, f)
  BY <1>1
<1>3a. PICK q \in ParsedPaths : \E e \in Definitions(Tree(q)) : \E g \in References(e.node) :
        s = RowOf(q, e, g) /\ <<q, e.node.line>> \in {t.id : t \in Symbols}
  BY ReferencesStand
<1>3. PICK e \in Definitions(Tree(q)) : \E g \in References(e.node) :
        s = RowOf(q, e, g) /\ <<q, e.node.line>> \in {t.id : t \in Symbols}
  BY <1>3a
<1>4. PICK g \in References(e.node) : s = RowOf(q, e, g)
  BY <1>3
<1>5. /\ r.edge.source = <<p, d.node.line>> /\ r.edge.place[1] = f.at /\ r.edge.place[2] = f.evidence
      /\ r.edge.target = NoName => r.edge.place[3] = f.text
      /\ r.edge.type = IF f.kind = "inheritance" THEN "inherits" ELSE "references-type"
  <2>1. r.edge = ReferenceEdge(Modules, Symbols, ReferenceRecord(p, d, f))
    BY <1>2 DEF RowOf, ReferenceRow
  <2> DEFINE record == ReferenceRecord(p, d, f)
  <2>2. /\ record.source = <<p, d.node.line>> /\ record.at = f.at /\ record.evidence = f.evidence
        /\ record.text = f.text /\ record.kind = f.kind
    BY DEF ReferenceRecord
  <2>3. record.source \in GraphNodes(Modules, Symbols)
    BY <1>1, <2>2 DEF GraphNodes
  <2> HIDE DEF record
  <2> QED  BY <2>1, <2>2, <2>3, ReferenceEdgeFits DEF record
<1>6. /\ s.edge.source = <<q, e.node.line>> /\ s.edge.place[1] = g.at /\ s.edge.place[2] = g.evidence
      /\ s.edge.target = NoName => s.edge.place[3] = g.text
      /\ s.edge.type = IF g.kind = "inheritance" THEN "inherits" ELSE "references-type"
  <2>1. s.edge = ReferenceEdge(Modules, Symbols, ReferenceRecord(q, e, g))
    BY <1>4 DEF RowOf, ReferenceRow
  <2> DEFINE record == ReferenceRecord(q, e, g)
  <2>2. /\ record.source = <<q, e.node.line>> /\ record.at = g.at /\ record.evidence = g.evidence
        /\ record.text = g.text /\ record.kind = g.kind
    BY DEF ReferenceRecord
  <2>3. record.source \in GraphNodes(Modules, Symbols)
    BY <1>3, <2>2 DEF GraphNodes
  <2> HIDE DEF record
  <2> QED  BY <2>1, <2>2, <2>3, ReferenceEdgeFits DEF record
<1>7. /\ <<p, d.node.line>> = <<q, e.node.line>> /\ f.at = g.at /\ f.evidence = g.evidence
      /\ r.edge.target = NoName => f.text = g.text
  BY <1>5, <1>6
<1>8. p = q /\ d.node.line = e.node.line
  BY <1>7
<1>9. f.kind = g.kind
  BY <1>5, <1>6, ReferenceShape
<1>10. d = e
  BY <1>8, ParsedIsSyntax DEF IsSyntax
<1>11. CASE f = g
  BY <1>2, <1>4, <1>8, <1>10, <1>11
<1>12. CASE f # g
  <2>1. /\ r.edge = ReferenceEdge(Modules, Symbols, ReferenceRecord(p, d, f))
        /\ s.edge = ReferenceEdge(Modules, Symbols, ReferenceRecord(p, d, g))
    BY <1>2, <1>4, <1>8, <1>10 DEF RowOf, ReferenceRow
  <2> DEFINE edge(x) == ReferenceEdge(Modules, Symbols, ReferenceRecord(p, d, x))
  <2>2. /\ f \in References(d.node) /\ g \in References(d.node)
        /\ edge(f).target = edge(g).target
        /\ edge(f).target = NoName => f.text = g.text
    BY <1>7, <1>10, <2>1
  <2> HIDE DEF edge
  <2>3. \E x, y \in References(d.node) :
           /\ x # y /\ x.kind = y.kind /\ x.at = y.at /\ x.evidence = y.evidence
           /\ edge(x).target = edge(y).target
           /\ edge(x).target = NoName => x.text = y.text
    BY <1>7, <1>9, <1>12, <2>2
  <2>4. RefersTwice(p, d)
    BY <2>3 DEF RefersTwice, edge
  <2> QED  BY <2>4 DEF Repeated, RepeatsItself
<1> QED  BY <1>11, <1>12

LEMMA NamesAreSequences ==
    ASSUME NEW parts \in Seq(STRING), parts # <<>>
    PROVE  /\ ModuleName(parts) \in Seq(STRING)
           /\ \A m : m.parts = parts => ModulePackage(m) \in Seq(STRING) /\ NameOf(m) \in Seq(STRING)
<1> DEFINE inRoot == IF Head(parts) \in {"src", "lib"} THEN Tail(parts) ELSE parts
<1>1. inRoot \in Seq(STRING)
  <2>1. Tail(parts) \in Seq(STRING)
    BY HeadTailProperties
  <2> QED  BY <2>1
<1>2. \A t \in Seq(STRING) : t # <<>> => Front(t) \in Seq(STRING)
  <2> SUFFICES ASSUME NEW t \in Seq(STRING), t # <<>> PROVE Front(t) \in Seq(STRING)
    OBVIOUS
  <2>1. Len(t) \in Nat \ {0}
    BY EmptySeq
  <2>2. SubSeq(t, 1, Len(t) - 1) \in Seq(STRING)
    <3>1. \A i \in 1 .. Len(t) - 1 : t[i] \in STRING
      BY <2>1, ElementOfSeq
    <3> QED  BY <2>1, <3>1, SubSeqProperties
  <2> QED  BY <2>2 DEF Front
<1>3. ModuleName(parts) = IF IsInit(inRoot) THEN Front(inRoot) ELSE inRoot
  BY DEF ModuleName
<1>4. ModuleName(parts) \in Seq(STRING)
  BY <1>1, <1>2, <1>3 DEF IsInit
<1>5. ASSUME NEW m, m.parts = parts
      PROVE  ModulePackage(m) \in Seq(STRING) /\ NameOf(m) \in Seq(STRING)
  <2>1. NameOf(m) \in Seq(STRING)
    BY <1>4, <1>5 DEF NameOf
  <2>2. PackageName(NameOf(m)) \in Seq(STRING)
    BY <1>2, <2>1 DEF PackageName
  <2> QED  BY <2>1, <2>2 DEF ModulePackage
<1> QED  BY <1>4, <1>5

LEMMA ContainmentFits ==
    ASSUME ScanInv, NEW e \in Containment(Modules, Symbols)
    PROVE  IsEdge(e, GraphNodes(Modules, Symbols))
<1>1. ASSUME NEW m \in Modules, ModulePackage(m) # <<>>,
             e = Edge("contains", PackageNode(ModulePackage(m)), m.id, "resolved-static", <<>>)
      PROVE  IsEdge(e, GraphNodes(Modules, Symbols))
  <2> DEFINE package == ModulePackage(m)
  <2>1. package \in Seq(STRING)
    <3>1. IsName(PartsOf[m.path]) /\ m.parts = PartsOf[m.path]
      BY ModulesAre, AnalysisAssumption
    <3> QED  BY <3>1, NamesAreSequences DEF IsName
  <2>2. Len(package) \in 1 .. Len(package) /\ SubSeq(package, 1, Len(package)) = package
    BY <1>1, <2>1, EmptySeq
  <2>3. package \in Packages(Modules)
    <3>1. package \in {SubSeq(ModulePackage(m), 1, n) : n \in 1 .. Len(ModulePackage(m))}
      BY <2>2
    <3> QED  BY <3>1 DEF Packages
  <2>4. PackageNode(package) \in GraphNodes(Modules, Symbols) /\ m.id \in GraphNodes(Modules, Symbols)
    BY <2>3 DEF GraphNodes
  <2>5. /\ e.source = PackageNode(package) /\ e.target = m.id /\ e.status = "resolved-static"
    BY <1>1 DEF Edge
  <2> QED  BY <2>4, <2>5, IdsAreNames DEF IsEdge, ResolvedStatuses
<1>2. ASSUME NEW s \in Symbols, e = Edge("contains", Holder(Symbols, s), s.id, "resolved-static", <<>>)
      PROVE  IsEdge(e, GraphNodes(Modules, Symbols))
  <2>1. PICK d \in Definitions(Tree(s.path)) : s = SymbolRecord(s.path, d) /\ s.id = <<s.path, d.node.line>>
    BY SymbolsAre
  <2> DEFINE p == s.path
             n == Len(d.chain)
  <2>2. /\ IsChain(d.chain) /\ n \in Nat \ {0}
        /\ n # 1 => \E f \in Definitions(Tree(p)) : /\ f.chain = Front(d.chain)
                                                    /\ f.node = d.chain[n - 1]
    BY HolderIsDefined, AnalysisAssumption
  <2>3. s.inner = [i \in DOMAIN d.chain |-> d.chain[i].name]
        /\ s.parent = IF n = 1 THEN None ELSE <<p, d.chain[n - 1].line>>
    <3> HIDE DEF p
    <3>1. s = SymbolRecord(p, d)
      BY <2>1 DEF p
    <3> QED  BY <3>1 DEF SymbolRecord
  <2>4. Len(s.inner) = n
    <3>1. PICK U : d.chain \in Seq(U)
      BY <2>2 DEF IsChain
    <3>2. DOMAIN d.chain = 1 .. n
      BY <3>1
    <3> DEFINE name(i) == d.chain[i].name
               inner == [i \in 1 .. n |-> name(i)]
    <3>3. inner \in [1 .. n -> {name(i) : i \in 1 .. n}]
      OBVIOUS
    <3>4. s.inner = inner
      BY <2>3, <3>2
    <3> HIDE DEF inner, n
    <3>5. Len(inner) = n
      BY <2>2, <3>3
    <3> QED  BY <3>4, <3>5
  <2>5. Holder(Symbols, s) \in GraphNodes(Modules, Symbols)
    <3>1. CASE n = 1
      <4>1. Holder(Symbols, s) = ModuleId(p)
        BY <2>4, <3>1 DEF Holder
      <4>2. ModuleRecord(p) \in Modules /\ ModuleRecord(p).id = ModuleId(p)
        BY SymbolsAre DEF Modules, ModuleRecord
      <4> QED  BY <4>1, <4>2 DEF GraphNodes
    <3>2. CASE n # 1
      <4>1. Holder(Symbols, s) = <<p, d.chain[n - 1].line>>
        BY <2>3, <2>4, <3>2 DEF Holder
      <4>2. PICK f \in Definitions(Tree(p)) : f.node = d.chain[n - 1]
        BY <2>2, <3>2
      <4>3. SymbolRecord(p, f) \in Symbols
        <5>1. p \in ParsedPaths
          BY SymbolsAre
        <5> HIDE DEF p
        <5> QED  BY <5>1 DEF Symbols
      <4>5. SymbolRecord(p, f).id = <<p, f.node.line>>
        BY DEF SymbolRecord
      <4> QED  BY <4>1, <4>2, <4>3, <4>5 DEF GraphNodes
    <3> QED  BY <3>1, <3>2
  <2>6. e.source = Holder(Symbols, s) /\ e.target = s.id /\ e.status = "resolved-static"
    BY <1>2 DEF Edge
  <2>7. s.id \in GraphNodes(Modules, Symbols)
    BY DEF GraphNodes
  <2> QED  BY <2>5, <2>6, <2>7, IdsAreNames DEF IsEdge, ResolvedStatuses
<1> QED  BY <1>1, <1>2 DEF Containment

AllEdges == {r.edge : r \in AllImports \cup AllReferences} \cup Containment(Modules, Symbols)

LEMMA EdgesFit ==
    ASSUME ScanInv, NEW e \in AllEdges
    PROVE  IsEdge(e, GraphNodes(Modules, Symbols))
<1>1. ASSUME NEW r \in AllImports, e = r.edge PROVE IsEdge(e, GraphNodes(Modules, Symbols))
  <2>1. PICK m \in Modules : \E i \in DOMAIN m.imports : r = ImportRow(m, i)
    BY DEF AllImports
  <2>2. PICK i \in DOMAIN m.imports : r = ImportRow(m, i)
    BY <2>1
  <2>3. r.edge = ImportEdge(Modules, m, m.imports[i])
    BY <2>2 DEF ImportRow, ImportEdges
  <2> QED  BY <1>1, <2>3, ImportEdgeFits
<1>2. ASSUME NEW r \in AllReferences, e = r.edge PROVE IsEdge(e, GraphNodes(Modules, Symbols))
  <2>1. PICK p \in ParsedPaths : \E d \in Definitions(Tree(p)) : \E f \in References(d.node) :
        r = RowOf(p, d, f) /\ <<p, d.node.line>> \in {t.id : t \in Symbols}
    BY ReferencesStand
  <2>2. PICK d \in Definitions(Tree(p)) : \E f \in References(d.node) :
        r = RowOf(p, d, f) /\ <<p, d.node.line>> \in {t.id : t \in Symbols}
    BY <2>1
  <2>3. PICK f \in References(d.node) : r = RowOf(p, d, f)
    BY <2>2
  <2> DEFINE record == ReferenceRecord(p, d, f)
  <2>4. e = ReferenceEdge(Modules, Symbols, record)
    BY <1>2, <2>3 DEF RowOf, ReferenceRow
  <2>5. record.source \in GraphNodes(Modules, Symbols)
    BY <2>2 DEF GraphNodes, ReferenceRecord
  <2> HIDE DEF record
  <2> QED  BY <2>4, <2>5, ReferenceEdgeFits
<1>3. ASSUME e \in Containment(Modules, Symbols) PROVE IsEdge(e, GraphNodes(Modules, Symbols))
  BY <1>3, ContainmentFits
<1> QED  BY <1>1, <1>2, <1>3 DEF AllEdges

-----------------------------------------------------------------------------
(* The findings: that those of one identity have a first, so that they become   *)
(* one.  Two of them at one place are the same finding: a rule says one thing   *)
(* of one module or symbol.                                                     *)

\* How severe a rule takes what it says of a symbol, and of a module.
SymbolSeverity(rule, s) ==
    CASE rule = "oversized-symbol" ->
            ThresholdSeverity(s.lines, IF s.kind = "class" THEN Policy.classLines ELSE Policy.functionLines)
      [] rule = "high-maximum-nesting" -> ThresholdSeverity(s.nesting, Policy.nesting)
      [] rule = "high-parameter-count" -> ThresholdSeverity(s.parameters, Policy.parameters)
      [] rule \in {"high-cyclomatic-complexity", "complexity-without-nearby-test-evidence",
                   "deep-inheritance"} -> "medium"
      [] OTHER -> "low"
ModuleSeverity(rule, m) ==
    IF rule = "oversized-module" THEN ThresholdSeverity(m.lines, Policy.moduleLines) ELSE "medium"

LEMMA SymbolFindingsAre ==
    ASSUME NEW modules, NEW symbols, NEW arcs, NEW cycles,
           NEW f \in SymbolFindings(modules, symbols, arcs, cycles)
    PROVE  \E s \in symbols : \E rule : f = SymbolFinding(rule, s, SymbolSeverity(rule, s))
<1>1. PICK s \in Reviewable(modules, symbols) :
         \E r \in SaidOf(modules, arcs, cycles, s) : f = SymbolFinding(r[1], s, r[2])
  BY DEF SymbolFindings
<1>2. PICK r \in SaidOf(modules, arcs, cycles, s) : f = SymbolFinding(r[1], s, r[2])
  BY <1>1
<1>3. \/ r \in {<<o[1], ThresholdSeverity(o[2], o[3])>> : o \in OverThreshold(s)}
      \/ r = <<"high-cyclomatic-complexity", "medium">>
      \/ r = <<"complexity-without-nearby-test-evidence", "medium">>
      \/ r = <<"deep-inheritance", "medium">>
      \/ r = <<"undocumented-public-symbol", "low">>
      \/ r = <<"orphan-looking-candidate", "low">>
  BY DEF SaidOf
<1>4. r[2] = SymbolSeverity(r[1], s)
  <2>1. CASE r \in {<<o[1], ThresholdSeverity(o[2], o[3])>> : o \in OverThreshold(s)}
    BY <2>1 DEF OverThreshold, SymbolSeverity
  <2> QED  BY <1>3, <2>1 DEF SymbolSeverity
<1>5. s \in symbols
  BY DEF Reviewable
<1> QED  BY <1>2, <1>4, <1>5

LEMMA ModuleFindingsAre ==
    ASSUME NEW modules, NEW arcs, NEW f \in ModuleFindings(modules, arcs)
    PROVE  \E m \in modules : \E rule : f = ModuleFinding(rule, m, ModuleSeverity(rule, m))
<1>1. ASSUME NEW m \in modules,
             \/ f = ModuleFinding("oversized-module", m, ThresholdSeverity(m.lines, Policy.moduleLines))
             \/ f = ModuleFinding("high-resolved-fan-in", m, "medium")
             \/ f = ModuleFinding("high-resolved-fan-out", m, "medium")
      PROVE  \E n \in modules : \E rule : f = ModuleFinding(rule, n, ModuleSeverity(rule, n))
  <2>1. /\ ModuleSeverity("oversized-module", m) = ThresholdSeverity(m.lines, Policy.moduleLines)
        /\ ModuleSeverity("high-resolved-fan-in", m) = "medium"
        /\ ModuleSeverity("high-resolved-fan-out", m) = "medium"
    BY DEF ModuleSeverity
  <2> QED  BY <1>1, <2>1
<1> QED  BY <1>1 DEF ModuleFindings

\* A finding about a cycle or a group has no place.
LEMMA GroupFindingsAre ==
    ASSUME NEW modules, NEW symbols, NEW cycles,
           NEW f \in CycleFindings(modules, symbols, cycles) \cup DuplicateFindings(modules, symbols)
    PROVE  f.place = NoName
<1>1. ASSUME NEW rule, NEW type, NEW keys, NEW nodes, NEW severity,
             f = Finding(rule, type, keys, nodes, NoName, severity)
      PROVE  f.place = NoName
  BY <1>1 DEF Finding
<1>2. CASE f \in CycleFindings(modules, symbols, cycles)
  BY <1>1, <1>2 DEF CycleFindings
<1>3. CASE f \in DuplicateFindings(modules, symbols)
  BY <1>1, <1>3 DEF DuplicateFindings
<1> QED  BY <1>2, <1>3

TheFindings(arcs, cycles) == AllFindings(Modules, Symbols, arcs, cycles)

LEMMA PlacesAreNumbers ==
    ASSUME ScanInv, NEW arcs, NEW cycles, NEW f \in TheFindings(arcs, cycles)
    PROVE  \/ f.place = NoName
           \/ /\ f.place = <<f.place[1], f.place[2]>>
              /\ f.place[1] \in Nat /\ f.place[2] \in Nat
<1>0. Paths \subseteq Nat
  BY DiscoveryAssumption
<1>1. CASE f \in SymbolFindings(Modules, Symbols, arcs, cycles)
  <2>1. PICK s \in Symbols : \E rule : f = SymbolFinding(rule, s, SymbolSeverity(rule, s))
    BY <1>1, SymbolFindingsAre
  <2>2. f.place = s.id
    BY <2>1 DEF SymbolFinding, Finding
  <2>3. PICK d \in Definitions(Tree(s.path)) : s.id = <<s.path, d.node.line>> /\ d.node.line \in Nat
    BY SymbolsAre
  <2>4. s.path \in Nat
    BY <1>0, SymbolsAre
  <2> QED  BY <2>2, <2>3, <2>4
<1>2. CASE f \in ModuleFindings(Modules, arcs)
  <2>1. PICK m \in Modules : \E rule : f = ModuleFinding(rule, m, ModuleSeverity(rule, m))
    BY <1>2, ModuleFindingsAre
  <2>2. f.place = <<m.path, 1>>
    BY <2>1 DEF ModuleFinding, Finding
  <2>3. m.path \in Nat
    BY <1>0, ModulesAre
  <2> QED  BY <2>2, <2>3
<1>3. CASE f \in CycleFindings(Modules, Symbols, cycles) \cup DuplicateFindings(Modules, Symbols)
  BY <1>3, GroupFindingsAre
<1> QED  BY <1>1, <1>2, <1>3 DEF TheFindings, AllFindings

LEMMA OneFindingInOnePlace ==
    ASSUME ScanInv, NEW arcs, NEW cycles,
           NEW f \in TheFindings(arcs, cycles), NEW g \in TheFindings(arcs, cycles),
           FindingId(f) = FindingId(g), f.place # NoName, f.place = g.place
    PROVE  f = g
<1>1. f.rule = g.rule /\ f.type = g.type
  BY DEF FindingId
<1>2. f \in SymbolFindings(Modules, Symbols, arcs, cycles) \cup ModuleFindings(Modules, arcs)
      /\ g \in SymbolFindings(Modules, Symbols, arcs, cycles) \cup ModuleFindings(Modules, arcs)
  BY GroupFindingsAre DEF TheFindings, AllFindings
<1>3. ASSUME NEW h \in SymbolFindings(Modules, Symbols, arcs, cycles)
      PROVE  h.type = "symbol" /\ \E s \in Symbols : /\ h.place = s.id
                                                     /\ h = SymbolFinding(h.rule, s, SymbolSeverity(h.rule, s))
  <2>1. PICK s \in Symbols : \E rule : h = SymbolFinding(rule, s, SymbolSeverity(rule, s))
    BY SymbolFindingsAre
  <2>2. PICK rule : h = SymbolFinding(rule, s, SymbolSeverity(rule, s))
    BY <2>1
  <2>3. h.type = "symbol" /\ h.place = s.id /\ h.rule = rule
    BY <2>2 DEF SymbolFinding, Finding
  <2> QED  BY <2>2, <2>3
<1>4. ASSUME NEW h \in ModuleFindings(Modules, arcs)
      PROVE  h.type = "module" /\ \E m \in Modules : /\ h.place = <<m.path, 1>>
                                                     /\ h = ModuleFinding(h.rule, m, ModuleSeverity(h.rule, m))
  <2>1. PICK m \in Modules : \E rule : h = ModuleFinding(rule, m, ModuleSeverity(rule, m))
    BY ModuleFindingsAre
  <2>2. PICK rule : h = ModuleFinding(rule, m, ModuleSeverity(rule, m))
    BY <2>1
  <2>3. h.type = "module" /\ h.place = <<m.path, 1>> /\ h.rule = rule
    BY <2>2 DEF ModuleFinding, Finding
  <2> QED  BY <2>2, <2>3
<1>5. CASE f \in SymbolFindings(Modules, Symbols, arcs, cycles)
  <2>1. g \in SymbolFindings(Modules, Symbols, arcs, cycles)
    BY <1>1, <1>2, <1>3, <1>4, <1>5
  <2>2. PICK s \in Symbols : f.place = s.id /\ f = SymbolFinding(f.rule, s, SymbolSeverity(f.rule, s))
    BY <1>3, <1>5
  <2>3. PICK t \in Symbols : g.place = t.id /\ g = SymbolFinding(g.rule, t, SymbolSeverity(g.rule, t))
    BY <1>3, <2>1
  <2>4. s = t
    BY <2>2, <2>3, SymbolsDiffer
  <2> QED  BY <1>1, <2>2, <2>3, <2>4
<1>6. CASE f \in ModuleFindings(Modules, arcs)
  <2>1. g \in ModuleFindings(Modules, arcs)
    BY <1>1, <1>2, <1>3, <1>4, <1>6
  <2>2. PICK m \in Modules : f.place = <<m.path, 1>> /\ f = ModuleFinding(f.rule, m, ModuleSeverity(f.rule, m))
    BY <1>4, <1>6
  <2>3. PICK n \in Modules : g.place = <<n.path, 1>> /\ g = ModuleFinding(g.rule, n, ModuleSeverity(g.rule, n))
    BY <1>4, <2>1
  <2>4. <<m.path, 1>> = <<n.path, 1>>
    BY <2>2, <2>3
  <2>5. m.path = n.path
    BY <2>4
  <2>6. m = n
    BY <2>5, ModulesAre
  <2> QED  BY <1>1, <2>2, <2>3, <2>6
<1> QED  BY <1>2, <1>5, <1>6

LEMMA FirstExists ==
    ASSUME ScanInv, NEW arcs, NEW cycles, NEW group \in SUBSET TheFindings(arcs, cycles),
           group # {}, \A f, g \in group : FindingId(f) = FindingId(g)
    PROVE  First(group) \in group
<1> DEFINE IsFirst(f) == \A g \in group : f.place = NoName \/ f = g \/ Precedes(f.place, g.place)
<1>1. \E f \in group : IsFirst(f)
  <2>1. CASE \E f \in group : f.place = NoName
    BY <2>1
  <2>2. CASE \A f \in group : f.place # NoName
    <3>1. \A f \in group : /\ f.place = <<f.place[1], f.place[2]>>
                           /\ f.place[1] \in Nat /\ f.place[2] \in Nat
      BY <2>2, PlacesAreNumbers
    <3> DEFINE paths == {f.place[1] : f \in group}
    <3>2. paths \in SUBSET Nat /\ paths # {}
      BY <3>1
    <3>3. PICK path \in paths : \A q \in paths : path <= q
      <4> HIDE DEF paths
      <4> QED  BY <3>2, LeastNumber
    <3> DEFINE there == {f \in group : f.place[1] = path}
               lines == {f.place[2] : f \in there}
    <3>4. lines \in SUBSET Nat /\ lines # {}
      BY <3>1, <3>3
    <3>5. PICK line \in lines : \A q \in lines : line <= q
      <4> HIDE DEF lines
      <4> QED  BY <3>4, LeastNumber
    <3>6. PICK f \in group : f.place[1] = path /\ f.place[2] = line
      BY <3>5
    <3>7. ASSUME NEW g \in group, f # g PROVE Precedes(f.place, g.place)
      <4>1. f.place # g.place
        BY <2>2, <3>7, OneFindingInOnePlace
      <4>2. f.place[1] <= g.place[1]
        BY <3>3, <3>6
      <4>3. f.place[1] = g.place[1] => f.place[2] <= g.place[2]
        BY <3>5, <3>6
      <4>4. ~ (f.place[1] = g.place[1] /\ f.place[2] = g.place[2])
        BY <3>1, <4>1
      <4>5. f.place[1] \in Nat /\ f.place[2] \in Nat /\ g.place[1] \in Nat /\ g.place[2] \in Nat
        BY <3>1
      <4> QED  BY <4>2, <4>3, <4>4, <4>5 DEF Precedes
    <3> QED  BY <3>7
  <2> QED  BY <2>1, <2>2
<1>2. First(group) = CHOOSE f \in group : IsFirst(f)
  BY DEF First
<1> HIDE DEF IsFirst
<1> QED  BY <1>1, <1>2

LEMMA OneFindingOfEach ==
    ASSUME ScanInv, NEW arcs, NEW cycles,
           NEW f \in MergeFindings(TheFindings(arcs, cycles)),
           NEW g \in MergeFindings(TheFindings(arcs, cycles)), FindingId(f) = FindingId(g)
    PROVE  f = g
<1> DEFINE findings == TheFindings(arcs, cycles)
           of(id) == {h \in findings : FindingId(h) = id}
<1>1. ASSUME NEW id \in {FindingId(h) : h \in findings} PROVE FindingId(MergedGroup(of(id))) = id
  <2>1. of(id) \in SUBSET findings /\ of(id) # {} /\ \A h \in of(id) : FindingId(h) = id
    OBVIOUS
  <2>2. First(of(id)) \in of(id)
    <3> HIDE DEF of
    <3> QED  BY <2>1, FirstExists
  <2>3. FindingId(First(of(id))) = id
    BY <2>1, <2>2
  <2> DEFINE first == First(of(id))
             merged == MergedGroup(of(id))
  <2>4. merged.rule = first.rule /\ merged.type = first.type /\ merged.keys = first.keys
    BY DEF MergedGroup, Finding
  <2> HIDE DEF merged, first, of
  <2> QED  BY <2>3, <2>4 DEF FindingId, merged, first
<1>2. PICK i \in {FindingId(h) : h \in findings} : f = MergedGroup(of(i))
  BY DEF MergeFindings
<1>3. PICK j \in {FindingId(h) : h \in findings} : g = MergedGroup(of(j))
  BY DEF MergeFindings
<1> HIDE DEF of, findings
<1> QED  BY <1>1, <1>2, <1>3

-----------------------------------------------------------------------------
(* That a scan which comes to its end is stored.                              *)

EvidenceFields ==
    {"modules", "symbols", "imports", "references", "edges", "cycles", "findings"}
RowsFit ==
    /\ stage \in Evaluated => /\ DOMAIN evidence = EvidenceFields
                              /\ RelationshipsHaveNodes
                              /\ RelationshipsDiffer \/ Repeated
    /\ stage \in {"findings", "stored", "rejected"} => CyclesFit /\ OccurrencesFit
    /\ stage = "rejected" => Repeated

\* A member of a cycle is an end of one of its edges.
LEMMA MembersAreEnds ==
    ASSUME NEW nodes, NEW arcs, \A e \in arcs : IsEdge(e, nodes),
           NEW type, NEW c \in Cycles(arcs, type)
    PROVE  c.members \subseteq nodes
<1> DEFINE steps == {<<e.source, e.target>> : e \in {d \in arcs : /\ d.type = type /\ d.target # NoName
                                                               /\ d.status = "resolved-static"}}
           ends == {s[1] : s \in steps} \cup {s[2] : s \in steps}
           members(n) == {m \in ends : Assigned(ends, steps)[m] = n}
<1>1. PICK n \in ends : c = [type |-> type, members |-> members(n)]
  BY DEF Cycles
<1>2. c.members \subseteq ends
  <2> HIDE DEF ends
  <2> QED  BY <1>1
<1>3. ASSUME NEW s \in steps PROVE s[1] \in nodes /\ s[2] \in nodes
  <2>1. PICK e \in arcs : s = <<e.source, e.target>> /\ e.target # NoName
    OBVIOUS
  <2> QED  BY <2>1 DEF IsEdge
<1>4. ends \subseteq nodes
  <2> HIDE DEF steps
  <2> QED  BY <1>3
<1> QED  BY <1>2, <1>4

\* Whether a file repeats itself is a matter of the files.
LEMMA SameRepeats ==
    ASSUME parsed' = parsed, records' = records
    PROVE  Repeated' = Repeated
<1>1. Modules' = Modules /\ Symbols' = Symbols
  BY SameEvidence
<1>2. ParsedPaths' = ParsedPaths /\ \A p : Tree(p)' = Tree(p)
  BY DEF ParsedPaths, Tree
<1>3. \A p : ImportsTwice(p)' = ImportsTwice(p)
  BY <1>2 DEF ImportsTwice
<1>4. \A p, d : RefersTwice(p, d)' = RefersTwice(p, d)
  BY <1>1 DEF RefersTwice, ReferenceRecord
<1> QED  BY <1>2, <1>3, <1>4 DEF Repeated, RepeatsItself

LEMMA RelateFits == ASSUME ScanInv, Relate PROVE RowsFit'
<1>1. parsed' = parsed /\ records' = records /\ stage' = "relationships"
  BY DEF Relate
<1>2. evidence' = [modules |-> Modules, symbols |-> Symbols, imports |-> AllImports,
                   references |-> AllReferences, edges |-> AllEdges, cycles |-> {}, findings |-> {}]
  BY DEF Relate, ImportRows, AllImports, ImportRow, AllReferences, AllEdges
<1>3. DOMAIN evidence' = EvidenceFields
  BY <1>2 DEF EvidenceFields
<1>4. RelationshipsHaveNodes'
  <2>1. /\ evidence'.modules = Modules /\ evidence'.symbols = Symbols /\ evidence'.edges = AllEdges
    BY <1>2
  <2>2. \A e \in AllEdges :
           /\ e.source \in GraphNodes(Modules, Symbols)
           /\ e.target \in GraphNodes(Modules, Symbols) \cup {NoName}
           /\ e.target # NoName <=> e.status \in ResolvedStatuses
    BY EdgesFit DEF IsEdge
  <2> QED  BY <2>1, <2>2 DEF RelationshipsHaveNodes
<1>5. Repeated' = Repeated
  BY <1>1, SameRepeats
<1>6. RelationshipsDiffer' \/ Repeated'
  <2>1. evidence'.imports = AllImports /\ evidence'.references = AllReferences
    BY <1>2
  <2>2. ASSUME ~Repeated PROVE IsInjective([r \in AllImports |-> r.edge])
    BY <2>2, ImportsDiffer DEF IsInjective
  <2>3. ASSUME ~Repeated PROVE IsInjective([r \in AllReferences |-> r.edge])
    BY <2>3, ReferencesDiffer DEF IsInjective
  <2> QED  BY <1>5, <2>1, <2>2, <2>3 DEF RelationshipsDiffer
<1> QED  BY <1>1, <1>3, <1>4, <1>6 DEF RowsFit, Evaluated

LEMMA FindFits == ASSUME ScanInv, RowsFit, Find PROVE RowsFit'
<1> DEFINE arcs == evidence.edges
           cycles == Cycles(arcs, "imports") \cup Cycles(arcs, "inherits")
           findings == MergeFindings(TheFindings(arcs, cycles))
<1>1. stage = "relationships" /\ stage' = "findings"
      /\ evidence.modules = Modules /\ evidence.symbols = Symbols
      /\ DOMAIN evidence = EvidenceFields
  BY DEF Find, ScanInv, EvidenceIsOfTheFiles, Evaluated, RowsFit
<1>2. evidence' = [evidence EXCEPT !.cycles = cycles, !.findings = findings]
  BY <1>1 DEF Find, TheFindings
<1> HIDE DEF cycles, findings
<1>3. /\ DOMAIN evidence' = EvidenceFields
      /\ evidence'.cycles = cycles /\ evidence'.findings = findings
      /\ evidence'.modules = evidence.modules /\ evidence'.symbols = evidence.symbols
      /\ evidence'.imports = evidence.imports /\ evidence'.references = evidence.references
      /\ evidence'.edges = evidence.edges
  BY <1>1, <1>2 DEF EvidenceFields
<1>4. RelationshipsHaveNodes' /\ (RelationshipsDiffer' \/ Repeated')
  <2>1. Repeated' = Repeated
    BY SameRepeats DEF Find
  <2> QED  BY <1>1, <1>3, <2>1 DEF RowsFit, Evaluated, RelationshipsHaveNodes, RelationshipsDiffer
<1>5. CyclesFit'
  <2>1. \A e \in arcs : IsEdge(e, GraphNodes(Modules, Symbols))
    BY <1>1 DEF RowsFit, Evaluated, RelationshipsHaveNodes, IsEdge
  <2>2. \A c \in cycles : c.members \subseteq GraphNodes(Modules, Symbols)
    BY <2>1, MembersAreEnds DEF cycles
  <2> QED  BY <1>1, <1>3, <2>2 DEF CyclesFit
<1>6. OccurrencesFit'
  <2>1. IsInjective([f \in findings |-> FindingId(f)])
    BY OneFindingOfEach DEF IsInjective, findings
  <2> QED  BY <1>3, <2>1 DEF OccurrencesFit
<1> QED  BY <1>1, <1>3, <1>4, <1>5, <1>6 DEF RowsFit

\* What leaves the evidence alone leaves its rows as they are.
LEMMA RowsStay ==
    ASSUME RowsFit, evidence' = evidence, stage' = "rejected" => Repeated',
           stage' \in Evaluated => stage \in Evaluated /\ parsed' = parsed /\ records' = records,
           stage' \in {"findings", "stored", "rejected"} => stage \in {"findings", "stored", "rejected"}
    PROVE  RowsFit'
<1>1. /\ RelationshipsHaveNodes' = RelationshipsHaveNodes
      /\ RelationshipsDiffer' = RelationshipsDiffer
  BY DEF RelationshipsHaveNodes, RelationshipsDiffer
<1>2. CyclesFit' = CyclesFit /\ OccurrencesFit' = OccurrencesFit
  BY DEF CyclesFit, OccurrencesFit
<1>3. stage' \in Evaluated => Repeated' = Repeated
  BY SameRepeats
<1> QED  BY <1>1, <1>2, <1>3 DEF RowsFit

LEMMA RowsStep == ScanInv /\ RowsFit /\ [AnalysisNext]_repositoryVars => RowsFit'
<1> SUFFICES ASSUME ScanInv, RowsFit, [AnalysisNext]_repositoryVars PROVE RowsFit'
  OBVIOUS
<1>1. CASE Discovery
  <2>1. evidence' = evidence /\ stage' \notin Evaluated
    BY <1>1 DEF Discovery, Discover, Edit, InspectMissing, LeaveOut, MeetLimit, Open, Inspecting, List,
                GitFails, Read, Discovered, CancelDiscovery, Evaluated, analysisVars
  <2> QED  BY <2>1, RowsStay DEF Evaluated
<1>2. CASE StartAnalysis \/ Cancel \/ \E p \in Paths : AnalyzeFile(p) \/ ParserGivesUp(p)
  <2>1. evidence' = evidence /\ stage' \notin Evaluated
    BY <1>2 DEF StartAnalysis, Cancel, AnalyzeFile, ParserGivesUp, Evaluated, analysisVars
  <2> QED  BY <2>1, RowsStay DEF Evaluated
<1>3. CASE Relate
  BY <1>3, RelateFits
<1>4. CASE Find
  BY <1>4, FindFits
<1>5. CASE Store
  <2>1. /\ evidence' = evidence /\ stage = "findings" /\ stage' \in {"stored", "rejected"}
        /\ parsed' = parsed /\ records' = records
    BY <1>5 DEF Store, analysisVars
  <2>2. stage' = "rejected" => Repeated
    BY <1>5, ModulesAndSymbolsFit DEF Store, RowsFit, InsertSnapshot, Evaluated
  <2>3. Repeated' = Repeated
    BY <2>1, SameRepeats
  <2> QED  BY <2>1, <2>2, <2>3, RowsStay DEF Evaluated
<1>6. CASE UNCHANGED repositoryVars
  <2>1. evidence' = evidence /\ stage' = stage /\ parsed' = parsed /\ records' = records
    BY <1>6 DEF repositoryVars, analysisVars, discoveryVars
  <2>2. Repeated' = Repeated
    BY <2>1, SameRepeats
  <2> QED  BY <2>1, <2>2, RowsStay DEF RowsFit
<1> QED  BY <1>1, <1>2, <1>3, <1>4, <1>5, <1>6 DEF AnalysisNext

\* A scan that comes to its end is stored, whatever the files say, unless one of
\* them imports, extends or mentions one thing twice in one place: nothing else
\* gives two rows one identity or a relationship no node
\* (SnapshotStore.insert_snapshot and the identities of analyzer and relationships).
THEOREM EvidenceCanAlwaysBeStored == AnalysisSpec => []EvidenceCanBeStored
<1>1. AnalysisInit => RowsFit
  BY DEF AnalysisInit, DiscoveryInit, RowsFit, Evaluated
<1>2. RowsFit => EvidenceCanBeStored
  BY DEF RowsFit, EvidenceCanBeStored, Repeated
<1> QED  BY <1>1, <1>2, RowsStep, ScansKeep, PTL DEF AnalysisSpec

-----------------------------------------------------------------------------
(* That what a resolved row says of two modules is backed by the tree and by    *)
(* an import.  The rows are those of the files until they are stored; what is   *)
(* proved is then a matter of the names of modules and symbols.                 *)

EdgesAreOfTheFiles == stage \in Evaluated => /\ DOMAIN evidence = EvidenceFields
                                             /\ evidence.edges = AllEdges

LEMMA SameEdges ==
    ASSUME parsed' = parsed, records' = records
    PROVE  AllEdges' = AllEdges
<1>1. Modules' = Modules /\ Symbols' = Symbols
  BY SameEvidence
<1>2. ParsedPaths' = ParsedPaths /\ \A p : Tree(p)' = Tree(p)
  BY DEF ParsedPaths, Tree
<1>3. AllImports' = AllImports
  BY <1>1 DEF AllImports, ImportRow
<1>4. ASSUME NEW p PROVE ReferenceRows(Modules, Symbols, p)' = ReferenceRows(Modules, Symbols, p)
  <2>1. \A d, r : ReferenceRow(Modules, Symbols, p, d, r)' = ReferenceRow(Modules, Symbols, p, d, r)
    BY <1>1 DEF ReferenceRow, ReferenceRecord
  <2>2. Definitions(Tree(p))' = Definitions(Tree(p))
    BY <1>2
  <2> QED  BY <2>1, <2>2 DEF ReferenceRows
<1>6. AllReferences' = AllReferences
  BY <1>2, <1>4 DEF AllReferences
<1> QED  BY <1>1, <1>3, <1>6 DEF AllEdges

LEMMA EdgesStep == ScanInv /\ EdgesAreOfTheFiles /\ [AnalysisNext]_repositoryVars => EdgesAreOfTheFiles'
<1> SUFFICES ASSUME ScanInv, EdgesAreOfTheFiles, [AnalysisNext]_repositoryVars
             PROVE  EdgesAreOfTheFiles'
  OBVIOUS
<1>1. CASE Discovery
  <2>1. stage' \notin Evaluated
    BY <1>1 DEF Discovery, Discover, Edit, InspectMissing, LeaveOut, MeetLimit, Open, Inspecting, List,
                GitFails, Read, Discovered, CancelDiscovery, Evaluated
  <2> QED  BY <2>1 DEF EdgesAreOfTheFiles, Evaluated
<1>2. CASE StartAnalysis \/ Cancel \/ \E p \in Paths : AnalyzeFile(p) \/ ParserGivesUp(p)
  <2>1. stage' \notin Evaluated
    BY <1>2 DEF StartAnalysis, Cancel, AnalyzeFile, ParserGivesUp, Evaluated
  <2> QED  BY <2>1 DEF EdgesAreOfTheFiles, Evaluated
<1>3. CASE Relate
  <2>1. parsed' = parsed /\ records' = records
    BY <1>3 DEF Relate
  <2>2. evidence' = [modules |-> Modules, symbols |-> Symbols, imports |-> AllImports,
                     references |-> AllReferences, edges |-> AllEdges, cycles |-> {}, findings |-> {}]
    BY <1>3 DEF Relate, ImportRows, AllImports, ImportRow, AllReferences, AllEdges
  <2> QED  BY <2>1, <2>2, SameEdges DEF EdgesAreOfTheFiles, EvidenceFields
<1>4. CASE Find
  <2>1. parsed' = parsed /\ records' = records /\ stage \in Evaluated
    BY <1>4 DEF Find, Evaluated
  <2>2. DOMAIN evidence' = DOMAIN evidence /\ evidence'.edges = evidence.edges
    BY <1>4, <2>1 DEF Find, EdgesAreOfTheFiles, EvidenceFields
  <2> QED  BY <2>1, <2>2, SameEdges DEF EdgesAreOfTheFiles
<1>5. CASE Store
  <2>1. parsed' = parsed /\ records' = records /\ evidence' = evidence /\ stage \in Evaluated
    BY <1>5 DEF Store, analysisVars, Evaluated
  <2> QED  BY <2>1, SameEdges DEF EdgesAreOfTheFiles
<1>6. CASE UNCHANGED repositoryVars
  <2>1. parsed' = parsed /\ records' = records /\ evidence' = evidence /\ stage' = stage
    BY <1>6 DEF repositoryVars, analysisVars, discoveryVars
  <2> QED  BY <2>1, SameEdges DEF EdgesAreOfTheFiles
<1> QED  BY <1>1, <1>2, <1>3, <1>4, <1>5, <1>6 DEF AnalysisNext

-----------------------------------------------------------------------------
(* Names.                                                                     *)

LEMMA PartsOfNames ==
    ASSUME ScanInv, NEW m \in Modules
    PROVE  /\ m.parts = PartsOf[m.path] /\ m.parts \in Seq(STRING) /\ m.parts # <<>>
           /\ NameOf(m) \in Seq(STRING) /\ ModulePackage(m) \in Seq(STRING)
           /\ NameOf(m) = ModuleName(PartsOf[m.path])
<1>1. m.parts = PartsOf[m.path] /\ IsName(PartsOf[m.path])
  BY ModulesAre, AnalysisAssumption
<1> QED  BY <1>1, NamesAreSequences DEF IsName, NameOf

\* What a path is called below its root.
LEMMA TreePlaces ==
    ASSUME NEW parts \in Seq(STRING), parts # <<>>
    PROVE  LET T == InTree(parts)
           IN /\ T \in Seq(STRING)
              /\ T # <<>> => Last(T) = Last(parts)
              /\ ModuleName(parts) = IF IsInit(T) THEN Front(T) ELSE T
<1> DEFINE T == InTree(parts)
<1>1. Len(parts) \in Nat \ {0}
  BY EmptySeq
<1>2. /\ Tail(parts) \in Seq(STRING) /\ Len(Tail(parts)) = Len(parts) - 1
      /\ \A i \in 1 .. Len(parts) - 1 : Tail(parts)[i] = parts[i + 1]
  BY <1>1
<1>3. T \in Seq(STRING)
  BY <1>2 DEF InTree
<1>4. ASSUME Tail(parts) # <<>> PROVE Last(Tail(parts)) = Last(parts)
  <2>1. Len(parts) - 1 \in 1 .. Len(parts) - 1
    BY <1>1, <1>2, <1>4, EmptySeq
  <2>2. Last(Tail(parts)) = Tail(parts)[Len(parts) - 1] /\ Last(parts) = parts[Len(parts)]
    BY <1>2 DEF Last
  <2>3. Tail(parts)[Len(parts) - 1] = parts[Len(parts) - 1 + 1]
    BY <1>2, <2>1
  <2>4. Len(parts) - 1 + 1 = Len(parts)
    BY <1>1
  <2> QED  BY <2>2, <2>3, <2>4
<1>5. T # <<>> => Last(T) = Last(parts)
  BY <1>4 DEF InTree
<1>6. ModuleName(parts) = IF IsInit(T) THEN Front(T) ELSE T
  BY DEF ModuleName, InTree
<1> QED  BY <1>3, <1>5, <1>6

\* A module lies where its name says.
LEMMA ModulesLie ==
    ASSUME ScanInv, NEW m \in Modules
    PROVE  LiesAt(m.path, NameOf(m))
<1> DEFINE T == InTree(PartsOf[m.path])
<1>1. PartsOf[m.path] \in Seq(STRING) /\ PartsOf[m.path] # <<>> /\ NameOf(m) = ModuleName(PartsOf[m.path])
  BY PartsOfNames
<1>2. T \in Seq(STRING) /\ NameOf(m) = IF IsInit(T) THEN Front(T) ELSE T
  BY <1>1, TreePlaces
<1>3. ASSUME IsInit(T) PROVE T = Append(Front(T), "__init__")
  <2>1. T # <<>> /\ Last(T) = "__init__"
    BY <1>3 DEF IsInit
  <2> HIDE DEF T
  <2>2. Len(T) \in Nat \ {0} /\ T[Len(T)] = "__init__"
    BY <1>2, <2>1, EmptySeq DEF Last
  <2>3. Append(SubSeq(T, 1, Len(T) - 1), T[Len(T)]) = T
    BY <1>2, <2>2
  <2> QED  BY <2>2, <2>3 DEF Front
<1> QED  BY <1>2, <1>3 DEF LiesAt

LEMMA ImportsAreTyped ==
    ASSUME ScanInv, NEW m \in Modules, NEW i \in DOMAIN m.imports
    PROVE  /\ m.imports[i] \in [op : {"import"}, module : Seq(STRING), name : STRING \cup {NoName},
                                alias : STRING \cup {NoName}, level : Nat, at : Nat]
           /\ m.imports[i].name = NoName => m.imports[i].level = 0 /\ m.imports[i].module # <<>>
<1>1. m.imports = Imports(Tree(m.path)) /\ IsSyntax(Tree(m.path))
  BY ModulesAre, ParsedIsSyntax
<1>2. m.imports[i] \in Range(Imports(Tree(m.path)))
  BY <1>1 DEF Range
<1> QED  BY <1>1, <1>2 DEF IsSyntax

\* The package a relative import starts from, and where it leads.
LEMMA RelativeLeadsUpwards ==
    ASSUME ScanInv, NEW m \in Modules, NEW i \in DOMAIN m.imports,
           m.imports[i].level > 0, Len(InTree(PartsOf[m.path])) > m.imports[i].level
    PROVE  AbsoluteName(m, m.imports[i]) = Upwards(m.path, m.imports[i].level) \o m.imports[i].module
<1> DEFINE T == InTree(PartsOf[m.path])
           level == m.imports[i].level
           package == ModulePackage(m)
<1>1. /\ m.parts = PartsOf[m.path] /\ m.parts \in Seq(STRING) /\ m.parts # <<>>
      /\ NameOf(m) = ModuleName(m.parts)
  BY PartsOfNames
<1>2. /\ T \in Seq(STRING) /\ (T # <<>> => Last(T) = Last(m.parts))
      /\ NameOf(m) = IF IsInit(T) THEN Front(T) ELSE T
  BY <1>1, TreePlaces
<1>3. level \in Nat \ {0} /\ Len(T) \in Nat /\ Len(T) > level
  BY <1>2, ImportsAreTyped
<1>4. T # <<>>
  BY <1>3
<1>5. package = SubSeq(T, 1, Len(T) - 1)
  <2>1. IsInit(T) <=> IsInit(m.parts)
    BY <1>1, <1>2, <1>4 DEF IsInit
  <2>2. package = Front(T)
    BY <1>2, <1>4, <2>1 DEF ModulePackage, PackageName
  <2> QED  BY <2>2 DEF Front
<1> HIDE DEF T, level, package
<1>6. package \in Seq(STRING) /\ Len(package) = Len(T) - 1
  BY <1>2, <1>3, <1>5
<1>7. Len(package) - (level - 1) = Len(T) - level /\ level - 1 <= Len(package) /\ level # 0
  BY <1>3, <1>6
<1>8. SubSeq(package, 1, Len(T) - level) = SubSeq(T, 1, Len(T) - level)
  BY <1>2, <1>3, <1>5, <1>6
<1>9. AbsoluteName(m, m.imports[i]) = SubSeq(package, 1, Len(package) - (level - 1)) \o m.imports[i].module
  <2>1. ~(level - 1 > Len(package))
    BY <1>3, <1>6, <1>7
  <2> QED  BY <1>7, <2>1 DEF AbsoluteName, package, level
<1> QED  BY <1>7, <1>8, <1>9 DEF Upwards, T, level

\* An import that is resolved leads to a module of the name it stands for.
LEMMA ResolvedImport ==
    ASSUME ScanInv, NEW m \in Modules, NEW imported, ImportEdge(Modules, m, imported).target # NoName
    PROVE  \E n \in Modules : /\ ImportEdge(Modules, m, imported).target = n.id
                              /\ NameOf(n) = ImportedModule(Modules, m, imported)
<1> DEFINE matches == Named(Modules, ImportedModule(Modules, m, imported))
           found == CHOOSE n \in matches : TRUE
           edge == ImportEdge(Modules, m, imported)
           place == <<imported.at, ImportEvidence(m, imported)>>
<1>1. CASE Cardinality(matches) = 1
  <2>1. found \in matches
    BY <1>1, NotEmpty
  <2>2. edge = Edge("imports", m.id, found.id, "resolved-static", place)
    BY <1>1 DEF ImportEdge
  <2> HIDE DEF found, edge, place
  <2>3. edge.target = found.id
    BY <2>2 DEF Edge
  <2> QED  BY <2>1, <2>3 DEF Named, edge
<1>2. CASE Cardinality(matches) # 1
  <2>1. edge = Edge("imports", m.id, NoName,
                    IF matches = {} THEN "unresolved-dynamic" ELSE "ambiguous", place)
    BY <1>2 DEF ImportEdge
  <2> HIDE DEF matches, edge, place
  <2>2. edge.target = NoName
    BY <2>1 DEF Edge
  <2> QED  BY <2>2 DEF edge
<1> QED  BY <1>1, <1>2

LEMMA RelativeImports ==
    ASSUME ScanInv, EdgesAreOfTheFiles
    PROVE  RelativeImportsFollowTheTree
<1> SUFFICES ASSUME stage = "stored", NEW m \in Modules, NEW i \in DOMAIN m.imports,
                    m.imports[i].level > 0, ImportEdge(Modules, m, m.imports[i]).target # NoName,
                    Len(InTree(PartsOf[m.path])) > m.imports[i].level
             PROVE  LET imported == m.imports[i]
                        edge == ImportEdge(Modules, m, imported)
                        place == Upwards(m.path, imported.level) \o imported.module
                    IN \/ LiesAt(edge.target[1], place)
                       \/ LiesAt(edge.target[1], Append(place, imported.name))
  BY DEF RelativeImportsFollowTheTree, ScanInv, EvidenceIsOfTheFiles, Evaluated, ImportEdges
<1> DEFINE imported == m.imports[i]
           edge == ImportEdge(Modules, m, imported)
           place == Upwards(m.path, imported.level) \o imported.module
<1>1. AbsoluteName(m, imported) = place
  BY RelativeLeadsUpwards
<1>2. PICK n \in Modules : edge.target = n.id /\ NameOf(n) = ImportedModule(Modules, m, imported)
  BY ResolvedImport
<1>3. NameOf(n) \in {place, Append(place, imported.name)}
  BY <1>1, <1>2 DEF ImportedModule
<1>4. LiesAt(n.path, NameOf(n)) /\ n.id = <<n.path, 0>>
  BY ModulesLie, ModulesAre
<1>5. edge.target[1] = n.path
  BY <1>2, <1>4
<1> QED  BY <1>3, <1>4, <1>5

\* Names are joined and cut; kept as operators, so that a step can speak of the
\* name and not of its elements.
Joined(a, b) == a \o b
FirstOf(a, k) == SubSeq(a, 1, k)

\* Two ways of cutting one name in two: one of the first halves begins the other.
LEMMA LongerHalf ==
    ASSUME NEW U, NEW a \in Seq(U), NEW b \in Seq(U), NEW c \in Seq(U), NEW d \in Seq(U),
           Joined(a, b) = Joined(c, d), NEW k \in Nat \ {0}, Len(c) = Len(a) + k
    PROVE  IsStrictPrefix(a, c) /\ k \in 1 .. Len(b) /\ c = Joined(a, FirstOf(b, k))
<1> USE DEF Joined, FirstOf
<1> DEFINE e == a \o SubSeq(b, 1, k)
<1>1. Len(a) \in Nat /\ Len(b) \in Nat /\ Len(c) \in Nat /\ Len(d) \in Nat
  OBVIOUS
<1>2. Len(a) + Len(b) = Len(c) + Len(d)
  <2>1. Len(a \o b) = Len(a) + Len(b) /\ Len(c \o d) = Len(c) + Len(d)
    BY ConcatProperties
  <2> QED  BY <2>1
<1>3. k \in 1 .. Len(b)
  BY <1>1, <1>2
<1>4. \A i \in 1 .. Len(c) : c[i] = (a \o b)[i]
  <2>1. \A i \in 1 .. Len(c) : c[i] = (c \o d)[i]
    BY <1>1
  <2> QED  BY <2>1
<1>5. SubSeq(b, 1, k) \in Seq(U) /\ Len(SubSeq(b, 1, k)) = k
      /\ \A i \in 1 .. k : SubSeq(b, 1, k)[i] = b[i]
  BY <1>1, <1>3
<1>6. e \in Seq(U) /\ Len(e) = Len(c)
  BY <1>1, <1>5
<1>7. \A i \in 1 .. Len(c) : e[i] = c[i]
  <2> SUFFICES ASSUME NEW i \in 1 .. Len(c) PROVE e[i] = c[i]
    OBVIOUS
  <2>1. CASE i <= Len(a)
    <3>1. e[i] = a[i] /\ (a \o b)[i] = a[i]
      BY <1>1, <1>5, <2>1
    <3> QED  BY <1>4, <3>1
  <2>2. CASE i > Len(a)
    <3>1. i - Len(a) \in 1 .. k /\ i - Len(a) \in 1 .. Len(b)
      BY <1>1, <1>3, <2>2
    <3>2. e[i] = SubSeq(b, 1, k)[i - Len(a)]
      BY <1>1, <1>5, <2>2, <3>1
    <3>3. (a \o b)[i] = b[i - Len(a)]
      <4>1. i \in 1 .. Len(a) + Len(b) /\ i \in Nat
        BY <1>1, <1>2, <2>2
      <4> QED  BY <1>1, <2>2, <4>1
    <3> QED  BY <1>4, <1>5, <3>1, <3>2, <3>3
  <2>3. i <= Len(a) \/ i > Len(a)
    BY <1>1
  <2> QED  BY <2>1, <2>2, <2>3
<1>8. e = c
  <2> HIDE DEF e
  <2>1. e \in Seq(U) /\ c \in Seq(U) /\ Len(e) = Len(c) /\ \A i \in 1 .. Len(e) : e[i] = c[i]
    BY <1>6, <1>7
  <2> QED  BY <2>1, SeqEqual
<1>9. IsStrictPrefix(a, c)
  <2>1. Len(a) <= Len(c) /\ a # c
    BY <1>1
  <2>2. \A i \in 1 .. Len(a) : c[i] = a[i]
    <3>1. \A i \in 1 .. Len(a) : (a \o b)[i] = a[i] /\ i \in 1 .. Len(c)
      BY <1>1
    <3> QED  BY <1>4, <3>1
  <2>3. SubSeq(a, 1, Len(a)) = SubSeq(c, 1, Len(a))
    BY <1>1, <2>1, <2>2
  <2> QED  BY <2>1, <2>3 DEF IsStrictPrefix, IsPrefix
<1> QED  BY <1>3, <1>8, <1>9

LEMMA SameHalf ==
    ASSUME NEW U, NEW a \in Seq(U), NEW b \in Seq(U), NEW c \in Seq(U), NEW d \in Seq(U),
           a \o b = c \o d, Len(a) = Len(c)
    PROVE  a = c
<1>1. \A i \in 1 .. Len(a) : (a \o b)[i] = a[i]
  OBVIOUS
<1>2. \A i \in 1 .. Len(c) : (c \o d)[i] = c[i]
  OBVIOUS
<1>3. \A i \in 1 .. Len(a) : a[i] = c[i]
  BY <1>1, <1>2
<1> QED  BY <1>3, SeqEqual

LEMMA Halves ==
    ASSUME NEW U, NEW a \in Seq(U), NEW b \in Seq(U), NEW c \in Seq(U), NEW d \in Seq(U),
           Joined(a, b) = Joined(c, d)
    PROVE  \/ a = c
           \/ IsStrictPrefix(a, c) /\ \E k \in 1 .. Len(b) : c = Joined(a, FirstOf(b, k))
           \/ IsStrictPrefix(c, a) /\ \E k \in 1 .. Len(d) : a = Joined(c, FirstOf(d, k))
<1>1. Len(a) < Len(c) \/ Len(c) < Len(a) \/ Len(a) = Len(c)
  OBVIOUS
<1>2. CASE Len(a) = Len(c)
  BY <1>2, SameHalf DEF Joined
<1>3. CASE Len(a) < Len(c)
  <2>1. PICK k \in Nat \ {0} : Len(c) = Len(a) + k
    <3>1. Len(c) - Len(a) \in Nat \ {0} /\ Len(c) = Len(a) + (Len(c) - Len(a))
      BY <1>3
    <3> QED  BY <3>1
  <2>2. IsStrictPrefix(a, c) /\ k \in 1 .. Len(b) /\ c = Joined(a, FirstOf(b, k))
    BY <2>1, LongerHalf
  <2> QED  BY <2>2
<1>4. CASE Len(c) < Len(a)
  <2>1. Joined(c, d) = Joined(a, b)
    OBVIOUS
  <2>2. PICK k \in Nat \ {0} : Len(a) = Len(c) + k
    <3>1. Len(a) - Len(c) \in Nat \ {0} /\ Len(a) = Len(c) + (Len(a) - Len(c))
      BY <1>4
    <3> QED  BY <3>1
  <2>3. IsStrictPrefix(c, a) /\ k \in 1 .. Len(d) /\ a = Joined(c, FirstOf(d, k))
    BY <2>1, <2>2, LongerHalf
  <2> QED  BY <2>3
<1> QED  BY <1>1, <1>2, <1>3, <1>4

\* Every beginning of a chain of definitions is one.
LEMMA ChainsBegin ==
    ASSUME NEW body, MaxNesting \in Nat \ {0}, NEW d \in Definitions(body),
           NEW k \in 1 .. Len(d.chain)
    PROVE  \E e \in Definitions(body) :
              /\ Len(e.chain) = k /\ e.node = d.chain[k]
              /\ \A i \in 1 .. k : e.chain[i] = d.chain[i]
<1> DEFINE L == Len(d.chain)
           Good(j) == \E e \in Definitions(body) :
                         Len(e.chain) = L - j /\ \A i \in 1 .. L - j : e.chain[i] = d.chain[i]
           P == {j \in 0 .. L - 1 : Good(j)}
<1>0. L \in Nat \ {0}
  BY HolderIsDefined
<1>1. 0 \in P
  BY <1>0
<1>2. ASSUME NEW j \in 1 .. L - 1, j - 1 \in P PROVE j \in P
  <2>1. PICK e \in Definitions(body) :
          Len(e.chain) = L - (j - 1) /\ \A i \in 1 .. L - (j - 1) : e.chain[i] = d.chain[i]
    BY <1>2
  <2>2. PICK c \in Chains(body) : e = [chain |-> c, node |-> Last(c)]
    BY DEF Definitions
  <2>3. Len(c) = L - (j - 1) /\ Len(c) # 1 /\ Len(c) - 1 = L - j
    <3>1. Len(c) = L - (j - 1)
      BY <2>1, <2>2
    <3> HIDE DEF L
    <3> QED  BY <1>0, <3>1
  <2>4. /\ Front(c) \in Chains(body) /\ Len(Front(c)) = L - j
        /\ \A i \in 1 .. L - j : Front(c)[i] = c[i]
    BY <2>3, ChainsClosed
  <2> DEFINE f == [chain |-> Front(c), node |-> Last(Front(c))]
  <2>5. f \in Definitions(body)
    BY <2>4 DEF Definitions
  <2>6. \A i \in 1 .. L - j : f.chain[i] = d.chain[i]
    <3>1. \A i \in 1 .. L - j : i \in 1 .. L - (j - 1)
      BY <1>0
    <3> QED  BY <2>1, <2>2, <2>4, <3>1
  <2>7. Good(j)
    BY <2>4, <2>5, <2>6
  <2>8. j \in 0 .. L - 1
    BY <1>0
  <2> HIDE DEF Good
  <2> QED  BY <2>7, <2>8
<1>3. 0 .. L - 1 \subseteq P
  <2>1. L - 1 \in Nat
    BY <1>0
  <2> HIDE DEF P, L
  <2> QED  BY <1>1, <1>2, <2>1, UpToBound
<1>4. L - k \in 0 .. L - 1 /\ L - (L - k) = k
  BY <1>0
<1>5. Good(L - k)
  <2> HIDE DEF Good
  <2> QED  BY <1>3, <1>4
<1>6. PICK e \in Definitions(body) : Len(e.chain) = k /\ \A i \in 1 .. k : e.chain[i] = d.chain[i]
  BY <1>4, <1>5
<1>7. e.node = e.chain[k]
  BY <1>6, HolderIsDefined
<1> QED  BY <1>6, <1>7

\* The name of a symbol within its module: those of the definitions around it.
LEMMA InnerNames ==
    ASSUME ScanInv, NEW p \in ParsedPaths, NEW d \in Definitions(Tree(p))
    PROVE  /\ SymbolRecord(p, d).inner \in Seq(STRING)
           /\ Len(SymbolRecord(p, d).inner) = Len(d.chain) /\ Len(d.chain) \in Nat \ {0}
           /\ \A i \in 1 .. Len(d.chain) : SymbolRecord(p, d).inner[i] = d.chain[i].name
<1> DEFINE n == Len(d.chain)
           name(i) == d.chain[i].name
           inner == [i \in 1 .. n |-> name(i)]
<1>1. IsChain(d.chain) /\ n \in Nat \ {0}
  BY HolderIsDefined, AnalysisAssumption
<1>2. SymbolRecord(p, d).inner = inner
  <2>1. PICK U : d.chain \in Seq(U)
    BY <1>1 DEF IsChain
  <2>2. DOMAIN d.chain = 1 .. n
    BY <2>1
  <2>3. SymbolRecord(p, d).inner = [i \in DOMAIN d.chain |-> d.chain[i].name]
    BY DEF SymbolRecord
  <2> QED  BY <2>2, <2>3
<1>3. ASSUME NEW i \in 1 .. n PROVE name(i) \in STRING
  <2>1. PICK e \in Definitions(Tree(p)) : e.node = d.chain[i]
    BY ChainsBegin, AnalysisAssumption
  <2> QED  BY <2>1, ParsedIsSyntax DEF IsSyntax
<1> HIDE DEF name
<1>4. inner \in [1 .. n -> STRING]
  BY <1>3
<1>5. inner \in Seq(STRING) /\ Len(inner) = n /\ \A i \in 1 .. n : inner[i] = name(i)
  <2> HIDE DEF n
  <2>1. \A i \in 1 .. n : inner[i] = name(i)
    OBVIOUS
  <2> HIDE DEF inner
  <2> QED  BY <1>1, <1>4, <2>1
<1> QED  BY <1>1, <1>2, <1>5 DEF name

LEMMA SymbolNames ==
    ASSUME ScanInv, NEW t \in Symbols
    PROVE  /\ t.inner \in Seq(STRING) /\ t.inner # <<>>
           /\ t.module = ModuleName(PartsOf[t.path]) /\ t.module \in Seq(STRING)
           /\ t.path \in ParsedPaths
<1>1. PICK d \in Definitions(Tree(t.path)) : t = SymbolRecord(t.path, d)
  BY SymbolsAre
<1>2. t.path \in ParsedPaths /\ t.path \in Paths
  BY SymbolsAre
<1> DEFINE p == t.path
<1>3. p \in ParsedPaths /\ t = SymbolRecord(p, d) /\ d \in Definitions(Tree(p))
  BY <1>1, <1>2
<1> HIDE DEF p
<1>4. t.inner \in Seq(STRING) /\ Len(t.inner) \in Nat \ {0}
  BY <1>3, InnerNames
<1>5. t.inner # <<>>
  BY <1>4
<1>6. t.module = ModuleName(PartsOf[p])
  BY <1>3 DEF SymbolRecord
<1>7. ModuleName(PartsOf[p]) \in Seq(STRING)
  BY <1>2, AnalysisAssumption, NamesAreSequences DEF IsName, p
<1> QED  BY <1>2, <1>4, <1>5, <1>6, <1>7 DEF p

\* Around a symbol there is one for every beginning of its name.
LEMMA SymbolsAround ==
    ASSUME ScanInv, NEW t \in Symbols, NEW k \in 1 .. Len(t.inner)
    PROVE  \E s \in Symbols : QualifiedName(s) = t.module \o SubSeq(t.inner, 1, k)
<1>1. PICK d \in Definitions(Tree(t.path)) : t = SymbolRecord(t.path, d)
  BY SymbolsAre
<1> DEFINE p == t.path
<1>2. p \in ParsedPaths /\ t = SymbolRecord(p, d) /\ d \in Definitions(Tree(p))
  BY <1>1, SymbolsAre
<1> HIDE DEF p
<1>3. /\ t.inner \in Seq(STRING) /\ Len(t.inner) = Len(d.chain)
      /\ \A i \in 1 .. Len(d.chain) : t.inner[i] = d.chain[i].name
  BY <1>2, InnerNames
<1>4. PICK e \in Definitions(Tree(p)) :
        Len(e.chain) = k /\ \A i \in 1 .. k : e.chain[i] = d.chain[i]
  BY <1>2, <1>3, ChainsBegin, AnalysisAssumption
<1> DEFINE s == SymbolRecord(p, e)
<1>5. s \in Symbols
  BY <1>2 DEF Symbols
<1>6. s.module = t.module
  BY <1>2 DEF SymbolRecord
<1>7. /\ s.inner \in Seq(STRING) /\ Len(s.inner) = k
      /\ \A i \in 1 .. k : s.inner[i] = e.chain[i].name
  BY <1>2, <1>4, InnerNames
<1> HIDE DEF s
<1>8. s.inner = SubSeq(t.inner, 1, k)
  <2>1. \A i \in 1 .. k : s.inner[i] = t.inner[i]
    BY <1>3, <1>4, <1>7
  <2> QED  BY <1>3, <1>7, <2>1
<1> QED  BY <1>5, <1>6, <1>8 DEF QualifiedName

-----------------------------------------------------------------------------
(* What backs a use.                                                          *)

LEMMA ModulesAreFinite == ASSUME ScanInv PROVE IsFiniteSet(Modules)
<1> DEFINE f == [m \in Modules |-> m.path]
<1>1. f \in Injection(Modules, Paths)
  <2>1. f \in [Modules -> Paths]
    BY ModulesAre
  <2>2. \A m, n \in Modules : f[m] = f[n] => m = n
    BY ModulesAre
  <2> QED  BY <2>1, <2>2 DEF Injection, IsInjective
<1>2. IsFiniteSet(Paths)
  BY DiscoveryAssumption
<1> QED  BY <1>1, <1>2, FS_Injection

LEMMA SharedName ==
    ASSUME ScanInv, NEW m \in Modules, NEW n \in Modules, m # n, NameOf(m) = NameOf(n)
    PROVE  Cardinality(Named(Modules, NameOf(n))) > 1
<1> DEFINE S == Named(Modules, NameOf(n))
<1>1. IsFiniteSet(S) /\ m \in S /\ n \in S
  <2>1. S \subseteq Modules /\ m \in S /\ n \in S
    BY DEF Named
  <2> QED  BY <2>1, ModulesAreFinite, FS_Subset
<1> HIDE DEF S
<1>2. Cardinality(S) \in Nat /\ Cardinality(S) # 0
  BY <1>1, FS_CardinalityType, FS_EmptySet
<1>3. Cardinality(S) # 1
  <2> SUFFICES ASSUME Cardinality(S) = 1 PROVE FALSE
    OBVIOUS
  <2>1. \E x : S = {x}
    BY <1>1, FS_Singleton
  <2> QED  BY <1>1, <2>1
<1> QED  BY <1>2, <1>3 DEF S

\* A resolved import leads from m to n, or n shares its name.
Backed(m, n) ==
    \/ \E d \in AllEdges : /\ d.type = "imports" /\ d.status = "resolved-static"
                           /\ d.source = m.id /\ d.target = n.id
    \/ Cardinality(Named(Modules, NameOf(n))) > 1

\* An import of the name of a module is resolved to it, or the name is shared.
LEMMA ImportBacks ==
    ASSUME ScanInv, NEW m \in Modules, NEW n \in Modules, NEW i \in DOMAIN m.imports,
           ImportedModule(Modules, m, m.imports[i]) = NameOf(n)
    PROVE  Backed(m, n)
<1> DEFINE matches == Named(Modules, NameOf(n))
           imported == m.imports[i]
           edge == ImportEdge(Modules, m, imported)
           place == <<imported.at, ImportEvidence(m, imported)>>
           found == CHOOSE x \in matches : TRUE
<1>1. n \in matches
  BY DEF Named
<1>2. edge \in AllEdges
  <2>1. ImportRow(m, i) \in {ImportRow(m, j) : j \in DOMAIN m.imports}
    OBVIOUS
  <2>2. ImportRow(m, i) \in AllImports
    BY <2>1 DEF AllImports
  <2>3. ImportRow(m, i).edge = edge
    BY DEF ImportRow, ImportEdges
  <2> HIDE DEF edge
  <2> QED  BY <2>2, <2>3 DEF AllEdges
<1>3. CASE Cardinality(matches) = 1
  <2>1. found = n
    <3>1. found \in matches
      BY <1>3, NotEmpty
    <3>2. ASSUME found # n PROVE FALSE
      <4>1. found \in Modules /\ NameOf(found) = NameOf(n)
        BY <3>1 DEF Named
      <4>2. Cardinality(matches) > 1
        <5> HIDE DEF found
        <5> QED  BY <3>2, <4>1, SharedName
      <4> QED  BY <1>3, <4>2
    <3> QED  BY <3>2
  <2>2. edge = Edge("imports", m.id, found.id, "resolved-static", place)
    BY <1>3 DEF ImportEdge
  <2> HIDE DEF found, edge, place
  <2>3. /\ edge.type = "imports" /\ edge.status = "resolved-static"
        /\ edge.source = m.id /\ edge.target = n.id
    BY <2>1, <2>2 DEF Edge
  <2> QED  BY <1>2, <2>3 DEF Backed
<1>4. CASE Cardinality(matches) # 1
  <2>1. IsFiniteSet(matches)
    BY ModulesAreFinite, FS_Subset DEF Named
  <2> HIDE DEF matches
  <2>2. Cardinality(matches) \in Nat /\ Cardinality(matches) # 0
    BY <1>1, <2>1, FS_CardinalityType, FS_EmptySet
  <2>3. Cardinality(matches) > 1
    BY <1>4, <2>2
  <2> QED  BY <2>3 DEF Backed, matches
<1> QED  BY <1>3, <1>4

\* What UsesAreBackedByImports says of the files instead of the evidence.
Mistaken(m, s) ==
    \/ \E n \in Modules : IsPrefix(QualifiedName(s), NameOf(n))
    \/ \E i \in DOMAIN m.imports : QualifiedName(s) = AbsoluteName(m, m.imports[i])
Explained(m, n) ==
    \/ Backed(m, n)
    \/ IsStrictPrefix(NameOf(m), NameOf(n))
    \/ \E s \in Symbols : Mistaken(m, s)

LEMMA AbsoluteNames ==
    ASSUME ScanInv, NEW m \in Modules, NEW i \in DOMAIN m.imports
    PROVE  AbsoluteName(m, m.imports[i]) \in Seq(STRING)
<1> DEFINE package == ModulePackage(m)
           imported == m.imports[i]
           k == Len(package) - (imported.level - 1)
<1>1. package \in Seq(STRING)
  BY PartsOfNames
<1>2. imported.level \in Nat /\ imported.module \in Seq(STRING)
  BY ImportsAreTyped
<1>3. CASE imported.level = 0
  BY <1>2, <1>3 DEF AbsoluteName
<1>4. CASE imported.level - 1 > Len(package) /\ imported.level # 0
  <2>1. AbsoluteName(m, imported) = <<>>
    BY <1>4 DEF AbsoluteName
  <2>2. <<>> \in Seq(STRING)
    OBVIOUS
  <2> QED  BY <2>1, <2>2
<1>5. CASE imported.level # 0 /\ ~(imported.level - 1 > Len(package))
  <2>1. AbsoluteName(m, imported) = SubSeq(package, 1, k) \o imported.module
    BY <1>5 DEF AbsoluteName
  <2> HIDE DEF package, imported
  <2>2. Len(package) \in Nat /\ imported.level \in Nat \ {0} /\ imported.level - 1 <= Len(package)
    BY <1>1, <1>2, <1>5
  <2>3. k \in 0 .. Len(package)
    BY <2>2
  <2> HIDE DEF k
  <2>4. SubSeq(package, 1, k) \in Seq(STRING)
    BY <1>1, <2>2, <2>3
  <2>5. SubSeq(package, 1, k) \o imported.module \in Seq(STRING)
    BY <1>2, <2>4, ConcatProperties
  <2> QED  BY <2>1, <2>5 DEF imported
<1> QED  BY <1>3, <1>4, <1>5

LEMMA PrefixOfItself == \A s \in Seq(STRING) : IsPrefix(s, s)
BY DEF IsPrefix

\* A symbol is part of the name of a module, or is that name.
LEMMA SymbolInModule ==
    ASSUME ScanInv, NEW t \in Symbols, NEW n \in Modules, NEW k \in 1 .. Len(t.inner),
           NameOf(n) = Joined(t.module, FirstOf(t.inner, k))
    PROVE  \E s \in Symbols : IsPrefix(QualifiedName(s), NameOf(n))
<1>1. PICK s \in Symbols : QualifiedName(s) = t.module \o SubSeq(t.inner, 1, k)
  BY SymbolsAround
<1>2. QualifiedName(s) = NameOf(n) /\ NameOf(n) \in Seq(STRING)
  BY <1>1, PartsOfNames DEF Joined, FirstOf
<1> QED  BY <1>2, PrefixOfItself

\* A class found by what m calls things itself.
LEMMA LocalUse ==
    ASSUME ScanInv, NEW m \in Modules, NEW n \in Modules, m # n,
           NEW t \in Symbols, t.path = n.path,
           NEW reference, IsName(reference.text), reference.module = NameOf(m),
           t \in LocalMatches(Symbols, reference)
    PROVE  Explained(m, n)
<1>1. /\ t.module = NameOf(n) /\ t.inner \in Seq(STRING)
      /\ NameOf(m) \in Seq(STRING) /\ NameOf(n) \in Seq(STRING)
  BY SymbolNames, PartsOfNames
<1>2. reference.text \in Seq(STRING)
  BY DEF IsName
<1>3. \/ QualifiedName(t) = reference.module \o reference.text
      \/ t.module = reference.module
  BY DEF LocalMatches, Classes
<1>4. CASE t.module = reference.module
  BY <1>1, <1>4, SharedName DEF Explained, Backed
<1>5. CASE QualifiedName(t) = reference.module \o reference.text
  <2>1. Joined(NameOf(n), t.inner) = Joined(NameOf(m), reference.text)
    BY <1>1, <1>5 DEF QualifiedName, Joined
  <2>2. \/ NameOf(n) = NameOf(m)
        \/ \E k \in 1 .. Len(t.inner) : NameOf(m) = Joined(NameOf(n), FirstOf(t.inner, k))
        \/ IsStrictPrefix(NameOf(m), NameOf(n))
    BY <1>1, <1>2, <2>1, Halves
  <2>3. CASE NameOf(n) = NameOf(m)
    BY <2>3, SharedName DEF Explained, Backed
  <2>4. CASE \E k \in 1 .. Len(t.inner) : NameOf(m) = Joined(NameOf(n), FirstOf(t.inner, k))
    <3>1. PICK s \in Symbols : IsPrefix(QualifiedName(s), NameOf(m))
      BY <1>1, <2>4, SymbolInModule
    <3> QED  BY <3>1 DEF Explained, Mistaken
  <2>5. CASE IsStrictPrefix(NameOf(m), NameOf(n))
    BY <2>5 DEF Explained
  <2> QED  BY <2>2, <2>3, <2>4, <2>5
<1> QED  BY <1>3, <1>4, <1>5

\* A class found by a name that from ... import binds to a symbol.
LEMMA SymbolUse ==
    ASSUME ScanInv, NEW m \in Modules, NEW n \in Modules, m # n,
           NEW t \in Symbols, t.path = n.path,
           NEW i \in DOMAIN m.imports, m.imports[i].name # NoName,
           NEW rest \in Seq(STRING), NEW s \in Symbols,
           QualifiedName(s) = Append(AbsoluteName(m, m.imports[i]), m.imports[i].name),
           QualifiedName(t) = Append(AbsoluteName(m, m.imports[i]), m.imports[i].name) \o rest
    PROVE  Explained(m, n)
<1> DEFINE base == AbsoluteName(m, m.imports[i])
           name == m.imports[i].name
           bound == Append(base, name)
           tail == <<name>> \o rest
<1>1. /\ t.module = NameOf(n) /\ t.inner \in Seq(STRING) /\ NameOf(n) \in Seq(STRING)
      /\ base \in Seq(STRING)
  BY SymbolNames, PartsOfNames, AbsoluteNames
<1>2. name \in STRING
  BY ImportsAreTyped
<1> HIDE DEF base, name
<1>3. bound \in Seq(STRING) /\ tail \in Seq(STRING)
  BY <1>1, <1>2
<1>4. bound \o rest = base \o tail
  <2>1. bound = base \o <<name>>
    BY <1>1, <1>2
  <2>2. <<name>> \in Seq(STRING)
    BY <1>2
  <2> QED  BY <1>1, <2>1, <2>2, ConcatAssociative
<1>5. CASE Named(Modules, bound) # {}
  <2>1. PICK o \in Modules : NameOf(o) = bound
    BY <1>5 DEF Named
  <2>2. IsPrefix(QualifiedName(s), NameOf(o))
    BY <1>3, <2>1, PrefixOfItself DEF base, name
  <2> QED  BY <2>2 DEF Explained, Mistaken
<1>6. CASE Named(Modules, bound) = {}
  <2>1. ImportedModule(Modules, m, m.imports[i]) = base
    BY <1>6 DEF ImportedModule, base, name
  <2>2. Joined(NameOf(n), t.inner) = Joined(base, tail)
    BY <1>1, <1>4 DEF QualifiedName, Joined, base, name
  <2> HIDE DEF bound, tail
  <2>3. \/ NameOf(n) = base
        \/ \E k \in 1 .. Len(t.inner) : base = Joined(NameOf(n), FirstOf(t.inner, k))
        \/ \E k \in 1 .. Len(tail) : NameOf(n) = Joined(base, FirstOf(tail, k))
    <3>1. tail \in Seq(STRING)
      BY <1>3
    <3>2. \/ NameOf(n) = base
          \/ /\ IsStrictPrefix(NameOf(n), base)
             /\ \E k \in 1 .. Len(t.inner) : base = Joined(NameOf(n), FirstOf(t.inner, k))
          \/ /\ IsStrictPrefix(base, NameOf(n))
             /\ \E k \in 1 .. Len(tail) : NameOf(n) = Joined(base, FirstOf(tail, k))
      BY <1>1, <2>2, <3>1, Halves
    <3> QED  BY <3>2
  <2>4. CASE NameOf(n) = base
    BY <2>1, <2>4, ImportBacks DEF Explained
  <2>5. CASE \E k \in 1 .. Len(t.inner) : base = Joined(NameOf(n), FirstOf(t.inner, k))
    <3>1. PICK k \in 1 .. Len(t.inner) : base = Joined(NameOf(n), FirstOf(t.inner, k))
      BY <2>5
    <3>2. PICK u \in Symbols : QualifiedName(u) = t.module \o SubSeq(t.inner, 1, k)
      BY SymbolsAround
    <3>3. QualifiedName(u) = base
      BY <1>1, <3>1, <3>2 DEF Joined, FirstOf
    <3> QED  BY <3>3 DEF Explained, Mistaken, base
  <2>6. CASE \E k \in 1 .. Len(tail) : NameOf(n) = Joined(base, FirstOf(tail, k))
    <3>1. PICK k \in 1 .. Len(tail) : NameOf(n) = base \o SubSeq(tail, 1, k)
      BY <2>6 DEF Joined, FirstOf
    <3>2. k \in Nat \ {0} /\ Len(tail) \in Nat /\ k <= Len(tail)
      BY <1>3
    <3>3. SubSeq(tail, 1, k) \in Seq(STRING) /\ Len(SubSeq(tail, 1, k)) = k
          /\ SubSeq(tail, 1, k)[1] = tail[1]
      BY <1>3, <3>2
    <3>4. tail[1] = name
      BY <1>2 DEF tail
    <3>5. Len(NameOf(n)) = Len(base) + k /\ NameOf(n)[Len(base) + 1] = name
          /\ \A j \in 1 .. Len(base) : NameOf(n)[j] = base[j]
      <4> DEFINE front == SubSeq(tail, 1, k)
      <4> HIDE DEF front
      <4>1. NameOf(n) = base \o front /\ front \in Seq(STRING) /\ Len(front) = k /\ front[1] = name
        BY <3>1, <3>3, <3>4 DEF front
      <4>2. Len(base) \in Nat
        BY <1>1
      <4>3. Len(base) + 1 \in 1 .. Len(base) + k /\ \A j \in 1 .. Len(base) : j \in 1 .. Len(base) + k
        BY <3>2, <4>2
      <4>4. /\ Len(base \o front) = Len(base) + k
            /\ \A j \in 1 .. Len(base) + k :
                  (base \o front)[j] = IF j <= Len(base) THEN base[j] ELSE front[j - Len(base)]
        BY <1>1, <4>1, ConcatProperties
      <4>5. (base \o front)[Len(base) + 1] = front[Len(base) + 1 - Len(base)]
        BY <4>2, <4>3, <4>4
      <4>6. Len(base) + 1 - Len(base) = 1
        BY <4>2
      <4>7. \A j \in 1 .. Len(base) : (base \o front)[j] = base[j]
        BY <4>2, <4>3, <4>4
      <4> QED  BY <4>1, <4>4, <4>5, <4>6, <4>7
    <3>6. Len(bound) = Len(base) + 1 /\ bound[Len(base) + 1] = name
          /\ \A j \in 1 .. Len(base) : bound[j] = base[j]
      BY <1>1, <1>2 DEF bound
    <3>7. Len(bound) <= Len(NameOf(n)) /\ \A j \in 1 .. Len(bound) : bound[j] = NameOf(n)[j]
      <4>1. Len(base) \in Nat
        BY <1>1
      <4>2. \A j \in 1 .. Len(base) + 1 : j \in 1 .. Len(base) \/ j = Len(base) + 1
        BY <4>1
      <4>3. \A j \in 1 .. Len(bound) : bound[j] = NameOf(n)[j]
        BY <3>5, <3>6, <4>2
      <4>4. Len(bound) <= Len(NameOf(n))
        BY <3>2, <3>5, <3>6, <4>1
      <4> QED  BY <4>3, <4>4
    <3>8. SubSeq(NameOf(n), 1, Len(bound)) = SubSeq(bound, 1, Len(bound))
      BY <1>1, <1>3, <3>7
    <3>9. IsPrefix(QualifiedName(s), NameOf(n))
      <4>1. QualifiedName(s) = bound
        BY DEF bound, base, name
      <4> QED  BY <3>7, <3>8, <4>1 DEF IsPrefix
    <3> QED  BY <3>9 DEF Explained, Mistaken
  <2> QED  BY <2>3, <2>4, <2>5, <2>6
<1> QED  BY <1>5, <1>6

\* A class found by what m imports.
LEMMA ImportedUse ==
    ASSUME ScanInv, NEW m \in Modules, NEW n \in Modules, m # n,
           NEW t \in Symbols, t.path = n.path,
           NEW reference, IsName(reference.text),
           NEW b \in Bindings(Modules, Symbols, m), t \in BindingMatches(Symbols, reference, b)
    PROVE  Explained(m, n)
<1> DEFINE boundTo(i) == Append(AbsoluteName(m, i), i.name)
<1>1. \E i \in Range(m.imports) :
        /\ AbsoluteName(m, i) # <<>>
        /\ \/ /\ i.name = NoName /\ b.name = i.module /\ b.type \in {"module-import", "module"}
           \/ /\ i.name # NoName /\ b.name = boundTo(i)
              /\ \/ b.type = "module" /\ Named(Modules, boundTo(i)) # {}
                 \/ b.type = "symbol" /\ \E s \in Symbols : QualifiedName(s) = boundTo(i)
  <2> DEFINE named == {i \in Range(m.imports) : AbsoluteName(m, i) # <<>>}
             plain == {i \in named : i.name = NoName /\ Named(Modules, i.module) # {}}
             from == named \ {i \in named : i.name = NoName}
             alias(i) == IF i.alias = NoName THEN i.name ELSE i.alias
             A == {[binding |-> Head(i.module), type |-> "module-import", name |-> i.module] :
                      i \in {j \in plain : j.alias = NoName}}
             B == {[binding |-> i.alias, type |-> "module", name |-> i.module] :
                      i \in {j \in plain : j.alias # NoName}}
             C == {[binding |-> alias(i), type |-> "module", name |-> boundTo(i)] :
                      i \in {j \in from : Named(Modules, boundTo(j)) # {}}}
             D == {[binding |-> alias(i), type |-> "symbol", name |-> boundTo(i)] :
                      i \in {j \in from : \E s \in Symbols : QualifiedName(s) = boundTo(j)}}
  <2>1. b \in A \cup B \cup C \cup D
    BY DEF Bindings
  <2> HIDE DEF boundTo, alias
  <2>2. CASE b \in A
    BY <2>2
  <2>3. CASE b \in B
    BY <2>3
  <2>4. CASE b \in C
    BY <2>4
  <2>5. CASE b \in D
    BY <2>5
  <2> QED  BY <2>1, <2>2, <2>3, <2>4, <2>5
<1>2. PICK j \in DOMAIN m.imports :
        LET i == m.imports[j]
        IN /\ AbsoluteName(m, i) # <<>>
           /\ \/ /\ i.name = NoName /\ b.name = i.module /\ b.type \in {"module-import", "module"}
              \/ /\ i.name # NoName /\ b.name = boundTo(i)
                 /\ \/ b.type = "module" /\ Named(Modules, boundTo(i)) # {}
                    \/ b.type = "symbol" /\ \E s \in Symbols : QualifiedName(s) = boundTo(i)
  BY <1>1 DEF Range
<1> DEFINE i == m.imports[j]
<1>3. t.module = NameOf(n)
  BY SymbolNames, PartsOfNames
<1>4. b.type \in {"module-import", "module"} => t.module = b.name
  BY DEF BindingMatches
<1>5. b.type = "symbol" => QualifiedName(t) = b.name \o Tail(reference.text)
  BY DEF BindingMatches, Classes
<1>6. CASE i.name = NoName
  <2>1. NameOf(n) = i.module
    BY <1>2, <1>3, <1>4, <1>6
  <2>2. i.level = 0
    BY <1>6, ImportsAreTyped
  <2>3. ImportedModule(Modules, m, i) = i.module
    BY <1>6, <2>2 DEF ImportedModule, AbsoluteName
  <2> QED  BY <2>1, <2>3, ImportBacks DEF Explained
<1>7. CASE i.name # NoName /\ b.type = "module"
  <2>1. NameOf(n) = boundTo(i) /\ Named(Modules, boundTo(i)) # {} /\ AbsoluteName(m, i) # <<>>
    BY <1>2, <1>3, <1>4, <1>7
  <2>2. ImportedModule(Modules, m, i) = boundTo(i)
    BY <1>7, <2>1 DEF ImportedModule
  <2> QED  BY <2>1, <2>2, ImportBacks DEF Explained
<1>8. CASE i.name # NoName /\ b.type = "symbol"
  <2>1. b.name = boundTo(i) /\ \E s \in Symbols : QualifiedName(s) = boundTo(i)
    BY <1>2, <1>8
  <2>2. QualifiedName(t) = boundTo(i) \o Tail(reference.text)
    BY <1>5, <1>8, <2>1
  <2>3. Tail(reference.text) \in Seq(STRING)
    BY HeadTailProperties DEF IsName
  <2> QED  BY <1>8, <2>1, <2>2, <2>3, SymbolUse
<1> QED  BY <1>2, <1>6, <1>7, <1>8

LEMMA UsesBacked ==
    ASSUME ScanInv, EdgesAreOfTheFiles
    PROVE  UsesAreBackedByImports
<1> SUFFICES ASSUME stage = "stored", NEW e \in AllEdges, NEW m \in Modules, NEW n \in Modules,
                    e.type \in {"inherits", "references-type"}, e.status = "resolved-static",
                    e.source[1] = m.path, e.target[1] = n.path, m # n
             PROVE  Explained(m, n)
  <2>1. stage = "stored" => /\ evidence.modules = Modules /\ evidence.symbols = Symbols
                            /\ evidence.edges = AllEdges
    BY DEF ScanInv, EvidenceIsOfTheFiles, EdgesAreOfTheFiles, Evaluated
  <2> QED  BY <2>1 DEF UsesAreBackedByImports, Explained, Backed, MistakenForModules, Mistaken
<1>1. PICK p \in ParsedPaths : \E d \in Definitions(Tree(p)) : \E f \in References(d.node) :
        e = ReferenceEdge(Modules, Symbols, ReferenceRecord(p, d, f))
  <2>1. e \notin Containment(Modules, Symbols)
    BY DEF Containment, Edge
  <2>2. \A r \in AllImports : r.edge.type = "imports"
    <3> SUFFICES ASSUME NEW r \in AllImports PROVE r.edge.type = "imports"
      OBVIOUS
    <3>1. PICK o \in Modules : \E i \in DOMAIN o.imports : r = ImportRow(o, i)
      BY DEF AllImports
    <3>2. PICK i \in DOMAIN o.imports : r = ImportRow(o, i)
      BY <3>1
    <3>3. r.edge = ImportEdge(Modules, o, o.imports[i])
      BY <3>2 DEF ImportRow, ImportEdges
    <3> QED  BY <3>3 DEF ImportEdge, Edge
  <2>3. PICK r \in AllReferences : e = r.edge
    BY <2>1, <2>2 DEF AllEdges
  <2>4. PICK p \in ParsedPaths : \E d \in Definitions(Tree(p)) : \E f \in References(d.node) :
          r = RowOf(p, d, f)
    BY ReferencesStand
  <2> QED  BY <2>3, <2>4 DEF RowOf, ReferenceRow
<1>2. PICK d \in Definitions(Tree(p)) : \E f \in References(d.node) :
        e = ReferenceEdge(Modules, Symbols, ReferenceRecord(p, d, f))
  BY <1>1
<1>3. PICK f \in References(d.node) :
        e = ReferenceEdge(Modules, Symbols, ReferenceRecord(p, d, f))
  BY <1>2
<1> DEFINE reference == ReferenceRecord(p, d, f)
           resolution == Resolution(Modules, Symbols, reference)
           found == CHOOSE s \in resolution.targets : TRUE
<1>4. /\ reference.source = <<p, d.node.line>> /\ reference.module = ModuleName(PartsOf[p])
      /\ reference.path = p /\ reference.text = f.text /\ IsName(f.text)
  BY ParsedIsSyntax DEF ReferenceRecord, IsSyntax
<1> HIDE DEF reference
<1>5. /\ Cardinality(resolution.targets) = 1 /\ resolution.status = "resolved-static"
      /\ e.source = reference.source /\ e.target = found.id
  <2> HIDE DEF found, resolution
  <2> QED  BY <1>3 DEF ReferenceEdge, Edge, reference, resolution, found
<1>6. found \in resolution.targets
  BY <1>5, NotEmpty
<1>7. \/ found \in LocalMatches(Symbols, reference)
      \/ found \in ImportMatches(Modules, Symbols, reference)
  BY <1>5, <1>6 DEF Resolution
<1>8. found \in Symbols
  BY <1>6, TargetsAreSymbols
<1> HIDE DEF found, resolution
<1>9. p = m.path /\ found.path = n.path
  <2>1. found.id[1] = found.path
    BY <1>8, SymbolsAre
  <2> QED  BY <1>4, <1>5, <2>1
<1>10. reference.module = NameOf(m)
  BY <1>4, <1>9, PartsOfNames
<1>11. CASE found \in LocalMatches(Symbols, reference)
  BY <1>4, <1>8, <1>9, <1>10, <1>11, LocalUse
<1>12. CASE found \in ImportMatches(Modules, Symbols, reference)
  <2>1. PICK o \in Modules : o.path = p /\ \E b \in Bindings(Modules, Symbols, o) :
          found \in BindingMatches(Symbols, reference, b)
    BY <1>4, <1>12 DEF ImportMatches
  <2>2. o = m
    BY <1>9, <2>1, ModulesAre
  <2> QED  BY <1>4, <1>8, <1>9, <2>1, <2>2, ImportedUse
<1> QED  BY <1>7, <1>11, <1>12

\* What a resolved row says of two modules is backed by the tree and by an import
\* (RelationshipAnalyzer.analyze), in any snapshot that is stored.
THEOREM ResolutionsAreAlwaysBacked == AnalysisSpec => []ResolutionsAreBacked
<1>1. AnalysisInit => EdgesAreOfTheFiles
  BY DEF AnalysisInit, DiscoveryInit, EdgesAreOfTheFiles, Evaluated
<1>2. ScanInv /\ EdgesAreOfTheFiles => ResolutionsAreBacked
  BY RelativeImports, UsesBacked DEF ResolutionsAreBacked
<1> QED  BY <1>1, <1>2, EdgesStep, ScansKeep, PTL DEF AnalysisSpec

=============================================================================
