-------------------------- MODULE RelationshipsScreen --------------------------
(* The relationship graph of the workspace                                      *)
(* (workspace-ui/src/components/RelationshipsView.tsx): a summary, then the      *)
(* nodes of a mode, then the neighborhood of one of them, each asked for when    *)
(* the one before is there.  What is shown is kept with its request key.  The    *)
(* effects of an answer run before the next click: "seen" is the graph request   *)
(* they last ran for.                                                            *)
EXTENDS SourceDrawer

CONSTANTS
    GraphTexts, Modes, EdgeFilters,    \* what can be typed and selected
    Trim                               \* [texts -> texts without the blanks around]

ASSUME ModesAssumption == Modes \subseteq GraphModes

VARIABLES
    overview,    \* "loading", "ready", "unsupported" or "error"
    nodeAsk,     \* mode, search and requestedNodeIds
    focusId, edgeFilter,
    nodes, graph,    \* readers of the node list and of the neighborhood
    seen

graphChoices == <<nodeAsk, focusId, edgeFilter>>
relationshipsVars == <<overview, graphChoices, nodes, graph, seen>>

RelationshipsInit ==
    /\ overview = "loading"
    /\ nodeAsk = [mode |-> "modules", search |-> "", members |-> {}]
    /\ focusId = None /\ edgeFilter = ""
    /\ nodes = Idle /\ graph = Idle /\ seen = None

\* nodeRequestKey, and what is asked for: the search is not sent with node ids.
NodeKey == [nodeAsk EXCEPT !.search = Trim[@]]
NodeQuery == [NodeKey EXCEPT !.search = IF nodeAsk.members # {} THEN "" ELSE @]

BugDisplaysNodes == nodes.shown # Nothing
DisplaysNodes == ShownFor(nodes, NodeKey)
ListedNodes == IF DisplaysNodes THEN nodes.shown.value.items ELSE <<>>
NodesLoading == overview = "ready" /\ ~DisplaysNodes /\ ~FailedFor(nodes, NodeKey)

\* effectiveFocusId: the chosen node while it is listed, else the first one.
Focus ==
    IF focusId \in ToSet(ListedNodes) THEN focusId
    ELSE IF ListedNodes = <<>> THEN None ELSE Head(ListedNodes)
GraphKey ==
    IF Focus = None THEN None ELSE [focus |-> Focus, mode |-> nodeAsk.mode, filter |-> edgeFilter]
DisplayedGraph == IF GraphKey # None /\ ShownFor(graph, GraphKey) THEN graph.shown.value ELSE {}

\* The graph effect, for the render that follows.
GraphEffect(reader) ==
    IF GraphKey' = seen THEN graph' = reader
    ELSE IF GraphKey' = None THEN graph' = [reader EXCEPT !.calls = Superseded(@)]
    ELSE CanAsk(reader) /\ graph' = Ask(reader, GraphKey')

AnswerOverview ==
    /\ overview = "loading"
    /\ overview' = RelationshipSummary
    /\ nodes' = IF Supported(2) THEN Ask(nodes, NodeKey) ELSE nodes
    /\ UNCHANGED <<graphChoices, graph, seen>>
LoseOverview ==
    /\ overview = "loading" /\ overview' = "error"
    /\ UNCHANGED <<graphChoices, nodes, graph, seen>>

AnswerNodes(c) ==
    /\ nodes' = Receive(nodes, c, ListNodes([c.about EXCEPT
                                     !.search = IF c.about.members # {} THEN "" ELSE @]))
    /\ UNCHANGED <<overview, graphChoices, graph, seen>>
LoseNodes(c) ==
    /\ nodes' = Fail(nodes, c)
    /\ UNCHANGED <<overview, graphChoices, graph, seen>>

RunGraphEffect ==
    /\ GraphKey # seen
    /\ UNCHANGED <<overview, graphChoices, nodes>>
    /\ GraphEffect(graph) /\ seen' = GraphKey

AnswerGraph(c) ==
    /\ graph' = IF FocusRefused(c.about) THEN Fail(graph, c)
                ELSE Receive(graph, c, Neighborhood(c.about))
    /\ UNCHANGED <<overview, graphChoices, nodes, seen>>
LoseGraph(c) ==
    /\ graph' = Fail(graph, c)
    /\ UNCHANGED <<overview, graphChoices, nodes, seen>>

-----------------------------------------------------------------------------
(* Clicks.  Each clears the selected relationship and the error of the graph;  *)
(* those that change the node list clear its error too and, as they set a new  *)
(* list of requested nodes, always load it again.                              *)

ClickReady == overview = "ready" /\ GraphKey = seen
Forgiven(reader) == [reader EXCEPT !.failed = Nothing]

BugLoadNodes == IF NodeKey' = NodeKey THEN nodes' = Forgiven(nodes)
                ELSE CanAsk(nodes) /\ nodes' = Ask(Forgiven(nodes), NodeKey')
LoadNodes == CanAsk(nodes) /\ nodes' = Ask(Forgiven(nodes), NodeKey')

ChangeNodes(ask, focus) ==
    /\ ClickReady
    /\ nodeAsk' = ask /\ focusId' = focus
    /\ UNCHANGED <<overview, edgeFilter>> /\ LoadNodes
    /\ GraphEffect(Forgiven(graph)) /\ seen' = GraphKey'
    /\ PutAway /\ UNCHANGED disk

ChooseMode(mode) == ChangeNodes([mode |-> mode, search |-> "", members |-> {}], None)
TypeSearch(text) == ChangeNodes([nodeAsk EXCEPT !.search = text, !.members = {}], None)
ChooseCycle(cycle) ==
    LET member == CHOOSE n \in cycle.members : \A m \in cycle.members : n <= m
    IN ChangeNodes([mode |-> IF cycle.type = "imports" THEN "modules" ELSE "inheritance",
                    search |-> "", members |-> {member}], member)

\* A node of the list, or one that the neighborhood shows.
ChooseFocus(n) ==
    /\ ClickReady
    /\ \/ n \in ToSet(ListedNodes)
       \/ DisplayedGraph # {} /\ n \in NeighborhoodNodes(GraphKey)
    /\ focusId' = n
    /\ UNCHANGED <<overview, nodeAsk, edgeFilter, nodes>>
    /\ GraphEffect(Forgiven(graph)) /\ seen' = GraphKey'
    /\ PutAway /\ UNCHANGED disk

ChooseEdges(filter) ==
    /\ ClickReady
    /\ edgeFilter' = filter
    /\ UNCHANGED <<overview, nodeAsk, focusId, nodes>>
    /\ GraphEffect(Forgiven(graph)) /\ seen' = GraphKey'
    /\ PutAway /\ UNCHANGED disk

SelectRelationship(id) ==
    /\ ClickReady
    /\ \E e \in DisplayedGraph :
          e.id = id /\ Pick([id |-> e.id, path |-> e.path, lines |-> 7, about |-> GraphKey])
    /\ UNCHANGED relationshipsVars

\* displayedSelectedRelationship.
SelectionIsDisplayed ==
    /\ picked # Nothing /\ picked.about = GraphKey
    /\ \E e \in DisplayedGraph : e.id = picked.id

NodesAnswer == \E c \in nodes.calls : AnswerNodes(c) \/ LoseNodes(c)
GraphAnswer == \E c \in graph.calls : AnswerGraph(c) \/ LoseGraph(c)

RelationshipsAnswer ==
    AnswerOverview \/ LoseOverview \/ NodesAnswer \/ GraphAnswer \/ RunGraphEffect

RelationshipsClick ==
    \/ \E m \in Modes \ {nodeAsk.mode} : ChooseMode(m)
    \/ \E t \in GraphTexts \ {nodeAsk.search} : TypeSearch(t)
    \/ \E k \in Cycles : ChooseCycle(k)
    \/ \E n \in GraphNodes : ChooseFocus(n.id)
    \/ \E f \in EdgeFilters \ {edgeFilter} : ChooseEdges(f)
    \/ \E e \in Relationships : SelectRelationship(e.id)

=============================================================================
