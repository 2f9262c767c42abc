----------------------------- MODULE EvidenceViews -----------------------------
(* The views that show the evidence of a snapshot.  The workspace mounts one of *)
(* them at a time, for a snapshot that does not change while it is mounted      *)
(* (workspace-ui/src/App.tsx), so a behavior is that of one view.               *)
EXTENDS SymbolsScreen, RelationshipsScreen, CompareScreen

CONSTANT MaxClicks    \* bound: what the user does with a view

ASSUME ClicksAssumption == MaxClicks \in Nat

VARIABLES activeView, clicks

vars == <<activeView, clicks, drawerVars, symbolsVars, relationshipsVars, compareVars>>

Init ==
    /\ activeView \in {"symbols", "relationships", "compare"} /\ clicks = 0
    /\ DrawerInit /\ RelationshipsInit /\ CompareInit
    /\ IF activeView = "symbols" THEN SymbolsInit ELSE SymbolsIdle

AnswerExcerpt == \E c \in excerpt.calls : AnswerSource(c) \/ LoseSource(c)
DrawerAnswer == AnswerExcerpt \/ \E p \in FilePaths : Edit(p)

InSymbols(A) == activeView = "symbols" /\ A /\ UNCHANGED <<relationshipsVars, compareVars>>
InRelationships(A) == activeView = "relationships" /\ A /\ UNCHANGED <<symbolsVars, compareVars>>
InCompare(A) ==
    activeView = "compare" /\ A /\ UNCHANGED <<symbolsVars, relationshipsVars, drawerVars>>

\* What happens by itself, and what the user does.
Progress ==
    /\ UNCHANGED <<activeView, clicks>>
    /\ \/ InSymbols(SymbolsAnswer /\ UNCHANGED drawerVars)
       \/ InSymbols(DrawerAnswer /\ UNCHANGED symbolsVars)
       \/ InRelationships(RelationshipsAnswer /\ UNCHANGED drawerVars)
       \/ InRelationships(DrawerAnswer /\ UNCHANGED relationshipsVars)
       \/ InCompare(CompareAnswer)
Click ==
    /\ clicks < MaxClicks /\ clicks' = clicks + 1 /\ UNCHANGED activeView
    /\ InSymbols(SymbolsClick) \/ InRelationships(RelationshipsClick) \/ InCompare(CompareClick)

Next == Progress \/ Click

\* Every read of the graph and of a comparison is answered or fails.
Fairness ==
    /\ WF_vars(InRelationships(NodesAnswer) /\ UNCHANGED <<activeView, clicks, drawerVars>>)
    /\ WF_vars(InCompare(ComparisonAnswer) /\ UNCHANGED <<activeView, clicks>>)

Spec == Init /\ [][Next]_vars /\ Fairness

-----------------------------------------------------------------------------
(* Properties.                                                                *)

SymbolsSettled == activeView = "symbols" /\ ~Waits(rows) /\ ~rowsError
NodesSettled == activeView = "relationships" /\ overview = "ready" /\ ~Waits(nodes)
ComparisonSettled == activeView = "compare" /\ pair # Nothing /\ ~compareLoading /\ ~compareError

\* What a view shows once it waits for nothing is the answer to what its toolbar
\* says, in whatever order the answers came: a late one never replaces a newer
\* one, and the summary, the page, the selected change and the banners of a
\* comparison are of one pair.
SettledViewsAnswerTheToolbar ==
    /\ SymbolsSettled => ShownFor(rows, Query)
    /\ NodesSettled /\ DisplaysNodes => nodes.shown.value = ListNodes(NodeQuery)
    /\ ComparisonSettled => /\ ShownFor(changes, Request) /\ summary = pair
                            /\ selectedChange \in {Nothing, Request}
    /\ activeView = "compare" /\ Banners # Nothing =>
          \A side \in {"baseline", "target"} :
              Banners[side] \in {Unavailable, Limitations(FactsOf[pair[side]], "generic")}

\* The excerpt on the screen is of the selected item and is what the snapshot
\* was made of, though selections overtake the reads and the file is edited
\* under them (read_source compares the content hash).
ExcerptsAreTheScannedSource ==
    (picked # Nothing /\ excerpt.shown # Nothing) =>
        /\ excerpt.shown.about = picked
        /\ excerpt.shown.value.text = "scanned"

\* The neighborhood is only asked for around a node of its mode: the node list
\* of one mode never lends its focus to another (the service refuses it and the
\* view would show an error for a node it offered itself).
OfferedNodesCanBeFocused ==
    [][\A c \in graph'.calls \ graph.calls : c.live => ~FocusRefused(c.about)]_vars

\* The node list does not stay "searching": its read is answered, fails, or is
\* asked for again, whatever is typed and chosen meanwhile.
NodeListSettles == NodesLoading ~> ~NodesLoading
ComparisonSettles == (pair # Nothing /\ compareLoading) ~> ~compareLoading

ViewsSettle == NodeListSettles /\ ComparisonSettles

=============================================================================
