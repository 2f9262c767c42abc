----------------------------- MODULE SymbolsScreen -----------------------------
(* The symbol table of the workspace                                            *)
(* (workspace-ui/src/components/SymbolsView.tsx).  The rows of an earlier query  *)
(* stay on the screen, and an error stays after a later success.                *)
EXTENDS SourceDrawer

CONSTANTS
    Texts, Filters, SortFields     \* what can be typed, selected and sorted by

VARIABLES
    choices,     \* search, filter, sort, direction and page of the toolbar
    deferred,    \* deferredSearch: the search the last render queries by
    rows,        \* reader of the symbols
    rowsError, rowsLoading

symbolsVars == <<choices, deferred, rows, rowsError, rowsLoading>>

Query == [choices EXCEPT !.search = deferred]

SymbolsIdle ==
    /\ choices = [search |-> "", filter |-> "", sort |-> "id", direction |-> "asc", page |-> 1]
    /\ deferred = "" /\ rows = Idle /\ rowsError = FALSE /\ rowsLoading = TRUE
SymbolsInit ==
    /\ choices = [search |-> "", filter |-> "", sort |-> "id", direction |-> "asc", page |-> 1]
    /\ deferred = "" /\ rows = Ask(Idle, Query) /\ rowsError = FALSE /\ rowsLoading = TRUE

Total == IF rows.shown = Nothing THEN 0 ELSE rows.shown.value.total
Pages == IF Total = 0 THEN 1 ELSE (Total + SymbolPageSize - 1) \div SymbolPageSize

\* The effect runs when the query is another one than in the last render.
Choose(chosen) ==
    /\ choices' = chosen /\ UNCHANGED deferred
    /\ IF Query' # Query THEN CanAsk(rows) /\ rows' = Ask(rows, Query') ELSE UNCHANGED rows
    /\ UNCHANGED <<rowsError, rowsLoading>>

ChooseSearch(text) == Choose([choices EXCEPT !.search = text, !.page = 1])
ChooseFilter(filter) == Choose([choices EXCEPT !.filter = filter, !.page = 1])
ChooseSort(field) ==
    Choose(IF field # choices.sort
           THEN [choices EXCEPT !.sort = field, !.direction = "asc", !.page = 1]
           ELSE [choices EXCEPT !.direction = IF @ = "asc" THEN "desc" ELSE "asc", !.page = 1])
PreviousPage == choices.page > 1 /\ Choose([choices EXCEPT !.page = @ - 1])
NextPage == choices.page < Pages /\ Choose([choices EXCEPT !.page = @ + 1])

\* The deferred render catches up with what was typed.
CatchUp ==
    /\ deferred # choices.search
    /\ CanAsk(rows)
    /\ deferred' = choices.search /\ UNCHANGED choices
    /\ rows' = Ask(rows, Query')
    /\ UNCHANGED <<rowsError, rowsLoading>>

AnswerSymbols(c) ==
    /\ rows' = Receive(rows, c, ListSymbols(c.about))
    /\ rowsLoading' = (rowsLoading /\ ~UsesAnswer(c))
    /\ UNCHANGED <<choices, deferred, rowsError>>
LoseSymbols(c) ==
    /\ rows' = Lose(rows, c)
    /\ rowsError' = (rowsError \/ UsesAnswer(c))
    /\ rowsLoading' = (rowsLoading /\ ~UsesAnswer(c))
    /\ UNCHANGED <<choices, deferred>>

SelectSymbol(id) ==
    /\ rows.shown # Nothing
    /\ \E s \in ToSet(rows.shown.value.items) :
          s.id = id /\ Pick([id |-> s.id, path |-> s.path, lines |-> s.lines])
CloseDrawer == picked # Nothing /\ PutAway /\ UNCHANGED disk

SymbolsAnswer == CatchUp \/ \E c \in rows.calls : AnswerSymbols(c) \/ LoseSymbols(c)

ToolbarClick ==
    \/ \E t \in Texts \ {choices.search} : ChooseSearch(t)
    \/ \E f \in Filters \ {choices.filter} : ChooseFilter(f)
    \/ \E f \in SortFields : ChooseSort(f)
    \/ PreviousPage \/ NextPage
SymbolsClick ==
    \/ ToolbarClick /\ UNCHANGED drawerVars
    \/ ((\E s \in Symbols : SelectSymbol(s.id)) \/ CloseDrawer) /\ UNCHANGED symbolsVars

=============================================================================
