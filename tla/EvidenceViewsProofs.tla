------------------------- MODULE EvidenceViewsProofs ---------------------------
(* What the evidence views show, for any symbols, graph and snapshots and any   *)
(* number of clicks and of calls still out: a settled view answers its toolbar, *)
(* an excerpt is what was scanned, and the graph is only asked for around a     *)
(* node of its mode.  All three rest on one fact about readers: the call that   *)
(* counts is the last one, and it is about what the view asks for now.          *)
EXTENDS EvidenceViews

-----------------------------------------------------------------------------
(* Readers.                                                                     *)

IsCall(c) == c = [about |-> c.about, live |-> c.live] /\ c.live \in BOOLEAN
IsReader(r) ==
    /\ r = [shown |-> r.shown, failed |-> r.failed, calls |-> r.calls]
    /\ \A c \in r.calls : IsCall(c)

\* The call that counts, if there is one, is about this.
WaitsOnlyFor(r, about) == \A c \in r.calls : c.live => c.about = about

LEMMA IdleIsReader == IsReader(Idle) /\ \A about : WaitsOnlyFor(Idle, about)
  BY DEF Idle, IsReader, WaitsOnlyFor

LEMMA SupersededCalls ==
    ASSUME NEW calls, \A c \in calls : IsCall(c)
    PROVE  \A c \in Superseded(calls) : IsCall(c) /\ ~c.live
  <1> SUFFICES ASSUME NEW c \in calls, NEW d, d = [c EXCEPT !.live = FALSE]
               PROVE  IsCall(d) /\ ~d.live
    BY DEF Superseded
  <1>1. c = [about |-> c.about, live |-> c.live]
    BY DEF IsCall
  <1>2. d = [about |-> c.about, live |-> FALSE]
    BY <1>1
  <1> QED  BY <1>2 DEF IsCall

\* Asking makes every answer still out worthless but that to this question.
LEMMA AskedReader ==
    ASSUME NEW r, IsReader(r), NEW about
    PROVE  /\ IsReader(Ask(r, about)) /\ WaitsOnlyFor(Ask(r, about), about)
           /\ Waits(Ask(r, about))
           /\ Ask(r, about).shown = r.shown
           /\ \A c \in Ask(r, about).calls : c.live => c = [about |-> about, live |-> TRUE]
  <1> DEFINE c0 == [about |-> about, live |-> TRUE]
             k == Superseded(r.calls) \cup {c0}
  <1>1. r = [shown |-> r.shown, failed |-> r.failed, calls |-> r.calls]
    BY DEF IsReader
  <1>2. Ask(r, about) = [shown |-> r.shown, failed |-> r.failed, calls |-> k]
    BY <1>1 DEF Ask
  <1>3. \A c \in Superseded(r.calls) : IsCall(c) /\ ~c.live
    BY SupersededCalls DEF IsReader
  <1>4. IsCall(c0) /\ c0.live /\ c0.about = about
    BY DEF IsCall
  <1>5. \A c \in k : IsCall(c) /\ (c.live => c = c0)
    BY <1>3, <1>4
  <1> QED  BY <1>2, <1>4, <1>5 DEF IsReader, WaitsOnlyFor, Waits

\* An answer that counts is shown for what was asked; no other changes anything.
LEMMA AnsweredReader ==
    ASSUME NEW r, IsReader(r), NEW c \in r.calls, NEW value, NEW about, WaitsOnlyFor(r, about)
    PROVE  LET s == Receive(r, c, value) IN
           /\ IsReader(s) /\ WaitsOnlyFor(s, about)
           /\ c.live => c.about = about /\ ~Waits(s) /\ s.shown = [about |-> c.about, value |-> value]
           /\ ~c.live => s.shown = r.shown /\ (Waits(s) <=> Waits(r))
           /\ s.calls \subseteq r.calls
  <1> DEFINE s == Receive(r, c, value)
             k == r.calls \ {c}
  <1>1. r = [shown |-> r.shown, failed |-> r.failed, calls |-> r.calls]
    BY DEF IsReader
  <1>2. c.live => s = [shown |-> [about |-> c.about, value |-> value], failed |-> r.failed, calls |-> k]
    BY <1>1 DEF Receive, UsesAnswer
  <1>3. ~c.live => s = [shown |-> r.shown, failed |-> r.failed, calls |-> k]
    BY <1>1 DEF Receive, UsesAnswer
  <1>4. \A d \in r.calls : IsCall(d) /\ (d.live => d.about = about)
    BY DEF IsReader, WaitsOnlyFor
  <1>5. c.live => \A d \in k : ~d.live
    BY <1>4 DEF IsCall
  <1>6. c.live \in BOOLEAN
    BY <1>4 DEF IsCall
  <1> HIDE DEF s, k
  <1>7. s.calls = k /\ s = [shown |-> s.shown, failed |-> s.failed, calls |-> s.calls]
    BY <1>2, <1>3, <1>6
  <1>8. IsReader(s) /\ WaitsOnlyFor(s, about)
    BY <1>4, <1>7 DEF IsReader, WaitsOnlyFor, k
  <1>9. c.live => c.about = about /\ ~Waits(s)
    BY <1>4, <1>5, <1>7 DEF Waits
  <1>10. ~c.live => (Waits(s) <=> Waits(r))
    BY <1>7 DEF Waits, k
  <1> QED  BY <1>2, <1>3, <1>7, <1>8, <1>9, <1>10 DEF s, k

\* A call that fails, whether its failure is kept or not.
LEMMA FailedReader ==
    ASSUME NEW r, IsReader(r), NEW c \in r.calls, NEW about, WaitsOnlyFor(r, about),
           NEW s \in {Fail(r, c), Lose(r, c)}
    PROVE  /\ IsReader(s) /\ WaitsOnlyFor(s, about) /\ s.shown = r.shown
           /\ c.live => ~Waits(s)
           /\ ~c.live => (Waits(s) <=> Waits(r))
           /\ s.calls \subseteq r.calls
  <1> DEFINE k == r.calls \ {c}
  <1>1. r = [shown |-> r.shown, failed |-> r.failed, calls |-> r.calls]
    BY DEF IsReader
  <1>2. \/ s = [shown |-> r.shown, failed |-> r.failed, calls |-> k]
        \/ s = [shown |-> r.shown, failed |-> [about |-> c.about], calls |-> k]
    BY <1>1 DEF Fail, Lose, UsesAnswer
  <1>3. \A d \in r.calls : IsCall(d) /\ (d.live => d.about = about)
    BY DEF IsReader, WaitsOnlyFor
  <1>4. c.live => \A d \in k : ~d.live
    BY <1>3 DEF IsCall
  <1> HIDE DEF k
  <1>5. s.shown = r.shown /\ s.calls = k /\ s = [shown |-> s.shown, failed |-> s.failed, calls |-> s.calls]
    BY <1>2
  <1>6. IsReader(s) /\ WaitsOnlyFor(s, about)
    BY <1>3, <1>5 DEF IsReader, WaitsOnlyFor, k
  <1>7. c.live => ~Waits(s)
    BY <1>4, <1>5 DEF Waits
  <1>8. ~c.live => (Waits(s) <=> Waits(r))
    BY <1>5 DEF Waits, k
  <1> QED  BY <1>5, <1>6, <1>7, <1>8 DEF k

-----------------------------------------------------------------------------
(* The excerpt.                                                                 *)

ExcerptInv ==
    /\ IsReader(excerpt) /\ WaitsOnlyFor(excerpt, picked)
    /\ excerpt.shown # Nothing =>
          excerpt.shown.about = picked /\ excerpt.shown.value.text = "scanned"

LEMMA PickStep ==
    ASSUME ExcerptInv, NEW item, Pick(item)
    PROVE  ExcerptInv'
  <1> DEFINE r == [Idle EXCEPT !.calls = excerpt.calls]
  <1>1. r = [shown |-> Nothing, failed |-> Nothing, calls |-> excerpt.calls]
    BY DEF Idle
  <1>2. IsReader(r)
    BY <1>1 DEF ExcerptInv, IsReader
  <1>3. picked' = item /\ excerpt' = Ask(r, item)
    BY DEF Pick
  <1>4. r.shown = Nothing
    BY <1>1
  <1> HIDE DEF r
  <1>5. IsReader(excerpt') /\ WaitsOnlyFor(excerpt', picked') /\ excerpt'.shown = Nothing
    BY <1>2, <1>3, <1>4, AskedReader
  <1> QED  BY <1>5 DEF ExcerptInv

LEMMA PutAwayStep ==
    ASSUME ExcerptInv, PutAway
    PROVE  ExcerptInv'
  <1>1. excerpt' = [shown |-> Nothing, failed |-> Nothing, calls |-> Superseded(excerpt.calls)]
    BY DEF PutAway, Idle
  <1>2. \A c \in excerpt'.calls : IsCall(c) /\ ~c.live
    BY <1>1, SupersededCalls DEF ExcerptInv, IsReader
  <1>3. IsReader(excerpt') /\ WaitsOnlyFor(excerpt', picked') /\ excerpt'.shown = Nothing
    BY <1>1, <1>2 DEF IsReader, WaitsOnlyFor
  <1> QED  BY <1>3 DEF ExcerptInv

LEMMA DrawerStep ==
    ASSUME ExcerptInv, DrawerAnswer
    PROVE  ExcerptInv'
  <1>1. CASE \E p \in FilePaths : Edit(p)
    BY <1>1 DEF Edit, ExcerptInv
  <1>2. ASSUME NEW c \in excerpt.calls, AnswerSource(c) \/ LoseSource(c)
        PROVE  ExcerptInv'
    <2> DEFINE value == ReadSource(disk, c.about.path, c.about.lines)
    <2>1. picked' = picked
      BY <1>2 DEF AnswerSource, LoseSource
    <2>2. CASE excerpt' = Fail(excerpt, c)
      <3>1. IsReader(excerpt') /\ WaitsOnlyFor(excerpt', picked) /\ excerpt'.shown = excerpt.shown
        BY <2>2, FailedReader DEF ExcerptInv
      <3> QED  BY <2>1, <3>1 DEF ExcerptInv
    <2>3. CASE ~SourceRefused(disk, c.about.path) /\ excerpt' = Receive(excerpt, c, value)
      <3>1. value.text = "scanned"
        BY <2>3 DEF SourceRefused, ReadSource
      <3> HIDE DEF value
      <3>2. /\ IsReader(excerpt') /\ WaitsOnlyFor(excerpt', picked)
            /\ c.live => c.about = picked /\ excerpt'.shown = [about |-> c.about, value |-> value]
            /\ ~c.live => excerpt'.shown = excerpt.shown
        BY <2>3, AnsweredReader DEF ExcerptInv
      <3>3. excerpt'.shown # Nothing =>
                excerpt'.shown.about = picked /\ excerpt'.shown.value.text = "scanned"
        <4>1. CASE c.live
          BY <3>1, <3>2, <4>1
        <4>2. CASE ~c.live
          BY <3>2, <4>2 DEF ExcerptInv
        <4> QED  BY <4>1, <4>2
      <3> QED  BY <2>1, <3>2, <3>3 DEF ExcerptInv
    <2> QED  BY <1>2, <2>2, <2>3 DEF AnswerSource, LoseSource
  <1> QED  BY <1>1, <1>2 DEF DrawerAnswer, AnswerExcerpt

LEMMA ExcerptStep ==
    ASSUME ExcerptInv, [Next]_vars
    PROVE  ExcerptInv'
  <1>1. CASE UNCHANGED drawerVars
    BY <1>1 DEF ExcerptInv, drawerVars
  <1>2. CASE DrawerAnswer
    BY <1>2, DrawerStep
  <1>3. CASE SymbolsClick
    <2>1. UNCHANGED drawerVars \/ PutAway \/ \E item : Pick(item)
      BY <1>3 DEF SymbolsClick, SelectSymbol, CloseDrawer
    <2> QED  BY <1>1, <2>1, PutAwayStep, PickStep
  <1>4. CASE RelationshipsClick
    <2>1. PutAway \/ \E item : Pick(item)
      BY <1>4 DEF RelationshipsClick, ChooseMode, TypeSearch, ChooseCycle, ChangeNodes, ChooseFocus,
                  ChooseEdges, SelectRelationship
    <2> QED  BY <2>1, PutAwayStep, PickStep
  <1> QED  BY <1>1, <1>2, <1>3, <1>4
           DEF Next, vars, Progress, Click, InSymbols, InRelationships, InCompare

LEMMA ExcerptStart ==
    ASSUME Init
    PROVE  ExcerptInv
  <1>1. excerpt = Idle /\ Idle.shown = Nothing
    BY DEF Init, DrawerInit, Idle
  <1> QED  BY <1>1, IdleIsReader DEF ExcerptInv

\* The excerpt on the screen is of the selected item and was read from the file
\* as it was scanned, in whatever order selections, answers and edits come
\* (read_source; selectSymbol and chooseRelationship).
THEOREM ExcerptsAlwaysScanned == Spec => []ExcerptsAreTheScannedSource
  <1>1. ExcerptInv => ExcerptsAreTheScannedSource
    BY DEF ExcerptInv, ExcerptsAreTheScannedSource
  <1> QED  BY <1>1, ExcerptStart, ExcerptStep, PTL DEF Spec

-----------------------------------------------------------------------------
(* The table of symbols.                                                        *)

\* What marks an empty place on the screen is none of the answers.
NothingIsNoAnswer == \A about, value : [about |-> about, value |-> value] # Nothing

RowsInv ==
    activeView = "symbols" =>
        /\ IsReader(rows) /\ WaitsOnlyFor(rows, Query)
        /\ Waits(rows) \/ rowsError \/ ShownFor(rows, Query)

LEMMA ChooseStep ==
    ASSUME activeView = "symbols", RowsInv, NEW chosen, Choose(chosen)
    PROVE  RowsInv'
  <1>1. rowsError' = rowsError
    BY DEF Choose
  <1>2. CASE Query' # Query
    <2>1. rows' = Ask(rows, Query')
      BY <1>2 DEF Choose
    <2>2. IsReader(rows') /\ WaitsOnlyFor(rows', Query') /\ Waits(rows')
      BY <2>1, AskedReader DEF RowsInv
    <2> QED  BY <2>2 DEF RowsInv
  <1>3. CASE Query' = Query
    <2>1. rows' = rows
      BY <1>3 DEF Choose
    <2> QED  BY <1>1, <1>3, <2>1 DEF RowsInv
  <1> QED  BY <1>2, <1>3

LEMMA SymbolsAnswerStep ==
    ASSUME NothingIsNoAnswer, activeView = "symbols", RowsInv, SymbolsAnswer
    PROVE  RowsInv'
  <1>1. CASE CatchUp
    <2>1. rows' = Ask(rows, Query')
      BY <1>1 DEF CatchUp
    <2>2. IsReader(rows') /\ WaitsOnlyFor(rows', Query') /\ Waits(rows')
      BY <2>1, AskedReader DEF RowsInv
    <2> QED  BY <2>2 DEF RowsInv
  <1>2. ASSUME NEW c \in rows.calls, AnswerSymbols(c)
        PROVE  RowsInv'
    <2>1. Query' = Query /\ rowsError' = rowsError
      BY <1>2 DEF AnswerSymbols, Query
    <2>2. /\ IsReader(rows') /\ WaitsOnlyFor(rows', Query)
          /\ c.live => ShownFor(rows', Query)
          /\ ~c.live => rows'.shown = rows.shown /\ (Waits(rows') <=> Waits(rows))
      <3>1. PICK value : rows' = Receive(rows, c, value)
        BY <1>2 DEF AnswerSymbols
      <3>2. /\ IsReader(rows') /\ WaitsOnlyFor(rows', Query)
            /\ c.live => c.about = Query /\ rows'.shown = [about |-> c.about, value |-> value]
            /\ ~c.live => rows'.shown = rows.shown /\ (Waits(rows') <=> Waits(rows))
        BY <3>1, AnsweredReader DEF RowsInv
      <3> QED  BY <3>2 DEF ShownFor, NothingIsNoAnswer
    <2>3. c.live \in BOOLEAN
      BY DEF RowsInv, IsReader, IsCall
    <2>4. Waits(rows') \/ rowsError' \/ ShownFor(rows', Query)
      BY <2>1, <2>2, <2>3 DEF RowsInv, ShownFor
    <2> QED  BY <2>1, <2>2, <2>4 DEF RowsInv
  <1>3. ASSUME NEW c \in rows.calls, LoseSymbols(c)
        PROVE  RowsInv'
    <2>1. Query' = Query /\ rowsError' = (rowsError \/ c.live) /\ rows' = Lose(rows, c)
      BY <1>3 DEF LoseSymbols, Query, UsesAnswer
    <2>2. /\ IsReader(rows') /\ WaitsOnlyFor(rows', Query) /\ rows'.shown = rows.shown
          /\ ~c.live => (Waits(rows') <=> Waits(rows))
      BY <2>1, FailedReader DEF RowsInv
    <2>3. c.live \in BOOLEAN
      BY DEF RowsInv, IsReader, IsCall
    <2>4. Waits(rows') \/ rowsError' \/ ShownFor(rows', Query)
      BY <2>1, <2>2, <2>3 DEF RowsInv, ShownFor
    <2> QED  BY <2>1, <2>2, <2>4 DEF RowsInv
  <1> QED  BY <1>1, <1>2, <1>3 DEF SymbolsAnswer

LEMMA RowsStep ==
    ASSUME NothingIsNoAnswer, RowsInv, [Next]_vars
    PROVE  RowsInv'
  <1>1. activeView' = activeView
    BY DEF Next, Progress, Click, vars
  <1>2. CASE activeView # "symbols"
    BY <1>1, <1>2 DEF RowsInv
  <1>3. CASE UNCHANGED symbolsVars
    <2>1. Query' = Query /\ rows' = rows /\ rowsError' = rowsError
      BY <1>3 DEF symbolsVars, Query
    <2> QED  BY <1>1, <2>1 DEF RowsInv
  <1>4. CASE activeView = "symbols" /\ SymbolsAnswer
    BY <1>4, SymbolsAnswerStep
  <1>5. CASE activeView = "symbols" /\ SymbolsClick
    <2>1. UNCHANGED symbolsVars \/ \E chosen : Choose(chosen)
      BY <1>5 DEF SymbolsClick, ToolbarClick, ChooseSearch, ChooseFilter, ChooseSort, PreviousPage, NextPage
    <2> QED  BY <1>3, <1>5, <2>1, ChooseStep
  <1> QED  BY <1>2, <1>3, <1>4, <1>5
           DEF Next, vars, Progress, Click, InSymbols, InRelationships, InCompare

LEMMA RowsStart ==
    ASSUME Init
    PROVE  RowsInv
  <1>1. activeView = "symbols" => rows = Ask(Idle, Query)
    BY DEF Init, SymbolsInit
  <1> QED  BY <1>1, IdleIsReader, AskedReader DEF RowsInv

-----------------------------------------------------------------------------
(* The comparison.                                                              *)

CompareInv ==
    /\ IsReader(changes) /\ WaitsOnlyFor(changes, Request)
    /\ IsReader(status) /\ WaitsOnlyFor(status, pair)
    /\ pair # Nothing =>
          compareLoading \/ compareError \/ (ShownFor(changes, Request) /\ summary = pair)
    /\ selectedChange \in {Nothing, Request}

\* The status of each side is of that snapshot.
StatusInv ==
    status.shown # Nothing =>
        \A side \in {"baseline", "target"} :
            status.shown.value[side]
                \in {Unavailable, Limitations(FactsOf[status.shown.about[side]], "generic")}

LEMMA ReadStep ==
    ASSUME CompareInv, StatusInv, ReadComparison,
           ReadStatus \/ (pair' = pair /\ UNCHANGED status)
    PROVE  CompareInv' /\ StatusInv'
  <1> DEFINE r == Ask(changes, Request')
  <1>1. /\ IsReader(r) /\ WaitsOnlyFor(r, Request')
        /\ changes' = [r EXCEPT !.shown = Nothing]
    BY AskedReader DEF CompareInv, ReadComparison
  <1> HIDE DEF r
  <1>2. changes' = [shown |-> Nothing, failed |-> r.failed, calls |-> r.calls]
    BY <1>1 DEF IsReader
  <1>3. IsReader(changes') /\ WaitsOnlyFor(changes', Request')
    BY <1>1, <1>2 DEF IsReader, WaitsOnlyFor
  <1>4. IsReader(status') /\ WaitsOnlyFor(status', pair') /\ status'.shown = status.shown
    BY AskedReader DEF CompareInv, ReadStatus
  <1>5. StatusInv'
    BY <1>4 DEF StatusInv
  <1>6. compareLoading' /\ selectedChange' = Nothing
    BY DEF ReadComparison
  <1> QED  BY <1>3, <1>4, <1>5, <1>6 DEF CompareInv

LEMMA ComparisonAnswerStep ==
    ASSUME NothingIsNoAnswer, CompareInv, StatusInv, ComparisonAnswer
    PROVE  CompareInv' /\ StatusInv'
  <1>1. PICK c \in changes.calls : AnswerComparison(c) \/ LoseComparison(c)
    BY DEF ComparisonAnswer
  <1>2. pair' = pair /\ Request' = Request /\ status' = status
    BY <1>1 DEF AnswerComparison, LoseComparison, Request
  <1>3. StatusInv' /\ IsReader(status') /\ WaitsOnlyFor(status', pair')
    BY <1>2 DEF StatusInv, CompareInv
  <1>4. c.live \in BOOLEAN
    BY DEF CompareInv, IsReader, IsCall
  <1>5. CASE AnswerComparison(c)
    <2>1. PICK value : changes' = Receive(changes, c, value)
      BY <1>5 DEF AnswerComparison
    <2>2. /\ IsReader(changes') /\ WaitsOnlyFor(changes', Request)
          /\ c.live => c.about = Request /\ changes'.shown = [about |-> c.about, value |-> value]
          /\ ~c.live => changes'.shown = changes.shown
      BY <2>1, AnsweredReader DEF CompareInv
    <2>3. CASE c.live
      <3>1. summary' = c.about.pair /\ selectedChange' \in {Nothing, c.about}
        BY <1>5, <2>3 DEF AnswerComparison, UsesAnswer
      <3>2. ShownFor(changes', Request) /\ Request.pair = pair
        BY <2>2, <2>3 DEF ShownFor, NothingIsNoAnswer, Request
      <3> QED  BY <1>2, <1>3, <2>2, <2>3, <3>1, <3>2 DEF CompareInv
    <2>4. CASE ~c.live
      <3>1. UNCHANGED <<summary, selectedChange, compareLoading, compareError>>
        BY <1>5, <2>4 DEF AnswerComparison, UsesAnswer
      <3> QED  BY <1>2, <1>3, <2>2, <2>4, <3>1 DEF CompareInv, ShownFor
    <2> QED  BY <1>4, <2>3, <2>4
  <1>6. CASE LoseComparison(c)
    <2>1. changes' = Lose(changes, c)
      BY <1>6 DEF LoseComparison
    <2>2. IsReader(changes') /\ WaitsOnlyFor(changes', Request) /\ changes'.shown = changes.shown
      BY <2>1, FailedReader DEF CompareInv
    <2>3. /\ UNCHANGED <<summary, selectedChange>>
          /\ compareError' \/ (compareLoading' = compareLoading /\ compareError' = compareError)
      BY <1>6 DEF LoseComparison
    <2> QED  BY <1>2, <1>3, <2>2, <2>3 DEF CompareInv, ShownFor
  <1> QED  BY <1>1, <1>5, <1>6

LEMMA StatusAnswerStep ==
    ASSUME CompareInv, StatusInv, NEW c \in status.calls, AnswerStatus(c)
    PROVE  CompareInv' /\ StatusInv'
  <1>1. PICK lost \in SUBSET {"baseline", "target"} :
            status' = Receive(status, c, [side \in {"baseline", "target"} |->
                          IF side \in lost THEN Unavailable
                          ELSE Limitations(FactsOf[c.about[side]], "generic")])
    BY DEF AnswerStatus
  <1> DEFINE value == [side \in {"baseline", "target"} |->
                          IF side \in lost THEN Unavailable
                          ELSE Limitations(FactsOf[c.about[side]], "generic")]
  <1>2. \A side \in {"baseline", "target"} :
            value[side] \in {Unavailable, Limitations(FactsOf[c.about[side]], "generic")}
    OBVIOUS
  <1>3. status' = Receive(status, c, value)
    BY <1>1
  <1> HIDE DEF value
  <1>4. /\ IsReader(status') /\ WaitsOnlyFor(status', pair)
        /\ c.live => status'.shown = [about |-> c.about, value |-> value]
        /\ ~c.live => status'.shown = status.shown
    BY <1>3, AnsweredReader DEF CompareInv
  <1>5. StatusInv'
    <2>1. CASE c.live
      BY <1>2, <1>4, <2>1 DEF StatusInv
    <2>2. CASE ~c.live
      BY <1>4, <2>2 DEF StatusInv
    <2> QED  BY <2>1, <2>2
  <1>6. pair' = pair /\ Request' = Request
    BY DEF AnswerStatus, Request
  <1>7. UNCHANGED <<summary, changes, selectedChange, compareLoading, compareError>>
    BY DEF AnswerStatus
  <1> QED  BY <1>4, <1>5, <1>6, <1>7 DEF CompareInv

LEMMA CompareStep ==
    ASSUME NothingIsNoAnswer, CompareInv, StatusInv, [Next]_vars
    PROVE  CompareInv' /\ StatusInv'
  <1>1. CASE UNCHANGED compareVars
    <2>1. Request' = Request
      BY <1>1 DEF compareVars, Request
    <2> QED  BY <1>1, <2>1 DEF compareVars, CompareInv, StatusInv
  <1>2. CASE CompareAnswer
    <2>1. CASE ListComparable
      <3>1. CASE Snapshots = <<>>
        <4>1. /\ UNCHANGED <<pair, list, summary, changes, selectedChange, compareError, status>>
              /\ pair = Nothing
          BY <2>1, <3>1 DEF ListComparable
        <4>2. Request' = Request
          BY <4>1 DEF Request
        <4> QED  BY <4>1, <4>2 DEF CompareInv, StatusInv
      <3>2. CASE Snapshots # <<>>
        BY <2>1, <3>2, ReadStep DEF ListComparable
      <3> QED  BY <3>1, <3>2
    <2>2. CASE LoseComparable
      <3>1. UNCHANGED <<pair, list, summary, changes, selectedChange, status>> /\ compareError'
        BY <2>2 DEF LoseComparable
      <3>2. Request' = Request
        BY <3>1 DEF Request
      <3> QED  BY <3>1, <3>2 DEF CompareInv, StatusInv
    <2> QED  BY <1>2, <2>1, <2>2, ComparisonAnswerStep, StatusAnswerStep DEF CompareAnswer
  <1>3. CASE CompareClick
    <2>1. /\ ReadComparison
          /\ ReadStatus \/ (pair' = pair /\ UNCHANGED status)
      BY <1>3 DEF CompareClick, ChoosePair, ChooseSection, ChooseDirection, TurnPage, ChooseList
    <2> QED  BY <2>1, ReadStep
  <1> QED  BY <1>1, <1>2, <1>3
           DEF Next, vars, Progress, Click, InSymbols, InRelationships, InCompare

LEMMA CompareStart ==
    ASSUME Init
    PROVE  CompareInv /\ StatusInv
  <1>1. /\ pair = Nothing /\ changes = Idle /\ status = Idle /\ selectedChange = Nothing
        /\ Idle.shown = Nothing
    BY DEF Init, CompareInit, Idle
  <1> QED  BY <1>1, IdleIsReader DEF CompareInv, StatusInv

-----------------------------------------------------------------------------
(* The graph.                                                                   *)

\* What the list of a mode offers may be focused in that mode.
LEMMA ListedNodesAreOfMode ==
    ASSUME NEW q, q.mode \in GraphModes
    PROVE  ListNodes(q).items \in Seq(ModeNodes(q.mode))
  <1> DEFINE found == {n \in GraphNodes : /\ IsOfMode(n, q.mode)
                                          /\ q.search \in n.matches \cup {""}
                                          /\ q.members # {} => n.id \in q.members}
             ids == {n.id : n \in found}
             listed == Picked(NodeOrder, ids)
             size == IF NodePageSize < Len(listed) THEN NodePageSize ELSE Len(listed)
  <1>1. ids \subseteq ModeNodes(q.mode)
    <2>1. ASSUME NEW n \in found PROVE n.id \in ModeNodes(q.mode)
      BY DEF IsOfMode, GraphModes, ModeNodes
    <2> QED  BY <2>1
  <1>2. listed \in Seq(ids)
    <2> DEFINE U == {n.id : n \in GraphNodes}
    <2> HIDE DEF ids, U
    <2>1. NodeOrder \in Seq(U)
      BY OrderAssumption DEF U
    <2>2. listed \in Seq(U) /\ \A i \in DOMAIN listed : listed[i] \in ids
      BY <2>1, PickedElements
    <2> HIDE DEF listed
    <2> QED  BY <2>2
  <1>3. ListNodes(q).items = SubSeq(listed, 1, size)
    <2>1. NodePageSize \in Nat /\ (1 - 1) * NodePageSize + 1 = 1 /\ 1 * NodePageSize = NodePageSize
      BY PageAssumption
    <2>2. ListNodes(q).items = Slice(listed, 1, NodePageSize)
      BY DEF ListNodes
    <2> HIDE DEF listed
    <2> QED  BY <2>1, <2>2 DEF Slice
  <1> HIDE DEF listed, ids
  <1>4. size \in 0 .. Len(listed)
    <2>1. NodePageSize \in Nat /\ Len(listed) \in Nat
      BY <1>2, PageAssumption
    <2> QED  BY <2>1
  <1>5. SubSeq(listed, 1, size) \in Seq(ids)
    BY <1>2, <1>4
  <1> QED  BY <1>1, <1>3, <1>5

\* What is asked for when the node list is read (fetchGraphNodes).
Sent(about) == [about EXCEPT !.search = IF about.members # {} THEN "" ELSE @]

NodesInv ==
    /\ IsReader(nodes) /\ WaitsOnlyFor(nodes, NodeKey)
    /\ nodes.shown # Nothing => nodes.shown.value = ListNodes(Sent(nodes.shown.about))
    /\ nodeAsk = [mode |-> nodeAsk.mode, search |-> nodeAsk.search, members |-> nodeAsk.members]
    /\ nodeAsk.mode \in GraphModes

GraphInv == IsReader(graph) /\ WaitsOnlyFor(graph, seen)

\* Only what was asked for now is a new call that counts.
NewCallsAreAsked ==
    \A c \in graph'.calls \ graph.calls : c.live => c.about = GraphKey' /\ GraphKey' # None

LEMMA ForgivenReader ==
    ASSUME NEW r, IsReader(r)
    PROVE  /\ IsReader(Forgiven(r)) /\ Forgiven(r).calls = r.calls /\ Forgiven(r).shown = r.shown
           /\ \A about : WaitsOnlyFor(r, about) => WaitsOnlyFor(Forgiven(r), about)
  <1>1. r = [shown |-> r.shown, failed |-> r.failed, calls |-> r.calls]
    BY DEF IsReader
  <1>2. Forgiven(r) = [shown |-> r.shown, failed |-> Nothing, calls |-> r.calls]
    BY <1>1 DEF Forgiven
  <1> QED  BY <1>2 DEF IsReader, WaitsOnlyFor

LEMMA GraphEffectStep ==
    ASSUME GraphInv, NEW r \in {graph, Forgiven(graph)}, GraphEffect(r), seen' = GraphKey'
    PROVE  GraphInv' /\ NewCallsAreAsked
  <1>1. IsReader(r) /\ r.calls = graph.calls /\ WaitsOnlyFor(r, seen)
    BY ForgivenReader DEF GraphInv
  <1>2. CASE GraphKey' = seen
    BY <1>1, <1>2 DEF GraphEffect, GraphInv, NewCallsAreAsked
  <1>3. CASE GraphKey' # seen /\ GraphKey' = None
    <2>1. graph' = [r EXCEPT !.calls = Superseded(r.calls)]
      BY <1>3 DEF GraphEffect
    <2>2. graph' = [shown |-> r.shown, failed |-> r.failed, calls |-> Superseded(r.calls)]
      BY <1>1, <2>1 DEF IsReader
    <2>3. \A c \in graph'.calls : IsCall(c) /\ ~c.live
      BY <1>1, <2>2, SupersededCalls DEF IsReader
    <2> QED  BY <2>2, <2>3 DEF GraphInv, IsReader, WaitsOnlyFor, NewCallsAreAsked
  <1>4. CASE GraphKey' # seen /\ GraphKey' # None
    <2>1. graph' = Ask(r, GraphKey')
      BY <1>4 DEF GraphEffect
    <2>2. /\ IsReader(graph') /\ WaitsOnlyFor(graph', GraphKey')
          /\ \A c \in graph'.calls : c.live => c = [about |-> GraphKey', live |-> TRUE]
      BY <1>1, <2>1, AskedReader
    <2> QED  BY <1>4, <2>2 DEF GraphInv, NewCallsAreAsked
  <1> QED  BY <1>2, <1>3, <1>4

LEMMA ChangeNodesStep ==
    ASSUME NodesInv, GraphInv, NEW focus,
           NEW mode \in GraphModes, NEW search, NEW members,
           ChangeNodes([mode |-> mode, search |-> search, members |-> members], focus)
    PROVE  NodesInv' /\ GraphInv' /\ NewCallsAreAsked
  <1>1. nodeAsk' = [mode |-> mode, search |-> search, members |-> members]
    BY DEF ChangeNodes
  <1>2. nodes' = Ask(Forgiven(nodes), NodeKey')
    BY DEF ChangeNodes, LoadNodes
  <1>3. IsReader(nodes') /\ WaitsOnlyFor(nodes', NodeKey') /\ nodes'.shown = nodes.shown
    BY <1>2, ForgivenReader, AskedReader DEF NodesInv
  <1>4. NodesInv'
    BY <1>1, <1>3 DEF NodesInv
  <1>5. GraphInv' /\ NewCallsAreAsked
    BY GraphEffectStep DEF ChangeNodes
  <1> QED  BY <1>4, <1>5

LEMMA NodesAnswerStep ==
    ASSUME NodesInv, GraphInv, NodesAnswer
    PROVE  NodesInv' /\ GraphInv' /\ NewCallsAreAsked
  <1>1. PICK c \in nodes.calls : AnswerNodes(c) \/ LoseNodes(c)
    BY DEF NodesAnswer
  <1>2. nodeAsk' = nodeAsk /\ NodeKey' = NodeKey /\ graph' = graph /\ seen' = seen
    BY <1>1 DEF AnswerNodes, LoseNodes, graphChoices, NodeKey
  <1>3. GraphInv' /\ NewCallsAreAsked
    BY <1>2 DEF GraphInv, NewCallsAreAsked
  <1>4. CASE AnswerNodes(c)
    <2>1. nodes' = Receive(nodes, c, ListNodes(Sent(c.about)))
      BY <1>4 DEF AnswerNodes, Sent
    <2>2. /\ IsReader(nodes') /\ WaitsOnlyFor(nodes', NodeKey)
          /\ c.live => nodes'.shown = [about |-> c.about, value |-> ListNodes(Sent(c.about))]
          /\ ~c.live => nodes'.shown = nodes.shown
      BY <2>1, AnsweredReader DEF NodesInv
    <2>3. nodes'.shown # Nothing => nodes'.shown.value = ListNodes(Sent(nodes'.shown.about))
      <3>1. CASE c.live
        BY <2>2, <3>1
      <3>2. CASE ~c.live
        BY <2>2, <3>2 DEF NodesInv
      <3> QED  BY <3>1, <3>2
    <2> QED  BY <1>2, <1>3, <2>2, <2>3 DEF NodesInv
  <1>5. CASE LoseNodes(c)
    <2>1. IsReader(nodes') /\ WaitsOnlyFor(nodes', NodeKey) /\ nodes'.shown = nodes.shown
      BY <1>5, FailedReader DEF NodesInv, LoseNodes
    <2> QED  BY <1>2, <1>3, <2>1 DEF NodesInv
  <1> QED  BY <1>1, <1>4, <1>5

LEMMA GraphAnswerStep ==
    ASSUME NodesInv, GraphInv, GraphAnswer
    PROVE  NodesInv' /\ GraphInv' /\ NewCallsAreAsked
  <1>1. PICK c \in graph.calls : AnswerGraph(c) \/ LoseGraph(c)
    BY DEF GraphAnswer
  <1>2. nodeAsk' = nodeAsk /\ NodeKey' = NodeKey /\ nodes' = nodes /\ seen' = seen
    BY <1>1 DEF AnswerGraph, LoseGraph, graphChoices, NodeKey
  <1>3. graph' = Fail(graph, c) \/ graph' = Receive(graph, c, Neighborhood(c.about))
    BY <1>1 DEF AnswerGraph, LoseGraph
  <1>4. IsReader(graph') /\ WaitsOnlyFor(graph', seen) /\ graph'.calls \subseteq graph.calls
    <2>1. CASE graph' = Fail(graph, c)
      BY <2>1, FailedReader DEF GraphInv
    <2>2. CASE graph' = Receive(graph, c, Neighborhood(c.about))
      BY <2>2, AnsweredReader DEF GraphInv
    <2> QED  BY <1>3, <2>1, <2>2
  <1>5. NodesInv'
    BY <1>2 DEF NodesInv
  <1> QED  BY <1>2, <1>4, <1>5 DEF GraphInv, NewCallsAreAsked

LEMMA OverviewStep ==
    ASSUME NodesInv, GraphInv, AnswerOverview \/ LoseOverview
    PROVE  NodesInv' /\ GraphInv' /\ NewCallsAreAsked
  <1>1. nodeAsk' = nodeAsk /\ NodeKey' = NodeKey /\ graph' = graph /\ seen' = seen
    BY DEF AnswerOverview, LoseOverview, graphChoices, NodeKey
  <1>2. nodes' = nodes \/ nodes' = Ask(nodes, NodeKey)
    BY DEF AnswerOverview, LoseOverview
  <1>3. IsReader(nodes') /\ WaitsOnlyFor(nodes', NodeKey) /\ nodes'.shown = nodes.shown
    BY <1>2, AskedReader DEF NodesInv
  <1> QED  BY <1>1, <1>3 DEF NodesInv, GraphInv, NewCallsAreAsked

\* The graph effect alone, after a render that leaves the node list as it is.
LEMMA FocusStep ==
    ASSUME NodesInv, GraphInv, UNCHANGED <<nodeAsk, nodes>>, seen' = GraphKey',
           NEW r \in {graph, Forgiven(graph)}, GraphEffect(r)
    PROVE  NodesInv' /\ GraphInv' /\ NewCallsAreAsked
  <1>1. NodeKey' = NodeKey
    BY DEF NodeKey
  <1> QED  BY <1>1, GraphEffectStep DEF NodesInv

LEMMA GraphStep ==
    ASSUME NodesInv, GraphInv, [Next]_vars
    PROVE  NodesInv' /\ GraphInv' /\ NewCallsAreAsked
  <1>1. CASE UNCHANGED relationshipsVars
    <2>1. UNCHANGED <<nodeAsk, nodes, graph, seen>> /\ NodeKey' = NodeKey
      BY <1>1 DEF relationshipsVars, graphChoices, NodeKey
    <2> QED  BY <2>1 DEF NodesInv, GraphInv, NewCallsAreAsked
  <1>2. CASE RelationshipsAnswer
    <2>1. CASE RunGraphEffect
      <3>1. UNCHANGED <<nodeAsk, nodes>> /\ seen' = GraphKey' /\ GraphEffect(graph)
        <4>1. UNCHANGED <<overview, nodeAsk, focusId, edgeFilter, nodes>>
          BY <2>1 DEF RunGraphEffect, graphChoices
        <4>2. GraphKey' = GraphKey
          BY <4>1 DEF GraphKey, Focus, ListedNodes, DisplaysNodes, NodeKey, ShownFor
        <4> QED  BY <2>1, <4>1, <4>2 DEF RunGraphEffect
      <3> QED  BY <3>1, FocusStep
    <2> QED  BY <1>2, <2>1, OverviewStep, NodesAnswerStep, GraphAnswerStep DEF RelationshipsAnswer
  <1>3. CASE RelationshipsClick
    <2>1. ASSUME NEW m \in Modes, ChooseMode(m)
          PROVE  NodesInv' /\ GraphInv' /\ NewCallsAreAsked
      BY <2>1, ModesAssumption, ChangeNodesStep DEF ChooseMode
    <2>2. ASSUME NEW t \in GraphTexts, TypeSearch(t)
          PROVE  NodesInv' /\ GraphInv' /\ NewCallsAreAsked
      <3> DEFINE asked == [nodeAsk EXCEPT !.search = t]
      <3>1. [nodeAsk EXCEPT !.search = t, !.members = {}] = [mode |-> nodeAsk.mode, search |-> t, members |-> {}]
        <4>1. asked = [mode |-> nodeAsk.mode, search |-> t, members |-> nodeAsk.members]
          BY DEF NodesInv
        <4> HIDE DEF asked
        <4>2. [asked EXCEPT !.members = {}] = [mode |-> nodeAsk.mode, search |-> t, members |-> {}]
          BY <4>1
        <4> QED  BY <4>2 DEF asked
      <3> QED  BY <2>2, <3>1, ChangeNodesStep DEF TypeSearch, NodesInv
    <2>3. ASSUME NEW k \in Cycles, ChooseCycle(k)
          PROVE  NodesInv' /\ GraphInv' /\ NewCallsAreAsked
      <3>1. PICK mode \in {"modules", "inheritance"}, member \in {CHOOSE n \in k.members : \A m \in k.members : n <= m} :
                ChangeNodes([mode |-> mode, search |-> "", members |-> {member}], member)
        BY <2>3 DEF ChooseCycle
      <3>2. mode \in GraphModes
        BY DEF GraphModes
      <3> QED  BY <3>1, <3>2, ChangeNodesStep
    <2>4. ASSUME NEW n, ChooseFocus(n)
          PROVE  NodesInv' /\ GraphInv' /\ NewCallsAreAsked
      BY <2>4, FocusStep DEF ChooseFocus
    <2>5. ASSUME NEW f, ChooseEdges(f)
          PROVE  NodesInv' /\ GraphInv' /\ NewCallsAreAsked
      BY <2>5, FocusStep DEF ChooseEdges
    <2>6. ASSUME NEW id, SelectRelationship(id)
          PROVE  NodesInv' /\ GraphInv' /\ NewCallsAreAsked
      BY <1>1, <2>6 DEF SelectRelationship
    <2> QED  BY <1>3, <2>1, <2>2, <2>3, <2>4, <2>5, <2>6 DEF RelationshipsClick
  <1> QED  BY <1>1, <1>2, <1>3
           DEF Next, vars, Progress, Click, InSymbols, InRelationships, InCompare

LEMMA GraphStart ==
    ASSUME Init
    PROVE  NodesInv /\ GraphInv
  <1>1. /\ nodes = Idle /\ graph = Idle /\ Idle.shown = Nothing
        /\ nodeAsk = [mode |-> "modules", search |-> "", members |-> {}]
    BY DEF Init, RelationshipsInit, Idle
  <1> QED  BY <1>1, IdleIsReader DEF NodesInv, GraphInv, GraphModes

\* The focus is a node of the list on the screen.
LEMMA FocusIsOfMode ==
    ASSUME NodesInv, GraphKey # None
    PROVE  ~FocusRefused(GraphKey)
  <1>1. /\ GraphKey = [focus |-> Focus, mode |-> nodeAsk.mode, filter |-> edgeFilter]
        /\ Focus # None
    BY DEF GraphKey
  <1>2. ListedNodes \in Seq(ModeNodes(nodeAsk.mode))
    <2>1. CASE ~DisplaysNodes
      BY <2>1 DEF ListedNodes
    <2>2. CASE DisplaysNodes
      <3> DEFINE q == Sent(NodeKey)
      <3>1. NodeKey = [mode |-> nodeAsk.mode, search |-> Trim[nodeAsk.search], members |-> nodeAsk.members]
        BY DEF NodeKey, NodesInv
      <3>2. q.mode = nodeAsk.mode
        BY <3>1 DEF Sent
      <3>3. ListedNodes = ListNodes(q).items
        BY <2>2 DEF ListedNodes, DisplaysNodes, ShownFor, NodesInv
      <3> HIDE DEF q
      <3>4. ListNodes(q).items \in Seq(ModeNodes(q.mode))
        BY <3>2, ListedNodesAreOfMode DEF NodesInv
      <3> QED  BY <3>2, <3>3, <3>4
    <2> QED  BY <2>1, <2>2
  <1>3. Focus \in ModeNodes(nodeAsk.mode)
    <2>1. CASE focusId \in ToSet(ListedNodes)
      <3>1. PICK i \in DOMAIN ListedNodes : focusId = ListedNodes[i]
        BY <2>1 DEF ToSet
      <3> QED  BY <1>2, <2>1, <3>1 DEF Focus
    <2>2. CASE focusId \notin ToSet(ListedNodes)
      <3>1. ListedNodes # <<>> /\ Focus = Head(ListedNodes)
        BY <1>1, <2>2 DEF Focus
      <3> QED  BY <1>2, <3>1
    <2> QED  BY <2>1, <2>2
  <1> QED  BY <1>1, <1>3 DEF FocusRefused

\* A neighborhood is never asked for around a node that its mode does not have,
\* in whatever order modes, searches, cycles and answers come
\* (RelationshipsView.tsx, effectiveFocusId; _select_graph_mode).
THEOREM OfferedNodesCanAlwaysBeFocused == Spec => OfferedNodesCanBeFocused
  <1>1. NodesInv /\ GraphInv /\ [Next]_vars
        => [\A c \in graph'.calls \ graph.calls : c.live => ~FocusRefused(c.about)]_vars
    <2> SUFFICES ASSUME NodesInv, GraphInv, [Next]_vars,
                        NEW c \in graph'.calls \ graph.calls, c.live
                 PROVE  ~FocusRefused(c.about)
      OBVIOUS
    <2>1. NodesInv' /\ c.about = GraphKey' /\ GraphKey' # None
      BY GraphStep DEF NewCallsAreAsked
    <2>2. (NodesInv /\ GraphKey # None => ~FocusRefused(GraphKey))'
      BY FocusIsOfMode, PTL
    <2> QED  BY <2>1, <2>2 DEF FocusRefused
  <1> QED  BY <1>1, GraphStart, GraphStep, PTL DEF Spec, OfferedNodesCanBeFocused

\* Once a view waits for nothing it shows the answer to what its toolbar says
\* (the generation counters and keys of SymbolsView.tsx, RelationshipsView.tsx,
\* CompareView.tsx and useEvidenceStatus.ts).
THEOREM ViewsAlwaysAnswerTheToolbar ==
    ASSUME NothingIsNoAnswer
    PROVE  Spec => []SettledViewsAnswerTheToolbar
  <1> DEFINE ViewsInv == RowsInv /\ CompareInv /\ StatusInv /\ NodesInv /\ GraphInv
  <1>1. ViewsInv => SettledViewsAnswerTheToolbar
    <2> SUFFICES ASSUME ViewsInv PROVE SettledViewsAnswerTheToolbar
      OBVIOUS
    <2>1. SymbolsSettled => ShownFor(rows, Query)
      BY DEF SymbolsSettled, RowsInv
    <2>2. NodesSettled /\ DisplaysNodes => nodes.shown.value = ListNodes(NodeQuery)
      <3> SUFFICES ASSUME DisplaysNodes PROVE nodes.shown.value = ListNodes(NodeQuery)
        OBVIOUS
      <3>1. nodes.shown.value = ListNodes(Sent(NodeKey))
        BY DEF DisplaysNodes, ShownFor, NodesInv
      <3>2. NodeKey.members = nodeAsk.members
        BY DEF NodeKey, NodesInv
      <3>3. NodeQuery = Sent(NodeKey)
        BY <3>2 DEF NodeQuery, Sent
      <3> QED  BY <3>1, <3>3
    <2>3. ComparisonSettled => /\ ShownFor(changes, Request) /\ summary = pair
                               /\ selectedChange \in {Nothing, Request}
      BY DEF ComparisonSettled, CompareInv
    <2>4. Banners # Nothing =>
              \A side \in {"baseline", "target"} :
                  Banners[side] \in {Unavailable, Limitations(FactsOf[pair[side]], "generic")}
      BY DEF Banners, ShownFor, StatusInv
    <2> QED  BY <2>1, <2>2, <2>3, <2>4 DEF SettledViewsAnswerTheToolbar
  <1>2. Init => ViewsInv
    BY RowsStart, CompareStart, GraphStart
  <1>3. ViewsInv /\ [Next]_vars => ViewsInv'
    BY RowsStep, CompareStep, GraphStep
  <1> HIDE DEF ViewsInv
  <1> QED  BY <1>1, <1>2, <1>3, PTL DEF Spec

=============================================================================
