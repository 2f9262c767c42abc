-------------------------- MODULE FindingsScreenProofs --------------------------
(* The findings view, for any queue, any number of calls under way, any order of *)
(* their answers, and whoever else reviews the same findings: what is on the     *)
(* screen is about the selected finding, and the queue never goes back.          *)
EXTENDS FindingsScreen, SequenceTheorems, TLAPS

-----------------------------------------------------------------------------
(* The inductive invariant.                                                   *)

IsReviews(r) ==
    /\ DOMAIN r = Findings
    /\ \A f \in Findings : DOMAIN r[f] = {"decision", "version"} /\ r[f].version \in Nat
NotLater(before, after) == \A f \in Findings : before[f].version <= after[f].version
IsListing(a) == a.items \in Seq(Findings) /\ IsReviews(a.asOf) /\ NotLater(a.asOf, stored)
IsDetail(a, f) == f \in Findings /\ a.finding = f /\ a.version \in Nat /\ a.version <= stored[f].version

\* The calls, and what was read is not later than what is stored.
ListFields == {"live", "query", "selected", "index", "answer"}
ListsInv ==
    \A r \in lists :
        /\ DOMAIN r = ListFields /\ r.index \in Nat /\ r.selected \in AtFinding
        /\ r.answer # Nothing => IsListing(r.answer)
DetailFields == {"live", "finding", "stage", "answer"}
DetailsInv ==
    \A d \in details :
        /\ DOMAIN d = DetailFields /\ d.finding \in Findings
        /\ d.answer # Nothing => IsDetail(d.answer, d.finding)
SaveFields == {"live", "finding", "expected", "decision", "stage", "answer"}
SavesInv ==
    \A s \in saves :
        /\ DOMAIN s = SaveFields /\ s.finding \in Findings
        /\ s.stage \in {"saved", "conflict"} => IsDetail(s.answer, s.finding)
ScreenInv ==
    /\ page # Nothing => IsListing(page)
    /\ seen.page # Nothing => IsListing(seen.page)
    /\ selected # Nothing => IsDetail(selected, selected.finding)
    /\ detailTimer # Nothing => DOMAIN detailTimer = {"finding", "live"} /\ detailTimer.finding \in Findings
    /\ {selectedId, seen.selectedId} \subseteq AtFinding /\ DOMAIN draft = {"finding", "decision"}
AnswersInv == IsReviews(stored) /\ ListsInv /\ DetailsInv /\ SavesInv /\ ScreenInv

\* A call that is live is about the selection.
TimerIsLive == detailTimer # Nothing /\ detailTimer.live
SelectionInv ==
    /\ \A d \in details : d.live => d.finding = selectedId
    /\ \A s \in saves : s.live => s.finding = selectedId
    /\ TimerIsLive => detailTimer.finding = selectedId
    /\ DetailIsOfSelection

\* A detail is read once for a selection, before anything of it can be saved.
Reads == {d \in details : d.live /\ d.stage = "detail"}
NothingYet == selected = Nothing /\ ~saveMessage /\ \A s \in saves : ~s.live
ReadsInv ==
    /\ \A d, e \in Reads : d = e
    /\ TimerIsLive => Reads = {}
    /\ TimerIsLive \/ Reads # {} => NothingYet
    /\ seen.selectedId # selectedId => NothingYet /\ ~TimerIsLive /\ Reads = {}

\* One read of the queue counts, and it is later than the queue on the screen and
\* than the review whose saving is announced.
QueueInv ==
    /\ \A r, q \in lists : r.live /\ q.live => r = q
    /\ \A r \in lists : r.live /\ r.answer # Nothing /\ page # Nothing => NotLater(page.asOf, r.answer.asOf)
    /\ saveMessage => IsDetail(selected, selectedId)
    /\ RefreshFollowsSave

FindingsInv == AnswersInv /\ SelectionInv /\ ReadsInv /\ QueueInv

-----------------------------------------------------------------------------
(* Calls and answers.                                                         *)

\* Calls that are not current any more are what they were otherwise.
LEMMA StaleLists ==
    ASSUME ListsInv
    PROVE  \A r \in Stale(lists) :
             /\ DOMAIN r = ListFields /\ ~r.live
             /\ \E q \in lists : r.selected = q.selected /\ r.index = q.index /\ r.answer = q.answer
  BY DEF ListsInv, Stale, ListFields

LEMMA StaleDetails ==
    ASSUME DetailsInv
    PROVE  \A d \in Stale(details) :
             /\ DOMAIN d = DetailFields /\ ~d.live
             /\ \E e \in details : d.finding = e.finding /\ d.stage = e.stage /\ d.answer = e.answer
  BY DEF DetailsInv, Stale, DetailFields

LEMMA StaleSaves ==
    ASSUME SavesInv
    PROVE  \A s \in Stale(saves) :
             /\ DOMAIN s = SaveFields /\ ~s.live
             /\ \E t \in saves : s.finding = t.finding /\ s.stage = t.stage /\ s.answer = t.answer
  BY DEF SavesInv, Stale, SaveFields

LEMMA DetailIs ==
    ASSUME IsReviews(stored), NEW f \in Findings
    PROVE  IsDetail(Detail(f, stored[f]), f)
  BY DEF IsDetail, Detail, IsReviews

LEMMA SliceIs ==
    ASSUME NEW rows \in Seq(Findings), NEW n \in Nat \ {0}
    PROVE  Slice(rows, n) \in Seq(Findings)
  <1> DEFINE m == (n - 1) * PageSize
             k == n * PageSize
             e == IF k < Len(rows) THEN k ELSE Len(rows)
  <1>1. m \in Nat /\ k \in Nat
    BY BoundAssumption
  <1> HIDE DEF m, k
  <1>2. e \in Nat /\ e <= Len(rows) /\ Len(rows) \in Nat
    BY <1>1
  <1> HIDE DEF e
  <1>3. SubSeq(rows, m + 1, e) \in Seq(Findings)
    <2>1. \A i \in 1 .. (1 + e - (m + 1)) : rows[(m + 1) - 1 + i] \in Findings
      BY <1>1, <1>2
    <2> QED  BY <2>1, <1>1, <1>2
  <1> QED  BY <1>3 DEF Slice, m, k, e

LEMMA ListAnswerIs ==
    ASSUME IsReviews(stored), NEW q, IsPage(q)
    PROVE  IsListing(ListAnswer(q)) /\ ListAnswer(q).asOf = stored
  <1> DEFINE matching == Picked(Queue, {f \in Findings : q.filter = AllFindings \/ stored[f].decision = q.filter})
  <1>1. matching \in Seq(Findings)
    BY PickedElements, QueueAssumption DEF Findings
  <1> HIDE DEF matching
  <1>2. Slice(matching, q.page) \in Seq(Findings)
    BY <1>1, SliceIs DEF IsPage
  <1>3. ListAnswer(q).items = Slice(matching, q.page) /\ ListAnswer(q).asOf = stored
    BY DEF ListAnswer, matching
  <1> QED  BY <1>2, <1>3 DEF IsListing, NotLater, IsReviews

LEMMA LaterThan ==
    ASSUME NEW r, NEW q, NEW t, IsReviews(r), IsReviews(q), IsReviews(t), NotLater(r, q), NotLater(q, t)
    PROVE  NotLater(r, t)
  BY DEF IsReviews, NotLater

LEMMA AnswersStay ==
    ASSUME IsReviews(stored), IsReviews(stored'), NotLater(stored, stored')
    PROVE  /\ \A a : IsListing(a) => IsListing(a)'
           /\ \A a, f : IsDetail(a, f) => IsDetail(a, f)'
  BY DEF IsReviews, NotLater, IsListing, IsDetail

\* What a read of the queue selects.
LEMMA NextSelectionIs ==
    ASSUME NEW r, r.selected \in AtFinding, r.index \in Nat, NEW items \in Seq(Findings)
    PROVE  NextSelection(r, items) \in AtFinding
  <1>1. CASE r.selected \in ToSet(items)
    BY <1>1 DEF NextSelection, AtFinding
  <1>2. CASE r.selected \notin ToSet(items) /\ items = <<>>
    BY <1>2 DEF NextSelection, AtFinding
  <1>3. CASE r.selected \notin ToSet(items) /\ items # <<>>
    <2> DEFINE i == IF r.index = 0 THEN 1 ELSE IF r.index < Len(items) THEN r.index ELSE Len(items)
    <2>1. i \in 1 .. Len(items)
      BY <1>3
    <2>2. NextSelection(r, items) = items[i]
      BY <1>3 DEF NextSelection
    <2> HIDE DEF i
    <2> QED  BY <2>1, <2>2 DEF AtFinding
  <1> QED  BY <1>1, <1>2, <1>3

LEMMA PositionIs == ASSUME NEW f, NEW items \in Seq(Findings) PROVE Position(f, items) \in Nat
  <1>1. CASE f \in ToSet(items)
    <2>1. \E i \in 1 .. Len(items) : items[i] = f
      BY <1>1 DEF ToSet
    <2> QED  BY <1>1, <2>1 DEF Position
  <1> QED  BY <1>1 DEF Position

-----------------------------------------------------------------------------
(* The steps, by what they do to the selection, the queue and the store.        *)

SelectionStays ==
    UNCHANGED <<selectedId, selected, history, source, draft, detailTimer, details, saveMessage, saves, seen>>
SelectionGoes == InvalidateSelection /\ selectedId' \in AtFinding /\ UNCHANGED <<draft, seen>>

LEMMA ReceiveListIs ==
    ASSUME ListsInv, NEW r \in lists, ReceiveList(r)
    PROVE  /\ lists' = lists \ {r} /\ stored' = stored
           /\ page' = page \/ (r.live /\ r.answer # Nothing /\ page' = r.answer)
           /\ SelectionStays \/ SelectionGoes
  <1>1. lists' = lists \ {r} /\ UNCHANGED <<stored, seen>>
    BY DEF ReceiveList, storeVars
  <1>2. CASE ~UsesList(r)
    BY <1>1, <1>2 DEF ReceiveList, SelectionStays, detailVars
  <1>3. CASE UsesList(r)
    <2> DEFINE a == r.answer
    <2>1. page' = a /\ r.answer # Nothing /\ r.live
      BY <1>3 DEF ReceiveList, UsesList
    <2>2. CASE a.items = <<>> /\ a.total > 0 /\ r.query.page > 1
      BY <1>1, <1>3, <2>1, <2>2 DEF ReceiveList, SelectionStays, detailVars
    <2>3. CASE ~(a.items = <<>> /\ a.total > 0 /\ r.query.page > 1)
      <3>1. SelectAfterList(r, a.items) /\ draft' = draft
        BY <1>3, <2>3 DEF ReceiveList
      <3>2. NextSelection(r, a.items) \in AtFinding
        BY <2>1, NextSelectionIs DEF ListsInv, IsListing
      <3> QED  BY <1>1, <2>1, <3>1, <3>2 DEF SelectAfterList, SelectionStays, SelectionGoes
    <2> QED  BY <2>2, <2>3
  <1> QED  BY <1>2, <1>3

LEMMA LoseListIs ==
    ASSUME NEW r \in lists, LoseList(r)
    PROVE  /\ lists' = lists \ {r} /\ stored' = stored
           /\ page' \in {page, Nothing}
           /\ SelectionStays \/ SelectionGoes
  BY DEF LoseList, storeVars, SelectionStays, SelectionGoes, AtFinding

LEMMA QueueSteps ==
    ASSUME ListsInv, [Next]_vars
    PROVE  \/ lists' \subseteq lists \cup Stale(lists) /\ page' \in {page, Nothing}
           \/ ListTimerFires
           \/ ServeList
           \/ \E r \in lists : ReceiveList(r)
  <1> DEFINE Fewer == lists' \subseteq lists \cup Stale(lists) /\ page' \in {page, Nothing}
  <1>1. FlushEffects => Fewer
    BY DEF FlushEffects, ListEffect
  <1>2. Reviewer => Fewer
    BY DEF Reviewer, SelectFinding, ChangeFilter, TurnPage, AskFor, SaveReview, EditDecision, queueVars
  <1>3. (\E filter \in Filters : Navigate(filter)) => Fewer
    BY DEF Navigate
  <1>4. (\E r \in lists : LoseList(r)) => Fewer
    BY LoseListIs
  <1>5. DetailTimerFires \/ ReadDetail => Fewer
    BY DEF DetailTimerFires, ReadDetail, ServeDetail, LoseDetail, ReceiveDetail, ReceiveSource, queueVars
  <1>6. Save => Fewer
    BY DEF Save, ServeSave, ReceiveSave, LoseSave, ReceiveHistory, RequestReload, queueVars
  <1>7. (\E f \in Findings, decision \in Decisions : OtherWorkspaceSaves(f, decision)) => Fewer
    BY DEF OtherWorkspaceSaves, queueVars
  <1>8. UNCHANGED vars => Fewer
    BY DEF vars, queueVars
  <1> HIDE DEF Fewer
  <1>9. Fewer \/ ListTimerFires \/ ServeList \/ \E r \in lists : ReceiveList(r)
    BY <1>1, <1>2, <1>3, <1>4, <1>5, <1>6, <1>7, <1>8 DEF Next, ReadQueue
  <1> QED  BY <1>9 DEF Fewer

LEMMA SelectionSteps ==
    ASSUME ListsInv, [Next]_vars
    PROVE  \/ SelectionStays
           \/ SelectionGoes
           \/ FlushEffects \/ DetailTimerFires \/ ReadDetail \/ Save
           \/ SaveReview
           \/ \E decision \in Decisions : EditDecision(decision)
  <1>1. (\E f \in Findings : SelectFinding(f)) => SelectionGoes
    BY DEF SelectFinding, SelectionGoes, AtFinding
  <1>2. (\E filter \in Filters : ChangeFilter(filter)) \/ TurnPage => SelectionStays
    BY DEF ChangeFilter, TurnPage, AskFor, SelectionStays, detailVars, saveVars
  <1>3. (\E filter \in Filters : Navigate(filter)) => SelectionGoes
    BY DEF Navigate, SelectionGoes, AtFinding
  <1>4. ReadQueue => SelectionStays \/ SelectionGoes
    <2>1. ServeList => SelectionStays
      BY DEF ServeList, SelectionStays, detailVars, saveVars
    <2> QED  BY <2>1, ReceiveListIs, LoseListIs DEF ReadQueue
  <1>5. ListTimerFires => SelectionStays
    BY DEF ListTimerFires, SelectionStays, detailVars, saveVars
  <1>6. (\E f \in Findings, decision \in Decisions : OtherWorkspaceSaves(f, decision)) => SelectionStays
    BY DEF OtherWorkspaceSaves, SelectionStays, detailVars, saveVars
  <1>7. UNCHANGED vars => SelectionStays
    BY DEF vars, detailVars, saveVars, SelectionStays
  <1> QED  BY <1>1, <1>2, <1>3, <1>4, <1>5, <1>6, <1>7 DEF Next, Reviewer

LEMMA StoreSteps ==
    ASSUME IsReviews(stored), SavesInv, ListsInv, [Next]_vars
    PROVE  IsReviews(stored') /\ NotLater(stored, stored')
  <1>1. CASE stored' = stored
    BY <1>1 DEF IsReviews, NotLater
  <1>2. ASSUME NEW f \in Findings, NEW decision,
               stored' = [stored EXCEPT ![f] = [decision |-> decision, version |-> @.version + 1]]
        PROVE  IsReviews(stored') /\ NotLater(stored, stored')
    BY <1>2 DEF IsReviews, NotLater
  <1>3. (\E f \in Findings : SelectFinding(f)) \/ (\E filter \in Filters : ChangeFilter(filter)) \/ TurnPage
        \/ SaveReview \/ (\E decision \in Decisions : EditDecision(decision))
        \/ (\E filter \in Filters : Navigate(filter)) => stored' = stored
    BY DEF SelectFinding, ChangeFilter, TurnPage, AskFor, SaveReview, EditDecision, Navigate, storeVars
  <1>4. FlushEffects \/ DetailTimerFires \/ ReadDetail => stored' = stored
    BY DEF FlushEffects, DetailTimerFires, ReadDetail, ServeDetail, LoseDetail, ReceiveDetail, ReceiveSource,
           storeVars
  <1>5. ListTimerFires \/ ReadQueue => stored' = stored
    <2>1. ListTimerFires \/ ServeList => stored' = stored
      BY DEF ListTimerFires, ServeList, storeVars
    <2> QED  BY <2>1, ReceiveListIs, LoseListIs DEF ReadQueue
  <1>6. Save => ServeSave \/ stored' = stored
    BY DEF Save, ReceiveSave, LoseSave, ReceiveHistory, storeVars
  <1>7. ASSUME ServeSave PROVE IsReviews(stored') /\ NotLater(stored, stored')
    <2>1. PICK s \in saves :
            stored' = IF Accepts(s) THEN [stored EXCEPT ![s.finding] =
                                            [decision |-> s.decision, version |-> @.version + 1]]
                      ELSE stored
      BY <1>7 DEF ServeSave
    <2>2. s.finding \in Findings
      BY DEF SavesInv
    <2> QED  BY <1>1, <1>2, <2>1, <2>2
  <1>8. ASSUME NEW f \in Findings, NEW decision \in Decisions, OtherWorkspaceSaves(f, decision)
        PROVE  IsReviews(stored') /\ NotLater(stored, stored')
    BY <1>2, <1>8 DEF OtherWorkspaceSaves
  <1>9. UNCHANGED vars => stored' = stored
    BY DEF vars, storeVars
  <1> QED  BY <1>1, <1>3, <1>4, <1>5, <1>6, <1>7, <1>8, <1>9 DEF Next, Reviewer

-----------------------------------------------------------------------------
(* What was read is never later than what is stored.                           *)

LEMMA ListsStay ==
    ASSUME AnswersInv, [Next]_vars, IsReviews(stored'), NotLater(stored, stored')
    PROVE  ListsInv'
  <1>1. ListsInv /\ IsReviews(stored)
    BY DEF AnswersInv
  <1>2. \A a : IsListing(a) => IsListing(a)'
    BY <1>1, AnswersStay
  <1>3. \A r \in lists \cup Stale(lists) :
            /\ DOMAIN r = ListFields /\ r.index \in Nat /\ r.selected \in AtFinding
            /\ r.answer # Nothing => IsListing(r.answer)'
    BY <1>1, <1>2, StaleLists DEF ListsInv
  <1>4. CASE lists' \subseteq lists \cup Stale(lists)
    BY <1>3, <1>4 DEF ListsInv, AtFinding
  <1>5. CASE ListTimerFires
    <2>1. PICK r :
            /\ lists' = Stale(lists) \cup {r}
            /\ r = [live |-> TRUE, query |-> listTimer, selected |-> seen.selectedId,
                    index |-> IF seen.page = Nothing THEN 0 ELSE Position(seen.selectedId, seen.page.items),
                    answer |-> Nothing]
      BY <1>5 DEF ListTimerFires
    <2>2. r.index \in Nat /\ r.selected \in AtFinding
      BY <2>1, PositionIs DEF AnswersInv, ScreenInv, IsListing
    <2>3. DOMAIN r = ListFields /\ r.answer = Nothing
      BY <2>1 DEF ListFields
    <2> QED  BY <1>3, <2>1, <2>2, <2>3 DEF ListsInv, AtFinding
  <1>6. CASE ServeList
    <2>1. PICK r \in lists :
            /\ r.answer = Nothing /\ IsPage(r.query)
            /\ lists' = (lists \ {r}) \cup {[r EXCEPT !.answer = ListAnswer(r.query)]}
      BY <1>6 DEF ServeList
    <2> DEFINE s == [r EXCEPT !.answer = ListAnswer(r.query)]
    <2>2. DOMAIN s = ListFields /\ s.index = r.index /\ s.selected = r.selected /\ s.answer = ListAnswer(r.query)
      BY <1>1 DEF ListsInv, ListFields
    <2>3. \A a : a = ListAnswer(r.query) => IsListing(a)'
      BY <1>1, <1>2, <2>1, ListAnswerIs
    <2> HIDE DEF s
    <2> QED  BY <1>3, <2>1, <2>2, <2>3 DEF ListsInv, AtFinding, s
  <1>7. CASE \E r \in lists : ReceiveList(r)
    BY <1>1, <1>4, <1>7, ReceiveListIs
  <1> QED  BY <1>1, <1>4, <1>5, <1>6, <1>7, QueueSteps

LEMMA DetailsStay ==
    ASSUME AnswersInv, [Next]_vars, IsReviews(stored'), NotLater(stored, stored')
    PROVE  DetailsInv'
  <1>1. DetailsInv /\ IsReviews(stored) /\ ListsInv
    BY DEF AnswersInv
  <1>2. \A a, f : IsDetail(a, f) => IsDetail(a, f)'
    BY <1>1, AnswersStay
  <1>3. \A d \in details \cup Stale(details) :
            /\ DOMAIN d = DetailFields /\ d.finding \in Findings
            /\ d.answer # Nothing => IsDetail(d.answer, d.finding)'
    BY <1>1, <1>2, StaleDetails DEF DetailsInv
  <1>4. CASE details' \subseteq details \cup Stale(details)
    BY <1>3, <1>4 DEF DetailsInv
  <1>5. CASE SelectionStays \/ SelectionGoes
    BY <1>4, <1>5 DEF SelectionStays, SelectionGoes, InvalidateSelection
  <1>6. CASE FlushEffects
    BY <1>4, <1>6 DEF FlushEffects, DetailEffect, Stale
  <1>7. CASE SaveReview \/ (\E decision \in Decisions : EditDecision(decision)) \/ Save
    BY <1>4, <1>7 DEF SaveReview, EditDecision, Save, ServeSave, ReceiveSave, LoseSave, ReceiveHistory, detailVars
  <1>8. CASE DetailTimerFires
    <2>1. PICK d :
            /\ details' = details \cup {d}
            /\ d = [live |-> detailTimer.live, finding |-> detailTimer.finding, stage |-> "detail", answer |-> Nothing]
      BY <1>8 DEF DetailTimerFires
    <2>2. DOMAIN d = DetailFields /\ d.finding \in Findings /\ d.answer = Nothing
      BY <1>8, <2>1 DEF DetailTimerFires, DetailFields, AnswersInv, ScreenInv
    <2> QED  BY <1>3, <2>1, <2>2 DEF DetailsInv
  <1>9. CASE ServeDetail
    <2>1. PICK d \in details :
            details' = (details \ {d}) \cup {[d EXCEPT !.answer = Detail(d.finding, stored[d.finding])]}
      BY <1>9 DEF ServeDetail
    <2> DEFINE e == [d EXCEPT !.answer = Detail(d.finding, stored[d.finding])]
    <2>2. DOMAIN e = DetailFields /\ e.finding = d.finding /\ e.answer = Detail(d.finding, stored[d.finding])
      BY <1>1 DEF DetailsInv, DetailFields
    <2>3. d.finding \in Findings
      BY <1>1 DEF DetailsInv
    <2>4. \A a : a = Detail(d.finding, stored[d.finding]) => IsDetail(a, d.finding)'
      BY <1>1, <1>2, <2>3, DetailIs
    <2> HIDE DEF e
    <2> QED  BY <1>3, <2>1, <2>2, <2>3, <2>4 DEF DetailsInv, e
  <1>10. CASE \E d \in details, located \in BOOLEAN : ReceiveDetail(d, located)
    <2>1. PICK d \in details :
            \/ details' = details \ {d}
            \/ details' = (details \ {d}) \cup {[d EXCEPT !.stage = "source"]}
      BY <1>10 DEF ReceiveDetail
    <2> DEFINE e == [d EXCEPT !.stage = "source"]
    <2>2. DOMAIN e = DetailFields /\ e.finding = d.finding /\ e.answer = d.answer
      BY <1>1 DEF DetailsInv, DetailFields
    <2> HIDE DEF e
    <2> QED  BY <1>3, <2>1, <2>2 DEF DetailsInv, e
  <1>11. CASE \E d \in details : LoseDetail(d) \/ \E b \in BOOLEAN : ReceiveSource(d, b)
    BY <1>4, <1>11 DEF LoseDetail, ReceiveSource
  <1> QED  BY <1>1, <1>5, <1>6, <1>7, <1>8, <1>9, <1>10, <1>11, SelectionSteps DEF ReadDetail

\* The saves, and what they are when they are answered.
LEMMA ServeSaveIs ==
    ASSUME IsReviews(stored), SavesInv, IsReviews(stored'), ServeSave
    PROVE  \E s \in saves : \E t :
             /\ saves' = (saves \ {s}) \cup {t}
             /\ DOMAIN t = SaveFields /\ t.finding = s.finding /\ t.live = s.live
             /\ IsDetail(t.answer, t.finding)'
  <1>1. PICK s \in saves :
          saves' = (saves \ {s}) \cup
                {[s EXCEPT !.stage = IF Accepts(s) THEN "saved" ELSE "conflict",
                           !.answer = Detail(s.finding, stored'[s.finding])]}
    BY DEF ServeSave
  <1>2. PICK t : t = [s EXCEPT !.stage = IF Accepts(s) THEN "saved" ELSE "conflict",
                               !.answer = Detail(s.finding, stored'[s.finding])]
    OBVIOUS
  <1>3. DOMAIN s = SaveFields /\ s.finding \in Findings
    BY DEF SavesInv
  <1>4. /\ DOMAIN t = SaveFields /\ t.finding = s.finding /\ t.live = s.live
        /\ t.answer = Detail(s.finding, stored'[s.finding])
    BY <1>2, <1>3 DEF SaveFields
  <1>5. IsDetail(t.answer, t.finding)'
    BY <1>3, <1>4 DEF IsDetail, Detail, IsReviews
  <1> QED  BY <1>1, <1>2, <1>4, <1>5

LEMMA SavesStay ==
    ASSUME AnswersInv, [Next]_vars, IsReviews(stored'), NotLater(stored, stored')
    PROVE  SavesInv'
  <1>1. SavesInv /\ IsReviews(stored) /\ ListsInv
    BY DEF AnswersInv
  <1>2. \A a, f : IsDetail(a, f) => IsDetail(a, f)'
    BY <1>1, AnswersStay
  <1>3. \A s \in saves \cup Stale(saves) :
            /\ DOMAIN s = SaveFields /\ s.finding \in Findings
            /\ s.stage \in {"saved", "conflict"} => IsDetail(s.answer, s.finding)'
    BY <1>1, <1>2, StaleSaves DEF SavesInv
  <1>4. CASE saves' \subseteq saves \cup Stale(saves)
    BY <1>3, <1>4 DEF SavesInv
  <1>5. CASE SelectionStays \/ SelectionGoes
    BY <1>4, <1>5 DEF SelectionStays, SelectionGoes, InvalidateSelection
  <1>6. CASE FlushEffects \/ (\E decision \in Decisions : EditDecision(decision)) \/ DetailTimerFires \/ ReadDetail
    BY <1>4, <1>6
    DEF FlushEffects, EditDecision, DetailTimerFires, ReadDetail, ServeDetail, LoseDetail, ReceiveDetail,
        ReceiveSource, saveVars
  <1>7. CASE SaveReview
    <2>1. PICK s :
            /\ saves' = Stale(saves) \cup {s}
            /\ s = [live |-> TRUE, finding |-> selected.finding, expected |-> selected.version,
                    decision |-> draft.decision, stage |-> "sent", answer |-> Nothing]
      BY <1>7 DEF SaveReview
    <2>2. selected.finding \in Findings
      BY <1>7 DEF SaveReview, AnswersInv, ScreenInv, IsDetail
    <2> QED  BY <1>3, <2>1, <2>2 DEF SavesInv, SaveFields
  <1>8. CASE ServeSave
    <2>1. PICK s \in saves : \E t :
             /\ saves' = (saves \ {s}) \cup {t}
             /\ DOMAIN t = SaveFields /\ t.finding = s.finding /\ IsDetail(t.answer, t.finding)'
      BY <1>1, <1>8, ServeSaveIs
    <2>2. PICK t :
             /\ saves' = (saves \ {s}) \cup {t}
             /\ DOMAIN t = SaveFields /\ t.finding = s.finding /\ IsDetail(t.answer, t.finding)'
      BY <2>1
    <2> QED  BY <1>3, <2>2 DEF SavesInv
  <1>9. CASE \E s \in saves : ReceiveSave(s)
    <2>1. PICK s \in saves :
            saves' = saves \ {s} \/ saves' = (saves \ {s}) \cup {[s EXCEPT !.stage = "history"]}
      BY <1>9 DEF ReceiveSave
    <2> DEFINE t == [s EXCEPT !.stage = "history"]
    <2>2. DOMAIN t = SaveFields /\ t.finding = s.finding /\ t.stage = "history"
      BY <1>1 DEF SavesInv, SaveFields
    <2> HIDE DEF t
    <2> QED  BY <1>3, <2>1, <2>2 DEF SavesInv, t
  <1>10. CASE \E s \in saves : LoseSave(s) \/ \E b \in BOOLEAN : ReceiveHistory(s, b)
    BY <1>4, <1>10 DEF LoseSave, ReceiveHistory, EndSave
  <1> QED  BY <1>1, <1>5, <1>6, <1>7, <1>8, <1>9, <1>10, SelectionSteps DEF Save

LEMMA ScreenStays ==
    ASSUME AnswersInv, [Next]_vars, IsReviews(stored'), NotLater(stored, stored')
    PROVE  ScreenInv'
  <1>1. ListsInv /\ DetailsInv /\ SavesInv /\ ScreenInv /\ IsReviews(stored)
    BY DEF AnswersInv
  <1>2. (\A a : IsListing(a) => IsListing(a)') /\ (\A a, f : IsDetail(a, f) => IsDetail(a, f)')
    BY <1>1, AnswersStay
  <1>3. (page # Nothing => IsListing(page))'
    <2>1. CASE page' \in {page, Nothing}
      BY <1>1, <1>2, <2>1 DEF ScreenInv
    <2>2. CASE \E r \in lists : ReceiveList(r)
      <3>1. PICK r \in lists : page' = page \/ (r.answer # Nothing /\ page' = r.answer)
        BY <1>1, <2>2, ReceiveListIs
      <3> QED  BY <1>1, <1>2, <2>1, <3>1 DEF ListsInv
    <2>3. ListTimerFires \/ ServeList => page' = page
      BY DEF ListTimerFires, ServeList
    <2> QED  BY <1>1, <2>1, <2>2, <2>3, QueueSteps
  <1>4. seen' = seen \/ (seen'.page = page /\ seen'.selectedId = selectedId)
    <2>1. FlushEffects => seen'.page = page /\ seen'.selectedId = selectedId
      BY DEF FlushEffects
    <2>2. SelectionStays \/ SelectionGoes \/ DetailTimerFires \/ ReadDetail \/ Save \/ SaveReview
          \/ (\E decision \in Decisions : EditDecision(decision)) => seen' = seen
      BY DEF SelectionStays, SelectionGoes, DetailTimerFires, ReadDetail, ServeDetail, LoseDetail, ReceiveDetail,
             ReceiveSource, Save, ServeSave, ReceiveSave, LoseSave, ReceiveHistory, SaveReview, EditDecision
    <2> QED  BY <1>1, <2>1, <2>2, SelectionSteps
  <1>5. (seen.page # Nothing => IsListing(seen.page))'
    <2>1. CASE seen' = seen
      BY <1>1, <1>2, <2>1 DEF ScreenInv, IsListing
    <2>2. CASE seen'.page = page
      BY <1>1, <1>2, <2>2 DEF ScreenInv, IsListing
    <2> QED  BY <1>4, <2>1, <2>2
  <1>6. (selected # Nothing => IsDetail(selected, selected.finding))'
    <2>1. CASE selected' \in {selected, Nothing}
      BY <1>1, <1>2, <2>1 DEF ScreenInv, IsDetail
    <2>2. CASE \E d \in details, b \in BOOLEAN : ReceiveDetail(d, b)
      <3>1. PICK d \in details : selected' = selected \/ (selected' = d.answer /\ d.answer # Nothing)
        BY <2>2 DEF ReceiveDetail
      <3>2. CASE selected' = d.answer /\ d.answer # Nothing
        <4>1. IsDetail(d.answer, d.finding)
          BY <1>1, <3>2 DEF DetailsInv
        <4>2. IsDetail(d.answer, d.answer.finding)
          BY <4>1 DEF IsDetail
        <4> QED  BY <1>2, <3>2, <4>2 DEF IsDetail
      <3> QED  BY <2>1, <3>1, <3>2
    <2>3. CASE \E s \in saves : ReceiveSave(s)
      <3>1. PICK s \in saves : selected' = selected \/ (selected' = s.answer /\ s.stage \in {"saved", "conflict"})
        BY <2>3 DEF ReceiveSave
      <3>2. CASE selected' = s.answer /\ s.stage \in {"saved", "conflict"}
        <4>1. IsDetail(s.answer, s.finding)
          BY <1>1, <3>2 DEF SavesInv
        <4>2. IsDetail(s.answer, s.answer.finding)
          BY <4>1 DEF IsDetail
        <4> QED  BY <1>2, <3>2, <4>2 DEF IsDetail
      <3> QED  BY <2>1, <3>1, <3>2
    <2>4. SelectionStays \/ SelectionGoes \/ FlushEffects \/ DetailTimerFires \/ SaveReview
          \/ (\E decision \in Decisions : EditDecision(decision)) => selected' \in {selected, Nothing}
      BY DEF SelectionStays, SelectionGoes, InvalidateSelection, FlushEffects, DetailTimerFires, SaveReview,
             EditDecision
    <2>5. ServeDetail \/ ServeSave \/ (\E d \in details : LoseDetail(d) \/ \E b \in BOOLEAN : ReceiveSource(d, b))
          \/ (\E s \in saves : LoseSave(s) \/ \E b \in BOOLEAN : ReceiveHistory(s, b)) => selected' = selected
      BY DEF ServeDetail, ServeSave, LoseDetail, ReceiveSource, LoseSave, ReceiveHistory, detailVars
    <2> QED  BY <1>1, <2>1, <2>2, <2>3, <2>4, <2>5, SelectionSteps DEF ReadDetail, Save
  <1>7. /\ detailTimer' # Nothing =>
              DOMAIN detailTimer' = {"finding", "live"} /\ detailTimer'.finding \in Findings
        /\ selectedId' \in AtFinding
    <2>1. CASE SelectionStays
      BY <1>1, <2>1 DEF SelectionStays, ScreenInv
    <2>2. CASE SelectionGoes
      BY <1>1, <2>2 DEF SelectionGoes, InvalidateSelection, ScreenInv
    <2>3. CASE FlushEffects
      <3>1. detailTimer' \in {detailTimer, Nothing} \/ (selectedId # Nothing /\ detailTimer' = [finding |-> selectedId, live |-> TRUE])
        BY <2>3 DEF FlushEffects, DetailEffect
      <3> QED  BY <1>1, <2>3, <3>1 DEF FlushEffects, ScreenInv, AtFinding
    <2>4. CASE DetailTimerFires
      BY <1>1, <2>4 DEF DetailTimerFires, ScreenInv
    <2>5. CASE ReadDetail \/ Save \/ SaveReview \/ \E decision \in Decisions : EditDecision(decision)
      <3>1. detailTimer' = detailTimer /\ selectedId' = selectedId
        BY <2>5 DEF ReadDetail, ServeDetail, LoseDetail, ReceiveDetail, ReceiveSource, Save, ServeSave, ReceiveSave,
                    LoseSave, ReceiveHistory, SaveReview, EditDecision, detailVars
      <3> QED  BY <1>1, <3>1 DEF ScreenInv
    <2> QED  BY <1>1, <2>1, <2>2, <2>3, <2>4, <2>5, SelectionSteps
  <1>8. DOMAIN draft' = {"finding", "decision"}
    <2>1. CASE draft' = draft
      BY <1>1, <2>1 DEF ScreenInv
    <2>2. CASE \E d \in details, b \in BOOLEAN : ReceiveDetail(d, b)
      BY <1>1, <2>2 DEF ReceiveDetail, Form, ScreenInv
    <2>3. CASE \E s \in saves : ReceiveSave(s)
      BY <1>1, <2>3 DEF ReceiveSave, Form, ScreenInv
    <2>4. CASE \E decision \in Decisions : EditDecision(decision)
      BY <1>1, <2>4 DEF EditDecision, ScreenInv
    <2>5. SelectionStays \/ SelectionGoes \/ FlushEffects \/ DetailTimerFires \/ SaveReview => draft' = draft
      BY DEF SelectionStays, SelectionGoes, FlushEffects, DetailTimerFires, SaveReview
    <2>6. ServeDetail \/ ServeSave \/ (\E d \in details : LoseDetail(d) \/ \E b \in BOOLEAN : ReceiveSource(d, b))
          \/ (\E s \in saves : LoseSave(s) \/ \E b \in BOOLEAN : ReceiveHistory(s, b)) => draft' = draft
      BY DEF ServeDetail, ServeSave, LoseDetail, ReceiveSource, LoseSave, ReceiveHistory, detailVars
    <2> QED  BY <1>1, <2>1, <2>2, <2>3, <2>4, <2>5, <2>6, SelectionSteps DEF ReadDetail, Save
  <1>9. {selectedId', seen'.selectedId} \subseteq AtFinding
    BY <1>1, <1>4, <1>7 DEF ScreenInv
  <1> QED  BY <1>3, <1>5, <1>6, <1>7, <1>8, <1>9 DEF ScreenInv, AtFinding

LEMMA AnswersStep ==
    ASSUME AnswersInv, [Next]_vars
    PROVE  AnswersInv' /\ NotLater(stored, stored')
  BY StoreSteps, ListsStay, DetailsStay, SavesStay, ScreenStays DEF AnswersInv, IsReviews

-----------------------------------------------------------------------------
(* What is live is about the selection.                                        *)

LEMMA SelectionStep ==
    ASSUME AnswersInv, SelectionInv, [Next]_vars
    PROVE  SelectionInv'
  <1>1. ListsInv /\ DetailsInv /\ SavesInv /\ ScreenInv
    BY DEF AnswersInv
  <1>2. /\ \A d \in details \cup Stale(details) : d.live => d \in details
        /\ \A s \in saves \cup Stale(saves) : s.live => s \in saves
    BY <1>1, StaleDetails, StaleSaves
  <1>3. CASE SelectionStays
    BY <1>3 DEF SelectionStays, SelectionInv, TimerIsLive, DetailIsOfSelection
  <1>4. CASE SelectionGoes
    <2>1. /\ \A d \in details' : ~d.live
          /\ \A s \in saves' : ~s.live
          /\ selected' = Nothing /\ history' = Nothing /\ source' = Nothing
      BY <1>1, <1>4, StaleDetails, StaleSaves DEF SelectionGoes, InvalidateSelection
    <2>2. ~TimerIsLive'
      BY <1>1, <1>4 DEF SelectionGoes, InvalidateSelection, ScreenInv, TimerIsLive
    <2> QED  BY <2>1, <2>2 DEF SelectionInv, DetailIsOfSelection
  <1>5. CASE FlushEffects
    <2>1. /\ details' \subseteq details \cup Stale(details) /\ saves' = saves
          /\ UNCHANGED <<selectedId, selected, history, source, draft>>
          /\ detailTimer' \in {detailTimer, Nothing} \/ detailTimer' = [finding |-> selectedId, live |-> TRUE]
      BY <1>5 DEF FlushEffects, DetailEffect, Stale, saveVars
    <2> QED  BY <1>2, <2>1 DEF SelectionInv, TimerIsLive, DetailIsOfSelection
  <1>6. CASE DetailTimerFires
    <2>1. /\ UNCHANGED <<selectedId, saves, draft>> /\ detailTimer' = Nothing
          /\ selected' = Nothing /\ history' = Nothing /\ source' = Nothing
      BY <1>6 DEF DetailTimerFires
    <2>2. \A d \in details' : d.live => d.finding = selectedId
      BY <1>6 DEF DetailTimerFires, SelectionInv, TimerIsLive
    <2> QED  BY <2>1, <2>2 DEF SelectionInv, TimerIsLive, DetailIsOfSelection
  <1>7. CASE ServeDetail
    <2>1. UNCHANGED <<selectedId, selected, history, source, draft, detailTimer, saves>>
      BY <1>7 DEF ServeDetail, saveVars
    <2>2. \A d \in details' : \E e \in details : d.live = e.live /\ d.finding = e.finding
      BY <1>1, <1>7 DEF ServeDetail, DetailsInv, DetailFields
    <2> QED  BY <2>1, <2>2 DEF SelectionInv, TimerIsLive, DetailIsOfSelection
  <1>8. CASE \E d \in details, b \in BOOLEAN : ReceiveDetail(d, b)
    <2>1. PICK d \in details, b \in BOOLEAN : ReceiveDetail(d, b)
      BY <1>8
    <2>2. UNCHANGED <<selectedId, source, detailTimer, saves>>
      BY <2>1 DEF ReceiveDetail, saveVars
    <2>3. \A e \in details' : \E c \in details : e.live = c.live /\ e.finding = c.finding
      BY <1>1, <2>1 DEF ReceiveDetail, DetailsInv, DetailFields
    <2>4. CASE ~d.live
      BY <2>1, <2>2, <2>3, <2>4 DEF ReceiveDetail, UsesDetail, SelectionInv, TimerIsLive, DetailIsOfSelection
    <2>5. CASE d.live
      <3>1. selected' = d.answer /\ history' = d.finding /\ draft' = Form(d.answer) /\ d.answer # Nothing
        BY <2>1, <2>5 DEF ReceiveDetail, UsesDetail
      <3>2. d.finding = selectedId /\ d.answer.finding = d.finding
        BY <1>1, <2>5, <3>1 DEF SelectionInv, DetailsInv, IsDetail
      <3> QED  BY <2>2, <2>3, <3>1, <3>2 DEF SelectionInv, TimerIsLive, DetailIsOfSelection, Form
    <2> QED  BY <2>4, <2>5
  <1>9. CASE \E d \in details : LoseDetail(d) \/ \E b \in BOOLEAN : ReceiveSource(d, b)
    <2>1. PICK d \in details : details' = details \ {d} /\ source' \in {source, Nothing} \cup {e \in {d.finding} : d.live}
      BY <1>9 DEF LoseDetail, ReceiveSource, UsesDetail
    <2>2. UNCHANGED <<selectedId, selected, history, draft, detailTimer, saves>>
      BY <1>9 DEF LoseDetail, ReceiveSource, saveVars
    <2> QED  BY <2>1, <2>2 DEF SelectionInv, TimerIsLive, DetailIsOfSelection
  <1>10. CASE SaveReview
    <2>1. /\ UNCHANGED <<selectedId, selected, history, source, draft, detailTimer, details>>
          /\ selected # Nothing
          /\ \A s \in saves' : s \in Stale(saves) \/ s.finding = selected.finding
      BY <1>10 DEF SaveReview
    <2> QED  BY <1>1, <2>1, StaleSaves DEF SelectionInv, TimerIsLive, DetailIsOfSelection
  <1>11. CASE \E decision \in Decisions : EditDecision(decision)
    <2>1. UNCHANGED <<selectedId, selected, history, source, detailTimer, details, saves>> /\ draft'.finding = draft.finding
      BY <1>1, <1>11 DEF EditDecision, saveVars, ScreenInv
    <2> QED  BY <2>1 DEF SelectionInv, TimerIsLive, DetailIsOfSelection
  <1>12. CASE ServeSave
    <2>1. UNCHANGED <<selectedId, selected, history, source, draft, detailTimer, details>>
      BY <1>12 DEF ServeSave, detailVars
    <2>2. \A s \in saves' : \E t \in saves : s.live = t.live /\ s.finding = t.finding
      BY <1>1, <1>12 DEF ServeSave, SavesInv, SaveFields
    <2> QED  BY <2>1, <2>2 DEF SelectionInv, TimerIsLive, DetailIsOfSelection
  <1>13. CASE \E s \in saves : ReceiveSave(s)
    <2>1. PICK s \in saves : ReceiveSave(s)
      BY <1>13
    <2>2. UNCHANGED <<selectedId, history, source, detailTimer, details>>
      BY <2>1 DEF ReceiveSave
    <2>3. \A t \in saves' : \E c \in saves : t.live = c.live /\ t.finding = c.finding
      BY <1>1, <2>1 DEF ReceiveSave, SavesInv, SaveFields
    <2>4. CASE ~s.live
      BY <2>1, <2>2, <2>3, <2>4 DEF ReceiveSave, UsesSave, SelectionInv, TimerIsLive, DetailIsOfSelection
    <2>5. CASE s.live
      <3>1. selected' = s.answer /\ draft' = Form(s.answer) /\ s.stage \in {"saved", "conflict"}
        BY <2>1, <2>5 DEF ReceiveSave, UsesSave
      <3>2. s.finding = selectedId /\ s.answer.finding = s.finding
        BY <1>1, <2>5, <3>1 DEF SelectionInv, SavesInv, IsDetail
      <3> QED  BY <2>2, <2>3, <3>1, <3>2 DEF SelectionInv, TimerIsLive, DetailIsOfSelection, Form
    <2> QED  BY <2>4, <2>5
  <1>14. CASE \E s \in saves : LoseSave(s) \/ \E b \in BOOLEAN : ReceiveHistory(s, b)
    <2>1. PICK s \in saves : saves' = saves \ {s} /\ (history' = history \/ (s.live /\ history' = s.finding))
      BY <1>14 DEF LoseSave, ReceiveHistory, EndSave, UsesSave
    <2>2. UNCHANGED <<selectedId, selected, source, draft, detailTimer, details>>
      BY <1>14 DEF LoseSave, ReceiveHistory
    <2> QED  BY <2>1, <2>2 DEF SelectionInv, TimerIsLive, DetailIsOfSelection
  <1> QED
    BY <1>1, <1>3, <1>4, <1>5, <1>6, <1>7, <1>8, <1>9, <1>10, <1>11, <1>12, <1>13, <1>14, SelectionSteps
    DEF ReadDetail, Save


-----------------------------------------------------------------------------
(* The reads of the detail.                                                    *)

LEMMA ReadsStep ==
    ASSUME AnswersInv, ReadsInv, [Next]_vars
    PROVE  ReadsInv'
  <1>1. ListsInv /\ DetailsInv /\ SavesInv /\ ScreenInv
    BY DEF AnswersInv
  <1>2. ASSUME Reads' \subseteq Reads,
               UNCHANGED <<selectedId, selected, saveMessage, seen>>,
               detailTimer' = detailTimer,
               \A s \in saves' : \E t \in saves : s.live = t.live
        PROVE  ReadsInv'
    <2>1. TimerIsLive' = TimerIsLive /\ (NothingYet => NothingYet')
      BY <1>2 DEF TimerIsLive, NothingYet
    <2>2. (\A d, e \in Reads' : d = e) /\ (Reads = {} => Reads' = {})
      BY <1>2 DEF ReadsInv
    <2> QED  BY <1>2, <2>1, <2>2 DEF ReadsInv
  <1>3. CASE SelectionStays
    BY <1>2, <1>3 DEF SelectionStays, Reads
  <1>4. CASE SelectionGoes
    <2>1. /\ \A d \in details' : ~d.live
          /\ \A s \in saves' : ~s.live
          /\ selected' = Nothing /\ ~saveMessage'
      BY <1>1, <1>4, StaleDetails, StaleSaves DEF SelectionGoes, InvalidateSelection
    <2>2. ~TimerIsLive'
      BY <1>1, <1>4 DEF SelectionGoes, InvalidateSelection, ScreenInv, TimerIsLive
    <2>3. Reads' = {} /\ NothingYet'
      BY <2>1 DEF Reads, NothingYet
    <2> QED  BY <2>2, <2>3 DEF ReadsInv
  <1>5. CASE FlushEffects
    <2>1. UNCHANGED <<selectedId, selected, saveMessage, saves>> /\ seen'.selectedId = selectedId
      BY <1>5 DEF FlushEffects, saveVars
    <2>2. NothingYet' = NothingYet
      BY <2>1 DEF NothingYet
    <2>3. CASE seen.selectedId = selectedId
      <3>1. UNCHANGED <<detailTimer, details>>
        BY <1>5, <2>3 DEF FlushEffects, DetailEffect
      <3>2. Reads' = Reads /\ TimerIsLive' = TimerIsLive
        BY <3>1 DEF Reads, TimerIsLive
      <3> QED  BY <2>1, <2>2, <3>2 DEF ReadsInv
    <2>4. CASE seen.selectedId # selectedId
      <3>1. details' \subseteq Stale(details)
        BY <1>5, <2>4 DEF FlushEffects, DetailEffect, Stale
      <3>2. Reads' = {}
        BY <1>1, <3>1, StaleDetails DEF Reads
      <3> QED  BY <2>1, <2>2, <2>4, <3>2 DEF ReadsInv
    <2> QED  BY <2>3, <2>4
  <1>6. CASE DetailTimerFires
    <2> DEFINE read == [live |-> detailTimer.live, finding |-> detailTimer.finding,
                        stage |-> "detail", answer |-> Nothing]
    <2>1. /\ UNCHANGED <<selectedId, saves, seen>> /\ detailTimer' = Nothing /\ detailTimer # Nothing
          /\ selected' = Nothing /\ saveMessage' = FALSE
          /\ details' = details \cup {read}
      BY <1>6 DEF DetailTimerFires
    <2>2. read.live = detailTimer.live /\ read.stage = "detail"
      OBVIOUS
    <2> HIDE DEF read
    <2>3. ~TimerIsLive' /\ (NothingYet => NothingYet')
      BY <2>1 DEF TimerIsLive, NothingYet
    <2>4. CASE TimerIsLive
      <3>1. Reads' \subseteq {read}
        BY <2>1, <2>4 DEF Reads, ReadsInv
      <3> QED  BY <2>1, <2>3, <2>4, <3>1 DEF ReadsInv
    <2>5. CASE ~TimerIsLive
      <3>1. Reads' = Reads
        BY <2>1, <2>2, <2>5 DEF Reads, TimerIsLive
      <3> QED  BY <2>1, <2>3, <3>1 DEF ReadsInv
    <2> QED  BY <2>4, <2>5
  <1>7. CASE ServeDetail
    <2>1. UNCHANGED <<selectedId, selected, detailTimer, saveMessage, saves, seen>>
      BY <1>7 DEF ServeDetail, saveVars
    <2>2. PICK d \in details :
            /\ d.stage = "detail"
            /\ details' = (details \ {d}) \cup {[d EXCEPT !.answer = Detail(d.finding, stored[d.finding])]}
      BY <1>7 DEF ServeDetail
    <2> DEFINE e == [d EXCEPT !.answer = Detail(d.finding, stored[d.finding])]
    <2>3. /\ details' = (details \ {d}) \cup {e}
          /\ e.live = d.live /\ e.stage = d.stage /\ d.stage = "detail"
      BY <1>1, <2>2 DEF DetailsInv, DetailFields
    <2> HIDE DEF e
    <2>4. NothingYet' = NothingYet /\ TimerIsLive' = TimerIsLive
      BY <2>1 DEF NothingYet, TimerIsLive
    <2>5. CASE d.live
      <3>1. d \in Reads
        BY <2>3, <2>5 DEF Reads
      <3>2. Reads = {d}
        BY <3>1 DEF ReadsInv
      <3>3. Reads' \subseteq {e}
        BY <2>3, <3>2 DEF Reads
      <3> QED  BY <2>1, <2>4, <3>2, <3>3 DEF ReadsInv
    <2>6. CASE ~d.live
      <3>1. Reads' \subseteq Reads
        BY <2>3, <2>6 DEF Reads
      <3> QED  BY <1>2, <2>1, <3>1
    <2> QED  BY <2>5, <2>6
  <1>8. CASE \E d \in details, b \in BOOLEAN : ReceiveDetail(d, b)
    <2>1. PICK d \in details, b \in BOOLEAN : ReceiveDetail(d, b)
      BY <1>8
    <2>2. UNCHANGED <<selectedId, detailTimer, saveMessage, saves, seen>> /\ d.stage = "detail"
      BY <2>1 DEF ReceiveDetail, saveVars
    <2>3. \A e \in details' : e \in details \ {d} \/ e.stage = "source"
      BY <1>1, <2>1 DEF ReceiveDetail, DetailsInv, DetailFields
    <2>4. Reads' \subseteq Reads \ {d}
      BY <2>3 DEF Reads
    <2>5. CASE ~d.live
      <3>1. selected' = selected
        BY <2>1, <2>5 DEF ReceiveDetail, UsesDetail
      <3> QED  BY <1>2, <2>2, <2>4, <3>1
    <2>6. CASE d.live
      <3>1. d \in Reads
        BY <2>2, <2>6 DEF Reads
      <3>2. Reads = {d} /\ ~TimerIsLive /\ seen.selectedId = selectedId
        BY <3>1 DEF ReadsInv
      <3>3. Reads' = {} /\ ~TimerIsLive'
        BY <2>2, <2>4, <3>2 DEF TimerIsLive
      <3> QED  BY <2>2, <3>2, <3>3 DEF ReadsInv
    <2> QED  BY <2>5, <2>6
  <1>9. CASE \E d \in details : LoseDetail(d) \/ \E b \in BOOLEAN : ReceiveSource(d, b)
    <2>1. PICK d \in details : details' = details \ {d}
      BY <1>9 DEF LoseDetail, ReceiveSource
    <2>2. UNCHANGED <<selectedId, selected, detailTimer, saveMessage, saves, seen>>
      BY <1>9 DEF LoseDetail, ReceiveSource, saveVars
    <2>3. Reads' \subseteq Reads
      BY <2>1 DEF Reads
    <2> QED  BY <1>2, <2>2, <2>3
  <1>10. CASE SaveReview
    <2>1. UNCHANGED <<selectedId, selected, detailTimer, details, seen>> /\ selected # Nothing
      BY <1>10 DEF SaveReview
    <2>2. ~NothingYet /\ Reads' = Reads /\ TimerIsLive' = TimerIsLive
      BY <2>1 DEF NothingYet, Reads, TimerIsLive
    <2> QED  BY <2>1, <2>2 DEF ReadsInv
  <1>11. CASE \E decision \in Decisions : EditDecision(decision)
    <2>1. UNCHANGED <<selectedId, selected, detailTimer, details, saveMessage, saves, seen>>
      BY <1>11 DEF EditDecision, saveVars
    <2> QED  BY <1>2, <2>1 DEF Reads
  <1>12. CASE ServeSave
    <2>1. UNCHANGED <<selectedId, selected, detailTimer, details, saveMessage, seen>>
      BY <1>12 DEF ServeSave, detailVars
    <2>2. \A s \in saves' : \E t \in saves : s.live = t.live
      BY <1>1, <1>12 DEF ServeSave, SavesInv, SaveFields
    <2> QED  BY <1>2, <2>1, <2>2 DEF Reads
  <1>13. CASE \E s \in saves : ReceiveSave(s)
    <2>1. PICK s \in saves : ReceiveSave(s)
      BY <1>13
    <2>2. UNCHANGED <<selectedId, detailTimer, details, seen>>
      BY <2>1 DEF ReceiveSave
    <2>3. Reads' = Reads /\ TimerIsLive' = TimerIsLive
      BY <2>2 DEF Reads, TimerIsLive
    <2>4. CASE ~s.live
      <3>1. UNCHANGED <<selected, saveMessage>> /\ saves' \subseteq saves
        BY <2>1, <2>4 DEF ReceiveSave, UsesSave
      <3> QED  BY <1>2, <2>2, <2>3, <3>1
    <2>5. CASE s.live
      <3>1. ~NothingYet
        BY <2>5 DEF NothingYet
      <3> QED  BY <2>2, <2>3, <3>1 DEF ReadsInv
    <2> QED  BY <2>4, <2>5
  <1>14. CASE \E s \in saves : LoseSave(s) \/ \E b \in BOOLEAN : ReceiveHistory(s, b)
    <2>1. PICK s \in saves : saves' = saves \ {s}
      BY <1>14 DEF LoseSave, ReceiveHistory, EndSave
    <2>2. UNCHANGED <<selectedId, selected, detailTimer, details, saveMessage, seen>>
      BY <1>14 DEF LoseSave, ReceiveHistory
    <2>3. Reads' \subseteq Reads
      BY <2>2 DEF Reads
    <2> QED  BY <1>2, <2>1, <2>2, <2>3
  <1> QED
    BY <1>1, <1>3, <1>4, <1>5, <1>6, <1>7, <1>8, <1>9, <1>10, <1>11, <1>12, <1>13, <1>14, SelectionSteps
    DEF ReadDetail, Save

-----------------------------------------------------------------------------
(* The reads of the queue.                                                     *)

ListIsFresh == \A r \in lists : r.live /\ r.answer # Nothing /\ page # Nothing => NotLater(page.asOf, r.answer.asOf)
OneListCounts == \A r, q \in lists : r.live /\ q.live => r = q

LEMMA ServeListIs ==
    ASSUME IsReviews(stored), ListsInv, ServeList
    PROVE  \E r \in lists : \E t :
             /\ lists' = (lists \ {r}) \cup {t} /\ t.live = r.live
             /\ t.answer.asOf = stored /\ page' = page
  <1>1. PICK r \in lists : /\ r.answer = Nothing /\ IsPage(r.query) /\ page' = page
                           /\ lists' = (lists \ {r}) \cup {[r EXCEPT !.answer = ListAnswer(r.query)]}
    BY DEF ServeList
  <1> DEFINE t == [r EXCEPT !.answer = ListAnswer(r.query)]
  <1>2. t.live = r.live /\ t.answer = ListAnswer(r.query)
    BY DEF ListsInv, ListFields
  <1>3. ListAnswer(r.query).asOf = stored
    BY <1>1, ListAnswerIs
  <1> QED  BY <1>1, <1>2, <1>3

LEMMA ListTimerFiresIs ==
    ASSUME ListTimerFires
    PROVE  \E t : lists' = Stale(lists) \cup {t} /\ t.answer = Nothing /\ page' = page
  <1> DEFINE t == [live |-> TRUE, query |-> listTimer, selected |-> seen.selectedId,
                   index |-> IF seen.page = Nothing THEN 0 ELSE Position(seen.selectedId, seen.page.items),
                   answer |-> Nothing]
  <1>1. lists' = Stale(lists) \cup {t} /\ page' = page
    BY DEF ListTimerFires
  <1>2. t.answer = Nothing
    OBVIOUS
  <1> QED  BY <1>1, <1>2

LEMMA QueueStep ==
    ASSUME AnswersInv, OneListCounts, ListIsFresh, [Next]_vars
    PROVE  /\ OneListCounts' /\ ListIsFresh'
           /\ page' \in {page, Nothing} \/ \E r \in lists : r.live /\ r.answer # Nothing /\ page' = r.answer
  <1>1. ListsInv /\ ScreenInv /\ IsReviews(stored)
    BY DEF AnswersInv
  <1>2. \A r \in lists \cup Stale(lists) : r.live => r \in lists
    BY <1>1, StaleLists
  <1>3. CASE lists' \subseteq lists \cup Stale(lists) /\ page' \in {page, Nothing}
    BY <1>2, <1>3 DEF OneListCounts, ListIsFresh
  <1>4. CASE ListTimerFires
    <2>1. PICK t : lists' = Stale(lists) \cup {t} /\ t.answer = Nothing /\ page' = page
      BY <1>4, ListTimerFiresIs
    <2>2. \A r \in Stale(lists) : ~r.live
      BY <1>1, StaleLists
    <2> QED  BY <2>1, <2>2 DEF OneListCounts, ListIsFresh
  <1>5. CASE ServeList
    <2>1. PICK r \in lists : \E t :
             /\ lists' = (lists \ {r}) \cup {t} /\ t.live = r.live
             /\ t.answer.asOf = stored /\ page' = page
      BY <1>1, <1>5, ServeListIs
    <2>2. PICK t : /\ lists' = (lists \ {r}) \cup {t} /\ t.live = r.live
                   /\ t.answer.asOf = stored /\ page' = page
      BY <2>1
    <2>3. page # Nothing => NotLater(page.asOf, t.answer.asOf)
      BY <1>1, <2>2 DEF ScreenInv, IsListing
    <2> QED  BY <2>2, <2>3 DEF OneListCounts, ListIsFresh
  <1>6. CASE \E r \in lists : ReceiveList(r)
    <2>1. PICK r \in lists : /\ lists' = lists \ {r}
                             /\ page' = page \/ (r.live /\ r.answer # Nothing /\ page' = r.answer)
      BY <1>1, <1>6, ReceiveListIs
    <2> QED  BY <2>1 DEF OneListCounts, ListIsFresh
  <1> QED  BY <1>1, <1>3, <1>4, <1>5, <1>6, QueueSteps

\* What the announcement of a saved review is about.
LEMMA AnnouncementStep ==
    ASSUME AnswersInv, SelectionInv, ReadsInv, [Next]_vars, saveMessage'
    PROVE  \/ saveMessage /\ UNCHANGED <<selected, selectedId>>
           \/ /\ lists' = Stale(lists)
              /\ \E s \in saves : s.live /\ s.stage \in {"saved", "conflict"} /\ selected' = s.answer
              /\ selectedId' = selectedId
  <1> DEFINE Kept == saveMessage' => saveMessage /\ UNCHANGED <<selected, selectedId>>
  <1>1. ListsInv
    BY DEF AnswersInv
  <1>2. SelectionStays \/ FlushEffects \/ (\E decision \in Decisions : EditDecision(decision)) => Kept
    BY DEF SelectionStays, FlushEffects, EditDecision, saveVars
  <1>3. SelectionGoes \/ DetailTimerFires \/ SaveReview => Kept
    BY DEF SelectionGoes, InvalidateSelection, DetailTimerFires, SaveReview
  <1>4. ReadDetail => Kept
    <2>1. ServeDetail \/ (\E d \in details : LoseDetail(d) \/ \E b \in BOOLEAN : ReceiveSource(d, b)) => Kept
      BY DEF ServeDetail, LoseDetail, ReceiveSource, saveVars
    <2>2. ASSUME NEW d \in details, NEW b \in BOOLEAN, ReceiveDetail(d, b) PROVE Kept
      <3>1. d.stage = "detail" /\ UNCHANGED <<saveMessage, selectedId>> /\ (~d.live => selected' = selected)
        BY <2>2 DEF ReceiveDetail, UsesDetail, saveVars
      <3>2. d.live => ~saveMessage
        BY <3>1 DEF ReadsInv, Reads, NothingYet
      <3> QED  BY <3>1, <3>2
    <2> QED  BY <2>1, <2>2 DEF ReadDetail
  <1>5. ServeSave \/ (\E s \in saves : LoseSave(s) \/ \E b \in BOOLEAN : ReceiveHistory(s, b)) => Kept
    BY DEF ServeSave, LoseSave, ReceiveHistory, detailVars
  <1>6. ASSUME NEW s \in saves, ReceiveSave(s)
        PROVE  \/ Kept
               \/ /\ lists' = Stale(lists) /\ selectedId' = selectedId
                  /\ s.live /\ s.stage \in {"saved", "conflict"} /\ selected' = s.answer
    BY <1>6 DEF ReceiveSave, UsesSave, RequestReload
  <1> HIDE DEF Kept
  <1>7. Kept \/ \E s \in saves : /\ lists' = Stale(lists) /\ selectedId' = selectedId
                                 /\ s.live /\ s.stage \in {"saved", "conflict"} /\ selected' = s.answer
    BY <1>1, <1>2, <1>3, <1>4, <1>5, <1>6, SelectionSteps DEF Save
  <1> QED  BY <1>7 DEF Kept

LEMMA RefreshStep ==
    ASSUME FindingsInv, [Next]_vars
    PROVE  QueueInv'
  <1>1. AnswersInv /\ SelectionInv /\ ReadsInv /\ QueueInv /\ ListsInv /\ SavesInv /\ IsReviews(stored)
    BY DEF FindingsInv, AnswersInv
  <1>2. OneListCounts' /\ ListIsFresh'
    BY <1>1, QueueStep DEF QueueInv, OneListCounts, ListIsFresh
  <1>3. IsReviews(stored') /\ NotLater(stored, stored')
    BY <1>1, AnswersStep DEF AnswersInv
  <1>4. (saveMessage => IsDetail(selected, selectedId))' /\ RefreshFollowsSave'
    <2>1. CASE ~saveMessage'
      BY <2>1 DEF RefreshFollowsSave
    <2>2. CASE saveMessage /\ UNCHANGED <<selected, selectedId>>
      <3>1. IsDetail(selected, selectedId)
        BY <1>1, <2>2 DEF QueueInv
      <3>2. (IsDetail(selected, selectedId))'
        BY <1>1, <1>3, <2>2, <3>1 DEF IsDetail, IsReviews, NotLater
      <3>3. \A r \in lists : r.live /\ r.answer # Nothing => r.answer.asOf[selectedId].version >= selected.version
        BY <1>1, <2>2 DEF QueueInv, RefreshFollowsSave
      <3>4. \A r \in lists' : r.live /\ r.answer # Nothing => r.answer.asOf[selectedId].version >= selected.version
        <4>1. CASE lists' \subseteq lists \cup Stale(lists)
          BY <1>1, <3>3, <4>1, StaleLists
        <4>2. CASE ListTimerFires
          <5>1. PICK t : lists' = Stale(lists) \cup {t} /\ t.answer = Nothing
            BY <4>2, ListTimerFiresIs
          <5> QED  BY <1>1, <5>1, StaleLists
        <4>3. CASE ServeList
          <5>1. PICK r \in lists : \E t : lists' = (lists \ {r}) \cup {t} /\ t.answer.asOf = stored
            BY <1>1, <4>3, ServeListIs
          <5>2. PICK t : lists' = (lists \ {r}) \cup {t} /\ t.answer.asOf = stored
            BY <5>1
          <5>3. stored[selectedId].version \in Nat /\ selected.version \in Nat
                /\ selected.version <= stored[selectedId].version
            BY <1>1, <3>1 DEF IsDetail, IsReviews
          <5>4. t.answer.asOf[selectedId].version >= selected.version
            BY <5>2, <5>3
          <5> QED  BY <3>3, <5>2, <5>4
        <4>4. CASE \E r \in lists : ReceiveList(r)
          BY <1>1, <3>3, <4>4, ReceiveListIs
        <4> QED  BY <1>1, <4>1, <4>2, <4>3, <4>4, QueueSteps
      <3> QED  BY <2>2, <3>2, <3>4 DEF RefreshFollowsSave
    <2>3. CASE /\ lists' = Stale(lists)
               /\ \E s \in saves : s.live /\ s.stage \in {"saved", "conflict"} /\ selected' = s.answer
               /\ selectedId' = selectedId
      <3>1. PICK s \in saves : s.live /\ s.stage \in {"saved", "conflict"} /\ selected' = s.answer
        BY <2>3
      <3>2. IsDetail(s.answer, selectedId)
        BY <1>1, <3>1 DEF SavesInv, SelectionInv
      <3>3. (IsDetail(selected, selectedId))'
        BY <1>1, <1>3, <2>3, <3>1, <3>2 DEF IsDetail, IsReviews, NotLater
      <3>4. \A r \in lists' : ~r.live
        BY <1>1, <2>3, StaleLists
      <3> QED  BY <3>3, <3>4 DEF RefreshFollowsSave
    <2> QED  BY <1>1, <2>1, <2>2, <2>3, AnnouncementStep
  <1> QED  BY <1>2, <1>4 DEF QueueInv, OneListCounts, ListIsFresh

-----------------------------------------------------------------------------
LEMMA FindingsStart ==
    ASSUME Init
    PROVE  FindingsInv
  <1>1. IsReviews(stored)
    BY DEF Init, IsReviews
  <1>2. ListsInv /\ DetailsInv /\ SavesInv
    BY DEF Init, ListsInv, DetailsInv, SavesInv
  <1>3. ScreenInv
    BY DEF Init, ScreenInv, AtFinding
  <1>4. SelectionInv
    BY DEF Init, SelectionInv, TimerIsLive, DetailIsOfSelection
  <1>5. ReadsInv
    BY DEF Init, ReadsInv, Reads, TimerIsLive, NothingYet
  <1>6. QueueInv
    BY DEF Init, QueueInv, RefreshFollowsSave
  <1> QED  BY <1>1, <1>2, <1>3, <1>4, <1>5, <1>6 DEF FindingsInv, AnswersInv

LEMMA FindingsStep ==
    ASSUME FindingsInv, [Next]_vars
    PROVE  FindingsInv'
  BY AnswersStep, SelectionStep, ReadsStep, RefreshStep DEF FindingsInv

LEMMA FindingsAlways == Spec => []FindingsInv
  BY FindingsStart, FindingsStep, PTL DEF Spec

\* What the detail shows is about the selected finding, in every interleaving of
\* the reviewer, the timers, the effects and the answers (FindingsView.tsx, the
\* generations of the detail effect and of saveReview).
THEOREM DetailIsAlwaysOfSelection == Spec => []DetailIsOfSelection
  <1>1. FindingsInv => DetailIsOfSelection
    BY DEF FindingsInv, SelectionInv
  <1> QED  BY <1>1, FindingsAlways, PTL

\* No list read before a saved review is shown once "Review saved." is, however
\* many reads are under way and whoever else reviews (FindingsView.tsx,
\* requestWorkspaceReload).
THEOREM RefreshAlwaysFollowsSave == Spec => []RefreshFollowsSave
  <1>1. FindingsInv => RefreshFollowsSave
    BY DEF FindingsInv, QueueInv
  <1> QED  BY <1>1, FindingsAlways, PTL

\* A list that replaces another one was read later (FindingsView.tsx,
\* listGeneration).
THEOREM QueueAlwaysMovesForward == Spec => QueueMovesForward
  <1> DEFINE Forward == page' # page /\ page # Nothing /\ page' # Nothing =>
                           \A f \in Findings : page'.asOf[f].version >= page.asOf[f].version
  <1>1. ASSUME FindingsInv, [Next]_vars PROVE Forward
    <2>1. AnswersInv /\ ListsInv /\ ScreenInv /\ OneListCounts /\ ListIsFresh
      BY <1>1 DEF FindingsInv, AnswersInv, QueueInv, OneListCounts, ListIsFresh
    <2>2. CASE page' \in {page, Nothing}
      BY <2>2
    <2>3. CASE \E r \in lists : r.live /\ r.answer # Nothing /\ page' = r.answer
      <3>1. PICK r \in lists : r.live /\ r.answer # Nothing /\ page' = r.answer
        BY <2>3
      <3> SUFFICES ASSUME page # Nothing, NEW f \in Findings
                   PROVE  page'.asOf[f].version >= page.asOf[f].version
        OBVIOUS
      <3>2. IsReviews(page.asOf) /\ IsReviews(r.answer.asOf) /\ NotLater(page.asOf, r.answer.asOf)
        BY <2>1, <3>1 DEF ListsInv, ScreenInv, IsListing, ListIsFresh
      <3>3. page.asOf[f].version \in Nat /\ r.answer.asOf[f].version \in Nat
            /\ page.asOf[f].version <= r.answer.asOf[f].version
        BY <3>2 DEF IsReviews, NotLater
      <3> QED  BY <3>1, <3>3
    <2> QED  BY <1>1, <2>1, <2>2, <2>3, QueueStep
  <1>2. Forward => [page' # page /\ page # Nothing /\ page' # Nothing =>
                      \A f \in Findings : page'.asOf[f].version >= page.asOf[f].version]_vars
    OBVIOUS
  <1> HIDE DEF Forward
  <1> QED  BY <1>1, <1>2, FindingsAlways, PTL DEF Spec, QueueMovesForward

=============================================================================
