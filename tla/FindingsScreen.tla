---------------------------- MODULE FindingsScreen ----------------------------
(* The findings view of the workspace (workspace-ui/src/components/           *)
(* FindingsView.tsx) against the review endpoints of the localhost API.       *)
(*                                                                            *)
(* Three kinds of asynchronous calls interleave with the reviewer: reads of   *)
(* the queue, reads of the selected finding and saves of a decision.  Each    *)
(* kind has a generation counter; an answer is used when its generation is    *)
(* still the current one.  Only that comparison matters, so a call carries    *)
(* "live", and bumping a counter makes every call of the kind not live.       *)
(* React runs the effects of a click at once; those of an answer run some     *)
(* time later, before the next click: "seen" is the state they last ran for.  *)
EXTENDS Integers, Sequences, FiniteSets, SequencesExt, Sublists

CONSTANTS
    Queue,        \* the findings of the snapshot, in the order the list sorts them
    Decisions,    \* review statuses a reviewer can give
    New,          \* the review status of an undecided finding
    Filters,      \* values of the status filter: a review status, or AllFindings
    AllFindings,
    PageSize,
    Nothing,
    MaxVersion,   \* bound: review versions of a finding
    MaxLists,     \* bound: unanswered reads of the queue
    MaxDetails,   \* bound: unanswered reads of a detail
    CallsMayFail, \* whether a call of the API can fail
    MaxOthers     \* bound: decisions saved by another workspace

ASSUME QueueAssumption == Queue \in Seq(ToSet(Queue)) /\ Nothing \notin ToSet(Queue)
ASSUME BoundAssumption ==
    /\ PageSize \in Nat \ {0} /\ MaxVersion \in Nat /\ MaxLists \in Nat /\ MaxDetails \in Nat
    /\ CallsMayFail \in BOOLEAN /\ MaxOthers \in Nat

Findings == ToSet(Queue)
Review == [decision : Decisions \cup {New}, version : 0 .. MaxVersion]

VARIABLES
    stored,       \* the current review of each finding in the store
    others,       \* decisions another workspace has saved so far
    query,        \* the filter and the page the reviewer asks for
    page,         \* the list on the screen, Nothing before the first and after an error
    selectedId, selected, history, source, draft,
    saving, saveMessage, detailError,
    blank,        \* why no list is on its way: "failed", "unasked", or "" (history)
    reload,       \* reloadVersion changed since the effects last ran
    seen,         \* what the effects last ran for, and the refs they set
    clicked,      \* the last step was a click that calls for effects
    listTimer,    \* the query the delayed read of the list will ask for
    detailTimer,  \* the finding the delayed read of the detail will ask for
    lists, details, saves

queueVars == <<query, page, blank, reload, listTimer, lists>>
detailVars == <<selectedId, selected, history, source, draft, detailError, detailTimer, details>>
saveVars == <<saving, saveMessage, saves>>
storeVars == <<stored, others>>
vars == <<queueVars, detailVars, saveVars, storeVars, seen, clicked>>

Init ==
    /\ stored = [f \in Findings |-> [decision |-> New, version |-> 0]]
    /\ others = 0
    /\ query = [filter |-> AllFindings, page |-> 1]
    /\ page = Nothing /\ selectedId = Nothing /\ selected = Nothing
    /\ history = Nothing /\ source = Nothing
    /\ draft = [finding |-> Nothing, decision |-> New]
    /\ saving = FALSE /\ saveMessage = FALSE /\ detailError = FALSE
    /\ blank = "" /\ reload = TRUE /\ clicked = FALSE
    /\ seen = [query |-> query, selectedId |-> Nothing, page |-> Nothing]
    /\ listTimer = Nothing /\ detailTimer = Nothing
    /\ lists = {} /\ details = {} /\ saves = {}

-----------------------------------------------------------------------------
(* Generations.                                                              *)

Stale(calls) == {[c EXCEPT !.live = FALSE] : c \in calls}

Shown == IF page = Nothing THEN {} ELSE ToSet(page.items)

\* invalidateSelection, without the selection itself.  "saving" is left alone.
InvalidateSelection ==
    /\ details' = Stale(details)
    /\ detailTimer' = IF detailTimer = Nothing THEN Nothing
                      ELSE [detailTimer EXCEPT !.live = FALSE]
    /\ saves' = Stale(saves)
    /\ selected' = Nothing /\ history' = Nothing /\ source' = Nothing
    /\ detailError' = FALSE /\ saveMessage' = FALSE

-----------------------------------------------------------------------------
(* Effects.                                                                  *)

Flushed ==
    /\ ~reload
    /\ seen = [query |-> query, selectedId |-> selectedId, page |-> page]

BugListEffect ==
    IF reload THEN listTimer' = query /\ lists' = Stale(lists)
    ELSE UNCHANGED <<listTimer, lists>>

\* The list effect cleans up (no timer, no live read) and sets a timer again.
ListEffect ==
    IF reload \/ seen.query # query
    THEN listTimer' = query /\ lists' = Stale(lists)
    ELSE UNCHANGED <<listTimer, lists>>

\* The detail effect aborts the reads of the detail; a read of the source is
\* not given the signal and goes on, stale.
DetailEffect ==
    IF seen.selectedId # selectedId
    THEN /\ detailTimer' = IF selectedId = Nothing THEN Nothing
                           ELSE [finding |-> selectedId, live |-> TRUE]
         /\ details' = Stale({d \in details : d.stage = "source"})
    ELSE UNCHANGED <<detailTimer, details>>

FlushEffects ==
    /\ ~Flushed
    /\ ListEffect /\ DetailEffect
    /\ reload' = FALSE
    /\ seen' = [query |-> query, selectedId |-> selectedId, page |-> page]
    /\ UNCHANGED <<query, page, blank, selectedId, selected, history, source, draft>>
    /\ UNCHANGED <<detailError>>
    /\ UNCHANGED <<saveVars, storeVars>>

-----------------------------------------------------------------------------
(* The queue.                                                                *)

Position(f, items) == IF f \in ToSet(items) THEN CHOOSE i \in 1 .. Len(items) : items[i] = f ELSE 0

\* reloadWorkspace starts: it remembers the selection and the list of now.
ListTimerFires ==
    /\ listTimer # Nothing
    /\ Cardinality(lists) < MaxLists
    /\ lists' = Stale(lists) \cup
          {[live |-> TRUE, query |-> listTimer, selected |-> seen.selectedId,
            index |-> IF seen.page = Nothing THEN 0
                      ELSE Position(seen.selectedId, seen.page.items),
            answer |-> Nothing]}
    /\ listTimer' = Nothing /\ blank' = ""
    /\ UNCHANGED <<query, page, reload, detailVars, saveVars, storeVars, seen>>

Slice(rows, n) ==
    SubSeq(rows, (n - 1) * PageSize + 1,
           IF n * PageSize < Len(rows) THEN n * PageSize ELSE Len(rows))

\* The list endpoint, over the reviews stored at that moment.
ListAnswer(q) ==
    LET matching == Picked(Queue, {f \in Findings : q.filter = AllFindings \/ stored[f].decision = q.filter})
    IN [query |-> q, total |-> Len(matching), asOf |-> stored, items |-> Slice(matching, q.page)]

\* It answers for pages from the first on.
IsPage(q) == q.page \in Nat \ {0}

ServeList ==
    /\ \E r \in lists :
          /\ r.answer = Nothing /\ IsPage(r.query)
          /\ lists' = (lists \ {r}) \cup {[r EXCEPT !.answer = ListAnswer(r.query)]}
    /\ UNCHANGED <<query, page, blank, reload, listTimer, detailVars, saveVars, storeVars, seen>>

LastPage(total) == IF total <= PageSize THEN 1 ELSE (total + PageSize - 1) \div PageSize

\* The row to select: the one selected when the read began if it is still
\* listed, else the one in its place.
NextSelection(r, items) ==
    CASE r.selected \in ToSet(items) -> r.selected
      [] items = <<>> -> Nothing
      [] OTHER -> items[IF r.index = 0 THEN 1
                        ELSE IF r.index < Len(items) THEN r.index ELSE Len(items)]

SelectAfterList(r, items) ==
    LET next == NextSelection(r, items)
    IN IF next = r.selected
       THEN UNCHANGED <<selectedId, selected, history, source, detailError, detailTimer, details,
                        saveMessage, saves>>
       ELSE InvalidateSelection /\ selectedId' = next

BugUsesAnyList(r) == TRUE
UsesList(r) == r.live

ReceiveList(r) ==
    /\ r.answer # Nothing
    /\ lists' = lists \ {r}
    /\ IF ~UsesList(r) THEN UNCHANGED <<query, page, detailVars, saveMessage, saves>>
       ELSE LET a == r.answer
            IN /\ page' = a
               /\ IF a.items = <<>> /\ a.total > 0 /\ r.query.page > 1
                  THEN /\ query' = [query EXCEPT !.page = LastPage(a.total)]
                       /\ UNCHANGED <<detailVars, saveMessage, saves>>
                  ELSE /\ SelectAfterList(r, a.items)
                       /\ UNCHANGED <<query, draft>>
    /\ UNCHANGED <<blank, reload, listTimer, saving, storeVars, seen>>

LoseList(r) ==
    /\ CallsMayFail \/ ~IsPage(r.query)
    /\ lists' = lists \ {r}
    /\ IF ~UsesList(r)
       THEN UNCHANGED <<page, blank, selectedId, selected, history, source, detailError,
                        detailTimer, details, saveMessage, saves>>
       ELSE /\ page' = Nothing /\ blank' = "failed"
            /\ InvalidateSelection /\ selectedId' = Nothing
    /\ UNCHANGED <<query, reload, listTimer, draft, saving, storeVars, seen>>

\* requestWorkspaceReload
BugRequestReload == reload' = TRUE /\ UNCHANGED lists
RequestReload == reload' = TRUE /\ lists' = Stale(lists)

-----------------------------------------------------------------------------
(* The selected finding.                                                     *)

Detail(f, review) == [finding |-> f, decision |-> review.decision, version |-> review.version]

\* The timer of the detail effect: the old detail is cleared, the reads begin.
DetailTimerFires ==
    /\ detailTimer # Nothing
    /\ Cardinality(details) < MaxDetails
    /\ selected' = Nothing /\ history' = Nothing /\ source' = Nothing
    /\ detailError' = FALSE /\ saveMessage' = FALSE
    /\ details' = details \cup {[live |-> detailTimer.live, finding |-> detailTimer.finding,
                                 stage |-> "detail", answer |-> Nothing]}
    /\ detailTimer' = Nothing
    /\ UNCHANGED <<selectedId, draft, queueVars, saving, saves, storeVars, seen>>

ServeDetail ==
    /\ \E d \in details :
          /\ d.stage = "detail" /\ d.answer = Nothing
          /\ details' = (details \ {d}) \cup {[d EXCEPT !.answer = Detail(d.finding, stored[d.finding])]}
    /\ UNCHANGED <<selectedId, selected, history, source, draft, detailError, detailTimer>>
    /\ UNCHANGED <<queueVars, saveVars, storeVars, seen>>

Form(detail) == [finding |-> detail.finding, decision |-> detail.decision]

BugUsesAnyDetail(d) == TRUE
UsesDetail(d) == d.live

\* The detail is shown; a finding with a location goes on to read its source.
ReceiveDetail(d, located) ==
    /\ d.stage = "detail" /\ d.answer # Nothing
    /\ IF ~UsesDetail(d) THEN details' = details \ {d} /\ UNCHANGED <<selected, history, draft>>
       ELSE /\ selected' = d.answer /\ history' = d.finding /\ draft' = Form(d.answer)
            /\ details' = (details \ {d}) \cup
                   (IF located THEN {[d EXCEPT !.stage = "source"]} ELSE {})
    /\ UNCHANGED <<selectedId, source, detailError, detailTimer>>
    /\ UNCHANGED <<queueVars, saveVars, storeVars, seen>>

ReceiveSource(d, found) ==
    /\ d.stage = "source"
    /\ details' = details \ {d}
    /\ source' = IF ~UsesDetail(d) THEN source ELSE IF found THEN d.finding ELSE Nothing
    /\ UNCHANGED <<selectedId, selected, history, draft, detailError, detailTimer>>
    /\ UNCHANGED <<queueVars, saveVars, storeVars, seen>>

LoseDetail(d) ==
    /\ CallsMayFail
    /\ d.stage = "detail"
    /\ details' = details \ {d}
    /\ detailError' = (detailError \/ UsesDetail(d))
    /\ UNCHANGED <<selectedId, selected, history, source, draft, detailTimer>>
    /\ UNCHANGED <<queueVars, saveVars, storeVars, seen>>

-----------------------------------------------------------------------------
(* Saving a decision.                                                        *)

\* update_finding_review: a decision based on an older review is refused.
Accepts(call) == call.expected = stored[call.finding].version

ServeSave ==
    /\ \E s \in saves :
          /\ s.stage = "sent"
          /\ Accepts(s) => stored[s.finding].version < MaxVersion
          /\ stored' = IF Accepts(s)
                       THEN [stored EXCEPT ![s.finding] =
                               [decision |-> s.decision, version |-> @.version + 1]]
                       ELSE stored
          /\ saves' = (saves \ {s}) \cup
                {[s EXCEPT !.stage = IF Accepts(s) THEN "saved" ELSE "conflict",
                           !.answer = Detail(s.finding, stored'[s.finding])]}
    /\ UNCHANGED <<others, queueVars, detailVars, saving, saveMessage, seen>>

UsesSave(s) == s.live

\* The answer is shown, the queue is read again, and then the history.
ReceiveSave(s) ==
    /\ s.stage \in {"saved", "conflict"}
    /\ IF ~UsesSave(s) THEN saves' = saves \ {s}
                            /\ UNCHANGED <<selected, draft, saveMessage, reload, lists>>
       ELSE /\ selected' = s.answer /\ draft' = Form(s.answer)
            /\ saveMessage' = IF s.stage = "saved" THEN TRUE ELSE saveMessage
            /\ RequestReload
            /\ saves' = (saves \ {s}) \cup {[s EXCEPT !.stage = "history"]}
    /\ UNCHANGED <<query, page, blank, listTimer, selectedId, history, source, detailError>>
    /\ UNCHANGED <<detailTimer, details, saving, storeVars, seen>>

\* "finally": the button comes back only for the current generation.
EndSave(s) == saving' = (saving /\ ~UsesSave(s)) /\ saves' = saves \ {s}

ReceiveHistory(s, found) ==
    /\ s.stage = "history"
    /\ EndSave(s)
    /\ history' = IF UsesSave(s) /\ found THEN s.finding ELSE history
    /\ UNCHANGED <<selectedId, selected, source, draft, detailError, detailTimer, details>>
    /\ UNCHANGED <<queueVars, saveMessage, storeVars, seen>>

\* The call fails, before or after the store accepted the decision.
LoseSave(s) ==
    /\ CallsMayFail
    /\ s.stage # "history"
    /\ EndSave(s)
    /\ detailError' = (detailError \/ UsesSave(s))
    /\ UNCHANGED <<selectedId, selected, history, source, draft, detailTimer, details>>
    /\ UNCHANGED <<queueVars, saveMessage, storeVars, seen>>

-----------------------------------------------------------------------------
(* The reviewer.  The detail is on the screen only beside a list with rows.  *)

SelectFinding(f) ==
    /\ Flushed /\ f \in Shown /\ f # selectedId
    /\ InvalidateSelection /\ selectedId' = f
    /\ UNCHANGED <<draft, queueVars, saving, storeVars, seen>>

AskFor(q) ==
    /\ Flushed /\ q # query
    /\ query' = q /\ blank' = ""
    /\ UNCHANGED <<page, reload, listTimer, lists, detailVars, saveVars, storeVars, seen>>

ChangeFilter(filter) == AskFor([filter |-> filter, page |-> 1])

\* The buttons go by the page on the screen, the clicks by the page asked for.
TurnPage ==
    /\ page # Nothing /\ page.items # <<>>
    /\ \/ page.query.page > 1 /\ query.page > 0 /\ AskFor([query EXCEPT !.page = @ - 1])
       \/ page.query.page * PageSize < page.total /\ query.page <= Len(Queue) \div PageSize
          /\ AskFor([query EXCEPT !.page = @ + 1])

EditDecision(decision) ==
    /\ Flushed /\ selected # Nothing /\ Shown # {}
    /\ draft' = [draft EXCEPT !.decision = decision] /\ draft' # draft
    /\ UNCHANGED <<selectedId, selected, history, source, detailError, detailTimer, details>>
    /\ UNCHANGED <<queueVars, saveVars, storeVars, seen>>

Dirty == draft.decision # selected.decision

SaveReview ==
    /\ Flushed /\ selected # Nothing /\ Shown # {} /\ ~saving /\ Dirty
    /\ saves' = Stale(saves) \cup
          {[live |-> TRUE, finding |-> selected.finding, expected |-> selected.version,
            decision |-> draft.decision, stage |-> "sent", answer |-> Nothing]}
    /\ saving' = TRUE /\ saveMessage' = FALSE /\ detailError' = FALSE
    /\ UNCHANGED <<selectedId, selected, history, source, draft, detailTimer, details>>
    /\ UNCHANGED <<queueVars, storeVars, seen>>

\* Findings is opened anew with another preset: the whole view starts over.  The
\* read that is under way is dropped; one begins only if the query is another.
Navigate(filter) ==
    /\ Flushed
    /\ query' = [filter |-> filter, page |-> 1]
    /\ page' = Nothing /\ selectedId' = Nothing
    /\ blank' = IF query' = query THEN "unasked" ELSE ""
    /\ lists' = Stale(lists)
    /\ InvalidateSelection
    /\ UNCHANGED <<reload, listTimer, draft, saving, storeVars, seen>>

\* A second workspace on the same store saves a decision.
OtherWorkspaceSaves(f, decision) ==
    /\ others < MaxOthers /\ stored[f].version < MaxVersion
    /\ others' = others + 1
    /\ stored' = [stored EXCEPT ![f] = [decision |-> decision, version |-> @.version + 1]]
    /\ UNCHANGED <<queueVars, detailVars, saveVars, seen>>

\* React runs the effects of a click before it handles anything else.
Reviewer ==
    /\ \/ \E f \in Findings : SelectFinding(f)
       \/ \E filter \in Filters : ChangeFilter(filter)
       \/ TurnPage \/ SaveReview
       \/ \E decision \in Decisions : EditDecision(decision)
    /\ clicked' = ~Flushed'

ReadQueue == ServeList \/ \E r \in lists : ReceiveList(r) \/ LoseList(r)

ReadDetail ==
    \/ ServeDetail
    \/ \E d \in details : LoseDetail(d) \/ \E b \in BOOLEAN : ReceiveDetail(d, b) \/ ReceiveSource(d, b)

Save ==
    \/ ServeSave
    \/ \E s \in saves : ReceiveSave(s) \/ LoseSave(s) \/ \E b \in BOOLEAN : ReceiveHistory(s, b)

Next ==
    \/ FlushEffects /\ clicked' = FALSE
    \/ ~clicked /\ Reviewer
    \/ /\ ~clicked /\ UNCHANGED clicked
       /\ \/ \E filter \in Filters : Navigate(filter)
          \/ ListTimerFires \/ ReadQueue
          \/ DetailTimerFires \/ ReadDetail
          \/ Save
          \/ \E f \in Findings, decision \in Decisions : OtherWorkspaceSaves(f, decision)

Spec == Init /\ [][Next]_vars

\* The browser runs effects and timers and every call is answered or fails;
\* nothing is assumed of the reviewer.
FairSpec ==
    /\ Spec
    /\ WF_vars(FlushEffects /\ clicked' = FALSE)
    /\ WF_vars(~clicked /\ ListTimerFires /\ UNCHANGED clicked)
    /\ WF_vars(~clicked /\ DetailTimerFires /\ UNCHANGED clicked)
    /\ WF_vars(~clicked /\ ReadQueue /\ UNCHANGED clicked)
    /\ WF_vars(~clicked /\ ReadDetail /\ UNCHANGED clicked)
    /\ WF_vars(~clicked /\ Save /\ UNCHANGED clicked)

-----------------------------------------------------------------------------
(* Properties.                                                               *)

AtFinding == Findings \cup {Nothing}
DetailValue == [finding : Findings, decision : Decisions \cup {New}, version : 0 .. MaxVersion]

\* The variables of the view keep their types, and the calls their shapes.
TypeOK ==
    /\ stored \in [Findings -> Review] /\ others \in 0 .. MaxOthers
    /\ query.filter \in Filters /\ query.page \in Nat
    /\ page # Nothing => Shown \subseteq Findings /\ Len(page.items) <= PageSize
    /\ {selectedId, history, source} \subseteq AtFinding
    /\ selected \in DetailValue \cup {Nothing}
    /\ draft \in [finding : AtFinding, decision : Decisions \cup {New}]
    /\ {saving, saveMessage, detailError, reload, clicked} \subseteq BOOLEAN
    /\ blank \in {"", "failed", "unasked"}
    /\ \A r \in lists : r.live \in BOOLEAN /\ r.selected \in AtFinding
    /\ \A d \in details : d.finding \in Findings /\ d.answer \in DetailValue \cup {Nothing}
    /\ \A s \in saves : s.finding \in Findings /\ s.decision \in Decisions \cup {New}

\* What the detail shows, the finding, its history and its source, is about the
\* selected finding, whatever answers arrive late (FindingsView.tsx, the
\* generations of the detail effect and of saveReview), and a decision typed for
\* one finding is never offered, nor sent, for another.
DetailIsOfSelection ==
    /\ selected # Nothing => selected.finding = selectedId /\ draft.finding = selectedId
    /\ {history, source} \subseteq {Nothing, selectedId}

\* A list that replaces another one was read later: a slow answer never takes
\* the queue back (FindingsView.tsx, listGeneration).
QueueMovesForward ==
    [][page' # page /\ page # Nothing /\ page' # Nothing =>
          \A f \in Findings : page'.asOf[f].version >= page.asOf[f].version]_vars

\* No list read before a saved review is shown once "Review saved." is
\* (requestWorkspaceReload after a save).
RefreshFollowsSave ==
    saveMessage => \A r \in lists : r.live /\ r.answer # Nothing =>
                       r.answer.asOf[selectedId].version >= selected.version

\* The queue catches up with the query, unless the query changes again, a read
\* for it fails, or a preset that asks for the same query blanks the list
\* (FindingsView.tsx:191 bumps listGeneration and clears the page, and the list
\* effect does not run again): that list stays blank.
QueueSettles ==
    \A f \in Filters, n \in 1 .. Len(Queue) :
        query = [filter |-> f, page |-> n] ~>
            \/ query # [filter |-> f, page |-> n]
            \/ page = Nothing /\ blank # ""
            \/ page # Nothing /\ page.query = query

\* The button reads "Saving" only while a save is under way
\* (FindingsView.tsx, the label of the Save button).
SavingMeansAnOpenSave == saving => saves # {}

\* The view asks only for pages there can be (workspace_api.py, findings: the
\* page is "Query(ge=1)"; the comparison view keeps to it with Math.max).
AsksForPages == query.page >= 1

Quiet ==
    /\ Flushed /\ listTimer = Nothing /\ detailTimer = Nothing
    /\ lists = {} /\ details = {} /\ saves = {}

\* When nothing is under way the selected finding has its detail on the screen,
\* or an error says it has none (docs/workflows.md: "inspect the
\* metric/threshold and source evidence, then explicitly save").
DetailIsThere == Quiet /\ selectedId # Nothing => selected # Nothing \/ detailError

\* When nothing is under way the queue reflects every review of this workspace
\* (CHANGELOG.md: "refreshes bounded frontend queues after review saves").
QueueShowsOwnReviews == Quiet /\ page # Nothing => page.asOf = stored

=============================================================================
