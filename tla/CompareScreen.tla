----------------------------- MODULE CompareScreen -----------------------------
(* The comparison of two snapshots in the workspace                             *)
(* (workspace-ui/src/components/CompareView.tsx) and the status of their         *)
(* evidence (workspace-ui/src/hooks/useEvidenceStatus.ts).  The summary and a    *)
(* page of changes are read together; the summary of the pair before stays on    *)
(* the screen while another one is read.                                         *)
EXTENDS EvidenceReads, EvidenceStatus, Sequences

CONSTANTS
    Snapshots,       \* snapshots of the repository, newest first
    Opened,        \* the snapshot the view was opened for
    FactsOf,       \* [snapshots -> what EvidenceStatus reads of them]
    Sections,
    ChangePages    \* [sections -> pages of changes between two different snapshots]

VARIABLES
    pair,          \* baselineId and targetId, Nothing until the snapshots are listed
    list,          \* section, direction and page of the changes
    summary,       \* the pair the summary on the screen is of, or Nothing
    changes,       \* reader of summary and changes: page and selected
    selectedChange,
    compareLoading, compareError,
    status         \* reader of the evidence status of the pair

compareVars == <<pair, list, summary, changes, selectedChange, compareLoading, compareError, status>>

Request == [pair |-> pair, list |-> list]
FirstList == [section |-> CHOOSE s \in Sections : TRUE, direction |-> "asc", page |-> 1]

CompareInit ==
    /\ pair = Nothing /\ list = FirstList /\ summary = Nothing
    /\ changes = Idle /\ selectedChange = Nothing
    /\ compareLoading = TRUE /\ compareError = FALSE /\ status = Idle

\* The effect of a change: everything goes but the summary.
ReadComparison ==
    /\ CanAsk(changes)
    /\ changes' = [Ask(changes, Request') EXCEPT !.shown = Nothing]
    /\ selectedChange' = Nothing /\ compareLoading' = TRUE /\ compareError' = FALSE
ReadStatus == CanAsk(status) /\ status' = Ask(status, pair')

\* The target is what the view was opened for, or the newest; the baseline the
\* one before it, or the target itself when there is none.
DefaultPair ==
    LET known == {i \in DOMAIN Snapshots : Snapshots[i] = Opened}
        target == IF known = {} THEN 1 ELSE CHOOSE i \in known : TRUE
    IN [target |-> Snapshots[target],
        baseline |-> Snapshots[IF target < Len(Snapshots) THEN target + 1 ELSE target]]

ListComparable ==
    /\ pair = Nothing /\ compareLoading
    /\ UNCHANGED <<list, summary>>
    /\ IF Snapshots = <<>>
       THEN /\ compareLoading' = FALSE
            /\ UNCHANGED <<pair, changes, selectedChange, compareError, status>>
       ELSE pair' = DefaultPair /\ ReadComparison /\ ReadStatus
LoseComparable ==
    /\ pair = Nothing /\ compareLoading
    /\ compareLoading' = FALSE /\ compareError' = TRUE
    /\ UNCHANGED <<pair, list, summary, changes, selectedChange, status>>

ChoosePair(side, snapshot) ==
    /\ pair # Nothing /\ pair[side] # snapshot
    /\ pair' = [pair EXCEPT ![side] = snapshot]
    /\ list' = [list EXCEPT !.page = 1]
    /\ ReadComparison /\ ReadStatus
    /\ UNCHANGED summary

\* Sections, searches, changes and sort fields go back to the first page; the
\* direction does not.
ChooseList(chosen) ==
    /\ pair # Nothing /\ chosen # list
    /\ list' = chosen /\ UNCHANGED <<pair, summary, status>>
    /\ ReadComparison
ChooseSection(s) == ChooseList([list EXCEPT !.section = s, !.page = 1])
ChooseDirection == ChooseList([list EXCEPT !.direction = IF @ = "asc" THEN "desc" ELSE "asc"])
TurnPage ==
    /\ changes.shown # Nothing
    /\ \/ changes.shown.value.page > 1 /\ ChooseList([list EXCEPT !.page = @ - 1])
       \/ changes.shown.value.truncated /\ ChooseList([list EXCEPT !.page = @ + 1])

\* Comparisons are answered as HandoffRendering and SnapshotComparison have them;
\* here a change is known by what it was asked for.
PagesOf(request) ==
    IF request.pair.baseline = request.pair.target THEN 0 ELSE ChangePages[request.list.section]
AnswerComparison(c) ==
    LET value == [page |-> c.about.list.page,
                  truncated |-> c.about.list.page < PagesOf(c.about),
                  items |-> IF c.about.list.page <= PagesOf(c.about) THEN {c.about} ELSE {}]
    IN /\ changes' = Receive(changes, c, value)
       /\ IF UsesAnswer(c)
          THEN /\ summary' = c.about.pair
               /\ selectedChange' = IF value.items = {} THEN Nothing ELSE c.about
               /\ compareLoading' = FALSE
          ELSE UNCHANGED <<summary, selectedChange, compareLoading>>
       /\ UNCHANGED <<pair, list, compareError, status>>
LoseComparison(c) ==
    /\ changes' = Lose(changes, c)
    /\ IF UsesAnswer(c) THEN compareLoading' = FALSE /\ compareError' = TRUE
                        ELSE UNCHANGED <<compareLoading, compareError>>
    /\ UNCHANGED <<pair, list, summary, selectedChange, status>>

\* Both sides are read, each may fail on its own (allSettled).
Unavailable == {"unavailable"}
AnswerStatus(c) ==
    /\ \E lost \in SUBSET {"baseline", "target"} :
          status' = Receive(status, c, [side \in {"baseline", "target"} |->
                        IF side \in lost THEN Unavailable
                        ELSE Limitations(FactsOf[c.about[side]], "generic")])
    /\ UNCHANGED <<pair, list, summary, changes, selectedChange, compareLoading, compareError>>

\* What the banners say; nothing when both sides are complete.
Banners ==
    IF pair # Nothing /\ ShownFor(status, pair)
       /\ \E side \in {"baseline", "target"} : status.shown.value[side] # {}
    THEN status.shown.value ELSE Nothing

ComparisonAnswer == \E c \in changes.calls : AnswerComparison(c) \/ LoseComparison(c)
CompareAnswer ==
    ListComparable \/ LoseComparable \/ ComparisonAnswer \/ \E c \in status.calls : AnswerStatus(c)

CompareClick ==
    \/ \E side \in {"baseline", "target"}, s \in ToSet(Snapshots) : ChoosePair(side, s)
    \/ \E s \in Sections : ChooseSection(s)
    \/ ChooseDirection \/ TurnPage

=============================================================================
