---------------------------- MODULE HandoffScreen -----------------------------
(* The handoff builder of the workspace (workspace-ui/src/components/         *)
(* HandoffView.tsx) against the handoff endpoints of the localhost API.       *)
(*                                                                            *)
(* A selection is a snapshot pair, the comparison evidence picked for it and  *)
(* an objective.  Evidence is identified by the pair it was listed for, which *)
(* is all the service checks of it.  Loads of evidence and actions (preview,  *)
(* save, reopen) have a generation counter each; a call carries whether its   *)
(* own is current.  "seen" is the state the load effect last ran for.         *)
EXTENDS FiniteSets, Integers

CONSTANTS
    Pairs,        \* snapshot pairs of the repository
    Objectives,
    Stored,       \* handoffs saved before the view is opened
    Nothing,
    CallsMayFail,
    MaxSaved,     \* bound: handoffs in the store
    MaxCalls,     \* bound: unanswered actions
    MaxLoads      \* bound: unanswered loads before the reviewer acts again

Selection == [pair : Pairs, evidence : SUBSET Pairs, objective : Objectives]
Inputs == [pair : Pairs \cup {Nothing}, section : BOOLEAN, pending : Selection \cup {Nothing}]

ASSUME StoredAssumption == Stored \subseteq Selection /\ IsFiniteSet(Stored)
ASSUME BoundAssumption ==
    /\ {MaxSaved, MaxCalls, MaxLoads} \subseteq Nat
    /\ CallsMayFail \in BOOLEAN /\ Nothing \notin Pairs \cup Selection \cup Inputs

VARIABLES
    pair,          \* baselineId and targetId, Nothing until the snapshots are listed
    section,       \* which evidence is listed: flips when the reviewer changes the tab
    shown,         \* the pair whose evidence and summary are listed, Nothing while loading
    evidence,      \* selectedDeltaIds and selectedCycleIds, by the pair they were listed for
    objective,
    preview,       \* the preview and the selection it is keyed by
    savedPreview,  \* the saved handoff displayed in its place
    pending,       \* pendingRehydration
    saved,         \* the list of saved handoffs
    actionBusy,
    loadedPair,    \* the pair the load effect last ran for
    seen,          \* what the load effect last ran for; Nothing when a new object came since
    clicked,       \* the last step was a click that calls for the effect
    loads, actions,
    store          \* the service: saved handoffs

inputs == <<section, objective>>
outputs == <<preview, savedPreview>>
effect == <<loadedPair, seen, loads>>
vars == <<inputs, outputs, effect, pair, shown, evidence, pending, saved, actionBusy, clicked,
          actions, store>>

Init ==
    /\ pair = Nothing /\ section = FALSE /\ shown = Nothing /\ evidence = {}
    /\ objective \in Objectives
    /\ preview = Nothing /\ savedPreview = Nothing /\ pending = Nothing
    /\ saved = {} /\ actionBusy = FALSE /\ loadedPair = Nothing
    /\ seen = [pair |-> Nothing, section |-> section, pending |-> Nothing]
    /\ clicked = FALSE /\ loads = {} /\ actions = {} /\ store = Stored

Chosen == [pair |-> pair, evidence |-> evidence, objective |-> objective]

\* What the reader sees: a saved handoff, else the preview of this very selection.
Displayed ==
    IF savedPreview # Nothing THEN savedPreview
    ELSE IF preview = Chosen THEN preview ELSE Nothing

Superseded(calls) == {[c EXCEPT !.live = FALSE] : c \in calls}

Flushed == seen = [pair |-> pair, section |-> section, pending |-> pending]

-----------------------------------------------------------------------------
(* The saved handoffs of the service: a record is inserted once, never changed, *)
(* and checked against its digest whenever it is read.                         *)

SavedHandoffs == store

\* The service renders a selection only when all its evidence is of its pair.
Valid(selection) == selection.evidence \subseteq {selection.pair}

Insert(selection) ==
    /\ store' = store \cup {selection} /\ Cardinality(store') <= MaxSaved

Intact(handoff) == handoff \in SavedHandoffs

-----------------------------------------------------------------------------
(* Loading the evidence of the pair.                                         *)

\* The snapshots and the saved handoffs arrive; the pair is set.
Open ==
    /\ pair = Nothing
    /\ pair' \in Pairs /\ saved' = SavedHandoffs
    /\ UNCHANGED <<inputs, outputs, effect, shown, evidence, pending, actionBusy, actions, store>>

\* The pending handoff, when it is for the pair now selected.
Restorable == IF pending # Nothing /\ pending.pair = pair THEN pending ELSE Nothing

\* The evidence and the preview of another pair go, unless a saved handoff is
\* about to replace them.
ForgetsPair ==
    IF loadedPair # pair /\ Restorable = Nothing
    THEN /\ evidence' = {} /\ preview' = Nothing /\ savedPreview' = Nothing
         /\ actions' = Superseded(actions)
    ELSE UNCHANGED <<evidence, outputs, actions>>

LoadEffect ==
    /\ ~Flushed
    /\ ForgetsPair
    /\ shown' = Nothing /\ loadedPair' = pair
    /\ loads' = Superseded(loads) \cup
          {[live |-> TRUE, pair |-> pair, section |-> section, pending |-> Restorable]}
    /\ seen' = [pair |-> pair, section |-> section, pending |-> pending]
    /\ UNCHANGED <<inputs, pair, pending, saved, actionBusy, store>>

UsesLoad(c) == c.live

\* The evidence arrives; a pending handoff is restored with it.
ReceiveLoad(c) ==
    /\ loads' = loads \ {c}
    /\ IF ~UsesLoad(c)
       THEN UNCHANGED <<shown, evidence, objective, outputs, pending, actionBusy>>
       ELSE /\ shown' = c.pair
            /\ IF c.pending = Nothing
               THEN UNCHANGED <<evidence, objective, outputs, pending, actionBusy>>
               ELSE /\ evidence' = c.pending.evidence /\ objective' = c.pending.objective
                    /\ savedPreview' = c.pending /\ preview' = Nothing
                    /\ pending' = Nothing /\ actionBusy' = FALSE
    /\ UNCHANGED <<pair, section, saved, loadedPair, seen, actions, store>>

BugLoseLoad(c) ==
    /\ CallsMayFail
    /\ loads' = loads \ {c}
    /\ UNCHANGED <<inputs, outputs, pair, shown, evidence, pending, saved, actionBusy, loadedPair,
                   seen, actions, store>>
\* The load fails, or answers for a comparison that is not the saved one.
LoseLoad(c) ==
    /\ CallsMayFail
    /\ loads' = loads \ {c}
    /\ IF UsesLoad(c) /\ c.pending # Nothing
       THEN pending' = Nothing /\ savedPreview' = Nothing /\ actionBusy' = FALSE
       ELSE UNCHANGED <<pending, savedPreview, actionBusy>>
    /\ UNCHANGED <<inputs, pair, shown, evidence, preview, saved, loadedPair, seen, actions, store>>

-----------------------------------------------------------------------------
(* Actions.                                                                  *)

\* An action starts: every earlier one is superseded.
Start(kind, selection) ==
    /\ pair # Nothing /\ Cardinality(actions) < MaxCalls
    /\ actions' = Superseded(actions) \cup
          {[live |-> TRUE, kind |-> kind, selection |-> selection, done |-> FALSE]}
    /\ actionBusy' = TRUE
    /\ UNCHANGED <<inputs, effect, pair, shown, evidence, saved, store>>

BuildPreview ==
    /\ Start("preview", Chosen)
    /\ preview' = Nothing /\ savedPreview' = Nothing /\ pending' = Nothing

SaveCurrent ==
    /\ ~actionBusy
    /\ Start("save", Chosen)
    /\ UNCHANGED <<outputs, pending>>

Reopen(handoff) ==
    /\ handoff \in saved
    /\ Start("reopen", handoff)
    /\ preview' = Nothing /\ savedPreview' = Nothing
    /\ UNCHANGED pending

ServeSave ==
    \E c \in actions :
        /\ c.kind = "save" /\ ~c.done /\ Valid(c.selection)
        /\ Insert(c.selection)
        /\ actions' = (actions \ {c}) \cup {[c EXCEPT !.done = TRUE]}
        /\ UNCHANGED <<inputs, outputs, effect, pair, shown, evidence, pending, saved, actionBusy>>

BugUsesAnyAction(c) == TRUE
UsesAction(c) == c.live

ReceivePreview(c) ==
    /\ c.kind = "preview" /\ Valid(c.selection)
    /\ preview' = c.selection /\ actionBusy' = FALSE
    /\ UNCHANGED <<pair, savedPreview, pending, saved, seen>>

ReceiveSave(c) ==
    /\ c.kind = "save" /\ c.done
    /\ saved' = saved \cup {c.selection}
    /\ savedPreview' = c.selection /\ preview' = Nothing /\ actionBusy' = FALSE
    /\ UNCHANGED <<pair, pending, seen>>

\* The saved handoff arrives: its pair is loaded before it is displayed, and
\* the view stays busy until then.  It is a new object, so the effect runs even
\* when the same handoff was reopened before.
ReceiveReopened(c) ==
    /\ c.kind = "reopen" /\ Intact(c.selection)
    /\ pending' = c.selection /\ pair' = c.selection.pair /\ seen' = Nothing
    /\ UNCHANGED <<outputs, saved, actionBusy>>

ReceiveAction(c) ==
    /\ actions' = actions \ {c}
    /\ IF UsesAction(c) THEN ReceivePreview(c) \/ ReceiveSave(c) \/ ReceiveReopened(c)
       ELSE UNCHANGED <<pair, outputs, pending, saved, actionBusy, seen>>
    /\ UNCHANGED <<inputs, loadedPair, loads, shown, evidence, store>>

\* The call fails or is refused.
LoseAction(c) ==
    /\ CallsMayFail \/ ~Valid(c.selection)
    /\ actions' = actions \ {c}
    /\ actionBusy' = (actionBusy /\ ~UsesAction(c))
    /\ pending' = IF UsesAction(c) /\ c.kind = "reopen" THEN Nothing ELSE pending
    /\ UNCHANGED <<inputs, outputs, effect, pair, shown, evidence, saved, store>>

-----------------------------------------------------------------------------
(* The reviewer.                                                             *)

\* changeSnapshotPair.  It leaves actionBusy alone.
ChangePair(p) ==
    /\ pair # Nothing /\ p # pair
    /\ pair' = p /\ shown' = Nothing
    /\ pending' = Nothing /\ preview' = Nothing /\ savedPreview' = Nothing
    /\ actions' = Superseded(actions)
    /\ UNCHANGED <<inputs, effect, evidence, saved, actionBusy, store>>

ChangeSection ==
    /\ pair # Nothing
    /\ section' = ~section
    /\ UNCHANGED <<objective, outputs, effect, pair, shown, evidence, pending, saved, actionBusy,
                   actions, store>>

ToggleEvidence ==
    /\ shown # Nothing
    /\ evidence' = IF shown \in evidence THEN evidence \ {shown} ELSE evidence \cup {shown}
    /\ UNCHANGED <<inputs, outputs, effect, pair, shown, pending, saved, actionBusy, actions, store>>

EditObjective(o) ==
    /\ o # objective
    /\ objective' = o /\ preview' = Nothing
    /\ UNCHANGED <<section, savedPreview, effect, pair, shown, evidence, pending, saved, actionBusy,
                   actions, store>>

\* React runs the effects of a click before it handles anything else.
Reviewer ==
    /\ Flushed /\ Cardinality(loads) <= MaxLoads
    /\ \/ \E p \in Pairs : ChangePair(p)
       \/ ChangeSection \/ ToggleEvidence
       \/ \E o \in Objectives : EditObjective(o)
       \/ BuildPreview \/ SaveCurrent
       \/ \E handoff \in saved : Reopen(handoff)
    /\ clicked' = ~Flushed'

Loading == \E c \in loads : ReceiveLoad(c) \/ LoseLoad(c)
Acting == ServeSave \/ \E c \in actions : ReceiveAction(c) \/ LoseAction(c)

Next ==
    \/ LoadEffect /\ clicked' = FALSE
    \/ ~clicked /\ Reviewer
    \/ ~clicked /\ UNCHANGED clicked /\ (Open \/ Loading \/ Acting)

Spec == Init /\ [][Next]_vars

\* Effects run, and every call is answered or fails.
FairSpec ==
    /\ Spec
    /\ WF_vars(LoadEffect /\ clicked' = FALSE)
    /\ WF_vars(~clicked /\ UNCHANGED clicked /\ Loading)
    /\ WF_vars(~clicked /\ UNCHANGED clicked /\ Acting)

-----------------------------------------------------------------------------
(* Properties.                                                               *)

AtPair == Pairs \cup {Nothing}
AtSelection == Selection \cup {Nothing}

\* The variables of the view keep their types.
TypeOK ==
    /\ {pair, shown, loadedPair} \subseteq AtPair /\ evidence \subseteq Pairs
    /\ {preview, savedPreview, pending} \subseteq AtSelection /\ objective \in Objectives
    /\ saved \subseteq store /\ store \subseteq Selection
    /\ {section, actionBusy, clicked} \subseteq BOOLEAN
    /\ \A c \in loads : c.pair \in Pairs /\ c.pending \in AtSelection
    /\ \A c \in actions : c.selection \in Selection

\* The output on the screen, which is what is copied and downloaded, is about
\* the pair in the selectors, whatever answer arrives late, once the effects ran
\* and no handoff is being reopened (HandoffView.tsx, loadGeneration and
\* actionGeneration).
OutputIsOfThePair ==
    Flushed /\ pending = Nothing /\ Displayed # Nothing => Displayed.pair = pair

\* The evidence offered for selection is that of the pair and the tab chosen.
EvidenceIsOfThePair == shown # Nothing /\ Flushed => shown = pair

\* Output and evidence on the screen are about one pair, the one in the selectors.
ScreenIsOfThePair == OutputIsOfThePair /\ EvidenceIsOfThePair

\* When the reviewer leaves the view alone, no handoff stays half reopened: it
\* is restored, or an error ends it.
ReopenSettles == <>[][~Reviewer]_vars => <>[](pending = Nothing)

\* The view is busy only while an action or a rehydration is under way
\* (docs/workflows.md: "save the local record for reopening").
BusyMeansUnderWay == actionBusy => actions # {} \/ pending # Nothing

\* While a handoff is being reopened, no output of another pair is displayed
\* (docs/repository-review.md: reopening "clears the previous pair's
\* presentation immediately").
ReopeningClearsOutput ==
    Flushed /\ pending # Nothing /\ Displayed # Nothing => Displayed.pair = pair

\* Once the effects ran, the comparison evidence selected is of the pair shown,
\* unless a handoff is being restored (test "clears comparison selections and
\* preview when the snapshot pair changes").
SelectionIsOfThePair == Flushed /\ pending = Nothing => evidence \subseteq {pair}

=============================================================================
