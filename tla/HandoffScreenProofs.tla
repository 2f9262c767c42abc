-------------------------- MODULE HandoffScreenProofs ---------------------------
(* The handoff builder, for any pairs, objectives and saved handoffs, any number *)
(* of calls under way and any order of their answers: what is displayed, copied  *)
(* and downloaded is about the pair in the selectors.                            *)
EXTENDS HandoffScreen, TLAPS

-----------------------------------------------------------------------------
(* The inductive invariant.                                                   *)

LoadFields == {"live", "pair", "section", "pending"}
ActionFields == {"live", "kind", "selection", "done"}

\* A load restores a handoff of its own pair only.
CallsInv ==
    /\ \A c \in loads :
          /\ DOMAIN c = LoadFields /\ c.pair \in AtPair /\ c.pending \in AtSelection
          /\ c.pending # Nothing => c.pending.pair = c.pair
    /\ \A c \in actions : DOMAIN c = ActionFields /\ c.selection \in Selection
ScreenInv ==
    /\ {pair, shown, loadedPair} \subseteq AtPair /\ evidence \subseteq Pairs
    /\ pending \in AtSelection /\ objective \in Objectives /\ section \in BOOLEAN
    /\ saved \subseteq Selection /\ store \subseteq Selection
TypedInv == CallsInv /\ ScreenInv

\* What the effect last ran for is what is loaded, and what is listed.
EffectInv ==
    /\ seen # Nothing => seen.pair = loadedPair
    /\ \A c \in loads : c.live => c.pair = loadedPair
    /\ shown # Nothing => shown = loadedPair

\* One action counts.  It is about the pair loaded, and while a handoff is asked
\* for and an earlier one is not restored yet, nothing saved is displayed.
ActionInv ==
    /\ \A c, d \in actions : c.live /\ d.live => c = d
    /\ \A c \in actions : c.live =>
          /\ pair = loadedPair /\ pair # Nothing
          /\ c.kind = "save" => c.selection.pair = pair
          /\ c.kind = "reopen" /\ pending # Nothing => savedPreview = Nothing

SavedInv == savedPreview # Nothing /\ pending = Nothing => savedPreview.pair = loadedPair

HandoffInv == TypedInv /\ EffectInv /\ ActionInv /\ SavedInv

-----------------------------------------------------------------------------
(* Calls.                                                                     *)

LEMMA SupersededLoads ==
    ASSUME CallsInv
    PROVE  \A c \in Superseded(loads) :
             /\ DOMAIN c = LoadFields /\ ~c.live
             /\ \E d \in loads : c.pair = d.pair /\ c.pending = d.pending
  BY DEF CallsInv, Superseded, LoadFields

LEMMA SupersededActions ==
    ASSUME CallsInv
    PROVE  \A c \in Superseded(actions) :
             /\ DOMAIN c = ActionFields /\ ~c.live
             /\ \E d \in actions : c.selection = d.selection
  BY DEF CallsInv, Superseded, ActionFields

LEMMA ChosenIs ==
    ASSUME ScreenInv, pair # Nothing
    PROVE  Chosen \in Selection /\ Chosen.pair = pair
  BY DEF ScreenInv, Chosen, Selection, AtPair

LEMMA FlushedIs ==
    ASSUME ScreenInv, EffectInv, Flushed
    PROVE  loadedPair = pair
  <1>1. [pair |-> pair, section |-> section, pending |-> pending] \in Inputs
    BY DEF ScreenInv, Inputs, AtPair, AtSelection
  <1>2. seen # Nothing
    BY <1>1, BoundAssumption DEF Flushed
  <1>3. seen.pair = pair
    BY DEF Flushed
  <1> QED  BY <1>2, <1>3 DEF EffectInv

\* The action that starts is the only live one.
LEMMA StartIs ==
    ASSUME CallsInv, NEW kind, NEW selection \in Selection, Start(kind, selection)
    PROVE  /\ \A c \in actions' : /\ DOMAIN c = ActionFields /\ c.selection \in Selection
                                  /\ c.live => c.kind = kind /\ c.selection = selection
           /\ \A c, d \in actions' : c.live /\ d.live => c = d
  <1> DEFINE call == [live |-> TRUE, kind |-> kind, selection |-> selection, done |-> FALSE]
  <1>1. actions' = Superseded(actions) \cup {call}
    BY DEF Start
  <1>2. DOMAIN call = ActionFields /\ call.selection = selection /\ call.kind = kind
    BY DEF ActionFields
  <1> HIDE DEF call
  <1>3. \A c \in actions : c.selection \in Selection
    BY DEF CallsInv
  <1> QED  BY <1>1, <1>2, <1>3, SupersededActions

LEMMA ServeSaveIs ==
    ASSUME CallsInv, ServeSave
    PROVE  \E c \in actions : \E d :
             /\ actions' = (actions \ {c}) \cup {d} /\ store' = store \cup {c.selection}
             /\ DOMAIN d = ActionFields /\ d.live = c.live /\ d.kind = c.kind /\ d.selection = c.selection
  <1>1. PICK c \in actions :
          actions' = (actions \ {c}) \cup {[c EXCEPT !.done = TRUE]} /\ store' = store \cup {c.selection}
    BY DEF ServeSave, Insert
  <1> DEFINE d == [c EXCEPT !.done = TRUE]
  <1>2. DOMAIN d = ActionFields /\ d.live = c.live /\ d.kind = c.kind /\ d.selection = c.selection
    BY DEF CallsInv, ActionFields
  <1> QED  BY <1>1, <1>2

LEMMA LoadEffectIs ==
    ASSUME TypedInv, LoadEffect
    PROVE  /\ \A c \in loads' : /\ DOMAIN c = LoadFields /\ c.pair \in AtPair /\ c.pending \in AtSelection
                                /\ c.pending # Nothing => c.pending.pair = c.pair
                                /\ c.live => c.pair = pair
           /\ loadedPair' = pair /\ shown' = Nothing /\ seen'.pair = pair
  <1> DEFINE call == [live |-> TRUE, pair |-> pair, section |-> section, pending |-> Restorable]
  <1>1. /\ loads' = Superseded(loads) \cup {call} /\ loadedPair' = pair /\ shown' = Nothing
        /\ seen' = [pair |-> pair, section |-> section, pending |-> pending]
    BY DEF LoadEffect
  <1>2. DOMAIN call = LoadFields /\ call.pair = pair /\ call.pending = Restorable
    BY DEF LoadFields
  <1> HIDE DEF call
  <1>3. Restorable \in AtSelection /\ (Restorable # Nothing => Restorable.pair = pair)
    BY DEF Restorable, TypedInv, ScreenInv, AtSelection
  <1>4. /\ pair \in AtPair
        /\ \A c \in loads : /\ c.pair \in AtPair /\ c.pending \in AtSelection
                            /\ c.pending # Nothing => c.pending.pair = c.pair
    BY DEF TypedInv, ScreenInv, CallsInv
  <1>5. seen'.pair = pair
    BY <1>1
  <1>6. \A c \in Superseded(loads) :
          /\ DOMAIN c = LoadFields /\ ~c.live /\ c.pair \in AtPair /\ c.pending \in AtSelection
          /\ c.pending # Nothing => c.pending.pair = c.pair
    BY <1>4, SupersededLoads DEF TypedInv
  <1> QED  BY <1>1, <1>2, <1>3, <1>4, <1>5, <1>6

-----------------------------------------------------------------------------
(* What is loaded and asked for.                                              *)

LEMMA CallsStep ==
    ASSUME TypedInv, [Next]_vars
    PROVE  CallsInv'
  <1> DEFINE Loads == \A c \in loads' :
                         /\ DOMAIN c = LoadFields /\ c.pair \in AtPair /\ c.pending \in AtSelection
                         /\ c.pending # Nothing => c.pending.pair = c.pair
             Actions == \A c \in actions' : DOMAIN c = ActionFields /\ c.selection \in Selection
  <1>1. CallsInv /\ ScreenInv
    BY DEF TypedInv
  <1>2. loads' \subseteq loads => Loads
    BY <1>1 DEF CallsInv
  <1>3. actions' \subseteq actions \cup Superseded(actions) => Actions
    BY <1>1, SupersededActions DEF CallsInv
  <1>4. LoadEffect => Loads /\ Actions
    BY <1>1, <1>3, LoadEffectIs DEF LoadEffect, ForgetsPair
  <1>5. (\E p \in Pairs : ChangePair(p)) \/ ChangeSection \/ ToggleEvidence
        \/ (\E o \in Objectives : EditObjective(o)) => Loads /\ Actions
    BY <1>2, <1>3 DEF ChangePair, ChangeSection, ToggleEvidence, EditObjective, effect
  <1>6. BuildPreview \/ SaveCurrent => Loads /\ Actions
    <2>1. pair # Nothing => Chosen \in Selection
      BY <1>1, ChosenIs
    <2>2. ASSUME NEW kind, Start(kind, Chosen) PROVE Loads /\ Actions
      <3>1. pair # Nothing /\ loads' = loads
        BY <2>2 DEF Start, effect
      <3> QED  BY <1>1, <1>2, <2>1, <2>2, <3>1, StartIs
    <2> QED  BY <2>2 DEF BuildPreview, SaveCurrent
  <1>7. ASSUME NEW handoff \in saved, Reopen(handoff) PROVE Loads /\ Actions
    <2>1. handoff \in Selection /\ Start("reopen", handoff) /\ loads' = loads
      BY <1>1, <1>7 DEF Reopen, Start, effect, ScreenInv
    <2> QED  BY <1>1, <1>2, <2>1, StartIs
  <1>8. Open \/ Loading => Loads /\ Actions
    BY <1>2, <1>3 DEF Open, Loading, ReceiveLoad, LoseLoad, effect
  <1>9. ServeSave => Loads /\ Actions
    <2>1. ServeSave => loads' = loads
      BY DEF ServeSave, effect
    <2>2. ASSUME ServeSave PROVE Actions
      <3>1. PICK c \in actions : \E d :
              actions' = (actions \ {c}) \cup {d} /\ DOMAIN d = ActionFields /\ d.selection = c.selection
        BY <1>1, <2>2, ServeSaveIs
      <3> QED  BY <1>1, <3>1 DEF CallsInv
    <2> QED  BY <1>2, <2>1, <2>2
  <1>10. (\E c \in actions : ReceiveAction(c) \/ LoseAction(c)) => Loads /\ Actions
    BY <1>2, <1>3 DEF ReceiveAction, LoseAction, effect
  <1>11. UNCHANGED vars => Loads /\ Actions
    BY <1>2, <1>3 DEF vars, effect
  <1> HIDE DEF Loads, Actions
  <1>12. Loads /\ Actions
    BY <1>4, <1>5, <1>6, <1>7, <1>8, <1>9, <1>10, <1>11 DEF Next, Reviewer, Acting
  <1> QED  BY <1>12 DEF CallsInv, Loads, Actions, AtPair, AtSelection

LEMMA ScreenStep ==
    ASSUME TypedInv, [Next]_vars
    PROVE  ScreenInv'
  <1>1. CallsInv /\ ScreenInv
    BY DEF TypedInv
  <1> USE DEF AtPair, AtSelection
  <1>2. CASE LoadEffect
    BY <1>1, <1>2 DEF LoadEffect, ForgetsPair, inputs, outputs, ScreenInv
  <1>3. CASE \E p \in Pairs : ChangePair(p)
    BY <1>1, <1>3 DEF ChangePair, inputs, effect, ScreenInv
  <1>4. CASE ChangeSection
    BY <1>1, <1>4 DEF ChangeSection, effect, ScreenInv
  <1>5. CASE ToggleEvidence
    BY <1>1, <1>5 DEF ToggleEvidence, inputs, effect, ScreenInv
  <1>6. CASE \E o \in Objectives : EditObjective(o)
    BY <1>1, <1>6 DEF EditObjective, effect, ScreenInv
  <1>7. CASE BuildPreview \/ SaveCurrent \/ \E handoff \in saved : Reopen(handoff)
    BY <1>1, <1>7 DEF BuildPreview, SaveCurrent, Reopen, Start, inputs, effect, ScreenInv
  <1>8. CASE Open
    BY <1>1, <1>8 DEF Open, inputs, effect, SavedHandoffs, ScreenInv
  <1>9. CASE \E c \in loads : ReceiveLoad(c)
    <2>1. PICK c \in loads : ReceiveLoad(c)
      BY <1>9
    <2>2. c.pair \in AtPair /\ c.pending \in AtSelection
      BY <1>1 DEF CallsInv
    <2>3. c.pending # Nothing => c.pending.evidence \subseteq Pairs /\ c.pending.objective \in Objectives
      BY <2>2 DEF Selection
    <2> QED  BY <1>1, <2>1, <2>2, <2>3 DEF ReceiveLoad, ScreenInv
  <1>10. CASE \E c \in loads : LoseLoad(c)
    BY <1>1, <1>10 DEF LoseLoad, inputs, ScreenInv
  <1>11. CASE ServeSave
    <2>1. PICK c \in actions : store' = store \cup {c.selection}
      BY <1>11 DEF ServeSave, Insert
    <2>2. UNCHANGED <<inputs, effect, pair, shown, evidence, pending, saved>>
      BY <1>11 DEF ServeSave
    <2> QED  BY <1>1, <2>1, <2>2 DEF CallsInv, inputs, effect, ScreenInv
  <1>12. CASE \E c \in actions : ReceiveAction(c)
    <2>1. PICK c \in actions : ReceiveAction(c)
      BY <1>12
    <2>2. c.selection \in Selection /\ c.selection.pair \in Pairs
      BY <1>1 DEF CallsInv, Selection
    <2>3. UNCHANGED <<inputs, loadedPair, shown, evidence, store>>
      BY <2>1 DEF ReceiveAction
    <2>4. pair' \in {pair, c.selection.pair} /\ pending' \in {pending, c.selection}
          /\ saved' \subseteq saved \cup {c.selection}
      BY <2>1 DEF ReceiveAction, ReceivePreview, ReceiveSave, ReceiveReopened
    <2> QED  BY <1>1, <2>2, <2>3, <2>4 DEF inputs, ScreenInv
  <1>13. CASE \E c \in actions : LoseAction(c)
    BY <1>1, <1>13 DEF LoseAction, inputs, effect, ScreenInv
  <1>14. CASE UNCHANGED vars
    BY <1>1, <1>14 DEF vars, inputs, effect, ScreenInv
  <1> QED
    BY <1>2, <1>3, <1>4, <1>5, <1>6, <1>7, <1>8, <1>9, <1>10, <1>11, <1>12, <1>13, <1>14
    DEF Next, Reviewer, Loading, Acting

LEMMA EffectStep ==
    ASSUME TypedInv, EffectInv, [Next]_vars
    PROVE  EffectInv'
  <1>1. CASE LoadEffect
    BY <1>1, LoadEffectIs DEF EffectInv
  <1>2. CASE loads' \subseteq loads /\ UNCHANGED loadedPair /\ seen' \in {seen, Nothing} /\ shown' \in {shown, Nothing}
    BY <1>2 DEF EffectInv
  <1>3. CASE \E c \in loads : ReceiveLoad(c)
    <2>1. PICK c \in loads : ReceiveLoad(c)
      BY <1>3
    <2>2. loads' \subseteq loads /\ UNCHANGED <<loadedPair, seen>> /\ (shown' = shown \/ (c.live /\ shown' = c.pair))
      BY <2>1 DEF ReceiveLoad, UsesLoad
    <2> QED  BY <2>2 DEF EffectInv
  <1>4. CASE \E p \in Pairs : ChangePair(p)
    BY <1>2, <1>4 DEF ChangePair, effect
  <1>5. CASE ChangeSection \/ ToggleEvidence \/ \E o \in Objectives : EditObjective(o)
    BY <1>2, <1>5 DEF ChangeSection, ToggleEvidence, EditObjective, effect
  <1>6. CASE BuildPreview \/ SaveCurrent \/ \E handoff \in saved : Reopen(handoff)
    BY <1>2, <1>6 DEF BuildPreview, SaveCurrent, Reopen, Start, effect
  <1>7. CASE Open \/ \E c \in loads : LoseLoad(c)
    BY <1>2, <1>7 DEF Open, LoseLoad, effect
  <1>8. CASE Acting
    <2>1. CASE ServeSave \/ \E c \in actions : LoseAction(c)
      BY <1>2, <2>1 DEF ServeSave, LoseAction, effect
    <2>2. CASE \E c \in actions : ReceiveAction(c)
      BY <1>2, <2>2 DEF ReceiveAction, ReceivePreview, ReceiveSave, ReceiveReopened
    <2> QED  BY <1>8, <2>1, <2>2 DEF Acting
  <1>9. CASE UNCHANGED vars
    BY <1>2, <1>9 DEF vars, effect
  <1> QED
    BY <1>1, <1>3, <1>4, <1>5, <1>6, <1>7, <1>8, <1>9 DEF Next, Reviewer, Loading

LEMMA ActionStep ==
    ASSUME TypedInv, EffectInv, ActionInv, [Next]_vars
    PROVE  ActionInv'
  <1>1. CallsInv /\ ScreenInv
    BY DEF TypedInv
  <1>2. \A c \in actions \cup Superseded(actions) : c.live => c \in actions
    BY <1>1, SupersededActions
  <1>3. CASE /\ actions' \subseteq actions \cup Superseded(actions) /\ pair' = pair /\ loadedPair' = loadedPair
             /\ pending' = Nothing \/ (pending' = pending /\ savedPreview' = savedPreview)
    BY <1>2, <1>3 DEF ActionInv
  <1>4. CASE \A c \in actions' : ~c.live
    BY <1>4 DEF ActionInv
  <1>5. CASE LoadEffect
    <2>1. loadedPair' = pair /\ pair' = pair /\ pending' = pending
          /\ actions' \in {actions, Superseded(actions)} /\ savedPreview' \in {savedPreview, Nothing}
      BY <1>5 DEF LoadEffect, ForgetsPair, outputs
    <2> QED  BY <1>2, <2>1 DEF ActionInv
  <1>6. CASE \E p \in Pairs : ChangePair(p)
    BY <1>1, <1>4, <1>6, SupersededActions DEF ChangePair
  <1>7. CASE ChangeSection \/ ToggleEvidence \/ \E o \in Objectives : EditObjective(o)
    BY <1>3, <1>7 DEF ChangeSection, ToggleEvidence, EditObjective, outputs, effect
  <1>8. CASE Flushed /\ (BuildPreview \/ SaveCurrent)
    <2>1. PICK kind \in {"preview", "save"} : Start(kind, Chosen)
      BY <1>8 DEF BuildPreview, SaveCurrent
    <2>2. pair # Nothing /\ pair' = pair /\ loadedPair' = loadedPair
      BY <2>1 DEF Start, effect
    <2>3. loadedPair = pair /\ Chosen.pair = pair /\ Chosen \in Selection
      BY <1>1, <1>8, <2>2, FlushedIs, ChosenIs
    <2> QED  BY <1>1, <2>1, <2>2, <2>3, StartIs DEF ActionInv
  <1>9. CASE Flushed /\ \E handoff \in saved : Reopen(handoff)
    <2>1. PICK handoff \in saved : Reopen(handoff)
      BY <1>9
    <2>2. /\ Start("reopen", handoff) /\ handoff \in Selection
          /\ pair # Nothing /\ pair' = pair /\ loadedPair' = loadedPair /\ savedPreview' = Nothing
      BY <1>1, <2>1 DEF Reopen, Start, effect, ScreenInv
    <2>3. loadedPair = pair
      BY <1>1, <1>9, FlushedIs
    <2> QED  BY <1>1, <2>2, <2>3, StartIs DEF ActionInv
  <1>10. CASE Open
    <2>1. pair = Nothing /\ actions' = actions
      BY <1>10 DEF Open
    <2> QED  BY <1>4, <2>1 DEF ActionInv
  <1>11. CASE \E c \in loads : ReceiveLoad(c) \/ LoseLoad(c)
    BY <1>3, <1>11 DEF ReceiveLoad, LoseLoad, outputs
  <1>12. CASE ServeSave
    <2>1. PICK c \in actions : \E d :
             /\ actions' = (actions \ {c}) \cup {d}
             /\ d.live = c.live /\ d.kind = c.kind /\ d.selection = c.selection
      BY <1>1, <1>12, ServeSaveIs
    <2>2. UNCHANGED <<pair, loadedPair, pending, savedPreview>>
      BY <1>12 DEF ServeSave, effect, outputs
    <2> QED  BY <2>1, <2>2 DEF ActionInv
  <1>13. CASE \E c \in actions : ReceiveAction(c)
    <2>1. PICK c \in actions : ReceiveAction(c)
      BY <1>13
    <2>2. actions' = actions \ {c}
      BY <2>1 DEF ReceiveAction
    <2>3. CASE c.live
      BY <1>4, <2>2, <2>3 DEF ActionInv
    <2>4. CASE ~c.live
      BY <1>3, <2>1, <2>2, <2>4 DEF ReceiveAction, UsesAction, outputs
    <2> QED  BY <2>3, <2>4
  <1>14. CASE \E c \in actions : LoseAction(c)
    BY <1>3, <1>14 DEF LoseAction, effect, outputs
  <1>15. CASE UNCHANGED vars
    BY <1>3, <1>15 DEF vars, effect, outputs
  <1> QED
    BY <1>5, <1>6, <1>7, <1>8, <1>9, <1>10, <1>11, <1>12, <1>13, <1>14, <1>15
    DEF Next, Reviewer, Loading, Acting

LEMMA SavedStep ==
    ASSUME HandoffInv, [Next]_vars
    PROVE  SavedInv'
  <1>1. TypedInv /\ CallsInv /\ ScreenInv /\ EffectInv /\ ActionInv /\ SavedInv
    BY DEF HandoffInv, TypedInv
  <1>2. CASE /\ loadedPair' = loadedPair
             /\ savedPreview' = Nothing \/ (savedPreview' = savedPreview /\ (pending' = pending \/ pending' # Nothing))
    BY <1>1, <1>2 DEF SavedInv
  <1>3. CASE LoadEffect
    <2>1. pending' = pending /\ loadedPair' = pair
      BY <1>3 DEF LoadEffect
    <2>2. CASE loadedPair # pair /\ Restorable = Nothing
      BY <1>3, <2>2 DEF LoadEffect, ForgetsPair, SavedInv
    <2>3. CASE loadedPair # pair /\ Restorable # Nothing
      BY <2>1, <2>3 DEF Restorable, SavedInv
    <2>4. CASE loadedPair = pair
      <3>1. savedPreview' = savedPreview
        BY <1>3, <2>4 DEF LoadEffect, ForgetsPair, outputs
      <3> QED  BY <1>2, <2>1, <2>4, <3>1
    <2> QED  BY <2>2, <2>3, <2>4
  <1>4. CASE \E p \in Pairs : ChangePair(p)
    BY <1>2, <1>4 DEF ChangePair, effect
  <1>5. CASE ChangeSection \/ ToggleEvidence \/ \E o \in Objectives : EditObjective(o)
    BY <1>2, <1>5 DEF ChangeSection, ToggleEvidence, EditObjective, outputs, effect
  <1>6. CASE BuildPreview \/ SaveCurrent \/ \E handoff \in saved : Reopen(handoff)
    BY <1>2, <1>6 DEF BuildPreview, SaveCurrent, Reopen, Start, outputs, effect
  <1>7. CASE Open
    BY <1>2, <1>7 DEF Open, outputs, effect
  <1>8. CASE \E c \in loads : ReceiveLoad(c)
    <2>1. PICK c \in loads : ReceiveLoad(c)
      BY <1>8
    <2>2. CASE ~c.live \/ c.pending = Nothing
      BY <1>2, <2>1, <2>2 DEF ReceiveLoad, UsesLoad, outputs
    <2>3. CASE c.live /\ c.pending # Nothing
      <3>1. savedPreview' = c.pending /\ loadedPair' = loadedPair
        BY <2>1, <2>3 DEF ReceiveLoad, UsesLoad
      <3>2. c.pending.pair = loadedPair
        BY <1>1, <2>3 DEF CallsInv, EffectInv
      <3> QED  BY <3>1, <3>2 DEF SavedInv
    <2> QED  BY <2>2, <2>3
  <1>9. CASE \E c \in loads : LoseLoad(c)
    BY <1>2, <1>9 DEF LoseLoad
  <1>10. CASE ServeSave
    BY <1>2, <1>10 DEF ServeSave, outputs, effect
  <1>11. CASE \E c \in actions : ReceiveAction(c)
    <2>1. PICK c \in actions : ReceiveAction(c)
      BY <1>11
    <2>2. loadedPair' = loadedPair
      BY <2>1 DEF ReceiveAction
    <2>3. CASE ~c.live
      BY <1>2, <2>1, <2>2, <2>3 DEF ReceiveAction, UsesAction, outputs
    <2>4. CASE c.live /\ ReceivePreview(c)
      BY <1>2, <2>2, <2>4 DEF ReceivePreview
    <2>5. CASE c.live /\ ReceiveSave(c)
      <3>1. savedPreview' = c.selection /\ c.kind = "save"
        BY <2>5 DEF ReceiveSave
      <3>2. c.selection.pair = loadedPair
        BY <1>1, <2>5, <3>1 DEF ActionInv
      <3> QED  BY <2>2, <3>1, <3>2 DEF SavedInv
    <2>6. CASE c.live /\ ReceiveReopened(c)
      <3>1. pending' = c.selection /\ c.selection \in Selection
        BY <1>1, <2>6 DEF ReceiveReopened, CallsInv
      <3>2. pending' # Nothing
        BY <3>1, BoundAssumption
      <3> QED  BY <3>2 DEF SavedInv
    <2> QED  BY <2>1, <2>3, <2>4, <2>5, <2>6 DEF ReceiveAction, UsesAction
  <1>12. CASE \E c \in actions : LoseAction(c)
    <2>1. PICK c \in actions : LoseAction(c)
      BY <1>12
    <2>2. loadedPair' = loadedPair /\ savedPreview' = savedPreview
      BY <2>1 DEF LoseAction, effect, outputs
    <2>3. CASE c.live /\ c.kind = "reopen" /\ pending # Nothing
      BY <1>1, <1>2, <2>2, <2>3 DEF ActionInv
    <2>4. CASE ~(c.live /\ c.kind = "reopen" /\ pending # Nothing)
      <3>1. pending' = pending
        BY <2>1, <2>4 DEF LoseAction, UsesAction
      <3> QED  BY <1>2, <2>2, <3>1
    <2> QED  BY <2>3, <2>4
  <1>13. CASE UNCHANGED vars
    BY <1>2, <1>13 DEF vars, outputs, effect
  <1> QED
    BY <1>3, <1>4, <1>5, <1>6, <1>7, <1>8, <1>9, <1>10, <1>11, <1>12, <1>13
    DEF Next, Reviewer, Loading, Acting

-----------------------------------------------------------------------------
LEMMA HandoffStart ==
    ASSUME Init
    PROVE  HandoffInv
  <1>1. TypedInv
    BY StoredAssumption DEF Init, TypedInv, CallsInv, ScreenInv, AtPair, AtSelection
  <1>2. EffectInv /\ ActionInv /\ SavedInv
    BY DEF Init, EffectInv, ActionInv, SavedInv
  <1> QED  BY <1>1, <1>2 DEF HandoffInv

LEMMA HandoffStep ==
    ASSUME HandoffInv, [Next]_vars
    PROVE  HandoffInv'
  BY CallsStep, ScreenStep, EffectStep, ActionStep, SavedStep DEF HandoffInv, TypedInv

LEMMA ScreenFollows ==
    ASSUME HandoffInv
    PROVE  ScreenIsOfThePair
  <1>1. ScreenInv /\ EffectInv /\ SavedInv
    BY DEF HandoffInv, TypedInv
  <1>2. Flushed => loadedPair = pair
    BY <1>1, FlushedIs
  <1>3. EvidenceIsOfThePair
    BY <1>1, <1>2 DEF EvidenceIsOfThePair, EffectInv
  <1>4. OutputIsOfThePair
    <2>1. savedPreview = Nothing /\ Displayed # Nothing => Displayed = Chosen
      BY DEF Displayed
    <2>2. Chosen.pair = pair
      BY DEF Chosen
    <2> QED  BY <1>1, <1>2, <2>1, <2>2 DEF OutputIsOfThePair, Displayed, SavedInv
  <1> QED  BY <1>3, <1>4 DEF ScreenIsOfThePair

\* The output on the screen, what is copied and downloaded, and the evidence
\* offered are about the pair in the selectors, in every interleaving of the
\* reviewer, the load effect, the loads, the previews, the saves and the
\* reopenings (HandoffView.tsx, loadGeneration and actionGeneration).
THEOREM ScreenIsAlwaysOfThePair == Spec => []ScreenIsOfThePair
  <1>1. HandoffInv /\ [Next]_vars => HandoffInv'
    BY HandoffStep
  <1> QED  BY HandoffStart, <1>1, ScreenFollows, PTL DEF Spec

=============================================================================
