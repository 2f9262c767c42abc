------------------------ MODULE HandoffRenderingProofs ------------------------
(* What a comparison tells, and how a handoff is fitted to its budgets, for    *)
(* any keys, versions, contents, lengths and limits.                           *)
EXTENDS HandoffRendering, FiniteSetTheorems, TLAPS

-----------------------------------------------------------------------------
(* The comparison.                                                            *)

(* A delta is one of an available section, at a position of one of its keys.  *)
LEMMA DeltaOrigin ==
    ASSUME NEW b, NEW t, NEW d \in CompareSnapshots(b, t)
    PROVE  \E s \in Sections, k \in Keys :
             \E i \in Positions(Occurrences(s, b.items, k), Occurrences(s, t.items, k)) :
               /\ ~Unavailable(s, b, t)
               /\ d = Delta(s, k, i, At(Occurrences(s, b.items, k), i),
                            At(Occurrences(s, t.items, k), i), Reasons(s, b, t))
               /\ d.change # "unchanged"
  BY DEF CompareSnapshots, SectionDeltas, Aligned

(* And every such difference is a delta.                                      *)
LEMMA DeltaMembership ==
    ASSUME NEW b, NEW t, NEW s \in Sections, NEW k \in Keys,
           NEW i \in Positions(Occurrences(s, b.items, k), Occurrences(s, t.items, k)),
           ~Unavailable(s, b, t),
           NEW d, d = Delta(s, k, i, At(Occurrences(s, b.items, k), i),
                            At(Occurrences(s, t.items, k), i), Reasons(s, b, t)),
           d.change # "unchanged"
    PROVE  d \in CompareSnapshots(b, t)
  BY DEF CompareSnapshots, SectionDeltas, Aligned

(* The reasons of one side are those of the other, the other way round.       *)
LEMMA ReasonsMirror ==
    ASSUME NEW b, NEW t, NEW s
    PROVE  /\ BaselineUncertain(Reasons(s, t, b)) <=> TargetUncertain(Reasons(s, b, t))
           /\ Unavailable(s, t, b) <=> Unavailable(s, b, t)
  <1>1. BaselineUncertain(Reasons(s, t, b)) <=> t.version # b.version \/ t.truncated \/ t.gaps
    BY DEF BaselineUncertain, Reasons
  <1>2. TargetUncertain(Reasons(s, b, t)) <=> b.version # t.version \/ t.truncated \/ t.gaps
    BY DEF TargetUncertain, Reasons
  <1>3. Unavailable(s, t, b) <=> Unavailable(s, b, t)
    BY DEF Unavailable
  <1> QED  BY <1>1, <1>2, <1>3

(* Occurrences are sequences; both ways of aligning them see the same          *)
(* positions.                                                                  *)
LEMMA OccurrencesAreSequences ==
    ASSUME NEW items \in Items, NEW s \in Sections, NEW k \in Keys
    PROVE  /\ items[s][k] \in Seq(Values)
           /\ Occurrences(s, items, k) \in Seq(Values)
           /\ Len(Occurrences(s, items, k)) <= Len(items[s][k])
           /\ s # "relationships" => Len(Occurrences(s, items, k)) <= 1
           /\ items[s][k] # <<>> => Len(Occurrences(s, items, k)) >= 1
  <1>1. items[s][k] \in Seq(Values)  BY DEF Items
  <1>2. CASE items[s][k] = <<>>
    BY <1>1, <1>2 DEF Occurrences, LastOf
  <1>3. CASE items[s][k] # <<>>
    <2>1. Len(items[s][k]) \in Nat /\ Len(items[s][k]) >= 1 /\ items[s][k][Len(items[s][k])] \in Values
      BY <1>1, <1>3
    <2> QED  BY <1>1, <1>3, <2>1 DEF Occurrences, LastOf
  <1> QED  BY <1>2, <1>3

LEMMA PositionsMirror ==
    ASSUME NEW before \in Seq(Values), NEW after \in Seq(Values)
    PROVE  /\ Positions(before, after) = Positions(after, before)
           /\ \A i \in Positions(before, after) :
                 i \in Nat /\ i >= 1 /\ (i <= Len(before) \/ i <= Len(after))
           /\ \A i \in Nat : i >= 1 /\ (i <= Len(before) \/ i <= Len(after)) =>
                 i \in Positions(before, after)
  <1>1. Len(before) \in Nat /\ Len(after) \in Nat  OBVIOUS
  <1> QED  BY <1>1 DEF Positions

(* The mirror of a delta is the delta of the mirrored comparison.             *)
LEMMA MirroredDelta ==
    ASSUME NEW b, NEW t, NEW s, NEW k, NEW i, NEW before, NEW after
    PROVE  LET d == Delta(s, k, i, before, after, Reasons(s, b, t))
               m == Delta(s, k, i, after, before, Reasons(s, t, b))
           IN  /\ before # {} \/ after # {} => m = Mirrored(d)
               /\ d.change = "unchanged" <=> m.change = "unchanged"
  <1> DEFINE there == Reasons(s, b, t)
             back == Reasons(s, t, b)
  <1>1. /\ BaselineUncertain(back) <=> TargetUncertain(there)
        /\ BaselineUncertain(there) <=> TargetUncertain(back)
    BY ReasonsMirror
  <1>2. before # {} \/ after # {} =>
          ChangeType(s, after, before, back) = MirroredChange(ChangeType(s, before, after, there))
    <2> HIDE DEF there, back
    <2> QED  BY <1>1 DEF ChangeType, MirroredChange
  <1>3. ChangeType(s, before, after, there) = "unchanged"
          <=> ChangeType(s, after, before, back) = "unchanged"
    <2> HIDE DEF there, back
    <2> QED  BY <1>1 DEF ChangeType
  <1> HIDE DEF there, back
  <1> QED  BY <1>2, <1>3 DEF Delta, Mirrored, there, back

LEMMA PresentAtPosition ==
    ASSUME NEW before \in Seq(Values), NEW after \in Seq(Values),
           NEW i \in Positions(before, after)
    PROVE  At(before, i) # {} \/ At(after, i) # {}
  BY PositionsMirror DEF At

LEMMA AbsentAtPosition ==
    ASSUME NEW q \in Seq(Values), NEW i \in Nat
    PROVE  At(q, i) = {} <=> i > Len(q)
  <1>1. Len(q) \in Nat  OBVIOUS
  <1> QED  BY <1>1 DEF At

LEMMA MirrorsInto ==
    ASSUME NEW b \in Evidence, NEW t \in Evidence, NEW d \in CompareSnapshots(b, t)
    PROVE  /\ Mirrored(d) \in CompareSnapshots(t, b)
           /\ Mirrored(Mirrored(d)) = d
  <1>1. PICK s \in Sections, k \in Keys :
          \E i \in Positions(Occurrences(s, b.items, k), Occurrences(s, t.items, k)) :
            /\ ~Unavailable(s, b, t)
            /\ d = Delta(s, k, i, At(Occurrences(s, b.items, k), i),
                         At(Occurrences(s, t.items, k), i), Reasons(s, b, t))
            /\ d.change # "unchanged"
    BY DeltaOrigin
  <1> DEFINE before == Occurrences(s, b.items, k)
             after == Occurrences(s, t.items, k)
  <1>2. PICK i \in Positions(before, after) :
            /\ ~Unavailable(s, b, t)
            /\ d = Delta(s, k, i, At(before, i), At(after, i), Reasons(s, b, t))
            /\ d.change # "unchanged"
    BY <1>1
  <1>3. before \in Seq(Values) /\ after \in Seq(Values)
    BY OccurrencesAreSequences DEF Evidence
  <1> DEFINE m == Delta(s, k, i, At(after, i), At(before, i), Reasons(s, t, b))
  <1>4. At(before, i) # {} \/ At(after, i) # {}  BY <1>3, PresentAtPosition
  <1>5. m = Mirrored(d) /\ m.change # "unchanged"
    BY <1>2, <1>4, MirroredDelta
  <1>6. d = Mirrored(m)
    BY <1>2, <1>4, MirroredDelta
  <1>7. i \in Positions(after, before) /\ ~Unavailable(s, t, b)
    BY <1>2, <1>3, PositionsMirror, ReasonsMirror
  <1>8. m \in CompareSnapshots(t, b)
    <2>1. m = Delta(s, k, i, At(Occurrences(s, t.items, k), i),
                    At(Occurrences(s, b.items, k), i), Reasons(s, t, b))
      OBVIOUS
    <2>2. i \in Positions(Occurrences(s, t.items, k), Occurrences(s, b.items, k))
      BY <1>7
    <2> HIDE DEF m
    <2> QED  BY <1>5, <1>7, <2>1, <2>2, DeltaMembership
  <1> QED  BY <1>5, <1>6, <1>8

(* Comparing the other way round yields exactly the mirrored deltas.          *)
THEOREM ComparisonIsSymmetric ==
    ASSUME NEW b \in Evidence, NEW t \in Evidence
    PROVE  CompareSnapshots(t, b) = {Mirrored(d) : d \in CompareSnapshots(b, t)}
  <1>1. ASSUME NEW d \in CompareSnapshots(t, b)
        PROVE  d \in {Mirrored(e) : e \in CompareSnapshots(b, t)}
    BY <1>1, MirrorsInto
  <1>2. ASSUME NEW d \in CompareSnapshots(b, t)
        PROVE  Mirrored(d) \in CompareSnapshots(t, b)
    BY <1>2, MirrorsInto
  <1> QED  BY <1>1, <1>2

(* What is added was not there, what is removed is not there any more: for     *)
(* evidence that observes the contents rb and rt but for the keys ub and ut.   *)
THEOREM AbsenceIsNeverMistaken ==
    ASSUME NEW b \in Evidence, NEW t \in Evidence, NEW rb \in Items, NEW rt \in Items,
           NEW ub, NEW ut, Observes(b, rb, ub), Observes(t, rt, ut)
    PROVE  AbsenceIsReal(CompareSnapshots(b, t), rb, ub, rt, ut)
  <1> SUFFICES ASSUME NEW d \in CompareSnapshots(b, t)
               PROVE  /\ d.change = "added" /\ <<d.section, d.key>> \notin ub =>
                             Len(rb[d.section][d.key]) < d.index
                      /\ d.change = "removed" /\ <<d.section, d.key>> \notin ut =>
                             Len(rt[d.section][d.key]) < d.index
    BY DEF AbsenceIsReal
  <1>1. PICK s \in Sections, k \in Keys :
          \E i \in Positions(Occurrences(s, b.items, k), Occurrences(s, t.items, k)) :
            /\ ~Unavailable(s, b, t)
            /\ d = Delta(s, k, i, At(Occurrences(s, b.items, k), i),
                         At(Occurrences(s, t.items, k), i), Reasons(s, b, t))
            /\ d.change # "unchanged"
    BY DeltaOrigin
  <1> DEFINE before == Occurrences(s, b.items, k)
             after == Occurrences(s, t.items, k)
  <1>2. PICK i \in Positions(before, after) :
            d = Delta(s, k, i, At(before, i), At(after, i), Reasons(s, b, t))
    BY <1>1
  <1>3. /\ before \in Seq(Values) /\ b.items[s][k] \in Seq(Values) /\ rb[s][k] \in Seq(Values)
        /\ after \in Seq(Values) /\ t.items[s][k] \in Seq(Values) /\ rt[s][k] \in Seq(Values)
        /\ s # "relationships" => Len(before) <= 1 /\ Len(after) <= 1
        /\ b.items[s][k] # <<>> => Len(before) >= 1
        /\ t.items[s][k] # <<>> => Len(after) >= 1
        /\ s = "relationships" => before = b.items[s][k] /\ after = t.items[s][k]
    <2>1. b.items \in Items /\ t.items \in Items  BY DEF Evidence
    <2>2. s = "relationships" => before = b.items[s][k] /\ after = t.items[s][k]
      BY DEF Occurrences
    <2> QED  BY <2>1, <2>2, OccurrencesAreSequences
  <1>4. i \in Nat /\ i >= 1 /\ (i <= Len(before) \/ i <= Len(after))
    BY <1>3, PositionsMirror
  <1>5. d.section = s /\ d.key = k /\ d.index = i
        /\ d.change = ChangeType(s, At(before, i), At(after, i), Reasons(s, b, t))
    BY <1>2 DEF Delta
  <1>6. ASSUME d.change = "added", <<s, k>> \notin ub
        PROVE  Len(rb[s][k]) < i
    <2>1. At(before, i) = {} /\ ~BaselineUncertain(Reasons(s, b, t))
      BY <1>5, <1>6 DEF ChangeType
    <2>2. i > Len(before) /\ i <= Len(after)
      <3>1. i > Len(before)  BY <2>1, <1>3, <1>4, AbsentAtPosition
      <3>2. Len(before) \in Nat /\ Len(after) \in Nat  BY <1>3
      <3> QED  BY <1>4, <3>1, <3>2
    <2>3. Complete(b) /\ b.version = t.version
      BY <2>1 DEF BaselineUncertain, Reasons, Complete
    <2>4. Len(after) <= Len(t.items[s][k])
      BY OccurrencesAreSequences DEF Evidence
    <2>5. <<b.version, s, k>> \notin Blind
      <3>1. t.items[s][k] # <<>>  BY <1>3, <1>4, <2>2, <2>4
      <3> QED  BY <3>1, <2>3 DEF Observes
    <2>6. b.items[s][k] = rb[s][k]
      BY <1>6, <2>3, <2>5 DEF Observes
    <2>7. CASE s = "relationships"
      BY <1>3, <2>2, <2>6, <2>7
    <2>8. CASE s # "relationships"
      BY <1>3, <1>4, <2>2, <2>6, <2>8
    <2> QED  BY <2>7, <2>8
  <1>7. ASSUME d.change = "removed", <<s, k>> \notin ut
        PROVE  Len(rt[s][k]) < i
    <2>1. At(after, i) = {} /\ ~TargetUncertain(Reasons(s, b, t))
      BY <1>5, <1>7 DEF ChangeType
    <2>2. i > Len(after) /\ i <= Len(before)
      <3>1. i > Len(after)  BY <2>1, <1>3, <1>4, AbsentAtPosition
      <3>2. Len(after) \in Nat /\ Len(before) \in Nat  BY <1>3
      <3> QED  BY <1>4, <3>1, <3>2
    <2>3. Complete(t) /\ b.version = t.version
      BY <2>1 DEF TargetUncertain, Reasons, Complete
    <2>4. Len(before) <= Len(b.items[s][k])
      BY OccurrencesAreSequences DEF Evidence
    <2>5. <<t.version, s, k>> \notin Blind
      <3>1. b.items[s][k] # <<>>  BY <1>3, <1>4, <2>2, <2>4
      <3> QED  BY <3>1, <2>3 DEF Observes
    <2>6. t.items[s][k] = rt[s][k]
      BY <1>7, <2>3, <2>5 DEF Observes
    <2>7. CASE s = "relationships"
      BY <1>3, <2>2, <2>6, <2>7
    <2>8. CASE s # "relationships"
      BY <1>3, <1>4, <2>2, <2>6, <2>8
    <2> QED  BY <2>7, <2>8
  <1> QED  BY <1>5, <1>6, <1>7

LEMMA LastOfShort ==
    ASSUME NEW q \in Seq(Values), Len(q) <= 1
    PROVE  LastOf(q) = q
  <1>1. CASE q = <<>>  BY <1>1 DEF LastOf
  <1>2. CASE q # <<>>
    <2>1. Len(q) = 1
      <3>1. Len(q) \in Nat /\ Len(q) # 0  BY <1>2
      <3>2. Len(q) <= 1  OBVIOUS
      <3>3. \A n \in Nat : n # 0 /\ n <= 1 => n = 1  OBVIOUS
      <3> QED  BY <3>1, <3>2, <3>3
    <2>2. q = <<q[1]>>  BY <2>1
    <2>3. LastOf(q) = <<q[1]>>  BY <1>2, <2>1 DEF LastOf
    <2> QED  BY <2>2, <2>3
  <1> QED  BY <1>1, <1>2

(* Where a key has one occurrence, or is aligned by position, nothing is lost. *)
LEMMA OccurrencesAreAll ==
    ASSUME NEW items \in Items, NEW s \in Sections, NEW k \in Keys,
           s = "relationships" \/ Len(items[s][k]) <= 1
    PROVE  Occurrences(s, items, k) = items[s][k]
  <1>1. items[s][k] \in Seq(Values)  BY OccurrencesAreSequences
  <1>2. CASE s = "relationships"  BY <1>2 DEF Occurrences
  <1>3. CASE s # "relationships"  BY <1>1, <1>3, LastOfShort DEF Occurrences
  <1> QED  BY <1>2, <1>3

(* Between complete observations of one version the deltas tell everything.   *)
THEOREM NothingGoesUntold ==
    ASSUME NEW b \in Evidence, NEW t \in Evidence, NEW rb \in Items, NEW rt \in Items,
           NEW ub, NEW ut, Observes(b, rb, ub), Observes(t, rt, ut),
           NEW s \in Sections \ {"cycles"}, NEW k \in Keys, Comparable(s, k, b, t, rb, ub, rt, ut)
    PROVE  Replays(CompareSnapshots(b, t), s, k, rb, rt)
  <1> DEFINE before == rb[s][k]
             after == rt[s][k]
             deltas == CompareSnapshots(b, t)
  <1>1. b.items[s][k] = before /\ t.items[s][k] = after
    BY DEF Comparable, Observes
  <1>2. /\ b.items \in Items /\ t.items \in Items
        /\ before \in Seq(Values) /\ after \in Seq(Values)
    BY OccurrencesAreSequences DEF Evidence
  <1>3. Occurrences(s, b.items, k) = before /\ Occurrences(s, t.items, k) = after
    BY <1>1, <1>2, OccurrencesAreAll DEF Comparable, Single
  <1> SUFFICES ASSUME NEW i \in 1 .. Len(before) + Len(after)
               PROVE  IF DeltasAt(deltas, s, k, i) = {} THEN At(after, i) = At(before, i)
                      ELSE \A d \in DeltasAt(deltas, s, k, i) :
                               d.before = At(before, i) /\ d.after = At(after, i)
    BY DEF Replays
  <1>4. i \in Nat /\ i >= 1  BY <1>2
  <1>5. ASSUME DeltasAt(deltas, s, k, i) = {}, At(after, i) # At(before, i)
        PROVE  FALSE
    <2> DEFINE d == Delta(s, k, i, At(before, i), At(after, i), Reasons(s, b, t))
    <2>1. i \in Positions(before, after)
      <3>1. i <= Len(before) \/ i <= Len(after)
        <4>1. ~(At(before, i) = {} /\ At(after, i) = {})  BY <1>5
        <4>2. Len(before) \in Nat /\ Len(after) \in Nat  BY <1>2
        <4>3. ~(i > Len(before) /\ i > Len(after))
          BY <1>2, <1>4, <4>1, AbsentAtPosition
        <4> QED  BY <1>4, <4>2, <4>3
      <3> QED  BY <1>2, <1>4, <3>1, PositionsMirror
    <2>2. d.change # "unchanged"
      BY <1>5 DEF Delta, ChangeType
    <2>3. ~Unavailable(s, b, t)  BY DEF Comparable
    <2>4. d \in deltas
      <3>1. d = Delta(s, k, i, At(Occurrences(s, b.items, k), i),
                      At(Occurrences(s, t.items, k), i), Reasons(s, b, t))
        BY <1>3
      <3>2. i \in Positions(Occurrences(s, b.items, k), Occurrences(s, t.items, k))
        BY <1>3, <2>1
      <3> HIDE DEF d
      <3> QED  BY <2>2, <2>3, <3>1, <3>2, DeltaMembership
    <2>5. d.section = s /\ d.key = k /\ d.index = i  BY DEF Delta
    <2> QED  BY <1>5, <2>4, <2>5 DEF DeltasAt
  <1>6. ASSUME NEW d \in DeltasAt(deltas, s, k, i)
        PROVE  d.before = At(before, i) /\ d.after = At(after, i)
    <2>1. d \in deltas /\ d.section = s /\ d.key = k /\ d.index = i  BY <1>6 DEF DeltasAt
    <2>2. PICK s1 \in Sections, k1 \in Keys :
             \E i1 \in Positions(Occurrences(s1, b.items, k1), Occurrences(s1, t.items, k1)) :
               d = Delta(s1, k1, i1, At(Occurrences(s1, b.items, k1), i1),
                         At(Occurrences(s1, t.items, k1), i1), Reasons(s1, b, t))
      BY <2>1, DeltaOrigin
    <2>3. PICK i1 : d = Delta(s1, k1, i1, At(Occurrences(s1, b.items, k1), i1),
                              At(Occurrences(s1, t.items, k1), i1), Reasons(s1, b, t))
      BY <2>2
    <2>4. s1 = s /\ k1 = k /\ i1 = i  BY <2>1, <2>3 DEF Delta
    <2> QED  BY <1>3, <2>3, <2>4 DEF Delta
  <1> QED  BY <1>5, <1>6

-----------------------------------------------------------------------------
(* The comparison a handoff draws on.  What is held as its comparison is that  *)
(* of the two snapshots, or nothing.                                           *)

ComparisonInv ==
    /\ pair \in Pairs
    /\ \/ comparison = {}
       \/ HasBaseline /\ comparison = CompareSnapshots(Base, Target)
    /\ phase = "compared" /\ HasBaseline => comparison = CompareSnapshots(Base, Target)

LEMMA PairsObserve ==
    ASSUME pair \in Pairs
    PROVE  /\ Target \in Evidence /\ pair.target.real \in Items
           /\ Observes(Target, pair.target.real, pair.target.unread)
           /\ HasBaseline => /\ Base \in Evidence /\ pair.baseline.real \in Items
                             /\ Observes(Base, pair.baseline.real, pair.baseline.unread)
  BY ObservationAssumption DEF Target, Base, HasBaseline

LEMMA ComparisonIsKept == Spec => []ComparisonInv
  <1>1. Init => ComparisonInv
    BY DEF Init, ComparisonInv
  <1>2. ComparisonInv /\ [Next]_vars => ComparisonInv'
    <2> SUFFICES ASSUME ComparisonInv, [Next]_vars PROVE ComparisonInv'
      OBVIOUS
    <2> USE DEF ComparisonInv, HasBaseline, Base, Target
    <2>1. CASE Compare  BY <2>1 DEF Compare
    <2>2. CASE Ask  BY <2>2 DEF Ask
    <2>3. CASE Refuse  BY <2>3 DEF Refuse
    <2>4. CASE CutSections  BY <2>4 DEF CutSections
    <2>5. CASE CutFindings  BY <2>5 DEF CutFindings
    <2>6. CASE FitJson  BY <2>6 DEF FitJson
    <2>7. CASE FitMarkdown  BY <2>7 DEF FitMarkdown
    <2>8. CASE AnnounceCut  BY <2>8 DEF AnnounceCut
    <2>9. CASE Retract  BY <2>9 DEF Retract
    <2>10. CASE CutMarkdown  BY <2>10 DEF CutMarkdown
    <2>11. CASE UNCHANGED vars  BY <2>11 DEF vars
    <2> QED  BY <2>1, <2>2, <2>3, <2>4, <2>5, <2>6, <2>7, <2>8, <2>9, <2>10, <2>11 DEF Next
  <1> QED  BY <1>1, <1>2, PTL DEF Spec

(* No handoff draws on an addition of what was there, or a removal of what is   *)
(* still there, but of what depends on files that were not read.               *)
THEOREM AbsenceAlwaysTrue == Spec => []AbsenceIsTrue
  <1>1. ComparisonInv => AbsenceIsTrue
    <2> SUFFICES ASSUME ComparisonInv, HasBaseline
                 PROVE  AbsenceIsReal(comparison, pair.baseline.real, pair.baseline.unread,
                                      pair.target.real, pair.target.unread)
      BY DEF AbsenceIsTrue
    <2>1. CASE comparison = {}  BY <2>1 DEF AbsenceIsReal
    <2>2. CASE comparison = CompareSnapshots(Base, Target)
      BY <2>2, PairsObserve, AbsenceIsNeverMistaken DEF ComparisonInv
    <2> QED  BY <2>1, <2>2 DEF ComparisonInv
  <1> QED  BY <1>1, ComparisonIsKept, PTL

(* The comparison of any two snapshots mirrors that of the two swapped.       *)
THEOREM AlwaysMirrors == Spec => []ComparisonMirrors
  <1>1. ComparisonInv => ComparisonMirrors
    <2> SUFFICES ASSUME ComparisonInv, phase = "compared", HasBaseline
                 PROVE  CompareSnapshots(Target, Base) = {Mirrored(d) : d \in comparison}
      BY DEF ComparisonMirrors
    <2>1. comparison = CompareSnapshots(Base, Target)  BY DEF ComparisonInv
    <2>2. Base \in Evidence /\ Target \in Evidence  BY PairsObserve DEF ComparisonInv
    <2> QED  BY <2>1, <2>2, ComparisonIsSymmetric
  <1> QED  BY <1>1, ComparisonIsKept, PTL

(* Between complete snapshots of one version nothing goes untold of the         *)
(* relationships and of keys that occur once, but of files that were not read. *)
THEOREM DifferenceAlwaysTold == Spec => []DeltasTellTheDifference
  <1>1. ComparisonInv => DeltasTellTheDifference
    <2> SUFFICES ASSUME ComparisonInv, phase = "compared", HasBaseline,
                        NEW s \in Sections \ {"cycles"}, NEW k \in Keys,
                        Comparable(s, k, Base, Target, pair.baseline.real, pair.baseline.unread,
                                   pair.target.real, pair.target.unread)
                 PROVE  Replays(comparison, s, k, pair.baseline.real, pair.target.real)
      BY DEF DeltasTellTheDifference
    <2>1. comparison = CompareSnapshots(Base, Target)  BY DEF ComparisonInv
    <2> QED  BY <2>1, PairsObserve, NothingGoesUntold DEF ComparisonInv
  <1> QED  BY <1>1, ComparisonIsKept, PTL

-----------------------------------------------------------------------------
(* What a payload tells.                                                      *)

IsPayload(p) ==
    /\ IsFiniteSet(p.changes) /\ IsFiniteSet(p.findings)
    /\ p.omitted = [c \in Counts |-> p.omitted[c]]
    /\ p.omitted["markdown-characters"] \in Nat /\ p.omitted["json-budget-items"] \in Nat

Told(p) ==
    /\ IsPayload(p)
    /\ p.omitted["markdown-characters"] > 0 <=> MarkdownWarning \in p.warnings
    /\ p.omitted["json-budget-items"] > 0 <=> JsonWarning \in p.warnings

LEMMA DistinctWarnings ==
    /\ JsonWarning # MarkdownWarning
    /\ TruncationWarning \notin {JsonWarning, MarkdownWarning}
    /\ AnalysisWarnings \cap {JsonWarning, MarkdownWarning} = {}
  <1>1. JsonWarning # MarkdownWarning /\ TruncationWarning \notin {JsonWarning, MarkdownWarning}
    BY DEF JsonWarning, MarkdownWarning, TruncationWarning
  <1>2. ASSUME NEW x, NEW y, NEW z PROVE <<x, y>> # <<z>>
    <2>1. Len(<<x, y>>) = 2 /\ Len(<<z>>) = 1  OBVIOUS
    <2> QED  BY <2>1
  <1>3. ASSUME NEW w \in AnalysisWarnings PROVE \E x, y : w = <<x, y>>
    BY <1>3 DEF AnalysisWarnings, SideWarnings
  <1>4. AnalysisWarnings \cap {JsonWarning, MarkdownWarning} = {}
    BY <1>2, <1>3 DEF JsonWarning, MarkdownWarning
  <1> QED  BY <1>1, <1>4

LEMMA EvidentIsNat ==
    ASSUME NEW p, IsPayload(p)
    PROVE  Evident(p) \in Nat
  BY FS_CardinalityType DEF IsPayload, Evident

(* Setting one count leaves the others.                                       *)
LEMMA CountUpdate ==
    ASSUME NEW o, o = [c \in Counts |-> o[c]], NEW c \in Counts, NEW n
    PROVE  LET u == [o EXCEPT ![c] = n]
           IN  /\ u = [e \in Counts |-> u[e]] /\ u[c] = n
               /\ \A e \in Counts \ {c} : u[e] = o[e]
  OBVIOUS

LEMMA NoticeTells ==
    ASSUME NEW p, Told(p)
    PROVE  /\ Told(WithMarkdownNotice(p))
           /\ MarkdownWarning \in WithMarkdownNotice(p).warnings
           /\ Told(WithoutMarkdownNotice(p))
           /\ MarkdownWarning \notin WithoutMarkdownNotice(p).warnings
  <1>1. {"markdown-characters", "json-budget-items"} \subseteq Counts
        /\ "markdown-characters" # "json-budget-items"
    BY DEF Counts
  <1>2. p.omitted = [c \in Counts |-> p.omitted[c]]  BY DEF Told, IsPayload
  <1>3. Told(WithMarkdownNotice(p)) /\ MarkdownWarning \in WithMarkdownNotice(p).warnings
    BY <1>1, <1>2, CountUpdate, DistinctWarnings
       DEF Told, IsPayload, WithMarkdownNotice, Payload
  <1>4. Told(WithoutMarkdownNotice(p)) /\ MarkdownWarning \notin WithoutMarkdownNotice(p).warnings
    BY <1>1, <1>2, CountUpdate, DistinctWarnings
       DEF Told, IsPayload, WithoutMarkdownNotice, Payload
  <1> QED  BY <1>3, <1>4

LEMMA OmissionTells ==
    ASSUME NEW p, Told(p)
    PROVE  /\ Told(Omitted(p))
           /\ MarkdownWarning \in Omitted(p).warnings <=> MarkdownWarning \in p.warnings
  <1>1. CASE Omitted(p) = p  BY <1>1
  <1>2. CASE Omitted(p) # p
    <2>1. Evident(p) > 0 /\ Evident(p) \in Nat /\ Omitted(p) = WithoutEvidence(p)
      BY <1>2, EvidentIsNat DEF Omitted, Told
    <2>2. {"markdown-characters", "json-budget-items"} \subseteq Counts
          /\ "markdown-characters" # "json-budget-items"
      BY DEF Counts
    <2>3. p.omitted = [c \in Counts |-> p.omitted[c]]  BY DEF Told, IsPayload
    <2>4. p.omitted["json-budget-items"] + Evident(p) \in Nat
          /\ p.omitted["json-budget-items"] + Evident(p) > 0
      BY <2>1 DEF Told, IsPayload
    <2>5. Told(WithoutEvidence(p))
      BY <2>2, <2>3, <2>4, CountUpdate, FS_EmptySet, DistinctWarnings
         DEF Told, IsPayload, WithoutEvidence, Payload
    <2>6. WithoutEvidence(p).warnings = p.warnings \cup {JsonWarning}
      BY DEF WithoutEvidence, Payload
    <2> QED  BY <2>1, <2>5, <2>6, DistinctWarnings
  <1> QED  BY <1>1, <1>2

-----------------------------------------------------------------------------
(* The request and the payload, phase by phase.                               *)

RequestInv ==
    phase \in {"asked", "sections", "assembled", "json", "announced", "done", "too small"} =>
        /\ IsFiniteSet(selection.deltas) /\ IsFiniteSet(selection.findings)
        /\ Budget \in [Limits -> Nat] /\ Objective \in Nat

LEMMA RequestIsKept == Spec => []RequestInv
  <1>1. Init => RequestInv  BY DEF Init, RequestInv
  <1>2. RequestInv /\ [Next]_vars => RequestInv'
    <2> SUFFICES ASSUME RequestInv, [Next]_vars PROVE RequestInv'
      OBVIOUS
    <2> USE DEF RequestInv, Budget, Objective, Enabled
    <2>1. CASE Compare  BY <2>1 DEF Compare
    <2>2. CASE Ask
      <3>1. PICK s \in Selections, deltas \in SUBSET (comparison \cup StaleDeltas) :
              /\ IsFiniteSet(deltas)
              /\ selection' = [deltas |-> deltas, sections |-> s.sections,
                               findings |-> s.findings, notes |-> s.notes,
                               objective |-> s.objective, budget |-> s.budget]
        BY <2>2 DEF Ask
      <3>2. IsFiniteSet(s.findings) /\ s.budget \in [Limits -> Nat] /\ s.objective \in Nat
        BY RenderingAssumption
      <3> QED  BY <3>1, <3>2
    <2>3. CASE Refuse  BY <2>3 DEF Refuse
    <2>4. CASE CutSections  BY <2>4 DEF CutSections
    <2>5. CASE CutFindings  BY <2>5 DEF CutFindings
    <2>6. CASE FitJson  BY <2>6 DEF FitJson
    <2>7. CASE FitMarkdown  BY <2>7 DEF FitMarkdown
    <2>8. CASE AnnounceCut  BY <2>8 DEF AnnounceCut
    <2>9. CASE Retract  BY <2>9 DEF Retract
    <2>10. CASE CutMarkdown  BY <2>10 DEF CutMarkdown
    <2>11. CASE UNCHANGED vars  BY <2>11 DEF vars
    <2> QED  BY <2>1, <2>2, <2>3, <2>4, <2>5, <2>6, <2>7, <2>8, <2>9, <2>10, <2>11 DEF Next
  <1> QED  BY <1>1, <1>2, PTL DEF Spec

OutputInv ==
    /\ phase \in {"sections", "assembled", "json", "announced", "done"} => Told(payload)
    /\ phase \in {"sections", "assembled"} => JsonWarning \notin payload.warnings
    /\ phase \in {"sections", "assembled", "json"} => MarkdownWarning \notin payload.warnings
    /\ phase = "announced" => MarkdownWarning \in payload.warnings
    /\ phase \in {"json", "announced", "done"} => json = payload
    /\ phase = "done" => /\ markdown.of = payload
                         /\ markdown.cut <=> MarkdownWarning \in payload.warnings
                         /\ markdown.cut \/ markdown.gaps = payload.warnings

LEMMA CutSectionsTells ==
    ASSUME RequestInv, CutSections
    PROVE  /\ Told(payload')
           /\ JsonWarning \notin payload'.warnings /\ MarkdownWarning \notin payload'.warnings
  <1>1. PICK included \in SUBSET selection.deltas :
          payload' = Payload(included, {}, AnalysisWarnings,
                [c \in Counts |-> IF c \in Sections
                                  THEN Excess(Cardinality(Selected(c)), Budget.items) ELSE 0])
    BY DEF CutSections
  <1>2. IsFiniteSet(included) /\ IsFiniteSet({})
    BY FS_Subset, FS_EmptySet DEF RequestInv, CutSections
  <1>3. /\ {"markdown-characters", "json-budget-items"} \subseteq Counts \ Sections
    BY DEF Counts, Sections
  <1>4. /\ payload'.omitted = [c \in Counts |-> payload'.omitted[c]]
        /\ payload'.omitted["markdown-characters"] = 0 /\ payload'.omitted["json-budget-items"] = 0
        /\ payload'.changes = included /\ payload'.findings = {}
        /\ payload'.warnings = AnalysisWarnings
    BY <1>1, <1>3 DEF Payload
  <1> QED  BY <1>2, <1>4, DistinctWarnings DEF Told, IsPayload

LEMMA CutFindingsTells ==
    ASSUME RequestInv, CutFindings, Told(payload),
           JsonWarning \notin payload.warnings, MarkdownWarning \notin payload.warnings
    PROVE  /\ Told(payload')
           /\ JsonWarning \notin payload'.warnings /\ MarkdownWarning \notin payload'.warnings
           /\ payload'.changes = payload.changes /\ payload.warnings \subseteq payload'.warnings
           /\ payload'.warnings \subseteq payload.warnings \cup {TruncationWarning}
  <1>1. PICK shown \in SUBSET selection.findings :
          LET p == Payload(payload.changes, IF "findings" \in Enabled THEN shown ELSE {},
                    payload.warnings,
                    [payload.omitted EXCEPT !["findings"] = FindingsOmitted(payload),
                                            !["review-note-characters"] = NoteExcess(shown)])
          IN payload' = IF Counted(p) # {}
                        THEN Payload(p.changes, p.findings,
                                     p.warnings \cup {TruncationWarning}, p.omitted)
                        ELSE p
    BY DEF CutFindings
  <1> DEFINE o == [[payload.omitted EXCEPT !["findings"] = FindingsOmitted(payload)]
                       EXCEPT !["review-note-characters"] = NoteExcess(shown)]
  <1>2. /\ payload'.changes = payload.changes
        /\ payload'.findings \in {shown, {}}
        /\ payload'.warnings \in {payload.warnings, payload.warnings \cup {TruncationWarning}}
        /\ payload'.omitted = o
    BY <1>1 DEF Payload
  <1>3. o = [c \in Counts |-> o[c]]
        /\ o["markdown-characters"] = payload.omitted["markdown-characters"]
        /\ o["json-budget-items"] = payload.omitted["json-budget-items"]
    <2>1. payload.omitted = [c \in Counts |-> payload.omitted[c]]  BY DEF Told, IsPayload
    <2>2. {"findings", "review-note-characters", "markdown-characters", "json-budget-items"}
             \subseteq Counts
      BY DEF Counts, Sections
    <2> QED  BY <2>1, <2>2
  <1>4. IsFiniteSet(shown) /\ IsFiniteSet({})
    BY FS_Subset, FS_EmptySet DEF RequestInv, CutFindings
  <1> HIDE DEF o
  <1> QED  BY <1>2, <1>3, <1>4, DistinctWarnings DEF Told, IsPayload

LEMMA OutputStep ==
    ASSUME OutputInv, RequestInv, [Next]_vars
    PROVE  OutputInv'
  <1> USE DEF OutputInv
  <1>1. CASE Compare  BY <1>1 DEF Compare
  <1>2. CASE Ask  BY <1>2 DEF Ask
  <1>3. CASE Refuse  BY <1>3 DEF Refuse
  <1>4. CASE CutSections  BY <1>4, CutSectionsTells DEF CutSections
  <1>5. CASE CutFindings  BY <1>5, CutFindingsTells DEF CutFindings
  <1>6. CASE FitJson  BY <1>6, OmissionTells DEF FitJson
  <1>7. CASE FitMarkdown  BY <1>7 DEF FitMarkdown, Whole
  <1>8. CASE AnnounceCut
    <2> DEFINE announced == WithMarkdownNotice(payload)
    <2>1. Told(announced) /\ MarkdownWarning \in announced.warnings
      BY <1>8, NoticeTells DEF AnnounceCut
    <2>2. Told(Omitted(announced)) /\ MarkdownWarning \in Omitted(announced).warnings
      <3> HIDE DEF announced
      <3> QED  BY <2>1, OmissionTells
    <2>3. phase' = "announced" /\ payload' = Omitted(announced) /\ json' = payload'
      BY <1>8 DEF AnnounceCut
    <2> HIDE DEF announced
    <2> QED  BY <2>2, <2>3
  <1>9. CASE Retract
    <2> DEFINE retracted == WithoutMarkdownNotice(payload)
    <2>1. Told(retracted) /\ MarkdownWarning \notin retracted.warnings
      BY <1>9, NoticeTells DEF Retract
    <2>2. /\ payload' = retracted /\ json' = payload'
          /\ \/ phase' = "too small"
             \/ phase' = "done" /\ markdown' = Whole(payload')
      BY <1>9 DEF Retract
    <2> HIDE DEF retracted
    <2>3. CASE phase' = "too small"  BY <2>3
    <2>4. CASE phase' = "done" /\ markdown' = Whole(payload')
      <3>1. /\ markdown'.of = payload' /\ ~markdown'.cut
            /\ markdown'.gaps = payload'.warnings
        BY <2>4 DEF Whole
      <3> QED  BY <2>1, <2>2, <2>4, <3>1
    <2> QED  BY <2>2, <2>3, <2>4
  <1>10. CASE CutMarkdown
    <2>1. /\ UNCHANGED <<payload, json>> /\ phase = "announced"
          /\ \/ phase' = "too small"
             \/ /\ phase' = "done"
                /\ \E gaps : markdown' = [of |-> payload, gaps |-> gaps, cut |-> TRUE]
      BY <1>10 DEF CutMarkdown
    <2>2. CASE phase' = "too small"  BY <2>1, <2>2
    <2>3. CASE /\ phase' = "done"
               /\ \E gaps : markdown' = [of |-> payload, gaps |-> gaps, cut |-> TRUE]
      <3>1. markdown'.of = payload' /\ markdown'.cut  BY <2>1, <2>3
      <3> QED  BY <2>1, <2>3, <3>1
    <2> QED  BY <2>1, <2>2, <2>3
  <1>11. CASE UNCHANGED vars  BY <1>11 DEF vars
  <1> QED  BY <1>1, <1>2, <1>3, <1>4, <1>5, <1>6, <1>7, <1>8, <1>9, <1>10, <1>11 DEF Next

(* Both texts of a handoff are made from one payload, whose warnings are true. *)
THEOREM OutputsAlwaysAgree == Spec => []OutputsTellTheSame
  <1>1. Init => OutputInv  BY DEF Init, OutputInv
  <1>2. OutputInv /\ RequestInv /\ [Next]_vars => OutputInv'  BY OutputStep
  <1>3. OutputInv => OutputsTellTheSame
    <2> SUFFICES ASSUME OutputInv, phase = "done"
                 PROVE  /\ json = markdown.of
                        /\ markdown.cut <=> json.omitted["markdown-characters"] > 0
                        /\ markdown.cut <=> MarkdownWarning \in json.warnings
                        /\ json.omitted["json-budget-items"] > 0 <=> JsonWarning \in json.warnings
      BY DEF OutputsTellTheSame
    <2> QED  BY DEF OutputInv, Told
  <1> QED  BY <1>1, <1>2, <1>3, RequestIsKept, PTL DEF Spec

-----------------------------------------------------------------------------
(* Partial evidence stays labelled.                                           *)

LabelInv ==
    phase \in {"sections", "assembled", "json", "announced", "done"} =>
        AnalysisWarnings \subseteq payload.warnings /\ payload.changes \subseteq comparison

LEMMA WarningsDependOnPair ==
    ASSUME UNCHANGED pair PROVE AnalysisWarnings' = AnalysisWarnings
  BY DEF AnalysisWarnings, SideWarnings, Target, Base, HasBaseline, Supported,
         Unavailable, Reasons, Complete

(* Fitting a payload to its budgets drops evidence, never a warning of the     *)
(* analysis.                                                                   *)
LEMMA FittingKeepsLabels ==
    ASSUME NEW p, NEW labels, labels \subseteq p.warnings, labels \cap {MarkdownWarning} = {}
    PROVE  /\ labels \subseteq Omitted(p).warnings /\ Omitted(p).changes \subseteq p.changes
           /\ labels \subseteq WithMarkdownNotice(p).warnings
           /\ WithMarkdownNotice(p).changes = p.changes
           /\ labels \subseteq WithoutMarkdownNotice(p).warnings
           /\ WithoutMarkdownNotice(p).changes = p.changes
  <1>1. labels \subseteq Omitted(p).warnings /\ Omitted(p).changes \subseteq p.changes
    BY DEF Omitted, WithoutEvidence, Payload
  <1> QED  BY <1>1 DEF WithMarkdownNotice, WithoutMarkdownNotice, Payload

LEMMA LabelStep ==
    ASSUME LabelInv, OutputInv, RequestInv, [Next]_vars
    PROVE  LabelInv'
  <1> DEFINE labels == AnalysisWarnings
  <1>1. UNCHANGED pair /\ labels' = labels
    <2>1. UNCHANGED pair
      BY DEF Next, vars, Compare, Ask, Refuse, CutSections, CutFindings, FitJson, FitMarkdown,
             AnnounceCut, Retract, CutMarkdown
    <2> QED  BY <2>1, WarningsDependOnPair
  <1>2. labels \cap {MarkdownWarning} = {}  BY DistinctWarnings
  <1>3. LabelInv <=> (phase \in {"sections", "assembled", "json", "announced", "done"} =>
                        labels \subseteq payload.warnings /\ payload.changes \subseteq comparison)
    BY DEF LabelInv
  <1>4. LabelInv' <=> (phase' \in {"sections", "assembled", "json", "announced", "done"} =>
                        labels \subseteq payload'.warnings /\ payload'.changes \subseteq comparison')
    BY <1>1 DEF LabelInv
  <1>5. CASE Compare  BY <1>4, <1>5 DEF Compare
  <1>6. CASE Ask  BY <1>4, <1>6 DEF Ask
  <1>7. CASE Refuse  BY <1>4, <1>7 DEF Refuse
  <1>8. CASE CutSections
    <2>1. PICK included \in SUBSET selection.deltas :
            payload' = Payload(included, {}, AnalysisWarnings,
                  [c \in Counts |-> IF c \in Sections
                                    THEN Excess(Cardinality(Selected(c)), Budget.items) ELSE 0])
      BY <1>8 DEF CutSections
    <2>2. selection.deltas \subseteq comparison /\ UNCHANGED comparison
      BY <1>8 DEF CutSections, Acceptable
    <2> QED  BY <1>4, <2>1, <2>2 DEF Payload
  <1>9. CASE CutFindings
    <2>1. phase = "sections" /\ UNCHANGED comparison  BY <1>9 DEF CutFindings
    <2>2. payload'.changes = payload.changes /\ payload.warnings \subseteq payload'.warnings
      BY <1>9, <2>1, CutFindingsTells DEF OutputInv
    <2> HIDE DEF labels
    <2> QED  BY <1>3, <1>4, <2>1, <2>2
  <1>10. CASE FitJson
    <2>1. phase = "assembled" /\ UNCHANGED comparison /\ payload' = Omitted(payload)
      BY <1>10 DEF FitJson
    <2> HIDE DEF labels
    <2> QED  BY <1>2, <1>3, <1>4, <2>1, FittingKeepsLabels
  <1>11. CASE FitMarkdown  BY <1>3, <1>4, <1>11 DEF FitMarkdown
  <1>12. CASE AnnounceCut
    <2>1. phase = "json" /\ UNCHANGED comparison /\ payload' = Omitted(WithMarkdownNotice(payload))
      BY <1>12 DEF AnnounceCut
    <2> HIDE DEF labels
    <2>2. /\ labels \subseteq WithMarkdownNotice(payload).warnings
          /\ WithMarkdownNotice(payload).changes \subseteq comparison
      BY <1>2, <1>3, <2>1, FittingKeepsLabels
    <2>3. /\ labels \subseteq payload'.warnings
          /\ payload'.changes \subseteq WithMarkdownNotice(payload).changes
      BY <1>2, <2>1, <2>2, FittingKeepsLabels
    <2> QED  BY <1>4, <2>1, <2>2, <2>3
  <1>13. CASE Retract
    <2>1. /\ phase = "announced" /\ UNCHANGED comparison
          /\ payload' = WithoutMarkdownNotice(payload)
      BY <1>13 DEF Retract
    <2> HIDE DEF labels
    <2> QED  BY <1>2, <1>3, <1>4, <2>1, FittingKeepsLabels
  <1>14. CASE CutMarkdown  BY <1>3, <1>4, <1>14 DEF CutMarkdown
  <1>15. CASE UNCHANGED vars  BY <1>3, <1>4, <1>15 DEF vars
  <1> QED  BY <1>5, <1>6, <1>7, <1>8, <1>9, <1>10, <1>11, <1>12, <1>13, <1>14, <1>15 DEF Next

(* A delta that was only not observed belongs to a section that is warned of. *)
LEMMA UnobservedIsWarnedOf ==
    ASSUME HasBaseline, NEW d \in CompareSnapshots(Base, Target),
           d.change \in {"not-observed-in-baseline", "not-observed-in-target"}
    PROVE  <<"comparison", d.section>> \in AnalysisWarnings
  <1>1. PICK s \in Sections, k \in Keys :
          \E i \in Positions(Occurrences(s, Base.items, k), Occurrences(s, Target.items, k)) :
            d = Delta(s, k, i, At(Occurrences(s, Base.items, k), i),
                      At(Occurrences(s, Target.items, k), i), Reasons(s, Base, Target))
    BY DeltaOrigin
  <1>2. PICK before, after :
          /\ d.section = s
          /\ d.change = ChangeType(s, before, after, Reasons(s, Base, Target))
    BY <1>1 DEF Delta
  <1>3. Reasons(s, Base, Target) # {}
    BY <1>2 DEF ChangeType, BaselineUncertain, TargetUncertain
  <1>4. ~Supported(s, Base, Target)  BY <1>3 DEF Supported
  <1> QED  BY <1>2, <1>4 DEF AnalysisWarnings

(* Whatever is cut, the JSON of a handoff of partial evidence says that it is  *)
(* partial, and so does the Markdown unless it is cut.                         *)
THEOREM PartialAlwaysLabelled == Spec => []PartialEvidenceIsLabelled
  <1>1. Init => LabelInv /\ OutputInv
    BY DEF Init, LabelInv, OutputInv
  <1>2. LabelInv /\ OutputInv /\ RequestInv /\ [Next]_vars => LabelInv' /\ OutputInv'
    BY LabelStep, OutputStep
  <1>3. LabelInv /\ OutputInv /\ ComparisonInv => PartialEvidenceIsLabelled
    <2> SUFFICES ASSUME LabelInv, OutputInv, ComparisonInv, phase = "done"
                 PROVE  Labelled(json.warnings) /\ (markdown.cut \/ Labelled(markdown.gaps))
      BY DEF PartialEvidenceIsLabelled
    <2>1. AnalysisWarnings \subseteq json.warnings /\ json.changes \subseteq comparison
      BY DEF LabelInv, OutputInv
    <2>2. ASSUME NEW d \in json.changes,
                 d.change \in {"not-observed-in-baseline", "not-observed-in-target"}
          PROVE  <<"comparison", d.section>> \in json.warnings
      <3>1. HasBaseline /\ d \in CompareSnapshots(Base, Target)
        BY <2>1, <2>2 DEF ComparisonInv
      <3> QED  BY <2>1, <2>2, <3>1, UnobservedIsWarnedOf
    <2>3. ASSUME NEW e, NEW side, ~Complete(e), SideWarnings(side, e) \subseteq json.warnings
          PROVE  \E w \in json.warnings : w[1] = side
      <3>1. <<side, "truncated">> \in SideWarnings(side, e)
            \/ <<side, "parse-gaps">> \in SideWarnings(side, e)
        BY <2>3 DEF SideWarnings, Complete
      <3> QED  BY <2>3, <3>1
    <2>4. Complete(Target) \/ \E w \in json.warnings : w[1] = "target"
      BY <2>1, <2>3 DEF AnalysisWarnings
    <2>5. HasBaseline => Complete(Base) \/ \E w \in json.warnings : w[1] = "baseline"
      <3>1. HasBaseline => SideWarnings("baseline", Base) \subseteq json.warnings
        BY <2>1 DEF AnalysisWarnings
      <3> QED  BY <2>3, <3>1
    <2>6. Labelled(json.warnings)
      BY <2>2, <2>4, <2>5 DEF Labelled
    <2>7. markdown.cut \/ markdown.gaps = json.warnings
      BY DEF OutputInv
    <2> QED  BY <2>6, <2>7
  <1> QED  BY <1>1, <1>2, <1>3, ComparisonIsKept, RequestIsKept, PTL DEF Spec

-----------------------------------------------------------------------------
(* Evidence is dropped for want of room only.                                 *)

LEMMA CountsAreFinite == IsFiniteSet(Counts) /\ IsFiniteSet(Sections)
  <1>1. /\ Sections = {"files"} \cup {"symbols"} \cup {"relationships"} \cup {"cycles"}
                        \cup {"metrics"} \cup {"findings"}
        /\ Counts = Sections \cup {"review-note-characters"} \cup {"json-budget-items"}
                        \cup {"markdown-characters"}
    BY DEF Sections, Counts
  <1>2. IsFiniteSet({"files"})  BY FS_Singleton
  <1>3. IsFiniteSet({"files"} \cup {"symbols"})  BY <1>2, FS_AddElement
  <1>4. IsFiniteSet({"files"} \cup {"symbols"} \cup {"relationships"})  BY <1>3, FS_AddElement
  <1>5. IsFiniteSet({"files"} \cup {"symbols"} \cup {"relationships"} \cup {"cycles"})
    BY <1>4, FS_AddElement
  <1>6. IsFiniteSet({"files"} \cup {"symbols"} \cup {"relationships"} \cup {"cycles"}
                      \cup {"metrics"})
    BY <1>5, FS_AddElement
  <1>7. IsFiniteSet(Sections)  BY <1>1, <1>6, FS_AddElement
  <1>8. IsFiniteSet(Sections \cup {"review-note-characters"})  BY <1>7, FS_AddElement
  <1>9. IsFiniteSet(Sections \cup {"review-note-characters"} \cup {"json-budget-items"})
    BY <1>8, FS_AddElement
  <1> QED  BY <1>1, <1>7, <1>9, FS_AddElement

LEMMA WarningsAreFinite == IsFiniteSet(AnalysisWarnings)
  <1> DEFINE sides == {"target"} \cup {"baseline"} \cup {"comparison"}
             kinds == Sections \cup {"truncated"} \cup {"parse-gaps"} \cup {"lifecycle"}
  <1>1. IsFiniteSet(sides)
    <2>1. IsFiniteSet({"target"})  BY FS_Singleton
    <2>2. IsFiniteSet({"target"} \cup {"baseline"})  BY <2>1, FS_AddElement
    <2> QED  BY <2>2, FS_AddElement
  <1>2. IsFiniteSet(kinds)
    <2>1. IsFiniteSet(Sections \cup {"truncated"})  BY CountsAreFinite, FS_AddElement
    <2>2. IsFiniteSet(Sections \cup {"truncated"} \cup {"parse-gaps"})  BY <2>1, FS_AddElement
    <2> QED  BY <2>2, FS_AddElement
  <1>3. AnalysisWarnings \subseteq sides \X kinds
    BY DEF AnalysisWarnings, SideWarnings
  <1> HIDE DEF sides, kinds
  <1>4. IsFiniteSet(sides \X kinds)  BY <1>1, <1>2, FS_Product
  <1> QED  BY <1>3, <1>4, FS_Subset

LEMMA TimesIsMonotone ==
    ASSUME NEW k \in Nat, NEW m \in Nat, NEW n \in Nat, m <= n
    PROVE  k * m <= k * n /\ k * m \in Nat /\ k * n \in Nat
  OBVIOUS

(* A text with as much evidence, and more warnings and counts, is no shorter. *)
LEMMA MoreIsLonger ==
    ASSUME NEW p, NEW q, IsFiniteSet(q.warnings), p.warnings \subseteq q.warnings,
           Counted(p) \subseteq Counted(q), Evident(p) = Evident(q), Evident(p) \in Nat,
           Objective \in Nat
    PROVE  JsonBytes(p) <= JsonBytes(q) /\ JsonBytes(p) \in Nat /\ JsonBytes(q) \in Nat
  <1> DEFINE m == Cardinality(p.warnings) + Cardinality(Counted(p))
             n == Cardinality(q.warnings) + Cardinality(Counted(q))
  <1>1. m \in Nat /\ n \in Nat /\ m <= n
    <2>1. Counted(q) \in SUBSET Counts  BY DEF Counted
    <2>2. IsFiniteSet(Counted(q))  BY <2>1, CountsAreFinite, FS_Subset
    <2>3. /\ Cardinality(p.warnings) <= Cardinality(q.warnings)
          /\ Cardinality(Counted(p)) <= Cardinality(Counted(q))
          /\ IsFiniteSet(p.warnings) /\ IsFiniteSet(Counted(p))
      BY <2>2, FS_Subset
    <2>4. /\ Cardinality(p.warnings) \in Nat /\ Cardinality(q.warnings) \in Nat
          /\ Cardinality(Counted(p)) \in Nat /\ Cardinality(Counted(q)) \in Nat
      BY <2>2, <2>3, FS_CardinalityType
    <2> QED  BY <2>3, <2>4
  <1>2. JsonLength.required \in Nat /\ JsonLength.item \in Nat /\ JsonLength.notice \in Nat
    BY RenderingAssumption DEF Lengths
  <1>3. /\ JsonBytes(p) = JsonLength.required + Objective + JsonLength.item * Evident(p)
                            + JsonLength.notice * m
        /\ JsonBytes(q) = JsonLength.required + Objective + JsonLength.item * Evident(p)
                            + JsonLength.notice * n
    BY DEF JsonBytes
  <1>4. JsonLength.item * Evident(p) \in Nat  BY <1>2, TimesIsMonotone
  <1> HIDE DEF m, n
  <1>5. /\ JsonLength.notice * m <= JsonLength.notice * n
        /\ JsonLength.notice * m \in Nat /\ JsonLength.notice * n \in Nat
    BY <1>1, <1>2, TimesIsMonotone
  <1> DEFINE a == JsonLength.required + Objective + JsonLength.item * Evident(p)
             x == JsonLength.notice * m
             y == JsonLength.notice * n
  <1>6. a \in Nat /\ x \in Nat /\ y \in Nat /\ x <= y /\ JsonBytes(p) = a + x /\ JsonBytes(q) = a + y
    BY <1>2, <1>3, <1>4, <1>5
  <1> HIDE DEF a, x, y
  <1> QED  BY <1>6

Sized(p) == Told(p) /\ IsFiniteSet(p.warnings)

LEMMA NoticeIsLonger ==
    ASSUME NEW p, Sized(p), Objective \in Nat
    PROVE  /\ Sized(WithMarkdownNotice(p)) /\ Evident(WithMarkdownNotice(p)) = Evident(p)
           /\ JsonBytes(p) <= JsonBytes(WithMarkdownNotice(p))
           /\ JsonBytes(WithoutMarkdownNotice(p)) <= JsonBytes(p)
           /\ JsonBytes(p) \in Nat /\ JsonBytes(WithMarkdownNotice(p)) \in Nat
           /\ JsonBytes(WithoutMarkdownNotice(p)) \in Nat
  <1> DEFINE q == WithMarkdownNotice(p)
             r == WithoutMarkdownNotice(p)
  <1>1. /\ p.omitted = [c \in Counts |-> p.omitted[c]] /\ "markdown-characters" \in Counts
        /\ Evident(p) \in Nat /\ IsFiniteSet(p.warnings)
    BY EvidentIsNat DEF Sized, Told, IsPayload, Counts
  <1>2. /\ q.warnings = p.warnings \cup {MarkdownWarning} /\ r.warnings = p.warnings \ {MarkdownWarning}
        /\ q.omitted = [p.omitted EXCEPT !["markdown-characters"] = 1]
        /\ r.omitted = [p.omitted EXCEPT !["markdown-characters"] = 0]
        /\ Evident(q) = Evident(p) /\ Evident(r) = Evident(p)
    BY DEF WithMarkdownNotice, WithoutMarkdownNotice, Payload, Evident
  <1>3. Told(q)  BY NoticeTells DEF Sized
  <1> HIDE DEF q, r
  <1>4. Counted(p) \subseteq Counted(q)
    <2>1. q.omitted["markdown-characters"] = 1
          /\ \A c \in Counts \ {"markdown-characters"} : q.omitted[c] = p.omitted[c]
      BY <1>1, <1>2
    <2> QED  BY <2>1 DEF Counted
  <1>5. Counted(r) \subseteq Counted(p)
    <2>1. r.omitted["markdown-characters"] = 0
          /\ \A c \in Counts \ {"markdown-characters"} : r.omitted[c] = p.omitted[c]
      BY <1>1, <1>2
    <2> QED  BY <2>1 DEF Counted
  <1>6. IsFiniteSet(q.warnings) /\ IsFiniteSet(r.warnings)
    BY <1>1, <1>2, FS_AddElement, FS_Subset
  <1>7. JsonBytes(p) <= JsonBytes(q) /\ JsonBytes(p) \in Nat /\ JsonBytes(q) \in Nat
    BY <1>1, <1>2, <1>4, <1>6, MoreIsLonger
  <1>8. JsonBytes(r) <= JsonBytes(p) /\ JsonBytes(r) \in Nat
    BY <1>1, <1>2, <1>5, MoreIsLonger
  <1>9. Sized(q)  BY <1>3, <1>6 DEF Sized
  <1> QED  BY <1>2, <1>7, <1>8, <1>9 DEF q, r

(* A notice that is retracted leaves what there was.                          *)
LEMMA RetractionUndoes ==
    ASSUME NEW p, Sized(p), MarkdownWarning \notin p.warnings
    PROVE  JsonBytes(WithoutMarkdownNotice(WithMarkdownNotice(p))) = JsonBytes(p)
  <1> DEFINE q == WithMarkdownNotice(p)
             r == WithoutMarkdownNotice(q)
  <1>1. /\ p.omitted = [c \in Counts |-> p.omitted[c]] /\ "markdown-characters" \in Counts
        /\ p.omitted["markdown-characters"] = 0
    BY DEF Sized, Told, IsPayload, Counts
  <1>2. r.warnings = p.warnings /\ Evident(r) = Evident(p)
    BY DEF WithMarkdownNotice, WithoutMarkdownNotice, Payload, Evident
  <1>3. r.omitted = [[p.omitted EXCEPT !["markdown-characters"] = 1]
                        EXCEPT !["markdown-characters"] = 0]
    BY DEF WithMarkdownNotice, WithoutMarkdownNotice, Payload
  <1> HIDE DEF q, r
  <1>4. \A c \in Counts : r.omitted[c] = p.omitted[c]  BY <1>1, <1>3
  <1>5. Counted(r) = Counted(p)  BY <1>4 DEF Counted
  <1>6. JsonBytes(r) = JsonBytes(p)  BY <1>2, <1>5 DEF JsonBytes
  <1> QED  BY <1>6 DEF q, r

(* It does not matter whether the evidence goes or the notice comes first.    *)
LEMMA NoticeAndOmissionCommute ==
    ASSUME NEW p, Sized(p)
    PROVE  WithMarkdownNotice(WithoutEvidence(p)) = WithoutEvidence(WithMarkdownNotice(p))
  <1> DEFINE n == p.omitted["json-budget-items"] + Evident(p)
             u == [[p.omitted EXCEPT !["json-budget-items"] = n]
                      EXCEPT !["markdown-characters"] = 1]
             v == [[p.omitted EXCEPT !["markdown-characters"] = 1]
                      EXCEPT !["json-budget-items"] = n]
  <1>1. /\ p.omitted = [c \in Counts |-> p.omitted[c]]
        /\ {"json-budget-items", "markdown-characters"} \subseteq Counts
        /\ "markdown-characters" # "json-budget-items"
    BY DEF Sized, Told, IsPayload, Counts
  <1>2. u = v
    <2> HIDE DEF n
    <2> QED  BY <1>1
  <1>3. WithMarkdownNotice(WithoutEvidence(p))
          = Payload({}, {}, p.warnings \cup {JsonWarning} \cup {MarkdownWarning}, u)
    BY DEF WithMarkdownNotice, WithoutEvidence, Payload
  <1>4. WithoutEvidence(WithMarkdownNotice(p))
          = Payload({}, {}, p.warnings \cup {MarkdownWarning} \cup {JsonWarning}, v)
    <2>1. Evident(WithMarkdownNotice(p)) = Evident(p)
      BY DEF WithMarkdownNotice, Payload, Evident
    <2>2. [p.omitted EXCEPT !["markdown-characters"] = 1]["json-budget-items"]
             = p.omitted["json-budget-items"]
      BY <1>1
    <2>3. /\ WithMarkdownNotice(p).omitted = [p.omitted EXCEPT !["markdown-characters"] = 1]
          /\ WithMarkdownNotice(p).warnings = p.warnings \cup {MarkdownWarning}
      BY DEF WithMarkdownNotice, Payload
    <2>4. WithoutEvidence(WithMarkdownNotice(p))
            = Payload({}, {}, WithMarkdownNotice(p).warnings \cup {JsonWarning},
                 [WithMarkdownNotice(p).omitted EXCEPT !["json-budget-items"] =
                     WithMarkdownNotice(p).omitted["json-budget-items"]
                        + Evident(WithMarkdownNotice(p))])
      BY DEF WithoutEvidence
    <2> QED  BY <2>1, <2>2, <2>3, <2>4
  <1>5. p.warnings \cup {JsonWarning} \cup {MarkdownWarning}
          = p.warnings \cup {MarkdownWarning} \cup {JsonWarning}
    OBVIOUS
  <1> HIDE DEF u, v
  <1> QED  BY <1>2, <1>3, <1>4, <1>5

NoRoomFor(p) == ~Fits(p) /\ ~FitsCut(p)

LEMMA OmissionIsSized ==
    ASSUME NEW p, Sized(p)
    PROVE  Sized(Omitted(p))
  <1>1. Told(Omitted(p))  BY OmissionTells DEF Sized
  <1>2. Omitted(p).warnings \in {p.warnings, p.warnings \cup {JsonWarning}}
    BY DEF Omitted, WithoutEvidence, Payload
  <1>3. IsFiniteSet(Omitted(p).warnings)  BY <1>2, FS_AddElement DEF Sized
  <1> QED  BY <1>1, <1>3 DEF Sized

(* What the first omission says of the assembled payload p.                   *)
LEMMA FirstOmission ==
    ASSUME NEW p, Sized(p), Objective \in Nat, Budget.json \in Nat
    PROVE  /\ Omitted(p) # p => /\ NoRoomFor(p) /\ Omitted(p) = Bare(p)
                                /\ Evident(Omitted(p)) = 0
           /\ JsonBytes(Omitted(p)) > Budget.json => NoRoomFor(p) /\ ~FitsCut(Bare(p))
  <1>1. /\ JsonBytes(p) <= JsonBytes(WithMarkdownNotice(p))
        /\ JsonBytes(p) \in Nat /\ JsonBytes(WithMarkdownNotice(p)) \in Nat
        /\ Evident(p) \in Nat
    BY NoticeIsLonger, EvidentIsNat DEF Sized, Told
  <1>2. JsonBytes(p) > Budget.json => NoRoomFor(p)
    BY <1>1 DEF NoRoomFor, Fits, FitsCut
  <1>3. ASSUME Omitted(p) # p
        PROVE  NoRoomFor(p) /\ Omitted(p) = Bare(p) /\ Evident(Omitted(p)) = 0
    <2>1. JsonBytes(p) > Budget.json /\ Evident(p) > 0 /\ Omitted(p) = WithoutEvidence(p)
      BY <1>3 DEF Omitted
    <2>2. Evident(WithoutEvidence(p)) = 0
      BY FS_EmptySet DEF WithoutEvidence, Payload, Evident
    <2> QED  BY <1>2, <2>1, <2>2 DEF Bare
  <1>4. ASSUME JsonBytes(Omitted(p)) > Budget.json
        PROVE  NoRoomFor(p) /\ ~FitsCut(Bare(p))
    <2>1. Omitted(p) = Bare(p)
      <3>1. CASE Omitted(p) # p  BY <1>3, <3>1
      <3>2. CASE Omitted(p) = p
        <4>1. JsonBytes(p) > Budget.json  BY <1>4, <3>2
        <4>2. CASE Evident(p) > 0  BY <4>1, <4>2 DEF Omitted, Bare
        <4>3. CASE ~(Evident(p) > 0)  BY <3>2, <4>3 DEF Bare
        <4> QED  BY <4>2, <4>3
      <3> QED  BY <3>1, <3>2
    <2>2. NoRoomFor(p)
      <3>1. CASE Omitted(p) # p  BY <1>3, <3>1
      <3>2. CASE Omitted(p) = p  BY <1>2, <1>4, <3>2
      <3> QED  BY <3>1, <3>2
    <2>3. /\ JsonBytes(Bare(p)) <= JsonBytes(WithMarkdownNotice(Bare(p)))
          /\ JsonBytes(Bare(p)) \in Nat /\ JsonBytes(WithMarkdownNotice(Bare(p))) \in Nat
      BY <2>1, OmissionIsSized, NoticeIsLonger
    <2>4. JsonBytes(Bare(p)) > Budget.json  BY <1>4, <2>1
    <2> QED  BY <2>2, <2>3, <2>4 DEF FitsCut
  <1> QED  BY <1>3, <1>4

(* And the second, after the first left q, whose JSON fits and whose Markdown  *)
(* does not.                                                                   *)
LEMMA SecondOmission ==
    ASSUME NEW p, Sized(p), MarkdownWarning \notin p.warnings, JsonWarning \notin p.warnings,
           Objective \in Nat, Budget.json \in Nat, Budget.markdown \in Nat,
           ~(JsonBytes(Omitted(p)) > Budget.json),
           MarkdownCharacters(Omitted(p)) > Budget.markdown, MarkdownCharacters(Omitted(p)) \in Nat
    PROVE  LET z == Omitted(WithMarkdownNotice(Omitted(p)))
           IN  /\ z.omitted["json-budget-items"] > 0 => NoRoomFor(p)
               /\ JsonBytes(z) > Budget.json => NoRoomFor(p) /\ ~FitsCut(Bare(p))
               /\ JsonBytes(WithoutMarkdownNotice(z)) > Budget.json =>
                      NoRoomFor(p) /\ ~FitsCut(Bare(p))
  <1> DEFINE q == Omitted(p)
             n == WithMarkdownNotice(q)
             z == Omitted(n)
             r == WithoutMarkdownNotice(z)
  <1>1. Sized(q) /\ MarkdownWarning \notin q.warnings
    BY OmissionIsSized, OmissionTells DEF Sized
  <1>2. /\ Sized(n) /\ Evident(n) = Evident(q)
        /\ JsonBytes(n) \in Nat /\ JsonBytes(q) \in Nat
    <2> HIDE DEF q
    <2> QED  BY <1>1, NoticeIsLonger
  <1>3. Sized(z)
    <2> HIDE DEF n
    <2> QED  BY <1>2, OmissionIsSized
  <1>4. /\ JsonBytes(r) <= JsonBytes(z) /\ JsonBytes(r) \in Nat /\ JsonBytes(z) \in Nat
    <2> HIDE DEF z
    <2> QED  BY <1>3, NoticeIsLonger
  <1>5. z = n => ~(JsonBytes(r) > Budget.json)
    <2>1. JsonBytes(WithoutMarkdownNotice(n)) = JsonBytes(q)
      <3> HIDE DEF q
      <3> QED  BY <1>1, RetractionUndoes
    <2> HIDE DEF n, z
    <2>2. z = n => JsonBytes(r) = JsonBytes(q)  BY <2>1
    <2> QED  BY <2>2
  <1>6. CASE q # p
    <2>1. NoRoomFor(p) /\ q = Bare(p) /\ Evident(q) = 0  BY <1>6, FirstOmission
    <2>2. z = n  BY <1>2, <2>1 DEF Omitted
    <2>3. JsonBytes(z) > Budget.json => ~FitsCut(Bare(p))
      <3>1. JsonBytes(n) > Budget.json => ~(JsonBytes(n) <= Budget.json)  BY <1>2
      <3>2. n = WithMarkdownNotice(Bare(p))  BY <2>1
      <3> HIDE DEF n, z, q
      <3> QED  BY <2>2, <3>1, <3>2 DEF FitsCut
    <2> HIDE DEF n, z, r
    <2> QED  BY <1>5, <2>1, <2>2, <2>3 DEF n, z, r
  <1>7. CASE q = p
    <2>1. ~Fits(p)
      <3>1. MarkdownCharacters(p) > Budget.markdown /\ MarkdownCharacters(p) \in Nat  BY <1>7
      <3> QED  BY <3>1 DEF Fits
    <2>2. n = WithMarkdownNotice(p)  BY <1>7
    <2>3. JsonBytes(n) > Budget.json => NoRoomFor(p)
      <3>1. JsonBytes(n) > Budget.json => ~(JsonBytes(n) <= Budget.json)  BY <1>2
      <3> HIDE DEF n
      <3> QED  BY <2>1, <2>2, <3>1 DEF NoRoomFor, FitsCut
    <2>4. CASE z = n
      <3>1. z.omitted["json-budget-items"] > 0 => FALSE
        <4>1. JsonWarning \notin n.warnings
          BY <2>2, DistinctWarnings DEF WithMarkdownNotice, Payload
        <4> HIDE DEF n, z
        <4> QED  BY <1>2, <2>4, <4>1 DEF Sized, Told
      <3>2. ASSUME JsonBytes(z) > Budget.json
            PROVE  NoRoomFor(p) /\ ~FitsCut(Bare(p))
        <4>1. JsonBytes(n) > Budget.json
          <5> HIDE DEF n, z
          <5> QED  BY <2>4, <3>2
        <4>2. ~(Evident(n) > 0)
          <5>1. ASSUME Evident(n) > 0 PROVE FALSE
            <6>1. z = WithoutEvidence(n)
              <7> HIDE DEF n
              <7> QED  BY <4>1, <5>1 DEF Omitted
            <6>2. n = WithoutEvidence(n)
              <7> HIDE DEF n, z
              <7> QED  BY <2>4, <6>1
            <6>3. Evident(n) = 0
              <7> HIDE DEF n
              <7>1. Evident(WithoutEvidence(n)) = 0
                BY FS_EmptySet DEF WithoutEvidence, Payload, Evident
              <7> QED  BY <6>2, <7>1
            <6> HIDE DEF n
            <6> QED  BY <5>1, <6>3
          <5> QED  BY <5>1
        <4>3. Bare(p) = p
          <5> HIDE DEF n, q
          <5> QED  BY <1>2, <1>7, <4>2 DEF Bare
        <4>4. NoRoomFor(p)  BY <2>3, <4>1
        <4> HIDE DEF n, z, q
        <4> QED  BY <4>3, <4>4 DEF NoRoomFor
      <3> HIDE DEF n, z, r
      <3> QED  BY <1>5, <2>4, <3>1, <3>2 DEF n, z, r
    <2>5. CASE z # n
      <3>1. JsonBytes(n) > Budget.json /\ Evident(n) > 0 /\ z = WithoutEvidence(n)
        <4> HIDE DEF n
        <4> QED  BY <2>5 DEF Omitted
      <3>2. NoRoomFor(p)  BY <2>3, <3>1
      <3>3. Bare(p) = WithoutEvidence(p)
        <4> HIDE DEF n, q
        <4> QED  BY <1>2, <1>7, <3>1 DEF Bare
      <3>4. z = WithMarkdownNotice(Bare(p))
        BY <2>2, <3>1, <3>3, NoticeAndOmissionCommute
      <3>5. JsonBytes(z) > Budget.json => ~FitsCut(Bare(p))
        <4> HIDE DEF n, z
        <4> QED  BY <1>4, <3>4 DEF FitsCut
      <3>6. JsonBytes(r) > Budget.json => JsonBytes(z) > Budget.json
        <4> HIDE DEF z, r
        <4> QED  BY <1>4
      <3> HIDE DEF n, z, r
      <3> QED  BY <3>2, <3>5, <3>6 DEF n, z, r
    <2> QED  BY <2>4, <2>5
  <1> QED  BY <1>6, <1>7

LEMMA MarkdownIsMeasured ==
    ASSUME NEW p, Sized(p), Objective \in Nat
    PROVE  MarkdownCharacters(p) \in Nat
  <1> DEFINE n == Cardinality(p.warnings) + IF Counted(p) # {} THEN 1 ELSE 0
  <1>1. Cardinality(p.warnings) \in Nat  BY FS_CardinalityType DEF Sized
  <1>2. n \in Nat  BY <1>1
  <1>3. Evident(p) \in Nat  BY EvidentIsNat DEF Sized, Told
  <1>4. /\ MarkdownLength.required \in Nat /\ MarkdownLength.item \in Nat
        /\ MarkdownLength.notice \in Nat
    BY RenderingAssumption DEF Lengths
  <1>5. MarkdownLength.item * Evident(p) \in Nat  BY <1>3, <1>4, TimesIsMonotone
  <1>6. MarkdownCharacters(p) = MarkdownLength.required + Objective
                                  + MarkdownLength.item * Evident(p) + MarkdownLength.notice * n
    BY DEF MarkdownCharacters
  <1> HIDE DEF n
  <1>7. MarkdownLength.notice * n \in Nat  BY <1>2, <1>4, TimesIsMonotone
  <1> QED  BY <1>4, <1>5, <1>6, <1>7

NoRoom == NoRoomFor(assembled)
NoRoomAtAll == NoRoomFor(assembled) /\ ~FitsCut(Bare(assembled))
FittedOnce == payload = Omitted(assembled) /\ ~(JsonBytes(payload) > Budget.json)
FittedTwice ==
    /\ payload = Omitted(WithMarkdownNotice(Omitted(assembled)))
    /\ ~(JsonBytes(Omitted(assembled)) > Budget.json)
    /\ MarkdownCharacters(Omitted(assembled)) > Budget.markdown

RoomInv ==
    /\ phase \in {"assembled", "json", "announced", "done", "too small"} =>
           /\ Sized(assembled)
           /\ JsonWarning \notin assembled.warnings /\ MarkdownWarning \notin assembled.warnings
    /\ phase = "sections" => IsFiniteSet(payload.warnings)
    /\ phase = "assembled" => payload = assembled
    /\ phase = "json" => FittedOnce
    /\ phase = "announced" => FittedTwice
    /\ phase = "done" => (payload.omitted["json-budget-items"] > 0 => NoRoom)
    /\ phase = "too small" => NoRoomAtAll

LEMMA RoomDependsOnRequest ==
    ASSUME UNCHANGED <<selection, assembled>>
    PROVE  /\ NoRoom' = NoRoom /\ NoRoomAtAll' = NoRoomAtAll
           /\ FittedOnce' = (payload' = Omitted(assembled) /\ ~(JsonBytes(payload') > Budget.json))
           /\ FittedTwice' =
                (/\ payload' = Omitted(WithMarkdownNotice(Omitted(assembled)))
                 /\ ~(JsonBytes(Omitted(assembled)) > Budget.json)
                 /\ MarkdownCharacters(Omitted(assembled)) > Budget.markdown)
  <1> USE DEF NoRoomFor, Fits, FitsCut, Bare, Omitted, WithMarkdownNotice, WithoutEvidence,
              Payload, JsonBytes, MarkdownCharacters, Evident, Counted, Objective, Budget, Enabled
  <1>1. NoRoom' = NoRoom  BY Zenon DEF NoRoom
  <1>2. NoRoomAtAll' = NoRoomAtAll  BY Zenon DEF NoRoomAtAll
  <1>3. FittedOnce' = (payload' = Omitted(assembled) /\ ~(JsonBytes(payload') > Budget.json))
    BY Zenon DEF FittedOnce
  <1> DEFINE once == Omitted(assembled)
             told == WithMarkdownNotice(once)
             twice == Omitted(told)
  <1>4. once' = once  BY Zenon
  <1>5. told' = told
    <2> HIDE DEF once
    <2> QED  BY <1>4, Zenon
  <1>6. twice' = twice
    <2> HIDE DEF told
    <2> QED  BY <1>5, Zenon
  <1>7. /\ (JsonBytes(once) > Budget.json)' = (JsonBytes(once) > Budget.json)
        /\ (MarkdownCharacters(once) > Budget.markdown)'
             = (MarkdownCharacters(once) > Budget.markdown)
    <2> HIDE DEF once
    <2> QED  BY <1>4, Zenon
  <1>8. FittedTwice' = (/\ payload' = twice'
                        /\ ~((JsonBytes(once) > Budget.json)')
                        /\ (MarkdownCharacters(once) > Budget.markdown)')
    <2> HIDE DEF Omitted, WithMarkdownNotice, JsonBytes, MarkdownCharacters, Budget
    <2> QED  BY DEF FittedTwice
  <1>9. FittedTwice' =
          (/\ payload' = Omitted(WithMarkdownNotice(Omitted(assembled)))
           /\ ~(JsonBytes(Omitted(assembled)) > Budget.json)
           /\ MarkdownCharacters(Omitted(assembled)) > Budget.markdown)
    <2> HIDE DEF Omitted, WithMarkdownNotice, JsonBytes, MarkdownCharacters, Budget
    <2> QED  BY <1>6, <1>7, <1>8
  <1> QED  BY <1>1, <1>2, <1>3, <1>9

LEMMA RoomStep ==
    ASSUME RoomInv, OutputInv, RequestInv, [Next]_vars
    PROVE  RoomInv'
  <1>1. CASE Compare  BY <1>1 DEF Compare, RoomInv
  <1>2. CASE Ask  BY <1>2 DEF Ask, RoomInv
  <1>3. CASE Refuse  BY <1>3 DEF Refuse, RoomInv
  <1>4. CASE CutSections
    <2>1. phase' = "sections"  BY <1>4 DEF CutSections
    <2>2. payload'.warnings = AnalysisWarnings
      BY <1>4 DEF CutSections, Payload
    <2> QED  BY <2>1, <2>2, WarningsAreFinite DEF RoomInv
  <1>5. CASE CutFindings
    <2>1. phase = "sections" /\ phase' = "assembled" /\ assembled' = payload'
      BY <1>5 DEF CutFindings
    <2>2. /\ Told(payload')
          /\ JsonWarning \notin payload'.warnings /\ MarkdownWarning \notin payload'.warnings
          /\ payload'.warnings \subseteq payload.warnings \cup {TruncationWarning}
      BY <1>5, <2>1, CutFindingsTells DEF OutputInv
    <2>3. IsFiniteSet(payload.warnings)  BY <2>1 DEF RoomInv
    <2>4. IsFiniteSet(payload.warnings \cup {TruncationWarning})  BY <2>3, FS_AddElement
    <2>5. IsFiniteSet(payload'.warnings)  BY <2>2, <2>4, FS_Subset
    <2>6. Sized(assembled')  BY <2>1, <2>2, <2>5 DEF Sized
    <2>7. Sized(assembled)' = Sized(assembled')
      BY DEF Sized, Told, IsPayload
    <2> QED  BY <2>1, <2>2, <2>6, <2>7 DEF RoomInv
  <1> SUFFICES ASSUME \/ FitJson \/ FitMarkdown \/ AnnounceCut \/ Retract \/ CutMarkdown
                      \/ UNCHANGED vars
               PROVE  RoomInv'
    BY <1>1, <1>2, <1>3, <1>4, <1>5 DEF Next
  <1>6. UNCHANGED <<selection, assembled>>
    BY DEF FitJson, FitMarkdown, AnnounceCut, Retract, CutMarkdown, vars
  <1>7. Sized(assembled)' = Sized(assembled)
    BY <1>6 DEF Sized, Told, IsPayload
  <1>8. phase \in {"assembled", "json", "announced", "done", "too small"} =>
          /\ Budget.json \in Nat /\ Budget.markdown \in Nat /\ Objective \in Nat
          /\ Sized(assembled)
          /\ JsonWarning \notin assembled.warnings /\ MarkdownWarning \notin assembled.warnings
    BY DEF RoomInv, RequestInv, Limits
  <1>9. CASE FitJson
    <2>1. /\ phase = "assembled" /\ payload = assembled /\ payload' = Omitted(assembled)
          /\ phase' = IF JsonBytes(payload') > Budget.json THEN "too small" ELSE "json"
      BY <1>9 DEF FitJson, RoomInv
    <2>2. JsonBytes(payload') > Budget.json => NoRoomAtAll
      BY <1>8, <2>1, FirstOmission DEF NoRoomAtAll
    <2> QED  BY <1>6, <1>7, <1>8, <2>1, <2>2, RoomDependsOnRequest DEF RoomInv
  <1>10. CASE FitMarkdown
    <2>1. phase = "json" /\ phase' = "done" /\ payload' = payload /\ FittedOnce
      BY <1>10 DEF FitMarkdown, RoomInv
    <2>2. payload.omitted["json-budget-items"] > 0 => NoRoom
      <3>1. CASE Omitted(assembled) # assembled
        BY <1>8, <2>1, <3>1, FirstOmission DEF NoRoom
      <3>2. CASE Omitted(assembled) = assembled
        <4>1. payload = assembled  BY <2>1, <3>2 DEF FittedOnce
        <4> QED  BY <1>8, <2>1, <4>1 DEF Sized, Told
      <3> QED  BY <3>1, <3>2
    <2> QED  BY <1>6, <1>7, <1>8, <2>1, <2>2, RoomDependsOnRequest DEF RoomInv
  <1>11. CASE AnnounceCut
    <2>1. /\ phase = "json" /\ phase' = "announced" /\ FittedOnce
          /\ payload' = Omitted(WithMarkdownNotice(payload))
          /\ MarkdownCharacters(payload) > Budget.markdown
      BY <1>11 DEF AnnounceCut, RoomInv
    <2>2. FittedTwice'
      BY <1>6, <2>1, RoomDependsOnRequest DEF FittedOnce
    <2> QED  BY <1>6, <1>7, <1>8, <2>1, <2>2 DEF RoomInv
  <1>12. ASSUME phase = "announced"
         PROVE  /\ payload.omitted["json-budget-items"] > 0 => NoRoom
                /\ JsonBytes(payload) > Budget.json => NoRoomAtAll
                /\ JsonBytes(WithoutMarkdownNotice(payload)) > Budget.json => NoRoomAtAll
    <2>1. FittedTwice  BY <1>12 DEF RoomInv
    <2>2. MarkdownCharacters(Omitted(assembled)) \in Nat
      BY <1>8, <1>12, OmissionIsSized, MarkdownIsMeasured
    <2> QED  BY <1>8, <1>12, <2>1, <2>2, SecondOmission DEF FittedTwice, NoRoom, NoRoomAtAll
  <1>13. CASE Retract
    <2>1. /\ phase = "announced" /\ payload' = WithoutMarkdownNotice(payload)
          /\ \/ phase' = "too small" /\ JsonBytes(payload') > Budget.json
             \/ phase' = "done"
      BY <1>13 DEF Retract
    <2>2. Told(payload)  BY <2>1 DEF OutputInv
    <2>3. payload'.omitted["json-budget-items"] = payload.omitted["json-budget-items"]
      <3>1. /\ payload.omitted = [c \in Counts |-> payload.omitted[c]]
            /\ "json-budget-items" \in Counts
        BY <2>2 DEF Told, IsPayload, Counts
      <3> QED  BY <2>1, <3>1 DEF WithoutMarkdownNotice, Payload
    <2> QED  BY <1>6, <1>7, <1>8, <1>12, <2>1, <2>3, RoomDependsOnRequest DEF RoomInv
  <1>14. CASE CutMarkdown
    <2>1. /\ phase = "announced" /\ payload' = payload
          /\ \/ phase' = "too small" /\ JsonBytes(payload) > Budget.json
             \/ phase' = "done"
      BY <1>14 DEF CutMarkdown
    <2> QED  BY <1>6, <1>7, <1>8, <1>12, <2>1, RoomDependsOnRequest DEF RoomInv
  <1>15. CASE UNCHANGED vars
    <2>1. phase' = phase /\ payload' = payload  BY <1>15 DEF vars
    <2>2. FittedOnce' = FittedOnce /\ FittedTwice' = FittedTwice
      BY <1>6, <2>1, RoomDependsOnRequest DEF FittedOnce, FittedTwice
    <2> QED  BY <1>6, <1>7, <2>1, <2>2, RoomDependsOnRequest DEF RoomInv
  <1> QED  BY <1>9, <1>10, <1>11, <1>13, <1>14, <1>15

(* Evidence is dropped, and a request turned down, for want of room only.     *)
THEOREM OnlyForRoom == Spec => []EvidenceIsDroppedOnlyForRoom
  <1>1. Init => RoomInv /\ OutputInv
    BY DEF Init, RoomInv, OutputInv
  <1>2. RoomInv /\ OutputInv /\ RequestInv /\ [Next]_vars => RoomInv' /\ OutputInv'
    BY RoomStep, OutputStep
  <1>3. RoomInv /\ OutputInv => EvidenceIsDroppedOnlyForRoom
    BY DEF RoomInv, OutputInv, EvidenceIsDroppedOnlyForRoom, NoRoom, NoRoomAtAll, NoRoomFor
  <1> QED  BY <1>1, <1>2, <1>3, RequestIsKept, PTL DEF Spec
-----------------------------------------------------------------------------
(* What was selected is shown or counted.                                     *)

Part(T, s) == {d \in T : d.section = s}

LEMMA DisjointSizes ==
    ASSUME NEW S, NEW T, IsFiniteSet(S), IsFiniteSet(T), S \cap T = {}
    PROVE  IsFiniteSet(S \cup T) /\ Cardinality(S \cup T) = Cardinality(S) + Cardinality(T)
  <1>1. Cardinality(S) \in Nat /\ Cardinality(T) \in Nat  BY FS_CardinalityType
  <1>2. Cardinality(S \cap T) = 0  BY FS_EmptySet
  <1>3. /\ IsFiniteSet(S \cup T)
        /\ Cardinality(S \cup T) = Cardinality(S) + Cardinality(T) - Cardinality(S \cap T)
    BY FS_Union
  <1> QED  BY <1>1, <1>2, <1>3

(* A finite set of deltas is as large as its parts, section by section.       *)
LEMMA SizeBySection ==
    ASSUME NEW T, IsFiniteSet(T), \A d \in T : d.section \in Sections
    PROVE  /\ \A s \in Sections : Cardinality(Part(T, s)) \in Nat
           /\ Cardinality(T) =
                Cardinality(Part(T, "files")) + Cardinality(Part(T, "symbols"))
                + Cardinality(Part(T, "relationships")) + Cardinality(Part(T, "cycles"))
                + Cardinality(Part(T, "metrics")) + Cardinality(Part(T, "findings"))
  <1> DEFINE a == Part(T, "files")
             b == Part(T, "symbols")
             c == Part(T, "relationships")
             d == Part(T, "cycles")
             e == Part(T, "metrics")
             f == Part(T, "findings")
  <1>1. \A s \in Sections : IsFiniteSet(Part(T, s)) /\ Cardinality(Part(T, s)) \in Nat
    <2>1. \A s \in Sections : Part(T, s) \in SUBSET T  BY DEF Part
    <2> QED  BY <2>1, FS_Subset, FS_CardinalityType
  <1> DEFINE ab == a \cup b
             abc == ab \cup c
             abcd == abc \cup d
             abcde == abcd \cup e
  <1>2. /\ T = abcde \cup f
        /\ a \cap b = {} /\ ab \cap c = {} /\ abc \cap d = {}
        /\ abcd \cap e = {} /\ abcde \cap f = {}
    BY DEF Part, Sections
  <1>3. /\ IsFiniteSet(a) /\ IsFiniteSet(b) /\ IsFiniteSet(c)
        /\ IsFiniteSet(d) /\ IsFiniteSet(e) /\ IsFiniteSet(f)
    BY <1>1 DEF Sections
  <1> HIDE DEF a, b, c, d, e, f
  <1>5. IsFiniteSet(ab) /\ Cardinality(ab) = Cardinality(a) + Cardinality(b)
    BY <1>2, <1>3, DisjointSizes
  <1> HIDE DEF ab
  <1>6. IsFiniteSet(abc) /\ Cardinality(abc) = Cardinality(ab) + Cardinality(c)
    BY <1>2, <1>3, <1>5, DisjointSizes
  <1> HIDE DEF abc
  <1>7. IsFiniteSet(abcd) /\ Cardinality(abcd) = Cardinality(abc) + Cardinality(d)
    BY <1>2, <1>3, <1>6, DisjointSizes
  <1> HIDE DEF abcd
  <1>8. IsFiniteSet(abcde) /\ Cardinality(abcde) = Cardinality(abcd) + Cardinality(e)
    BY <1>2, <1>3, <1>7, DisjointSizes
  <1> HIDE DEF abcde
  <1>4. Cardinality(T) = Cardinality(abcde) + Cardinality(f)
    BY <1>2, <1>3, <1>8, DisjointSizes
  <1>9. Cardinality(T) = Cardinality(a) + Cardinality(b) + Cardinality(c) + Cardinality(d)
                           + Cardinality(e) + Cardinality(f)
    BY <1>4, <1>5, <1>6, <1>7, <1>8
  <1> QED  BY <1>1, <1>9 DEF a, b, c, d, e, f

(* The counts of the sections are numbers, and what a payload shows and what   *)
(* its counts say was left out add up to n.                                    *)
AddsUp(p, n) ==
    /\ \A s \in Sections : p.omitted[s] \in Nat
    /\ Evident(p) + OmittedEvidence(p) = n

(* Notices neither add evidence nor take it away, and what is dropped for the  *)
(* sake of the JSON is counted.                                                *)
LEMMA FittingAddsUp ==
    ASSUME NEW p, NEW n, Told(p), AddsUp(p, n)
    PROVE  /\ AddsUp(WithMarkdownNotice(p), n) /\ AddsUp(WithoutMarkdownNotice(p), n)
           /\ AddsUp(Omitted(p), n)
  <1>1. p.omitted = [c \in Counts |-> p.omitted[c]]  BY DEF Told, IsPayload
  <1>2. /\ Sections \cup {"markdown-characters", "json-budget-items"} \subseteq Counts
        /\ "markdown-characters" \notin Sections \cup {"json-budget-items"}
        /\ "json-budget-items" \notin Sections
        /\ {"files", "symbols", "relationships", "cycles", "metrics", "findings"} = Sections
    BY DEF Counts, Sections
  <1>3. AddsUp(WithMarkdownNotice(p), n)
    <2> DEFINE q == WithMarkdownNotice(p)
    <2>1. q.omitted = [p.omitted EXCEPT !["markdown-characters"] = 1] /\ Evident(q) = Evident(p)
      BY DEF WithMarkdownNotice, Payload, Evident
    <2> HIDE DEF q
    <2>2. \A c \in Counts \ {"markdown-characters"} : q.omitted[c] = p.omitted[c]
      BY <1>1, <1>2, <2>1
    <2>3. AddsUp(q, n)  BY <1>2, <2>1, <2>2 DEF AddsUp, OmittedEvidence
    <2> QED  BY <2>3 DEF q
  <1>4. AddsUp(WithoutMarkdownNotice(p), n)
    <2> DEFINE q == WithoutMarkdownNotice(p)
    <2>1. q.omitted = [p.omitted EXCEPT !["markdown-characters"] = 0] /\ Evident(q) = Evident(p)
      BY DEF WithoutMarkdownNotice, Payload, Evident
    <2> HIDE DEF q
    <2>2. \A c \in Counts \ {"markdown-characters"} : q.omitted[c] = p.omitted[c]
      BY <1>1, <1>2, <2>1
    <2>3. AddsUp(q, n)  BY <1>2, <2>1, <2>2 DEF AddsUp, OmittedEvidence
    <2> QED  BY <2>3 DEF q
  <1>5. AddsUp(WithoutEvidence(p), n)
    <2> DEFINE q == WithoutEvidence(p)
               o == p.omitted
               dropped == Evident(p)
    <2>1. Evident(q) = 0
      BY FS_EmptySet DEF WithoutEvidence, Payload, Evident
    <2>2. q.omitted = [o EXCEPT !["json-budget-items"] = o["json-budget-items"] + dropped]
      BY DEF WithoutEvidence, Payload
    <2>3. dropped \in Nat /\ o["json-budget-items"] \in Nat
      BY EvidentIsNat DEF Told, IsPayload
    <2>4. /\ o["files"] \in Nat /\ o["symbols"] \in Nat /\ o["relationships"] \in Nat
          /\ o["cycles"] \in Nat /\ o["metrics"] \in Nat /\ o["findings"] \in Nat
      BY <1>2 DEF AddsUp
    <2>5. dropped + (o["files"] + o["symbols"] + o["relationships"] + o["cycles"] + o["metrics"]
                       + o["findings"] + o["json-budget-items"]) = n
      BY DEF AddsUp, OmittedEvidence
    <2> HIDE DEF q, dropped
    <2>6. /\ q.omitted["json-budget-items"] = o["json-budget-items"] + dropped
          /\ \A s \in Sections : q.omitted[s] = o[s]
      BY <1>1, <1>2, <2>2
    <2>7. OmittedEvidence(q) =
            o["files"] + o["symbols"] + o["relationships"] + o["cycles"] + o["metrics"]
              + o["findings"] + (o["json-budget-items"] + dropped)
      BY <1>2, <2>6 DEF OmittedEvidence
    <2>8. \A s \in Sections : q.omitted[s] \in Nat  BY <2>6 DEF AddsUp
    <2>9. Evident(q) + OmittedEvidence(q) = n
      <3> HIDE DEF o
      <3> QED  BY <2>1, <2>3, <2>4, <2>5, <2>7
    <2>10. AddsUp(q, n)  BY <2>8, <2>9 DEF AddsUp
    <2> QED  BY <2>10 DEF q
  <1> QED  BY <1>3, <1>4, <1>5 DEF Omitted

LEMMA LeastAndExcess ==
    ASSUME NEW size \in Nat, NEW limit \in Nat
    PROVE  /\ Least(size, limit) \in Nat /\ Excess(size, limit) \in Nat
           /\ Least(size, limit) + Excess(size, limit) = size
           /\ size <= limit => Least(size, limit) = size /\ Excess(size, limit) = 0
  BY DEF Least, Excess

(* Before the findings are cut, the sections account for the deltas.          *)
SectionsAddUp ==
    /\ payload.findings = {}
    /\ AddsUp(payload, Cardinality(selection.deltas))
    /\ payload.omitted["findings"] = Excess(Cardinality(Selected("findings")), Budget.items)

LEMMA CutSectionsAddsUp ==
    ASSUME ComparisonInv, RequestInv, CutSections
    PROVE  SectionsAddUp'
  <1>1. PICK included \in SUBSET selection.deltas :
          /\ \A s \in Sections :
                Cardinality({d \in included : d.section = s})
                    = Least(Cardinality(Selected(s)), Budget.items)
          /\ payload' = Payload(included, {}, AnalysisWarnings,
                [c \in Counts |-> IF c \in Sections
                                  THEN Excess(Cardinality(Selected(c)), Budget.items) ELSE 0])
    BY DEF CutSections
  <1>2. /\ IsFiniteSet(selection.deltas) /\ IsFiniteSet(included) /\ Budget.items \in Nat
        /\ UNCHANGED selection
    BY FS_Subset DEF RequestInv, CutSections, Limits
  <1>3. ASSUME NEW d \in selection.deltas PROVE d.section \in Sections
    <2>1. d \in comparison  BY DEF CutSections, Acceptable
    <2>2. d \in CompareSnapshots(Base, Target)  BY <2>1 DEF ComparisonInv
    <2> QED  BY <2>2, DeltaOrigin DEF Delta
  <1> DEFINE all(s) == Cardinality(Part(selection.deltas, s))
             shown(s) == Cardinality(Part(included, s))
             left(s) == payload'.omitted[s]
  <1>4. \A s \in Sections : all(s) \in Nat /\ shown(s) \in Nat
    BY <1>2, <1>3, SizeBySection
  <1>5. /\ \A s \in Sections : left(s) = Excess(all(s), Budget.items)
        /\ \A s \in Sections : shown(s) = Least(all(s), Budget.items)
        /\ left("json-budget-items") = 0
        /\ payload'.changes = included /\ payload'.findings = {}
    BY <1>1 DEF Payload, Counts, Sections, Selected, Part
  <1>6. \A s \in Sections : left(s) \in Nat /\ shown(s) + left(s) = all(s)
    <2> SUFFICES ASSUME NEW s \in Sections
                 PROVE  left(s) \in Nat /\ shown(s) + left(s) = all(s)
      OBVIOUS
    <2>1. all(s) \in Nat /\ Budget.items \in Nat  BY <1>2, <1>4
    <2>2. left(s) = Excess(all(s), Budget.items) /\ shown(s) = Least(all(s), Budget.items)
      BY <1>5
    <2> HIDE DEF all, shown, left
    <2> QED  BY <2>1, <2>2, LeastAndExcess
  <1>7. /\ Cardinality(selection.deltas) = all("files") + all("symbols") + all("relationships")
                                              + all("cycles") + all("metrics") + all("findings")
        /\ Cardinality(included) = shown("files") + shown("symbols") + shown("relationships")
                                      + shown("cycles") + shown("metrics") + shown("findings")
    BY <1>2, <1>3, SizeBySection
  <1>8. Evident(payload') = Cardinality(included)
    <2>1. Cardinality(included) \in Nat  BY <1>2, FS_CardinalityType
    <2> QED  BY <1>5, <2>1, FS_EmptySet DEF Evident
  <1>9. OmittedEvidence(payload') = left("files") + left("symbols") + left("relationships")
                                      + left("cycles") + left("metrics") + left("findings") + 0
    BY <1>5 DEF OmittedEvidence
  <1>10. Evident(payload') + OmittedEvidence(payload') = Cardinality(selection.deltas)
    <2>1. {"files", "symbols", "relationships", "cycles", "metrics", "findings"} = Sections
      BY DEF Sections
    <2> HIDE DEF all, shown, left
    <2> QED  BY <1>4, <1>6, <1>7, <1>8, <1>9, <2>1
  <1>11. "findings" \in Sections /\ Selected("findings") = Part(selection.deltas, "findings")
    BY DEF Sections, Selected, Part
  <1>12. /\ \A s \in Sections : payload'.omitted[s] \in Nat
         /\ payload'.omitted["findings"]
              = Excess(Cardinality(Selected("findings")), Budget.items)
    BY <1>5, <1>6, <1>11
  <1>13. AddsUp(payload', Cardinality(selection.deltas))
    BY <1>10, <1>12 DEF AddsUp
  <1>14. AddsUp(payload, Cardinality(selection.deltas))' = AddsUp(payload', Cardinality(selection.deltas))
    BY <1>2 DEF AddsUp, Evident, OmittedEvidence
  <1>15. Selected("findings")' = Selected("findings") /\ Budget' = Budget
    BY <1>2 DEF Selected, Budget
  <1> QED  BY <1>5, <1>12, <1>13, <1>14, <1>15 DEF SectionsAddUp

(* What was selected, less what is shown and counted nowhere.                 *)
Kept == Cardinality(selection.deltas) + Cardinality(selection.findings) - Lost

LEMMA CutFindingsAddsUp ==
    ASSUME SectionsAddUp, RequestInv, Told(payload), CutFindings
    PROVE  AddsUp(payload', Kept)
  <1> DEFINE size == Cardinality(selection.findings)
             o == payload.omitted
  <1>1. PICK shown \in SUBSET selection.findings :
          /\ Cardinality(shown) = Least(size, Budget.findings)
          /\ LET p == Payload(payload.changes, IF "findings" \in Enabled THEN shown ELSE {},
                    payload.warnings,
                    [payload.omitted EXCEPT !["findings"] = FindingsOmitted(payload),
                                            !["review-note-characters"] = NoteExcess(shown)])
             IN payload' = IF Counted(p) # {}
                           THEN Payload(p.changes, p.findings,
                                        p.warnings \cup {TruncationWarning}, p.omitted)
                           ELSE p
    BY DEF CutFindings
  <1>2. /\ payload'.changes = payload.changes
        /\ payload'.findings = IF "findings" \in Enabled THEN shown ELSE {}
        /\ payload'.omitted = [[payload.omitted EXCEPT !["findings"] = FindingsOmitted(payload)]
                                   EXCEPT !["review-note-characters"] = NoteExcess(shown)]
    BY <1>1 DEF Payload
  <1> DEFINE enabled == "findings" \in Enabled
             seen == Cardinality(shown)
             visible == IF enabled THEN seen ELSE 0
             over == size > Budget.findings
             overwritten == IF over THEN o["findings"] ELSE 0
  <1>3. /\ Cardinality(payload'.findings) = visible
        /\ Lost = (IF enabled THEN 0 ELSE seen) + overwritten
    <2>1. Cardinality(payload'.findings) = visible  BY <1>2, FS_EmptySet
    <2>2. o["findings"] = Excess(Cardinality(Selected("findings")), Budget.items)
      BY DEF SectionsAddUp
    <2> QED  BY <1>1, <2>1, <2>2 DEF Lost
  <1>4. /\ payload'.omitted["findings"] = FindingsOmitted(payload)
        /\ \A c \in (Sections \ {"findings"}) \cup {"json-budget-items"} :
              payload'.omitted[c] = o[c]
    <2>1. payload.omitted = [c \in Counts |-> payload.omitted[c]]  BY DEF Told, IsPayload
    <2>2. /\ Sections \cup {"json-budget-items", "review-note-characters"} \subseteq Counts
          /\ "review-note-characters" \notin Sections \cup {"json-budget-items"}
          /\ "findings" \in Sections /\ "json-budget-items" # "findings"
      BY DEF Counts, Sections
    <2>3. DOMAIN payload.omitted = Counts  BY <2>1
    <2> QED  BY <1>2, <2>2, <2>3
  <1>5. /\ size \in Nat /\ Budget.findings \in Nat /\ Budget.items \in Nat
        /\ Cardinality(selection.deltas) \in Nat
        /\ Cardinality(Selected("findings")) \in Nat
    <2>1. Selected("findings") \in SUBSET selection.deltas  BY DEF Selected
    <2> QED  BY <2>1, FS_Subset, FS_CardinalityType DEF RequestInv, CutFindings, Limits
  <1>6. /\ o["files"] \in Nat /\ o["symbols"] \in Nat /\ o["relationships"] \in Nat
        /\ o["cycles"] \in Nat /\ o["metrics"] \in Nat /\ o["findings"] \in Nat
        /\ o["json-budget-items"] \in Nat
    BY DEF SectionsAddUp, AddsUp, Sections, Told, IsPayload
  <1> DEFINE left == FindingsOmitted(payload)
             changes == Cardinality(payload.changes)
  <1>7. changes \in Nat /\ seen \in Nat /\ left \in Nat
    <2>1. IsFiniteSet(shown)  BY FS_Subset DEF RequestInv, CutFindings
    <2>2. left \in Nat  BY <1>5, <1>6, LeastAndExcess DEF FindingsOmitted
    <2> QED  BY <2>1, <2>2, FS_CardinalityType DEF Told, IsPayload
  <1>8. seen + left + overwritten = size + o["findings"] /\ overwritten \in Nat
    <2>1. CASE ~over
      <3> size <= Budget.findings  BY <1>5, <2>1
      <3>1. left = o["findings"] /\ seen = size /\ overwritten = 0
        BY <1>1, <1>5, <2>1, LeastAndExcess DEF FindingsOmitted
      <3> QED  BY <1>5, <1>6, <3>1
    <2>2. CASE over
      <3>1. left = Excess(size, Budget.findings) /\ overwritten = o["findings"]
        BY <2>2 DEF FindingsOmitted
      <3>2. seen + left = size  BY <1>1, <1>5, <3>1, LeastAndExcess
      <3> QED  BY <1>5, <1>6, <3>1, <3>2
    <2> QED  BY <2>1, <2>2
  <1>9. changes + (o["files"] + o["symbols"] + o["relationships"] + o["cycles"] + o["metrics"]
                     + o["findings"] + o["json-budget-items"]) = Cardinality(selection.deltas)
    <2>1. Evident(payload) = changes
      BY <1>7, FS_EmptySet DEF SectionsAddUp, Evident
    <2> QED  BY <2>1 DEF SectionsAddUp, AddsUp, OmittedEvidence
  <1>10. Evident(payload') = changes + visible
    BY <1>2, <1>3 DEF Evident
  <1>11. OmittedEvidence(payload') =
           o["files"] + o["symbols"] + o["relationships"] + o["cycles"] + o["metrics"]
             + left + o["json-budget-items"]
    BY <1>4 DEF OmittedEvidence, Sections
  <1>12. Evident(payload') + OmittedEvidence(payload') = Kept
    <2>1. Kept = Cardinality(selection.deltas) + size - Lost  BY DEF Kept
    <2>2. visible + (IF enabled THEN 0 ELSE seen) = seen  BY <1>7
    <2>3. visible \in Nat  BY <1>7
    <2>4. (IF enabled THEN 0 ELSE seen) \in Nat  BY <1>7
    <2> DEFINE hidden == IF enabled THEN 0 ELSE seen
    <2> HIDE DEF o, left, changes, seen, visible, over, overwritten, size, hidden, enabled
    <2>5. Lost = hidden + overwritten /\ visible + hidden = seen /\ hidden \in Nat
      BY <1>3, <2>2, <2>4 DEF hidden
    <2>6. seen \in Nat /\ left \in Nat /\ changes \in Nat /\ size \in Nat
          /\ overwritten \in Nat
      BY <1>5, <1>7, <1>8
    <2>7. visible + left = size + o["findings"] - Lost
      BY <1>6, <1>8, <2>3, <2>5, <2>6
    <2> QED  BY <1>5, <1>6, <1>9, <1>10, <1>11, <2>1, <2>3, <2>5, <2>6, <2>7
  <1>13. \A s \in Sections : payload'.omitted[s] \in Nat
    BY <1>4, <1>6, <1>7 DEF Sections
  <1> QED  BY <1>12, <1>13 DEF AddsUp

AccountInv ==
    /\ phase = "sections" => SectionsAddUp
    /\ phase \in {"assembled", "json", "announced", "done"} => AddsUp(payload, Kept)

LEMMA AccountStep ==
    ASSUME AccountInv, OutputInv, RequestInv, ComparisonInv, [Next]_vars
    PROVE  AccountInv'
  <1>1. CASE Compare  BY <1>1 DEF Compare, AccountInv
  <1>2. CASE Ask  BY <1>2 DEF Ask, AccountInv
  <1>3. CASE Refuse  BY <1>3 DEF Refuse, AccountInv
  <1>4. CASE CutSections
    <2>1. phase' = "sections"  BY <1>4 DEF CutSections
    <2> QED  BY <1>4, <2>1, CutSectionsAddsUp DEF AccountInv
  <1> SUFFICES ASSUME \/ CutFindings \/ FitJson \/ FitMarkdown \/ AnnounceCut \/ Retract
                      \/ CutMarkdown \/ UNCHANGED vars
               PROVE  AccountInv'
    BY <1>1, <1>2, <1>3, <1>4 DEF Next
  <1>5. UNCHANGED selection
    <2>1. CASE CutFindings  BY <2>1 DEF CutFindings
    <2>2. CASE \/ FitJson \/ FitMarkdown \/ AnnounceCut \/ Retract \/ CutMarkdown
               \/ UNCHANGED vars
      BY <2>2 DEF FitJson, FitMarkdown, AnnounceCut, Retract, CutMarkdown, vars
    <2> QED  BY <2>1, <2>2
  <1>6. Kept' = Kept
    BY <1>5 DEF Kept, Lost, Selected, Enabled, Budget
  <1>7. AddsUp(payload, Kept)' = AddsUp(payload', Kept)
    BY <1>6 DEF AddsUp, Evident, OmittedEvidence
  <1>8. phase' # "sections" /\ AddsUp(payload', Kept) => AccountInv'
    BY <1>7 DEF AccountInv
  <1>9. CASE CutFindings
    <2>1. phase = "sections" /\ phase' = "assembled" /\ Told(payload) /\ SectionsAddUp
      BY <1>9 DEF CutFindings, OutputInv, AccountInv
    <2>2. AddsUp(payload', Kept)
      BY <1>9, <2>1, CutFindingsAddsUp
    <2> QED  BY <1>8, <2>1, <2>2
  <1>10. CASE FitJson
    <2>1. /\ phase = "assembled" /\ payload' = Omitted(payload)
          /\ phase' = IF JsonBytes(payload') > Budget.json THEN "too small" ELSE "json"
      BY <1>10 DEF FitJson
    <2>2. AddsUp(payload', Kept)
      BY <2>1, FittingAddsUp DEF AccountInv, OutputInv
    <2> QED  BY <1>8, <2>1, <2>2
  <1>11. CASE AnnounceCut
    <2>1. /\ phase = "json" /\ payload' = Omitted(WithMarkdownNotice(payload))
          /\ phase' # "sections" /\ Told(payload)
      BY <1>11 DEF AnnounceCut, OutputInv
    <2>2. Told(WithMarkdownNotice(payload))  BY <2>1, NoticeTells
    <2>3. AddsUp(payload', Kept)
      <3>1. AddsUp(WithMarkdownNotice(payload), Kept)
        BY <2>1, FittingAddsUp DEF AccountInv
      <3> QED  BY <2>1, <2>2, <3>1, FittingAddsUp
    <2> QED  BY <1>8, <2>1, <2>3
  <1>12. CASE Retract
    <2>1. /\ phase = "announced" /\ payload' = WithoutMarkdownNotice(payload)
          /\ phase' = "too small" \/ phase' = "done"
      BY <1>12 DEF Retract
    <2>2. AddsUp(payload', Kept)
      BY <2>1, FittingAddsUp DEF AccountInv, OutputInv
    <2> QED  BY <1>8, <2>1, <2>2
  <1>13. CASE FitMarkdown \/ CutMarkdown
    <2>1. payload' = payload /\ (phase = "json" \/ phase = "announced")
      BY <1>13 DEF FitMarkdown, CutMarkdown
    <2>2. phase' = "too small" \/ phase' = "done"
      BY <1>13 DEF FitMarkdown, CutMarkdown
    <2> QED  BY <1>8, <2>1, <2>2 DEF AccountInv
  <1>14. CASE UNCHANGED vars
    <2>1. payload' = payload /\ phase' = phase  BY <1>14 DEF vars
    <2>2. SectionsAddUp' = SectionsAddUp
      BY <1>5, <2>1 DEF SectionsAddUp, AddsUp, Evident, OmittedEvidence, Selected, Budget
    <2> QED  BY <1>6, <1>7, <2>1, <2>2 DEF AccountInv
  <1> QED  BY <1>9, <1>10, <1>11, <1>12, <1>13, <1>14

(* What was selected is shown or counted but for what is Lost, and labelled as *)
(* far as a cut of the Markdown leaves the labels.                             *)
THEOREM EvidenceAlwaysAccountedFor == Spec => []EvidenceIsAccountedFor
  <1>1. Init => AccountInv /\ OutputInv
    BY DEF Init, AccountInv, OutputInv
  <1>2. AccountInv /\ OutputInv /\ RequestInv /\ ComparisonInv /\ [Next]_vars =>
          AccountInv' /\ OutputInv'
    BY AccountStep, OutputStep
  <1>3. AccountInv /\ OutputInv => SelectedEvidenceIsAccountedFor
    BY DEF AccountInv, OutputInv, SelectedEvidenceIsAccountedFor, AddsUp, Kept
  <1>4. SelectedEvidenceIsAccountedFor /\ PartialEvidenceIsLabelled => EvidenceIsAccountedFor
    BY DEF EvidenceIsAccountedFor
  <1> QED  BY <1>1, <1>2, <1>3, <1>4, ComparisonIsKept, RequestIsKept, PartialAlwaysLabelled,
              PTL DEF Spec
=============================================================================
