-------------------------- MODULE SnapshotComparison --------------------------
(* The comparison of two stored snapshots (zscripts/infrastructure/            *)
(* comparison_analysis.py).  The evidence of a snapshot holds, per section and *)
(* logical key, the occurrences in the order they are stored in; the fields of *)
(* an occurrence are one value.  A delta stands for its identifier too, which  *)
(* is a digest of all its fields.                                              *)
EXTENDS Integers, Sequences, FiniteSets

CONSTANTS
    Keys,          \* logical keys: paths, qualified names, subjects of a rule
    Values,        \* the fields of an occurrence that are compared
    Versions,      \* [schema, analyzer]: the versions recorded with a snapshot
    Blind          \* <<version, section, key>>: what a version does not recognise

Sections == {"files", "symbols", "relationships", "cycles", "metrics", "findings"}
Items == [Sections -> [Keys -> Seq(Values)]]
Evidence == [version : Versions, truncated : BOOLEAN, gaps : BOOLEAN,
             reconciled : BOOLEAN, items : Items]
Complete(e) == ~e.truncated /\ ~e.gaps

ASSUME VersionAssumption == \A v \in Versions : v.schema \in Int

(* What an analysis stores of the real content of the repository: nothing its  *)
(* version does not recognise, and the rest as it is if it was not cut short   *)
(* and parsed every file.  Of unread, the keys that depend on a file which     *)
(* could not be read or was taken for binary, nothing is known: such a file is *)
(* left out of a snapshot that is complete all the same.  Nor is anything      *)
(* known of what an incomplete analysis lacks, misreads or makes up.           *)
Observes(e, real, unread) ==
    \A s \in Sections, k \in Keys :
        IF <<e.version, s, k>> \in Blind THEN e.items[s][k] = <<>>
        ELSE Complete(e) /\ <<s, k>> \notin unread => e.items[s][k] = real[s][k]

-----------------------------------------------------------------------------
(* Compatibility of the two sides.                                            *)

MinimumSchema ==
    [s \in Sections |-> IF s \in {"files", "symbols"} THEN 1
                        ELSE IF s \in {"relationships", "cycles"} THEN 2 ELSE 3]

Unavailable(s, b, t) ==
    b.version.schema < MinimumSchema[s] \/ t.version.schema < MinimumSchema[s]

Reasons(s, b, t) ==
    {r \in {"version-mismatch", "baseline-truncated", "target-truncated",
            "baseline-parse-gaps", "target-parse-gaps",
            "baseline-lifecycle-incomplete", "target-lifecycle-incomplete"} :
        \/ r = "version-mismatch" /\ b.version # t.version
        \/ r = "baseline-truncated" /\ b.truncated
        \/ r = "target-truncated" /\ t.truncated
        \/ r = "baseline-parse-gaps" /\ b.gaps
        \/ r = "target-parse-gaps" /\ t.gaps
        \/ r = "baseline-lifecycle-incomplete" /\ s = "findings" /\ ~b.reconciled
        \/ r = "target-lifecycle-incomplete" /\ s = "findings" /\ ~t.reconciled}

Supported(s, b, t) == ~Unavailable(s, b, t) /\ Reasons(s, b, t) = {}

BaselineUncertain(reasons) ==
    reasons \cap {"version-mismatch", "baseline-truncated", "baseline-parse-gaps"} # {}
BugTargetUncertain(reasons) ==
    reasons \cap {"version-mismatch", "target-truncated"} # {}
TargetUncertain(reasons) ==
    reasons \cap {"version-mismatch", "target-truncated", "target-parse-gaps"} # {}

-----------------------------------------------------------------------------
(* The occurrences of a key.  Relationships with the same key are aligned by   *)
(* their position; in the other sections the items are put into a dictionary,  *)
(* where the last one of a key replaces those before it.                       *)

LastOf(occurrences) ==
    IF occurrences = <<>> THEN <<>> ELSE <<occurrences[Len(occurrences)]>>
Occurrences(s, items, k) ==
    IF s = "relationships" THEN items[s][k] ELSE LastOf(items[s][k])
At(occurrences, i) == IF i <= Len(occurrences) THEN {occurrences[i]} ELSE {}

BugPositions(before, after) ==
    1 .. IF Len(before) <= Len(after) THEN Len(before) ELSE Len(after)
Positions(before, after) ==
    1 .. IF Len(before) >= Len(after) THEN Len(before) ELSE Len(after)

(* {} stands for None.  A cycle has no fields but its members, its key.        *)
ChangeType(s, before, after, reasons) ==
    IF before = {}
    THEN IF BaselineUncertain(reasons) THEN "not-observed-in-baseline" ELSE "added"
    ELSE IF after = {}
    THEN IF TargetUncertain(reasons) THEN "not-observed-in-target" ELSE "removed"
    ELSE IF s = "cycles" \/ before = after THEN "unchanged" ELSE "changed"

Delta(s, k, i, before, after, reasons) ==
    [section |-> s, key |-> k, index |-> i, before |-> before, after |-> after,
     change |-> ChangeType(s, before, after, reasons)]

Aligned(s, k, b, t) ==
    LET before == Occurrences(s, b.items, k)
        after == Occurrences(s, t.items, k)
    IN {Delta(s, k, i, At(before, i), At(after, i), Reasons(s, b, t)) :
            i \in Positions(before, after)}

SectionDeltas(s, b, t) ==
    IF Unavailable(s, b, t) THEN {}
    ELSE {d \in UNION {Aligned(s, k, b, t) : k \in Keys} : d.change # "unchanged"}

CompareSnapshots(b, t) == UNION {SectionDeltas(s, b, t) : s \in Sections}

-----------------------------------------------------------------------------
(* What the comparison promises of its deltas, for a baseline b and a target t *)
(* that observe the contents rb and rt but for the keys ub and ut.             *)

AbsenceIsReal(deltas, rb, ub, rt, ut) ==
    \A d \in deltas :
        /\ d.change = "added" /\ <<d.section, d.key>> \notin ub =>
               Len(rb[d.section][d.key]) < d.index
        /\ d.change = "removed" /\ <<d.section, d.key>> \notin ut =>
               Len(rt[d.section][d.key]) < d.index

MirroredChange(change) ==
    CASE change = "added" -> "removed"
      [] change = "removed" -> "added"
      [] change = "not-observed-in-baseline" -> "not-observed-in-target"
      [] change = "not-observed-in-target" -> "not-observed-in-baseline"
      [] OTHER -> change
Mirrored(d) == [section |-> d.section, key |-> d.key, index |-> d.index,
                before |-> d.after, after |-> d.before, change |-> MirroredChange(d.change)]

(* Keys aligned by position, or with at most one occurrence.  Of the other     *)
(* keys with more, all but one is lost in the dictionary (LastOf).             *)
Single(s, k, real) == s = "relationships" \/ Len(real[s][k]) <= 1
Comparable(s, k, b, t, rb, ub, rt, ut) ==
    /\ Complete(b) /\ Complete(t) /\ b.version = t.version
    /\ ~Unavailable(s, b, t) /\ <<b.version, s, k>> \notin Blind
    /\ <<s, k>> \notin ub \cup ut
    /\ Single(s, k, rb) /\ Single(s, k, rt)
DeltasAt(deltas, s, k, i) == {d \in deltas : d.section = s /\ d.key = k /\ d.index = i}
Replays(deltas, s, k, rb, rt) ==
    \A i \in 1 .. Len(rb[s][k]) + Len(rt[s][k]) :
        IF DeltasAt(deltas, s, k, i) = {} THEN At(rt[s][k], i) = At(rb[s][k], i)
        ELSE \A d \in DeltasAt(deltas, s, k, i) :
                 d.before = At(rb[s][k], i) /\ d.after = At(rt[s][k], i)
=============================================================================
