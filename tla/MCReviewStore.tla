---------------------------- MODULE MCReviewStore ----------------------------
(* Two repositories; the first owns two findings and three snapshots that  *)
(* differ in what they hold and in whether the scan was complete.          *)
EXTENDS ReviewStore, TLC

CONSTANTS a1, a2, r1, r2, f1, f2, g1, s1, s2, s3, s4, t1

Scan(r, held, truncated, parseGaps) ==
    [repository |-> r, findings |-> held,
     truncated |-> truncated, parseGaps |-> parseGaps]

MCOwner == f1 :> r1 @@ f2 :> r1 @@ g1 :> r2

\* The scans of r1: f1 alone, both, f2 in a truncated scan, none with a parse gap.
MCContent ==
    s1 :> Scan(r1, {f1}, FALSE, FALSE) @@
    s2 :> Scan(r1, {f1, f2}, FALSE, FALSE) @@
    s3 :> Scan(r1, {f2}, TRUE, FALSE) @@
    s4 :> Scan(r1, {}, FALSE, TRUE) @@
    t1 :> Scan(r2, {g1}, FALSE, FALSE)

\* Attempts are interchangeable: nothing compares their identifiers.
AnalysisSymmetry == Permutations(Analyses)
=============================================================================
