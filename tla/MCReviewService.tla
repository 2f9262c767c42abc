--------------------------- MODULE MCReviewService ---------------------------
(* Attempts that overlap on one repository, with two findings and three     *)
(* scan outcomes: one finding, both findings, and a scan that was cut short.*)
EXTENDS ReviewService, TLC

CONSTANTS a1, a2, a3, r1, f1, f2, s1, s2, s3

Scan(held, truncated) ==
    [repository |-> r1, findings |-> held, truncated |-> truncated, parseGaps |-> FALSE]

MCOwner == f1 :> r1 @@ f2 :> r1

MCContent == s1 :> Scan({f1}, FALSE) @@ s2 :> Scan({f1, f2}, FALSE) @@ s3 :> Scan({}, TRUE)

\* Attempts are interchangeable: nothing compares their identifiers.
AnalysisSymmetry == Permutations(Analyses)
=============================================================================
