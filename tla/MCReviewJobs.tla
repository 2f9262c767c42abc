----------------------------- MODULE MCReviewJobs -----------------------------
(* Jobs on one repository with two findings: one scan sees a finding, one is *)
(* cut short and sees none.                                                  *)
EXTENDS ReviewJobs, TLC

CONSTANTS a1, a2, a3, r1, f1, s1, s2

Scan(held, truncated) ==
    [repository |-> r1, findings |-> held, truncated |-> truncated, parseGaps |-> FALSE]

MCOwner == f1 :> r1

MCContent == s1 :> Scan({f1}, FALSE) @@ s2 :> Scan({}, TRUE)

\* Jobs are interchangeable: nothing compares their identifiers.
JobSymmetry == Permutations(Analyses)
=============================================================================
