---------------------------- MODULE FindingLedger ----------------------------
(***************************************************************************)
(* What the findings queue promises its readers, with no attempts,         *)
(* generations, snapshots or history: a repository is observed as a whole  *)
(* in one step, an incomplete observation only adds, a complete one also   *)
(* resolves what it does not see, and nothing but a reviewer changes a     *)
(* review, one version at a time.                                          *)
(***************************************************************************)
EXTENDS Naturals

CONSTANTS Repositories, Findings, Owner, Decisions

VARIABLES
    evidence,  \* "absent", "active" or "resolved", for each finding
    review     \* the decision on each finding and its version

ledgerVars == <<evidence, review>>

OwnedBy(r) == {f \in Findings : Owner[f] = r}

Init ==
    /\ evidence = [f \in Findings |-> "absent"]
    /\ review = [f \in Findings |-> [status |-> "new", version |-> 0]]

ObservePartially(r, seen) ==
    /\ seen \subseteq OwnedBy(r)
    /\ evidence' = [f \in Findings |-> IF f \in seen THEN "active" ELSE evidence[f]]
    /\ UNCHANGED review


AfterCompleteScan(f, r, seen) ==
    IF f \in seen THEN "active"
    ELSE IF f \in OwnedBy(r) /\ evidence[f] = "active" THEN "resolved"
    ELSE evidence[f]

ObserveCompletely(r, seen) ==
    /\ seen \subseteq OwnedBy(r)
    /\ evidence' = [f \in Findings |-> AfterCompleteScan(f, r, seen)]
    /\ UNCHANGED review

Decide(f, decision) ==
    /\ evidence[f] # "absent"
    /\ review' = [review EXCEPT
           ![f] = [status |-> decision, version |-> review[f].version + 1]]
    /\ UNCHANGED evidence

Next ==
    \/ \E r \in Repositories, seen \in SUBSET Findings : ObservePartially(r, seen)
    \/ \E r \in Repositories, seen \in SUBSET Findings : ObserveCompletely(r, seen)
    \/ \E f \in Findings, decision \in Decisions : Decide(f, decision)

Spec == Init /\ [][Next]_ledgerVars
=============================================================================
