--------------------------- MODULE MCHandoffScreen ----------------------------
(* Two pairs, and a handoff saved for one of them in an earlier session.       *)
EXTENDS HandoffScreen

CONSTANTS p1, p2

MCStored == {[pair |-> p2, evidence |-> {p2}, objective |-> "old"]}
=============================================================================
