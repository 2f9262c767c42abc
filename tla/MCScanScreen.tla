----------------------------- MODULE MCScanScreen -----------------------------
(* A directory that is its own root, one nested in a broader root, and a       *)
(* repository scanned before.                                                  *)
EXTENDS ScanScreen, TLC

CONSTANTS p1, p2, r1, r2

MCRoot == p1 :> r1 @@ p2 :> r2
=============================================================================
