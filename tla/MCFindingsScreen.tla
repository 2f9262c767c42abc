--------------------------- MODULE MCFindingsScreen ---------------------------
(* Two findings in the queue of one snapshot.                                 *)
EXTENDS FindingsScreen

CONSTANTS f1, f2

MCQueue == <<f1, f2>>
=============================================================================
