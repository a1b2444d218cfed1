--------------------------- MODULE MCScanScheduler ---------------------------
(* The scan scheduler on small sets.                                       *)
EXTENDS ScanScheduler, TLC

CONSTANTS r1, r2, t1, t2, t3

Symmetry == Permutations(Request) \cup Permutations(Task)
=============================================================================
