---------------------------- MODULE MCBpmBackfill ----------------------------
(* The BPM backfill on small sets.                                         *)
EXTENDS BpmBackfill, TLC

CONSTANTS i1, i2, j1, j2, u1, u2, l1, l2, l3

Symmetry == Permutations(Item) \cup Permutations(Link) \cup Permutations(User)
            \cup Permutations(Job)
=============================================================================
