-------------------------- MODULE MCAnalysisQueue --------------------------
(* Small instances of AnalysisQueue for TLC. *)
EXTENDS AnalysisQueue, TLC

Symmetry == Permutations(Album) \cup Permutations(Request) \cup Permutations(Job)
=============================================================================
