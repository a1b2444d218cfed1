----------------------------- MODULE MCScanItems -----------------------------
(* The items of a few scans of a folder of two files.                      *)
EXTENDS ScanItems, TLC

CONSTANTS f1, f2, s1, s2, s3

Symmetry == Permutations(File) \cup Permutations(Scan)
=============================================================================
