---------------------------- MODULE MCScanSystem ----------------------------
(* Instances of ScanSystem for TLC.                                          *)
EXTENDS ScanSystem

CONSTANTS s1, c1, c2, d1

OneDomain == [s \in Scan |-> d1]

Symmetry == Permutations(Check) \cup Permutations(Reader)
=============================================================================
