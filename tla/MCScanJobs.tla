----------------------------- MODULE MCScanJobs -----------------------------
(* Instances of ScanJobs for TLC.                                           *)
EXTENDS ScanJobs

CONSTANTS s1, s2, s3, c1, c2, d1, d2

OneDomain == [s \in Scan |-> d1]

(* Two scans of a host, one of another.                                     *)
TwoDomains == [s \in Scan |-> IF s = s3 THEN d2 ELSE d1]

Symmetry == Permutations(Scan) \cup Permutations(Check)
=============================================================================
