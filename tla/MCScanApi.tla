----------------------------- MODULE MCScanApi -----------------------------
(* Instances of ScanApi for TLC.                                             *)
EXTENDS ScanApi

CONSTANTS s1, s2, d1

OneDomain == [s \in Scan |-> d1]

(* A job beside a scan of the same host that runs in the API process.        *)
QueueBesideHere == [s \in Scan |-> IF s = s1 THEN {"queue"} ELSE {"stream", "call"}]
=============================================================================
