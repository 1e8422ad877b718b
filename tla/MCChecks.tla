------------------------------ MODULE MCChecks ------------------------------
(* Instances of Checks for TLC.                                             *)
EXTENDS Checks, TLC

(* The five registered checks, with their severities and scores they give.  *)
RegisteredChecks == {"headers", "ssl", "dns", "waf", "rate"}

RegisteredSeverity ==
    [c \in RegisteredChecks |->
        CASE c = "ssl" -> "critical" [] c \in {"headers", "dns"} -> "high"
          [] OTHER -> "medium"]

SomeScores == {0, 30, 39, 60, 75, 85, 90, 100}

Kind(broken, anon, tls13, cbc, pfs) ==
    [broken |-> broken, anon |-> anon, tls13 |-> tls13, cbc |-> cbc, pfs |-> pfs]

(* TLS_RSA_WITH_RC4_128_MD5, TLS_ECDHE_RSA_WITH_AES_128_CBC_SHA,             *)
(* TLS_RSA_WITH_AES_128_GCM_SHA256 and TLS_AES_128_GCM_SHA256.               *)
SomeSuites ==
    {Kind(TRUE, FALSE, FALSE, FALSE, FALSE), Kind(FALSE, FALSE, FALSE, TRUE, TRUE),
     Kind(FALSE, FALSE, FALSE, FALSE, FALSE), Kind(FALSE, FALSE, TRUE, FALSE, FALSE)}

Symmetry == Permutations(Server)
=============================================================================
