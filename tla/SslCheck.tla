------------------------------ MODULE SslCheck ------------------------------
(***************************************************************************)
(* SslCheck.run for one server: SSLyze's results are gone through one       *)
(* command after the other, and each adds details and deductions.  A        *)
(* command may have no result; anything that raises, an incomplete scan and *)
(* an unknown host end the check with the error result.                     *)
(***************************************************************************)
EXTENDS Integers, FiniteSets

CONSTANTS
    Suite,          \* kinds of cipher suites a server may accept
    MaxSuites,      \* bound of the model: suites of a kind, per protocol
    MaxDeployments  \* bound of the model: certificates of a server

(* The parts of a suite's name that _analyze_cipher_suite looks at.         *)
SuiteName == [broken : BOOLEAN, anon : BOOLEAN, tls13 : BOOLEAN,
              cbc : BOOLEAN, pfs : BOOLEAN]

Deprecated == {"SSL 2.0", "SSL 3.0", "TLS 1.0", "TLS 1.1"}
Secure == {"TLS 1.2", "TLS 1.3"}
Step == {"deprecated", "secure", "certificate", "heartbleed", "done"}

VARIABLES
    step,
    todo,        \* protocols not gone through yet
    hasSecure,
    insecure,    \* insecure_count
    weak,        \* weak_count
    deployments, \* certificates gone through
    deductions,  \* score_deductions
    fails, warns, \* details with that status
    score

vars == <<step, todo, hasSecure, insecure, weak, deployments, deductions,
          fails, warns, score>>

TypeOK ==
    /\ step \in Step
    /\ todo \subseteq Deprecated \cup Secure
    /\ hasSecure \in BOOLEAN
    /\ insecure \in Nat /\ weak \in Nat /\ deployments \in 0..MaxDeployments
    /\ deductions \in Nat /\ fails \in Nat /\ warns \in Nat
    /\ score \in 0..100

Init ==
    /\ step = "deprecated"
    /\ todo = Deprecated
    /\ hasSecure = FALSE
    /\ insecure = 0 /\ weak = 0 /\ deployments = 0
    /\ deductions = 0 /\ fails = 0 /\ warns = 0
    /\ score = 0

-----------------------------------------------------------------------------
(* _analyze_cipher_suite, in the order of its tests.                         *)
Level(suite) ==
    IF suite.broken \/ suite.anon THEN "insecure"
    ELSE IF suite.tls13 THEN "recommended"
    ELSE IF suite.cbc \/ ~suite.pfs THEN "weak"
    ELSE "secure"

(* _error_result replaces all that was found.                                *)
Error ==
    /\ step # "done"
    /\ step' = "done"
    /\ fails' = 1 /\ warns' = 0 /\ score' = 0
    /\ UNCHANGED <<todo, hasSecure, insecure, weak, deployments, deductions>>

(* A detail that costs points.                                               *)
Fail(points) == fails' = fails + 1 /\ deductions' = deductions + points /\ UNCHANGED warns
Warn(points) == warns' = warns + 1 /\ deductions' = deductions + points /\ UNCHANGED fails
Fine == UNCHANGED <<fails, warns, deductions>>

(* A deprecated protocol: accepted, or refused, or without result.           *)
DeprecatedProtocol(p) ==
    /\ step = "deprecated" /\ p \in todo
    /\ Fail(25) \/ Fine
    /\ todo' = IF todo = {p} THEN Secure ELSE todo \ {p}
    /\ step' = IF todo = {p} THEN "secure" ELSE "deprecated"
    /\ UNCHANGED <<hasSecure, insecure, weak, deployments, score>>

CapAt(n, cap) == IF n < cap THEN n ELSE cap

(* Mutant: weak suites are shown and not counted.                            *)
CipherPenaltyInsecure(i, w) == CapAt(i * 10, 40)

CipherPenalty(i, w) == CapAt(i * 10, 40) + CapAt(w * 5, 20)

(* How many of the accepted suites have that level.                          *)
SuitesOf(level, accepted) ==
    Cardinality({suite \in Suite \X (1..MaxSuites) :
                     Level(suite[1]) = level /\ suite[2] <= accepted[suite[1]]})

(* A secure protocol with the suites accepted, how many of each kind; none   *)
(* stands for a protocol that is off or has no result.  After the last one   *)
(* the suites, and the absence of any secure protocol, are deducted.         *)
SecureProtocol(p, accepted) ==
    LET on  == hasSecure \/ \E k \in Suite : accepted[k] > 0
        i   == insecure + SuitesOf("insecure", accepted)
        w   == weak + SuitesOf("weak", accepted)
        off == IF on THEN 0 ELSE 1
    IN  /\ step = "secure" /\ p \in todo
        /\ hasSecure' = on /\ insecure' = i /\ weak' = w
        /\ todo' = todo \ {p}
        /\ warns' = warns + (w - weak)
        /\ \/ /\ todo # {p}
              /\ fails' = fails + (i - insecure)
              /\ UNCHANGED <<step, deductions>>
           \/ /\ todo = {p}
              /\ step' = "certificate"
              /\ fails' = fails + (i - insecure) + off
              /\ deductions' = deductions + CipherPenalty(i, w) + 50 * off
        /\ UNCHANGED <<deployments, score>>

(* Mutant: a certificate is looked at no further once it has expired.        *)
CertificatePointsOfExpiry(expiry, small, trusted) ==
    CASE expiry = "expired" -> 30 [] expiry = "soon" -> 10 [] OTHER -> 0

(* Expiry (under 0 days, under 30), key and chain of one certificate.        *)
CertificatePoints(expiry, small, trusted) ==
    (CASE expiry = "expired" -> 30 [] expiry = "soon" -> 10 [] OTHER -> 0)
    + (IF small THEN 20 ELSE 0) + (IF trusted THEN 0 ELSE 20)

Deployment(expiry, small, trusted) ==
    LET One(b) == IF b THEN 1 ELSE 0 IN
    /\ step = "certificate" /\ deployments < MaxDeployments
    /\ deployments' = deployments + 1
    /\ fails' = fails + One(expiry = "expired") + One(small) + One(~trusted)
    /\ warns' = warns + One(expiry = "soon")
    /\ deductions' = deductions + CertificatePoints(expiry, small, trusted)
    /\ UNCHANGED <<step, todo, hasSecure, insecure, weak, score>>

(* No certificate is left, or the command has no result.                     *)
CertificateOver ==
    /\ step = "certificate"
    /\ step' = "heartbleed"
    /\ UNCHANGED <<todo, hasSecure, insecure, weak, deployments, deductions,
                   fails, warns, score>>

(* Mutant: the score is not kept above 0.                                    *)
HeartbleedUnbounded ==
    /\ step = "heartbleed"
    /\ Fail(40) \/ Fine
    /\ score' = 100 - deductions'
    /\ step' = "done"
    /\ UNCHANGED <<todo, hasSecure, insecure, weak, deployments>>

(* The last command, and the score.                                          *)
Heartbleed ==
    /\ step = "heartbleed"
    /\ Fail(40) \/ Fine
    /\ score' = IF deductions' > 100 THEN 0 ELSE 100 - deductions'
    /\ step' = "done"
    /\ UNCHANGED <<todo, hasSecure, insecure, weak, deployments>>

Next ==
    \/ Error
    \/ \E p \in Deprecated : DeprecatedProtocol(p)
    \/ \E p \in Secure, accepted \in [Suite -> 0..MaxSuites] : SecureProtocol(p, accepted)
    \/ \E expiry \in {"expired", "soon", "fine"}, small, trusted \in BOOLEAN :
           Deployment(expiry, small, trusted)
    \/ CertificateOver
    \/ Heartbleed

Spec == Init /\ [][Next]_vars

-----------------------------------------------------------------------------
(* Full marks exactly when nothing is shown as FAIL or WARN: deductions made *)
(* apart from the details (the suites' are, at the end of their loop) agree  *)
(* with them, caps included (_scan_sync).                                    *)
ScoreMatchesDetails == step = "done" => (score = 100 <=> fails + warns = 0)

(* Nothing that is shown comes for free: each FAIL detail that is not a      *)
(* suite takes at least 20 points and each such WARN 10, the suites together *)
(* at least 5, however many there are and whatever else was found            *)
(* (_scan_sync, the deductions beside the details).                          *)
DetailsCost ==
    step = "done" /\ score > 0 =>
        100 - score >= 20 * (fails - insecure) + 10 * (warns - weak)
                       + (IF insecure + weak > 0 THEN 5 ELSE 0)

=============================================================================
