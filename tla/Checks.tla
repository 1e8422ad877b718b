------------------------------- MODULE Checks -------------------------------
(***************************************************************************)
(* The checks of the registry and the score of their report, one part at a  *)
(* time: DnsCheck and SslCheck run in threads of their own, the HTTP checks *)
(* meet only at the target (module TargetProbes), and none keeps a state    *)
(* between scans.  The parts share nothing, so the states of each one, the  *)
(* others standing at their start, are all that a property of it depends on. *)
(***************************************************************************)
EXTENDS Integers

CONSTANTS
    Check, SeverityOf, Score, NoScore,                   \* Scoring
    Server, MaxServers, MaxFaults,                       \* DnsCheck
    Suite, MaxSuites, MaxDeployments,                    \* SslCheck
    Burst, Concurrency, Secured, Quotas, Capacities,     \* TargetProbes
    MaxWindows, MaxErrors

VARIABLES
    part,  \* the part that runs
    checks, weighted, weights,
    zone, dnsStep, tests, seen, queue, dnsScore, faults,
    sslStep, todo, hasSecure, insecure, weak, deployments, deductions, fails,
    warns, sslScore,
    target, window, windows, headers, baseline, probe, inflight, sent, answers,
    errors

reportVars == <<checks, weighted, weights>>
dnsVars == <<zone, dnsStep, tests, seen, queue, dnsScore, faults>>
sslVars == <<sslStep, todo, hasSecure, insecure, weak, deployments, deductions,
             fails, warns, sslScore>>
targetVars == <<target, window, windows, headers, baseline, probe, inflight,
                sent, answers, errors>>
vars == <<part, reportVars, dnsVars, sslVars, targetVars>>

Report == INSTANCE Scoring
Dns == INSTANCE DnsCheck WITH step <- dnsStep, score <- dnsScore
Ssl == INSTANCE SslCheck WITH step <- sslStep, score <- sslScore
Probes == INSTANCE TargetProbes

ASSUME ReportAssumption ==
    SeverityOf \in [Check -> Report!Severity] /\ Score \subseteq 0..100 /\ NoScore \notin Int
ASSUME SuiteAssumption == Suite \subseteq Ssl!SuiteName
ASSUME BoundsAssumption ==
    /\ Burst \in Nat /\ Concurrency \in Nat \ {0} /\ Quotas \cup Capacities \subseteq Nat
    /\ Secured \subseteq 0..Probes!SecurityHeaders
    /\ {MaxServers, MaxFaults, MaxSuites, MaxDeployments, MaxWindows, MaxErrors} \subseteq Nat

(* Any zone, any target: of no matter while the part does not run.           *)
IdleZone == CHOOSE z \in Dns!Zone :
    z.ns = << >> /\ z.answering = {} /\ z.open = {}
IdleTarget == CHOOSE t \in Probes!Target : TRUE

Init ==
    /\ part \in {"report", "dns", "ssl", "probes"}
    /\ part # "dns" => zone = IdleZone
    /\ part # "probes" => target = IdleTarget
    /\ Report!Init /\ Dns!Init /\ Ssl!Init /\ Probes!Init

Next ==
    /\ UNCHANGED part
    /\ \/ part = "report" /\ Report!Next /\ UNCHANGED <<dnsVars, sslVars, targetVars>>
       \/ part = "dns" /\ Dns!Next /\ UNCHANGED <<reportVars, sslVars, targetVars>>
       \/ part = "ssl" /\ Ssl!Next /\ UNCHANGED <<reportVars, dnsVars, targetVars>>
       \/ part = "probes" /\ Probes!Next /\ UNCHANGED <<reportVars, dnsVars, sslVars>>

Spec == Init /\ [][Next]_vars

-----------------------------------------------------------------------------
(* The properties, stated and explained in the modules of the parts.         *)

TypeOK == Report!TypeOK /\ Dns!TypeOK /\ Ssl!TypeOK /\ Probes!TypeOK

(* A report's grade lies within those of its checks (compute_overall).       *)
GradeWithinChecks == Report!GradeWithinChecks

(* A new result pulls the score of a report towards it (compute_overall).    *)
PulledTowardsNewResult == Report!PulledTowardsNewResult

(* The score and the details of DnsCheck tell the same story.                *)
DnsScoreMatchesDetails == Dns!ScoreMatchesDetails

(* An open zone transfer is found and never invented (_check_axfr).          *)
TransferVerdict == Dns!TransferVerdict

(* The score and the details of SslCheck tell the same story (_scan_sync).   *)
SslScoreMatchesDetails == Ssl!ScoreMatchesDetails

(* No FAIL or WARN detail of SslCheck comes for free (_scan_sync).           *)
DetailsCost == Ssl!DetailsCost

(* A limiter the burst must run into is found (RateLimitCheck.run).          *)
BurstFindsLimiter == Probes!BurstFindsLimiter

(* The HTTP checks do not disturb one another at a target with room for them. *)
VerdictsAreTheTargets == Probes!VerdictsAreTheTargets

(* docs/dns/spf-dkim-dmarc.md:60: a DMARC policy is found at _dmarc.         *)
DmarcIsSeen == Dns!DmarcIsSeen

(* waf_check.py:8-10: a rejected probe means filtering.                      *)
BlockedMeansFiltered == Probes!BlockedMeansFiltered

=============================================================================
