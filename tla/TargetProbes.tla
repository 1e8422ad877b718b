---------------------------- MODULE TargetProbes ----------------------------
(***************************************************************************)
(* The three checks that send HTTP requests to the target (HeadersCheck,    *)
(* WafCheck, RateLimitCheck) are started together by a scan, so their       *)
(* requests interleave at a target that may limit their rate, and that may  *)
(* not serve so many at once.  The target is external; the verdicts are the *)
(* checks'.  A request stands for the redirects that follow it.             *)
(***************************************************************************)
EXTENDS Integers, FiniteSets

CONSTANTS
    Burst,        \* RateLimitCheck.burst
    Concurrency,  \* RateLimitCheck.concurrency
    Secured,      \* how many of the security headers a target may set
    Quotas,       \* requests a limiter may let through in a window
    Capacities,   \* requests a target may serve at once
    MaxWindows,   \* bound of the model: windows that begin during the checks
    MaxErrors     \* bound of the model: requests that fail on the network

(***************************************************************************)
(* The target (external): how many of the security headers its own answers  *)
(* carry, whether it answers 403 to all and whether it rejects the probe of *)
(* WafCheck; what the limiter answers, if there is one, to the requests of  *)
(* a window beyond quota, and whether its answers announce that limit; and  *)
(* how many requests it serves at once: with more, it may answer 503.       *)
(***************************************************************************)
SecurityHeaders == 6
Target == [secured : Secured, closed : BOOLEAN, filters : BOOLEAN,
           limiter : {"none", "throttled", "unavailable"}, quota : Quotas,
           announces : BOOLEAN, capacity : Capacities]

(* 403, 406 or 501; 429; 503; no response; and any other.                    *)
Answer == {"page", "blocked", "throttled", "unavailable", "error"}

VARIABLES
    target,
    window,      \* requests counted by the target's limiter
    windows,     \* windows begun
    headers,     \* the request of HeadersCheck: sent, then its answer
    baseline, probe,  \* those of WafCheck
    inflight,    \* requests of the burst that hold the semaphore
    sent,        \* requests of the burst that were started
    answers,     \* how many of the burst's got each answer
    errors

vars == <<target, window, windows, headers, baseline, probe, inflight, sent,
          answers, errors>>

TypeOK ==
    /\ target \in Target
    /\ window \in Nat /\ windows \in 0..MaxWindows /\ errors \in 0..MaxErrors
    /\ {headers, baseline} \subseteq Answer \cup {"none", "sent"}
    /\ probe \in Answer \cup {"none", "sent", "never"}
    /\ inflight \in 0..sent /\ sent \in 0..Burst
    /\ answers \in [Answer -> 0..Burst]

Init ==
    /\ target \in Target
    /\ window = 0 /\ windows = 0 /\ errors = 0
    /\ headers = "none" /\ baseline = "none" /\ probe = "none"
    /\ inflight = 0 /\ sent = 0
    /\ answers = [a \in Answer |-> 0]

-----------------------------------------------------------------------------
(* The requests that are at the target.                                      *)
Load ==
    inflight + (IF headers = "sent" THEN 1 ELSE 0)
             + (IF "sent" \in {baseline, probe} THEN 1 ELSE 0)

(* What the target's own code answers to a request, malicious or not.        *)
Own(malicious) ==
    IF target.closed \/ (malicious /\ target.filters) THEN "blocked" ELSE "page"

Limited == target.limiter # "none" /\ window >= target.quota

(* What it may answer: the limiter comes first, and an overload any time.    *)
MayAnswer(malicious) ==
    {IF Limited THEN target.limiter ELSE Own(malicious)}
        \cup (IF Load > target.capacity THEN {"unavailable"} ELSE {})

(* A request that is there gets its answer.  One that fails on the network   *)
(* never came to the limiter.                                                *)
Request(malicious, answer) ==
    \/ /\ answer = "error"
       /\ errors < MaxErrors /\ errors' = errors + 1
       /\ UNCHANGED window
    \/ /\ answer \in MayAnswer(malicious)
       /\ window' = IF target.limiter = "none" THEN window ELSE window + 1
       /\ UNCHANGED errors

NewWindow ==
    /\ window > 0 /\ windows < MaxWindows
    /\ windows' = windows + 1
    /\ window' = 0
    /\ UNCHANGED <<target, headers, baseline, probe, inflight, sent, answers, errors>>

(* HeadersCheck.run: one request.                                            *)
AskHeaders ==
    /\ headers = "none"
    /\ headers' = "sent"
    /\ UNCHANGED <<target, window, windows, baseline, probe, inflight, sent, answers, errors>>

GetHeaders(answer) ==
    /\ headers = "sent"
    /\ Request(FALSE, answer)
    /\ headers' = answer
    /\ UNCHANGED <<target, windows, baseline, probe, inflight, sent, answers>>

(* WafCheck.run: a normal request, then the probe unless the first failed.   *)
AskBaseline ==
    /\ baseline = "none"
    /\ baseline' = "sent"
    /\ UNCHANGED <<target, window, windows, headers, probe, inflight, sent, answers, errors>>

GetBaseline(answer) ==
    /\ baseline = "sent"
    /\ Request(FALSE, answer)
    /\ baseline' = answer
    /\ probe' = IF answer = "error" THEN "never" ELSE "sent"
    /\ UNCHANGED <<target, windows, headers, inflight, sent, answers>>

GetProbe(answer) ==
    /\ probe = "sent"
    /\ Request(TRUE, answer)
    /\ probe' = answer
    /\ UNCHANGED <<target, windows, headers, baseline, inflight, sent, answers>>

(* Mutant: no semaphore.                                                     *)
AcquireFreely ==
    /\ sent < Burst
    /\ sent' = sent + 1
    /\ inflight' = inflight + 1
    /\ UNCHANGED <<target, window, windows, headers, baseline, probe, answers, errors>>

(* RateLimitCheck.run: hit() takes the semaphore, then gets its answer.      *)
Acquire ==
    /\ sent < Burst /\ inflight < Concurrency
    /\ sent' = sent + 1
    /\ inflight' = inflight + 1
    /\ UNCHANGED <<target, window, windows, headers, baseline, probe, answers, errors>>

Hit(answer) ==
    /\ inflight > 0
    /\ Request(FALSE, answer)
    /\ inflight' = inflight - 1
    /\ answers' = [answers EXCEPT ![answer] = @ + 1]
    /\ UNCHANGED <<target, windows, headers, baseline, probe, sent>>

Next ==
    \/ NewWindow \/ AskHeaders \/ AskBaseline \/ Acquire
    \/ \E a \in Answer : GetHeaders(a) \/ GetBaseline(a) \/ GetProbe(a) \/ Hit(a)

Spec == Init /\ [][Next]_vars

-----------------------------------------------------------------------------
(* The verdicts.                                                             *)
WafOver == {baseline, probe} \cap {"none", "sent"} = {}
WafFailed == "error" \in {baseline, probe}

(* 403 and 429 are in BLOCK_STATUSES, 503 is not.                            *)
ProbeBlocked == baseline = "page" /\ probe \in {"blocked", "throttled"}

BurstOver == sent = Burst /\ inflight = 0

(* Mutant: answers other than pages do not count as answers.                 *)
RateScoreOfAll ==
    IF answers["page"] = 0 THEN 0
    ELSE IF answers["throttled"] + answers["unavailable"] > 0 THEN 100
         ELSE IF target.announces THEN 70 ELSE 30

(* THROTTLE_STATUSES: 429 and 503, whatever the latter is due to.            *)
RateScore ==
    IF answers["error"] = Burst THEN 0
    ELSE IF answers["throttled"] + answers["unavailable"] > 0 THEN 100
         ELSE IF target.announces THEN 70 ELSE 30

(* HeadersCheck scores any response by its headers, be it of the limiter or  *)
(* of an overload, which carry none.                                         *)
HeadersScore ==
    LET present == IF headers \in {"page", "blocked"} THEN target.secured ELSE 0
    IN  IF headers = "error" THEN 0 ELSE (present * 100) \div SecurityHeaders

-----------------------------------------------------------------------------
(* A limiter that a burst must run into is found, though the other checks    *)
(* use up the same quota and some requests fail: within one window, a score  *)
(* of 100 as soon as more of the burst reached the target than its quota,    *)
(* whether the limiter answers 429 or 503 (RateLimitCheck.run).              *)
BurstFindsLimiter ==
    /\ BurstOver /\ target.limiter # "none" /\ windows = 0
    /\ Burst - answers["error"] > target.quota
    => RateScore = 100

(* The checks of a scan send one request each, two in turn and Burst of them *)
(* Concurrency at a time.                                                    *)
Roomy ==
    /\ target.capacity >= Concurrency + 2
    /\ target.limiter = "none" \/ target.quota >= Burst + 3

(* A target that allows for a scan's requests is judged by its own answers,  *)
(* however the checks interleave: a filter is seen exactly when there is one *)
(* that lets normal requests through, the headers are the page's, and no     *)
(* limiter is made of the load of the scan itself (the semaphore of          *)
(* RateLimitCheck.run, WafCheck.run, HeadersCheck.run).                      *)
VerdictsAreTheTargets ==
    Roomy =>
        /\ WafOver /\ ~WafFailed => (ProbeBlocked <=> target.filters /\ ~target.closed)
        /\ headers \notin {"none", "sent", "error"} =>
               (HeadersScore = 100 <=> target.secured = SecurityHeaders)
        /\ BurstOver => RateScore # 100

(* waf_check.py:8-10: "Si la requete normale passe (2xx/3xx) et que celle-ci *)
(* est rejetee (403, 406, 429, 501), un filtrage actif est en place."        *)
BlockedMeansFiltered == WafOver /\ ProbeBlocked => target.filters

=============================================================================
