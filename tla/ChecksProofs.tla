---------------------------- MODULE ChecksProofs ----------------------------
(***************************************************************************)
(* Theorems about the checks, for any zone, server and target, any number   *)
(* of name servers, suites and certificates, any size of the burst, and any *)
(* number of queries and requests that fail.  The parts share no variable,  *)
(* so each has an invariant of its own, kept by its own steps.              *)
(***************************************************************************)
EXTENDS Checks, Sequences, FiniteSetTheorems, TLAPS

(* What a step of the whole is for each part.                               *)
LEMMA PartSteps ==
    ASSUME [Next]_vars
    PROVE  /\ [Dns!Next]_dnsVars
           /\ [Ssl!Next]_sslVars
           /\ [Probes!Next]_targetVars
BY Zenon DEF Next, vars, dnsVars, sslVars, targetVars

-----------------------------------------------------------------------------
(* DnsCheck.  The results each test can have, and the zone transfer: what is *)
(* left of the name servers still holds every open one, unless a query was   *)
(* lost.                                                                     *)

Before == {"a_record", "mx_record", "txt_root", "txt_host", "txt_verdict", "ns_record", "axfr_ns"}

ResultsInv ==
    /\ tests \in [Dns!Test -> Dns!Result]
    /\ tests["a_record"] \in {"none", "ok", "error"}
    /\ tests["mx_record"] \in {"none", "ok", "info"}
    /\ tests["txt_record"] \in {"none", "ok", "warning", "error"}
    /\ tests["ns_record"] \in {"none", "ok", "error"}
    /\ tests["zone_transfer"] \in {"none", "ok", "info", "error"}

Servers == {zone.ns[i] : i \in DOMAIN zone.ns}
IsOpen(server) == server \in zone.answering /\ server \in zone.open

TransferInv ==
    /\ zone \in Dns!Zone
    /\ dnsStep \in Dns!Step
    /\ queue \in Seq(Server)
    /\ faults \in 0..MaxFaults
    /\ \A i \in DOMAIN queue : queue[i] \in Servers
    /\ tests["zone_transfer"] = "error" => \E server \in Servers : IsOpen(server)
    /\ dnsStep = "axfr" /\ faults = 0 =>
           \A server \in Servers : IsOpen(server) => \E i \in DOMAIN queue : queue[i] = server
    /\ dnsStep \in {"score", "done"} /\ faults = 0 /\ (\E server \in Servers : IsOpen(server)) =>
           tests["zone_transfer"] = "error"

(* The score that _calculate_score gives to what the tests say.              *)
Left == 100 - Dns!Penalty("zone_transfer", tests["zone_transfer"])
            - Dns!Penalty("txt_record", tests["txt_record"])
            - Dns!Penalty("a_record", tests["a_record"])
            - Dns!Penalty("ns_record", tests["ns_record"])

ScoreInv ==
    /\ dnsScore \in 0..100
    /\ dnsStep = "done" => dnsScore = IF Left < 0 THEN 0 ELSE Left

(* The policies seen are some there are.                                     *)
PoliciesInv ==
    /\ zone \in Dns!Zone
    /\ seen \in SUBSET {"spf", "dmarc"}

DnsInv == ResultsInv /\ TransferInv /\ ScoreInv /\ PoliciesInv

LEMMA ServersTyped ==
    ASSUME zone \in Dns!Zone
    PROVE  /\ zone.ns \in Seq(Server)
           /\ Dns!OpenServers = {server \in Servers : IsOpen(server)}
<1>1. PICK n \in 0..MaxServers : zone.ns \in [1..n -> Server]
    BY DEF Dns!Zone
<1>2. n \in Nat
    BY <1>1, BoundsAssumption
<1>3. zone.ns \in Seq(Server)
    BY <1>1, <1>2
<1>4. Dns!OpenServers = {server \in Servers : IsOpen(server)}
    BY Zenon DEF Dns!OpenServers, Servers, IsOpen
<1> QED BY <1>3, <1>4

LEMMA DnsInit == Dns!Init => DnsInv
<1> SUFFICES ASSUME Dns!Init PROVE DnsInv
    OBVIOUS
<1>1. ResultsInv
    BY DEF Dns!Init, ResultsInv, Dns!Test, Dns!Result
<1>2. queue = << >> /\ dnsStep = "a_record" /\ faults = 0 /\ zone \in Dns!Zone
    BY DEF Dns!Init
<1>3. tests["zone_transfer"] = "none"
    BY DEF Dns!Init, Dns!Test
<1>4. TransferInv
    BY <1>2, <1>3, BoundsAssumption DEF TransferInv, Dns!Step
<1>5. ScoreInv
    BY <1>2 DEF Dns!Init, ScoreInv
<1>6. PoliciesInv
    BY DEF Dns!Init, PoliciesInv
<1> QED BY <1>1, <1>4, <1>5, <1>6 DEF DnsInv

(* A test's result is set, and nothing else of the tests.                    *)
LEMMA ResultsKept ==
    ASSUME ResultsInv, [Dns!Next]_dnsVars
    PROVE  ResultsInv'
<1> USE DEF ResultsInv, Dns!Set, Dns!Test, Dns!Result
<1>1. CASE Dns!CheckA
    BY <1>1 DEF Dns!CheckA
<1>2. CASE Dns!CheckMx
    BY <1>2 DEF Dns!CheckMx
<1>3. CASE Dns!TxtVerdict
    BY <1>3 DEF Dns!TxtVerdict, Dns!TxtResult
<1>4. CASE Dns!CheckNs
    BY <1>4 DEF Dns!CheckNs
<1>5. CASE Dns!AxfrServers
    BY <1>5 DEF Dns!AxfrServers
<1>6. CASE Dns!AxfrOpen
    BY <1>6 DEF Dns!AxfrOpen
<1>7. CASE Dns!AxfrOver
    BY <1>7 DEF Dns!AxfrOver
<1>8. CASE UNCHANGED tests
    BY <1>8
<1>9. (\E name, here, next : Dns!QueryTxt(name, here, next)) \/ Dns!AxfrRefused
        \/ Dns!CalculateScore \/ UNCHANGED dnsVars => UNCHANGED tests
    BY DEF Dns!QueryTxt, Dns!AxfrRefused, Dns!CalculateScore, dnsVars
<1> QED
    BY <1>1, <1>2, <1>3, <1>4, <1>5, <1>6, <1>7, <1>8, <1>9 DEF Dns!Next

(* The queue holds what it must, server by server.                           *)
LEMMA TransferKept ==
    ASSUME ResultsInv, TransferInv, [Dns!Next]_dnsVars
    PROVE  TransferInv'
<1>1. /\ UNCHANGED zone /\ Servers' = Servers
      /\ \A server : IsOpen(server)' = IsOpen(server)
    BY DEF Dns!Next, Dns!CheckA, Dns!CheckMx, Dns!QueryTxt, Dns!TxtVerdict, Dns!CheckNs,
           Dns!AxfrServers, Dns!AxfrRefused, Dns!AxfrOpen, Dns!AxfrOver,
           Dns!CalculateScore, dnsVars, Servers, IsOpen
<1>2. MaxFaults \in Nat
    BY BoundsAssumption
<1> USE <1>1, <1>2 DEF Dns!Step, Dns!Missed, Dns!Answered
<1>3. CASE UNCHANGED dnsVars
    BY <1>3 DEF TransferInv, dnsVars
<1>4. CASE Dns!CheckA
    BY <1>4 DEF Dns!CheckA, Dns!Set, TransferInv, ResultsInv, Dns!Test
<1>5. CASE Dns!CheckMx
    BY <1>5 DEF Dns!CheckMx, Dns!Set, TransferInv, ResultsInv, Dns!Test
<1>6. CASE \/ Dns!QueryTxt("root", "txt_root", IF zone.apex THEN "txt_verdict" ELSE "txt_host")
           \/ Dns!QueryTxt("host", "txt_host", "txt_verdict")
    BY <1>6 DEF Dns!QueryTxt, TransferInv
<1>7. CASE Dns!TxtVerdict
    BY <1>7 DEF Dns!TxtVerdict, Dns!Set, TransferInv, ResultsInv, Dns!Test
<1>8. CASE Dns!CheckNs
    BY <1>8 DEF Dns!CheckNs, Dns!Set, TransferInv, ResultsInv, Dns!Test
<1>9. CASE Dns!AxfrServers
  <2>1. zone.ns \in Seq(Server)
      BY ServersTyped DEF TransferInv
  <2>2. CASE queue' = zone.ns /\ zone.ns # << >> /\ dnsStep' = "axfr" /\ UNCHANGED <<tests, faults>>
      BY <2>1, <2>2 DEF TransferInv, Servers
  <2>3. CASE Dns!Missed(zone.ns # << >>) /\ Dns!Set("zone_transfer", "info", "score") /\ UNCHANGED queue
    <3>1. tests'["zone_transfer"] = "info" /\ dnsStep' = "score"
        BY <2>3 DEF Dns!Set, ResultsInv, Dns!Test
    <3>2. zone.ns = << >> \/ faults' = faults + 1
        BY <2>3
    <3>3. zone.ns = << >> => Servers = {}
        BY DEF Servers
    <3>4. faults' \in 0..MaxFaults /\ (faults' = 0 => zone.ns = << >>)
        BY <2>3, <3>2 DEF TransferInv
    <3> QED BY <2>3, <3>1, <3>3, <3>4 DEF TransferInv
  <2> QED BY <1>9, <2>2, <2>3 DEF Dns!AxfrServers
<1>10. CASE Dns!AxfrRefused
  <2>1. queue \in Seq(Server) /\ queue # << >> /\ queue' = Tail(queue) /\ UNCHANGED <<dnsStep, tests>>
      BY <1>10 DEF Dns!AxfrRefused, TransferInv
  <2>2. /\ faults' \in 0..MaxFaults
        /\ faults' = 0 => faults = 0 /\ ~IsOpen(queue[1])
      BY <1>10 DEF Dns!AxfrRefused, TransferInv, IsOpen
  <2>3. \A i \in DOMAIN queue' : queue'[i] \in Servers
      BY <2>1 DEF TransferInv
  <2>4. ASSUME dnsStep = "axfr", faults' = 0, NEW server \in Servers, IsOpen(server)
        PROVE  \E i \in DOMAIN queue' : queue'[i] = server
    <3>1. PICK i \in DOMAIN queue : queue[i] = server
        BY <2>2, <2>4 DEF TransferInv
    <3>2. i # 1
        BY <2>2, <2>4, <3>1
    <3>3. i - 1 \in DOMAIN queue' /\ queue'[i - 1] = server
        BY <2>1, <3>1, <3>2
    <3> QED BY <3>3
  <2>5. dnsStep = "axfr" /\ queue' \in Seq(Server)
      BY <1>10, <2>1 DEF Dns!AxfrRefused
  <2> QED BY <2>1, <2>2, <2>3, <2>4, <2>5 DEF TransferInv
<1>11. CASE Dns!AxfrOpen
  <2>1. queue[1] \in Servers /\ IsOpen(queue[1])
      BY <1>11 DEF Dns!AxfrOpen, TransferInv, IsOpen
  <2> QED BY <1>11, <2>1 DEF Dns!AxfrOpen, Dns!Set, TransferInv, ResultsInv, Dns!Test
<1>12. CASE Dns!AxfrOver
  <2>1. dnsStep = "axfr" /\ queue = << >>
      BY <1>12 DEF Dns!AxfrOver
  <2>2. faults = 0 => ~\E server \in Servers : IsOpen(server)
      BY <2>1 DEF TransferInv
  <2> QED BY <1>12, <2>2 DEF Dns!AxfrOver, Dns!Set, TransferInv, ResultsInv, Dns!Test
<1>13. CASE Dns!CalculateScore
    BY <1>13 DEF Dns!CalculateScore, TransferInv
<1> QED
    BY <1>3, <1>4, <1>5, <1>6, <1>7, <1>8, <1>9, <1>10, <1>11, <1>12, <1>13 DEF Dns!Next

(* The last step scores the tests; none changes them afterwards.             *)
LEMMA ScoreKept ==
    ASSUME ResultsInv, ScoreInv, [Dns!Next]_dnsVars
    PROVE  ScoreInv'
<1>1. Left \in Int /\ Left <= 100
    BY DEF Left, Dns!Penalty, ResultsInv
<1>2. CASE Dns!CalculateScore
  <2>1. UNCHANGED tests /\ Left' = Left
      BY <1>2 DEF Dns!CalculateScore, Left
  <2>2. dnsScore' = IF Left < 0 THEN 0 ELSE Left
      BY <1>2 DEF Dns!CalculateScore, Left
  <2> QED BY <1>1, <2>1, <2>2 DEF ScoreInv
<1>3. CASE UNCHANGED dnsVars
    BY <1>3 DEF ScoreInv, dnsVars, Left
<1>4. CASE UNCHANGED dnsScore /\ dnsStep' # "done"
    BY <1>4 DEF ScoreInv
<1>5. Dns!Next => Dns!CalculateScore \/ (UNCHANGED dnsScore /\ dnsStep' # "done")
    BY DEF Dns!Next, Dns!CheckA, Dns!CheckMx, Dns!QueryTxt, Dns!TxtVerdict, Dns!CheckNs,
           Dns!AxfrServers, Dns!AxfrRefused, Dns!AxfrOpen, Dns!AxfrOver, Dns!Set
<1> QED BY <1>2, <1>3, <1>4, <1>5

LEMMA PoliciesKept ==
    ASSUME PoliciesInv, [Dns!Next]_dnsVars
    PROVE  PoliciesInv'
<1>1. UNCHANGED zone
    BY Zenon DEF Dns!Next, Dns!CheckA, Dns!CheckMx, Dns!QueryTxt, Dns!TxtVerdict, Dns!CheckNs,
           Dns!AxfrServers, Dns!AxfrRefused, Dns!AxfrOpen, Dns!AxfrOver,
           Dns!CalculateScore, dnsVars
<1>2. UNCHANGED seen \/ seen' = seen \cup zone.txt["root"] \/ seen' = seen \cup zone.txt["host"]
    BY Zenon DEF Dns!Next, Dns!CheckA, Dns!CheckMx, Dns!QueryTxt, Dns!TxtVerdict, Dns!CheckNs,
           Dns!AxfrServers, Dns!AxfrRefused, Dns!AxfrOpen, Dns!AxfrOver,
           Dns!CalculateScore, dnsVars
<1>3. zone.txt["root"] \in SUBSET {"spf", "dmarc"} /\ zone.txt["host"] \in SUBSET {"spf", "dmarc"}
    BY DEF PoliciesInv, Dns!Zone
<1>4. seen' \in SUBSET {"spf", "dmarc"}
    BY <1>2, <1>3 DEF PoliciesInv
<1> QED BY <1>1, <1>4 DEF PoliciesInv

LEMMA DnsInvariant == Spec => []DnsInv
<1>1. Init => DnsInv
    BY DnsInit DEF Init
<1>2. ASSUME DnsInv, [Next]_vars PROVE DnsInv'
    BY <1>2, PartSteps, ResultsKept, TransferKept, ScoreKept, PoliciesKept DEF DnsInv
<1> QED BY <1>1, <1>2, PTL DEF Spec

(* An open zone transfer is found, whichever of any number of name servers   *)
(* allows it, and never invented (_check_axfr).                              *)
THEOREM OpenTransferIsFound == Spec => []TransferVerdict
<1>1. DnsInv => TransferVerdict
    BY ServersTyped DEF DnsInv, TransferInv, TransferVerdict, Dns!TransferVerdict
<1> QED BY <1>1, DnsInvariant, PTL

(* Full marks exactly when every detail of DnsCheck is OK, and a failed one  *)
(* costs at least 10 points (_calculate_score, _build_details).              *)
THEOREM DnsScoreIsShown == Spec => []DnsScoreMatchesDetails
<1>1. ASSUME DnsInv, dnsStep = "done"
      PROVE  LET shown == {Dns!StatusOf(tests[t]) : t \in Dns!Test}
             IN  /\ dnsScore = 100 <=> shown = {"ok"}
                 /\ "fail" \in shown => dnsScore <= 90
  <2> DEFINE shown == {Dns!StatusOf(tests[t]) : t \in Dns!Test}
  <2>1. dnsScore = IF Left < 0 THEN 0 ELSE Left
      BY <1>1 DEF DnsInv, ScoreInv
  <2>2. shown = {"ok"} <=> \A t \in Dns!Test : Dns!StatusOf(tests[t]) = "ok"
      BY DEF Dns!Test
  <2>3. (\A t \in Dns!Test : Dns!StatusOf(tests[t]) = "ok") <=>
            /\ tests["a_record"] # "error" /\ tests["ns_record"] # "error"
            /\ tests["txt_record"] \notin {"warning", "error"}
            /\ tests["zone_transfer"] # "error"
      BY <1>1 DEF DnsInv, ResultsInv, Dns!Test, Dns!StatusOf
  <2>4. "fail" \in shown =>
            \/ tests["a_record"] = "error" \/ tests["ns_record"] = "error"
            \/ tests["txt_record"] = "error" \/ tests["zone_transfer"] = "error"
      BY <1>1 DEF DnsInv, ResultsInv, Dns!Test, Dns!StatusOf
  <2>5. Left = 100 <=>
            /\ tests["a_record"] # "error" /\ tests["ns_record"] # "error"
            /\ tests["txt_record"] \notin {"warning", "error"}
            /\ tests["zone_transfer"] # "error"
      BY <1>1 DEF DnsInv, ResultsInv, Left, Dns!Penalty
  <2>6. (\/ tests["a_record"] = "error" \/ tests["ns_record"] = "error"
         \/ tests["txt_record"] = "error" \/ tests["zone_transfer"] = "error") => Left <= 90
      BY <1>1 DEF DnsInv, ResultsInv, Left, Dns!Penalty
  <2>7. Left \in Int
      BY <1>1 DEF DnsInv, ResultsInv, Left, Dns!Penalty
  <2> QED BY <2>1, <2>2, <2>3, <2>4, <2>5, <2>6, <2>7
<1>2. DnsInv => DnsScoreMatchesDetails
    BY <1>1 DEF DnsScoreMatchesDetails, Dns!ScoreMatchesDetails
<1> QED BY <1>2, DnsInvariant, PTL

-----------------------------------------------------------------------------
(* The requests to the target.  Of the burst, every request that was started *)
(* is in flight or was answered; those that came to the target's own code    *)
(* were within the quota of the window; and the limiter counted no request   *)
(* that was not answered, so that one with room for all never limits any.    *)

Passed == answers["page"] + answers["blocked"]
Refused == answers["throttled"] + answers["unavailable"]

BurstInv ==
    /\ target \in Probes!Target
    /\ window \in Nat /\ windows \in 0..MaxWindows /\ errors \in 0..MaxErrors
    /\ inflight \in 0..Concurrency /\ sent \in 0..Burst
    /\ answers \in [Probes!Answer -> Nat]
    /\ sent = inflight + Passed + Refused + answers["error"]
    /\ target.limiter # "none" /\ windows = 0 => Passed <= window /\ Passed <= target.quota

AskedInv ==
    /\ {headers, baseline} \subseteq Probes!Answer \cup {"none", "sent"}
    /\ probe \in Probes!Answer \cup {"none", "sent", "never"}
    /\ baseline \in {"none", "sent"} => probe = "none"
    /\ probe = "never" => baseline = "error"

(* The answers to the other checks' requests, of which there are three.      *)
Took(answer) == IF answer \in Probes!Answer THEN 1 ELSE 0
Others == Took(headers) + Took(baseline) + Took(probe)

CountedInv == window <= (sent - inflight) + Others

RoomyInv ==
    Probes!Roomy =>
        /\ headers \in {"none", "sent", "error", Probes!Own(FALSE)}
        /\ baseline \in {"none", "sent", "error", Probes!Own(FALSE)}
        /\ probe \in {"none", "sent", "never", "error", Probes!Own(TRUE)}
        /\ Refused = 0

ProbesInv == BurstInv /\ AskedInv /\ CountedInv /\ RoomyInv

LEMMA ProbesInit == Probes!Init => ProbesInv
<1> SUFFICES ASSUME Probes!Init PROVE ProbesInv
    OBVIOUS
<1>1. BurstInv
    BY BoundsAssumption DEF Probes!Init, BurstInv, Passed, Refused, Probes!Answer, Probes!Target
<1>2. AskedInv
    BY DEF Probes!Init, AskedInv
<1>3. CountedInv
    BY DEF Probes!Init, CountedInv, Others, Took, Probes!Answer
<1>4. RoomyInv
    BY DEF Probes!Init, RoomyInv, Refused, Probes!Answer
<1> QED BY <1>1, <1>2, <1>3, <1>4 DEF ProbesInv

LEMMA ProbesTyped ==
    ASSUME BurstInv
    PROVE  /\ Burst \in Nat /\ Concurrency \in Nat /\ MaxWindows \in Nat /\ MaxErrors \in Nat
           /\ target.quota \in Nat /\ target.capacity \in Nat
           /\ target.limiter \in {"none", "throttled", "unavailable"}
           /\ \A a \in Probes!Answer : answers[a] \in Nat
           /\ Passed \in Nat /\ Refused \in Nat
BY BoundsAssumption DEF BurstInv, Probes!Target, Probes!Answer, Passed, Refused

(* Took request: what the limiter counts, and the answer it leads to.         *)
LEMMA RequestAnswered ==
    ASSUME BurstInv, NEW malicious \in BOOLEAN, NEW answer,
           Probes!Request(malicious, answer)
    PROVE  /\ answer \in Probes!Answer
           /\ window' \in Nat /\ errors' \in 0..MaxErrors
           /\ window' >= window /\ window' <= window + 1
           /\ target.limiter # "none" /\ answer \in {"page", "blocked"} =>
                  window < target.quota /\ window' = window + 1
<1>1. Probes!Own(malicious) \in {"page", "blocked"}
    BY DEF Probes!Own
<1>2. CASE answer = "error"
    BY <1>2, ProbesTyped DEF BurstInv, Probes!Request, Probes!Answer, Probes!MayAnswer
<1>3. CASE answer # "error"
  <2>1. /\ answer \in Probes!MayAnswer(malicious) /\ UNCHANGED errors
        /\ window' = IF target.limiter = "none" THEN window ELSE window + 1
      BY <1>3 DEF Probes!Request
  <2>2. answer \in {target.limiter, Probes!Own(malicious), "unavailable"}
      BY <2>1 DEF Probes!MayAnswer
  <2>3. target.limiter = "none" => ~Probes!Limited
      BY DEF Probes!Limited
  <2>4. answer \in Probes!Answer
      BY <1>1, <2>1, <2>2, <2>3, ProbesTyped DEF Probes!MayAnswer, Probes!Answer
  <2>5. target.limiter # "none" /\ answer \in {"page", "blocked"} => window < target.quota
      BY <2>1, ProbesTyped DEF Probes!MayAnswer, Probes!Limited, BurstInv
  <2> QED BY <2>1, <2>4, <2>5 DEF BurstInv
<1> QED BY <1>2, <1>3

(* A target with room for a scan's requests answers for itself, as long as   *)
(* one of them has no answer yet.                                            *)
LEMMA RoomyAnswersItself ==
    ASSUME ProbesInv, Probes!Roomy, NEW malicious \in BOOLEAN, NEW answer,
           Probes!Request(malicious, answer),
           inflight > 0 \/ "sent" \in {headers, baseline, probe}
    PROVE  answer \in {"error", Probes!Own(malicious)}
<1>1. Probes!Load <= target.capacity
    BY ProbesTyped DEF ProbesInv, BurstInv, Probes!Roomy, Probes!Load
<1>2. ~Probes!Limited
  <2>1. CASE inflight > 0
    <3>1. sent - inflight < Burst /\ Others <= 3 /\ Others \in Nat
        BY <2>1, ProbesTyped DEF ProbesInv, BurstInv, Others, Took
    <3> QED BY <3>1, ProbesTyped DEF ProbesInv, BurstInv, CountedInv, Probes!Roomy, Probes!Limited
  <2>2. CASE "sent" \in {headers, baseline, probe}
    <3>1. Took("sent") = 0
        BY DEF Took, Probes!Answer
    <3>2. Others <= 2 /\ Others \in Nat
        BY <2>2, <3>1 DEF Others, Took
    <3>3. sent - inflight <= Burst
        BY ProbesTyped DEF ProbesInv, BurstInv
    <3> QED BY <3>2, <3>3, ProbesTyped
            DEF ProbesInv, BurstInv, CountedInv, Probes!Roomy, Probes!Limited
  <2> QED BY <2>1, <2>2
<1>3. ~(Probes!Load > target.capacity)
    BY <1>1, ProbesTyped DEF ProbesInv, BurstInv, Probes!Load
<1> QED BY <1>2, <1>3 DEF Probes!Request, Probes!MayAnswer

(* A step that neither sends nor answers a request of the burst.             *)
LEMMA BurstUndisturbed ==
    ASSUME BurstInv, UNCHANGED <<target, windows, inflight, sent, answers>>,
           window' \in Nat, window' >= window, errors' \in 0..MaxErrors
    PROVE  BurstInv'
<1>1. Passed' = Passed /\ Refused' = Refused
    BY DEF Passed, Refused
<1> QED BY <1>1, ProbesTyped DEF BurstInv

LEMMA BurstKept ==
    ASSUME BurstInv, [Probes!Next]_targetVars
    PROVE  BurstInv'
<1> USE ProbesTyped
<1>2. CASE UNCHANGED targetVars \/ Probes!AskHeaders \/ Probes!AskBaseline
  <2>1. UNCHANGED <<target, window, windows, inflight, sent, answers, errors>>
      BY <1>2 DEF targetVars, Probes!AskHeaders, Probes!AskBaseline
  <2> QED BY <2>1, BurstUndisturbed DEF BurstInv
<1>3. CASE Probes!NewWindow
    BY <1>3 DEF BurstInv, Probes!NewWindow, Passed, Refused
<1>4. CASE Probes!Acquire
    BY <1>4 DEF BurstInv, Probes!Acquire, Passed, Refused, Probes!Answer
<1>5. ASSUME NEW answer \in Probes!Answer,
             \/ Probes!GetHeaders(answer) \/ Probes!GetBaseline(answer) \/ Probes!GetProbe(answer)
      PROVE  BurstInv'
  <2>1. PICK malicious \in BOOLEAN : Probes!Request(malicious, answer)
      BY <1>5 DEF Probes!GetHeaders, Probes!GetBaseline, Probes!GetProbe
  <2>2. UNCHANGED <<target, windows, inflight, sent, answers>>
      BY <1>5 DEF Probes!GetHeaders, Probes!GetBaseline, Probes!GetProbe
  <2> QED BY <2>1, <2>2, RequestAnswered, BurstUndisturbed
<1>6. ASSUME NEW answer \in Probes!Answer, Probes!Hit(answer)
      PROVE  BurstInv'
  <2>1. /\ Probes!Request(FALSE, answer) /\ inflight > 0 /\ inflight' = inflight - 1
        /\ answers' = [answers EXCEPT ![answer] = @ + 1]
        /\ UNCHANGED <<target, windows, sent>>
      BY <1>6 DEF Probes!Hit
  <2>2. /\ window' \in Nat /\ errors' \in 0..MaxErrors /\ window' >= window
        /\ target.limiter # "none" /\ answer \in {"page", "blocked"} =>
               window < target.quota /\ window' = window + 1
      BY <2>1, RequestAnswered
  <2>3. answers' \in [Probes!Answer -> Nat]
      BY <2>1 DEF BurstInv
  <2>4. /\ answer \in {"page", "blocked"} =>
               Passed' = Passed + 1 /\ Refused' = Refused
               /\ answers'["error"] = answers["error"]
        /\ answer \in {"throttled", "unavailable"} =>
               Passed' = Passed /\ Refused' = Refused + 1
               /\ answers'["error"] = answers["error"]
        /\ answer = "error" =>
               Passed' = Passed /\ Refused' = Refused
               /\ answers'["error"] = answers["error"] + 1
      BY <2>1 DEF BurstInv, Passed, Refused, Probes!Answer
  <2>5. answers["error"] \in Nat
      BY DEF Probes!Answer
  <2>6. sent' = inflight' + Passed' + Refused' + answers'["error"]
      BY <2>1, <2>4, <2>5 DEF BurstInv, Probes!Answer
  <2>7. target.limiter # "none" /\ windows = 0 => Passed' <= window' /\ Passed' <= target.quota
      BY <2>2, <2>4 DEF BurstInv, Probes!Answer
  <2> QED BY <2>1, <2>2, <2>3, <2>6, <2>7 DEF BurstInv
<1> QED BY <1>2, <1>3, <1>4, <1>5, <1>6 DEF Probes!Next

LEMMA AskedKept ==
    ASSUME AskedInv, [Probes!Next]_targetVars
    PROVE  AskedInv'
<1>1. CASE UNCHANGED targetVars \/ Probes!NewWindow \/ Probes!Acquire
              \/ \E a \in Probes!Answer : Probes!Hit(a)
  <2>1. UNCHANGED <<headers, baseline, probe>>
      BY <1>1 DEF targetVars, Probes!NewWindow, Probes!Acquire, Probes!Hit
  <2> QED BY <2>1 DEF AskedInv
<1>2. CASE Probes!AskHeaders \/ Probes!AskBaseline
    BY <1>2 DEF AskedInv, Probes!AskHeaders, Probes!AskBaseline
<1>3. ASSUME NEW a \in Probes!Answer,
             Probes!GetHeaders(a) \/ Probes!GetBaseline(a) \/ Probes!GetProbe(a)
      PROVE  AskedInv'
    BY <1>3 DEF AskedInv, Probes!GetHeaders, Probes!GetBaseline, Probes!GetProbe, Probes!Answer
<1> QED BY <1>1, <1>2, <1>3 DEF Probes!Next

LEMMA CountedKept ==
    ASSUME BurstInv, AskedInv, CountedInv, [Probes!Next]_targetVars
    PROVE  CountedInv'
<1> USE ProbesTyped
<1>1. /\ Took("none") = 0 /\ Took("sent") = 0 /\ Took("never") = 0
      /\ \A a \in Probes!Answer : Took(a) = 1
    BY DEF Took, Probes!Answer
<1>2. Took(headers) \in 0..1 /\ Took(baseline) \in 0..1 /\ Took(probe) \in 0..1
    BY DEF Took
<1>3. window \in Nat /\ sent \in Nat /\ inflight \in Nat
    BY DEF BurstInv
<1>4. CASE UNCHANGED targetVars
    BY <1>4 DEF CountedInv, Others, Took, targetVars
<1>5. CASE Probes!NewWindow
  <2>1. Others' = Others /\ sent - inflight >= 0
      BY <1>5 DEF Probes!NewWindow, Others, Took, BurstInv, Probes!Answer
  <2> QED BY <1>2, <1>3, <1>5, <2>1 DEF Probes!NewWindow, CountedInv, Others
<1>6. CASE Probes!AskHeaders
    BY <1>1, <1>6 DEF Probes!AskHeaders, CountedInv, Others, Took
<1>7. CASE Probes!AskBaseline
    BY <1>1, <1>7 DEF Probes!AskBaseline, CountedInv, Others, Took
<1>8. CASE Probes!Acquire
    BY <1>2, <1>3, <1>8 DEF Probes!Acquire, CountedInv, Others, Took
<1>9. ASSUME NEW a \in Probes!Answer,
             \/ Probes!GetHeaders(a) \/ Probes!GetBaseline(a) \/ Probes!GetProbe(a)
             \/ Probes!Hit(a)
      PROVE  CountedInv'
  <2>1. PICK malicious \in BOOLEAN : Probes!Request(malicious, a)
      BY <1>9 DEF Probes!GetHeaders, Probes!GetBaseline, Probes!GetProbe, Probes!Hit
  <2>2. window' \in Nat /\ window' <= window + 1
      BY <2>1, RequestAnswered
  <2>3. CASE Probes!GetHeaders(a)
    <3>1. Others' = Others + 1
        BY <1>1, <1>2, <2>3 DEF Probes!GetHeaders, Others, Took
    <3> QED BY <1>2, <1>3, <2>2, <2>3, <3>1 DEF Probes!GetHeaders, CountedInv, Others
  <2>4. CASE Probes!GetBaseline(a)
    <3>1. Took(probe) = 0 /\ Took(probe)' = 0
        BY <1>1, <2>4 DEF Probes!GetBaseline, AskedInv, Took
    <3>2. Others' = Others + 1
        BY <1>1, <1>2, <2>4, <3>1 DEF Probes!GetBaseline, Others, Took
    <3> QED BY <1>2, <1>3, <2>2, <2>4, <3>2 DEF Probes!GetBaseline, CountedInv, Others
  <2>5. CASE Probes!GetProbe(a)
    <3>1. Others' = Others + 1
        BY <1>1, <1>2, <2>5 DEF Probes!GetProbe, Others, Took
    <3> QED BY <1>2, <1>3, <2>2, <2>5, <3>1 DEF Probes!GetProbe, CountedInv, Others
  <2>6. CASE Probes!Hit(a)
    <3>1. Others' = Others
        BY <2>6 DEF Probes!Hit, Others, Took
    <3>2. sent' = sent /\ inflight' = inflight - 1
        BY <2>6 DEF Probes!Hit
    <3> QED BY <1>2, <1>3, <2>2, <3>1, <3>2 DEF CountedInv, Others
  <2> QED BY <1>9, <2>3, <2>4, <2>5, <2>6
<1> QED BY <1>4, <1>5, <1>6, <1>7, <1>8, <1>9 DEF Probes!Next

LEMMA RoomyKept ==
    ASSUME ProbesInv, [Probes!Next]_targetVars
    PROVE  RoomyInv'
<1>1. UNCHANGED target
    BY DEF Probes!Next, Probes!NewWindow, Probes!AskHeaders, Probes!AskBaseline, Probes!Acquire,
           Probes!GetHeaders, Probes!GetBaseline, Probes!GetProbe, Probes!Hit, targetVars
<1>2. Probes!Roomy' = Probes!Roomy
      /\ Probes!Own(FALSE)' = Probes!Own(FALSE) /\ Probes!Own(TRUE)' = Probes!Own(TRUE)
    BY <1>1 DEF Probes!Roomy, Probes!Own
<1>3. CASE Probes!NewWindow \/ Probes!AskHeaders \/ Probes!AskBaseline \/ Probes!Acquire
           \/ UNCHANGED targetVars
  <2>1. /\ UNCHANGED answers
        /\ headers' \in {headers, "sent"} /\ baseline' \in {baseline, "sent"}
        /\ probe' = probe
      BY <1>3 DEF Probes!NewWindow, Probes!AskHeaders, Probes!AskBaseline, Probes!Acquire,
                  targetVars
  <2>2. Refused' = Refused
      BY <2>1 DEF Refused
  <2> QED BY <1>2, <2>1, <2>2 DEF ProbesInv, RoomyInv
<1>4. ASSUME NEW a \in Probes!Answer, Probes!GetHeaders(a) PROVE RoomyInv'
  <2>1. Probes!Roomy => a \in {"error", Probes!Own(FALSE)}
      BY <1>4, RoomyAnswersItself DEF Probes!GetHeaders
  <2> QED BY <1>2, <1>4, <2>1 DEF ProbesInv, RoomyInv, Probes!GetHeaders, Refused
<1>5. ASSUME NEW a \in Probes!Answer, Probes!GetBaseline(a) PROVE RoomyInv'
  <2>1. Probes!Roomy => a \in {"error", Probes!Own(FALSE)}
      BY <1>5, RoomyAnswersItself DEF Probes!GetBaseline
  <2> QED BY <1>2, <1>5, <2>1 DEF ProbesInv, RoomyInv, Probes!GetBaseline, Refused
<1>6. ASSUME NEW a \in Probes!Answer, Probes!GetProbe(a) PROVE RoomyInv'
  <2>1. Probes!Roomy => a \in {"error", Probes!Own(TRUE)}
      BY <1>6, RoomyAnswersItself DEF Probes!GetProbe
  <2> QED BY <1>2, <1>6, <2>1 DEF ProbesInv, RoomyInv, Probes!GetProbe, Refused
<1>7. ASSUME NEW a \in Probes!Answer, Probes!Hit(a) PROVE RoomyInv'
  <2>1. Probes!Roomy => a \in {"error", Probes!Own(FALSE)}
      BY <1>7, RoomyAnswersItself DEF Probes!Hit
  <2>2. Probes!Own(FALSE) \in {"page", "blocked"}
      BY DEF Probes!Own
  <2>3. answers' = [answers EXCEPT ![a] = @ + 1]
        /\ answers \in [Probes!Answer -> Nat]
        /\ UNCHANGED <<headers, baseline, probe>>
      BY <1>7 DEF Probes!Hit, ProbesInv, BurstInv
  <2>4. Probes!Roomy => Refused' = Refused
      BY <2>1, <2>2, <2>3 DEF Refused, Probes!Answer
  <2> QED BY <1>2, <2>3, <2>4 DEF ProbesInv, RoomyInv
<1> QED BY <1>3, <1>4, <1>5, <1>6, <1>7 DEF Probes!Next

LEMMA ProbesInvariant == Spec => []ProbesInv
<1>1. Init => ProbesInv
    BY ProbesInit DEF Init
<1>2. ASSUME ProbesInv, [Next]_vars PROVE ProbesInv'
    BY <1>2, PartSteps, BurstKept, AskedKept, CountedKept, RoomyKept DEF ProbesInv
<1> QED BY <1>1, <1>2, PTL DEF Spec

(* A limiter that a burst must run into is found, for any burst, quota and   *)
(* concurrency, however the other checks use the quota up and whatever else  *)
(* the target fails to serve (RateLimitCheck.run).                           *)
THEOREM LimiterIsFound == Spec => []BurstFindsLimiter
<1>1. ASSUME BurstInv,
             Probes!BurstOver, target.limiter # "none", windows = 0,
             Burst - answers["error"] > target.quota
      PROVE  Probes!RateScore = 100
  <2> USE ProbesTyped
  <2>1. Burst = Passed + Refused + answers["error"] /\ Passed <= target.quota
      BY <1>1 DEF BurstInv, Probes!BurstOver
  <2>2. answers["error"] \in Nat
      BY <1>1 DEF Probes!Answer
  <2>3. Refused > 0 /\ answers["error"] # Burst
      BY <1>1, <2>1, <2>2
  <2> QED BY <2>3 DEF Probes!RateScore, Refused
<1>2. BurstInv => BurstFindsLimiter
    BY <1>1 DEF BurstFindsLimiter, Probes!BurstFindsLimiter
<1> QED BY <1>2, ProbesInvariant, PTL DEF ProbesInv

(* A target that serves a scan's requests at once, and whose limiter, if it  *)
(* has one, lets them all through, is judged by its own answers, for any     *)
(* burst, concurrency, quota and capacity that leave that room (the          *)
(* semaphore of RateLimitCheck.run, WafCheck.run, HeadersCheck.run).         *)
THEOREM ProbesDoNotInterfere == Spec => []VerdictsAreTheTargets
<1>1. ASSUME ProbesInv, Probes!Roomy
      PROVE  /\ Probes!WafOver /\ ~Probes!WafFailed =>
                    (Probes!ProbeBlocked <=> target.filters /\ ~target.closed)
             /\ headers \notin {"none", "sent", "error"} =>
                    (Probes!HeadersScore = 100 <=> target.secured = Probes!SecurityHeaders)
             /\ Probes!BurstOver => Probes!RateScore # 100
  <2>1. Probes!WafOver /\ ~Probes!WafFailed =>
            (Probes!ProbeBlocked <=> target.filters /\ ~target.closed)
    <3>1. target \in Probes!Target
        BY <1>1 DEF ProbesInv, BurstInv
    <3>2. target.filters \in BOOLEAN /\ target.closed \in BOOLEAN
        BY <3>1 DEF Probes!Target
    <3>3. ASSUME Probes!WafOver, ~Probes!WafFailed
          PROVE  baseline = Probes!Own(FALSE) /\ probe = Probes!Own(TRUE)
        BY <1>1, <3>3 DEF ProbesInv, RoomyInv, AskedInv, Probes!WafOver, Probes!WafFailed
    <3> QED BY <3>2, <3>3 DEF Probes!ProbeBlocked, Probes!Own
  <2>2. ASSUME headers \notin {"none", "sent", "error"}
        PROVE  Probes!HeadersScore = 100 <=> target.secured = Probes!SecurityHeaders
    <3>1. headers \in {"page", "blocked"}
        BY <1>1, <2>2 DEF ProbesInv, RoomyInv, Probes!Own
    <3>2. Probes!HeadersScore = (target.secured * 100) \div 6
        BY <3>1 DEF Probes!HeadersScore, Probes!SecurityHeaders
    <3>3. target.secured \in 0..6
        BY <1>1, BoundsAssumption DEF ProbesInv, BurstInv, Probes!Target, Probes!SecurityHeaders
    <3>4. \A n \in 0..6 : (n * 100) \div 6 = 100 <=> n = 6
        OBVIOUS
    <3> QED BY <3>2, <3>3, <3>4 DEF Probes!SecurityHeaders
  <2>3. Probes!BurstOver => Probes!RateScore # 100
      BY <1>1, ProbesTyped DEF ProbesInv, RoomyInv, Probes!RateScore, Refused, Probes!Answer
  <2> QED BY <2>1, <2>2, <2>3
<1>2. ProbesInv => VerdictsAreTheTargets
    BY <1>1 DEF VerdictsAreTheTargets, Probes!VerdictsAreTheTargets
<1> QED BY <1>2, ProbesInvariant, PTL

-----------------------------------------------------------------------------
(* SslCheck.  Until the suites are deducted, what was deducted is for the    *)
(* details that are no suite; from then on nothing shown is free.            *)

(* d points pay for f FAIL and w WARN details, of which i and k are suites   *)
(* that take s points at least: full marks need that nothing is shown.       *)
Pays(d, f, w, i, k, s) ==
    /\ d >= 20 * (f - i) + 10 * (w - k) + s
    /\ d = 0 <=> f + w = 0

(* More details, and at least their points.                                  *)
PaysMore(d, d1, f, f1, w, w1) ==
    /\ f1 >= f /\ w1 >= w /\ d1 - d >= 20 * (f1 - f) + 10 * (w1 - w)
    /\ d1 = d <=> f1 = f /\ w1 = w

SuitesDue == IF insecure + weak > 0 THEN 5 ELSE 0

CountsInv ==
    /\ sslStep \in Ssl!Step
    /\ todo \subseteq Ssl!Deprecated \cup Ssl!Secure
    /\ hasSecure \in BOOLEAN
    /\ insecure \in Nat /\ weak \in Nat /\ deployments \in 0..MaxDeployments
    /\ deductions \in Nat /\ fails \in Nat /\ warns \in Nat
    /\ sslScore \in 0..100

DeductionsInv ==
    /\ sslStep # "done" => fails >= insecure /\ warns >= weak
    /\ sslStep = "deprecated" => insecure = 0 /\ weak = 0
    /\ sslStep \in {"deprecated", "secure"} =>
           warns = weak /\ deductions = 25 * (fails - insecure)
    /\ sslStep \in {"certificate", "heartbleed"} =>
           Pays(deductions, fails, warns, insecure, weak, SuitesDue)
    /\ sslStep = "done" => SslScoreMatchesDetails /\ DetailsCost

SslInv == CountsInv /\ DeductionsInv

LEMMA SslInit == Ssl!Init => SslInv
<1> SUFFICES ASSUME Ssl!Init PROVE SslInv
    OBVIOUS
<1>1. CountsInv
  <2>1. MaxDeployments \in Nat
      BY BoundsAssumption
  <2>2. hasSecure \in BOOLEAN
      BY Zenon DEF Ssl!Init
  <2>3. todo \subseteq Ssl!Deprecated \cup Ssl!Secure
      BY Zenon DEF Ssl!Init
  <2>4. /\ sslStep = "deprecated" /\ insecure = 0 /\ weak = 0 /\ deployments = 0
        /\ deductions = 0 /\ fails = 0 /\ warns = 0 /\ sslScore = 0
      BY DEF Ssl!Init
  <2> QED BY <2>1, <2>2, <2>3, <2>4 DEF CountsInv, Ssl!Step
<1>2. 25 * (fails - insecure) = 0 /\ sslStep = "deprecated"
    BY DEF Ssl!Init
<1>3. DeductionsInv
    BY <1>2 DEF Ssl!Init, DeductionsInv
<1> QED BY <1>1, <1>3 DEF SslInv

(* The names of suites are finitely many: five flags each.                   *)
LEMMA SuitesFinite == IsFiniteSet(Suite)
<1> DEFINE two == BOOLEAN \X BOOLEAN
           flags == (two \X two) \X BOOLEAN
           name == [f \in flags |-> [broken |-> f[1][1][1], anon |-> f[1][1][2],
                                     tls13 |-> f[1][2][1], cbc |-> f[1][2][2], pfs |-> f[2]]]
<1>1. IsFiniteSet(BOOLEAN)
  <2>1. BOOLEAN = {TRUE} \cup {FALSE}
      OBVIOUS
  <2>2. IsFiniteSet({TRUE})
      BY FS_Singleton
  <2>3. IsFiniteSet({TRUE} \cup {FALSE})
      BY Zenon, <2>2, FS_AddElement
  <2> QED BY Zenon, <2>1, <2>3
<1>2. IsFiniteSet(two)
    BY Zenon, <1>1, FS_Product
<1>3. IsFiniteSet(two \X two)
    BY Zenon, <1>2, FS_Product
<1>4. IsFiniteSet(flags)
    BY Zenon, <1>1, <1>3, FS_Product
<1>5. ASSUME NEW k \in Ssl!SuiteName PROVE \E f \in flags : name[f] = k
  <2> DEFINE f == <<<<<<k.broken, k.anon>>, <<k.tls13, k.cbc>>>>, k.pfs>>
  <2>1. f \in flags
      BY DEF Ssl!SuiteName
  <2>2. name[f] = [broken |-> k.broken, anon |-> k.anon, tls13 |-> k.tls13,
                   cbc |-> k.cbc, pfs |-> k.pfs]
      BY <2>1
  <2>3. k = [broken |-> k.broken, anon |-> k.anon, tls13 |-> k.tls13,
             cbc |-> k.cbc, pfs |-> k.pfs]
      BY DEF Ssl!SuiteName
  <2> QED BY Zenon, <2>1, <2>2, <2>3
<1>6. name \in [flags -> Ssl!SuiteName]
    BY DEF Ssl!SuiteName
<1> HIDE DEF flags, name
<1>7. name \in Surjection(flags, Ssl!SuiteName)
    BY Zenon, <1>5, <1>6 DEF Surjection
<1>8. IsFiniteSet(Ssl!SuiteName)
    BY Zenon, <1>4, <1>7, FS_Surjection
<1> QED BY Zenon, <1>8, SuiteAssumption, FS_Subset
LEMMA SuitesCounted ==
    ASSUME NEW accepted \in [Suite -> 0..MaxSuites], NEW level
    PROVE  Ssl!SuitesOf(level, accepted) \in Nat
<1> DEFINE counted == {suite \in Suite \X (1..MaxSuites) :
                         Ssl!Level(suite[1]) = level /\ suite[2] <= accepted[suite[1]]}
<1>1. MaxSuites \in Nat
    BY BoundsAssumption
<1>2. IsFiniteSet(1..MaxSuites)
    BY <1>1, FS_Interval
<1>3. IsFiniteSet(Suite \X (1..MaxSuites))
    BY Zenon, <1>2, SuitesFinite, FS_Product
<1>4. counted \subseteq Suite \X (1..MaxSuites)
    OBVIOUS
<1>5. Ssl!SuitesOf(level, accepted) = Ssl!Cardinality(counted)
    BY Zenon DEF Ssl!SuitesOf
<1> HIDE DEF counted
<1>6. Cardinality(counted) \in Nat
    BY Zenon, <1>3, <1>4, FS_Subset, FS_CardinalityType
<1>7. Ssl!Cardinality(counted) = Cardinality(counted)
    BY Zenon DEF Cardinality, Ssl!Cardinality
<1> QED BY <1>5, <1>6, <1>7

(* The penalty of the suites is capped, and free of charge only without any. *)
LEMMA PenaltyBounds ==
    ASSUME NEW i \in Nat, NEW w \in Nat
    PROVE  /\ Ssl!CipherPenalty(i, w) \in Nat
           /\ Ssl!CipherPenalty(i, w) = 0 <=> i + w = 0
           /\ i + w > 0 => Ssl!CipherPenalty(i, w) >= 5
BY DEF Ssl!CipherPenalty, Ssl!CapAt

(* The arithmetic of the points, apart from the steps.                       *)
LEMMA MorePays ==
    ASSUME NEW d \in Nat, NEW d1 \in Nat, NEW f \in Nat, NEW f1 \in Nat, NEW w \in Nat,
           NEW w1 \in Nat, NEW i \in Nat, NEW k \in Nat, NEW s \in Nat,
           Pays(d, f, w, i, k, s), PaysMore(d, d1, f, f1, w, w1)
    PROVE  Pays(d1, f1, w1, i, k, s)
BY DEF Pays, PaysMore

(* The suites are deducted, all at once: i of f details are insecure suites, *)
(* each of the others, but the absence of a secure protocol, cost 25 points. *)
LEMMA SuitesPay ==
    ASSUME NEW f \in Nat, NEW i \in Nat, NEW w \in Nat, NEW off \in {0, 1}, NEW s \in Nat,
           NEW penalty \in Nat, f >= i, s <= penalty, penalty = 0 <=> i + w = 0
    PROVE  Pays(25 * (f - i) + penalty + 50 * off, f + off, w, i, w, s)
BY DEF Pays

(* A certificate: 30 points for its expiry or 10 for it coming, 20 for its   *)
(* key, 20 for its chain.                                                    *)
Flag == {0, 1}

LEMMA CertificatePays ==
    ASSUME NEW d \in Nat, NEW f \in Nat, NEW w \in Nat, NEW expired \in Flag,
           NEW soon \in Flag, NEW small \in Flag, NEW untrusted \in Flag
    PROVE  PaysMore(d, d + ((30 * expired + 10 * soon) + 20 * small + 20 * untrusted),
                    f, f + expired + small + untrusted, w, w + soon)
BY DEF PaysMore, Flag

(* Heartbleed: 40 points.                                                    *)
LEMMA HeartbleedPays ==
    ASSUME NEW d \in Nat, NEW f \in Nat, NEW w \in Nat
    PROVE  PaysMore(d, d + 40, f, f + 1, w, w)
BY DEF PaysMore

(* The score that is left.                                                   *)
ScoreLeft(d) == IF d > 100 THEN 0 ELSE 100 - d

LEMMA PaidScore ==
    ASSUME NEW d \in Nat, NEW f \in Nat, NEW w \in Nat, NEW i \in Nat, NEW k \in Nat,
           NEW s \in Nat, Pays(d, f, w, i, k, s)
    PROVE  /\ ScoreLeft(d) \in 0..100
           /\ ScoreLeft(d) = 100 <=> f + w = 0
           /\ ScoreLeft(d) > 0 => 100 - ScoreLeft(d) >= 20 * (f - i) + 10 * (w - k) + s
BY DEF Pays, ScoreLeft

LEMMA SslKept ==
    ASSUME CountsInv, DeductionsInv, [Ssl!Next]_sslVars
    PROVE  CountsInv' /\ DeductionsInv'
<1>0. /\ insecure \in Nat /\ weak \in Nat /\ deductions \in Nat /\ fails \in Nat /\ warns \in Nat
      /\ SuitesDue \in Nat
    BY DEF CountsInv, SuitesDue
<1>1. CASE UNCHANGED sslVars
    BY <1>1 DEF sslVars, CountsInv, DeductionsInv, SuitesDue, SslScoreMatchesDetails,
                DetailsCost, Ssl!ScoreMatchesDetails, Ssl!DetailsCost
<1>2. CASE Ssl!Error
    BY <1>2 DEF Ssl!Error, CountsInv, DeductionsInv, Ssl!Step, SslScoreMatchesDetails,
                DetailsCost, Ssl!ScoreMatchesDetails, Ssl!DetailsCost
<1>3. ASSUME NEW p \in Ssl!Deprecated, Ssl!DeprecatedProtocol(p)
      PROVE  CountsInv' /\ DeductionsInv'
  <2>1. /\ \/ fails' = fails + 1 /\ deductions' = deductions + 25
           \/ fails' = fails /\ deductions' = deductions
        /\ UNCHANGED <<hasSecure, insecure, weak, deployments, warns, sslScore>>
        /\ sslStep = "deprecated" /\ sslStep' \in {"deprecated", "secure"}
      BY <1>3 DEF Ssl!DeprecatedProtocol, Ssl!Fail, Ssl!Fine
  <2>2. todo' \subseteq Ssl!Deprecated \cup Ssl!Secure
      BY <1>3 DEF Ssl!DeprecatedProtocol, CountsInv
  <2>3. CountsInv'
      BY <2>1, <2>2 DEF CountsInv, Ssl!Step
  <2>4. fails >= insecure /\ insecure = 0 /\ weak = 0 /\ warns = weak
        /\ deductions = 25 * (fails - insecure)
      BY <2>1 DEF DeductionsInv
  <2>5. fails' >= insecure' /\ deductions' = 25 * (fails' - insecure')
      BY <1>0, <2>1, <2>4
  <2>6. DeductionsInv'
      BY <1>0, <2>1, <2>4, <2>5 DEF DeductionsInv
  <2> QED BY <2>3, <2>6
<1>4. ASSUME NEW p \in Ssl!Secure, NEW accepted \in [Suite -> 0..MaxSuites],
             Ssl!SecureProtocol(p, accepted)
      PROVE  CountsInv' /\ DeductionsInv'
  <2>1. PICK i, w, off :
          /\ i = insecure + Ssl!SuitesOf("insecure", accepted)
          /\ w = weak + Ssl!SuitesOf("weak", accepted)
          /\ off \in {0, 1}
          /\ sslStep = "secure" /\ insecure' = i /\ weak' = w
          /\ todo' = todo \ {p} /\ warns' = warns + (w - weak)
          /\ \/ fails' = fails + (i - insecure) /\ UNCHANGED <<sslStep, deductions>>
             \/ /\ sslStep' = "certificate"
                /\ fails' = fails + (i - insecure) + off
                /\ deductions' = deductions + Ssl!CipherPenalty(i, w) + 50 * off
          /\ UNCHANGED <<deployments, sslScore>>
      BY <1>4 DEF Ssl!SecureProtocol
  <2>2. hasSecure' \in BOOLEAN
      BY <1>4 DEF Ssl!SecureProtocol, CountsInv
  <2>3. i \in Nat /\ w \in Nat /\ i >= insecure /\ w >= weak
      BY <1>0, <2>1, SuitesCounted
  <2>4. /\ warns = weak /\ fails >= insecure /\ deductions = 25 * (fails - insecure)
      BY <2>1 DEF DeductionsInv
  <2>5. warns' = w
      BY <1>0, <2>1, <2>3, <2>4
  <2> DEFINE f == fails + (i - insecure)
  <2>6. f \in Nat /\ f >= i /\ deductions = 25 * (f - i)
      BY <1>0, <2>3, <2>4
  <2> HIDE DEF f
  <2>7. CASE fails' = f /\ UNCHANGED <<sslStep, deductions>>
    <3>1. CountsInv'
        BY <1>0, <2>1, <2>2, <2>3, <2>5, <2>6, <2>7 DEF CountsInv
    <3>2. DeductionsInv'
        BY <1>0, <2>1, <2>3, <2>5, <2>6, <2>7 DEF DeductionsInv
    <3> QED BY <3>1, <3>2
  <2>8. CASE /\ sslStep' = "certificate"
             /\ fails' = f + off
             /\ deductions' = deductions + Ssl!CipherPenalty(i, w) + 50 * off
    <3> DEFINE penalty == Ssl!CipherPenalty(i, w)
    <3>1. /\ penalty \in Nat /\ (penalty = 0 <=> i + w = 0)
          /\ (i + w > 0 => penalty >= 5)
        BY <2>3, PenaltyBounds
    <3>2. deductions' = 25 * (f - i) + penalty + 50 * off
        BY <2>6, <2>8
    <3> HIDE DEF penalty
    <3>3. off \in Nat /\ 50 * off \in Nat
        BY <2>1
    <3>4. fails' \in Nat /\ fails' >= i /\ deductions' \in Nat
        BY <2>3, <2>6, <2>8, <3>1, <3>2, <3>3
    <3>5. SuitesDue' \in Nat /\ SuitesDue' <= penalty
        BY <2>1, <2>3, <3>1 DEF SuitesDue
    <3>6. Pays(25 * (f - i) + penalty + 50 * off, f + off, w, i, w, SuitesDue')
        BY <2>1, <2>3, <2>6, <3>1, <3>5, SuitesPay
    <3>7. Pays(deductions', fails', warns', insecure', weak', SuitesDue')
        BY <2>1, <2>5, <2>8, <3>2, <3>6
    <3>8. CountsInv'
        BY <2>1, <2>2, <2>3, <2>5, <2>8, <3>4 DEF CountsInv, Ssl!Step
    <3>9. DeductionsInv'
        BY <2>1, <2>3, <2>5, <2>8, <3>4, <3>7 DEF DeductionsInv
    <3> QED BY <3>8, <3>9
  <2> QED BY <2>1, <2>7, <2>8 DEF f
<1>5. ASSUME NEW expiry \in {"expired", "soon", "fine"}, NEW small \in BOOLEAN,
             NEW trusted \in BOOLEAN, Ssl!Deployment(expiry, small, trusted)
      PROVE  CountsInv' /\ DeductionsInv'
  <2> DEFINE One(b) == IF b THEN 1 ELSE 0
             expired == One(expiry = "expired")
             soon == One(expiry = "soon")
             weakKey == One(small)
             untrusted == One(~trusted)
  <2>1. /\ fails' = fails + expired + weakKey + untrusted
        /\ warns' = warns + soon
        /\ deductions' = deductions + Ssl!CertificatePoints(expiry, small, trusted)
        /\ sslStep = "certificate" /\ deployments < MaxDeployments
        /\ deployments' = deployments + 1
        /\ UNCHANGED <<sslStep, todo, hasSecure, insecure, weak, sslScore>>
      BY <1>5 DEF Ssl!Deployment
  <2>2. expired \in Flag /\ soon \in Flag /\ weakKey \in Flag /\ untrusted \in Flag
      BY DEF Flag
  <2>3. Ssl!CertificatePoints(expiry, small, trusted)
            = (30 * expired + 10 * soon) + 20 * weakKey + 20 * untrusted
      BY DEF Ssl!CertificatePoints
  <2> HIDE DEF expired, soon, weakKey, untrusted, One
  <2>4. PaysMore(deductions, deductions + ((30 * expired + 10 * soon) + 20 * weakKey + 20 * untrusted),
                 fails, fails + expired + weakKey + untrusted, warns, warns + soon)
      BY Zenon, <1>0, <2>2, CertificatePays
  <2>5. PaysMore(deductions, deductions', fails, fails', warns, warns')
      BY <2>1, <2>3, <2>4
  <2>6. fails' \in Nat /\ warns' \in Nat /\ deductions' \in Nat /\ fails' >= fails /\ warns' >= warns
      BY <1>0, <2>1, <2>2, <2>3 DEF Flag
  <2>7. CountsInv'
      BY <2>1, <2>6, BoundsAssumption DEF CountsInv
  <2>8. SuitesDue' = SuitesDue
      BY <2>1 DEF SuitesDue
  <2>9. fails >= insecure /\ warns >= weak /\ Pays(deductions, fails, warns, insecure, weak, SuitesDue)
      BY <2>1 DEF DeductionsInv
  <2>10. Pays(deductions', fails', warns', insecure, weak, SuitesDue)
      BY Zenon, <1>0, <2>5, <2>6, <2>9, MorePays
  <2>11. fails' >= insecure' /\ warns' >= weak'
      BY <1>0, <2>1, <2>6, <2>9
  <2>12. DeductionsInv'
      BY <2>1, <2>8, <2>10, <2>11 DEF DeductionsInv
  <2> QED BY <2>7, <2>12
<1>6. CASE Ssl!CertificateOver
    BY <1>6 DEF Ssl!CertificateOver, CountsInv, DeductionsInv, SuitesDue, Ssl!Step
<1>7. CASE Ssl!Heartbleed
  <2>1. /\ \/ fails' = fails + 1 /\ deductions' = deductions + 40
           \/ fails' = fails /\ deductions' = deductions
        /\ sslScore' = IF deductions' > 100 THEN 0 ELSE 100 - deductions'
        /\ sslStep = "heartbleed" /\ sslStep' = "done"
        /\ UNCHANGED <<todo, hasSecure, insecure, weak, deployments, warns>>
      BY <1>7 DEF Ssl!Heartbleed, Ssl!Fail, Ssl!Fine
  <2>2. deductions' \in Nat /\ fails' \in Nat
      BY <1>0, <2>1
  <2>3. Pays(deductions, fails, warns, insecure, weak, SuitesDue)
      BY <2>1 DEF DeductionsInv
  <2>4. PaysMore(deductions, deductions + 40, fails, fails + 1, warns, warns)
      BY <1>0, HeartbleedPays
  <2>5. deductions + 40 \in Nat /\ fails + 1 \in Nat
      BY <1>0
  <2>6. Pays(deductions + 40, fails + 1, warns, insecure, weak, SuitesDue)
      BY ZenonT(40), Zenon, <1>0, <2>3, <2>4, <2>5, MorePays
  <2>7. Pays(deductions', fails', warns, insecure, weak, SuitesDue)
      BY <2>1, <2>3, <2>6
  <2>8. /\ sslScore' \in 0..100
        /\ sslScore' = 100 <=> fails' + warns = 0
        /\ sslScore' > 0 =>
               100 - sslScore' >= 20 * (fails' - insecure) + 10 * (warns - weak) + SuitesDue
    <3>1. sslScore' = ScoreLeft(deductions')
        BY <2>1 DEF ScoreLeft
    <3>2. /\ ScoreLeft(deductions') \in 0..100
          /\ ScoreLeft(deductions') = 100 <=> fails' + warns = 0
          /\ ScoreLeft(deductions') > 0 =>
                 100 - ScoreLeft(deductions') >= 20 * (fails' - insecure) + 10 * (warns - weak) + SuitesDue
        BY Zenon, <1>0, <2>2, <2>7, PaidScore
    <3> QED BY <3>1, <3>2
  <2>9. CountsInv'
      BY <2>1, <2>2, <2>8 DEF CountsInv, Ssl!Step
  <2>10. SslScoreMatchesDetails' /\ DetailsCost'
      BY <2>1, <2>8 DEF SuitesDue, SslScoreMatchesDetails, DetailsCost,
                        Ssl!ScoreMatchesDetails, Ssl!DetailsCost
  <2>11. DeductionsInv'
      BY <2>1, <2>10 DEF DeductionsInv
  <2> QED BY <2>9, <2>11
<1> QED BY <1>1, <1>2, <1>3, <1>4, <1>5, <1>6, <1>7 DEF Ssl!Next

LEMMA SslInvariant == Spec => []SslInv
<1>1. Init => SslInv
    BY SslInit DEF Init
<1>2. ASSUME SslInv, [Next]_vars PROVE SslInv'
    BY <1>2, PartSteps, SslKept DEF SslInv
<1> QED BY <1>1, <1>2, PTL DEF Spec

(* SslCheck gives full marks exactly when it shows nothing as FAIL or WARN,  *)
(* for any suites, protocols and certificates (_scan_sync).                  *)
THEOREM SslScoreIsShown == Spec => []SslScoreMatchesDetails
<1>1. SslInv => SslScoreMatchesDetails
    BY DEF SslInv, DeductionsInv, SslScoreMatchesDetails, Ssl!ScoreMatchesDetails
<1> QED BY <1>1, SslInvariant, PTL

(* Each detail of SslCheck that is shown costs its points, whatever the caps *)
(* on the suites' (_scan_sync).                                              *)
THEOREM ShownDetailsCost == Spec => []DetailsCost
<1>1. SslInv => DetailsCost
    BY DEF SslInv, DeductionsInv, DetailsCost, Ssl!DetailsCost
<1> QED BY <1>1, SslInvariant, PTL

-----------------------------------------------------------------------------
(***************************************************************************)
(* The score and the grade of a report, for any registry of checks, any     *)
(* severities and any scores: what rounding a weighted mean can and cannot   *)
(* do to it.                                                                 *)
(***************************************************************************)

(* Python's round of a quotient.                                             *)

(* The quotient and the rest decide.                                         *)
LEMMA RoundCases ==
    ASSUME NEW n \in Nat, NEW d \in Nat, d > 0
    PROVE  \E q \in Nat, r \in Nat :
              /\ r < d /\ n = q * d + r
              /\ \/ Report!Round(n, d) = q /\ (2 * r < d \/ (2 * r = d /\ q % 2 = 0))
                 \/ Report!Round(n, d) = q + 1 /\ (2 * r > d \/ (2 * r = d /\ q % 2 # 0))
<1> DEFINE q == n \div d
           r == n % d
<1>1. q \in Nat /\ r \in Nat
    OBVIOUS
<1>2. r = n - d * q
    OBVIOUS
<1>3. r < d
    OBVIOUS
<1>4. Report!Round(n, d) = IF 2 * r < d \/ (2 * r = d /\ q % 2 = 0) THEN q ELSE q + 1
    BY Zenon DEF Report!Round
<1> HIDE DEF q, r
<1>5. n = q * d + r
    BY <1>1, <1>2
<1>6. CASE 2 * r < d \/ (2 * r = d /\ q % 2 = 0)
    BY <1>1, <1>3, <1>4, <1>5, <1>6
<1>7. CASE ~(2 * r < d \/ (2 * r = d /\ q % 2 = 0))
  <2>1. Report!Round(n, d) = q + 1
      BY <1>4, <1>7
  <2>2. 2 * r > d \/ (2 * r = d /\ q % 2 # 0)
      BY <1>1, <1>7
  <2> QED BY <1>1, <1>3, <1>5, <2>1, <2>2
<1> QED BY <1>6, <1>7

LEMMA Multiplied ==
    ASSUME NEW a \in Int, NEW b \in Int, NEW d \in Nat, d > 0
    PROVE  /\ a <= b => a * d <= b * d
           /\ a * d <= b * d => a <= b
           /\ a * d < b * d => a < b
OBVIOUS

(* A mean between two integers is rounded to one between them.               *)
LEMMA RoundWithin ==
    ASSUME NEW n \in Nat, NEW d \in Nat, d > 0, NEW m \in Nat
    PROVE  /\ Report!Round(n, d) \in Nat
           /\ m * d <= n => m <= Report!Round(n, d)
           /\ n <= m * d => Report!Round(n, d) <= m
<1>1. PICK q \in Nat, r \in Nat :
          /\ r < d /\ n = q * d + r
          /\ \/ Report!Round(n, d) = q /\ (2 * r < d \/ (2 * r = d /\ q % 2 = 0))
             \/ Report!Round(n, d) = q + 1 /\ (2 * r > d \/ (2 * r = d /\ q % 2 # 0))
    BY RoundCases
<1>2. ASSUME m * d <= n PROVE m <= q
  <2>1. m * d < (q + 1) * d
      BY <1>1, <1>2
  <2>2. m < q + 1
      BY <2>1, Multiplied
  <2> QED BY <2>2
<1>3. ASSUME n <= m * d PROVE Report!Round(n, d) <= m
  <2>1. CASE Report!Round(n, d) = q
    <3>1. q * d <= m * d
        BY <1>1, <1>3
    <3> QED BY <2>1, <3>1, Multiplied
  <2>2. CASE Report!Round(n, d) = q + 1 /\ (2 * r > d \/ (2 * r = d /\ q % 2 # 0))
    <3>1. r > 0
        BY <2>2
    <3>2. q * d < m * d
        BY <1>1, <1>3, <3>1
    <3>3. q < m
        BY <3>2, Multiplied
    <3> QED BY <2>2, <3>3
  <2> QED BY <1>1, <2>1, <2>2
<1> QED BY <1>1, <1>2, <1>3

(* A mean that is not less is not rounded to less, whatever the divisors,    *)
(* ties to even included.                                                    *)
LEMMA RoundMonotone ==
    ASSUME NEW n \in Nat, NEW d \in Nat, d > 0, NEW n1 \in Nat, NEW d1 \in Nat, d1 > 0,
           n * d1 <= n1 * d
    PROVE  Report!Round(n, d) <= Report!Round(n1, d1)
<1>1. PICK q \in Nat, r \in Nat :
          /\ r < d /\ n = q * d + r
          /\ \/ Report!Round(n, d) = q /\ (2 * r < d \/ (2 * r = d /\ q % 2 = 0))
             \/ Report!Round(n, d) = q + 1 /\ (2 * r > d \/ (2 * r = d /\ q % 2 # 0))
    BY RoundCases
<1>2. PICK q1 \in Nat, r1 \in Nat :
          /\ r1 < d1 /\ n1 = q1 * d1 + r1
          /\ \/ Report!Round(n1, d1) = q1 /\ (2 * r1 < d1 \/ (2 * r1 = d1 /\ q1 % 2 = 0))
             \/ Report!Round(n1, d1) = q1 + 1 /\ (2 * r1 > d1 \/ (2 * r1 = d1 /\ q1 % 2 # 0))
    BY RoundCases
<1> DEFINE e == d * d1
<1>3. e \in Nat /\ e > 0
    BY Multiplied
<1>4. n * d1 = q * e + r * d1 /\ n1 * d = q1 * e + r1 * d
    BY <1>1, <1>2
<1>5. r1 * d < e
  <2>1. r1 + 1 <= d1
      BY <1>2
  <2>2. (r1 + 1) * d <= d1 * d
      BY <2>1, Multiplied
  <2> QED BY <2>2
<1>6. r * d1 \in Nat /\ r1 * d \in Nat
    OBVIOUS
<1> HIDE DEF e
<1>7. q <= q1
  <2>1. q * e < (q1 + 1) * e
      BY <1>3, <1>4, <1>5, <1>6
  <2>2. q < q1 + 1
      BY <1>3, <2>1, Multiplied
  <2> QED BY <2>2
<1>8. CASE q < q1
    BY <1>1, <1>2, <1>8
<1>9. CASE q = q1
  <2>1. r * d1 <= r1 * d
      BY <1>3, <1>4, <1>6, <1>9
  <2>2. CASE Report!Round(n, d) = q
      BY <1>2, <1>9, <2>2
  <2>3. ASSUME 2 * r > d PROVE 2 * r1 > d1
    <3>1. d + 1 <= 2 * r
        BY <2>3
    <3>2. (d + 1) * d1 <= (2 * r) * d1
        BY <3>1, Multiplied
    <3>3. d1 * d < (2 * r1) * d
        BY <2>1, <3>2
    <3> QED BY <3>3, Multiplied
  <2>4. ASSUME 2 * r = d PROVE 2 * r1 >= d1
    <3>1. (2 * r) * d1 = d * d1
        BY <2>4
    <3>2. d1 * d <= (2 * r1) * d
        BY <2>1, <3>1
    <3> QED BY <3>2, Multiplied
  <2>5. CASE Report!Round(n, d) = q + 1 /\ 2 * r > d
    <3>1. 2 * r1 > d1
        BY <2>3, <2>5
    <3> QED BY <1>2, <1>9, <2>5, <3>1
  <2>6. CASE Report!Round(n, d) = q + 1 /\ 2 * r = d /\ q % 2 # 0
    <3>1. 2 * r1 >= d1 /\ q1 % 2 # 0
        BY <1>9, <2>4, <2>6
    <3> QED BY <1>2, <1>9, <2>6, <3>1
  <2> QED BY <1>1, <2>2, <2>5, <2>6
<1> QED BY <1>7, <1>8, <1>9
-----------------------------------------------------------------------------
(* The report.  Its weighted mean lies between two of its checks.            *)

ReportInv ==
    /\ checks \in [Check -> Score \cup {NoScore}]
    /\ weighted \in Nat /\ weights \in Nat
    /\ Report!InReport = {} => weighted = 0 /\ weights = 0
    /\ Report!InReport # {} =>
           /\ weights > 0
           /\ \E c \in Report!InReport : checks[c] * weights <= weighted
           /\ \E c \in Report!InReport : weighted <= checks[c] * weights

(* What a new result of score s and weight w does to a mean.                 *)
LEMMA MeanMoves ==
    ASSUME NEW n \in Nat, NEW d \in Nat, NEW m \in Nat, NEW s \in Nat, NEW w \in Nat
    PROVE  /\ m * d <= n /\ m <= s => m * (d + w) <= n + s * w
           /\ m * d <= n /\ s <= m => s * (d + w) <= n + s * w
           /\ n <= m * d /\ s <= m => n + s * w <= m * (d + w)
           /\ n <= m * d /\ m <= s => n + s * w <= s * (d + w)
<1>1. m <= s => m * w <= s * w /\ m * d <= s * d
    OBVIOUS
<1>2. s <= m => s * w <= m * w /\ s * d <= m * d
    OBVIOUS
<1>3. m * (d + w) = m * d + m * w /\ s * (d + w) = s * d + s * w
    OBVIOUS
<1>4. m * d \in Nat /\ m * w \in Nat /\ s * d \in Nat /\ s * w \in Nat
    OBVIOUS
<1> QED BY <1>1, <1>2, <1>3, <1>4

LEMMA ScoresAreNumbers ==
    ASSUME ReportInv
    PROVE  \A b \in Report!InReport : checks[b] \in Nat
<1>1. \A b \in Report!InReport : checks[b] \in Score
    BY Zenon DEF ReportInv, Report!InReport
<1>2. \A score \in Score : score \in Nat
    BY ReportAssumption
<1> QED BY <1>1, <1>2

(* One new result: its check, its score and its weight.                      *)
LEMMA AddedResult ==
    ASSUME ReportInv, NEW c \in Check, NEW score \in Score, Report!Add(c, score)
    PROVE  LET w == Report!Weight(SeverityOf[c]) IN
           /\ score \in Nat /\ score # NoScore /\ w \in Nat /\ w > 0
           /\ c \notin Report!InReport /\ Report!InReport' = Report!InReport \cup {c}
           /\ checks' = [checks EXCEPT ![c] = score] /\ checks'[c] = score
           /\ \A b \in Report!InReport : checks'[b] = checks[b]
           /\ weighted' = weighted + score * w /\ weights' = weights + w
<1>1. score \in Nat /\ score # NoScore
    BY ReportAssumption
<1>2. Report!Weight(SeverityOf[c]) \in {1, 2, 3, 4, 5}
    BY DEF Report!Weight
<1>3. checks' = [checks EXCEPT ![c] = score] /\ checks[c] = NoScore
    BY DEF Report!Add
<1>4. checks'[c] = score /\ \A b \in Check : b # c => checks'[b] = checks[b]
    BY <1>3 DEF ReportInv
<1>5. Report!InReport' = Report!InReport \cup {c}
    BY <1>1, <1>3, <1>4 DEF Report!InReport
<1>6. c \notin Report!InReport /\ \A b \in Report!InReport : checks'[b] = checks[b]
    BY <1>3, <1>4 DEF Report!InReport
<1> QED BY <1>1, <1>2, <1>3, <1>4, <1>5, <1>6 DEF Report!Add

LEMMA ReportKept ==
    ASSUME ReportInv, [Report!Next]_reportVars
    PROVE  ReportInv'
<1>1. CASE UNCHANGED reportVars
    BY <1>1 DEF reportVars, ReportInv, Report!InReport
<1>2. ASSUME NEW c \in Check, NEW score \in Score, Report!Add(c, score)
      PROVE  ReportInv'
  <2>1. PICK w \in Nat :
           /\ score \in Nat /\ w > 0
           /\ c \notin Report!InReport /\ Report!InReport' = Report!InReport \cup {c}
           /\ checks' = [checks EXCEPT ![c] = score] /\ checks'[c] = score
           /\ \A b \in Report!InReport : checks'[b] = checks[b]
           /\ weighted' = weighted + score * w /\ weights' = weights + w
      BY <1>2, AddedResult
  <2>2. checks' \in [Check -> Score \cup {NoScore}]
      BY <2>1 DEF ReportInv
  <2>3. score * w \in Nat /\ weighted \in Nat /\ weights \in Nat
      BY <2>1 DEF ReportInv
  <2>4. weighted' \in Nat /\ weights' \in Nat /\ weights' > 0
      BY <2>1, <2>3
  <2>5. \A b \in Report!InReport : checks[b] \in Nat
      BY ScoresAreNumbers
  <2>6. CASE Report!InReport = {}
    <3>1. weighted' = checks'[c] * weights'
        BY <2>1, <2>3, <2>6 DEF ReportInv
    <3>2. checks'[c] * weights' \in Nat
        BY <2>4, <3>1
    <3> QED BY <2>1, <2>2, <2>4, <3>1, <3>2 DEF ReportInv
  <2>7. CASE Report!InReport # {}
    <3>1. PICK lo \in Report!InReport : checks[lo] * weights <= weighted
        BY <2>7 DEF ReportInv
    <3>2. PICK hi \in Report!InReport : weighted <= checks[hi] * weights
        BY <2>7 DEF ReportInv
    <3>3. checks[lo] \in Nat /\ checks[hi] \in Nat
        BY <2>5
    <3>4. /\ checks[lo] <= score => checks[lo] * weights' <= weighted'
          /\ score <= checks[lo] => score * weights' <= weighted'
        BY <2>1, <2>3, <3>1, <3>3, MeanMoves
    <3>5. /\ score <= checks[hi] => weighted' <= checks[hi] * weights'
          /\ checks[hi] <= score => weighted' <= score * weights'
        BY <2>1, <2>3, <3>2, <3>3, MeanMoves
    <3>6. \E b \in Report!InReport' : checks'[b] * weights' <= weighted'
        BY <2>1, <3>3, <3>4
    <3>7. \E b \in Report!InReport' : weighted' <= checks'[b] * weights'
        BY <2>1, <3>3, <3>5
    <3> QED BY <2>1, <2>2, <2>4, <3>6, <3>7 DEF ReportInv
  <2> QED BY <2>6, <2>7
<1> QED BY <1>1, <1>2 DEF Report!Next

LEMMA ReportSteps == [Next]_vars => [Report!Next]_reportVars
BY Zenon DEF Next, vars, reportVars

LEMMA ReportInvariant == Spec => []ReportInv
<1>1. Init => ReportInv
    BY DEF Init, Report!Init, ReportInv, Report!InReport
<1>2. ASSUME ReportInv, [Next]_vars PROVE ReportInv'
    BY <1>2, ReportSteps, ReportKept
<1> QED BY <1>1, <1>2, PTL DEF Spec

LEMMA GradesRise ==
    ASSUME NEW a \in Nat, NEW b \in Nat, a <= b
    PROVE  Report!Grade(a) <= Report!Grade(b)
BY DEF Report!Grade

(* The grade of a report is never better than that of its best check nor     *)
(* worse than that of its worst, for any checks, severities and scores       *)
(* (compute_overall, compute_grade).                                         *)
THEOREM GradeLiesWithin == Spec => []GradeWithinChecks
<1>1. ASSUME ReportInv, Report!InReport # {}
      PROVE  /\ \E c \in Report!InReport :
                    Report!Grade(checks[c]) <= Report!Grade(Report!Overall(weighted, weights))
             /\ \E c \in Report!InReport :
                    Report!Grade(checks[c]) >= Report!Grade(Report!Overall(weighted, weights))
  <2>1. PICK lo \in Report!InReport : checks[lo] * weights <= weighted
      BY <1>1 DEF ReportInv
  <2>2. PICK hi \in Report!InReport : weighted <= checks[hi] * weights
      BY <1>1 DEF ReportInv
  <2>3. checks[lo] \in Nat /\ checks[hi] \in Nat
      BY <1>1, ScoresAreNumbers
  <2>4. weighted \in Nat /\ weights \in Nat /\ weights > 0
      BY <1>1 DEF ReportInv
  <2>5. Report!Overall(weighted, weights) = Report!Round(weighted, weights)
      BY <2>4 DEF Report!Overall
  <2>6. /\ Report!Round(weighted, weights) \in Nat
        /\ checks[lo] <= Report!Round(weighted, weights)
        /\ Report!Round(weighted, weights) <= checks[hi]
      BY <2>1, <2>2, <2>3, <2>4, RoundWithin
  <2>7. Report!Grade(checks[lo]) <= Report!Grade(Report!Overall(weighted, weights))
      BY <2>3, <2>5, <2>6, GradesRise
  <2>8. Report!Grade(checks[hi]) >= Report!Grade(Report!Overall(weighted, weights))
    <3>1. /\ Report!Grade(checks[hi]) \in Int
          /\ Report!Grade(Report!Overall(weighted, weights)) \in Int
        BY DEF Report!Grade
    <3> QED BY <2>3, <2>5, <2>6, <3>1, GradesRise
  <2> QED BY <2>7, <2>8
<1>2. ReportInv => GradeWithinChecks
    BY <1>1 DEF GradeWithinChecks, Report!GradeWithinChecks
<1> QED BY <1>2, ReportInvariant, PTL

(* A new result pulls the score of a report towards it and not past it,      *)
(* rounding to even included (compute_overall).                              *)
THEOREM ResultsPull == Spec => PulledTowardsNewResult
<1>1. ASSUME ReportInv, Report!Next, NEW b \in Check, checks[b] = NoScore,
             checks'[b] # NoScore, weights # 0
      PROVE  LET old == Report!Overall(weighted, weights)
                 new == Report!Overall(weighted', weights')
             IN  \/ old <= new /\ new <= checks'[b]
                 \/ old >= new /\ new >= checks'[b]
  <2>1. PICK c \in Check, score \in Score : Report!Add(c, score)
      BY <1>1 DEF Report!Next
  <2>2. PICK w \in Nat :
           /\ score \in Nat /\ w > 0
           /\ checks' = [checks EXCEPT ![c] = score] /\ checks'[c] = score
           /\ weighted' = weighted + score * w /\ weights' = weights + w
      BY <1>1, <2>1, AddedResult
  <2>3. b = c /\ checks'[b] = score
      BY <1>1, <2>2 DEF ReportInv
  <2> DEFINE n1 == weighted + score * w
             d1 == weights + w
             products == /\ weighted * d1 = weighted * weights + weighted * w
                         /\ n1 * weights = weighted * weights + (score * weights) * w
  <2>4. weighted \in Nat /\ weights \in Nat /\ weights > 0
      BY <1>1 DEF ReportInv
  <2>5. n1 \in Nat /\ d1 \in Nat /\ d1 > 0 /\ weighted' = n1 /\ weights' = d1
      BY <2>2, <2>4
  <2>6. products
      BY <2>2, <2>4
  <2>7. /\ Report!Overall(weighted, weights) = Report!Round(weighted, weights)
        /\ Report!Overall(weighted', weights') = Report!Round(n1, d1)
      BY <2>4, <2>5 DEF Report!Overall
  <2>8. score * weights \in Nat /\ weighted * w \in Nat /\ (score * weights) * w \in Nat
      BY <2>2, <2>4
  <2>9. CASE weighted <= score * weights
    <3>1. weighted * w <= (score * weights) * w
        BY <2>2, <2>4, <2>8, <2>9, Multiplied
    <3>2. weighted * d1 <= n1 * weights
        BY <2>4, <2>6, <2>8, <3>1
    <3>3. Report!Round(weighted, weights) <= Report!Round(n1, d1)
        BY <2>4, <2>5, <3>2, RoundMonotone
    <3>4. n1 <= score * d1
        BY <2>2, <2>4, <2>9, MeanMoves
    <3>5. Report!Round(n1, d1) <= score
        BY <2>2, <2>5, <3>4, RoundWithin
    <3> QED BY <2>3, <2>7, <3>3, <3>5
  <2>10. CASE score * weights <= weighted
    <3>1. (score * weights) * w <= weighted * w
        BY <2>2, <2>4, <2>8, <2>10, Multiplied
    <3>2. n1 * weights <= weighted * d1
        BY <2>4, <2>6, <2>8, <3>1
    <3>3. Report!Round(n1, d1) <= Report!Round(weighted, weights)
        BY <2>4, <2>5, <3>2, RoundMonotone
    <3>4. score * d1 <= n1
        BY <2>2, <2>4, <2>10, MeanMoves
    <3>5. score <= Report!Round(n1, d1)
        BY <2>2, <2>5, <3>4, RoundWithin
    <3>6. Report!Round(n1, d1) \in Nat /\ Report!Round(weighted, weights) \in Nat
        BY <2>4, <2>5, <2>2, RoundWithin
    <3> QED BY <2>2, <2>3, <2>7, <3>3, <3>5, <3>6
  <2> QED BY <2>4, <2>8, <2>9, <2>10
<1>2. ReportInv /\ [Next]_vars =>
        [LET old == Report!Overall(weighted, weights)
             new == Report!Overall(weighted', weights')
         IN  \A c \in Check :
               checks[c] = NoScore /\ checks'[c] # NoScore /\ weights # 0 =>
                   \/ old <= new /\ new <= checks'[c]
                   \/ old >= new /\ new >= checks'[c]]_reportVars
    BY <1>1, ReportSteps
<1> QED BY <1>2, ReportInvariant, PTL
        DEF Spec, PulledTowardsNewResult, Report!PulledTowardsNewResult, Report!vars, reportVars

-----------------------------------------------------------------------------
(* Every reachable state of the checks is well formed.                       *)
THEOREM ChecksTyped == Spec => []TypeOK
<1>1. ReportInv => Report!TypeOK
    BY DEF ReportInv, Report!TypeOK
<1>2. DnsInv => Dns!TypeOK
  <2> SUFFICES ASSUME DnsInv PROVE Dns!TypeOK
      OBVIOUS
  <2> QED BY DEF DnsInv, ResultsInv, TransferInv, ScoreInv, PoliciesInv, Dns!TypeOK
<1>3. SslInv => Ssl!TypeOK
    BY DEF SslInv, CountsInv, Ssl!TypeOK
<1>4. ProbesInv => Probes!TypeOK
  <2> SUFFICES ASSUME ProbesInv PROVE Probes!TypeOK
      OBVIOUS
  <2>1. inflight \in 0..sent
      BY ProbesTyped DEF ProbesInv, BurstInv, Probes!Answer
  <2>2. ASSUME NEW a \in Probes!Answer PROVE answers[a] \in 0..Burst
      BY <2>2, ProbesTyped DEF ProbesInv, BurstInv, Passed, Refused, Probes!Answer
  <2>3. answers \in [Probes!Answer -> 0..Burst]
      BY <2>2 DEF ProbesInv, BurstInv
  <2> QED BY <2>1, <2>3 DEF ProbesInv, BurstInv, AskedInv, Probes!TypeOK
<1>5. ReportInv /\ DnsInv /\ SslInv /\ ProbesInv => TypeOK
    BY <1>1, <1>2, <1>3, <1>4 DEF TypeOK
<1> QED BY <1>5, ReportInvariant, DnsInvariant, SslInvariant, ProbesInvariant, PTL

=============================================================================
