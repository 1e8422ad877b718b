------------------------------ MODULE DnsCheck ------------------------------
(***************************************************************************)
(* DnsCheck.run for one target: five tests, one after the other in a        *)
(* thread, each a few queries to a resolver that may fail at any of them,   *)
(* then the score and the details.  The zone stays the same all along.      *)
(***************************************************************************)
EXTENDS Integers, Sequences

CONSTANTS
    Server,      \* name servers there can be
    MaxServers,  \* bound of the model: name servers of a zone
    MaxFaults    \* bound of the model: queries that fail though there is data

Test == {"a_record", "mx_record", "txt_record", "ns_record", "zone_transfer"}
Result == {"ok", "warning", "error", "info", "none"}
Step == {"a_record", "mx_record", "txt_root", "txt_host", "txt_verdict",
         "ns_record", "axfr_ns", "axfr", "score", "done"}

(***************************************************************************)
(* What the DNS holds (external): whether the host is the root domain,      *)
(* whether there are A and MX records, the policies in the TXT records of   *)
(* the root domain, of the host and of _dmarc under the root, the servers   *)
(* in the NS records of the host, those that answer, and those that         *)
(* transfer the zone to anyone.                                             *)
(***************************************************************************)
Zone == [apex : BOOLEAN, a : BOOLEAN, mx : BOOLEAN,
         txt : [{"root", "host", "_dmarc"} -> SUBSET {"spf", "dmarc"}],
         ns : UNION {[1..n -> Server] : n \in 0..MaxServers},
         answering : SUBSET Server, open : SUBSET Server]

VARIABLES
    zone,    \* the target's, fixed
    step,
    tests,   \* the dict of _run_sync
    seen,    \* policies found in the TXT answers so far
    queue,   \* ns_records of _check_axfr not tried yet
    score,
    faults   \* queries that failed though there was data

vars == <<zone, step, tests, seen, queue, score, faults>>

TypeOK ==
    /\ zone \in Zone
    /\ step \in Step
    /\ tests \in [Test -> Result]
    /\ seen \subseteq {"spf", "dmarc"}
    /\ queue \in Seq(Server)
    /\ score \in 0..100
    /\ faults \in 0..MaxFaults

Init ==
    /\ zone \in Zone
    /\ step = "a_record"
    /\ tests = [t \in Test |-> "none"]
    /\ seen = {}
    /\ queue = << >>
    /\ score = 0
    /\ faults = 0

-----------------------------------------------------------------------------
(* dns.resolver.resolve: it raises when there is no data, and may time out. *)
Answered == UNCHANGED faults
Missed(data) == IF data THEN faults < MaxFaults /\ faults' = faults + 1
                        ELSE UNCHANGED faults

Set(t, result, next) ==
    /\ tests' = [tests EXCEPT ![t] = result]
    /\ step' = next

CheckA ==
    /\ step = "a_record"
    /\ \/ zone.a /\ Answered /\ Set("a_record", "ok", "mx_record")
       \/ Missed(zone.a) /\ Set("a_record", "error", "mx_record")
    /\ UNCHANGED <<zone, seen, queue, score>>

CheckMx ==
    /\ step = "mx_record"
    /\ \/ zone.mx /\ Answered /\ Set("mx_record", "ok", "txt_root")
       \/ Missed(zone.mx) /\ Set("mx_record", "info", "txt_root")
    /\ UNCHANGED <<zone, seen, queue, score>>

(* _check_txt asks the root domain, then the host if that is another name,   *)
(* and goes on when one raises.                                              *)
QueryTxt(name, here, next) ==
    /\ step = here
    /\ step' = next
    /\ \/ zone.txt[name] # {} /\ Answered /\ seen' = seen \cup zone.txt[name]
       \/ Missed(zone.txt[name] # {}) /\ UNCHANGED seen
    /\ UNCHANGED <<zone, tests, queue, score>>

TxtResult ==
    IF "spf" \notin seen THEN "error" ELSE IF "dmarc" \notin seen THEN "warning" ELSE "ok"

TxtVerdict ==
    /\ step = "txt_verdict"
    /\ Set("txt_record", TxtResult, "ns_record")
    /\ UNCHANGED <<zone, seen, queue, score, faults>>

CheckNs ==
    /\ step = "ns_record"
    /\ \/ zone.ns # << >> /\ Answered /\ Set("ns_record", "ok", "axfr_ns")
       \/ Missed(zone.ns # << >>) /\ Set("ns_record", "error", "axfr_ns")
    /\ UNCHANGED <<zone, seen, queue, score>>

(* _check_axfr asks for the name servers again.                              *)
AxfrServers ==
    /\ step = "axfr_ns"
    /\ \/ /\ zone.ns # << >> /\ Answered
          /\ queue' = zone.ns
          /\ step' = "axfr"
          /\ UNCHANGED tests
       \/ /\ Missed(zone.ns # << >>)
          /\ Set("zone_transfer", "info", "score")
          /\ UNCHANGED queue
    /\ UNCHANGED <<zone, seen, score>>

(* Mutant: a server that raises ends the loop.                               *)
AxfrRefusedOnce ==
    /\ step = "axfr" /\ queue # << >>
    /\ Missed(Head(queue) \in zone.answering /\ Head(queue) \in zone.open)
    /\ queue' = << >>
    /\ UNCHANGED <<zone, step, tests, seen, score>>

(* One server: its address is resolved, the transfer is tried, and anything  *)
(* that raises passes to the next.                                           *)
AxfrRefused ==
    /\ step = "axfr" /\ queue # << >>
    /\ Missed(Head(queue) \in zone.answering /\ Head(queue) \in zone.open)
    /\ queue' = Tail(queue)
    /\ UNCHANGED <<zone, step, tests, seen, score>>

AxfrOpen ==
    /\ step = "axfr" /\ queue # << >>
    /\ Head(queue) \in zone.answering /\ Head(queue) \in zone.open
    /\ Set("zone_transfer", "error", "score")
    /\ UNCHANGED <<zone, seen, queue, score, faults>>

AxfrOver ==
    /\ step = "axfr" /\ queue = << >>
    /\ Set("zone_transfer", "ok", "score")
    /\ UNCHANGED <<zone, seen, queue, score, faults>>

(* Mutant: no penalty for a warning.                                         *)
PenaltyOfErrors(t, result) ==
    CASE result # "error" -> 0
      [] t = "zone_transfer" -> 40 [] t = "txt_record" -> 25
      [] t = "a_record" -> 15 [] t = "ns_record" -> 10 [] OTHER -> 0

Penalty(t, result) ==
    CASE t = "zone_transfer" /\ result = "error" -> 40
      [] t = "txt_record" /\ result = "error" -> 25
      [] t = "txt_record" /\ result = "warning" -> 10
      [] t = "a_record" /\ result = "error" -> 15
      [] t = "ns_record" /\ result = "error" -> 10
      [] OTHER -> 0

CalculateScore ==
    LET left == 100 - Penalty("zone_transfer", tests["zone_transfer"])
                    - Penalty("txt_record", tests["txt_record"])
                    - Penalty("a_record", tests["a_record"])
                    - Penalty("ns_record", tests["ns_record"])
    IN  /\ step = "score"
        /\ score' = IF left < 0 THEN 0 ELSE left
        /\ step' = "done"
        /\ UNCHANGED <<zone, tests, seen, queue, faults>>

Next ==
    \/ CheckA \/ CheckMx
    \/ QueryTxt("root", "txt_root", IF zone.apex THEN "txt_verdict" ELSE "txt_host")
    \/ QueryTxt("host", "txt_host", "txt_verdict")
    \/ TxtVerdict \/ CheckNs \/ AxfrServers
    \/ AxfrRefused \/ AxfrOpen \/ AxfrOver \/ CalculateScore

Spec == Init /\ [][Next]_vars

-----------------------------------------------------------------------------
(* _build_details: the status shown for a test.                              *)
StatusOf(result) ==
    CASE result = "error" -> "fail" [] result = "warning" -> "warn" [] OTHER -> "ok"

(* The score and the details tell the same story: full marks exactly when    *)
(* every detail is OK, and any failed detail costs at least a warning's      *)
(* points (_calculate_score, _build_details).                                *)
ScoreMatchesDetails ==
    step = "done" =>
        LET shown == {StatusOf(tests[t]) : t \in Test}
        IN  /\ score = 100 <=> shown = {"ok"}
            /\ "fail" \in shown => score <= 90

OpenServers == {zone.ns[i] : i \in DOMAIN zone.ns} \cap zone.answering \cap zone.open

(* The critical test: an open transfer is never invented, and it is found    *)
(* whichever server of the zone allows it, however many refuse before it,    *)
(* unless a query failed (_check_axfr).                                      *)
TransferVerdict ==
    step = "done" =>
        /\ tests["zone_transfer"] = "error" => OpenServers # {}
        /\ OpenServers # {} /\ faults = 0 => tests["zone_transfer"] = "error"

(* docs/dns/spf-dkim-dmarc.md:60: the DMARC policy is a TXT record of        *)
(* _dmarc.<domain>, and :117-130: a domain with both policies is "ok".       *)
DmarcIsSeen ==
    step = "done" /\ faults = 0
        /\ "spf" \in zone.txt["root"] /\ "dmarc" \in zone.txt["_dmarc"] =>
            tests["txt_record"] = "ok"

=============================================================================
