------------------------------ MODULE ScanApi ------------------------------
(***************************************************************************)
(* The three ways of running a scan, and the reading of its report, over    *)
(* the same stores.  A scan of POST /scan/ is a job (module ScanJobs); one  *)
(* of POST /scan/stream is run_scan_stream iterated by the response, in the *)
(* API process, without handler, retry or timeout; run_scan is a plain call *)
(* that returns the report.  GET /scan/{scan_id} reads through: Redis, else *)
(* MongoDB, whose answer it writes back into Redis.                         *)
(*                                                                          *)
(* For a scan of POST /scan/stream, stream[s] is what its response was sent.*)
(***************************************************************************)
EXTENDS ScanJobs

CONSTANTS
    WaysOf,      \* the ways in which each scan may be run
    Request,     \* requests GET /scan/{scan_id}
    MaxTroubles, \* bound of the model: failing calls, deaths, timeouts, expiries and
                 \* requests
    NoScan

Way == {"queue", "stream", "call"}

ASSUME WaysAssumption == WaysOf \in [Scan -> SUBSET Way] /\ NoScan \notin Scan
ASSUME TroublesAssumption == MaxTroubles \in Nat

(* The ScanReport object that run_scan returns: the measure its score and    *)
(* grade sum up, and the results it lists.                                   *)
ScanReport == [scan_id : Scan, score : Scan \X SUBSET Check, checks : SUBSET Check]
Measure(report) == <<report.origin, report.checks>>

VARIABLES
    way,     \* how each scan was started
    held,    \* the report that a call of run_scan saves (report_dict)
    built,   \* the object that it returns (report)
    at,      \* where each request is
    asked,   \* the scan it asks for
    found,   \* the report it read
    told     \* whether that scan had announced a report it measured when the
             \* request reached Redis (a history variable)

wayVars == <<way, held, built>>
getVars == <<at, asked, found, told>>
apiVars == <<vars, wayVars, getVars>>

(* A request waits for MongoDB or for the write-back; then it was answered,  *)
(* or cut with the process that served it.                                   *)
RequestPlace == {"new", "mongo", "back", "200", "404", "500", "cut"}

ApiTypeOK ==
    /\ TypeOK
    /\ way \in [Scan -> Way \cup {"none"}]
    /\ held \in [Scan -> MaybeReport]
    /\ built \in [Scan -> ScanReport \cup {NoReport}]
    /\ at \in [Request -> RequestPlace]
    /\ asked \in [Request -> Scan \cup {NoScan}]
    /\ found \in [Request -> MaybeReport]
    /\ \A g \in Request : at[g] \in {"back", "200"} => found[g] # NoReport
    /\ told \in [Request -> BOOLEAN]

ApiInit ==
    /\ Init
    /\ way = [s \in Scan |-> "none"]
    /\ held = [s \in Scan |-> NoReport]
    /\ built = [s \in Scan |-> NoReport]
    /\ at = [g \in Request |-> "new"]
    /\ asked = [g \in Request |-> NoScan]
    /\ found = [g \in Request |-> NoReport]
    /\ told = [g \in Request |-> FALSE]

-----------------------------------------------------------------------------
(* A scan starts in one of its ways; those of the API process at once.       *)
Start(s, w) ==
    /\ w \in WaysOf[s]
    /\ way' = [way EXCEPT ![s] = w]
    /\ UNCHANGED <<held, built, getVars>>

PostScan(s) == Start(s, "queue") /\ Enqueue(s)

StartHere(s, w) ==
    /\ pc[s] = "absent"
    /\ Start(s, w)
    /\ pc' = [pc EXCEPT ![s] = "lookup"]
    /\ tries' = [tries EXCEPT ![s] = 1]
    /\ UNCHANGED <<runner, result, outcome, outbox, saving, storeVars,
                   streamVars, bounds>>

PostScanStream(s) == StartHere(s, "stream")
CallRunScan(s) == StartHere(s, "call")

(* The coroutine of a scan that runs here is over, with nobody to finish it. *)
End(s, how) ==
    /\ pc' = [pc EXCEPT ![s] = "done"]
    /\ result' = [result EXCEPT ![s] = how]
    /\ outbox' = [outbox EXCEPT ![s] = NoEvent]

-----------------------------------------------------------------------------
(* POST /scan/stream: each event goes to the response, and the next is asked *)
(* for once it was sent; the response ends with the generator.               *)
Send(s) ==
    /\ pc[s] = "xadd"
    /\ Append1(s)
    /\ IF outbox[s].event \in CheckEvents
       THEN pc' = [pc EXCEPT ![s] = "collect"] /\ UNCHANGED <<result, outbox>>
       ELSE End(s, "ok")
    /\ UNCHANGED <<queueVars, outcome, saving, storeVars, bounds>>

(* Mutant: what the checks gave so far is stored when the client goes.       *)
DisconnectSaving(s) ==
    /\ Running(s)
    /\ End(s, "raised")
    /\ saving' = [saving EXCEPT ![s] = IF pc[s] = "collect" THEN Store ELSE @]
    /\ UNCHANGED <<queueVars, outcome, storeVars, streamVars, bounds>>

(* The client goes: the generator is cancelled where it waits (JobTimeout    *)
(* says what that is to its saves).                                          *)
Disconnect(s) ==
    /\ Running(s)
    /\ End(s, "raised")
    /\ UNCHANGED <<queueVars, outcome, saving, storeVars, streamVars, bounds>>

StreamStep(s) ==
    \/ CacheHit(s) \/ CacheMiss(s) \/ ComputeAndSave(s) \/ GatherDone(s)
    \/ \E c \in Check, ok \in BOOLEAN : NextCheck(s, c, ok)
    \/ \E st \in Store : SaveLands(s, st)
    \/ Send(s) \/ Disconnect(s)

-----------------------------------------------------------------------------
(* run_scan.                                                                 *)

(* What is to be saved, and the object to be returned, which lists listed.   *)
Hold(s, report, listed) ==
    /\ held' = [held EXCEPT ![s] = report]
    /\ built' = [built EXCEPT ![s] = [scan_id |-> s, score |-> Measure(report),
                                      checks |-> listed]]

(* Its three saves are sent at once, of a fresh report or of a cached one.   *)
SaveHeld(s, report, listed) ==
    /\ Hold(s, report, listed)
    /\ pc' = [pc EXCEPT ![s] = "save"]
    /\ saving' = [saving EXCEPT ![s] = Store]

(* Mutant: a hit is returned without being saved, as in run_scan_stream.     *)
CallHitUnsaved(s) ==
    LET cached == cache[DomainOf[s]] IN
    /\ pc[s] = "lookup" /\ cached # NoReport
    /\ Hold(s, NormalizeCachedReport(s, cached), {})
    /\ pc' = [pc EXCEPT ![s] = "save"]
    /\ UNCHANGED <<way, queueVars, result, outcome, outbox, saving, storeVars,
                   streamVars, bounds>>

(* The saved report is the cached one, all of it; the object is built anew   *)
(* with its score and its grade, and without its results.                    *)
CallHit(s) ==
    LET cached == cache[DomainOf[s]] IN
    /\ pc[s] = "lookup" /\ cached # NoReport
    /\ SaveHeld(s, NormalizeCachedReport(s, cached), {})
    /\ UNCHANGED <<way, queueVars, result, outcome, outbox, storeVars,
                   streamVars, bounds>>

(* gather(return_exceptions=True) gives the results of all the checks, those *)
(* of good as results and the others as exceptions.                          *)
CallChecks(s, good) ==
    /\ pc[s] = "collect"
    /\ outcome' = [outcome EXCEPT ![s] = [c \in Check |-> IF c \in good THEN "ok" ELSE "error"]]
    /\ SaveHeld(s, [scan_id |-> s, origin |-> s, checks |-> good], good)
    /\ UNCHANGED <<way, queueVars, result, outbox, storeVars, streamVars, bounds>>

CallSaves(s, st) ==
    /\ st \in saving[s]
    /\ Write(s, st, held[s])
    /\ saving' = [saving EXCEPT ![s] = @ \ {st}]
    /\ UNCHANGED <<pc, wayVars, queueVars, result, outcome, outbox, streamVars, bounds>>

CallReturns(s) ==
    /\ pc[s] = "save" /\ saving[s] = {}
    /\ End(s, "ok")
    /\ UNCHANGED <<wayVars, queueVars, outcome, saving, storeVars, streamVars, bounds>>

CallStep(s) ==
    \/ CacheMiss(s) /\ UNCHANGED wayVars
    \/ CallHit(s) \/ CallReturns(s)
    \/ \E good \in SUBSET Check : CallChecks(s, good)
    \/ \E st \in Store : CallSaves(s, st)

-----------------------------------------------------------------------------
(* What fails in a scan that runs here leaves the generator, or the call.    *)
RaiseOut(s) ==
    /\ CallFails(s)
    /\ IF Running(s) THEN End(s, "raised") ELSE UNCHANGED <<pc, result, outbox>>

LookupRaises(s) ==
    /\ pc[s] = "lookup"
    /\ RaiseOut(s)
    /\ UNCHANGED <<queueVars, outcome, saving, storeVars, streamVars, crashes, expiries>>

(* As SaveFails; nothing more is saved once the coroutine is over, but what  *)
(* was sent.                                                                 *)
SaveRaises(s, st) ==
    /\ st \in saving[s]
    /\ \/ Write(s, st, IF way[s] = "call" THEN held[s] ELSE FreshReport(s))
       \/ UNCHANGED storeVars
    /\ saving' = [saving EXCEPT ![s] = @ \ {st}]
    /\ RaiseOut(s)
    /\ UNCHANGED <<queueVars, outcome, streamVars, crashes, expiries>>

FaultHere(s) == LookupRaises(s) \/ \E st \in Store : SaveRaises(s, st)

-----------------------------------------------------------------------------
(* GET /scan/{scan_id}.                                                      *)

Announced(s) ==
    \E i \in DOMAIN stream[s] :
        stream[s][i].event = "scan_complete" /\ Measured(s, stream[s][i].run)

Reply(g, code) == at' = [at EXCEPT ![g] = code]

(* The request reaches Redis, which has the report, or not.                  *)
GetRedis(g, s) ==
    /\ at[g] = "new"
    /\ asked' = [asked EXCEPT ![g] = s]
    /\ told' = [told EXCEPT ![g] = Announced(s)]
    /\ IF redis[s] # NoReport
       THEN Reply(g, "200") /\ found' = [found EXCEPT ![g] = redis[s]]
       ELSE Reply(g, "mongo") /\ UNCHANGED found
    /\ UNCHANGED <<vars, wayVars>>

(* Mutant: Redis alone is asked.                                             *)
GetMongoNever(g) ==
    /\ at[g] = "mongo"
    /\ Reply(g, "404")
    /\ UNCHANGED <<vars, wayVars, asked, found, told>>

(* Mutant: no error when there is none.                                      *)
GetMongoNull(g) ==
    /\ at[g] = "mongo"
    /\ Reply(g, "200") /\ found' = [found EXCEPT ![g] = mongo[asked[g]]]
    /\ UNCHANGED <<vars, wayVars, asked, told>>

GetMongo(g) ==
    /\ at[g] = "mongo"
    /\ IF mongo[asked[g]] # NoReport
       THEN Reply(g, "back") /\ found' = [found EXCEPT ![g] = mongo[asked[g]]]
       ELSE Reply(g, "404") /\ UNCHANGED found
    /\ UNCHANGED <<vars, wayVars, asked, told>>

SaveBack(g) ==
    /\ redis' = [redis EXCEPT ![asked[g]] = found[g]]
    /\ UNCHANGED <<pc, queueVars, result, outcome, outbox, saving, mongo, cache,
                   streamVars>>

WriteBack(g) ==
    /\ at[g] = "back"
    /\ SaveBack(g)
    /\ Reply(g, "200")
    /\ UNCHANGED <<bounds, wayVars, asked, found, told>>

(* A store raises: the client gets an error, also when the report was found. *)
GetFails(g, s) ==
    /\ at[g] \in {"new", "mongo", "back"}
    /\ asked' = [asked EXCEPT ![g] = IF at[g] = "new" THEN s ELSE @]
    /\ Reply(g, "500")
    /\ \/ at[g] = "back" /\ SaveBack(g)
       \/ UNCHANGED <<pc, queueVars, result, outcome, outbox, saving, storeVars, streamVars>>
    /\ UNCHANGED <<bounds, wayVars, found, told>>

GetStep(g) ==
    \/ \E s \in Scan : GetRedis(g, s) \/ GetFails(g, s)
    \/ GetMongo(g) \/ WriteBack(g)

-----------------------------------------------------------------------------
(* The API process dies: its requests are cut, and so are the scans it runs. *)
CrashApi ==
    LET here == {s \in Scan : way[s] \in {"stream", "call"} /\ Running(s)} IN
    /\ here # {} \/ \E g \in Request : at[g] \in {"mongo", "back"}
    /\ crashes < MaxCrashes
    /\ crashes' = crashes + 1
    /\ pc' = [s \in Scan |-> IF s \in here THEN "done" ELSE pc[s]]
    /\ outbox' = [s \in Scan |-> IF s \in here THEN NoEvent ELSE outbox[s]]
    /\ saving' = [s \in Scan |-> IF way[s] \in {"stream", "call"} THEN {} ELSE saving[s]]
    /\ at' = [g \in Request |-> IF at[g] \in {"mongo", "back"} THEN "cut" ELSE at[g]]
    /\ UNCHANGED <<queueVars, result, outcome, storeVars, streamVars, faults, expiries,
                   wayVars, asked, found, told>>

ScanStep(s) ==
    \/ way[s] = "queue" /\ QueueStep(s) /\ UNCHANGED wayVars
    \/ way[s] = "stream" /\ StreamStep(s) /\ UNCHANGED wayVars
    \/ way[s] = "call" /\ CallStep(s)
    \/ way[s] \in {"stream", "call"} /\ FaultHere(s) /\ UNCHANGED wayVars

ApiStep ==
    \/ \E s \in Scan : PostScan(s) \/ PostScanStream(s) \/ CallRunScan(s)
    \/ \E s \in Scan : ScanStep(s) /\ UNCHANGED getVars
    \/ ((\E w \in Worker : Crash(w)) \/ Expiry) /\ UNCHANGED <<wayVars, getVars>>
    \/ \E g \in Request : GetStep(g)
    \/ CrashApi

(* The bound of the model on what comes on top of the scans.                 *)
Troubles ==
    SumFunction(faults) + crashes + Cardinality({s \in Scan : result[s] = "timeout"})
        + expiries + Cardinality({g \in Request : at[g] # "new"})

ApiNext == ApiStep /\ Troubles' <= MaxTroubles

ApiSpec == ApiInit /\ [][ApiNext]_apiVars

-----------------------------------------------------------------------------
(* Properties.                                                              *)

(* What the checks gave when origin ran: told to its readers (ScanJobs), or, by *)
(* run_scan, to nobody.                                                      *)
Ran(origin, checks) ==
    IF way[origin] = "call"
    THEN /\ Reported(origin) = Check
         /\ checks = {c \in Check : outcome[origin][c] = "ok"}
    ELSE IsWholeRun([scan_id |-> origin, origin |-> origin, checks |-> checks])

ReadersOf(s) == {g \in Request : asked[g] = s}
KnownOf(s) == (ReportsOf(s) \cup {held[s]} \cup {found[g] : g \in ReadersOf(s)}) \ {NoReport}

(* What was measured, told apart by scan and outcome whatever id it goes by. *)
Measures ==
    {Measure(r) : r \in (UNION {KnownOf(s) : s \in Scan}) \cup Cached}

(* Whatever ran the scan, and whatever was cut, retried, cached or written   *)
(* back: a report that is stored, cached, sent or served under a scan_id is  *)
(* one whole run of the checks, on the host of that scan.                    *)
EveryReportIsARun ==
    /\ \A s \in Scan : \A r \in KnownOf(s) : DomainOf[r.origin] = DomainOf[s]
    /\ \A d \in Domain : cache[d] # NoReport => DomainOf[cache[d].origin] = d
    /\ \A m \in Measures : Ran(m[1], m[2])

(* A client that was told scan_complete of a measured report, by a job or by *)
(* a streamed response, and then asks for it is not told that there is none, *)
(* though Redis may have lost it, the job may run again or the process that  *)
(* saved it may have died (get_report's two reads).                          *)
AnnouncedIsServed == \A g \in Request : told[g] => at[g] # "404"

Settled(s) ==
    /\ pc[s] = "done" /\ result[s] = "ok"
    /\ way[s] = "call" \/ Measured(s, tries[s])
    /\ ~(\E i \in DOMAIN stream[s] : stream[s][i] = ScanError(s))

(* Once a scan that measured is over, no save of it is in flight, and Redis  *)
(* holds what MongoDB holds, or nothing.  The one exception is a scan that   *)
(* was attempted again while a request was between its read of MongoDB and   *)
(* its write-back: what Redis then holds is what that request served.        *)
StoresAgreeOverReads ==
    \A s \in Scan : Settled(s) =>
        /\ saving[s] = {}
        /\ \/ redis[s] \in {NoReport, mongo[s]}
           \/ tries[s] > 1 /\ \E g \in ReadersOf(s) : at[g] \in {"200", "500"} /\ redis[s] = found[g]

(* run_scan returns an object that it builds apart from the report it saves: *)
(* on a hit, one without results.  Yet the caller can fetch a report under   *)
(* the scan_id it called with, and finds there the score it was given and    *)
(* the results it was given, or, of a scan of the cache, all of those it was *)
(* not.                                                                      *)
CallIsRetrievable ==
    \A s \in Scan : way[s] = "call" /\ result[s] = "ok" =>
        /\ mongo[s] # NoReport /\ mongo[s].scan_id = built[s].scan_id
        /\ Measure(mongo[s]) = built[s].score
        /\ \/ built[s].checks = mongo[s].checks
           \/ mongo[s].origin # s /\ built[s].checks = {}

=============================================================================
