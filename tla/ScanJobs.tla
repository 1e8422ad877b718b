------------------------------ MODULE ScanJobs ------------------------------
(***************************************************************************)
(* A scan from POST /scan/ to its last event: the API puts a job in the     *)
(* ARQ queue, a worker process runs run_scan_job, which iterates            *)
(* ScanService.run_scan_stream and publishes each yielded event in the      *)
(* Redis stream of the scan, and the report is saved in Redis, in MongoDB   *)
(* and in the cache of its domain.                                          *)
(*                                                                          *)
(* One step of the model is what happens between two awaits that leave the  *)
(* process.  Several jobs run at once in several workers; a store call may  *)
(* fail (before or after the server applied it), a worker may die, a job    *)
(* may run into job_timeout, keys expire.                                   *)
(***************************************************************************)
EXTENDS Naturals, FiniteSets, SequencesExt

CONSTANTS
    Scan,        \* scan ids (uuid4, drawn by POST /scan/)
    Domain,      \* host names: the keys of the cache
    DomainOf,    \* urlparse(url).hostname of each scan
    Check,       \* the registered checks (default_checks)
    Worker,      \* worker processes
    MaxJobs,     \* WorkerSettings.max_jobs, per worker
    MaxTries,    \* ARQ's max_tries
    MaxFaults,   \* bound of the model: store calls that fail, per scan
    MaxCrashes,  \* bound of the model: worker deaths
    MaxExpiries, \* bound of the model: keys that reach their TTL
    NoWorker, NoReport, NoCheck, NoEvent

Store == {"redis", "mongo", "cache"}
TerminalEvents == {"scan_complete", "scan_error"}
CheckEvents == {"check_complete", "check_error"}

(***************************************************************************)
(* A report: the scan_id it carries, the scan whose checks measured it      *)
(* (origin, a ghost) and the checks that succeeded; score and grade are     *)
(* functions of the latter (module Scoring).                                *)
(***************************************************************************)
Report == [scan_id : Scan, origin : Scan, checks : SUBSET Check]
MaybeReport == Report \cup {NoReport}

(* An event of a stream; run, a ghost, is the attempt that published it.    *)
Event == [event : CheckEvents \cup TerminalEvents, check : Check \cup {NoCheck},
          progress : Nat, report : MaybeReport, run : Nat]

ASSUME ChecksAssumption == IsFiniteSet(Check) /\ NoCheck \notin Check
ASSUME BoundsAssumption == /\ MaxJobs \in Nat \ {0} /\ MaxTries \in Nat \ {0}
                           /\ MaxFaults \in Nat /\ MaxCrashes \in Nat /\ MaxExpiries \in Nat
ASSUME DomainAssumption == DomainOf \in [Scan -> Domain]
ASSUME NullsAssumption == /\ NoWorker \notin Worker
                          /\ NoReport \notin Report
                          /\ NoEvent \notin Event

VARIABLES
    pc,        \* where each scan is: see Place
    runner,    \* the worker that runs its job
    tries,     \* ARQ's job_try: attempts started
    result,    \* how the last attempt ended
    outcome,   \* what the attempt knows of each check
    outbox,    \* the event the attempt publishes or published last
    saving,    \* saves in flight (may outlive the gather that sent them, and
               \* the job)
    redis,     \* report:{scan_id}
    mongo,     \* collection "reports"
    cache,     \* cache:{domain}
    stream,    \* every event ever added to scan:{scan_id}:events
    trimmed,   \* how many of those went with an expired key
    expiring,  \* whether the key has a TTL
    faults,    \* store calls of each scan that failed
    crashes, expiries

vars == <<pc, runner, tries, result, outcome, outbox, saving, redis, mongo,
          cache, stream, trimmed, expiring, faults, crashes, expiries>>
queueVars == <<runner, tries>>
bounds == <<faults, crashes, expiries>>
storeVars == <<redis, mongo, cache>>
streamVars == <<stream, trimmed, expiring>>

Active == {"lookup", "collect", "save", "xadd", "expire", "return"}
Place == Active \cup {"absent", "queued", "done"}
Running(s) == pc[s] \in Active

Reported(s) == {c \in Check : outcome[s][c] # "pending"}
FreshReport(s) == [scan_id |-> s, origin |-> s,
                   checks  |-> {c \in Check : outcome[s][c] = "ok"}]

CheckEvent(s, c, ok, progress) ==
    [event |-> IF ok THEN "check_complete" ELSE "check_error", check |-> c,
     progress |-> progress, report |-> NoReport, run |-> tries[s]]
ScanComplete(s, report) ==
    [event |-> "scan_complete", check |-> NoCheck, progress |-> 0,
     report |-> report, run |-> tries[s]]
ScanError(s) ==
    [event |-> "scan_error", check |-> NoCheck, progress |-> 0,
     report |-> NoReport, run |-> tries[s]]

TypeOK ==
    /\ pc \in [Scan -> Place]
    /\ runner \in [Scan -> Worker \cup {NoWorker}]
    /\ tries \in [Scan -> 0..MaxTries]
    /\ result \in [Scan -> {"none", "ok", "raised", "timeout", "exhausted"}]
    /\ outcome \in [Scan -> [Check -> {"pending", "ok", "error"}]]
    /\ outbox \in [Scan -> Event \cup {NoEvent}]
    /\ saving \in [Scan -> SUBSET Store]
    /\ redis \in [Scan -> MaybeReport]
    /\ mongo \in [Scan -> MaybeReport]
    /\ cache \in [Domain -> MaybeReport]
    /\ stream \in [Scan -> Seq(Event)]
    /\ trimmed \in [Scan -> Nat]
    /\ expiring \in [Scan -> BOOLEAN]
    /\ faults \in [Scan -> 0..MaxFaults]
    /\ crashes \in 0..MaxCrashes
    /\ expiries \in 0..MaxExpiries

Init ==
    /\ pc = [s \in Scan |-> "absent"]
    /\ runner = [s \in Scan |-> NoWorker]
    /\ tries = [s \in Scan |-> 0]
    /\ result = [s \in Scan |-> "none"]
    /\ outcome = [s \in Scan |-> [c \in Check |-> "pending"]]
    /\ outbox = [s \in Scan |-> NoEvent]
    /\ saving = [s \in Scan |-> {}]
    /\ redis = [s \in Scan |-> NoReport]
    /\ mongo = [s \in Scan |-> NoReport]
    /\ cache = [d \in Domain |-> NoReport]
    /\ stream = [s \in Scan |-> << >>]
    /\ trimmed = [s \in Scan |-> 0]
    /\ expiring = [s \in Scan |-> FALSE]
    /\ faults = [s \in Scan |-> 0]
    /\ crashes = 0 /\ expiries = 0

-----------------------------------------------------------------------------
(* How an attempt goes on: it publishes e, or its coroutine ends.           *)
Publish(s, e) ==
    /\ pc' = [pc EXCEPT ![s] = "xadd"]
    /\ outbox' = [outbox EXCEPT ![s] = e]

Return(s, how) ==
    /\ pc' = [pc EXCEPT ![s] = "return"]
    /\ result' = [result EXCEPT ![s] = how]
    /\ outbox' = [outbox EXCEPT ![s] = NoEvent]

-----------------------------------------------------------------------------
(* The queue: POST /scan/ past its guard, and ARQ's side of the worker.     *)

Enqueue(s) ==
    /\ pc[s] = "absent"
    /\ pc' = [pc EXCEPT ![s] = "queued"]
    /\ UNCHANGED <<queueVars, result, outcome, outbox, saving, storeVars,
                   streamVars, bounds>>

(* Mutant: an attempt resumes what the previous one had collected.          *)
StartJobResuming(w, s) ==
    /\ pc[s] = "queued" /\ tries[s] < MaxTries
    /\ Cardinality({t \in Scan : runner[t] = w}) < MaxJobs
    /\ pc' = [pc EXCEPT ![s] = "lookup"]
    /\ runner' = [runner EXCEPT ![s] = w]
    /\ tries' = [tries EXCEPT ![s] = @ + 1]
    /\ UNCHANGED <<result, outcome, outbox, saving, storeVars, streamVars, bounds>>

(* Mutant: attempts without limit.                                          *)
StartJobAgain(w, s) ==
    /\ pc[s] = "queued"
    /\ Cardinality({t \in Scan : runner[t] = w}) < MaxJobs
    /\ pc' = [pc EXCEPT ![s] = "lookup"]
    /\ runner' = [runner EXCEPT ![s] = w]
    /\ tries' = [tries EXCEPT ![s] = @ + 1]
    /\ outcome' = [outcome EXCEPT ![s] = [c \in Check |-> "pending"]]
    /\ UNCHANGED <<result, outbox, saving, storeVars, streamVars, bounds>>

(* A worker with a free slot takes the job and calls run_scan_job.          *)
StartJob(w, s) ==
    /\ pc[s] = "queued" /\ tries[s] < MaxTries
    /\ Cardinality({t \in Scan : runner[t] = w}) < MaxJobs
    /\ pc' = [pc EXCEPT ![s] = "lookup"]
    /\ runner' = [runner EXCEPT ![s] = w]
    /\ tries' = [tries EXCEPT ![s] = @ + 1]
    /\ outcome' = [outcome EXCEPT ![s] = [c \in Check |-> "pending"]]
    /\ UNCHANGED <<result, outbox, saving, storeVars, streamVars, bounds>>

(* A job that used up its attempts is failed without being run.             *)
Exhausted(s) ==
    /\ pc[s] = "queued" /\ tries[s] = MaxTries
    /\ pc' = [pc EXCEPT ![s] = "done"]
    /\ result' = [result EXCEPT ![s] = "exhausted"]
    /\ UNCHANGED <<queueVars, outcome, outbox, saving, storeVars, streamVars,
                   bounds>>

(* The coroutine ended; only now is the job taken out of the queue.         *)
FinishJob(s) ==
    /\ pc[s] = "return"
    /\ pc' = [pc EXCEPT ![s] = "done"]
    /\ runner' = [runner EXCEPT ![s] = NoWorker]
    /\ UNCHANGED <<tries, result, outcome, outbox, saving, storeVars,
                   streamVars, bounds>>

(* Mutant: only the saves are under a timeout.                              *)
JobTimeoutOfSaves(s) ==
    /\ pc[s] = "save"
    /\ Return(s, "timeout")
    /\ UNCHANGED <<queueVars, outcome, saving, storeVars, streamVars, bounds>>

(* job_timeout: the coroutine is cancelled.  CancelledError is no Exception, *)
(* so nothing is published.  A gather is cancelled with its saves, but that  *)
(* only gives up waiting for them: a save that was sent may land at any      *)
(* later time (Motor's thread finishes what it began), or never.             *)
JobTimeout(s) ==
    /\ Running(s) /\ pc[s] # "return"
    /\ Return(s, "timeout")
    /\ UNCHANGED <<queueVars, outcome, saving, storeVars, streamVars, bounds>>

(* A worker dies, or is stopped: what its coroutines held is gone, its jobs  *)
(* are still in the queue and will be run again from the start.              *)
Crash(w) ==
    LET hit == {s \in Scan : runner[s] = w} IN
    /\ hit # {} /\ crashes < MaxCrashes
    /\ crashes' = crashes + 1
    /\ pc' = [s \in Scan |-> IF s \in hit THEN "queued" ELSE pc[s]]
    /\ runner' = [s \in Scan |-> IF s \in hit THEN NoWorker ELSE runner[s]]
    /\ result' = [s \in Scan |-> IF s \in hit THEN "none" ELSE result[s]]
    /\ saving' = [s \in Scan |-> IF s \in hit THEN {} ELSE saving[s]]
    /\ outbox' = [s \in Scan |-> IF s \in hit THEN NoEvent ELSE outbox[s]]
    /\ UNCHANGED <<tries, outcome, storeVars, streamVars, faults, expiries>>

-----------------------------------------------------------------------------
(* run_scan_job: publishing, and what an exception does.                    *)

(* A call to a store fails.                                                  *)
CallFails(s) == faults[s] < MaxFaults /\ faults' = [faults EXCEPT ![s] = @ + 1]

Handling(s) == outbox[s] # NoEvent /\ outbox[s].event = "scan_error"

(* Mutant: no except clause in run_scan_job.                                *)
RaiseUncaught(s) ==
    /\ CallFails(s)
    /\ Return(s, "raised")

(* Mutant: the handler also handles what it raises itself.                  *)
RaiseAgain(s) ==
    /\ CallFails(s)
    /\ Publish(s, ScanError(s)) /\ UNCHANGED result

(* An exception: caught once, and turned into a scan_error; one raised while *)
(* the handler publishes leaves the job.                                     *)
Raise(s) ==
    /\ CallFails(s)
    /\ \/ ~Handling(s) /\ Publish(s, ScanError(s)) /\ UNCHANGED result
       \/ Handling(s) /\ Return(s, "raised")

Append1(s) ==
    /\ stream' = [stream EXCEPT ![s] = Append(@, outbox[s])]
    /\ UNCHANGED <<trimmed, expiring>>

Xadd(s) ==
    /\ pc[s] = "xadd"
    /\ Append1(s)
    /\ pc' = [pc EXCEPT ![s] = "expire"]
    /\ UNCHANGED <<queueVars, result, outcome, outbox, saving, storeVars,
                   bounds>>

XaddFails(s) ==
    /\ pc[s] = "xadd"
    /\ Append1(s) \/ UNCHANGED streamVars
    /\ Raise(s)
    /\ UNCHANGED <<queueVars, outcome, saving, storeVars, crashes, expiries>>

(* Mutant: the loop stops at the first check that failed.                   *)
AfterPublishFirstError(s) ==
    IF outbox[s].event = "check_complete"
    THEN pc' = [pc EXCEPT ![s] = "collect"] /\ UNCHANGED <<result, outbox>>
    ELSE Return(s, "ok")

(* After a check event the loop asks for the next one; after a terminal one  *)
(* the generator, or the handler, is at its end.                             *)
AfterPublish(s) ==
    IF outbox[s].event \in CheckEvents
    THEN pc' = [pc EXCEPT ![s] = "collect"] /\ UNCHANGED <<result, outbox>>
    ELSE Return(s, "ok")

Expire(s) ==
    /\ pc[s] = "expire"
    /\ expiring' = [expiring EXCEPT ![s] = TRUE]
    /\ AfterPublish(s)
    /\ UNCHANGED <<queueVars, outcome, saving, storeVars, stream, trimmed, bounds>>

ExpireFails(s) ==
    /\ pc[s] = "expire"
    /\ expiring' = [expiring EXCEPT ![s] = TRUE] \/ UNCHANGED expiring
    /\ Raise(s)
    /\ UNCHANGED <<queueVars, outcome, saving, storeVars, stream, trimmed, crashes, expiries>>

-----------------------------------------------------------------------------
(* run_scan_stream.                                                         *)

(* Mutant: the cached report as it is.                                      *)
NormalizeNothing(s, cached) == cached

(* _normalize_cached_report: the cached report under this scan's id.        *)
NormalizeCachedReport(s, cached) == [cached EXCEPT !.scan_id = s]

(* Mutant: the cache is not keyed by the host.                               *)
CacheHitOfAnyHost(s) ==
    \E d \in Domain :
        /\ pc[s] = "lookup" /\ cache[d] # NoReport
        /\ Publish(s, ScanComplete(s, NormalizeCachedReport(s, cache[d])))
        /\ UNCHANGED <<queueVars, result, outcome, saving, storeVars, streamVars,
                       bounds>>

CacheHit(s) ==
    LET cached == cache[DomainOf[s]] IN
    /\ pc[s] = "lookup" /\ cached # NoReport
    /\ Publish(s, ScanComplete(s, NormalizeCachedReport(s, cached)))
    /\ UNCHANGED <<queueVars, result, outcome, saving, storeVars, streamVars,
                   bounds>>

CacheMiss(s) ==
    /\ pc[s] = "lookup" /\ cache[DomainOf[s]] = NoReport
    /\ pc' = [pc EXCEPT ![s] = "collect"]
    /\ UNCHANGED <<queueVars, result, outcome, outbox, saving, storeVars,
                   streamVars, bounds>>

LookupFails(s) ==
    /\ pc[s] = "lookup"
    /\ Raise(s)
    /\ UNCHANGED <<queueVars, outcome, saving, storeVars, streamVars, crashes, expiries>>

(* The next check to complete, in any order, with a result or an exception. *)
NextCheck(s, c, ok) ==
    /\ pc[s] = "collect" /\ outcome[s][c] = "pending"
    /\ outcome' = [outcome EXCEPT ![s][c] = IF ok THEN "ok" ELSE "error"]
    /\ Publish(s, CheckEvent(s, c, ok, Cardinality(Reported(s)) + 1))
    /\ UNCHANGED <<queueVars, result, saving, storeVars, streamVars, bounds>>

(* Mutant: the report is closed at the first result.                        *)
ComputeAndSaveEarly(s) ==
    /\ pc[s] = "collect" /\ Reported(s) # {}
    /\ pc' = [pc EXCEPT ![s] = "save"]
    /\ saving' = [saving EXCEPT ![s] = Store]
    /\ UNCHANGED <<queueVars, result, outcome, outbox, storeVars, streamVars,
                   bounds>>

(* compute_overall, then the three saves are sent at once.                  *)
ComputeAndSave(s) ==
    /\ pc[s] = "collect" /\ Reported(s) = Check
    /\ pc' = [pc EXCEPT ![s] = "save"]
    /\ saving' = [saving EXCEPT ![s] = Store]
    /\ UNCHANGED <<queueVars, result, outcome, outbox, storeVars, streamVars,
                   bounds>>

(* save_report of either store, or set_scan.                                *)
Write(s, st, report) ==
    /\ redis' = IF st = "redis" THEN [redis EXCEPT ![s] = report] ELSE redis
    /\ mongo' = IF st = "mongo" THEN [mongo EXCEPT ![s] = report] ELSE mongo
    /\ cache' = IF st = "cache" THEN [cache EXCEPT ![DomainOf[s]] = report] ELSE cache

(* A save may land after the gather that sent it has failed, even after the *)
(* job is done.                                                              *)
SaveLands(s, st) ==
    /\ st \in saving[s]
    /\ Write(s, st, FreshReport(s))
    /\ saving' = [saving EXCEPT ![s] = @ \ {st}]
    /\ UNCHANGED <<pc, queueVars, result, outcome, outbox, streamVars, bounds>>

(* Mutant: gather(return_exceptions=True) on the saves.                     *)
SaveFailsSilently(s, st) ==
    /\ st \in saving[s]
    /\ Write(s, st, FreshReport(s)) \/ UNCHANGED storeVars
    /\ saving' = [saving EXCEPT ![s] = @ \ {st}]
    /\ CallFails(s)
    /\ UNCHANGED <<pc, result, outbox, queueVars, outcome, streamVars, crashes,
                   expiries>>

(* The first save that fails makes gather raise; the others go on alone.    *)
SaveFails(s, st) ==
    /\ st \in saving[s]
    /\ Write(s, st, FreshReport(s)) \/ UNCHANGED storeVars
    /\ saving' = [saving EXCEPT ![s] = @ \ {st}]
    /\ \/ pc[s] = "save" /\ Raise(s)
       \/ /\ pc[s] # "save" /\ CallFails(s)
          /\ UNCHANGED <<pc, result, outbox>>
    /\ UNCHANGED <<queueVars, outcome, streamVars, crashes, expiries>>

(* Mutant: scan_complete is published while the saves are in flight.        *)
GatherNotAwaited(s) ==
    /\ pc[s] = "save"
    /\ Publish(s, ScanComplete(s, FreshReport(s)))
    /\ UNCHANGED <<queueVars, result, outcome, saving, storeVars, streamVars,
                   bounds>>

GatherDone(s) ==
    /\ pc[s] = "save" /\ saving[s] = {}
    /\ Publish(s, ScanComplete(s, FreshReport(s)))
    /\ UNCHANGED <<queueVars, result, outcome, saving, storeVars, streamVars,
                   bounds>>

-----------------------------------------------------------------------------
(* Keys that reach their TTL.                                               *)
Elapse == expiries < MaxExpiries /\ expiries' = expiries + 1

ExpireReport(s) ==
    /\ Elapse /\ redis[s] # NoReport
    /\ redis' = [redis EXCEPT ![s] = NoReport]
    /\ UNCHANGED <<pc, queueVars, result, outcome, outbox, saving, mongo,
                   cache, streamVars, faults, crashes>>

ExpireCache(d) ==
    /\ Elapse /\ cache[d] # NoReport
    /\ cache' = [cache EXCEPT ![d] = NoReport]
    /\ UNCHANGED <<pc, queueVars, result, outcome, outbox, saving, redis,
                   mongo, streamVars, faults, crashes>>

(* The TTL of a stream (1 h) is renewed by each event and outlasts a run     *)
(* (5 min): no key goes while the attempt that wrote its last event runs.    *)
ExpireStream(s) ==
    /\ Elapse /\ expiring[s] /\ trimmed[s] < Len(stream[s])
    /\ Running(s) => Last(stream[s]).run # tries[s]
    /\ trimmed' = [trimmed EXCEPT ![s] = Len(stream[s])]
    /\ expiring' = [expiring EXCEPT ![s] = FALSE]
    /\ UNCHANGED <<pc, queueVars, result, outcome, outbox, saving, storeVars,
                   stream, faults, crashes>>

-----------------------------------------------------------------------------
(* A worker's own steps: what the process does once its awaits return.      *)
JobStep(s) ==
    \/ CacheHit(s) \/ CacheMiss(s) \/ ComputeAndSave(s) \/ GatherDone(s)
    \/ \E st \in Store : SaveLands(s, st)
    \/ Xadd(s) \/ Expire(s) \/ FinishJob(s)

Fault(s) ==
    \/ LookupFails(s) \/ XaddFails(s) \/ ExpireFails(s)
    \/ \E st \in Store : SaveFails(s, st)

(* All that the queue and the worker do with a scan.                         *)
QueueStep(s) ==
    \/ Exhausted(s) \/ JobTimeout(s) \/ JobStep(s) \/ Fault(s)
    \/ \E w \in Worker : StartJob(w, s)
    \/ \E c \in Check, ok \in BOOLEAN : NextCheck(s, c, ok)

Expiry ==
    \/ \E s \in Scan : ExpireReport(s) \/ ExpireStream(s)
    \/ \E d \in Domain : ExpireCache(d)

Next ==
    \/ \E s \in Scan : Enqueue(s) \/ QueueStep(s)
    \/ \E w \in Worker : Crash(w)
    \/ Expiry

Spec == Init /\ [][Next]_vars

-----------------------------------------------------------------------------
(* Scheduling.  ARQ polls the queue and takes a queued job whenever a slot   *)
(* is free; a process that is not dead executes the code after an await; and *)
(* wait_for ends an attempt that outlives job_timeout.  Nothing is assumed   *)
(* of a check, which its target may keep waiting for ever, nor of a save     *)
(* that nobody awaits any more.                                              *)
Fairness ==
    \A s \in Scan :
        /\ WF_vars(\E w \in Worker : StartJob(w, s))
        /\ WF_vars(Exhausted(s))
        /\ WF_vars(Running(s) /\ JobStep(s))
        /\ WF_vars(JobTimeout(s))

FairSpec == Spec /\ Fairness

-----------------------------------------------------------------------------
(* Properties.                                                              *)

CheckPositions(s, n) ==
    {i \in DOMAIN stream[s] : stream[s][i].run = n /\ stream[s][i].event \in CheckEvents}
ChecksAt(s, positions) == {stream[s][i].check : i \in positions}

(* The "completed/total" of a check event is what its reader counts: the     *)
(* k-th check event of an attempt says k and no check is reported twice,     *)
(* whatever earlier attempts left in the same stream (scan_service.py, loop  *)
(* over as_completed).                                                       *)
ProgressIsExact ==
    \A s \in Scan : \A i \in DOMAIN stream[s] :
        stream[s][i].event \in CheckEvents =>
            LET upTo == {j \in CheckPositions(s, stream[s][i].run) : j <= i}
            IN  /\ stream[s][i].progress = Cardinality(upTo)
                /\ Cardinality(ChecksAt(s, upTo)) = Cardinality(upTo)

(* Report r is what attempt n of its origin measured and told its stream:    *)
(* each check once, as complete exactly if it is in r.                       *)
Told(s, n, c, event) ==
    \E i \in DOMAIN stream[s] :
        stream[s][i].run = n /\ stream[s][i].check = c /\ stream[s][i].event = event
IsRun(r, n) ==
    \A c \in Check : /\ Told(r.origin, n, c, "check_complete") <=> c \in r.checks
                     /\ Told(r.origin, n, c, "check_error") <=> c \notin r.checks
IsWholeRun(r) == \E n \in 1..MaxTries : IsRun(r, n)

ReportsSent(s) == {stream[s][i].report : i \in DOMAIN stream[s]} \ {NoReport}
ReportsOf(s) == ReportsSent(s) \cup ({redis[s], mongo[s]} \ {NoReport})

Cached == {cache[d] : d \in Domain} \ {NoReport}

(* Whatever way a report took (fresh, cached by another scan, saved by an    *)
(* attempt that died, by a save that outlived its gather or its job), what a *)
(* client can read is the exact result of one attempt that ran all the       *)
(* checks; never a mix of attempts or a partial run.                         *)
ReportsAreWholeRuns ==
    \A r \in (UNION {ReportsOf(s) : s \in Scan}) \cup Cached : IsWholeRun(r)

(* A report that is read under a scan id was measured on the host of that    *)
(* scan, also when it came from the cache, and the cache of a host holds     *)
(* nothing else (cache:{domain}).                                            *)
ReportsStayOnTheirHost ==
    /\ \A s \in Scan : \A r \in ReportsOf(s) : DomainOf[r.origin] = DomainOf[s]
    /\ \A d \in Domain : cache[d] # NoReport => DomainOf[cache[d].origin] = d

(* A report read under a scan id carries that id, also when its content was  *)
(* measured for another scan (_normalize_cached_report).                     *)
ReportsKeepTheirScan ==
    \A s \in Scan : \A r \in ReportsOf(s) : r.scan_id = s

Measured(s, n) == CheckPositions(s, n) # {}

(* An attempt that ran the checks announces scan_complete only once MongoDB  *)
(* has its report, or that of a later attempt: the reader of the event finds *)
(* it, whatever fails or dies later (run_scan_stream saves before its last   *)
(* yield).                                                                   *)
CompleteAfterSaved ==
    \A s \in Scan : \A i \in DOMAIN stream[s] :
        stream[s][i].event = "scan_complete" /\ Measured(s, stream[s][i].run) =>
            /\ mongo[s] # NoReport
            /\ \E n \in stream[s][i].run..MaxTries : IsRun(mongo[s], n)

(* After an attempt that measured and returned, Redis does not contradict    *)
(* MongoDB and no save is left in flight to change either (get_report reads  *)
(* the one, then the other).                                                 *)
StoresAgree ==
    \A s \in Scan :
        pc[s] = "done" /\ result[s] = "ok" /\ Measured(s, tries[s])
            /\ ~(\E i \in DOMAIN stream[s] : stream[s][i] = ScanError(s)) =>
            redis[s] \in {NoReport, mongo[s]} /\ saving[s] = {}

(* run_scan_job that returns has published a terminal event of its own       *)
(* attempt, as the last of the stream, under a key that will expire or has   *)
(* expired.                                                                  *)
ReturnedIsAnswered ==
    \A s \in Scan :
        pc[s] \in {"return", "done"} /\ result[s] = "ok" =>
            /\ stream[s] # << >>
            /\ Last(stream[s]).run = tries[s]
            /\ Last(stream[s]).event \in TerminalEvents
            /\ expiring[s] \/ trimmed[s] = Len(stream[s])

(* XADD has no MAXLEN, and every attempt writes on in the stream of the one  *)
(* before: it stays short because an attempt tells of a check once, answers  *)
(* once and handles one exception (redis_stream.py, run_scan_job).           *)
StreamStaysShort ==
    \A s \in Scan : Len(stream[s]) <= tries[s] * (Cardinality(Check) + 2)

Answered(s) == \E i \in DOMAIN stream[s] : stream[s][i].event \in TerminalEvents

(* One failing store call never silences a scan: a job leaves the queue      *)
(* without any terminal event only if it timed out, used up its attempts, or *)
(* if at least two calls of its own failed, whatever happens to other jobs   *)
(* (run_scan_job's handler).                                                 *)
SilentOnlyIfLost ==
    \A s \in Scan :
        pc[s] = "done" /\ ~Answered(s) =>
            result[s] \in {"timeout", "exhausted"} \/ faults[s] >= 2

(* Every accepted job leaves the queue, even if a check hangs for ever.      *)
JobsEnd == \A s \in Scan : pc[s] = "queued" ~> pc[s] = "done"

(* Attempt n of s published such an event.                                  *)
Said(s, n, event) ==
    \E i \in DOMAIN stream[s] : stream[s][i].run = n /\ stream[s][i].event = event

(* What the stream says of the last attempt, and whether one may follow.     *)
checksReported == [s \in Scan |-> Cardinality(CheckPositions(s, tries[s]))]
answerGiven ==
    [s \in Scan |-> IF Said(s, tries[s], "scan_error") THEN "error"
                    ELSE IF Said(s, tries[s], "scan_complete") THEN "complete" ELSE "none"]
jobEnded == [s \in Scan |-> pc[s] = "done"]

(* Every attempt keeps the protocol of module RunProtocol.                   *)
Protocol == INSTANCE RunProtocol WITH
    Total <- Cardinality(Check), attempt <- tries,
    reported <- checksReported, answer <- answerGiven, closed <- jobEnded

KeepsProtocol == Protocol!Spec

(* The comment of run_scan_job's handler: "Le client doit toujours recevoir  *)
(* un evenement terminal" (scan_jobs.py:31).                                 *)
AlwaysAnswered == \A s \in Scan : pc[s] = "done" => Answered(s)

(* The interface: the terminal events are "Evenements apres lesquels il n'y  *)
(* a plus rien a lire" (event_stream.py:14).                                 *)
NothingAfterTerminal ==
    \A s \in Scan : \A i \in DOMAIN stream[s] :
        stream[s][i].event \in TerminalEvents => i = Len(stream[s])

(* POST /scan/ promises the final report under GET /scan/{scan_id}           *)
(* (scan.py:43, scan_jobs.py:6): a scan whose client was told scan_complete  *)
(* is in MongoDB.                                                            *)
CompleteIsRetrievable ==
    \A s \in Scan :
        pc[s] = "done" /\ result[s] = "ok" /\ Last(stream[s]).event = "scan_complete" =>
            mongo[s] # NoReport

=============================================================================
