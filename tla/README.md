# A TLA+ model of scanner-vulnerabilite

The repository is a web service that scans a site (HTTP headers, TLS, DNS, WAF,
rate limiting) and gives it a score and a grade. This directory models it in
TLA+, checks the models with TLC and proves theorems about most of them with
TLAPS. `PROJECT.json` maps each definition to the lines it stands for, and lists
the runs, the mutants of the code each property catches, the findings, the
hazards and the theorems. Source paths below are relative to
`src/src/scanner/`.

## The system

| part | state | operations | talks to |
| --- | --- | --- | --- |
| guard of the scan endpoints (`api/security.py`) | deque of hits per client, in the memory of the API | `ScanRateLimiter.check`, `ensure_public_target` | the resolver (awaited) |
| `POST /scan/` (`api/routers/scan.py`) | none | draws an id, enqueues `run_scan_job` | ARQ's queue in Redis |
| worker (`worker.py`, `services/scan_jobs.py`) | coroutines of at most 5 jobs | runs the job, publishes each event, `scan_error` on an exception | queue, service, stream |
| scan service (`services/scan_service.py`) | report of the attempt | cache lookup, checks as they complete, three saves at once | checks, stores |
| stores (`repositories/redis.py`, `mongo.py`) | `report:{scan_id}` (24 h), `cache:{domain}` (1 h), collection `reports` | get, save, set | - |
| event stream (`repositories/redis_stream.py`) | `scan:{scan_id}:events` (1 h) | `publish` (XADD, then EXPIRE), `read` (XREAD) | - |
| `GET /scan/{id}/events` (`api/routers/stream.py`) | `last_id`, deadline of each response | reads batches, yields SSE events | stream, clients |
| `GET /scan/{id}` (`api/routers/scan.py`) | none | Redis, else MongoDB and write-back | stores |
| `POST /scan/stream` (`api/routers/stream.py`) | the scan, in the response | the service's generator as SSE | service |
| checks (`checks/*.py`) | none between scans | `run(url)` | the target, the DNS |
| scoring (`core/entities`) | report | `compute_overall`, `compute_grade` | - |

What is hard here: several workers and several jobs per worker; a job that is
retried from the start in the same stream when its worker dies; `job_timeout`,
which cancels with an exception the handler does not catch and leaves the saves it
sent to land later or never; every call to a
store that may fail before or after the server applied it; a `gather` that
raises while its other saves go on; a cache that the scans of a host share;
readers that lose their connection with what is in flight; keys that expire;
a read in two steps with a write-back, beside the retry of what it reads; a scan
that runs in a response and is cut where the client leaves it; an admission that
is decided before an await that may be long; checks that disturb one another at
the target. `PROJECT.json` lists each at its line under "hazards".

What makes each part correct:

- job: an attempt reports each check once with the right progress, answers
  with one terminal event after the report is stored, and never goes silent for
  a single failure; every job leaves the queue;
- stores and cache: what a client reads is one whole run of the checks on that
  host, under its own scan id;
- stream: a reader gets the events in order, each once, over reconnections,
  and is told the end;
- requests: nobody who was told of a report gets a 404 for it, whatever expired
  or died in between, and what is served is one whole run, however the scan ran;
- guard: no window holds more admissions of a client than the limit, what is
  accepted keeps that rate over the life of the process, however long names take
  to resolve, and nobody is refused without cause;
- checks and scoring: the score, the details and the facts agree, whatever
  fails and however the checks interleave.

## Modules

| module | models | checked by |
| --- | --- | --- |
| `RunProtocol` | abstract: what the events of a scan promise, per attempt | `ScanJobs` implements it (`KeepsProtocol`) |
| `ScanJobs` | queue, workers, `run_scan_job`, `run_scan_stream`, stores, TTLs | `MCScanJobs` |
| `ScanJobsProofs` | theorems about `ScanJobs`: types, answers, what is read | tlapm |
| `ScanSavesProofs` | what is stored, lengths of streams, the refinement; rests on the one before | tlapm |
| `ScanApi` | `POST /scan/stream`, `run_scan`, `GET /scan/{id}` beside `ScanJobs` over the same stores | `MCScanApi` |
| `ScanApiProofs` | theorems about `ScanApi`: types, what is told is served | tlapm |
| `ScanApiReportsProofs` | what the stores hold when scans run in all three ways, and what `run_scan` returns; rests on the proofs of `ScanJobs` | tlapm |
| `EventReader` | `scan_events`, `_stream_events`, XREAD, network, reconnections | `MCEventReader` |
| `EventReaderProofs` | theorems about `EventReader` | tlapm |
| `ScanSystem` | `ScanJobs` and `EventReader` over one stream | `MCScanSystem` |
| `ScanSystemProofs` | theorems about `ScanSystem`, from those about its two sides | tlapm |
| `ScanGuard` | limiter, resolution of any length, restarts of the API | `MCScanGuard` |
| `ScanGuardProofs` | theorems about `ScanGuard` | tlapm |
| `Scoring` | `compute_overall`, `compute_grade` | `MCChecks` |
| `DnsCheck`, `SslCheck` | the two checks that run in a thread | `MCChecks` |
| `TargetProbes` | the three HTTP checks at one target | `MCChecks` |
| `Checks` | the four modules above, one at a time | `MCChecks` |
| `ChecksProofs` | theorems about them, stated of `Checks` | tlapm |

Operators whose comment starts with "Mutant:" are not used by any
specification: each is a plausible slip in the definition that follows it, and
is there to show that a property notices.

### ScanJobs

One step is what happens between two awaits that leave the process. `pc[s]`
is where the scan's job is: `queued`, `lookup` (`get_scan`), `collect` (waiting
in `as_completed`), `xadd` and `expire` (the two calls of `publish`), `save`
(the `gather`), `return` (the coroutine ended, ARQ has not finished the job),
`done`. `outbox` is the event being published; it also tells whether the
exception handler is running, since only the handler publishes `scan_error`.
`saving` holds the saves in flight: a save that fails makes `gather` raise at
once (`SaveFails` -> `Raise`), the others stay in `saving` and may land at any
later time (`SaveLands`), even after the job is done. A failing call may have
been applied (`XaddFails`, `ExpireFails`, `SaveFails`). `JobTimeout` ends the
coroutine with nothing published; if a `gather` is being awaited it is cancelled, but
a save that was sent may land at any later time (Motor's thread finishes what
it began), or never. `faults` counts the failing calls of each scan, for what one
job does about a failure must not depend on those of another. `Crash(w)` puts the jobs of a worker back in
the queue; a new attempt starts from the start (`StartJob` resets `outcome`).

`stream` keeps every event ever added, `trimmed` says how many went with an
expired key. A report is its id, the scan that measured it and the checks that
succeeded; the score is a function of these (`Scoring`).

Taken from outside `src/` (external): ARQ's job protocol. A job is
removed from the queue only after its coroutine ended; a job whose worker died
or was stopped is run again; an attempt beyond `max_tries` fails without being
run; a job that raises or times out is not retried. The Redis client is one
connection per call in effect, so three concurrent saves land in any order.

### ScanApi

`ScanApi` EXTENDS `ScanJobs` and adds the API process. A scan is started in one of
the ways that `WaysOf` allows it: `queue` is a job, all of whose steps are those
of `ScanJobs`; `stream` is `run_scan_stream` iterated by the response of
`POST /scan/stream`; `call` is `run_scan`, which only the tests call today. The
second reuses the actions of the generator, but there is no handler, no
retry and no timeout around it: `Send` replaces the publishing, an exception
ends it (`RaiseOut`), and so does the client (`Disconnect`), which cancels the
generator where it waits (its saves as under `JobTimeout`).
`stream[s]` is then what the response was sent. `run_scan` saves also what it
found in the cache (`CallHit`). What it saves and what it returns are two values:
`held` is `report_dict`, `built` the `ScanReport` object. After a run of the checks both
hold the same; on a hit `_normalize_cached_report` builds the object from the score and
the grade alone, so it lists no checks, though the docstring of `run_scan` says that it
"retourne le rapport". `CallIsRetrievable` relates `built` to what MongoDB holds,
with that exception.

A request of `GET /scan/{id}` is three steps, `GetRedis`, `GetMongo` and `WriteBack`,
between which everything else may happen; each may fail (500), the write-back
with or without having been applied. `told` records whether the scan had
announced its report when the request reached Redis. `CrashApi` cuts the requests
and the scans of the API process; unlike a job's, nothing brings them back.

### EventReader

A connection of a reader is a generator: `cursor` is `last_id`, `batch` what it
read and has not yielded, `wire` what was yielded and not received. `Drop` loses
`wire` and `batch`; `Connect` starts over from the last id *received*, which is
what Last-Event-ID carries. An event's id is its position; XREAD's ids are
time-based, so they go on increasing when an expired key is created again (a
clock set back by Redis's host is not modelled). A keepalive is a `Read` that
returns nothing. The deadline is looked at only before a read, and never ends
a response before its first.

### ScanSystem

`EventReader` is instantiated with `log <- stream[Followed]` and
`gone <- trimmed[Followed]`, so the readers see what the job publishes,
retries and expiries included. Each step is a step of one side. The bound of its log
is what `StreamStaysShort` says a stream comes to.

### ScanGuard

`Arrive` is `ScanRateLimiter.check`, atomic because nothing is awaited in it;
`Resolve` is the rest of the guard, later, in any order of the requests; the code
sets no bound on the resolver, and neither does the model. It ends in one of four
ways: the router goes on, 400, 422, or 500 when the resolver raises something else
than `gaierror`. The hit is counted before and never given back. The README's "10
scans par minute" holds of the admissions (`SlidingWindow`), and not of the instants at
which requests are accepted, which bunch up behind a slow resolver, let alone of
those at which a job gets a slot of the worker. What is left of it is
`AcceptedKeepTheRate`: of a client no more is ever accepted than `MaxScans` for each
window since the start, and `MaxScans` more for each restart.
`admitted` is a history, and restarts with the deques, since `SlidingWindow` promises
nothing across a restart.
`Fresh` is the `popleft` loop: the suffix that starts with the first hit that
is not older than the window. `Restart` forgets the deques, and the requests in flight.

### Checks and scoring

`DnsCheck` draws a zone and goes through the five tests, each query answered or
failed; `SslCheck` goes through what SSLyze may have found, `accepted` saying how
many suites of each kind a protocol takes; `TargetProbes` interleaves the requests
of `HeadersCheck`, `WafCheck` and `RateLimitCheck` at a target. The target is external
and drawn at the start: how many security headers it sets, whether it answers 403 to
all, whether it filters the probe, whether a limiter answers 429 or 503 beyond a
quota per window and announces it, and how many requests it serves at once; with
more it may answer 503. `RateLimitCheck` takes 429 and 503 alike for a limiter
(`THROTTLE_STATUSES`), although the comment on its result, "La cible a répondu 429/503 :
un rate-limiter est actif", is not so of an overload; `WafCheck` does not count 503 among
`BLOCK_STATUSES`. `VerdictsAreTheTargets` therefore speaks of targets with room for the
requests of one scan, and says that the semaphore, and the number of requests the other
checks have at a time, are what keeps a scan from taking its own load for a limiter.
The signatures of WAFs, the score `WafCheck` gives them, the keywords of weak suites and
all texts are data and left out. `Checks` puts the four side by side and lets one of
them run, chosen at the start: they share no state, so nothing is lost, and one
run checks them all.

## Runs

| run | question | instance |
| --- | --- | --- |
| `jobs_one` | does one scan keep its protocol, its reports whole and its stream short, whatever fails? | 1 scan, 2 checks, 2 attempts, 2 failing calls, 2 crashes, 1 expiry, a timeout |
| `api` | what do the stores hold, and what is served, when scans run in all three ways? | 2 scans of a host, one a job, one in the API process, 1 check, a request, 2 attempts, 2 of: failing call, death, timeout, expiry, request |
| `jobs_hosts` | does every job get its turn and end? do hosts mix? | 3 scans of 2 hosts, 1 slot, fair |
| `reader` | what does a reader receive, and does all reach it? | 4 events, batches of 2, 2 losses, 1 expiry, fair |
| `system` | does the page end on what it showed, and does it end? | 2 checks, 2 attempts, 1 crash, fair |
| `guard` | is the window exact, and what is left of it behind the resolver? | 2 clients, 5 requests, limit 2, window 2, clock to 3, 1 restart |
| `checks` | do score, details and facts agree? | the 5 checks of a report, zones of 2 servers, 4 kinds of suites, a burst of 4 two at a time, all kinds of targets |

Five more runs refute what a comment or a document says:

- `jobs_always_answered`: "Le client doit toujours recevoir un événement
  terminal" (`services/scan_jobs.py:31`). A timeout cancels past `except Exception`.
- `jobs_nothing_after_terminal`: terminal events are those "après lesquels il
  n'y a plus rien à lire" (`core/interfaces/event_stream.py:14`). A worker may die
  between `scan_complete` and the end of the job; the scan then runs again (no
  call fails in this run).
- `jobs_retrievable`: the report is to be fetched with `GET /scan/{scan_id}`
  (`api/routers/scan.py:42-44`). A scan answered from the cache is stored nowhere.
- `dns_dmarc`: the policy is at `_dmarc.` (`src/scanner/docs/dns/spf-dkim-dmarc.md:60`).
  It is never queried there.
- `probes_filter`: a probe that is rejected means filtering
  (`checks/waf_check.py:8-10`). The normal request, the burst of `RateLimitCheck` and
  `HeadersCheck` use up a limit of 3, and the probe gets the limiter's 429.

### Bounds, and why they are enough

Attempts (2), crashes (2) and failures (2) allow a crash in either attempt and a
failure inside the handler of a failure, the deepest nesting the code has. Two
checks give both orders of completion and a mix of results; in `jobs_hosts` two
scans of one host and one of another compete for the cache and for the slot. In
`api` a job and a scan of the API process share the host's cache; `MaxTroubles`
(2) bounds failing calls, deaths, timeouts, expiries and requests together (3 is beyond the time
one run may take): what a request
meets is then a failure, a death or an expiry at any of its steps and of the
scans', which is what its properties speak of. A retry beside a write-back is a
death and a request; a death, an expiry and a request at once are left to the theorems. One check is enough there, for `jobs_one` looks at several.
Readers do not interact, so one is enough; its reconnections in `system` come from
the deadline, lost connections are in `reader`. Expiry of 1 reaches
each of the three kinds of keys. In `guard` five requests fill the window of one client twice,
before and after it slid or the process restarted, and leave one over; the clock goes
one unit beyond the window. In `EventReader` batches of 2 and 4 events give
a terminal event followed by another one inside a batch, and between batches.
Of `Quotas` one is below `Burst` and one is just enough for a scan (`Burst` + 3), of
`Capacities` one is below what a scan has at the target at once and one just enough
(`Concurrency` + 2), of `Secured` one is all the headers: each side of `Roomy` and
of each verdict is met. `MaxCrashes`, `MaxFaults`, `MaxExpiries`, `MaxTroubles`, `MaxLog`, `MaxDrops`,
`MaxTime`, `MaxRestarts`, `MaxServers`, `MaxSuites`, `MaxDeployments`,
`MaxWindows`, `MaxErrors` are bounds of the models; `MaxJobs`, `MaxTries`,
`BatchSize`, `MaxScans`, `Window`, `Burst`, `Concurrency` are parameters of the
program, `Secured`, `Quotas` and `Capacities` of what it talks to. `CHECK_DEADLOCK FALSE` stands where a finite set of scans, requests or
tests is used up.

### Fairness

`ScanJobs`: a free slot takes a queued job (ARQ polls); what the coroutine of a live
process does once a call returned happens (`Running(s) /\ JobStep(s)`: a save that
nobody awaits any more may land or not); `wait_for` ends an attempt that outlives
`job_timeout`. Nothing is assumed of a check: `NextCheck` has no fairness, for a
target may keep a scan waiting, and `JobsEnd` rests on the timeout alone. Crashes
and failures are bounded, not fair. `EventReader`: a generator whose read or send
is done goes on, a client reconnects; nothing is assumed of the deadline, nor of
a client closing.

## Proofs

Theorems hold for every value of the constants that meets the named assumptions
of the modules: any number of scans, checks, workers, readers and clients, any
limits, and any bound on the failures.

- `ScanJobsProofs`: `TypeCorrect` (`[]TypeOK`) and `ReturnedJobsAreAnswered`
  (`[]ReturnedIsAnswered`). The property alone is not inductive: that a returning
  job's last event is terminal and of its own attempt comes from what was in
  `outbox` at `expire`, and that it stays so needs that nobody but the running
  attempt appends to a stream and that a key does not expire under the attempt
  that wrote to it. The invariant says, for each place, what `outbox` and the last
  event of the stream are.
  Of what is read: `ReportsAreRuns` (`[]ReportsAreWholeRuns`) and
  `ReportsCarryTheirId` (`[]ReportsKeepTheirScan`). `AttemptInv` follows the
  attempt that runs: what it knows of a check (`outcome`) is what it told the
  stream (`Matches`), except for the one event on its way (`OnItsWay`). Once
  its report is closed nothing more is told under its number, so a report that was
  a whole run when it was formed stays one. `KeptInv` says that every report in a
  store, in the outbox or in a stream is then a whole run of the right host, those
  that come from the cache included; the host is `HostsAreNotMixed`
  (`[]ReportsStayOnTheirHost`).
- `ScanSavesProofs`: `SavedBeforeComplete` (`[]CompleteAfterSaved`),
  `StoresAgreeAtTheEnd` (`[]StoresAgree`), `OneFaultIsTold` (`[]SilentOnlyIfLost`).
  `SaveInv` follows a report from the `gather` (what is not in `saving` any more is
  in its store) over the publishing of `scan_complete` to the end of the job. That a
  later attempt may overwrite the report, but only with its own, is the step that
  needs the previous module. `FaultInv` counts, for each scan: the handler runs after one failure of
  that scan, and a job ends raised after two. `StreamsStayShort` (`[]StreamStaysShort`): `publish`
  gives XADD no MAXLEN, so what bounds a stream is the protocol alone. The length is
  not inductive as a sum over attempts; `LengthInv` bounds the attempts before the last
  by their number, and the last one by the checks it reported and one answer of each
  kind it may still give.
  Of the protocol: `ProgressCounts` (`[]ProgressIsExact`) and `JobsKeepProtocol`
  (`KeepsProtocol`, the refinement of `RunProtocol`). No counter is kept anywhere, so `CountInv` equates three numbers: the check events of the
  attempt, the checks they name, and the progress that is on its way. For the
  refinement only three kinds of step show in the protocol (an attempt begins, its
  stream grows, the job is done); all others stutter.
- `ScanApiProofs`: `ApiTyped` (`[]ApiTypeOK`) and `AnnouncedReportsAreServed`
  (`[]AnnouncedIsServed`), of `ApiSpec`. The attempts of `run_scan` are told to nobody, so the invariants of the
  modules above do not carry over; instead each of the steps, of worker and API
  alike, is shown to do to each scan one of seven things (`Move`: it begins, stays,
  collects, starts to save, publishes, adds to the stream, ends), and the invariant
  `RunInv` to be kept by each of the seven. `RunInv` has it that nothing of an
  attempt is in the stream before its lookup is over, that a `scan_complete` of it
  comes after its last check event, and that MongoDB has a report by then unless
  it came from the cache; MongoDB never loses one, which is what a request between
  its two reads relies on (`ReaderInv`).
- `ScanApiReportsProofs`: `ServedReportsAreRuns` (`[]EveryReportIsARun`),
  `ServedReportsCarryTheirId` (`[]ReportsKeepTheirScan`), `ReturnedReportsAreStored`
  (`[]CallIsRetrievable`) and `StoresAgreeAfterReads` (`[]StoresAgreeOverReads`), of `ApiSpec`. The scans that tell their checks to a stream,
  job or response, keep `AttemptInv` (`GuestInv`); `run_scan` tells nobody, and draws its
  report from what all its checks gave at once. `OriginsInv` then has every report, in
  a store, a cache, a coroutine, a stream or a request, be what the checks gave when its
  scan ran. That the stores agree is not inductive: a request may write back what it
  read before a retry saved again. Two arguments meet in `ApiEndInv`. A scan that tells
  saves before it answers, and Redis then has its own save or what a request wrote
  back (`SettleInv`). Of a scan attempted once there is one report only: until it saves,
  none is known anywhere, and what a request carries is that one (`OnceInv`).
- `EventReaderProofs`: `DeliveryIsOrdered` (`[]ReceivedInOrder`), `ReadersTyped`
  (`[]TypeOK`) and `ResponsesEndAtTerminal` (`[]TerminalEndsResponse`). The invariant
  `Flow` chains what was received, what is on the wire and what is in the batch:
  each is the next event after the previous one, expired ones excepted, and
  `cursor` is the last id that was yielded in the connection. For the last theorem
  `EndsInv` adds that batch and wire hold positions of the log, which only grows:
  an event that was not terminal cannot become so. `FromFirst` is what the composition
  uses: while nothing expired, the i-th event received is the i-th of the log.
- `ScanSystemProofs`: `FollowedScansAreScans` (`SystemSpec => Spec`, so every theorem about
  `ScanJobs` holds beside the readers), `WorkersStreamIsDelivered` (the readers'
  `ReceivedInOrder` and `TerminalEndsResponse`, over the stream of a real job) and
  `ReadersHearTheReport` (`[]ReportMatchesWhatWasHeard`). The theorems of the two sides are
  reused, not repeated: `EventReaderProofs` is instantiated over the followed stream, whose
  growth and expiry by the worker are shown to be what its log may do. `SummaryInv` says of
  the worker that a `scan_complete` comes after the events of all its checks and carries
  their report; `FromFirst` that the reader has received exactly what precedes it. The
  only new assumption, `FollowersAssumption`, is that a batch is not empty and losses
  are counted, as in `EventReader`.
- `ScanGuardProofs`: `GuardTyped` (`[]TypeOK`), `WindowIsNeverExceeded`
  (`[]SlidingWindow`) and `NobodyIsRefusedEarly` (`RefusedOnlyWhenFull`). The deque
  says nothing of what was popped; the invariant relates it to the history: it is
  a suffix of `admitted`, all that precedes it is older than the window, times are
  sorted and not in the future. Both properties follow from the suffix being
  exactly the fresh part; that `FirstFresh`'s CHOOSE exists and is least is a
  lemma by well-foundedness of the naturals. `AcceptedKeepRate`
  (`[]AcceptedKeepTheRate`): the requests that are waiting or accepted are no more than
  those admitted in each life of the process (`CountInv`), and of these a sorted,
  spaced sequence has at most `MaxScans` for each window it spans (`Rated`), wherever
  in the windows since time 0 the process was restarted.
- `ChecksProofs`: one invariant per part, for they share no variable.
  `OpenTransferIsFound` (`[]TransferVerdict`): while no query failed, the servers
  still to be tried hold every open one. `DnsScoreIsShown`
  (`[]DnsScoreMatchesDetails`): each test has only some of the results, each with its
  penalty. `LimiterIsFound` (`[]BurstFindsLimiter`): of a burst, no more pass than
  the window has counted nor than its quota (`BurstInv`). `ProbesDoNotInterfere`
  (`[]VerdictsAreTheTargets`): what a check has at the target is bounded by the semaphore and
  by asking in turn (`AskedInv`), a window counts no more than the requests that were
  answered (`CountedInv`), so a roomy target has neither limited a request nor been
  overloaded, and has given its own answer to each (`RoomyInv`). `SslScoreIsShown` (`[]SslScoreMatchesDetails`) and
  `ShownDetailsCost` (`[]DetailsCost`): what was deducted pays for the details so far
  (`Pays`), though the suites are counted first and deducted, capped, later.
  Of the score: `GradeLiesWithin` (`[]GradeWithinChecks`), `ResultsPull`
  (`PulledTowardsNewResult`), and of all, `ChecksTyped` (`[]TypeOK`). The sums of weights are
  related to the checks without a sum over them: the mean always lies between two
  checks that are in the report, and a new one moves it (`MeanMoves`). Python's rounding to
  even is characterised by quotient and rest (`RoundCases`), and shown to stay
  within integers (`RoundWithin`) and to be monotone in the quotient whatever the
  two divisors (`RoundMonotone`).

Only model-checked: liveness (`JobsEnd`, `AllReachReaders`, `ReadersAreTold`), which
is out of the prover's reach. Every invariant and action property of the passing runs
is also a theorem. The bounds of the models (`MaxCrashes` and the like) are constants
in these theorems, not values, so they hold for any.

## Not modelled

- Start and stop of the processes (`api/main.py`, `infrastructure/database.py`,
  `startup` and `shutdown` of the worker): one sequence per process, with which
  nothing interleaves; a start that fails ends the process before it serves. What
  a death or a restart does is modelled where it matters (`Crash`, `CrashApi`,
  `Restart`).
- `exists` and `invalidate` of the Redis repository: no caller.
- Configuration, request schemas, interfaces, exceptions: declarations.
- The development client, container files, documentation.
- Which addresses are public: Python's `ipaddress`.
- Texts, values and tables of the checks (signatures of WAFs and what they add to a
  score, keywords of weak suites), which no property tells apart; the url of a report.

`ScanStatus.ERROR` and `PENDING` are never set on a report that is stored. A check
of SSLyze without result costs nothing in the code; `SslCheck` models that and
judges it no further. On a hit `run_scan` renews the hour of the cache, so a host
that is scanned often by that way would never be measured again; it has no caller
but the tests, and clocks of keys are not modelled.

## Plan

Done, in this order, most important behaviour first: `ScanJobs`, `EventReader`,
`ScanSystem`, `ScanGuard`, the checks, `Scoring`, `ScanApi` with the two other ways of
running a scan and the reading of reports, and the theorems above.

Left: nothing among the safety properties. What can still grow is the map (the
`CheckResult` entity, the repositories' error paths) and, with it, new properties.
