------------------------ MODULE ScanApiReportsProofs ------------------------
(***************************************************************************)
(* Theorems about the reports of ScanApi, for every set of scans and        *)
(* requests, every way of running each scan and every bound: each report    *)
(* that is stored, cached, sent or served under a scan_id is one whole run  *)
(* of the checks on its host, and carries that id; what run_scan returns    *)
(* agrees with it; and once a scan is over Redis does not contradict        *)
(* MongoDB, the write-back of a read aside.                                 *)
(*                                                                         *)
(* A scan of the queue and one streamed by the API tell their checks to a   *)
(* stream, and are followed with the invariant of an attempt (AttemptInv of *)
(* ScanJobsProofs); a call of run_scan tells nobody, and draws its report   *)
(* from what all its checks gave at once.                                   *)
(***************************************************************************)
EXTENDS ScanApiProofs, ScanSavesProofs

-----------------------------------------------------------------------------
(* What a scan knows of its checks, whatever runs it.                        *)

Idle(s) == \A c \in Check : outcome[s][c] = "pending"

GuestInv(s) ==
    /\ pc[s] = "absent" <=> way[s] = "none"
    /\ pc[s] = "absent" => Idle(s)
    /\ IF way[s] = "call"
       THEN ~Publishing(s) /\ (pc[s] \in {"lookup", "collect"} => Idle(s))
       ELSE AttemptInv(s)

GuestsInv == \A s \in Scan : GuestInv(s)

LEMMA GuestFrame ==
    ASSUME NEW t \in Scan, GuestInv(t), way'[t] = way[t],
           pc'[t] = pc[t], tries'[t] = tries[t], outcome'[t] = outcome[t],
           outbox'[t] = outbox[t], saving'[t] = saving[t], stream'[t] = stream[t]
    PROVE  GuestInv(t)'
BY AttemptFrame DEF GuestInv, Idle, Publishing

(* A step of s that keeps to its own scan, in what an attempt is made of.    *)
LEMMA OneGuest ==
    ASSUME GuestsInv, NEW s \in Scan, OnlyOf(s), GuestInv(s)',
           \A t \in Scan \ {s} : way'[t] = way[t]
    PROVE  GuestsInv'
<1>1. ASSUME NEW t \in Scan
      PROVE  GuestInv(t)'
  <2>1. CASE t = s
    BY <2>1
  <2>2. CASE t # s
    BY <2>2, GuestFrame DEF GuestsInv, OnlyOf
  <2> QED
    BY <2>1, <2>2
<1> QED
  BY <1>1 DEF GuestsInv

LEMMA OwnEventHere ==
    ASSUME NEW s \in Scan, RunInv(s)
    PROVE  OwnEvent(s)
BY DEF RunInv, OwnEvent, Publishing

(* The queue and the worker touch no scan that was not posted.               *)
LEMMA QueuePlace ==
    ASSUME TypeInv, NEW s \in Scan, pc[s] = "absent" => saving[s] = {}, QueueStep(s)
    PROVE  pc[s] # "absent" /\ pc'[s] # "absent"
<1> USE DEF TypeInv, TypeOK
<1>1. CASE Fault(s)
  BY <1>1 DEF Fault, LookupFails, XaddFails, ExpireFails, SaveFails, Raise, Publish, Return
<1>2. CASE JobStep(s)
  BY <1>2 DEF JobStep, CacheHit, CacheMiss, ComputeAndSave, GatherDone, SaveLands, Xadd, Expire,
     AfterPublish, FinishJob, Publish, Return
<1>3. CASE Exhausted(s) \/ JobTimeout(s) \/ \E w \in Worker : StartJob(w, s)
  BY <1>3 DEF Exhausted, JobTimeout, StartJob, Return, Running, Active
<1>4. CASE \E c \in Check, ok \in BOOLEAN : NextCheck(s, c, ok)
  BY <1>4 DEF NextCheck, Publish
<1> QED
  BY <1>1, <1>2, <1>3, <1>4 DEF QueueStep

(* POST /scan/ and the steps of queue, worker and generator.                 *)
LEMMA PostGuest ==
    ASSUME ApiTypeInv, TypeInv, NEW s \in Scan, GuestInv(s), RunInv(s), PostScan(s)
    PROVE  /\ OnlyOf(s) /\ GuestInv(s)'
           /\ \A t \in Scan \ {s} : way'[t] = way[t]
<1>1. /\ Enqueue(s) /\ pc[s] = "absent" /\ pc'[s] = "queued"
      /\ way' = [way EXCEPT ![s] = "queue"] /\ way \in [Scan -> Way \cup {"none"}]
  BY DEF PostScan, Start, Enqueue, TypeInv, TypeOK, ApiTypeInv, ApiTypeOK
<1>2. AttemptInv(s) /\ OwnEvent(s)
  BY <1>1, OwnEventHere DEF GuestInv
<1>3. OnlyOf(s) /\ AttemptInv(s)'
  BY <1>1, <1>2, QueueAttempt
<1> QED
  BY <1>1, <1>3 DEF GuestInv

LEMMA QueueGuest ==
    ASSUME ApiTypeInv, TypeInv, NEW s \in Scan, GuestInv(s), RunInv(s), QueueMoves(s)
    PROVE  /\ OnlyOf(s) /\ GuestInv(s)'
           /\ \A t \in Scan \ {s} : way'[t] = way[t]
<1>1. QueueStep(s) /\ way' = way
  BY DEF QueueMoves, wayVars
<1>2. pc[s] # "absent" /\ pc'[s] # "absent"
  BY <1>1, QueuePlace DEF RunInv
<1>3. CASE way[s] # "call"
  <2>1. AttemptInv(s) /\ OwnEvent(s)
    BY <1>3, OwnEventHere DEF GuestInv
  <2>2. OnlyOf(s) /\ AttemptInv(s)'
    BY <1>1, <2>1, QueueAttempt
  <2> QED
    BY <1>1, <1>2, <1>3, <2>2 DEF GuestInv
<1>4. CASE way[s] = "call"
  <2>1. CacheMiss(s)
    BY <1>4 DEF QueueMoves
  <2>2. /\ pc' = [pc EXCEPT ![s] = "collect"] /\ pc[s] = "lookup"
        /\ tries' = tries /\ outcome' = outcome /\ outbox' = outbox /\ saving' = saving
        /\ stream' = stream
    BY <2>1 DEF CacheMiss, queueVars, streamVars
  <2>3. pc'[s] = "collect" /\ \A t \in Scan \ {s} : pc'[t] = pc[t]
    BY <2>2 DEF TypeInv, TypeOK
  <2> QED
    BY <1>1, <1>2, <1>4, <2>2, <2>3 DEF GuestInv, OnlyOf, Idle, Publishing
<1> QED
  BY <1>3, <1>4

(* POST /scan/stream and run_scan begin with an attempt of their own.        *)
LEMMA StartGuest ==
    ASSUME ApiTypeInv, TypeInv, NEW s \in Scan, NEW w \in {"stream", "call"},
           GuestInv(s), RunInv(s), StartHere(s, w)
    PROVE  /\ OnlyOf(s) /\ GuestInv(s)'
           /\ \A t \in Scan \ {s} : way'[t] = way[t]
<1>1. /\ pc[s] = "absent" /\ pc' = [pc EXCEPT ![s] = "lookup"]
      /\ tries' = [tries EXCEPT ![s] = 1]
      /\ outcome' = outcome /\ outbox' = outbox /\ saving' = saving /\ stream' = stream
      /\ way' = [way EXCEPT ![s] = w] /\ way \in [Scan -> Way \cup {"none"}]
  BY DEF StartHere, Start, streamVars, ApiTypeInv, ApiTypeOK
<1>2. /\ pc'[s] = "lookup" /\ tries'[s] = 1 /\ way'[s] = w
      /\ \A t \in Scan \ {s} : pc'[t] = pc[t] /\ tries'[t] = tries[t] /\ way'[t] = way[t]
  BY <1>1 DEF TypeInv, TypeOK
<1>3. tries[s] = 0 /\ saving[s] = {} /\ Idle(s)
  BY <1>1 DEF RunInv, GuestInv
<1>4. \A i \in DOMAIN stream[s] : stream[s][i].run \in Nat /\ stream[s][i].run <= 0
  <2>1. \A i \in DOMAIN stream[s] : stream[s][i].run \in Nat
    BY StreamTyped
  <2>2. \A i \in DOMAIN stream[s] : stream[s][i].run <= tries[s]
    BY DEF RunInv
  <2> QED
    BY <1>3, <2>1, <2>2
<1>5. \A c, event : ~Told(s, 1, c, event)
  BY <1>4 DEF Told
<1>6. \A c \in Check : Matches(s, c)'
  BY <1>1, <1>2, <1>3, <1>5 DEF Matches, Told, Idle
<1>7. AttemptInv(s)'
  <2>1. \A i \in DOMAIN stream'[s] : stream'[s][i].run <= tries'[s]
    BY <1>1, <1>2, <1>4
  <2> QED
    BY <1>1, <1>2, <1>3, <1>6, <2>1 DEF AttemptInv, Closed
<1>8. OnlyOf(s)
  BY <1>1, <1>2 DEF OnlyOf
<1> QED
  BY <1>1, <1>2, <1>3, <1>7, <1>8 DEF GuestInv, Idle, Publishing

(* A streamed response: an event is sent, or the client is gone.             *)
LEMMA SendGuest ==
    ASSUME TypeInv, NEW s \in Scan, AttemptInv(s), OwnEvent(s), Send(s)
    PROVE  OnlyOf(s) /\ AttemptInv(s)' /\ pc'[s] # "absent"
<1>1. /\ pc[s] = "xadd" /\ Append1(s) /\ outbox[s] \in Event
      /\ tries' = tries /\ outcome' = outcome /\ saving' = saving
      /\ pc' = [pc EXCEPT ![s] = IF outbox[s].event \in CheckEvents THEN "collect" ELSE "done"]
      /\ \A t \in Scan \ {s} : outbox'[t] = outbox[t]
  BY DEF Send, End, queueVars, TypeInv, TypeOK, OutboxSet
<1>2. /\ pc'[s] = IF outbox[s].event \in CheckEvents THEN "collect" ELSE "done"
      /\ \A t \in Scan \ {s} : pc'[t] = pc[t] /\ stream'[t] = stream[t]
  BY <1>1 DEF TypeInv, TypeOK, Append1
<1>3. /\ \A i \in DOMAIN stream'[s] : stream'[s][i].run <= tries'[s]
      /\ outbox[s].event \in CheckEvents => \A c \in Check : Matches(s, c)'
      /\ outbox[s].event \in TerminalEvents =>
             \A c \in Check : Matches(s, c)' <=> Matches(s, c)
  BY <1>1, AppendKeeps
<1>4. outbox[s].event \in CheckEvents <=> outbox[s].event \notin TerminalEvents
  BY <1>1 DEF Event, CheckEvents, TerminalEvents
<1>5. AttemptInv(s)'
  BY <1>1, <1>2, <1>3, <1>4 DEF AttemptInv, Closed, Collecting, Publishing, Running, Active
<1> QED
  BY <1>1, <1>2, <1>5 DEF OnlyOf

(* The coroutine ends before its own end: what it had told stays told.       *)
LEMMA EndGuest ==
    ASSUME TypeInv, NEW s \in Scan, AttemptInv(s), Quiet(s), pc'[s] = "done",
           saving'[s] \subseteq saving[s]
    PROVE  AttemptInv(s)'
BY QuietEnd DEF Running, Active

LEMMA HereGuest ==
    ASSUME ApiTypeInv, TypeInv, NEW s \in Scan, GuestInv(s), RunInv(s), HereMoves(s)
    PROVE  /\ OnlyOf(s) /\ GuestInv(s)'
           /\ \A t \in Scan \ {s} : way'[t] = way[t]
<1>0. way' = way /\ OwnEvent(s)
  BY OwnEventHere DEF HereMoves, wayVars
<1>1. CASE Send(s)
  <2>1. AttemptInv(s) /\ pc[s] # "absent"
    BY <1>1 DEF Send, GuestInv, Publishing
  <2>2. OnlyOf(s) /\ AttemptInv(s)' /\ pc'[s] # "absent"
    BY <1>0, <1>1, <2>1, SendGuest
  <2>3. way[s] # "call"
    BY <1>1 DEF Send, GuestInv, Publishing
  <2> QED
    BY <1>0, <2>1, <2>2, <2>3 DEF GuestInv
<1>2. ASSUME tries' = tries, outcome' = outcome, stream' = stream, pc[s] # "absent",
             \A t \in Scan \ {s} :
                 pc'[t] = pc[t] /\ outbox'[t] = outbox[t] /\ saving'[t] = saving[t],
             saving'[s] \subseteq saving[s],
             pc'[s] = "done" \/ (saving[s] # {} /\ pc'[s] = pc[s] /\ outbox'[s] = outbox[s])
      PROVE  OnlyOf(s) /\ GuestInv(s)'
  <2>1. OnlyOf(s) /\ Quiet(s)
    BY <1>2 DEF OnlyOf, Quiet
  <2>2. way[s] # "call" => AttemptInv(s)'
    BY <1>2, <2>1, EndGuest, LandAttempt DEF GuestInv
  <2> QED
    BY <1>0, <1>2, <2>1, <2>2 DEF GuestInv, Idle, Publishing
<1>3. CASE Disconnect(s)
  BY <1>0, <1>2, <1>3 DEF Disconnect, End, queueVars, streamVars, Running, Active, TypeInv, TypeOK
<1>4. CASE LookupRaises(s)
  BY <1>0, <1>2, <1>4 DEF LookupRaises, RaiseOut, End, queueVars, streamVars, Running, Active,
     TypeInv, TypeOK
<1>5. ASSUME NEW st \in Store, SaveRaises(s, st)
      PROVE  OnlyOf(s) /\ GuestInv(s)'
  <2>1. pc[s] # "absent"
    BY <1>5 DEF SaveRaises, RunInv
  <2>2. /\ tries' = tries /\ outcome' = outcome /\ stream' = stream
        /\ saving' = [saving EXCEPT ![s] = @ \ {st}] /\ st \in saving[s] /\ RaiseOut(s)
    BY <1>5 DEF SaveRaises, queueVars, streamVars
  <2>3. /\ \A t \in Scan \ {s} : pc'[t] = pc[t] /\ outbox'[t] = outbox[t]
        /\ pc'[s] = "done" \/ (pc'[s] = pc[s] /\ outbox'[s] = outbox[s])
    BY <2>2 DEF RaiseOut, End, TypeInv, TypeOK
  <2>4. /\ \A t \in Scan \ {s} : saving'[t] = saving[t]
        /\ saving'[s] \subseteq saving[s] /\ saving[s] # {}
    BY <2>2 DEF TypeInv, TypeOK
  <2> QED
    BY <1>2, <2>1, <2>2, <2>3, <2>4
<1> QED
  BY <1>0, <1>1, <1>3, <1>4, <1>5 DEF HereMoves, FaultHere

(* run_scan: it waits, and publishes nothing.                                *)
LEMMA CallGuest ==
    ASSUME ApiTypeInv, TypeInv, NEW s \in Scan, GuestInv(s), RunInv(s), CallMoves(s)
    PROVE  /\ OnlyOf(s) /\ GuestInv(s)'
           /\ \A t \in Scan \ {s} : way'[t] = way[t]
<1>1. way[s] = "call" /\ pc[s] # "absent"
  BY DEF CallMoves, GuestInv
<1> SUFFICES /\ way' = way /\ tries' = tries /\ stream' = stream
             /\ \A t \in Scan \ {s} : /\ pc'[t] = pc[t] /\ outcome'[t] = outcome[t]
                                      /\ outbox'[t] = outbox[t] /\ saving'[t] = saving[t]
             /\ \/ pc'[s] \in {"save", "done"}
                \/ pc'[s] = pc[s] /\ outcome'[s] = outcome[s]
  BY <1>1 DEF OnlyOf, GuestInv, Idle, Publishing
<1>2. CASE CallHit(s)
  BY <1>2 DEF CallHit, SaveHeld, Hold, queueVars, streamVars, TypeInv, TypeOK
<1>3. ASSUME NEW good \in SUBSET Check, CallChecks(s, good)
      PROVE  /\ way' = way /\ tries' = tries /\ stream' = stream
             /\ \A t \in Scan \ {s} : /\ pc'[t] = pc[t] /\ outcome'[t] = outcome[t]
                                      /\ outbox'[t] = outbox[t] /\ saving'[t] = saving[t]
             /\ pc'[s] = "save"
  BY <1>3 DEF CallChecks, SaveHeld, Hold, queueVars, streamVars, TypeInv, TypeOK
<1>4. ASSUME NEW st \in Store, CallSaves(s, st)
      PROVE  /\ way' = way /\ tries' = tries /\ stream' = stream
             /\ \A t \in Scan \ {s} : /\ pc'[t] = pc[t] /\ outcome'[t] = outcome[t]
                                      /\ outbox'[t] = outbox[t] /\ saving'[t] = saving[t]
             /\ pc'[s] = pc[s] /\ outcome'[s] = outcome[s]
  BY <1>4 DEF CallSaves, wayVars, queueVars, streamVars, TypeInv, TypeOK
<1>5. CASE CallReturns(s)
  BY <1>5 DEF CallReturns, End, wayVars, queueVars, streamVars, TypeInv, TypeOK
<1> QED
  BY <1>2, <1>3, <1>4, <1>5 DEF CallMoves

(* A worker dies, or the API process.                                        *)
Unassigned(s) == pc[s] = "absent" => runner[s] = NoWorker

LEMMA CrashGuest ==
    ASSUME TypeInv, NEW w \in Worker, Crash(w), way' = way, NEW t \in Scan, GuestInv(t),
           Unassigned(t)
    PROVE  GuestInv(t)'
<1>1. AttemptInv(t) => AttemptInv(t)'
  BY CrashAttempt
<1>2. /\ outcome' = outcome
      /\ pc'[t] = IF runner[t] = w THEN "queued" ELSE pc[t]
  BY DEF Crash
<1> QED
  BY <1>1, <1>2, NullsAssumption DEF GuestInv, Unassigned, Idle, Publishing

LEMMA CrashApiGuest ==
    ASSUME TypeInv, CrashApi, NEW t \in Scan, GuestInv(t)
    PROVE  GuestInv(t)'
<1> DEFINE here == way[t] \in {"stream", "call"}
<1>1. /\ tries' = tries /\ outcome' = outcome /\ stream' = stream /\ way' = way
      /\ pc'[t] = IF here /\ Running(t) THEN "done" ELSE pc[t]
      /\ outbox'[t] = IF here /\ Running(t) THEN NoEvent ELSE outbox[t]
      /\ saving'[t] = IF here THEN {} ELSE saving[t]
  BY DEF CrashApi, queueVars, streamVars, wayVars
<1>2. CASE ~here
  BY <1>1, <1>2, GuestFrame
<1>3. CASE here
  <2>1. way[t] # "call" => AttemptInv(t)'
    <3>1. AttemptInv(t) => AttemptInv(t)'
      <4>1. pc[t] \in Place
        BY DEF TypeInv, TypeOK
      <4> QED
        BY <1>1, <1>3, <4>1, QuietEnd DEF Quiet, Running, Active, Place
    <3> QED
      BY <3>1 DEF GuestInv
  <2> QED
    BY <1>1, <1>3, <2>1 DEF GuestInv, Idle, Publishing, Running, Active
<1> QED
  BY <1>2, <1>3

LEMMA NextUnassigned ==
    ASSUME TypesInv, ScansInv, [ApiNext]_apiVars, NEW t \in Scan, Unassigned(t)
    PROVE  Unassigned(t)'
<1>0. TypeInv
  BY DEF TypesInv, ApiTypeInv, ApiTypeOK, TypeInv
<1>1. pc'[t] = "absent" => pc[t] = "absent"
  <2>1. Move(t)
    BY ApiMoves
  <2> QED
    BY <2>1 DEF Move, Begins, Stays, Collects, StartsSaving, Publishes, Adds, Ends, Goes
<1>2. runner'[t] \in {runner[t], NoWorker} \/ pc'[t] = "lookup"
  <2> USE DEF TypeInv, TypeOK
  <2>1. ASSUME NEW s \in Scan, QueueStep(s)
        PROVE  runner'[t] \in {runner[t], NoWorker} \/ pc'[t] = "lookup"
    <3>1. ASSUME NEW w \in Worker, StartJob(w, s)
          PROVE  runner'[t] = runner[t] \/ pc'[t] = "lookup"
      BY <1>0, <3>1 DEF StartJob
    <3>2. CASE JobStep(s)
      BY <1>0, <3>2 DEF JobStep, CacheHit, CacheMiss, ComputeAndSave, GatherDone, SaveLands, Xadd, Expire,
         FinishJob, queueVars
    <3>3. CASE Fault(s)
      BY <3>3 DEF Fault, LookupFails, XaddFails, ExpireFails, SaveFails, queueVars
    <3>4. CASE Exhausted(s) \/ JobTimeout(s) \/ \E c \in Check, ok \in BOOLEAN : NextCheck(s, c, ok)
      BY <3>4 DEF Exhausted, JobTimeout, NextCheck, queueVars
    <3> QED
      BY <2>1, <3>1, <3>2, <3>3, <3>4 DEF QueueStep
  <2>2. ASSUME NEW s \in Scan, HereMoves(s) \/ CallMoves(s) \/ PostScan(s)
               \/ \E w \in {"stream", "call"} : StartHere(s, w)
        PROVE  runner' = runner
    BY <2>2 DEF HereMoves, CallMoves, Send, Disconnect, FaultHere, LookupRaises, SaveRaises,
       CallHit, CallReturns, CallChecks, CallSaves, StartHere, PostScan, Enqueue, queueVars
  <2>3. ASSUME NEW w \in Worker, Crash(w)
        PROVE  runner'[t] \in {runner[t], NoWorker}
    BY <2>3 DEF Crash
  <2>4. CASE Expiry \/ CrashApi \/ UNCHANGED apiVars
    BY <2>4 DEF Expiry, ExpireReport, ExpireStream, ExpireCache, CrashApi, queueVars, apiVars, vars
  <2>5. ASSUME NEW g \in Request, GetStep(g)
        PROVE  runner' = runner
    BY <2>5 DEF GetStep, GetRedis, GetMongo, WriteBack, GetFails, SaveBack, queueVars, vars
  <2> QED
    BY <2>1, <2>2, <2>3, <2>4, <2>5, ApiSteps DEF QueueMoves, Elsewhere
<1> QED
  BY <1>1, <1>2 DEF Unassigned

OfScan(s) ==
    \/ PostScan(s) \/ QueueMoves(s) \/ HereMoves(s) \/ CallMoves(s)
    \/ \E w \in {"stream", "call"} : StartHere(s, w)

LEMMA ScanGuest ==
    ASSUME TypesInv, ScansInv, GuestsInv, NEW s \in Scan, OfScan(s)
    PROVE  /\ OnlyOf(s) /\ GuestInv(s)'
           /\ \A t \in Scan \ {s} : way'[t] = way[t]
<1>1. TypeInv /\ ApiTypeInv
  BY DEF TypesInv, ApiTypeInv, ApiTypeOK, TypeInv
<1>2. GuestInv(s) /\ RunInv(s)
  BY DEF GuestsInv, ScansInv
<1> QED
  BY <1>1, <1>2, PostGuest, QueueGuest, HereGuest, CallGuest, StartGuest DEF OfScan

LEMMA OfScans ==
    ASSUME [ApiNext]_apiVars
    PROVE  \/ \E s \in Scan : OfScan(s)
           \/ Elsewhere
           \/ \E g \in Request : GetStep(g)
           \/ CrashApi
           \/ UNCHANGED apiVars
BY ApiSteps DEF OfScan

LEMMA NextGuests ==
    ASSUME TypesInv, ScansInv, GuestsInv, \A s \in Scan : Unassigned(s), [ApiNext]_apiVars
    PROVE  GuestsInv'
<1>0. TypeInv /\ ApiTypeInv
  BY DEF TypesInv, ApiTypeInv, ApiTypeOK, TypeInv
<1>1. ASSUME NEW s \in Scan, OfScan(s)
      PROVE  GuestsInv'
  BY <1>1, ScanGuest, OneGuest
<1>2. ASSUME NEW t \in Scan, Elsewhere
      PROVE  GuestInv(t)'
  <2>1. way' = way /\ GuestInv(t) /\ Unassigned(t)
    BY <1>2 DEF Elsewhere, wayVars, GuestsInv
  <2>2. CASE \E w \in Worker : Crash(w)
    BY <1>0, <2>1, <2>2, CrashGuest
  <2>3. CASE Expiry
    BY <2>1, <2>3, GuestFrame DEF Expiry, ExpireReport, ExpireStream, ExpireCache, queueVars,
       streamVars
  <2> QED
    BY <1>2, <2>2, <2>3 DEF Elsewhere
<1>3. ASSUME NEW t \in Scan, NEW g \in Request, GetStep(g)
      PROVE  GuestInv(t)'
  BY <1>3, GuestFrame DEF GuestsInv, GetStep, GetRedis, GetMongo, WriteBack, GetFails, SaveBack,
     queueVars, streamVars, vars, wayVars
<1>4. ASSUME NEW t \in Scan, CrashApi
      PROVE  GuestInv(t)'
  BY <1>0, <1>4, CrashApiGuest DEF GuestsInv
<1>5. ASSUME NEW t \in Scan, UNCHANGED apiVars
      PROVE  GuestInv(t)'
  BY <1>5, GuestFrame DEF GuestsInv, apiVars, vars, wayVars
<1> QED
  BY <1>1, <1>2, <1>3, <1>4, <1>5, OfScans DEF GuestsInv

-----------------------------------------------------------------------------
(* Reports.  A genuine report is what the checks gave when its origin ran,   *)
(* as EveryReportIsARun has it.                                              *)
Genuine(r) == way[r.origin] # "none" /\ Ran(r.origin, r.checks)
GenuineFor(s) ==
    {r \in Report : r.scan_id = s /\ DomainOf[r.origin] = DomainOf[s] /\ Genuine(r)}
GenuineOn(d) == {r \in Report : DomainOf[r.origin] = d /\ Genuine(r)}
MaybeFor(s) == GenuineFor(s) \cup {NoReport}

GenuineInv(s) ==
    /\ redis[s] \in MaybeFor(s) /\ mongo[s] \in MaybeFor(s) /\ held[s] \in MaybeFor(s)
    /\ Publishing(s) => outbox[s].report \in MaybeFor(s)
    /\ \A i \in DOMAIN stream[s] : stream[s][i].report \in MaybeFor(s)

ServedInv(g) ==
    /\ at[g] = "new" => found[g] = NoReport
    /\ found[g] # NoReport => asked[g] \in Scan /\ found[g] \in GenuineFor(asked[g])

OriginsInv ==
    /\ \A s \in Scan : GenuineInv(s)
    /\ \A d \in Domain : cache[d] \in GenuineOn(d) \cup {NoReport}
    /\ \A g \in Request : ServedInv(g)

ApiReportInv ==
    /\ ApiInv /\ GuestsInv /\ OriginsInv
    /\ \A s \in Scan : Unassigned(s)

(* What is told to a stream stays told, and a call that has the results of   *)
(* its checks asks for them no more: a genuine report stays one.             *)
LEMMA ApiRunsStay ==
    ASSUME TypesInv, ScansInv, GuestsInv, [ApiNext]_apiVars
    PROVE  RunsStay
<1>0. TypeInv
  BY DEF TypesInv, ApiTypeInv, ApiTypeOK, TypeInv
<1>1. CASE stream' = stream
  BY <1>1, RunsStayQuiet
<1>2. ASSUME NEW s \in Scan, pc[s] = "xadd", Append1(s)
      PROVE  RunsStay
  <2>1. OwnEvent(s)
    BY OwnEventHere DEF ScansInv
  <2>2. AttemptInv(s)
    BY <1>2 DEF GuestsInv, GuestInv, Publishing
  <2> QED
    BY <1>0, <1>2, <2>1, <2>2, AppendRunsStay
<1>3. ASSUME NEW s \in Scan, OfScan(s)
      PROVE  stream' = stream \/ (pc[s] = "xadd" /\ Append1(s))
  <2>1. CASE QueueStep(s) \/ Enqueue(s)
    BY <2>1 DEF Enqueue, QueueStep, Exhausted, JobTimeout, StartJob, NextCheck, JobStep, CacheHit,
       CacheMiss, ComputeAndSave, GatherDone, SaveLands, Xadd, Expire, FinishJob, Fault,
       LookupFails, XaddFails, ExpireFails, SaveFails, streamVars
  <2>2. CASE HereMoves(s) \/ CallMoves(s) \/ \E w \in {"stream", "call"} : StartHere(s, w)
    BY <2>2 DEF HereMoves, CallMoves, StartHere, Send, Disconnect, FaultHere, LookupRaises,
       SaveRaises, CallHit, CallReturns, CallChecks, CallSaves, streamVars
  <2> QED
    BY <1>3, <2>1, <2>2 DEF OfScan, PostScan, QueueMoves
<1>4. ASSUME Elsewhere \/ CrashApi \/ UNCHANGED apiVars \/ \E g \in Request : GetStep(g)
      PROVE  stream' = stream
  BY <1>4 DEF Elsewhere, Crash, Expiry, ExpireReport, ExpireStream, ExpireCache, CrashApi, apiVars,
     GetStep, GetRedis, GetMongo, WriteBack, GetFails, SaveBack, vars, streamVars
<1> QED
  BY <1>1, <1>2, <1>3, <1>4, OfScans

LEMMA WayStays ==
    ASSUME TypesInv, ScansInv, GuestsInv, [ApiNext]_apiVars, NEW t \in Scan, way[t] # "none"
    PROVE  way'[t] = way[t]
<1>1. ASSUME NEW s \in Scan, PostScan(s) \/ \E w \in {"stream", "call"} : StartHere(s, w)
      PROVE  way'[t] = way[t]
  <2>1. pc[s] = "absent" /\ GuestInv(s)
    BY <1>1 DEF PostScan, Enqueue, StartHere, GuestsInv
  <2>2. s # t
    BY <2>1 DEF GuestInv
  <2> QED
    BY <1>1, <2>2, ScanGuest DEF OfScan
<1>2. ASSUME NEW s \in Scan, QueueMoves(s) \/ HereMoves(s) \/ CallMoves(s)
      PROVE  way' = way
  BY <1>2 DEF QueueMoves, HereMoves, CallMoves, wayVars, CallHit, CallReturns, CallChecks, CallSaves
<1>3. ASSUME Elsewhere \/ CrashApi \/ UNCHANGED apiVars \/ \E g \in Request : GetStep(g)
      PROVE  way' = way
  BY <1>3 DEF Elsewhere, CrashApi, apiVars, GetStep, GetRedis, GetMongo, WriteBack, GetFails, wayVars
<1> QED
  BY <1>1, <1>2, <1>3, ApiSteps

LEMMA CallOutcome ==
    ASSUME TypesInv, ScansInv, GuestsInv, [ApiNext]_apiVars, NEW t \in Scan, way[t] = "call"
    PROVE  outcome'[t] = outcome[t] \/ pc[t] = "collect"
<1>1. ASSUME NEW s \in Scan, OfScan(s), s # t
      PROVE  outcome'[t] = outcome[t]
  BY <1>1, ScanGuest DEF OnlyOf
<1>2. CASE OfScan(t)
  <2>1. pc[t] # "absent"
    BY DEF GuestsInv, GuestInv
  <2>2. CacheMiss(t) \/ FaultHere(t) \/ CallMoves(t)
    BY <1>2, <2>1 DEF OfScan, PostScan, Enqueue, StartHere, QueueMoves, HereMoves
  <2> QED
    BY <2>2 DEF CacheMiss, FaultHere, LookupRaises, SaveRaises, CallMoves, CallHit, CallReturns,
       CallChecks, CallSaves
<1>3. ASSUME Elsewhere \/ CrashApi \/ UNCHANGED apiVars \/ \E g \in Request : GetStep(g)
      PROVE  outcome' = outcome
  BY <1>3 DEF Elsewhere, Crash, Expiry, ExpireReport, ExpireStream, ExpireCache, CrashApi, apiVars,
     GetStep, GetRedis, GetMongo, WriteBack, GetFails, SaveBack, vars
<1> QED
  BY <1>1, <1>2, <1>3, OfScans

LEMMA GenuineStays ==
    ASSUME TypesInv, ScansInv, GuestsInv, [ApiNext]_apiVars, NEW r \in Report, Genuine(r)
    PROVE  Genuine(r)'
<1>1. r.origin \in Scan /\ r.checks \subseteq Check
  BY DEF Report
<1>2. way'[r.origin] = way[r.origin] /\ way[r.origin] # "none"
  BY <1>1, WayStays DEF Genuine
<1>3. CASE way[r.origin] = "call"
  <2>1. /\ Reported(r.origin) = Check
        /\ r.checks = {c \in Check : outcome[r.origin][c] = "ok"}
    BY <1>3 DEF Genuine, Ran
  <2>2. CASE outcome'[r.origin] = outcome[r.origin]
    BY <1>2, <1>3, <2>1, <2>2 DEF Genuine, Ran, Reported
  <2>3. CASE pc[r.origin] = "collect"
    <3>1. Idle(r.origin)
      BY <1>1, <1>3, <2>3 DEF GuestsInv, GuestInv
    <3>2. Check = {}
      BY <2>1, <3>1 DEF Idle, Reported
    <3> QED
      BY <1>2, <1>3, <2>1, <3>2 DEF Genuine, Ran, Reported
  <2> QED
    BY <1>1, <1>3, <2>2, <2>3, CallOutcome
<1>4. CASE way[r.origin] # "call"
  <2> DEFINE p == [scan_id |-> r.origin, origin |-> r.origin, checks |-> r.checks]
  <2>1. p \in Report /\ IsWholeRun(p)
    BY <1>1, <1>4 DEF Genuine, Ran, Report
  <2>2. IsWholeRun(p)'
    BY <2>1, ApiRunsStay, WholeRunStays
  <2> QED
    BY <1>2, <1>4, <2>2 DEF Genuine, Ran
<1> QED
  BY <1>3, <1>4

(* What a scan run here leaves behind: what it saves, and what it publishes. *)
Saves(s) == IF way[s] = "call" THEN held[s] ELSE FreshReport(s)

LEMMA HereSources ==
    ASSUME TypeInv, NEW s \in Scan, HereMoves(s)
    PROVE  Sources(s, Saves(s))
<1> USE DEF TypeInv, TypeOK, Sources, Publishing, queueVars, storeVars, streamVars
<1>1. CASE Send(s)
  BY <1>1 DEF Send, End, Append1
<1>2. CASE Disconnect(s) \/ LookupRaises(s)
  BY <1>2 DEF Disconnect, LookupRaises, RaiseOut, End
<1>3. ASSUME NEW st \in Store, SaveRaises(s, st)
      PROVE  Sources(s, Saves(s))
  <2>1. /\ \A t \in Scan \ {s} : pc'[t] = pc[t] /\ outbox'[t] = outbox[t]
        /\ Publishing(s)' => Publishing(s) /\ outbox'[s] = outbox[s]
        /\ stream' = stream
    BY <1>3 DEF SaveRaises, RaiseOut, End
  <2>2. Write(s, st, Saves(s)) \/ UNCHANGED storeVars
    BY <1>3 DEF SaveRaises, Saves
  <2>3. st \in saving[s]
    BY <1>3 DEF SaveRaises
  <2> QED
    BY SMTT(30), <2>1, <2>2, <2>3, WriteSources
<1> QED
  BY <1>1, <1>2, <1>3 DEF HereMoves, FaultHere

LEMMA CallSources ==
    ASSUME TypeInv, NEW s \in Scan, ~Publishing(s), CallMoves(s)
    PROVE  Sources(s, Saves(s))
<1> USE DEF TypeInv, TypeOK, Sources, Publishing, queueVars, storeVars, streamVars
<1>1. CASE CallHit(s)
  BY <1>1 DEF CallHit, SaveHeld, Hold
<1>2. ASSUME NEW good \in SUBSET Check, CallChecks(s, good)
      PROVE  Sources(s, Saves(s))
  BY <1>2 DEF CallChecks, SaveHeld, Hold
<1>3. CASE CallReturns(s)
  BY <1>3 DEF CallReturns, End
<1>4. ASSUME NEW st \in Store, CallSaves(s, st)
      PROVE  Sources(s, Saves(s))
  <2>1. Write(s, st, Saves(s)) /\ st \in saving[s] /\ pc' = pc /\ outbox' = outbox /\ stream' = stream
    BY <1>4 DEF CallSaves, CallMoves, Saves
  <2> QED
    BY <2>1, WriteSources
<1> QED
  BY <1>1, <1>2, <1>3, <1>4 DEF CallMoves

(* What a call holds is what it held, what it found or what its checks gave. *)
LEMMA HeldSources ==
    ASSUME TypesInv, GuestsInv, OriginsInv, NEW s \in Scan, GuestInv(s)', OfScan(s), NEW t \in Scan
    PROVE  held'[t] \in MaybeFor(t) \/ held'[t] \in MaybeFor(t)'
<1>0. held[t] \in MaybeFor(t) /\ held \in [Scan -> MaybeReport]
  BY DEF OriginsInv, GenuineInv, TypesInv, ApiTypeInv, ApiTypeOK
<1>1. CASE CallMoves(s) /\ CallHit(s)
  <2>1. cache[DomainOf[s]] \in GenuineOn(DomainOf[s])
    BY <1>1, DomainAssumption DEF CallHit, OriginsInv
  <2>2. NormalizeCachedReport(s, cache[DomainOf[s]]) \in GenuineFor(s)
    BY <2>1 DEF NormalizeCachedReport, GenuineFor, GenuineOn, Genuine, Report
  <2> QED
    BY <1>0, <1>1, <2>2 DEF CallHit, SaveHeld, Hold, MaybeFor
<1>2. ASSUME NEW good \in SUBSET Check, CallMoves(s), CallChecks(s, good)
      PROVE  held'[t] \in MaybeFor(t) \/ held'[t] \in MaybeFor(t)'
  <2>1. CASE t # s
    BY <1>0, <1>2, <2>1 DEF CallChecks, SaveHeld, Hold
  <2>2. CASE t = s
    <3> DEFINE r == [scan_id |-> s, origin |-> s, checks |-> good]
    <3>1. held'[s] = r /\ r \in Report
      BY <1>0, <1>2 DEF CallChecks, SaveHeld, Hold, Report
    <3>2. /\ outcome'[s] = [c \in Check |-> IF c \in good THEN "ok" ELSE "error"]
          /\ way'[s] = "call"
      BY <1>2 DEF CallChecks, CallMoves, TypesInv, ApiTypeInv, ApiTypeOK, TypeOK
    <3>3. Ran(s, good)'
      BY <3>2 DEF Ran, Reported
    <3>4. r.scan_id = s /\ r.origin = s /\ r.checks = good
      OBVIOUS
    <3> HIDE DEF r
    <3>5. \A q \in Report : q.scan_id = s /\ q.origin = s /\ q.checks = good => q \in GenuineFor(s)'
      BY <3>2, <3>3 DEF GenuineFor, Genuine
    <3> QED
      BY <2>2, <3>1, <3>4, <3>5 DEF MaybeFor
  <2> QED
    BY <2>1, <2>2
<1>3. CASE held' = held
  BY <1>0, <1>3
<1> QED
  BY <1>1, <1>2, <1>3 DEF OfScan, PostScan, Start, StartHere, QueueMoves, HereMoves, CallMoves,
     CallReturns, CallSaves, wayVars

(* What a step leaves was genuine before it, or has just been measured.      *)
LeavesGenuine ==
    /\ \A s \in Scan :
           /\ redis'[s] \in MaybeFor(s) /\ mongo'[s] \in MaybeFor(s)
           /\ held'[s] \in MaybeFor(s) \/ held'[s] \in MaybeFor(s)'
           /\ Publishing(s)' => outbox'[s].report \in MaybeFor(s)
           /\ \A i \in DOMAIN stream'[s] : stream'[s][i].report \in MaybeFor(s)
    /\ \A d \in Domain : cache'[d] \in GenuineOn(d) \cup {NoReport}
    /\ \A g \in Request :
           /\ at'[g] = "new" => found'[g] = NoReport
           /\ found'[g] # NoReport => asked'[g] \in Scan /\ found'[g] \in GenuineFor(asked'[g])

LEMMA LeftStays ==
    ASSUME TypesInv, ScansInv, GuestsInv, [ApiNext]_apiVars, LeavesGenuine
    PROVE  OriginsInv'
<1>1. \A r \in Report : Genuine(r) => Genuine(r)'
  BY GenuineStays
<1>2. /\ \A s \in Scan : GenuineFor(s) \subseteq GenuineFor(s)' /\ MaybeFor(s) \subseteq MaybeFor(s)'
      /\ \A d \in Domain : GenuineOn(d) \subseteq GenuineOn(d)'
  BY <1>1 DEF GenuineFor, GenuineOn, MaybeFor
<1>3. \A s \in Scan : GenuineInv(s)'
  BY <1>2 DEF LeavesGenuine, GenuineInv, Publishing
<1>4. \A d \in Domain : cache'[d] \in GenuineOn(d)' \cup {NoReport}
  BY <1>2 DEF LeavesGenuine
<1>5. \A g \in Request : ServedInv(g)'
  BY <1>2 DEF LeavesGenuine, ServedInv
<1> QED
  BY <1>3, <1>4, <1>5 DEF OriginsInv

LEMMA SavesGenuine ==
    ASSUME TypesInv, ScansInv, GuestsInv, OriginsInv, NEW s \in Scan
    PROVE  /\ saving[s] # {} => Saves(s) \in GenuineFor(s) /\ Saves(s) \in GenuineOn(DomainOf[s])
           /\ Closed(s) /\ way[s] # "call" => FreshReport(s) \in GenuineFor(s)
<1>0. TypeInv
  BY DEF TypesInv, ApiTypeInv, ApiTypeOK, TypeInv
<1>1. GuestInv(s) /\ RunInv(s) /\ CallInv(s) /\ held[s] \in MaybeFor(s)
  BY DEF GuestsInv, ScansInv, OriginsInv, GenuineInv
<1>2. ASSUME Closed(s), way[s] # "call"
      PROVE  /\ FreshReport(s) \in GenuineFor(s)
             /\ FreshReport(s) \in GenuineOn(DomainOf[s])
  <2>1. FreshReport(s) \in Valid(s)
    BY <1>0, <1>1, <1>2, FreshIsValid DEF GuestInv
  <2>2. way[s] # "none"
    BY <1>1, <1>2 DEF GuestInv, RunInv, Closed
  <2>3. FreshReport(s).origin = s /\ FreshReport(s).checks = {c \in Check : outcome[s][c] = "ok"}
    BY DEF FreshReport
  <2>4. IsWholeRun([scan_id |-> s, origin |-> s, checks |-> FreshReport(s).checks])
    BY <2>1 DEF Valid, FreshReport
  <2>5. Genuine(FreshReport(s))
    BY <1>2, <2>2, <2>3, <2>4 DEF Genuine, Ran
  <2> QED
    BY <2>1, <2>5 DEF Valid, GenuineFor, GenuineOn
<1>3. ASSUME saving[s] # {}, way[s] = "call"
      PROVE  held[s] \in GenuineFor(s) /\ held[s] \in GenuineOn(DomainOf[s])
  <2>1. held[s] \in Report
    BY <1>1, <1>3 DEF CallInv
  <2>2. held[s] \in GenuineFor(s)
    BY <1>1, <2>1, NullsAssumption DEF MaybeFor
  <2> QED
    BY <2>2 DEF GenuineFor, GenuineOn
<1> QED
  BY <1>2, <1>3 DEF Saves, Closed

LEMMA ScanLeaves ==
    ASSUME TypesInv, ScansInv, GuestsInv, OriginsInv, NEW s \in Scan, GuestInv(s)', OfScan(s)
    PROVE  LeavesGenuine
<1>0. TypeInv
  BY DEF TypesInv, ApiTypeInv, ApiTypeOK, TypeInv
<1>1. \A t \in Scan : held'[t] \in MaybeFor(t) \/ held'[t] \in MaybeFor(t)'
  BY HeldSources
<1>2. UNCHANGED getVars
  BY DEF OfScan, PostScan, Start, StartHere, QueueMoves, HereMoves, CallMoves
<1>3. \A g \in Request :
          /\ at'[g] = "new" => found'[g] = NoReport
          /\ found'[g] # NoReport => asked'[g] \in Scan /\ found'[g] \in GenuineFor(asked'[g])
  BY <1>2 DEF getVars, OriginsInv, ServedInv
<1>4. CASE \E w \in {"stream", "call"} : StartHere(s, w)
  <2>1. /\ UNCHANGED <<redis, mongo, cache, stream, outbox>>
        /\ \A t \in Scan : Publishing(t)' => Publishing(t)
    BY <1>0, <1>4 DEF StartHere, storeVars, streamVars, TypeInv, TypeOK, Publishing
  <2> QED
    BY <1>1, <1>3, <2>1 DEF LeavesGenuine, OriginsInv, GenuineInv
<1>5. ASSUME Sources(s, Saves(s))
      PROVE  LeavesGenuine
  <2>1. /\ saving[s] # {} => Saves(s) \in MaybeFor(s) /\ Saves(s) \in GenuineOn(DomainOf[s])
        /\ Closed(s) /\ way[s] # "call" => FreshReport(s) \in MaybeFor(s)
    BY SavesGenuine DEF MaybeFor
  <2>2. cache[DomainOf[s]] # NoReport =>
            NormalizeCachedReport(s, cache[DomainOf[s]]) \in MaybeFor(s)
    <3>1. cache[DomainOf[s]] \in GenuineOn(DomainOf[s]) \cup {NoReport}
      BY DomainAssumption DEF OriginsInv
    <3> QED
      BY <3>1 DEF NormalizeCachedReport, GenuineFor, GenuineOn, MaybeFor, Genuine, Report
  <2>3. Publishing(s)' => way[s] # "call"
    <3>1. way'[s] # "call" \/ ~Publishing(s)'
      BY DEF GuestInv
    <3>2. way[s] = "call" => way'[s] = "call"
      <4>1. way[s] = "call" => pc[s] # "absent"
        BY DEF GuestsInv, GuestInv
      <4> QED
        BY <4>1 DEF OfScan, PostScan, Enqueue, StartHere, QueueMoves, HereMoves, CallMoves, wayVars,
           CallHit, CallReturns, CallChecks, CallSaves
    <3> QED
      BY <3>1, <3>2
  <2>4. ASSUME NEW t \in Scan
        PROVE  /\ redis'[t] \in MaybeFor(t) /\ mongo'[t] \in MaybeFor(t)
               /\ Publishing(t)' => outbox'[t].report \in MaybeFor(t)
               /\ \A i \in DOMAIN stream'[t] : stream'[t][i].report \in MaybeFor(t)
    <3>0. GenuineInv(t)
      BY DEF OriginsInv
    <3>1. redis'[t] \in MaybeFor(t) /\ mongo'[t] \in MaybeFor(t)
      BY <1>5, <2>1, <3>0 DEF Sources, GenuineInv
    <3>2. Publishing(t)' => outbox'[t].report \in MaybeFor(t)
      <4>1. CASE t # s
        BY <1>5, <3>0, <4>1 DEF Sources, GenuineInv, Publishing
      <4>2. CASE t = s
        BY <1>5, <2>1, <2>2, <2>3, <3>0, <4>2 DEF Sources, GenuineInv, MaybeFor
      <4> QED
        BY <4>1, <4>2
    <3>3. \A i \in DOMAIN stream'[t] : stream'[t][i].report \in MaybeFor(t)
      BY <1>0, <1>5, <3>0, AppendReports DEF Sources, GenuineInv, Publishing
    <3> QED
      BY <3>1, <3>2, <3>3
  <2>5. \A d \in Domain : cache'[d] \in GenuineOn(d) \cup {NoReport}
    BY <1>5, <2>1 DEF Sources, OriginsInv
  <2> QED
    BY <1>1, <1>3, <2>4, <2>5 DEF LeavesGenuine
<1>6. CASE PostScan(s) \/ (QueueMoves(s) /\ way[s] # "call")
  <2>1. way[s] # "call"
    BY <1>6 DEF PostScan, Enqueue, GuestsInv, GuestInv
  <2>2. Sources(s, FreshReport(s))
    BY <1>0, <1>6, QueueSources DEF PostScan, QueueMoves
  <2> QED
    BY <1>5, <2>1, <2>2 DEF Saves
<1>7. CASE QueueMoves(s) /\ way[s] = "call"
  <2>1. CacheMiss(s)
    BY <1>7 DEF QueueMoves
  <2>2. /\ UNCHANGED <<redis, mongo, cache, stream, outbox>>
        /\ \A t \in Scan : Publishing(t)' => Publishing(t)
    BY <1>0, <2>1 DEF CacheMiss, storeVars, streamVars, TypeInv, TypeOK, Publishing
  <2> QED
    BY <1>1, <1>3, <2>2 DEF LeavesGenuine, OriginsInv, GenuineInv
<1>8. CASE HereMoves(s)
  BY <1>0, <1>5, <1>8, HereSources
<1>9. CASE CallMoves(s)
  <2>1. ~Publishing(s)
    BY <1>9 DEF CallMoves, GuestsInv, GuestInv
  <2> QED
    BY <1>0, <1>5, <1>9, <2>1, CallSources
<1> QED
  BY <1>4, <1>6, <1>7, <1>8, <1>9 DEF OfScan

(* Workers die, keys expire: what is left was there.                         *)
LEMMA ElsewhereLeaves ==
    ASSUME TypesInv, OriginsInv, Elsewhere \/ CrashApi \/ UNCHANGED apiVars
    PROVE  LeavesGenuine
<1>0. TypeInv
  BY DEF TypesInv, ApiTypeInv, ApiTypeOK, TypeInv
<1>1. held' = held /\ mongo' = mongo /\ stream' = stream
  BY DEF Elsewhere, Crash, Expiry, ExpireReport, ExpireStream, ExpireCache, CrashApi, apiVars,
     vars, wayVars, storeVars, streamVars
<1>2. /\ \A s \in Scan : redis'[s] \in {redis[s], NoReport}
      /\ \A d \in Domain : cache'[d] \in {cache[d], NoReport}
  BY <1>0 DEF Elsewhere, Crash, Expiry, ExpireReport, ExpireStream, ExpireCache, CrashApi, apiVars,
     vars, storeVars, TypeInv, TypeOK
<1>3. ASSUME NEW s \in Scan
      PROVE  Publishing(s)' => Publishing(s) /\ outbox'[s] = outbox[s]
  <2> USE DEF Publishing, TypeInv, TypeOK
  <2>1. ASSUME NEW w \in Worker, Crash(w)
        PROVE  Publishing(s)' => Publishing(s) /\ outbox'[s] = outbox[s]
    BY <1>0, <2>1 DEF Crash
  <2>2. CASE Expiry
    BY <2>2 DEF Expiry, ExpireReport, ExpireStream, ExpireCache, queueVars
  <2>3. CASE CrashApi
    BY <1>0, <2>3 DEF CrashApi
  <2>4. CASE UNCHANGED apiVars
    BY <2>4 DEF apiVars, vars
  <2> QED
    BY <2>1, <2>2, <2>3, <2>4 DEF Elsewhere
<1>4. /\ asked' = asked /\ found' = found
      /\ \A g \in Request : at'[g] = "new" => at[g] = "new"
  BY DEF Elsewhere, CrashApi, apiVars, getVars
<1>5. \A s \in Scan : MaybeFor(s) = GenuineFor(s) \cup {NoReport}
  BY DEF MaybeFor
<1> QED
  BY <1>1, <1>2, <1>3, <1>4, <1>5 DEF LeavesGenuine, OriginsInv, GenuineInv, ServedInv

(* GET /scan/{scan_id} finds, and writes back, what a store holds for it.    *)
LEMMA GetLeaves ==
    ASSUME TypesInv, OriginsInv, NEW g \in Request, GetStep(g)
    PROVE  LeavesGenuine
<1> USE DEF TypesInv, ApiTypeInv, ApiTypeOK, TypeOK
<1>1. /\ pc' = pc /\ outbox' = outbox /\ stream' = stream /\ mongo' = mongo /\ cache' = cache
      /\ held' = held
  BY DEF GetStep, GetRedis, GetMongo, WriteBack, GetFails, SaveBack, vars, wayVars, storeVars,
     streamVars
<1>2. /\ \A h \in Request : ServedInv(h)
      /\ \A s \in Scan : redis[s] \in MaybeFor(s) /\ mongo[s] \in MaybeFor(s)
  BY DEF OriginsInv, GenuineInv
<1>3. \A s \in Scan : redis'[s] \in MaybeFor(s)
  <2>1. CASE redis' = redis
    BY <1>2, <2>1
  <2>2. CASE at[g] = "back" /\ SaveBack(g)
    <3>1. asked[g] \in Scan /\ found[g] \in GenuineFor(asked[g])
      BY <1>2, <2>2 DEF AskedInv, ServedInv
    <3> QED
      BY <1>2, <2>2, <3>1 DEF SaveBack, MaybeFor
  <2> QED
    BY <2>1, <2>2 DEF GetStep, GetRedis, GetMongo, WriteBack, GetFails, vars, storeVars
<1>4. ASSUME NEW h \in Request
      PROVE  /\ at'[h] = "new" => found'[h] = NoReport
             /\ found'[h] # NoReport => asked'[h] \in Scan /\ found'[h] \in GenuineFor(asked'[h])
  <2>1. CASE h # g
    <3>1. at'[h] = at[h] /\ asked'[h] = asked[h] /\ found'[h] = found[h]
      BY <2>1 DEF GetStep, GetRedis, GetMongo, WriteBack, GetFails, Reply
    <3> QED
      BY <1>2, <3>1 DEF ServedInv
  <2>2. ASSUME NEW s \in Scan, GetRedis(g, s), h = g
        PROVE  /\ at'[h] = "new" => found'[h] = NoReport
               /\ found'[h] # NoReport => asked'[h] \in Scan /\ found'[h] \in GenuineFor(asked'[h])
    BY <1>2, <2>2 DEF GetRedis, Reply, ServedInv, MaybeFor
  <2>3. CASE GetMongo(g) /\ h = g
    <3>1. asked[g] \in Scan /\ asked' = asked /\ at[g] = "mongo"
      BY <2>3 DEF GetMongo, AskedInv
    <3> QED
      BY <1>2, <2>3, <3>1 DEF GetMongo, Reply, ServedInv, MaybeFor
  <2>4. CASE WriteBack(g) /\ h = g
    BY <1>2, <2>4 DEF WriteBack, Reply, ServedInv
  <2>5. ASSUME NEW s \in Scan, GetFails(g, s), h = g
        PROVE  /\ at'[h] = "new" => found'[h] = NoReport
               /\ found'[h] # NoReport => asked'[h] \in Scan /\ found'[h] \in GenuineFor(asked'[h])
    BY <1>2, <2>5 DEF GetFails, Reply, ServedInv
  <2> QED
    BY <2>1, <2>2, <2>3, <2>4, <2>5 DEF GetStep
<1> QED
  BY <1>1, <1>2, <1>3, <1>4 DEF LeavesGenuine, OriginsInv, GenuineInv, Publishing

-----------------------------------------------------------------------------
LEMMA InitApiReport == ApiInit => ApiReportInv
<1> SUFFICES ASSUME ApiInit
             PROVE  ApiReportInv
  OBVIOUS
<1>1. ApiInv
  <2>1. TypesInv
    BY InitTypes
  <2>2. ScansInv
    BY DEF ApiInit, Init, ScansInv, RunInv, CallInv, HasToTell, Completes
  <2> QED
    BY <2>1, <2>2 DEF ApiInv, ApiInit, ReaderInv
<1>2. \A s \in Scan : GuestInv(s) /\ Unassigned(s)
  BY DEF ApiInit, Init, GuestInv, Unassigned, Idle, AttemptInv, Collecting, Closed, Publishing, Running, Active
<1>3. OriginsInv
  BY DEF ApiInit, Init, OriginsInv, GenuineInv, ServedInv, MaybeFor, Publishing
<1> QED
  BY <1>1, <1>2, <1>3 DEF ApiReportInv, GuestsInv

LEMMA NextApiReport == ApiReportInv /\ ApiInv' /\ [ApiNext]_apiVars => ApiReportInv'
<1> SUFFICES ASSUME ApiReportInv, ApiInv', [ApiNext]_apiVars
             PROVE  ApiReportInv'
  OBVIOUS
<1>1. /\ TypesInv /\ ScansInv /\ GuestsInv /\ OriginsInv
      /\ \A s \in Scan : Unassigned(s)
  BY DEF ApiReportInv, ApiInv
<1>2. GuestsInv'
  BY <1>1, NextGuests
<1>3. \A s \in Scan : Unassigned(s)'
  BY <1>1, NextUnassigned
<1>4. LeavesGenuine
  <2>1. ASSUME NEW s \in Scan, OfScan(s)
        PROVE  LeavesGenuine
    <3>1. GuestInv(s)'
      BY <1>2 DEF GuestsInv
    <3> QED
      BY <1>1, <2>1, <3>1, ScanLeaves
  <2> QED
    BY <1>1, <2>1, OfScans, ElsewhereLeaves, GetLeaves
<1>5. OriginsInv'
  BY <1>1, <1>4, LeftStays
<1> QED
  BY <1>2, <1>3, <1>5 DEF ApiReportInv

LEMMA ApiReportInvariant == ApiSpec => []ApiReportInv
BY InitApiReport, NextApiReport, ApiInvariant, PTL DEF ApiSpec

LEMMA KnownGenuine ==
    ASSUME TypesInv, OriginsInv, NEW s \in Scan, NEW r \in KnownOf(s)
    PROVE  r \in GenuineFor(s)
<1>1. r # NoReport
  BY DEF KnownOf
<1>2. CASE r \in ReportsOf(s) \cup {held[s]}
  BY <1>1, <1>2 DEF ReportsOf, ReportsSent, OriginsInv, GenuineInv, MaybeFor
<1>3. ASSUME NEW g \in ReadersOf(s), r = found[g]
      PROVE  r \in GenuineFor(s)
  BY <1>1, <1>3 DEF ReadersOf, OriginsInv, ServedInv
<1> QED
  BY <1>2, <1>3 DEF KnownOf

(* Whatever ran the scan, in whichever process, and whatever was cut,        *)
(* retried, cached or written back: for every number of scans, requests,     *)
(* failing calls, deaths and expiries, a report that is stored, cached, sent *)
(* or served under a scan_id is one whole run of the checks, on the host of  *)
(* that scan (run_scan, run_scan_stream, get_report).                        *)
THEOREM ServedReportsAreRuns == ApiSpec => []EveryReportIsARun
<1>1. ApiReportInv => EveryReportIsARun
  <2> SUFFICES ASSUME ApiReportInv
               PROVE  EveryReportIsARun
    OBVIOUS
  <2>1. TypesInv /\ OriginsInv
    BY DEF ApiReportInv, ApiInv
  <2>2. \A s \in Scan : KnownOf(s) \subseteq GenuineFor(s)
    BY <2>1, KnownGenuine
  <2>3. \A d \in Domain : cache[d] # NoReport => cache[d] \in GenuineOn(d)
    BY <2>1 DEF OriginsInv
  <2>4. \A s \in Scan : \A r \in KnownOf(s) : DomainOf[r.origin] = DomainOf[s] /\ Ran(r.origin, r.checks)
    BY <2>2 DEF GenuineFor, Genuine
  <2>5. \A d \in Domain : cache[d] # NoReport =>
            DomainOf[cache[d].origin] = d /\ Ran(cache[d].origin, cache[d].checks)
    BY <2>3 DEF GenuineOn, Genuine
  <2>6. ASSUME NEW m \in Measures
        PROVE  Ran(m[1], m[2])
    <3>1. PICK r \in (UNION {KnownOf(s) : s \in Scan}) \cup Cached :
              m = Measure(r)
      BY <2>6 DEF Measures
    <3>2. \/ \E s \in Scan : r \in KnownOf(s)
          \/ \E d \in Domain : r = cache[d] /\ cache[d] # NoReport
      BY <3>1 DEF Cached
    <3>3. Ran(r.origin, r.checks)
      BY <2>4, <2>5, <3>2
    <3>4. m[1] = r.origin /\ m[2] = r.checks
      BY <3>1 DEF Measure
    <3> QED
      BY <3>3, <3>4
  <2> QED
    BY <2>4, <2>5, <2>6 DEF EveryReportIsARun
<1> QED
  BY <1>1, ApiReportInvariant, PTL

(* A report read under a scan_id carries that id, also one that run_scan     *)
(* found in the cache or that get_report wrote back.                         *)
THEOREM ServedReportsCarryTheirId == ApiSpec => []ReportsKeepTheirScan
<1>1. ApiReportInv => ReportsKeepTheirScan
  <2> SUFFICES ASSUME ApiReportInv
               PROVE  ReportsKeepTheirScan
    OBVIOUS
  <2>1. TypesInv /\ OriginsInv
    BY DEF ApiReportInv, ApiInv
  <2>2. \A s \in Scan : ReportsOf(s) \subseteq KnownOf(s)
    BY DEF KnownOf, ReportsOf, ReportsSent
  <2> QED
    BY <2>1, <2>2, KnownGenuine DEF ReportsKeepTheirScan, GenuineFor
<1> QED
  BY <1>1, ApiReportInvariant, PTL

-----------------------------------------------------------------------------
(***************************************************************************)
(* What run_scan returns is built beside what it saves.  On a hit it lists  *)
(* no result; the report it found is then another scan's, for a genuine one *)
(* of its own would say that its checks have run (GenuineInv).              *)
(***************************************************************************)
BuiltInv(s) ==
    way[s] = "call" /\ (pc[s] = "save" \/ result[s] = "ok") =>
        /\ built[s].scan_id = s /\ built[s].score = Measure(held[s])
        /\ \/ built[s].checks = held[s].checks
           \/ held[s].origin # s /\ built[s].checks = {}

LEMMA BuiltFrame ==
    ASSUME NEW t \in Scan, BuiltInv(t), way'[t] = way[t], held'[t] = held[t], built'[t] = built[t],
           way[t] = "call" =>
               /\ pc'[t] = "save" => pc[t] = "save"
               /\ result'[t] = "ok" => result[t] = "ok" \/ pc[t] = "save"
    PROVE  BuiltInv(t)'
BY DEF BuiltInv

LEMMA HitIsAnothers ==
    ASSUME ApiReportInv, NEW s \in Scan, CallMoves(s), CallHit(s)
    PROVE  LET r == NormalizeCachedReport(s, cache[DomainOf[s]])
           IN  r.origin # s \/ r.checks = {}
<1>1. cache[DomainOf[s]] \in GenuineOn(DomainOf[s])
  BY DomainAssumption DEF CallHit, ApiReportInv, OriginsInv
<1>2. way[s] = "call" /\ Idle(s)
  BY DEF CallMoves, CallHit, ApiReportInv, GuestsInv, GuestInv
<1>3. cache[DomainOf[s]].origin = s => cache[DomainOf[s]].checks = {}
  BY <1>1, <1>2 DEF GenuineOn, Genuine, Ran, Idle
<1> QED
  BY <1>1, <1>3 DEF NormalizeCachedReport, GenuineOn, Report

LEMMA CallBuilds ==
    ASSUME ApiReportInv, NEW s \in Scan, CallMoves(s), BuiltInv(s)
    PROVE  BuiltInv(s)'
<1>0. TypesInv
  BY DEF ApiReportInv, ApiInv
<1> USE <1>0 DEF TypesInv, ApiTypeInv, ApiTypeOK, TypeOK
<1>1. CASE CallHit(s)
  <2> DEFINE r == NormalizeCachedReport(s, cache[DomainOf[s]])
  <2>1. r \in Report /\ (r.origin # s \/ r.checks = {})
    BY <1>1, NormalizedType, HitIsAnothers DEF CallHit
  <2>2. held'[s] = r /\ built'[s] = [scan_id |-> s, score |-> Measure(r), checks |-> {}]
    BY <1>1 DEF CallHit, SaveHeld, Hold
  <2> HIDE DEF r
  <2> QED
    BY <2>1, <2>2 DEF BuiltInv
<1>2. ASSUME NEW good \in SUBSET Check, CallChecks(s, good)
      PROVE  BuiltInv(s)'
  <2> DEFINE r == [scan_id |-> s, origin |-> s, checks |-> good]
  <2>1. held'[s] = r /\ built'[s] = [scan_id |-> s, score |-> Measure(r), checks |-> good]
    BY <1>2 DEF CallChecks, SaveHeld, Hold
  <2>2. r.checks = good
    OBVIOUS
  <2> HIDE DEF r
  <2> QED
    BY <2>1, <2>2 DEF BuiltInv
<1>3. ASSUME NEW st \in Store, CallSaves(s, st)
      PROVE  BuiltInv(s)'
  BY <1>3, BuiltFrame DEF CallSaves, wayVars
<1>4. CASE CallReturns(s)
  BY <1>4, BuiltFrame DEF CallReturns, End, wayVars
<1> QED
  BY <1>1, <1>2, <1>3, <1>4 DEF CallMoves

LEMMA NextBuilt ==
    ASSUME ApiReportInv, \A s \in Scan : BuiltInv(s), ApiInv', [ApiNext]_apiVars, NEW t \in Scan
    PROVE  BuiltInv(t)'
<1>0. TypesInv /\ ScansInv /\ TypeInv /\ CallInv(t)' /\ BuiltInv(t)
  BY DEF ApiReportInv, ApiInv, ScansInv, TypesInv, ApiTypeInv, ApiTypeOK, TypeInv
<1>1. ASSUME Untouched(t)
      PROVE  BuiltInv(t)'
  BY <1>0, <1>1, BuiltFrame DEF Untouched
<1>2. ASSUME NEW s \in Scan, PostScan(s)
      PROVE  BuiltInv(t)'
  <2>1. CASE t = s
    BY <1>0, <1>2, <2>1 DEF PostScan, Start, TypesInv, ApiTypeInv, ApiTypeOK, BuiltInv
  <2>2. CASE t # s
    BY <1>1, <1>2, <2>2 DEF PostScan, Start, Enqueue, Untouched, storeVars, TypesInv, ApiTypeInv,
       ApiTypeOK, TypeOK
  <2> QED
    BY <2>1, <2>2
<1>3. ASSUME NEW s \in Scan, NEW w \in {"stream", "call"}, StartHere(s, w)
      PROVE  BuiltInv(t)'
  <2>1. CASE t = s
    <3>1. pc'[t] = "lookup"
      BY <1>0, <1>3, <2>1 DEF StartHere, TypeInv, TypeOK
    <3> QED
      BY <1>0, <3>1 DEF CallInv, BuiltInv
  <2>2. CASE t # s
    BY <1>1, <1>3, <2>2 DEF StartHere, Start, Untouched, storeVars, TypesInv, ApiTypeInv,
       ApiTypeOK, TypeOK
  <2> QED
    BY <2>1, <2>2
<1>4. ASSUME NEW s \in Scan, QueueMoves(s)
      PROVE  BuiltInv(t)'
  <2>1. CASE t # s
    BY <1>0, <1>1, <1>4, <2>1, QueueTouches DEF QueueMoves
  <2>2. CASE t = s /\ way[s] # "call"
    BY <1>4, <2>2 DEF QueueMoves, wayVars, BuiltInv
  <2>3. CASE t = s /\ CacheMiss(s)
    BY <1>0, <1>4, <2>3, BuiltFrame DEF QueueMoves, CacheMiss, wayVars, TypeInv, TypeOK
  <2> QED
    BY <1>4, <2>1, <2>2, <2>3 DEF QueueMoves
<1>5. ASSUME NEW s \in Scan, HereMoves(s)
      PROVE  BuiltInv(t)'
  <2>1. CASE t # s
    BY <1>0, <1>1, <1>5, <2>1, HereTouches DEF ScansInv
  <2>2. CASE t = s
    <3>1. way[s] = "call" => pc'[s] \in {"done", pc[s]} /\ result'[s] \in {"raised", result[s]}
      BY <1>0, <1>5 DEF HereMoves, FaultHere, LookupRaises, SaveRaises, RaiseOut, End, TypeInv,
         TypeOK
    <3> QED
      BY <1>0, <1>5, <2>2, <3>1, BuiltFrame DEF HereMoves, wayVars
  <2> QED
    BY <2>1, <2>2
<1>6. ASSUME NEW s \in Scan, CallMoves(s)
      PROVE  BuiltInv(t)'
  <2>1. CASE t # s
    BY <1>0, <1>1, <1>6, <2>1, CallTouches DEF ScansInv
  <2>2. CASE t = s
    BY <1>0, <1>6, <2>2, CallBuilds
  <2> QED
    BY <2>1, <2>2
<1>7. ASSUME NEW w \in Worker, Crash(w), UNCHANGED wayVars
      PROVE  BuiltInv(t)'
  BY <1>0, <1>7, BuiltFrame DEF Crash, wayVars
<1>8. CASE Expiry /\ UNCHANGED wayVars
  BY <1>1, <1>8 DEF Expiry, ExpireReport, ExpireCache, ExpireStream, wayVars, storeVars, Untouched
<1>9. ASSUME NEW g \in Request, GetStep(g)
      PROVE  BuiltInv(t)'
  BY <1>1, <1>9 DEF GetStep, GetRedis, GetMongo, WriteBack, GetFails, SaveBack, vars, wayVars,
     storeVars, Untouched
<1>10. CASE CrashApi
  BY <1>0, <1>10, BuiltFrame DEF CrashApi, wayVars
<1>11. CASE UNCHANGED apiVars
  BY <1>1, <1>11 DEF apiVars, vars, wayVars, Untouched
<1> QED
  BY <1>2, <1>3, <1>4, <1>5, <1>6, <1>7, <1>8, <1>9, <1>10, <1>11, ApiSteps DEF Elsewhere

(* run_scan that returned: MongoDB has a report under the scan_id it was     *)
(* called with, of the same score, and with the results that it listed, or   *)
(* with those of the scan whose report it found in the cache and did not.    *)
THEOREM ReturnedReportsAreStored == ApiSpec => []CallIsRetrievable
<1> DEFINE Built == \A s \in Scan : BuiltInv(s)
<1>1. ApiInit => Built
  BY DEF ApiInit, BuiltInv
<1>2. ApiReportInv /\ Built /\ ApiInv' /\ [ApiNext]_apiVars => Built'
  BY NextBuilt
<1>3. ApiInv /\ Built => CallIsRetrievable
  <2> SUFFICES ASSUME ApiInv, NEW s \in Scan, BuiltInv(s), way[s] = "call", result[s] = "ok"
               PROVE  /\ mongo[s] # NoReport /\ mongo[s].scan_id = built[s].scan_id
                      /\ Measure(mongo[s]) = built[s].score
                      /\ \/ built[s].checks = mongo[s].checks
                         \/ mongo[s].origin # s /\ built[s].checks = {}
    BY DEF CallIsRetrievable
  <2>1. mongo[s] = held[s] /\ held[s] \in Report /\ held[s].scan_id = s
    BY DEF ApiInv, ScansInv, CallInv
  <2> QED
    BY <2>1, NullsAssumption DEF BuiltInv
<1> HIDE DEF Built
<1> QED
  BY <1>1, <1>2, <1>3, ApiInvariant, ApiReportInvariant, PTL DEF ApiSpec

-----------------------------------------------------------------------------
(***************************************************************************)
(* The two stores of a scan that is over.  Two arguments meet.  A scan that *)
(* tells its checks saves before it answers (SaveInv); what Redis then holds *)
(* is its own save, or what a request wrote back since (ReadBack).  And of  *)
(* a scan that was attempted once there is one report only: until it saves  *)
(* none of it is known anywhere, and what a request can write back is that  *)
(* report (OnceInv).                                                        *)
(***************************************************************************)
ReadBack(s) == \E g \in ReadersOf(s) : at[g] \in {"200", "500"} /\ redis[s] = found[g]

ResultInv(s) == way[s] = "stream" /\ pc[s] # "done" => result[s] = "none"
CallRest(s) ==
    way[s] = "call" => tries[s] = 1 /\ (pc[s] \in {"lookup", "collect"} => saving[s] = {})
SettleInv(s) ==
    way[s] # "call" =>
        /\ SaveInv(s)
        /\ Settling(s) => redis[s] \in {NoReport, FreshReport(s)} \/ ReadBack(s)

(* Nothing of the scan has been saved yet.                                   *)
Early(s) ==
    \/ tries[s] = 0 \/ pc[s] \in {"lookup", "collect"}
    \/ Publishing(s) /\ outbox[s].event \in CheckEvents

Copies(s) == ({redis[s], mongo[s]} \cup {found[g] : g \in ReadersOf(s)}) \ {NoReport}
OnceInv(s) == tries[s] <= 1 => Copies(s) \subseteq IF Early(s) THEN {} ELSE {Saves(s)}

EndInv(s) ==
    /\ EventLast(s) /\ ResultInv(s) /\ CallRest(s) /\ SettleInv(s) /\ OnceInv(s)

ApiEndInv == ApiReportInv /\ \A s \in Scan : EndInv(s)

(* A step of scan s touches no other.                                        *)
LEMMA ScanTouchesOne ==
    ASSUME TypesInv, ScansInv, GuestsInv, NEW s \in Scan, OfScan(s)
    PROVE  /\ SavesOnlyOf(s)
           /\ \A t \in Scan \ {s} : way'[t] = way[t] /\ held'[t] = held[t]
<1>0. TypeInv /\ CallInv(s)
  BY DEF TypesInv, ApiTypeInv, ApiTypeOK, TypeInv, ScansInv
<1>1. /\ OnlyOf(s)
      /\ \A t \in Scan \ {s} : way'[t] = way[t]
  BY ScanGuest
<1>2. CASE PostScan(s) \/ \E w \in {"stream", "call"} : StartHere(s, w)
  BY <1>1, <1>2 DEF PostScan, Start, Enqueue, StartHere, storeVars, SavesOnlyOf
<1>3. CASE QueueMoves(s)
  <2>1. \A t \in Scan \ {s} : Untouched(t)
    BY <1>0, <1>3, QueueTouches DEF QueueMoves
  <2>2. \A t \in Scan \ {s} : redis'[t] = redis[t]
    BY <1>0, <1>3, QueueSources DEF QueueMoves, Sources
  <2> QED
    BY <1>1, <2>1, <2>2 DEF Untouched, SavesOnlyOf
<1>4. CASE HereMoves(s)
  <2>1. \A t \in Scan \ {s} : Untouched(t)
    BY <1>0, <1>4, HereTouches
  <2>2. \A t \in Scan \ {s} : redis'[t] = redis[t]
    BY <1>0, <1>4, HereSources DEF Sources
  <2> QED
    BY <1>1, <2>1, <2>2 DEF Untouched, SavesOnlyOf
<1>5. CASE CallMoves(s)
  <2>1. \A t \in Scan \ {s} : Untouched(t)
    BY <1>0, <1>5, CallTouches
  <2>2. ~Publishing(s)
    BY <1>5 DEF CallMoves, GuestsInv, GuestInv
  <2>3. \A t \in Scan \ {s} : redis'[t] = redis[t]
    BY <1>0, <1>5, <2>2, CallSources DEF Sources
  <2> QED
    BY <1>1, <2>1, <2>3 DEF Untouched, SavesOnlyOf
<1> QED
  BY <1>2, <1>3, <1>4, <1>5 DEF OfScan

LEMMA NextEventLast ==
    ASSUME TypesInv, NEW t \in Scan, Move(t), EventLast(t)
    PROVE  EventLast(t)'
<1>0. TypeInv
  BY DEF TypesInv, ApiTypeInv, ApiTypeOK, TypeInv
<1>1. CASE Stays(t)
  BY <1>1 DEF Stays, Silent, Goes, EventLast
<1>2. CASE Adds(t) /\ pc'[t] = "expire"
  <2>1. /\ stream[t] \in Seq(Event) /\ outbox[t] \in Event /\ outbox'[t] = outbox[t]
        /\ stream'[t] = Append(stream[t], outbox[t])
    BY <1>0, <1>2 DEF Adds, Append1, TypeInv, TypeOK, OutboxSet, ScanError
  <2>2. Append(stream[t], outbox[t]) # << >> /\ Last(Append(stream[t], outbox[t])) = outbox[t]
    BY ONLY <2>1, LastOfAppend
  <2> QED
    BY <2>1, <2>2 DEF EventLast
<1>3. CASE pc'[t] # "expire"
  BY <1>3 DEF EventLast
<1> QED
  BY <1>1, <1>2, <1>3 DEF Move, Begins, Collects, StartsSaving, Publishes, Ends, Goes

(* A scan that saved once is attempted again before it forgets.              *)
LEMMA EarlyMove ==
    ASSUME TypesInv, NEW t \in Scan, Move(t), ~Early(t)
    PROVE  ~Early(t)' \/ tries'[t] >= 2
<1>1. tries[t] \in Nat /\ tries[t] # 0
  BY BoundsAssumption DEF TypesInv, ApiTypeInv, ApiTypeOK, TypeOK, Early
<1>2. CASE Begins(t)
  BY <1>1, <1>2 DEF Begins
<1>3. CASE Stays(t)
  BY <1>3 DEF Stays, Goes, Early, Publishing
<1>4. CASE Publishes(t)
  BY <1>1, <1>4 DEF Publishes, Goes, Early, Publishing, CheckEvents
<1>5. CASE Adds(t)
  BY <1>1, <1>5 DEF Adds, Early, Publishing, ScanError, CheckEvents
<1>6. CASE Ends(t)
  BY <1>1, <1>6 DEF Ends, Early, Publishing
<1> QED
  BY <1>2, <1>3, <1>4, <1>5, <1>6 DEF Move, Collects, StartsSaving, Early, HasToTell, Publishing

LEMMA EarlySaves ==
    ASSUME NEW s \in Scan, GuestInv(s), CallRest(s), Early(s), TypesInv
    PROVE  saving[s] = {}
<1>1. CASE way[s] = "call"
  BY <1>1 DEF CallRest, Early, GuestInv
<1>2. CASE way[s] # "call"
  <2>1. AttemptInv(s)
    BY <1>2 DEF GuestInv
  <2>2. saving[s] # {} => tries[s] >= 1
    BY <2>1 DEF AttemptInv, Closed
  <2> QED
    BY <2>1, <2>2 DEF AttemptInv, Early, Publishing, CheckEvents, TerminalEvents
<1> QED
  BY <1>1, <1>2

-----------------------------------------------------------------------------
(* The result of a streamed response is known only at its end.               *)
LEMMA NextResult ==
    ASSUME TypesInv, ScansInv, GuestsInv, [ApiNext]_apiVars, NEW t \in Scan, ResultInv(t)
    PROVE  ResultInv(t)'
<1>0. TypeInv /\ GuestInv(t) /\ RunInv(t)
  BY DEF TypesInv, ApiTypeInv, ApiTypeOK, TypeInv, GuestsInv, ScansInv
<1>1. ASSUME NEW s \in Scan, OfScan(s), s # t
      PROVE  ResultInv(t)'
  BY <1>1, ScanTouchesOne DEF SavesOnlyOf, OnlyOf, ResultInv
<1>2. CASE PostScan(t) \/ \E w \in {"stream", "call"} : StartHere(t, w)
  BY <1>0, <1>2 DEF PostScan, Enqueue, StartHere, RunInv, ResultInv, TypeInv, TypeOK
<1>3. CASE ScanStep(t)
  <2>1. way'[t] = way[t]
    BY <1>3 DEF ScanStep, CallStep, CallHit, CallReturns, CallChecks, CallSaves, wayVars
  <2>2. CASE way[t] = "stream"
    <3>1. CASE CacheHit(t) \/ CacheMiss(t) \/ ComputeAndSave(t) \/ GatherDone(t)
               \/ \E c \in Check, ok \in BOOLEAN : NextCheck(t, c, ok)
      BY <1>0, <2>1, <3>1 DEF CacheHit, CacheMiss, ComputeAndSave, GatherDone, NextCheck, Publish,
         ResultInv, TypeInv, TypeOK
    <3>2. CASE \E st \in Store : SaveLands(t, st)
      BY <2>1, <3>2 DEF SaveLands, ResultInv
    <3>3. CASE Send(t) \/ Disconnect(t)
      BY <1>0, <2>1, <3>3 DEF Send, Disconnect, End, ResultInv, Running, Active, TypeInv, TypeOK
    <3>4. CASE FaultHere(t)
      BY <1>0, <2>1, <3>4 DEF FaultHere, LookupRaises, SaveRaises, RaiseOut, End, ResultInv,
         TypeInv, TypeOK
    <3> QED
      BY <1>3, <2>2, <3>1, <3>2, <3>3, <3>4 DEF ScanStep, StreamStep
  <2>3. CASE way[t] # "stream"
    BY <2>1, <2>3 DEF ResultInv
  <2> QED
    BY <2>2, <2>3
<1>4. ASSUME NEW w \in Worker, Crash(w), way' = way
      PROVE  ResultInv(t)'
  BY <1>0, <1>4 DEF Crash, ResultInv
<1>5. ASSUME Expiry \/ UNCHANGED apiVars \/ \E g \in Request : GetStep(g), way' = way
      PROVE  ResultInv(t)'
  BY <1>5 DEF Expiry, ExpireReport, ExpireStream, ExpireCache, apiVars, vars, GetStep, GetRedis,
     GetMongo, WriteBack, GetFails, SaveBack, ResultInv
<1>6. CASE CrashApi
  BY <1>0, <1>6 DEF CrashApi, wayVars, ResultInv
<1>7. ASSUME NEW s \in Scan, ScanStep(s), UNCHANGED getVars
      PROVE  OfScan(s)
  BY <1>7 DEF ScanStep, StreamStep, CallStep, OfScan, QueueMoves, HereMoves, CallMoves, QueueStep,
     JobStep
<1>8. ASSUME NEW s \in Scan, PostScan(s) \/ PostScanStream(s) \/ CallRunScan(s)
      PROVE  /\ OfScan(s)
             /\ PostScan(s) \/ \E w \in {"stream", "call"} : StartHere(s, w)
  BY <1>8 DEF PostScanStream, CallRunScan, OfScan
<1>9. ASSUME NEW g \in Request, GetStep(g)
      PROVE  way' = way
  BY <1>9 DEF GetStep, GetRedis, GetMongo, WriteBack, GetFails, wayVars
<1>10. CASE ApiStep
  <2>1. ASSUME NEW s \in Scan, PostScan(s) \/ PostScanStream(s) \/ CallRunScan(s)
        PROVE  ResultInv(t)'
    BY <1>1, <1>2, <1>8, <2>1
  <2>2. ASSUME NEW s \in Scan, ScanStep(s), UNCHANGED getVars
        PROVE  ResultInv(t)'
    BY <1>1, <1>3, <1>7, <2>2
  <2>3. ASSUME (\E w \in Worker : Crash(w)) \/ Expiry, UNCHANGED <<wayVars, getVars>>
        PROVE  ResultInv(t)'
    BY <1>4, <1>5, <2>3 DEF wayVars
  <2> QED
    BY <1>5, <1>6, <1>9, <1>10, <2>1, <2>2, <2>3 DEF ApiStep
<1>11. CASE UNCHANGED apiVars
  BY <1>5, <1>11 DEF apiVars, wayVars
<1> QED
  BY <1>10, <1>11 DEF ApiNext

LEMMA NextCallRest ==
    ASSUME TypesInv, ScansInv, GuestsInv, [ApiNext]_apiVars, NEW t \in Scan, CallRest(t)
    PROVE  CallRest(t)'
<1>0. TypeInv /\ GuestInv(t) /\ RunInv(t)
  BY DEF TypesInv, ApiTypeInv, ApiTypeOK, TypeInv, GuestsInv, ScansInv
<1>1. ASSUME NEW s \in Scan, OfScan(s), s # t
      PROVE  CallRest(t)'
  BY <1>1, ScanTouchesOne DEF SavesOnlyOf, OnlyOf, CallRest
<1>2. CASE PostScan(t) \/ \E w \in {"stream", "call"} : StartHere(t, w)
  <2>1. pc[t] = "absent" /\ saving[t] = {}
    BY <1>0, <1>2 DEF PostScan, Enqueue, StartHere, RunInv
  <2>2. CASE PostScan(t)
    BY <2>2 DEF PostScan, Start, CallRest, TypesInv, ApiTypeInv, ApiTypeOK
  <2>3. CASE \E w \in {"stream", "call"} : StartHere(t, w)
    BY <1>0, <2>1, <2>3 DEF StartHere, CallRest, TypeInv, TypeOK
  <2> QED
    BY <1>2, <2>2, <2>3
<1>3. CASE QueueMoves(t)
  <2>1. way'[t] = way[t]
    BY <1>3 DEF QueueMoves, wayVars
  <2>2. CASE CacheMiss(t)
    BY <1>0, <2>1, <2>2 DEF CacheMiss, queueVars, CallRest, TypeInv, TypeOK
  <2> QED
    BY <1>3, <2>1, <2>2 DEF QueueMoves, CallRest
<1>4. CASE HereMoves(t)
  <2>1. way'[t] = way[t] /\ (way[t] = "call" => FaultHere(t))
    BY <1>4 DEF HereMoves, wayVars
  <2>2. CASE LookupRaises(t)
    BY <1>0, <2>1, <2>2 DEF LookupRaises, RaiseOut, End, queueVars, CallRest, TypeInv, TypeOK,
       Running, Active
  <2>3. ASSUME NEW st \in Store, SaveRaises(t, st)
        PROVE  CallRest(t)'
    BY <1>0, <2>1, <2>3 DEF SaveRaises, RaiseOut, End, queueVars, CallRest, TypeInv, TypeOK
  <2> QED
    BY <2>1, <2>2, <2>3 DEF FaultHere, CallRest
<1>5. CASE CallMoves(t)
  <2>1. CASE CallHit(t) \/ CallReturns(t) \/ \E good \in SUBSET Check : CallChecks(t, good)
    BY <1>0, <1>5, <2>1 DEF CallMoves, CallHit, CallReturns, CallChecks, SaveHeld, Hold, End, queueVars,
       CallRest, TypeInv, TypeOK
  <2>2. CASE \E st \in Store : CallSaves(t, st)
    BY <1>0, <1>5, <2>2 DEF CallMoves, CallSaves, queueVars, CallRest, TypeInv, TypeOK
  <2> QED
    BY <1>5, <2>1, <2>2 DEF CallMoves
<1>6. CASE Elsewhere
  BY <1>0, <1>6 DEF Elsewhere, Crash, Expiry, ExpireReport, ExpireStream, ExpireCache, queueVars,
     wayVars, CallRest
<1>7. CASE CrashApi
  BY <1>0, <1>7 DEF CrashApi, queueVars, wayVars, CallRest
<1>8. ASSUME UNCHANGED apiVars \/ \E g \in Request : GetStep(g)
      PROVE  CallRest(t)'
  BY <1>8 DEF apiVars, vars, wayVars, GetStep, GetRedis, GetMongo, WriteBack, GetFails, SaveBack,
     queueVars, CallRest
<1> QED
  BY <1>1, <1>2, <1>3, <1>4, <1>5, <1>6, <1>7, <1>8, OfScans DEF OfScan

-----------------------------------------------------------------------------
(* One attempt, one report.                                                  *)

LEMMA SavesStay ==
    ASSUME TypesInv, ScansInv, GuestsInv, [ApiNext]_apiVars, NEW t \in Scan,
           ~Early(t), tries'[t] <= 1
    PROVE  Saves(t)' = Saves(t)
<1>0. TypeInv /\ GuestInv(t) /\ RunInv(t) /\ tries[t] \in Nat /\ tries[t] # 0
  BY BoundsAssumption DEF TypesInv, ApiTypeInv, ApiTypeOK, TypeInv, TypeOK, GuestsInv, ScansInv, Early
<1>1. ASSUME way'[t] = way[t], held'[t] = held[t], outcome'[t] = outcome[t]
      PROVE  Saves(t)' = Saves(t)
  BY <1>1 DEF Saves, FreshReport
<1>2. ASSUME NEW s \in Scan, OfScan(s), s # t
      PROVE  Saves(t)' = Saves(t)
  BY <1>1, <1>2, ScanTouchesOne DEF SavesOnlyOf, OnlyOf
<1>3. CASE OfScan(t)
  <2>1. ~PostScan(t) /\ ~(\E w \in {"stream", "call"} : StartHere(t, w))
    BY <1>0 DEF PostScan, Enqueue, StartHere, RunInv
  <2>2. CASE QueueMoves(t)
    <3>1. ASSUME NEW w \in Worker
          PROVE  ~StartJob(w, t)
      BY <1>0 DEF StartJob, TypeInv, TypeOK
    <3>2. ASSUME NEW c \in Check, NEW ok \in BOOLEAN
          PROVE  ~NextCheck(t, c, ok)
      BY DEF NextCheck, Early
    <3>3. outcome' = outcome
      BY <2>2, <3>1, <3>2 DEF QueueMoves, QueueStep, Exhausted, JobTimeout, JobStep, CacheHit, CacheMiss,
         ComputeAndSave, GatherDone, SaveLands, Xadd, Expire, FinishJob, Fault, LookupFails,
         XaddFails, ExpireFails, SaveFails
    <3> QED
      BY <1>1, <2>2, <3>3 DEF QueueMoves, wayVars
  <2>3. CASE HereMoves(t)
    BY <1>1, <2>3 DEF HereMoves, Send, Disconnect, FaultHere, LookupRaises, SaveRaises, wayVars
  <2>4. CASE CallMoves(t)
    <3>1. ~CallHit(t) /\ \A good \in SUBSET Check : ~CallChecks(t, good)
      BY DEF CallHit, CallChecks, Early
    <3> QED
      BY <1>1, <2>4, <3>1 DEF CallMoves, CallReturns, CallSaves, wayVars
  <2> QED
    BY <1>3, <2>1, <2>2, <2>3, <2>4 DEF OfScan
<1>4. ASSUME Elsewhere \/ CrashApi \/ UNCHANGED apiVars \/ \E g \in Request : GetStep(g)
      PROVE  Saves(t)' = Saves(t)
  BY <1>1, <1>4 DEF Elsewhere, Crash, Expiry, ExpireReport, ExpireStream, ExpireCache, CrashApi,
     apiVars, vars, wayVars, GetStep, GetRedis, GetMongo, WriteBack, GetFails, SaveBack
<1> QED
  BY <1>2, <1>3, <1>4, OfScans

(* What is known of a scan's reports after a step was known, or is its save. *)
CopiesStep(t) == Copies(t)' \subseteq Copies(t) \cup (IF saving[t] = {} THEN {} ELSE {Saves(t)})

LEMMA ScanCopies ==
    ASSUME TypesInv, ScansInv, GuestsInv, NEW s \in Scan, OfScan(s), NEW t \in Scan
    PROVE  CopiesStep(t)
<1>0. TypeInv
  BY DEF TypesInv, ApiTypeInv, ApiTypeOK, TypeInv
<1>1. asked' = asked /\ found' = found
  BY DEF OfScan, PostScan, Start, StartHere, QueueMoves, HereMoves, CallMoves, getVars
<1>2. {found[g] : g \in ReadersOf(t)}' = {found[g] : g \in ReadersOf(t)}
  BY <1>1 DEF ReadersOf
<1>3. ASSUME redis'[t] = redis[t] \/ (saving[t] # {} /\ redis'[t] = Saves(t)),
             mongo'[t] = mongo[t] \/ (saving[t] # {} /\ mongo'[t] = Saves(t))
      PROVE  CopiesStep(t)
  BY <1>2, <1>3 DEF CopiesStep, Copies
<1>4. CASE t # s
  BY <1>3, <1>4, ScanTouchesOne DEF SavesOnlyOf
<1>5. CASE t = s
  <2>1. CASE redis' = redis /\ mongo' = mongo
    BY <1>3, <2>1
  <2>2. CASE Sources(s, Saves(s))
    BY <1>3, <1>5, <2>2 DEF Sources
  <2>3. CASE PostScan(s) \/ \E w \in {"stream", "call"} : StartHere(s, w)
    BY <2>1, <2>3 DEF PostScan, Enqueue, StartHere, storeVars
  <2>4. CASE QueueMoves(s)
    <3>1. CASE way[s] # "call"
      BY <1>0, <2>2, <2>4, <3>1, QueueSources DEF QueueMoves, Saves
    <3>2. CASE CacheMiss(s)
      BY <2>1, <3>2 DEF CacheMiss, storeVars
    <3> QED
      BY <2>4, <3>1, <3>2 DEF QueueMoves
  <2>5. CASE HereMoves(s)
    BY <1>0, <2>2, <2>5, HereSources
  <2>6. CASE CallMoves(s)
    <3>1. ~Publishing(s)
      BY <2>6 DEF CallMoves, GuestsInv, GuestInv
    <3> QED
      BY <1>0, <2>2, <2>6, <3>1, CallSources
  <2> QED
    BY <2>3, <2>4, <2>5, <2>6 DEF OfScan
<1> QED
  BY <1>4, <1>5

LEMMA GetCopies ==
    ASSUME TypesInv, OriginsInv, NEW g \in Request, GetStep(g), NEW t \in Scan
    PROVE  Copies(t)' \subseteq Copies(t)
<1> USE DEF TypesInv, ApiTypeInv, ApiTypeOK, TypeOK
<1>1. ServedInv(g)
  BY DEF OriginsInv
<1>2. /\ mongo' = mongo
      /\ \A h \in Request \ {g} : asked'[h] = asked[h] /\ found'[h] = found[h]
  <2>1. mongo' = mongo
    BY DEF GetStep, GetRedis, GetMongo, WriteBack, GetFails, SaveBack, vars, storeVars
  <2>2. ASSUME NEW h \in Request \ {g}
        PROVE  asked'[h] = asked[h] /\ found'[h] = found[h]
    BY <2>2 DEF GetStep, GetRedis, GetMongo, WriteBack, GetFails
  <2> QED
    BY <2>1, <2>2
<1>3. redis'[t] \in Copies(t) \cup {redis[t], NoReport}
  <2>1. CASE redis' = redis
    BY <2>1
  <2>2. CASE at[g] = "back" /\ SaveBack(g)
    <3>1. redis'[t] = redis[t] \/ (t = asked[g] /\ redis'[t] = found[g])
      BY <2>2 DEF SaveBack
    <3> QED
      BY <3>1 DEF Copies, ReadersOf
  <2> QED
    BY <2>1, <2>2 DEF GetStep, GetRedis, GetMongo, WriteBack, GetFails, vars, storeVars
<1>4. asked'[g] = t => found'[g] \in Copies(t) \cup {NoReport}
  <2>1. CASE asked[g] = t /\ found' = found
    BY <2>1 DEF Copies, ReadersOf
  <2>2. ASSUME NEW s \in Scan, GetRedis(g, s)
        PROVE  asked'[g] = t => found'[g] \in Copies(t) \cup {NoReport}
    BY <1>1, <2>2 DEF GetRedis, ServedInv, Copies
  <2>3. CASE GetMongo(g)
    <3>1. asked' = asked
      BY <2>3 DEF GetMongo
    <3>2. found' = found \/ found'[g] = mongo[asked[g]]
      BY <2>3 DEF GetMongo
    <3> QED
      BY <2>1, <3>1, <3>2 DEF Copies
  <2>4. CASE WriteBack(g)
    BY <2>1, <2>4 DEF WriteBack
  <2>5. ASSUME NEW s \in Scan, GetFails(g, s)
        PROVE  asked'[g] = t => found'[g] \in Copies(t) \cup {NoReport}
    BY <1>1, <2>1, <2>5 DEF GetFails, ServedInv
  <2> QED
    BY <2>2, <2>3, <2>4, <2>5 DEF GetStep
<1>5. ASSUME NEW h \in Request, asked'[h] = t
      PROVE  found'[h] \in Copies(t) \cup {NoReport}
  <2>1. CASE h = g
    BY <1>4, <1>5, <2>1
  <2>2. CASE h # g
    BY <1>2, <1>5, <2>2 DEF Copies, ReadersOf
  <2> QED
    BY <2>1, <2>2
<1>6. mongo'[t] \in Copies(t) \cup {NoReport} /\ redis[t] \in Copies(t) \cup {NoReport}
  BY <1>2 DEF Copies
<1> QED
  BY <1>3, <1>5, <1>6 DEF Copies, ReadersOf

LEMMA NextCopies ==
    ASSUME TypesInv, ScansInv, GuestsInv, OriginsInv, [ApiNext]_apiVars, NEW t \in Scan
    PROVE  CopiesStep(t)
<1>1. ASSUME Elsewhere \/ CrashApi \/ UNCHANGED apiVars
      PROVE  CopiesStep(t)
  <2>1. mongo' = mongo /\ asked' = asked /\ found' = found
    BY <1>1 DEF Elsewhere, Crash, Expiry, ExpireReport, ExpireStream, ExpireCache, CrashApi, apiVars,
       vars, storeVars, getVars
  <2>2. redis'[t] \in {redis[t], NoReport}
    BY <1>1 DEF Elsewhere, Crash, Expiry, ExpireReport, ExpireStream, ExpireCache, CrashApi, apiVars,
       vars, storeVars, TypesInv, ApiTypeInv, ApiTypeOK, TypeOK
  <2> QED
    BY <2>1, <2>2 DEF CopiesStep, Copies, ReadersOf
<1>2. ASSUME NEW g \in Request, GetStep(g)
      PROVE  CopiesStep(t)
  BY <1>2, GetCopies DEF CopiesStep
<1> QED
  BY <1>1, <1>2, ScanCopies, OfScans

LEMMA NextOnce ==
    ASSUME TypesInv, ScansInv, GuestsInv, OriginsInv, [ApiNext]_apiVars, NEW t \in Scan,
           CallRest(t), OnceInv(t)
    PROVE  OnceInv(t)'
<1> SUFFICES ASSUME tries'[t] <= 1
             PROVE  Copies(t)' \subseteq IF Early(t)' THEN {} ELSE {Saves(t)'}
  BY DEF OnceInv
<1>1. Move(t) /\ CopiesStep(t)
  BY ApiMoves, NextCopies
<1>2. tries[t] \in Nat /\ tries[t] <= 1 /\ tries'[t] \in Nat
  <2>1. tries[t] \in Nat
    BY BoundsAssumption DEF TypesInv, ApiTypeInv, ApiTypeOK, TypeOK
  <2>2. tries'[t] = tries[t] \/ tries'[t] = tries[t] + 1
    BY <1>1 DEF Move, Begins, Stays, Collects, StartsSaving, Publishes, Adds, Ends, Goes
  <2> QED
    BY <2>1, <2>2
<1>3. CASE Early(t)
  <2>1. saving[t] = {}
    BY <1>3, EarlySaves DEF GuestsInv
  <2>2. Copies(t) = {}
    BY <1>2, <1>3 DEF OnceInv
  <2> QED
    BY <1>1, <2>1, <2>2 DEF CopiesStep
<1>4. CASE ~Early(t)
  <2>1. ~Early(t)'
    BY <1>1, <1>2, <1>4, EarlyMove
  <2>2. Copies(t) \subseteq {Saves(t)}
    BY <1>2, <1>4 DEF OnceInv
  <2>3. Saves(t)' = Saves(t)
    BY <1>4, SavesStay
  <2> QED
    BY <1>1, <2>1, <2>2, <2>3 DEF CopiesStep
<1> QED
  BY <1>3, <1>4

-----------------------------------------------------------------------------
(* A streamed response saves before it answers, as a job does.               *)

LEMMA StartHereSaves ==
    ASSUME TypeInv, NEW s \in Scan, NEW w \in {"stream", "call"}, RunInv(s), StartHere(s, w)
    PROVE  SaveInv(s)' /\ RedisStep(s)
<1>1. pc'[s] = "lookup" /\ tries'[s] = 1 /\ stream' = stream /\ tries[s] = 0
  BY DEF StartHere, streamVars, RunInv, TypeInv, TypeOK
<1>2. \A i \in DOMAIN stream[s] : stream[s][i].run # 1
  <2>1. \A i \in DOMAIN stream[s] : stream[s][i].run \in Nat
    BY StreamTyped
  <2>2. \A i \in DOMAIN stream[s] : stream[s][i].run <= 0
    BY <1>1 DEF RunInv
  <2> QED
    BY <2>1, <2>2
<1>3. ~Measured(s, tries[s])' /\ \A event : ~Said(s, tries[s], event)'
  BY <1>1, <1>2 DEF Measured, CheckPositions, Said
<1> QED
  BY <1>1, <1>3 DEF SaveInv, RedisStep, Settling, Announcing, Succeeded

LEMMA SendSaves ==
    ASSUME TypeInv, RunsStay, NEW s \in Scan, OwnEvent(s), SaveInv(s), Send(s)
    PROVE  SaveInv(s)' /\ RedisStep(s)
<1>0. SaveInv(s)
  OBVIOUS
<1>1. /\ pc[s] = "xadd" /\ Append1(s) /\ tries' = tries /\ outcome' = outcome
      /\ saving' = saving /\ redis' = redis /\ mongo' = mongo
      /\ \/ outbox[s].event \in CheckEvents /\ pc'[s] = "collect"
         \/ outbox[s].event \notin CheckEvents /\ pc'[s] = "done"
  BY DEF Send, End, queueVars, storeVars, TypeInv, TypeOK
<1>2. \A n, event :
          Said(s, n, event)' <=>
              Said(s, n, event) \/ (n = tries[s] /\ event = outbox[s].event)
  BY <1>1, XaddSaid
<1>3. CASE outbox[s].event \in CheckEvents
  <2>1. \A event \in TerminalEvents : ~Said(s, tries[s], event)'
    BY <1>0, <1>1, <1>2, <1>3 DEF Unanswered, SaveInv, TerminalEvents, CheckEvents
  <2> QED
    BY <1>1, <1>3, <2>1 DEF SaveInv, RedisStep, Settling, Announcing, Succeeded, CheckEvents
<1>4. CASE outbox[s].event \notin CheckEvents
  <2>1. pc'[s] = "done"
    BY <1>1, <1>4
  <2>2. Succeeded(s)' => Announcing(s)
    <3>1. Measured(s, tries[s])' <=>
              Said(s, tries[s], "check_complete")' \/ Said(s, tries[s], "check_error")'
      BY <1>1 DEF Measured, CheckPositions, Said, CheckEvents
    <3>2. Measured(s, tries[s]) <=>
              Said(s, tries[s], "check_complete") \/ Said(s, tries[s], "check_error")
      BY MeasuredIsSaid
    <3>3. Measured(s, tries[s])' => Measured(s, tries[s])
      BY <1>1, <1>2, <1>4, <3>1, <3>2 DEF CheckEvents
    <3>4. outbox[s].event = "scan_error" => ~Succeeded(s)'
      <4>1. PICK k \in Nat : /\ DOMAIN stream'[s] = DOMAIN stream[s] \cup {k}
                             /\ stream'[s][k] = outbox[s]
        BY <1>1, AppendOne
      <4>2. ScanError(s)' = ScanError(s)
        BY <1>1 DEF ScanError
      <4>3. outbox[s].event = "scan_error" => outbox[s] = ScanError(s)
        BY <1>0, <1>1 DEF SaveInv
      <4>4. outbox[s].event = "scan_error" =>
                \E i \in DOMAIN stream'[s] : stream'[s][i] = ScanError(s)'
        BY <4>1, <4>2, <4>3
      <4> QED
        BY <4>4 DEF Succeeded
    <3>5. outbox[s].event \in {"scan_error", "scan_complete"}
      BY <1>1, <1>4 DEF TypeInv, OutboxSet, Event, TerminalEvents
    <3> QED
      BY <1>1, <3>3, <3>4, <3>5 DEF Succeeded, Announcing
  <2>3. Succeeded(s)' => Saved(s)'
    <3>1. Saved(s) => Saved(s)'
      BY <1>1, SavedStays
    <3> QED
      BY <1>0, <2>2, <3>1 DEF SaveInv
  <2>4. FreshReport(s)' = FreshReport(s)
    BY <1>1 DEF FreshReport
  <2>5. ~Announcing(s)' /\ ~Unanswered(s)'
    BY <2>1 DEF Announcing, Unanswered
  <2> QED
    BY <1>1, <2>1, <2>2, <2>3, <2>4, <2>5 DEF SaveInv, RedisStep, Settling
<1> QED
  BY <1>3, <1>4

LEMMA HereKeepsSaves ==
    ASSUME TypeInv, RunsStay, NEW s \in Scan, OwnEvent(s), SaveInv(s), HereMoves(s)
    PROVE  SaveInv(s)' /\ RedisStep(s)
<1>1. CASE Disconnect(s) \/ LookupRaises(s)
  BY <1>1, NoPromise DEF Disconnect, LookupRaises, RaiseOut, End, Running, Active, TypeInv, TypeOK
<1>2. ASSUME NEW st \in Store, SaveRaises(s, st)
      PROVE  SaveInv(s)' /\ RedisStep(s)
  <2>1. st \in saving[s] /\ UNCHANGED <<tries, outcome, stream>>
    BY <1>2 DEF SaveRaises, queueVars, streamVars
  <2>2. CASE Running(s)
    BY <1>2, <2>2, NoPromise DEF SaveRaises, RaiseOut, End, TypeInv, TypeOK
  <2>3. CASE ~Running(s)
    <3>1. UNCHANGED <<pc, result, outbox>>
      BY <1>2, <2>3 DEF SaveRaises, RaiseOut
    <3>2. ~Succeeded(s)
      BY <2>1 DEF SaveInv, Saved
    <3>3. ~Succeeded(s)'
      BY <2>1, <3>1, <3>2 DEF Succeeded, Measured, CheckPositions, ScanError
    <3>4. pc'[s] \notin {"lookup", "collect", "save", "xadd", "expire"}
      BY <2>3, <3>1 DEF Running, Active
    <3> QED
      BY <3>3, <3>4 DEF SaveInv, RedisStep, Settling, Unanswered, Announcing
  <2> QED
    BY <2>2, <2>3
<1> QED
  BY <1>1, <1>2, SendSaves DEF HereMoves, FaultHere

(* What Redis has is the scan's own save, or what was written back.          *)
LEMMA ScanSettles ==
    ASSUME TypesInv, ScansInv, GuestsInv, RunsStay, NEW s \in Scan, OfScan(s),
           EventLast(s), SettleInv(s)
    PROVE  SettleInv(s)'
<1>0. TypeInv /\ GuestInv(s) /\ RunInv(s) /\ OwnEvent(s)
  BY OwnEventHere DEF TypesInv, ApiTypeInv, ApiTypeOK, TypeInv, GuestsInv, ScansInv
<1>1. at' = at /\ asked' = asked /\ found' = found
  BY DEF OfScan, PostScan, Start, StartHere, QueueMoves, HereMoves, CallMoves, getVars
<1>2. ASSUME way[s] # "call", SaveInv(s)' /\ RedisStep(s)
      PROVE  SettleInv(s)'
  <2>1. Settling(s) => redis[s] \in {NoReport, FreshReport(s)} \/ ReadBack(s)
    BY <1>2 DEF SettleInv
  <2>2. redis'[s] = redis[s] /\ ReadBack(s) => ReadBack(s)'
    BY <1>1 DEF ReadBack, ReadersOf
  <2> QED
    BY <1>2, <2>1, <2>2 DEF SettleInv, RedisStep
<1>3. CASE PostScan(s)
  <2>1. way[s] # "call" /\ Enqueue(s)
    BY <1>0, <1>3 DEF PostScan, Enqueue, GuestInv
  <2>2. SaveInv(s) /\ AttemptInv(s)
    BY <1>0, <2>1 DEF SettleInv, GuestInv
  <2>3. SaveInv(s)' /\ RedisStep(s)
    BY <1>0, <2>1, <2>2, QueueSaves
  <2> QED
    BY <1>2, <2>1, <2>3
<1>4. CASE \E w \in {"stream", "call"} : StartHere(s, w)
  <2>1. way[s] # "call"
    BY <1>0, <1>4 DEF StartHere, GuestInv
  <2>2. SaveInv(s)' /\ RedisStep(s)
    BY <1>0, <1>4, StartHereSaves
  <2> QED
    BY <1>2, <2>1, <2>2
<1>5. CASE QueueMoves(s) /\ way[s] # "call"
  <2>1. SaveInv(s) /\ AttemptInv(s)
    BY <1>0, <1>5 DEF SettleInv, GuestInv
  <2>2. SaveInv(s)' /\ RedisStep(s)
    BY <1>0, <1>5, <2>1, QueueSaves DEF QueueMoves
  <2> QED
    BY <1>2, <1>5, <2>2
<1>6. CASE HereMoves(s) /\ way[s] # "call"
  <2>1. SaveInv(s)' /\ RedisStep(s)
    BY <1>0, <1>6, HereKeepsSaves DEF SettleInv
  <2> QED
    BY <1>2, <1>6, <2>1
<1>7. CASE way[s] = "call" /\ (QueueMoves(s) \/ HereMoves(s) \/ CallMoves(s))
  <2>1. way'[s] = way[s]
    BY <1>7 DEF QueueMoves, HereMoves, CallMoves, CallHit, CallReturns, CallChecks, CallSaves, wayVars
  <2> QED
    BY <1>7, <2>1 DEF SettleInv
<1> QED
  BY <1>3, <1>4, <1>5, <1>6, <1>7 DEF OfScan, CallMoves

(* No step but its own changes what a scan promises.                         *)
LEMMA SettleFrame ==
    ASSUME TypesInv, RunsStay, NEW t \in Scan, SettleInv(t), way'[t] = way[t],
           pc'[t] = pc[t], tries'[t] = tries[t], outcome'[t] = outcome[t], result'[t] = result[t],
           outbox'[t] = outbox[t], saving'[t] = saving[t], stream'[t] = stream[t],
           mongo'[t] = mongo[t],
           redis'[t] = NoReport \/ (redis'[t] = redis[t] /\ (ReadBack(t) => ReadBack(t)'))
               \/ ReadBack(t)'
    PROVE  SettleInv(t)'
<1>0. TypeInv
  BY DEF TypesInv, ApiTypeInv, ApiTypeOK, TypeInv
<1>1. CASE way[t] = "call"
  BY <1>1 DEF SettleInv
<1>2. CASE way[t] # "call"
  <2>1. /\ SaveInv(t)
        /\ Settling(t) => redis[t] \in {NoReport, FreshReport(t)} \/ ReadBack(t)
    BY <1>2 DEF SettleInv
  <2>2. SaveInv(t)'
    BY <1>0, <2>1, SaveFrame
  <2>3. (Settling(t)' <=> Settling(t)) /\ FreshReport(t)' = FreshReport(t)
    BY SettlingFrame
  <2> QED
    BY <1>2, <2>1, <2>2, <2>3 DEF SettleInv
<1> QED
  BY <1>1, <1>2

LEMMA CrashApiSettles ==
    ASSUME TypesInv, GuestsInv, RunsStay, CrashApi, NEW t \in Scan, ResultInv(t), SettleInv(t)
    PROVE  SettleInv(t)'
<1>0. TypeInv /\ GuestInv(t)
  BY DEF TypesInv, ApiTypeInv, ApiTypeOK, TypeInv, GuestsInv
<1> DEFINE here == way[t] \in {"stream", "call"}
<1>1. /\ UNCHANGED <<tries, outcome, result, stream, mongo, redis, asked, found>> /\ way' = way
      /\ pc'[t] = IF here /\ Running(t) THEN "done" ELSE pc[t]
      /\ outbox'[t] = IF here /\ Running(t) THEN NoEvent ELSE outbox[t]
      /\ saving'[t] = IF here THEN {} ELSE saving[t]
      /\ \A g \in Request : at[g] \in {"200", "500"} => at'[g] = at[g]
  BY DEF CrashApi, queueVars, streamVars, wayVars, storeVars
<1>2. ReadBack(t) => ReadBack(t)'
  BY <1>1 DEF ReadBack, ReadersOf
<1>3. CASE way[t] = "call"
  BY <1>1, <1>3 DEF SettleInv
<1>4. CASE way[t] = "stream" /\ Running(t)
  <2>1. pc'[t] = "done" /\ result'[t] # "ok"
    BY <1>1, <1>4 DEF ResultInv, Running, Active
  <2>2. SaveInv(t)' /\ ~Settling(t)'
    BY <2>1, NoPromise DEF Settling, Announcing, Succeeded
  <2> QED
    BY <2>2 DEF SettleInv
<1>5. CASE way[t] = "stream" /\ ~Running(t)
  <2>1. pc'[t] = pc[t] /\ outbox'[t] = outbox[t] /\ saving'[t] = {}
    BY <1>1, <1>5
  <2>2. CASE saving[t] = {}
    BY <1>1, <1>2, <2>1, <2>2, SettleFrame
  <2>3. CASE saving[t] # {}
    <3>1. ~Succeeded(t)
      BY <1>5, <2>3 DEF SettleInv, SaveInv, Saved
    <3>2. ~Succeeded(t)'
      BY <1>1, <2>1, <3>1 DEF Succeeded, Measured, CheckPositions, ScanError
    <3>3. pc'[t] \notin {"lookup", "collect", "save", "xadd", "expire"}
      BY <1>5, <2>1 DEF Running, Active
    <3> QED
      BY <3>2, <3>3 DEF SettleInv, SaveInv, Settling, Unanswered, Announcing
  <2> QED
    BY <2>2, <2>3
<1>6. CASE ~here
  BY <1>1, <1>2, <1>6, SettleFrame
<1> QED
  BY <1>3, <1>4, <1>5, <1>6

(* A request that writes back has then served what it wrote.                 *)
LEMMA GetSettles ==
    ASSUME TypesInv, RunsStay, NEW g \in Request, GetStep(g), NEW t \in Scan, SettleInv(t)
    PROVE  SettleInv(t)'
<1> USE DEF TypesInv, ApiTypeInv, ApiTypeOK, TypeOK
<1>1. /\ UNCHANGED <<pc, tries, outcome, result, outbox, saving, stream, mongo>> /\ way' = way
  BY DEF GetStep, GetRedis, GetMongo, WriteBack, GetFails, SaveBack, vars, queueVars, streamVars,
     storeVars, wayVars
<1>2. ASSUME redis'[t] = redis[t], ReadBack(t)
      PROVE  ReadBack(t)'
  <2>1. PICK h \in ReadersOf(t) : at[h] \in {"200", "500"} /\ redis[t] = found[h]
    BY <1>2 DEF ReadBack
  <2>2. at[g] \in {"new", "mongo", "back"}
    BY DEF GetStep, GetRedis, GetMongo, WriteBack, GetFails
  <2>3. h # g /\ h \in Request /\ asked[h] = t
    BY <2>1, <2>2 DEF ReadersOf
  <2>4. at'[h] = at[h] /\ asked'[h] = asked[h] /\ found'[h] = found[h]
    BY <2>3 DEF GetStep, GetRedis, GetMongo, WriteBack, GetFails, Reply
  <2> QED
    BY <1>2, <2>1, <2>3, <2>4 DEF ReadBack, ReadersOf
<1>3. ASSUME redis'[t] # redis[t]
      PROVE  ReadBack(t)'
  <2>1. /\ at[g] = "back" /\ SaveBack(g) /\ at'[g] \in {"200", "500"}
        /\ asked'[g] = asked[g] /\ found'[g] = found[g]
    BY <1>3 DEF GetStep, GetRedis, GetMongo, WriteBack, GetFails, Reply, vars, storeVars
  <2>2. asked[g] = t /\ redis'[t] = found[g]
    BY <1>3, <2>1 DEF SaveBack
  <2> QED
    BY <2>1, <2>2 DEF ReadBack, ReadersOf
<1> QED
  BY <1>1, <1>2, <1>3, SettleFrame

LEMMA NextSettles ==
    ASSUME TypesInv, ScansInv, GuestsInv, [ApiNext]_apiVars, NEW t \in Scan,
           EventLast(t), ResultInv(t), SettleInv(t)
    PROVE  SettleInv(t)'
<1>0. RunsStay
  BY ApiRunsStay
<1>1. ASSUME NEW s \in Scan, OfScan(s), s # t
      PROVE  SettleInv(t)'
  <2>1. /\ SavesOnlyOf(s)
        /\ \A u \in Scan \ {s} : way'[u] = way[u] /\ held'[u] = held[u]
    BY <1>1, ScanTouchesOne
  <2>2. at' = at /\ asked' = asked /\ found' = found
    BY <1>1 DEF OfScan, PostScan, Start, StartHere, QueueMoves, HereMoves, CallMoves, getVars
  <2>3. redis'[t] = redis[t] /\ (ReadBack(t) => ReadBack(t)')
    BY <1>1, <2>1, <2>2 DEF SavesOnlyOf, ReadBack, ReadersOf
  <2> QED
    BY <1>0, <1>1, <2>1, <2>3, SettleFrame DEF SavesOnlyOf, OnlyOf
<1>2. CASE OfScan(t)
  BY <1>0, <1>2, ScanSettles
<1>3. ASSUME NEW w \in Worker, Crash(w), UNCHANGED <<wayVars, getVars>>
      PROVE  SettleInv(t)'
  <2>1. CASE runner[t] = w
    <3>1. pc'[t] = "queued"
      BY <1>3, <2>1 DEF Crash
    <3>2. SaveInv(t)' /\ ~Settling(t)'
      BY <3>1, NoPromise DEF Settling, Announcing, Succeeded
    <3> QED
      BY <3>2 DEF SettleInv
  <2>2. CASE runner[t] # w
    <3>1. ReadBack(t) => ReadBack(t)'
      BY <1>3 DEF Crash, storeVars, getVars, ReadBack, ReadersOf
    <3> QED
      BY <1>0, <1>3, <2>2, <3>1, SettleFrame DEF Crash, storeVars, streamVars, wayVars
  <2> QED
    BY <2>1, <2>2
<1>4. ASSUME Expiry \/ UNCHANGED vars, UNCHANGED <<wayVars, getVars>>
      PROVE  SettleInv(t)'
  <2>1. /\ UNCHANGED <<pc, tries, outcome, result, outbox, saving, stream, mongo>>
        /\ redis'[t] \in {redis[t], NoReport}
    BY <1>4 DEF Expiry, ExpireReport, ExpireStream, ExpireCache, vars, queueVars, storeVars,
       streamVars, TypesInv, ApiTypeInv, ApiTypeOK, TypeOK
  <2>2. redis'[t] = redis[t] => (ReadBack(t) => ReadBack(t)')
    BY <1>4 DEF getVars, ReadBack, ReadersOf
  <2> QED
    BY <1>0, <1>4, <2>1, <2>2, SettleFrame DEF wayVars
<1>5. CASE CrashApi
  BY <1>0, <1>5, CrashApiSettles
<1>6. ASSUME NEW g \in Request, GetStep(g)
      PROVE  SettleInv(t)'
  BY <1>0, <1>6, GetSettles
<1> QED
  BY <1>1, <1>2, <1>3, <1>4, <1>5, <1>6, OfScans DEF Elsewhere, apiVars

-----------------------------------------------------------------------------
LEMMA ApiEndInvariant == ApiSpec => []ApiEndInv
<1>1. ApiInit => \A s \in Scan : EndInv(s)
  BY DEF ApiInit, Init, EndInv, EventLast, ResultInv, CallRest, SettleInv, SaveInv, Settling,
     Unanswered, Announcing, Succeeded, OnceInv, Copies, ReadersOf
<1>2. ApiEndInv /\ ApiReportInv' /\ [ApiNext]_apiVars => ApiEndInv'
  <2> SUFFICES ASSUME ApiEndInv, ApiReportInv', [ApiNext]_apiVars, NEW t \in Scan
               PROVE  EndInv(t)'
    BY DEF ApiEndInv
  <2>1. TypesInv /\ ScansInv /\ GuestsInv /\ OriginsInv /\ EndInv(t)
    BY DEF ApiEndInv, ApiReportInv, ApiInv
  <2>2. EventLast(t)'
    BY <2>1, ApiMoves, NextEventLast DEF EndInv
  <2>3. ResultInv(t)' /\ CallRest(t)'
    BY <2>1, NextResult, NextCallRest DEF EndInv
  <2>4. SettleInv(t)'
    BY <2>1, NextSettles DEF EndInv
  <2>5. OnceInv(t)'
    BY <2>1, NextOnce DEF EndInv
  <2> QED
    BY <2>2, <2>3, <2>4, <2>5 DEF EndInv
<1> QED
  BY <1>1, <1>2, ApiReportInvariant, PTL DEF ApiSpec, ApiEndInv

(* Once a scan that measured is over, whatever ran it, no save of it is in   *)
(* flight and Redis holds what MongoDB holds, or nothing; except that a scan *)
(* which was attempted again may have got back what a request read before    *)
(* (get_report's write-back).                                                *)
THEOREM StoresAgreeAfterReads == ApiSpec => []StoresAgreeOverReads
<1>1. ApiEndInv => StoresAgreeOverReads
  <2> SUFFICES ASSUME ApiEndInv, NEW s \in Scan, Settled(s)
               PROVE  /\ saving[s] = {}
                      /\ \/ redis[s] \in {NoReport, mongo[s]}
                         \/ tries[s] > 1 /\ ReadBack(s)
    BY DEF StoresAgreeOverReads, ReadBack
  <2>1. EndInv(s) /\ CallInv(s) /\ tries[s] \in Nat
    BY BoundsAssumption DEF ApiEndInv, ApiReportInv, ApiInv, ScansInv, TypesInv, ApiTypeInv,
       ApiTypeOK, TypeOK
  <2>2. saving[s] = {} /\ mongo[s] = Saves(s)
    <3>1. CASE way[s] = "call"
      BY <2>1, <3>1 DEF Settled, CallInv, Saves
    <3>2. CASE way[s] # "call"
      BY <2>1, <3>2 DEF Settled, Succeeded, EndInv, SettleInv, SaveInv, Saved, Saves
    <3> QED
      BY <3>1, <3>2
  <2>3. CASE tries[s] <= 1
    <3>1. Copies(s) \subseteq {Saves(s)}
      BY <2>1, <2>3 DEF EndInv, OnceInv
    <3> QED
      BY <2>2, <3>1 DEF Copies
  <2>4. CASE tries[s] > 1
    <3>1. way[s] # "call"
      BY <2>1, <2>4 DEF EndInv, CallRest
    <3>2. redis[s] \in {NoReport, Saves(s)} \/ ReadBack(s)
      BY <2>1, <3>1 DEF Settled, Succeeded, Settling, EndInv, SettleInv, Saves
    <3> QED
      BY <2>2, <2>4, <3>2
  <2> QED
    BY <2>1, <2>3, <2>4
<1> QED
  BY <1>1, ApiEndInvariant, PTL

=============================================================================
