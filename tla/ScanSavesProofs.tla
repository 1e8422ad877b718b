--------------------------- MODULE ScanSavesProofs ---------------------------
(***************************************************************************)
(* What the stores hold once an attempt has answered.  The saves are sent   *)
(* before the last event: the argument follows a report from the gather     *)
(* (what is not in flight any more is saved) over the publishing of         *)
(* scan_complete to the end of the job, and rests on an attempt answering   *)
(* only when it measures no more.                                           *)
(***************************************************************************)
EXTENDS ScanJobsProofs

(* The attempt may still publish something other than scan_error.           *)
Unanswered(s) ==
    \/ pc[s] \in {"lookup", "collect", "save"}
    \/ pc[s] = "xadd" /\ outbox[s].event # "scan_error"
    \/ pc[s] = "expire" /\ outbox[s].event \in CheckEvents

(* MongoDB holds the report of the attempt, and nothing is in flight.        *)
Saved(s) ==
    /\ saving[s] = {}
    /\ mongo[s] = FreshReport(s) /\ IsRun(FreshReport(s), tries[s])

Announcing(s) ==
    pc[s] \in {"xadd", "expire"} /\ outbox[s].event = "scan_complete" /\ Measured(s, tries[s])

(* The attempt measured and returned without an error.                      *)
Succeeded(s) ==
    /\ pc[s] \in {"return", "done"} /\ result[s] = "ok" /\ Measured(s, tries[s])
    /\ ~(\E i \in DOMAIN stream[s] : stream[s][i] = ScanError(s))

SaveInv(s) ==
    /\ pc[s] = "lookup" => ~Measured(s, tries[s])
    /\ Unanswered(s) => \A event \in TerminalEvents : ~Said(s, tries[s], event)
    /\ pc[s] \in {"xadd", "expire"} /\ outbox[s].event = "scan_error" => outbox[s] = ScanError(s)
    /\ pc[s] = "save" /\ "mongo" \notin saving[s] => mongo[s] = FreshReport(s)
    /\ Announcing(s) \/ Succeeded(s) => Saved(s)

(* Redis had the report of the attempt, and may have let it expire.          *)
Settling(s) ==
    \/ pc[s] = "save" /\ "redis" \notin saving[s]
    \/ Announcing(s) \/ Succeeded(s)

RedisInv(s) == Settling(s) => redis[s] \in {NoReport, FreshReport(s)}

SavesInv == \A s \in Scan : SaveInv(s) /\ RedisInv(s)

(* A scan comes to that only by its own save, and then leaves Redis alone.   *)
RedisStep(s) ==
    Settling(s)' =>
        \/ Settling(s) /\ redis'[s] = redis[s] /\ FreshReport(s)' = FreshReport(s)
        \/ redis'[s] = FreshReport(s)'

(* Between XADD and EXPIRE the event is the last of the stream.              *)
EventLast(s) == pc[s] = "expire" => stream[s] # << >> /\ Last(stream[s]) = outbox[s]

LEMMA EventsLast == AnswerInv => \A s \in Scan : EventLast(s)
BY DEF AnswerInv, PublishedLast, EventLast

-----------------------------------------------------------------------------
LEMMA MeasuredIsSaid ==
    ASSUME NEW s \in Scan, NEW n
    PROVE  Measured(s, n) <=> Said(s, n, "check_complete") \/ Said(s, n, "check_error")
BY DEF Measured, CheckPositions, Said, CheckEvents

LEMMA MeasuredIsSaidAfter ==
    ASSUME NEW s \in Scan, NEW n
    PROVE  Measured(s, n)' <=> Said(s, n, "check_complete")' \/ Said(s, n, "check_error")'
BY DEF Measured, CheckPositions, Said, CheckEvents

LEMMA AppendSaid ==
    ASSUME NEW s \in Scan, stream \in [Scan -> Seq(Event)], NEW e \in Event,
           stream' = [stream EXCEPT ![s] = Append(@, e)]
    PROVE  \A n, event : Said(s, n, event)' <=> Said(s, n, event) \/ (e.run = n /\ e.event = event)
<1> SUFFICES ASSUME NEW n, NEW event
             PROVE  Said(s, n, event)' <=> Said(s, n, event) \/ (e.run = n /\ e.event = event)
  OBVIOUS
<1> DEFINE q == stream[s]
<1>1. q \in Seq(Event) /\ Len(q) \in Nat /\ DOMAIN q = 1..Len(q)
  BY LenProperties
<1> HIDE DEF q
<1>2. /\ DOMAIN Append(q, e) = 1..(Len(q) + 1)
      /\ \A i \in 1..Len(q) : Append(q, e)[i] = q[i]
      /\ Append(q, e)[Len(q) + 1] = e
  <2>1. Append(q, e) \in Seq(Event) /\ Len(Append(q, e)) = Len(q) + 1
    BY <1>1, AppendProperties
  <2>2. DOMAIN Append(q, e) = 1..Len(Append(q, e))
    BY <2>1, LenProperties
  <2> QED
    BY <1>1, <2>1, <2>2, AppendProperties
<1>3. stream'[s] = Append(q, e)
  BY DEF q
<1>4. Said(s, n, event)' <=>
          \E i \in 1..(Len(q) + 1) : Append(q, e)[i].run = n /\ Append(q, e)[i].event = event
  BY <1>2, <1>3 DEF Said
<1>5. Said(s, n, event) <=> \E i \in 1..Len(q) : q[i].run = n /\ q[i].event = event
  BY <1>1 DEF Said, q
<1>6. \A i : i \in 1..(Len(q) + 1) <=> i \in 1..Len(q) \/ i = Len(q) + 1
  BY <1>1
<1> QED
  BY <1>2, <1>4, <1>5, <1>6

(* The running attempt adds its own event.                                  *)
LEMMA XaddSaid ==
    ASSUME TypeInv, NEW s \in Scan, OwnEvent(s), pc[s] = "xadd", Append1(s)
    PROVE  \A n, event :
               Said(s, n, event)' <=>
                   Said(s, n, event) \/ (n = tries[s] /\ event = outbox[s].event)
<1> DEFINE e == outbox[s]
<1>1. /\ e \in Event /\ e.run = tries[s] /\ stream \in [Scan -> Seq(Event)]
      /\ stream' = [stream EXCEPT ![s] = Append(@, e)]
  BY DEF TypeInv, TypeOK, OutboxSet, OwnEvent, Publishing, Append1
<1> HIDE DEF e
<1>2. \A n, event : Said(s, n, event)' <=> Said(s, n, event) \/ (e.run = n /\ e.event = event)
  BY ONLY <1>1, AppendSaid
<1> QED
  BY <1>1, <1>2 DEF e

(* Saved reports stay the report of their attempt.                          *)
LEMMA SavedStays ==
    ASSUME NEW t \in Scan, Saved(t), TypeInv, RunsStay,
           tries'[t] = tries[t], outcome'[t] = outcome[t], saving'[t] = saving[t],
           mongo'[t] = mongo[t]
    PROVE  Saved(t)'
<1> DEFINE r == FreshReport(t)
           n == tries[t]
<1>1. r \in Report /\ n \in Nat /\ IsRun(r, n)
  BY FreshReportType, BoundsAssumption DEF TypeInv, TypeOK, Saved
<1>2. r' = r /\ n' = n
  BY DEF FreshReport
<1>3. FreshReport(t)' = r /\ mongo'[t] = r /\ saving'[t] = {}
  BY <1>2 DEF Saved
<1>4. IsRun(r, n)'
  <2> HIDE DEF r, n
  <2>1. \A x, m : x = r /\ m = n => IsRun(x, m)'
    BY <1>1 DEF RunsStay
  <2> QED
    BY <1>2, <2>1 DEF IsRun, Told
<1> QED
  BY <1>2, <1>3, <1>4 DEF Saved

(* What a step of one scan leaves of another.                               *)
LEMMA SettlingFrame ==
    ASSUME NEW t \in Scan,
           pc'[t] = pc[t], tries'[t] = tries[t], outcome'[t] = outcome[t], result'[t] = result[t],
           outbox'[t] = outbox[t], saving'[t] = saving[t], stream'[t] = stream[t]
    PROVE  /\ Announcing(t)' <=> Announcing(t)
           /\ Succeeded(t)' <=> Succeeded(t)
           /\ Settling(t)' <=> Settling(t)
           /\ FreshReport(t)' = FreshReport(t) /\ ScanError(t)' = ScanError(t)
<1>1. Measured(t, tries[t])' <=> Measured(t, tries[t])
  BY DEF Measured, CheckPositions
<1>2. FreshReport(t)' = FreshReport(t) /\ ScanError(t)' = ScanError(t)
  BY DEF FreshReport, ScanError
<1> QED
  BY <1>1, <1>2 DEF Announcing, Succeeded, Settling

LEMMA SaveFrame ==
    ASSUME NEW t \in Scan, SaveInv(t), TypeInv, RunsStay,
           pc'[t] = pc[t], tries'[t] = tries[t], outcome'[t] = outcome[t], result'[t] = result[t],
           outbox'[t] = outbox[t], saving'[t] = saving[t], stream'[t] = stream[t],
           mongo'[t] = mongo[t]
    PROVE  SaveInv(t)'
<1>1. \A n, event : Said(t, n, event)' <=> Said(t, n, event)
  BY DEF Said
<1>2. Measured(t, tries[t])' <=> Measured(t, tries[t])
  BY DEF Measured, CheckPositions
<1>3. Saved(t) => Saved(t)'
  BY SavedStays
<1>4. Unanswered(t)' <=> Unanswered(t)
  BY DEF Unanswered
<1> QED
  BY <1>1, <1>2, <1>3, <1>4, SettlingFrame DEF SaveInv

(* The step is one of scan s.                                               *)
SavesOnlyOf(s) ==
    /\ OnlyOf(s)
    /\ \A t \in Scan \ {s} : /\ result'[t] = result[t] /\ mongo'[t] = mongo[t]
                             /\ redis'[t] = redis[t]

-----------------------------------------------------------------------------
(* Nothing is promised of an attempt that has gone otherwise than well.     *)
LEMMA NoPromise ==
    ASSUME NEW s \in Scan, pc'[s] \in {"absent", "queued", "return", "done"},
           pc'[s] \in {"return", "done"} => result'[s] # "ok"
    PROVE  SaveInv(s)' /\ RedisStep(s)
BY DEF SaveInv, RedisStep, Settling, Unanswered, Announcing, Succeeded

LEMMA RaiseSaves ==
    ASSUME TypeInv, NEW s \in Scan, Raise(s), tries' = tries
    PROVE  /\ SaveInv(s)' /\ RedisStep(s)
           /\ \A t \in Scan \ {s} : pc'[t] = pc[t] /\ outbox'[t] = outbox[t] /\ result'[t] = result[t]
<1>1. /\ \A t \in Scan \ {s} : pc'[t] = pc[t] /\ outbox'[t] = outbox[t] /\ result'[t] = result[t]
      /\ \/ pc'[s] = "xadd" /\ outbox'[s] = ScanError(s)
         \/ pc'[s] = "return" /\ result'[s] = "raised"
  BY DEF Raise, Publish, Return, TypeInv, TypeOK
<1>2. ScanError(s).event = "scan_error" /\ ScanError(s)' = ScanError(s)
  BY DEF ScanError
<1>3. SaveInv(s)' /\ RedisStep(s)
  BY <1>1, <1>2 DEF SaveInv, RedisStep, Settling, Unanswered, Announcing, Succeeded, CheckEvents
<1> QED
  BY <1>1, <1>3

(* The last event of an attempt that measured tells of no error, or it is    *)
(* the error.                                                                *)
LEMMA ExpireSaves ==
    ASSUME TypeInv, RunsStay, NEW s \in Scan, EventLast(s), SaveInv(s), Expire(s)
    PROVE  SaveInv(s)' /\ RedisStep(s)
<1>1. /\ pc[s] = "expire" /\ stream' = stream /\ tries' = tries /\ outcome' = outcome
      /\ saving' = saving /\ redis' = redis /\ mongo' = mongo
      /\ \/ outbox[s].event \in CheckEvents /\ pc'[s] = "collect"
         \/ outbox[s].event \notin CheckEvents /\ pc'[s] = "return" /\ result'[s] = "ok"
  BY DEF Expire, AfterPublish, Return, queueVars, storeVars, TypeInv, TypeOK
<1>2. SaveInv(s)
  OBVIOUS
<1>3. \A n, event : Said(s, n, event)' <=> Said(s, n, event)
  BY <1>1 DEF Said
<1>4. CASE outbox[s].event \in CheckEvents
  BY <1>1, <1>2, <1>3, <1>4 DEF SaveInv, RedisStep, Settling, Unanswered, Announcing, Succeeded
<1>5. CASE outbox[s].event = "scan_error"
  <2>1. outbox[s] = ScanError(s) /\ stream[s] \in Seq(Event) /\ stream[s] # << >>
        /\ Last(stream[s]) = outbox[s]
    BY <1>1, <1>2, <1>5 DEF SaveInv, EventLast, TypeInv, TypeOK
  <2>2. Len(stream[s]) \in DOMAIN stream[s] /\ stream[s][Len(stream[s])] = ScanError(s)
    <3>1. Len(stream[s]) \in Nat /\ DOMAIN stream[s] = 1..Len(stream[s]) /\ Len(stream[s]) # 0
      BY <2>1, LenProperties, EmptySeq
    <3> QED
      BY <2>1, <3>1 DEF Last
  <2>3. ScanError(s)' = ScanError(s)
    BY <1>1 DEF ScanError
  <2>4. ~Succeeded(s)'
    BY <1>1, <2>2, <2>3 DEF Succeeded
  <2> QED
    BY <1>1, <1>5, <2>4 DEF SaveInv, RedisStep, Settling, Unanswered, Announcing, CheckEvents
<1>6. CASE outbox[s].event = "scan_complete"
  <2>1. Measured(s, tries[s])' <=> Measured(s, tries[s])
    BY <1>1 DEF Measured, CheckPositions
  <2>2. Announcing(s) => Saved(s)'
    BY <1>1, <1>2, SavedStays DEF SaveInv
  <2>3. Succeeded(s)' => Saved(s)'
    BY <1>1, <1>6, <2>1, <2>2 DEF Succeeded, Announcing
  <2>4. Succeeded(s)' => Announcing(s) /\ FreshReport(s)' = FreshReport(s)
    BY <1>1, <1>6, <2>1 DEF Succeeded, Announcing, FreshReport
  <2> QED
    BY <1>1, <1>6, <2>3, <2>4 DEF SaveInv, RedisStep, Settling, Unanswered, Announcing, CheckEvents
<1>7. outbox[s].event \in CheckEvents \cup {"scan_error", "scan_complete"}
  BY <1>1 DEF TypeInv, OutboxSet, Event, TerminalEvents
<1> QED
  BY <1>4, <1>5, <1>6, <1>7

(* The running attempt publishes: only a check event measures, and only an   *)
(* attempt that has not answered publishes one.                              *)
LEMMA XaddSaves ==
    ASSUME TypeInv, RunsStay, NEW s \in Scan, OwnEvent(s), SaveInv(s), Xadd(s)
    PROVE  SaveInv(s)' /\ RedisStep(s)
<1>1. /\ pc[s] = "xadd" /\ pc'[s] = "expire" /\ tries' = tries /\ outcome' = outcome
      /\ outbox' = outbox /\ saving' = saving /\ redis' = redis /\ mongo' = mongo /\ Append1(s)
  BY DEF Xadd, queueVars, storeVars, TypeInv, TypeOK
<1>2. SaveInv(s)
  OBVIOUS
<1>3. \A n, event :
          Said(s, n, event)' <=>
              Said(s, n, event) \/ (n = tries[s] /\ event = outbox[s].event)
  BY <1>1, XaddSaid
<1>4. ScanError(s)' = ScanError(s)
  BY <1>1 DEF ScanError
<1>5. Unanswered(s)' => \A event \in TerminalEvents : ~Said(s, tries[s], event)'
  BY <1>1, <1>2, <1>3 DEF Unanswered, SaveInv, TerminalEvents, CheckEvents
<1>6. Announcing(s)' => Announcing(s)
  <2>1. Measured(s, tries[s])' <=>
            Said(s, tries[s], "check_complete")' \/ Said(s, tries[s], "check_error")'
    BY <1>1 DEF Measured, CheckPositions, Said, CheckEvents
  <2>2. Measured(s, tries[s]) <=>
            Said(s, tries[s], "check_complete") \/ Said(s, tries[s], "check_error")
    BY MeasuredIsSaid
  <2> QED
    BY <1>1, <1>3, <2>1, <2>2 DEF Announcing
<1>7. Announcing(s)' => Saved(s)'
  BY <1>1, <1>2, <1>6, SavedStays DEF SaveInv
<1>8. FreshReport(s)' = FreshReport(s)
  BY <1>1 DEF FreshReport
<1> QED
  BY <1>1, <1>2, <1>4, <1>5, <1>6, <1>7, <1>8
     DEF SaveInv, RedisStep, Settling, Succeeded, Said

(* An attempt begins: nothing was published under its number.               *)
LEMMA StartSaves ==
    ASSUME TypeInv, NEW s \in Scan, AttemptInv(s), NEW w \in Worker, StartJob(w, s)
    PROVE  SaveInv(s)' /\ RedisStep(s)
<1>1. /\ pc'[s] = "lookup" /\ tries'[s] = tries[s] + 1 /\ tries[s] \in Nat /\ stream' = stream
  BY BoundsAssumption DEF StartJob, streamVars, TypeInv, TypeOK
<1>2. \A i \in DOMAIN stream[s] : stream[s][i].run <= tries[s] /\ stream[s][i].run \in Nat
  <2>1. stream[s] \in Seq(Event)
    BY DEF TypeInv, TypeOK
  <2>2. \A i \in DOMAIN stream[s] : stream[s][i] \in Event
    BY ONLY <2>1, LenProperties, ElementOfSeq
  <2> QED
    BY <2>2 DEF AttemptInv, Event
<1>3. \A i \in DOMAIN stream[s] : stream[s][i].run # tries[s] + 1
  BY <1>1, <1>2
<1>4. ~Measured(s, tries[s])' /\ \A event : ~Said(s, tries[s], event)'
  BY <1>1, <1>3 DEF Measured, CheckPositions, Said
<1> QED
  BY <1>1, <1>4 DEF SaveInv, RedisStep, Settling, Announcing, Succeeded

(* The report is saved when the gather is done.                             *)
LEMMA GatherSaves ==
    ASSUME TypeInv, RunsStay, NEW s \in Scan, AttemptInv(s), SaveInv(s), GatherDone(s)
    PROVE  SaveInv(s)' /\ RedisStep(s)
<1>1. /\ pc[s] = "save" /\ saving[s] = {} /\ pc'[s] = "xadd"
      /\ outbox'[s].event = "scan_complete" /\ tries' = tries /\ outcome' = outcome
      /\ saving' = saving /\ redis' = redis /\ mongo' = mongo /\ stream' = stream
  BY DEF GatherDone, Publish, ScanComplete, queueVars, storeVars, streamVars, TypeInv, TypeOK
<1>2. SaveInv(s)
  OBVIOUS
<1>3. Saved(s)
  BY <1>1, <1>2, FreshIsValid DEF Saved, SaveInv, Closed
<1>4. Saved(s)'
  BY <1>1, <1>3, SavedStays
<1>5. \A event : Said(s, tries[s], event)' <=> Said(s, tries[s], event)
  BY <1>1 DEF Said
<1>6. \A event \in TerminalEvents : ~Said(s, tries[s], event)'
  BY <1>1, <1>2, <1>5 DEF SaveInv, Unanswered
<1>7. Settling(s) /\ FreshReport(s)' = FreshReport(s)
  BY <1>1 DEF Settling, FreshReport
<1> QED
  BY <1>1, <1>4, <1>6, <1>7 DEF SaveInv, RedisStep

(* A save lands, or fails: of an attempt that saves, its own report; of one  *)
(* that promises something none is in flight.                                *)
LEMMA SaveOne ==
    ASSUME TypeInv, NEW s \in Scan, SaveInv(s), NEW st \in saving[s],
           Write(s, st, FreshReport(s)), saving' = [saving EXCEPT ![s] = @ \ {st}],
           UNCHANGED <<pc, tries, result, outcome, outbox, stream>>
    PROVE  SaveInv(s)' /\ RedisStep(s)
<1>1. SaveInv(s)
  OBVIOUS
<1>2. FreshReport(s)' = FreshReport(s) /\ ScanError(s)' = ScanError(s)
  BY DEF FreshReport, ScanError
<1>3. \A n, event : Said(s, n, event)' <=> Said(s, n, event)
  BY DEF Said
<1>4. Measured(s, tries[s])' <=> Measured(s, tries[s])
  BY DEF Measured, CheckPositions
<1>5. ~Announcing(s) /\ ~Succeeded(s)
  BY <1>1 DEF SaveInv, Saved
<1>6. ~Announcing(s)' /\ ~Succeeded(s)' /\ (Unanswered(s)' <=> Unanswered(s))
  BY <1>2, <1>4, <1>5 DEF Announcing, Succeeded, Unanswered
<1>7. /\ saving'[s] = saving[s] \ {st} /\ st \in {"redis", "mongo", "cache"}
      /\ mongo'[s] = (IF st = "mongo" THEN FreshReport(s) ELSE mongo[s])
      /\ redis'[s] = (IF st = "redis" THEN FreshReport(s) ELSE redis[s])
  BY DEF Write, TypeInv, TypeOK, Store
<1>8. pc[s] = "save" /\ "mongo" \notin saving'[s] => mongo'[s] = FreshReport(s)
  BY <1>1, <1>7 DEF SaveInv
<1>9. RedisStep(s)
  BY <1>2, <1>6, <1>7 DEF RedisStep, Settling
<1> QED
  BY <1>1, <1>2, <1>3, <1>4, <1>6, <1>8, <1>9 DEF SaveInv

(* What the queue and the worker do with a scan.                            *)
LEMMA QueueTouchesOne ==
    ASSUME TypeInv, NEW s \in Scan, OwnEvent(s), AttemptInv(s), Enqueue(s) \/ QueueStep(s)
    PROVE  SavesOnlyOf(s)
<1> USE DEF TypeInv, TypeOK, queueVars, storeVars, streamVars, bounds
<1>1. OnlyOf(s)
  BY QueueAttempt
<1>2. \A t \in Scan \ {s} : result'[t] = result[t]
  BY DEF Enqueue, QueueStep, JobStep, Fault, StartJob, Exhausted, FinishJob, JobTimeout, Xadd,
     XaddFails, Expire, ExpireFails, AfterPublish, CacheHit, CacheMiss, LookupFails, NextCheck,
     ComputeAndSave, SaveLands, SaveFails, GatherDone, Raise, Publish, Return
<1>3. \A t \in Scan \ {s} : mongo'[t] = mongo[t] /\ redis'[t] = redis[t]
  BY DEF Enqueue, QueueStep, JobStep, Fault, StartJob, Exhausted, FinishJob, JobTimeout, Xadd,
     XaddFails, Expire, ExpireFails, CacheHit, CacheMiss, LookupFails, NextCheck,
     ComputeAndSave, SaveLands, SaveFails, GatherDone, Write
<1> QED
  BY <1>1, <1>2, <1>3 DEF SavesOnlyOf

LEMMA LookupSaves ==
    ASSUME TypeInv, NEW s \in Scan, SaveInv(s), CacheHit(s) \/ CacheMiss(s)
    PROVE  SaveInv(s)' /\ RedisStep(s)
<1>1. /\ pc[s] = "lookup" /\ stream' = stream /\ tries' = tries
      /\ \/ pc'[s] = "xadd" /\ outbox'[s].event = "scan_complete"
         \/ pc'[s] = "collect"
  BY DEF CacheHit, CacheMiss, Publish, ScanComplete, queueVars, streamVars, TypeInv, TypeOK
<1>2. ~Measured(s, tries[s])'
  BY <1>1 DEF SaveInv, Measured, CheckPositions
<1>3. \A event \in TerminalEvents : ~Said(s, tries[s], event)'
  BY <1>1 DEF SaveInv, Unanswered, Said
<1> QED
  BY <1>1, <1>2, <1>3 DEF SaveInv, RedisStep, Settling, Announcing, Succeeded

LEMMA CollectSaves ==
    ASSUME TypeInv, NEW s \in Scan, SaveInv(s),
           ComputeAndSave(s) \/ \E c \in Check, ok \in BOOLEAN : NextCheck(s, c, ok)
    PROVE  SaveInv(s)' /\ RedisStep(s)
<1>1. /\ pc[s] = "collect" /\ stream' = stream /\ tries' = tries
      /\ \/ pc'[s] = "xadd" /\ outbox'[s].event \in CheckEvents
         \/ pc'[s] = "save" /\ saving'[s] = Store
  BY DEF NextCheck, ComputeAndSave, Publish, CheckEvent, CheckEvents, queueVars, streamVars,
     TypeInv, TypeOK
<1>2. \A event \in TerminalEvents : ~Said(s, tries[s], event)'
  BY <1>1 DEF SaveInv, Unanswered, Said
<1> QED
  BY <1>1, <1>2 DEF SaveInv, RedisStep, Settling, Announcing, Succeeded, CheckEvents, Store

LEMMA SaveFailsSaves ==
    ASSUME TypeInv, NEW s \in Scan, SaveInv(s), NEW st \in Store, SaveFails(s, st)
    PROVE  SaveInv(s)' /\ RedisStep(s)
<1>1. /\ st \in saving[s] /\ UNCHANGED <<tries, outcome, stream>>
  BY DEF SaveFails, queueVars, streamVars
<1>2. CASE Raise(s)
  BY <1>1, <1>2, RaiseSaves
<1>3. CASE pc[s] # "save" /\ UNCHANGED <<pc, result, outbox>>
  <2>1. ~Announcing(s)' /\ ~Succeeded(s)'
    BY <1>1, <1>3 DEF SaveInv, Saved, Announcing, Succeeded, Measured, CheckPositions, ScanError
  <2> QED
    BY <1>1, <1>3, <2>1
       DEF SaveInv, RedisStep, Settling, Unanswered, Measured, CheckPositions, ScanError, Said
<1> QED
  BY <1>2, <1>3 DEF SaveFails

LEMMA FinishSaves ==
    ASSUME TypeInv, RunsStay, NEW s \in Scan, SaveInv(s), FinishJob(s)
    PROVE  SaveInv(s)' /\ RedisStep(s)
<1>1. /\ pc[s] = "return" /\ pc'[s] = "done"
      /\ UNCHANGED <<tries, outcome, result, saving, redis, mongo, stream>>
  BY DEF FinishJob, storeVars, streamVars, TypeInv, TypeOK
<1>2. Succeeded(s)' => Succeeded(s)
  BY <1>1 DEF Succeeded, Measured, CheckPositions, ScanError
<1>3. Succeeded(s)' => Saved(s)'
  BY <1>1, <1>2, SavedStays DEF SaveInv
<1>4. FreshReport(s)' = FreshReport(s)
  BY <1>1 DEF FreshReport
<1> QED
  BY <1>1, <1>2, <1>3, <1>4 DEF SaveInv, RedisStep, Settling, Unanswered, Announcing

LEMMA QueueSaves ==
    ASSUME TypeInv, RunsStay, NEW s \in Scan, OwnEvent(s), EventLast(s), AttemptInv(s),
           SaveInv(s), Enqueue(s) \/ QueueStep(s)
    PROVE  SaveInv(s)' /\ RedisStep(s)
<1> USE DEF queueVars, storeVars, streamVars, bounds
<1>1. CASE Enqueue(s) \/ Exhausted(s) \/ JobTimeout(s)
  BY <1>1, NoPromise DEF Enqueue, Exhausted, JobTimeout, Return, TypeInv, TypeOK
<1>2. ASSUME NEW w \in Worker, StartJob(w, s)
      PROVE  SaveInv(s)' /\ RedisStep(s)
  BY <1>2, StartSaves
<1>3. CASE LookupFails(s) \/ XaddFails(s) \/ ExpireFails(s)
  BY <1>3, RaiseSaves DEF LookupFails, XaddFails, ExpireFails
<1>4. ASSUME NEW st \in Store, SaveLands(s, st)
      PROVE  SaveInv(s)' /\ RedisStep(s)
  BY <1>4, SaveOne DEF SaveLands
<1>5. ASSUME NEW st \in Store, SaveFails(s, st)
      PROVE  SaveInv(s)' /\ RedisStep(s)
  BY <1>5, SaveFailsSaves
<1> QED
  BY <1>1, <1>2, <1>3, <1>4, <1>5, XaddSaves, ExpireSaves, LookupSaves, CollectSaves, GatherSaves,
     FinishSaves DEF QueueStep, JobStep, Fault

LEMMA NextSaves ==
    TypeInv /\ AnswerInv /\ AttemptsInv /\ SavesInv /\ [Next]_vars => SavesInv'
<1> SUFFICES ASSUME TypeInv, AnswerInv, AttemptsInv, SavesInv, [Next]_vars
             PROVE  SavesInv'
  OBVIOUS
<1>0. RunsStay
  BY RunStays
<1>1. ASSUME NEW t \in Scan,
             pc'[t] = pc[t], tries'[t] = tries[t], outcome'[t] = outcome[t],
             result'[t] = result[t], outbox'[t] = outbox[t], saving'[t] = saving[t],
             stream'[t] = stream[t], mongo'[t] = mongo[t], redis'[t] \in {redis[t], NoReport}
      PROVE  SaveInv(t)' /\ RedisInv(t)'
  <2>1. SaveInv(t) /\ RedisInv(t)
    BY DEF SavesInv
  <2>2. SaveInv(t)'
    BY <1>0, <1>1, <2>1, SaveFrame
  <2>3. RedisInv(t)'
    BY <1>1, <2>1, SettlingFrame DEF RedisInv
  <2> QED
    BY <2>2, <2>3
<1>2. ASSUME NEW t \in Scan, SaveInv(t)' /\ RedisStep(t)
      PROVE  RedisInv(t)'
  BY <1>2 DEF SavesInv, RedisInv, RedisStep
<1>3. ASSUME NEW s \in Scan, Enqueue(s) \/ QueueStep(s)
      PROVE  SavesInv'
  <2>1. OwnEvent(s) /\ EventLast(s) /\ AttemptInv(s) /\ SaveInv(s)
    BY OwnEvents, EventsLast DEF AttemptsInv, SavesInv
  <2>2. SaveInv(s)' /\ RedisStep(s)
    BY <1>0, <1>3, <2>1, QueueSaves
  <2>3. SavesOnlyOf(s)
    BY <1>3, <2>1, QueueTouchesOne
  <2>4. ASSUME NEW t \in Scan \ {s}
        PROVE  SaveInv(t)' /\ RedisInv(t)'
    BY <1>1, <2>3 DEF SavesOnlyOf, OnlyOf
  <2> QED
    BY <1>2, <2>2, <2>4 DEF SavesInv
<1>4. ASSUME NEW w \in Worker, Crash(w), NEW t \in Scan
      PROVE  SaveInv(t)' /\ RedisInv(t)'
  <2>1. CASE runner[t] = w
    BY <1>2, <1>4, <2>1, NoPromise DEF Crash
  <2>2. CASE runner[t] # w
    BY <1>1, <1>4, <2>2 DEF Crash, storeVars, streamVars
  <2> QED
    BY <2>1, <2>2
<1>5. ASSUME Expiry \/ UNCHANGED vars, NEW t \in Scan
      PROVE  SaveInv(t)' /\ RedisInv(t)'
  <2>1. /\ UNCHANGED <<pc, tries, outcome, result, outbox, saving, stream, mongo>>
        /\ redis'[t] \in {redis[t], NoReport}
    BY <1>5 DEF Expiry, ExpireReport, ExpireStream, ExpireCache, vars, queueVars, storeVars,
       streamVars, TypeInv, TypeOK
  <2> QED
    BY <1>1, <2>1
<1> QED
  BY <1>3, <1>4, <1>5 DEF Next, SavesInv

LEMMA SavesInvariant == Spec => [](ReportInv /\ SavesInv)
<1>1. Init => SavesInv
  BY DEF Init, SavesInv, SaveInv, RedisInv, Settling, Unanswered, Announcing, Succeeded
<1>2. ReportInv /\ SavesInv /\ [Next]_vars => SavesInv'
  BY NextSaves DEF ReportInv
<1> QED
  BY <1>1, <1>2, ReportInvariant, PTL DEF Spec

(* After an attempt that measured and returned, Redis and MongoDB hold the   *)
(* same report, and nothing is in flight to change either.                   *)
THEOREM StoresAgreeAtTheEnd == Spec => []StoresAgree
<1>1. SavesInv => StoresAgree
  BY DEF SavesInv, SaveInv, RedisInv, Settling, Succeeded, Saved, StoresAgree
<1> QED
  BY <1>1, SavesInvariant, PTL

-----------------------------------------------------------------------------
(* What MongoDB promises from the moment an attempt that measured announced  *)
(* its report.                                                               *)
Retrievable(s, n) == mongo[s] # NoReport /\ \E m \in n..MaxTries : IsRun(mongo[s], m)

CompleteInv ==
    \A s \in Scan : \A n \in Nat :
        Said(s, n, "scan_complete") /\ Measured(s, n) => Retrievable(s, n)

(* Only a save writes, and what it writes is the closed report of its scan.  *)
LEMMA MongoWrites ==
    ASSUME TypeInv, [Next]_vars, NEW s \in Scan, mongo'[s] # mongo[s]
    PROVE  saving[s] # {} /\ mongo'[s] = FreshReport(s)
<1>1. ASSUME NEW t \in Scan, NEW st \in Store, SaveLands(t, st) \/ SaveFails(t, st)
      PROVE  saving[s] # {} /\ mongo'[s] = FreshReport(s)
  <2>1. Write(t, st, FreshReport(t)) \/ mongo' = mongo
    BY <1>1 DEF SaveLands, SaveFails, storeVars
  <2>2. s = t /\ mongo'[s] = FreshReport(t)
    BY <2>1 DEF Write, TypeInv, TypeOK
  <2> QED
    BY <1>1, <2>2 DEF SaveLands, SaveFails
<1> QED
  BY <1>1 DEF Next, QueueStep, Expiry, JobStep, Fault, vars, storeVars,
       Enqueue, StartJob, Exhausted, FinishJob, JobTimeout, Crash, Xadd, XaddFails,
       Expire, ExpireFails, CacheHit, CacheMiss, LookupFails, NextCheck, ComputeAndSave,
       GatherDone, ExpireReport, ExpireCache, ExpireStream

(* A report once retrievable stays so: it is kept, or a later attempt's takes *)
(* its place.                                                                *)
LEMMA RetrievableStays ==
    ASSUME TypeInv, AnswerInv, AttemptsInv, [Next]_vars, NEW s \in Scan, NEW n \in Nat,
           n <= tries[s], Retrievable(s, n)
    PROVE  Retrievable(s, n)'
<1>1. \A r \in Report, m \in Nat : IsRun(r, m) => IsRun(r, m)'
  BY RunStays DEF RunsStay
<1>2. CASE mongo'[s] = mongo[s]
  <2>1. PICK m \in n..MaxTries : IsRun(mongo[s], m)
    BY DEF Retrievable
  <2>2. mongo[s] \in Report /\ m \in Nat
    BY BoundsAssumption DEF Retrievable, TypeInv, TypeOK, MaybeReport
  <2>3. PICK r : r = mongo[s]
    OBVIOUS
  <2>4. r \in Report /\ IsRun(r, m)
    BY <2>1, <2>2, <2>3
  <2>5. IsRun(r, m)'
    BY <1>1, <2>2, <2>4
  <2>6. IsRun(mongo[s], m)'
    BY <1>2, <2>3, <2>5 DEF IsRun, Told
  <2> QED
    BY <1>2, <2>6 DEF Retrievable
<1>3. CASE mongo'[s] # mongo[s]
  <2>1. saving[s] # {} /\ mongo'[s] = FreshReport(s)
    BY <1>3, MongoWrites
  <2>2. FreshReport(s) \in Report /\ IsRun(FreshReport(s), tries[s]) /\ tries[s] \in n..MaxTries
    BY <2>1, FreshIsValid, FreshReportType, BoundsAssumption DEF AttemptsInv, Closed, TypeInv
  <2>3. PICK r, m : r = FreshReport(s) /\ m = tries[s]
    OBVIOUS
  <2>4. r \in Report /\ m \in n..MaxTries /\ IsRun(r, m) /\ m \in Nat
    BY <2>2, <2>3, BoundsAssumption
  <2>5. IsRun(r, m)'
    BY <1>1, <2>4
  <2>6. mongo'[s] = r /\ r # NoReport
    BY <2>1, <2>3, <2>4, NullsAssumption
  <2>7. IsRun(mongo[s], m)'
    BY <2>5, <2>6 DEF IsRun, Told
  <2> QED
    BY <2>4, <2>6, <2>7 DEF Retrievable
<1> QED
  BY <1>2, <1>3

LEMMA NextComplete ==
    TypeInv /\ AnswerInv /\ AttemptsInv /\ SavesInv /\ CompleteInv /\ [Next]_vars => CompleteInv'
<1> SUFFICES ASSUME TypeInv, AnswerInv, AttemptsInv, SavesInv, CompleteInv, [Next]_vars,
                    NEW s \in Scan, NEW n \in Nat,
                    Said(s, n, "scan_complete")', Measured(s, n)'
             PROVE  Retrievable(s, n)'
  BY DEF CompleteInv
<1>1. CASE Said(s, n, "scan_complete") /\ Measured(s, n)
  <2>1. n <= tries[s]
    BY <1>1 DEF Said, AttemptsInv, AttemptInv
  <2> QED
    BY <1>1, <2>1, RetrievableStays DEF CompleteInv
<1>2. CASE ~(Said(s, n, "scan_complete") /\ Measured(s, n))
  <2>1. stream'[s] # stream[s]
    BY <1>2 DEF Said, Measured, CheckPositions
  <2>2. pc[s] = "xadd" /\ Append1(s)
    <3>1. PICK t \in Scan : pc[t] = "xadd" /\ Append1(t)
      BY <2>1, OnlyXaddTells
    <3> QED
      BY <2>1, <3>1 DEF Append1, TypeInv, TypeOK
  <2>3. \A m, event :
            Said(s, m, event)' <=>
                Said(s, m, event) \/ (m = tries[s] /\ event = outbox[s].event)
    BY <2>2, OwnEvents, XaddSaid
  <2>4. /\ Measured(s, n)' <=> Said(s, n, "check_complete")' \/ Said(s, n, "check_error")'
        /\ Measured(s, n) <=> Said(s, n, "check_complete") \/ Said(s, n, "check_error")
    BY MeasuredIsSaid, MeasuredIsSaidAfter
  <2>5. n = tries[s]
    BY <1>2, <2>3, <2>4
  <2>6. SaveInv(s)
    BY DEF SavesInv
  <2>7. outbox[s].event = "scan_complete"
    <3>1. CASE outbox[s].event \in CheckEvents
      <4>1. Unanswered(s)
        BY <2>2, <3>1 DEF Unanswered, CheckEvents
      <4>2. ~Said(s, n, "scan_complete")
        BY <2>5, <2>6, <4>1 DEF SaveInv, TerminalEvents
      <4> QED
        BY <2>3, <3>1, <4>2 DEF CheckEvents
    <3>2. CASE outbox[s].event \notin CheckEvents
      BY <1>2, <2>3, <2>4, <3>2 DEF CheckEvents
    <3> QED
      BY <3>1, <3>2
  <2>8. Measured(s, tries[s])
    BY <2>3, <2>4, <2>5, <2>7
  <2>9. Saved(s)
    BY <2>2, <2>6, <2>7, <2>8 DEF SaveInv, Announcing
  <2>10. FreshReport(s) \in Report /\ tries[s] \in n..MaxTries
    BY <2>5, FreshReportType, BoundsAssumption DEF TypeInv, TypeOK
  <2>11. Retrievable(s, n)
    BY <2>9, <2>10, NullsAssumption DEF Saved, Retrievable
  <2> QED
    BY <2>5, <2>11, RetrievableStays
<1> QED
  BY <1>1, <1>2

(* Whoever reads a scan_complete of an attempt that ran the checks finds its *)
(* report in MongoDB, or a later attempt's, whatever happens afterwards.     *)
THEOREM SavedBeforeComplete == Spec => []CompleteAfterSaved
<1>1. Init => CompleteInv
  BY DEF Init, CompleteInv, Said
<1>2. ReportInv /\ SavesInv /\ CompleteInv /\ [Next]_vars => CompleteInv'
  BY NextComplete DEF ReportInv
<1>3. ReportInv /\ CompleteInv => CompleteAfterSaved
  <2> SUFFICES ASSUME ReportInv, CompleteInv, NEW s \in Scan, NEW i \in DOMAIN stream[s],
                      stream[s][i].event = "scan_complete", Measured(s, stream[s][i].run)
               PROVE  Retrievable(s, stream[s][i].run)
    BY DEF CompleteAfterSaved, Retrievable
  <2>1. stream[s] \in Seq(Event)
    BY DEF ReportInv, TypeInv, TypeOK
  <2>2. stream[s][i] \in Event
    BY ONLY <2>1, LenProperties, ElementOfSeq
  <2> QED
    BY <2>2 DEF CompleteInv, Said, Event
<1> QED
  BY <1>1, <1>2, <1>3, SavesInvariant, PTL DEF Spec

-----------------------------------------------------------------------------
(* An exception has its cause in a failing call, and the handler's in a      *)
(* second one.                                                               *)
FaultInv ==
    \A s \in Scan :
        /\ Handling(s) => faults[s] >= 1
        /\ pc[s] \in {"return", "done"} => result[s] # "none"
        /\ pc[s] \in {"return", "done"} /\ result[s] = "raised" => faults[s] >= 2

LEMMA FaultsAreCounted == TypeInv => faults \in [Scan -> Nat]
BY BoundsAssumption DEF TypeInv, TypeOK

(* No exception: the coroutine goes on, or ends otherwise than by one.       *)
LEMMA CalmFaults ==
    ASSUME TypeInv, FaultInv,
           \A s \in Scan :
               /\ faults'[s] \in Nat /\ faults'[s] >= faults[s]
               /\ Handling(s)' => Handling(s)
               /\ pc'[s] \in {"return", "done"} =>
                      \/ pc[s] \in {"return", "done"} /\ result'[s] = result[s]
                      \/ result'[s] \in {"ok", "timeout", "exhausted"}
    PROVE  FaultInv'
<1>1. faults \in [Scan -> Nat]
  BY FaultsAreCounted
<1> QED
  BY <1>1 DEF FaultInv

LEMMA RaiseFaults ==
    ASSUME TypeInv, FaultInv, NEW s \in Scan, Raise(s)
    PROVE  FaultInv'
<1>1. /\ faults \in [Scan -> Nat]
      /\ faults' = [faults EXCEPT ![s] = @ + 1]
  BY FaultsAreCounted DEF Raise, CallFails
<1>2. \A t \in Scan \ {s} : pc'[t] = pc[t] /\ outbox'[t] = outbox[t] /\ result'[t] = result[t]
  BY DEF Raise, Publish, Return, TypeInv, TypeOK
<1>3. \/ pc'[s] = "xadd"
      \/ /\ Handling(s) /\ pc'[s] = "return" /\ result'[s] = "raised"
         /\ outbox'[s] = NoEvent
  BY DEF Raise, Publish, Return, TypeInv, TypeOK
<1> QED
  BY <1>1, <1>2, <1>3 DEF FaultInv, Handling

LEMMA NextFaults == TypeInv /\ FaultInv /\ [Next]_vars => FaultInv'
<1> SUFFICES ASSUME TypeInv, FaultInv, [Next]_vars
             PROVE  FaultInv'
  OBVIOUS
<1> USE DEF queueVars, storeVars, streamVars, bounds
<1>0. faults \in [Scan -> Nat]
  BY FaultsAreCounted
<1>1. ASSUME NEW s \in Scan,
             \/ Enqueue(s) \/ Exhausted(s) \/ FinishJob(s) \/ Xadd(s) \/ CacheMiss(s)
             \/ ComputeAndSave(s) \/ JobTimeout(s) \/ Expire(s)
      PROVE  FaultInv'
  BY SMTT(30), <1>0, <1>1, CalmFaults DEF Enqueue, Exhausted, FinishJob, Xadd, CacheMiss, ComputeAndSave,
       JobTimeout, Expire, AfterPublish, Return, Handling, TypeInv, TypeOK
<1>2. ASSUME NEW s \in Scan, CacheHit(s) \/ GatherDone(s)
      PROVE  FaultInv'
  <2>1. PICK e : Publish(s, e) /\ e.event = "scan_complete"
    BY <1>2 DEF CacheHit, GatherDone, ScanComplete
  <2>2. UNCHANGED <<result, faults>>
    BY <1>2 DEF CacheHit, GatherDone
  <2> QED
    BY <1>0, <2>1, <2>2, CalmFaults DEF Publish, Handling, TypeInv, TypeOK
<1>3. ASSUME NEW s \in Scan, NEW c \in Check, NEW ok \in BOOLEAN, NextCheck(s, c, ok)
      PROVE  FaultInv'
  BY <1>0, <1>3, CalmFaults DEF NextCheck, Publish, CheckEvent, Handling, TypeInv, TypeOK
<1>4. ASSUME NEW s \in Scan, NEW w \in Worker, StartJob(w, s)
      PROVE  FaultInv'
  BY <1>0, <1>4, CalmFaults DEF StartJob, Handling, TypeInv, TypeOK
<1>5. ASSUME NEW w \in Worker, Crash(w)
      PROVE  FaultInv'
  BY <1>0, <1>5, CalmFaults DEF Crash, Handling, TypeInv, TypeOK
<1>6. ASSUME NEW s \in Scan, LookupFails(s) \/ XaddFails(s) \/ ExpireFails(s)
      PROVE  FaultInv'
  BY <1>6, RaiseFaults DEF LookupFails, XaddFails, ExpireFails
<1>7. ASSUME NEW s \in Scan, NEW st \in Store, SaveLands(s, st)
      PROVE  FaultInv'
  BY <1>0, <1>7, CalmFaults DEF SaveLands, Handling
<1>8. ASSUME NEW s \in Scan, NEW st \in Store, SaveFails(s, st)
      PROVE  FaultInv'
  <2>1. CASE Raise(s)
    BY <2>1, RaiseFaults
  <2>2. CASE CallFails(s) /\ UNCHANGED <<pc, result, outbox>>
    BY <1>0, <2>2, CalmFaults DEF CallFails, Handling
  <2> QED
    BY <1>8, <2>1, <2>2 DEF SaveFails
<1>9. CASE Expiry \/ UNCHANGED vars
  BY <1>0, <1>9, CalmFaults DEF Expiry, ExpireReport, ExpireStream, ExpireCache, vars, Handling
<1> QED
  BY <1>1, <1>2, <1>3, <1>4, <1>5, <1>6, <1>7, <1>8, <1>9 DEF Next, QueueStep, JobStep, Fault

(* One failing call never silences a scan: two of its own must fail.        *)
THEOREM OneFaultIsTold == Spec => []SilentOnlyIfLost
<1>1. Init => FaultInv
  BY DEF Init, FaultInv, Handling
<1>2. ReportInv /\ FaultInv /\ [Next]_vars => FaultInv'
  BY NextFaults DEF ReportInv
<1>3. ReportInv /\ FaultInv => SilentOnlyIfLost
  <2> SUFFICES ASSUME ReportInv, FaultInv, NEW s \in Scan, pc[s] = "done", result[s] = "ok"
               PROVE  Answered(s)
    BY DEF SilentOnlyIfLost, FaultInv, ReportInv, TypeInv, TypeOK
  <2>1. /\ stream[s] \in Seq(Event) /\ stream[s] # << >>
        /\ Last(stream[s]).event \in TerminalEvents
    BY DEF ReportInv, AnswerInv, ReturnedIsAnswered, TypeInv, TypeOK
  <2>2. Len(stream[s]) \in DOMAIN stream[s]
    BY <2>1, LenProperties, EmptySeq
  <2> QED
    BY <2>1, <2>2 DEF Answered, Last
<1> QED
  BY <1>1, <1>2, <1>3, ReportInvariant, PTL DEF Spec

-----------------------------------------------------------------------------
(***************************************************************************)
(* ScanJobs implements RunProtocol, and its check events count exactly.     *)
(* No counter is kept anywhere: an attempt counts the checks it knows of,   *)
(* which are the ones it told (AttemptInv), each once.  A scan_complete     *)
(* that follows a check event is of a closed report, all of whose checks    *)
(* were told (SaveInv); and a scan_error is the last event of its attempt.  *)
(***************************************************************************)

Positions(s) == CheckPositions(s, tries[s])
ToldChecks(s) == ChecksAt(s, Positions(s))

(* The attempt has not published a scan_error, and still may.               *)
NoError(s) ==
    \/ pc[s] \in {"lookup", "collect", "save", "xadd"}
    \/ pc[s] = "expire" /\ outbox[s].event # "scan_error"

CountInv(s) ==
    /\ ToldChecks(s) \subseteq Check
    /\ Cardinality(ToldChecks(s)) = Cardinality(Positions(s))
    /\ pc[s] = "xadd" /\ outbox[s].event \in CheckEvents =>
           outbox[s].progress = Cardinality(Positions(s)) + 1
    /\ NoError(s) => ~Said(s, tries[s], "scan_error")

(* Only a job that runs has a worker.                                       *)
RunnerInv(s) == pc[s] \in {"absent", "queued", "done"} => runner[s] = NoWorker

CountsInv == \A s \in Scan : CountInv(s) /\ RunnerInv(s)

-----------------------------------------------------------------------------
LEMMA ToldIsKnown ==
    ASSUME NEW s \in Scan
    PROVE  \A c : c \in ToldChecks(s) <=>
               Told(s, tries[s], c, "check_complete") \/ Told(s, tries[s], c, "check_error")
BY DEF ToldChecks, ChecksAt, Positions, CheckPositions, Told, CheckEvents

LEMMA PositionsFinite ==
    ASSUME TypeInv, NEW s \in Scan, NEW n
    PROVE  IsFiniteSet(CheckPositions(s, n)) /\ Cardinality(CheckPositions(s, n)) \in Nat
<1>1. IsFiniteSet(DOMAIN stream[s])
  <2>1. stream[s] \in Seq(Event)
    BY DEF TypeInv, TypeOK
  <2>2. DOMAIN stream[s] = 1..Len(stream[s]) /\ Len(stream[s]) \in Nat
    BY ONLY <2>1, LenProperties
  <2> QED
    BY <2>2, FS_Interval
<1>2. CheckPositions(s, n) \in SUBSET (DOMAIN stream[s])
  BY DEF CheckPositions
<1> QED
  BY <1>1, <1>2, FS_Subset, FS_CardinalityType

(* One more event: the others keep their positions.                         *)
LEMMA AppendShape ==
    ASSUME TypeInv, NEW s \in Scan, pc[s] = "xadd", Append1(s)
    PROVE  \E k \in Nat :
               /\ DOMAIN stream'[s] = DOMAIN stream[s] \cup {k}
               /\ \A i \in DOMAIN stream[s] : i \in Nat /\ i < k /\ stream'[s][i] = stream[s][i]
               /\ stream'[s][k] = outbox[s]
<1> DEFINE q == stream[s]
           e == outbox[s]
           k == Len(q) + 1
<1>1. q \in Seq(Event) /\ e \in Event /\ stream'[s] = Append(q, e)
  BY DEF TypeInv, TypeOK, OutboxSet, Append1
<1> HIDE DEF q, e
<1>2. Append(q, e) \in Seq(Event) /\ Len(Append(q, e)) = Len(q) + 1 /\ Len(q) \in Nat
  BY <1>1, AppendProperties, LenProperties
<1>3. DOMAIN Append(q, e) = 1..(Len(q) + 1) /\ DOMAIN q = 1..Len(q)
  BY <1>1, <1>2, LenProperties
<1>4. (\A i \in 1..Len(q) : Append(q, e)[i] = q[i]) /\ Append(q, e)[k] = e
  BY <1>1, AppendProperties
<1>5. k \in Nat /\ 1..(Len(q) + 1) = 1..Len(q) \cup {k}
  BY <1>2
<1>6. \A i \in 1..Len(q) : i \in Nat /\ i < k
  BY <1>2
<1> QED
  BY <1>1, <1>3, <1>4, <1>5, <1>6 DEF q, e

LEMMA AppendPositions ==
    ASSUME TypeInv, AnswerInv, NEW s \in Scan, pc[s] = "xadd", Append1(s), NEW k,
           DOMAIN stream'[s] = DOMAIN stream[s] \cup {k},
           \A i \in DOMAIN stream[s] : i # k /\ stream'[s][i] = stream[s][i],
           stream'[s][k] = outbox[s]
    PROVE  \A n : /\ k \notin CheckPositions(s, n)
                  /\ CheckPositions(s, n)' = CheckPositions(s, n)
                        \cup (IF n = tries[s] /\ outbox[s].event \in CheckEvents THEN {k} ELSE {})
<1>1. outbox[s].run = tries[s]
  BY DEF AnswerInv, PublishedLast
<1> QED
  BY <1>1 DEF CheckPositions

(* The check on its way was told of by nobody: it counts for one more.      *)
LEMMA AppendCounts ==
    ASSUME TypeInv, AnswerInv, AttemptsInv, CountsInv, NEW s \in Scan, pc[s] = "xadd",
           Append1(s), tries'[s] = tries[s]
    PROVE  /\ ToldChecks(s)' \subseteq Check
           /\ Cardinality(ToldChecks(s)') = Cardinality(Positions(s)')
           /\ outbox[s].event \in CheckEvents =>
                  Cardinality(Positions(s)') = Cardinality(Positions(s)) + 1
           /\ outbox[s].event \notin CheckEvents => Positions(s)' = Positions(s)
<1>1. PICK k \in Nat :
          /\ DOMAIN stream'[s] = DOMAIN stream[s] \cup {k}
          /\ \A i \in DOMAIN stream[s] : i \in Nat /\ i < k /\ stream'[s][i] = stream[s][i]
          /\ stream'[s][k] = outbox[s]
  BY AppendShape
<1>2. \A i \in DOMAIN stream[s] : i # k
  BY <1>1
<1>3. /\ k \notin Positions(s)
      /\ Positions(s)' = Positions(s) \cup (IF outbox[s].event \in CheckEvents THEN {k} ELSE {})
  BY <1>1, <1>2, AppendPositions DEF Positions, CheckPositions
<1>4. ToldChecks(s)' = ToldChecks(s)
          \cup (IF outbox[s].event \in CheckEvents THEN {outbox[s].check} ELSE {})
  <2>1. \A i \in Positions(s) : stream'[s][i] = stream[s][i]
    BY <1>1 DEF Positions, CheckPositions
  <2> QED
    BY <1>1, <1>3, <2>1 DEF ToldChecks, ChecksAt
<1>5. CountInv(s)
  BY DEF CountsInv
<1>6. CASE outbox[s].event \in CheckEvents
  <2>1. outbox[s].check \in Check /\ outbox[s].check \notin ToldChecks(s)
    BY <1>6, ToldIsKnown DEF AttemptsInv, AttemptInv, OnItsWay
  <2>2. IsFiniteSet(ToldChecks(s)) /\ IsFiniteSet(Positions(s))
    BY <1>5, ChecksAssumption, FS_Subset, PositionsFinite DEF CountInv, Positions
  <2>3. /\ Cardinality(Positions(s) \cup {k}) = Cardinality(Positions(s)) + 1
        /\ Cardinality(ToldChecks(s) \cup {outbox[s].check}) = Cardinality(ToldChecks(s)) + 1
    BY <1>3, <2>1, <2>2, FS_AddElement
  <2> QED
    BY <1>3, <1>4, <1>5, <1>6, <2>1, <2>3 DEF CountInv
<1>7. CASE outbox[s].event \notin CheckEvents
  <2>1. Positions(s)' = Positions(s) /\ ToldChecks(s)' = ToldChecks(s)
    BY <1>3, <1>4, <1>7
  <2> QED
    BY <1>5, <1>7, <2>1 DEF CountInv
<1> QED
  BY <1>6, <1>7

-----------------------------------------------------------------------------
(* How an attempt comes to publish a check event.                           *)
LEMMA ChecksComeFromCollect ==
    ASSUME TypeInv, [Next]_vars, NEW s \in Scan,
           pc'[s] = "xadd", outbox'[s].event \in CheckEvents
    PROVE  \/ /\ pc[s] = "xadd" /\ outbox'[s] = outbox[s]
              /\ stream'[s] = stream[s] /\ tries'[s] = tries[s]
           \/ \E c \in Check, ok \in BOOLEAN : NextCheck(s, c, ok)
<1> USE DEF TypeInv, TypeOK, CheckEvents, queueVars, streamVars
<1>1. ASSUME NEW t \in Scan, Raise(t), stream'[s] # stream[s] => t = s, tries' = tries
      PROVE  pc[s] = "xadd" /\ outbox'[s] = outbox[s] /\ stream'[s] = stream[s] /\ tries'[s] = tries[s]
  BY <1>1 DEF Raise, Publish, Return, ScanError
<1>2. ASSUME NEW t \in Scan, LookupFails(t) \/ XaddFails(t) \/ ExpireFails(t)
      PROVE  pc[s] = "xadd" /\ outbox'[s] = outbox[s] /\ stream'[s] = stream[s] /\ tries'[s] = tries[s]
  <2>1. Raise(t) /\ tries' = tries /\ (stream'[s] # stream[s] => t = s)
    BY <1>2 DEF LookupFails, XaddFails, ExpireFails, Append1
  <2> QED
    BY <1>1, <2>1
<1>3. ASSUME NEW t \in Scan, NEW st \in Store, SaveFails(t, st)
      PROVE  pc[s] = "xadd" /\ outbox'[s] = outbox[s] /\ stream'[s] = stream[s] /\ tries'[s] = tries[s]
  <2>1. CASE Raise(t)
    BY <1>1, <1>3, <2>1 DEF SaveFails
  <2> QED
    BY <1>3, <2>1 DEF SaveFails
<1>4. ASSUME NEW t \in Scan, CacheHit(t) \/ GatherDone(t)
      PROVE  pc[s] = "xadd" /\ outbox'[s] = outbox[s] /\ stream'[s] = stream[s] /\ tries'[s] = tries[s]
  <2>1. PICK e : Publish(t, e) /\ e.event = "scan_complete"
    BY <1>4 DEF CacheHit, GatherDone, ScanComplete
  <2> QED
    BY <1>4, <2>1 DEF CacheHit, GatherDone, Publish
<1>5. ASSUME NEW t \in Scan, NEW c \in Check, NEW ok \in BOOLEAN, NextCheck(t, c, ok)
      PROVE  \/ /\ pc[s] = "xadd" /\ outbox'[s] = outbox[s]
                /\ stream'[s] = stream[s] /\ tries'[s] = tries[s]
             \/ \E d \in Check, yes \in BOOLEAN : NextCheck(s, d, yes)
  BY <1>5 DEF NextCheck, Publish
<1>6. ASSUME NEW t \in Scan,
             \/ Enqueue(t) \/ Exhausted(t) \/ FinishJob(t) \/ JobTimeout(t) \/ Xadd(t) \/ Expire(t)
             \/ CacheMiss(t) \/ ComputeAndSave(t)
             \/ (\E st \in Store : SaveLands(t, st)) \/ (\E w \in Worker : StartJob(w, t))
      PROVE  pc[s] = "xadd" /\ outbox'[s] = outbox[s] /\ stream'[s] = stream[s] /\ tries'[s] = tries[s]
  BY <1>6 DEF Enqueue, Exhausted, FinishJob, JobTimeout, Return, Xadd, Append1, Expire, AfterPublish,
       CacheMiss, ComputeAndSave, SaveLands, StartJob
<1>7. ASSUME NEW w \in Worker, Crash(w)
      PROVE  pc[s] = "xadd" /\ outbox'[s] = outbox[s] /\ stream'[s] = stream[s] /\ tries'[s] = tries[s]
  BY <1>7 DEF Crash
<1>8. CASE Expiry \/ UNCHANGED vars
  BY <1>8 DEF Expiry, ExpireReport, ExpireStream, ExpireCache, vars
<1> QED
  BY <1>2, <1>3, <1>4, <1>5, <1>6, <1>7, <1>8 DEF Next, QueueStep, JobStep, Fault

(* An attempt that may still fail did before, unless it begins.             *)
LEMMA ErrorsComeOnce ==
    ASSUME TypeInv, [Next]_vars, NEW s \in Scan, NoError(s)'
    PROVE  \/ NoError(s) /\ stream'[s] = stream[s] /\ tries'[s] = tries[s]
           \/ /\ pc[s] = "xadd" /\ Append1(s) /\ tries'[s] = tries[s]
              /\ outbox[s].event # "scan_error"
           \/ \E w \in Worker : StartJob(w, s)
<1> USE DEF TypeInv, TypeOK, OutboxSet, NoError, queueVars, streamVars
<1>1. ASSUME NEW t \in Scan, Raise(t)
      PROVE  /\ \A u \in Scan \ {t} : pc'[u] = pc[u] /\ outbox'[u] = outbox[u]
             /\ \/ ~Handling(t) /\ pc'[t] = "xadd"
                \/ Handling(t) /\ pc'[t] = "return"
  BY <1>1 DEF Raise, Publish, Return
<1>2. ASSUME NEW t \in Scan, LookupFails(t) \/ XaddFails(t) \/ ExpireFails(t)
      PROVE  \/ NoError(s) /\ stream'[s] = stream[s] /\ tries'[s] = tries[s]
             \/ /\ pc[s] = "xadd" /\ Append1(s) /\ tries'[s] = tries[s]
                /\ outbox[s].event # "scan_error"
  <2>1. /\ pc[t] \in {"lookup", "xadd", "expire"} /\ Raise(t) /\ tries' = tries
        /\ stream' = stream \/ (pc[t] = "xadd" /\ Append1(t))
    BY <1>2 DEF LookupFails, XaddFails, ExpireFails
  <2>2. CASE s = t
    <3>1. ~Handling(s)
      BY <1>1, <2>1, <2>2
    <3>2. pc[s] \in {"xadd", "expire"} => outbox[s].event # "scan_error"
      BY <3>1, NullsAssumption DEF Handling
    <3> QED
      BY <2>1, <2>2, <3>2
  <2>3. CASE s # t
    <3>1. stream'[s] = stream[s]
      BY <2>1, <2>3 DEF Append1
    <3> QED
      BY <1>1, <2>1, <2>3, <3>1
  <2> QED
    BY <2>2, <2>3
<1>3. ASSUME NEW t \in Scan, NEW st \in Store, SaveFails(t, st)
      PROVE  NoError(s) /\ stream'[s] = stream[s] /\ tries'[s] = tries[s]
  <2>1. stream' = stream /\ tries' = tries
    BY <1>3 DEF SaveFails
  <2>2. CASE pc[t] = "save" /\ Raise(t)
    BY <1>1, <2>1, <2>2
  <2>3. CASE UNCHANGED <<pc, result, outbox>>
    BY <2>1, <2>3
  <2> QED
    BY <1>3, <2>2, <2>3 DEF SaveFails
<1>4. ASSUME NEW t \in Scan, Xadd(t)
      PROVE  \/ NoError(s) /\ stream'[s] = stream[s] /\ tries'[s] = tries[s]
             \/ /\ pc[s] = "xadd" /\ Append1(s) /\ tries'[s] = tries[s]
                /\ outbox[s].event # "scan_error"
  BY <1>4 DEF Xadd, Append1
<1>5. ASSUME NEW t \in Scan, Expire(t)
      PROVE  NoError(s) /\ stream'[s] = stream[s] /\ tries'[s] = tries[s]
  BY <1>5 DEF Expire, AfterPublish, Return, CheckEvents
<1>6. ASSUME NEW t \in Scan,
             \/ Enqueue(t) \/ Exhausted(t) \/ FinishJob(t) \/ JobTimeout(t)
             \/ CacheMiss(t) \/ ComputeAndSave(t) \/ CacheHit(t) \/ GatherDone(t)
             \/ (\E st \in Store : SaveLands(t, st))
             \/ (\E c \in Check, ok \in BOOLEAN : NextCheck(t, c, ok))
      PROVE  NoError(s) /\ stream'[s] = stream[s] /\ tries'[s] = tries[s]
  BY <1>6 DEF Enqueue, Exhausted, FinishJob, JobTimeout, Return,
       CacheMiss, ComputeAndSave, CacheHit, GatherDone, Publish, SaveLands, NextCheck
<1>7. ASSUME NEW t \in Scan, NEW w \in Worker, StartJob(w, t), s # t
      PROVE  NoError(s) /\ stream'[s] = stream[s] /\ tries'[s] = tries[s]
  BY <1>7 DEF StartJob
<1>8. ASSUME NEW w \in Worker, Crash(w)
      PROVE  NoError(s) /\ stream'[s] = stream[s] /\ tries'[s] = tries[s]
  BY <1>8 DEF Crash
<1>9. CASE Expiry \/ UNCHANGED vars
  BY <1>9 DEF Expiry, ExpireReport, ExpireStream, ExpireCache, vars
<1> QED
  BY <1>2, <1>3, <1>4, <1>5, <1>6, <1>7, <1>8, <1>9 DEF Next, QueueStep, JobStep, Fault

(* Attempts begin by StartJob, and nowhere else.                            *)
LEMMA OnlyStartBegins ==
    ASSUME TypeInv, [Next]_vars, NEW s \in Scan, tries'[s] # tries[s]
    PROVE  \E w \in Worker : StartJob(w, s)
<1>1. ASSUME NEW t \in Scan, NEW w \in Worker, StartJob(w, t)
      PROVE  t = s
  BY <1>1 DEF StartJob, TypeInv, TypeOK
<1> QED
  BY <1>1 DEF Next, QueueStep, Expiry, JobStep, Fault, vars, queueVars,
       Enqueue, Exhausted, FinishJob, JobTimeout, Crash, Xadd, XaddFails,
       Expire, ExpireFails, CacheHit, CacheMiss, LookupFails, NextCheck, ComputeAndSave,
       SaveLands, SaveFails, GatherDone, ExpireReport, ExpireCache, ExpireStream

(* A stream grows by what its own attempt publishes.                        *)
LEMMA OnlyOwnXadd ==
    ASSUME TypeInv, [Next]_vars, NEW s \in Scan, stream'[s] # stream[s]
    PROVE  pc[s] = "xadd" /\ Append1(s) /\ tries'[s] = tries[s]
<1>1. PICK t \in Scan : pc[t] = "xadd" /\ Append1(t)
  BY OnlyXaddTells
<1>2. t = s
  BY <1>1 DEF Append1, TypeInv, TypeOK
<1>3. tries'[s] = tries[s]
  <2>1. ASSUME NEW w \in Worker, StartJob(w, s)
        PROVE  FALSE
    BY <1>1, <1>2, <2>1 DEF StartJob
  <2> QED
    BY <2>1, OnlyStartBegins
<1> QED
  BY <1>1, <1>2, <1>3

(* Nothing was published under the number of an attempt that begins.        *)
LEMMA StartIsSilent ==
    ASSUME TypeInv, AttemptsInv, NEW s \in Scan, NEW w \in Worker, StartJob(w, s)
    PROVE  /\ pc[s] = "queued" /\ pc'[s] = "lookup" /\ tries'[s] = tries[s] + 1
           /\ stream' = stream /\ tries[s] \in Nat
           /\ Positions(s)' = {} /\ ToldChecks(s)' = {}
           /\ \A event : ~Said(s, tries[s], event)'
<1>1. /\ pc[s] = "queued" /\ pc'[s] = "lookup" /\ tries'[s] = tries[s] + 1 /\ tries[s] \in Nat
      /\ stream' = stream
  BY BoundsAssumption DEF StartJob, streamVars, TypeInv, TypeOK
<1>2. \A i \in DOMAIN stream[s] : stream[s][i].run <= tries[s] /\ stream[s][i].run \in Nat
  <2>1. stream[s] \in Seq(Event)
    BY DEF TypeInv, TypeOK
  <2>2. \A i \in DOMAIN stream[s] : stream[s][i] \in Event
    BY ONLY <2>1, LenProperties, ElementOfSeq
  <2> QED
    BY <2>2 DEF AttemptsInv, AttemptInv, Event
<1>3. \A i \in DOMAIN stream[s] : stream[s][i].run # tries[s] + 1
  BY <1>1, <1>2
<1>4. Positions(s)' = {} /\ ToldChecks(s)' = {}
  BY <1>1, <1>3 DEF Positions, ToldChecks, CheckPositions, ChecksAt
<1>5. \A event : ~Said(s, tries[s], event)'
  BY <1>1, <1>3 DEF Said
<1> QED
  BY <1>1, <1>4, <1>5

LEMMA NextRunner == TypeInv /\ CountsInv /\ [Next]_vars => \A s \in Scan : RunnerInv(s)'
<1> SUFFICES ASSUME TypeInv, CountsInv, [Next]_vars, NEW s \in Scan
             PROVE  RunnerInv(s)'
  OBVIOUS
<1> USE DEF TypeInv, TypeOK, CountsInv, RunnerInv, queueVars
<1>1. ASSUME NEW t \in Scan, Raise(t), runner' = runner, pc[t] \notin {"absent", "queued", "done"}
      PROVE  RunnerInv(s)'
  BY <1>1 DEF Raise, Publish, Return
<1>2. ASSUME NEW t \in Scan, LookupFails(t) \/ XaddFails(t) \/ ExpireFails(t)
      PROVE  RunnerInv(s)'
  BY <1>1, <1>2 DEF LookupFails, XaddFails, ExpireFails
<1>3. ASSUME NEW t \in Scan, NEW st \in Store, SaveFails(t, st)
      PROVE  RunnerInv(s)'
  <2>1. CASE pc[t] = "save" /\ Raise(t)
    BY <1>1, <1>3, <2>1 DEF SaveFails
  <2>2. CASE UNCHANGED <<pc, result, outbox>>
    BY <1>3, <2>2 DEF SaveFails
  <2> QED
    BY <1>3, <2>1, <2>2 DEF SaveFails
<1>4. ASSUME NEW t \in Scan,
             \/ Enqueue(t) \/ Exhausted(t) \/ FinishJob(t) \/ JobTimeout(t) \/ Xadd(t) \/ Expire(t)
             \/ CacheMiss(t) \/ ComputeAndSave(t) \/ CacheHit(t) \/ GatherDone(t)
             \/ (\E st \in Store : SaveLands(t, st)) \/ (\E w \in Worker : StartJob(w, t))
             \/ (\E c \in Check, ok \in BOOLEAN : NextCheck(t, c, ok))
      PROVE  RunnerInv(s)'
  BY <1>4 DEF Enqueue, Exhausted, FinishJob, JobTimeout, Return, Xadd, Expire, AfterPublish,
       CacheMiss, ComputeAndSave, CacheHit, GatherDone, Publish, SaveLands, StartJob, NextCheck
<1>5. ASSUME NEW w \in Worker, Crash(w)
      PROVE  RunnerInv(s)'
  BY <1>5 DEF Crash
<1>6. CASE Expiry \/ UNCHANGED vars
  BY <1>6 DEF Expiry, ExpireReport, ExpireStream, ExpireCache, vars
<1> QED
  BY <1>2, <1>3, <1>4, <1>5, <1>6 DEF Next, QueueStep, JobStep, Fault

LEMMA NextCounts ==
    TypeInv /\ AnswerInv /\ AttemptsInv /\ CountsInv /\ [Next]_vars => CountsInv'
<1> SUFFICES ASSUME TypeInv, AnswerInv, AttemptsInv, CountsInv, [Next]_vars, NEW s \in Scan
             PROVE  CountInv(s)'
  BY NextRunner DEF CountsInv
<1>1. CountInv(s)
  BY DEF CountsInv
(* The check counts itself after all those told before.                     *)
<1>2. pc'[s] = "xadd" /\ outbox'[s].event \in CheckEvents =>
          outbox'[s].progress = Cardinality(Positions(s)') + 1
  <2> SUFFICES ASSUME pc'[s] = "xadd", outbox'[s].event \in CheckEvents
               PROVE  outbox'[s].progress = Cardinality(Positions(s)') + 1
    OBVIOUS
  <2>1. CASE /\ pc[s] = "xadd" /\ outbox'[s] = outbox[s]
             /\ stream'[s] = stream[s] /\ tries'[s] = tries[s]
    BY <1>1, <2>1 DEF CountInv, Positions, CheckPositions
  <2>2. ASSUME NEW c \in Check, NEW ok \in BOOLEAN, NextCheck(s, c, ok)
        PROVE  outbox'[s].progress = Cardinality(Positions(s)') + 1
    <3>1. /\ pc[s] = "collect" /\ outbox'[s].progress = Cardinality(Reported(s)) + 1
          /\ stream' = stream /\ tries' = tries
      BY <2>2 DEF NextCheck, Publish, CheckEvent, queueVars, streamVars, TypeInv, TypeOK
    <3>2. \A d \in Check : Matches(s, d)
      BY <3>1 DEF AttemptsInv, AttemptInv, Collecting
    <3>3. \A d \in Check : outcome[s][d] \in {"pending", "ok", "error"}
      BY DEF TypeInv, TypeOK
    <3>4. Reported(s) = ToldChecks(s)
      BY <1>1, <3>2, <3>3, ToldIsKnown DEF Reported, Matches, CountInv
    <3>5. Positions(s)' = Positions(s)
      BY <3>1 DEF Positions, CheckPositions
    <3> QED
      BY <1>1, <3>1, <3>4, <3>5 DEF CountInv
  <2> QED
    BY <2>1, <2>2, ChecksComeFromCollect
<1>3. NoError(s)' => ~Said(s, tries[s], "scan_error")'
  <2>1. CASE NoError(s) /\ stream'[s] = stream[s] /\ tries'[s] = tries[s]
    BY <1>1, <2>1 DEF CountInv, Said
  <2>2. CASE /\ pc[s] = "xadd" /\ Append1(s) /\ tries'[s] = tries[s]
             /\ outbox[s].event # "scan_error"
    <3>1. Said(s, tries[s], "scan_error")' <=> Said(s, tries[s], "scan_error")
      <4>1. \A n, event :
               Said(s, n, event)' <=>
                   Said(s, n, event) \/ (n = tries[s] /\ event = outbox[s].event)
        BY <2>2, OwnEvents, XaddSaid
      <4>2. PICK n : n = tries[s]
        OBVIOUS
      <4>3. Said(s, n, "scan_error")' <=> Said(s, n, "scan_error")
        BY <2>2, <4>1, <4>2
      <4> QED
        BY <2>2, <4>2, <4>3 DEF Said
    <3> QED
      BY <1>1, <2>2, <3>1 DEF CountInv, NoError
  <2>3. ASSUME NEW w \in Worker, StartJob(w, s)
        PROVE  ~Said(s, tries[s], "scan_error")'
    BY <2>3, StartIsSilent
  <2> QED
    BY <2>1, <2>2, <2>3, ErrorsComeOnce
<1>4. ToldChecks(s)' \subseteq Check /\ Cardinality(ToldChecks(s)') = Cardinality(Positions(s)')
  <2>1. CASE stream'[s] # stream[s]
    BY <2>1, OnlyOwnXadd, AppendCounts
  <2>2. CASE stream'[s] = stream[s] /\ tries'[s] = tries[s]
    BY <1>1, <2>2 DEF CountInv, ToldChecks, Positions, CheckPositions, ChecksAt
  <2>3. ASSUME NEW w \in Worker, StartJob(w, s)
        PROVE  ToldChecks(s)' = {} /\ Positions(s)' = {}
    BY <2>3, StartIsSilent
  <2> QED
    BY <2>1, <2>2, <2>3, OnlyStartBegins
<1>5. (ToldChecks(s) \subseteq Check)' /\ (Cardinality(ToldChecks(s)) = Cardinality(Positions(s)))'
  BY <1>4
<1>6. (pc[s] = "xadd" /\ outbox[s].event \in CheckEvents =>
           outbox[s].progress = Cardinality(Positions(s)) + 1)'
  BY <1>2
<1> QED
  BY <1>3, <1>5, <1>6 DEF CountInv

LEMMA CountsInvariant == Spec => [](ReportInv /\ SavesInv /\ CountsInv)
<1>1. Init => CountsInv
  <2> SUFFICES ASSUME Init, NEW s \in Scan
               PROVE  CountInv(s) /\ RunnerInv(s)
    BY DEF CountsInv
  <2>1. Positions(s) = {} /\ ToldChecks(s) = {}
    BY DEF Init, Positions, ToldChecks, CheckPositions, ChecksAt
  <2> QED
    BY <2>1 DEF Init, CountInv, RunnerInv, NoError
<1>2. ReportInv /\ CountsInv /\ [Next]_vars => CountsInv'
  BY NextCounts DEF ReportInv
<1> QED
  BY <1>1, <1>2, SavesInvariant, PTL DEF Spec

-----------------------------------------------------------------------------
(***************************************************************************)
(* How long a stream gets.  What earlier attempts wrote is bounded by their *)
(* number; of the last attempt there are the events of its checks, and at   *)
(* most one answer of each kind: it says scan_complete only while it has    *)
(* not answered, and scan_error only once.                                  *)
(***************************************************************************)
AttemptLength == Cardinality(Check) + 2

AnswersOf(s) == (IF Said(s, tries[s], "scan_complete") THEN 1 ELSE 0)
                    + (IF Said(s, tries[s], "scan_error") THEN 1 ELSE 0)

LengthInv(s) ==
    /\ tries[s] = 0 => Len(stream[s]) = 0
    /\ tries[s] # 0 =>
           Len(stream[s]) + AttemptLength
               <= tries[s] * AttemptLength + Cardinality(Positions(s)) + AnswersOf(s)

LengthsInv == \A s \in Scan : LengthInv(s)

(* No attempt writes more than its share.                                   *)
LEMMA ShareOfAnAttempt ==
    ASSUME TypeInv, NEW s \in Scan, CountInv(s), LengthInv(s)
    PROVE  /\ Len(stream[s]) \in Nat /\ AttemptLength \in Nat
           /\ Len(stream[s]) <= tries[s] * AttemptLength
<1>1. Len(stream[s]) \in Nat /\ tries[s] \in Nat /\ Cardinality(Check) \in Nat
  BY LenProperties, BoundsAssumption, ChecksAssumption, FS_CardinalityType DEF TypeInv, TypeOK
<1>2. Cardinality(Positions(s)) \in Nat /\ Cardinality(Positions(s)) <= Cardinality(Check)
  <2>1. Cardinality(ToldChecks(s)) \in Nat /\ Cardinality(ToldChecks(s)) <= Cardinality(Check)
    BY ChecksAssumption, FS_Subset, FS_CardinalityType DEF CountInv
  <2> QED
    BY <2>1 DEF CountInv
<1>3. AnswersOf(s) \in 0..2
  BY DEF AnswersOf
<1>4. PICK m : m = tries[s] * AttemptLength
  OBVIOUS
<1>5. m \in Int /\ AttemptLength \in Nat
  BY <1>1, <1>4 DEF AttemptLength
<1>6. tries[s] = 0 => m = 0
  BY <1>1, <1>4, <1>5
<1>7. Len(stream[s]) <= m
  BY SMTT(30), <1>1, <1>2, <1>3, <1>4, <1>5, <1>6 DEF LengthInv, AttemptLength
<1> QED
  BY <1>1, <1>4, <1>5, <1>7

(* An event more is a check more, or an answer more.                        *)
LEMMA AppendLength ==
    ASSUME TypeInv, AnswerInv, AttemptsInv, SavesInv, CountsInv, NEW s \in Scan, LengthInv(s),
           pc[s] = "xadd", Append1(s), tries'[s] = tries[s]
    PROVE  LengthInv(s)'
<1>1. PICK q, e, n : q = stream[s] /\ e = outbox[s] /\ n = tries[s]
  OBVIOUS
<1>2. q \in Seq(Event) /\ e \in Event /\ stream'[s] = Append(q, e) /\ n \in Nat
  BY <1>1, BoundsAssumption DEF TypeInv, TypeOK, OutboxSet, Append1
<1>3. Len(q) \in Nat /\ Len(Append(q, e)) = Len(q) + 1
  BY <1>2, AppendProperties, LenProperties
<1>4. n # 0
  BY <1>1, <1>2 DEF AttemptsInv, AttemptInv, Running, Active
<1>5. \A event : Said(s, n, event)' <=> Said(s, n, event) \/ event = e.event
  <2>1. \A m, event :
            Said(s, m, event)' <=>
                Said(s, m, event) \/ (m = tries[s] /\ event = outbox[s].event)
    BY OwnEvents, XaddSaid
  <2> QED
    BY <1>1, <2>1
<1>6. PICK p, u : p = Cardinality(Positions(s)) /\ u = Cardinality(Positions(s)')
  OBVIOUS
<1>7. /\ p \in Nat
      /\ e.event \in CheckEvents => u = p + 1
      /\ e.event \notin CheckEvents => u = p
  BY <1>1, <1>6, AppendCounts, PositionsFinite DEF Positions
<1>8. PICK a, b : /\ a = (IF Said(s, n, "scan_complete") THEN 1 ELSE 0)
                              + (IF Said(s, n, "scan_error") THEN 1 ELSE 0)
                  /\ b = (IF Said(s, n, "scan_complete")' THEN 1 ELSE 0)
                              + (IF Said(s, n, "scan_error")' THEN 1 ELSE 0)
  OBVIOUS
<1>9. /\ a \in Nat
      /\ e.event \in CheckEvents => b = a
      /\ e.event \notin CheckEvents => b = a + 1
  <2>1. CASE e.event \in CheckEvents
    BY <1>5, <1>8, <2>1 DEF CheckEvents
  <2>2. CASE e.event = "scan_complete"
    <3>1. ~Said(s, n, "scan_complete")
      BY <1>1, <2>2 DEF SavesInv, SaveInv, Unanswered, TerminalEvents
    <3> QED
      BY <1>5, <1>8, <2>2, <3>1 DEF CheckEvents
  <2>3. CASE e.event = "scan_error"
    <3>1. ~Said(s, n, "scan_error")
      BY <1>1, <2>3 DEF CountsInv, CountInv, NoError
    <3> QED
      BY <1>5, <1>8, <2>3, <3>1 DEF CheckEvents
  <2>4. e.event \in CheckEvents \cup {"scan_complete", "scan_error"}
    BY <1>2 DEF Event, TerminalEvents
  <2> QED
    BY <2>1, <2>2, <2>3, <2>4
<1>10. AnswersOf(s) = a /\ AnswersOf(s)' = b
  BY <1>1, <1>8 DEF AnswersOf, Said
<1>11. PICK m, k : m = n * AttemptLength /\ k = AttemptLength
  OBVIOUS
<1>12. m \in Int /\ k \in Int
  <2>1. Cardinality(Check) \in Nat
    BY ChecksAssumption, FS_CardinalityType
  <2> QED
    BY <1>2, <1>11, <2>1 DEF AttemptLength
<1>13. Len(q) + k <= m + p + a
  BY <1>1, <1>4, <1>6, <1>10, <1>11 DEF LengthInv
<1>14. (Len(q) + 1) + k <= m + u + b
  BY <1>3, <1>7, <1>9, <1>12, <1>13
<1>15. /\ tries'[s] = n /\ Len(stream'[s]) = Len(q) + 1
       /\ AttemptLength' = k /\ tries'[s] * AttemptLength' = m
  BY <1>1, <1>2, <1>3, <1>11 DEF AttemptLength
<1> QED
  BY <1>4, <1>6, <1>10, <1>14, <1>15 DEF LengthInv

LEMMA NextLengths ==
    TypeInv /\ AnswerInv /\ AttemptsInv /\ SavesInv /\ CountsInv /\ LengthsInv /\ [Next]_vars
        => LengthsInv'
<1> SUFFICES ASSUME TypeInv, AnswerInv, AttemptsInv, SavesInv, CountsInv, LengthsInv,
                    [Next]_vars, NEW s \in Scan
             PROVE  LengthInv(s)'
  BY DEF LengthsInv
<1>1. LengthInv(s) /\ CountInv(s)
  BY DEF LengthsInv, CountsInv
<1>2. CASE stream'[s] # stream[s]
  BY <1>1, <1>2, OnlyOwnXadd, AppendLength
<1>3. CASE stream'[s] = stream[s] /\ tries'[s] = tries[s]
  BY <1>1, <1>3 DEF LengthInv, AttemptLength, AnswersOf, Positions, CheckPositions, Said
<1>4. ASSUME NEW w \in Worker, StartJob(w, s)
      PROVE  LengthInv(s)'
  <2>1. PICK n, k, len : n = tries[s] /\ k = AttemptLength /\ len = Len(stream[s])
    OBVIOUS
  <2>2. /\ tries'[s] = n + 1 /\ n \in Nat /\ Len(stream'[s]) = len
        /\ Cardinality(Positions(s)') = 0 /\ AnswersOf(s)' = 0
    <3>1. /\ tries'[s] = tries[s] + 1 /\ tries[s] \in Nat /\ stream' = stream
          /\ Positions(s)' = {} /\ \A event : ~Said(s, tries[s], event)'
      BY <1>4, StartIsSilent
    <3>2. ~Said(s, tries[s], "scan_complete")' /\ ~Said(s, tries[s], "scan_error")'
      BY <3>1
    <3>3. AnswersOf(s)' = 0
      BY <3>2 DEF AnswersOf
    <3> QED
      BY <2>1, <3>1, <3>3, FS_EmptySet
  <2>3. len \in Nat /\ k \in Nat /\ len <= n * k
    BY <1>1, <2>1, ShareOfAnAttempt
  <2>4. len + k <= (n + 1) * k + 0 + 0
    BY <2>2, <2>3
  <2>5. AttemptLength' = k
    BY <2>1 DEF AttemptLength
  <2> QED
    BY <2>2, <2>4, <2>5 DEF LengthInv
<1> QED
  BY <1>2, <1>3, <1>4, OnlyStartBegins

(* A stream never holds more than what its attempts may write: for each of   *)
(* them one event per check, one answer and one error.                       *)
THEOREM StreamsStayShort == Spec => []StreamStaysShort
<1>1. Init => LengthsInv
  BY EmptySeq DEF Init, LengthsInv, LengthInv
<1>2. ReportInv /\ SavesInv /\ CountsInv /\ LengthsInv /\ [Next]_vars => LengthsInv'
  BY NextLengths DEF ReportInv
<1>3. ReportInv /\ CountsInv /\ LengthsInv => StreamStaysShort
  BY ShareOfAnAttempt DEF ReportInv, CountsInv, LengthsInv, StreamStaysShort, AttemptLength
<1> QED
  BY <1>1, <1>2, <1>3, CountsInvariant, PTL DEF Spec

-----------------------------------------------------------------------------
(* What the events up to position i of their attempt say.                   *)
UpTo(s, i) == {j \in CheckPositions(s, stream[s][i].run) : j <= i}

Exact(s, i) ==
    stream[s][i].event \in CheckEvents =>
        /\ stream[s][i].progress = Cardinality(UpTo(s, i))
        /\ Cardinality(ChecksAt(s, UpTo(s, i))) = Cardinality(UpTo(s, i))

LEMMA ExactIsProgress == ProgressIsExact <=> \A s \in Scan : \A i \in DOMAIN stream[s] : Exact(s, i)
BY DEF ProgressIsExact, Exact, UpTo

LEMMA NextExact ==
    ASSUME TypeInv, AnswerInv, AttemptsInv, CountsInv, [Next]_vars, NEW s \in Scan,
           \A i \in DOMAIN stream[s] : Exact(s, i)
    PROVE  \A i \in DOMAIN stream'[s] : Exact(s, i)'
<1>1. CASE stream'[s] = stream[s]
  <2>1. \A i \in DOMAIN stream[s] : UpTo(s, i)' = UpTo(s, i)
    BY <1>1 DEF UpTo, CheckPositions
  <2>2. \A i \in DOMAIN stream[s] : ChecksAt(s, UpTo(s, i))' = ChecksAt(s, UpTo(s, i))
    BY <1>1, <2>1 DEF ChecksAt
  <2> QED
    BY <1>1, <2>1, <2>2 DEF Exact
<1>2. CASE stream'[s] # stream[s]
  <2>1. pc[s] = "xadd" /\ Append1(s) /\ tries'[s] = tries[s]
    BY <1>2, OnlyOwnXadd
  <2>2. PICK k \in Nat :
            /\ DOMAIN stream'[s] = DOMAIN stream[s] \cup {k}
            /\ \A i \in DOMAIN stream[s] : i \in Nat /\ i < k /\ stream'[s][i] = stream[s][i]
            /\ stream'[s][k] = outbox[s]
    BY <2>1, AppendShape
  <2>3. \A n : /\ k \notin CheckPositions(s, n)
               /\ CheckPositions(s, n)' = CheckPositions(s, n)
                     \cup (IF n = tries[s] /\ outbox[s].event \in CheckEvents THEN {k} ELSE {})
    <3>1. \A i \in DOMAIN stream[s] : i # k
      BY <2>2
    <3> QED
      BY <2>1, <2>2, <3>1, AppendPositions
  <2>4. ASSUME NEW i \in DOMAIN stream[s]
        PROVE  Exact(s, i)'
    <3>1. i \in Nat /\ i < k /\ stream'[s][i] = stream[s][i]
      BY <2>2
    <3>2. UpTo(s, i)' = UpTo(s, i)
      <4>1. PICK n : n = stream[s][i].run
        OBVIOUS
      <4>2. {j \in CheckPositions(s, n)' : j <= i} = {j \in CheckPositions(s, n) : j <= i}
        BY <2>3, <3>1
      <4> QED
        BY <3>1, <4>1, <4>2 DEF UpTo, CheckPositions
    <3>3. \A j \in UpTo(s, i) : stream'[s][j] = stream[s][j]
      BY <2>2 DEF UpTo, CheckPositions
    <3>4. ChecksAt(s, UpTo(s, i))' = ChecksAt(s, UpTo(s, i))
      BY <3>2, <3>3 DEF ChecksAt
    <3> QED
      BY <3>1, <3>2, <3>4 DEF Exact
  <2>5. Exact(s, k)'
    <3>1. CASE outbox[s].event \in CheckEvents
      <4>1. outbox[s].run = tries[s]
        BY <2>1 DEF AnswerInv, PublishedLast
      <4>2. UpTo(s, k)' = Positions(s)'
        <5>1. \A j \in CheckPositions(s, tries[s])' : j <= k
          BY <2>1, <2>2 DEF CheckPositions
        <5> QED
          BY <2>1, <2>2, <4>1, <5>1 DEF UpTo, Positions
      <4>3. ChecksAt(s, UpTo(s, k))' = ToldChecks(s)'
        BY <4>2 DEF ToldChecks, ChecksAt
      <4>4. /\ Cardinality(ToldChecks(s)') = Cardinality(Positions(s)')
            /\ Cardinality(Positions(s)') = Cardinality(Positions(s)) + 1
        BY <2>1, <3>1, AppendCounts
      <4>5. outbox[s].progress = Cardinality(Positions(s)) + 1
        BY <2>1, <3>1 DEF CountsInv, CountInv
      <4> QED
        BY <2>2, <4>2, <4>3, <4>4, <4>5 DEF Exact
    <3>2. CASE outbox[s].event \notin CheckEvents
      BY <2>2, <3>2 DEF Exact
    <3> QED
      BY <3>1, <3>2
  <2> QED
    BY <2>2, <2>4, <2>5
<1> QED
  BY <1>1, <1>2

(* Whatever earlier attempts left in the stream, the k-th check event of an  *)
(* attempt says k, and no check is reported twice.                           *)
THEOREM ProgressCounts == Spec => []ProgressIsExact
<1>1. Init => ProgressIsExact
  BY DEF Init, ProgressIsExact
<1>2. ReportInv /\ CountsInv /\ ProgressIsExact /\ [Next]_vars => ProgressIsExact'
  <2> SUFFICES ASSUME ReportInv, CountsInv, ProgressIsExact, [Next]_vars
               PROVE  ProgressIsExact'
    OBVIOUS
  <2>1. \A s \in Scan : \A i \in DOMAIN stream[s] : Exact(s, i)
    BY ExactIsProgress
  <2>2. \A s \in Scan : \A i \in DOMAIN stream'[s] : Exact(s, i)'
    BY <2>1, NextExact DEF ReportInv
  <2> QED
    BY <2>2 DEF ProgressIsExact, Exact, UpTo
<1> QED
  BY <1>1, <1>2, CountsInvariant, PTL DEF Spec

-----------------------------------------------------------------------------
(* The refinement.  Only three kinds of step show in the protocol: an        *)
(* attempt begins, its stream grows, the job is done.                        *)
LEMMA JobsEndOnce ==
    ASSUME TypeInv, CountsInv, [Next]_vars, NEW s \in Scan
    PROVE  /\ pc[s] = "done" => pc'[s] = "done"
           /\ pc[s] # "done" /\ pc'[s] = "done" => Exhausted(s) \/ FinishJob(s)
<1> DEFINE Same == pc'[s] = "done" <=> pc[s] = "done"
<1> USE DEF TypeInv, TypeOK
<1>1. ASSUME NEW t \in Scan, Raise(t), pc[t] # "done"
      PROVE  Same
  BY <1>1 DEF Raise, Publish, Return
<1>2. ASSUME NEW t \in Scan, LookupFails(t) \/ XaddFails(t) \/ ExpireFails(t)
      PROVE  Same
  BY <1>1, <1>2 DEF LookupFails, XaddFails, ExpireFails
<1>3. ASSUME NEW t \in Scan, NEW st \in Store, SaveFails(t, st)
      PROVE  Same
  <2>1. CASE pc[t] = "save" /\ Raise(t)
    BY <1>1, <2>1
  <2>2. CASE UNCHANGED <<pc, result, outbox>>
    BY <2>2
  <2> QED
    BY <1>3, <2>1, <2>2 DEF SaveFails
<1>4. ASSUME NEW t \in Scan,
             \/ Enqueue(t) \/ JobTimeout(t) \/ Xadd(t) \/ Expire(t)
             \/ CacheMiss(t) \/ ComputeAndSave(t) \/ CacheHit(t) \/ GatherDone(t)
             \/ (\E st \in Store : SaveLands(t, st)) \/ (\E w \in Worker : StartJob(w, t))
             \/ (\E c \in Check, ok \in BOOLEAN : NextCheck(t, c, ok))
      PROVE  Same
  BY <1>4 DEF Enqueue, JobTimeout, Running, Active, Return, Xadd, Expire, AfterPublish,
       CacheMiss, ComputeAndSave, CacheHit, GatherDone, Publish, SaveLands, StartJob, NextCheck
<1>5. ASSUME NEW t \in Scan, Exhausted(t) \/ FinishJob(t)
      PROVE  IF t = s THEN pc[s] # "done" /\ pc'[s] = "done" ELSE Same
  BY <1>5 DEF Exhausted, FinishJob
<1>6. ASSUME NEW w \in Worker, Crash(w)
      PROVE  Same
  BY <1>6, NullsAssumption DEF Crash, CountsInv, RunnerInv
<1>7. CASE Expiry \/ UNCHANGED vars
  BY <1>7 DEF Expiry, ExpireReport, ExpireStream, ExpireCache, vars
<1> QED
  BY <1>2, <1>3, <1>4, <1>5, <1>6, <1>7 DEF Next, QueueStep, JobStep, Fault

(* What a scan shows changes with its stream and its attempts only.         *)
LEMMA ShownFrame ==
    ASSUME NEW t \in Scan, stream'[t] = stream[t], tries'[t] = tries[t]
    PROVE  checksReported'[t] = checksReported[t] /\ answerGiven'[t] = answerGiven[t]
<1>1. CheckPositions(t, tries[t])' = CheckPositions(t, tries[t])
  BY DEF CheckPositions
<1>2. \A event : Said(t, tries[t], event)' <=> Said(t, tries[t], event)
  BY DEF Said
<1> QED
  BY <1>1, <1>2 DEF checksReported, answerGiven

LEMMA ShownTypes ==
    /\ DOMAIN checksReported = Scan /\ DOMAIN checksReported' = Scan
    /\ DOMAIN answerGiven = Scan /\ DOMAIN answerGiven' = Scan
    /\ checksReported = [s \in Scan |-> checksReported[s]]
    /\ checksReported' = [s \in Scan |-> checksReported'[s]]
    /\ answerGiven = [s \in Scan |-> answerGiven[s]]
    /\ answerGiven' = [s \in Scan |-> answerGiven'[s]]
    /\ jobEnded = [s \in Scan |-> pc[s] = "done"]
    /\ jobEnded' = [s \in Scan |-> pc'[s] = "done"]
BY DEF checksReported, answerGiven, jobEnded

LEMMA BeginShown ==
    ASSUME TypeInv, AttemptsInv, CountsInv, [Next]_vars, NEW s \in Scan, NEW w \in Worker,
           StartJob(w, s)
    PROVE  Protocol!Begin(s)
<1>1. /\ pc[s] = "queued" /\ pc'[s] = "lookup" /\ stream' = stream
      /\ Positions(s)' = {} /\ \A event : ~Said(s, tries[s], event)'
  BY StartIsSilent
<1>2. /\ tries[s] < MaxTries /\ tries' = [tries EXCEPT ![s] = @ + 1]
      /\ pc' = [pc EXCEPT ![s] = "lookup"]
  BY DEF StartJob
<1>3. \A t \in Scan \ {s} : checksReported'[t] = checksReported[t] /\ answerGiven'[t] = answerGiven[t]
  BY <1>1, <1>2, ShownFrame DEF TypeInv, TypeOK
<1>4. checksReported'[s] = 0 /\ answerGiven'[s] = "none"
  BY <1>1, FS_EmptySet DEF checksReported, answerGiven, Positions
<1>5. checksReported' = [checksReported EXCEPT ![s] = 0]
  BY <1>3, <1>4, ShownTypes
<1>6. answerGiven' = [answerGiven EXCEPT ![s] = "none"]
  BY <1>3, <1>4, ShownTypes
<1>7. ~jobEnded[s] /\ jobEnded' = jobEnded
  BY <1>1, <1>2 DEF jobEnded, TypeInv, TypeOK
<1> QED
  BY <1>2, <1>5, <1>6, <1>7 DEF Protocol!Begin

LEMMA CloseShown ==
    ASSUME TypeInv, AttemptsInv, [Next]_vars, NEW s \in Scan, Exhausted(s) \/ FinishJob(s)
    PROVE  Protocol!Close(s)
<1>1. /\ pc[s] \in {"queued", "return"} /\ pc' = [pc EXCEPT ![s] = "done"]
      /\ tries' = tries /\ stream' = stream /\ tries[s] > 0
  <2>1. tries[s] \in Nat /\ (pc[s] = "return" => tries[s] >= 1)
    BY BoundsAssumption DEF AttemptsInv, AttemptInv, Running, Active, TypeInv, TypeOK
  <2> QED
    BY <2>1, BoundsAssumption DEF Exhausted, FinishJob, queueVars, streamVars
<1>2. checksReported' = checksReported /\ answerGiven' = answerGiven
  BY <1>1, ShownFrame, ShownTypes
<1>3. jobEnded' = [jobEnded EXCEPT ![s] = TRUE] /\ ~jobEnded[s]
  BY <1>1 DEF jobEnded, TypeInv, TypeOK
<1> QED
  BY <1>1, <1>2, <1>3 DEF Protocol!Close, Protocol!InAttempt

(* The running attempt reports a check, completes or fails.                 *)
LEMMA AppendShown ==
    ASSUME TypeInv, AnswerInv, AttemptsInv, SavesInv, CountsInv, [Next]_vars, NEW s \in Scan,
           pc[s] = "xadd", Append1(s), tries' = tries, jobEnded' = jobEnded
    PROVE  Protocol!Report(s) \/ Protocol!Complete(s) \/ Protocol!Fail(s)
<1> DEFINE n == Cardinality(Check)
<1>1. Protocol!InAttempt(s)
  <2>1. tries[s] >= 1 /\ tries[s] \in Nat
    BY BoundsAssumption DEF AttemptsInv, AttemptInv, Running, Active, TypeInv, TypeOK
  <2>2. ~jobEnded[s]
    BY DEF jobEnded
  <2>3. tries[s] > 0
    BY <2>1
  <2> QED
    BY <2>2, <2>3 DEF Protocol!InAttempt
<1>2. \A t \in Scan \ {s} : checksReported'[t] = checksReported[t] /\ answerGiven'[t] = answerGiven[t]
  BY ShownFrame DEF Append1, TypeInv, TypeOK
<1>3. /\ checksReported[s] = Cardinality(Positions(s)) /\ Cardinality(Positions(s)) \in Nat
      /\ checksReported'[s] = Cardinality(Positions(s)')
  BY PositionsFinite DEF checksReported, Positions
<1>4. \A event : Said(s, tries[s], event)' <=> Said(s, tries[s], event) \/ event = outbox[s].event
  <2>1. \A m, event : Said(s, m, event)' <=>
                          Said(s, m, event) \/ (m = tries[s] /\ event = outbox[s].event)
    BY OwnEvents, XaddSaid
  <2>2. PICK m : m = tries[s]
    OBVIOUS
  <2>3. \A event : Said(s, m, event)' <=> Said(s, m, event) \/ event = outbox[s].event
    BY <2>1, <2>2
  <2> QED
    BY <2>2, <2>3 DEF Said
<1>5. ~Said(s, tries[s], "scan_error")
  BY DEF CountsInv, CountInv, NoError
<1>6. outbox[s].event # "scan_error" => ~Said(s, tries[s], "scan_complete")
  BY DEF SavesInv, SaveInv, Unanswered, TerminalEvents
<1>7. /\ ToldChecks(s)' \subseteq Check
      /\ Cardinality(ToldChecks(s)') = Cardinality(Positions(s)')
      /\ outbox[s].event \in CheckEvents =>
             Cardinality(Positions(s)') = Cardinality(Positions(s)) + 1
      /\ outbox[s].event \notin CheckEvents => Positions(s)' = Positions(s)
  BY AppendCounts
<1>8. CASE outbox[s].event \in CheckEvents
  <2>1. Cardinality(ToldChecks(s)') <= n /\ n \in Nat
    BY <1>7, ChecksAssumption, FS_Subset, FS_CardinalityType
  <2>2. checksReported[s] < n
    BY <1>3, <1>7, <1>8, <2>1
  <2>3. checksReported' = [checksReported EXCEPT ![s] = @ + 1]
    BY <1>2, <1>3, <1>7, <1>8, ShownTypes
  <2>4. answerGiven[s] = "none" /\ answerGiven'[s] = "none"
    BY <1>4, <1>5, <1>6, <1>8 DEF answerGiven, CheckEvents
  <2>5. answerGiven' = answerGiven
    BY <1>2, <2>4, ShownTypes
  <2> QED
    BY <1>1, <2>2, <2>3, <2>4, <2>5 DEF Protocol!Report
<1>9. CASE outbox[s].event \notin CheckEvents
  <2>1. checksReported' = checksReported
    BY <1>2, <1>3, <1>7, <1>9, ShownTypes
  <2>2. CASE outbox[s].event = "scan_complete"
    <3>1. answerGiven[s] = "none" /\ answerGiven'[s] = "complete"
      BY <1>4, <1>5, <1>6, <2>2 DEF answerGiven
    <3>2. answerGiven' = [answerGiven EXCEPT ![s] = "complete"]
      BY <1>2, <3>1, ShownTypes
    <3>3. CASE Positions(s) = {}
      BY <1>1, <1>3, <2>1, <3>1, <3>2, <3>3, FS_EmptySet DEF Protocol!Complete
    <3>4. CASE Positions(s) # {}
      <4>1. IsRun(FreshReport(s), tries[s])
        BY <2>2, <3>4 DEF SavesInv, SaveInv, Announcing, Measured, Positions, Saved
      <4>2. \A c \in Check : c \in ToldChecks(s)
        BY <4>1, ToldIsKnown DEF IsRun, FreshReport
      <4>3. ToldChecks(s) = Check /\ Cardinality(ToldChecks(s)) = Cardinality(Positions(s))
        BY <4>2 DEF CountsInv, CountInv
      <4> QED
        BY <1>1, <1>3, <2>1, <3>1, <3>2, <4>3 DEF Protocol!Complete
    <3> QED
      BY <3>3, <3>4
  <2>3. CASE outbox[s].event = "scan_error"
    <3>1. answerGiven[s] # "error" /\ answerGiven'[s] = "error"
      BY <1>4, <1>5, <2>3 DEF answerGiven
    <3>2. answerGiven' = [answerGiven EXCEPT ![s] = "error"]
      BY <1>2, <3>1, ShownTypes
    <3> QED
      BY <1>1, <2>1, <3>1, <3>2 DEF Protocol!Fail
  <2>4. outbox[s].event \in CheckEvents \cup {"scan_complete", "scan_error"}
    BY DEF TypeInv, OutboxSet, Event, TerminalEvents
  <2> QED
    BY <1>9, <2>2, <2>3, <2>4
<1> QED
  BY <1>8, <1>9

LEMMA NextShown ==
    TypeInv /\ AnswerInv /\ AttemptsInv /\ SavesInv /\ CountsInv /\ [Next]_vars
        => [Protocol!Next]_(Protocol!vars)
<1> SUFFICES ASSUME TypeInv, AnswerInv, AttemptsInv, SavesInv, CountsInv, [Next]_vars
             PROVE  [Protocol!Next]_(Protocol!vars)
  OBVIOUS
<1>1. ASSUME NEW s \in Scan, tries'[s] # tries[s]
      PROVE  Protocol!Next
  BY <1>1, OnlyStartBegins, BeginShown DEF Protocol!Next
<1>2. ASSUME NEW s \in Scan, (pc'[s] = "done") # (pc[s] = "done")
      PROVE  Protocol!Next
  BY <1>2, JobsEndOnce, CloseShown DEF Protocol!Next
<1>3. CASE /\ \A s \in Scan : tries'[s] = tries[s]
           /\ \A s \in Scan : (pc'[s] = "done") = (pc[s] = "done")
  <2>1. tries' = tries
    BY <1>3, NextType DEF TypeInv, TypeOK
  <2>2. jobEnded' = jobEnded
    BY <1>3 DEF jobEnded
  <2>3. ASSUME NEW s \in Scan, stream'[s] # stream[s]
        PROVE  Protocol!Next
    BY <2>1, <2>2, <2>3, OnlyOwnXadd, AppendShown DEF Protocol!Next
  <2>4. CASE \A s \in Scan : stream'[s] = stream[s]
    <3>1. checksReported' = checksReported /\ answerGiven' = answerGiven
      BY <2>1, <2>4, ShownFrame, ShownTypes
    <3> QED
      BY <2>1, <2>2, <3>1 DEF Protocol!vars
  <2> QED
    BY <2>3, <2>4
<1> QED
  BY <1>1, <1>2, <1>3

(* Every attempt of every scan keeps the protocol its readers rely on.       *)
THEOREM JobsKeepProtocol == Spec => KeepsProtocol
<1>1. Init => Protocol!Init
  <2> SUFFICES ASSUME Init
               PROVE  Protocol!Init
    OBVIOUS
  <2>1. \A s \in Scan : CheckPositions(s, tries[s]) = {} /\ \A event : ~Said(s, tries[s], event)
    BY DEF Init, CheckPositions, Said
  <2>2. Cardinality({}) = 0
    BY FS_EmptySet
  <2> QED
    BY <2>1, <2>2 DEF Init, Protocol!Init, checksReported, answerGiven, jobEnded
<1>2. ReportInv /\ SavesInv /\ CountsInv /\ [Next]_vars => [Protocol!Next]_(Protocol!vars)
  BY NextShown DEF ReportInv
<1> QED
  BY <1>1, <1>2, CountsInvariant, PTL DEF Spec, KeepsProtocol, Protocol!Spec

=============================================================================
