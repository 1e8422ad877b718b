-------------------------- MODULE ScanSystemProofs --------------------------
(***************************************************************************)
(* Theorems about the worker and the readers together, for every set of     *)
(* scans, checks and readers, every size of a batch and every number of     *)
(* faults, deaths, expiries and lost connections.                           *)
(*                                                                         *)
(* The readers see of the worker only a log that grows and expires, so what *)
(* EventReaderProofs says of them holds here.  The worker owes them that a  *)
(* scan_complete comes after the checks it sums up (SummaryInv); a reader   *)
(* that received it has then received those.                                *)
(***************************************************************************)
EXTENDS ScanSystem, ScanSavesProofs

Delivery == INSTANCE EventReaderProofs WITH
    Terminal <- {e \in Event : e.event \in TerminalEvents},
    MaxLog <- MaxTries * (Cardinality(Check) + 2),
    log <- stream[Followed],
    gone <- trimmed[Followed],
    expired <- expiries

-----------------------------------------------------------------------------
(* What the scan_complete at position k of a stream owes its reader, if its  *)
(* attempt ran the checks: all of them before it, and its report is theirs.  *)
Summary(s, k) ==
    LET e == stream[s][k] IN
    e.event = "scan_complete" /\ Measured(s, e.run) =>
        /\ e.report \in Report /\ e.report.origin = s /\ IsRun(e.report, e.run)
        /\ \A i \in CheckPositions(s, e.run) : i < k

(* What an attempt announces is its own report, once it measured.            *)
AnnouncesItsOwn(s) ==
    pc[s] = "xadd" /\ outbox[s].event = "scan_complete" /\ Measured(s, tries[s]) =>
        outbox[s].report = FreshReport(s)

SummaryOf(s) ==
    /\ \A i \in DOMAIN stream[s] :
           /\ stream[s][i].event \in CheckEvents => stream[s][i].check \in Check
           /\ Summary(s, i)
    /\ AnnouncesItsOwn(s)

SummaryInv == \A s \in Scan : SummaryOf(s)

-----------------------------------------------------------------------------
(* How an attempt comes to publish a scan_complete.                         *)
LEMMA CompletesComeFromTheEnd ==
    ASSUME TypeInv, [Next]_vars, NEW s \in Scan,
           pc'[s] = "xadd", outbox'[s].event = "scan_complete"
    PROVE  \/ /\ pc[s] = "xadd" /\ outbox'[s] = outbox[s] /\ outcome'[s] = outcome[s]
              /\ stream'[s] = stream[s] /\ tries'[s] = tries[s]
           \/ CacheHit(s) \/ GatherDone(s)
<1> USE DEF TypeInv, TypeOK, queueVars, streamVars
<1> DEFINE Same == /\ pc[s] = "xadd" /\ outbox'[s] = outbox[s] /\ outcome'[s] = outcome[s]
                   /\ stream'[s] = stream[s] /\ tries'[s] = tries[s]
<1>1. ASSUME NEW t \in Scan, Raise(t), stream'[s] # stream[s] => t = s, tries' = tries,
             outcome' = outcome
      PROVE  Same
  BY <1>1 DEF Raise, Publish, Return, ScanError
<1>2. ASSUME NEW t \in Scan, LookupFails(t) \/ XaddFails(t) \/ ExpireFails(t)
      PROVE  Same
  <2>1. Raise(t) /\ tries' = tries /\ outcome' = outcome /\ (stream'[s] # stream[s] => t = s)
    BY <1>2 DEF LookupFails, XaddFails, ExpireFails, Append1
  <2> QED
    BY <1>1, <2>1
<1>3. ASSUME NEW t \in Scan, NEW st \in Store, SaveFails(t, st)
      PROVE  Same
  <2>1. CASE Raise(t)
    BY <1>1, <1>3, <2>1 DEF SaveFails
  <2> QED
    BY <1>3, <2>1 DEF SaveFails
<1>4. ASSUME NEW t \in Scan, CacheHit(t) \/ GatherDone(t)
      PROVE  Same \/ CacheHit(s) \/ GatherDone(s)
  BY <1>4 DEF CacheHit, GatherDone, Publish
<1>5. ASSUME NEW t \in Scan, NEW c \in Check, NEW ok \in BOOLEAN, NextCheck(t, c, ok)
      PROVE  Same
  <2>1. PICK e : Publish(t, e) /\ e.event \in CheckEvents
    BY <1>5 DEF NextCheck, CheckEvent, CheckEvents
  <2> QED
    BY <1>5, <2>1 DEF NextCheck, Publish, CheckEvents
<1>6. ASSUME NEW t \in Scan,
             \/ Enqueue(t) \/ Exhausted(t) \/ FinishJob(t) \/ JobTimeout(t) \/ Xadd(t) \/ Expire(t)
             \/ CacheMiss(t) \/ ComputeAndSave(t)
             \/ (\E st \in Store : SaveLands(t, st)) \/ (\E w \in Worker : StartJob(w, t))
      PROVE  Same
  BY <1>6 DEF Enqueue, Exhausted, FinishJob, JobTimeout, Return, Xadd, Append1, Expire, AfterPublish,
       CacheMiss, ComputeAndSave, SaveLands, StartJob
<1>7. ASSUME NEW w \in Worker, Crash(w)
      PROVE  Same
  BY <1>7 DEF Crash
<1>8. CASE Expiry \/ UNCHANGED vars
  BY <1>8 DEF Expiry, ExpireReport, ExpireStream, ExpireCache, vars
<1> QED
  BY <1>2, <1>3, <1>4, <1>5, <1>6, <1>7, <1>8 DEF Next, QueueStep, JobStep, Fault

LEMMA MeasuredFrame ==
    ASSUME NEW s \in Scan, stream'[s] = stream[s]
    PROVE  /\ \A n : CheckPositions(s, n)' = CheckPositions(s, n)
           /\ \A n : Measured(s, n)' <=> Measured(s, n)
           /\ tries'[s] = tries[s] => (Measured(s, tries[s])' <=> Measured(s, tries[s]))
BY DEF Measured, CheckPositions

LEMMA NextAnnounces ==
    ASSUME TypeInv, SavesInv, [Next]_vars, NEW s \in Scan, AnnouncesItsOwn(s)
    PROVE  AnnouncesItsOwn(s)'
<1> SUFFICES ASSUME pc'[s] = "xadd", outbox'[s].event = "scan_complete", Measured(s, tries[s])'
             PROVE  outbox'[s].report = FreshReport(s)'
  BY DEF AnnouncesItsOwn
<1>1. CASE /\ pc[s] = "xadd" /\ outbox'[s] = outbox[s] /\ outcome'[s] = outcome[s]
           /\ stream'[s] = stream[s] /\ tries'[s] = tries[s]
  BY <1>1, MeasuredFrame DEF AnnouncesItsOwn, FreshReport
<1>2. CASE CacheHit(s)
  <2>1. pc[s] = "lookup" /\ stream'[s] = stream[s] /\ tries'[s] = tries[s]
    BY <1>2 DEF CacheHit, streamVars, queueVars
  <2>2. ~Measured(s, tries[s])
    BY <2>1 DEF SavesInv, SaveInv
  <2> QED
    BY <2>1, <2>2, MeasuredFrame
<1>3. CASE GatherDone(s)
  BY <1>3 DEF GatherDone, Publish, ScanComplete, FreshReport, TypeInv, TypeOK
<1> QED
  BY <1>1, <1>2, <1>3, CompletesComeFromTheEnd

-----------------------------------------------------------------------------
LEMMA StreamTyped ==
    ASSUME TypeInv, NEW s \in Scan, NEW k \in DOMAIN stream[s]
    PROVE  stream[s][k] \in Event /\ stream[s][k].run \in Nat
<1>1. stream[s] \in Seq(Event)
  BY DEF TypeInv, TypeOK
<1>2. stream[s][k] \in Event
  BY ONLY <1>1, LenProperties, ElementOfSeq
<1> QED
  BY <1>2 DEF Event

(* An event owes what it owed, unless its attempt told of one check more.    *)
LEMMA SummaryFrame ==
    ASSUME TypeInv, RunsStay, NEW s \in Scan, NEW k \in DOMAIN stream[s], Summary(s, k),
           stream'[s][k] = stream[s][k],
           stream[s][k].event = "scan_complete" =>
               CheckPositions(s, stream[s][k].run)' = CheckPositions(s, stream[s][k].run)
    PROVE  Summary(s, k)'
<1>1. PICK e : e = stream[s][k]
  OBVIOUS
<1>2. e.run \in Nat
  BY <1>1, StreamTyped
<1>3. e.event = "scan_complete" => CheckPositions(s, e.run)' = CheckPositions(s, e.run)
  BY <1>1 DEF CheckPositions
<1>4. Summary(s, k) <=>
          (e.event = "scan_complete" /\ CheckPositions(s, e.run) # {} =>
              /\ e.report \in Report /\ e.report.origin = s /\ IsRun(e.report, e.run)
              /\ \A i \in CheckPositions(s, e.run) : i < k)
  BY <1>1 DEF Summary, Measured
<1>5. e.report \in Report /\ IsRun(e.report, e.run) => IsRun(e.report, e.run)'
  BY <1>2 DEF RunsStay
<1>6. Summary(s, k)' <=>
          (e.event = "scan_complete" /\ CheckPositions(s, e.run)' # {} =>
              /\ e.report \in Report /\ e.report.origin = s /\ IsRun(e.report, e.run)'
              /\ \A i \in CheckPositions(s, e.run)' : i < k)
  BY <1>1 DEF Summary, Measured
<1> QED
  BY <1>3, <1>4, <1>5, <1>6

(* The event that is added: an attempt that measured has closed its report,  *)
(* told all the checks and tells no more.                                    *)
LEMMA AppendSummary ==
    ASSUME TypeInv, AnswerInv, AttemptsInv, SavesInv, RunsStay, NEW s \in Scan, SummaryOf(s),
           pc[s] = "xadd", Append1(s), NEW i \in DOMAIN stream'[s]
    PROVE  /\ stream'[s][i].event \in CheckEvents => stream'[s][i].check \in Check
           /\ Summary(s, i)'
<1>1. PICK k \in Nat :
          /\ DOMAIN stream'[s] = DOMAIN stream[s] \cup {k}
          /\ \A j \in DOMAIN stream[s] : j \in Nat /\ j < k /\ stream'[s][j] = stream[s][j]
          /\ stream'[s][k] = outbox[s]
  BY AppendShape
<1>2. \A n : /\ k \notin CheckPositions(s, n)
             /\ CheckPositions(s, n)' = CheckPositions(s, n)
                   \cup (IF n = tries[s] /\ outbox[s].event \in CheckEvents THEN {k} ELSE {})
  <2>1. \A j \in DOMAIN stream[s] : j # k /\ stream'[s][j] = stream[s][j]
    BY <1>1
  <2> QED
    BY <1>1, <2>1, AppendPositions
<1>3. SaveInv(s) /\ outbox[s] \in Event /\ outbox[s].run = tries[s] /\ tries[s] \in Nat
  BY OwnEvents, BoundsAssumption
     DEF SavesInv, TypeInv, TypeOK, OutboxSet, OwnEvent, Publishing
<1>4. CASE i \in DOMAIN stream[s]
  <2>1. PICK e : e = stream[s][i]
    OBVIOUS
  <2>2. stream'[s][i] = e
    BY <1>1, <1>4, <2>1
  <2>3. ASSUME e.event = "scan_complete", outbox[s].event \in CheckEvents
        PROVE  e.run # tries[s]
    <3>1. ~Said(s, tries[s], "scan_complete")
      BY <1>3, <2>3 DEF SaveInv, Unanswered, TerminalEvents, CheckEvents
    <3> QED
      BY <1>4, <2>1, <2>3, <3>1 DEF Said
  <2>4. e.event = "scan_complete" => CheckPositions(s, e.run)' = CheckPositions(s, e.run)
    BY <1>2, <2>3
  <2>5. Summary(s, i) /\ (e.event \in CheckEvents => e.check \in Check)
    BY <1>4, <2>1 DEF SummaryOf
  <2>6. Summary(s, i)'
    <3>1. stream[s][i].event = "scan_complete" =>
              CheckPositions(s, stream[s][i].run)' = CheckPositions(s, stream[s][i].run)
      BY <2>1, <2>2, <2>4 DEF CheckPositions
    <3> QED
      BY <1>4, <2>1, <2>2, <2>5, <3>1, SummaryFrame
  <2> QED
    BY <2>2, <2>5, <2>6
<1>5. CASE i = k
  <2>1. PICK e, n : e = outbox[s] /\ n = tries[s]
    OBVIOUS
  <2>2. stream'[s][i] = e
    BY <1>1, <1>5, <2>1
  <2>3. e.event \in CheckEvents => e.check \in Check
    BY <2>1 DEF AttemptsInv, AttemptInv, OnItsWay
  <2>4. ASSUME e.event = "scan_complete", CheckPositions(s, n)' # {}
        PROVE  /\ e.report \in Report /\ e.report.origin = s /\ IsRun(e.report, n)'
               /\ \A j \in CheckPositions(s, n)' : j < i
    <3>1. CheckPositions(s, n)' = CheckPositions(s, n)
      BY <1>2, <2>1, <2>4 DEF CheckEvents
    <3>2. Announcing(s)
      BY <2>1, <2>4, <3>1 DEF Announcing, Measured
    <3>3. Saved(s) /\ outbox[s].report = FreshReport(s)
      BY <1>3, <3>2 DEF SaveInv, SummaryOf, AnnouncesItsOwn, Announcing
    <3>4. e.report \in Report /\ e.report.origin = s /\ IsRun(e.report, n)
      <4>1. FreshReport(s) \in Report /\ FreshReport(s).origin = s
        BY FreshReportType DEF TypeInv, FreshReport
      <4>2. IsRun(FreshReport(s), tries[s])
        BY <3>3 DEF Saved
      <4> QED
        BY <2>1, <3>3, <4>1, <4>2
    <3>5. IsRun(e.report, n)'
      BY <1>3, <2>1, <3>4 DEF RunsStay
    <3>6. \A j \in CheckPositions(s, n)' : j < i
      BY <1>1, <1>5, <3>1 DEF CheckPositions
    <3> QED
      BY <3>4, <3>5, <3>6
  <2>5. Summary(s, i)'
    <3>1. e.run = n
      BY <1>3, <2>1
    <3>2. Summary(s, i)' <=>
              (e.event = "scan_complete" /\ CheckPositions(s, n)' # {} =>
                  /\ e.report \in Report /\ e.report.origin = s /\ IsRun(e.report, n)'
                  /\ \A j \in CheckPositions(s, n)' : j < i)
      BY <2>2, <3>1 DEF Summary, Measured, CheckPositions, IsRun, Told
    <3> QED
      BY <2>4, <3>2
  <2> QED
    BY <2>2, <2>3, <2>5
<1> QED
  BY <1>1, <1>4, <1>5

LEMMA NextSummary ==
    TypeInv /\ AnswerInv /\ AttemptsInv /\ SavesInv /\ SummaryInv /\ [Next]_vars => SummaryInv'
<1> SUFFICES ASSUME TypeInv, AnswerInv, AttemptsInv, SavesInv, SummaryInv, [Next]_vars,
                    NEW s \in Scan
             PROVE  SummaryOf(s)'
  BY DEF SummaryInv
<1>1. RunsStay /\ SummaryOf(s)
  BY RunStays DEF SummaryInv
<1>2. AnnouncesItsOwn(s)'
  BY <1>1, NextAnnounces DEF SummaryOf
<1>3. CASE stream'[s] = stream[s]
  <2>1. ASSUME NEW i \in DOMAIN stream[s]
        PROVE  Summary(s, i)'
    <3>1. Summary(s, i) /\ stream'[s][i] = stream[s][i]
      BY <1>1, <1>3 DEF SummaryOf
    <3>2. CheckPositions(s, stream[s][i].run)' = CheckPositions(s, stream[s][i].run)
      BY <1>3 DEF CheckPositions
    <3> QED
      BY <1>1, <3>1, <3>2, SummaryFrame
  <2> QED
    BY <1>1, <1>2, <1>3, <2>1 DEF SummaryOf
<1>4. CASE stream'[s] # stream[s]
  <2>1. PICK t \in Scan : pc[t] = "xadd" /\ Append1(t)
    BY <1>4, OnlyXaddTells
  <2>2. pc[s] = "xadd" /\ Append1(s)
    BY <1>4, <2>1 DEF Append1, TypeInv, TypeOK
  <2> QED
    BY <1>1, <1>2, <2>2, AppendSummary DEF SummaryOf
<1> QED
  BY <1>3, <1>4

-----------------------------------------------------------------------------
(* To the readers a step of the worker is a log that grows, or expires.     *)
TrimmedInv == \A s \in Scan : trimmed[s] <= Len(stream[s])

LEMMA StreamGrows ==
    ASSUME TypeInv, [Next]_vars, NEW s \in Scan
    PROVE  /\ Len(stream[s]) \in Nat /\ Len(stream'[s]) \in Nat
           /\ Len(stream[s]) <= Len(stream'[s])
           /\ \A k \in 1..Len(stream[s]) : stream'[s][k] = stream[s][k]
<1>1. PICK q, e : q = stream[s] /\ e = outbox[s]
  OBVIOUS
<1>2. q \in Seq(Event) /\ Len(q) \in Nat
  BY <1>1, LenProperties DEF TypeInv, TypeOK
<1>3. CASE stream'[s] = q
  BY <1>1, <1>2, <1>3
<1>4. CASE stream'[s] # q
  <2>1. PICK t \in Scan : pc[t] = "xadd" /\ Append1(t)
    BY <1>1, <1>4, OnlyXaddTells
  <2>2. e \in Event /\ stream'[s] = Append(q, e)
    BY <1>1, <1>4, <2>1 DEF Append1, TypeInv, TypeOK, OutboxSet
  <2>3. Len(Append(q, e)) = Len(q) + 1 /\ \A k \in 1..Len(q) : Append(q, e)[k] = q[k]
    BY ONLY <1>2, <2>2, AppendProperties
  <2> QED
    BY <1>1, <1>2, <2>2, <2>3
<1> QED
  BY <1>3, <1>4

LEMMA TrimmedGrows ==
    ASSUME TypeInv, TrimmedInv, [Next]_vars, NEW s \in Scan
    PROVE  trimmed[s] <= trimmed'[s] /\ trimmed'[s] <= Len(stream'[s])
<1>1. trimmed[s] \in Nat /\ trimmed[s] <= Len(stream[s])
  BY DEF TypeInv, TypeOK, TrimmedInv
<1>2. \/ trimmed'[s] = trimmed[s]
      \/ stream' = stream /\ trimmed'[s] = Len(stream[s])
  <2>1. ASSUME NEW t \in Scan, ExpireStream(t)
        PROVE  \/ trimmed'[s] = trimmed[s]
               \/ stream' = stream /\ trimmed'[s] = Len(stream[s])
    BY <2>1 DEF ExpireStream, TypeInv, TypeOK
  <2>2. ASSUME NEW t \in Scan, Enqueue(t) \/ \E w \in Worker : StartJob(w, t)
        PROVE  trimmed' = trimmed
    BY <2>2 DEF Enqueue, StartJob, streamVars
  <2>3. ASSUME NEW t \in Scan, JobStep(t)
        PROVE  trimmed' = trimmed
    BY <2>3 DEF JobStep, CacheHit, CacheMiss, ComputeAndSave, SaveLands, GatherDone, Xadd, Expire,
       Append1, FinishJob, streamVars
  <2>4. ASSUME NEW t \in Scan, Fault(t)
        PROVE  trimmed' = trimmed
    BY <2>4 DEF Fault, LookupFails, SaveFails, XaddFails, ExpireFails, Append1, streamVars
  <2>5. ASSUME NEW t \in Scan, Exhausted(t) \/ JobTimeout(t)
                               \/ \E c \in Check, ok \in BOOLEAN : NextCheck(t, c, ok)
        PROVE  trimmed' = trimmed
    BY <2>5 DEF Exhausted, JobTimeout, NextCheck, streamVars
  <2>6. ASSUME (\E t \in Scan : ExpireReport(t)) \/ (\E d \in Domain : ExpireCache(d))
        PROVE  trimmed' = trimmed
    BY <2>6 DEF ExpireReport, ExpireCache, streamVars
  <2>7. CASE UNCHANGED vars
    BY <2>7 DEF vars, streamVars
  <2>8. CASE \E w \in Worker : Crash(w)
    BY <2>8 DEF Crash, streamVars
  <2>9. CASE Expiry
    BY <2>1, <2>6, <2>9 DEF Expiry
  <2>10. ASSUME NEW t \in Scan, Enqueue(t) \/ QueueStep(t)
         PROVE  trimmed' = trimmed
    BY <2>2, <2>3, <2>4, <2>5, <2>10 DEF QueueStep
  <2> QED
    BY <2>7, <2>8, <2>9, <2>10 DEF Next
<1> QED
  BY <1>1, <1>2, StreamGrows

-----------------------------------------------------------------------------
(* The composition: the invariant of each side.                             *)
WorkerInv == ReportInv /\ SavesInv /\ SummaryInv /\ TrimmedInv
SystemInv == WorkerInv /\ Delivery!ReadersInv

(* What the readers' side asks of the constants.                            *)
LEMMA ReadersAssumptions ==
    /\ BatchSize \in Nat \ {0} /\ MaxDrops \in Nat /\ MaxExpiries \in Nat
    /\ MaxTries * (Cardinality(Check) + 2) \in Nat
<1>1. Cardinality(Check) \in Nat
  BY ChecksAssumption, FS_CardinalityType
<1> QED
  BY <1>1, FollowersAssumption, BoundsAssumption

(* Both instances of EventReader are of the same actions.                   *)
LEMMA SameReaders ==
    /\ Readers!ReaderInit <=> Delivery!ReaderInit
    /\ \A r \in Reader : Readers!ReaderStep(r) <=> Delivery!ReaderStep(r)
BY DEF Readers!ReaderInit, Delivery!ReaderInit, Readers!ReaderStep, Delivery!ReaderStep,
       Readers!Connect, Delivery!Connect, Readers!LastEventId, Delivery!LastEventId,
       Readers!Read, Delivery!Read, Readers!Entries, Delivery!Entries,
       Readers!AtLoopHead, Delivery!AtLoopHead, Readers!Yield, Delivery!Yield,
       Readers!Deadline, Delivery!Deadline, Readers!ReadFails, Delivery!ReadFails,
       Readers!Fail1, Delivery!Fail1, Readers!Receive, Delivery!Receive,
       Readers!Drop, Delivery!Drop, Readers!EndSeen, Delivery!EndSeen,
       Readers!Told, Delivery!Told, Readers!Leave, Delivery!Leave

LEMMA SystemStarts == SystemInit => SystemInv
<1> SUFFICES ASSUME SystemInit
             PROVE  SystemInv
  OBVIOUS
<1>1. Init /\ Delivery!ReaderInit /\ Followed \in Scan
  BY SameReaders, FollowedAssumption DEF SystemInit
<1>2. ReportInv
  BY <1>1, InitReport
<1>3. SavesInv
  BY <1>1 DEF Init, SavesInv, SaveInv, RedisInv, Settling, Unanswered, Announcing, Succeeded
<1>4. SummaryInv
  BY <1>1 DEF Init, SummaryInv, SummaryOf, AnnouncesItsOwn
<1>5. TrimmedInv
  BY <1>1, EmptySeq DEF Init, TrimmedInv
<1>6. Delivery!Init
  BY <1>1 DEF Init, Delivery!Init
<1>7. Delivery!ReadersInv
  BY <1>6, ReadersAssumptions, Delivery!InitReaders
<1> QED
  BY <1>2, <1>3, <1>4, <1>5, <1>7 DEF SystemInv, WorkerInv

LEMMA WorkerKeeps == WorkerInv /\ [Next]_vars => WorkerInv'
<1> SUFFICES ASSUME WorkerInv, [Next]_vars
             PROVE  WorkerInv'
  OBVIOUS
<1>1. TypeInv /\ AnswerInv /\ AttemptsInv /\ KeptInv /\ SavesInv /\ SummaryInv /\ TrimmedInv
  BY DEF WorkerInv, ReportInv
<1>2. ReportInv'
  BY <1>1, NextType, NextAnswer, NextAttempts, NextKept DEF ReportInv
<1>3. SavesInv' /\ SummaryInv'
  BY <1>1, NextSaves, NextSummary
<1>4. TrimmedInv'
  BY <1>1, TrimmedGrows DEF TrimmedInv
<1> QED
  BY <1>2, <1>3, <1>4 DEF WorkerInv

LEMMA SystemKeeps == SystemInv /\ [SystemNext]_systemVars => SystemInv'
<1> SUFFICES ASSUME SystemInv, [SystemNext]_systemVars
             PROVE  SystemInv'
  OBVIOUS
<1>1. [Next]_vars
  BY DEF SystemNext, systemVars, WorkerStep, ReaderStep
<1>2. WorkerInv'
  BY <1>1, WorkerKeeps DEF SystemInv
<1>3. CASE UNCHANGED readerVars
  <2>1. PICK s \in Scan : s = Followed
    BY FollowedAssumption
  <2>2. TypeInv /\ TrimmedInv /\ TypeInv'
    BY <1>2 DEF SystemInv, WorkerInv, ReportInv
  <2>3. stream'[s] \in Seq(Event) /\ trimmed'[s] \in Nat /\ expiries' \in Nat
    BY <2>2, BoundsAssumption DEF TypeInv, TypeOK
  <2>4. /\ Len(stream[s]) <= Len(stream'[s])
        /\ \A k \in 1..Len(stream[s]) : stream'[s][k] = stream[s][k]
        /\ trimmed[s] <= trimmed'[s] /\ trimmed'[s] <= Len(stream'[s])
    BY <1>1, <2>2, StreamGrows, TrimmedGrows
  <2>5. UNCHANGED Delivery!readerVars
    BY <1>3 DEF readerVars, Delivery!readerVars
  <2>6. Delivery!ReadersInv'
    BY <2>1, <2>3, <2>4, <2>5, ReadersAssumptions, Delivery!LogReaders DEF SystemInv
  <2> QED
    BY <1>2, <2>6 DEF SystemInv
<1>4. ASSUME NEW r \in Reader, ReaderStep(r)
      PROVE  SystemInv'
  <2>1. Delivery!ReaderStep(r)
    BY <1>4, SameReaders DEF ReaderStep
  <2>2. UNCHANGED Delivery!logVars
    BY <1>4 DEF ReaderStep, vars, Delivery!logVars
  <2>3. Delivery!ReadersInv'
    BY <2>1, <2>2, ReadersAssumptions, Delivery!StepReaders DEF SystemInv
  <2> QED
    BY <1>2, <2>3 DEF SystemInv
<1> QED
  BY <1>3, <1>4 DEF SystemNext, systemVars, WorkerStep

LEMMA SystemInvariant == SystemSpec => []SystemInv
<1> QED
  BY SystemStarts, SystemKeeps, PTL DEF SystemSpec

(* Readers change nothing of the worker: what ScanJobsProofs and             *)
(* ScanSavesProofs say of a scan holds of one that is followed.              *)
THEOREM FollowedScansAreScans == SystemSpec => Spec
<1>1. SystemInit => Init
  BY DEF SystemInit
<1>2. [SystemNext]_systemVars => [Next]_vars
  BY DEF SystemNext, systemVars, WorkerStep, ReaderStep
<1> QED
  BY <1>1, <1>2, PTL DEF SystemSpec, Spec

(* What EventReaderProofs says of a log that anybody writes holds of the     *)
(* stream of a worker, whose attempts die, start again and write on, and     *)
(* whose key expires: every reader receives its events in order, each once,  *)
(* and misses none but those that expired; and no response goes on after a   *)
(* terminal event.                                                           *)
THEOREM WorkersStreamIsDelivered ==
    SystemSpec => [](Readers!ReceivedInOrder /\ Readers!TerminalEndsResponse)
<1>1. SystemInv => Readers!ReceivedInOrder
  BY DEF SystemInv, Delivery!ReadersInv, Delivery!FlowInv, Delivery!Flow, Readers!ReceivedInOrder,
     Delivery!ChainFrom, Readers!ChainFrom, Delivery!Follows, Readers!Follows
<1>2. SystemInv => Readers!TerminalEndsResponse
  BY DEF SystemInv, Delivery!ReadersInv, Delivery!EndsInv, Delivery!Ends, Delivery!EndsAtTerminal,
     Readers!TerminalEndsResponse
<1> QED
  BY <1>1, <1>2, SystemInvariant, PTL

-----------------------------------------------------------------------------
(* As long as no key expired, whoever received the event at position k has   *)
(* received those before it.                                                 *)
LEMMA HeardBefore ==
    ASSUME SystemInv, NEW r \in Reader, trimmed[Followed] = 0,
           NEW e \in Heard(r)
    PROVE  \E k \in DOMAIN stream[Followed] :
               /\ e = stream[Followed][k]
               /\ \A i \in DOMAIN stream[Followed] : i <= k => stream[Followed][i] \in Heard(r)
<1> DEFINE q == stream[Followed]
           p == received[r]
<1>1. q \in Seq(Event)
  BY FollowedAssumption DEF SystemInv, WorkerInv, ReportInv, TypeInv, TypeOK
<1>2. p \in Seq(Nat \ {0})
  BY DEF SystemInv, Delivery!ReadersInv, Delivery!FlowInv, Delivery!TypeOK
<1>3. \A i \in DOMAIN p : p[i] = i /\ p[i] <= Len(q)
  BY DEF SystemInv, Delivery!ReadersInv, Delivery!FromFirstInv, Delivery!FromFirst, Delivery!Within
<1>4. Heard(r) = {q[p[i]] : i \in DOMAIN p}
  BY DEF Heard
<1> HIDE DEF q, p
<1>5. /\ Len(q) \in Nat /\ DOMAIN q = 1..Len(q)
      /\ Len(p) \in Nat /\ DOMAIN p = 1..Len(p)
  BY <1>1, <1>2, LenProperties
<1>6. PICK k \in DOMAIN p : e = q[p[k]]
  BY <1>4
<1>7. k \in DOMAIN q /\ e = q[k]
  BY <1>3, <1>5, <1>6
<1>8. ASSUME NEW i \in DOMAIN q, i <= k
      PROVE  q[i] \in Heard(r)
  <2>1. i \in DOMAIN p /\ p[i] = i
    BY <1>3, <1>5, <1>6, <1>8
  <2> QED
    BY <1>4, <2>1
<1> QED
  BY <1>7, <1>8 DEF q

(* The reader of a scan_complete whose checks were run heard each of them,   *)
(* from the same attempt and with the outcome that the report holds.         *)
THEOREM ReadersHearTheReport == SystemSpec => []ReportMatchesWhatWasHeard
<1>1. SystemInv => ReportMatchesWhatWasHeard
  <2> SUFFICES ASSUME SystemInv, NEW r \in Reader, NEW e \in Heard(r),
                      e.event = "scan_complete", Measured(Followed, e.run),
                      trimmed[Followed] = 0
               PROVE  LET told == {f \in Heard(r) : f.run = e.run /\ f.event \in CheckEvents}
                      IN  /\ {f.check : f \in told} = Check
                          /\ {f.check : f \in {g \in told : g.event = "check_complete"}}
                                 = e.report.checks
    BY DEF ReportMatchesWhatWasHeard
  <2> DEFINE q == stream[Followed]
             told == {f \in Heard(r) : f.run = e.run /\ f.event \in CheckEvents}
  <2>1. PICK k \in DOMAIN q :
            e = q[k] /\ \A i \in DOMAIN q : i <= k => q[i] \in Heard(r)
    BY HeardBefore
  <2>2. Heard(r) \subseteq {q[i] : i \in DOMAIN q}
    BY HeardBefore
  <2>3. SummaryOf(Followed) /\ TypeInv
    BY FollowedAssumption DEF SystemInv, WorkerInv, ReportInv, SummaryInv
  <2>4. /\ e.report \in Report /\ e.report.origin = Followed /\ IsRun(e.report, e.run)
        /\ \A i \in CheckPositions(Followed, e.run) : i < k
    BY <2>1, <2>3 DEF SummaryOf, Summary
  <2>5. ASSUME NEW c, NEW event \in CheckEvents, Told(Followed, e.run, c, event)
        PROVE  \E f \in told : f.check = c /\ f.event = event
    <3>1. PICK i \in DOMAIN q : q[i].run = e.run /\ q[i].check = c /\ q[i].event = event
      BY <2>5 DEF Told
    <3>2. i \in CheckPositions(Followed, e.run)
      BY <3>1 DEF CheckPositions
    <3>3. i <= k
      <4>1. stream[Followed] \in Seq(Event)
        BY <2>3, FollowedAssumption DEF TypeInv, TypeOK
      <4>2. DOMAIN stream[Followed] = 1..Len(stream[Followed]) /\ Len(stream[Followed]) \in Nat
        BY ONLY <4>1, LenProperties
      <4> QED
        BY <2>1, <2>4, <3>2, <4>2
    <3> QED
      BY <2>1, <3>1, <3>3
  <2>6. ASSUME NEW f \in told
        PROVE  f.check \in Check /\ Told(Followed, e.run, f.check, f.event)
    <3>1. PICK i \in DOMAIN q : f = q[i]
      BY <2>2
    <3> QED
      BY <2>3, <3>1 DEF SummaryOf, Told
  <2>7. \A c \in Check : /\ Told(Followed, e.run, c, "check_complete") <=> c \in e.report.checks
                         /\ Told(Followed, e.run, c, "check_error") <=> c \notin e.report.checks
    BY <2>4 DEF IsRun
  <2>8. e.report.checks \subseteq Check
    BY <2>4 DEF Report
  <2> HIDE DEF told, q
  <2>9. {f.check : f \in told} = Check
    <3>1. \A c \in Check : \E f \in told : f.check = c
      BY <2>5, <2>7 DEF CheckEvents
    <3> QED
      BY <2>6, <3>1
  <2>10. {f.check : f \in {g \in told : g.event = "check_complete"}} = e.report.checks
    <3>1. \A c \in e.report.checks : \E f \in told : f.check = c /\ f.event = "check_complete"
      BY <2>5, <2>7, <2>8 DEF CheckEvents
    <3>2. \A f \in told : f.event = "check_complete" => f.check \in e.report.checks
      BY <2>6, <2>7
    <3> QED
      BY <3>1, <3>2
  <2> QED
    BY <2>9, <2>10 DEF told
<1> QED
  BY <1>1, SystemInvariant, PTL

=============================================================================
