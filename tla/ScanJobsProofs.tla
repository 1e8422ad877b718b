--------------------------- MODULE ScanJobsProofs ---------------------------
(***************************************************************************)
(* Theorems about ScanJobs, for every set of scans, checks and workers and  *)
(* every bound.                                                             *)
(***************************************************************************)
EXTENDS ScanJobs, FiniteSetTheorems, SequenceTheorems, TLAPS

(* What the module's events and reports are made of.                        *)
LEMMA FreshReportType ==
    ASSUME TypeOK, NEW s \in Scan
    PROVE  FreshReport(s) \in Report
BY DEF FreshReport, Report

LEMMA CheckEventType ==
    ASSUME TypeOK, NEW s \in Scan, NEW c \in Check, NEW ok \in BOOLEAN
    PROVE  CheckEvent(s, c, ok, Cardinality(Reported(s)) + 1) \in Event
<1>1. IsFiniteSet(Reported(s))
  <2>1. Reported(s) \subseteq Check
    BY DEF Reported
  <2> QED
    BY <2>1, ChecksAssumption, FS_Subset
<1>2. Cardinality(Reported(s)) \in Nat
  BY <1>1, FS_CardinalityType
<1>3. tries[s] \in Nat
  BY BoundsAssumption DEF TypeOK
<1> QED
  BY <1>2, <1>3 DEF CheckEvent, Event, MaybeReport, CheckEvents

LEMMA ScanCompleteType ==
    ASSUME TypeOK, NEW s \in Scan, NEW r \in Report
    PROVE  ScanComplete(s, r) \in Event
<1>1. tries[s] \in Nat
  BY BoundsAssumption DEF TypeOK
<1> QED
  BY <1>1 DEF ScanComplete, Event, MaybeReport, TerminalEvents

LEMMA ScanErrorType ==
    ASSUME TypeOK, NEW s \in Scan
    PROVE  ScanError(s) \in Event
<1>1. tries[s] \in Nat
  BY BoundsAssumption DEF TypeOK
<1> QED
  BY <1>1 DEF ScanError, Event, MaybeReport, TerminalEvents

(* What a publishing attempt publishes is an event: without it the types of *)
(* the streams are not inductive.                                            *)
OutboxSet == \A s \in Scan : pc[s] \in {"xadd", "expire"} => outbox[s] \in Event
TypeInv == TypeOK /\ OutboxSet

StoresTyped ==
    /\ redis' \in [Scan -> MaybeReport]
    /\ mongo' \in [Scan -> MaybeReport]
    /\ cache' \in [Domain -> MaybeReport]

(* A save writes a report into a store and keeps their types.               *)
LEMMA WriteType ==
    ASSUME TypeOK, NEW s \in Scan, NEW st \in Store,
           Write(s, st, FreshReport(s)) \/ UNCHANGED storeVars
    PROVE  StoresTyped
<1>1. FreshReport(s) \in MaybeReport
  BY FreshReportType DEF MaybeReport
<1>2. CASE Write(s, st, FreshReport(s))
  BY <1>1, <1>2 DEF Write, StoresTyped, TypeOK
<1>3. CASE UNCHANGED storeVars
  BY <1>3 DEF storeVars, StoresTyped, TypeOK
<1> QED
  BY <1>2, <1>3

(* An exception publishes a scan_error or ends the job.                     *)
Raised(s) ==
    /\ pc' \in [Scan -> Place]
    /\ result' \in [Scan -> {"none", "ok", "raised", "timeout", "exhausted"}]
    /\ outbox' \in [Scan -> Event \cup {NoEvent}]
    /\ \A t \in Scan : pc'[t] \in {"xadd", "expire"} => outbox'[t] \in Event
    /\ faults' \in [Scan -> 0..MaxFaults]

LEMMA CallFailsType ==
    ASSUME TypeOK, NEW s \in Scan, CallFails(s)
    PROVE  faults' \in [Scan -> 0..MaxFaults]
<1>1. faults[s] \in 0..MaxFaults /\ faults[s] < MaxFaults
  BY DEF CallFails, TypeOK
<1>2. faults[s] + 1 \in 0..MaxFaults
  BY <1>1, BoundsAssumption
<1> QED
  BY <1>2 DEF CallFails, TypeOK

LEMMA RaiseType ==
    ASSUME TypeInv, NEW s \in Scan, Raise(s)
    PROVE  Raised(s)
<1> USE DEF TypeInv, OutboxSet, TypeOK, Place, Active, Raised
<1>1. ScanError(s) \in Event
  BY ScanErrorType
<1>2. faults' \in [Scan -> 0..MaxFaults]
  BY CallFailsType DEF Raise
<1>3. CASE ~Handling(s) /\ Publish(s, ScanError(s)) /\ UNCHANGED result
  BY <1>1, <1>2, <1>3 DEF Publish
<1>4. CASE Handling(s) /\ Return(s, "raised")
  BY <1>2, <1>4 DEF Return
<1> QED
  BY <1>3, <1>4 DEF Raise

LEMMA AppendType ==
    ASSUME TypeOK, NEW s \in Scan, outbox[s] \in Event, Append1(s)
    PROVE  stream' \in [Scan -> Seq(Event)]
BY AppendProperties DEF Append1, TypeOK

LEMMA InitType == Init => TypeInv
BY BoundsAssumption DEF Init, TypeInv, TypeOK, OutboxSet, Place, Active, MaybeReport

LEMMA NextType == TypeInv /\ [Next]_vars => TypeInv'
<1> SUFFICES ASSUME TypeInv, [Next]_vars
             PROVE  TypeInv'
  OBVIOUS
<1> USE DEF TypeInv, queueVars, storeVars, streamVars, bounds
<1>1. ASSUME NEW s \in Scan, Enqueue(s)
      PROVE  TypeInv'
  BY <1>1 DEF Enqueue, TypeOK, OutboxSet, Place, Active
<1>2. ASSUME NEW s \in Scan, NEW w \in Worker, StartJob(w, s)
      PROVE  TypeInv'
  <2>1. tries' \in [Scan -> 0..MaxTries]
    BY <1>2, BoundsAssumption DEF StartJob, TypeOK
  <2> QED
    BY <1>2, <2>1 DEF StartJob, TypeOK, OutboxSet, Place, Active
<1>3. ASSUME NEW s \in Scan, Exhausted(s)
      PROVE  TypeInv'
  BY <1>3 DEF Exhausted, TypeOK, OutboxSet, Place, Active
<1>4. ASSUME NEW s \in Scan, FinishJob(s)
      PROVE  TypeInv'
  BY <1>4 DEF FinishJob, TypeOK, OutboxSet, Place, Active
<1>5. ASSUME NEW s \in Scan, JobTimeout(s)
      PROVE  TypeInv'
  BY <1>5 DEF JobTimeout, Return, TypeOK, OutboxSet, Place, Active
<1>6. ASSUME NEW w \in Worker, Crash(w)
      PROVE  TypeInv'
  <2>1. crashes' \in 0..MaxCrashes
    BY <1>6, BoundsAssumption DEF Crash, TypeOK
  <2> QED
    BY <1>6, <2>1 DEF Crash, TypeOK, OutboxSet, Place, Active
<1>7. ASSUME NEW s \in Scan, Xadd(s)
      PROVE  TypeInv'
  <2>1. stream' \in [Scan -> Seq(Event)]
    BY <1>7, AppendType DEF Xadd, OutboxSet
  <2> QED
    BY <1>7, <2>1 DEF Xadd, Append1, TypeOK, OutboxSet, Place, Active
<1>8. ASSUME NEW s \in Scan, XaddFails(s)
      PROVE  TypeInv'
  <2>1. stream' \in [Scan -> Seq(Event)] /\ trimmed' = trimmed /\ expiring' = expiring
    BY <1>8, AppendType DEF XaddFails, OutboxSet, TypeOK, Append1
  <2>2. Raised(s)
    BY <1>8, RaiseType DEF XaddFails
  <2> QED
    BY <1>8, <2>1, <2>2 DEF XaddFails, Raised, TypeOK, OutboxSet, Place, Active
<1>9. ASSUME NEW s \in Scan, Expire(s)
      PROVE  TypeInv'
  BY ZenonT(40), <1>9 DEF Expire, AfterPublish, Return, TypeOK, OutboxSet, Place, Active
<1>10. ASSUME NEW s \in Scan, ExpireFails(s)
      PROVE  TypeInv'
  <2>1. Raised(s)
    BY <1>10, RaiseType DEF ExpireFails
  <2> QED
    BY <1>10, <2>1 DEF ExpireFails, Raised, TypeOK, OutboxSet, Place, Active
<1>11. ASSUME NEW s \in Scan, CacheHit(s)
      PROVE  TypeInv'
  <2>1. NormalizeCachedReport(s, cache[DomainOf[s]]) \in Report
    BY <1>11, DomainAssumption DEF CacheHit, NormalizeCachedReport, TypeOK, MaybeReport, Report
  <2>2. ScanComplete(s, NormalizeCachedReport(s, cache[DomainOf[s]])) \in Event
    BY <2>1, ScanCompleteType
  <2> QED
    BY <1>11, <2>2 DEF CacheHit, Publish, TypeOK, OutboxSet, Place, Active
<1>12. ASSUME NEW s \in Scan, CacheMiss(s)
      PROVE  TypeInv'
  BY <1>12 DEF CacheMiss, TypeOK, OutboxSet, Place, Active
<1>13. ASSUME NEW s \in Scan, LookupFails(s)
      PROVE  TypeInv'
  <2>1. Raised(s)
    BY <1>13, RaiseType DEF LookupFails
  <2> QED
    BY <1>13, <2>1 DEF LookupFails, Raised, TypeOK, OutboxSet, Place, Active
<1>14. ASSUME NEW s \in Scan, NEW c \in Check, NEW ok \in BOOLEAN, NextCheck(s, c, ok)
      PROVE  TypeInv'
  <2>1. CheckEvent(s, c, ok, Cardinality(Reported(s)) + 1) \in Event
    BY CheckEventType
  <2> QED
    BY <1>14, <2>1 DEF NextCheck, Publish, TypeOK, OutboxSet, Place, Active
<1>15. ASSUME NEW s \in Scan, ComputeAndSave(s)
      PROVE  TypeInv'
  BY <1>15 DEF ComputeAndSave, TypeOK, OutboxSet, Place, Active
<1>16. ASSUME NEW s \in Scan, NEW st \in Store, SaveLands(s, st)
      PROVE  TypeInv'
  <2>1. StoresTyped
    BY <1>16, WriteType DEF SaveLands
  <2> QED
    BY <1>16, <2>1 DEF SaveLands, StoresTyped, TypeOK, OutboxSet, Place, Active
<1>17. ASSUME NEW s \in Scan, NEW st \in Store, SaveFails(s, st)
      PROVE  TypeInv'
  <2>1. StoresTyped
    BY <1>17, WriteType DEF SaveFails
  <2>2. saving' \in [Scan -> SUBSET Store]
    BY <1>17 DEF SaveFails, TypeOK
  <2>3. CASE Raise(s)
    <3>1. Raised(s)
      BY <2>3, RaiseType
    <3> QED
      BY <1>17, <2>1, <2>2, <3>1 DEF SaveFails, StoresTyped, Raised, TypeOK, OutboxSet, Place, Active
  <2>4. CASE CallFails(s) /\ UNCHANGED <<pc, result, outbox>>
    <3>1. faults' \in [Scan -> 0..MaxFaults]
      BY <2>4, CallFailsType
    <3> QED
      BY <1>17, <2>1, <2>2, <2>4, <3>1 DEF SaveFails, StoresTyped, TypeOK, OutboxSet, Place, Active
  <2> QED
    BY <1>17, <2>3, <2>4 DEF SaveFails
<1>18. ASSUME NEW s \in Scan, GatherDone(s)
      PROVE  TypeInv'
  <2>1. ScanComplete(s, FreshReport(s)) \in Event
    BY ScanCompleteType, FreshReportType
  <2> QED
    BY <1>18, <2>1 DEF GatherDone, Publish, TypeOK, OutboxSet, Place, Active
<1>19. ASSUME NEW s \in Scan, ExpireReport(s)
      PROVE  TypeInv'
  <2>1. expiries' \in 0..MaxExpiries
    BY <1>19, BoundsAssumption DEF ExpireReport, Elapse, TypeOK
  <2> QED
    BY <1>19, <2>1 DEF ExpireReport, Elapse, MaybeReport, TypeOK, OutboxSet, Place, Active
<1>20. ASSUME NEW d \in Domain, ExpireCache(d)
      PROVE  TypeInv'
  <2>1. expiries' \in 0..MaxExpiries
    BY <1>20, BoundsAssumption DEF ExpireCache, Elapse, TypeOK
  <2> QED
    BY <1>20, <2>1 DEF ExpireCache, Elapse, MaybeReport, TypeOK, OutboxSet, Place, Active
<1>21. ASSUME NEW s \in Scan, ExpireStream(s)
      PROVE  TypeInv'
  <2>1. expiries' \in 0..MaxExpiries
    BY <1>21, BoundsAssumption DEF ExpireStream, Elapse, TypeOK
  <2>2. Len(stream[s]) \in Nat
    BY LenProperties DEF TypeOK
  <2> QED
    BY <1>21, <2>1, <2>2 DEF ExpireStream, Elapse, TypeOK, OutboxSet, Place, Active
<1>22. CASE UNCHANGED vars
  BY <1>22 DEF vars, TypeOK, OutboxSet, Place, Active
<1> QED
  BY <1>1, <1>2, <1>3, <1>4, <1>5, <1>6, <1>7, <1>8, <1>9, <1>10, <1>11, <1>12, <1>13, <1>14, <1>15, <1>16, <1>17, <1>18, <1>19, <1>20, <1>21, <1>22 DEF Next, QueueStep, Expiry, JobStep, Fault

(* Every reachable state is well typed.                                     *)
THEOREM TypeCorrect == Spec => []TypeOK
<1>1. Init => TypeInv
  BY InitType
<1>2. TypeInv /\ [Next]_vars => TypeInv'
  BY NextType
<1>3. TypeInv => TypeOK
  BY DEF TypeInv
<1> QED
  BY <1>1, <1>2, <1>3, PTL DEF Spec

-----------------------------------------------------------------------------
(***************************************************************************)
(* run_scan_job that returns has answered.  The strengthening follows the   *)
(* event on its way: the one being published is of this attempt, and between *)
(* XADD and EXPIRE it is the last of the stream, where a job's own steps and *)
(* nobody else's can put something after it.                                *)
(***************************************************************************)
PublishedLast ==
    \A s \in Scan :
        /\ pc[s] \in {"xadd", "expire"} => outbox[s].run = tries[s]
        /\ pc[s] = "expire" => stream[s] # << >> /\ Last(stream[s]) = outbox[s]

AnswerInv == PublishedLast /\ ReturnedIsAnswered

LEMMA LastOfAppend ==
    ASSUME NEW S, NEW q \in Seq(S), NEW e \in S
    PROVE  Append(q, e) # << >> /\ Last(Append(q, e)) = e
<1>1. Append(q, e) # << >> /\ Len(Append(q, e)) = Len(q) + 1 /\ Append(q, e)[Len(q) + 1] = e
  BY AppendProperties
<1> QED
  BY <1>1 DEF Last

(* An exception leaves the job publishing a scan_error of this attempt, or   *)
(* ending otherwise than by a return.                                        *)
LEMMA RaiseAnswer ==
    ASSUME TypeInv, AnswerInv, NEW s \in Scan, Raise(s), tries' = tries,
           \A t \in Scan \ {s} : /\ stream'[t] = stream[t]
                                /\ trimmed'[t] = trimmed[t]
                                /\ expiring'[t] = expiring[t]
    PROVE  AnswerInv'
<1> USE DEF TypeInv, TypeOK
<1>1. /\ \A t \in Scan \ {s} : pc'[t] = pc[t] /\ outbox'[t] = outbox[t] /\ result'[t] = result[t]
      /\ \/ pc'[s] = "xadd" /\ outbox'[s] = ScanError(s)
         \/ pc'[s] = "return" /\ result'[s] = "raised"
  BY DEF Raise, Publish, Return
<1>2. ScanError(s).run = tries[s]
  BY DEF ScanError
<1>3. ASSUME NEW t \in Scan
      PROVE  /\ pc'[t] \in {"xadd", "expire"} => outbox'[t].run = tries'[t]
             /\ pc'[t] = "expire" => stream'[t] # << >> /\ Last(stream'[t]) = outbox'[t]
  <2>1. CASE t = s
    BY <1>1, <1>2, <2>1
  <2>2. CASE t # s
    <3>1. /\ pc'[t] = pc[t] /\ outbox'[t] = outbox[t] /\ stream'[t] = stream[t]
          /\ tries'[t] = tries[t]
      BY <1>1, <2>2
    <3>2. /\ pc[t] \in {"xadd", "expire"} => outbox[t].run = tries[t]
          /\ pc[t] = "expire" => stream[t] # << >> /\ Last(stream[t]) = outbox[t]
      BY DEF AnswerInv, PublishedLast
    <3> QED
      BY <3>1, <3>2
  <2> QED
    BY <2>1, <2>2
<1>4. ASSUME NEW t \in Scan, pc'[t] \in {"return", "done"}, result'[t] = "ok"
      PROVE  /\ stream'[t] # << >> /\ Last(stream'[t]).run = tries'[t]
             /\ Last(stream'[t]).event \in TerminalEvents
             /\ expiring'[t] \/ trimmed'[t] = Len(stream'[t])
  <2>1. t # s
    BY <1>1, <1>4
  <2>2. /\ pc'[t] = pc[t] /\ result'[t] = result[t] /\ stream'[t] = stream[t]
        /\ tries'[t] = tries[t] /\ trimmed'[t] = trimmed[t] /\ expiring'[t] = expiring[t]
    BY <1>1, <2>1
  <2>3. /\ stream[t] # << >> /\ Last(stream[t]).run = tries[t]
        /\ Last(stream[t]).event \in TerminalEvents
        /\ expiring[t] \/ trimmed[t] = Len(stream[t])
    BY <1>4, <2>2 DEF AnswerInv, ReturnedIsAnswered
  <2> QED
    BY <2>2, <2>3
<1> QED
  BY <1>3, <1>4 DEF AnswerInv, PublishedLast, ReturnedIsAnswered

(* EXPIRE leaves the event it was sent after at the end of the stream, and   *)
(* lets the coroutine return only when that event is terminal.               *)
LEMMA ExpireAnswer ==
    ASSUME TypeInv, AnswerInv, NEW s \in Scan, Expire(s)
    PROVE  AnswerInv'
<1>1. /\ stream[s] # << >> /\ Last(stream[s]) = outbox[s] /\ outbox[s].run = tries[s]
      /\ outbox[s].event \in CheckEvents \cup TerminalEvents
  BY DEF Expire, AnswerInv, PublishedLast, TypeInv, OutboxSet, Event
<1>2. /\ stream' = stream /\ trimmed' = trimmed /\ tries' = tries
      /\ expiring'[s] = TRUE
      /\ \A t \in Scan \ {s} : expiring'[t] = expiring[t]
  BY DEF Expire, queueVars, TypeInv, TypeOK
<1>3. /\ \A t \in Scan \ {s} : pc'[t] = pc[t] /\ outbox'[t] = outbox[t] /\ result'[t] = result[t]
      /\ \/ pc'[s] = "collect"
         \/ pc'[s] = "return" /\ outbox[s].event \notin CheckEvents
  BY DEF Expire, AfterPublish, Return, TypeInv, TypeOK
<1>4. PublishedLast'
  BY <1>2, <1>3 DEF AnswerInv, PublishedLast
<1>5. ReturnedIsAnswered'
  BY <1>1, <1>2, <1>3 DEF AnswerInv, ReturnedIsAnswered
<1> QED
  BY <1>4, <1>5 DEF AnswerInv

LEMMA NextAnswer == TypeInv /\ AnswerInv /\ [Next]_vars => AnswerInv'
<1> SUFFICES ASSUME TypeInv, AnswerInv, [Next]_vars
             PROVE  AnswerInv'
  OBVIOUS
<1> USE DEF AnswerInv, PublishedLast, ReturnedIsAnswered, TypeInv, TypeOK, OutboxSet,
            Active, Running, queueVars, storeVars, streamVars, bounds
<1>1. ASSUME NEW s \in Scan, Enqueue(s)
      PROVE  AnswerInv'
  BY <1>1 DEF Enqueue
<1>2. ASSUME NEW s \in Scan, NEW w \in Worker, StartJob(w, s)
      PROVE  AnswerInv'
  BY <1>2 DEF StartJob
<1>3. ASSUME NEW s \in Scan, Exhausted(s)
      PROVE  AnswerInv'
  BY <1>3 DEF Exhausted
<1>4. ASSUME NEW s \in Scan, FinishJob(s)
      PROVE  AnswerInv'
  BY <1>4 DEF FinishJob
<1>5. ASSUME NEW s \in Scan, JobTimeout(s)
      PROVE  AnswerInv'
  BY <1>5 DEF JobTimeout, Return
<1>6. ASSUME NEW w \in Worker, Crash(w)
      PROVE  AnswerInv'
  BY <1>6 DEF Crash
<1>7. ASSUME NEW s \in Scan, Xadd(s)
      PROVE  AnswerInv'
  <2>1. outbox[s] \in Event /\ stream[s] \in Seq(Event)
    BY <1>7 DEF Xadd
  <2>2. Append(stream[s], outbox[s]) # << >> /\ Last(Append(stream[s], outbox[s])) = outbox[s]
    BY ONLY <2>1, LastOfAppend
  <2> QED
    BY <1>7, <2>2 DEF Xadd, Append1
<1>8. ASSUME NEW s \in Scan, XaddFails(s)
      PROVE  AnswerInv'
  BY <1>8, RaiseAnswer DEF XaddFails, Append1
<1>9. ASSUME NEW s \in Scan, Expire(s)
      PROVE  AnswerInv'
  BY ONLY TypeInv, AnswerInv, <1>9, ExpireAnswer
<1>10. ASSUME NEW s \in Scan, ExpireFails(s)
      PROVE  AnswerInv'
  BY <1>10, RaiseAnswer DEF ExpireFails
<1>11. ASSUME NEW s \in Scan, CacheHit(s)
      PROVE  AnswerInv'
  BY <1>11 DEF CacheHit, Publish, ScanComplete
<1>12. ASSUME NEW s \in Scan, CacheMiss(s)
      PROVE  AnswerInv'
  BY <1>12 DEF CacheMiss
<1>13. ASSUME NEW s \in Scan, LookupFails(s)
      PROVE  AnswerInv'
  BY <1>13, RaiseAnswer DEF LookupFails
<1>14. ASSUME NEW s \in Scan, NEW c \in Check, NEW ok \in BOOLEAN, NextCheck(s, c, ok)
      PROVE  AnswerInv'
  BY <1>14 DEF NextCheck, Publish, CheckEvent
<1>15. ASSUME NEW s \in Scan, ComputeAndSave(s)
      PROVE  AnswerInv'
  BY <1>15 DEF ComputeAndSave
<1>16. ASSUME NEW s \in Scan, NEW st \in Store, SaveLands(s, st)
      PROVE  AnswerInv'
  BY <1>16 DEF SaveLands
<1>17. ASSUME NEW s \in Scan, NEW st \in Store, SaveFails(s, st)
      PROVE  AnswerInv'
  <2>1. CASE Raise(s)
    BY <1>17, <2>1, RaiseAnswer DEF SaveFails
  <2>2. CASE UNCHANGED <<pc, result, outbox>>
    BY <1>17, <2>2 DEF SaveFails
  <2> QED
    BY <1>17, <2>1, <2>2 DEF SaveFails
<1>18. ASSUME NEW s \in Scan, GatherDone(s)
      PROVE  AnswerInv'
  BY <1>18 DEF GatherDone, Publish, ScanComplete
<1>19. ASSUME NEW s \in Scan, ExpireReport(s)
      PROVE  AnswerInv'
  BY <1>19 DEF ExpireReport
<1>20. ASSUME NEW d \in Domain, ExpireCache(d)
      PROVE  AnswerInv'
  BY <1>20 DEF ExpireCache
<1>21. ASSUME NEW s \in Scan, ExpireStream(s)
      PROVE  AnswerInv'
  BY <1>21 DEF ExpireStream
<1>22. CASE UNCHANGED vars
  BY <1>22 DEF vars
<1> QED
  BY <1>1, <1>2, <1>3, <1>4, <1>5, <1>6, <1>7, <1>8, <1>9, <1>10, <1>11, <1>12, <1>13, <1>14, <1>15, <1>16, <1>17, <1>18, <1>19, <1>20, <1>21, <1>22 DEF Next, QueueStep, Expiry, JobStep, Fault

(* A job whose coroutine returned left a terminal event of its own attempt   *)
(* as the last of the stream, under a key that expires.                      *)
THEOREM ReturnedJobsAreAnswered == Spec => []ReturnedIsAnswered
<1>1. Init => TypeInv /\ AnswerInv
  BY InitType DEF Init, AnswerInv, PublishedLast, ReturnedIsAnswered
<1>2. TypeInv /\ AnswerInv /\ [Next]_vars => (TypeInv /\ AnswerInv)'
  BY NextType, NextAnswer
<1>3. AnswerInv => ReturnedIsAnswered
  BY DEF AnswerInv
<1> QED
  BY <1>1, <1>2, <1>3, PTL DEF Spec

-----------------------------------------------------------------------------
(***************************************************************************)
(* What a client can read is the exact result of one attempt.  The argument *)
(* follows the checks of the running attempt: what it knows of a check      *)
(* (outcome) is what it told the stream, except for the one event that is   *)
(* on its way.  Once a report is closed every check was told, so the        *)
(* attempt can tell nothing more that would contradict it; earlier attempts *)
(* are over, and later ones count under another number.                     *)
(***************************************************************************)

(* What attempt tries[s] told of check c is what it knows of it.            *)
Matches(s, c) ==
    /\ Told(s, tries[s], c, "check_complete") <=> outcome[s][c] = "ok"
    /\ Told(s, tries[s], c, "check_error") <=> outcome[s][c] = "error"

Publishing(s) == pc[s] \in {"xadd", "expire"}

(* The attempt waits for a check, or will once EXPIRE is done.              *)
Collecting(s) ==
    pc[s] \in {"lookup", "collect"} \/ (pc[s] = "expire" /\ outbox[s].event \in CheckEvents)

(* The report of the attempt is closed, and not all of it is saved.         *)
Closed(s) == pc[s] = "save" \/ saving[s] # {}

(* The event on its way is of check c, of which nothing was told.           *)
OnItsWay(s, c) ==
    /\ c \in Check
    /\ ~Told(s, tries[s], c, "check_complete") /\ ~Told(s, tries[s], c, "check_error")
    /\ outcome[s][c] = IF outbox[s].event = "check_complete" THEN "ok" ELSE "error"
    /\ \A d \in Check \ {c} : Matches(s, d)

AttemptInv(s) ==
    /\ \A i \in DOMAIN stream[s] : stream[s][i].run <= tries[s]
    /\ Running(s) => tries[s] >= 1
    /\ Collecting(s) \/ Closed(s) => \A c \in Check : Matches(s, c)
    /\ pc[s] = "xadd" /\ outbox[s].event \in CheckEvents => OnItsWay(s, outbox[s].check)
    /\ Closed(s) => tries[s] >= 1 /\ \A c \in Check : outcome[s][c] # "pending"
    /\ saving[s] # {} =>
           \/ pc[s] \in {"save", "return", "done"}
           \/ Publishing(s) /\ outbox[s].event \in TerminalEvents

(* The event being published is of this attempt.                            *)
OwnEvent(s) == Publishing(s) => outbox[s].run = tries[s]

LEMMA OwnEvents == AnswerInv => \A s \in Scan : OwnEvent(s)
BY DEF AnswerInv, PublishedLast, OwnEvent, Publishing

-----------------------------------------------------------------------------
(* What an event adds to what was told.                                     *)
LEMMA AppendTold ==
    ASSUME NEW s \in Scan, stream \in [Scan -> Seq(Event)], NEW e \in Event,
           stream' = [stream EXCEPT ![s] = Append(@, e)]
    PROVE  \A t \in Scan : \A n, c, event :
               Told(t, n, c, event)' <=>
                   \/ Told(t, n, c, event)
                   \/ t = s /\ e.run = n /\ e.check = c /\ e.event = event
<1> SUFFICES ASSUME NEW t \in Scan, NEW n, NEW c, NEW event
             PROVE  Told(t, n, c, event)' <=>
                        \/ Told(t, n, c, event)
                        \/ t = s /\ e.run = n /\ e.check = c /\ e.event = event
  OBVIOUS
<1>1. CASE t # s
  BY <1>1 DEF Told
<1>2. CASE t = s
  <2> DEFINE q == stream[s]
  <2>1. q \in Seq(Event) /\ Len(q) \in Nat /\ DOMAIN q = 1..Len(q)
    BY LenProperties
  <2> HIDE DEF q
  <2>2. /\ DOMAIN Append(q, e) = 1..(Len(q) + 1)
        /\ \A i \in 1..Len(q) : Append(q, e)[i] = q[i]
        /\ Append(q, e)[Len(q) + 1] = e
    <3>1. Append(q, e) \in Seq(Event) /\ Len(Append(q, e)) = Len(q) + 1
      BY <2>1, AppendProperties
    <3>2. DOMAIN Append(q, e) = 1..Len(Append(q, e))
      BY <3>1, LenProperties
    <3> QED
      BY <2>1, <3>1, <3>2, AppendProperties
  <2>3. stream'[s] = Append(q, e)
    BY DEF q
  <2>4. Told(s, n, c, event)' <=>
            \E i \in 1..(Len(q) + 1) :
                /\ Append(q, e)[i].run = n /\ Append(q, e)[i].check = c
                /\ Append(q, e)[i].event = event
    BY <2>2, <2>3 DEF Told
  <2>5. Told(s, n, c, event) <=>
            \E i \in 1..Len(q) : q[i].run = n /\ q[i].check = c /\ q[i].event = event
    BY <2>1 DEF Told, q
  <2>6. \A i : i \in 1..(Len(q) + 1) <=> i \in 1..Len(q) \/ i = Len(q) + 1
    BY <2>1
  <2> QED
    BY <1>2, <2>2, <2>4, <2>5, <2>6
<1> QED
  BY <1>1, <1>2

(* The runs of the events after one more of the running attempt.            *)
LEMMA AppendRuns ==
    ASSUME NEW q \in Seq(Event), NEW e \in Event, NEW n,
           \A i \in DOMAIN q : q[i].run <= n, e.run = n, n \in Nat
    PROVE  \A i \in DOMAIN Append(q, e) : Append(q, e)[i].run <= n
<1>1. Append(q, e) \in Seq(Event) /\ Len(Append(q, e)) = Len(q) + 1 /\ Len(q) \in Nat
  BY AppendProperties, LenProperties
<1>2. DOMAIN Append(q, e) = 1..(Len(q) + 1) /\ DOMAIN q = 1..Len(q)
  BY <1>1, LenProperties
<1>3. \A i \in 1..Len(q) : Append(q, e)[i] = q[i]
  BY AppendProperties
<1>4. Append(q, e)[Len(q) + 1] = e
  BY AppendProperties
<1>5. \A i \in 1..(Len(q) + 1) : i \in 1..Len(q) \/ i = Len(q) + 1
  BY <1>1
<1> QED
  BY <1>2, <1>3, <1>4, <1>5

(* What a scan is not touched by leaves its invariant alone.                *)
LEMMA AttemptFrame ==
    ASSUME NEW t \in Scan, AttemptInv(t),
           pc'[t] = pc[t], tries'[t] = tries[t], outcome'[t] = outcome[t],
           outbox'[t] = outbox[t], saving'[t] = saving[t], stream'[t] = stream[t]
    PROVE  AttemptInv(t)'
<1>1. \A n, c, event : Told(t, n, c, event)' <=> Told(t, n, c, event)
  BY DEF Told
<1>2. \A c \in Check : Matches(t, c)' <=> Matches(t, c)
  BY <1>1 DEF Matches
<1>3. OnItsWay(t, outbox[t].check) => OnItsWay(t, outbox[t].check)'
  BY <1>1, <1>2 DEF OnItsWay
<1> QED
  BY <1>2, <1>3 DEF AttemptInv, Running, Collecting, Closed, Publishing

AttemptsInv == \A t \in Scan : AttemptInv(t)

(* The step is one of scan s.                                               *)
OnlyOf(s) ==
    \A t \in Scan \ {s} :
        /\ pc'[t] = pc[t] /\ tries'[t] = tries[t] /\ outcome'[t] = outcome[t]
        /\ outbox'[t] = outbox[t] /\ saving'[t] = saving[t] /\ stream'[t] = stream[t]

LEMMA OneScan ==
    ASSUME AttemptsInv, NEW s \in Scan, OnlyOf(s), AttemptInv(s)'
    PROVE  AttemptsInv'
<1>1. ASSUME NEW t \in Scan \ {s}
      PROVE  AttemptInv(t)'
  BY AttemptFrame DEF AttemptsInv, OnlyOf
<1> QED
  BY <1>1 DEF AttemptsInv

(* Nothing is told, nothing is learnt.                                      *)
Quiet(s) ==
    stream'[s] = stream[s] /\ tries'[s] = tries[s] /\ outcome'[s] = outcome[s]

LEMMA QuietMatches ==
    ASSUME NEW s \in Scan, Quiet(s)
    PROVE  \A c \in Check : Matches(s, c)' <=> Matches(s, c)
BY DEF Quiet, Matches, Told

(* A step after which the attempt publishes no check and collects none.     *)
LEMMA QuietEnd ==
    ASSUME NEW s \in Scan, AttemptInv(s), Quiet(s), saving'[s] \subseteq saving[s],
           Running(s)' => Running(s), pc'[s] \notin {"lookup", "collect", "save"},
           pc'[s] \in {"xadd", "expire"} => outbox'[s].event \in TerminalEvents,
           saving'[s] # {} => pc'[s] \in {"return", "done", "xadd", "expire"}
    PROVE  AttemptInv(s)'
<1>1. \A c \in Check : Matches(s, c)' <=> Matches(s, c)
  BY QuietMatches
<1>2. TerminalEvents \cap CheckEvents = {}
  BY DEF TerminalEvents, CheckEvents
<1>3. ~Collecting(s)' /\ (Closed(s)' => Closed(s))
  BY <1>2 DEF Collecting, Closed
<1>4. ~(pc'[s] = "xadd" /\ outbox'[s].event \in CheckEvents)
  BY <1>2
<1> QED
  BY <1>1, <1>3, <1>4 DEF AttemptInv, Quiet, Publishing

(* An exception: what follows is a scan_error or the end.                   *)
LEMMA RaiseEnd ==
    ASSUME TypeInv, NEW s \in Scan, AttemptInv(s), Quiet(s), saving'[s] \subseteq saving[s],
           Running(s), Raise(s)
    PROVE  AttemptInv(s)'
<1>1. \/ pc'[s] = "xadd" /\ outbox'[s] = ScanError(s)
      \/ pc'[s] = "return"
  BY DEF Raise, Publish, Return, TypeInv, TypeOK
<1>2. ScanError(s).event \in TerminalEvents
  BY DEF ScanError, TerminalEvents
<1> QED
  BY <1>1, <1>2, QuietEnd

LEMMA RaiseElsewhere ==
    ASSUME TypeInv, NEW s \in Scan, Raise(s)
    PROVE  \A t \in Scan \ {s} : pc'[t] = pc[t] /\ outbox'[t] = outbox[t]
BY DEF Raise, Publish, Return, TypeInv, TypeOK

-----------------------------------------------------------------------------
(* XADD, whether its answer came or not: the runs stay within the attempts,  *)
(* and a check that had been told of is told of no more.                     *)
LEMMA AppendKeeps ==
    ASSUME TypeInv, NEW s \in Scan, OwnEvent(s), AttemptInv(s), pc[s] = "xadd", Append1(s),
           tries'[s] = tries[s], outcome'[s] = outcome[s]
    PROVE  /\ \A i \in DOMAIN stream'[s] : stream'[s][i].run <= tries'[s]
           /\ outbox[s].event \in TerminalEvents =>
                  \A c \in Check : Matches(s, c)' <=> Matches(s, c)
           /\ outbox[s].event \in CheckEvents => \A c \in Check : Matches(s, c)'
<1>1. /\ outbox[s] \in Event /\ outbox[s].run = tries[s] /\ tries[s] \in Nat
      /\ stream \in [Scan -> Seq(Event)]
  BY BoundsAssumption DEF TypeInv, TypeOK, OutboxSet, OwnEvent, Publishing
<1>2. stream' = [stream EXCEPT ![s] = Append(@, outbox[s])]
  BY DEF Append1
<1>3. \A i \in DOMAIN stream'[s] : stream'[s][i].run <= tries'[s]
  <2>1. stream[s] \in Seq(Event) /\ stream'[s] = Append(stream[s], outbox[s])
    BY <1>1, <1>2
  <2>2. \A i \in DOMAIN stream[s] : stream[s][i].run <= tries[s]
    BY DEF AttemptInv
  <2>3. \A i \in DOMAIN Append(stream[s], outbox[s]) :
            Append(stream[s], outbox[s])[i].run <= tries[s]
    BY ONLY <1>1, <2>1, <2>2, AppendRuns
  <2> QED
    BY <2>1, <2>3
<1>4. \A n, c, event :
          Told(s, n, c, event)' <=>
              \/ Told(s, n, c, event)
              \/ outbox[s].run = n /\ outbox[s].check = c /\ outbox[s].event = event
  <2> DEFINE e == outbox[s]
  <2>1. e \in Event /\ stream' = [stream EXCEPT ![s] = Append(@, e)]
    BY <1>1, <1>2
  <2> HIDE DEF e
  <2>2. \A t \in Scan : \A n, c, event :
            Told(t, n, c, event)' <=>
                \/ Told(t, n, c, event)
                \/ t = s /\ e.run = n /\ e.check = c /\ e.event = event
    BY ONLY <1>1, <2>1, AppendTold
  <2> QED
    BY <2>2 DEF e
<1>5. CASE outbox[s].event \in TerminalEvents
  <2>1. outbox[s].event \notin CheckEvents
    BY <1>5 DEF TerminalEvents, CheckEvents
  <2>2. \A c \in Check : Matches(s, c)' <=> Matches(s, c)
    BY <1>4, <2>1 DEF Matches, CheckEvents
  <2> QED
    BY <1>3, <2>1, <2>2
<1>6. CASE outbox[s].event \in CheckEvents
  <2>1. OnItsWay(s, outbox[s].check)
    BY <1>6 DEF AttemptInv
  <2>2. ASSUME NEW c \in Check
        PROVE  Matches(s, c)'
    <3>1. CASE c = outbox[s].check
      BY <1>1, <1>4, <1>6, <2>1, <3>1 DEF OnItsWay, Matches, CheckEvents
    <3>2. CASE c # outbox[s].check
      <4>1. Matches(s, c)
        BY <2>1, <3>2 DEF OnItsWay
      <4> QED
        BY <1>4, <3>2, <4>1 DEF Matches
    <3> QED
      BY <3>1, <3>2
  <2>3. outbox[s].event \notin TerminalEvents
    BY <1>6 DEF TerminalEvents, CheckEvents
  <2> QED
    BY <1>3, <2>2, <2>3
<1> QED
  BY <1>1, <1>3, <1>5, <1>6 DEF Event

LEMMA XaddAttempt ==
    ASSUME TypeInv, NEW s \in Scan, OwnEvent(s), AttemptInv(s), Xadd(s)
    PROVE  OnlyOf(s) /\ AttemptInv(s)'
<1>1. /\ pc[s] = "xadd" /\ pc'[s] = "expire" /\ Append1(s)
      /\ outbox' = outbox /\ tries' = tries /\ outcome' = outcome /\ saving' = saving
  BY DEF Xadd, queueVars, TypeInv, TypeOK
<1>2. OnlyOf(s)
  BY <1>1 DEF Xadd, OnlyOf, Append1, TypeInv, TypeOK
<1>3. AttemptInv(s)
  OBVIOUS
<1>4. /\ \A i \in DOMAIN stream'[s] : stream'[s][i].run <= tries'[s]
      /\ outbox[s].event \in TerminalEvents =>
             \A c \in Check : Matches(s, c)' <=> Matches(s, c)
      /\ outbox[s].event \in CheckEvents => \A c \in Check : Matches(s, c)'
  BY <1>1, <1>3, AppendKeeps
<1>5. outbox[s].event \in TerminalEvents \/ outbox[s].event \in CheckEvents
  BY <1>1 DEF TypeInv, OutboxSet, Event
<1>6. TerminalEvents \cap CheckEvents = {}
  BY DEF TerminalEvents, CheckEvents
<1>7. AttemptInv(s)'
  BY <1>1, <1>3, <1>4, <1>5, <1>6
     DEF AttemptInv, Running, Active, Collecting, Closed, Publishing
<1> QED
  BY <1>2, <1>7

LEMMA XaddFailsAttempt ==
    ASSUME TypeInv, NEW s \in Scan, OwnEvent(s), AttemptInv(s), XaddFails(s)
    PROVE  OnlyOf(s) /\ AttemptInv(s)'
<1>1. /\ pc[s] = "xadd" /\ (Append1(s) \/ UNCHANGED streamVars)
      /\ Raise(s) /\ tries' = tries /\ outcome' = outcome /\ saving' = saving
  BY DEF XaddFails, queueVars
<1>2. AttemptInv(s) /\ Running(s)
  BY <1>1 DEF Running, Active
<1>3. OnlyOf(s)
  BY <1>1, RaiseElsewhere DEF OnlyOf, Append1, streamVars, TypeInv, TypeOK
<1>4. CASE UNCHANGED streamVars
  <2>1. AttemptInv(s)'
    BY <1>1, <1>2, <1>4, RaiseEnd DEF Quiet, streamVars
  <2> QED
    BY <1>3, <2>1
<1>5. CASE Append1(s)
  <2>1. \/ pc'[s] = "xadd" /\ outbox'[s].event = "scan_error"
        \/ pc'[s] = "return"
    BY <1>1 DEF Raise, Publish, Return, ScanError, TypeInv, TypeOK
  <2>2. /\ \A i \in DOMAIN stream'[s] : stream'[s][i].run <= tries'[s]
        /\ outbox[s].event \in TerminalEvents =>
               \A c \in Check : Matches(s, c)' <=> Matches(s, c)
    BY <1>1, <1>2, <1>5, AppendKeeps
  <2>3. saving[s] # {} => outbox[s].event \in TerminalEvents
    BY <1>1, <1>2 DEF AttemptInv, Publishing
  <2>4. AttemptInv(s)'
    BY <1>1, <1>2, <2>1, <2>2, <2>3
       DEF AttemptInv, Running, Active, Collecting, Closed, Publishing, TerminalEvents, CheckEvents
  <2> QED
    BY <1>3, <2>4
<1> QED
  BY <1>1, <1>4, <1>5

(* An attempt begins: nothing was told under its number.                    *)
LEMMA StartAttempt ==
    ASSUME TypeInv, NEW s \in Scan, AttemptInv(s), NEW w \in Worker, StartJob(w, s)
    PROVE  OnlyOf(s) /\ AttemptInv(s)'
<1>1. /\ pc[s] = "queued" /\ pc'[s] = "lookup" /\ tries'[s] = tries[s] + 1 /\ tries[s] \in Nat
      /\ outcome'[s] = [c \in Check |-> "pending"]
      /\ saving' = saving /\ stream' = stream /\ outbox' = outbox
  BY BoundsAssumption DEF StartJob, streamVars, TypeInv, TypeOK
<1>2. OnlyOf(s)
  BY <1>1 DEF StartJob, OnlyOf, TypeInv, TypeOK
<1>3. AttemptInv(s)
  OBVIOUS
<1>4. saving[s] = {}
  BY <1>1, <1>3 DEF AttemptInv, Publishing
<1>5. \A i \in DOMAIN stream[s] : stream[s][i].run <= tries[s] /\ stream[s][i].run \in Nat
  <2>1. stream[s] \in Seq(Event)
    BY DEF TypeInv, TypeOK
  <2>2. \A i \in DOMAIN stream[s] : stream[s][i] \in Event
    BY ONLY <2>1, LenProperties, ElementOfSeq
  <2> QED
    BY <1>3, <2>2 DEF AttemptInv, Event
<1>6. \A i \in DOMAIN stream'[s] : stream'[s][i].run <= tries'[s]
  BY <1>1, <1>5
<1>7. \A c, event : ~Told(s, tries[s] + 1, c, event)
  BY <1>1, <1>5 DEF Told
<1>8. \A c \in Check : Matches(s, c)'
  BY <1>1, <1>7 DEF Matches, Told
<1> QED
  <2>1. AttemptInv(s)'
    BY <1>1, <1>4, <1>6, <1>8 DEF AttemptInv, Closed
  <2> QED
    BY <1>2, <2>1

(* A check completes: its event is on its way.                              *)
LEMMA NextCheckAttempt ==
    ASSUME TypeInv, NEW s \in Scan, AttemptInv(s), NEW c \in Check, NEW ok \in BOOLEAN,
           NextCheck(s, c, ok)
    PROVE  OnlyOf(s) /\ AttemptInv(s)'
<1>1. /\ pc[s] = "collect" /\ outcome[s][c] = "pending" /\ pc'[s] = "xadd"
      /\ outcome'[s][c] = (IF ok THEN "ok" ELSE "error")
      /\ \A d \in Check \ {c} : outcome'[s][d] = outcome[s][d]
      /\ outbox'[s].check = c
      /\ outbox'[s].event = (IF ok THEN "check_complete" ELSE "check_error")
      /\ saving' = saving /\ stream' = stream /\ tries' = tries
  BY DEF NextCheck, Publish, CheckEvent, queueVars, streamVars, TypeInv, TypeOK
<1>2. OnlyOf(s)
  BY <1>1 DEF NextCheck, Publish, OnlyOf, TypeInv, TypeOK
<1>3. AttemptInv(s)
  OBVIOUS
<1>4. saving[s] = {} /\ tries[s] >= 1
  BY <1>1, <1>3 DEF AttemptInv, Publishing, Running, Active
<1>5. \A d \in Check : Matches(s, d)
  BY <1>1, <1>3 DEF AttemptInv, Collecting
<1>6. OnItsWay(s, c)'
  <2>1. \A d \in Check \ {c} : Matches(s, d)'
    BY <1>1, <1>5 DEF Matches, Told
  <2>2. ~Told(s, tries[s], c, "check_complete")' /\ ~Told(s, tries[s], c, "check_error")'
    BY <1>1, <1>5 DEF Matches, Told
  <2> QED
    BY <1>1, <2>1, <2>2 DEF OnItsWay
<1>7. AttemptInv(s)'
  <2>1. \A i \in DOMAIN stream'[s] : stream'[s][i].run <= tries'[s]
    BY <1>1, <1>3 DEF AttemptInv
  <2>2. OnItsWay(s, outbox[s].check)'
    BY <1>1, <1>6 DEF OnItsWay
  <2> QED
    BY <1>1, <1>4, <2>1, <2>2 DEF AttemptInv, Collecting, Closed
<1> QED
  BY <1>2, <1>7

(* EXPIRE: the event is told, and the attempt goes on or returns.           *)
LEMMA ExpireAttempt ==
    ASSUME TypeInv, NEW s \in Scan, AttemptInv(s), Expire(s)
    PROVE  OnlyOf(s) /\ AttemptInv(s)'
<1>1. /\ pc[s] = "expire" /\ Quiet(s) /\ saving' = saving
      /\ \/ pc'[s] = "collect" /\ outbox[s].event \in CheckEvents
         \/ pc'[s] = "return"
  BY DEF Expire, AfterPublish, Return, Quiet, queueVars, TypeInv, TypeOK
<1>2. OnlyOf(s)
  BY DEF Expire, AfterPublish, Return, OnlyOf, queueVars, TypeInv, TypeOK
<1>3. AttemptInv(s) /\ Running(s)
  BY <1>1 DEF Running, Active
<1>4. CASE pc'[s] = "return"
  BY <1>1, <1>2, <1>3, <1>4, QuietEnd
<1>5. CASE pc'[s] = "collect" /\ outbox[s].event \in CheckEvents
  <2>1. saving[s] = {}
    BY <1>1, <1>3, <1>5 DEF AttemptInv, CheckEvents, TerminalEvents
  <2>2. \A c \in Check : Matches(s, c)'
    BY <1>1, <1>3, <1>5, QuietMatches DEF AttemptInv, Collecting
  <2>3. AttemptInv(s)'
    BY <1>1, <1>3, <1>5, <2>1, <2>2 DEF AttemptInv, Quiet, Closed
  <2> QED
    BY <1>2, <2>3
<1> QED
  BY <1>1, <1>4, <1>5

(* A save lands or fails: nothing is told, and what is in flight shrinks.   *)
LEMMA LandAttempt ==
    ASSUME NEW s \in Scan, AttemptInv(s), Quiet(s), saving'[s] \subseteq saving[s],
           saving[s] # {}, pc'[s] = pc[s], outbox'[s] = outbox[s]
    PROVE  AttemptInv(s)'
<1>1. \A c \in Check : Matches(s, c)' <=> Matches(s, c)
  BY QuietMatches
<1>2. \A c \in Check : Matches(s, c)
  BY DEF AttemptInv, Closed
<1>3. ~(pc'[s] = "xadd" /\ outbox'[s].event \in CheckEvents)
  BY DEF AttemptInv, Publishing, TerminalEvents, CheckEvents
<1> QED
  BY <1>1, <1>2, <1>3 DEF AttemptInv, Quiet, Running, Collecting, Closed, Publishing

LEMMA SaveAttempt ==
    ASSUME TypeInv, NEW s \in Scan, AttemptInv(s), NEW st \in Store,
           SaveLands(s, st) \/ SaveFails(s, st)
    PROVE  OnlyOf(s) /\ AttemptInv(s)'
<1>1. Quiet(s) /\ saving'[s] \subseteq saving[s] /\ saving[s] # {}
  BY DEF SaveLands, SaveFails, Quiet, queueVars, streamVars, TypeInv, TypeOK
<1>2. CASE pc' = pc /\ outbox' = outbox
  <2>1. OnlyOf(s)
    BY <1>2 DEF SaveLands, SaveFails, OnlyOf, queueVars, streamVars, TypeInv, TypeOK
  <2> QED
    BY <1>1, <1>2, <2>1, LandAttempt
<1>3. CASE pc[s] = "save" /\ Raise(s) /\ SaveFails(s, st)
  <2>1. OnlyOf(s)
    BY <1>3, RaiseElsewhere DEF SaveFails, OnlyOf, queueVars, streamVars, TypeInv, TypeOK
  <2>2. AttemptInv(s)'
    BY <1>1, <1>3, RaiseEnd DEF Running, Active
  <2> QED
    BY <2>1, <2>2
<1> QED
  BY <1>2, <1>3 DEF SaveLands, SaveFails

(* What the queue and the worker do with a scan touches that scan alone, and *)
(* keeps its invariant.                                                      *)
LEMMA QueueAttempt ==
    ASSUME TypeInv, NEW s \in Scan, OwnEvent(s), AttemptInv(s), Enqueue(s) \/ QueueStep(s)
    PROVE  OnlyOf(s) /\ AttemptInv(s)'
<1> USE DEF TypeInv, TypeOK, OnlyOf, Quiet, Running, Active, queueVars, streamVars
<1>1. ASSUME Enqueue(s)
      PROVE  OnlyOf(s) /\ AttemptInv(s)'
  <2>1. OnlyOf(s)
    BY <1>1 DEF Enqueue
  <2>2. pc[s] = "absent" /\ pc'[s] = "queued" /\ Quiet(s) /\ saving' = saving
    BY <1>1 DEF Enqueue
  <2>3. saving[s] = {} /\ AttemptInv(s)
    BY <2>2 DEF AttemptInv, Publishing
  <2>4. AttemptInv(s)'
    BY <2>2, <2>3, QuietEnd
  <2> QED
    BY <2>1, <2>4
<1>2. ASSUME NEW w \in Worker, StartJob(w, s)
      PROVE  OnlyOf(s) /\ AttemptInv(s)'
  BY <1>2, StartAttempt
<1>3. ASSUME Exhausted(s)
      PROVE  OnlyOf(s) /\ AttemptInv(s)'
  <2>1. OnlyOf(s)
    BY <1>3 DEF Exhausted
  <2>2. pc[s] = "queued" /\ pc'[s] = "done" /\ Quiet(s) /\ saving' = saving
    BY <1>3 DEF Exhausted
  <2>3. AttemptInv(s)'
    BY <2>2, QuietEnd
  <2> QED
    BY <2>1, <2>3
<1>4. ASSUME FinishJob(s)
      PROVE  OnlyOf(s) /\ AttemptInv(s)'
  <2>1. OnlyOf(s)
    BY <1>4 DEF FinishJob
  <2>2. pc[s] = "return" /\ pc'[s] = "done" /\ Quiet(s) /\ saving' = saving
    BY <1>4 DEF FinishJob
  <2>3. AttemptInv(s)'
    BY <2>2, QuietEnd
  <2> QED
    BY <2>1, <2>3
<1>5. ASSUME JobTimeout(s)
      PROVE  OnlyOf(s) /\ AttemptInv(s)'
  <2>1. OnlyOf(s)
    BY <1>5 DEF JobTimeout, Return
  <2>2. Running(s) /\ pc'[s] = "return" /\ Quiet(s) /\ saving'[s] \subseteq saving[s]
    BY <1>5 DEF JobTimeout, Return
  <2>3. AttemptInv(s)'
    BY <2>2, QuietEnd
  <2> QED
    BY <2>1, <2>3
<1>6. ASSUME Xadd(s)
      PROVE  OnlyOf(s) /\ AttemptInv(s)'
  BY <1>6, XaddAttempt
<1>7. ASSUME XaddFails(s)
      PROVE  OnlyOf(s) /\ AttemptInv(s)'
  BY <1>7, XaddFailsAttempt
<1>8. ASSUME Expire(s)
      PROVE  OnlyOf(s) /\ AttemptInv(s)'
  BY <1>8, ExpireAttempt
<1>9. ASSUME ExpireFails(s) \/ LookupFails(s)
       PROVE  OnlyOf(s) /\ AttemptInv(s)'
  <2>1. Raise(s) /\ Running(s) /\ Quiet(s) /\ saving' = saving /\ stream' = stream /\ tries' = tries /\ outcome' = outcome
    BY <1>9 DEF ExpireFails, LookupFails
  <2>2. OnlyOf(s)
    BY <2>1, RaiseElsewhere
  <2>3. AttemptInv(s)'
    BY <2>1, RaiseEnd
  <2> QED
    BY <2>2, <2>3
<1>10. ASSUME CacheHit(s)
       PROVE  OnlyOf(s) /\ AttemptInv(s)'
  <2>1. OnlyOf(s)
    BY <1>10 DEF CacheHit, Publish
  <2>2. /\ pc[s] = "lookup" /\ pc'[s] = "xadd" /\ Quiet(s) /\ saving' = saving
        /\ outbox'[s].event = "scan_complete"
    BY <1>10 DEF CacheHit, Publish, ScanComplete
  <2>3. AttemptInv(s)'
    BY <2>2, QuietEnd DEF TerminalEvents
  <2> QED
    BY <2>1, <2>3
<1>11. ASSUME CacheMiss(s)
       PROVE  OnlyOf(s) /\ AttemptInv(s)'
  <2>1. OnlyOf(s)
    BY <1>11 DEF CacheMiss
  <2>2. pc[s] = "lookup" /\ pc'[s] = "collect" /\ Quiet(s) /\ saving' = saving /\ outbox' = outbox
    BY <1>11 DEF CacheMiss
  <2>3. AttemptInv(s) /\ (\A c \in Check : Matches(s, c)' <=> Matches(s, c))
    BY <2>2, QuietMatches
  <2>4. AttemptInv(s)'
    BY <2>2, <2>3 DEF AttemptInv, Collecting, Closed, Publishing
  <2> QED
    BY <2>1, <2>4
<1>12. ASSUME NEW c \in Check, NEW ok \in BOOLEAN, NextCheck(s, c, ok)
       PROVE  OnlyOf(s) /\ AttemptInv(s)'
  BY <1>12, NextCheckAttempt
<1>13. ASSUME ComputeAndSave(s)
       PROVE  OnlyOf(s) /\ AttemptInv(s)'
  <2>1. OnlyOf(s)
    BY <1>13 DEF ComputeAndSave
  <2>2. pc[s] = "collect" /\ pc'[s] = "save" /\ Quiet(s) /\ Reported(s) = Check
    BY <1>13 DEF ComputeAndSave
  <2>3. AttemptInv(s) /\ (\A c \in Check : Matches(s, c)' <=> Matches(s, c))
    BY <2>2, QuietMatches
  <2>4. AttemptInv(s)'
    BY <2>2, <2>3 DEF AttemptInv, Collecting, Closed, Publishing, Reported
  <2> QED
    BY <2>1, <2>4
<1>14. ASSUME NEW st \in Store, SaveLands(s, st) \/ SaveFails(s, st)
       PROVE  OnlyOf(s) /\ AttemptInv(s)'
  BY <1>14, SaveAttempt
<1>15. ASSUME GatherDone(s)
       PROVE  OnlyOf(s) /\ AttemptInv(s)'
  <2>1. OnlyOf(s)
    BY <1>15 DEF GatherDone, Publish
  <2>2. /\ pc[s] = "save" /\ pc'[s] = "xadd" /\ Quiet(s) /\ saving' = saving
        /\ outbox'[s].event = "scan_complete"
    BY <1>15 DEF GatherDone, Publish, ScanComplete
  <2>3. AttemptInv(s)'
    BY <2>2, QuietEnd DEF TerminalEvents
  <2> QED
    BY <2>1, <2>3
<1> QED
  BY <1>1, <1>2, <1>3, <1>4, <1>5, <1>6, <1>7, <1>8, <1>9, <1>10, <1>11, <1>12, <1>13, <1>14, <1>15 DEF QueueStep, JobStep, Fault

(* A worker dies: its scans are as they were, but for what was in flight.     *)
LEMMA CrashAttempt ==
    ASSUME TypeInv, NEW w \in Worker, Crash(w), NEW t \in Scan, AttemptInv(t)
    PROVE  AttemptInv(t)'
<1>1. stream' = stream /\ tries' = tries /\ outcome' = outcome
  BY DEF Crash, streamVars
<1>2. CASE runner[t] = w
  <2>1. pc'[t] = "queued" /\ saving'[t] = {} /\ Quiet(t)
    BY <1>1, <1>2 DEF Crash, Quiet
  <2> QED
    BY <2>1, QuietEnd DEF Running, Active
<1>3. CASE runner[t] # w
  <2>1. pc'[t] = pc[t] /\ saving'[t] = saving[t] /\ outbox'[t] = outbox[t]
    BY <1>3 DEF Crash
  <2> QED
    BY <1>1, <2>1, AttemptFrame
<1> QED
  BY <1>2, <1>3

LEMMA NextAttempts == TypeInv /\ AnswerInv /\ AttemptsInv /\ [Next]_vars => AttemptsInv'
<1> SUFFICES ASSUME TypeInv, AnswerInv, AttemptsInv, [Next]_vars
             PROVE  AttemptsInv'
  OBVIOUS
<1>1. ASSUME NEW s \in Scan, Enqueue(s) \/ QueueStep(s)
      PROVE  AttemptsInv'
  <2>1. OwnEvent(s) /\ AttemptInv(s)
    BY OwnEvents DEF AttemptsInv
  <2>2. OnlyOf(s) /\ AttemptInv(s)'
    BY <1>1, <2>1, QueueAttempt
  <2> QED
    BY <2>2, OneScan
<1>2. ASSUME NEW w \in Worker, Crash(w)
      PROVE  AttemptsInv'
  BY <1>2, CrashAttempt DEF AttemptsInv
<1>3. CASE Expiry \/ UNCHANGED vars
  <2>1. /\ pc' = pc /\ tries' = tries /\ outcome' = outcome
        /\ outbox' = outbox /\ saving' = saving /\ stream' = stream
    BY <1>3 DEF Expiry, ExpireReport, ExpireCache, ExpireStream, vars, queueVars, streamVars
  <2> QED
    BY <2>1, AttemptFrame DEF AttemptsInv
<1> QED
  BY <1>1, <1>2, <1>3 DEF Next

-----------------------------------------------------------------------------
(* The reports that scan s may show, and those the cache may hold for a host. *)
Valid(s) ==
    {r \in Report : r.scan_id = s /\ DomainOf[r.origin] = DomainOf[s] /\ IsWholeRun(r)}
ValidFor(d) == {r \in Report : DomainOf[r.origin] = d /\ IsWholeRun(r)}
MaybeValid(s) == Valid(s) \cup {NoReport}

KeptInv ==
    /\ \A s \in Scan :
           /\ redis[s] \in MaybeValid(s) /\ mongo[s] \in MaybeValid(s)
           /\ pc[s] \in {"xadd", "expire"} => outbox[s].report \in MaybeValid(s)
           /\ \A i \in DOMAIN stream[s] : stream[s][i].report \in MaybeValid(s)
    /\ \A d \in Domain : cache[d] \in ValidFor(d) \cup {NoReport}

(* A closed report is the whole run of the attempt that closed it.          *)
LEMMA FreshIsValid ==
    ASSUME TypeInv, NEW s \in Scan, AttemptInv(s), Closed(s)
    PROVE  /\ FreshReport(s) \in Valid(s) /\ FreshReport(s) \in ValidFor(DomainOf[s])
           /\ IsRun(FreshReport(s), tries[s]) /\ tries[s] \in 1..MaxTries
<1>1. /\ \A c \in Check : Matches(s, c) /\ outcome[s][c] # "pending"
      /\ tries[s] \in 1..MaxTries
  BY BoundsAssumption DEF AttemptInv, TypeInv, TypeOK
<1>2. \A c \in Check : outcome[s][c] = "error" <=> outcome[s][c] # "ok"
  BY <1>1 DEF TypeInv, TypeOK
<1>3. /\ FreshReport(s).origin = s /\ FreshReport(s).scan_id = s
      /\ FreshReport(s).checks = {c \in Check : outcome[s][c] = "ok"}
      /\ FreshReport(s) \in Report
  <2>1. FreshReport(s) \in Report
    BY FreshReportType DEF TypeInv
  <2> QED
    BY <2>1 DEF FreshReport
<1>4. \A c \in Check : c \in FreshReport(s).checks <=> outcome[s][c] = "ok"
  BY <1>3
<1>5. IsRun(FreshReport(s), tries[s])
  BY <1>1, <1>2, <1>3, <1>4 DEF IsRun, Matches
<1>6. IsWholeRun(FreshReport(s))
  BY <1>1, <1>5 DEF IsWholeRun
<1> QED
  BY <1>1, <1>3, <1>5, <1>6 DEF Valid, ValidFor

(* A cached report under the id of a scan of the same host.                 *)
LEMMA NormalizedIsValid ==
    ASSUME TypeInv, NEW s \in Scan, NEW r \in ValidFor(DomainOf[s])
    PROVE  NormalizeCachedReport(s, r) \in Valid(s)
<1> DEFINE n == NormalizeCachedReport(s, r)
<1>1. r \in Report /\ DomainOf[r.origin] = DomainOf[s] /\ IsWholeRun(r)
  BY DEF ValidFor
<1>2. n \in Report /\ n.scan_id = s /\ n.origin = r.origin /\ n.checks = r.checks
  BY <1>1 DEF NormalizeCachedReport, Report
<1> HIDE DEF n
<1>3. IsWholeRun(n)
  BY <1>1, <1>2 DEF IsWholeRun, IsRun
<1> QED
  BY <1>1, <1>2, <1>3 DEF Valid, n

(* Who appends to a stream.                                                 *)
LEMMA OnlyXaddTells ==
    ASSUME [Next]_vars, stream' # stream
    PROVE  \E s \in Scan : pc[s] = "xadd" /\ Append1(s)
BY DEF Next, QueueStep, Expiry, JobStep, Fault, vars, streamVars,
       Enqueue, StartJob, Exhausted, FinishJob, JobTimeout, Crash, Xadd, XaddFails,
       Expire, ExpireFails, CacheHit, CacheMiss, LookupFails, NextCheck, ComputeAndSave,
       SaveLands, SaveFails, GatherDone, ExpireReport, ExpireCache, ExpireStream

(* A whole run stays one: the attempt that told all its checks tells none    *)
(* again, and no other attempt shares its number.                            *)
RunsStay == \A r \in Report, n \in Nat : IsRun(r, n) => IsRun(r, n)'

LEMMA AppendRunsStay ==
    ASSUME TypeInv, NEW s \in Scan, OwnEvent(s), AttemptInv(s), pc[s] = "xadd", Append1(s)
    PROVE  RunsStay
<1> SUFFICES ASSUME NEW r \in Report, NEW n \in Nat, IsRun(r, n)
             PROVE  IsRun(r, n)'
  BY DEF RunsStay
<1> DEFINE e == outbox[s]
<1>1. /\ e \in Event /\ e.run = tries[s] /\ stream \in [Scan -> Seq(Event)]
      /\ stream' = [stream EXCEPT ![s] = Append(@, e)]
  BY DEF Append1, TypeInv, TypeOK, OutboxSet, OwnEvent, Publishing
<1>2. r.origin \in Scan
  BY DEF Report
<1>3. e.event \in CheckEvents => OnItsWay(s, e.check)
  BY DEF AttemptInv
<1> HIDE DEF e
<1>4. \A t \in Scan : \A m, c, event :
          Told(t, m, c, event)' <=>
              \/ Told(t, m, c, event)
              \/ t = s /\ e.run = m /\ e.check = c /\ e.event = event
  BY ONLY <1>1, AppendTold
<1>5. CASE e.event \in CheckEvents /\ r.origin = s /\ n = tries[s]
  <2>1. e.check \in Check
    BY <1>3, <1>5 DEF OnItsWay
  <2>2. ~Told(s, n, e.check, "check_complete") /\ ~Told(s, n, e.check, "check_error")
    BY <1>3, <1>5 DEF OnItsWay
  <2> QED
    BY <1>5, <2>1, <2>2 DEF IsRun
<1>6. CASE ~(e.event \in CheckEvents /\ r.origin = s /\ n = tries[s])
  <2>1. \A c \in Check, event \in CheckEvents :
            Told(r.origin, n, c, event)' <=> Told(r.origin, n, c, event)
    BY <1>1, <1>2, <1>4, <1>6
  <2> QED
    BY <2>1 DEF IsRun, CheckEvents
<1> QED
  BY <1>5, <1>6

LEMMA RunsStayQuiet == stream' = stream => RunsStay
BY DEF RunsStay, IsRun, Told

LEMMA RunStays ==
    ASSUME TypeInv, AnswerInv, AttemptsInv, [Next]_vars
    PROVE  RunsStay
<1>1. CASE stream' = stream
  BY <1>1, RunsStayQuiet
<1>2. CASE stream' # stream
  <2>1. PICK s \in Scan : pc[s] = "xadd" /\ Append1(s)
    BY <1>2, OnlyXaddTells
  <2>2. OwnEvent(s) /\ AttemptInv(s)
    BY OwnEvents DEF AttemptsInv
  <2> QED
    BY <2>1, <2>2, AppendRunsStay
<1> QED
  BY <1>1, <1>2

(* So does a report whose attempt is not known.                             *)
LEMMA WholeRunStays ==
    ASSUME RunsStay, NEW r \in Report, IsWholeRun(r)
    PROVE  IsWholeRun(r)'
<1>1. PICK n \in 1..MaxTries : IsRun(r, n)
  BY DEF IsWholeRun
<1>2. n \in Nat
  BY BoundsAssumption
<1>3. IsRun(r, n)'
  BY <1>1, <1>2 DEF RunsStay
<1> QED
  BY <1>3 DEF IsWholeRun

LEMMA ValidStays ==
    ASSUME TypeInv, AnswerInv, AttemptsInv, [Next]_vars
    PROVE  /\ \A s \in Scan : MaybeValid(s) \subseteq MaybeValid(s)'
           /\ \A d \in Domain : ValidFor(d) \subseteq ValidFor(d)'
<1>1. \A r \in Report : IsWholeRun(r) => IsWholeRun(r)'
  BY RunStays, WholeRunStays
<1> QED
  BY <1>1 DEF MaybeValid, Valid, ValidFor

(***************************************************************************)
(* Where the reports that a step of scan s leaves behind come from: they     *)
(* were there, or they are r, which the scan saves; its event carries none,  *)
(* the one in the cache or the closed one.                                   *)
(***************************************************************************)
Sources(s, r) ==
    /\ \A t \in Scan : redis'[t] = redis[t] \/ (t = s /\ saving[s] # {} /\ redis'[t] = r)
    /\ \A t \in Scan : mongo'[t] = mongo[t] \/ (t = s /\ saving[s] # {} /\ mongo'[t] = r)
    /\ \A d \in Domain :
           cache'[d] = cache[d] \/ (d = DomainOf[s] /\ saving[s] # {} /\ cache'[d] = r)
    /\ \A t \in Scan \ {s} :
           pc'[t] = pc[t] /\ outbox'[t] = outbox[t] /\ stream'[t] = stream[t]
    /\ Publishing(s)' =>
           \/ Publishing(s) /\ outbox'[s] = outbox[s]
           \/ outbox'[s].report = NoReport
           \/ /\ cache[DomainOf[s]] # NoReport
              /\ outbox'[s].report = NormalizeCachedReport(s, cache[DomainOf[s]])
           \/ Closed(s) /\ outbox'[s].report = FreshReport(s)
    /\ stream'[s] = stream[s] \/ (pc[s] = "xadd" /\ Append1(s))

LEMMA WriteSources ==
    ASSUME TypeInv, NEW s \in Scan, NEW st \in saving[s], NEW r,
           Write(s, st, r) \/ UNCHANGED storeVars
    PROVE  /\ \A t \in Scan : redis'[t] = redis[t] \/ (t = s /\ saving[s] # {} /\ redis'[t] = r)
           /\ \A t \in Scan : mongo'[t] = mongo[t] \/ (t = s /\ saving[s] # {} /\ mongo'[t] = r)
           /\ \A d \in Domain :
                  cache'[d] = cache[d] \/ (d = DomainOf[s] /\ saving[s] # {} /\ cache'[d] = r)
BY DEF Write, storeVars, TypeInv, TypeOK

LEMMA RaiseSources ==
    ASSUME TypeInv, NEW s \in Scan, Raise(s)
    PROVE  /\ \A t \in Scan \ {s} : pc'[t] = pc[t] /\ outbox'[t] = outbox[t]
           /\ Publishing(s)' => outbox'[s].report = NoReport
BY DEF Raise, Publish, Return, ScanError, Publishing, TypeInv, TypeOK

LEMMA QueueSources ==
    ASSUME TypeInv, NEW s \in Scan, Enqueue(s) \/ QueueStep(s)
    PROVE  Sources(s, FreshReport(s))
<1> USE DEF TypeInv, TypeOK, Sources, Publishing, queueVars, storeVars, streamVars
<1>1. CASE Enqueue(s) \/ Exhausted(s) \/ FinishJob(s) \/ JobTimeout(s) \/ CacheMiss(s) \/ ComputeAndSave(s)
  BY <1>1 DEF Enqueue, Exhausted, FinishJob, JobTimeout, Return, CacheMiss, ComputeAndSave
<1>2. ASSUME NEW w \in Worker, StartJob(w, s)
      PROVE  Sources(s, FreshReport(s))
  BY <1>2 DEF StartJob
<1>3. CASE Xadd(s)
  BY <1>3 DEF Xadd, Append1
<1>4. CASE XaddFails(s)
  <2>1. \A t \in Scan \ {s} : stream'[t] = stream[t]
    BY <1>4 DEF XaddFails, Append1
  <2> QED
    BY <1>4, <2>1, RaiseSources DEF XaddFails
<1>5. CASE Expire(s)
  BY <1>5 DEF Expire, AfterPublish, Return
<1>6. CASE ExpireFails(s) \/ LookupFails(s)
  BY <1>6, RaiseSources DEF ExpireFails, LookupFails
<1>7. CASE CacheHit(s)
  <2>1. \A r : ScanComplete(s, r).report = r
    BY DEF ScanComplete
  <2> QED
    BY <1>7, <2>1 DEF CacheHit, Publish
<1>8. ASSUME NEW c \in Check, NEW ok \in BOOLEAN, NextCheck(s, c, ok)
      PROVE  Sources(s, FreshReport(s))
  <2>1. CheckEvent(s, c, ok, Cardinality(Reported(s)) + 1).report = NoReport
    BY DEF CheckEvent
  <2> QED
    BY <1>8, <2>1 DEF NextCheck, Publish
<1>9. ASSUME NEW st \in Store, SaveLands(s, st)
      PROVE  Sources(s, FreshReport(s))
  BY <1>9, WriteSources DEF SaveLands
<1>10. ASSUME NEW st \in Store, SaveFails(s, st)
       PROVE  Sources(s, FreshReport(s))
  <2>1. /\ \A t \in Scan \ {s} : pc'[t] = pc[t] /\ outbox'[t] = outbox[t]
        /\ Publishing(s)' => outbox'[s].report = NoReport \/ (Publishing(s) /\ outbox'[s] = outbox[s])
    BY <1>10, RaiseSources DEF SaveFails
  <2> QED
    BY SMTT(30), <1>10, <2>1, WriteSources DEF SaveFails
<1>11. CASE GatherDone(s)
  <2>1. ScanComplete(s, FreshReport(s)).report = FreshReport(s)
    BY DEF ScanComplete
  <2> QED
    BY <1>11, <2>1 DEF GatherDone, Publish, Closed
<1> QED
  BY <1>1, <1>2, <1>3, <1>4, <1>5, <1>6, <1>7, <1>8, <1>9, <1>10, <1>11 DEF QueueStep, JobStep, Fault

(* What a step leaves behind was valid before it.                           *)
ReportsKeep(s) ==
    /\ redis'[s] \in MaybeValid(s) /\ mongo'[s] \in MaybeValid(s)
    /\ Publishing(s)' => outbox'[s].report \in MaybeValid(s)
    /\ \A i \in DOMAIN stream'[s] : stream'[s][i].report \in MaybeValid(s)
AllReportsKeep ==
    /\ \A s \in Scan : ReportsKeep(s)
    /\ \A d \in Domain : cache'[d] \in ValidFor(d) \cup {NoReport}

LEMMA KeptStep ==
    ASSUME TypeInv, AnswerInv, AttemptsInv, [Next]_vars, AllReportsKeep
    PROVE  KeptInv'
<1>1. /\ \A s \in Scan : MaybeValid(s) \subseteq MaybeValid(s)'
      /\ \A d \in Domain : ValidFor(d) \subseteq ValidFor(d)'
  BY ValidStays
<1> QED
  BY <1>1 DEF KeptInv, AllReportsKeep, ReportsKeep, Publishing

(* The reports of a stream after one more event.                            *)
LEMMA AppendReports ==
    ASSUME TypeInv, NEW s \in Scan, pc[s] = "xadd", Append1(s), NEW i \in DOMAIN stream'[s]
    PROVE  \/ stream'[s][i] = outbox[s]
           \/ i \in DOMAIN stream[s] /\ stream'[s][i] = stream[s][i]
<1> DEFINE q == stream[s]
           e == outbox[s]
<1>1. q \in Seq(Event) /\ e \in Event /\ stream'[s] = Append(q, e)
  BY DEF TypeInv, TypeOK, OutboxSet, Append1
<1> HIDE DEF q, e
<1>2. Append(q, e) \in Seq(Event) /\ Len(Append(q, e)) = Len(q) + 1 /\ Len(q) \in Nat
  BY <1>1, AppendProperties, LenProperties
<1>3. DOMAIN Append(q, e) = 1..(Len(q) + 1) /\ DOMAIN q = 1..Len(q)
  BY <1>1, <1>2, LenProperties
<1>4. (\A k \in 1..Len(q) : Append(q, e)[k] = q[k]) /\ Append(q, e)[Len(q) + 1] = e
  BY <1>1, AppendProperties
<1>5. i \in 1..Len(q) \/ i = Len(q) + 1
  BY <1>1, <1>2, <1>3
<1> QED
  BY <1>1, <1>3, <1>4, <1>5 DEF q, e

LEMMA SourcesKeep ==
    ASSUME TypeInv, KeptInv, NEW s \in Scan, AttemptInv(s), Sources(s, FreshReport(s))
    PROVE  AllReportsKeep
<1>1. Closed(s) => FreshReport(s) \in MaybeValid(s) /\ FreshReport(s) \in ValidFor(DomainOf[s])
  BY FreshIsValid DEF MaybeValid
<1>2. saving[s] # {} => Closed(s)
  BY DEF Closed
<1>3. cache[DomainOf[s]] # NoReport =>
          NormalizeCachedReport(s, cache[DomainOf[s]]) \in MaybeValid(s)
  BY NormalizedIsValid, DomainAssumption DEF KeptInv, MaybeValid
<1>4. ASSUME NEW t \in Scan
      PROVE  ReportsKeep(t)
  <2>1. redis'[t] \in MaybeValid(t) /\ mongo'[t] \in MaybeValid(t)
    BY <1>1, <1>2 DEF Sources, KeptInv
  <2>2. Publishing(t)' => outbox'[t].report \in MaybeValid(t)
    BY <1>1, <1>3 DEF Sources, KeptInv, Publishing, MaybeValid
  <2>3. \A i \in DOMAIN stream'[t] : stream'[t][i].report \in MaybeValid(t)
    BY AppendReports DEF Sources, KeptInv
  <2> QED
    BY <2>1, <2>2, <2>3 DEF ReportsKeep
<1>5. \A d \in Domain : cache'[d] \in ValidFor(d) \cup {NoReport}
  BY <1>1, <1>2 DEF Sources, KeptInv
<1> QED
  BY <1>4, <1>5 DEF AllReportsKeep

LEMMA NextKept ==
    TypeInv /\ AnswerInv /\ AttemptsInv /\ KeptInv /\ [Next]_vars => KeptInv'
<1> SUFFICES ASSUME TypeInv, AnswerInv, AttemptsInv, KeptInv, [Next]_vars
             PROVE  KeptInv'
  OBVIOUS
<1> SUFFICES AllReportsKeep
  BY KeptStep
<1>1. ASSUME NEW s \in Scan, Enqueue(s) \/ QueueStep(s)
      PROVE  AllReportsKeep
  BY <1>1, QueueSources, SourcesKeep DEF AttemptsInv
<1>2. ASSUME NEW w \in Worker, Crash(w)
      PROVE  AllReportsKeep
  BY <1>2 DEF Crash, storeVars, streamVars, AllReportsKeep, ReportsKeep, KeptInv, Publishing
<1>3. CASE Expiry \/ UNCHANGED vars
  <2>1. pc' = pc /\ outbox' = outbox /\ stream' = stream
    BY <1>3 DEF Expiry, ExpireReport, ExpireCache, ExpireStream, streamVars, vars
  <2>2. /\ \A s \in Scan : redis'[s] \in MaybeValid(s) /\ mongo'[s] \in MaybeValid(s)
        /\ \A d \in Domain : cache'[d] \in ValidFor(d) \cup {NoReport}
    BY <1>3 DEF Expiry, ExpireReport, ExpireCache, ExpireStream, storeVars, vars,
         KeptInv, MaybeValid, TypeInv, TypeOK
  <2> QED
    BY <2>1, <2>2 DEF AllReportsKeep, ReportsKeep, KeptInv, Publishing
<1> QED
  BY <1>1, <1>2, <1>3 DEF Next

-----------------------------------------------------------------------------
ReportInv == TypeInv /\ AnswerInv /\ AttemptsInv /\ KeptInv

LEMMA InitReport == Init => ReportInv
<1> SUFFICES ASSUME Init
             PROVE  ReportInv
  OBVIOUS
<1>1. TypeInv /\ AnswerInv
  BY InitType DEF Init, AnswerInv, PublishedLast, ReturnedIsAnswered
<1>2. \A s \in Scan : DOMAIN stream[s] = {}
  BY DEF Init
<1>3. AttemptsInv
  BY <1>2 DEF Init, AttemptsInv, AttemptInv, Running, Active, Collecting, Closed
<1>4. KeptInv
  BY <1>2 DEF Init, KeptInv, MaybeValid
<1> QED
  BY <1>1, <1>3, <1>4 DEF ReportInv

LEMMA ReportInvariant == Spec => []ReportInv
<1>1. ReportInv /\ [Next]_vars => ReportInv'
  BY NextType, NextAnswer, NextAttempts, NextKept DEF ReportInv
<1> QED
  BY InitReport, <1>1, PTL DEF Spec

(* What is stored, cached or sent is valid where it is (KeptInv).            *)
LEMMA ReportsAreValid ==
    ASSUME ReportInv
    PROVE  /\ \A s \in Scan : \A r \in ReportsOf(s) : r \in Valid(s)
           /\ \A d \in Domain : cache[d] # NoReport => cache[d] \in ValidFor(d)
BY DEF ReportsOf, ReportsSent, ReportInv, KeptInv, MaybeValid

(* Whatever fails, dies or is retried: every report that is stored, cached   *)
(* or sent is the exact result of one attempt that ran all the checks.       *)
THEOREM ReportsAreRuns == Spec => []ReportsAreWholeRuns
<1>1. ReportInv => ReportsAreWholeRuns
  BY ReportsAreValid DEF ReportsAreWholeRuns, Cached, Valid, ValidFor
<1> QED
  BY <1>1, ReportInvariant, PTL

(* However many scans share a host or a cache: a report is that of its host. *)
THEOREM HostsAreNotMixed == Spec => []ReportsStayOnTheirHost
<1>1. ReportInv => ReportsStayOnTheirHost
  BY ReportsAreValid DEF ReportsStayOnTheirHost, Valid, ValidFor
<1> QED
  BY <1>1, ReportInvariant, PTL

(* A report found under a scan id carries that id, wherever it was measured. *)
THEOREM ReportsCarryTheirId == Spec => []ReportsKeepTheirScan
<1>1. ReportInv => ReportsKeepTheirScan
  BY ReportsAreValid DEF ReportsKeepTheirScan, Valid
<1> QED
  BY <1>1, ReportInvariant, PTL

=============================================================================
