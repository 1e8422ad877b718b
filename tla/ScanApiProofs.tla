---------------------------- MODULE ScanApiProofs ----------------------------
(***************************************************************************)
(* Theorems about ScanApi, for every set of scans and requests, every way   *)
(* of running each scan and every bound: a report that was announced is     *)
(* served, and what run_scan returns is saved first.                        *)
(*                                                                         *)
(* Whatever process runs a scan, a step does one of seven things to it (see *)
(* Move); the invariant of a scan is shown to be kept by each of them, and  *)
(* each action to be one of them for each scan.                             *)
(***************************************************************************)
EXTENDS ScanApi, ScanJobsProofs

-----------------------------------------------------------------------------
(* Types.                                                                    *)

ApiTypeInv == ApiTypeOK /\ OutboxSet

GuestsTyped ==
    /\ way' \in [Scan -> Way \cup {"none"}]
    /\ held' \in [Scan -> MaybeReport]
    /\ built' \in [Scan -> ScanReport \cup {NoReport}]

ReadersTyped ==
    /\ at' \in [Request -> RequestPlace]
    /\ asked' \in [Request -> Scan \cup {NoScan}]
    /\ found' \in [Request -> MaybeReport]
    /\ \A g \in Request : at'[g] \in {"back", "200"} => found'[g] # NoReport
    /\ told' \in [Request -> BOOLEAN]

LEMMA AnyWriteType ==
    ASSUME TypeOK, NEW s \in Scan, NEW st \in Store, NEW r \in MaybeReport,
           Write(s, st, r) \/ UNCHANGED storeVars
    PROVE  StoresTyped
<1>1. CASE Write(s, st, r)
  BY <1>1 DEF Write, StoresTyped, TypeOK
<1>2. CASE UNCHANGED storeVars
  BY <1>2 DEF storeVars, StoresTyped, TypeOK
<1> QED
  BY <1>1, <1>2

LEMMA NormalizedType ==
    ASSUME TypeOK, NEW s \in Scan, cache[DomainOf[s]] # NoReport
    PROVE  /\ NormalizeCachedReport(s, cache[DomainOf[s]]) \in Report
           /\ NormalizeCachedReport(s, cache[DomainOf[s]]).scan_id = s
BY DomainAssumption DEF NormalizeCachedReport, TypeOK, MaybeReport, Report

LEMMA HoldType ==
    ASSUME ApiTypeOK, NEW s \in Scan, NEW r \in Report, NEW listed \in SUBSET Check,
           Hold(s, r, listed), way' = way
    PROVE  GuestsTyped
<1>1. [scan_id |-> s, score |-> Measure(r), checks |-> listed] \in ScanReport
  BY DEF Measure, ScanReport, Report
<1>2. held' = [held EXCEPT ![s] = r] /\ r \in MaybeReport
  BY DEF Hold, MaybeReport
<1>3. built' \in [Scan -> ScanReport \cup {NoReport}]
  BY <1>1 DEF Hold, ApiTypeOK
<1> QED
  BY <1>2, <1>3 DEF GuestsTyped, ApiTypeOK

LEMMA StartHereType ==
    ASSUME ApiTypeInv, NEW s \in Scan, NEW w \in {"stream", "call"}, StartHere(s, w)
    PROVE  TypeInv'
<1>1. tries' \in [Scan -> 0..MaxTries]
  BY BoundsAssumption DEF StartHere, ApiTypeInv, ApiTypeOK, TypeOK
<1> QED
  BY <1>1 DEF StartHere, ApiTypeInv, ApiTypeOK, TypeInv, TypeOK, OutboxSet, Place, Active,
     storeVars, streamVars, bounds

LEMMA SendType ==
    ASSUME ApiTypeInv, NEW s \in Scan, Send(s)
    PROVE  TypeInv'
<1>1. stream' \in [Scan -> Seq(Event)] /\ trimmed' = trimmed /\ expiring' = expiring
  BY AppendType DEF Send, ApiTypeInv, ApiTypeOK, OutboxSet, Append1
<1>2. UNCHANGED <<queueVars, outcome, saving, storeVars, bounds>>
  BY DEF Send
<1>3. CASE pc' = [pc EXCEPT ![s] = "collect"] /\ UNCHANGED <<result, outbox>>
  BY <1>1, <1>2, <1>3 DEF ApiTypeInv, ApiTypeOK, TypeInv, TypeOK, OutboxSet, Place, Active,
     queueVars, storeVars, bounds
<1>4. CASE End(s, "ok")
  BY <1>1, <1>2, <1>4 DEF End, ApiTypeInv, ApiTypeOK, TypeInv, TypeOK, OutboxSet, Place, Active,
     queueVars, storeVars, bounds
<1> QED
  BY <1>3, <1>4 DEF Send

LEMMA DisconnectType ==
    ASSUME ApiTypeInv, NEW s \in Scan, Disconnect(s)
    PROVE  TypeInv'
BY DEF Disconnect, End, ApiTypeInv, ApiTypeOK, TypeInv, TypeOK, OutboxSet, Place, Active,
   queueVars, storeVars, streamVars, bounds

LEMMA CallHitType ==
    ASSUME ApiTypeInv, NEW s \in Scan, CallHit(s)
    PROVE  TypeInv' /\ GuestsTyped
<1>1. NormalizeCachedReport(s, cache[DomainOf[s]]) \in Report
  BY NormalizedType DEF CallHit, ApiTypeInv, ApiTypeOK
<1>2. GuestsTyped
  BY <1>1, HoldType DEF CallHit, SaveHeld, ApiTypeInv
<1> QED
  BY <1>2 DEF CallHit, SaveHeld, ApiTypeInv, ApiTypeOK, TypeInv, TypeOK, OutboxSet,
     Place, Active, queueVars, storeVars, streamVars, bounds

LEMMA CallChecksType ==
    ASSUME ApiTypeInv, NEW s \in Scan, NEW good \in SUBSET Check, CallChecks(s, good)
    PROVE  TypeInv' /\ GuestsTyped
<1>1. [scan_id |-> s, origin |-> s, checks |-> good] \in Report
  BY DEF Report
<1>2. GuestsTyped
  BY <1>1, HoldType DEF CallChecks, SaveHeld, ApiTypeInv
<1> QED
  BY <1>2 DEF CallChecks, SaveHeld, ApiTypeInv, ApiTypeOK, TypeInv, TypeOK,
     OutboxSet, Place, Active, queueVars, storeVars, streamVars, bounds

LEMMA CallSavesType ==
    ASSUME ApiTypeInv, NEW s \in Scan, NEW st \in Store, CallSaves(s, st)
    PROVE  TypeInv'
<1>1. StoresTyped
  BY AnyWriteType DEF CallSaves, ApiTypeInv, ApiTypeOK
<1> QED
  BY <1>1 DEF CallSaves, StoresTyped, ApiTypeInv, ApiTypeOK, TypeInv, TypeOK, OutboxSet, Place,
     Active, queueVars, streamVars, bounds

LEMMA CallReturnsType ==
    ASSUME ApiTypeInv, NEW s \in Scan, CallReturns(s)
    PROVE  TypeInv'
BY DEF CallReturns, End, ApiTypeInv, ApiTypeOK, TypeInv, TypeOK, OutboxSet, Place, Active,
   queueVars, storeVars, streamVars, bounds

LEMMA RaiseOutType ==
    ASSUME ApiTypeInv, NEW s \in Scan, RaiseOut(s)
    PROVE  Raised(s)
<1> USE DEF ApiTypeInv, ApiTypeOK, TypeOK, OutboxSet, Raised
<1>1. faults' \in [Scan -> 0..MaxFaults]
  BY CallFailsType DEF RaiseOut
<1>2. CASE End(s, "raised")
  BY <1>1, <1>2 DEF End, Place, Active
<1>3. CASE UNCHANGED <<pc, result, outbox>>
  BY <1>1, <1>3
<1> QED
  BY <1>2, <1>3 DEF RaiseOut

LEMMA FaultHereType ==
    ASSUME ApiTypeInv, NEW s \in Scan, FaultHere(s)
    PROVE  TypeInv'
<1>1. CASE LookupRaises(s)
  <2>1. Raised(s)
    BY <1>1, RaiseOutType DEF LookupRaises
  <2> QED
    BY <1>1, <2>1 DEF LookupRaises, Raised, ApiTypeInv, ApiTypeOK, TypeInv, TypeOK,
       OutboxSet, Place, Active, queueVars, storeVars, streamVars
<1>2. ASSUME NEW st \in Store, SaveRaises(s, st)
      PROVE  TypeInv'
  <2>1. (IF way[s] = "call" THEN held[s] ELSE FreshReport(s)) \in MaybeReport
    BY FreshReportType DEF ApiTypeInv, ApiTypeOK, MaybeReport
  <2>2. StoresTyped
    BY <1>2, <2>1, AnyWriteType DEF SaveRaises, ApiTypeInv, ApiTypeOK
  <2>3. Raised(s)
    BY <1>2, RaiseOutType DEF SaveRaises
  <2> QED
    BY <1>2, <2>2, <2>3 DEF SaveRaises, Raised, StoresTyped, ApiTypeInv, ApiTypeOK,
       TypeInv, TypeOK, OutboxSet, Place, Active, queueVars, streamVars
<1> QED
  BY <1>1, <1>2 DEF FaultHere

LEMMA SaveBackType ==
    ASSUME ApiTypeInv, NEW g \in Request, asked[g] \in Scan, SaveBack(g)
    PROVE  redis' \in [Scan -> MaybeReport]
BY DEF SaveBack, ApiTypeInv, ApiTypeOK, TypeOK

LEMMA CrashApiType ==
    ASSUME ApiTypeInv, CrashApi
    PROVE  TypeInv'
<1>1. crashes' \in 0..MaxCrashes
  BY BoundsAssumption DEF CrashApi, ApiTypeInv, ApiTypeOK, TypeOK
<1> QED
  BY <1>1 DEF CrashApi, ApiTypeInv, ApiTypeOK, TypeInv, TypeOK, OutboxSet, Place, Active,
     queueVars, storeVars, streamVars

-----------------------------------------------------------------------------
(* The steps of the system, by what takes them.                              *)

QueueMoves(s) ==
    /\ QueueStep(s) /\ (way[s] # "call" \/ CacheMiss(s))
    /\ UNCHANGED <<wayVars, getVars>>
HereMoves(s) ==
    /\ Send(s) \/ Disconnect(s) \/ FaultHere(s)
    /\ way[s] = "call" => FaultHere(s)
    /\ UNCHANGED <<wayVars, getVars>>
CallMoves(s) ==
    /\ way[s] = "call"
    /\ \/ CallHit(s) \/ CallReturns(s)
       \/ \E good \in SUBSET Check : CallChecks(s, good)
       \/ \E st \in Store : CallSaves(s, st)
    /\ UNCHANGED getVars
Elsewhere ==
    /\ (\E w \in Worker : Crash(w)) \/ Expiry
    /\ UNCHANGED <<wayVars, getVars>>

LEMMA ApiSteps ==
    ASSUME [ApiNext]_apiVars
    PROVE  \/ \E s \in Scan : PostScan(s)
           \/ \E s \in Scan, w \in {"stream", "call"} : StartHere(s, w)
           \/ \E s \in Scan : QueueMoves(s) \/ HereMoves(s) \/ CallMoves(s)
           \/ Elsewhere
           \/ \E g \in Request : GetStep(g)
           \/ CrashApi
           \/ UNCHANGED apiVars
<1>1. ASSUME NEW s \in Scan, ScanStep(s), UNCHANGED getVars
      PROVE  QueueMoves(s) \/ HereMoves(s) \/ CallMoves(s)
  <2>1. CASE way[s] = "queue" /\ QueueStep(s) /\ UNCHANGED wayVars
    BY <1>1, <2>1 DEF QueueMoves
  <2>2. CASE way[s] = "stream" /\ StreamStep(s) /\ UNCHANGED wayVars
    <3>1. QueueStep(s) \/ Send(s) \/ Disconnect(s)
      BY <2>2 DEF StreamStep, QueueStep, JobStep
    <3> QED
      BY <1>1, <2>2, <3>1 DEF QueueMoves, HereMoves
  <2>3. CASE way[s] = "call" /\ CallStep(s)
    <3>1. CASE CacheMiss(s) /\ UNCHANGED wayVars
      BY <1>1, <3>1 DEF QueueMoves, QueueStep, JobStep
    <3> QED
      BY <1>1, <2>3, <3>1 DEF CallStep, CallMoves
  <2>4. CASE way[s] \in {"stream", "call"} /\ FaultHere(s) /\ UNCHANGED wayVars
    BY <1>1, <2>4 DEF HereMoves
  <2> QED
    BY <1>1, <2>1, <2>2, <2>3, <2>4 DEF ScanStep
<1> QED
  BY <1>1 DEF ApiNext, ApiStep, PostScanStream, CallRunScan, Elsewhere

(* A request asks for a scan from its first step on.                         *)
AskedInv == \A g \in Request : at[g] \in {"mongo", "back"} => asked[g] \in Scan

LEMMA GetStepTypes ==
    ASSUME ApiTypeInv, AskedInv, NEW g \in Request, GetStep(g)
    PROVE  TypeInv' /\ ReadersTyped /\ AskedInv' /\ UNCHANGED wayVars
<1> USE DEF ApiTypeInv, ApiTypeOK, ReadersTyped, AskedInv, RequestPlace, Reply
<1>1. ASSUME UNCHANGED vars
      PROVE  TypeInv'
  BY <1>1, NextType DEF TypeInv
<1>2. ASSUME NEW s \in Scan, GetRedis(g, s)
      PROVE  TypeInv' /\ ReadersTyped /\ AskedInv' /\ UNCHANGED wayVars
  <2>1. redis[s] \in MaybeReport /\ Announced(s) \in BOOLEAN
    BY DEF TypeOK, Announced
  <2> QED
    BY <1>1, <1>2, <2>1 DEF GetRedis
<1>3. CASE GetMongo(g)
  <2>1. mongo[asked[g]] \in MaybeReport
    BY <1>3 DEF GetMongo, TypeOK
  <2> QED
    BY <1>1, <1>3, <2>1 DEF GetMongo
<1>4. CASE WriteBack(g)
  <2>1. redis' \in [Scan -> MaybeReport]
    BY <1>4, SaveBackType DEF WriteBack
  <2>2. TypeInv'
    BY <1>4, <2>1 DEF WriteBack, SaveBack, TypeInv, TypeOK, OutboxSet, Place, Active, queueVars,
       streamVars, bounds
  <2> QED
    BY <1>4, <2>2 DEF WriteBack
<1>5. ASSUME NEW s \in Scan, GetFails(g, s)
      PROVE  TypeInv' /\ ReadersTyped /\ AskedInv' /\ UNCHANGED wayVars
  <2>2. redis' \in [Scan -> MaybeReport]
    BY <1>5, SaveBackType DEF GetFails, storeVars, TypeOK
  <2>3. UNCHANGED <<queueVars, pc, outcome, outbox, saving, result, mongo, cache, streamVars, bounds>>
    BY <1>5 DEF GetFails, SaveBack, storeVars
  <2>4. TypeInv'
    BY <2>2, <2>3 DEF TypeInv, TypeOK, OutboxSet, Place, Active, queueVars, streamVars, bounds
  <2> QED
    BY <1>5, <2>4 DEF GetFails
<1> QED
  BY <1>2, <1>3, <1>4, <1>5 DEF GetStep

TypesInv == ApiTypeInv /\ AskedInv

LEMMA InitTypes == ApiInit => TypesInv
BY InitType DEF ApiInit, TypesInv, ApiTypeInv, ApiTypeOK, AskedInv, TypeInv, MaybeReport,
   RequestPlace, Way

LEMMA NextTypes == TypesInv /\ [ApiNext]_apiVars => TypesInv'
<1> SUFFICES ASSUME TypesInv, [ApiNext]_apiVars
             PROVE  TypesInv'
  OBVIOUS
<1> USE DEF TypesInv
<1>1. ASSUME TypeInv', GuestsTyped, UNCHANGED getVars
      PROVE  TypesInv'
  BY <1>1 DEF GuestsTyped, ApiTypeInv, ApiTypeOK, AskedInv, TypeInv, getVars
<1>2. ASSUME TypeInv', UNCHANGED wayVars, ReadersTyped, AskedInv'
      PROVE  TypesInv'
  BY <1>2 DEF ReadersTyped, ApiTypeInv, ApiTypeOK, TypeInv, wayVars
<1>3. ASSUME UNCHANGED wayVars
      PROVE  GuestsTyped
  BY <1>3 DEF GuestsTyped, ApiTypeInv, ApiTypeOK, wayVars
<1>4. ASSUME [Next]_vars
      PROVE  TypeInv'
  BY <1>4, NextType DEF ApiTypeInv, ApiTypeOK, TypeInv
<1>5. ASSUME NEW s \in Scan, PostScan(s)
      PROVE  TypesInv'
  <2>1. GuestsTyped /\ UNCHANGED getVars
    BY <1>5, WaysAssumption DEF PostScan, Start, GuestsTyped, ApiTypeInv, ApiTypeOK, Way
  <2> QED
    BY <1>1, <1>4, <1>5, <2>1 DEF PostScan, Next
<1>6. ASSUME NEW s \in Scan, NEW w \in {"stream", "call"}, StartHere(s, w)
      PROVE  TypesInv'
  <2>1. GuestsTyped /\ UNCHANGED getVars
    BY <1>6, WaysAssumption DEF StartHere, Start, GuestsTyped, ApiTypeInv, ApiTypeOK, Way
  <2> QED
    BY <1>1, <1>6, <2>1, StartHereType
<1>7. ASSUME NEW s \in Scan, QueueMoves(s)
      PROVE  TypesInv'
  BY <1>1, <1>3, <1>4, <1>7 DEF QueueMoves, Next
<1>8. ASSUME NEW s \in Scan, HereMoves(s)
      PROVE  TypesInv'
  BY <1>1, <1>3, <1>8, SendType, DisconnectType, FaultHereType DEF HereMoves
<1>9. ASSUME NEW s \in Scan, CallMoves(s)
      PROVE  TypesInv'
  <2>1. TypeInv' /\ GuestsTyped
    <3>1. CASE CallHit(s)
      BY <3>1, CallHitType
    <3>2. CASE CallReturns(s)
      BY <1>3, <3>2, CallReturnsType DEF CallReturns
    <3>3. ASSUME NEW good \in SUBSET Check, CallChecks(s, good)
          PROVE  TypeInv' /\ GuestsTyped
      BY <3>3, CallChecksType
    <3>4. ASSUME NEW st \in Store, CallSaves(s, st)
          PROVE  TypeInv' /\ GuestsTyped
      BY <1>3, <3>4, CallSavesType DEF CallSaves
    <3> QED
      BY <1>9, <3>1, <3>2, <3>3, <3>4 DEF CallMoves
  <2> QED
    BY <1>1, <1>9, <2>1 DEF CallMoves
<1>10. CASE Elsewhere
  BY <1>1, <1>3, <1>4, <1>10 DEF Elsewhere, Next
<1>11. ASSUME NEW g \in Request, GetStep(g)
       PROVE  TypesInv'
  BY <1>2, <1>11, GetStepTypes
<1>12. CASE CrashApi
  <2>1. TypeInv' /\ UNCHANGED wayVars
    BY <1>12, CrashApiType DEF CrashApi
  <2>2. ReadersTyped /\ AskedInv'
    BY <1>12 DEF CrashApi, ReadersTyped, ApiTypeInv, ApiTypeOK, AskedInv, RequestPlace
  <2> QED
    BY <1>2, <2>1, <2>2
<1>13. CASE UNCHANGED apiVars
  BY <1>1, <1>3, <1>4, <1>13 DEF apiVars
<1> QED
  BY <1>5, <1>6, <1>7, <1>8, <1>9, <1>10, <1>11, <1>12, <1>13, ApiSteps

(* Every reachable state of the jobs, the calls, the stores and the requests *)
(* is well formed.                                                           *)
THEOREM ApiTyped == ApiSpec => []ApiTypeOK
<1>1. TypesInv => ApiTypeOK
  BY DEF TypesInv, ApiTypeInv
<1> QED
  BY <1>1, InitTypes, NextTypes, PTL DEF ApiSpec

-----------------------------------------------------------------------------
(***************************************************************************)
(* Announced reports.  A scan_complete of an attempt that measured follows   *)
(* its save; its events are told apart from those of other attempts by run. *)
(***************************************************************************)

Tells(s, n) == \E i \in DOMAIN stream[s] : stream[s][i].run = n /\ stream[s][i].event \in CheckEvents
Completes(s, n) == \E i \in DOMAIN stream[s] : stream[s][i].run = n /\ stream[s][i].event = "scan_complete"
Stored(s) == mongo[s] # NoReport
HasToTell(s) == pc[s] \in {"xadd", "expire"} /\ outbox[s].event \in CheckEvents

RunInv(s) ==
    /\ pc[s] = "absent" => tries[s] = 0 /\ saving[s] = {} /\ result[s] = "none"
    /\ \A i \in DOMAIN stream[s] : stream[s][i].run <= tries[s]
    /\ pc[s] = "lookup" => \A i \in DOMAIN stream[s] : stream[s][i].run < tries[s]
    /\ pc[s] \in {"xadd", "expire"} => outbox[s].run = tries[s]
    /\ pc[s] \in {"lookup", "collect", "save"} \/ HasToTell(s) => ~Completes(s, tries[s])
    /\ pc[s] = "save" => "mongo" \in saving[s] \/ Stored(s)
    /\ pc[s] = "xadd" /\ outbox[s].event = "scan_complete" /\ Tells(s, tries[s]) => Stored(s)
    /\ \A n \in Nat : Completes(s, n) /\ Tells(s, n) => Stored(s)

(* What is written to MongoDB is a report.                                   *)
Keeps(s) == mongo'[s] = mongo[s] \/ Stored(s)'
Silent(s) == stream'[s] = stream[s] /\ Keeps(s)
Goes(s, place) == pc'[s] = place /\ tries'[s] = tries[s]

Begins(s) ==
    /\ Silent(s) /\ pc'[s] = "lookup" /\ tries'[s] = tries[s] + 1
Stays(s) ==
    /\ Silent(s) /\ Goes(s, pc[s])
    /\ outbox'[s] = outbox[s] /\ result'[s] = result[s] /\ saving'[s] \subseteq saving[s]
    /\ pc[s] = "save" /\ "mongo" \in saving[s] => "mongo" \in saving'[s] \/ Stored(s)'
Collects(s) ==
    /\ Silent(s) /\ Goes(s, "collect")
    /\ pc[s] = "lookup" \/ (pc[s] = "expire" /\ HasToTell(s))
StartsSaving(s) ==
    /\ Silent(s) /\ Goes(s, "save")
    /\ pc[s] \in {"lookup", "collect"} /\ "mongo" \in saving'[s]
Publishes(s) ==
    /\ Silent(s) /\ Goes(s, "xadd") /\ outbox'[s].run = tries[s]
    /\ \/ outbox'[s].event = "scan_error"
       \/ outbox'[s].event \in CheckEvents /\ pc[s] = "collect"
       \/ /\ outbox'[s].event = "scan_complete"
          /\ pc[s] = "lookup" \/ (pc[s] = "save" /\ "mongo" \notin saving[s])
Adds(s) ==
    /\ pc[s] = "xadd" /\ Append1(s) /\ mongo'[s] = mongo[s] /\ tries'[s] = tries[s]
    /\ \/ pc'[s] = "expire" /\ outbox'[s] = outbox[s]
       \/ pc'[s] = "xadd" /\ outbox'[s] = ScanError(s)
       \/ pc'[s] = "collect" /\ outbox[s].event \in CheckEvents
       \/ pc'[s] \in {"return", "done"}
Ends(s) ==
    /\ Silent(s) /\ tries'[s] = tries[s] /\ pc'[s] \in {"queued", "return", "done"}

Move(s) ==
    \/ Begins(s) \/ Stays(s) \/ Collects(s) \/ StartsSaving(s) \/ Publishes(s)
    \/ Adds(s) \/ Ends(s)

LEMMA AppendOne ==
    ASSUME TypeInv, NEW s \in Scan, pc[s] = "xadd", Append1(s)
    PROVE  \E k \in Nat :
                 /\ DOMAIN stream'[s] = DOMAIN stream[s] \cup {k}
                 /\ \A i \in DOMAIN stream[s] : i # k /\ stream'[s][i] = stream[s][i]
                 /\ stream'[s][k] = outbox[s]
<1> DEFINE q == stream[s]
           e == outbox[s]
           k == Len(q) + 1
<1>1. q \in Seq(Event) /\ e \in Event /\ stream'[s] = Append(q, e)
  BY DEF TypeInv, TypeOK, OutboxSet, Append1
<1> HIDE DEF q, e
<1>2. Append(q, e) \in Seq(Event) /\ Len(Append(q, e)) = k /\ Len(q) \in Nat
  BY <1>1, AppendProperties, LenProperties
<1>3. DOMAIN Append(q, e) = 1..k /\ DOMAIN q = 1..Len(q)
  BY <1>1, <1>2, LenProperties
<1>4. (\A i \in 1..Len(q) : Append(q, e)[i] = q[i]) /\ Append(q, e)[k] = e
  BY <1>1, AppendProperties
<1>5. k \in Nat /\ 1..k = 1..Len(q) \cup {k} /\ \A i \in 1..Len(q) : i # k
  BY <1>2
<1> QED
  BY <1>1, <1>3, <1>4, <1>5 DEF q, e

LEMMA StreamTyped ==
    ASSUME TypeInv, NEW s \in Scan
    PROVE  /\ tries[s] \in Nat
           /\ \A i \in DOMAIN stream[s] : stream[s][i].run \in Nat
<1>1. stream[s] \in Seq(Event) /\ tries[s] \in Nat
  BY BoundsAssumption DEF TypeInv, TypeOK
<1>2. \A i \in DOMAIN stream[s] : stream[s][i] \in Event
  <2>1. DOMAIN stream[s] = 1..Len(stream[s])
    BY <1>1, LenProperties
  <2> QED
    BY <1>1, <2>1, ElementOfSeq
<1> QED
  BY <1>1, <1>2 DEF Event

(* The invariant of a scan survives whatever a step does to it.              *)
LEMMA MoveKeeps ==
    ASSUME TypeInv, NEW s \in Scan, RunInv(s), Move(s)
    PROVE  RunInv(s)' /\ (Stored(s) => Stored(s)')
<1>1. /\ tries[s] \in Nat
      /\ \A i \in DOMAIN stream[s] : stream[s][i].run \in Nat
  BY StreamTyped
<1>2. CASE Begins(s)
  <2>1. ~Completes(s, tries[s] + 1) /\ ~Tells(s, tries[s] + 1)
    BY <1>1 DEF RunInv, Completes, Tells
  <2> QED
    BY <1>1, <1>2, <2>1 DEF Begins, Silent, Keeps, Stored, RunInv, Completes, Tells, HasToTell
<1>3. CASE Stays(s)
  BY <1>3 DEF Stays, Goes, Silent, Keeps, Stored, RunInv, Completes, Tells, HasToTell
<1>4. CASE Collects(s)
  BY <1>1, <1>4 DEF Collects, Goes, Silent, Keeps, Stored, RunInv, Completes, Tells, HasToTell
<1>5. CASE StartsSaving(s)
  BY <1>1, <1>5 DEF StartsSaving, Goes, Silent, Keeps, Stored, RunInv, Completes, Tells, HasToTell
<1>6. CASE Publishes(s)
  <2>1. pc[s] = "lookup" => ~Tells(s, tries[s])
    BY <1>1 DEF RunInv, Tells
  <2> QED
    BY <1>1, <1>6, <2>1 DEF Publishes, Goes, Silent, Keeps, Stored, RunInv, Completes, Tells,
       HasToTell, CheckEvents
<1>7. CASE Ends(s)
  BY <1>7 DEF Ends, Silent, Keeps, Stored, RunInv, Completes, Tells, HasToTell
<1>8. CASE Adds(s)
  <2>0. pc[s] = "xadd" /\ Append1(s)
    BY <1>8 DEF Adds
  <2>1. PICK k \in Nat :
                 /\ DOMAIN stream'[s] = DOMAIN stream[s] \cup {k}
                 /\ \A i \in DOMAIN stream[s] : i # k /\ stream'[s][i] = stream[s][i]
                 /\ stream'[s][k] = outbox[s]
    BY <2>0, AppendOne
  <2>2. outbox[s].run = tries[s]
    BY <1>8 DEF Adds, RunInv
  <2>3. \A n : /\ Tells(s, n)' <=> Tells(s, n) \/ (n = tries[s] /\ outbox[s].event \in CheckEvents)
               /\ Completes(s, n)' <=>
                     Completes(s, n) \/ (n = tries[s] /\ outbox[s].event = "scan_complete")
    BY <2>1, <2>2 DEF Tells, Completes
  <2>4. \A i \in DOMAIN stream'[s] : stream'[s][i].run <= tries[s]
    BY <1>1, <2>1, <2>2 DEF RunInv
  <2>5. \A n \in Nat : (Completes(s, n) /\ Tells(s, n))' => Stored(s)
    <3> SUFFICES ASSUME NEW n \in Nat, Completes(s, n)', Tells(s, n)'
                 PROVE  Stored(s)
      OBVIOUS
    <3>1. CASE outbox[s].event \in CheckEvents /\ n = tries[s]
      <4>1. ~Completes(s, n) /\ outbox[s].event # "scan_complete"
        BY <1>8, <3>1 DEF Adds, RunInv, HasToTell, CheckEvents
      <4> QED
        BY <2>3, <4>1
    <3>2. CASE outbox[s].event = "scan_complete" /\ n = tries[s]
      <4>1. Tells(s, n)
        BY <2>3, <3>2 DEF CheckEvents
      <4> QED
        BY <1>8, <3>2, <4>1 DEF Adds, RunInv
    <3>3. CASE n # tries[s] \/ (outbox[s].event \notin CheckEvents /\ outbox[s].event # "scan_complete")
      BY <2>3, <3>3 DEF RunInv
    <3> QED
      BY <3>1, <3>2, <3>3
  <2>6. /\ Stored(s)' <=> Stored(s)
        /\ tries'[s] = tries[s]
    BY <1>8 DEF Adds, Stored
  <2>7. HasToTell(s)' \/ pc'[s] = "collect" => outbox[s].event \in CheckEvents
    BY <1>8 DEF Adds, HasToTell, ScanError, CheckEvents
  <2>8. outbox[s].event \in CheckEvents => ~Completes(s, tries[s])'
    BY <1>8, <2>3 DEF Adds, RunInv, HasToTell, CheckEvents
  <2>9. /\ pc'[s] \in {"expire", "xadd", "collect", "return", "done"}
        /\ pc'[s] \in {"xadd", "expire"} => outbox'[s].run = tries[s]
        /\ pc'[s] = "xadd" => outbox'[s].event # "scan_complete"
    BY <1>8, <2>2 DEF Adds, ScanError
  <2> QED
    BY <2>4, <2>5, <2>6, <2>7, <2>8, <2>9 DEF RunInv
<1> QED
  BY <1>2, <1>3, <1>4, <1>5, <1>6, <1>7, <1>8 DEF Move

(* A step of one scan leaves the others where they are.                      *)
Others(s) == \A t \in Scan \ {s} : Stays(t)

LEMMA OneMoves ==
    ASSUME NEW s \in Scan, Others(s), Move(s)
    PROVE  \A t \in Scan : Move(t)
BY DEF Others, Move

LEMMA RaiseMoves ==
    ASSUME TypeInv, NEW s \in Scan, Raise(s), Silent(s), tries' = tries
    PROVE  /\ Publishes(s) \/ Ends(s)
           /\ \A t \in Scan \ {s} : pc'[t] = pc[t] /\ outbox'[t] = outbox[t] /\ result'[t] = result[t]
BY DEF Raise, Publish, Return, ScanError, Publishes, Ends, Goes, TypeInv, TypeOK

LEMMA WriteStores ==
    ASSUME TypeInv, NEW s \in Scan, NEW st \in Store, NEW r \in Report,
           Write(s, st, r)
    PROVE  /\ \A t \in Scan \ {s} : mongo'[t] = mongo[t]
           /\ Keeps(s)
           /\ st = "mongo" => Stored(s)'
BY NullsAssumption DEF Write, Keeps, Stored, TypeInv, TypeOK

LEMMA NextMoves ==
    ASSUME TypeInv, [Next]_vars
    PROVE  \A t \in Scan : Move(t)
<1> USE DEF TypeInv, TypeOK, Silent, Keeps, Goes, Others, Stays,
            queueVars, storeVars, streamVars, bounds
<1>1. ASSUME NEW s \in Scan, Enqueue(s)
      PROVE  \A t \in Scan : Move(t)
  BY <1>1, OneMoves DEF Enqueue, Move, Ends
<1>2. ASSUME NEW s \in Scan, NEW w \in Worker, StartJob(w, s)
      PROVE  \A t \in Scan : Move(t)
  BY <1>2, OneMoves DEF StartJob, Move, Begins
<1>3. ASSUME NEW s \in Scan, Exhausted(s)
      PROVE  \A t \in Scan : Move(t)
  BY <1>3, OneMoves DEF Exhausted, Move, Ends
<1>4. ASSUME NEW s \in Scan, FinishJob(s)
      PROVE  \A t \in Scan : Move(t)
  BY <1>4, OneMoves DEF FinishJob, Move, Ends
<1>5. ASSUME NEW s \in Scan, JobTimeout(s)
      PROVE  \A t \in Scan : Move(t)
  BY <1>5, OneMoves DEF JobTimeout, Return, Move, Ends
<1>6. ASSUME NEW w \in Worker, Crash(w), NEW t \in Scan
      PROVE  Move(t)
  BY <1>6 DEF Crash, Move, Ends
<1>7. ASSUME NEW s \in Scan, Xadd(s)
      PROVE  \A t \in Scan : Move(t)
  <2>1. Others(s)
    BY <1>7 DEF Xadd, Append1
  <2>2. Adds(s)
    BY <1>7 DEF Xadd, Adds
  <2> QED
    BY <2>1, <2>2, OneMoves DEF Move
<1>8. ASSUME NEW s \in Scan, XaddFails(s)
      PROVE  \A t \in Scan : Move(t)
  <2>1. pc[s] = "xadd" /\ Raise(s) /\ tries' = tries /\ mongo' = mongo /\ saving' = saving
    BY <1>8 DEF XaddFails
  <2>2. /\ \A t \in Scan \ {s} : pc'[t] = pc[t] /\ outbox'[t] = outbox[t] /\ result'[t] = result[t]
        /\ \/ pc'[s] = "xadd" /\ outbox'[s] = ScanError(s)
           \/ pc'[s] = "return"
    BY <2>1 DEF Raise, Publish, Return
  <2>3. Others(s)
    BY <1>8, <2>1, <2>2 DEF XaddFails, Append1
  <2>4. CASE Append1(s)
    <3>1. Adds(s)
      BY <2>1, <2>2, <2>4 DEF Adds
    <3> QED
      BY <2>3, <3>1, OneMoves DEF Move
  <2>5. CASE UNCHANGED streamVars
    <3>1. Publishes(s) \/ Ends(s)
      BY <2>1, <2>5, RaiseMoves
    <3> QED
      BY <2>3, <3>1, OneMoves DEF Move
  <2> QED
    BY <1>8, <2>4, <2>5 DEF XaddFails
<1>9. ASSUME NEW s \in Scan, Expire(s)
      PROVE  \A t \in Scan : Move(t)
  <2>1. Others(s)
    BY <1>9 DEF Expire, AfterPublish, Return
  <2>2. Collects(s) \/ Ends(s)
    BY <1>9 DEF Expire, AfterPublish, Return, Collects, Ends, HasToTell
  <2> QED
    BY <2>1, <2>2, OneMoves DEF Move
<1>10. ASSUME NEW s \in Scan, ExpireFails(s)
      PROVE  \A t \in Scan : Move(t)
  <2>1. Raise(s) /\ Silent(s) /\ tries' = tries
    BY <1>10 DEF ExpireFails
  <2>2. Publishes(s) \/ Ends(s)
    BY <2>1, RaiseMoves
  <2>3. Others(s)
    BY <1>10, <2>1, RaiseMoves DEF ExpireFails
  <2> QED
    BY <2>2, <2>3, OneMoves DEF Move
<1>11. ASSUME NEW s \in Scan, CacheHit(s)
      PROVE  \A t \in Scan : Move(t)
  BY <1>11, OneMoves DEF CacheHit, Publish, ScanComplete, Move, Publishes
<1>12. ASSUME NEW s \in Scan, CacheMiss(s)
      PROVE  \A t \in Scan : Move(t)
  BY <1>12, OneMoves DEF CacheMiss, Move, Collects
<1>13. ASSUME NEW s \in Scan, LookupFails(s)
      PROVE  \A t \in Scan : Move(t)
  <2>1. Raise(s) /\ Silent(s) /\ tries' = tries
    BY <1>13 DEF LookupFails
  <2>2. Publishes(s) \/ Ends(s)
    BY <2>1, RaiseMoves
  <2>3. Others(s)
    BY <1>13, <2>1, RaiseMoves DEF LookupFails
  <2> QED
    BY <2>2, <2>3, OneMoves DEF Move
<1>14. ASSUME NEW s \in Scan, NEW c \in Check, NEW ok \in BOOLEAN, NextCheck(s, c, ok)
      PROVE  \A t \in Scan : Move(t)
  <2>1. LET e == CheckEvent(s, c, ok, Cardinality(Reported(s)) + 1)
        IN  e.run = tries[s] /\ e.event \in CheckEvents
    BY DEF CheckEvent, CheckEvents
  <2> QED
    BY <1>14, <2>1, OneMoves DEF NextCheck, Publish, Move, Publishes
<1>15. ASSUME NEW s \in Scan, ComputeAndSave(s)
      PROVE  \A t \in Scan : Move(t)
  BY <1>15, OneMoves DEF ComputeAndSave, Move, StartsSaving, Store
<1>16. ASSUME NEW s \in Scan, NEW st \in Store, SaveLands(s, st)
      PROVE  \A t \in Scan : Move(t)
  <2>1. /\ \A t \in Scan \ {s} : mongo'[t] = mongo[t]
        /\ Keeps(s) /\ (st = "mongo" => Stored(s)')
    BY <1>16, WriteStores, FreshReportType DEF SaveLands
  <2>2. Stays(s) /\ Others(s)
    BY <1>16, <2>1 DEF SaveLands
  <2> QED
    BY <2>2, OneMoves DEF Move
<1>17. ASSUME NEW s \in Scan, NEW st \in Store, SaveFails(s, st)
      PROVE  \A t \in Scan : Move(t)
  <2>1. /\ \A t \in Scan \ {s} : mongo'[t] = mongo[t]
        /\ Keeps(s)
    BY <1>17, WriteStores, FreshReportType DEF SaveFails
  <2>2. CASE pc[s] = "save" /\ Raise(s)
    <3>1. Silent(s) /\ tries' = tries
      BY <1>17, <2>1 DEF SaveFails
    <3>2. Publishes(s) \/ Ends(s)
      BY <2>2, <3>1, RaiseMoves
    <3>3. Others(s)
      BY <1>17, <2>1, <2>2, <3>1, RaiseMoves DEF SaveFails
    <3> QED
      BY <3>2, <3>3, OneMoves DEF Move
  <2>3. CASE pc[s] # "save" /\ UNCHANGED <<pc, result, outbox>>
    <3>1. Stays(s) /\ Others(s)
      BY <1>17, <2>1, <2>3 DEF SaveFails
    <3> QED
      BY <3>1, OneMoves DEF Move
  <2> QED
    BY <1>17, <2>2, <2>3 DEF SaveFails
<1>18. ASSUME NEW s \in Scan, GatherDone(s)
      PROVE  \A t \in Scan : Move(t)
  BY <1>18, OneMoves DEF GatherDone, Publish, ScanComplete, Move, Publishes
<1>19. CASE Expiry \/ UNCHANGED vars
  <2>1. UNCHANGED <<pc, tries, result, outbox, saving, mongo, stream>>
    BY <1>19 DEF Expiry, ExpireReport, ExpireCache, ExpireStream, vars
  <2> QED
    BY <2>1 DEF Move
<1> QED
  BY <1>1, <1>2, <1>3, <1>4, <1>5, <1>6, <1>7, <1>8, <1>9, <1>10, <1>11, <1>12, <1>13, <1>14, <1>15, <1>16, <1>17, <1>18, <1>19 DEF Next, QueueStep, JobStep, Fault

-----------------------------------------------------------------------------
(* run_scan: what it saves and returns, and that it returns once it is saved. *)

CallInv(s) ==
    way[s] = "call" =>
        /\ pc[s] = "save" \/ saving[s] # {} => held[s] \in Report /\ held[s].scan_id = s
        /\ pc[s] = "save" => "mongo" \in saving[s] \/ mongo[s] = held[s]
        /\ result[s] = "ok" =>
               /\ pc[s] \notin {"lookup", "collect", "save"} /\ saving[s] = {}
               /\ mongo[s] = held[s] /\ held[s] \in Report /\ held[s].scan_id = s

ScansInv == \A s \in Scan : RunInv(s) /\ CallInv(s)

LEMMA HereSaves ==
    ASSUME TypesInv, NEW s \in Scan, CallInv(s), saving[s] # {}
    PROVE  (IF way[s] = "call" THEN held[s] ELSE FreshReport(s)) \in Report
BY FreshReportType DEF TypesInv, ApiTypeInv, ApiTypeOK, CallInv

LEMMA ApiMoves ==
    ASSUME TypesInv, ScansInv, [ApiNext]_apiVars
    PROVE  \A t \in Scan : Move(t)
<1>0. TypeInv
  BY DEF TypesInv, ApiTypeInv, ApiTypeOK, TypeInv
<1> USE DEF TypeInv, TypeOK, Silent, Keeps, Goes, Others, Stays,
            queueVars, storeVars, streamVars, bounds
<1>1. ASSUME [Next]_vars
      PROVE  \A t \in Scan : Move(t)
  BY <1>0, <1>1, NextMoves
<1>2. ASSUME NEW s \in Scan, PostScan(s)
      PROVE  \A t \in Scan : Move(t)
  BY <1>1, <1>2 DEF PostScan, Next
<1>3. ASSUME NEW s \in Scan, NEW w \in {"stream", "call"}, StartHere(s, w)
      PROVE  \A t \in Scan : Move(t)
  <2>1. tries[s] = 0
    BY <1>3 DEF StartHere, ScansInv, RunInv
  <2>2. Begins(s) /\ Others(s)
    BY <1>0, <1>3, <2>1 DEF StartHere, Begins
  <2> QED
    BY <2>2, OneMoves DEF Move
<1>4. ASSUME NEW s \in Scan, QueueMoves(s)
      PROVE  \A t \in Scan : Move(t)
  BY <1>1, <1>4 DEF QueueMoves, Next
<1>5. ASSUME NEW s \in Scan, HereMoves(s)
      PROVE  \A t \in Scan : Move(t)
  <2>1. CASE Send(s)
    <3>1. Others(s)
      BY <1>0, <2>1 DEF Send, Append1, End
    <3>2. Adds(s)
      BY <1>0, <2>1 DEF Send, End, Adds
    <3> QED
      BY <3>1, <3>2, OneMoves DEF Move
  <2>2. CASE Disconnect(s)
    BY <1>0, <2>2, OneMoves DEF Disconnect, End, Move, Ends
  <2>3. CASE LookupRaises(s)
    BY <1>0, <2>3, OneMoves DEF LookupRaises, RaiseOut, Running, Active, End, Move, Ends
  <2>4. ASSUME NEW st \in Store, SaveRaises(s, st)
        PROVE  \A t \in Scan : Move(t)
    <3>1. /\ \A t \in Scan \ {s} : mongo'[t] = mongo[t]
          /\ Keeps(s)
      <4>1. PICK r \in Report : Write(s, st, r) \/ UNCHANGED storeVars
        BY <2>4, HereSaves DEF SaveRaises, ScansInv
      <4>2. CASE Write(s, st, r)
        BY <1>0, <4>2, WriteStores
      <4>3. CASE UNCHANGED storeVars
        BY <4>3
      <4> QED
        BY <4>1, <4>2, <4>3
    <3>2. CASE Running(s)
      <4>1. Ends(s) /\ Others(s)
        BY <1>0, <2>4, <3>1, <3>2 DEF SaveRaises, RaiseOut, End, Ends
      <4> QED
        BY <4>1, OneMoves DEF Move
    <3>3. CASE ~Running(s)
      <4>1. Stays(s) /\ Others(s)
        BY <1>0, <2>4, <3>1, <3>3 DEF SaveRaises, RaiseOut, Running, Active
      <4> QED
        BY <4>1, OneMoves DEF Move
    <3> QED
      BY <3>2, <3>3
  <2> QED
    BY <1>5, <2>1, <2>2, <2>3, <2>4 DEF HereMoves, FaultHere
<1>6. ASSUME NEW s \in Scan, CallMoves(s)
      PROVE  \A t \in Scan : Move(t)
  <2>1. CASE CallHit(s)
    BY <1>0, <2>1, OneMoves DEF CallHit, SaveHeld, Hold, Store, Move, StartsSaving
  <2>2. CASE CallReturns(s)
    BY <1>0, <2>2, OneMoves DEF CallReturns, End, Move, Ends
  <2>3. ASSUME NEW good \in SUBSET Check, CallChecks(s, good)
        PROVE  \A t \in Scan : Move(t)
    BY <1>0, <2>3, OneMoves DEF CallChecks, SaveHeld, Hold, Store, Move, StartsSaving
  <2>4. ASSUME NEW st \in Store, CallSaves(s, st)
        PROVE  \A t \in Scan : Move(t)
    <3>1. held[s] \in Report
      BY <1>6, <2>4, HereSaves DEF CallMoves, CallSaves, ScansInv
    <3>2. /\ \A t \in Scan \ {s} : mongo'[t] = mongo[t]
          /\ Keeps(s) /\ (st = "mongo" => Stored(s)')
      BY <1>0, <2>4, <3>1, WriteStores DEF CallSaves
    <3>3. Stays(s) /\ Others(s)
      BY <1>0, <2>4, <3>2 DEF CallSaves
    <3> QED
      BY <3>3, OneMoves DEF Move
  <2> QED
    BY <1>6, <2>1, <2>2, <2>3, <2>4 DEF CallMoves
<1>7. CASE Elsewhere
  BY <1>1, <1>7 DEF Elsewhere, Next
<1>8. ASSUME NEW g \in Request, GetStep(g)
      PROVE  \A t \in Scan : Move(t)
  <2>1. UNCHANGED <<pc, tries, result, outbox, saving, mongo, stream>>
    BY <1>8 DEF GetStep, GetRedis, GetMongo, WriteBack, GetFails, SaveBack, vars
  <2> QED
    BY <2>1 DEF Move
<1>9. CASE CrashApi
  <2>1. ASSUME NEW t \in Scan
        PROVE  Ends(t) \/ Stays(t)
    BY <1>0, <1>9 DEF CrashApi, Ends, Running, Active
  <2> QED
    BY <2>1 DEF Move
<1>10. CASE UNCHANGED apiVars
  BY <1>1, <1>10 DEF apiVars
<1> QED
  BY <1>2, <1>3, <1>4, <1>5, <1>6, <1>7, <1>8, <1>9, <1>10, ApiSteps

Untouched(t) ==
    /\ pc'[t] = pc[t] /\ saving'[t] = saving[t] /\ result'[t] = result[t] /\ mongo'[t] = mongo[t]
    /\ way'[t] = way[t] /\ held'[t] = held[t] /\ built'[t] = built[t]

LEMMA UntouchedKeeps ==
    ASSUME NEW t \in Scan, CallInv(t), Untouched(t)
    PROVE  CallInv(t)'
BY DEF CallInv, Untouched

LEMMA RaiseTouches ==
    ASSUME TypeInv, NEW s \in Scan, Raise(s)
    PROVE  \A t \in Scan \ {s} : pc'[t] = pc[t] /\ result'[t] = result[t]
BY DEF Raise, Publish, Return, TypeInv, TypeOK

LEMMA QueueTouches ==
    ASSUME TypeInv, NEW s \in Scan, QueueStep(s), UNCHANGED wayVars
    PROVE  \A t \in Scan \ {s} : Untouched(t)
<1> USE DEF TypeInv, TypeOK, Untouched, queueVars, storeVars, streamVars, bounds, wayVars
<1>1. ASSUME Raise(s), saving' = saving, UNCHANGED storeVars
      PROVE  \A t \in Scan \ {s} : Untouched(t)
  BY <1>1, RaiseTouches
<1>2. CASE LookupFails(s) \/ XaddFails(s) \/ ExpireFails(s)
  BY <1>1, <1>2 DEF LookupFails, XaddFails, ExpireFails
<1>3. ASSUME NEW st \in Store, SaveLands(s, st) \/ SaveFails(s, st)
      PROVE  \A t \in Scan \ {s} : Untouched(t)
  <2>1. \A t \in Scan \ {s} : mongo'[t] = mongo[t] /\ saving'[t] = saving[t]
    BY <1>3, WriteStores, FreshReportType DEF SaveLands, SaveFails
  <2>2. \A t \in Scan \ {s} : pc'[t] = pc[t] /\ result'[t] = result[t]
    BY <1>3, RaiseTouches DEF SaveLands, SaveFails
  <2> QED
    BY <1>3, <2>1, <2>2 DEF SaveLands, SaveFails
<1>4. CASE Exhausted(s) \/ JobTimeout(s) \/ FinishJob(s)
  BY <1>4 DEF Exhausted, JobTimeout, FinishJob, Return
<1>5. CASE CacheHit(s) \/ CacheMiss(s) \/ ComputeAndSave(s) \/ GatherDone(s)
  BY <1>5 DEF CacheHit, CacheMiss, ComputeAndSave, GatherDone, Publish
<1>6. CASE Xadd(s) \/ Expire(s)
  BY <1>6 DEF Xadd, Expire, AfterPublish, Return
<1>7. ASSUME NEW w \in Worker, StartJob(w, s)
      PROVE  \A t \in Scan \ {s} : Untouched(t)
  BY <1>7 DEF StartJob
<1>8. ASSUME NEW c \in Check, NEW ok \in BOOLEAN, NextCheck(s, c, ok)
      PROVE  \A t \in Scan \ {s} : Untouched(t)
  BY <1>8 DEF NextCheck, Publish
<1> QED
  BY <1>2, <1>3, <1>4, <1>5, <1>6, <1>7, <1>8 DEF QueueStep, JobStep, Fault

LEMMA FaultIsCounted ==
    ASSUME TypeOK, NEW s \in Scan, CallFails(s)
    PROVE  faults'[s] # faults[s]
<1>1. faults[s] \in Nat /\ faults'[s] = faults[s] + 1
  BY BoundsAssumption DEF CallFails, TypeOK
<1> QED
  BY <1>1

LEMMA HereTouches ==
    ASSUME TypesInv, NEW s \in Scan, CallInv(s), HereMoves(s)
    PROVE  CallInv(s)' /\ \A t \in Scan \ {s} : Untouched(t)
<1> USE DEF TypesInv, ApiTypeInv, ApiTypeOK, TypeOK, Untouched, queueVars, storeVars, streamVars,
            bounds, wayVars
<1>1. CASE Send(s) \/ Disconnect(s)
  <2>1. CallFails(s) => faults'[s] # faults[s]
    BY FaultIsCounted
  <2>2. ~CallFails(s)
    BY <1>1, <2>1 DEF Send, Disconnect
  <2>3. way'[s] # "call"
    BY <1>1, <2>2 DEF HereMoves, FaultHere, LookupRaises, SaveRaises, Send, Disconnect, RaiseOut
  <2> QED
    BY <1>1, <2>3 DEF HereMoves, Send, Disconnect, End, CallInv
<1>2. CASE LookupRaises(s)
  BY <1>2 DEF HereMoves, LookupRaises, RaiseOut, Running, Active, End, CallInv
<1>3. ASSUME NEW st \in Store, SaveRaises(s, st)
      PROVE  CallInv(s)' /\ \A t \in Scan \ {s} : Untouched(t)
  <2>1. \A t \in Scan \ {s} : mongo'[t] = mongo[t]
    BY <1>3 DEF SaveRaises, Write
  <2>2. /\ \A t \in Scan \ {s} : Untouched(t)
        /\ saving[s] # {} /\ saving'[s] \subseteq saving[s]
        /\ \/ pc'[s] = "done" /\ result'[s] = "raised"
           \/ pc'[s] = pc[s] /\ result'[s] = result[s] /\ ~Running(s)
        /\ held' = held /\ way' = way
    BY <1>3, <2>1 DEF HereMoves, SaveRaises, RaiseOut, End
  <2> QED
    BY <2>2 DEF CallInv, Running, Active
<1> QED
  BY <1>1, <1>2, <1>3 DEF HereMoves, FaultHere

LEMMA CallTouches ==
    ASSUME TypesInv, NEW s \in Scan, CallInv(s), CallMoves(s)
    PROVE  CallInv(s)' /\ \A t \in Scan \ {s} : Untouched(t)
<1> USE DEF TypesInv, ApiTypeInv, ApiTypeOK, TypeOK, Untouched, queueVars, storeVars, streamVars,
            bounds, CallInv
<1>1. CASE CallHit(s)
  <2>1. LET r == NormalizeCachedReport(s, cache[DomainOf[s]])
        IN  r \in Report /\ r.scan_id = s
    BY <1>1, NormalizedType DEF CallHit
  <2> QED
    BY <1>1, <2>1 DEF CallMoves, CallHit, SaveHeld, Hold, Store
<1>2. ASSUME NEW good \in SUBSET Check, CallChecks(s, good)
      PROVE  CallInv(s)' /\ \A t \in Scan \ {s} : Untouched(t)
  <2>1. LET r == [scan_id |-> s, origin |-> s, checks |-> good]
        IN  r \in Report /\ r.scan_id = s
    BY DEF Report
  <2> QED
    BY <1>2, <2>1 DEF CallMoves, CallChecks, SaveHeld, Hold, Store
<1>3. ASSUME NEW st \in Store, CallSaves(s, st)
      PROVE  CallInv(s)' /\ \A t \in Scan \ {s} : Untouched(t)
  BY <1>3 DEF CallMoves, CallSaves, Write, wayVars
<1>4. CASE CallReturns(s)
  BY <1>4 DEF CallMoves, CallReturns, End, wayVars
<1> QED
  BY <1>1, <1>2, <1>3, <1>4 DEF CallMoves

LEMMA NextCalls ==
    ASSUME TypesInv, ScansInv, [ApiNext]_apiVars, NEW t \in Scan
    PROVE  CallInv(t)'
<1>0. TypeInv /\ CallInv(t) /\ RunInv(t)
  BY DEF TypesInv, ApiTypeInv, ApiTypeOK, TypeInv, ScansInv
<1>1. ASSUME Untouched(t)
      PROVE  CallInv(t)'
  BY <1>0, <1>1, UntouchedKeeps
<1>2. ASSUME NEW s \in Scan, PostScan(s)
      PROVE  CallInv(t)'
  <2>1. CASE t = s
    BY <1>2, <2>1 DEF PostScan, Start, TypesInv, ApiTypeInv, ApiTypeOK, CallInv
  <2>2. CASE t # s
    BY <1>1, <1>2, <2>2 DEF PostScan, Start, Enqueue, Untouched, storeVars, TypesInv, ApiTypeInv,
       ApiTypeOK, TypeOK
  <2> QED
    BY <2>1, <2>2
<1>3. ASSUME NEW s \in Scan, NEW w \in {"stream", "call"}, StartHere(s, w)
      PROVE  CallInv(t)'
  <2>1. CASE t = s
    BY <1>0, <1>3, <2>1 DEF StartHere, RunInv, CallInv, TypeInv, TypeOK
  <2>2. CASE t # s
    BY <1>1, <1>3, <2>2 DEF StartHere, Start, Untouched, storeVars, TypesInv, ApiTypeInv,
       ApiTypeOK, TypeOK
  <2> QED
    BY <2>1, <2>2
<1>4. ASSUME NEW s \in Scan, QueueMoves(s)
      PROVE  CallInv(t)'
  <2>1. CASE t # s
    BY <1>0, <1>1, <1>4, <2>1, QueueTouches DEF QueueMoves
  <2>2. CASE t = s /\ way[s] # "call"
    BY <1>4, <2>2 DEF QueueMoves, wayVars, CallInv
  <2>3. CASE t = s /\ CacheMiss(s)
    BY <1>0, <1>4, <2>3 DEF QueueMoves, CacheMiss, wayVars, storeVars, CallInv, TypeInv, TypeOK
  <2> QED
    BY <1>4, <2>1, <2>2, <2>3 DEF QueueMoves
<1>5. ASSUME NEW s \in Scan, HereMoves(s) \/ CallMoves(s)
      PROVE  CallInv(t)'
  <2>1. CallInv(s)
    BY DEF ScansInv
  <2>2. CallInv(s)' /\ \A u \in Scan \ {s} : Untouched(u)
    BY <1>5, <2>1, HereTouches, CallTouches
  <2> QED
    BY <1>1, <2>2
<1>6. ASSUME NEW w \in Worker, Crash(w), UNCHANGED wayVars
      PROVE  CallInv(t)'
  BY <1>0, <1>6 DEF Crash, wayVars, storeVars, CallInv, TypeInv, TypeOK
<1>7. CASE Expiry /\ UNCHANGED wayVars
  BY <1>1, <1>7 DEF Expiry, ExpireReport, ExpireCache, ExpireStream, wayVars, storeVars, Untouched
<1>8. ASSUME NEW g \in Request, GetStep(g)
      PROVE  CallInv(t)'
  BY <1>1, <1>8 DEF GetStep, GetRedis, GetMongo, WriteBack, GetFails, SaveBack, vars, wayVars,
     storeVars, Untouched
<1>9. CASE CrashApi
  BY <1>0, <1>9 DEF CrashApi, wayVars, storeVars, CallInv, TypeInv, TypeOK, Running, Active
<1>10. CASE UNCHANGED apiVars
  BY <1>1, <1>10 DEF apiVars, vars, wayVars, Untouched
<1> QED
  BY <1>2, <1>3, <1>4, <1>5, <1>6, <1>7, <1>8, <1>9, <1>10, ApiSteps DEF Elsewhere

-----------------------------------------------------------------------------
(* A request that was told of a report finds one, in MongoDB if not in Redis. *)
ReaderInv(g) ==
    told[g] => at[g] # "404" /\ (at[g] = "mongo" => mongo[asked[g]] # NoReport)

ApiInv == TypesInv /\ ScansInv /\ \A g \in Request : ReaderInv(g)

LEMMA AnnouncedIsStored ==
    ASSUME TypesInv, NEW s \in Scan, RunInv(s), Announced(s)
    PROVE  mongo[s] # NoReport
<1>0. TypeInv
  BY DEF TypesInv, ApiTypeInv, ApiTypeOK, TypeInv
<1>1. PICK i \in DOMAIN stream[s] :
          stream[s][i].event = "scan_complete" /\ Measured(s, stream[s][i].run)
  BY DEF Announced
<1>2. stream[s][i].run \in Nat
  BY <1>0, StreamTyped
<1>3. Completes(s, stream[s][i].run) /\ Tells(s, stream[s][i].run)
  BY <1>1 DEF Completes, Tells, Measured, CheckPositions
<1> QED
  BY <1>2, <1>3 DEF RunInv, Stored

LEMMA NextReaders ==
    ASSUME ApiInv, [ApiNext]_apiVars, NEW g \in Request,
           \A s \in Scan : Stored(s) => Stored(s)'
    PROVE  ReaderInv(g)'
<1> USE DEF ApiInv, TypesInv, ApiTypeInv, ApiTypeOK, AskedInv, ReaderInv
<1>1. ASSUME at'[g] = at[g], asked'[g] = asked[g], told'[g] = told[g]
      PROVE  ReaderInv(g)'
  BY <1>1 DEF Stored
<1>2. ASSUME UNCHANGED getVars
      PROVE  ReaderInv(g)'
  BY <1>1, <1>2 DEF getVars
<1>3. ASSUME NEW h \in Request, NEW s \in Scan, GetRedis(h, s)
      PROVE  ReaderInv(g)'
  <2>1. CASE g # h
    BY <1>1, <1>3, <2>1 DEF GetRedis, Reply
  <2>2. CASE g = h
    <3>1. Announced(s) => mongo[s] # NoReport
      BY AnnouncedIsStored DEF ScansInv
    <3>2. /\ asked'[g] = s /\ told'[g] = Announced(s) /\ at'[g] \in {"200", "mongo"}
          /\ mongo' = mongo
      BY <1>3, <2>2 DEF GetRedis, Reply, vars
    <3> QED
      BY <3>1, <3>2
  <2> QED
    BY <2>1, <2>2
<1>4. ASSUME NEW h \in Request, GetMongo(h) \/ WriteBack(h)
      PROVE  ReaderInv(g)'
  <2>1. CASE g # h
    BY <1>1, <1>4, <2>1 DEF GetMongo, WriteBack, Reply
  <2>2. CASE g = h
    BY <1>4, <2>2 DEF GetMongo, WriteBack, Reply
  <2> QED
    BY <2>1, <2>2
<1>5. ASSUME NEW h \in Request, NEW s \in Scan, GetFails(h, s)
      PROVE  ReaderInv(g)'
  <2>1. CASE g # h
    BY <1>1, <1>5, <2>1 DEF GetFails, Reply
  <2>2. CASE g = h
    BY <1>5, <2>2 DEF GetFails, Reply
  <2> QED
    BY <2>1, <2>2
<1>6. CASE CrashApi
  BY <1>1, <1>6 DEF CrashApi
<1> QED
  BY <1>2, <1>3, <1>4, <1>5, <1>6, ApiSteps DEF PostScan, StartHere, Start, QueueMoves, HereMoves,
     CallMoves, Elsewhere, GetStep, apiVars

LEMMA ApiInvariant == ApiSpec => []ApiInv
<1>1. ApiInit => ApiInv
  <2> SUFFICES ASSUME ApiInit
               PROVE  ApiInv
    OBVIOUS
  <2>1. TypesInv
    BY InitTypes
  <2>2. ScansInv
    BY DEF ApiInit, Init, ScansInv, RunInv, CallInv, HasToTell, Completes
  <2>3. \A g \in Request : ReaderInv(g)
    BY DEF ApiInit, ReaderInv
  <2> QED
    BY <2>1, <2>2, <2>3 DEF ApiInv
<1>2. ApiInv /\ [ApiNext]_apiVars => ApiInv'
  <2> SUFFICES ASSUME ApiInv, [ApiNext]_apiVars
               PROVE  ApiInv'
    OBVIOUS
  <2>1. TypesInv /\ ScansInv /\ TypeInv
    BY DEF ApiInv, TypesInv, ApiTypeInv, ApiTypeOK, TypeInv
  <2>2. TypesInv'
    BY <2>1, NextTypes
  <2>3. \A s \in Scan : RunInv(s)' /\ (Stored(s) => Stored(s)')
    BY <2>1, ApiMoves, MoveKeeps DEF ScansInv
  <2>4. \A s \in Scan : CallInv(s)'
    BY <2>1, NextCalls
  <2>5. \A g \in Request : ReaderInv(g)'
    BY <2>3, NextReaders
  <2> QED
    BY <2>2, <2>3, <2>4, <2>5 DEF ApiInv, ScansInv
<1> QED
  BY <1>1, <1>2, PTL DEF ApiSpec

(* For every number of scans, requests, failing calls, deaths and expiries,  *)
(* a client that was told scan_complete of a measured report and asks for it *)
(* is not told that there is none (run_scan_stream saves before its last     *)
(* yield, get_report falls back on MongoDB).                                 *)
THEOREM AnnouncedReportsAreServed == ApiSpec => []AnnouncedIsServed
<1>1. ApiInv => AnnouncedIsServed
  BY DEF ApiInv, ReaderInv, AnnouncedIsServed
<1> QED
  BY <1>1, ApiInvariant, PTL

=============================================================================
