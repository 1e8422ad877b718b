----------------------------- MODULE ScanSystem -----------------------------
(***************************************************************************)
(* The worker and the readers together: the stream that run_scan_job fills  *)
(* (module ScanJobs) is the one that GET /scan/{scan_id}/events reads       *)
(* (module EventReader).  The readers all follow the same scan.             *)
(***************************************************************************)
EXTENDS ScanJobs

CONSTANTS
    Followed,    \* the scan that is followed
    Reader, BatchSize, MaxDrops

ASSUME FollowedAssumption == Followed \in Scan
ASSUME FollowersAssumption == BatchSize \in Nat \ {0} /\ MaxDrops \in Nat

VARIABLES conn, cursor, batch, wire, received, drops

Readers == INSTANCE EventReader WITH
    Terminal <- {e \in Event : e.event \in TerminalEvents},
    MaxLog <- MaxTries * (Cardinality(Check) + 2),
    log <- stream[Followed],
    gone <- trimmed[Followed],
    expired <- expiries

readerVars == <<conn, cursor, batch, wire, received, drops>>
systemVars == <<vars, readerVars>>

SystemInit == Init /\ Readers!ReaderInit

WorkerStep == Next /\ UNCHANGED readerVars
ReaderStep(r) == Readers!ReaderStep(r) /\ UNCHANGED vars

SystemNext == WorkerStep \/ \E r \in Reader : ReaderStep(r)

SystemSpec == SystemInit /\ [][SystemNext]_systemVars

(* The fairness of both modules.                                             *)
SystemFairness ==
    /\ \A s \in Scan :
        /\ WF_systemVars(\E w \in Worker : StartJob(w, s) /\ UNCHANGED readerVars)
        /\ WF_systemVars(Exhausted(s) /\ UNCHANGED readerVars)
        /\ WF_systemVars(Running(s) /\ JobStep(s) /\ UNCHANGED readerVars)
        /\ WF_systemVars(JobTimeout(s) /\ UNCHANGED readerVars)
    /\ \A r \in Reader :
        /\ WF_systemVars(Readers!Connect(r) /\ UNCHANGED vars)
        /\ WF_systemVars(Readers!Read(r) /\ UNCHANGED vars)
        /\ WF_systemVars(Readers!Yield(r) /\ UNCHANGED vars)
        /\ WF_systemVars(Readers!Receive(r) /\ UNCHANGED vars)
        /\ WF_systemVars(Readers!EndSeen(r) /\ UNCHANGED vars)

FairSystemSpec == SystemSpec /\ SystemFairness

-----------------------------------------------------------------------------
(* What reader r received, as events.                                        *)
Heard(r) == {stream[Followed][received[r][i]] : i \in DOMAIN received[r]}

(* The reader of a scan_complete whose checks were run heard each of them    *)
(* from the same attempt, with the outcome the report holds, unless the key  *)
(* of the stream expired: the page that shows the check events one by one    *)
(* ends on the report's figures (run_scan_stream, _stream_events).           *)
ReportMatchesWhatWasHeard ==
    \A r \in Reader : \A e \in Heard(r) :
        e.event = "scan_complete" /\ Measured(Followed, e.run) /\ trimmed[Followed] = 0 =>
            LET told == {f \in Heard(r) : f.run = e.run /\ f.event \in CheckEvents}
            IN  /\ {f.check : f \in told} = Check
                /\ {f.check : f \in {g \in told : g.event = "check_complete"}} = e.report.checks

(* A scan in the queue comes to an end for each of its readers: it hears a   *)
(* terminal event, unless the worker lost the scan without one or the stream *)
(* expired before it was read.                                               *)
ReadersAreTold ==
    \A r \in Reader :
        pc[Followed] = "queued" ~>
            \/ \E e \in Heard(r) : e.event \in TerminalEvents
            \/ pc[Followed] = "done" /\ ~Answered(Followed)
            \/ trimmed[Followed] > 0

=============================================================================
