---------------------------- MODULE RunProtocol ----------------------------
(***************************************************************************)
(* What the reader of a scan's stream may rely on, whatever happens inside  *)
(* the worker.  A scan is attempted a bounded number of times.  An attempt  *)
(* reports checks one by one, then answers: scan_complete only before the   *)
(* first report (an answer from the cache) or after the last, scan_error at *)
(* any time, also after a scan_complete, and nothing after a scan_error.    *)
(* Module ScanJobs is shown to implement this.                              *)
(***************************************************************************)
EXTENDS Naturals

CONSTANTS Scan, Total, MaxTries

VARIABLES
    attempt,   \* attempts begun
    reported,  \* checks the attempt has reported
    answer,    \* the attempt's terminal event, if any
    closed     \* no attempt will follow

vars == <<attempt, reported, answer, closed>>

Init ==
    /\ attempt = [s \in Scan |-> 0]
    /\ reported = [s \in Scan |-> 0]
    /\ answer = [s \in Scan |-> "none"]
    /\ closed = [s \in Scan |-> FALSE]

Begin(s) ==
    /\ ~closed[s] /\ attempt[s] < MaxTries
    /\ attempt' = [attempt EXCEPT ![s] = @ + 1]
    /\ reported' = [reported EXCEPT ![s] = 0]
    /\ answer' = [answer EXCEPT ![s] = "none"]
    /\ UNCHANGED closed

InAttempt(s) == ~closed[s] /\ attempt[s] > 0

Report(s) ==
    /\ InAttempt(s) /\ answer[s] = "none" /\ reported[s] < Total
    /\ reported' = [reported EXCEPT ![s] = @ + 1]
    /\ UNCHANGED <<attempt, answer, closed>>

Complete(s) ==
    /\ InAttempt(s) /\ answer[s] = "none" /\ reported[s] \in {0, Total}
    /\ answer' = [answer EXCEPT ![s] = "complete"]
    /\ UNCHANGED <<attempt, reported, closed>>

Fail(s) ==
    /\ InAttempt(s) /\ answer[s] # "error"
    /\ answer' = [answer EXCEPT ![s] = "error"]
    /\ UNCHANGED <<attempt, reported, closed>>

Close(s) ==
    /\ InAttempt(s)
    /\ closed' = [closed EXCEPT ![s] = TRUE]
    /\ UNCHANGED <<attempt, reported, answer>>

Next == \E s \in Scan : Begin(s) \/ Report(s) \/ Complete(s) \/ Fail(s) \/ Close(s)

Spec == Init /\ [][Next]_vars

=============================================================================
