---------------------------- MODULE EventReader ----------------------------
(***************************************************************************)
(* GET /scan/{scan_id}/events: each connection of a reader is a generator   *)
(* (_stream_events) that reads the Redis stream of the scan in batches and  *)
(* yields the events to the response.  The network may lose the connection  *)
(* with what is in flight; the reader (an EventSource) reconnects with the  *)
(* id of the last event it received.                                        *)
(*                                                                          *)
(* An event's id is its position in log: XADD's ids are increasing, also    *)
(* across the expiry of the key.                                            *)
(***************************************************************************)
EXTENDS Integers, Sequences

CONSTANTS
    Reader,      \* clients that follow the scan
    Event,       \* what can be published
    Terminal,    \* the events in TERMINAL_EVENTS
    BatchSize,   \* count of XREAD
    MaxLog,      \* bound of the model: events published
    MaxDrops,    \* bound of the model: connections lost, reads that fail
    MaxExpiries  \* bound of the model: expiries of the key

ASSUME BatchAssumption == BatchSize \in Nat \ {0}
ASSUME ReaderBoundsAssumption == MaxLog \in Nat /\ MaxDrops \in Nat /\ MaxExpiries \in Nat

VARIABLES
    log,       \* every event ever added to the stream
    gone,      \* how many of them went with an expired key
    expired,   \* expiries so far
    conn,      \* each reader's connection
    cursor,    \* last_id of its generator
    batch,     \* the positions it has read and not yielded
    wire,      \* those yielded and not received
    received,  \* those the reader received, over all its connections
    drops

readerVars == <<conn, cursor, batch, wire, received, drops>>
logVars == <<log, gone, expired>>
vars == <<logVars, readerVars>>

Connection == {"idle", "opening", "open", "ended", "left"}

TypeOK ==
    /\ log \in Seq(Event)
    /\ gone \in Nat /\ gone <= Len(log)
    /\ expired \in Nat
    /\ conn \in [Reader -> Connection]
    /\ cursor \in [Reader -> Nat]
    /\ batch \in [Reader -> Seq(Nat \ {0})]
    /\ wire \in [Reader -> Seq(Nat \ {0})]
    /\ received \in [Reader -> Seq(Nat \ {0})]
    /\ drops \in Nat

ReaderInit ==
    /\ conn = [r \in Reader |-> "idle"]
    /\ cursor = [r \in Reader |-> 0]
    /\ batch = [r \in Reader |-> << >>]
    /\ wire = [r \in Reader |-> << >>]
    /\ received = [r \in Reader |-> << >>]
    /\ drops = 0

Init == log = << >> /\ gone = 0 /\ expired = 0 /\ ReaderInit

-----------------------------------------------------------------------------
(* What the reader sends as Last-Event-ID; no header counts as "0-0".        *)
LastEventId(r) ==
    IF received[r] = << >> THEN 0 ELSE received[r][Len(received[r])]

(* Mutant: without a header, only what comes from now on ("$").              *)
ConnectAtEnd(r) ==
    /\ conn[r] = "idle"
    /\ conn' = [conn EXCEPT ![r] = "opening"]
    /\ cursor' = [cursor EXCEPT ![r] =
                    IF received[r] = << >> THEN Len(log) ELSE LastEventId(r)]
    /\ UNCHANGED <<batch, wire, received, drops>>

(* scan_events: a new generator.                                             *)
Connect(r) ==
    /\ conn[r] = "idle"
    /\ conn' = [conn EXCEPT ![r] = "opening"]
    /\ cursor' = [cursor EXCEPT ![r] = LastEventId(r)]
    /\ UNCHANGED <<batch, wire, received, drops>>

(* Mutant: XRANGE, whose first id is part of the range.                      *)
EntriesInclusive(k) ==
    LET first == IF k < gone THEN gone + 1 ELSE k
        last  == IF first + BatchSize <= Len(log) THEN first + BatchSize - 1 ELSE Len(log)
    IN  [i \in 1..((last + 1) - first) |-> first + i - 1]

(* XREAD: at most BatchSize of the entries left after id k.                  *)
Entries(k) ==
    LET first == IF k < gone THEN gone + 1 ELSE k + 1
        last  == IF first + BatchSize <= Len(log) THEN first + BatchSize - 1 ELSE Len(log)
    IN  [i \in 1..((last + 1) - first) |-> first + i - 1]

AtLoopHead(r) == conn[r] \in {"opening", "open"} /\ batch[r] = << >>

(* stream.read with entries to return, or without (a keepalive is yielded).  *)
Read(r) ==
    /\ AtLoopHead(r)
    /\ batch' = [batch EXCEPT ![r] = Entries(cursor[r])]
    /\ conn' = [conn EXCEPT ![r] = "open"]
    /\ UNCHANGED <<cursor, wire, received, drops>>

(* Mutant: no return after a terminal event.                                 *)
YieldOn(r) ==
    /\ batch[r] # << >>
    /\ cursor' = [cursor EXCEPT ![r] = Head(batch[r])]
    /\ wire' = [wire EXCEPT ![r] = Append(@, Head(batch[r]))]
    /\ batch' = [batch EXCEPT ![r] = Tail(@)]
    /\ UNCHANGED <<conn, received, drops>>

(* The next event of the batch is sent; after a terminal one the response    *)
(* ends, whatever the batch still holds.                                     *)
Yield(r) ==
    LET k == Head(batch[r]) IN
    /\ batch[r] # << >>
    /\ cursor' = [cursor EXCEPT ![r] = k]
    /\ wire' = [wire EXCEPT ![r] = Append(@, k)]
    /\ \/ /\ log[k] \in Terminal
          /\ conn' = [conn EXCEPT ![r] = "ended"]
          /\ batch' = [batch EXCEPT ![r] = << >>]
       \/ /\ log[k] \notin Terminal
          /\ batch' = [batch EXCEPT ![r] = Tail(@)]
          /\ UNCHANGED conn
    /\ UNCHANGED <<received, drops>>

(* Mutant: the deadline is enforced anywhere in the loop.                    *)
DeadlineAnywhere(r) ==
    /\ conn[r] = "open"
    /\ conn' = [conn EXCEPT ![r] = "ended"]
    /\ batch' = [batch EXCEPT ![r] = << >>]
    /\ UNCHANGED <<cursor, wire, received, drops>>

(* MAX_STREAM_SECONDS: looked at before each read, and never true before the *)
(* first.                                                                    *)
Deadline(r) ==
    /\ conn[r] = "open" /\ batch[r] = << >>
    /\ conn' = [conn EXCEPT ![r] = "ended"]
    /\ UNCHANGED <<cursor, batch, wire, received, drops>>

Fail1 == drops < MaxDrops /\ drops' = drops + 1

(* stream.read raises: the response is cut.                                  *)
ReadFails(r) ==
    /\ AtLoopHead(r) /\ Fail1
    /\ conn' = [conn EXCEPT ![r] = "ended"]
    /\ UNCHANGED <<cursor, batch, wire, received>>

(* The network and the reader.                                               *)

Receive(r) ==
    /\ wire[r] # << >>
    /\ received' = [received EXCEPT ![r] = Append(@, Head(wire[r]))]
    /\ wire' = [wire EXCEPT ![r] = Tail(@)]
    /\ UNCHANGED <<conn, cursor, batch, drops>>

(* The connection is lost with all that is in flight.                        *)
Drop(r) ==
    /\ conn[r] \in {"opening", "open", "ended"} /\ Fail1
    /\ conn' = [conn EXCEPT ![r] = "idle"]
    /\ batch' = [batch EXCEPT ![r] = << >>]
    /\ wire' = [wire EXCEPT ![r] = << >>]
    /\ UNCHANGED <<cursor, received>>

EndSeen(r) ==
    /\ conn[r] = "ended" /\ wire[r] = << >>
    /\ conn' = [conn EXCEPT ![r] = "idle"]
    /\ UNCHANGED <<cursor, batch, wire, received, drops>>

Told(r) == \E i \in DOMAIN received[r] : log[received[r][i]] \in Terminal

(* A reader that was told the end may close its EventSource, or not.         *)
Leave(r) ==
    /\ Told(r) /\ conn[r] # "left"
    /\ conn' = [conn EXCEPT ![r] = "left"]
    /\ batch' = [batch EXCEPT ![r] = << >>]
    /\ wire' = [wire EXCEPT ![r] = << >>]
    /\ UNCHANGED <<cursor, received, drops>>

ReaderStep(r) ==
    \/ Connect(r) \/ Read(r) \/ Yield(r) \/ Deadline(r) \/ ReadFails(r)
    \/ Receive(r) \/ Drop(r) \/ EndSeen(r) \/ Leave(r)

-----------------------------------------------------------------------------
(* The worker's side, when this module is checked alone.                     *)
Publish(e) ==
    /\ Len(log) < MaxLog
    /\ log' = Append(log, e)
    /\ UNCHANGED <<gone, expired, readerVars>>

Trim ==
    /\ gone < Len(log) /\ expired < MaxExpiries
    /\ gone' = Len(log)
    /\ expired' = expired + 1
    /\ UNCHANGED <<log, readerVars>>

Next ==
    \/ \E e \in Event : Publish(e)
    \/ Trim
    \/ \E r \in Reader : ReaderStep(r) /\ UNCHANGED logVars

Spec == Init /\ [][Next]_vars

(* The event loop runs a generator whose read or send is done; an EventSource *)
(* reconnects.  Nothing is assumed of the deadline.                          *)
ReaderFairness(r) ==
    /\ WF_vars(Connect(r) /\ UNCHANGED logVars)
    /\ WF_vars(Read(r) /\ UNCHANGED logVars)
    /\ WF_vars(Yield(r) /\ UNCHANGED logVars)
    /\ WF_vars(Receive(r) /\ UNCHANGED logVars)
    /\ WF_vars(EndSeen(r) /\ UNCHANGED logVars)

FairSpec == Spec /\ \A r \in Reader : ReaderFairness(r)

-----------------------------------------------------------------------------
(* b is the next event after a for a reader of what is left.                 *)
Follows(a, b) == a < b /\ \A k \in (a + 1)..(b - 1) : k <= gone

(* The positions s are what such a reader gets after a.                      *)
ChainFrom(a, s) ==
    \A i \in 1..Len(s) : Follows(IF i = 1 THEN a ELSE s[i - 1], s[i])

(* Whatever is lost, cut or retried, over all its connections a reader       *)
(* receives the events from the first on, in order, each once, and misses    *)
(* only events that expired (_stream_events, Last-Event-ID).                 *)
ReceivedInOrder == \A r \in Reader : ChainFrom(0, received[r])

(* A response holds at most one terminal event, as its last.                 *)
TerminalEndsResponse ==
    \A r \in Reader : \A i \in DOMAIN wire[r] :
        log[wire[r][i]] \in Terminal =>
            i = Len(wire[r]) /\ batch[r] = << >> /\ conn[r] = "ended"

(* An event that stays in the stream reaches every reader that has not       *)
(* closed its EventSource, though responses keep running into the deadline.  *)
AllReachReaders ==
    \A r \in Reader : \A k \in 1..MaxLog :
        (k <= Len(log)) ~> (LastEventId(r) >= k \/ gone >= k \/ conn[r] = "left")

=============================================================================
