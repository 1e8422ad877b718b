----------------------------- MODULE ScanGuard -----------------------------
(***************************************************************************)
(* guard_scan_target, in front of POST /scan/ and POST /scan/stream: the    *)
(* sliding window of ScanRateLimiter (in the memory of the API process),    *)
(* then the resolution of the target's name, awaited for as long as the     *)
(* resolver takes while other requests run; then the router goes on.  Time  *)
(* is in whole units.                                                       *)
(***************************************************************************)
EXTENDS Integers, Sequences, FiniteSets

CONSTANTS
    Client,    \* client addresses
    Request,   \* requests to come
    MaxScans,  \* ScanRateLimiter.max_scans
    Window,    \* ScanRateLimiter.window
    MaxTime,   \* bound of the model: the clock
    MaxRestarts, \* bound of the model: restarts of the API process
    NoClient

ASSUME LimiterAssumption == MaxScans \in Nat \ {0} /\ Window \in Nat
ASSUME RequestAssumption == IsFiniteSet(Request)
ASSUME BoundsAssumption == MaxTime \in Nat /\ MaxRestarts \in Nat
ASSUME ClientAssumption == NoClient \notin Client

VARIABLES
    now,       \* time.monotonic()
    hits,      \* _hits: the deque of each client
    admitted,  \* the times at which check let a client pass, since the start
    place,     \* where each request is
    client,    \* who sent it
    restarts

vars == <<now, hits, admitted, place, client, restarts>>

(* What the guard answers after the resolution, other than yes.              *)
Rejected == {"refused400", "refused422", "failed500"}
Place == {"new", "refused429", "resolving", "accepted", "lost"} \cup Rejected

TypeOK ==
    /\ now \in Nat
    /\ hits \in [Client -> Seq(Nat)]
    /\ admitted \in [Client -> Seq(Nat)]
    /\ place \in [Request -> Place]
    /\ client \in [Request -> Client \cup {NoClient}]
    /\ restarts \in Nat

Init ==
    /\ now = 0
    /\ hits = [c \in Client |-> << >>]
    /\ admitted = [c \in Client |-> << >>]
    /\ place = [r \in Request |-> "new"]
    /\ client = [r \in Request |-> NoClient]
    /\ restarts = 0

-----------------------------------------------------------------------------
(* Mutant: a hit exactly as old as the window is dropped.                    *)
StaysStrictly(q, t, k) == k = Len(q) + 1 \/ t - q[k] < Window

(* The popleft loop: what is left of deque q at time t starts with its first *)
(* hit that is not older than the window.                                    *)
Stays(q, t, k) == k = Len(q) + 1 \/ t - q[k] <= Window

FirstFresh(q, t) ==
    CHOOSE k \in 1..(Len(q) + 1) :
        Stays(q, t, k) /\ \A j \in 1..(k - 1) : ~Stays(q, t, j)

(* Mutant: nothing is ever dropped.                                          *)
FreshKeepingAll(q, t) == q

Fresh(q, t) == SubSeq(q, FirstFresh(q, t), Len(q))

(* Request r of client c reaches the guard: ScanRateLimiter.check.           *)
Arrive(r, c) ==
    LET fresh == Fresh(hits[c], now) IN
    /\ place[r] = "new"
    /\ client' = [client EXCEPT ![r] = c]
    /\ \/ /\ Len(fresh) >= MaxScans
          /\ hits' = [hits EXCEPT ![c] = fresh]
          /\ place' = [place EXCEPT ![r] = "refused429"]
          /\ UNCHANGED admitted
       \/ /\ Len(fresh) < MaxScans
          /\ hits' = [hits EXCEPT ![c] = Append(fresh, now)]
          /\ admitted' = [admitted EXCEPT ![c] = Append(@, now)]
          /\ place' = [place EXCEPT ![r] = "resolving"]
    /\ UNCHANGED <<now, restarts>>

(* Mutant: the deque of a client goes with its request, to save memory.      *)
ResolveForgetting(r) ==
    /\ place[r] = "resolving"
    /\ \E answer \in {"accepted"} \cup Rejected : place' = [place EXCEPT ![r] = answer]
    /\ hits' = [hits EXCEPT ![client[r]] = << >>]
    /\ UNCHANGED <<now, admitted, client, restarts>>

(* ensure_public_target ends: the target is not public (400), its name has   *)
(* no address (422), what the resolver raises is no gaierror, say a name it  *)
(* cannot encode (500), or the router goes on.  The hit stays counted.       *)
Resolve(r) ==
    /\ place[r] = "resolving"
    /\ \E answer \in {"accepted"} \cup Rejected : place' = [place EXCEPT ![r] = answer]
    /\ UNCHANGED <<now, hits, admitted, client, restarts>>

(* The API process restarts: the limiter and the requests in flight are gone. *)
Restart ==
    /\ restarts < MaxRestarts
    /\ restarts' = restarts + 1
    /\ hits' = [c \in Client |-> << >>]
    /\ admitted' = [c \in Client |-> << >>]
    /\ place' = [r \in Request |-> IF place[r] = "resolving" THEN "lost" ELSE place[r]]
    /\ UNCHANGED <<now, client>>

(* Mutant: time.time(), which may be set back.                               *)
TickWallClock ==
    /\ now < MaxTime
    /\ now' \in {now + 1, now - 1}
    /\ UNCHANGED <<hits, admitted, place, client, restarts>>

(* Time passes, whatever waits for the resolver.                             *)
Tick ==
    /\ now < MaxTime
    /\ now' = now + 1
    /\ UNCHANGED <<hits, admitted, place, client, restarts>>

Next ==
    \/ \E r \in Request, c \in Client : Arrive(r, c)
    \/ \E r \in Request : Resolve(r)
    \/ Restart
    \/ Tick

Spec == Init /\ [][Next]_vars

-----------------------------------------------------------------------------
(* No more than MaxScans of the times in q lie in any window.                *)
Spaced(q) ==
    \A i \in 1..Len(q) :
        i + MaxScans <= Len(q) => q[i + MaxScans] - q[i] > Window

(* The limiter forgets the hits it pops and counts refused targets, yet      *)
(* since the process started no window held more than MaxScans requests of   *)
(* a client that passed it (ScanRateLimiter.check).                          *)
SlidingWindow == \A c \in Client : Spaced(admitted[c])

(* The limiter counts a request before an awaited resolution of any length,  *)
(* so that what the guard accepts may bunch up behind a slow resolver; and a *)
(* restart forgets the window.  All told, the guard never accepts more of a  *)
(* client than MaxScans for each window since time 0, and MaxScans more for  *)
(* each restart (guard_scan_target).                                         *)
Accepted(c) == {r \in Request : place[r] = "accepted" /\ client[r] = c}

AcceptedKeepTheRate ==
    \A c \in Client :
        Cardinality(Accepted(c)) <= MaxScans * (now \div (Window + 1) + 1 + restarts)

(* A client is refused only for its own requests, the MaxScans last of which *)
(* are within the window: nobody else's, and none that is too old.           *)
RefusedOnlyWhenFull ==
    [][\A r \in Request :
         place'[r] = "refused429" /\ place[r] # "refused429" =>
             LET mine == admitted[client'[r]] IN
             /\ Len(mine) >= MaxScans
             /\ now - mine[Len(mine) - MaxScans + 1] <= Window]_vars

=============================================================================
