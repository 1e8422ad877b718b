-------------------------- MODULE ScanGuardProofs --------------------------
(***************************************************************************)
(* The sliding window of ScanRateLimiter is exact, for every limit and      *)
(* every window.  The deque is related to the history of admissions: it is  *)
(* a suffix of it, and whatever was popped is older than the window, then   *)
(* and ever after.                                                          *)
(*                                                                         *)
(* Over restarts, which forget that history, the number of those that ever  *)
(* passed is bounded by a rate: it is kept beside the times of the present  *)
(* process.                                                                 *)
(***************************************************************************)
EXTENDS ScanGuard, WellFoundedInduction, FiniteSetTheorems, SequenceTheorems, TLAPS

LEMMA LeastNumber ==
    ASSUME NEW T, T \subseteq Nat, T # {}
    PROVE  \E m \in T : \A n \in T : m <= n
<1> DEFINE R == OpToRel(<, Nat)
<1>1. IsWellFoundedOn(R, Nat)
  BY NatLessThanWellFounded
<1>2. \E m \in T : \A n \in T : ~(<<n, m>> \in R)
  <2> HIDE DEF R
  <2> QED
    BY <1>1, WFMin
<1>3. \A m \in T, n \in T : n < m => <<n, m>> \in R
  BY DEF OpToRel
<1>4. PICK m \in T : \A n \in T : ~(<<n, m>> \in R)
  BY <1>2
<1>5. \A n \in T : ~(n < m)
  BY <1>3, <1>4
<1>6. \A n \in T : m <= n
  BY <1>5
<1> QED
  BY <1>4, <1>6

(* The loop stops: FirstFresh is a position, everything before it is too old *)
(* and what it points at, if anything, is not.                               *)
LEMMA FirstFreshExists ==
    ASSUME NEW q \in Seq(Nat), NEW t \in Nat
    PROVE  /\ FirstFresh(q, t) \in 1..(Len(q) + 1)
           /\ Stays(q, t, FirstFresh(q, t))
           /\ \A j \in 1..(FirstFresh(q, t) - 1) : ~Stays(q, t, j)
<1> DEFINE T == {k \in 1..(Len(q) + 1) : Stays(q, t, k)}
<1>1. Len(q) + 1 \in T /\ Len(q) \in Nat
  BY LenProperties DEF Stays
<1>2. T \subseteq Nat /\ T # {}
  BY <1>1
<1>3. PICK m \in T : \A n \in T : m <= n
  <2> HIDE DEF T
  <2> QED
    BY <1>2, LeastNumber
<1>4. m \in 1..(Len(q) + 1) /\ Stays(q, t, m)
  OBVIOUS
<1>5. \A j \in 1..(m - 1) : ~Stays(q, t, j)
  BY <1>1, <1>3, <1>4
<1> QED
  BY <1>4, <1>5 DEF FirstFresh

-----------------------------------------------------------------------------
(* Deque q tracks the admissions a at time t.                               *)
Tracks(q, a, t) ==
    /\ Len(q) <= MaxScans /\ Len(q) <= Len(a)
    /\ \A i \in 1..Len(q) : q[i] = a[Len(a) - Len(q) + i]
    /\ \A i \in 1..(Len(a) - Len(q)) : t - a[i] > Window
    /\ \A i \in 1..Len(a) : a[i] <= t
    /\ \A i, j \in 1..Len(a) : i <= j => a[i] <= a[j]
    /\ Spaced(a)

(* Popping keeps it, and leaves first a hit that is within the window.      *)
LEMMA PopTracks ==
    ASSUME NEW q \in Seq(Nat), NEW a \in Seq(Nat), NEW t \in Nat, Tracks(q, a, t)
    PROVE  /\ Fresh(q, t) \in Seq(Nat)
           /\ Tracks(Fresh(q, t), a, t)
           /\ Len(Fresh(q, t)) > 0 => t - Fresh(q, t)[1] <= Window
<1> DEFINE k == FirstFresh(q, t)
           f == Fresh(q, t)
           n == Len(a)
           h == Len(q)
<1>1. n \in Nat /\ h \in Nat
  BY LenProperties
<1>2. k \in 1..(h + 1) /\ Stays(q, t, k) /\ \A j \in 1..(k - 1) : ~Stays(q, t, j)
  BY FirstFreshExists
<1> HIDE DEF k
<1>3. /\ f \in Seq(Nat)
      /\ Len(f) = h - k + 1
      /\ \A i \in 1..(h - k + 1) : f[i] = q[k + i - 1]
  <2>1. k \in Int /\ h \in Int /\ k <= h + 1
    BY <1>1, <1>2
  <2>2. \A i \in k..h : q[i] \in Nat
    BY <1>1, <1>2, <2>1
  <2>3. f = SubSeq(q, k, h)
    BY DEF Fresh, k
  <2> HIDE DEF f, h
  <2>4. /\ SubSeq(q, k, h) \in Seq(Nat)
        /\ Len(SubSeq(q, k, h)) = IF k <= h THEN h - k + 1 ELSE 0
        /\ \A i \in 1..(h - k + 1) : SubSeq(q, k, h)[i] = q[k + i - 1]
    BY <2>1, <2>2, SubSeqProperties
  <2>5. h - k + 1 = IF k <= h THEN h - k + 1 ELSE 0
    BY <2>1
  <2> QED
    BY <2>3, <2>4, <2>5
<1> HIDE DEF f
<1>4. Len(f) <= MaxScans /\ Len(f) <= n
  BY <1>1, <1>2, <1>3, LimiterAssumption DEF Tracks
<1>5. \A i \in 1..Len(f) : f[i] = a[n - Len(f) + i]
  <2> SUFFICES ASSUME NEW i \in 1..Len(f)
               PROVE  f[i] = a[n - Len(f) + i]
    OBVIOUS
  <2>0. k \in Int /\ 1 <= k /\ k <= h + 1 /\ i \in 1..(h - k + 1)
    BY <1>1, <1>2, <1>3
  <2>1. f[i] = q[k + i - 1] /\ k + i - 1 \in 1..h
    BY <1>1, <1>3, <2>0
  <2>2. q[k + i - 1] = a[n - h + (k + i - 1)]
    BY <2>1 DEF Tracks
  <2>3. n - h + (k + i - 1) = n - Len(f) + i
    BY <1>1, <1>2, <1>3
  <2> QED
    BY <2>1, <2>2, <2>3
<1>6. \A i \in 1..(n - Len(f)) : t - a[i] > Window
  <2> SUFFICES ASSUME NEW i \in 1..(n - Len(f))
               PROVE  t - a[i] > Window
    OBVIOUS
  <2>1. CASE i <= n - h
    BY <1>1, <2>1 DEF Tracks
  <2>2. CASE i > n - h
    <3>1. i - (n - h) \in 1..(k - 1) /\ i - (n - h) \in 1..h
      BY SMTT(30), <1>1, <1>2, <1>3, <2>2
    <3>2. q[i - (n - h)] = a[i]
      <4>1. q[i - (n - h)] = a[n - h + (i - (n - h))]
        BY <3>1 DEF Tracks
      <4> QED
        BY <4>1, <1>1
    <3>3. t - q[i - (n - h)] > Window
      <4>1. q[i - (n - h)] \in Nat
        BY <3>1, ElementOfSeq
      <4>2. ~Stays(q, t, i - (n - h))
        BY <1>2, <3>1
      <4>3. ~(t - q[i - (n - h)] <= Window)
        BY <4>2 DEF Stays
      <4>4. \A x \in Nat : ~(t - x <= Window) => t - x > Window
        BY LimiterAssumption
      <4> QED
        BY <4>1, <4>3, <4>4
    <3> QED
      BY <3>2, <3>3
  <2> QED
    BY <1>1, <2>1, <2>2
<1>7. Len(f) > 0 => t - f[1] <= Window
  <2> SUFFICES ASSUME Len(f) > 0
               PROVE  t - f[1] <= Window
    OBVIOUS
  <2>1. k # h + 1 /\ f[1] = q[k]
    BY SMTT(30), <1>1, <1>2, <1>3
  <2> QED
    BY <1>2, <2>1 DEF Stays
<1>8. Tracks(f, a, t)
  BY <1>4, <1>5, <1>6 DEF Tracks
<1> QED
  BY <1>3, <1>7, <1>8 DEF f

(* An admission keeps it: MaxScans admissions ago is a time that was popped. *)
LEMMA AdmitTracks ==
    ASSUME NEW q \in Seq(Nat), NEW a \in Seq(Nat), NEW t \in Nat,
           Tracks(q, a, t), Len(q) < MaxScans
    PROVE  Tracks(Append(q, t), Append(a, t), t)
<1> DEFINE n == Len(a)
           h == Len(q)
           b == Append(a, t)
           p == Append(q, t)
<1>1. n \in Nat /\ h \in Nat
  BY LenProperties
<1>2. /\ b \in Seq(Nat) /\ Len(b) = n + 1 /\ b[n + 1] = t
      /\ \A i \in 1..n : b[i] = a[i]
  BY AppendProperties
<1>3. /\ p \in Seq(Nat) /\ Len(p) = h + 1 /\ p[h + 1] = t
      /\ \A i \in 1..h : p[i] = q[i]
  BY AppendProperties
<1> HIDE DEF b, p
<1>4. Len(p) <= MaxScans /\ Len(p) <= Len(b)
  BY <1>1, <1>2, <1>3, LimiterAssumption DEF Tracks
<1>5. \A i \in 1..Len(p) : p[i] = b[Len(b) - Len(p) + i]
  <2>0. Len(b) - Len(p) = n - h
    BY <1>1, <1>2, <1>3
  <2> SUFFICES ASSUME NEW i \in 1..(h + 1)
               PROVE  p[i] = b[n - h + i]
    BY <1>3, <2>0
  <2>1. CASE i = h + 1
    BY <1>1, <1>2, <1>3, <2>1
  <2>2. CASE i \in 1..h
    <3>1. n - h + i \in 1..n
      BY <1>1, <2>2 DEF Tracks
    <3>2. q[i] = a[n - h + i]
      BY <2>2 DEF Tracks
    <3> QED
      BY <1>2, <1>3, <2>2, <3>1, <3>2
  <2> QED
    BY <1>1, <2>1, <2>2
<1>6. \A i \in 1..(Len(b) - Len(p)) : t - b[i] > Window
  <2>1. Len(b) - Len(p) = n - h
    BY <1>1, <1>2, <1>3
  <2> SUFFICES ASSUME NEW i \in 1..(n - h)
               PROVE  t - b[i] > Window
    BY <2>1
  <2>2. i \in 1..n
    BY <1>1
  <2>3. t - a[i] > Window
    BY DEF Tracks
  <2> QED
    BY <1>2, <2>2, <2>3
<1>7. \A i \in 1..Len(b) : b[i] <= t
  <2> SUFFICES ASSUME NEW i \in 1..(n + 1)
               PROVE  b[i] <= t
    BY <1>2
  <2>1. CASE i = n + 1
    BY <1>2, <2>1
  <2>2. CASE i \in 1..n
    <3>1. a[i] <= t
      BY <2>2 DEF Tracks
    <3> QED
      BY <1>2, <2>2, <3>1
  <2> QED
    BY <1>1, <2>1, <2>2
<1>8. \A i, j \in 1..Len(b) : i <= j => b[i] <= b[j]
  <2> SUFFICES ASSUME NEW i \in 1..Len(b), NEW j \in 1..Len(b), i <= j
               PROVE  b[i] <= b[j]
    OBVIOUS
  <2>1. CASE j = n + 1
    BY <1>2, <1>7, <2>1
  <2>2. CASE j \in 1..n
    <3>1. i \in 1..n
      BY <1>1, <1>2, <2>2
    <3>2. a[i] <= a[j]
      BY <2>2, <3>1 DEF Tracks
    <3> QED
      BY <1>2, <2>2, <3>1, <3>2
  <2> QED
    BY <1>1, <1>2, <2>1, <2>2
<1>9. Spaced(b)
  <2> SUFFICES ASSUME NEW i \in 1..(n + 1), i + MaxScans <= n + 1
               PROVE  b[i + MaxScans] - b[i] > Window
    BY <1>2 DEF Spaced
  <2>1. CASE i + MaxScans = n + 1
    <3>1. i \in 1..(n - h) /\ i \in 1..n
      BY SMTT(30), <1>1, <1>2, <2>1, LimiterAssumption
    <3>2. t - a[i] > Window
      BY <3>1 DEF Tracks
    <3> QED
      BY <1>2, <2>1, <3>1, <3>2
  <2>2. CASE i + MaxScans <= n
    <3>1. i \in 1..n /\ i + MaxScans \in 1..n
      BY <1>1, <1>2, <2>2, LimiterAssumption
    <3>2. a[i + MaxScans] - a[i] > Window
      BY <2>2, <3>1 DEF Tracks, Spaced
    <3> QED
      BY <1>2, <3>1, <3>2
  <2> QED
    <3>1. i + MaxScans = n + 1 \/ i + MaxScans <= n
      BY SMTT(30), <1>1, LimiterAssumption
    <3> QED
      BY <2>1, <2>2, <3>1
<1> QED
  BY <1>4, <1>5, <1>6, <1>7, <1>8, <1>9 DEF Tracks, b, p

(* Time only makes the popped hits older.                                   *)
LEMMA TickTracks ==
    ASSUME NEW q \in Seq(Nat), NEW a \in Seq(Nat), NEW t \in Nat, Tracks(q, a, t)
    PROVE  Tracks(q, a, t + 1)
<1>1. \A i \in 1..Len(a) : a[i] \in Nat
  BY ElementOfSeq
<1>2. Len(a) \in Nat /\ Len(q) \in Nat
  BY LenProperties
<1>3. \A i \in 1..(Len(a) - Len(q)) : (t + 1) - a[i] > Window
  <2> SUFFICES ASSUME NEW i \in 1..(Len(a) - Len(q))
               PROVE  (t + 1) - a[i] > Window
    OBVIOUS
  <2>1. a[i] \in Nat
    BY <1>1, <1>2
  <2>2. t - a[i] > Window
    BY DEF Tracks
  <2> QED
    BY <2>1, <2>2, LimiterAssumption
<1>4. \A i \in 1..Len(a) : a[i] <= t + 1
  <2> SUFFICES ASSUME NEW i \in 1..Len(a)
               PROVE  a[i] <= t + 1
    OBVIOUS
  <2>1. a[i] <= t
    BY DEF Tracks
  <2> QED
    BY <1>1, <2>1
<1>5. /\ Len(q) <= MaxScans /\ Len(q) <= Len(a)
      /\ \A i \in 1..Len(q) : q[i] = a[Len(a) - Len(q) + i]
      /\ \A i, j \in 1..Len(a) : i <= j => a[i] <= a[j]
      /\ Spaced(a)
  BY DEF Tracks
<1> QED
  BY <1>3, <1>4, <1>5 DEF Tracks

-----------------------------------------------------------------------------
(* The inductive invariant.                                                 *)
LimiterInv ==
    /\ TypeOK
    /\ \A c \in Client : Tracks(hits[c], admitted[c], now)

LEMMA EmptyTracks ==
    ASSUME NEW t \in Nat
    PROVE  Tracks(<< >>, << >>, t)
<1>1. Len(<< >>) = 0
  BY EmptySeq
<1> QED
  BY <1>1, LimiterAssumption DEF Tracks, Spaced

LEMMA InitLimiter == Init => LimiterInv
<1> SUFFICES ASSUME Init
             PROVE  LimiterInv
  OBVIOUS
<1>1. TypeOK
  BY EmptySeq, BoundsAssumption DEF Init, TypeOK, Place, Rejected
<1>2. ASSUME NEW c \in Client
      PROVE  Tracks(hits[c], admitted[c], now)
  <2>1. hits[c] = << >> /\ admitted[c] = << >> /\ now = 0
    BY DEF Init
  <2> QED
    BY <2>1, EmptyTracks
<1> QED
  BY <1>1, <1>2 DEF LimiterInv

LEMMA ArriveLimiter ==
    ASSUME LimiterInv, NEW r \in Request, NEW c \in Client, Arrive(r, c)
    PROVE  LimiterInv'
<1> DEFINE fresh == Fresh(hits[c], now)
<1>1. /\ hits[c] \in Seq(Nat) /\ admitted[c] \in Seq(Nat) /\ now \in Nat
      /\ Tracks(hits[c], admitted[c], now)
  BY DEF LimiterInv, TypeOK
<1>2. fresh \in Seq(Nat) /\ Tracks(fresh, admitted[c], now)
  BY <1>1, PopTracks
<1>3. Append(fresh, now) \in Seq(Nat) /\ Append(admitted[c], now) \in Seq(Nat)
  BY <1>1, <1>2, AppendProperties
<1> HIDE DEF fresh
<1>4. now' = now /\ restarts' = restarts
  BY DEF Arrive
<1>5. client' \in [Request -> Client \cup {NoClient}]
  BY DEF Arrive, LimiterInv, TypeOK
<1>6. CASE /\ hits' = [hits EXCEPT ![c] = fresh]
           /\ place' = [place EXCEPT ![r] = "refused429"]
           /\ admitted' = admitted
  <2>1. TypeOK'
    BY <1>2, <1>4, <1>5, <1>6 DEF LimiterInv, TypeOK, Place, Rejected
  <2>2. ASSUME NEW d \in Client
        PROVE  Tracks(hits'[d], admitted'[d], now')
    <3>1. CASE d = c
      BY <1>2, <1>4, <1>6, <3>1 DEF LimiterInv, TypeOK
    <3>2. CASE d # c
      BY <1>4, <1>6, <3>2 DEF LimiterInv, TypeOK
    <3> QED
      BY <3>1, <3>2
  <2> QED
    BY <2>1, <2>2 DEF LimiterInv
<1>7. CASE /\ Len(fresh) < MaxScans
           /\ hits' = [hits EXCEPT ![c] = Append(fresh, now)]
           /\ admitted' = [admitted EXCEPT ![c] = Append(@, now)]
           /\ place' = [place EXCEPT ![r] = "resolving"]
  <2>1. TypeOK'
    BY <1>1, <1>3, <1>4, <1>5, <1>7 DEF LimiterInv, TypeOK, Place, Rejected
  <2>2. ASSUME NEW d \in Client
        PROVE  Tracks(hits'[d], admitted'[d], now')
    <3>1. CASE d = c
      <4>1. hits'[d] = Append(fresh, now) /\ admitted'[d] = Append(admitted[c], now)
        BY <1>7, <3>1 DEF LimiterInv, TypeOK
      <4>2. Tracks(Append(fresh, now), Append(admitted[c], now), now)
        BY <1>1, <1>2, <1>7, AdmitTracks
      <4> QED
        BY <1>4, <4>1, <4>2
    <3>2. CASE d # c
      BY <1>4, <1>7, <3>2 DEF LimiterInv, TypeOK
    <3> QED
      BY <3>1, <3>2
  <2> QED
    BY <2>1, <2>2 DEF LimiterInv
<1> QED
  BY <1>6, <1>7 DEF Arrive, fresh

LEMMA ResolveLimiter ==
    ASSUME LimiterInv, NEW r \in Request, Resolve(r)
    PROVE  LimiterInv'
<1>1. hits' = hits /\ admitted' = admitted /\ now' = now
  BY DEF Resolve
<1>2. \A c \in Client : Tracks(hits'[c], admitted'[c], now')
  BY <1>1 DEF LimiterInv
<1>3. /\ place' \in [Request -> Place]
      /\ client' = client /\ restarts' = restarts
  BY DEF Resolve, LimiterInv, TypeOK, Place, Rejected
<1>4. TypeOK'
  BY <1>1, <1>3 DEF LimiterInv, TypeOK
<1> QED
  BY <1>2, <1>4 DEF LimiterInv

LEMMA RestartLimiter ==
    ASSUME LimiterInv, Restart
    PROVE  LimiterInv'
<1>1. TypeOK'
  BY EmptySeq DEF Restart, LimiterInv, TypeOK, Place, Rejected
<1>2. ASSUME NEW c \in Client
      PROVE  Tracks(hits'[c], admitted'[c], now')
  <2>1. hits'[c] = << >> /\ admitted'[c] = << >> /\ now' \in Nat
    BY DEF Restart, LimiterInv, TypeOK
  <2> QED
    BY <2>1, EmptyTracks
<1> QED
  BY <1>1, <1>2 DEF LimiterInv

LEMMA TickLimiter ==
    ASSUME LimiterInv, Tick
    PROVE  LimiterInv'
<1>1. TypeOK'
  BY DEF Tick, LimiterInv, TypeOK
<1>2. ASSUME NEW c \in Client
      PROVE  Tracks(hits'[c], admitted'[c], now')
  <2>1. hits[c] \in Seq(Nat) /\ admitted[c] \in Seq(Nat) /\ now \in Nat
    BY DEF LimiterInv, TypeOK
  <2>2. Tracks(hits[c], admitted[c], now + 1)
    BY <2>1, TickTracks DEF LimiterInv
  <2> QED
    BY <2>2 DEF Tick
<1> QED
  BY <1>1, <1>2 DEF LimiterInv

LEMMA LimiterStep == LimiterInv /\ [Next]_vars => LimiterInv'
<1> SUFFICES ASSUME LimiterInv, [Next]_vars
             PROVE  LimiterInv'
  OBVIOUS
<1>1. ASSUME NEW r \in Request, NEW c \in Client, Arrive(r, c)
      PROVE  LimiterInv'
  BY <1>1, ArriveLimiter
<1>2. ASSUME NEW r \in Request, Resolve(r)
      PROVE  LimiterInv'
  BY <1>2, ResolveLimiter
<1>3. CASE Restart
  BY <1>3, RestartLimiter
<1>4. CASE Tick
  BY <1>4, TickLimiter
<1>5. CASE UNCHANGED vars
  BY <1>5 DEF vars, LimiterInv, TypeOK
<1> QED
  BY <1>1, <1>2, <1>3, <1>4, <1>5 DEF Next

LEMMA LimiterInvariant == Spec => []LimiterInv
<1> QED
  BY InitLimiter, LimiterStep, PTL DEF Spec

(* Every reachable state of the guard is well typed.                         *)
THEOREM GuardTyped == Spec => []TypeOK
<1>1. LimiterInv => TypeOK
  BY DEF LimiterInv
<1> QED
  BY <1>1, LimiterInvariant, PTL

(* For every limit and window, no window ever holds more than MaxScans       *)
(* requests of a client that ScanRateLimiter.check let pass.                 *)
THEOREM WindowIsNeverExceeded == Spec => []SlidingWindow
<1>1. LimiterInv => SlidingWindow
  BY DEF LimiterInv, SlidingWindow, Tracks
<1> QED
  BY <1>1, LimiterInvariant, PTL

(* For every limit and window, check refuses a client only when its last     *)
(* MaxScans admitted requests all lie in the window.                         *)
THEOREM NobodyIsRefusedEarly == Spec => RefusedOnlyWhenFull
<1> DEFINE Refusal(r) == place'[r] = "refused429" /\ place[r] # "refused429"
           Full(r) == LET mine == admitted[client'[r]] IN
                      /\ Len(mine) >= MaxScans
                      /\ now - mine[Len(mine) - MaxScans + 1] <= Window
<1>1. ASSUME LimiterInv, Next, NEW r \in Request, Refusal(r)
      PROVE  Full(r)
  <2>1. PICK c \in Client : Arrive(r, c)
    <3>1. ASSUME NEW s \in Request, NEW c \in Client, Arrive(s, c), s # r
          PROVE  FALSE
      BY <1>1, <3>1 DEF Arrive, LimiterInv, TypeOK
    <3>2. ASSUME NEW s \in Request, Resolve(s)
          PROVE  FALSE
      BY <1>1, <3>2 DEF Resolve, Rejected, LimiterInv, TypeOK
    <3>3. ~Restart /\ ~Tick
      BY <1>1 DEF Restart, Tick
    <3> QED
      BY <1>1, <3>1, <3>2, <3>3 DEF Next
  <2> DEFINE mine == admitted[c]
             fresh == Fresh(hits[c], now)
  <2>2. hits[c] \in Seq(Nat) /\ mine \in Seq(Nat) /\ now \in Nat
    BY <1>1 DEF LimiterInv, TypeOK
  <2>3. /\ fresh \in Seq(Nat) /\ Tracks(fresh, mine, now)
        /\ Len(fresh) > 0 => now - fresh[1] <= Window
    BY <1>1, <2>2, PopTracks DEF LimiterInv
  <2>4. Len(fresh) >= MaxScans /\ client'[r] = c
    BY <1>1, <2>1 DEF Arrive, LimiterInv, TypeOK
  <2> HIDE DEF fresh
  <2>5. Len(fresh) \in Nat /\ Len(mine) \in Nat
    BY <2>2, <2>3, LenProperties
  <2>6. Len(fresh) = MaxScans /\ Len(mine) >= MaxScans
    BY <2>3, <2>4, <2>5, LimiterAssumption DEF Tracks
  <2>7. fresh[1] = mine[Len(mine) - MaxScans + 1]
    BY <2>3, <2>5, <2>6, LimiterAssumption DEF Tracks
  <2>8. now - fresh[1] <= Window
    BY <2>3, <2>6, LimiterAssumption
  <2> QED
    BY <2>4, <2>6, <2>7, <2>8
<1>2. LimiterInv /\ [Next]_vars =>
        [\A r \in Request : Refusal(r) => Full(r)]_vars
  BY <1>1
<1>3. Spec => [][\A r \in Request : Refusal(r) => Full(r)]_vars
  BY <1>2, LimiterInvariant, PTL DEF Spec
<1> QED
  BY <1>3 DEF RefusedOnlyWhenFull

-----------------------------------------------------------------------------
(* The rate over restarts.  The k-th time the limit is used up, counting a   *)
(* whole limit for each restart, is k windows after the start at least:      *)
(* b requests passed before the process started, a are the times of those    *)
(* that passed since, e is the number of restarts.                           *)
Rated(b, a, e, t) ==
    /\ \A k \in Nat, i \in 1..Len(a) : b + i > (k + e) * MaxScans => a[i] >= k * (Window + 1)
    /\ \A k \in Nat : b + MaxScans > (k + e) * MaxScans => t >= k * (Window + 1)

LEMMA EmptyRated ==
    ASSUME NEW t \in Nat
    PROVE  Rated(0, << >>, 0, t)
<1>1. ASSUME NEW k \in Nat, MaxScans > k * MaxScans PROVE k = 0
  <2>1. CASE k >= 1
    <3>1. PICK j \in Nat : k = j + 1
      BY <2>1
    <3>2. k * MaxScans = j * MaxScans + MaxScans /\ j * MaxScans \in Nat
      BY <3>1, LimiterAssumption
    <3> QED
      BY <1>1, <3>2, LimiterAssumption
  <2> QED
    BY <2>1
<1>2. ASSUME NEW k \in Nat, 0 + MaxScans > (k + 0) * MaxScans PROVE t >= k * (Window + 1)
  <2>1. k = 0
    BY <1>1, <1>2, LimiterAssumption
  <2> QED
    BY <2>1, LimiterAssumption
<1>3. Len(<< >>) = 0
  BY EmptySeq
<1> QED
  BY <1>2, <1>3 DEF Rated

(* One more passes: the one that passed MaxScans before it did so more than  *)
(* a window ago, and before the first MaxScans there is the restart.         *)
LEMMA AdmitRated ==
    ASSUME NEW b \in Nat, NEW a \in Seq(Nat), NEW e \in Nat, NEW t \in Nat,
           Rated(b, a, e, t), Spaced(Append(a, t))
    PROVE  Rated(b, Append(a, t), e, t)
<1> DEFINE n == Len(a)
           s == Append(a, t)
<1>1. n \in Nat /\ Len(s) = n + 1 /\ s[n + 1] = t /\ \A i \in 1..n : s[i] = a[i]
  BY LenProperties, AppendProperties
<1>2. \A i \in 1..n : a[i] \in Nat
  BY ElementOfSeq
<1> HIDE DEF n, s
<1>3. MaxScans \in Nat /\ MaxScans > 0 /\ Window \in Nat
  BY LimiterAssumption
<1>4. ASSUME NEW k \in Nat, b + (n + 1) > (k + e) * MaxScans
      PROVE  t >= k * (Window + 1)
  <2>1. CASE n + 1 <= MaxScans
    <3>1. (k + e) * MaxScans \in Nat
      BY <1>3
    <3>2. b + MaxScans > (k + e) * MaxScans
      BY <1>1, <1>3, <1>4, <2>1, <3>1
    <3> QED
      BY <3>2 DEF Rated
  <2>2. CASE n + 1 > MaxScans /\ k = 0
    BY <1>3, <2>2
  <2>3. CASE n + 1 > MaxScans /\ k # 0
    <3>1. PICK j \in Nat : k = j + 1
      BY <2>3
    <3>2. PICK i \in 1..n : i = n + 1 - MaxScans
      BY <1>1, <1>3, <2>3
    <3>3. (k + e) * MaxScans = (j + e) * MaxScans + MaxScans /\ (j + e) * MaxScans \in Nat
      BY <1>3, <3>1
    <3>4. b + i > (j + e) * MaxScans
      BY <1>1, <1>3, <1>4, <3>2, <3>3
    <3>5. a[i] >= j * (Window + 1)
      BY <3>4 DEF Rated, n
    <3>6. t - a[i] > Window
      <4>1. i \in 1..Len(s) /\ i + MaxScans = n + 1 /\ i + MaxScans <= Len(s)
        BY <1>1, <1>3, <3>2
      <4>2. s[i + MaxScans] - s[i] > Window
        BY <4>1 DEF Spaced, s
      <4> QED
        BY <1>1, <3>2, <4>1, <4>2
    <3>7. k * (Window + 1) = j * (Window + 1) + (Window + 1) /\ j * (Window + 1) \in Nat
      BY <1>3, <3>1
    <3> QED
      BY <1>2, <1>3, <3>2, <3>5, <3>6, <3>7
  <2> QED
    BY <1>1, <1>3, <2>1, <2>2, <2>3
<1>5. ASSUME NEW k \in Nat, NEW i \in 1..(n + 1), b + i > (k + e) * MaxScans
      PROVE  s[i] >= k * (Window + 1)
  <2>1. CASE i = n + 1
    BY <1>1, <1>4, <1>5, <2>1
  <2>2. CASE i \in 1..n
    <3>1. a[i] >= k * (Window + 1)
      BY <1>5, <2>2 DEF Rated, n
    <3> QED
      BY <1>1, <2>2, <3>1
  <2> QED
    BY <1>1, <2>1, <2>2
<1>6. Rated(b, s, e, t)
  BY <1>1, <1>5 DEF Rated
<1> QED
  BY <1>6 DEF s

(* A restart forgets who passed, and counts as a limit that was used up.     *)
LEMMA RestartRated ==
    ASSUME NEW b \in Nat, NEW a \in Seq(Nat), NEW e \in Nat, NEW t \in Nat,
           Rated(b, a, e, t), \A i \in 1..Len(a) : a[i] <= t
    PROVE  Rated(b + Len(a), << >>, e + 1, t)
<1>1. Len(a) \in Nat /\ MaxScans \in Nat /\ MaxScans > 0 /\ Window \in Nat
  BY LenProperties, LimiterAssumption
<1>2. ASSUME NEW k \in Nat, (b + Len(a)) + MaxScans > (k + (e + 1)) * MaxScans
      PROVE  t >= k * (Window + 1)
  <2>1. (k + (e + 1)) * MaxScans = (k + e) * MaxScans + MaxScans /\ (k + e) * MaxScans \in Nat
    BY <1>1
  <2>2. b + Len(a) > (k + e) * MaxScans
    BY <1>1, <1>2, <2>1
  <2>3. CASE Len(a) = 0
    <3>1. b + MaxScans > (k + e) * MaxScans
      BY <1>1, <2>1, <2>2, <2>3
    <3> QED
      BY <3>1 DEF Rated
  <2>4. CASE Len(a) # 0
    <3>1. PICK i \in 1..Len(a) : i = Len(a)
      BY <1>1, <2>4
    <3>2. a[i] >= k * (Window + 1) /\ a[i] <= t /\ a[i] \in Nat
      BY <2>2, <3>1, ElementOfSeq DEF Rated
    <3>3. k * (Window + 1) \in Nat
      BY <1>1
    <3> QED
      BY <3>2, <3>3
  <2> QED
    BY <2>3, <2>4
<1>3. Len(<< >>) = 0
  BY EmptySeq
<1> QED
  BY <1>2, <1>3 DEF Rated

LEMMA TickRated ==
    ASSUME NEW b \in Nat, NEW a \in Seq(Nat), NEW e \in Nat, NEW t \in Nat, Rated(b, a, e, t)
    PROVE  Rated(b, a, e, t + 1)
<1>1. \A k \in Nat : k * (Window + 1) \in Nat
  BY LimiterAssumption
<1> QED
  BY <1>1 DEF Rated

LEMMA Quotient ==
    ASSUME NEW t \in Nat, NEW w \in Nat, w > 0
    PROVE  t \div w \in Nat /\ (t \div w + 1) * w > t
<1> DEFINE q == t \div w
           m == t % w
<1>1. q \in Nat /\ m \in Nat
  OBVIOUS
<1>2. m = t - w * q
  OBVIOUS
<1>3. m < w
  OBVIOUS
<1> HIDE DEF q, m
<1>4. (q + 1) * w > t
  <2>1. (q + 1) * w = w * q + w /\ w * q \in Nat
    BY <1>1
  <2> QED
    BY <1>1, <1>2, <1>3, <2>1
<1> QED
  BY <1>1, <1>4 DEF q

(* So many have passed by time t.                                            *)
LEMMA RateBound ==
    ASSUME NEW b \in Nat, NEW a \in Seq(Nat), NEW e \in Nat, NEW t \in Nat,
           Rated(b, a, e, t), \A i \in 1..Len(a) : a[i] <= t
    PROVE  b + Len(a) <= MaxScans * (t \div (Window + 1) + 1 + e)
<1> DEFINE w == Window + 1
           k == t \div w + 1
<1>1. Len(a) \in Nat /\ MaxScans \in Nat /\ w \in Nat /\ w > 0
  BY LenProperties, LimiterAssumption
<1>2. k \in Nat /\ k * w > t
  BY SMTT(30), <1>1, Quotient
<1>3. MaxScans * (t \div (Window + 1) + 1 + e) = (k + e) * MaxScans /\ (k + e) * MaxScans \in Nat
  <2>1. t \div (Window + 1) \in Nat
    BY <1>1
  <2> QED
    BY <1>1, <2>1
<1> HIDE DEF k
<1>4. ASSUME b + Len(a) > (k + e) * MaxScans
      PROVE  FALSE
  <2>1. CASE Len(a) = 0
    <3>1. b + MaxScans > (k + e) * MaxScans
      BY <1>1, <1>3, <1>4, <2>1, LimiterAssumption
    <3>2. t >= k * w
      BY <1>2, <3>1 DEF Rated
    <3> QED
      BY <1>1, <1>2, <3>2
  <2>2. CASE Len(a) # 0
    <3>1. PICK i \in 1..Len(a) : i = Len(a)
      BY <1>1, <2>2
    <3>2. a[i] >= k * w /\ a[i] <= t /\ a[i] \in Nat
      BY <1>2, <1>4, <3>1, ElementOfSeq DEF Rated
    <3>3. k * w \in Nat
      BY <1>1, <1>2
    <3> QED
      BY <1>2, <3>2, <3>3
  <2> QED
    BY <2>1, <2>2
<1> QED
  BY <1>1, <1>3, <1>4

-----------------------------------------------------------------------------
(* The requests of a client that passed the limiter, whatever became of them. *)
Passed(c) == {r \in Request : place[r] \notin {"new", "refused429"} /\ client[r] = c}

CountInv ==
    \E before \in [Client -> Nat] :
        \A c \in Client :
            /\ Cardinality(Passed(c)) <= before[c] + Len(admitted[c])
            /\ Rated(before[c], admitted[c], restarts, now)

LEMMA PassedFinite ==
    ASSUME NEW c
    PROVE  IsFiniteSet(Passed(c)) /\ Cardinality(Passed(c)) \in Nat
<1>1. Passed(c) \subseteq Request
  BY DEF Passed
<1> QED
  BY <1>1, RequestAssumption, FS_Subset, FS_CardinalityType

LEMMA InitCount == Init => CountInv
<1> SUFFICES ASSUME Init
             PROVE  CountInv
  OBVIOUS
<1> DEFINE b == [c \in Client |-> 0]
<1>1. ASSUME NEW c \in Client
      PROVE  /\ Cardinality(Passed(c)) <= b[c] + Len(admitted[c])
             /\ Rated(b[c], admitted[c], restarts, now)
  <2>1. Passed(c) = {}
    BY DEF Passed, Init
  <2>2. b[c] = 0 /\ admitted[c] = << >> /\ Len(admitted[c]) = 0 /\ restarts = 0 /\ now = 0
    BY EmptySeq DEF Init
  <2>3. Cardinality(Passed(c)) = 0
    BY <2>1, FS_EmptySet
  <2> QED
    BY <2>2, <2>3, EmptyRated
<1>2. b \in [Client -> Nat]
  OBVIOUS
<1> QED
  BY <1>1, <1>2 DEF CountInv

LEMMA ArriveCount ==
    ASSUME LimiterInv, LimiterInv', CountInv, NEW r \in Request, NEW c \in Client, Arrive(r, c)
    PROVE  CountInv'
<1>1. PICK b \in [Client -> Nat] : \A d \in Client :
          /\ Cardinality(Passed(d)) <= b[d] + Len(admitted[d])
          /\ Rated(b[d], admitted[d], restarts, now)
  BY DEF CountInv
<1>2. /\ admitted \in [Client -> Seq(Nat)] /\ now \in Nat /\ restarts \in Nat
      /\ place \in [Request -> Place] /\ client \in [Request -> Client \cup {NoClient}]
  BY DEF LimiterInv, TypeOK
<1>3. /\ now' = now /\ restarts' = restarts /\ place[r] = "new"
      /\ client' = [client EXCEPT ![r] = c]
  BY DEF Arrive
<1>4. \A q \in Request : q # r => client'[q] = client[q]
  BY <1>2, <1>3
<1>5. CASE place' = [place EXCEPT ![r] = "refused429"] /\ admitted' = admitted
  <2>1. \A d : Passed(d)' = Passed(d)
    BY <1>2, <1>3, <1>4, <1>5 DEF Passed
  <2> QED
    BY <1>1, <1>3, <1>5, <2>1 DEF CountInv
<1>6. CASE /\ place' = [place EXCEPT ![r] = "resolving"]
           /\ admitted' = [admitted EXCEPT ![c] = Append(@, now)]
  <2>1. ASSUME NEW d \in Client
        PROVE  /\ Cardinality(Passed(d)') <= b[d] + Len(admitted'[d])
               /\ Rated(b[d], admitted'[d], restarts', now')
    <3>1. CASE d # c
      <4>1. Passed(d)' = Passed(d) /\ admitted'[d] = admitted[d]
        BY <1>2, <1>3, <1>4, <1>6, <3>1 DEF Passed
      <4> QED
        BY <1>1, <1>3, <4>1
    <3>2. CASE d = c
      <4>1. Passed(c)' = Passed(c) \cup {r} /\ r \notin Passed(c)
        BY <1>2, <1>3, <1>4, <1>6 DEF Passed
      <4>2. Cardinality(Passed(c)') = Cardinality(Passed(c)) + 1
        BY <4>1, PassedFinite, FS_AddElement
      <4>3. admitted'[c] = Append(admitted[c], now)
        BY <1>2, <1>6
      <4>4. Len(admitted'[c]) = Len(admitted[c]) + 1 /\ Len(admitted[c]) \in Nat
        BY <1>2, <4>3, AppendProperties, LenProperties
      <4>5. Spaced(Append(admitted[c], now))
        BY <4>3 DEF LimiterInv, Tracks
      <4>6. Rated(b[c], Append(admitted[c], now), restarts, now)
        BY <1>1, <1>2, <4>5, AdmitRated
      <4> QED
        BY <1>1, <1>3, <3>2, <4>2, <4>3, <4>4, <4>6, PassedFinite
    <3> QED
      BY <3>1, <3>2
  <2> QED
    BY <2>1 DEF CountInv
<1> QED
  BY <1>5, <1>6 DEF Arrive

LEMMA RestartCount ==
    ASSUME LimiterInv, CountInv, Restart
    PROVE  CountInv'
<1>1. PICK b \in [Client -> Nat] : \A c \in Client :
          /\ Cardinality(Passed(c)) <= b[c] + Len(admitted[c])
          /\ Rated(b[c], admitted[c], restarts, now)
  BY DEF CountInv
<1>2. admitted \in [Client -> Seq(Nat)] /\ now \in Nat /\ restarts \in Nat
      /\ place \in [Request -> Place]
  BY DEF LimiterInv, TypeOK
<1> DEFINE b1 == [c \in Client |-> b[c] + Len(admitted[c])]
<1>3. b1 \in [Client -> Nat]
  <2>1. \A c \in Client : Len(admitted[c]) \in Nat
    BY <1>2, LenProperties
  <2> QED
    BY <2>1
<1>4. ASSUME NEW c \in Client
      PROVE  /\ Cardinality(Passed(c)') <= b1[c] + Len(admitted'[c])
             /\ Rated(b1[c], admitted'[c], restarts', now')
  <2>1. Passed(c)' = Passed(c)
    BY <1>2 DEF Passed, Restart
  <2>2. /\ admitted'[c] = << >> /\ Len(admitted'[c]) = 0 /\ now' = now
        /\ restarts' = restarts + 1
    BY EmptySeq DEF Restart
  <2>3. b1[c] = b[c] + Len(admitted[c]) /\ b1[c] \in Nat
    BY <1>3
  <2>4. \A i \in 1..Len(admitted[c]) : admitted[c][i] <= now
    BY DEF LimiterInv, Tracks
  <2>5. Rated(b[c] + Len(admitted[c]), << >>, restarts + 1, now)
    BY <1>1, <1>2, <2>4, RestartRated
  <2> HIDE DEF b1
  <2> QED
    BY <1>1, <2>1, <2>2, <2>3, <2>5
<1> HIDE DEF b1
<1> QED
  BY <1>3, <1>4 DEF CountInv

LEMMA CountStep ==
    ASSUME LimiterInv, LimiterInv', CountInv, [Next]_vars
    PROVE  CountInv'
<1>1. CASE Restart
  BY <1>1, RestartCount
<1>2. ASSUME NEW r \in Request, NEW c \in Client, Arrive(r, c)
      PROVE  CountInv'
  BY <1>2, ArriveCount
<1>3. CASE Tick
  <2>1. PICK b \in [Client -> Nat] : \A c \in Client :
            /\ Cardinality(Passed(c)) <= b[c] + Len(admitted[c])
            /\ Rated(b[c], admitted[c], restarts, now)
    BY DEF CountInv
  <2>2. /\ now' = now + 1 /\ UNCHANGED <<admitted, restarts>>
        /\ \A c : Passed(c)' = Passed(c)
    BY <1>3 DEF Tick, Passed
  <2>3. \A c \in Client : Rated(b[c], admitted[c], restarts, now + 1)
    BY <2>1, TickRated DEF LimiterInv, TypeOK
  <2> QED
    BY <2>1, <2>2, <2>3 DEF CountInv
<1>4. CASE UNCHANGED vars \/ \E r \in Request : Resolve(r)
  <2>1. /\ UNCHANGED <<now, admitted, restarts>>
        /\ \A c : Passed(c)' = Passed(c)
    BY <1>4 DEF vars, Resolve, Rejected, Passed, LimiterInv, TypeOK
  <2> QED
    BY <2>1 DEF CountInv
<1> QED
  BY <1>1, <1>2, <1>3, <1>4 DEF Next

(* For every limit, window and number of requests, whatever the resolver     *)
(* takes and however often the process restarts, the guard never accepts     *)
(* more of a client than MaxScans for each window begun since time 0 and for *)
(* each restart (guard_scan_target, ScanRateLimiter.check).                  *)
THEOREM AcceptedKeepRate == Spec => []AcceptedKeepTheRate
<1>1. Spec => []CountInv
  <2>1. LimiterInv /\ LimiterInv' /\ CountInv /\ [Next]_vars => CountInv'
    BY CountStep
  <2> QED
    BY <2>1, InitCount, LimiterInvariant, PTL DEF Spec
<1>2. LimiterInv /\ CountInv => AcceptedKeepTheRate
  <2> SUFFICES ASSUME LimiterInv, CountInv, NEW c \in Client
               PROVE  Cardinality(Accepted(c)) <=
                          MaxScans * (now \div (Window + 1) + 1 + restarts)
    BY DEF AcceptedKeepTheRate
  <2>1. PICK b \in Nat : /\ Cardinality(Passed(c)) <= b + Len(admitted[c])
                         /\ Rated(b, admitted[c], restarts, now)
    BY DEF CountInv
  <2>2. admitted[c] \in Seq(Nat) /\ now \in Nat /\ restarts \in Nat
    BY DEF LimiterInv, TypeOK
  <2>3. b + Len(admitted[c]) <= MaxScans * (now \div (Window + 1) + 1 + restarts)
    <3>1. \A i \in 1..Len(admitted[c]) : admitted[c][i] <= now
      BY DEF LimiterInv, Tracks
    <3> QED
      BY <2>1, <2>2, <3>1, RateBound
  <2>4. Cardinality(Accepted(c)) <= Cardinality(Passed(c)) /\ Cardinality(Accepted(c)) \in Nat
    <3>1. Accepted(c) \subseteq Passed(c)
      BY DEF Accepted, Passed
    <3> QED
      BY <3>1, PassedFinite, FS_Subset, FS_CardinalityType
  <2>5. Len(admitted[c]) \in Nat /\ MaxScans * (now \div (Window + 1) + 1 + restarts) \in Int
    <3>1. now \div (Window + 1) \in Nat
      BY <2>2, LimiterAssumption
    <3> QED
      BY <2>2, <3>1, LenProperties, LimiterAssumption
  <2> QED
    BY <2>1, <2>3, <2>4, <2>5, PassedFinite
<1> QED
  BY <1>1, <1>2, LimiterInvariant, PTL

=============================================================================
