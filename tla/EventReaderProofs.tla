------------------------- MODULE EventReaderProofs -------------------------
(***************************************************************************)
(* Ordered delivery for every number of readers, size of a batch and number *)
(* of lost connections.  What is in flight continues what was received, and *)
(* what a generator holds continues what is in flight; a lost connection    *)
(* loses both, and the next one starts again from what was received.        *)
(***************************************************************************)
EXTENDS EventReader, SequenceTheorems, TLAPS

Positions == Nat \ {0}

(* The position after which s goes on, when it started after a.             *)
EndOf(a, s) == IF s = << >> THEN a ELSE s[Len(s)]

LEMMA ChainEmpty ==
    ASSUME NEW a \in Nat
    PROVE  ChainFrom(a, << >>) /\ EndOf(a, << >>) = a
  BY EmptySeq DEF ChainFrom, EndOf

LEMMA EndOfType ==
    ASSUME NEW a \in Nat, NEW s \in Seq(Positions)
    PROVE  EndOf(a, s) \in Nat
<1>1. CASE s = << >>
  BY <1>1 DEF EndOf
<1>2. CASE s # << >>
  <2>1. Len(s) \in 1..Len(s)
    BY <1>2, EmptySeq, LenProperties
  <2>2. s[Len(s)] \in Positions
    BY <2>1, ElementOfSeq
  <2> QED
    BY <1>2, <2>2 DEF EndOf, Positions
<1> QED
  BY <1>1, <1>2

LEMMA ChainAppend ==
    ASSUME NEW a \in Nat, NEW s \in Seq(Positions), NEW b \in Positions,
           ChainFrom(a, s), Follows(EndOf(a, s), b)
    PROVE  /\ Append(s, b) \in Seq(Positions)
           /\ ChainFrom(a, Append(s, b))
           /\ EndOf(a, Append(s, b)) = b
<1> DEFINE p == Append(s, b)
           n == Len(s)
<1>1. n \in Nat
  BY LenProperties
<1>2. /\ p \in Seq(Positions) /\ Len(p) = n + 1 /\ p[n + 1] = b
      /\ \A i \in 1..n : p[i] = s[i]
  BY AppendProperties
<1>3. s = << >> <=> n = 0
  BY EmptySeq
<1>4. p # << >>
  BY <1>1, <1>2, EmptySeq
<1> HIDE DEF p, n
<1>5. EndOf(a, p) = b
  BY <1>2, <1>4 DEF EndOf
<1>6. ASSUME NEW i \in 1..(n + 1)
      PROVE  Follows(IF i = 1 THEN a ELSE p[i - 1], p[i])
  <2>1. CASE i \in 1..n
    <3>1. p[i] = s[i] /\ (i # 1 => p[i - 1] = s[i - 1])
      BY <1>1, <1>2, <2>1
    <3>2. Follows(IF i = 1 THEN a ELSE s[i - 1], s[i])
      BY <2>1 DEF ChainFrom, n
    <3> QED
      BY <3>1, <3>2
  <2>2. CASE i = n + 1
    <3>1. (IF i = 1 THEN a ELSE p[i - 1]) = EndOf(a, s)
      <4>1. CASE n = 0
        BY <1>3, <2>2, <4>1 DEF EndOf
      <4>2. CASE n # 0
        <5>1. i # 1 /\ i - 1 = n /\ n \in 1..n
          BY <1>1, <2>2, <4>2
        <5>2. s # << >>
          BY <1>3, <4>2
        <5> QED
          BY <1>2, <5>1, <5>2 DEF EndOf, n
      <4> QED
        BY <4>1, <4>2
    <3> QED
      BY <1>2, <2>2, <3>1
  <2> QED
    BY <1>1, <2>1, <2>2
<1> QED
  BY <1>2, <1>5, <1>6 DEF ChainFrom, p

LEMMA ChainTail ==
    ASSUME NEW a \in Nat, NEW s \in Seq(Positions), s # << >>, ChainFrom(a, s)
    PROVE  /\ Head(s) \in Positions /\ Tail(s) \in Seq(Positions)
           /\ Follows(a, Head(s))
           /\ ChainFrom(Head(s), Tail(s))
           /\ EndOf(Head(s), Tail(s)) = EndOf(a, s)
<1> DEFINE u == Tail(s)
           n == Len(s)
<1>1. n \in Nat \ {0}
  BY EmptySeq, LenProperties
<1>2. Head(s) = s[1] /\ Head(s) \in Positions
  BY <1>1, HeadTailProperties, ElementOfSeq
<1>3. u \in Seq(Positions) /\ Len(u) = n - 1 /\ \A i \in 1..(n - 1) : u[i] = s[i + 1]
  BY HeadTailProperties
<1> HIDE DEF u, n
<1>4. u = << >> <=> n = 1
  BY <1>1, <1>3, EmptySeq
<1>5. Follows(a, Head(s))
  BY <1>1, <1>2 DEF ChainFrom, n
<1>6. ASSUME NEW i \in 1..(n - 1)
      PROVE  Follows(IF i = 1 THEN Head(s) ELSE u[i - 1], u[i])
  <2>1. i + 1 \in 1..n /\ i + 1 # 1 /\ (i + 1) - 1 = i
    BY <1>1
  <2>2. Follows(s[i], s[i + 1])
    BY <2>1 DEF ChainFrom, n
  <2>3. u[i] = s[i + 1]
    BY <1>3
  <2>4. (IF i = 1 THEN Head(s) ELSE u[i - 1]) = s[i]
    <3>1. CASE i = 1
      BY <1>2, <3>1
    <3>2. CASE i # 1
      <4>1. i - 1 \in 1..(n - 1) /\ (i - 1) + 1 = i
        BY <1>1, <3>2
      <4> QED
        BY <1>3, <3>2, <4>1
    <3> QED
      BY <3>1, <3>2
  <2> QED
    BY <2>2, <2>3, <2>4
<1>7. ChainFrom(Head(s), u)
  BY <1>3, <1>6 DEF ChainFrom
<1>8. EndOf(Head(s), u) = EndOf(a, s)
  <2>1. CASE n = 1
    BY <1>2, <1>4, <2>1 DEF EndOf, n
  <2>2. CASE n # 1
    <3>1. n - 1 \in 1..(n - 1) /\ (n - 1) + 1 = n
      BY <1>1, <2>2
    <3>2. u[n - 1] = s[n]
      BY <1>3, <3>1
    <3> QED
      BY <1>3, <1>4, <2>2, <3>2 DEF EndOf, n
  <2> QED
    BY <2>1, <2>2
<1> QED
  BY <1>2, <1>3, <1>5, <1>7, <1>8 DEF u

(* A batch starts with the first entry left after k and has no hole.        *)
LEMMA EntriesChain ==
    ASSUME TypeOK, NEW k \in Nat
    PROVE  Entries(k) \in Seq(Positions) /\ ChainFrom(k, Entries(k))
<1> DEFINE first == IF k < gone THEN gone + 1 ELSE k + 1
           last  == IF first + BatchSize <= Len(log) THEN first + BatchSize - 1 ELSE Len(log)
           n     == (last + 1) - first
           e     == Entries(k)
<1>1. Len(log) \in Nat /\ gone \in Nat
  BY LenProperties DEF TypeOK
<1>2. first \in Positions /\ last \in Nat
  BY <1>1, BatchAssumption DEF Positions
<1>3. k < first /\ \A j \in (k + 1)..(first - 1) : j <= gone
  BY <1>1
<1>4. e = [i \in 1..n |-> first + i - 1]
  BY DEF Entries
<1>5. n \in Int
  BY <1>2 DEF Positions
<1> HIDE DEF first, last, n, e
<1>6. \A i \in 1..n : first + i - 1 \in Positions
  BY <1>2, <1>5 DEF Positions
<1>7. CASE n <= 0
  <2>1. e = << >>
    BY <1>4, <1>5, <1>7
  <2> QED
    BY <2>1, ChainEmpty, EmptySeq DEF e
<1>8. CASE n > 0
  <2>1. n \in Nat
    BY <1>5, <1>8
  <2>2. e \in [1..n -> Positions]
    BY <1>4, <1>6
  <2>3. e \in Seq(Positions) /\ Len(e) = n
    BY <2>1, <2>2, SeqDef, LenProperties
  <2>4. ASSUME NEW i \in 1..n
        PROVE  Follows(IF i = 1 THEN k ELSE e[i - 1], e[i])
    <3>1. CASE i = 1
      <4>1. e[i] = first
        BY <1>2, <1>4, <3>1 DEF Positions
      <4> QED
        BY <1>3, <3>1, <4>1 DEF Follows
    <3>2. CASE i # 1
      <4>1. i - 1 \in 1..n
        BY <2>1, <3>2
      <4>2. e[i] = first + i - 1 /\ e[i - 1] = first + (i - 1) - 1
        BY <1>4, <4>1
      <4>3. \A x, y \in Int : y = x + 1 => x < y /\ \A j \in (x + 1)..(y - 1) : j <= gone
        BY <1>1
      <4>4. e[i] = e[i - 1] + 1 /\ e[i] \in Int /\ e[i - 1] \in Int
        BY <1>2, <4>2 DEF Positions
      <4> QED
        BY <3>2, <4>3, <4>4 DEF Follows
    <3> QED
      BY <3>1, <3>2
  <2> QED
    BY <2>3, <2>4 DEF ChainFrom, e
<1> QED
  BY <1>5, <1>7, <1>8

-----------------------------------------------------------------------------
(* The inductive invariant.                                                 *)
Flow(r) ==
    /\ ChainFrom(0, received[r])
    /\ ChainFrom(EndOf(0, received[r]), wire[r])
    /\ ChainFrom(cursor[r], batch[r])
    /\ conn[r] \in {"opening", "open"} =>
           cursor[r] = EndOf(EndOf(0, received[r]), wire[r])
    /\ batch[r] # << >> => conn[r] = "open"
    /\ conn[r] = "idle" => wire[r] = << >>

FlowInv == TypeOK /\ \A r \in Reader : Flow(r)

(* A step of one reader leaves the others alone.                            *)
LEMMA OneReader ==
    ASSUME FlowInv, NEW r \in Reader, UNCHANGED logVars, TypeOK', Flow(r)',
           \A q \in Reader \ {r} : /\ conn'[q] = conn[q] /\ cursor'[q] = cursor[q]
                                   /\ batch'[q] = batch[q] /\ wire'[q] = wire[q]
                                   /\ received'[q] = received[q]
    PROVE  FlowInv'
<1>1. gone' = gone
  BY DEF logVars
<1>2. ASSUME NEW q \in Reader
      PROVE  Flow(q)'
  <2>1. CASE q = r
    BY <2>1
  <2>2. CASE q # r
    <3>1. Flow(q)
      BY DEF FlowInv
    <3> QED
      BY <1>1, <2>2, <3>1 DEF Flow, ChainFrom, Follows
  <2> QED
    BY <2>1, <2>2
<1> QED
  BY <1>2 DEF FlowInv

LEMMA InitFlow == Init => FlowInv
<1> SUFFICES ASSUME Init
             PROVE  FlowInv
  OBVIOUS
<1>1. << >> \in Seq(Nat \ {0}) /\ << >> \in Seq(Event) /\ Len(<< >>) = 0
  BY EmptySeq
<1>2. TypeOK
  BY <1>1 DEF Init, ReaderInit, TypeOK, Connection
<1>3. ASSUME NEW r \in Reader
      PROVE  Flow(r)
  <2>1. /\ received[r] = << >> /\ wire[r] = << >> /\ batch[r] = << >>
        /\ cursor[r] = 0 /\ conn[r] = "idle"
    BY DEF Init, ReaderInit
  <2> QED
    BY <2>1, ChainEmpty DEF Flow
<1> QED
  BY <1>2, <1>3 DEF FlowInv

(* What grows is the log, what expires is its beginning: chains stay chains. *)
LEMMA LogFlow ==
    ASSUME FlowInv, TypeOK', gone' >= gone, UNCHANGED readerVars
    PROVE  FlowInv'
<1>1. gone \in Nat /\ gone' \in Nat
  BY DEF FlowInv, TypeOK
<1>2. \A a, b \in Nat : Follows(a, b) => Follows(a, b)'
  BY <1>1 DEF Follows
<1>3. ASSUME NEW a \in Nat, NEW s \in Seq(Positions), ChainFrom(a, s)
      PROVE  ChainFrom(a, s)'
  <2>1. ASSUME NEW i \in 1..Len(s)
        PROVE  /\ s[i] \in Nat
               /\ (IF i = 1 THEN a ELSE s[i - 1]) \in Nat
    <3>1. Len(s) \in Nat
      BY LenProperties
    <3>2. i # 1 => i - 1 \in 1..Len(s)
      BY <3>1
    <3> QED
      BY <3>2, ElementOfSeq DEF Positions
  <2> QED
    BY <1>2, <1>3, <2>1 DEF ChainFrom
<1>4. ASSUME NEW r \in Reader
      PROVE  Flow(r)'
  <2>1. /\ received[r] \in Seq(Positions) /\ wire[r] \in Seq(Positions)
        /\ batch[r] \in Seq(Positions) /\ cursor[r] \in Nat
    BY DEF FlowInv, TypeOK, Positions
  <2>2. EndOf(0, received[r]) \in Nat
    BY <2>1, EndOfType
  <2>3. /\ received'[r] = received[r] /\ wire'[r] = wire[r] /\ conn'[r] = conn[r]
        /\ batch'[r] = batch[r] /\ cursor'[r] = cursor[r]
    BY DEF readerVars
  <2>4. Flow(r)
    BY DEF FlowInv
  <2>5. ChainFrom(0, received[r])'
    <3>1. ChainFrom(0, received[r])
      BY <2>4 DEF Flow
    <3> QED
      BY <1>3, <2>1, <2>3, <3>1 DEF ChainFrom, Follows
  <2>6. ChainFrom(EndOf(0, received[r]), wire[r])'
    <3>1. ChainFrom(EndOf(0, received[r]), wire[r])
      BY <2>4 DEF Flow
    <3>2. EndOf(0, received[r])' = EndOf(0, received[r])
      BY <2>3 DEF EndOf
    <3> QED
      BY <1>3, <2>1, <2>2, <2>3, <3>1, <3>2 DEF ChainFrom, Follows
  <2>7. ChainFrom(cursor[r], batch[r])'
    <3>1. ChainFrom(cursor[r], batch[r])
      BY <2>4 DEF Flow
    <3> QED
      BY <1>3, <2>1, <2>3, <3>1 DEF ChainFrom, Follows
  <2> QED
    BY <2>3, <2>4, <2>5, <2>6, <2>7 DEF Flow, EndOf
<1> QED
  BY <1>4 DEF FlowInv

LEMMA PublishFlow ==
    ASSUME FlowInv, NEW e \in Event, Publish(e)
    PROVE  FlowInv'
<1>1. log' \in Seq(Event) /\ Len(log') = Len(log) + 1 /\ Len(log) \in Nat
  BY AppendProperties, LenProperties DEF Publish, FlowInv, TypeOK
<1>2. TypeOK'
  BY <1>1 DEF Publish, readerVars, FlowInv, TypeOK
<1>3. gone' >= gone
  BY DEF Publish, FlowInv, TypeOK
<1> QED
  BY <1>2, <1>3, LogFlow DEF Publish

LEMMA TrimFlow ==
    ASSUME FlowInv, Trim
    PROVE  FlowInv'
<1>1. Len(log) \in Nat
  BY LenProperties DEF FlowInv, TypeOK
<1>2. TypeOK' /\ gone' >= gone
  BY <1>1 DEF Trim, readerVars, FlowInv, TypeOK
<1> QED
  BY <1>2, LogFlow DEF Trim

LEMMA ReaderFlow ==
    ASSUME FlowInv, NEW r \in Reader, ReaderStep(r), UNCHANGED logVars
    PROVE  FlowInv'
<1>1. /\ log' = log /\ gone' = gone /\ expired' = expired
      /\ TypeOK /\ Flow(r)
  BY DEF logVars, FlowInv
<1>2. /\ received[r] \in Seq(Positions) /\ wire[r] \in Seq(Positions)
      /\ batch[r] \in Seq(Positions) /\ cursor[r] \in Nat /\ conn[r] \in Connection
  BY <1>1 DEF TypeOK, Positions
<1> DEFINE last == EndOf(0, received[r])
<1>3. last \in Nat /\ EndOf(last, wire[r]) \in Nat
  BY <1>2, EndOfType
<1>4. LastEventId(r) = last
  BY DEF LastEventId, EndOf
<1>5. << >> \in Seq(Positions) /\ ChainFrom(last, << >>) /\ EndOf(last, << >>) = last
      /\ ChainFrom(cursor[r], << >>)
  BY <1>2, <1>3, EmptySeq, ChainEmpty
<1> HIDE DEF last
<1>6. CASE Connect(r)
  <2>1. TypeOK'
    BY <1>1, <1>3, <1>4, <1>6 DEF Connect, TypeOK, Connection
  <2>2. /\ conn'[r] = "opening" /\ cursor'[r] = last /\ batch'[r] = batch[r]
        /\ wire'[r] = << >> /\ received'[r] = received[r] /\ batch[r] = << >>
    BY <1>1, <1>4, <1>6 DEF Connect, TypeOK, Flow
  <2>3. Flow(r)'
    BY <1>1, <1>3, <1>5, <2>2, ChainEmpty DEF Flow, last, ChainFrom, Follows, EndOf
  <2> QED
    BY <1>6, <2>1, <2>3, OneReader DEF Connect, FlowInv, TypeOK
<1>7. CASE Read(r)
  <2> DEFINE e == Entries(cursor[r])
  <2>1. e \in Seq(Positions) /\ ChainFrom(cursor[r], e)
    BY <1>1, <1>2, EntriesChain
  <2> HIDE DEF e
  <2>2. batch' = [batch EXCEPT ![r] = e] /\ conn' = [conn EXCEPT ![r] = "open"]
    BY <1>7 DEF Read, e
  <2>3. TypeOK'
    BY <1>1, <1>7, <2>1, <2>2 DEF Read, TypeOK, Connection, Positions
  <2>4. /\ conn'[r] = "open" /\ cursor'[r] = cursor[r] /\ batch'[r] = e
        /\ wire'[r] = wire[r] /\ received'[r] = received[r]
        /\ conn[r] \in {"opening", "open"}
    BY <1>1, <1>7, <2>2 DEF Read, AtLoopHead, TypeOK
  <2>5. Flow(r)'
    BY <1>1, <2>1, <2>4 DEF Flow, ChainFrom, Follows, EndOf
  <2> QED
    BY <1>7, <2>2, <2>3, <2>5, OneReader DEF Read, FlowInv, TypeOK
<1>8. CASE Yield(r)
  <2> DEFINE k == Head(batch[r])
             w == Append(wire[r], k)
             u == Tail(batch[r])
  <2>1. batch[r] # << >> /\ conn[r] = "open" /\ cursor[r] = EndOf(last, wire[r])
    BY <1>1, <1>8 DEF Yield, Flow, last
  <2>2. /\ k \in Positions /\ u \in Seq(Positions)
        /\ Follows(cursor[r], k) /\ ChainFrom(k, u)
    BY <1>1, <1>2, <2>1, ChainTail DEF Flow
  <2>3. w \in Seq(Positions) /\ ChainFrom(last, w) /\ EndOf(last, w) = k
    BY <1>1, <1>2, <1>3, <2>1, <2>2, ChainAppend DEF Flow, last
  <2>4. ChainFrom(k, << >>)
    BY <2>2, ChainEmpty DEF Positions
  <2>5. /\ cursor' = [cursor EXCEPT ![r] = k] /\ wire' = [wire EXCEPT ![r] = w]
        /\ received' = received /\ drops' = drops
        /\ \/ /\ conn' = [conn EXCEPT ![r] = "ended"]
              /\ batch' = [batch EXCEPT ![r] = << >>]
           \/ conn' = conn /\ batch' = [batch EXCEPT ![r] = u]
    BY <1>1, <1>8 DEF Yield, TypeOK
  <2> HIDE DEF k, w, u
  <2>6. TypeOK'
    BY <1>1, <1>5, <2>2, <2>3, <2>5 DEF TypeOK, Connection, Positions
  <2>7. /\ cursor'[r] = k /\ wire'[r] = w /\ received'[r] = received[r]
        /\ \/ conn'[r] = "ended" /\ batch'[r] = << >>
           \/ conn'[r] = "open" /\ batch'[r] = u
    BY <1>1, <2>1, <2>5 DEF TypeOK
  <2>8. Flow(r)'
    <3>1. ChainFrom(0, received[r])'
      BY <1>1, <2>7 DEF Flow, ChainFrom, Follows
    <3>2. EndOf(0, received[r])' = last
      BY <2>7 DEF EndOf, last
    <3>3. ChainFrom(EndOf(0, received[r]), wire[r])'
      BY <1>1, <2>3, <2>7, <3>2 DEF ChainFrom, Follows
    <3>4. ChainFrom(cursor[r], batch[r])'
      BY <1>1, <2>2, <2>4, <2>7 DEF ChainFrom, Follows
    <3>5. EndOf(EndOf(0, received[r]), wire[r])' = k
      <4>1. EndOf(last, w) = k /\ wire'[r] = w
        BY <2>3, <2>7
      <4> QED
        BY <3>2, <4>1 DEF EndOf
    <3> QED
      BY <2>7, <3>1, <3>3, <3>4, <3>5 DEF Flow
  <2> QED
    BY <2>5, <2>6, <2>8, OneReader DEF FlowInv, TypeOK
<1>9. CASE Deadline(r) \/ ReadFails(r)
  <2>1. TypeOK'
    <3>1. /\ conn' = [conn EXCEPT ![r] = "ended"] /\ cursor' = cursor /\ batch' = batch
          /\ wire' = wire /\ received' = received
      BY <1>9 DEF Deadline, ReadFails
    <3>2. drops' \in Nat
      BY <1>1, <1>9 DEF Deadline, ReadFails, Fail1, TypeOK
    <3> QED
      BY <1>1, <3>1, <3>2 DEF TypeOK, Connection
  <2>2. /\ conn'[r] = "ended" /\ cursor'[r] = cursor[r] /\ batch'[r] = batch[r]
        /\ wire'[r] = wire[r] /\ received'[r] = received[r] /\ batch[r] = << >>
    BY <1>1, <1>9 DEF Deadline, ReadFails, AtLoopHead, TypeOK
  <2>3. Flow(r)'
    BY <1>1, <2>2 DEF Flow, ChainFrom, Follows, EndOf
  <2> QED
    BY <1>9, <2>1, <2>3, OneReader DEF Deadline, ReadFails, FlowInv, TypeOK
<1>10. CASE Receive(r)
  <2> DEFINE k == Head(wire[r])
             s == Append(received[r], k)
             u == Tail(wire[r])
  <2>1. wire[r] # << >>
    BY <1>10 DEF Receive
  <2>2. /\ k \in Positions /\ u \in Seq(Positions)
        /\ Follows(last, k) /\ ChainFrom(k, u) /\ EndOf(k, u) = EndOf(last, wire[r])
    BY <1>1, <1>2, <1>3, <2>1, ChainTail DEF Flow, last
  <2>3. s \in Seq(Positions) /\ ChainFrom(0, s) /\ EndOf(0, s) = k
    BY <1>1, <1>2, <2>2, ChainAppend DEF Flow, last
  <2>4. /\ received' = [received EXCEPT ![r] = s] /\ wire' = [wire EXCEPT ![r] = u]
        /\ conn' = conn /\ cursor' = cursor /\ batch' = batch /\ drops' = drops
    BY <1>1, <1>10 DEF Receive, TypeOK
  <2> HIDE DEF k, s, u
  <2>5. TypeOK'
    BY <1>1, <2>2, <2>3, <2>4 DEF TypeOK, Positions
  <2>6. /\ received'[r] = s /\ wire'[r] = u /\ conn'[r] = conn[r]
        /\ cursor'[r] = cursor[r] /\ batch'[r] = batch[r]
    BY <1>1, <2>4 DEF TypeOK
  <2>7. Flow(r)'
    <3>1. ChainFrom(0, received[r])'
      BY <1>1, <2>3, <2>6 DEF ChainFrom, Follows
    <3>2. EndOf(0, received[r])' = k
      BY <2>3, <2>6 DEF EndOf
    <3>3. ChainFrom(EndOf(0, received[r]), wire[r])'
      BY <1>1, <2>2, <2>6, <3>2 DEF ChainFrom, Follows
    <3>4. EndOf(EndOf(0, received[r]), wire[r])' = EndOf(last, wire[r])
      <4>1. EndOf(k, u) = EndOf(last, wire[r]) /\ wire'[r] = u
        BY <2>2, <2>6
      <4>2. EndOf(EndOf(0, received[r]), wire[r])' = EndOf(k, u)
        BY <3>2, <2>6 DEF EndOf
      <4> QED
        BY <4>1, <4>2
    <3>5. ChainFrom(cursor[r], batch[r])'
      BY <1>1, <2>6 DEF Flow, ChainFrom, Follows
    <3>6. conn[r] # "idle"
      BY <1>1, <2>1 DEF Flow
    <3> QED
      BY <1>1, <2>6, <3>1, <3>3, <3>4, <3>5, <3>6 DEF Flow, last
  <2> QED
    BY <2>4, <2>5, <2>7, OneReader DEF FlowInv, TypeOK
<1>11. CASE Drop(r) \/ Leave(r)
  <2>1. TypeOK'
    <3>1. /\ \E k \in {"idle", "left"} : conn' = [conn EXCEPT ![r] = k]
          /\ batch' = [batch EXCEPT ![r] = << >>] /\ wire' = [wire EXCEPT ![r] = << >>]
          /\ cursor' = cursor /\ received' = received
      BY <1>11 DEF Drop, Leave
    <3>2. drops' \in Nat
      BY <1>1, <1>11 DEF Drop, Leave, Fail1, TypeOK
    <3> QED
      BY <1>1, <1>5, <3>1, <3>2 DEF TypeOK, Connection, Positions
  <2>2. /\ conn'[r] \in {"idle", "left"} /\ cursor'[r] = cursor[r] /\ batch'[r] = << >>
        /\ wire'[r] = << >> /\ received'[r] = received[r]
    BY <1>1, <1>11 DEF Drop, Leave, TypeOK
  <2>3. Flow(r)'
    BY <1>1, <1>5, <2>2 DEF Flow, ChainFrom, Follows, EndOf, last
  <2> QED
    BY <1>11, <2>1, <2>3, OneReader DEF Drop, Leave, FlowInv, TypeOK
<1>12. CASE EndSeen(r)
  <2>1. TypeOK'
    BY <1>1, <1>12 DEF EndSeen, TypeOK, Connection
  <2>2. /\ conn'[r] = "idle" /\ cursor'[r] = cursor[r] /\ batch'[r] = batch[r]
        /\ wire'[r] = wire[r] /\ received'[r] = received[r]
        /\ conn[r] = "ended" /\ wire[r] = << >>
    BY <1>1, <1>12 DEF EndSeen, TypeOK
  <2>3. Flow(r)'
    BY <1>1, <2>2 DEF Flow, ChainFrom, Follows, EndOf
  <2> QED
    BY <1>12, <2>1, <2>3, OneReader DEF EndSeen, FlowInv, TypeOK
<1> QED
  BY <1>6, <1>7, <1>8, <1>9, <1>10, <1>11, <1>12 DEF ReaderStep

LEMMA FlowStep == FlowInv /\ [Next]_vars => FlowInv'
<1> SUFFICES ASSUME FlowInv, [Next]_vars
             PROVE  FlowInv'
  OBVIOUS
<1>1. ASSUME NEW e \in Event, Publish(e)
      PROVE  FlowInv'
  BY <1>1, PublishFlow
<1>2. CASE Trim
  BY <1>2, TrimFlow
<1>3. ASSUME NEW r \in Reader, ReaderStep(r), UNCHANGED logVars
      PROVE  FlowInv'
  BY <1>3, ReaderFlow
<1>4. CASE UNCHANGED vars
  BY <1>4 DEF vars, logVars, readerVars, FlowInv, TypeOK, Flow, ChainFrom, Follows, EndOf
<1> QED
  BY <1>1, <1>2, <1>3, <1>4 DEF Next

LEMMA FlowInvariant == Spec => []FlowInv
<1> QED
  BY InitFlow, FlowStep, PTL DEF Spec

(* Every reader receives the events of the scan in order, each once, and     *)
(* misses none but those that expired, whatever the number of readers, of    *)
(* reconnections and of events in a batch.                                   *)
THEOREM DeliveryIsOrdered == Spec => []ReceivedInOrder
<1>1. FlowInv => ReceivedInOrder
  BY DEF FlowInv, Flow, ReceivedInOrder
<1> QED
  BY <1>1, FlowInvariant, PTL

(* Every reachable state is well typed.                                     *)
THEOREM ReadersTyped == Spec => []TypeOK
<1>1. FlowInv => TypeOK
  BY DEF FlowInv
<1> QED
  BY <1>1, FlowInvariant, PTL

-----------------------------------------------------------------------------
(***************************************************************************)
(* Terminal events end responses.  A generator that has sent one has ended,  *)
(* so what it still holds or may still send cannot follow.  Positions that   *)
(* were read are of entries that exist: a log that grows does not change     *)
(* what they are of.                                                         *)
(***************************************************************************)
Within(s) == \A i \in DOMAIN s : s[i] <= Len(log)

EndsAtTerminal(r) ==
    \A i \in DOMAIN wire[r] :
        log[wire[r][i]] \in Terminal =>
            i = Len(wire[r]) /\ batch[r] = << >> /\ conn[r] = "ended"

Ends(r) == Within(batch[r]) /\ Within(wire[r]) /\ EndsAtTerminal(r)

EndsInv == \A r \in Reader : Ends(r)

LEMMA WithinEmpty == \A s : s = << >> => DOMAIN s = {} /\ Within(s)
BY DEF Within

LEMMA EntriesWithin ==
    ASSUME TypeOK, NEW k \in Nat
    PROVE  Within(Entries(k))
<1> DEFINE first == IF k < gone THEN gone + 1 ELSE k + 1
           last  == IF first + BatchSize <= Len(log) THEN first + BatchSize - 1 ELSE Len(log)
<1>1. Len(log) \in Nat /\ gone \in Nat
  BY LenProperties DEF TypeOK
<1>2. first \in Nat /\ last \in Int /\ last <= Len(log)
  BY <1>1, BatchAssumption
<1>3. Entries(k) = [i \in 1..((last + 1) - first) |-> first + i - 1]
  BY DEF Entries
<1> HIDE DEF first, last
<1>4. \A i \in 1..((last + 1) - first) : first + i - 1 <= Len(log)
  BY <1>1, <1>2
<1> QED
  BY <1>3, <1>4 DEF Within

(* Sending one more, and receiving the first.                               *)
LEMMA EndsAppend ==
    ASSUME NEW s \in Seq(Positions), NEW k \in Positions
    PROVE  LET w == Append(s, k) IN
           /\ DOMAIN w = DOMAIN s \cup {Len(w)}
           /\ \A i \in DOMAIN s : w[i] = s[i]
           /\ w[Len(w)] = k
<1>1. Append(s, k) \in Seq(Positions) /\ Len(Append(s, k)) = Len(s) + 1 /\ Len(s) \in Nat
  BY AppendProperties, LenProperties
<1>2. DOMAIN Append(s, k) = 1..(Len(s) + 1) /\ DOMAIN s = 1..Len(s)
  BY <1>1, LenProperties
<1>3. (\A i \in 1..Len(s) : Append(s, k)[i] = s[i]) /\ Append(s, k)[Len(s) + 1] = k
  BY AppendProperties
<1>4. 1..(Len(s) + 1) = 1..Len(s) \cup {Len(s) + 1}
  BY <1>1
<1> QED
  BY <1>1, <1>2, <1>3, <1>4

LEMMA EndsTail ==
    ASSUME NEW s \in Seq(Positions), s # << >>
    PROVE  \A i \in DOMAIN Tail(s) : \E j \in DOMAIN s :
               Tail(s)[i] = s[j] /\ (j = Len(s) => i = Len(Tail(s)))
<1> DEFINE u == Tail(s)
           n == Len(s)
<1>1. n \in Nat \ {0} /\ DOMAIN s = 1..n
  BY EmptySeq, LenProperties
<1>2. u \in Seq(Positions) /\ Len(u) = n - 1 /\ \A i \in 1..(n - 1) : u[i] = s[i + 1]
  BY HeadTailProperties
<1>3. DOMAIN u = 1..(n - 1)
  BY <1>2, LenProperties
<1> HIDE DEF u, n
<1>4. ASSUME NEW i \in 1..(n - 1)
      PROVE  \E j \in DOMAIN s : u[i] = s[j] /\ (j = n => i = Len(u))
  <2>1. i + 1 \in 1..n /\ u[i] = s[i + 1] /\ (i + 1 = n => i = n - 1)
    BY <1>1, <1>2
  <2> QED
    BY <1>1, <1>2, <2>1
<1> QED
  BY <1>3, <1>4 DEF u, n

LEMMA ReaderEnds ==
    ASSUME FlowInv, EndsInv, NEW r \in Reader, ReaderStep(r), UNCHANGED logVars
    PROVE  Ends(r)'
<1>1. /\ log' = log /\ TypeOK /\ Flow(r) /\ Ends(r)
  BY DEF logVars, FlowInv, EndsInv
<1>2. /\ wire[r] \in Seq(Positions) /\ batch[r] \in Seq(Positions) /\ cursor[r] \in Nat
  BY <1>1 DEF TypeOK, Positions
<1>3. \A s : Within(s)' <=> \A i \in DOMAIN s : s[i] <= Len(log)
  BY <1>1 DEF Within
<1>4. conn[r] # "ended" => \A i \in DOMAIN wire[r] : log[wire[r][i]] \notin Terminal
  BY <1>1 DEF Ends, EndsAtTerminal
<1>5. CASE Connect(r) \/ Deadline(r) \/ ReadFails(r)
  <2>1. wire'[r] = wire[r] /\ batch'[r] = batch[r] /\ conn[r] # "ended"
    BY <1>5 DEF Connect, Deadline, ReadFails, AtLoopHead
  <2> QED
    BY <1>1, <1>4, <2>1 DEF Ends, Within, EndsAtTerminal
<1>6. CASE Read(r)
  <2>1. PICK e : e = Entries(cursor[r])
    OBVIOUS
  <2>2. batch'[r] = e /\ wire'[r] = wire[r] /\ conn[r] # "ended" /\ Within(e)
    BY <1>1, <1>2, <1>6, <2>1, EntriesWithin DEF Read, AtLoopHead, TypeOK
  <2> QED
    BY <1>1, <1>4, <2>2 DEF Ends, Within, EndsAtTerminal
<1>7. CASE Yield(r)
  <2>1. PICK k, w, u : k = Head(batch[r]) /\ w = Append(wire[r], k) /\ u = Tail(batch[r])
    OBVIOUS
  <2>2. batch[r] # << >> /\ conn[r] = "open"
    BY <1>1, <1>7 DEF Yield, Flow
  <2>3. /\ wire'[r] = w
        /\ \/ log[k] \in Terminal /\ conn'[r] = "ended" /\ batch'[r] = << >>
           \/ log[k] \notin Terminal /\ batch'[r] = u
    BY <1>1, <1>7, <2>1 DEF Yield, TypeOK
  <2>4. k \in Positions /\ k = batch[r][1] /\ 1 \in DOMAIN batch[r]
    <3>1. Len(batch[r]) \in Nat \ {0} /\ DOMAIN batch[r] = 1..Len(batch[r])
      BY <1>2, <2>2, EmptySeq, LenProperties
    <3> QED
      BY <1>2, <2>1, <2>2, <3>1, HeadTailProperties, ElementOfSeq
  <2>5. /\ DOMAIN w = DOMAIN wire[r] \cup {Len(w)}
        /\ \A i \in DOMAIN wire[r] : w[i] = wire[r][i]
        /\ w[Len(w)] = k
    BY <1>2, <2>1, <2>4, EndsAppend
  <2>6. \A i \in DOMAIN u : \E j \in DOMAIN batch[r] : u[i] = batch[r][j]
    BY <1>2, <2>1, <2>2, EndsTail
  <2>7. Within(w)
    BY <1>1, <2>4, <2>5 DEF Ends, Within
  <2>8. Within(u)
    BY <1>1, <2>6 DEF Ends, Within
  <2>9. Within(wire[r])' /\ Within(batch[r])'
    BY <1>1, <2>3, <2>7, <2>8 DEF Within
  <2>10. EndsAtTerminal(r)'
    BY <1>1, <1>4, <2>2, <2>3, <2>5 DEF EndsAtTerminal
  <2> QED
    BY <2>9, <2>10 DEF Ends
<1>8. CASE Receive(r)
  <2>1. PICK u : u = Tail(wire[r])
    OBVIOUS
  <2>2. wire[r] # << >> /\ wire'[r] = u /\ batch'[r] = batch[r] /\ conn'[r] = conn[r]
    BY <1>1, <1>8, <2>1 DEF Receive, TypeOK
  <2>3. \A i \in DOMAIN u : \E j \in DOMAIN wire[r] :
            u[i] = wire[r][j] /\ (j = Len(wire[r]) => i = Len(u))
    BY <1>2, <2>1, <2>2, EndsTail
  <2>4. ASSUME NEW i \in DOMAIN u
        PROVE  /\ u[i] <= Len(log)
               /\ log[u[i]] \in Terminal => i = Len(u) /\ batch[r] = << >> /\ conn[r] = "ended"
    <3>1. PICK j \in DOMAIN wire[r] : u[i] = wire[r][j] /\ (j = Len(wire[r]) => i = Len(u))
      BY <2>3
    <3>2. wire[r][j] <= Len(log)
      BY <1>1, <3>1 DEF Ends, Within
    <3>3. log[wire[r][j]] \in Terminal => j = Len(wire[r]) /\ batch[r] = << >> /\ conn[r] = "ended"
      BY <1>1, <3>1 DEF Ends, EndsAtTerminal
    <3> QED
      BY <3>1, <3>2, <3>3
  <2>5. Within(u)
    BY <2>4 DEF Within
  <2>6. EndsAtTerminal(r)'
    BY <1>1, <2>2, <2>4 DEF EndsAtTerminal
  <2> QED
    BY <1>1, <2>2, <2>5, <2>6 DEF Ends, Within
<1>9. CASE Drop(r) \/ Leave(r)
  <2>1. wire'[r] = << >> /\ batch'[r] = << >>
    BY <1>1, <1>9 DEF Drop, Leave, TypeOK
  <2> QED
    BY <1>3, <2>1, WithinEmpty DEF Ends, Within, EndsAtTerminal
<1>10. CASE EndSeen(r)
  <2>1. wire'[r] = << >> /\ batch'[r] = batch[r]
    BY <1>10 DEF EndSeen
  <2>2. Within(wire[r])' /\ EndsAtTerminal(r)'
    BY <2>1, WithinEmpty DEF Within, EndsAtTerminal
  <2>3. Within(batch[r])'
    BY <1>1, <2>1 DEF Ends, Within
  <2> QED
    BY <2>2, <2>3 DEF Ends
<1> QED
  BY <1>5, <1>6, <1>7, <1>8, <1>9, <1>10 DEF ReaderStep

(* A log that grows, or whose beginning expires, disturbs no reader.         *)
LEMMA LogEnds ==
    ASSUME FlowInv, EndsInv, Len(log') \in Nat, Len(log) <= Len(log'),
           \A k \in 1..Len(log) : log'[k] = log[k], UNCHANGED readerVars
    PROVE  EndsInv'
<1> SUFFICES ASSUME NEW r \in Reader
             PROVE  Ends(r)'
  BY DEF EndsInv
<1>1. Ends(r) /\ TypeOK /\ Len(log) \in Nat
  BY LenProperties DEF EndsInv, FlowInv, TypeOK
<1>2. wire'[r] = wire[r] /\ batch'[r] = batch[r] /\ conn'[r] = conn[r]
  BY DEF readerVars
<1>3. /\ \A i \in DOMAIN wire[r] : wire[r][i] \in Positions
      /\ \A i \in DOMAIN batch[r] : batch[r][i] \in Positions
  <2>1. wire[r] \in Seq(Positions) /\ batch[r] \in Seq(Positions)
    BY <1>1 DEF TypeOK, Positions
  <2> QED
    BY <2>1, LenProperties, ElementOfSeq
<1>4. Within(wire[r])' /\ Within(batch[r])'
  BY <1>1, <1>2, <1>3 DEF Ends, Within, Positions
<1>5. \A i \in DOMAIN wire[r] : log'[wire[r][i]] = log[wire[r][i]]
  BY <1>1, <1>3 DEF Ends, Within, Positions
<1>6. EndsAtTerminal(r)'
  BY <1>1, <1>2, <1>5 DEF Ends, EndsAtTerminal
<1> QED
  BY <1>4, <1>6 DEF Ends

LEMMA ReadersEnd ==
    ASSUME FlowInv, EndsInv, NEW q \in Reader, ReaderStep(q), UNCHANGED logVars
    PROVE  EndsInv'
<1>1. ASSUME NEW r \in Reader \ {q}
      PROVE  Ends(r)'
  <2>1. Ends(r) /\ TypeOK
    BY DEF EndsInv, FlowInv
  <2>2. wire'[r] = wire[r] /\ batch'[r] = batch[r] /\ conn'[r] = conn[r]
    BY <2>1
       DEF ReaderStep, Connect, Read, Yield, Deadline, ReadFails, Receive, Drop, EndSeen, Leave, TypeOK
  <2>3. log' = log
    BY DEF logVars
  <2> QED
    BY <2>1, <2>2, <2>3 DEF Ends, Within, EndsAtTerminal
<1> QED
  BY <1>1, ReaderEnds DEF EndsInv

(* What a log keeps when an event is added to it.                           *)
LEMMA PublishGrows ==
    ASSUME TypeOK, NEW e \in Event, log' = Append(log, e)
    PROVE  /\ Len(log) \in Nat /\ Len(log') = Len(log) + 1
           /\ \A k \in 1..Len(log) : log'[k] = log[k]
BY AppendProperties, LenProperties DEF TypeOK

LEMMA EndsStep == FlowInv /\ EndsInv /\ [Next]_vars => EndsInv'
<1> SUFFICES ASSUME FlowInv, EndsInv, [Next]_vars
             PROVE  EndsInv'
  OBVIOUS
<1>1. TypeOK /\ Len(log) \in Nat
  BY LenProperties DEF FlowInv, TypeOK
<1>2. ASSUME NEW e \in Event, Publish(e)
      PROVE  EndsInv'
  BY <1>1, <1>2, PublishGrows, LogEnds DEF Publish
<1>3. CASE Trim \/ UNCHANGED vars
  <2>1. log' = log /\ UNCHANGED readerVars
    BY <1>3 DEF Trim, vars, logVars
  <2> QED
    BY <1>1, <2>1, LogEnds
<1>4. ASSUME NEW q \in Reader, ReaderStep(q), UNCHANGED logVars
      PROVE  EndsInv'
  BY <1>4, ReadersEnd
<1> QED
  BY <1>2, <1>3, <1>4 DEF Next

(* A response sends nothing after a terminal event, and never a second one.  *)
THEOREM ResponsesEndAtTerminal == Spec => []TerminalEndsResponse
<1>1. Init => EndsInv
  BY WithinEmpty DEF Init, ReaderInit, EndsInv, Ends, EndsAtTerminal
<1>2. EndsInv => TerminalEndsResponse
  BY DEF EndsInv, Ends, EndsAtTerminal, TerminalEndsResponse
<1> QED
  BY <1>1, <1>2, EndsStep, FlowInvariant, PTL DEF Spec

-----------------------------------------------------------------------------
(***************************************************************************)
(* What a reader has received is of entries that exist; and as long as no   *)
(* key expired it is the log from its first event on, the i-th event that   *)
(* it received being the i-th of the log.                                   *)
(***************************************************************************)
FromFirst(r) ==
    /\ Within(received[r])
    /\ gone = 0 => \A i \in DOMAIN received[r] : received[r][i] = i

FromFirstInv == \A r \in Reader : FromFirst(r)

(* All that is known of the readers.                                        *)
ReadersInv == FlowInv /\ EndsInv /\ FromFirstInv

(* Without expiry the next event is the one after the last received.        *)
LEMMA NextReceived ==
    ASSUME NEW s \in Seq(Positions), NEW k \in Positions, gone = 0, Follows(EndOf(0, s), k),
           \A i \in DOMAIN s : s[i] = i
    PROVE  k = Len(s) + 1
<1>1. Len(s) \in Nat /\ DOMAIN s = 1..Len(s)
  BY LenProperties
<1>2. EndOf(0, s) = Len(s)
  <2>1. CASE s = << >>
    BY <2>1, EmptySeq DEF EndOf
  <2>2. CASE s # << >>
    <3>1. Len(s) \in DOMAIN s
      BY <1>1, <2>2, EmptySeq
    <3> QED
      BY <2>2, <3>1 DEF EndOf
  <2> QED
    BY <2>1, <2>2
<1>3. Len(s) < k /\ \A j \in (Len(s) + 1)..(k - 1) : j <= 0
  BY <1>2 DEF Follows
<1> QED
  BY <1>1, <1>3 DEF Positions

LEMMA ReceiveFromFirst ==
    ASSUME ReadersInv, NEW r \in Reader, Receive(r), UNCHANGED logVars
    PROVE  FromFirst(r)'
<1>1. PICK s, k, w : s = received[r] /\ k = Head(wire[r]) /\ w = Append(s, k)
  OBVIOUS
<1>2. /\ TypeOK /\ Flow(r) /\ Ends(r) /\ FromFirst(r) /\ log' = log /\ gone' = gone
  BY DEF ReadersInv, FlowInv, EndsInv, FromFirstInv, logVars
<1>3. received'[r] = w /\ wire[r] # << >>
  BY <1>1, <1>2 DEF Receive, TypeOK
<1>4. s \in Seq(Positions) /\ wire[r] \in Seq(Positions)
  BY <1>1, <1>2 DEF TypeOK, Positions
<1>5. k \in Positions /\ Follows(EndOf(0, s), k)
  <2>1. EndOf(0, s) \in Nat /\ ChainFrom(EndOf(0, s), wire[r])
    BY <1>1, <1>2, <1>4, EndOfType DEF Flow
  <2> QED
    BY <1>1, <1>3, <1>4, <2>1, ChainTail
<1>6. k <= Len(log)
  <2>1. k = wire[r][1] /\ 1 \in DOMAIN wire[r]
    BY <1>1, <1>3, <1>4, EmptySeq, LenProperties, HeadTailProperties
  <2> QED
    BY <1>2, <2>1 DEF Ends, Within
<1>7. /\ DOMAIN w = DOMAIN s \cup {Len(w)} /\ Len(w) = Len(s) + 1
      /\ \A i \in DOMAIN s : w[i] = s[i]
      /\ w[Len(w)] = k
  BY <1>1, <1>4, <1>5, EndsAppend, AppendProperties
<1>8. \A i \in DOMAIN w : w[i] <= Len(log)
  BY <1>1, <1>2, <1>6, <1>7 DEF FromFirst, Within
<1>9. gone = 0 => \A i \in DOMAIN w : w[i] = i
  BY <1>1, <1>2, <1>4, <1>5, <1>7, NextReceived DEF FromFirst
<1> QED
  BY <1>2, <1>3, <1>8, <1>9 DEF FromFirst, Within

(* The readers keep their invariant when the log changes, and when one of    *)
(* them makes a step.                                                        *)
LEMMA InitReaders == Init => ReadersInv
<1> SUFFICES ASSUME Init
             PROVE  EndsInv /\ FromFirstInv
  BY InitFlow DEF ReadersInv
<1>1. EndsInv
  BY WithinEmpty DEF Init, ReaderInit, EndsInv, Ends, EndsAtTerminal
<1>2. FromFirstInv
  BY WithinEmpty DEF Init, ReaderInit, FromFirstInv, FromFirst
<1> QED
  BY <1>1, <1>2

LEMMA LogReaders ==
    ASSUME ReadersInv, log' \in Seq(Event), Len(log) <= Len(log'),
           \A k \in 1..Len(log) : log'[k] = log[k],
           gone' \in Nat, gone <= gone', gone' <= Len(log'), expired' \in Nat,
           UNCHANGED readerVars
    PROVE  ReadersInv'
<1>1. TypeOK /\ Len(log) \in Nat /\ Len(log') \in Nat
  BY LenProperties DEF ReadersInv, FlowInv, TypeOK
<1>2. TypeOK'
  BY <1>1 DEF TypeOK, readerVars
<1>3. FlowInv'
  BY <1>1, <1>2, LogFlow DEF ReadersInv, TypeOK
<1>4. EndsInv'
  BY <1>1, LogEnds DEF ReadersInv
<1>5. ASSUME NEW r \in Reader
      PROVE  FromFirst(r)'
  <2>1. received'[r] = received[r] /\ received[r] \in Seq(Positions) /\ FromFirst(r)
    BY <1>1 DEF readerVars, TypeOK, Positions, ReadersInv, FromFirstInv
  <2>2. \A i \in DOMAIN received[r] : received[r][i] \in Nat
    BY <2>1, LenProperties, ElementOfSeq DEF Positions
  <2>3. gone' = 0 => gone = 0
    BY <1>1 DEF TypeOK
  <2> QED
    BY <1>1, <2>1, <2>2, <2>3 DEF FromFirst, Within
<1> QED
  BY <1>3, <1>4, <1>5 DEF ReadersInv, FromFirstInv

LEMMA StepReaders ==
    ASSUME ReadersInv, NEW q \in Reader, ReaderStep(q), UNCHANGED logVars
    PROVE  ReadersInv'
<1>1. FlowInv' /\ EndsInv'
  BY ReaderFlow, ReadersEnd DEF ReadersInv
<1>2. ASSUME NEW r \in Reader
      PROVE  FromFirst(r)'
  <2>1. CASE Receive(q) /\ q = r
    BY <2>1, ReceiveFromFirst
  <2>2. CASE ~(Receive(q) /\ q = r)
    <3>1. received'[r] = received[r]
      BY <2>2 DEF ReaderStep, Connect, Read, Yield, Deadline, ReadFails, Receive, Drop, EndSeen, Leave,
         ReadersInv, FlowInv, TypeOK
    <3>2. FromFirst(r) /\ log' = log /\ gone' = gone
      BY DEF ReadersInv, FromFirstInv, logVars
    <3> QED
      BY <3>1, <3>2 DEF FromFirst, Within
  <2> QED
    BY <2>1, <2>2
<1> QED
  BY <1>1, <1>2 DEF ReadersInv, FromFirstInv

=============================================================================
