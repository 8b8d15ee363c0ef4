-------------------------- MODULE UbxStreamProofs --------------------------
(***************************************************************************)
(* Facts about streams and the frames taken from them, for the proofs of   *)
(* the C loop (UbxReadProofs) and of the Python loop (PyReaderProofs), and *)
(* about streams of frames as sequences of messages, for the former.       *)
(***************************************************************************)
EXTENDS UbxStream, TLAPS, WellFoundedInduction, SequenceTheorems

LEMMA AppendType ==
    ASSUME NEW S, NEW s \in Seq(S), NEW e \in S
    PROVE  Append(s, e) \in Seq(S)
OBVIOUS

(* Heads are positions with two bytes, good ones are heads, and no frame   *)
(* is smaller than its header.                                             *)
LEMMA HeadFacts ==
    ASSUME NEW s, IsStream(s), NEW h \in s.heads
    PROVE  /\ h \in Nat /\ h + 1 \notin s.heads
           /\ s.need[h] \in Nat /\ s.need[h] >= FRAME_SIZE
           /\ FrameEnd(s, h) \in Nat
BY SizeAssumption DEF IsStream, FrameEnd

LEMMA DeliveredFacts ==
    ASSUME NEW s, IsStream(s), NEW d \in Seq(s.good), NEW i \in DOMAIN d
    PROVE  /\ d[i] \in s.good /\ d[i] \in Nat
           /\ FrameEnd(s, d[i]) \in Nat
<1>1. d[i] \in s.good
  OBVIOUS
<1>2. d[i] \in s.heads
  BY <1>1 DEF IsStream
<1> QED
  BY <1>1, <1>2, HeadFacts

(* Passing bytes keeps what was handed over in order.                      *)
LEMMA InOrderMove ==
    ASSUME NEW s, IsStream(s), NEW d \in Seq(s.good), NEW p \in Nat,
           NEW q \in Nat, p <= q, InOrder(s, d, p)
    PROVE  InOrder(s, d, q)
<1>1. \A i \in DOMAIN d : FrameEnd(s, d[i]) \in Nat
  BY DeliveredFacts
<1> QED
  BY <1>1 DEF InOrder

(* Handing over the frame under the cursor and jumping over it does too.   *)
LEMMA InOrderAppend ==
    ASSUME NEW s, IsStream(s), NEW d \in Seq(s.good), NEW p \in s.good,
           InOrder(s, d, p)
    PROVE  InOrder(s, Append(d, p), FrameEnd(s, p))
<1> DEFINE e == Append(d, p)
<1>1. /\ DOMAIN e = 1 .. Len(d) + 1 /\ DOMAIN d = 1 .. Len(d)
      /\ Len(d) \in Nat /\ e[Len(d) + 1] = p
      /\ \A i \in DOMAIN d : e[i] = d[i]
  OBVIOUS
<1>2. p \in Nat /\ FrameEnd(s, p) \in Nat /\ p <= FrameEnd(s, p)
  BY HeadFacts, SizeAssumption DEF IsStream, FrameEnd
<1>3. \A i \in DOMAIN d : d[i] \in s.good /\ FrameEnd(s, d[i]) \in Nat
  BY DeliveredFacts
<1> HIDE DEF e
<1>4. \A i \in DOMAIN e : e[i] \in s.good /\ FrameEnd(s, e[i]) <= FrameEnd(s, p)
  BY <1>1, <1>2, <1>3 DEF InOrder
<1>5. \A i, j \in DOMAIN e : i < j => FrameEnd(s, e[i]) <= e[j]
  <2> SUFFICES ASSUME NEW i \in DOMAIN e, NEW j \in DOMAIN e, i < j
               PROVE  FrameEnd(s, e[i]) <= e[j]
    OBVIOUS
  <2>1. i \in DOMAIN d /\ e[i] = d[i]
    BY <1>1
  <2>2. CASE j = Len(d) + 1
    BY <1>1, <2>1, <2>2 DEF InOrder
  <2>3. CASE j # Len(d) + 1
    BY <1>1, <2>1, <2>3 DEF InOrder
  <2> QED
    BY <2>2, <2>3
<1> QED
  BY <1>4, <1>5 DEF InOrder, e

(* Passing bytes none of which starts a good frame loses none.             *)
LEMMA NoneLostMove ==
    ASSUME NEW s, IsStream(s), NEW d, NEW p \in Nat, NEW q \in Nat,
           \A h \in p .. (q - 1) : h \notin s.good,
           NoneLost(s, d, p)
    PROVE  NoneLost(s, d, q)
<1>1. \A h \in s.good : h \in Nat
  BY HeadFacts DEF IsStream
<1> QED
  BY <1>1 DEF NoneLost

(* Handing over a frame and jumping over it loses none: the heads jumped   *)
(* over are inside it.                                                     *)
LEMMA NoneLostAppend ==
    ASSUME NEW s, IsStream(s), NEW d \in Seq(s.good), NEW p \in s.good,
           NoneLost(s, d, p)
    PROVE  NoneLost(s, Append(d, p), FrameEnd(s, p))
<1> DEFINE e == Append(d, p)
<1>1. /\ Len(d) + 1 \in DOMAIN e /\ e[Len(d) + 1] = p
      /\ \A i \in DOMAIN d : i \in DOMAIN e /\ e[i] = d[i]
  OBVIOUS
<1> HIDE DEF e
<1>2. SUFFICES ASSUME NEW h \in s.good, h < FrameEnd(s, p)
               PROVE  \E i \in DOMAIN e : e[i] <= h /\ h < FrameEnd(s, e[i])
  BY DEF NoneLost, e
<1>3. h \in Nat /\ p \in Nat
  BY HeadFacts DEF IsStream
<1>4. CASE h < p
  BY <1>1, <1>4 DEF NoneLost
<1>5. CASE p <= h
  BY <1>1, <1>2, <1>5
<1> QED
  BY <1>3, <1>4, <1>5

(* The two bytes given up after a wrong checksum start no good frame.      *)
LEMMA SyncSkipsNone ==
    ASSUME NEW s, IsStream(s), NEW p \in s.heads, p \notin s.good
    PROVE  \A h \in p .. ((p + SYNC_SIZE) - 1) : h \notin s.good
<1>1. SYNC_SIZE = 2 /\ p \in Nat /\ p + 1 \notin s.heads
  BY HeadFacts, SizeAssumption
<1>2. \A h \in p .. ((p + SYNC_SIZE) - 1) : h = p \/ h = p + 1
  BY <1>1
<1> QED
  BY <1>1, <1>2 DEF IsStream

-----------------------------------------------------------------------------
(* Streams of frames.                                                      *)
LEMMA LeastElement ==
    ASSUME NEW S, S \subseteq Nat, S # {}
    PROVE  \E n \in S : \A m \in S : n <= m
<1> DEFINE R == OpToRel(<, Nat)
<1>1. \A m, n \in Nat : <<m, n>> \in R <=> m < n
  BY DEF OpToRel
<1>2. IsWellFoundedOn(R, Nat)
  BY NatLessThanWellFounded
<1> HIDE DEF R
<1>3. PICK n \in S : \A m \in S : ~(<<m, n>> \in R)
  BY <1>2, WFMin
<1>4. ASSUME NEW m \in S PROVE n <= m
  <2>1. m \in Nat /\ n \in Nat
    OBVIOUS
  <2>2. ~(m < n)
    BY <1>1, <1>3, <2>1
  <2> QED
    BY <2>1, <2>2
<1> QED
  BY <1>4

LEMMA ListsExist ==
    ASSUME OnlyFrames, NEW s \in Streams
    PROVE  /\ IsStream(s)
           /\ FramesOf(s) \in FrameLists(s) /\ IsFrames(s, FramesOf(s))
<1>1. \E f \in FrameLists(s) : IsFrames(s, f)
  BY DEF OnlyFrames
<1> QED
  BY <1>1, StreamsAssumption DEF FramesOf

LEMMA ListFacts ==
    ASSUME OnlyFrames, NEW s \in Streams, NEW f, f = FramesOf(s)
    PROVE  /\ Len(f) \in Nat /\ DOMAIN f = 1 .. Len(f)
           /\ s.len = EndOf(s, f, Len(f)) /\ s.len \in Nat
           /\ \A i \in 0 .. Len(f) : EndOf(s, f, i) \in Nat
           /\ EndOf(s, f, 0) = 0
           /\ \A i \in 1 .. Len(f) :
                 /\ f[i] \in Nat /\ f[i] \in s.good /\ f[i] \in s.heads
                 /\ s.need[f[i]] \in Nat /\ s.need[f[i]] >= FRAME_SIZE
                 /\ EndOf(s, f, i) = f[i] + s.need[f[i]]
                 /\ EndOf(s, f, i - 1) <= f[i]
                 /\ \A h \in s.heads : h < f[i] => h < EndOf(s, f, i - 1)
<1>1. IsStream(s) /\ f \in FrameLists(s) /\ IsFrames(s, f)
  BY ListsExist
<1>2. PICK n \in 0 .. s.len \div FRAME_SIZE : f \in [1 .. n -> s.good]
  BY <1>1 DEF FrameLists
<1>3. s.len \in Nat /\ s.len \div FRAME_SIZE \in Int
  BY <1>1, SizeAssumption DEF IsStream
<1>4. n \in Nat
  BY <1>3
<1>5. f \in Seq(s.good) /\ Len(f) = n /\ DOMAIN f = 1 .. n
  BY <1>2, <1>4
<1>6. ASSUME NEW i \in 1 .. Len(f)
      PROVE  /\ f[i] \in Nat /\ f[i] \in s.good /\ f[i] \in s.heads
             /\ s.need[f[i]] \in Nat /\ s.need[f[i]] >= FRAME_SIZE
             /\ EndOf(s, f, i) = f[i] + s.need[f[i]]
             /\ EndOf(s, f, i) \in Nat
  <2>1. f[i] \in s.good /\ f[i] \in s.heads
    BY <1>1, <1>2, <1>5 DEF IsStream
  <2>2. f[i] \in Nat /\ s.need[f[i]] \in Nat /\ s.need[f[i]] >= FRAME_SIZE
    BY <1>1, <2>1, HeadFacts
  <2>3. i # 0
    BY <1>4, <1>5
  <2> QED
    BY <2>1, <2>2, <2>3 DEF EndOf, FrameEnd
<1>7. EndOf(s, f, 0) = 0
  BY DEF EndOf
<1>8. \A i \in 0 .. Len(f) : i = 0 \/ i \in 1 .. Len(f)
  BY <1>4, <1>5
<1>9. /\ s.len = EndOf(s, f, Len(f))
      /\ \A i \in 1 .. Len(f) :
            /\ EndOf(s, f, i - 1) <= f[i]
            /\ \A h \in s.heads : h < f[i] => h < EndOf(s, f, i - 1)
  BY <1>1, <1>5 DEF IsFrames
<1>10. \A i \in 0 .. Len(f) : EndOf(s, f, i) \in Nat
  BY <1>6, <1>7, <1>8
<1>11. Len(f) \in Nat /\ DOMAIN f = 1 .. Len(f) /\ s.len \in Nat
  BY <1>3, <1>4, <1>5
<1> QED
  BY <1>6, <1>7, <1>9, <1>10, <1>11

(* Every frame takes FRAME_SIZE bytes at least.                            *)
LEMMA Spacing ==
    ASSUME OnlyFrames, NEW s \in Streams, NEW f, f = FramesOf(s),
           NEW i \in 0 .. Len(f), NEW j \in i .. Len(f)
    PROVE  EndOf(s, f, j) >= EndOf(s, f, i) + FRAME_SIZE * (j - i)
<1> DEFINE Far(k) == EndOf(s, f, k) >= EndOf(s, f, i) + FRAME_SIZE * (k - i)
           S == {k \in i .. Len(f) : ~Far(k)}
<1>1. Len(f) \in Nat /\ (\A k \in 0 .. Len(f) : EndOf(s, f, k) \in Nat)
  BY ListFacts
<1>2. FRAME_SIZE \in Nat
  BY SizeAssumption
<1>3. Far(i)
  <2>1. FRAME_SIZE * (i - i) = 0
    BY <1>1, <1>2
  <2> QED
    BY <1>1, <2>1
<1>4. ASSUME NEW k \in i .. Len(f), k # i, Far(k - 1) PROVE Far(k)
  <2>1. k \in 1 .. Len(f) /\ k - 1 \in 0 .. Len(f) /\ k \in Int /\ i \in Int
    BY <1>1, <1>4
  <2>2. EndOf(s, f, k) >= EndOf(s, f, k - 1) + FRAME_SIZE
    <3>1. /\ f[k] \in Nat /\ s.need[f[k]] \in Nat
          /\ s.need[f[k]] >= FRAME_SIZE
          /\ EndOf(s, f, k) = f[k] + s.need[f[k]]
          /\ EndOf(s, f, k - 1) <= f[k]
      BY <2>1, ListFacts
    <3> QED
      BY <1>1, <1>2, <2>1, <3>1
  <2>3. FRAME_SIZE * (k - i) = FRAME_SIZE * ((k - 1) - i) + FRAME_SIZE
    BY <1>2, <2>1
  <2>4. FRAME_SIZE * (k - i) \in Int /\ FRAME_SIZE * ((k - 1) - i) \in Int
    BY <1>2, <2>1
  <2>5. EndOf(s, f, k) \in Nat /\ EndOf(s, f, k - 1) \in Nat
        /\ EndOf(s, f, i) \in Nat
    BY <1>1, <2>1
  <2> QED
    BY <1>2, <1>4, <2>2, <2>3, <2>4, <2>5
<1>5. S = {}
  <2> SUFFICES ASSUME S # {} PROVE FALSE
    OBVIOUS
  <2>1. S \subseteq Nat
    BY <1>1
  <2>2. PICK k \in S : \A m \in S : k <= m
    <3> HIDE DEF S
    <3> QED
      BY <2>1, LeastElement
  <2>3. k \in i .. Len(f) /\ ~Far(k)
    BY <2>2
  <2>4. k # i
    BY <1>3, <2>3
  <2>5. k - 1 \in i .. Len(f) /\ ~(k <= k - 1)
    BY <1>1, <2>3, <2>4
  <2>6. Far(k - 1)
    BY <2>2, <2>5
  <2> HIDE DEF Far, S
  <2> QED
    BY <1>4, <2>3, <2>4, <2>6
<1> HIDE DEF Far
<1>6. Far(j)
  BY <1>5
<1> QED
  BY <1>6 DEF Far

LEMMA EndsIncrease ==
    ASSUME OnlyFrames, NEW s \in Streams, NEW f, f = FramesOf(s),
           NEW i \in 0 .. Len(f), NEW j \in 0 .. Len(f)
    PROVE  /\ i <= j => EndOf(s, f, i) <= EndOf(s, f, j)
           /\ i < j  => EndOf(s, f, i) < EndOf(s, f, j)
<1>1. /\ Len(f) \in Nat /\ EndOf(s, f, i) \in Nat /\ EndOf(s, f, j) \in Nat
      /\ FRAME_SIZE \in Nat /\ FRAME_SIZE >= 2
  BY ListFacts, SizeAssumption
<1>2. CASE i < j
  <2>1. j \in i .. Len(f) /\ j - i \in Nat /\ j - i >= 1
    BY <1>1, <1>2
  <2>2. EndOf(s, f, j) >= EndOf(s, f, i) + FRAME_SIZE * (j - i)
    BY <2>1, Spacing
  <2>3. FRAME_SIZE * (j - i) \in Nat /\ FRAME_SIZE * (j - i) >= 1
    BY <1>1, <2>1
  <2> QED
    BY <1>1, <1>2, <2>2, <2>3
<1> QED
  BY <1>1, <1>2

LEMMA EndedFacts ==
    ASSUME OnlyFrames, NEW s \in Streams, NEW f, f = FramesOf(s),
           NEW t \in Nat
    PROVE  /\ EndedIn(s, t) \in 0 .. Len(f)
           /\ EndOf(s, f, EndedIn(s, t)) <= t
           /\ \A i \in 0 .. Len(f) :
                 EndOf(s, f, i) <= t <=> i <= EndedIn(s, t)
<1> DEFINE S == {i \in 0 .. Len(f) : i = Len(f) \/ EndOf(s, f, i + 1) > t}
<1>1. /\ Len(f) \in Nat /\ EndOf(s, f, 0) = 0
      /\ \A i \in 0 .. Len(f) : EndOf(s, f, i) \in Nat
  BY ListFacts
<1>2. S \subseteq Nat /\ Len(f) \in S
  BY <1>1
<1>3. PICK n \in S : \A m \in S : n <= m
  <2> HIDE DEF S
  <2> QED
    BY <1>2, LeastElement
<1>4. EndOf(s, f, n) <= t
  <2>1. CASE n = 0
    BY <1>1, <2>1
  <2>2. CASE n # 0
    <3>1. n - 1 \in 0 .. Len(f) /\ ~(n <= n - 1) /\ (n - 1) + 1 = n
          /\ n - 1 # Len(f)
      BY <1>1, <1>3, <2>2
    <3>2. ~(EndOf(s, f, n) > t)
      BY <1>3, <3>1
    <3> QED
      BY <1>1, <1>3, <3>2
  <2> QED
    BY <2>1, <2>2
<1>5. ASSUME NEW i \in 0 .. Len(f), EndOf(s, f, i) <= t PROVE i <= n
  <2> SUFFICES ASSUME n < i PROVE FALSE
    BY <1>1, <1>3
  <2>1. n + 1 \in 0 .. Len(f) /\ n + 1 <= i /\ n # Len(f)
    BY <1>1, <1>3
  <2>2. EndOf(s, f, n + 1) <= EndOf(s, f, i)
    BY <2>1, EndsIncrease
  <2>3. EndOf(s, f, n + 1) > t
    BY <1>3, <2>1
  <2> QED
    BY <1>1, <1>5, <2>1, <2>2, <2>3
<1> DEFINE Last(m) == /\ EndOf(s, f, m) <= t
                      /\ \A i \in 0 .. Len(f) : EndOf(s, f, i) <= t => i <= m
<1>6. n \in 0 .. Len(f) /\ Last(n)
  BY <1>3, <1>4, <1>5
<1>7. EndedIn(s, t) = CHOOSE m \in 0 .. Len(f) : Last(m)
  BY DEF EndedIn
<1>8. EndedIn(s, t) \in 0 .. Len(f) /\ Last(EndedIn(s, t))
  <2> HIDE DEF Last
  <2> QED
    BY <1>6, <1>7
<1>9. ASSUME NEW i \in 0 .. Len(f), i <= EndedIn(s, t)
      PROVE  EndOf(s, f, i) <= t
  <2>1. EndOf(s, f, i) <= EndOf(s, f, EndedIn(s, t))
    BY <1>8, <1>9, EndsIncrease
  <2> QED
    BY <1>1, <1>8, <2>1
<1> QED
  BY <1>8, <1>9

LEMMA BegunFacts ==
    ASSUME OnlyFrames, NEW s \in Streams, NEW f, f = FramesOf(s),
           NEW t \in 0 .. s.len
    PROVE  /\ BegunIn(s, t) \in 0 .. Len(f)
           /\ EndOf(s, f, BegunIn(s, t)) >= t
           /\ \A i \in 0 .. Len(f) :
                 EndOf(s, f, i) >= t <=> BegunIn(s, t) <= i
<1> DEFINE S == {i \in 0 .. Len(f) : EndOf(s, f, i) >= t}
<1>1. /\ Len(f) \in Nat /\ s.len = EndOf(s, f, Len(f)) /\ s.len \in Nat
      /\ \A i \in 0 .. Len(f) : EndOf(s, f, i) \in Nat
  BY ListFacts
<1>2. S \subseteq Nat /\ Len(f) \in S
  BY <1>1
<1>3. PICK n \in S : \A m \in S : n <= m
  <2> HIDE DEF S
  <2> QED
    BY <1>2, LeastElement
<1> DEFINE First(m) == /\ EndOf(s, f, m) >= t
                       /\ \A i \in 0 .. Len(f) : EndOf(s, f, i) >= t => m <= i
<1>4. n \in 0 .. Len(f) /\ First(n)
  BY <1>3
<1>5. BegunIn(s, t) = CHOOSE m \in 0 .. Len(f) : First(m)
  BY DEF BegunIn
<1>6. BegunIn(s, t) \in 0 .. Len(f) /\ First(BegunIn(s, t))
  <2> HIDE DEF First
  <2> QED
    BY <1>4, <1>5
<1>7. ASSUME NEW i \in 0 .. Len(f), BegunIn(s, t) <= i
      PROVE  EndOf(s, f, i) >= t
  <2>1. EndOf(s, f, BegunIn(s, t)) <= EndOf(s, f, i)
    BY <1>6, <1>7, EndsIncrease
  <2> QED
    BY <1>1, <1>6, <2>1
<1> QED
  BY <1>6, <1>7

(* Spans as sequences.                                                     *)
SpanItems(s) == {MessageAt(s, FramesOf(s)[k]) : k \in Int}

LEMMA SpanFacts ==
    ASSUME NEW s, NEW i \in Nat, NEW j \in Nat, i <= j
    PROVE  /\ Span(s, i, j) \in Seq(SpanItems(s))
           /\ Len(Span(s, i, j)) = j - i
           /\ \A k \in 1 .. j - i :
                 Span(s, i, j)[k] = MessageAt(s, FramesOf(s)[i + k])
<1>1. j - i \in Nat
  OBVIOUS
<1>2. ASSUME NEW k \in 1 .. j - i
      PROVE  MessageAt(s, FramesOf(s)[i + k]) \in SpanItems(s)
  <2>1. i + k \in Int
    OBVIOUS
  <2> QED
    BY <2>1 DEF SpanItems
<1> QED
  BY <1>1, <1>2 DEF Span

LEMMA SpanEmpty == ASSUME NEW s, NEW i \in Nat PROVE Span(s, i, i) = <<>>
<1>1. Span(s, i, i) \in Seq(SpanItems(s)) /\ Len(Span(s, i, i)) = 0
  BY SpanFacts
<1> QED
  BY <1>1, EmptySeq

LEMMA SpanConcat ==
    ASSUME NEW s, NEW i \in Nat, NEW j \in Nat, NEW k \in Nat,
           i <= j, j <= k
    PROVE  Span(s, i, j) \o Span(s, j, k) = Span(s, i, k)
<1> DEFINE a == Span(s, i, j)
           b == Span(s, j, k)
           c == Span(s, i, k)
<1>1. /\ a \in Seq(SpanItems(s)) /\ Len(a) = j - i
      /\ \A n \in 1 .. j - i : a[n] = MessageAt(s, FramesOf(s)[i + n])
  BY SpanFacts
<1>2. /\ b \in Seq(SpanItems(s)) /\ Len(b) = k - j
      /\ \A n \in 1 .. k - j : b[n] = MessageAt(s, FramesOf(s)[j + n])
  BY SpanFacts
<1>3. /\ c \in Seq(SpanItems(s)) /\ Len(c) = k - i
      /\ \A n \in 1 .. k - i : c[n] = MessageAt(s, FramesOf(s)[i + n])
  <2>1. i <= k
    OBVIOUS
  <2> QED
    BY <2>1, SpanFacts
<1> HIDE DEF a, b, c
<1>4. /\ a \o b \in Seq(SpanItems(s)) /\ Len(a \o b) = k - i
      /\ \A n \in 1 .. k - i :
            (a \o b)[n] = IF n <= j - i THEN a[n] ELSE b[n - (j - i)]
  <2>1. /\ a \o b \in Seq(SpanItems(s)) /\ Len(a \o b) = Len(a) + Len(b)
        /\ \A n \in 1 .. Len(a) + Len(b) :
              (a \o b)[n] = IF n <= Len(a) THEN a[n] ELSE b[n - Len(a)]
    BY <1>1, <1>2, ConcatProperties
  <2>2. Len(a) + Len(b) = k - i
    BY <1>1, <1>2
  <2> QED
    BY <1>1, <2>1, <2>2
<1>5. ASSUME NEW n \in 1 .. k - i PROVE (a \o b)[n] = c[n]
  <2>1. CASE n <= j - i
    BY <1>1, <1>3, <1>4, <2>1
  <2>2. CASE n > j - i
    <3>1. n - (j - i) \in 1 .. k - j /\ j + (n - (j - i)) = i + n
      BY <2>2
    <3> QED
      BY <1>2, <1>3, <1>4, <2>2, <3>1
  <2>3. n <= j - i \/ n > j - i
    OBVIOUS
  <2> QED
    BY <2>1, <2>2, <2>3
<1>6. a \o b = c
  BY <1>3, <1>4, <1>5, SeqEqual
<1> QED
  BY <1>6 DEF a, b, c

LEMMA SpanSplit ==
    ASSUME NEW s, NEW i \in Nat, NEW j \in Nat, NEW k \in Nat,
           i <= j, j <= k
    PROVE  /\ SubSeq(Span(s, i, k), 1, j - i) = Span(s, i, j)
           /\ SubSeq(Span(s, i, k), (j - i) + 1, k - i) = Span(s, j, k)
<1> DEFINE a == Span(s, i, j)
           b == Span(s, j, k)
           c == Span(s, i, k)
<1>1. /\ a \in Seq(SpanItems(s)) /\ Len(a) = j - i
      /\ \A n \in 1 .. j - i : a[n] = MessageAt(s, FramesOf(s)[i + n])
  BY SpanFacts
<1>2. /\ b \in Seq(SpanItems(s)) /\ Len(b) = k - j
      /\ \A n \in 1 .. k - j : b[n] = MessageAt(s, FramesOf(s)[j + n])
  BY SpanFacts
<1>3. /\ c \in Seq(SpanItems(s)) /\ Len(c) = k - i
      /\ \A n \in 1 .. k - i : c[n] = MessageAt(s, FramesOf(s)[i + n])
  <2>1. i <= k
    OBVIOUS
  <2> QED
    BY <2>1, SpanFacts
<1> HIDE DEF a, b, c
<1>4. SubSeq(c, 1, j - i) = a
  <2> DEFINE d == SubSeq(c, 1, j - i)
  <2>1. /\ d \in Seq(SpanItems(s)) /\ Len(d) = j - i
        /\ \A n \in 1 .. j - i : d[n] = c[n]
    BY <1>3
  <2> HIDE DEF d
  <2>2. \A n \in 1 .. j - i : d[n] = a[n]
    BY <1>1, <1>3, <2>1
  <2>3. d = a
    BY <1>1, <2>1, <2>2, SeqEqual
  <2> QED
    BY <2>3 DEF d
<1>5. SubSeq(c, (j - i) + 1, k - i) = b
  <2> DEFINE d == SubSeq(c, (j - i) + 1, k - i)
  <2>1. /\ d \in Seq(SpanItems(s)) /\ Len(d) = k - j
        /\ \A n \in 1 .. k - j : d[n] = c[n + (j - i)]
    <3>1. (j - i) + 1 \in Int /\ k - i \in Int /\ (k - i) - ((j - i) + 1) + 1 = k - j
          /\ (\A n \in Int : ((j - i) + 1) + n - 1 = n + (j - i))
      OBVIOUS
    <3>2. \A n \in (j - i) + 1 .. k - i : c[n] \in SpanItems(s)
      BY <1>3
    <3>3. /\ SubSeq(c, (j - i) + 1, k - i) \in Seq(SpanItems(s))
          /\ Len(SubSeq(c, (j - i) + 1, k - i))
               = IF (j - i) + 1 <= k - i THEN (k - i) - ((j - i) + 1) + 1 ELSE 0
          /\ \A n \in 1 .. (k - i) - ((j - i) + 1) + 1 :
                SubSeq(c, (j - i) + 1, k - i)[n] = c[((j - i) + 1) + n - 1]
      BY <3>1, <3>2, SubSeqProperties
    <3> QED
      BY <3>1, <3>3
  <2> HIDE DEF d
  <2>2. \A n \in 1 .. k - j : d[n] = b[n]
    <3> TAKE n \in 1 .. k - j
    <3>1. n + (j - i) \in 1 .. k - i /\ i + (n + (j - i)) = j + n
      OBVIOUS
    <3> QED
      BY <1>2, <1>3, <2>1, <3>1
  <2>3. d = b
    BY <1>2, <2>1, <2>2, SeqEqual
  <2> QED
    BY <2>3 DEF d
<1> QED
  BY <1>4, <1>5 DEF a, b, c

LEMMA SpanHead ==
    ASSUME NEW s, NEW i \in Nat, NEW k \in Nat, i < k
    PROVE  /\ Span(s, i, k) # <<>>
           /\ Head(Span(s, i, k)) = MessageAt(s, FramesOf(s)[i + 1])
           /\ Tail(Span(s, i, k)) = Span(s, i + 1, k)
<1>1. /\ Span(s, i, k) \in Seq(SpanItems(s)) /\ Len(Span(s, i, k)) = k - i
      /\ Span(s, i, k)[1] = MessageAt(s, FramesOf(s)[i + 1])
  BY SpanFacts
<1>2. SubSeq(Span(s, i, k), ((i + 1) - i) + 1, k - i) = Span(s, i + 1, k)
  <2>1. i + 1 \in Nat /\ i <= i + 1 /\ i + 1 <= k
    OBVIOUS
  <2> QED
    BY <2>1, SpanSplit
<1> HIDE DEF SpanItems
<1> DEFINE c == Span(s, i, k)
<1>3. c \in Seq(SpanItems(s)) /\ Len(c) = k - i /\ c # <<>>
  BY <1>1
<1> HIDE DEF c
<1>4. Tail(c) = SubSeq(c, 2, Len(c)) /\ Head(c) = c[1]
  BY <1>3
<1> QED
  BY <1>1, <1>2, <1>3, <1>4 DEF c

LEMMA SpanAppend ==
    ASSUME NEW s, NEW i \in Nat, NEW k \in Nat, i <= k
    PROVE  Append(Span(s, i, k), MessageAt(s, FramesOf(s)[k + 1]))
             = Span(s, i, k + 1)
<1> DEFINE m == MessageAt(s, FramesOf(s)[k + 1])
<1>0. k + 1 \in Nat /\ k <= k + 1 /\ (k + 1) - k = 1 /\ k + 1 \in Int
  OBVIOUS
<1>1. Span(s, i, k) \o Span(s, k, k + 1) = Span(s, i, k + 1)
  BY <1>0, SpanConcat
<1>2. /\ Span(s, k, k + 1) \in Seq(SpanItems(s)) /\ Len(Span(s, k, k + 1)) = 1
      /\ Span(s, k, k + 1)[1] = m
  <2>1. /\ Span(s, k, k + 1) \in Seq(SpanItems(s))
        /\ Len(Span(s, k, k + 1)) = (k + 1) - k
        /\ \A n \in 1 .. (k + 1) - k :
              Span(s, k, k + 1)[n] = MessageAt(s, FramesOf(s)[k + n])
    BY <1>0, SpanFacts
  <2>2. 1 \in 1 .. (k + 1) - k
    BY <1>0
  <2> QED
    BY <1>0, <2>1, <2>2
<1>3. Span(s, i, k) \in Seq(SpanItems(s)) /\ m \in SpanItems(s)
  BY <1>0, SpanFacts DEF SpanItems
<1> HIDE DEF m
<1>4. Span(s, k, k + 1) = <<m>>
  BY <1>2, <1>3, SeqEqual
<1>5. Span(s, i, k) \o <<m>> = Append(Span(s, i, k), m)
  BY <1>3
<1> QED
  BY <1>1, <1>4, <1>5 DEF m

=============================================================================
