------------------------- MODULE AgpsSessionProofs -------------------------
(***************************************************************************)
(* Proofs about the C dump (AgpsDump) and about the session of a dump and  *)
(* a load (AgpsSession): what is saved is what is counted, it fits into    *)
(* the buffer, the old dump is given up for a complete one only, the       *)
(* periodic position does not stay on, whatever process comes next, and    *)
(* the load turns all of a complete dump, up to its position, into         *)
(* messages for the receiver.                                              *)
(***************************************************************************)
EXTENDS AgpsSession, TLAPS, FiniteSetTheorems, SequenceTheorems

(* Counting distributes over the ways in which messages move.              *)
LEMMA PlacesFinite ==
    ASSUME NEW id, NEW s \in Seq(Messages)
    PROVE  IsFiniteSet({i \in DOMAIN s : s[i].id = id})
<1>1. IsFiniteSet(DOMAIN s)
  BY FS_Interval, LenProperties
<1> QED
  BY <1>1, FS_Subset

LEMMA CountType ==
    ASSUME NEW id, NEW s \in Seq(Messages)
    PROVE  CountOf(id, s) \in Nat
BY PlacesFinite, FS_CardinalityType DEF CountOf

LEMMA CountEmpty == ASSUME NEW id PROVE CountOf(id, <<>>) = 0
<1>1. {i \in DOMAIN << >> : << >>[i].id = id} = {}
  OBVIOUS
<1> QED
  BY <1>1, FS_EmptySet DEF CountOf

LEMMA CountConcat ==
    ASSUME NEW id, NEW s \in Seq(Messages), NEW t \in Seq(Messages)
    PROVE  CountOf(id, s \o t) = CountOf(id, s) + CountOf(id, t)
<1> DEFINE A == {i \in DOMAIN s : s[i].id = id}
           B == {i \in DOMAIN t : t[i].id = id}
           C == {i \in DOMAIN (s \o t) : (s \o t)[i].id = id}
           D == {i \in C : i > Len(s)}
           shift == [i \in B |-> i + Len(s)]
<1>1. /\ s \o t \in Seq(Messages)
      /\ DOMAIN s = 1 .. Len(s) /\ DOMAIN t = 1 .. Len(t)
      /\ DOMAIN (s \o t) = 1 .. Len(s) + Len(t)
      /\ Len(s) \in Nat /\ Len(t) \in Nat
      /\ \A i \in 1 .. Len(s) : (s \o t)[i] = s[i]
      /\ \A i \in 1 .. Len(t) : (s \o t)[i + Len(s)] = t[i]
  OBVIOUS
<1>2. IsFiniteSet(A) /\ IsFiniteSet(B) /\ IsFiniteSet(C)
  BY <1>1, PlacesFinite
<1>3. C = A \cup D /\ A \cap D = {}
  BY <1>1
<1>4. IsFiniteSet(D)
  BY <1>2, FS_Subset
<1>5. Cardinality(C) = Cardinality(A) + Cardinality(D)
  <2> HIDE DEF A, C, D
  <2>1. Cardinality(A \cup D) = Cardinality(A) + Cardinality(D) - Cardinality({})
    BY <1>2, <1>3, <1>4, FS_Union
  <2>2. Cardinality({}) = 0 /\ Cardinality(A) \in Nat /\ Cardinality(D) \in Nat
    BY <1>2, <1>4, FS_EmptySet, FS_CardinalityType
  <2> QED
    BY <1>3, <2>1, <2>2
<1>6. shift \in Bijection(B, D)
  <2>1. \A i \in B : i + Len(s) \in D
    BY <1>1
  <2>2. \A j \in D : j - Len(s) \in B /\ shift[j - Len(s)] = j
    BY <1>1
  <2>3. \A i, j \in B : i + Len(s) = j + Len(s) => i = j
    BY <1>1
  <2>4. shift \in [B -> D]
    BY <2>1
  <2> QED
    BY <2>2, <2>3, <2>4 DEF Bijection, Injection, Surjection, IsInjective
<1>7. Cardinality(D) = Cardinality(B)
  BY <1>2, <1>6, FS_Bijection DEF ExistsBijection
<1> QED
  BY <1>5, <1>7 DEF CountOf

LEMMA CountOne ==
    ASSUME NEW id, NEW m \in Messages
    PROVE  CountOf(id, <<m>>) = IF m.id = id THEN 1 ELSE 0
<1> DEFINE S == {i \in DOMAIN <<m>> : <<m>>[i].id = id}
<1>1. S = IF m.id = id THEN {1} ELSE {}
  OBVIOUS
<1> QED
  BY <1>1, FS_Singleton, FS_EmptySet DEF CountOf

LEMMA CountAppend ==
    ASSUME NEW id, NEW s \in Seq(Messages), NEW m \in Messages
    PROVE  CountOf(id, Append(s, m))
             = CountOf(id, s) + (IF m.id = id THEN 1 ELSE 0)
<1>1. <<m>> \in Seq(Messages) /\ Append(s, m) = s \o <<m>>
  BY AppendIsConcat
<1>2. CountOf(id, s \o <<m>>) = CountOf(id, s) + CountOf(id, <<m>>)
  BY <1>1, CountConcat
<1>3. CountOf(id, <<m>>) = IF m.id = id THEN 1 ELSE 0
  BY CountOne
<1> QED
  BY <1>1, <1>2, <1>3

LEMMA CountTail ==
    ASSUME NEW id, NEW s \in Seq(Messages), s # <<>>
    PROVE  CountOf(id, s)
             = CountOf(id, Tail(s)) + (IF Head(s).id = id THEN 1 ELSE 0)
<1>1. /\ Head(s) \in Messages /\ Tail(s) \in Seq(Messages)
      /\ <<Head(s)>> \in Seq(Messages)
      /\ s = <<Head(s)>> \o Tail(s)
  OBVIOUS
<1>2. CountOf(id, s) = CountOf(id, <<Head(s)>>) + CountOf(id, Tail(s))
  BY <1>1, CountConcat
<1>3. CountOf(id, <<Head(s)>>) = IF Head(s).id = id THEN 1 ELSE 0
  BY <1>1, CountOne
<1>4. CountOf(id, Tail(s)) \in Nat
  BY <1>1, CountType
<1> QED
  BY <1>2, <1>3, <1>4

(* read() moves messages and keeps their number.                           *)
LEMMA ReadKeeps ==
    ASSUME NEW l \in Seq(Messages), NEW b \in Seq(Messages),
           NEW r \in ReadResults(l, b)
    PROVE  /\ r.line \in Seq(Messages) /\ r.buf \in Seq(Messages)
           /\ \A id : CountOf(id, r.buf) + CountOf(id, r.line)
                        = CountOf(id, b) + CountOf(id, l)
<1>0. PICK n \in 0 .. Len(l), part \in BOOLEAN : r = Moved(l, b, n, part)
  BY DEF ReadResults
<1>1. r.line = SubSeq(l, n + 1, Len(l)) /\ r.buf = b \o SubSeq(l, 1, n)
  BY <1>0 DEF Moved
<1> DEFINE front == SubSeq(l, 1, n)  rest == SubSeq(l, n + 1, Len(l))
<1>2. front \in Seq(Messages) /\ rest \in Seq(Messages)
  BY LenProperties, ElementOfSeq, SubSeqProperties
<1>3. l = front \o rest
  <2>1. /\ Len(l) \in Nat /\ 1 \in 1 .. Len(l) + 1
        /\ n \in 1 - 1 .. Len(l) /\ Len(l) \in n .. Len(l)
    OBVIOUS
  <2>2. front \o rest = SubSeq(l, 1, Len(l))
    BY <2>1, ConcatAdjacentSubSeq
  <2> QED
    BY <2>2, SubSeqFull
<1> HIDE DEF front, rest
<1>4. ASSUME NEW id
      PROVE  CountOf(id, b \o front) + CountOf(id, rest)
               = CountOf(id, b) + CountOf(id, l)
  <2>1. CountOf(id, l) = CountOf(id, front) + CountOf(id, rest)
    BY <1>2, <1>3, CountConcat
  <2>2. CountOf(id, b \o front) = CountOf(id, b) + CountOf(id, front)
    BY <1>2, CountConcat
  <2>3. /\ CountOf(id, b) \in Nat /\ CountOf(id, front) \in Nat
        /\ CountOf(id, rest) \in Nat
    BY <1>2, CountType
  <2> QED
    BY <2>1, <2>2, <2>3
<1>5. r.line = rest /\ r.buf = b \o front
  BY <1>1 DEF front, rest
<1> QED
  BY <1>2, <1>4, <1>5

-----------------------------------------------------------------------------
LEMMA SatsType == Sats \in Nat /\ Stale \in Nat
BY DumpAssumption

LEMMA Numbers ==
    /\ DUMP_SIZE >= (Sats + Stale) * 160 + 108
    /\ FrameBytes["AID_ALM"] = 48 /\ FrameBytes["AID_EPH"] = 112
    /\ FrameBytes["AID_HUI"] = 80 /\ FrameBytes["NAV_POSECEF"] = 28
<1>1. Sats \in Nat /\ Stale \in Nat
  BY SatsType
<1>2. DUMP_SIZE >= (Sats + Stale) * (48 + 112) + 80 + 28
  BY DumpAssumption
<1>3. (Sats + Stale) * (48 + 112) + 80 + 28 = (Sats + Stale) * 160 + 108
  BY <1>1
<1> QED
  BY <1>1, <1>2, <1>3 DEF FrameBytes

LEMMA IInvInit == Init => IInv
<1> SUFFICES ASSUME Init PROVE IInv
  OBVIOUS
<1> USE DEF Init
<1>1. TypeOK
  <2>1. got \in [Wanted -> Nat] /\ got["AID_HUI"] = 0 /\ got["NAV_POSECEF"] = 0
    BY DEF Wanted
  <2>2. dumped \in [{"AID_ALM", "AID_EPH"} -> Nat]
    OBVIOUS
  <2>3. owed \in [{"AID_ALM", "AID_EPH", "AID_HUI"} -> Nat]
    BY SatsType
  <2>4. \A s \in {dump_buffer, file, buf, line} : s \in Seq(Messages)
    <3>1. file \in Seq(Messages) /\ <<>> \in Seq(Messages)
      BY DumpAssumption
    <3>2. dump_buffer = <<>> /\ buf = <<>> /\ line = <<>>
      OBVIOUS
    <3> HIDE DEF Init
    <3> QED
      BY <3>1, <3>2
  <2>5. requested \in 0 .. Len(Requests) /\ dump_used \in Nat /\ tx \in Seq(Commands)
    BY DEF Requests
  <2>6. got["AID_HUI"] \in 0 .. 1 /\ got["NAV_POSECEF"] \in 0 .. 1
    BY <2>1
  <2> QED
    BY <2>1, <2>2, <2>3, <2>4, <2>5, <2>6 DEF TypeOK
<1>2. SavedAsCounted
  BY CountEmpty DEF SavedAsCounted, Wanted
<1>3. AskedOnce
  BY DEF AskedOnce, Requests
<1>4. AnswersBounded
  <2> SUFFICES ASSUME NEW id \in {"AID_ALM", "AID_EPH"}
               PROVE  0 + 0 + 0 + owed[id]
                        + (IF Asking(id) THEN Sats ELSE 0) <= Sats + Stale
    BY CountEmpty DEF AnswersBounded
  <2> QED
    BY DumpAssumption
<1>5. UsedAsCounted
  BY DEF UsedAsCounted, Wanted
<1>6. EndsInOrder
  BY DEF EndsInOrder
<1> QED
  BY <1>1, <1>2, <1>3, <1>4, <1>5, <1>6 DEF IInv

(* What the handler does, by the message's id.                             *)
LEMMA Handled ==
    ASSUME TypeOK, NEW m \in Messages, dump_handle_message(m)
    PROVE  /\ got' = IF Counts(m) THEN [got EXCEPT ![m.id] = got[m.id] + 1] ELSE got
           /\ dumped' = IF Saves(m) /\ m.id \in {"AID_ALM", "AID_EPH"}
                        THEN [dumped EXCEPT ![m.id] = dumped[m.id] + 1] ELSE dumped
           /\ dump_buffer' = IF Saves(m) THEN Append(dump_buffer, m) ELSE dump_buffer
           /\ dump_used' = IF Saves(m) THEN dump_used + FrameBytes[m.id] ELSE dump_used
           /\ pc' = IF Collected(got') THEN "disarm" ELSE "read"
           /\ m.id \in Ids
           /\ Saves(m) => Counts(m) /\ m.size = "full"
           /\ Counts(m) => m.id \in Wanted
           /\ Counts(m) /\ m.id \in {"AID_HUI", "NAV_POSECEF"} =>
                 Saves(m) /\ got[m.id] = 0
<1>1. DOMAIN dumped = {"AID_ALM", "AID_EPH"}
  BY DEF TypeOK
<1>2. m.id \in Ids
  BY DEF Messages
<1> QED
  BY <1>1, <1>2 DEF dump_handle_message, Counts, Saves, Wanted

(* A message handled: what is saved, counted and left.                     *)
LEMMA HandleStep ==
    ASSUME IInv, Running("read"), NEW r \in ReadResults(line, buf),
           Visible(r), line' = r.line, buf' = Tail(r.buf),
           NEW m, m = Head(r.buf), dump_handle_message(m),
           UNCHANGED <<status, requested, armed, file, tx, owed, ecef_on>>
    PROVE  IInv'
<1>1. /\ r.line \in Seq(Messages) /\ r.buf \in Seq(Messages)
      /\ r.buf # <<>> /\ m \in Messages /\ Tail(r.buf) \in Seq(Messages)
      /\ line \in Seq(Messages) /\ buf \in Seq(Messages)
      /\ dump_buffer \in Seq(Messages)
  <2>1. /\ line \in Seq(Messages) /\ buf \in Seq(Messages)
        /\ dump_buffer \in Seq(Messages)
    BY DEF IInv, TypeOK
  <2>2. r.line \in Seq(Messages) /\ r.buf \in Seq(Messages)
    BY <2>1, ReadKeeps
  <2>3. r.buf # <<>>
    BY DEF Visible
  <2> QED
    BY <2>1, <2>2, <2>3
<1>2. TypeOK
  BY DEF IInv
<1>3. /\ got' = IF Counts(m) THEN [got EXCEPT ![m.id] = got[m.id] + 1] ELSE got
      /\ dumped' = IF Saves(m) /\ m.id \in {"AID_ALM", "AID_EPH"}
                   THEN [dumped EXCEPT ![m.id] = dumped[m.id] + 1] ELSE dumped
      /\ dump_buffer' = IF Saves(m) THEN Append(dump_buffer, m) ELSE dump_buffer
      /\ dump_used' = IF Saves(m) THEN dump_used + FrameBytes[m.id] ELSE dump_used
      /\ pc' = IF Collected(got') THEN "disarm" ELSE "read"
      /\ m.id \in Ids
      /\ Saves(m) => Counts(m) /\ m.size = "full"
      /\ Counts(m) => m.id \in Wanted
      /\ Counts(m) /\ m.id \in {"AID_HUI", "NAV_POSECEF"} =>
            Saves(m) /\ got[m.id] = 0
  BY <1>1, <1>2, Handled
<1>4. /\ got \in [Wanted -> Nat] /\ got["AID_HUI"] \in 0 .. 1
      /\ got["NAV_POSECEF"] \in 0 .. 1
      /\ dumped \in [{"AID_ALM", "AID_EPH"} -> Nat] /\ dump_used \in Nat
      /\ owed \in [{"AID_ALM", "AID_EPH", "AID_HUI"} -> Nat]
  BY <1>2 DEF TypeOK
<1>5. TypeOK'
  <2>1. /\ got' \in [Wanted -> Nat]
        /\ got'["AID_HUI"] \in 0 .. 1 /\ got'["NAV_POSECEF"] \in 0 .. 1
    <3>1. CASE Counts(m)
      <4>1. m.id \in Wanted /\ got[m.id] \in Nat
        BY <1>3, <1>4, <3>1
      <4>2. got' = [got EXCEPT ![m.id] = got[m.id] + 1]
        BY <1>3, <3>1
      <4>3. m.id \in {"AID_HUI", "NAV_POSECEF"} => got[m.id] = 0
        BY <1>3, <3>1
      <4> QED
        BY <1>4, <4>1, <4>2, <4>3
    <3>2. CASE ~Counts(m)
      BY <1>3, <1>4, <3>2
    <3> QED
      BY <3>1, <3>2
  <2>2. dumped' \in [{"AID_ALM", "AID_EPH"} -> Nat]
    BY <1>3, <1>4
  <2>3. dump_used' \in Nat
    <3>1. Saves(m) => FrameBytes[m.id] \in Nat
      BY <1>3, Numbers DEF Wanted
    <3>2. CASE Saves(m)
      <4>1. dump_used' = dump_used + FrameBytes[m.id]
        BY <1>3, <3>2
      <4> QED
        BY <1>4, <3>1, <3>2, <4>1
    <3>3. CASE ~Saves(m)
      BY <1>3, <1>4, <3>3
    <3> QED
      BY <3>2, <3>3
  <2>4. dump_buffer' \in Seq(Messages)
    BY <1>1, <1>3
  <2>5. pc' \in {"read", "disarm"}
    BY <1>3
  <2> QED
    BY <1>1, <1>2, <2>1, <2>2, <2>3, <2>4, <2>5 DEF TypeOK
<1>6. SavedAsCounted'
  <2>1. \A i \in DOMAIN dump_buffer :
           dump_buffer[i].size = "full" /\ dump_buffer[i].id \in Wanted
    BY DEF IInv, SavedAsCounted
  <2>2. \A i \in DOMAIN dump_buffer' :
           dump_buffer'[i].size = "full" /\ dump_buffer'[i].id \in Wanted
    BY <1>1, <1>3, <2>1
  <2>3. ASSUME NEW id \in Wanted
        PROVE  CountOf(id, dump_buffer') = IF id \in DOMAIN dumped'
                                           THEN dumped'[id] ELSE got'[id]
    <3>1. CountOf(id, dump_buffer) = IF id \in {"AID_ALM", "AID_EPH"}
                                     THEN dumped[id] ELSE got[id]
      BY <1>4 DEF IInv, SavedAsCounted
    <3>2. DOMAIN dumped' = {"AID_ALM", "AID_EPH"}
      BY <1>3, <1>4
    <3>3. CASE Saves(m)
      <4>1. CountOf(id, dump_buffer')
              = CountOf(id, dump_buffer) + (IF m.id = id THEN 1 ELSE 0)
        BY <1>1, <1>3, <3>3, CountAppend
      <4> QED
        BY <1>3, <1>4, <3>1, <3>2, <3>3, <4>1 DEF Wanted
    <3>4. CASE ~Saves(m)
      BY <1>3, <1>4, <3>1, <3>2, <3>4 DEF Wanted
    <3> QED
      BY <3>3, <3>4
  <2> QED
    BY <2>2, <2>3 DEF SavedAsCounted
<1>7. AskedOnce'
  <2>1. DOMAIN dumped' = DOMAIN dumped /\ pc' # "request"
    BY <1>3, <1>4
  <2> QED
    BY <2>1 DEF IInv, AskedOnce
<1>8. AnswersBounded'
  <2>1. DOMAIN dumped = {"AID_ALM", "AID_EPH"} /\ DOMAIN dumped' = DOMAIN dumped
    BY <1>3, <1>4
  <2> SUFFICES ASSUME NEW id \in {"AID_ALM", "AID_EPH"}
               PROVE  dumped'[id] + CountOf(id, buf') + CountOf(id, line') + owed'[id]
                        + (IF Asking(id)' THEN Sats ELSE 0) <= Sats + Stale
    BY <2>1 DEF AnswersBounded
  <2> DEFINE due == IF Asking(id) THEN Sats ELSE 0
             one == IF m.id = id THEN 1 ELSE 0
  <2>2. (IF Asking(id)' THEN Sats ELSE 0) = due
    BY DEF Asking
  <2>3. CountOf(id, r.buf) + CountOf(id, line')
          = CountOf(id, buf) + CountOf(id, line)
    BY <1>1, ReadKeeps
  <2>4. CountOf(id, r.buf) = CountOf(id, buf') + one
    BY <1>1, CountTail
  <2>5. dumped'[id] <= dumped[id] + one
    BY <1>3, <1>4
  <2>6. /\ CountOf(id, buf) \in Nat /\ CountOf(id, line) \in Nat
        /\ CountOf(id, buf') \in Nat /\ CountOf(id, line') \in Nat
    BY <1>1, CountType
  <2>7. /\ dumped[id] \in Nat /\ dumped'[id] \in Nat /\ owed[id] \in Nat
        /\ due \in Nat /\ one \in Nat /\ owed'[id] = owed[id]
    BY <1>4, <1>5, SatsType DEF TypeOK
  <2>8. dumped[id] + CountOf(id, buf) + CountOf(id, line) + owed[id] + due
          <= Sats + Stale
    BY <2>1 DEF IInv, AnswersBounded
  <2> HIDE DEF due, one
  <2> DEFINE b == CountOf(id, buf)  c == CountOf(id, buf')  e == CountOf(id, r.buf)
             l == CountOf(id, line)  k == CountOf(id, line')
             d == dumped[id]  f == dumped'[id]  o == owed[id]
  <2>10. /\ e + k = b + l /\ e = c + one /\ f <= d + one
         /\ b \in Nat /\ c \in Nat /\ l \in Nat /\ k \in Nat
         /\ d \in Nat /\ f \in Nat /\ o \in Nat /\ due \in Nat /\ one \in Nat
         /\ d + b + l + o + due <= Sats + Stale
    BY <2>3, <2>4, <2>5, <2>6, <2>7, <2>8
  <2> HIDE DEF b, c, e, l, k, d, f, o
  <2>11. f + c + k + o + due <= Sats + Stale
    BY <2>10, SatsType
  <2>9. dumped'[id] + CountOf(id, buf') + CountOf(id, line') + owed'[id] + due
          <= Sats + Stale
    BY <2>7, <2>11 DEF c, k, f, o
  <2> QED
    BY <2>2, <2>9
<1>9. UsedAsCounted'
  <2>1. dump_used = 48 * dumped["AID_ALM"] + 112 * dumped["AID_EPH"]
                    + 80 * got["AID_HUI"] + 28 * got["NAV_POSECEF"]
    BY DEF IInv, UsedAsCounted
  <2>2. CASE Saves(m)
    <3>1. /\ dump_used' = dump_used + FrameBytes[m.id]
          /\ m.id \in Wanted
          /\ got' = [got EXCEPT ![m.id] = got[m.id] + 1]
          /\ dumped' = IF m.id \in {"AID_ALM", "AID_EPH"}
                       THEN [dumped EXCEPT ![m.id] = dumped[m.id] + 1] ELSE dumped
      BY <1>3, <2>2
    <3> DEFINE a == dumped["AID_ALM"]  e == dumped["AID_EPH"]
               h == got["AID_HUI"]     p == got["NAV_POSECEF"]
    <3>6. /\ a \in Nat /\ e \in Nat /\ h \in Nat /\ p \in Nat
          /\ dump_used = 48 * a + 112 * e + 80 * h + 28 * p
      <4>1. a \in Nat /\ e \in Nat /\ h \in Nat /\ p \in Nat
        BY <1>4
      <4> QED
        BY <2>1, <4>1
    <3>7. /\ dumped'["AID_ALM"] = IF m.id = "AID_ALM" THEN a + 1 ELSE a
          /\ dumped'["AID_EPH"] = IF m.id = "AID_EPH" THEN e + 1 ELSE e
          /\ got'["AID_HUI"] = IF m.id = "AID_HUI" THEN h + 1 ELSE h
          /\ got'["NAV_POSECEF"] = IF m.id = "NAV_POSECEF" THEN p + 1 ELSE p
      BY <1>4, <3>1 DEF Wanted
    <3>8. dump_used' = dump_used + FrameBytes[m.id]
      BY <3>1
    <3> HIDE DEF a, e, h, p
    <3>9. SUFFICES dump_used' = 48 * dumped'["AID_ALM"] + 112 * dumped'["AID_EPH"]
                                + 80 * got'["AID_HUI"] + 28 * got'["NAV_POSECEF"]
      BY DEF UsedAsCounted
    <3>2. CASE m.id = "AID_ALM"
      <4>1. /\ dumped'["AID_ALM"] = a + 1 /\ dumped'["AID_EPH"] = e
            /\ got'["AID_HUI"] = h /\ got'["NAV_POSECEF"] = p
            /\ dump_used' = dump_used + 48
        BY <3>7, <3>8, <3>2, Numbers
      <4> QED
        BY <3>6, <4>1
    <3>3. CASE m.id = "AID_EPH"
      <4>1. /\ dumped'["AID_ALM"] = a /\ dumped'["AID_EPH"] = e + 1
            /\ got'["AID_HUI"] = h /\ got'["NAV_POSECEF"] = p
            /\ dump_used' = dump_used + 112
        BY <3>7, <3>8, <3>3, Numbers
      <4> QED
        BY <3>6, <4>1
    <3>4. CASE m.id = "AID_HUI"
      <4>1. /\ dumped'["AID_ALM"] = a /\ dumped'["AID_EPH"] = e
            /\ got'["AID_HUI"] = h + 1 /\ got'["NAV_POSECEF"] = p
            /\ dump_used' = dump_used + 80
        BY <3>7, <3>8, <3>4, Numbers
      <4> QED
        BY <3>6, <4>1
    <3>5. CASE m.id = "NAV_POSECEF"
      <4>1. /\ dumped'["AID_ALM"] = a /\ dumped'["AID_EPH"] = e
            /\ got'["AID_HUI"] = h /\ got'["NAV_POSECEF"] = p + 1
            /\ dump_used' = dump_used + 28
        BY <3>7, <3>8, <3>5, Numbers
      <4> QED
        BY <3>6, <4>1
    <3> QED
      BY <3>1, <3>2, <3>3, <3>4, <3>5 DEF Wanted
  <2>3. CASE ~Saves(m)
    BY <1>3, <1>4, <2>1, <2>3 DEF UsedAsCounted, Wanted
  <2> QED
    BY <2>2, <2>3
<1>10. EndsInOrder'
  <2>1. Collected(got') = Collected(got)'
    BY DEF Collected
  <2> QED
    BY <1>3, <2>1 DEF EndsInOrder, IInv, Running
<1> QED
  BY <1>5, <1>6, <1>7, <1>8, <1>9, <1>10 DEF IInv

(* A step that leaves the collection and both queues of messages alone     *)
(* keeps what is counted.                                                  *)
LEMMA CountsKept ==
    ASSUME IInv, UNCHANGED <<collection, buf, line>>
    PROVE  /\ SavedAsCounted' /\ UsedAsCounted'
           /\ DOMAIN dumped = {"AID_ALM", "AID_EPH"}
           /\ \A id \in DOMAIN dumped :
                 CountOf(id, buf') = CountOf(id, buf)
                 /\ CountOf(id, line') = CountOf(id, line)
BY DEF IInv, TypeOK, SavedAsCounted, UsedAsCounted, collection

(* Nothing is asked, sent or counted.                                      *)
LEMMA BoundsKept ==
    ASSUME IInv, UNCHANGED <<dumped, buf, line, owed, requested, tx>>
    PROVE  AnswersBounded'
<1>1. \A id : Asking(id)' = Asking(id)
  BY DEF Asking
<1> QED
  BY <1>1 DEF IInv, AnswersBounded

LEMMA RequestStep == ASSUME IInv, Request PROVE IInv'
<1> USE DEF Request, Running
<1>1. /\ TypeOK /\ AskedOnce /\ AnswersBounded /\ EndsInOrder
      /\ requested \in {0, 1, 2, 3} /\ requested' = requested + 1
      /\ tx \in Seq(Commands) /\ tx' = Append(tx, Requests[requested + 1])
  BY DEF IInv, TypeOK, AskedOnce, Requests
<1> DEFINE c == Requests[requested + 1]
<1>2. /\ c \in {"AID_HUI", "AID_ALM", "AID_EPH", "ecef_on"}
      /\ DOMAIN tx' = 1 .. Len(tx) + 1 /\ DOMAIN tx = 1 .. Len(tx)
      /\ Len(tx) \in Nat /\ tx'[Len(tx) + 1] = c
      /\ \A i \in 1 .. Len(tx) : tx'[i] = tx[i]
  BY <1>1 DEF Requests
<1>3. SavedAsCounted' /\ UsedAsCounted' /\ DOMAIN dumped = {"AID_ALM", "AID_EPH"}
  BY CountsKept
<1> HIDE DEF c
<1>4. TypeOK'
  <2>1. requested' \in 0 .. Len(Requests) /\ pc' \in {"arm", "request"}
    BY <1>1 DEF Requests
  <2>2. tx' \in Seq(Commands)
    BY <1>1, <1>2 DEF Commands, c
  <2> QED
    BY <1>1, <2>1, <2>2 DEF TypeOK, collection, device
<1>5. AskedOnce'
  <2>1. pc' = "request" => requested' < Len(Requests)
    BY <1>1 DEF Requests
  <2>2. \A j \in requested' + 1 .. Len(Requests) : Requests[j] # c
    BY <1>1 DEF Requests, c
  <2>3. \A i \in DOMAIN tx : tx[i] \in DOMAIN dumped => tx[i] # c
    BY <1>1 DEF AskedOnce, Requests, c
  <2> QED
    BY <1>1, <1>2, <2>1, <2>2, <2>3 DEF AskedOnce, collection
<1>6. AnswersBounded'
  <2>1. ASSUME NEW id PROVE Asking(id)' <=> Asking(id)
    <3>1. (\E i \in DOMAIN tx' : tx'[i] = id)
            <=> (\E i \in DOMAIN tx : tx[i] = id) \/ c = id
      BY <1>2
    <3>2. (\E i \in requested + 1 .. Len(Requests) : Requests[i] = id)
            <=> (\E i \in requested' + 1 .. Len(Requests) : Requests[i] = id)
                  \/ c = id
      BY <1>1 DEF Requests, c
    <3> QED
      BY <3>1, <3>2 DEF Asking
  <2> QED
    BY <1>1, <2>1 DEF AnswersBounded, collection, device
<1>7. EndsInOrder'
  BY <1>1 DEF EndsInOrder, collection
<1> QED
  BY <1>3, <1>4, <1>5, <1>6, <1>7 DEF IInv

LEMMA ObeyStep == ASSUME IInv, Obey PROVE IInv'
<1> DEFINE c == Head(tx)
<1>1. /\ TypeOK /\ AskedOnce /\ AnswersBounded /\ EndsInOrder
      /\ tx \in Seq(Commands)
      /\ tx # <<>> /\ tx' = Tail(tx)
      /\ UNCHANGED <<pc, status, host, file, buf, line>>
      /\ owed \in [{"AID_ALM", "AID_EPH", "AID_HUI"} -> Nat]
  BY DEF IInv, TypeOK, Obey
<1>2. /\ c = tx[1] /\ 1 \in DOMAIN tx
      /\ DOMAIN tx' = 1 .. Len(tx) - 1 /\ DOMAIN tx = 1 .. Len(tx)
      /\ Len(tx) \in Nat \ {0} /\ Len(tx') = Len(tx) - 1
      /\ \A i \in 1 .. Len(tx) - 1 : tx'[i] = tx[i + 1]
      /\ c \in Commands
  BY <1>1
<1>3. SavedAsCounted' /\ UsedAsCounted' /\ DOMAIN dumped = {"AID_ALM", "AID_EPH"}
  BY <1>1, CountsKept DEF host
<1> HIDE DEF c
<1>4. /\ owed' = IF c = "AID_HUI" THEN [owed EXCEPT !["AID_HUI"] = owed["AID_HUI"] + 1]
                 ELSE IF c \in {"AID_ALM", "AID_EPH"}
                 THEN [owed EXCEPT ![c] = owed[c] + Sats] ELSE owed
      /\ ecef_on' = IF c \in {"ecef_on", "ecef_off"} THEN (c = "ecef_on") ELSE ecef_on
  <2>1. LET h == Head(tx)
        IN  CASE h = "AID_HUI" -> /\ owed' = [owed EXCEPT ![h] = owed[h] + 1]
                                  /\ UNCHANGED ecef_on
              [] h \in {"AID_ALM", "AID_EPH"} ->
                                  /\ owed' = [owed EXCEPT ![h] = owed[h] + Sats]
                                  /\ UNCHANGED ecef_on
              [] OTHER ->         /\ ecef_on' = (h = "ecef_on")
                                  /\ UNCHANGED owed
    BY DEF Obey
  <2> QED
    BY <1>2, <2>1 DEF c, Commands
<1>5. TypeOK'
  <2>1. owed' \in [{"AID_ALM", "AID_EPH", "AID_HUI"} -> Nat]
    BY <1>1, <1>2, <1>4, SatsType
  <2>2. ecef_on' \in BOOLEAN
    BY <1>1, <1>4 DEF TypeOK
  <2>3. tx' \in Seq(Commands)
    BY <1>1
  <2> QED
    BY <1>1, <2>1, <2>2, <2>3 DEF TypeOK, host, collection
<1>6. AskedOnce'
  BY <1>1, <1>2 DEF AskedOnce, host, collection
<1>7. AnswersBounded'
  <2> SUFFICES ASSUME NEW id \in {"AID_ALM", "AID_EPH"}
               PROVE  dumped[id] + CountOf(id, buf) + CountOf(id, line) + owed'[id]
                        + (IF Asking(id)' THEN Sats ELSE 0) <= Sats + Stale
    BY <1>1, <1>3 DEF AnswersBounded, host, collection
  <2>1. dumped[id] + CountOf(id, buf) + CountOf(id, line) + owed[id]
          + (IF Asking(id) THEN Sats ELSE 0) <= Sats + Stale
    BY <1>1, <1>3 DEF AnswersBounded
  <2>2. /\ dumped[id] \in Nat /\ owed[id] \in Nat
        /\ CountOf(id, buf) \in Nat /\ CountOf(id, line) \in Nat
    BY <1>1, CountType DEF TypeOK
  <2>3. CASE c = id
    <3>1. Asking(id)
      BY <1>2, <2>3 DEF Asking
    <3>2. /\ \A j \in DOMAIN tx : tx[j] = id => j = 1
          /\ \A j \in requested + 1 .. Len(Requests) : Requests[j] # id
      BY <1>1, <1>2, <1>3, <2>3 DEF AskedOnce
    <3>4. \A j \in DOMAIN tx' : tx'[j] # id
      BY <1>2, <3>2
    <3>5. ~ Asking(id)'
      BY <1>1, <3>2, <3>4 DEF Asking, host
    <3>3. owed'[id] = owed[id] + Sats
      BY <1>1, <1>4, <2>3
    <3> QED
      BY <2>1, <2>2, <3>1, <3>3, <3>5, SatsType
  <2>4. CASE c # id
    <3>1. Asking(id)' => Asking(id)
      BY <1>1, <1>2 DEF Asking, host
    <3>2. owed'[id] = owed[id]
      BY <1>1, <1>4, <2>4
    <3> QED
      BY <2>1, <2>2, <3>1, <3>2, SatsType
  <2> QED
    BY <2>3, <2>4
<1>8. EndsInOrder'
  <2>1. pc \in {"open", "write", "close"} =>
          IF tx' = <<>> THEN ~ecef_on' ELSE tx'[Len(tx')] = "ecef_off"
    <3> SUFFICES ASSUME pc \in {"open", "write", "close"}
                 PROVE  IF tx' = <<>> THEN ~ecef_on' ELSE tx'[Len(tx')] = "ecef_off"
      OBVIOUS
    <3>1. tx[Len(tx)] = "ecef_off"
      BY <1>1 DEF EndsInOrder
    <3>2. CASE Len(tx) = 1
      <4>1. c = "ecef_off"
        BY <1>2, <3>1, <3>2
      <4>2. tx' = <<>>
        BY <1>1, <1>2, <3>2
      <4>3. ~ecef_on'
        BY <1>4, <4>1
      <4> QED
        BY <4>2, <4>3
    <3>3. CASE Len(tx) # 1
      <4>1. tx'[Len(tx')] = tx[Len(tx)] /\ tx' # <<>>
        BY <1>2, <3>3
      <4> QED
        BY <3>1, <4>1
    <3> QED
      BY <3>2, <3>3
  <2> QED
    BY <1>1, <2>1 DEF EndsInOrder, host, collection, Collected
<1> QED
  BY <1>3, <1>5, <1>6, <1>7, <1>8 DEF IInv

LEMMA AnswerStep == ASSUME IInv, Answer PROVE IInv'
<1>1. PICK id \in DOMAIN owed :
         /\ owed[id] > 0
         /\ owed' = [owed EXCEPT ![id] = owed[id] - 1]
         /\ \/ UNCHANGED line
            \/ \E size \in {"full", "bare"} :
                  line' = Append(line, [id |-> id, size |-> size])
  BY DEF Answer
<1>2. /\ TypeOK /\ SavedAsCounted /\ AskedOnce /\ AnswersBounded /\ UsedAsCounted
      /\ EndsInOrder /\ line \in Seq(Messages) /\ buf \in Seq(Messages)
      /\ UNCHANGED <<pc, status, host, file, buf, tx, ecef_on>>
      /\ owed \in [{"AID_ALM", "AID_EPH", "AID_HUI"} -> Nat]
      /\ id \in {"AID_ALM", "AID_EPH", "AID_HUI"}
      /\ dumped \in [{"AID_ALM", "AID_EPH"} -> Nat]
  BY <1>1 DEF IInv, TypeOK, Answer
<1>3. \A size \in {"full", "bare"} : [id |-> id, size |-> size] \in Messages
  BY <1>2 DEF Messages, Ids, Sizes
<1>4. line' \in Seq(Messages)
  <2>1. CASE UNCHANGED line
    BY <1>2, <2>1
  <2>2. ASSUME NEW size \in {"full", "bare"},
               line' = Append(line, [id |-> id, size |-> size])
        PROVE  line' \in Seq(Messages)
    BY <1>2, <1>3, <2>2
  <2> QED
    BY <1>1, <2>1, <2>2
<1>5. TypeOK'
  <2>1. owed' \in [{"AID_ALM", "AID_EPH", "AID_HUI"} -> Nat]
    BY <1>1, <1>2
  <2> QED
    BY <1>2, <1>4, <2>1 DEF TypeOK, host, collection
<1>6. AnswersBounded'
  <2> SUFFICES ASSUME NEW x \in {"AID_ALM", "AID_EPH"}
               PROVE  dumped[x] + CountOf(x, buf) + CountOf(x, line') + owed'[x]
                        + (IF Asking(x) THEN Sats ELSE 0) <= Sats + Stale
    BY <1>2 DEF AnswersBounded, Asking, host, collection
  <2>1. dumped[x] + CountOf(x, buf) + CountOf(x, line) + owed[x]
          + (IF Asking(x) THEN Sats ELSE 0) <= Sats + Stale
    BY <1>2 DEF AnswersBounded
  <2>2. /\ dumped[x] \in Nat /\ owed[x] \in Nat /\ owed'[x] \in Nat
        /\ CountOf(x, buf) \in Nat /\ CountOf(x, line) \in Nat
        /\ CountOf(x, line') \in Nat
    BY <1>2, <1>4, <1>5, CountType DEF TypeOK
  <2>3. CountOf(x, line') <= CountOf(x, line) + (IF x = id THEN 1 ELSE 0)
    <3>1. CASE UNCHANGED line
      BY <2>2, <3>1
    <3>2. ASSUME NEW size \in {"full", "bare"},
                 line' = Append(line, [id |-> id, size |-> size])
          PROVE  CountOf(x, line') = CountOf(x, line) + (IF x = id THEN 1 ELSE 0)
      BY <1>2, <1>3, <3>2, CountAppend
    <3> QED
      BY <1>1, <2>2, <3>1, <3>2
  <2>4. owed'[x] + (IF x = id THEN 1 ELSE 0) = owed[x]
    BY <1>1, <1>2
  <2> QED
    BY <2>1, <2>2, <2>3, <2>4, SatsType
<1>7. SavedAsCounted' /\ AskedOnce' /\ UsedAsCounted' /\ EndsInOrder'
  BY <1>2 DEF SavedAsCounted, AskedOnce, UsedAsCounted, EndsInOrder, host, collection
<1> QED
  BY <1>5, <1>6, <1>7 DEF IInv

LEMMA PositionStep == ASSUME IInv, Position PROVE IInv'
<1> DEFINE m == Full("NAV_POSECEF")
<1>1. /\ TypeOK /\ line \in Seq(Messages) /\ buf \in Seq(Messages)
      /\ m \in Messages /\ line' = Append(line, m)
      /\ UNCHANGED <<pc, status, host, file, buf, tx, device>>
      /\ DOMAIN dumped = {"AID_ALM", "AID_EPH"}
  BY DEF IInv, TypeOK, Position, Messages, Full, Ids, Sizes
<1>2. TypeOK'
  <2>1. line' \in Seq(Messages)
    BY <1>1
  <2> QED
    BY <1>1, <2>1 DEF TypeOK, host, collection, device
<1>3. \A id \in {"AID_ALM", "AID_EPH"} : CountOf(id, line') = CountOf(id, line)
  <2> TAKE id \in {"AID_ALM", "AID_EPH"}
  <2>1. m.id # id
    BY DEF Full
  <2>2. CountOf(id, line') = CountOf(id, line) + (IF m.id = id THEN 1 ELSE 0)
    BY <1>1, CountAppend
  <2> QED
    BY <1>1, <2>1, <2>2, CountType
<1>4. AnswersBounded'
  <2>1. \A id : Asking(id)' = Asking(id)
    BY <1>1 DEF Asking, host
  <2> QED
    BY <1>1, <1>3, <2>1 DEF IInv, AnswersBounded, host, collection, device
<1>5. SavedAsCounted' /\ AskedOnce' /\ UsedAsCounted' /\ EndsInOrder'
  BY <1>1 DEF IInv, SavedAsCounted, AskedOnce, UsedAsCounted, EndsInOrder,
              host, collection, device
<1> QED
  BY <1>2, <1>4, <1>5 DEF IInv

(* Appending the last command.                                             *)
LEMMA DisableStep == ASSUME IInv, Disable PROVE IInv'
<1>1. /\ TypeOK /\ AskedOnce /\ AnswersBounded /\ EndsInOrder
      /\ tx \in Seq(Commands)
      /\ tx' = Append(tx, "ecef_off") /\ pc = "disable" /\ pc' = "open"
      /\ status = "running"
      /\ UNCHANGED <<status, host, file, buf, line, device>>
      /\ DOMAIN dumped = {"AID_ALM", "AID_EPH"}
  BY DEF IInv, TypeOK, Disable, Running
<1>2. /\ DOMAIN tx' = 1 .. Len(tx) + 1 /\ DOMAIN tx = 1 .. Len(tx)
      /\ Len(tx) \in Nat /\ Len(tx') = Len(tx) + 1
      /\ tx'[Len(tx) + 1] = "ecef_off" /\ tx' # <<>>
      /\ \A i \in 1 .. Len(tx) : tx'[i] = tx[i]
  BY <1>1
<1>3. TypeOK'
  <2>1. tx' \in Seq(Commands)
    BY <1>1 DEF Commands
  <2> QED
    BY <1>1, <2>1 DEF TypeOK, host, collection, device
<1>4. AskedOnce'
  BY <1>1, <1>2 DEF AskedOnce, host, collection
<1>5. AnswersBounded'
  <2>1. \A id \in {"AID_ALM", "AID_EPH"} : Asking(id)' <=> Asking(id)
    BY <1>1, <1>2 DEF Asking, host
  <2> QED
    BY <1>1, <2>1 DEF AnswersBounded, host, collection, device
<1>6. EndsInOrder'
  BY <1>1, <1>2 DEF EndsInOrder, host, collection, Collected
<1>7. SavedAsCounted' /\ UsedAsCounted'
  BY <1>1, CountsKept DEF host
<1> QED
  BY <1>3, <1>4, <1>5, <1>6, <1>7 DEF IInv

LEMMA WriteStep == ASSUME IInv, Write PROVE IInv'
<1>1. /\ dump_buffer \in Seq(Messages) /\ file' \in Seq(Messages)
      /\ pc = "write" /\ pc' = "close" /\ status' = "exit_0"
      /\ UNCHANGED <<host, buf, tx, line, device>>
  <2>1. dump_buffer \in Seq(Messages)
    BY DEF IInv, TypeOK
  <2>2. PICK n \in 0 .. Len(dump_buffer) : file' = SubSeq(dump_buffer, 1, n)
    BY DEF Write
  <2>3. SubSeq(dump_buffer, 1, n) \in Seq(Messages)
    BY <2>1
  <2> QED
    BY <2>1, <2>2, <2>3 DEF Write, Running
<1>2. TypeOK'
  BY <1>1 DEF IInv, TypeOK, host, collection, device
<1>3. AskedOnce' /\ EndsInOrder'
  BY <1>1 DEF IInv, AskedOnce, EndsInOrder, Collected, host, collection, device
<1>4. AnswersBounded' /\ SavedAsCounted' /\ UsedAsCounted'
  BY <1>1, BoundsKept, CountsKept DEF host, collection, device
<1> QED
  BY <1>2, <1>3, <1>4 DEF IInv

(* The steps that move the program on and leave messages and commands.     *)
LEMMA ControlStep ==
    ASSUME IInv, Arm \/ Disarm \/ Open \/ Alarm \/ Panic \/ Kill PROVE IInv'
<1>1. /\ UNCHANGED <<requested, collection, dump_buffer, buf, tx, line, device>>
      /\ pc' \in {"read", "disable", "write", pc}
      /\ status' \in {"exit_0", "timeout", "panic", "killed", status}
      /\ armed' \in BOOLEAN
      /\ file' = file \/ file' = <<>>
  BY DEF IInv, TypeOK, Arm, Disarm, Open, Alarm, Panic, Kill, host, collection
<1>2. TypeOK'
  <2>1. file' \in Seq(Messages)
    <3>1. file \in Seq(Messages)
      BY DEF IInv, TypeOK
    <3> QED
      BY <1>1, <3>1, EmptySeq
  <2>2. pc' \in {"request", "arm", "read", "disarm", "disable", "open", "write",
                 "close"}
    BY <1>1 DEF IInv, TypeOK
  <2>3. status' \in {"running", "exit_0", "timeout", "panic", "killed"}
    BY <1>1 DEF IInv, TypeOK
  <2> QED
    BY <1>1, <2>1, <2>2, <2>3 DEF IInv, TypeOK, collection, device
<1>3. AnswersBounded' /\ SavedAsCounted' /\ UsedAsCounted'
  BY <1>1, BoundsKept, CountsKept DEF collection, device
<1>4. AskedOnce'
  BY <1>1 DEF IInv, AskedOnce, collection
<1>5. EndsInOrder'
  <2> USE DEF IInv, EndsInOrder, Collected, Running, host, collection, device
  <2>1. CASE Arm
    BY <2>1 DEF Arm
  <2>2. CASE Disarm
    BY <2>2 DEF Disarm
  <2>3. CASE Open
    BY <2>3 DEF Open
  <2>4. CASE Alarm
    BY <2>4 DEF Alarm
  <2>5. CASE Panic
    BY <2>5 DEF Panic
  <2>6. CASE Kill
    BY <2>6 DEF Kill
  <2> QED
    BY <2>1, <2>2, <2>3, <2>4, <2>5, <2>6
<1> QED
  BY <1>2, <1>3, <1>4, <1>5 DEF IInv

LEMMA ReadStep == ASSUME IInv, Read PROVE IInv'
<1>1. PICK r \in ReadResults(line, buf) :
         /\ line' = r.line
         /\ IF Visible(r)
            THEN /\ buf' = Tail(r.buf)
                 /\ dump_handle_message(Head(r.buf))
            ELSE /\ buf' = r.buf
                 /\ UNCHANGED <<collection, pc>>
  BY DEF Read
<1>2. /\ UNCHANGED <<status, requested, armed, file, tx, owed, ecef_on>>
      /\ Running("read")
  BY DEF Read, device
<1>3. CASE Visible(r)
  BY <1>1, <1>2, <1>3, HandleStep
<1>4. CASE ~Visible(r)
  <2>1. buf' = r.buf /\ line' = r.line /\ UNCHANGED <<collection, pc>>
    BY <1>1, <1>4
  <2>2. /\ line \in Seq(Messages) /\ buf \in Seq(Messages)
        /\ dumped \in [{"AID_ALM", "AID_EPH"} -> Nat]
    BY DEF IInv, TypeOK
  <2>3. line' \in Seq(Messages) /\ buf' \in Seq(Messages)
    BY <2>1, <2>2, ReadKeeps
  <2>4. TypeOK'
    BY <1>2, <2>1, <2>3 DEF IInv, TypeOK, collection
  <2>5. AnswersBounded'
    <3> SUFFICES ASSUME NEW id \in {"AID_ALM", "AID_EPH"}
                 PROVE  dumped[id] + CountOf(id, buf') + CountOf(id, line') + owed[id]
                          + (IF Asking(id) THEN Sats ELSE 0) <= Sats + Stale
      BY <1>2, <2>1, <2>2 DEF AnswersBounded, Asking, collection
    <3>1. dumped[id] + CountOf(id, buf) + CountOf(id, line) + owed[id]
            + (IF Asking(id) THEN Sats ELSE 0) <= Sats + Stale
      BY <2>2 DEF IInv, AnswersBounded
    <3>2. CountOf(id, buf') + CountOf(id, line') = CountOf(id, buf) + CountOf(id, line)
      BY <2>1, <2>2, ReadKeeps
    <3>3. /\ dumped[id] \in Nat /\ owed[id] \in Nat
          /\ CountOf(id, buf) \in Nat /\ CountOf(id, line) \in Nat
          /\ CountOf(id, buf') \in Nat /\ CountOf(id, line') \in Nat
      BY <2>2, <2>3, CountType DEF IInv, TypeOK
    <3> QED
      BY <3>1, <3>2, <3>3, SatsType
  <2>6. SavedAsCounted' /\ AskedOnce' /\ UsedAsCounted' /\ EndsInOrder'
    BY <1>2, <2>1 DEF IInv, SavedAsCounted, AskedOnce, UsedAsCounted, EndsInOrder,
                      Collected, collection
  <2> QED
    BY <2>4, <2>5, <2>6 DEF IInv
<1> QED
  BY <1>3, <1>4

LEMMA IInvStep == IInv /\ [Next]_vars => IInv'
<1> SUFFICES ASSUME IInv, [Next]_vars PROVE IInv'
  OBVIOUS
<1>1. CASE Request
  BY <1>1, RequestStep
<1>2. CASE Read
  BY <1>2, ReadStep
<1>3. CASE Disable
  BY <1>3, DisableStep
<1>4. CASE Write
  BY <1>4, WriteStep
<1>5. CASE Arm \/ Disarm \/ Open \/ Alarm \/ Panic \/ Kill
  BY <1>5, ControlStep
<1>6. CASE Obey
  BY <1>6, ObeyStep
<1>7. CASE Answer
  BY <1>7, AnswerStep
<1>8. CASE Position
  BY <1>8, PositionStep
<1>9. CASE UNCHANGED vars
  <2>1. UNCHANGED <<pc, status, requested, armed, collection, file, buf, tx, line,
                    owed, ecef_on>>
    BY <1>9 DEF vars, host, device
  <2>2. TypeOK'
    BY <2>1 DEF IInv, TypeOK, collection
  <2>3. AnswersBounded' /\ SavedAsCounted' /\ UsedAsCounted'
    BY <2>1, BoundsKept, CountsKept DEF collection
  <2>4. AskedOnce' /\ EndsInOrder'
    BY <2>1 DEF IInv, AskedOnce, EndsInOrder, Collected, collection
  <2> QED
    BY <2>2, <2>3, <2>4 DEF IInv
<1> QED
  BY <1>1, <1>2, <1>3, <1>4, <1>5, <1>6, <1>7, <1>8, <1>9 DEF Next, Host, Receiver

LEMMA Invariant == Spec => []IInv
BY IInvInit, IInvStep, PTL DEF Spec

-----------------------------------------------------------------------------
(* For each message of a dump the load sends one, the position as AID_INI. *)
LEMMA DumpedIsSent ==
    ASSUME NEW m \in Dumped
    PROVE  /\ Load!SendsAs(m) = <<Load!SendsAs(m)[1]>>
           /\ Load!SendsAs(m)[1].size = "full"
           /\ m.id = "NAV_POSECEF" => Load!SendsAs(m)[1].id = "AID_INI"
<1>1. m = [id |-> m.id, size |-> "full"] /\ m.id \in Wanted
  BY DEF Dumped
<1>2. CASE m.id \in {"AID_ALM", "AID_EPH"}
  <2>1. Load!SendsAs(m) = <<m>>
    BY <1>2 DEF Load!SendsAs
  <2> QED
    BY <1>1, <1>2, <2>1
<1>3. CASE m.id = "AID_HUI"
  <2>1. Load!SendsAs(m) = <<[m EXCEPT !.id = "AID_EPH"]>>
    BY <1>3 DEF Load!SendsAs
  <2>2. [m EXCEPT !.id = "AID_EPH"] = [id |-> "AID_EPH", size |-> "full"]
    BY <1>1
  <2> QED
    BY <1>3, <2>1, <2>2
<1>4. CASE m.id = "NAV_POSECEF"
  <2>1. Load!SendsAs(m) = <<[id |-> "AID_INI", size |-> "full"]>>
    BY <1>4 DEF Load!SendsAs
  <2> QED
    BY <2>1
<1> QED
  BY <1>1, <1>2, <1>3, <1>4 DEF Wanted

LEMMA SessionStart == SessionInit => SessionIInv
BY IInvInit DEF SessionInit, SessionIInv

(* What a complete dump leaves behind is whole, and is what the load gets. *)
LEMMA RestartStep == ASSUME SessionIInv, Restart PROVE SessionIInv'
<1>1. /\ IInv /\ fed' = <<>> /\ next' = 0 /\ program' = "load"
      /\ pc' = "open" /\ file' = file
      /\ saved' = IF DumpComplete THEN dump_buffer ELSE <<>>
  BY DEF Restart, SessionIInv, load_only
<1>2. file \in Seq(Messages) /\ dump_buffer \in Seq(Messages)
  BY <1>1 DEF IInv, TypeOK
<1>3. dump_buffer \in Seq(Dumped)
  <2> SUFFICES ASSUME NEW i \in 1 .. Len(dump_buffer)
               PROVE  dump_buffer[i] \in Dumped
    BY <1>2
  <2>1. dump_buffer[i] \in Messages
    BY <1>2
  <2>2. dump_buffer[i] = [id |-> dump_buffer[i].id, size |-> dump_buffer[i].size]
    BY <2>1 DEF Messages
  <2>3. dump_buffer[i].size = "full" /\ dump_buffer[i].id \in Wanted
    BY <1>1, <1>2 DEF IInv, SavedAsCounted
  <2> QED
    BY <2>2, <2>3 DEF Dumped
<1>4. saved' # <<>> => file' = saved' /\ saved' \in Seq(Dumped)
  BY <1>1, <1>3 DEF DumpComplete
<1>5. FedAsDumped'
  BY <1>1 DEF FedAsDumped
<1>6. next' \in 0 .. Len(file')
  BY <1>1, <1>2
<1>7. SavedAsCounted'
  <2>1. /\ dump_buffer' = <<>>
        /\ got' = [id \in DOMAIN got |-> 0]
        /\ dumped' = [id \in DOMAIN dumped |-> 0]
        /\ DOMAIN got = Wanted
    BY <1>1 DEF Restart, IInv, TypeOK
  <2> QED
    BY <2>1, CountEmpty DEF SavedAsCounted
<1>8. dump_used' = 0 /\ tx' = <<>> /\ ~ecef_on'
  BY DEF Restart
<1> QED
  BY <1>1, <1>2, <1>4, <1>5, <1>6, <1>7, <1>8 DEF SessionIInv

(* One more message of the file.                                           *)
LEMMA FeedStep ==
    ASSUME SessionIInv, program = "load", Load!Feed,
           UNCHANGED <<program, saved, collection, tx, ecef_on>>
    PROVE  SessionIInv'
<1> DEFINE n == next + 1
<1>1. /\ pc = "feed" /\ pc' = "feed" /\ file' = file /\ next' = n
      /\ SubSeq(file, n, Len(file)) # <<>>
      /\ fed' = fed \o Load!SendsAs(file[n])
      /\ status' = IF file[n].id = "NAV_POSECEF" THEN "exit_0" ELSE "running"
  BY DEF Load!Feed, Load!Running, Load!Visible, Load!handle_message_from_file
<1>2. file \in Seq(Messages) /\ next \in 0 .. Len(file) /\ Len(file) \in Nat
  BY DEF SessionIInv
<1>3. n \in 1 .. Len(file) /\ n = next + 1
  <2>1. n \in Nat \ {0} /\ n <= Len(file) + 1
    BY <1>2
  <2>2. n # Len(file) + 1
    BY <1>1, <1>2, SubSeqEmpty
  <2> QED
    BY <1>2, <2>1, <2>2
<1> HIDE DEF n
<1>4. ASSUME saved # <<>>
      PROVE  file = saved /\ saved \in Seq(Dumped) /\ FedAsDumped'
  <2>1. /\ file = saved /\ saved \in Seq(Dumped)
        /\ fed = [i \in 1 .. next |-> Load!SendsAs(saved[i])[1]]
    BY <1>4 DEF SessionIInv, FedAsDumped
  <2> DEFINE x == Load!SendsAs(saved[n])[1]
  <2>2. Load!SendsAs(saved[n]) = <<x>>
    BY <1>3, <2>1, DumpedIsSent
  <2> HIDE DEF x
  <2>3. fed' = fed \o <<x>>
    BY <1>1, <2>1, <2>2
  <2>4. fed' = [i \in 1 .. n |-> IF i = n THEN x ELSE fed[i]]
    BY <1>2, <1>3, <2>1, <2>3
  <2>5. fed' = [i \in 1 .. n |-> Load!SendsAs(saved[i])[1]]
    BY <1>2, <1>3, <2>1, <2>4 DEF x
  <2> QED
    BY <1>1, <2>1, <2>5 DEF FedAsDumped
<1>5. n > 0 /\ n \in 0 .. Len(file)
  BY <1>2, <1>3
<1>6. SavedAsCounted' /\ dump_used' = 0
  BY DEF SessionIInv, SavedAsCounted, collection
<1> QED
  BY <1>1, <1>2, <1>4, <1>5, <1>6 DEF SessionIInv

LEMMA LoadStep ==
    ASSUME SessionIInv, LoadDoes(Load!Next)
    PROVE  SessionIInv'
<1>1. /\ program = "load" /\ Load!Next
      /\ UNCHANGED <<program, saved, collection, tx, ecef_on>>
  BY DEF LoadDoes, device
<1>2. CASE Load!Feed
  BY <1>1, <1>2, FeedStep
<1>3. CASE ~Load!Feed
  <2>1. /\ UNCHANGED <<file, fed, next>>
        /\ pc' = "feed" /\ status' = "exit_0" => pc = "feed" /\ status = "exit_0"
    BY <1>1, <1>3
       DEF Load!Next, Load!Host, Load!Open, Load!Enable, Load!Arm, Load!Wait,
           Load!wait_for_aid_data_request, Load!Disarm, Load!Alarm, Load!Panic,
           Load!AskForData, Load!Chat, Load!Send, Load!Running
  <2>2. FedAsDumped' = FedAsDumped
    BY <1>1, <2>1 DEF FedAsDumped
  <2>3. SavedAsCounted' /\ dump_used' = 0
    BY <1>1 DEF SessionIInv, SavedAsCounted, collection
  <2> QED
    BY <1>1, <2>1, <2>2, <2>3 DEF SessionIInv
<1> QED
  BY <1>2, <1>3

LEMMA SessionStep == SessionIInv /\ [SessionNext]_session_vars => SessionIInv'
<1> SUFFICES ASSUME SessionIInv, [SessionNext]_session_vars PROVE SessionIInv'
  OBVIOUS
<1>1. CASE DumpDoes(Next)
  <2>1. /\ program = "dump" /\ IInv /\ Next
        /\ UNCHANGED <<program, saved, fed, next>>
    BY <1>1 DEF SessionIInv, DumpDoes, load_only
  <2>2. IInv'
    BY <2>1, IInvStep
  <2> QED
    BY <2>1, <2>2 DEF SessionIInv
<1>2. CASE Restart
  BY <1>2, RestartStep
<1>3. CASE LoadDoes(Load!Next)
  BY <1>3, LoadStep
<1>4. CASE UNCHANGED session_vars
  <2>1. UNCHANGED <<program, saved, fed, next, pc, status, file>> /\ UNCHANGED vars
    BY <1>4 DEF session_vars, load_only, vars
  <2>2. IInv => IInv'
    BY <2>1, IInvStep
  <2>3. FedAsDumped' = FedAsDumped
    BY <2>1 DEF FedAsDumped
  <2>4. /\ SavedAsCounted' = SavedAsCounted
        /\ UNCHANGED <<dump_used, tx, ecef_on>>
    BY <2>1 DEF SavedAsCounted, vars, host, collection, device
  <2> QED
    BY <2>1, <2>2, <2>3, <2>4 DEF SessionIInv
<1> QED
  BY <1>1, <1>2, <1>3, <1>4 DEF SessionNext

LEMMA SessionInvariant == SessionSpec => []SessionIInv
BY SessionStart, SessionStep, PTL DEF SessionSpec

-----------------------------------------------------------------------------
(* Every variable of dump_agps keeps its type.                             *)
THEOREM TypeCorrect == Spec => []TypeOK
<1>1. IInv => TypeOK
  BY DEF IInv
<1> QED
  BY <1>1, Invariant, PTL

(* The dump holds what the message printed at the end counts, and only     *)
(* full messages (c/dump_agps.h:84-120).                                   *)
THEOREM DumpIsAsCounted == Spec => []SavedAsCounted
<1>1. IInv => SavedAsCounted
  BY DEF IInv
<1> QED
  BY <1>1, Invariant, PTL

(* An almanac and an ephemeris for each answer, a health message and a      *)
(* position.                                                               *)
LEMMA UsedIsBounded == IInv => DumpBufferFits
<1> SUFFICES ASSUME IInv PROVE dump_used <= DUMP_SIZE
  BY DEF DumpBufferFits
<1> DEFINE a == dumped["AID_ALM"]  e == dumped["AID_EPH"]
           h == got["AID_HUI"]     p == got["NAV_POSECEF"]
<1>1. /\ a \in Nat /\ e \in Nat /\ h \in 0 .. 1 /\ p \in 0 .. 1
      /\ DOMAIN dumped = {"AID_ALM", "AID_EPH"}
  BY DEF IInv, TypeOK
<1>2. ASSUME NEW id \in {"AID_ALM", "AID_EPH"}
      PROVE  dumped[id] <= Sats + Stale
  <2>1. /\ dumped[id] \in Nat /\ owed[id] \in Nat
        /\ CountOf(id, buf) \in Nat /\ CountOf(id, line) \in Nat
    BY CountType DEF IInv, TypeOK
  <2>2. dumped[id] + CountOf(id, buf) + CountOf(id, line) + owed[id]
          + (IF Asking(id) THEN Sats ELSE 0) <= Sats + Stale
    BY <1>1 DEF IInv, AnswersBounded
  <2> QED
    BY <2>1, <2>2, SatsType
<1>3. dump_used = 48 * a + 112 * e + 80 * h + 28 * p
  BY DEF IInv, UsedAsCounted
<1>4. a <= Sats + Stale /\ e <= Sats + Stale
  BY <1>2
<1>5. DUMP_SIZE >= (Sats + Stale) * 160 + 108
  BY Numbers
<1>6. DUMP_SIZE \in Int
  BY DumpAssumption
<1> HIDE DEF a, e, h, p
<1>7. 48 * a + 112 * e + 80 * h + 28 * p <= (Sats + Stale) * 160 + 108
  BY <1>1, <1>4, SatsType
<1>8. (Sats + Stale) * 160 + 108 \in Int /\ 48 * a + 112 * e + 80 * h + 28 * p \in Int
  BY <1>1, SatsType
<1> QED
  BY <1>3, <1>5, <1>6, <1>7, <1>8

(* save_to_buffer, which does not look at the room left, has enough of it  *)
(* whatever the receiver answers and an earlier run left it owing, if the  *)
(* buffer holds one answer per satellite to each of two polls              *)
(* (c/dump_agps.h:16-29).                                                  *)
THEOREM BufferSuffices == Spec => []DumpBufferFits
BY UsedIsBounded, Invariant, PTL

(* A run that ends normally leaves the periodic position switched off: the *)
(* last command the receiver takes is the one of c/dump_agps.h:64-66.      *)
THEOREM PositionIsOff == Spec => []PositionSwitchedOff
<1>1. IInv => PositionSwitchedOff
  BY DEF IInv, EndsInOrder, PositionSwitchedOff
<1> QED
  BY <1>1, Invariant, PTL

LEMMA FileIsSafe ==
    ASSUME IInv, Next, file' # file
    PROVE  Collected(got) /\ ~armed /\ status = "running"
<1>1. Open \/ Write
  BY DEF Next, Host, Receiver, Request, Arm, Read, Disarm, Disable, Alarm, Panic,
         Kill, Obey, Answer, Position
<1> QED
  BY <1>1 DEF Open, Write, Running, IInv, EndsInOrder

(* No step touches the dump file before some message of each kind is there *)
(* and the alarm is off (c/dump_agps.h:31-34, 58-75).                      *)
THEOREM DumpKept == Spec => OldDumpKept
<1>1. IInv /\ [Next]_vars =>
         [file' # file => Collected(got) /\ ~armed /\ status = "running"]_vars
  BY FileIsSafe
<1> QED
  BY <1>1, Invariant, PTL DEF Spec, OldDumpKept

(* However many messages a complete dump consists of, a load of it that    *)
(* ends normally has sent one for each up to the first position, full, and *)
(* AID_INI for that (c/dump_agps.h:84-120, c/load_agps.h:71-129).          *)
THEOREM LoadIsOfDump == SessionSpec => []LoadedFromDump
<1>1. SessionIInv => LoadedFromDump
  <2> SUFFICES ASSUME SessionIInv, Loaded, saved # <<>> PROVE LoadedFromDump
    BY DEF LoadedFromDump
  <2>1. /\ next \in Nat /\ next > 0 /\ next <= Len(saved)
        /\ saved \in Seq(Dumped) /\ saved[next].id = "NAV_POSECEF"
        /\ fed = [i \in 1 .. next |-> Load!SendsAs(saved[i])[1]]
    BY DEF SessionIInv, Loaded, FedAsDumped
  <2>2. Len(fed) = next
    BY <2>1
  <2>3. \A i \in 1 .. next : saved[i] \in Dumped
    BY <2>1
  <2>4. \A i \in 1 .. next : fed[i].size = "full"
    BY <2>1, <2>3, DumpedIsSent
  <2>5. fed[next].id = "AID_INI"
    BY <2>1, <2>3, DumpedIsSent
  <2> QED
    BY <2>1, <2>2, <2>4, <2>5 DEF LoadedFromDump
<1> QED
  BY <1>1, SessionInvariant, PTL

(* What the dump's module promises holds of the whole session: neither a   *)
(* restart at any point nor the load undoes it (c/dump_agps.h:16-29, 49-51,*)
(* 64-66, 84-120; c/load_agps.h:25-61).                                    *)
THEOREM SessionDumpsSafely ==
    SessionSpec => [](SavedAsCounted /\ DumpBufferFits /\ PositionSwitchedOff)
<1>1. SessionIInv => SavedAsCounted /\ DumpBufferFits /\ PositionSwitchedOff
  <2> SUFFICES ASSUME SessionIInv
               PROVE  SavedAsCounted /\ DumpBufferFits /\ PositionSwitchedOff
    OBVIOUS
  <2>1. CASE program = "dump"
    <3>1. IInv
      BY <2>1 DEF SessionIInv
    <3> QED
      BY <3>1, UsedIsBounded DEF IInv, EndsInOrder, PositionSwitchedOff
  <2>2. CASE program = "load"
    <3>1. /\ SavedAsCounted /\ dump_used = 0 /\ ~ecef_on
          /\ DUMP_SIZE \in Nat
      BY <2>2, DumpAssumption DEF SessionIInv
    <3> QED
      BY <3>1 DEF DumpBufferFits, PositionSwitchedOff
  <2> QED
    BY <2>1, <2>2 DEF SessionIInv
<1> QED
  BY <1>1, SessionInvariant, PTL

(* Of the two programs only the dump writes the file, and in the session   *)
(* too only when it has a message of each kind and no alarm can stop it    *)
(* (c/dump_agps.h:31-34, 58-75; c/load_agps.h:26-31).                      *)
THEOREM SessionKeepsOldDump == SessionSpec => OldDumpKept
<1>1. SessionIInv /\ [SessionNext]_session_vars =>
         [file' # file => Collected(got) /\ ~armed /\ status = "running"]_vars
  <2> SUFFICES ASSUME SessionIInv, [SessionNext]_session_vars, file' # file
               PROVE  Collected(got) /\ ~armed /\ status = "running"
    BY DEF vars
  <2>1. CASE DumpDoes(Next)
    BY <2>1, FileIsSafe DEF DumpDoes, SessionIInv
  <2>2. CASE Restart
    BY <2>2 DEF Restart
  <2>3. CASE LoadDoes(Load!Next)
    BY <2>3 DEF LoadDoes, Load!Next, Load!Host, Load!Open, Load!Enable, Load!Arm,
                Load!Wait, Load!Disarm, Load!Feed, Load!Alarm, Load!Panic,
                Load!AskForData, Load!Chat, Load!Send
  <2>4. CASE UNCHANGED session_vars
    BY <2>4 DEF session_vars, vars
  <2> QED
    BY <2>1, <2>2, <2>3, <2>4 DEF SessionNext
<1> QED
  BY <1>1, SessionInvariant, PTL DEF SessionSpec, OldDumpKept

=============================================================================
