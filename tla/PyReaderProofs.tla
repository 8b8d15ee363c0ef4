--------------------------- MODULE PyReaderProofs ---------------------------
(***************************************************************************)
(* Proofs about the Python reader: its invariant, that it implements the   *)
(* cursor of Deframer, and what follows for the frames its handler sees;   *)
(* and about its decode (UbxCodec): unpacking a message never comes short, *)
(* what it reads are the fields of the C program's structs, a load sends   *)
(* what was dumped, and both programs dump the same messages.              *)
(***************************************************************************)
EXTENDS PyReader, UbxCodec, UbxStreamProofs, SequenceTheorems

(* What the proofs below use of TypeOK and of the constants: numbers.      *)
LEMMA Numbers ==
    ASSUME TypeOK
    PROVE  /\ READ_SIZE \in Nat /\ FRAME_SIZE \in Nat
           /\ SYNC_SIZE = 2 /\ FRAME_SIZE >= 2
           /\ IsStream(stream) /\ stream.len \in Nat
           /\ sent \in Nat /\ taken \in Nat /\ base \in Nat
           /\ buffer_offset \in Nat /\ start \in Int
           /\ base + buffer_offset <= taken /\ base + start <= taken
           /\ taken <= sent /\ sent <= stream.len /\ start >= -1
           /\ \A h \in stream.heads : h \in Nat
           /\ \A h \in stream.good : h \in stream.heads
<1>1. stream.len \in Nat /\ (\A h \in stream.good : h \in stream.heads)
      /\ (\A h \in stream.heads : h \in Nat)
  BY HeadFacts DEF TypeOK, IsStream
<1> QED
  BY <1>1, ReadAssumption, SizeAssumption DEF TypeOK

LEMMA InitInvariant == Init => IInv
<1> SUFFICES ASSUME Init PROVE IInv
  OBVIOUS
<1>1. IsStream(stream) /\ stream.len \in Nat
  BY StreamsAssumption DEF Init, IsStream
<1>2. TypeOK
  BY <1>1 DEF Init, TypeOK
<1> QED
  BY <1>2 DEF Init, IInv

(* A frame under start that is judged: its head, and where it ends.        *)
LEMMA JudgedFrame ==
    ASSUME IInv, Judged
    PROVE  /\ head \in stream.heads /\ head \in Nat /\ head >= base
           /\ stream.need[head] \in Nat /\ stream.need[head] >= 2
           /\ head + stream.need[head] <= taken
           /\ start \in Nat /\ start >= buffer_offset
           /\ Pos = head
<1> USE Numbers
<1>1. TypeOK /\ pc = "judge" /\ start # -1 /\ ~NotAtStart
      /\ taken >= head + stream.need[head]
  BY DEF IInv, Judged, Complete
<1>2. head \in Pairs
  BY <1>1 DEF IInv
<1>3. head \in stream.heads /\ base + buffer_offset <= head
  BY <1>2 DEF Pairs
<1>4. stream.need[head] \in Nat /\ stream.need[head] >= 2 /\ head \in Nat
  BY <1>1, <1>3, HeadFacts
<1>5. start \in Nat /\ start >= buffer_offset
  BY <1>1, <1>3 DEF head
<1> QED
  BY <1>1, <1>3, <1>4, <1>5 DEF head, Pos, NotAtStart

LEMMA StepInvariant == IInv /\ [Next]_vars => IInv'
<1> SUFFICES ASSUME IInv, [Next]_vars PROVE IInv'
  OBVIOUS
<1> USE Numbers
<1>0. TypeOK
  BY DEF IInv
<1>1. CASE Arrive
  <2>1. sent' \in 0 .. stream.len /\ taken \in 0 .. sent'
    BY <1>0, <1>1 DEF Arrive
  <2>2. UNCHANGED <<stream, source, taken, base, buffer_offset, start,
                    delivered, pc>>
    BY <1>1 DEF Arrive
  <2>3. TypeOK'
    BY <1>0, <2>1, <2>2 DEF TypeOK
  <2> QED
    BY <2>2, <2>3 DEF IInv, head, Pairs
<1>2. CASE Read
  <2>1. taken' \in taken .. sent
    BY <1>0, <1>2 DEF Read
  <2>2. UNCHANGED <<stream, source, sent, base, buffer_offset, start,
                    delivered>> /\ pc' = "find"
    BY <1>2 DEF Read
  <2>3. TypeOK'
    <3>1. /\ taken' \in 0 .. sent /\ base \in 0 .. taken'
          /\ buffer_offset \in 0 .. (taken' - base)
          /\ start \in -1 .. (taken' - base)
      BY <1>0, <2>1
    <3> QED
      BY <1>0, <2>2, <3>1 DEF TypeOK
  <2>4. CASE start > buffer_offset
    <3>1. head \in Pairs /\ \A g \in Pairs : head <= g
      BY <2>4 DEF IInv
    <3>2. head' = head /\ head \in Pairs'
      BY <1>0, <2>1, <2>2, <3>1 DEF head, Pairs
    <3>3. ASSUME NEW g \in Pairs' PROVE head <= g
      <4>1. g \in stream.heads /\ base + buffer_offset <= g /\ g \in Nat
        BY <1>0, <2>2, <3>3 DEF Pairs
      <4>2. CASE g \in Pairs
        BY <3>1, <4>2
      <4>3. CASE g \notin Pairs
        BY <1>0, <3>1, <4>1, <4>3 DEF Pairs
      <4> QED
        BY <4>2, <4>3
    <3> QED
      BY <2>2, <2>3, <3>2, <3>3 DEF IInv
  <2> QED
    BY <2>2, <2>3, <2>4 DEF IInv
<1>3. CASE Find
  <2>1. UNCHANGED <<stream, source, sent, taken, base, buffer_offset,
                    delivered>> /\ pc' = "judge" /\ Pairs' = Pairs
    BY <1>3 DEF Find, Pairs
  <2>2. CASE Pairs = {} /\ start' = -1
    <3>1. TypeOK'
      BY <1>0, <2>1, <2>2 DEF TypeOK
    <3> QED
      BY <1>0, <2>1, <2>2, <3>1 DEF IInv
  <2>3. ASSUME NEW h \in Pairs, \A g \in Pairs : h <= g, start' = h - base
        PROVE  IInv'
    <3>1. h \in Nat /\ base + buffer_offset <= h /\ h + 2 <= taken
      BY <1>0 DEF Pairs
    <3>2. start' \in 0 .. (taken - base)
      BY <1>0, <2>3, <3>1
    <3>3. TypeOK'
      BY <1>0, <2>1, <3>2 DEF TypeOK
    <3>4. head' = h
      BY <1>0, <2>1, <2>3, <3>1 DEF head
    <3> QED
      BY <2>1, <2>3, <3>2, <3>3, <3>4 DEF IInv
  <2> QED
    BY <1>3, <2>2, <2>3 DEF Find
<1>4. CASE Discard
  <2>1. UNCHANGED <<stream, source, sent, taken, buffer_offset, delivered>>
        /\ start' = 0 /\ pc' = "read" /\ buffer_offset = 0
        /\ base' = DiscardTo
    BY <1>4 DEF Discard, NotAtStart
  <2>2. base' \in base .. taken
    BY <1>0, <2>1 DEF DiscardTo
  <2>3. TypeOK'
    BY <1>0, <2>1, <2>2 DEF TypeOK
  <2> QED
    BY <2>1, <2>3 DEF IInv
<1>5. CASE Incomplete
  <2>1. UNCHANGED <<stream, source, sent, taken, base, buffer_offset, start,
                    delivered>> /\ pc = "judge" /\ pc' = "read"
    BY <1>5 DEF Incomplete
  <2>2. TypeOK'
    BY <1>0, <2>1 DEF TypeOK
  <2>3. start > buffer_offset => start # -1
    BY <1>0
  <2> QED
    BY <2>1, <2>2, <2>3 DEF IInv, head, Pairs
<1>6. CASE WrongChecksum
  <2>1. UNCHANGED <<stream, source, sent, taken, base, start, delivered>>
        /\ pc' = "read" /\ buffer_offset' = start + 2
    BY <1>0, <1>6 DEF WrongChecksum
  <2>2. start \in Nat /\ start + 2 <= taken - base
    BY <1>0, <1>6, JudgedFrame DEF WrongChecksum, head
  <2>3. TypeOK'
    BY <1>0, <2>1, <2>2 DEF TypeOK
  <2> QED
    BY <2>1, <2>2, <2>3 DEF IInv
<1>7. CASE DropRejected
  <2>1. UNCHANGED <<stream, source, sent, taken, delivered>>
        /\ pc' = "read" /\ base' = head /\ buffer_offset' = 0 /\ start' = 0
    BY <1>7 DEF DropRejected
  <2>2. head \in Nat /\ head <= taken
    BY <1>0, <1>7, JudgedFrame DEF DropRejected
  <2>3. TypeOK'
    BY <1>0, <2>1, <2>2 DEF TypeOK
  <2> QED
    BY <2>1, <2>3 DEF IInv
<1>8. CASE Decode
  <2>1. UNCHANGED <<stream, source, sent, taken, start>> /\ start = 0
        /\ buffer_offset' = 0 /\ pc' \in {"read", "quit"}
        /\ base' = base + stream.need[base] /\ head = base
        /\ head \in stream.good /\ delivered' = Append(delivered, base)
    BY <1>0, <1>8 DEF Decode, head
  <2>2. base' \in Nat /\ base' <= taken
    BY <1>0, <1>8, <2>1, JudgedFrame DEF Decode
  <2>3. delivered' \in Seq(stream.good)
    BY <1>0, <2>1, AppendType DEF TypeOK
  <2>4. TypeOK'
    BY <1>0, <2>1, <2>2, <2>3 DEF TypeOK
  <2> QED
    BY <2>1, <2>4 DEF IInv
<1>9. CASE DecodeRaises
  <2>1. UNCHANGED <<stream, source, sent, taken, base, buffer_offset, start,
                    delivered>> /\ pc' = "raised" /\ start = 0
    BY <1>9 DEF DecodeRaises
  <2>2. TypeOK'
    BY <1>0, <2>1 DEF TypeOK
  <2> QED
    BY <1>0, <2>1, <2>2 DEF IInv
<1>10. CASE UNCHANGED vars
  BY <1>0, <1>10 DEF vars, IInv, TypeOK, head, Pairs
<1> QED
  BY <1>1, <1>2, <1>3, <1>4, <1>5, <1>6, <1>7, <1>8, <1>9, <1>10
     DEF Next, Step

THEOREM Invariant == Spec => []IInv
BY InitInvariant, StepInvariant, PTL DEF Spec

(* Every variable of the Python reader keeps its type: in particular the   *)
(* search never starts, and the buffer never begins, behind what was read  *)
(* (python/ubxlib/ubx_reader.py:12-54).                                    *)
THEOREM TypeCorrect == Spec => []TypeOK
<1>1. IInv => TypeOK
  BY DEF IInv
<1> QED
  BY <1>1, Invariant, PTL
-----------------------------------------------------------------------------
LEMMA InitImplementsDeframer == Init => Abs!DInit
<1> SUFFICES ASSUME Init PROVE Abs!DInit
  OBVIOUS
<1>1. Pos = 0 /\ Status = "reading"
  BY DEF Init, Pos, Status
<1>2. IsStream(stream)
  BY StreamsAssumption DEF Init
<1>3. stream.len \in Nat
  BY <1>2 DEF IsStream
<1> QED
  BY <1>1, <1>2, <1>3 DEF Init, Abs!DInit, Abs!IsStream, IsStream

(* What the cursor sees of a step that judges nothing.                     *)
LEMMA SameCursor ==
    ASSUME UNCHANGED <<stream, sent, delivered, Pos, Status>>
    PROVE  UNCHANGED Abs!dvars
BY DEF Abs!dvars

LEMMA StepImplementsDeframer ==
    IInv /\ [Next]_vars => [Abs!DNext]_(Abs!dvars)
<1> SUFFICES ASSUME IInv, [Next]_vars
             PROVE  Abs!DNext \/ UNCHANGED Abs!dvars
  OBVIOUS
<1> USE Numbers
<1>0. TypeOK
  BY DEF IInv
<1>1. CASE Arrive
  <2>1. sent' \in sent .. stream.len /\ Pos' = Pos /\ Status' = Status
    BY <1>0, <1>1 DEF Arrive, Pos, Status
  <2> QED
    BY <1>1, <2>1 DEF Arrive, Abs!DArrive, Abs!DNext
<1>2. CASE Read \/ Incomplete \/ UNCHANGED vars
  <2>1. Pos' = Pos /\ Status' = Status /\ UNCHANGED <<stream, sent, delivered>>
    BY <1>2 DEF Read, Incomplete, vars, Pos, Status
  <2> QED
    BY <2>1, SameCursor
<1>3. CASE Find
  <2>1. /\ UNCHANGED <<stream, sent, taken, base, buffer_offset, delivered>>
        /\ Status = "reading" /\ Status' = Status
    BY <1>3 DEF Find, Status
  <2>2. CASE start > buffer_offset
    <3>1. head \in Pairs /\ (\A g \in Pairs : head <= g)
      BY <2>2 DEF IInv
    <3>2. PICK h \in Pairs : (\A g \in Pairs : h <= g) /\ start' = h - base
      BY <1>3, <3>1 DEF Find
    <3>3. h \in Nat /\ head \in Nat /\ h = head
      BY <1>0, <3>1, <3>2 DEF Pairs
    <3>4. start' = start
      BY <1>0, <3>2, <3>3 DEF head
    <3>5. Pos' = Pos
      BY <2>1, <3>4 DEF Pos
    <3> QED
      BY <2>1, <3>5, SameCursor
  <2>3. CASE ~(start > buffer_offset) /\ start' = -1
    <3>1. Pos' = Pos
      BY <1>0, <2>1, <2>3 DEF Pos
    <3> QED
      BY <2>1, <3>1, SameCursor
  <2>4. CASE ~(start > buffer_offset) /\ start' # -1
    <3>1. PICK h \in Pairs : (\A g \in Pairs : h <= g) /\ start' = h - base
      BY <1>3, <2>4 DEF Find
    <3>2. h \in Nat /\ base + buffer_offset <= h /\ h + 2 <= taken
      BY <1>0, <3>1 DEF Pairs
    <3>3. Pos = base + buffer_offset /\ Pos' = h
      BY <1>0, <2>1, <2>4, <3>1, <3>2 DEF Pos
    <3>4. Pos' \in Pos .. sent
      BY <1>0, <3>2, <3>3
    <3>5. ASSUME NEW q \in Pos .. (Pos' - 1), q \in stream.heads PROVE FALSE
      <4>1. q \in Pairs /\ q < h
        BY <1>0, <3>2, <3>3, <3>5 DEF Pairs
      <4> QED
        BY <1>0, <3>1, <3>2, <4>1
    <3> QED
      BY <2>1, <3>4, <3>5 DEF Abs!DSkip, Abs!DNext
  <2> QED
    BY <2>2, <2>3, <2>4
<1>4. CASE Discard
  <2>1. /\ UNCHANGED <<stream, sent, taken, buffer_offset, delivered>>
        /\ Status = "reading" /\ Status' = Status
        /\ buffer_offset = 0 /\ start' = 0 /\ base' = DiscardTo
    BY <1>4 DEF Discard, NotAtStart, Status
  <2>2. Pos' = base'
    BY <1>0, <2>1 DEF Pos, DiscardTo
  <2>3. CASE start # -1 \/ base = taken
    <3>1. Pos' = Pos
      BY <1>0, <2>1, <2>2, <2>3 DEF Pos, DiscardTo
    <3> QED
      BY <2>1, <3>1, SameCursor
  <2>4. CASE start = -1 /\ base # taken
    <3>1. Pos = base /\ Pos' = taken - 1 /\ base < taken
      BY <1>0, <2>1, <2>2, <2>4 DEF Pos, DiscardTo
    <3>2. Pairs = {}
      BY <1>4, <2>4 DEF IInv, Discard
    <3>3. \A q \in Pos .. (Pos' - 1) : q \notin stream.heads
      BY <1>0, <2>1, <3>1, <3>2 DEF Pairs
    <3>4. Pos' \in Pos .. sent
      BY <1>0, <3>1
    <3> QED
      BY <2>1, <3>3, <3>4 DEF Abs!DSkip, Abs!DNext
  <2> QED
    BY <2>3, <2>4
<1>5. CASE DropRejected
  <2>1. Pos = head /\ head \in Nat
    BY <1>0, <1>5, JudgedFrame DEF DropRejected
  <2>2. /\ UNCHANGED <<stream, sent, delivered>>
        /\ Status' = Status /\ Pos' = Pos
    BY <1>5, <2>1 DEF DropRejected, Judged, Status, Pos
  <2> QED
    BY <2>2, SameCursor
<1>6. CASE DecodeRaises
  <2>1. Status = "reading" /\ Status' = "panic" /\ Pos' = Pos
    BY <1>6 DEF DecodeRaises, Judged, Status, Pos
  <2> QED
    BY <1>6, <2>1 DEF DecodeRaises, Abs!DFail, Abs!DNext
<1>7. CASE WrongChecksum \/ Decode
  <2>1. Judged
    BY <1>7 DEF WrongChecksum, Decode
  <2>2. /\ Pos = head /\ head \in stream.heads /\ head \in Nat
        /\ stream.need[head] \in Nat /\ head + stream.need[head] <= taken
        /\ start \in Nat /\ start >= buffer_offset
    BY <2>1, JudgedFrame
  <2>3. Abs!AtHead /\ Status = "reading"
    BY <1>0, <2>1, <2>2 DEF Abs!AtHead, Judged, Status
  <2>4. CASE WrongChecksum
    <3>1. Pos' = base + (start + 2) /\ Status' = Status
      BY <1>0, <2>2, <2>4 DEF WrongChecksum, Judged, Pos, Status
    <3>2. Pos' = Pos + SYNC_SIZE
      BY <1>0, <2>2, <3>1 DEF head
    <3> QED
      BY <2>2, <2>3, <2>4, <3>1, <3>2
         DEF WrongChecksum, Abs!DReject, Abs!DNext
  <2>5. CASE Decode
    <3>1. start = 0 /\ head = base /\ start' = 0 /\ buffer_offset' = 0
          /\ base' = base + stream.need[base]
      BY <1>0, <2>5 DEF Decode, head
    <3>2. Pos' = Pos + stream.need[Pos]
      BY <1>0, <2>2, <3>1 DEF Pos
    <3>3. Status' \in {"reading", "quit"}
      BY <2>5 DEF Decode, Status
    <3> QED
      BY <2>2, <2>3, <2>5, <3>1, <3>2, <3>3
         DEF Decode, Abs!DDeliver, Abs!DNext
  <2> QED
    BY <1>7, <2>4, <2>5
<1> QED
  BY <1>1, <1>2, <1>3, <1>4, <1>5, <1>6, <1>7 DEF Next, Step

(* The Python loop implements the cursor that the C loop implements: both  *)
(* take the same frames out of the same bytes                              *)
(* (python/ubxlib/ubx_reader.py:12-54).                                    *)
THEOREM Refinement == Spec => ImplementsDeframer
BY InitImplementsDeframer, StepImplementsDeframer, Invariant, PTL
   DEF Spec, ImplementsDeframer, Abs!DSpec

-----------------------------------------------------------------------------
LEMMA IInvFacts ==
    ASSUME IInv
    PROVE  /\ IsStream(stream) /\ Pos \in Nat
           /\ delivered \in Seq(stream.good)
           /\ \A h \in stream.good : h \in stream.heads
<1>1. TypeOK
  BY DEF IInv
<1>2. Pos \in Nat
  BY <1>1, Numbers DEF Pos
<1> QED
  BY <1>1, <1>2, Numbers DEF TypeOK

(* No handler of the Python reader sees a frame twice, overlapping, or cut *)
(* (python/ubxlib/ubx_reader.py:32-51).                                    *)
THEOREM FramesDeliveredInOrder == Spec => []FramesInOrder
<1>1. Init => FramesInOrder
  BY DEF Init, FramesInOrder, InOrder
<1>2. IInv /\ FramesInOrder /\ [Next]_vars => FramesInOrder'
  <2> SUFFICES ASSUME IInv, FramesInOrder, [Next]_vars
               PROVE  FramesInOrder'
    OBVIOUS
  <2> USE IInvFacts DEF FramesInOrder
  <2>0. [Abs!DNext]_(Abs!dvars)
    BY StepImplementsDeframer
  <2>1. CASE Abs!DArrive \/ Abs!DFail \/ UNCHANGED Abs!dvars
    BY <2>1 DEF Abs!DArrive, Abs!DFail, Abs!dvars
  <2>2. CASE Abs!DSkip \/ Abs!DReject
    <3>1. Pos' \in Nat /\ Pos <= Pos' /\ UNCHANGED <<stream, delivered>>
      BY <2>2, SizeAssumption, Numbers DEF Abs!DSkip, Abs!DReject
    <3> QED
      BY <3>1, InOrderMove
  <2>3. CASE Abs!DDeliver
    <3>1. /\ Pos \in stream.good /\ Pos' = FrameEnd(stream, Pos)
          /\ delivered' = Append(delivered, Pos) /\ stream' = stream
      BY <2>3 DEF Abs!DDeliver, FrameEnd
    <3> QED
      BY <3>1, InOrderAppend
  <2> QED
    BY <2>0, <2>1, <2>2, <2>3 DEF Abs!DNext
<1> QED
  BY <1>1, <1>2, Invariant, PTL DEF Spec

(* No good frame is lost by the Python reader, for every stream and read   *)
(* size (python/ubxlib/ubx_reader.py:21-45).                               *)
THEOREM NoFrameIsLost == Spec => []NoFrameLost
<1>1. Init => NoFrameLost
  <2> SUFFICES ASSUME Init, NEW h \in stream.good PROVE ~(h < 0)
    BY DEF NoFrameLost, NoneLost, Init, Pos
  <2> QED
    BY StreamsAssumption DEF Init, IsStream
<1>2. IInv /\ NoFrameLost /\ [Next]_vars => NoFrameLost'
  <2> SUFFICES ASSUME IInv, NoFrameLost, [Next]_vars
               PROVE  NoFrameLost'
    OBVIOUS
  <2> USE IInvFacts DEF NoFrameLost
  <2>0. [Abs!DNext]_(Abs!dvars)
    BY StepImplementsDeframer
  <2>1. CASE Abs!DArrive \/ Abs!DFail \/ UNCHANGED Abs!dvars
    BY <2>1 DEF Abs!DArrive, Abs!DFail, Abs!dvars
  <2>2. CASE Abs!DSkip
    <3>1. /\ Pos' \in Nat /\ UNCHANGED <<stream, delivered>>
          /\ \A h \in Pos .. (Pos' - 1) : h \notin stream.good
      BY <2>2, Numbers DEF Abs!DSkip
    <3> QED
      BY <3>1, NoneLostMove
  <2>3. CASE Abs!DReject
    <3>1. /\ Pos' = Pos + SYNC_SIZE /\ UNCHANGED <<stream, delivered>>
          /\ Pos \in stream.heads /\ Pos \notin stream.good
      BY <2>3 DEF Abs!DReject, Abs!AtHead
    <3>2. Pos' \in Nat
      BY <3>1, SizeAssumption
    <3>3. \A h \in Pos .. (Pos' - 1) : h \notin stream.good
      BY <3>1, SyncSkipsNone
    <3> QED
      BY <3>1, <3>2, <3>3, NoneLostMove
  <2>4. CASE Abs!DDeliver
    <3>1. /\ Pos \in stream.good /\ Pos' = FrameEnd(stream, Pos)
          /\ delivered' = Append(delivered, Pos) /\ stream' = stream
      BY <2>4 DEF Abs!DDeliver, FrameEnd
    <3> QED
      BY <3>1, NoneLostAppend
  <2> QED
    BY <2>0, <2>1, <2>2, <2>3, <2>4 DEF Abs!DNext
<1> QED
  BY <1>1, <1>2, Invariant, PTL DEF Spec

-----------------------------------------------------------------------------
(* Behind the reader, the decoder: what it slices off a payload.           *)
LEMMA MinOfTwo ==
    ASSUME NEW m \in Int, NEW n \in Int
    PROVE  Min({m, n}) = IF m <= n THEN m ELSE n
<1> DEFINE least == IF m <= n THEN m ELSE n
           IsMin(k) == k \in {m, n} /\ \A l \in {m, n} : k <= l
<1>1. IsMin(least)
  OBVIOUS
<1>2. \A k : IsMin(k) => k = least
  OBVIOUS
<1>3. Min({m, n}) = CHOOSE k \in {m, n} : \A l \in {m, n} : k <= l
  BY DEF Min
<1> QED
  BY <1>1, <1>2, <1>3

(* A slice within the payload has the bytes it is asked for.               *)
LEMMA SliceSize ==
    ASSUME frame.size \in Nat, NEW from \in Nat, NEW to \in Nat,
           from <= to, to <= frame.size
    PROVE  Slice(from, to) = to - from
BY MinOfTwo DEF Slice

(* Every block there is lies within the payload.                           *)
LEMMA BlockWithin ==
    ASSUME NEW size \in Nat, NEW base_size \in Nat,
           base_size <= size,
           NEW rep \in Nat \ {0}, NEW i \in Nat, i < (size - base_size) \div rep
    PROVE  base_size + rep * i + rep <= size
<1> DEFINE blocks == (size - base_size) \div rep
<1>1. blocks \in Nat /\ rep * blocks <= size - base_size
  OBVIOUS
<1>2. rep * (i + 1) <= rep * blocks
  <2> HIDE DEF blocks
  <2>1. \A d \in Nat : rep * (i + 1) <= rep * ((i + 1) + d)
    OBVIOUS
  <2>2. blocks - (i + 1) \in Nat /\ (i + 1) + (blocks - (i + 1)) = blocks
    BY <1>1 DEF blocks
  <2> QED
    BY <2>1, <2>2
<1>3. rep * (i + 1) = rep * i + rep
  OBVIOUS
<1> QED
  BY <1>1, <1>2, <1>3

IsSequence(s) == \E S : s \in Seq(S)

LEMMA LongerSequence ==
    ASSUME NEW s, NEW e, IsSequence(s)
    PROVE  IsSequence(Append(s, e)) /\ Len(Append(s, e)) = Len(s) + 1
<1>1. PICK S : s \in Seq(S)
  BY DEF IsSequence
<1>2. s \in Seq(S \cup {e})
  BY <1>1, SeqMonotonic
<1> QED
  BY <1>2, AppendProperties DEF IsSequence

(* While blocks are decoded the base has been, and nothing has been cut.   *)
Uncut ==
    /\ frame \in Frames /\ UnpackFits
    /\ IsSequence(data) /\ (py_pc = "blocks" => Len(data) >= 1)

LEMMA UncutStarts == CodecInit => Uncut
<1>1. <<>> \in Seq({})
  OBVIOUS
<1> QED
  BY <1>1 DEF CodecInit, Uncut, UnpackFits, IsSequence

(* A format that is given as many bytes as it has.                         *)
LEMMA UnpackWhole ==
    ASSUME Uncut, NEW fmt, NEW names, NEW from, NEW to, NEW next,
           next # "struct.error", calcsize(fmt) = Slice(from, to),
           Unpack(fmt, names, from, to, next), frame' = frame
    PROVE  Uncut'
<1> DEFINE record == Record(fmt, names, from)
<1>1. data' = Append(data, record) /\ py_pc' = next
  BY DEF Unpack
<1> HIDE DEF record
<1>2. IsSequence(data) /\ Len(data) \in Nat
  <2>1. PICK S : data \in Seq(S)
    BY DEF Uncut, IsSequence
  <2> QED
    BY <2>1, LenProperties DEF IsSequence
<1>3. IsSequence(Append(data, record)) /\ Len(Append(data, record)) = Len(data) + 1
  BY <1>2, LongerSequence
<1>4. IsSequence(data)' /\ Len(data') >= 1
  BY <1>1, <1>2, <1>3 DEF IsSequence
<1> QED
  BY <1>1, <1>4 DEF Uncut, UnpackFits

LEMMA UncutStep ==
    ASSUME BasesAreWhole, Uncut, [CodecNext]_codec_vars
    PROVE  Uncut'
<1>1. frame \in Frames /\ frame.size \in Nat /\ UnpackFits
  BY FramesAssumption DEF Uncut
<1>2. PICK S : data \in Seq(S)
  BY DEF Uncut, IsSequence
<1>3. CASE DecodeFixed
  <2>1. PICK f \in Fixed : Unpack(f.fmt, f.names, 0, frame.size, "handle")
    BY <1>3 DEF DecodeFixed
  <2>2. calcsize(f.fmt) = frame.size
    BY FormatsAssumption DEF Fixed
  <2>3. Slice(0, frame.size) = frame.size
    BY <1>1, SliceSize
  <2> QED
    BY <1>3, <2>1, <2>2, <2>3, UnpackWhole DEF DecodeFixed
<1>4. CASE DecodeBase
  <2>1. PICK v \in Varied : Unpack(v.base, v.base_names, 0, v.base_size, "blocks")
    BY <1>4 DEF DecodeBase
  <2>2. /\ v.base_size \in Nat /\ calcsize(v.base) = v.base_size
        /\ v.base_size <= frame.size
    BY <1>1, FormatsAssumption DEF Varied, Named, BasesAreWhole
  <2>3. Slice(0, v.base_size) = v.base_size
    BY <1>1, <2>2, SliceSize
  <2> QED
    BY <1>4, <2>1, <2>2, <2>3, UnpackWhole DEF DecodeBase
<1>5. CASE DecodeBlock
  <2> DEFINE i == Len(data) - 1
  <2>1. PICK v \in Varied :
            /\ i < Blocks(v)
            /\ Unpack(v.rep, v.rep_names, BlockAt(v, i), BlockAt(v, i) + v.rep_size,
                      "blocks")
    BY <1>5 DEF DecodeBlock
  <2>2. /\ v.base_size \in Nat /\ v.base_size <= frame.size
        /\ v.rep_size \in Nat \ {0} /\ calcsize(v.rep) = v.rep_size
    BY <1>1, FormatsAssumption DEF Varied, Named, BasesAreWhole
  <2>3. i \in Nat
    BY <1>2, <1>5, LenProperties DEF Uncut, DecodeBlock
  <2> HIDE DEF i
  <2>4. v.base_size + v.rep_size * i + v.rep_size <= frame.size
    BY <1>1, <2>1, <2>2, <2>3, BlockWithin DEF Blocks
  <2>5. BlockAt(v, i) \in Nat /\ BlockAt(v, i) + v.rep_size <= frame.size
    BY <2>2, <2>3, <2>4 DEF BlockAt
  <2>6. Slice(BlockAt(v, i), BlockAt(v, i) + v.rep_size) = v.rep_size
    BY <1>1, <2>2, <2>5, SliceSize
  <2> QED
    BY <1>5, <2>1, <2>2, <2>6, UnpackWhole DEF DecodeBlock
<1>6. CASE /\ UNCHANGED <<frame, data>>
           /\ py_pc' \notin {"blocks", "struct.error"} \/ py_pc' = py_pc
  BY <1>6 DEF Uncut, UnpackFits, IsSequence
<1> QED
  BY <1>3, <1>4, <1>5, <1>6
  DEF CodecNext, decode, DecodeEnds, WrongLength, UnknownMessage, Handle, Send,
      SendPosition, dump_handle_message, codec_vars, python

(* Whatever a message's number of blocks, unpacking it never comes short,  *)
(* if it is not shorter than its base (UnpackFits; ubx_reader.py:58-77).   *)
THEOREM BlocksUnpack ==
    ASSUME BasesAreWhole
    PROVE  CodecSpec => []UnpackFits
<1>1. Uncut /\ [CodecNext]_codec_vars => Uncut'
  BY UncutStep
<1>2. Uncut => UnpackFits
  BY DEF Uncut
<1> QED
  BY <1>1, <1>2, UncutStarts, PTL DEF CodecSpec

-----------------------------------------------------------------------------
(* What is unpacked at another offset is the same, moved.                  *)
LEMMA UnpackMoves ==
    ASSUME NEW fmt, Fields(fmt) \in Seq(Values), NEW at \in Nat
    PROVE  /\ unpack(fmt, at) \in Seq(Values)
           /\ Len(unpack(fmt, at)) = Len(Fields(fmt))
           /\ DOMAIN unpack(fmt, at) = DOMAIN Fields(fmt)
           /\ \A i \in DOMAIN Fields(fmt) :
                 /\ Fields(fmt)[i] \in Values
                 /\ unpack(fmt, at)[i] = [at |-> Fields(fmt)[i].at + at,
                                         size |-> Fields(fmt)[i].size,
                                         is |-> Fields(fmt)[i].is]
<1> DEFINE fields == Fields(fmt)
<1>1. /\ DOMAIN fields = 1 .. Len(fields) /\ Len(fields) \in Nat
      /\ \A i \in 1 .. Len(fields) : fields[i] \in Values
  BY LenProperties, ElementOfSeq
<1>2. unpack(fmt, at) = [i \in 1 .. Len(fields) |-> [fields[i] EXCEPT !.at = @ + at]]
  BY <1>1 DEF unpack
<1> HIDE DEF fields
<1>3. \A v \in Values : /\ [v EXCEPT !.at = @ + at] \in Values
                       /\ [v EXCEPT !.at = @ + at]
                            = [at |-> v.at + at, size |-> v.size, is |-> v.is]
  <2> TAKE v \in Values
  <2>1. /\ v = [at |-> v.at, size |-> v.size, is |-> v.is] /\ v.at \in Nat
        /\ v.size \in 1 .. 32 /\ v.is \in {"signed", "unsigned", "float", "chars"}
    BY DEF Values
  <2>2. [v EXCEPT !.at = @ + at] = [at |-> v.at + at, size |-> v.size, is |-> v.is]
    BY <2>1
  <2>3. v.at + at \in Nat
    BY <2>1
  <2> QED
    BY <2>1, <2>2, <2>3 DEF Values
<1>4. unpack(fmt, at) \in [1 .. Len(fields) -> Values]
  BY <1>1, <1>2, <1>3
<1>5. unpack(fmt, at) \in Seq(Values) /\ Len(unpack(fmt, at)) = Len(fields)
  BY <1>1, <1>4
<1>6. \A i \in 1 .. Len(fields) :
         unpack(fmt, at)[i] = [at |-> fields[i].at + at, size |-> fields[i].size,
                               is |-> fields[i].is]
  BY <1>1, <1>2, <1>3
<1> QED
  BY <1>1, <1>2, <1>5, <1>6 DEF fields

(* Every value of a format has a name, so a record holds all of them.      *)
LEMMA RecordWhole ==
    ASSUME NEW fmt, Fields(fmt) \in Seq(Values), NEW at \in Nat
    PROVE  Record(fmt, Len(Fields(fmt)), at) = unpack(fmt, at)
<1>1. /\ unpack(fmt, at) \in Seq(Values)
      /\ Len(unpack(fmt, at)) = Len(Fields(fmt)) /\ Len(Fields(fmt)) \in Nat
  BY UnpackMoves, LenProperties
<1>2. Min({Len(Fields(fmt)), Len(unpack(fmt, at))}) = Len(unpack(fmt, at))
  BY <1>1, MinOfTwo
<1>3. SubSeq(unpack(fmt, at), 1, Len(unpack(fmt, at))) = unpack(fmt, at)
  BY <1>1, SubSeqFull
<1> QED
  BY <1>2, <1>3 DEF Record

LEMMA FixedRecord ==
    ASSUME NEW f \in Fixed
    PROVE  /\ f \in MSGFMT /\ CLIDPAIR[f.clid] = frame.id /\ f.le = frame.size
           /\ Fields(f.fmt) \in Seq(Values) /\ f.names = Len(Fields(f.fmt))
           /\ Record(f.fmt, f.names, 0) = unpack(f.fmt, 0)
           /\ Record(f.fmt, f.names, 0) \in Seq(Values)
           /\ Len(Record(f.fmt, f.names, 0)) = f.names
BY EntriesAssumption, RecordWhole, UnpackMoves DEF Fixed, Named

LEMMA VariedRecord ==
    ASSUME NEW v \in Varied
    PROVE  /\ v \in MSGFMT_None /\ CLIDPAIR[v.clid] = frame.id
           /\ v.base_size \in Nat /\ v.rep_size \in Nat \ {0}
           /\ Fields(v.base) \in Seq(Values) /\ Fields(v.rep) \in Seq(Values)
           /\ Record(v.base, v.base_names, 0) = unpack(v.base, 0)
           /\ Record(v.base, v.base_names, 0) \in Seq(Values)
           /\ \A at \in Nat : /\ Record(v.rep, v.rep_names, at) = unpack(v.rep, at)
                              /\ Record(v.rep, v.rep_names, at) \in Seq(Values)
<1>1. /\ v \in MSGFMT_None /\ CLIDPAIR[v.clid] = frame.id
      /\ v.base_size \in Nat /\ v.rep_size \in Nat \ {0}
      /\ Fields(v.base) \in Seq(Values) /\ v.base_names = Len(Fields(v.base))
      /\ Fields(v.rep) \in Seq(Values) /\ v.rep_names = Len(Fields(v.rep))
  BY EntriesAssumption, FormatsAssumption DEF Varied, Named
<1>2. /\ Record(v.base, v.base_names, 0) = unpack(v.base, 0)
      /\ unpack(v.base, 0) \in Seq(Values)
  BY <1>1, RecordWhole, UnpackMoves
<1>3. \A at \in Nat : /\ Record(v.rep, v.rep_names, at) = unpack(v.rep, at)
                     /\ unpack(v.rep, at) \in Seq(Values)
  BY <1>1, RecordWhole, UnpackMoves
<1> QED
  BY <1>1, <1>2, <1>3

(* A message that the C program saves has a format with its length, and    *)
(* what that decodes to has at least three names.                          *)
LEMMA DumpedFacts ==
    ASSUME NEW name \in DOMAIN DumpedSizes, Named(name)
    PROVE  /\ Varied = {}
           /\ \A f \in Fixed :
                 /\ f.clid = name
                 /\ IF f.le = DumpedSizes[name]
                    THEN f.names >= 3 /\ PackedSize(AsRead(f.fmt)) = f.le
                    ELSE name \in {"AID_ALM", "AID_EPH"} /\ f.names < 3
           /\ frame.size = DumpedSizes[name] => Fixed # {}
           /\ Accepts <=> frame.size = DumpedSizes[name]
<1>1. CLIDPAIR[name] = frame.id
  BY DEF Named
<1>2. Varied = {}
  BY <1>1, DumpedAssumption DEF Varied, Named
<1>3. ASSUME NEW f \in Fixed
      PROVE  /\ f.clid = name
             /\ IF f.le = DumpedSizes[name]
                THEN f.names >= 3 /\ PackedSize(AsRead(f.fmt)) = f.le
                ELSE name \in {"AID_ALM", "AID_EPH"} /\ f.names < 3
  BY <1>1, DumpedAssumption DEF Fixed, Named
<1>4. frame.size = DumpedSizes[name] => Fixed # {}
  <2>1. PICK f \in MSGFMT : f.clid = name /\ f.le = DumpedSizes[name]
    BY DumpedAssumption
  <2>2. frame.size = DumpedSizes[name] => f \in Fixed
    BY <1>1, <2>1 DEF Fixed, Named
  <2> QED
    BY <2>2
<1>5. Accepts <=> frame.size = DumpedSizes[name]
  <2>1. DOMAIN DumpedSizes = {"AID_ALM", "AID_EPH", "AID_HUI", "NAV_POSECEF"}
    BY DEF DumpedSizes
  <2>2. \A other \in DOMAIN DumpedSizes : msg_is(other) <=> other = name
    BY <1>1, DumpedAssumption DEF msg_is
  <2>3. PackStruct
    BY DEF PackStruct, Alignment
  <2>4. \A other \in {"AID_HUI", "NAV_POSECEF"} :
           sizeof(TheStruct(other).base) = DumpedSizes[other]
    BY <2>3, DumpedAssumption
  <2> QED
    BY <2>1, <2>2, <2>4 DEF Accepts, DumpedSizes
<1> QED
  BY <1>2, <1>3, <1>4, <1>5

(* What either program does with a message it knows is to dump it, if it   *)
(* is of a dumped size.                                                    *)
LEMMA AcceptedIsNamed ==
    ASSUME Accepts
    PROVE  \E name \in DOMAIN DumpedSizes : Named(name)
<1>1. DOMAIN DumpedSizes = {"AID_ALM", "AID_EPH", "AID_HUI", "NAV_POSECEF"}
  BY DEF DumpedSizes
<1> QED
  BY <1>1, DumpedAssumption DEF Accepts, msg_is, Named

LEMMA AcceptedIsFixed == Accepts => Fixed # {}
BY AcceptedIsNamed, DumpedFacts

(* The first record of a message that may be kept, and what it tells.      *)
LEMMA KeptFacts ==
    ASSUME CodecTypeOK, data # <<>>, Decoded,
           NEW name \in DOMAIN DumpedSizes, Named(name)
    PROVE  \E f \in Fixed : /\ data[1] = unpack(f.fmt, 0)
                            /\ Len(data[1]) = f.names
                            /\ f.clid = name /\ f.le = frame.size
                            /\ Accepts <=> f.names >= 3
<1>1. Varied = {}
  BY DumpedFacts
<1>2. PICK f \in Fixed : data = <<Record(f.fmt, f.names, 0)>>
  BY <1>1 DEF Decoded
<1>3. data[1] = Record(f.fmt, f.names, 0)
  BY <1>2
<1>4. /\ data[1] = unpack(f.fmt, 0) /\ Len(data[1]) = f.names
      /\ f.le = frame.size /\ f.names \in Nat
  <2>1. Fields(f.fmt) \in Seq(Values) /\ f.names = Len(Fields(f.fmt))
    BY FixedRecord
  <2>2. f.names \in Nat
    BY <2>1, LenProperties
  <2> QED
    BY <1>3, <2>2, FixedRecord
<1>5. /\ f.clid = name
      /\ IF f.le = DumpedSizes[name] THEN f.names >= 3 ELSE f.names < 3
      /\ Accepts <=> frame.size = DumpedSizes[name]
  BY DumpedFacts
<1>6. Accepts <=> f.names >= 3
  BY <1>4, <1>5
<1> QED
  BY <1>4, <1>5, <1>6

LEMMA KeptIsAccepted ==
    ASSUME CodecTypeOK, data # <<>>, Decoded
    PROVE  /\ Kept <=> Accepts
           /\ Kept => data[1] \in Seq(Values) /\ data[1] # <<>>
<1>1. DOMAIN DumpedSizes = {"AID_ALM", "AID_EPH", "AID_HUI", "NAV_POSECEF"}
  BY DEF DumpedSizes
<1>2. (Kept \/ Accepts) => \E name \in DOMAIN DumpedSizes : Named(name)
  BY <1>1, AcceptedIsNamed DEF Kept
<1>3. ASSUME NEW name \in DOMAIN DumpedSizes, Named(name)
      PROVE  /\ Kept <=> Accepts
             /\ Kept => data[1] \in Seq(Values) /\ data[1] # <<>>
  <2>1. PICK f \in Fixed : /\ data[1] = unpack(f.fmt, 0)
                           /\ Len(data[1]) = f.names
                           /\ f.clid = name /\ f.le = frame.size
                           /\ Accepts <=> f.names >= 3
    BY <1>3, KeptFacts
  <2>2. /\ data[1] \in Seq(Values) /\ f.names \in Nat
    <3>1. data[1] = Record(f.fmt, f.names, 0)
      BY <2>1, FixedRecord
    <3> QED
      BY <2>1, <3>1, FixedRecord, LenProperties
  <2>3. HasWords(data[1]) <=> Accepts
    BY <2>1 DEF HasWords
  <2>4. name \in {"AID_HUI", "NAV_POSECEF"} => Accepts
    <3>1. /\ f.le = DumpedSizes[name] \/ name \in {"AID_ALM", "AID_EPH"}
          /\ Accepts <=> frame.size = DumpedSizes[name]
      BY <1>3, DumpedFacts
    <3> QED
      BY <2>1, <3>1
  <2>5. \A other \in DOMAIN DumpedSizes : Named(other) <=> other = name
    BY <1>3, DumpedAssumption DEF Named
  <2>6. Kept <=> Accepts
    BY <1>1, <2>3, <2>4, <2>5 DEF Kept
  <2>7. Accepts => data[1] # <<>>
    BY <2>1, <2>2
  <2> QED
    BY <2>2, <2>6, <2>7
<1> QED
  BY <1>2, <1>3

LEMMA SameFrame ==
    ASSUME frame' = frame
    PROVE  /\ Fixed' = Fixed /\ Varied' = Varied /\ Accepts' = Accepts
           /\ \A v : (LengthMatches(v)' <=> LengthMatches(v)) /\ Blocks(v)' = Blocks(v)
           /\ data' = data => (Decoded' <=> Decoded)
<1>1. Fixed' = Fixed /\ Varied' = Varied
  BY DEF Fixed, Varied, Named
<1>2. \A v : (LengthMatches(v)' <=> LengthMatches(v)) /\ Blocks(v)' = Blocks(v)
  BY DEF LengthMatches, Blocks
<1>3. Accepts' = Accepts
  BY DEF Accepts, msg_is
<1>4. data' = data => (Decoded' <=> Decoded)
  BY <1>1, <1>2 DEF Decoded
<1> QED
  BY <1>1, <1>2, <1>3, <1>4

LEMMA CodecStart == CodecInit => CodecIInv
<1> SUFFICES ASSUME CodecInit PROVE CodecIInv
  OBVIOUS
<1>1. /\ frame \in Frames /\ frame \in [id : Nat, size : Nat]
      /\ py_pc = "decode" /\ data = <<>> /\ kept = <<>> /\ packed = {}
      /\ c_pc = "read" /\ c_saved = FALSE
  BY FramesAssumption DEF CodecInit
<1>2. <<>> \in Seq(Seq(Values)) /\ <<>> \in Seq(Values)
  OBVIOUS
<1>3. CodecTypeOK
  BY <1>1, <1>2 DEF CodecTypeOK
<1> QED
  BY <1>1, <1>3 DEF CodecIInv, UnpackFits, SentAsDumped, Ends

(* A record more.                                                          *)
LEMMA DecodeStep ==
    ASSUME BasesAreWhole, CodecIInv, UnpackFits',
           DecodeFixed \/ DecodeBase \/ DecodeBlock
    PROVE  CodecIInv'
<1>1. /\ UNCHANGED <<frame, kept, packed, c_pc, c_saved>>
      /\ CodecTypeOK /\ frame \in Frames /\ kept = <<>> /\ SentAsDumped
      /\ data \in Seq(Seq(Values)) /\ Len(data) \in Nat
  <2>1. data \in Seq(Seq(Values))
    BY DEF CodecIInv, CodecTypeOK
  <2> QED
    BY <2>1, LenProperties DEF CodecIInv, DecodeFixed, DecodeBase, DecodeBlock
<1>2. ASSUME NEW record \in Seq(Values), data' = Append(data, record), Decoded',
             py_pc' = "handle" \/ (py_pc' = "blocks" /\ Fixed = {})
      PROVE  CodecIInv'
  <2>1. data' \in Seq(Seq(Values)) /\ data' # <<>>
    BY <1>1, <1>2, AppendProperties
  <2>2. CodecTypeOK'
    BY <1>1, <1>2, <2>1 DEF CodecTypeOK
  <2>3. SentAsDumped'
    BY <1>1, <1>2 DEF SentAsDumped
  <2>4. Fixed' = Fixed /\ Accepts' = Accepts
    BY <1>1, SameFrame
  <2>5. c_pc' = "done" => c_saved' = Accepts'
    BY <1>1, <2>4 DEF CodecIInv
  <2> QED
    BY <1>1, <1>2, <2>1, <2>2, <2>3, <2>4, <2>5 DEF CodecIInv, Ends
<1>3. CASE DecodeFixed
  <2>1. PICK f \in Fixed : Unpack(f.fmt, f.names, 0, frame.size, "handle")
    BY <1>3 DEF DecodeFixed
  <2> DEFINE record == Record(f.fmt, f.names, 0)
  <2>2. data' = Append(data, record) /\ py_pc' = "handle"
    BY <2>1 DEF Unpack, UnpackFits
  <2>3. record \in Seq(Values)
    BY FixedRecord
  <2>4. data = <<>>
    BY <1>3 DEF CodecIInv, DecodeFixed
  <2> HIDE DEF record
  <2>5. data' = <<record>>
    BY <2>2, <2>4
  <2>6. Decoded'
    <3>1. f \in Fixed'
      BY <1>1, SameFrame
    <3> QED
      BY <2>5, <3>1 DEF Decoded, record
  <2> QED
    BY <1>2, <2>2, <2>3, <2>6
<1>4. CASE DecodeBase
  <2>1. PICK v \in Varied :
            LengthMatches(v) /\ Unpack(v.base, v.base_names, 0, v.base_size, "blocks")
    BY <1>4 DEF DecodeBase
  <2> DEFINE record == Record(v.base, v.base_names, 0)
  <2>2. data' = Append(data, record) /\ py_pc' = "blocks"
    BY <2>1 DEF Unpack, UnpackFits
  <2>3. record \in Seq(Values)
    BY VariedRecord
  <2>4. data = <<>> /\ Fixed = {}
    BY <1>4 DEF CodecIInv, DecodeBase
  <2> HIDE DEF record
  <2>5. data' = <<record>>
    BY <2>2, <2>4
  <2>6. 0 <= Blocks(v)
    <3>1. /\ v.base_size \in Nat /\ v.rep_size \in Nat \ {0}
          /\ frame.size \in Nat /\ v.base_size <= frame.size
      BY <1>1, VariedRecord DEF CodecTypeOK, BasesAreWhole
    <3>2. frame.size - v.base_size \in Nat
      BY <3>1
    <3> QED
      BY <3>1, <3>2 DEF Blocks
  <2>7. Decoded'
    <3>1. /\ v \in Varied' /\ Fixed' = {} /\ LengthMatches(v)' /\ Blocks(v)' = Blocks(v)
      BY <1>1, <2>1, <2>4, SameFrame
    <3>2. Len(data') = 1 /\ data'[1] = record
      BY <2>5
    <3> QED
      BY <2>6, <3>1, <3>2 DEF Decoded, record
  <2> QED
    BY <1>2, <2>2, <2>3, <2>4, <2>7
<1>5. CASE DecodeBlock
  <2> DEFINE i == Len(data) - 1
  <2>1. PICK v \in Varied :
            /\ i < Blocks(v)
            /\ Unpack(v.rep, v.rep_names, BlockAt(v, i), BlockAt(v, i) + v.rep_size,
                      "blocks")
    BY <1>5 DEF DecodeBlock
  <2> DEFINE record == Record(v.rep, v.rep_names, BlockAt(v, i))
  <2>2. data' = Append(data, record) /\ py_pc' = "blocks"
    BY <2>1 DEF Unpack, UnpackFits
  <2>3. data # <<>> /\ Decoded /\ Fixed = {}
    BY <1>5 DEF CodecIInv, DecodeBlock
  <2>4. Len(data) >= 1 /\ i \in Nat
    BY <1>1, <2>3
  <2>5. record \in Seq(Values)
    <3>1. v.base_size \in Nat /\ v.rep_size \in Nat
      BY VariedRecord
    <3> HIDE DEF i
    <3>2. v.rep_size * i \in Nat
      BY <2>4, <3>1
    <3>3. BlockAt(v, i) \in Nat
      BY <3>1, <3>2 DEF BlockAt
    <3> QED
      BY <3>3, VariedRecord
  <2>6. /\ LengthMatches(v) /\ data[1] = Record(v.base, v.base_names, 0)
        /\ \A j \in 2 .. Len(data) : data[j] = Record(v.rep, v.rep_names, BlockAt(v, j - 2))
    <3>1. \A w \in Varied : w = v
      BY EntriesAssumption DEF Varied, Named
    <3> QED
      BY <2>3, <3>1 DEF Decoded
  <2> DEFINE n == Len(data) + 1
  <2>7. /\ Len(data') = n /\ data'[n] = record /\ n - 2 = i
        /\ \A j \in 1 .. Len(data) : data'[j] = data[j]
    <3> HIDE DEF record
    <3> QED
      BY <1>1, <2>2, AppendProperties
  <2>8. Blocks(v) \in Int
    <3>1. v.base_size \in Nat /\ v.rep_size \in Nat \ {0} /\ frame.size \in Nat
      BY <1>1, VariedRecord DEF CodecTypeOK
    <3> QED
      BY <3>1 DEF Blocks
  <2>9. ASSUME NEW j \in 2 .. n
        PROVE  data'[j] = Record(v.rep, v.rep_names, BlockAt(v, j - 2))
    <3>1. CASE j = n
      BY <2>7, <3>1
    <3>2. CASE j \in 2 .. Len(data)
      BY <1>1, <2>6, <2>7, <3>2
    <3> QED
      BY <1>1, <3>1, <3>2
  <2>10. Decoded'
    <3>1. /\ v \in Varied' /\ Fixed' = {} /\ LengthMatches(v)' /\ Blocks(v)' = Blocks(v)
      BY <1>1, <2>3, <2>6, SameFrame
    <3>2. n - 1 <= Blocks(v)
      BY <1>1, <2>1, <2>8
    <3>3. data'[1] = Record(v.base, v.base_names, 0)
      BY <1>1, <2>4, <2>6, <2>7
    <3> QED
      BY <2>7, <2>9, <3>1, <3>2, <3>3 DEF Decoded
  <2> QED
    BY <1>2, <2>2, <2>3, <2>5, <2>10
<1> QED
  BY <1>3, <1>4, <1>5

(* What is sent has been kept of a message of the same length, so it is    *)
(* packed by the format it was unpacked with.                              *)
LEMMA SendStep ==
    ASSUME CodecIInv, Send
    PROVE  packed' \subseteq Values \X Values /\ SentAsDumped' /\ py_pc' = "done"
<1>1. /\ CodecTypeOK /\ data # <<>> /\ Decoded
      /\ kept = data[1] /\ Accepts
      /\ frame' = frame
  BY DEF CodecIInv, Send
<1>2. PICK f \in Sent :
          LET there == {i \in 1 .. f.names : i <= Len(kept)}
          IN  /\ packed' = {<<kept[i], unpack(f.fmt, 0)[i]>> : i \in there}
              /\ py_pc' = IF there = 1 .. f.names THEN "done" ELSE "KeyError"
  BY DEF Send
<1>3. /\ f \in MSGFMT /\ f.clid \in DOMAIN DumpedSizes /\ Named(f.clid)
      /\ f.le = DumpedSizes[f.clid]
  BY DEF Sent, SentWith, DumpedSizes
<1>4. PICK g \in Fixed : /\ data[1] = unpack(g.fmt, 0)
                         /\ Len(data[1]) = g.names
                         /\ g.clid = f.clid /\ g.le = frame.size
  BY <1>1, <1>3, KeptFacts
<1>5. frame.size = DumpedSizes[f.clid]
  BY <1>1, <1>3, DumpedFacts
<1>6. f = g
  BY <1>3, <1>4, <1>5, FixedRecord, EntriesAssumption
<1>7. /\ Fields(f.fmt) \in Seq(Values) /\ f.names = Len(Fields(f.fmt))
      /\ kept = unpack(f.fmt, 0) /\ Len(kept) = f.names
      /\ PackedSize(AsRead(f.fmt)) = f.le
  <2>1. PackedSize(AsRead(f.fmt)) = f.le
    BY <1>3, <1>4, <1>5, <1>6, DumpedFacts
  <2> QED
    BY <1>1, <1>4, <1>6, <2>1, FixedRecord
<1>8. /\ kept \in Seq(Values) /\ DOMAIN kept = 1 .. f.names
      /\ DOMAIN Fields(f.fmt) = 1 .. f.names /\ f.names \in Nat
  BY <1>7, UnpackMoves, LenProperties
<1>9. {i \in 1 .. f.names : i <= Len(kept)} = 1 .. f.names
  BY <1>7, <1>8
<1>10. packed' = {<<kept[i], kept[i]>> : i \in 1 .. f.names} /\ py_pc' = "done"
  BY <1>2, <1>7, <1>9
<1>11. packed' = AsRead(f.fmt)
  BY <1>7, <1>8, <1>10 DEF AsRead
<1>12. \A i \in 1 .. f.names : kept[i] \in Values
  BY <1>8
<1>13. /\ packed' \subseteq Values \X Values
       /\ \A p \in packed' : p[1] = p[2]
  BY <1>10, <1>12
<1>14. PackedSize(packed') = frame.size
  BY <1>4, <1>6, <1>7, <1>11
<1>15. PackedSize(packed)' = PackedSize(packed')
  OBVIOUS
<1> QED
  BY <1>1, <1>10, <1>13, <1>14, <1>15 DEF SentAsDumped

(* The other steps leave the message's records as they are.                *)
LEMMA OtherCodecStep ==
    ASSUME CodecIInv, UnpackFits',
           \/ DecodeEnds \/ WrongLength \/ UnknownMessage \/ Handle \/ Send
           \/ SendPosition \/ dump_handle_message \/ UNCHANGED codec_vars
    PROVE  CodecIInv'
<1>1. UNCHANGED <<frame, data>>
  BY DEF DecodeEnds, WrongLength, UnknownMessage, Handle, Send, SendPosition,
         dump_handle_message, codec_vars, python
<1>2. /\ Fixed' = Fixed /\ Accepts' = Accepts /\ (Decoded' <=> Decoded)
  BY <1>1, SameFrame
<1>3. CASE UNCHANGED codec_vars
  BY <1>2, <1>3 DEF codec_vars, python, CodecIInv, CodecTypeOK, UnpackFits,
                    SentAsDumped
<1>4. CASE dump_handle_message
  <2>1. c_saved' = Accepts /\ c_pc' = "done" /\ UNCHANGED <<frame, python>>
    BY <1>4 DEF dump_handle_message
  <2>2. CodecTypeOK'
    BY <2>1 DEF CodecIInv, CodecTypeOK, python, Accepts
  <2>3. SentAsDumped'
    BY <2>1 DEF CodecIInv, SentAsDumped, python
  <2> QED
    BY <1>2, <2>1, <2>2, <2>3 DEF CodecIInv, python
<1>5. CASE DecodeEnds
  <2>1. /\ py_pc = "blocks" /\ py_pc' = "handle"
        /\ UNCHANGED <<frame, data, kept, packed, c_pc, c_saved>>
    BY <1>5 DEF DecodeEnds
  <2>2. SentAsDumped' /\ CodecTypeOK'
    BY <2>1 DEF CodecIInv, SentAsDumped, CodecTypeOK
  <2> QED
    BY <1>2, <2>1, <2>2 DEF CodecIInv, Ends
<1>6. CASE WrongLength \/ UnknownMessage
  <2>1. /\ py_pc = "decode" /\ Fixed = {} /\ py_pc' \in {"exit", "AttributeError"}
        /\ UNCHANGED <<frame, data, kept, packed, c_pc, c_saved>>
    BY <1>6 DEF WrongLength, UnknownMessage
  <2>2. SentAsDumped' /\ CodecTypeOK'
    BY <2>1 DEF CodecIInv, SentAsDumped, CodecTypeOK, Ends
  <2>3. ~Accepts /\ kept = <<>>
    BY <2>1, AcceptedIsFixed DEF CodecIInv
  <2> QED
    BY <1>2, <2>1, <2>2, <2>3 DEF CodecIInv, Ends
<1>7. CASE Handle
  <2>1. /\ py_pc = "handle"
        /\ \/ Kept /\ kept' = data[1] /\ py_pc' = "load"
           \/ ~Kept /\ kept' = <<>> /\ py_pc' = "done"
        /\ UNCHANGED <<frame, data, packed, c_pc, c_saved>>
    BY <1>7 DEF Handle
  <2>2. CodecTypeOK /\ data # <<>> /\ Decoded
    BY <2>1 DEF CodecIInv
  <2>3. /\ Kept <=> Accepts
        /\ Kept => data[1] \in Seq(Values) /\ data[1] # <<>>
    BY <2>2, KeptIsAccepted
  <2>4. kept' \in Seq(Values)
    <3>1. <<>> \in Seq(Values)
      OBVIOUS
    <3> QED
      BY <2>1, <2>3, <3>1
  <2>5. CodecTypeOK'
    BY <2>1, <2>2, <2>4 DEF CodecTypeOK, Ends
  <2>6. SentAsDumped'
    BY <2>1 DEF CodecIInv, SentAsDumped
  <2> QED
    BY <1>2, <2>1, <2>2, <2>3, <2>5, <2>6 DEF CodecIInv, Ends
<1>8. CASE Send
  <2>1. packed' \subseteq Values \X Values /\ SentAsDumped' /\ py_pc' = "done"
    BY <1>8, SendStep
  <2>2. py_pc = "load" /\ UNCHANGED <<frame, data, kept, c_pc, c_saved>>
    BY <1>8 DEF Send
  <2>3. CodecTypeOK'
    BY <2>1, <2>2 DEF CodecIInv, CodecTypeOK, Ends
  <2> QED
    BY <1>2, <2>1, <2>2, <2>3 DEF CodecIInv, Ends
<1>9. CASE SendPosition
  <2>1. /\ py_pc = "load" /\ py_pc' = "done"
        /\ UNCHANGED <<frame, data, kept, packed, c_pc, c_saved>>
    BY <1>9 DEF SendPosition
  <2>2. SentAsDumped' /\ CodecTypeOK'
    BY <2>1 DEF CodecIInv, SentAsDumped, CodecTypeOK, Ends
  <2> QED
    BY <1>2, <2>1, <2>2 DEF CodecIInv, Ends
<1> QED
  BY <1>3, <1>4, <1>5, <1>6, <1>7, <1>8, <1>9

LEMMA CodecInvariant ==
    ASSUME BasesAreWhole
    PROVE  CodecSpec => [](Uncut /\ CodecIInv)
<1>1. CodecInit => Uncut /\ CodecIInv
  BY UncutStarts, CodecStart
<1>2. Uncut /\ CodecIInv /\ [CodecNext]_codec_vars => (Uncut /\ CodecIInv)'
  <2> SUFFICES ASSUME Uncut, CodecIInv, [CodecNext]_codec_vars
               PROVE  Uncut' /\ CodecIInv'
    OBVIOUS
  <2>1. Uncut'
    BY UncutStep
  <2>2. UnpackFits'
    BY <2>1 DEF Uncut
  <2> QED
    BY <2>1, <2>2, DecodeStep, OtherCodecStep DEF CodecNext, decode
<1> QED
  BY <1>1, <1>2, PTL DEF CodecSpec

(* Every record holds the values of a format, and there are no others.     *)
THEOREM CodecTypeCorrect ==
    ASSUME BasesAreWhole
    PROVE  CodecSpec => []CodecTypeOK
<1>1. CodecIInv => CodecTypeOK
  BY DEF CodecIInv
<1> QED
  BY <1>1, CodecInvariant, PTL

(* A block's values are the fields of the struct's block, moved as far.    *)
LEMMA BlockIsStruct ==
    ASSUME CodecTypeOK, NEW v \in Varied, NEW s, s.repeat0 # <<>>,
           sizeof(s.base) = v.base_size, sizeof(s.repeat0) = v.rep_size,
           AreAmong(s.id, unpack(v.rep, 0), Cast(s.repeat0)),
           NEW k \in 0 .. Blocks(v) - 1
    PROVE  AreAmong(s.id, unpack(v.rep, BlockAt(v, k)), CastPayload(s, frame.size))
<1> DEFINE values == unpack(v.rep, BlockAt(v, k))
           read == unpack(v.rep, 0)
<1>1. /\ v.base_size \in Nat /\ v.rep_size \in Nat /\ frame.size \in Nat
      /\ Fields(v.rep) \in Seq(Values)
  BY VariedRecord DEF CodecTypeOK
<1>2. k \in Nat /\ v.rep_size * k \in Nat /\ v.rep_size * k = k * v.rep_size
  BY <1>1
<1>3. BlockAt(v, k) \in Nat /\ BlockAt(v, k) = v.base_size + k * v.rep_size
  BY <1>1, <1>2 DEF BlockAt
<1>4. DOMAIN values = DOMAIN Fields(v.rep) /\ DOMAIN read = DOMAIN Fields(v.rep)
  BY <1>1, <1>3, UnpackMoves
<1>5. \A i \in DOMAIN values :
         /\ read[i].at \in Nat /\ values[i].at = read[i].at + BlockAt(v, k)
         /\ values[i].size = read[i].size /\ values[i].is = read[i].is
  <2> TAKE i \in DOMAIN values
  <2>1. /\ Fields(v.rep)[i] \in Values
        /\ read[i] = [at |-> Fields(v.rep)[i].at + 0, size |-> Fields(v.rep)[i].size,
                      is |-> Fields(v.rep)[i].is]
        /\ values[i] = [at |-> Fields(v.rep)[i].at + BlockAt(v, k),
                        size |-> Fields(v.rep)[i].size, is |-> Fields(v.rep)[i].is]
    BY <1>1, <1>3, <1>4, UnpackMoves
  <2>2. Fields(v.rep)[i].at \in Nat
    BY <2>1 DEF Values
  <2> HIDE DEF values, read
  <2> QED
    BY <2>1, <2>2
<1>6. ASSUME NEW i \in DOMAIN values
      PROVE  \E w \in CastPayload(s, frame.size) : SameValue(s.id, w, values[i])
  <2>1. PICK c \in Cast(s.repeat0) : SameValue(s.id, c, read[i])
    BY <1>4, <1>6 DEF AreAmong
  <2> DEFINE w == [c EXCEPT !.at = @ + sizeof(s.base) + k * sizeof(s.repeat0)]
  <2>2. w \in CastPayload(s, frame.size)
    BY <2>1 DEF CastPayload, Blocks
  <2>3. /\ c.at = read[i].at /\ c.size = read[i].size
        /\ w = [at |-> c.at + sizeof(s.base) + k * sizeof(s.repeat0),
                size |-> c.size, is |-> c.is]
    BY <2>1 DEF SameValue, Cast
  <2>4. w.at = c.at + v.base_size + k * v.rep_size /\ w.size = c.size /\ w.is = c.is
    BY <2>3
  <2> HIDE DEF w, values, read
  <2>5. w.at = values[i].at
    BY <1>1, <1>2, <1>3, <1>5, <1>6, <2>3, <2>4
  <2>6. SameValue(s.id, w, values[i])
    BY <1>5, <1>6, <2>1, <2>3, <2>4, <2>5 DEF SameValue
  <2> QED
    BY <2>2, <2>6
<1> QED
  BY <1>6 DEF AreAmong

LEMMA MoreFields ==
    ASSUME NEW s, NEW values, AreAmong(s.id, values, Cast(s.base))
    PROVE  AreAmong(s.id, values, CastPayload(s, frame.size))
BY DEF AreAmong, CastPayload

LEMMA RecordsAreFields ==
    ASSUME CodecTypeOK, Decoded, NEW j \in DOMAIN data,
           NEW s \in Structs, s.id = frame.id, HasSize(s, frame.size)
    PROVE  AreAmong(s.id, data[j], CastPayload(s, frame.size))
<1>0. /\ sizeof(s.base) \in Nat
      /\ \A f \in MSGFMT : CLIDPAIR[f.clid] = s.id => FormatIsStruct(f, s)
      /\ \A v \in MSGFMT_None : CLIDPAIR[v.clid] = s.id => VariedIsStruct(v, s)
  BY StructsAssumption DEF PackStruct, Alignment
<1>1. CASE \E f \in Fixed : data = <<Record(f.fmt, f.names, 0)>>
  <2>1. PICK f \in Fixed : data = <<Record(f.fmt, f.names, 0)>>
    BY <1>1
  <2>2. data[j] = Record(f.fmt, f.names, 0)
    BY <2>1
  <2>3. /\ f \in MSGFMT /\ CLIDPAIR[f.clid] = s.id /\ f.le = frame.size
        /\ data[j] = unpack(f.fmt, 0)
    BY <2>2, FixedRecord
  <2> QED
    BY <1>0, <2>3 DEF FormatIsStruct
<1>2. ASSUME NEW v \in Varied,
             Len(data) - 1 <= Blocks(v),
             data[1] = Record(v.base, v.base_names, 0),
             \A i \in 2 .. Len(data) :
                data[i] = Record(v.rep, v.rep_names, BlockAt(v, i - 2))
      PROVE  AreAmong(s.id, data[j], CastPayload(s, frame.size))
  <2>1. /\ v \in MSGFMT_None /\ CLIDPAIR[v.clid] = s.id
        /\ v.base_size \in Nat /\ v.rep_size \in Nat \ {0} /\ frame.size \in Nat
    BY VariedRecord DEF CodecTypeOK
  <2>2. VariedIsStruct(v, s)
    BY <1>0, <2>1
  <2>3. j \in 1 .. Len(data) /\ Len(data) \in Nat
    BY LenProperties DEF CodecTypeOK
  <2>4. CASE j = 1
    <3>1. data[j] = unpack(v.base, 0)
      BY <1>2, <2>4, VariedRecord
    <3> QED
      BY <2>2, <3>1, MoreFields DEF VariedIsStruct
  <2>5. CASE j # 1
    <3> DEFINE k == j - 2
    <3>1. j \in 2 .. Len(data) /\ Blocks(v) \in Int
      BY <2>1, <2>3, <2>5 DEF Blocks
    <3>2. k \in Nat /\ k \in 0 .. Blocks(v) - 1
      BY <1>2, <2>3, <3>1
    <3>3. data[j] = Record(v.rep, v.rep_names, BlockAt(v, k))
      BY <1>2, <3>1
    <3> HIDE DEF k
    <3>4. v.rep_size * k \in Nat
      BY <2>1, <3>2
    <3>5. data[j] = unpack(v.rep, BlockAt(v, k))
      <4>1. BlockAt(v, k) \in Nat
        BY <2>1, <3>4 DEF BlockAt
      <4> QED
        BY <3>3, <4>1, VariedRecord
    <3>6. CASE s.repeat0 = <<>>
      <4>1. frame.size = sizeof(s.base)
        BY <1>0, <2>1, <3>6 DEF HasSize
      <4>2. AreAmong(s.id, data[j], Cast(s.base))
        BY <2>2, <3>2, <3>5, <3>6, <4>1 DEF VariedIsStruct, Blocks
      <4> QED
        BY <4>2, MoreFields
    <3>7. CASE s.repeat0 # <<>>
      BY <2>2, <3>2, <3>5, <3>7, BlockIsStruct DEF VariedIsStruct
    <3> QED
      BY <3>6, <3>7
  <2> QED
    BY <2>4, <2>5
<1> QED
  BY <1>1, <1>2 DEF Decoded

(* What the Python formats read of a payload the C structs read as well,   *)
(* whatever its number of blocks (DecodedIsStruct).                        *)
THEOREM FieldsAreRead ==
    ASSUME BasesAreWhole
    PROVE  CodecSpec => []DecodedIsStruct
<1>1. CodecIInv => DecodedIsStruct
  <2> SUFFICES ASSUME CodecIInv, NEW s \in Structs, s.id = frame.id,
                      HasSize(s, frame.size), NEW j \in DOMAIN data
               PROVE  AreAmong(s.id, data[j], CastPayload(s, frame.size))
    BY DEF DecodedIsStruct
  <2>1. data # <<>>
    OBVIOUS
  <2> QED
    BY <2>1, RecordsAreFields DEF CodecIInv
<1> QED
  BY <1>1, CodecInvariant, PTL

(* The load packs what the dump unpacked by the same format, so it sends   *)
(* back every byte (SentAsDumped; ubx_dump.py:25-46, ubx_load.py:46-64).   *)
THEOREM LoadedIsDumped ==
    ASSUME BasesAreWhole
    PROVE  CodecSpec => []SentAsDumped
<1>1. CodecIInv => SentAsDumped
  BY DEF CodecIInv
<1> QED
  BY <1>1, CodecInvariant, PTL

(* The number of names that a handler of the Python program looks at and   *)
(* the size that the C program compares tell the same (BothDumpTheSame).   *)
THEOREM SameIsDumped ==
    ASSUME BasesAreWhole
    PROVE  CodecSpec => []BothDumpTheSame
<1>1. CodecIInv => BothDumpTheSame
  BY DEF CodecIInv, BothDumpTheSame, Stopped
<1> QED
  BY <1>1, CodecInvariant, PTL

=============================================================================
