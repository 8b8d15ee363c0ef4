--------------------------- MODULE UbxReadProofs ---------------------------
(***************************************************************************)
(* ubx_read for every size of its buffer, of its reads and of the streams: *)
(* the inductive invariant IInv, the safety of the buffer that follows     *)
(* from it, the refinement of Deframer, and through it that no frame is    *)
(* lost, doubled or cut; the refinement of UbxLoop, for streams of frames; *)
(* and the checksum by which it tells a good frame (Checksum), as the      *)
(* Python reader does: whatever the payload and whatever a char is, what   *)
(* either program writes either accepts, and neither accepts a frame with  *)
(* a byte changed or two neighbours exchanged.                             *)
(***************************************************************************)
EXTENDS UbxRead, Checksum, UbxStreamProofs, SequenceTheorems

(* The constants and variables an arithmetic leaf needs the types of.      *)
LEMMA Numbers ==
    ASSUME IInv
    PROVE  /\ SYNC_SIZE = 2 /\ FRAME_SIZE \in Nat /\ FRAME_SIZE >= 2
           /\ BUFFER_SIZE \in Nat /\ HIGH_WATER \in Nat
           /\ READ_SIZE \in Nat
           /\ HIGH_WATER + READ_SIZE <= BUFFER_SIZE /\ FRAME_SIZE <= HIGH_WATER
           /\ stream.len \in Nat /\ sent \in Nat /\ taken \in Nat
           /\ sent <= stream.len /\ taken <= sent
           /\ buffer \in Nat /\ buffer_end \in Nat /\ buffer_read \in Nat
           /\ buffer <= buffer_end
BY SizeAssumption, BufferAssumption DEF IInv, TypeOK, IsStream

(* A byte of the stream stands where the cursors say.                      *)
LEMMA ByteAt ==
    ASSUME IInv, NEW k \in Nat, buffer <= k, k < buffer_end
    PROVE  mem[k] = Pos + (k - buffer)
BY Numbers DEF IInv, BufferIsWindow

(* With a header under buffer, the cursor is on a head, and the frame's    *)
(* claimed size is at least that of an empty one.                          *)
LEMMA HeadUnderBuffer ==
    ASSUME IInv, pc = "frame"
    PROVE  /\ mem[buffer] = Pos /\ Pos \in stream.heads
           /\ need_size = stream.need[Pos]
           /\ need_size \in Nat /\ need_size >= FRAME_SIZE
<1>1. buffer < buffer_end /\ mem[buffer] \in stream.heads
  BY Numbers DEF IInv, MagicAt
<1>2. mem[buffer] = Pos
  BY <1>1, Numbers, ByteAt DEF IInv
<1> QED
  BY <1>1, <1>2 DEF need_size, IInv, TypeOK, IsStream

LEMMA IInvInit == Init => IInv
<1> SUFFICES ASSUME Init PROVE IInv
  OBVIOUS
<1>1. IsStream(stream) /\ stream.len \in Nat
  BY StreamsAssumption DEF Init, IsStream
<1>2. TypeOK
  BY <1>1 DEF Init, TypeOK, Index
<1>3. Pos = 0
  BY DEF Pos, Init
<1> QED
  BY <1>1, <1>2, <1>3, BufferAssumption
     DEF Init, IInv, BufferIsWindow

LEMMA IInvStep == IInv /\ [Next]_vars => IInv'
<1> SUFFICES ASSUME IInv, [Next]_vars PROVE IInv'
  OBVIOUS
<1> USE Numbers
<1>1. CASE Arrive
  <2>1. TypeOK'
    BY <1>1 DEF Arrive, IInv, TypeOK, IsStream
  <2>2. Pos' = Pos
    BY <1>1 DEF Arrive, Pos
  <2>3. sent' = sent + 1 /\ real_size' = real_size
    BY <1>1 DEF Arrive, real_size
  <2> QED
    BY <1>1, <2>1, <2>2, <2>3 DEF Arrive, IInv, BufferIsWindow, MagicAt
<1>2. CASE Clean
  <2>1. CASE MustClean
    <3>1. /\ mem' = [k \in Index |-> IF k < real_size
                                     THEN mem[buffer + k] ELSE mem[k]]
          /\ buffer_read' = real_size /\ buffer' = 0
          /\ buffer_end' = real_size /\ pc' = "read"
          /\ UNCHANGED <<stream, source, sent, taken, delivered>>
      BY <1>2, <2>1 DEF Clean
    <3>2. real_size \in Nat /\ real_size <= buffer_end
          /\ real_size = buffer_end - buffer
      BY DEF real_size
    <3>3. \A k \in Index : k < real_size => buffer + k \in Index
      BY <3>2 DEF Index, IInv
    <3>4. mem' \in [Index -> Nat]
      BY <3>1, <3>3 DEF IInv, TypeOK
    <3>5. Pos' = Pos
      BY <3>1, <3>2 DEF Pos
    <3>6. TypeOK'
      <4>1. IsStream(stream)' /\ delivered' \in Seq(stream'.good)
        BY <3>1 DEF IInv, TypeOK, IsStream
      <4>2. /\ buffer' \in 0 .. buffer_end'
            /\ buffer_end' \in Nat /\ buffer_read' \in Nat
        BY <3>1, <3>2
      <4> QED
        BY <3>1, <3>4, <4>1, <4>2 DEF IInv, TypeOK
    <3>7. \A k \in Nat : k < real_size => mem'[k] = Pos + k
      <4> SUFFICES ASSUME NEW k \in Nat, k < real_size
                   PROVE  mem'[k] = Pos + k
        OBVIOUS
      <4>1. k \in Index
        BY <3>2 DEF Index, IInv
      <4>2. mem'[k] = mem[buffer + k]
        BY <3>1, <4>1
      <4>3. mem[buffer + k] = Pos + ((buffer + k) - buffer)
        BY <3>2, ByteAt
      <4> QED
        BY <4>2, <4>3 DEF IInv
    <3>8. BufferIsWindow'
      BY <3>1, <3>2, <3>5, <3>7 DEF BufferIsWindow, IInv
    <3> QED
      BY <3>1, <3>2, <3>5, <3>6, <3>8 DEF IInv
  <2>2. CASE ~MustClean
    <3>1. pc' = "read" /\ UNCHANGED <<stream, source, sent, taken, mem, buffer,
                                      buffer_end, buffer_read, delivered>>
      BY <1>2, <2>2 DEF Clean
    <3>2. TypeOK' /\ Pos' = Pos
      BY <3>1 DEF IInv, TypeOK, IsStream, Pos
    <3> QED
      BY <2>2, <3>1, <3>2 DEF IInv, BufferIsWindow, MustClean
  <2> QED
    BY <2>1, <2>2
<1>3. CASE Read
  <2>1. PICK n \in 1 .. READ_SIZE :
          /\ n <= sent - taken /\ Fits(n)
          /\ mem' = [k \in Index |-> IF buffer_end <= k /\ k < buffer_end + n
                                     THEN taken + (k - buffer_end) ELSE mem[k]]
          /\ taken' = taken + n
          /\ buffer_read' = buffer_read + n
          /\ buffer_end' = buffer_end + n
    BY <1>3 DEF Read
  <2>2. pc = "read" /\ pc' = "scan"
        /\ UNCHANGED <<stream, source, sent, buffer, delivered>>
    BY <1>3 DEF Read
  <2>3. Pos' = Pos
    BY <2>1, <2>2 DEF Pos
  <2>0. n \in Nat /\ buffer' = buffer /\ buffer_end' = buffer_end + n
    BY <2>1, <2>2
  <2>4. buffer_end' <= BUFFER_SIZE
    BY <2>0, <2>1 DEF Fits
  <2>5. mem' \in [Index -> Nat]
    <3> SUFFICES ASSUME NEW k \in Index
                 PROVE (IF buffer_end <= k /\ k < buffer_end + n
                        THEN taken + (k - buffer_end) ELSE mem[k]) \in Nat
      BY <2>1
    <3>1. mem[k] \in Nat /\ k \in Int
      BY DEF Index, IInv, TypeOK
    <3> QED
      BY <3>1
  <2>6. TypeOK'
    <3>1. /\ taken' \in 0 .. sent' /\ buffer' \in 0 .. buffer_end'
          /\ buffer_end' \in Nat /\ buffer_read' \in Nat
      BY <2>1, <2>2
    <3> QED
      BY <2>2, <2>5, <3>1 DEF IInv, TypeOK, IsStream
  <2>7. BufferIsWindow'
    <3> SUFFICES ASSUME NEW k \in Nat, buffer <= k, k < buffer_end + n
                 PROVE  mem'[k] = Pos + (k - buffer)
      BY <2>0, <2>3 DEF BufferIsWindow
    <3>1. k \in Index
      BY <2>0, <2>4 DEF Index
    <3>2. CASE k < buffer_end
      BY <2>1, <3>1, <3>2, ByteAt
    <3>3. CASE k >= buffer_end
      BY <2>1, <3>1, <3>3 DEF Pos
    <3> QED
      BY <3>2, <3>3
  <2> QED
    BY <2>1, <2>2, <2>3, <2>4, <2>6, <2>7 DEF IInv
<1>4. CASE ReadEOF \/ ReadError \/ Incomplete
  <2>1. pc' \in {"scan", "panic", "clean"}
        /\ UNCHANGED <<stream, source, sent, taken, mem, buffer, buffer_end,
                       buffer_read, delivered>>
    BY <1>4 DEF ReadEOF, ReadError, Incomplete
  <2>2. TypeOK' /\ Pos' = Pos
    BY <2>1 DEF IInv, TypeOK, IsStream, Pos
  <2> QED
    BY <2>1, <2>2 DEF IInv, BufferIsWindow
<1>5. CASE Scan
  <2>1. PICK k \in ScanStops :
          /\ buffer' = k
          /\ pc' = IF k < buffer_end - FRAME_SIZE THEN "frame" ELSE "clean"
    BY <1>5 DEF Scan
  <2>2. UNCHANGED <<stream, source, sent, taken, mem, buffer_end, buffer_read,
                    delivered>>
    BY <1>5 DEF Scan
  <2>3. k \in buffer .. buffer_end
        /\ (k < buffer_end - FRAME_SIZE => MagicAt(k))
    BY <2>1 DEF ScanStops
  <2>4. TypeOK'
    BY <2>1, <2>2, <2>3 DEF IInv, TypeOK, IsStream
  <2>5. Pos' = Pos + (k - buffer)
    BY <2>1, <2>2, <2>3 DEF Pos, IInv
  <2>6. BufferIsWindow'
    BY <2>1, <2>2, <2>3, <2>5 DEF BufferIsWindow, IInv
  <2> QED
    BY <2>1, <2>2, <2>3, <2>4, <2>5, <2>6 DEF IInv, MagicAt
<1>6. CASE WrongChecksum \/ Deliver
  <2>1. /\ pc = "frame" /\ Complete /\ buffer' \in Nat
        /\ buffer <= buffer' /\ buffer' <= buffer_end
    BY <1>6, HeadUnderBuffer DEF WrongChecksum, Deliver, Complete
  <2>2. /\ pc' \in {"clean", "quit"}
        /\ UNCHANGED <<stream, source, sent, taken, mem, buffer_end,
                       buffer_read>>
    <3>1. CASE WrongChecksum
      BY <3>1 DEF WrongChecksum
    <3>2. CASE Deliver
      BY <3>2 DEF Deliver
    <3> QED
      BY <1>6, <3>1, <3>2
  <2>3. delivered' \in Seq(stream.good)
    <3>0. delivered \in Seq(stream.good)
      BY DEF IInv, TypeOK
    <3>1. CASE WrongChecksum
      BY <3>0, <3>1 DEF WrongChecksum
    <3>2. CASE Deliver
      <4>1. mem[buffer] \in stream.good
            /\ delivered' = Append(delivered, mem[buffer])
        BY <3>2 DEF Deliver
      <4> HIDE Numbers
      <4> QED
        BY <3>0, <4>1, AppendType
    <3> QED
      BY <1>6, <3>1, <3>2
  <2>4. TypeOK'
    <3>1. IsStream(stream)'
      BY <2>2 DEF IInv, TypeOK, IsStream
    <3>2. buffer' \in 0 .. buffer_end'
      BY <2>1, <2>2
    <3>3. delivered' \in Seq(stream'.good)
      BY <2>2, <2>3
    <3> QED
      BY <2>2, <3>1, <3>2, <3>3 DEF IInv, TypeOK
  <2>5. Pos' = Pos + (buffer' - buffer)
    BY <2>1, <2>2 DEF Pos, IInv
  <2>6. BufferIsWindow'
    BY <2>1, <2>2, <2>5 DEF BufferIsWindow, IInv
  <2> QED
    BY <2>1, <2>2, <2>4, <2>5, <2>6 DEF IInv
<1>7. CASE Overrun
  <2>1. PICK n \in 1 .. READ_SIZE : n <= sent - taken /\ ~Fits(n)
    BY <1>7 DEF Overrun
  <2>2. pc = "read" /\ pc' = "overrun"
        /\ UNCHANGED <<stream, source, sent, taken, mem, buffer, buffer_end,
                       buffer_read, delivered>>
    BY <1>7 DEF Overrun
  <2>3. TypeOK' /\ Pos' = Pos
    BY <2>2 DEF IInv, TypeOK, IsStream, Pos
  <2>4. n \in Nat /\ n <= READ_SIZE /\ buffer_end + n > BUFFER_SIZE
    BY <2>1 DEF Fits
  <2>5. buffer = 0
    BY <2>2, <2>4 DEF IInv
  <2>6. sent - Pos > BUFFER_SIZE
    BY <2>1, <2>4, <2>5 DEF Pos
  <2>7. (real_size + READ_SIZE > BUFFER_SIZE)'
    BY <2>2, <2>4, <2>5 DEF real_size
  <2> QED
    BY <2>2, <2>3, <2>6, <2>7 DEF IInv, BufferIsWindow
<1>8. CASE UNCHANGED vars
  <2>1. UNCHANGED <<stream, source, sent, taken, mem, buffer, buffer_end,
                    buffer_read, delivered, pc>>
    BY <1>8 DEF vars
  <2>2. TypeOK' /\ Pos' = Pos /\ real_size' = real_size
    BY <2>1 DEF IInv, TypeOK, IsStream, Pos, real_size
  <2> QED
    BY <2>1, <2>2 DEF IInv, BufferIsWindow, MagicAt
<1> QED
  BY <1>1, <1>2, <1>3, <1>4, <1>5, <1>6, <1>7, <1>8 DEF Next, Step

(* What the loop relies on between its steps holds for every buffer and    *)
(* read size that BufferAssumption admits (c/ubx_io.h:48-132).             *)
THEOREM Invariant == Spec => []IInv
BY IInvInit, IInvStep, PTL DEF Spec

(* Every variable keeps its type.                                          *)
THEOREM TypeCorrect == Spec => []TypeOK
<1>1. IInv => TypeOK
  BY DEF IInv
<1> QED
  BY <1>1, Invariant, PTL

(* header and msg always point at consecutive bytes of the stream,         *)
(* whatever cleaning has moved (c/ubx_io.h:66-73, 100, 110).               *)
THEOREM BufferHoldsWindow == Spec => []BufferIsWindow
<1>1. IInv => BufferIsWindow
  BY DEF IInv
<1> QED
  BY <1>1, Invariant, PTL

-----------------------------------------------------------------------------
LEMMA InitImplementsDeframer == Init => Abs!DInit
<1> SUFFICES ASSUME Init PROVE Abs!DInit
  OBVIOUS
<1>1. IsStream(stream)
  BY StreamsAssumption DEF Init
<1>2. stream.len \in Nat
  BY <1>1 DEF IsStream
<1> QED
  BY <1>1, <1>2 DEF Init, Abs!DInit, Abs!IsStream, IsStream, Pos, Status

(* What the scan passes starts no frame: a byte it passes has its          *)
(* successor in the buffer, so it would have seen both magic bytes.        *)
LEMMA ScanSkipsNoHead ==
    ASSUME IInv, NEW k \in ScanStops, \A i \in ScanStops : k <= i,
           NEW q \in Nat, Pos <= q, q < Pos + (k - buffer)
    PROVE  q \notin stream.heads
<1> USE Numbers
<1> DEFINE i == buffer + (q - Pos)
<1>1. i \in Nat /\ buffer <= i /\ i < k /\ k \in Nat /\ k <= buffer_end
  BY DEF IInv, ScanStops
<1>2. i \notin ScanStops
  BY <1>1
<1>3. i < buffer_end - FRAME_SIZE /\ ~MagicAt(i)
  BY <1>1, <1>2 DEF ScanStops
<1>4. mem[i] = q
  BY <1>1, ByteAt DEF IInv
<1>5. mem[i + 1] = q + 1
  <2>1. mem[i + 1] = Pos + ((i + 1) - buffer)
    BY <1>1, <1>3, ByteAt
  <2> QED
    BY <2>1 DEF IInv
<1> QED
  BY <1>3, <1>4, <1>5 DEF MagicAt

LEMMA StepImplementsDeframer ==
    IInv /\ [Next]_vars => [Abs!DNext]_(Abs!dvars)
<1> SUFFICES ASSUME IInv, [Next]_vars
             PROVE  Abs!DNext \/ UNCHANGED Abs!dvars
  OBVIOUS
<1> USE Numbers
<1>1. CASE Arrive
  <2>1. sent' \in sent .. stream.len /\ Pos' = Pos /\ Status' = Status
    BY <1>1 DEF Arrive, Pos, Status
  <2> QED
    BY <1>1, <2>1 DEF Arrive, Abs!DArrive, Abs!DNext
<1>2. CASE Clean
  <2>1. UNCHANGED <<stream, sent, taken, delivered>> /\ Status' = Status
    BY <1>2 DEF Clean, Status
  <2>2. buffer_end' - buffer' = buffer_end - buffer
    BY <1>2 DEF Clean, real_size
  <2> QED
    BY <2>1, <2>2 DEF Abs!dvars, Pos
<1>3. CASE Read
  <2>1. PICK n \in 1 .. READ_SIZE : taken' = taken + n
                                    /\ buffer_end' = buffer_end + n
    BY <1>3 DEF Read
  <2>2. UNCHANGED <<stream, sent, buffer, delivered>> /\ Status' = Status
    BY <1>3 DEF Read, Status
  <2>3. Pos' = Pos
    BY <2>1, <2>2 DEF Pos
  <2> QED
    BY <2>2, <2>3 DEF Abs!dvars
<1>4. CASE ReadEOF \/ Incomplete \/ UNCHANGED vars
  <2>1. Status' = Status /\ UNCHANGED <<stream, sent, taken, buffer,
                                        buffer_end, delivered>>
    BY <1>4 DEF ReadEOF, Incomplete, vars, Status
  <2> QED
    BY <2>1 DEF Abs!dvars, Pos
<1>5. CASE ReadError \/ Overrun
  <2>1. /\ Status = "reading" /\ Status' \in {"panic", "overrun"} /\ Pos' = Pos
        /\ UNCHANGED <<stream, sent, delivered>>
    BY <1>5 DEF ReadError, Overrun, Status, Pos
  <2> QED
    BY <2>1 DEF Abs!DFail, Abs!DNext
<1>6. CASE Scan
  <2>1. PICK k \in ScanStops : (\A i \in ScanStops : k <= i) /\ buffer' = k
    BY <1>6 DEF Scan
  <2>2. k \in buffer .. buffer_end
    BY <2>1 DEF ScanStops
  <2>3. UNCHANGED <<stream, sent, taken, buffer_end, delivered>>
        /\ Status = "reading" /\ Status' = Status
    BY <1>6 DEF Scan, Status
  <2>4. Pos' = Pos + (k - buffer) /\ Pos \in Nat /\ Pos' \in Pos .. sent
    BY <2>1, <2>2, <2>3 DEF Pos, IInv
  <2>5. \A q \in Pos .. (Pos' - 1) : q \notin stream.heads
    BY <2>1, <2>2, <2>4, ScanSkipsNoHead
  <2> QED
    BY <2>3, <2>4, <2>5 DEF Abs!DSkip, Abs!DNext
<1>7. CASE WrongChecksum \/ Deliver
  <2>1. /\ Pos \in stream.heads /\ mem[buffer] = Pos
        /\ need_size = stream.need[Pos] /\ need_size \in Nat
        /\ pc = "frame" /\ Complete
    BY <1>7, HeadUnderBuffer DEF WrongChecksum, Deliver
  <2>2. Abs!AtHead
    BY <2>1 DEF Abs!AtHead, Complete, Pos
  <2>3. Status = "reading"
    BY <2>1 DEF Status
  <2>4. CASE WrongChecksum
    <3>1. Pos' = Pos + SYNC_SIZE /\ Status' = Status
      BY <2>1, <2>4 DEF WrongChecksum, Pos, Status
    <3> QED
      BY <2>1, <2>2, <2>3, <2>4, <3>1
         DEF WrongChecksum, Abs!DReject, Abs!DNext
  <2>5. CASE Deliver
    <3>0. buffer' = buffer + stream.need[Pos]
          /\ UNCHANGED <<taken, buffer_end>>
      BY <2>1, <2>5 DEF Deliver
    <3>1. Pos' = Pos + stream.need[Pos]
      BY <2>1, <3>0 DEF Pos
    <3>2. Status' \in {"reading", "quit"}
      BY <2>5 DEF Deliver, Status
    <3> QED
      BY <2>1, <2>2, <2>3, <2>5, <3>1, <3>2
         DEF Deliver, Abs!DDeliver, Abs!DNext
  <2> QED
    BY <1>7, <2>4, <2>5
<1> QED
  BY <1>1, <1>2, <1>3, <1>4, <1>5, <1>6, <1>7 DEF Next, Step

(* The buffer loop implements the cursor of Deframer: what is delivered    *)
(* depends on the bytes alone, for every buffer and read size and every    *)
(* way read() cuts the stream (c/ubx_io.h:48-132).                         *)
THEOREM Refinement == Spec => ImplementsDeframer
BY InitImplementsDeframer, StepImplementsDeframer, Invariant, PTL
   DEF Spec, ImplementsDeframer, Abs!DSpec

-----------------------------------------------------------------------------
LEMMA IInvFacts ==
    ASSUME IInv
    PROVE  /\ IsStream(stream) /\ Pos \in Nat
           /\ delivered \in Seq(stream.good)
           /\ \A h \in stream.good : h \in stream.heads
BY DEF IInv, TypeOK, IsStream

(* No handler of ubx_read sees a frame twice, overlapping, or cut          *)
(* (c/ubx_io.h:102-130).                                                   *)
THEOREM FramesDeliveredInOrder == Spec => []FramesInOrder
<1>1. Init => FramesInOrder
  BY DEF Init, FramesInOrder, InOrder
<1>2. IInv /\ FramesInOrder /\ [Next]_vars => FramesInOrder'
  <2> SUFFICES ASSUME IInv, FramesInOrder, [Next]_vars
               PROVE  FramesInOrder'
    OBVIOUS
  <2> USE IInvFacts DEF FramesInOrder
  <2>0. [Abs!DNext]_(Abs!dvars)
    BY StepImplementsDeframer
  <2>1. CASE Abs!DArrive \/ Abs!DFail \/ UNCHANGED Abs!dvars
    BY <2>1 DEF Abs!DArrive, Abs!DFail, Abs!dvars
  <2>2. CASE Abs!DSkip \/ Abs!DReject
    <3>1. Pos' \in Nat /\ Pos <= Pos' /\ UNCHANGED <<stream, delivered>>
      BY <2>2, SizeAssumption, Numbers DEF Abs!DSkip, Abs!DReject
    <3> QED
      BY <3>1, InOrderMove
  <2>3. CASE Abs!DDeliver
    <3>1. /\ Pos \in stream.good /\ Pos' = FrameEnd(stream, Pos)
          /\ delivered' = Append(delivered, Pos) /\ stream' = stream
      BY <2>3 DEF Abs!DDeliver, FrameEnd
    <3> QED
      BY <3>1, InOrderAppend
  <2> QED
    BY <2>0, <2>1, <2>2, <2>3 DEF Abs!DNext
<1> QED
  BY <1>1, <1>2, Invariant, PTL DEF Spec

(* No good frame is lost by ubx_read, for every stream, buffer and read    *)
(* size (c/ubx_io.h:82-123).                                               *)
THEOREM NoFrameIsLost == Spec => []NoFrameLost
<1>1. Init => NoFrameLost
  <2> SUFFICES ASSUME Init, NEW h \in stream.good PROVE ~(h < 0)
    BY DEF NoFrameLost, NoneLost, Init, Pos
  <2> QED
    BY StreamsAssumption DEF Init, IsStream
<1>2. IInv /\ NoFrameLost /\ [Next]_vars => NoFrameLost'
  <2> SUFFICES ASSUME IInv, NoFrameLost, [Next]_vars
               PROVE  NoFrameLost'
    OBVIOUS
  <2> USE IInvFacts DEF NoFrameLost
  <2>0. [Abs!DNext]_(Abs!dvars)
    BY StepImplementsDeframer
  <2>1. CASE Abs!DArrive \/ Abs!DFail \/ UNCHANGED Abs!dvars
    BY <2>1 DEF Abs!DArrive, Abs!DFail, Abs!dvars
  <2>2. CASE Abs!DSkip
    <3>1. /\ Pos' \in Nat /\ UNCHANGED <<stream, delivered>>
          /\ \A h \in Pos .. (Pos' - 1) : h \notin stream.good
      BY <2>2, Numbers DEF Abs!DSkip
    <3> QED
      BY <3>1, NoneLostMove
  <2>3. CASE Abs!DReject
    <3>1. /\ Pos' = Pos + SYNC_SIZE /\ UNCHANGED <<stream, delivered>>
          /\ Pos \in stream.heads /\ Pos \notin stream.good
      BY <2>3 DEF Abs!DReject, Abs!AtHead
    <3>2. Pos' \in Nat
      BY <3>1, SizeAssumption
    <3>3. \A h \in Pos .. (Pos' - 1) : h \notin stream.good
      BY <3>1, SyncSkipsNone
    <3> QED
      BY <3>1, <3>2, <3>3, NoneLostMove
  <2>4. CASE Abs!DDeliver
    <3>1. /\ Pos \in stream.good /\ Pos' = FrameEnd(stream, Pos)
          /\ delivered' = Append(delivered, Pos) /\ stream' = stream
      BY <2>4 DEF Abs!DDeliver, FrameEnd
    <3> QED
      BY <3>1, NoneLostAppend
  <2> QED
    BY <2>0, <2>1, <2>2, <2>3, <2>4 DEF Abs!DNext
<1> QED
  BY <1>1, <1>2, Invariant, PTL DEF Spec

-----------------------------------------------------------------------------
LEMMA RoomInit == Init => Room
<1> SUFFICES ASSUME Init PROVE Room
  OBVIOUS
<1> QED
  BY SizeAssumption, BufferAssumption DEF Init, Room, real_size

(* What has strained the buffer stays among the heads met.                 *)
LEMMA MetGrows ==
    ASSUME IInv, stream' = stream, Pos' \in Nat, Pos <= Pos',
           \/ delivered' = delivered
           \/ Pos \in stream.good /\ delivered' = Append(delivered, Pos)
    PROVE  \A h \in Met : h \in Met' /\ Strains(h)' = Strains(h)
<1> SUFFICES ASSUME NEW h \in Met PROVE h \in Met' /\ Strains(h)' = Strains(h)
  OBVIOUS
<1>1. /\ h \in stream.heads /\ h \in Nat /\ h <= Pos /\ Pos \in Nat
      /\ \A i \in DOMAIN delivered :
            h <= delivered[i] \/ FrameEnd(stream, delivered[i]) <= h
  BY IInvFacts, HeadFacts DEF Met
<1>2. Strains(h)' = Strains(h)
  BY DEF Strains
<1>3. h <= Pos'
  BY <1>1
<1>4. \A i \in DOMAIN delivered' :
          h <= delivered'[i] \/ FrameEnd(stream, delivered'[i]) <= h
  <2>1. CASE delivered' = delivered
    BY <1>1, <2>1
  <2>2. CASE Pos \in stream.good /\ delivered' = Append(delivered, Pos)
    <3> SUFFICES ASSUME NEW i \in DOMAIN delivered'
                 PROVE  h <= delivered'[i] \/ FrameEnd(stream, delivered'[i]) <= h
      OBVIOUS
    <3>1. /\ delivered \in Seq(stream.good)
          /\ DOMAIN delivered' = 1 .. Len(delivered) + 1
          /\ delivered'[Len(delivered) + 1] = Pos
          /\ \A j \in 1 .. Len(delivered) : delivered'[j] = delivered[j]
      BY <2>2, IInvFacts, AppendProperties
    <3>2. CASE i = Len(delivered) + 1
      BY <1>1, <3>1, <3>2
    <3>3. CASE i # Len(delivered) + 1
      <4>1. i \in 1 .. Len(delivered) /\ i \in DOMAIN delivered
        BY <3>1, <3>3
      <4> QED
        BY <1>1, <3>1, <4>1
    <3> QED
      BY <3>2, <3>3
  <2> QED
    BY <2>1, <2>2
<1> QED
  BY <1>1, <1>2, <1>3, <1>4 DEF Met, FrameEnd

(* The head under buffer is none inside a frame handed over.               *)
LEMMA HeadIsMet == ASSUME IInv, FramesInOrder, pc = "frame" PROVE Pos \in Met
BY HeadUnderBuffer, IInvFacts DEF FramesInOrder, InOrder, Met

LEMMA RoomStep == IInv /\ FramesInOrder /\ Room /\ [Next]_vars => Room'
<1> SUFFICES ASSUME IInv, FramesInOrder, Room, [Next]_vars PROVE Room'
  OBVIOUS
<1> USE Numbers
<1> DEFINE strained == \E h \in Met : Strains(h)
<1>0. Pos \in Nat /\ real_size \in Nat /\ real_size = buffer_end - buffer
  BY DEF IInv, real_size
<1>1. CASE Arrive \/ ReadEOF \/ ReadError \/ Overrun \/ UNCHANGED vars
  <2>1. /\ UNCHANGED <<stream, taken, buffer, buffer_end, delivered>>
        /\ pc' = pc \/ pc \notin {"scan", "frame"}
    BY <1>1 DEF Arrive, ReadEOF, ReadError, Overrun, vars
  <2>2. Pos' = Pos /\ real_size' = real_size
    BY <2>1 DEF Pos, real_size
  <2>3. strained => strained'
    BY <2>1, <2>2, <1>0, MetGrows
  <2> QED
    BY <1>0, <2>1, <2>2, <2>3 DEF Room
<1>2. CASE Clean
  <2>1. /\ UNCHANGED <<stream, taken, delivered>>
        /\ pc = "clean" /\ pc' = "read"
        /\ buffer_end' - buffer' = buffer_end - buffer
    BY <1>2 DEF Clean, real_size
  <2>2. Pos' = Pos /\ real_size' = real_size
    BY <2>1 DEF Pos, real_size
  <2>3. strained => strained'
    BY <2>1, <2>2, <1>0, MetGrows
  <2> QED
    BY <2>1, <2>2, <2>3 DEF Room
<1>3. CASE Read
  <2>1. PICK n \in 1 .. READ_SIZE : taken' = taken + n
                                    /\ buffer_end' = buffer_end + n
    BY <1>3 DEF Read
  <2>2. UNCHANGED <<stream, buffer, delivered>> /\ pc = "read" /\ pc' = "scan"
    BY <1>3 DEF Read
  <2>3. Pos' = Pos /\ real_size' = real_size + n
    BY <2>1, <2>2 DEF Pos, real_size
  <2>4. strained => strained'
    BY <2>2, <2>3, <1>0, MetGrows
  <2>5. n \in Nat /\ n <= READ_SIZE
    BY <2>1
  <2> QED
    BY <1>0, <2>2, <2>3, <2>4, <2>5 DEF Room
<1>4. CASE Scan
  <2>1. PICK k \in ScanStops :
          /\ buffer' = k
          /\ pc' = IF k < buffer_end - FRAME_SIZE THEN "frame" ELSE "clean"
    BY <1>4 DEF Scan
  <2>2. UNCHANGED <<stream, taken, buffer_end, delivered>> /\ pc = "scan"
    BY <1>4 DEF Scan
  <2>3. k \in buffer .. buffer_end
    BY <2>1 DEF ScanStops
  <2>4. /\ Pos' \in Nat /\ Pos <= Pos'
        /\ real_size' = buffer_end - k /\ real_size' <= real_size
    BY <1>0, <2>1, <2>2, <2>3 DEF Pos, real_size
  <2>5. strained => strained'
    BY <2>2, <2>4, MetGrows
  <2>6. CASE k < buffer_end - FRAME_SIZE
    BY <1>0, <2>1, <2>2, <2>3, <2>4, <2>5, <2>6 DEF Room
  <2>7. CASE ~(k < buffer_end - FRAME_SIZE)
    <3>1. real_size' <= FRAME_SIZE /\ real_size' \in Int
      BY <2>3, <2>4, <2>7
    <3>2. real_size' + READ_SIZE <= BUFFER_SIZE
      BY <3>1
    <3> QED
      BY <2>1, <2>7, <3>2 DEF Room
  <2> QED
    BY <2>6, <2>7
<1>5. CASE Incomplete
  <2>1. /\ UNCHANGED <<stream, taken, buffer, buffer_end, delivered>>
        /\ pc = "frame" /\ pc' = "clean" /\ ~Complete
    BY <1>5 DEF Incomplete
  <2>2. Pos' = Pos /\ real_size' = real_size
    BY <2>1 DEF Pos, real_size
  <2>3. \A h \in Met : h \in Met' /\ Strains(h)' = Strains(h)
    BY <2>1, <2>2, <1>0, MetGrows
  <2>4. Pos \in Met /\ need_size = stream.need[Pos] /\ need_size \in Nat
    BY <2>1, HeadIsMet, HeadUnderBuffer
  <2>5. CASE Strains(Pos)
    BY <2>3, <2>4, <2>5 DEF Room
  <2>6. CASE ~Strains(Pos)
    <3>1. need_size <= BUFFER_SIZE - READ_SIZE + 1
      BY <2>4, <2>6 DEF Strains
    <3>2. real_size < need_size
      BY <2>1, <2>4, <1>0 DEF Complete
    <3>3. real_size' + READ_SIZE <= BUFFER_SIZE
      BY <2>2, <2>4, <3>1, <3>2, <1>0
    <3> QED
      BY <2>1, <3>3 DEF Room
  <2> QED
    BY <2>5, <2>6
<1>6. CASE WrongChecksum
  <2>1. /\ UNCHANGED <<stream, taken, buffer_end, delivered>>
        /\ buffer' = buffer + SYNC_SIZE
        /\ pc = "frame" /\ mem[buffer] \notin stream.good
    BY <1>6 DEF WrongChecksum
  <2>2. Pos' = Pos + SYNC_SIZE
    BY <2>1 DEF Pos
  <2>3. \A h \in Met : h \in Met' /\ Strains(h)' = Strains(h)
    BY <2>1, <2>2, <1>0, MetGrows
  <2>4. Pos \in Met /\ Strains(Pos)
    BY <2>1, HeadIsMet, HeadUnderBuffer DEF Strains
  <2> QED
    BY <2>3, <2>4 DEF Room
<1>7. CASE Deliver
  <2>1. /\ UNCHANGED <<stream, taken, buffer_end>>
        /\ buffer' = buffer + need_size
        /\ pc = "frame" /\ pc' \in {"quit", "clean"}
        /\ mem[buffer] \in stream.good
        /\ delivered' = Append(delivered, mem[buffer])
        /\ Complete
    BY <1>7 DEF Deliver
  <2>2. /\ Pos \in Met /\ mem[buffer] = Pos
        /\ need_size = stream.need[Pos] /\ need_size \in Nat
    BY <2>1, HeadIsMet, HeadUnderBuffer
  <2>3. /\ Pos' = Pos + need_size /\ real_size' = real_size - need_size
        /\ Pos' \in Nat /\ Pos <= Pos'
    <3> DEFINE size == need_size
    <3>1. /\ size \in Nat /\ buffer' = buffer + size
          /\ taken' = taken /\ buffer_end' = buffer_end
      BY <2>1, <2>2
    <3> HIDE DEF size
    <3>2. Pos' = Pos + size /\ real_size' = real_size - size
      BY <3>1 DEF Pos, real_size
    <3>3. Pos' \in Nat /\ Pos <= Pos'
      BY <1>0, <3>1, <3>2
    <3> QED
      BY <3>2, <3>3 DEF size
  <2>4. \A h \in Met : h \in Met' /\ Strains(h)' = Strains(h)
    BY <1>0, <2>1, <2>2, <2>3, MetGrows
  <2>5. CASE strained
    BY <2>4, <2>5 DEF Room
  <2>6. CASE ~strained
    <3>1. real_size <= BUFFER_SIZE
      BY <2>1, <2>6 DEF Room
    <3>2. need_size >= READ_SIZE
      BY <2>2, <2>6 DEF Strains
    <3>3. real_size' + READ_SIZE <= BUFFER_SIZE
      BY <1>0, <2>2, <2>3, <3>1, <3>2
    <3> QED
      BY <2>1, <3>3 DEF Room
  <2> QED
    BY <2>5, <2>6
<1> QED
  BY <1>1, <1>2, <1>3, <1>4, <1>5, <1>6, <1>7 DEF Next, Step

(* However fast the bytes come, the buffer is written past its end only    *)
(* when it is full of bytes not dealt with, and only after a head taken    *)
(* back, a frame shorter than one read(), or one that claims more than     *)
(* fits beside a read(): never by a stream of good frames between those    *)
(* sizes (c/ubx_io.h:66-80, 102-119).                                      *)
THEOREM BufferOverrunHasCause == Spec => []OverrunHasCause
<1>1. IInv /\ Room => OverrunHasCause
  <2> SUFFICES ASSUME IInv, Room, pc = "overrun"
               PROVE  sent - Pos > BUFFER_SIZE /\ \E h \in Met : Strains(h)
    BY DEF OverrunHasCause
  <2>1. sent - Pos > BUFFER_SIZE
    BY DEF IInv
  <2>2. ~(real_size + READ_SIZE <= BUFFER_SIZE)
    BY Numbers DEF IInv, real_size
  <2> QED
    BY <2>1, <2>2 DEF Room
<1> QED
  BY <1>1, RoomInit, RoomStep, Invariant, FramesDeliveredInOrder, PTL DEF Spec

-----------------------------------------------------------------------------
(* What the callers see of it.                                             *)
LEMMA NextFrameFacts ==
    ASSUME OnlyFrames, IInv, AtNextFrame
    PROVE  /\ stream \in Streams /\ frames = FramesOf(stream)
           /\ Len(frames) \in Nat /\ Len(delivered) \in Nat
           /\ Len(delivered) <= Len(frames)
           /\ EndOf(stream, frames, Len(frames)) = stream.len
           /\ Pos \in Nat /\ Pos <= taken
           /\ \A i \in 0 .. Len(frames) : EndOf(stream, frames, i) \in Nat
           /\ EndOf(stream, frames, Len(delivered)) <= Pos
<1>1. stream \in Streams /\ frames = FramesOf(stream)
  BY DEF AtNextFrame, frames
<1>2. Len(delivered) \in Nat
  BY DEF IInv, TypeOK
<1>3. Pos \in Nat /\ Pos <= taken
  BY Numbers DEF IInv, Pos
<1>4. /\ Len(frames) \in Nat
      /\ EndOf(stream, frames, Len(frames)) = stream.len
      /\ \A i \in 0 .. Len(frames) : EndOf(stream, frames, i) \in Nat
  BY <1>1, ListFacts
<1> QED
  BY <1>1, <1>2, <1>3, <1>4 DEF AtNextFrame

(* The next frame, if there is one.                                        *)
LEMMA NextFrame ==
    ASSUME OnlyFrames, IInv, AtNextFrame, NEW next, next = Len(delivered) + 1,
           next <= Len(frames)
    PROVE  /\ next \in 1 .. Len(frames)
           /\ frames[next] \in Nat /\ frames[next] \in stream.good
           /\ frames[next] \in stream.heads
           /\ stream.need[frames[next]] \in Nat
           /\ stream.need[frames[next]] >= FRAME_SIZE
           /\ EndOf(stream, frames, next)
                = frames[next] + stream.need[frames[next]]
           /\ Pos <= frames[next]
           /\ \A h \in stream.heads : Pos <= h => frames[next] <= h
<1>1. next \in 1 .. Len(frames) /\ next - 1 = Len(delivered)
      /\ Len(delivered) < Len(frames)
  BY NextFrameFacts
<1>2. /\ frames[next] \in Nat /\ frames[next] \in stream.good
      /\ frames[next] \in stream.heads
      /\ stream.need[frames[next]] \in Nat
      /\ stream.need[frames[next]] >= FRAME_SIZE
      /\ EndOf(stream, frames, next)
           = frames[next] + stream.need[frames[next]]
      /\ \A h \in stream.heads :
            h < frames[next] => h < EndOf(stream, frames, next - 1)
  BY <1>1, NextFrameFacts, ListFacts
<1>3. Pos <= frames[next]
  BY <1>1 DEF AtNextFrame
<1>4. ASSUME NEW h \in stream.heads, Pos <= h PROVE frames[next] <= h
  <2>1. h \in Nat
    BY HeadFacts DEF IInv, TypeOK
  <2>2. /\ EndOf(stream, frames, Len(delivered)) \in Nat /\ Pos \in Nat
        /\ EndOf(stream, frames, Len(delivered)) <= Pos
    BY NextFrameFacts
  <2>3. ~(h < EndOf(stream, frames, next - 1))
    BY <1>1, <1>4, <2>1, <2>2
  <2> QED
    BY <1>2, <2>1, <2>3
<1> QED
  BY <1>1, <1>2, <1>3, <1>4

LEMMA InitAtNextFrame == OnlyFrames /\ Init => AtNextFrame
<1> SUFFICES ASSUME OnlyFrames, Init PROVE AtNextFrame
  OBVIOUS
<1>1. stream \in Streams /\ delivered = <<>> /\ Len(delivered) = 0
      /\ Pos = 0 /\ pc = "clean"
  BY DEF Init, Pos
<1>2. /\ Len(frames) \in Nat /\ EndOf(stream, frames, 0) = 0
      /\ \A i \in 1 .. Len(frames) : frames[i] \in Nat
  BY <1>1, ListFacts DEF frames
<1> QED
  BY <1>1, <1>2 DEF AtNextFrame

LEMMA StepAtNextFrame ==
    OnlyFrames /\ IInv /\ AtNextFrame /\ [Next]_vars => AtNextFrame'
<1> SUFFICES ASSUME OnlyFrames, IInv, AtNextFrame, [Next]_vars
             PROVE  AtNextFrame'
  OBVIOUS
<1> DEFINE next == Len(delivered) + 1
<1> USE Numbers
<1>1. CASE /\ UNCHANGED <<stream, delivered>> /\ Pos' = Pos
           /\ pc' = "frame" => pc = "frame"
  BY <1>1 DEF AtNextFrame, frames
<1>2. CASE Arrive \/ UNCHANGED vars
  <2>1. UNCHANGED <<stream, delivered, pc>> /\ Pos' = Pos
    BY <1>2 DEF Arrive, vars, Pos
  <2> QED
    BY <1>1, <2>1
<1>3. CASE Clean
  <2>1. UNCHANGED <<stream, taken, delivered>> /\ pc' = "read"
        /\ buffer_end' - buffer' = buffer_end - buffer
    BY <1>3 DEF Clean, real_size
  <2> QED
    BY <1>1, <2>1 DEF Pos
<1>4. CASE Read
  <2>1. PICK n \in 1 .. READ_SIZE : taken' = taken + n
                                    /\ buffer_end' = buffer_end + n
    BY <1>4 DEF Read
  <2>2. UNCHANGED <<stream, delivered, buffer>> /\ pc' = "scan"
    BY <1>4 DEF Read
  <2>3. Pos' = Pos
    BY <2>1, <2>2 DEF Pos
  <2> QED
    BY <1>1, <2>2, <2>3
<1>5. CASE ReadEOF \/ ReadError \/ Overrun \/ Incomplete
  <2>1. pc' \in {"scan", "panic", "overrun", "clean"}
        /\ UNCHANGED <<stream, taken, buffer, buffer_end, delivered>>
    BY <1>5 DEF ReadEOF, ReadError, Overrun, Incomplete
  <2>2. Pos' = Pos
    BY <2>1 DEF Pos
  <2> QED
    BY <1>1, <2>1, <2>2
<1>6. CASE Scan
  <2>1. PICK k \in ScanStops :
          /\ \A i \in ScanStops : k <= i
          /\ buffer' = k
          /\ pc' = IF k < buffer_end - FRAME_SIZE THEN "frame" ELSE "clean"
    BY <1>6 DEF Scan
  <2>2. UNCHANGED <<stream, taken, buffer_end, delivered>>
    BY <1>6 DEF Scan
  <2>3. k \in buffer .. buffer_end
        /\ (k < buffer_end - FRAME_SIZE => MagicAt(k))
    BY <2>1 DEF ScanStops
  <2>4. Pos \in Nat /\ Pos' = Pos + (k - buffer) /\ Pos <= Pos'
    BY <2>1, <2>2, <2>3 DEF Pos, IInv
  <2>5. \A q \in Nat : Pos <= q /\ q < Pos' => q \notin stream.heads
    BY <2>1, <2>4, ScanSkipsNoHead
  <2>6. ASSUME next <= Len(frames) PROVE Pos' <= frames[next]
    <3>1. frames[next] \in Nat /\ frames[next] \in stream.heads
          /\ Pos <= frames[next]
      BY <2>6, NextFrame
    <3>2. ~(frames[next] < Pos')
      BY <2>5, <3>1
    <3> QED
      BY <2>3, <2>4, <3>1, <3>2
  <2>7. ASSUME pc' = "frame" PROVE next <= Len(frames) /\ Pos' = frames[next]
    <3>1. k < buffer_end - FRAME_SIZE
      BY <2>1, <2>7
    <3>2. k \in Nat /\ buffer <= k /\ k < buffer_end
      BY <2>3, <3>1
    <3>3. mem[k] = Pos' /\ mem[k] \in stream.heads
      BY <2>3, <2>4, <3>1, <3>2, ByteAt DEF MagicAt
    <3>4. Pos' < taken
      BY <2>4, <3>2 DEF Pos
    <3>5. next <= Len(frames)
      <4> SUFFICES ASSUME Len(delivered) = Len(frames) PROVE FALSE
        BY NextFrameFacts
      <4>1. stream.len <= Pos
        BY NextFrameFacts
      <4> QED
        BY <2>3, <2>4, <3>4, <4>1
    <3>6. frames[next] <= Pos' /\ frames[next] \in Nat
      BY <2>4, <3>3, <3>5, NextFrame
    <3>7. Pos' <= frames[next] /\ Pos' \in Int
      BY <2>3, <2>4, <2>6, <3>5
    <3> HIDE DEF next
    <3> QED
      BY <3>5, <3>6, <3>7
  <2>8. Len(delivered) \in Nat /\ Len(frames) \in Nat
        /\ EndOf(stream, frames, Len(delivered)) \in Nat
        /\ EndOf(stream, frames, Len(delivered)) <= Pos
    BY NextFrameFacts
  <2>9. EndOf(stream, frames, Len(delivered)) <= Pos'
    BY <2>3, <2>4, <2>8
  <2> QED
    BY <2>2, <2>6, <2>7, <2>8, <2>9 DEF AtNextFrame, frames
<1>7. CASE WrongChecksum
  <2>1. pc = "frame" /\ mem[buffer] \notin stream.good
    BY <1>7 DEF WrongChecksum
  <2>2. mem[buffer] = Pos /\ next <= Len(frames) /\ Pos = frames[next]
    BY <2>1, HeadUnderBuffer, NextFrameFacts DEF AtNextFrame
  <2> QED
    BY <2>1, <2>2, NextFrame
<1>8. CASE Deliver
  <2>1. pc = "frame" /\ mem[buffer] = Pos /\ next \in Nat
        /\ next <= Len(frames) /\ Pos = frames[next]
    <3>1. pc = "frame"
      BY <1>8 DEF Deliver
    <3>2. mem[buffer] = Pos
      BY <3>1, HeadUnderBuffer
    <3>3. Len(delivered) < Len(frames) /\ Pos = frames[next]
      BY <3>1 DEF AtNextFrame
    <3> QED
      BY <3>1, <3>2, <3>3, NextFrameFacts
  <2>2. /\ delivered' = Append(delivered, Pos)
        /\ buffer' = buffer + stream.need[Pos]
        /\ pc' \in {"quit", "clean"}
        /\ UNCHANGED <<stream, taken, buffer_end>>
    BY <1>8, <2>1, HeadUnderBuffer DEF Deliver
  <2>3. Pos' = EndOf(stream, frames, next) /\ Pos' \in Nat
    <3> DEFINE size == stream.need[Pos]
    <3>1. size \in Nat /\ EndOf(stream, frames, next) = frames[next] + size
      BY <2>1, NextFrame
    <3>2. buffer' = buffer + size /\ UNCHANGED <<taken, buffer_end>>
      BY <2>2
    <3> HIDE DEF size, next
    <3>3. /\ taken \in Nat /\ buffer_end \in Nat /\ buffer \in Nat
          /\ size \in Nat
      BY <3>1, Numbers
    <3>4. taken' = taken /\ buffer_end' = buffer_end /\ buffer' = buffer + size
      BY <3>2
    <3>5. Pos' = Pos + size
      BY <3>3, <3>4 DEF Pos
    <3>6. Pos \in Nat
      BY NextFrameFacts
    <3>7. Pos' \in Nat
      BY <3>3, <3>5, <3>6
    <3>8. Pos = frames[next]
      BY <2>1
    <3> QED
      BY <3>1, <3>5, <3>7, <3>8
  <2>4. /\ Len(delivered') = next
        /\ \A i \in 1 .. next : delivered'[i] = frames[i]
    <3>1. delivered \in Seq(stream.good) /\ Pos \in stream.good
      BY <2>1, NextFrame DEF IInv, TypeOK
    <3>2. /\ Len(delivered') = next /\ delivered'[next] = Pos
          /\ \A i \in 1 .. Len(delivered) : delivered'[i] = delivered[i]
      BY <2>2, <3>1, AppendProperties
    <3>3. \A i \in 1 .. next : i = next \/ i \in 1 .. Len(delivered)
      BY <3>1
    <3> QED
      BY <2>1, <3>2, <3>3 DEF AtNextFrame
  <2>5. ASSUME next < Len(frames) PROVE Pos' <= frames[next + 1]
    <3>1. next + 1 \in 1 .. Len(frames) /\ (next + 1) - 1 = next
      BY <2>1, <2>5, NextFrameFacts
    <3>2. EndOf(stream, frames, (next + 1) - 1) <= frames[next + 1]
      BY <3>1, NextFrameFacts, ListFacts
    <3> QED
      BY <2>3, <3>1, <3>2
  <2>6. EndOf(stream, frames, next) <= Pos'
    BY <2>3
  <2>7. stream \in Streams
    BY DEF AtNextFrame
  <2> HIDE DEF next
  <2> QED
    BY <2>1, <2>2, <2>4, <2>5, <2>6, <2>7 DEF AtNextFrame, frames
<1> QED
  BY <1>2, <1>3, <1>4, <1>5, <1>6, <1>7, <1>8 DEF Next, Step

(* The frames handed over are the first ones.                              *)
Given(s, d, will) ==
    [i \in 1 .. Len(d) |-> MessageAt(s, d[i])] \o
    IF will THEN <<MessageAt(s, FramesOf(s)[Len(d) + 1])>> ELSE <<>>

LEMMA GivenIsSpan ==
    ASSUME NEW s, NEW d, Len(d) \in Nat, NEW will \in BOOLEAN,
           \A i \in 1 .. Len(d) : d[i] = FramesOf(s)[i]
    PROVE  Given(s, d, will) = Span(s, 0, IF will THEN Len(d) + 1 ELSE Len(d))
<1> DEFINE a == [i \in 1 .. Len(d) |-> MessageAt(s, d[i])]
           n == Len(d)
<1>1. a = Span(s, 0, n)
  <2>1. n - 0 = n /\ \A i \in 1 .. n : 0 + i = i
    OBVIOUS
  <2>2. \A i \in 1 .. n : MessageAt(s, d[i]) = MessageAt(s, FramesOf(s)[0 + i])
    BY <2>1
  <2> QED
    BY <2>1, <2>2 DEF Span
<1>2. /\ a \in Seq(SpanItems(s))
      /\ MessageAt(s, FramesOf(s)[n + 1]) \in SpanItems(s)
  BY <1>1, SpanFacts DEF SpanItems
<1>3. CASE will
  <2>1. Given(s, d, will) = a \o <<MessageAt(s, FramesOf(s)[n + 1])>>
    BY <1>3 DEF Given
  <2>2. a \o <<MessageAt(s, FramesOf(s)[n + 1])>>
          = Append(a, MessageAt(s, FramesOf(s)[n + 1]))
    <3> HIDE DEF a
    <3> QED
      BY <1>2
  <2>3. Append(Span(s, 0, n), MessageAt(s, FramesOf(s)[n + 1]))
          = Span(s, 0, n + 1)
    BY SpanAppend
  <2> HIDE DEF a
  <2> QED
    BY <1>1, <1>3, <2>1, <2>2, <2>3
<1>4. CASE ~will
  <2>1. Given(s, d, will) = a \o <<>>
    BY <1>4 DEF Given
  <2> HIDE DEF a
  <2>2. a \o <<>> = a
    BY <1>2, ConcatEmptySeq
  <2> QED
    BY <1>1, <1>4, <2>1, <2>2
<1> QED
  BY <1>3, <1>4

(* A turn of UbxLoop in numbers of frames: d handled and w read before it, *)
(* v read after it, b begun.                                               *)
LEMMA MovedSpans ==
    ASSUME NEW s, NEW d \in Nat, NEW w \in Nat, NEW v \in Nat, NEW b \in Nat,
           d <= w, w <= v, v <= b, NEW part
    PROVE  Port!Moved(Span(s, w, b), Span(s, d, w), v - w, part)
             = [line |-> Span(s, v, b), buf |-> Span(s, d, v), part |-> part]
<1>0. d <= v /\ w <= b
  OBVIOUS
<1>1. Len(Span(s, w, b)) = b - w
  BY <1>0, SpanFacts
<1>2. SubSeq(Span(s, w, b), (v - w) + 1, b - w) = Span(s, v, b)
      /\ SubSeq(Span(s, w, b), 1, v - w) = Span(s, w, v)
  BY SpanSplit, ZenonT(60)
<1>3. Span(s, d, w) \o Span(s, w, v) = Span(s, d, v)
  BY SpanConcat
<1> QED
  BY <1>1, <1>2, <1>3 DEF Port!Moved

LEMMA VisibleSpan ==
    ASSUME NEW s, NEW d \in Nat, NEW v \in Nat, d < v,
           NEW r, r.buf = Span(s, d, v)
    PROVE  Port!Visible(r) <=>
              \/ s.need[FramesOf(s)[d + 1]] # FRAME_SIZE
              \/ d + 1 < v \/ r.part
<1>0. d <= v
  OBVIOUS
<1>1. /\ Span(s, d, v) # <<>>
      /\ Head(Span(s, d, v)) = MessageAt(s, FramesOf(s)[d + 1])
      /\ Tail(Span(s, d, v)) = Span(s, d + 1, v)
  BY SpanHead
<1>2. Len(Span(s, d, v)) = v - d
  BY <1>0, SpanFacts
<1>3. Head(r.buf).size # "empty" <=> s.need[FramesOf(s)[d + 1]] # FRAME_SIZE
  BY <1>1 DEF MessageAt
<1>4. Len(r.buf) > 1 <=> d + 1 < v
  BY <1>2
<1>5. Port!Visible(r) <=>
        /\ r.buf # <<>>
        /\ Head(r.buf).size # "empty" \/ Len(r.buf) > 1 \/ r.part
  BY DEF Port!Visible
<1> QED
  BY <1>1, <1>3, <1>4, <1>5

LEMMA SpanMoves ==
    ASSUME NEW s, NEW d \in Nat, NEW v \in Nat, d < v
    PROVE  /\ Tail(Span(s, d, v)) = Span(s, d + 1, v)
           /\ Append(Span(s, 0, d), Head(Span(s, d, v))) = Span(s, 0, d + 1)
<1>1. Append(Span(s, 0, d), MessageAt(s, FramesOf(s)[d + 1]))
        = Span(s, 0, d + 1)
  BY SpanAppend
<1> QED
  BY <1>1, SpanHead

(* How many frames have been handed over, the one of this turn included.   *)
Turned == IF WillDeliver THEN Len(delivered) + 1 ELSE Len(delivered)

LEMMA PortFacts ==
    ASSUME OnlyFrames, IInv, AtNextFrame
    PROVE  /\ EndedIn(stream, taken) \in 0 .. Len(frames)
           /\ BegunIn(stream, sent) \in 0 .. Len(frames)
           /\ EndedIn(stream, taken) <= BegunIn(stream, sent)
           /\ Turned \in Nat /\ Turned <= EndedIn(stream, taken)
           /\ Handled = Span(stream, 0, Turned) /\ Len(Handled) = Turned
<1> DEFINE w == EndedIn(stream, taken)
           b == BegunIn(stream, sent)
<1>1. taken \in Nat /\ sent \in 0 .. stream.len /\ taken <= sent
      /\ sent \in Nat
  BY Numbers
<1>2. /\ stream \in Streams /\ frames = FramesOf(stream)
      /\ Len(frames) \in Nat /\ Len(delivered) \in Nat
      /\ Len(delivered) <= Len(frames)
      /\ Pos \in Nat /\ Pos <= taken
      /\ \A i \in 0 .. Len(frames) : EndOf(stream, frames, i) \in Nat
      /\ EndOf(stream, frames, Len(delivered)) <= Pos
  BY NextFrameFacts
<1>3. /\ w \in 0 .. Len(frames) /\ EndOf(stream, frames, w) <= taken
      /\ \A i \in 0 .. Len(frames) :
            EndOf(stream, frames, i) <= taken <=> i <= w
  BY <1>1, <1>2, EndedFacts
<1>4. /\ b \in 0 .. Len(frames)
      /\ \A i \in 0 .. Len(frames) :
            EndOf(stream, frames, i) >= sent <=> b <= i
      /\ EndOf(stream, frames, b) >= sent
  BY <1>1, <1>2, BegunFacts
<1> HIDE DEF w, b
<1>5. w <= b
  <2> SUFFICES ASSUME b < w PROVE FALSE
    BY <1>2, <1>3, <1>4
  <2>1. EndOf(stream, frames, b) < EndOf(stream, frames, w)
    BY <1>2, <1>3, <1>4, EndsIncrease
  <2> QED
    BY <1>1, <1>2, <1>3, <1>4, <2>1
<1>6. Len(delivered) <= w
  <2>1. EndOf(stream, frames, Len(delivered)) <= taken
    BY <1>1, <1>2
  <2> QED
    BY <1>2, <1>3, <2>1
<1>7. WillDeliver => Len(delivered) + 1 <= w
  <2> SUFFICES ASSUME WillDeliver PROVE Len(delivered) + 1 <= w
    OBVIOUS
  <2>1. /\ Len(delivered) + 1 <= Len(frames)
        /\ EndOf(stream, frames, Len(delivered) + 1) <= taken
    BY DEF WillDeliver
  <2> QED
    BY <1>2, <1>3, <2>1
<1>8. Turned \in Nat /\ Turned <= w
  BY <1>2, <1>6, <1>7 DEF Turned
<1>9. Handled = Span(stream, 0, Turned)
  <2>1. \A i \in 1 .. Len(delivered) : delivered[i] = FramesOf(stream)[i]
    BY <1>2 DEF AtNextFrame
  <2>2. WillDeliver \in BOOLEAN
    BY DEF WillDeliver
  <2>3. Given(stream, delivered, WillDeliver) = Span(stream, 0, Turned)
    BY <1>2, <2>1, <2>2, GivenIsSpan DEF Turned
  <2> QED
    BY <2>3 DEF Handled, Given, frames
<1>10. Len(Handled) = Turned
  <2>1. 0 <= Turned /\ Turned - 0 = Turned
    BY <1>8
  <2> QED
    BY <1>8, <1>9, <2>1, SpanFacts
<1> QED
  BY <1>3, <1>4, <1>5, <1>8, <1>9, <1>10 DEF w, b

(* A turn of the loop after a read() that has brought the bytes up to t,   *)
(* or none.                                                                *)
LEMMA TurnIsTurn ==
    ASSUME OnlyFrames, IInv, AtNextFrame, AtNextFrame', IInv',
           pc = "read", pc' = "scan", taken' >= taken,
           UNCHANGED <<stream, sent, delivered>>,
           NEW w, w = EndedIn(stream, taken),
           NEW v, v = EndedIn(stream, taken'),
           NEW part, part = (taken' > EndOf(stream, frames, v))
    PROVE  /\ v \in Nat /\ w <= v /\ v <= BegunIn(stream, sent)
           /\ Port!Turn(Port!Moved(Line, Buf, v - w, part))
<1> DEFINE b == BegunIn(stream, sent)
           d == Len(delivered)
           next == d + 1
           r == Port!Moved(Line, Buf, v - w, part)
           need == stream.need[frames[next]]
<1>0. taken \in Nat /\ taken' \in Nat /\ taken' <= sent /\ sent \in Nat
      /\ FRAME_SIZE \in Nat /\ sent \in 0 .. stream.len
  <2>1. taken \in Nat /\ sent \in Nat /\ FRAME_SIZE \in Nat
        /\ sent \in 0 .. stream.len
    BY Numbers
  <2>2. taken' \in Nat /\ taken' <= sent'
    BY Numbers DEF IInv, TypeOK, IsStream
  <2> QED
    BY <2>1, <2>2
<1>1. /\ stream \in Streams /\ frames = FramesOf(stream)
      /\ Len(frames) \in Nat /\ d \in Nat /\ d <= Len(frames)
      /\ \A i \in 0 .. Len(frames) : EndOf(stream, frames, i) \in Nat
  BY NextFrameFacts
<1>2. frames' = frames
  BY DEF frames
<1>3. /\ v \in 0 .. Len(frames) /\ EndOf(stream, frames, v) <= taken'
      /\ \A i \in 0 .. Len(frames) :
            EndOf(stream, frames, i) <= taken' <=> i <= v
  BY <1>0, <1>1, EndedFacts
<1>4. /\ w \in 0 .. Len(frames) /\ EndOf(stream, frames, w) <= taken
      /\ b \in 0 .. Len(frames) /\ w <= b
      /\ Turned = d /\ d <= w /\ Handled = Span(stream, 0, d)
      /\ Len(Handled) = d
  <2>1. ~WillDeliver
    BY DEF WillDeliver
  <2>2. EndOf(stream, frames, w) <= taken
    BY <1>0, <1>1, EndedFacts
  <2> QED
    BY <2>1, <2>2, PortFacts DEF Turned
<1>5. w <= v
  BY <1>0, <1>1, <1>3, <1>4
<1>6. v <= b
  <2>1. EndOf(stream, frames, b) >= sent
    BY <1>0, <1>1, BegunFacts
  <2> HIDE DEF b
  <2> SUFFICES ASSUME b < v PROVE FALSE
    BY <1>1, <1>3, <1>4
  <2>2. EndOf(stream, frames, b) < EndOf(stream, frames, v)
    BY <1>1, <1>3, <1>4, EndsIncrease
  <2> QED
    BY <1>0, <1>1, <1>3, <1>4, <2>1, <2>2
<1>7. part \in BOOLEAN
  OBVIOUS
<1>8. Line = Span(stream, w, b) /\ Buf = Span(stream, d, w)
  BY <1>4 DEF Line, Buf
<1>9. Line' = Span(stream, v, b)
  BY DEF Line
<1>10. Coming' = Coming
  BY <1>2 DEF Coming
<1>11. /\ r.line = Span(stream, v, b) /\ r.buf = Span(stream, d, v)
       /\ Port!Visible(r) <=> d < v /\ (need # FRAME_SIZE \/ d + 1 < v \/ part)
       /\ d < v => /\ Tail(r.buf) = Span(stream, d + 1, v)
                   /\ Append(Span(stream, 0, d), Head(r.buf))
                        = Span(stream, 0, d + 1)
  <2>1. w \in Nat /\ v \in Nat /\ b \in Nat
    BY <1>1, <1>3, <1>4
  <2>2. r = Port!Moved(Span(stream, w, b), Span(stream, d, w), v - w, part)
    BY <1>8
  <2>3. d \in Nat /\ d <= w /\ d <= v /\ w <= v /\ v <= b
    BY <1>1, <1>3, <1>4, <1>5, <1>6
  <2>4. need = stream.need[FramesOf(stream)[d + 1]]
    BY <1>1
  <2> HIDE DEF b, d, r, next, need
  <2>5. r = [line |-> Span(stream, v, b), buf |-> Span(stream, d, v),
             part |-> part]
    BY <2>1, <2>2, <2>3, MovedSpans
  <2>6. r.line = Span(stream, v, b) /\ r.buf = Span(stream, d, v)
        /\ r.part = part
    BY <2>5
  <2>7. CASE d < v
    <3>1. /\ Port!Visible(r) <=>
                need # FRAME_SIZE \/ d + 1 < v \/ r.part
          /\ Tail(r.buf) = Span(stream, d + 1, v)
          /\ Append(Span(stream, 0, d), Head(r.buf)) = Span(stream, 0, d + 1)
      <4>1. d \in Nat /\ v \in Nat /\ r.buf = Span(stream, d, v)
        BY <2>1, <2>3, <2>6
      <4>2. Port!Visible(r) <=>
               \/ stream.need[FramesOf(stream)[d + 1]] # FRAME_SIZE
               \/ d + 1 < v \/ r.part
        BY <2>7, <4>1, VisibleSpan, ZenonT(60)
      <4>3. Tail(Span(stream, d, v)) = Span(stream, d + 1, v)
            /\ Append(Span(stream, 0, d), Head(Span(stream, d, v)))
                 = Span(stream, 0, d + 1)
        BY <2>7, <4>1, SpanMoves, ZenonT(60)
      <4> QED
        BY <2>4, <4>1, <4>2, <4>3
    <3> QED
      BY <2>6, <2>7, <3>1
  <2>8. CASE ~(d < v)
    <3>1. v = d
      BY <2>1, <2>3, <2>8
    <3>2. Span(stream, d, v) = <<>>
      BY <2>3, <3>1, SpanEmpty
    <3> QED
      BY <2>6, <2>8, <3>2 DEF Port!Visible
  <2> QED
    BY <2>7, <2>8
<1>12. WillDeliver' <=> next <= Len(frames) /\ EndOf(stream, frames, next) <= taken'
                        /\ frames[next] + FRAME_SIZE < taken'
  BY <1>2 DEF WillDeliver
<1>13. WillDeliver' <=> Port!Visible(r)
  <2>1. CASE next <= Len(frames)
    <3>1. /\ next \in 1 .. Len(frames) /\ next \in 0 .. Len(frames)
          /\ frames[next] \in Nat /\ need \in Nat /\ need >= FRAME_SIZE
          /\ EndOf(stream, frames, next) = frames[next] + need
      BY <1>1, <2>1, NextFrame
    <3>2. EndOf(stream, frames, next) <= taken' <=> next <= v
      BY <1>3, <3>1
    <3>3. EndOf(stream, frames, v) \in Nat
      BY <1>1, <1>3
    <3>4. next < v => EndOf(stream, frames, next) < EndOf(stream, frames, v)
      BY <1>1, <1>3, <3>1, EndsIncrease
    <3>5. next <= v <=> next < v \/ next = v
      BY <1>1, <1>3
    <3>6. (d < v <=> next <= v) /\ (d + 1 < v <=> next < v)
      BY <1>1, <1>3
    <3>7. Port!Visible(r) <=> next <= v /\ (need # FRAME_SIZE \/ next < v \/ part)
      BY <1>11, <3>6
    <3>8. part <=> taken' > EndOf(stream, frames, v)
      OBVIOUS
    <3>9. EndOf(stream, frames, v) <= taken'
      BY <1>3
    <3>10. WillDeliver' <=> next <= v /\ frames[next] + FRAME_SIZE < taken'
      BY <1>12, <2>1, <3>2
    <3> HIDE DEF need, next, r
    <3>11. ASSUME next <= v
           PROVE  frames[next] + FRAME_SIZE < taken'
                    <=> need # FRAME_SIZE \/ next < v \/ part
      BY <1>0, <3>1, <3>2, <3>3, <3>4, <3>5, <3>8, <3>9, <3>11
    <3> QED
      BY <3>7, <3>10, <3>11
  <2>2. CASE ~(next <= Len(frames))
    <3>1. ~(d < v)
      BY <1>1, <1>3, <2>2
    <3> QED
      BY <1>11, <1>12, <2>2, <3>1
  <2> QED
    BY <2>1, <2>2
<1>14. Handled' = Span(stream, 0, IF WillDeliver' THEN next ELSE d)
       /\ Len(Handled') = IF WillDeliver' THEN next ELSE d
  <2>1. \A i \in 1 .. d : delivered[i] = FramesOf(stream)[i]
    BY <1>1 DEF AtNextFrame
  <2>2. WillDeliver' \in BOOLEAN
    BY <1>12
  <2>3. Given(stream, delivered, WillDeliver')
          = Span(stream, 0, IF WillDeliver' THEN next ELSE d)
    BY <1>1, <2>1, <2>2, GivenIsSpan
  <2>4. Handled' = Given(stream, delivered, WillDeliver')
    BY <1>2 DEF Handled, Given, frames
  <2>5. /\ d \in Nat /\ next \in Nat /\ d - 0 = d /\ next - 0 = next
        /\ 0 <= d /\ 0 <= next
    BY <1>1
  <2>6. Len(Span(stream, 0, d)) = d /\ Len(Span(stream, 0, next)) = next
    <3> HIDE DEF d, next
    <3>1. Len(Span(stream, 0, d)) = d - 0
      BY <2>5, SpanFacts
    <3>2. Len(Span(stream, 0, next)) = next - 0
      BY <2>5, SpanFacts
    <3> QED
      BY <2>5, <3>1, <3>2
  <2> QED
    BY <2>3, <2>4, <2>6
<1>15. Buf' = Span(stream, IF WillDeliver' THEN next ELSE d, v)
  BY <1>14 DEF Buf
<1>16. Port!Turn(r)
  <2>1. CASE WillDeliver'
    BY <1>4, <1>9, <1>10, <1>11, <1>13, <1>14, <1>15, <2>1 DEF Port!Turn
  <2>2. CASE ~WillDeliver'
    BY <1>4, <1>9, <1>10, <1>11, <1>13, <1>14, <1>15, <2>2 DEF Port!Turn
  <2> QED
    BY <2>1, <2>2
<1> QED
  BY <1>1, <1>3, <1>5, <1>6, <1>16

(* What leaves the bytes and the frames handed over alone is no step to    *)
(* the callers.                                                            *)
LEMMA NoTurn ==
    ASSUME UNCHANGED <<stream, sent, taken, delivered>>,
           WillDeliver' <=> WillDeliver
    PROVE  UNCHANGED Port!port
<1>1. frames' = frames
  BY DEF frames
<1>2. Handled' = Handled
  BY <1>1 DEF Handled
<1>3. Coming' = Coming /\ Line' = Line /\ Buf' = Buf
  BY <1>1, <1>2 DEF Coming, Line, Buf
<1> QED
  BY <1>2, <1>3 DEF Port!port

(* Only a read() is one, and the first byte of a frame: not the cleaning,  *)
(* the scan, or the handing over of what the read() has made visible.      *)
LEMMA ScanIsNoTurn ==
    ASSUME OnlyFrames, IInv, AtNextFrame, AtNextFrame', Scan
    PROVE  UNCHANGED Port!port
<1> USE Numbers
<1>1. PICK k \in ScanStops :
        /\ buffer' = k
        /\ pc' = IF k < buffer_end - FRAME_SIZE THEN "frame" ELSE "clean"
  BY DEF Scan
<1>2. UNCHANGED <<stream, sent, taken, buffer_end, delivered>>
      /\ pc = "scan" /\ frames' = frames
  BY DEF Scan, frames
<1>3. CASE k < buffer_end - FRAME_SIZE
  <2>1. pc' = "frame"
    BY <1>1, <1>3
  <2>2. WillDeliver' <=> WillDeliver
    BY <1>2, <2>1 DEF WillDeliver
  <2> QED
    BY <1>2, <2>2, NoTurn
<1>4. CASE ~(k < buffer_end - FRAME_SIZE)
  <2>1. pc' = "clean"
    BY <1>1, <1>4
  <2>2. ~WillDeliver'
    BY <2>1 DEF WillDeliver
  <2> DEFINE next == Len(delivered) + 1
  <2>3. ASSUME next <= Len(frames)
        PROVE  ~(frames[next] + FRAME_SIZE < taken)
    <3>1. frames[next] \in Nat
      BY <2>3, NextFrame
    <3>2. k \in Nat /\ k <= buffer_end /\ Pos' = taken - (buffer_end - k)
      BY <1>1, <1>2 DEF ScanStops, Pos
    <3>3. Len(delivered) < Len(frames)
      BY <2>3, NextFrameFacts
    <3>4. Pos' <= frames[next]
      BY <1>2, <3>3 DEF AtNextFrame
    <3> HIDE DEF next
    <3> QED
      BY <1>4, <3>1, <3>2, <3>4
  <2>4. ~WillDeliver
    BY <2>3 DEF WillDeliver
  <2> QED
    BY <1>2, <2>2, <2>4, NoTurn
<1> QED
  BY <1>3, <1>4

LEMMA IncompleteIsNoTurn ==
    ASSUME OnlyFrames, IInv, AtNextFrame, Incomplete
    PROVE  UNCHANGED Port!port
<1> DEFINE next == Len(delivered) + 1
<1>1. /\ pc = "frame" /\ ~Complete /\ pc' = "clean"
      /\ UNCHANGED <<stream, sent, taken, delivered>>
  BY DEF Incomplete
<1>2. next <= Len(frames) /\ Pos = frames[next]
  BY <1>1, NextFrameFacts DEF AtNextFrame
<1>3. /\ frames[next] \in Nat /\ stream.need[frames[next]] \in Nat
      /\ EndOf(stream, frames, next)
           = frames[next] + stream.need[frames[next]]
  BY <1>2, NextFrame
<1>4. ~(buffer_end - buffer >= stream.need[frames[next]])
  BY <1>1, <1>2, HeadUnderBuffer DEF Complete
<1> HIDE DEF next
<1>5. ~(EndOf(stream, frames, next) <= taken)
  BY <1>2, <1>3, <1>4, Numbers DEF Pos
<1>6. ~WillDeliver /\ ~WillDeliver'
  BY <1>1, <1>5 DEF WillDeliver, next
<1> QED
  BY <1>1, <1>6, NoTurn

LEMMA DeliverIsNoTurn ==
    ASSUME OnlyFrames, IInv, AtNextFrame, IInv', AtNextFrame', Deliver
    PROVE  UNCHANGED Port!port
<1> DEFINE next == Len(delivered) + 1
<1>1. /\ pc = "frame" /\ Complete /\ pc' \in {"quit", "clean"}
      /\ delivered' = Append(delivered, mem[buffer])
      /\ UNCHANGED <<stream, sent, taken>>
  BY DEF Deliver
<1>2. next <= Len(frames) /\ Pos = frames[next]
  BY <1>1, NextFrameFacts DEF AtNextFrame
<1>3. /\ frames[next] \in Nat /\ stream.need[frames[next]] \in Nat
      /\ EndOf(stream, frames, next)
           = frames[next] + stream.need[frames[next]]
  BY <1>2, NextFrame
<1>4. /\ buffer_end - buffer >= stream.need[frames[next]]
      /\ buffer < buffer_end - FRAME_SIZE
  BY <1>1, <1>2, HeadUnderBuffer DEF Complete, IInv
<1>5. WillDeliver
  <2> HIDE DEF next
  <2> DEFINE left == buffer_end - buffer
  <2>1. /\ left \in Int /\ taken \in Int /\ FRAME_SIZE \in Int
        /\ frames[next] = taken - left
    BY <1>2, Numbers DEF Pos
  <2>2. left >= stream.need[frames[next]] /\ left > FRAME_SIZE
    BY <1>4, Numbers
  <2> HIDE DEF left
  <2>3. EndOf(stream, frames, next) <= taken
    BY <1>3, <2>1, <2>2
  <2>4. frames[next] + FRAME_SIZE < taken
    BY <1>3, <2>1, <2>2
  <2> QED
    BY <1>1, <1>2, <2>3, <2>4 DEF WillDeliver, next
<1>6. ~WillDeliver'
  BY <1>1 DEF WillDeliver
<1>7. Handled = Span(stream, 0, next)
  BY <1>5, PortFacts DEF Turned
<1>8. Len(delivered') = next /\ next \in Nat
  <2>1. delivered \in Seq(stream.good) /\ mem[buffer] \in stream.good
    BY DEF IInv, TypeOK, Deliver
  <2> QED
    BY <1>1, <2>1, AppendProperties
<1>9. Handled' = Span(stream, 0, next)
  <2>1. \A i \in 1 .. Len(delivered') : delivered'[i] = FramesOf(stream)[i]
    BY <1>1 DEF AtNextFrame, frames
  <2>2. Given(stream, delivered', FALSE) = Span(stream, 0, Len(delivered'))
    BY <1>8, <2>1, GivenIsSpan
  <2>3. Handled' = Given(stream, delivered', FALSE)
    BY <1>1, <1>6 DEF Handled, Given
  <2> QED
    BY <1>8, <2>2, <2>3
<1>10. Coming' = Coming /\ Line' = Line /\ Buf' = Buf
  BY <1>1, <1>7, <1>9 DEF Coming, Line, Buf, frames
<1> QED
  BY <1>7, <1>9, <1>10 DEF Port!port

LEMMA ArriveIsArrive ==
    ASSUME OnlyFrames, IInv, AtNextFrame, IInv', Arrive
    PROVE  UNCHANGED Port!port \/ Port!LoopArrive
<1> DEFINE b == BegunIn(stream, sent)
           c == BegunIn(stream, sent + 1)
           w == EndedIn(stream, taken)
<1>1. /\ sent' = sent + 1 /\ UNCHANGED <<stream, taken, delivered, pc>>
      /\ frames' = frames /\ sent < stream.len
  BY DEF Arrive, frames
<1>2. Handled' = Handled
  <2>1. WillDeliver' <=> WillDeliver
    BY <1>1 DEF WillDeliver
  <2> QED
    BY <1>1, <2>1 DEF Handled
<1>3. Buf' = Buf /\ Line' = Span(stream, w, c)
      /\ Coming' = Span(stream, c, Len(frames))
  BY <1>1, <1>2 DEF Buf, Line, Coming
<1>4. /\ stream \in Streams /\ frames = FramesOf(stream)
      /\ Len(frames) \in Nat
      /\ \A i \in 0 .. Len(frames) : EndOf(stream, frames, i) \in Nat
  BY NextFrameFacts
<1>5. sent \in Nat /\ sent \in 0 .. stream.len /\ sent + 1 \in 0 .. stream.len
  BY <1>1, Numbers
<1>6. /\ b \in 0 .. Len(frames) /\ EndOf(stream, frames, b) >= sent
      /\ \A i \in 0 .. Len(frames) : EndOf(stream, frames, i) >= sent <=> b <= i
  BY <1>4, <1>5, BegunFacts
<1>7. /\ c \in 0 .. Len(frames) /\ EndOf(stream, frames, c) >= sent + 1
      /\ \A i \in 0 .. Len(frames) :
            EndOf(stream, frames, i) >= sent + 1 <=> c <= i
  BY <1>4, <1>5, BegunFacts
<1>8. w \in 0 .. Len(frames) /\ w <= b
  BY PortFacts
<1>9. Line = Span(stream, w, b) /\ Coming = Span(stream, b, Len(frames))
  BY DEF Line, Coming
<1> HIDE DEF b, c, w
<1>10. b <= c
  BY <1>4, <1>5, <1>6, <1>7
<1>11. CASE c = b
  BY <1>2, <1>3, <1>9, <1>11 DEF Port!port
<1>12. CASE c # b
  <2>1. b + 1 \in 0 .. Len(frames) /\ b < Len(frames) /\ b \in Nat /\ w \in Nat
    BY <1>4, <1>6, <1>7, <1>8, <1>10, <1>12
  <2>2. EndOf(stream, frames, b) < EndOf(stream, frames, b + 1)
    BY <1>4, <1>6, <2>1, EndsIncrease
  <2>3. EndOf(stream, frames, b + 1) >= sent + 1
    BY <1>4, <1>5, <1>6, <2>1, <2>2
  <2>4. c = b + 1
    BY <1>6, <1>7, <1>10, <1>12, <2>1, <2>3
  <2>5. /\ Coming # <<>> /\ Tail(Coming) = Span(stream, c, Len(frames))
        /\ Head(Coming) = MessageAt(stream, FramesOf(stream)[b + 1])
    BY <1>4, <1>9, <2>1, <2>4, SpanHead
  <2>6. Append(Span(stream, w, b), MessageAt(stream, FramesOf(stream)[b + 1]))
          = Span(stream, w, b + 1)
    BY <1>8, <2>1, SpanAppend
  <2> QED
    BY <1>2, <1>3, <1>9, <2>4, <2>5, <2>6 DEF Port!LoopArrive
<1> QED
  BY <1>11, <1>12

LEMMA ReadIsRead ==
    ASSUME OnlyFrames, IInv, AtNextFrame, IInv', AtNextFrame', Read
    PROVE  Port!LoopRead
<1> DEFINE w == EndedIn(stream, taken)
           v == EndedIn(stream, taken')
           b == BegunIn(stream, sent)
           part == taken' > EndOf(stream, frames, v)
           brought == 1 + (READ_SIZE - 1) \div FRAME_SIZE
<1>1. PICK n \in 1 .. READ_SIZE : n <= sent - taken /\ taken' = taken + n
  BY DEF Read
<1>2. /\ pc = "read" /\ pc' = "scan"
      /\ UNCHANGED <<stream, sent, delivered>> /\ frames' = frames
  BY DEF Read, frames
<1>3. /\ taken \in Nat /\ sent \in Nat /\ taken' \in Nat /\ taken < taken'
      /\ taken' <= sent /\ FRAME_SIZE \in Nat /\ FRAME_SIZE >= 2
      /\ READ_SIZE \in Nat /\ sent \in 0 .. stream.len
  BY <1>1, Numbers
<1>4. v \in Nat /\ w <= v /\ v <= b
      /\ Port!Turn(Port!Moved(Line, Buf, v - w, part))
  BY <1>2, <1>3, TurnIsTurn
<1>5. /\ stream \in Streams /\ frames = FramesOf(stream)
      /\ Len(frames) \in Nat
      /\ \A i \in 0 .. Len(frames) : EndOf(stream, frames, i) \in Nat
  BY NextFrameFacts
<1>6. /\ v \in 0 .. Len(frames) /\ EndOf(stream, frames, v) <= taken'
  BY <1>3, <1>5, EndedFacts
<1>7. /\ w \in 0 .. Len(frames)
      /\ \A i \in 0 .. Len(frames) :
            EndOf(stream, frames, i) <= taken <=> i <= w
  BY <1>3, <1>5, EndedFacts
<1>8. /\ b \in 0 .. Len(frames)
      /\ \A i \in 0 .. Len(frames) :
            EndOf(stream, frames, i) >= sent <=> b <= i
  BY <1>3, <1>5, BegunFacts
<1> HIDE DEF w, v, b
<1>9. Len(Line) = b - w
  <2>1. Line = Span(stream, w, b)
    BY DEF Line, w, b
  <2> QED
    <3>1. w \in Nat /\ b \in Nat /\ w <= b
      BY <1>4, <1>5, <1>7, <1>8
    <3> QED
      BY <2>1, <3>1, SpanFacts
<1>10. v - w <= brought
  <2>1. CASE v = w
    <3>1. READ_SIZE - 1 \in Nat
      BY <1>1, <1>3
    <3>2. (READ_SIZE - 1) \div FRAME_SIZE \in Nat
      BY <1>3, <3>1
    <3> QED
      BY <1>7, <2>1, <3>2
  <2>2. CASE v # w
    <3>1. /\ w + 1 \in 0 .. Len(frames) /\ v \in (w + 1) .. Len(frames)
          /\ v - (w + 1) \in Nat
      BY <1>4, <1>5, <1>6, <1>7, <2>2
    <3>2. EndOf(stream, frames, v)
            >= EndOf(stream, frames, w + 1) + FRAME_SIZE * (v - (w + 1))
      BY <1>5, <3>1, Spacing
    <3>3. EndOf(stream, frames, w + 1) > taken
      BY <1>3, <1>5, <1>7, <3>1
    <3> DEFINE m == v - (w + 1)
    <3>4. FRAME_SIZE * m <= READ_SIZE - 1
      <4>1. m \in Nat /\ FRAME_SIZE * m \in Nat
        BY <1>3, <3>1
      <4> DEFINE span == FRAME_SIZE * m
      <4>2. span \in Nat
            /\ EndOf(stream, frames, v) >= EndOf(stream, frames, w + 1) + span
        BY <3>2, <4>1
      <4>3. /\ EndOf(stream, frames, v) \in Nat
            /\ EndOf(stream, frames, w + 1) \in Nat
        BY <1>5, <1>6, <3>1
      <4> HIDE DEF span
      <4>4. span <= READ_SIZE - 1
        BY <1>1, <1>3, <1>6, <3>3, <4>2, <4>3
      <4> QED
        BY <4>4 DEF span
    <3>5. m <= (READ_SIZE - 1) \div FRAME_SIZE
      <4>1. m \in Nat /\ READ_SIZE - 1 \in Int
        BY <1>3, <3>1
      <4> HIDE DEF m
      <4> QED
        BY <1>3, <3>4, <4>1
    <3> QED
      BY <1>3, <1>4, <1>7, <3>5
  <2> QED
    BY <2>1, <2>2
<1>11. v - w \in 0 .. Len(Line) /\ v - w <= brought
  BY <1>4, <1>6, <1>7, <1>8, <1>9, <1>10
<1>12. CASE part
  <2>1. v # b
    <3> SUFFICES ASSUME v = b PROVE FALSE
      OBVIOUS
    <3>1. EndOf(stream, frames, v) >= sent
      BY <1>8
    <3> QED
      BY <1>3, <1>5, <1>6, <1>12, <3>1
  <2>2. v - w # Len(Line)
    BY <1>4, <1>6, <1>7, <1>8, <1>9, <2>1
  <2>3. part = TRUE
    BY <1>12
  <2> HIDE DEF part, brought
  <2>4. Port!Moved(Line, Buf, v - w, TRUE) \in Port!ReadResults(Line, Buf)
    BY <1>11, <2>2 DEF Port!ReadResults, brought
  <2>5. Line # <<>>
    BY <1>4, <1>6, <1>7, <1>8, <1>9, <2>1
  <2> QED
    BY <1>4, <2>3, <2>4, <2>5 DEF Port!LoopRead
<1>13. CASE ~part
  <2>1. v # w
    <3> SUFFICES ASSUME v = w PROVE FALSE
      OBVIOUS
    <3>1. EndOf(stream, frames, v) <= taken
      BY <1>6, <1>7
    <3> QED
      BY <1>3, <1>5, <1>6, <1>13, <3>1
  <2>2. v - w # 0
    BY <1>6, <1>7, <2>1
  <2>3. part = FALSE
    BY <1>13
  <2> HIDE DEF part, brought
  <2>4. Port!Moved(Line, Buf, v - w, FALSE) \in Port!ReadResults(Line, Buf)
    BY <1>11, <2>2 DEF Port!ReadResults, brought
  <2>5. Line # <<>>
    BY <1>4, <1>6, <1>7, <1>8, <1>9, <2>1
  <2> QED
    BY <1>4, <2>3, <2>4, <2>5 DEF Port!LoopRead
<1> QED
  BY <1>12, <1>13

LEMMA ReadEOFIsReadEOF ==
    ASSUME OnlyFrames, IInv, AtNextFrame, IInv', AtNextFrame', ReadEOF
    PROVE  Port!LoopReadEOF
<1> DEFINE w == EndedIn(stream, taken)
           v == EndedIn(stream, taken')
           b == BegunIn(stream, sent)
           part == taken' > EndOf(stream, frames, v)
<1>1. /\ pc = "read" /\ pc' = "scan" /\ taken = stream.len /\ taken' = taken
      /\ UNCHANGED <<stream, sent, delivered>>
  BY DEF ReadEOF
<1>2. taken \in Nat /\ sent = taken /\ sent \in 0 .. stream.len
  BY <1>1, Numbers
<1>3. v \in Nat /\ w <= v /\ v <= b
      /\ Port!Turn(Port!Moved(Line, Buf, v - w, part))
  BY <1>1, <1>2, TurnIsTurn
<1>4. /\ stream \in Streams /\ frames = FramesOf(stream)
      /\ Len(frames) \in Nat
      /\ EndOf(stream, frames, Len(frames)) = stream.len
  BY NextFrameFacts
<1>5. w = Len(frames)
  <2>1. /\ w \in 0 .. Len(frames)
        /\ \A i \in 0 .. Len(frames) : EndOf(stream, frames, i) <= taken <=> i <= w
    BY <1>2, <1>4, EndedFacts
  <2> HIDE DEF w
  <2> QED
    BY <1>1, <1>2, <1>4, <2>1
<1>6. b = Len(frames)
  <2>1. b \in 0 .. Len(frames) /\ w <= b
    BY PortFacts
  <2> HIDE DEF w, b
  <2> QED
    BY <1>4, <1>5, <2>1
<1>7. v = w
  BY <1>1
<1>8. Line = <<>> /\ Coming = <<>>
  <2>1. Line = Span(stream, w, b) /\ Coming = Span(stream, b, Len(frames))
    BY DEF Line, Coming
  <2> HIDE DEF w, b
  <2> QED
    BY <1>4, <1>5, <1>6, <2>1, SpanEmpty
<1>9. part = FALSE /\ v - w = 0
  <2>1. EndOf(stream, frames, v) = taken'
    BY <1>1, <1>4, <1>5, <1>7
  <2>2. w \in Nat
    BY <1>4, <1>5
  <2> HIDE DEF v, w
  <2> QED
    BY <1>1, <1>2, <1>7, <2>1, <2>2
<1> HIDE DEF v, w, b, part
<1> QED
  BY <1>3, <1>8, <1>9 DEF Port!LoopReadEOF

LEMMA InitImplementsPort == OnlyFrames /\ Init => Port!LoopInit
<1> SUFFICES ASSUME OnlyFrames, Init PROVE Port!LoopInit
  OBVIOUS
<1> DEFINE w == EndedIn(stream, taken)
           b == BegunIn(stream, sent)
<1>1. IInv /\ AtNextFrame
  BY IInvInit, InitAtNextFrame
<1>2. /\ taken = 0 /\ Len(delivered) = 0 /\ pc = "clean"
      /\ (sent = 0 \/ sent = stream.len) /\ sent \in 0 .. stream.len
  BY <1>1, Numbers DEF Init
<1>3. ~WillDeliver
  BY <1>2 DEF WillDeliver
<1>4. /\ stream \in Streams /\ frames = FramesOf(stream)
      /\ Len(frames) \in Nat
      /\ \A i \in 0 .. Len(frames) : EndOf(stream, frames, i) \in Nat
      /\ EndOf(stream, frames, Len(frames)) = stream.len
      /\ EndOf(stream, frames, 0) = 0
  BY <1>1, NextFrameFacts, ListFacts
<1>5. w = 0
  <2>1. w \in 0 .. Len(frames) /\ EndOf(stream, frames, w) <= 0
    BY <1>2, <1>4, EndedFacts
  <2> HIDE DEF w
  <2> SUFFICES ASSUME 0 < w PROVE FALSE
    BY <1>4, <2>1
  <2>2. EndOf(stream, frames, 0) < EndOf(stream, frames, w)
    BY <1>4, <2>1, EndsIncrease
  <2> QED
    BY <1>4, <2>1, <2>2
<1>6. /\ b \in 0 .. Len(frames)
      /\ \A i \in 0 .. Len(frames) : EndOf(stream, frames, i) >= sent <=> b <= i
      /\ EndOf(stream, frames, b) >= sent
  BY <1>2, <1>4, BegunFacts
<1>7. Handled = <<>> /\ Len(Handled) = 0
  <2>1. Turned = 0
    BY <1>2, <1>3 DEF Turned
  <2>2. Handled = Span(stream, 0, 0) /\ Len(Handled) = 0
    BY <1>1, <2>1, PortFacts
  <2> QED
    BY <2>2, SpanEmpty
<1>8. /\ Line = Span(stream, w, b) /\ Coming = Span(stream, b, Len(frames))
      /\ Buf = Span(stream, 0, w)
  BY <1>7 DEF Line, Coming, Buf
<1> HIDE DEF w, b
<1>9. Buf = <<>>
  BY <1>5, <1>8, SpanEmpty
<1>10. CASE sent = 0
  <2>1. b = 0
    BY <1>4, <1>6, <1>10
  <2> QED
    BY <1>5, <1>7, <1>8, <1>9, <2>1, SpanEmpty DEF Port!LoopInit
<1>11. CASE sent = stream.len
  <2>1. b = Len(frames)
    <3> SUFFICES ASSUME b < Len(frames) PROVE FALSE
      BY <1>4, <1>6
    <3>1. EndOf(stream, frames, b) < EndOf(stream, frames, Len(frames))
      BY <1>4, <1>6, EndsIncrease
    <3> QED
      BY <1>2, <1>4, <1>6, <1>11, <3>1
  <2> QED
    BY <1>4, <1>7, <1>8, <1>9, <2>1, SpanEmpty DEF Port!LoopInit
<1> QED
  BY <1>2, <1>10, <1>11

LEMMA StepImplementsPort ==
    OnlyFrames /\ IInv /\ AtNextFrame /\ IInv' /\ AtNextFrame' /\ [Next]_vars
        => [Port!LoopNext]_(Port!port)
<1> SUFFICES ASSUME OnlyFrames, IInv, AtNextFrame, IInv', AtNextFrame',
                    [Next]_vars
             PROVE  Port!LoopNext \/ UNCHANGED Port!port
  OBVIOUS
<1>1. CASE Clean \/ Overrun \/ ReadError
  <2>1. /\ UNCHANGED <<stream, sent, taken, delivered>>
        /\ pc \in {"clean", "read"} /\ pc' \in {"read", "overrun", "panic"}
    BY <1>1 DEF Clean, Overrun, ReadError
  <2>2. ~WillDeliver /\ ~WillDeliver'
    BY <2>1 DEF WillDeliver
  <2> QED
    BY <2>1, <2>2, NoTurn
<1>2. CASE UNCHANGED vars
  <2>1. UNCHANGED <<stream, sent, taken, delivered, pc>>
    BY <1>2 DEF vars
  <2>2. WillDeliver' <=> WillDeliver
    BY <2>1 DEF WillDeliver, frames
  <2> QED
    BY <2>1, <2>2, NoTurn
<1>3. CASE Read
  BY <1>3, ReadIsRead DEF Port!LoopNext
<1>4. CASE ReadEOF
  BY <1>4, ReadEOFIsReadEOF DEF Port!LoopNext
<1>5. CASE Scan
  BY <1>5, ScanIsNoTurn
<1>6. CASE Incomplete
  BY <1>6, IncompleteIsNoTurn
<1>7. CASE WrongChecksum
  <2>1. pc = "frame" /\ mem[buffer] \notin stream.good
    BY <1>7 DEF WrongChecksum
  <2>2. mem[buffer] = Pos /\ Len(delivered) + 1 <= Len(frames)
        /\ Pos = frames[Len(delivered) + 1]
    BY <2>1, HeadUnderBuffer, NextFrameFacts DEF AtNextFrame
  <2> QED
    BY <2>1, <2>2, NextFrame
<1>8. CASE Deliver
  BY <1>8, DeliverIsNoTurn
<1>9. CASE Arrive
  BY <1>9, ArriveIsArrive DEF Port!LoopNext
<1> QED
  BY <1>1, <1>2, <1>3, <1>4, <1>5, <1>6, <1>7, <1>8, <1>9 DEF Next, Step

(* On streams of frames the cursor never passes the next one: it is what   *)
(* UbxPort takes for granted.                                              *)
THEOREM NextFrameAhead == ASSUME OnlyFrames PROVE Spec => []AtNextFrame
<1>1. Init => AtNextFrame
  BY InitAtNextFrame
<1>2. IInv /\ AtNextFrame /\ [Next]_vars => AtNextFrame'
  BY StepAtNextFrame
<1> QED
  BY <1>1, <1>2, Invariant, PTL DEF Spec

(* ubx_read, to the programs that call it, is the loop of UbxLoop          *)
(* (c/ubx_io.h:65-131): what arrives is moved to the buffer by read()s of  *)
(* up to READ_SIZE bytes, at most 1 + (READ_SIZE - 1) \div FRAME_SIZE      *)
(* messages each, and every turn hands over the first of those in the      *)
(* buffer, exactly when UbxPort calls it visible.                          *)
THEOREM CallersSeeMessages == ASSUME OnlyFrames PROVE Spec => ImplementsPort
<1>1. Init => Port!LoopInit
  BY InitImplementsPort
<1>2. IInv /\ AtNextFrame /\ IInv' /\ AtNextFrame' /\ [Next]_vars
        => [Port!LoopNext]_(Port!port)
  BY StepImplementsPort
<1>3. Spec => []AtNextFrame
  BY NextFrameAhead
<1> QED
  BY <1>1, <1>2, <1>3, Invariant, PTL DEF Spec, ImplementsPort, Port!LoopSpec

-----------------------------------------------------------------------------
(* The checksum (Checksum).                                               *)

Byte == 0 .. 255

LEMMA SameIsEquivalence ==
    ASSUME NEW x \in Int, NEW y \in Int, NEW z \in Int
    PROVE  /\ Same(x, x)
           /\ Same(x, y) => Same(y, x)
           /\ Same(x, y) /\ Same(y, z) => Same(x, z)
BY DEF Same

LEMMA SameSums ==
    ASSUME NEW x \in Int, NEW y \in Int, NEW u \in Int, NEW v \in Int,
           Same(x, y), Same(u, v)
    PROVE  Same(x + u, y + v)
BY DEF Same

(* Two bytes that are the same modulo 256 are one.                         *)
LEMMA SameBytes ==
    ASSUME NEW x \in Byte, NEW y \in Byte, Same(x, y)
    PROVE  x = y
<1>1. PICK d \in -255 .. 255 : d = x - y
  BY DEF Byte
<1>2. d % 256 = 0
  BY <1>1 DEF Same
<1>3. d \in 1 .. 255 => d % 256 = d
  OBVIOUS
<1>4. d \in -255 .. -1 => d % 256 = d + 256
  OBVIOUS
<1>5. d = 0
  BY <1>2, <1>3, <1>4
<1> QED
  BY <1>1, <1>5 DEF Byte

LEMMA ByteOf ==
    ASSUME NEW x \in Int
    PROVE  x % 256 \in Byte /\ Same(x % 256, x)
<1>1. x % 256 \in Byte /\ x \div 256 \in Int /\ x = 256 * (x \div 256) + (x % 256)
  BY DEF Byte
<1> DEFINE r == x % 256  q == x \div 256
<1> HIDE DEF r, q
<1>2. r \in Int /\ q \in Int /\ x = 256 * q + r
  BY <1>1 DEF r, q, Byte
<1>3. Same(r, x)
  BY <1>2 DEF Same
<1> QED
  BY <1>1, <1>3 DEF r

(* A char keeps what the int is modulo 256, and nothing else of it.        *)
LEMMA CharFacts ==
    ASSUME signed \in BOOLEAN, NEW x \in Int
    PROVE  /\ Char(x) \in Int /\ Same(Char(x), x)
           /\ Char(Char(x)) = Char(x)
           /\ \A y \in Int : Char(x) = Char(y) <=> Same(x, y)
BY DEF Char, Same

(* One turn of a loop adds the byte to the first sum, and the first sum to *)
(* the second, modulo 256.                                                 *)
LEMMA AddFacts ==
    ASSUME signed \in BOOLEAN, NEW program, NEW ck \in [a : Int, b : Int],
           NEW byte \in Byte
    PROVE  /\ Add(program, ck, byte) \in [a : Int, b : Int]
           /\ Same(Add(program, ck, byte).a, ck.a + byte)
           /\ Same(Add(program, ck, byte).b, ck.b + (ck.a + byte))
           /\ program \in CPrograms =>
                 /\ Char(Add(program, ck, byte).a) = Add(program, ck, byte).a
                 /\ Char(Add(program, ck, byte).b) = Add(program, ck, byte).b
<1>1. byte \in Int /\ ck.a \in Int /\ ck.b \in Int
  BY DEF Byte
<1>2. CASE program \in CPrograms
  <2> DEFINE c == Char(byte)  a == Char(ck.a + c)  b == Char(ck.b + a)
  <2>1. c \in Int /\ Same(c, byte)
    BY <1>1, CharFacts
  <2>2. a \in Int /\ Same(a, ck.a + c) /\ Char(a) = a
    BY <1>1, <2>1, CharFacts
  <2>3. b \in Int /\ Same(b, ck.b + a) /\ Char(b) = b
    BY <1>1, <2>2, CharFacts
  <2>4. Add(program, ck, byte) = [a |-> a, b |-> b]
    BY <1>2 DEF Add
  <2> HIDE DEF a, b, c
  <2>5. Same(a, ck.a + byte)
    <3>1. Same(ck.a, ck.a)
      BY <1>1, SameIsEquivalence
    <3>2. Same(ck.a + c, ck.a + byte)
      BY <1>1, <2>1, <3>1, SameSums
    <3>3. ck.a + c \in Int /\ ck.a + byte \in Int
      BY <1>1, <2>1
    <3> QED
      BY <2>2, <3>2, <3>3, SameIsEquivalence
  <2>6. Same(b, ck.b + (ck.a + byte))
    <3>1. Same(ck.b, ck.b)
      BY <1>1, SameIsEquivalence
    <3>2. ck.a + byte \in Int
      BY <1>1
    <3>3. Same(ck.b + a, ck.b + (ck.a + byte))
      BY <1>1, <2>2, <2>5, <3>1, <3>2, SameSums
    <3>4. ck.b + a \in Int /\ ck.b + (ck.a + byte) \in Int
      BY <1>1, <2>2
    <3> QED
      BY <2>3, <3>3, <3>4, SameIsEquivalence
  <2> QED
    BY <2>2, <2>3, <2>4, <2>5, <2>6
<1>3. CASE program \notin CPrograms
  <2>1. Add(program, ck, byte) = [a |-> ck.a + byte, b |-> ck.b + (ck.a + byte)]
    BY <1>3 DEF Add
  <2>2. /\ Same(ck.a + byte, ck.a + byte)
        /\ Same(ck.b + (ck.a + byte), ck.b + (ck.a + byte))
    BY <1>1, SameIsEquivalence
  <2> QED
    BY <1>1, <1>3, <2>1, <2>2
<1> QED
  BY <1>2, <1>3

LEMMA SameStep ==
    ASSUME NEW x \in Int, NEW d \in Int, NEW u \in Int, NEW e \in Int,
           NEW y \in Int, NEW v \in Int, NEW x1 \in Int, NEW y1 \in Int,
           Same(x, y + d), Same(u, v + e), Same(x1, x + u), Same(y1, y + v)
    PROVE  Same(x1, y1 + (d + e))
BY DEF Same

(* If the sums of reader and writer differ by da and db, and their next    *)
(* bytes by r - w, then this is by how much they differ afterwards.        *)
LEMMA Difference ==
    ASSUME signed \in BOOLEAN, NEW p, NEW q,
           NEW s \in [a : Int, b : Int], NEW t \in [a : Int, b : Int],
           NEW r \in Byte, NEW w \in Byte, NEW da \in Int,
           Same(s.a, t.a + da)
    PROVE  /\ Same(Add(p, s, r).a, Add(q, t, w).a + (da + (r - w)))
           /\ \A db \in Int :
                 Same(s.b, t.b + db)
                 => Same(Add(p, s, r).b, Add(q, t, w).b + (db + (da + (r - w))))
<1> DEFINE s1 == Add(p, s, r)  t1 == Add(q, t, w)
<1>1. /\ s1.a \in Int /\ s1.b \in Int /\ t1.a \in Int /\ t1.b \in Int
      /\ Same(s1.a, s.a + r) /\ Same(s1.b, s.b + (s.a + r))
      /\ Same(t1.a, t.a + w) /\ Same(t1.b, t.b + (t.a + w))
  BY AddFacts
<1> HIDE DEF s1, t1
<1>2. s.a \in Int /\ s.b \in Int /\ t.a \in Int /\ t.b \in Int /\ r \in Int /\ w \in Int
  BY DEF Byte
<1>3. Same(r, w + (r - w)) /\ r - w \in Int
  BY <1>2 DEF Same
<1>4. Same(s1.a, t1.a + (da + (r - w)))
  BY <1>1, <1>2, <1>3, SameStep
<1>5. ASSUME NEW db \in Int, Same(s.b, t.b + db)
      PROVE  Same(s1.b, t1.b + (db + (da + (r - w))))
  <2>1. /\ r - w \in Int /\ s.a + r \in Int /\ t.a + w \in Int
        /\ da + (r - w) \in Int
    BY <1>2
  <2>2. Same(s.a + r, (t.a + w) + (da + (r - w)))
    <3>1. t.a + da \in Int /\ w + (r - w) \in Int
      BY <1>2
    <3>2. Same(s.a + r, (t.a + da) + (w + (r - w)))
      BY <1>2, <1>3, <3>1, SameSums
    <3>3. (t.a + da) + (w + (r - w)) = (t.a + w) + (da + (r - w))
      BY <1>2
    <3> QED
      BY <3>2, <3>3
  <2> DEFINE u == s.a + r  v == t.a + w  e == da + (r - w)
  <2>3. /\ u \in Int /\ v \in Int /\ e \in Int /\ Same(u, v + e)
        /\ Same(s1.b, s.b + u) /\ Same(t1.b, t.b + v)
    BY <1>1, <2>1, <2>2
  <2> HIDE DEF u, v, e
  <2>4. Same(s1.b, t1.b + (db + e))
    BY <1>1, <1>2, <1>5, <2>3, SameStep
  <2> QED
    BY <2>4 DEF e
<1> QED
  BY <1>4, <1>5 DEF s1, t1

-----------------------------------------------------------------------------
LEMMA FrameBytes ==
    ASSUME NEW s \in Contents
    PROVE  s \in Seq(Byte) /\ Len(s) >= 4
<1>1. PICK len \in 0 .. PayloadMax : s \in OfSize(len)
  BY DEF Contents
<1>2. len \in Nat /\ len <= 65535 /\ Bytes \subseteq Byte
  <2>1. PayloadMax \in Nat /\ PayloadMax <= 65535
    BY BytesAssumption
  <2>2. Bytes \subseteq Byte
    BY BytesAssumption DEF Byte
  <2> QED
    BY <2>1, <2>2
<1>3. PICK c \in Bytes, m \in Bytes, p \in [1 .. len -> Bytes] :
          s = Head4(c, m, len) \o p
  <2>1. s \in {Head4(c, m, len) \o p : c \in Bytes, m \in Bytes, p \in [1 .. len -> Bytes]}
    BY <1>1 DEF OfSize
  <2> QED
    BY <2>1
<1>4. len % 256 \in Byte /\ len \div 256 \in Byte
  BY <1>2 DEF Byte
<1> DEFINE h == Head4(c, m, len)
<1>5. h \in Seq(Byte) /\ Len(h) = 4
  BY <1>2, <1>4 DEF Head4
<1>6. s = h \o p
  BY <1>3
<1> HIDE DEF h
<1>7. p \in Seq(Byte)
  BY <1>2
<1>8. s \in Seq(Byte) /\ Len(s) = Len(h) + Len(p)
  BY <1>5, <1>6, <1>7, ConcatProperties
<1>9. Len(p) \in Nat
  BY <1>7
<1> QED
  BY <1>5, <1>8, <1>9

(* What the line may do to a frame.                                        *)
LEMMA DamageFacts ==
    ASSUME NEW s \in Seq(Byte), Len(s) >= 4, NEW d \in Damages(s),
           NEW g, g = Arrives(s, d)
    PROVE  /\ g \in Seq(Byte) /\ Len(g) = Len(s)
           /\ d.kind \in {"none", "changed", "swapped", "trailer"}
           /\ d.kind = "none" <=> d = Intact
           /\ d.kind \in {"none", "trailer"} => g = s
           /\ d.kind = "trailer" => d.place \in {1, 2} /\ d.byte \in 1 .. 255
           /\ d.kind = "changed" =>
                 /\ d.place \in 1 .. Len(s)
                 /\ d.byte \in Byte /\ d.byte # s[d.place] /\ g[d.place] = d.byte
                 /\ \A i \in 1 .. Len(s) : i # d.place => g[i] = s[i]
           /\ d.kind = "swapped" =>
                 /\ d.place \in 1 .. Len(s) /\ d.place + 1 \in 1 .. Len(s)
                 /\ s[d.place] # s[d.place + 1]
                 /\ g[d.place] = s[d.place + 1] /\ g[d.place + 1] = s[d.place]
                 /\ \A i \in 1 .. Len(s) :
                       i # d.place /\ i # d.place + 1 => g[i] = s[i]
<1>1. /\ Bytes \subseteq Byte /\ Places(s) \subseteq 1 .. Len(s) /\ Len(s) \in Nat
      /\ Bytes \ {0} \subseteq 1 .. 255
  BY BytesAssumption DEF Byte, Places
<1>2. CASE d = Intact
  BY <1>2 DEF Intact, Arrives
<1>3. CASE d \in [kind : {"trailer"}, place : {1, 2}, byte : Bytes \ {0}]
  BY <1>1, <1>3 DEF Intact, Arrives
<1>4. CASE d \in [kind : {"changed"}, place : Places(s), byte : Bytes] /\ d.byte # s[d.place]
  <2>1. /\ d.kind = "changed" /\ d.place \in 1 .. Len(s) /\ d.byte \in Byte
        /\ g = [s EXCEPT ![d.place] = d.byte]
    BY <1>1, <1>4 DEF Arrives
  <2>2. /\ g \in Seq(Byte) /\ Len(g) = Len(s) /\ g[d.place] = d.byte
        /\ \A i \in 1 .. Len(s) : i # d.place => g[i] = s[i]
    BY <2>1
  <2> QED
    BY <1>4, <2>1, <2>2 DEF Intact
<1>5. CASE /\ d \in [kind : {"swapped"}, place : Places(s), byte : {0}]
           /\ d.place + 1 \in Places(s) /\ s[d.place] # s[d.place + 1]
  <2>1. /\ d.kind = "swapped" /\ d.place \in 1 .. Len(s) /\ d.place + 1 \in 1 .. Len(s)
        /\ g = [s EXCEPT ![d.place] = s[d.place + 1], ![d.place + 1] = s[d.place]]
    BY <1>1, <1>5 DEF Arrives
  <2>2. s[d.place] \in Byte /\ s[d.place + 1] \in Byte
    BY <2>1
  <2>3. /\ g \in Seq(Byte) /\ Len(g) = Len(s)
        /\ g[d.place] = s[d.place + 1] /\ g[d.place + 1] = s[d.place]
        /\ \A i \in 1 .. Len(s) : i # d.place /\ i # d.place + 1 => g[i] = s[i]
    BY <1>1, <2>1, <2>2
  <2> QED
    BY <1>5, <2>1, <2>3 DEF Intact
<1> QED
  BY <1>2, <1>3, <1>4, <1>5 DEF Damages

LEMMA TrailerFacts ==
    ASSUME ChecksumIInv, damage.kind = "trailer"
    PROVE  damage.place \in {1, 2} /\ damage.byte \in 1 .. 255
<1>1. bytes \in Seq(Byte) /\ Len(bytes) >= 4 /\ damage \in Damages(bytes)
  BY DEF ChecksumIInv, ChecksumTypeOK, Byte
<1> QED
  BY <1>1, DamageFacts

(* The byte of the trailer that the line changes is another one then.      *)
LEMMA ChangedTrailer ==
    ASSUME ChecksumIInv, damage.kind = "trailer"
    PROVE  LET t == Changed(Packed(written), damage)
           IN  /\ t \in Byte \X Byte
               /\ ~ (Same(t[1], written.a) /\ Same(t[2], written.b))
<1> DEFINE x == written.a % 256  y == written.b % 256
           t == Changed(<<x, y>>, damage)
<1>1. written.a \in Int /\ written.b \in Int
  BY DEF ChecksumIInv, ChecksumTypeOK
<1>2. x \in Byte /\ y \in Byte /\ Same(x, written.a) /\ Same(y, written.b)
  BY <1>1, ByteOf
<1>3. damage.place \in {1, 2} /\ damage.byte \in 1 .. 255
  BY TrailerFacts
<1>4. \A z \in Byte : /\ (z + damage.byte) % 256 \in Byte
                     /\ ~Same((z + damage.byte) % 256, z)
  <2> TAKE z \in Byte
  <2> DEFINE u == (z + damage.byte) % 256
  <2>1. z + damage.byte \in Int /\ z \in Int /\ damage.byte \in Int
    BY <1>3 DEF Byte
  <2>2. u \in Byte /\ Same(u, z + damage.byte)
    BY <2>1, ByteOf
  <2>3. ASSUME Same(u, z) PROVE FALSE
    <3>1. Same(z, z + damage.byte)
      BY <2>1, <2>2, <2>3, SameIsEquivalence DEF Byte
    <3>2. Same(0, damage.byte)
      BY <2>1, <3>1 DEF Same
    <3>3. 0 \in Byte /\ damage.byte \in Byte /\ damage.byte # 0
      BY <1>3 DEF Byte
    <3> QED
      BY <3>2, <3>3, SameBytes
  <2> QED
    BY <2>2, <2>3
<1> HIDE DEF x, y
<1>5. CASE damage.place = 1
  <2>1. t = <<(x + damage.byte) % 256, y>>
    BY <1>5 DEF Changed
  <2>2. ~Same((x + damage.byte) % 256, written.a)
    <3> DEFINE u == (x + damage.byte) % 256
    <3>1. u \in Byte /\ ~Same(u, x)
      BY <1>2, <1>4
    <3> HIDE DEF u
    <3>2. u \in Int /\ x \in Int
      BY <1>2, <3>1 DEF Byte
    <3>3. Same(written.a, x)
      BY <1>1, <1>2, <3>2, SameIsEquivalence
    <3>4. ~Same(u, written.a)
      BY <1>1, <3>1, <3>2, <3>3, SameIsEquivalence
    <3> QED
      BY <3>4 DEF u
  <2> QED
    BY <1>2, <1>4, <2>1, <2>2 DEF x, y, Packed
<1>6. CASE damage.place = 2
  <2>1. t = <<x, (y + damage.byte) % 256>>
    BY <1>6 DEF Changed
  <2>2. ~Same((y + damage.byte) % 256, written.b)
    <3> DEFINE u == (y + damage.byte) % 256
    <3>1. u \in Byte /\ ~Same(u, y)
      BY <1>2, <1>4
    <3> HIDE DEF u
    <3>2. u \in Int /\ y \in Int
      BY <1>2, <3>1 DEF Byte
    <3>3. Same(written.b, y)
      BY <1>1, <1>2, <3>2, SameIsEquivalence
    <3>4. ~Same(u, written.b)
      BY <1>1, <3>1, <3>2, <3>3, SameIsEquivalence
    <3> QED
      BY <3>4 DEF u
  <2> QED
    BY <1>2, <1>4, <2>1, <2>2 DEF x, y, Packed
<1> QED
  BY <1>3, <1>5, <1>6

-----------------------------------------------------------------------------
LEMMA CheckInit == ChecksumInit => ChecksumIInv
<1> SUFFICES ASSUME ChecksumInit PROVE ChecksumIInv
  OBVIOUS
<1>1. bytes \in Seq(Byte) /\ Len(bytes) >= 4
  <2>1. CASE writer = "WAKEUP_SEQ"
    <3>1. bytes = <<2, 64, 0, 0>>
      BY <2>1 DEF ChecksumInit, RXM_POSREQ
    <3> QED
      BY <3>1 DEF Byte
  <2>2. CASE writer # "WAKEUP_SEQ"
    BY <2>2, FrameBytes DEF ChecksumInit
  <2> QED
    BY <2>1, <2>2
<1>2. ChecksumTypeOK
  BY <1>1 DEF ChecksumInit, ChecksumTypeOK, Byte, Zero
<1>3. SumsFollowDamage
  <2>1. /\ damage.kind = "changed" => 0 < damage.place
        /\ damage.kind = "swapped" => 0 < damage.place
    BY <1>1, DamageFacts DEF ChecksumInit
  <2>2. count = 0 /\ written = [a |-> 0, b |-> 0] /\ summed = [a |-> 0, b |-> 0]
    BY DEF ChecksumInit, Zero
  <2>3. Same(0, 0) /\ Same(0, 0 + 0)
    BY DEF Same
  <2> QED
    BY <2>1, <2>2, <2>3 DEF SumsFollowDamage
<1>4. WakeUpSums
  BY DEF ChecksumInit, WakeUpSums
<1>5. TrailerIsWritten
  <2>1. Char(0) = 0
    BY DEF ChecksumInit, Char
  <2> QED
    BY <2>1 DEF ChecksumInit, TrailerIsWritten, Zero
<1> QED
  BY <1>2, <1>3, <1>4, <1>5 DEF ChecksumIInv

(* One turn of both loops.                                                 *)
LEMMA SumStep == ASSUME ChecksumIInv, Sum PROVE ChecksumIInv'
<1> DEFINE w == bytes[count + 1]  r == got[count + 1]  p == damage.place
<1>1. /\ bytes \in Seq(Byte) /\ Len(bytes) >= 4 /\ Len(bytes) \in Nat
      /\ damage \in Damages(bytes) /\ got = Arrives(bytes, damage)
      /\ count \in Nat /\ count < Len(bytes) /\ count' = count + 1 /\ count + 1 \in 1 .. Len(bytes)
      /\ written \in [a : Int, b : Int] /\ summed \in [a : Int, b : Int]
      /\ signed \in BOOLEAN
      /\ written' = Add(writer, written, w) /\ summed' = Add(reader, summed, r)
      /\ UNCHANGED <<signed, writer, reader, bytes, damage, got, trailer, verdict>>
  BY DEF ChecksumIInv, ChecksumTypeOK, Sum, Byte
<1>2. got \in Seq(Byte) /\ Len(got) = Len(bytes)
  BY <1>1, DamageFacts
<1>3. w \in Byte /\ r \in Byte
  BY <1>1, <1>2
<1> HIDE DEF w, r, p
<1>4. ChecksumTypeOK'
  <2>1. written' \in [a : Int, b : Int] /\ summed' \in [a : Int, b : Int]
    BY <1>1, <1>3, AddFacts
  <2>2. count' \in 0 .. Len(bytes)
    BY <1>1
  <2> QED
    BY <1>1, <2>1, <2>2 DEF ChecksumIInv, ChecksumTypeOK
<1>5. ASSUME NEW da \in Int, Same(summed.a, written.a + da)
      PROVE  /\ Same(summed'.a, written'.a + (da + (r - w)))
             /\ \A db \in Int :
                   Same(summed.b, written.b + db)
                   => Same(summed'.b, written'.b + (db + (da + (r - w))))
  BY <1>1, <1>3, <1>5, Difference
<1>6. SumsFollowDamage'
  <2>1. ASSUME damage.kind \in {"none", "trailer"}
        PROVE  Same(summed'.a, written'.a) /\ Same(summed'.b, written'.b)
    <3>1. r = w
      BY <1>1, <2>1, DamageFacts DEF r, w
    <3>2. Same(summed.a, written.a + 0) /\ Same(summed.b, written.b + 0)
      BY <1>1, <2>1 DEF ChecksumIInv, SumsFollowDamage
    <3>3. 0 + (r - w) = 0 /\ 0 + (0 + (r - w)) = 0
      BY <1>3, <3>1 DEF Byte
    <3>4. Same(summed'.a, written'.a + 0) /\ Same(summed'.b, written'.b + 0)
      BY <1>5, <3>2, <3>3
    <3> QED
      BY <1>4, <3>4 DEF ChecksumTypeOK
  <2>2. ASSUME damage.kind = "changed"
        PROVE  Same(summed'.a, written'.a + (IF count + 1 < p THEN 0 ELSE damage.byte - bytes[p]))
    <3> DEFINE x == bytes[p]  y == damage.byte
    <3>1. /\ p \in 1 .. Len(bytes) /\ x \in Byte /\ y \in Byte
          /\ count + 1 = p => r = y /\ w = x
          /\ count + 1 # p => r = w
      BY <1>1, <2>2, DamageFacts DEF r, w, p
    <3> DEFINE da == IF count < p THEN 0 ELSE y - x
    <3>2. Same(summed.a, written.a + da)
      BY <2>2 DEF ChecksumIInv, SumsFollowDamage, p
    <3> HIDE DEF x, y
    <3>3. da \in Int
      BY <3>1 DEF Byte
    <3>4. Same(summed'.a, written'.a + (da + (r - w)))
      BY <1>5, <3>2, <3>3
    <3>5. da + (r - w) = IF count + 1 < p THEN 0 ELSE y - x
      BY <1>1, <1>3, <3>1 DEF Byte
    <3> QED
      BY <3>4, <3>5 DEF x, y
  <2>3. ASSUME damage.kind = "swapped"
        PROVE  /\ Same(summed'.a, written'.a +
                          (IF count + 1 = p THEN bytes[p + 1] - bytes[p] ELSE 0))
               /\ Same(summed'.b, written'.b +
                          (IF count + 1 < p THEN 0 ELSE bytes[p + 1] - bytes[p]))
    <3> DEFINE x == bytes[p]  y == bytes[p + 1]
    <3>1. /\ p \in 1 .. Len(bytes) /\ x \in Byte /\ y \in Byte
          /\ count + 1 = p => r = y /\ w = x
          /\ count = p => r = x /\ w = y
          /\ count + 1 # p /\ count # p => r = w
      <4>1. /\ p \in 1 .. Len(bytes) /\ p + 1 \in 1 .. Len(bytes)
            /\ got[p] = y /\ got[p + 1] = x
            /\ \A i \in 1 .. Len(bytes) : i # p /\ i # p + 1 => got[i] = bytes[i]
        BY <1>1, <2>3, DamageFacts DEF p
      <4>2. x \in Byte /\ y \in Byte
        BY <1>1, <4>1
      <4>3. count + 1 = p => r = y /\ w = x
        BY <4>1 DEF r, w
      <4>4. count = p => r = x /\ w = y
        BY <4>1 DEF r, w
      <4>5. count + 1 # p /\ count # p => r = w
        BY <1>1, <4>1 DEF r, w
      <4> QED
        BY <4>1, <4>2, <4>3, <4>4, <4>5
    <3> DEFINE da == IF count = p THEN y - x ELSE 0
               db == IF count < p THEN 0 ELSE y - x
    <3>2. Same(summed.a, written.a + da) /\ Same(summed.b, written.b + db)
      BY <2>3 DEF ChecksumIInv, SumsFollowDamage, p
    <3> HIDE DEF x, y
    <3>3. da \in Int /\ db \in Int
      BY <3>1 DEF Byte
    <3>4. /\ Same(summed'.a, written'.a + (da + (r - w)))
          /\ Same(summed'.b, written'.b + (db + (da + (r - w))))
      BY <1>5, <3>2, <3>3
    <3>5. /\ da + (r - w) = IF count + 1 = p THEN y - x ELSE 0
          /\ db + (da + (r - w)) = IF count + 1 < p THEN 0 ELSE y - x
      BY <1>1, <1>3, <3>1 DEF Byte
    <3> QED
      BY <3>4, <3>5 DEF x, y
  <2> QED
    BY <1>1, <2>1, <2>2, <2>3 DEF SumsFollowDamage, p
<1>7. WakeUpSums'
  <2> SUFFICES ASSUME writer = "WAKEUP_SEQ" PROVE WakeUpSums'
    BY <1>1 DEF WakeUpSums
  <2>1. bytes = <<2, 64, 0, 0>>
    BY DEF ChecksumIInv, WakeUpSums, RXM_POSREQ
  <2>2. written' = [a |-> written.a + w, b |-> written.b + (written.a + w)]
    BY <1>1 DEF Add, CPrograms
  <2>3. count \in {0, 1, 2, 3}
    BY <1>1, <2>1
  <2>4. CASE count = 0
    BY <1>1, <2>1, <2>2, <2>4 DEF ChecksumIInv, WakeUpSums, RXM_POSREQ, Zero, w
  <2>5. CASE count = 1
    BY <1>1, <2>1, <2>2, <2>5 DEF ChecksumIInv, WakeUpSums, RXM_POSREQ, w
  <2>6. CASE count = 2
    BY <1>1, <2>1, <2>2, <2>6 DEF ChecksumIInv, WakeUpSums, RXM_POSREQ, w
  <2>7. CASE count = 3
    BY <1>1, <2>1, <2>2, <2>7 DEF ChecksumIInv, WakeUpSums, RXM_POSREQ, w
  <2> QED
    BY <2>3, <2>4, <2>5, <2>6, <2>7
<1>8. TrailerIsWritten'
  <2>1. trailer = <<>> /\ verdict = "none"
    BY <1>1 DEF ChecksumIInv, ChecksumTypeOK, TrailerIsWritten
  <2>2. reader \in CPrograms => Char(summed'.a) = summed'.a /\ Char(summed'.b) = summed'.b
    BY <1>1, <1>3, AddFacts
  <2>3. \A x : Char(x)' = Char(x)
    BY <1>1 DEF Char
  <2> QED
    BY <1>1, <2>1, <2>2, <2>3 DEF TrailerIsWritten, Char
<1> QED
  BY <1>4, <1>6, <1>7, <1>8 DEF ChecksumIInv

(* The writer's two bytes, which the line may change.                      *)
LEMMA WriteStep == ASSUME ChecksumIInv, Write PROVE ChecksumIInv'
<1>1. /\ count = Len(bytes) /\ trailer = <<>> /\ verdict = "none"
      /\ UNCHANGED <<signed, writer, reader, bytes, damage, got, count, written,
                     summed, verdict>>
  BY DEF ChecksumIInv, ChecksumTypeOK, TrailerIsWritten, Write
<1>2. ASSUME writer = "WAKEUP_SEQ" PROVE Packed(written) = WAKEUP_CHECKSUM
  <2>1. count = 4
    BY <1>1, <1>2 DEF ChecksumIInv, WakeUpSums, RXM_POSREQ
  <2>2. written = [a |-> 66, b |-> 200]
    BY <1>2, <2>1 DEF ChecksumIInv, WakeUpSums
  <2> QED
    BY <2>2 DEF Packed, WAKEUP_CHECKSUM
<1>3. trailer' = IF damage.kind = "trailer"
                 THEN Changed(Packed(written), damage) ELSE Packed(written)
  BY <1>2 DEF Write
<1>4. written.a % 256 \in 0 .. 255 /\ written.b % 256 \in 0 .. 255
  <2>1. written.a \in Int /\ written.b \in Int
    BY DEF ChecksumIInv, ChecksumTypeOK
  <2> QED
    BY <2>1, ByteOf DEF Byte
<1>5. trailer' \in (0 .. 255) \X (0 .. 255)
  <2>1. Packed(written) \in (0 .. 255) \X (0 .. 255)
    BY <1>4 DEF Packed
  <2>2. ASSUME damage.kind = "trailer"
        PROVE  Changed(Packed(written), damage) \in (0 .. 255) \X (0 .. 255)
    BY <2>2, ChangedTrailer DEF ChecksumIInv, ChecksumTypeOK, Byte
  <2> QED
    BY <1>3, <2>1, <2>2
<1>6. ChecksumTypeOK'
  BY <1>1, <1>5 DEF ChecksumIInv, ChecksumTypeOK
<1>7. SumsFollowDamage' /\ WakeUpSums'
  BY <1>1 DEF ChecksumIInv, SumsFollowDamage, WakeUpSums
<1>8. TrailerIsWritten'
  BY <1>1, <1>3 DEF ChecksumIInv, TrailerIsWritten, Char, Packed, Changed
<1> QED
  BY <1>6, <1>7, <1>8 DEF ChecksumIInv

LEMMA JudgeStep == ASSUME ChecksumIInv, Judge \/ UNCHANGED checksum_vars PROVE ChecksumIInv'
<1>1. /\ UNCHANGED <<signed, writer, reader, bytes, damage, got, count, written,
                     summed, trailer>>
      /\ verdict' \in {"none", "good", "wrong_checksum"}
      /\ \/ verdict' = verdict
         \/ trailer # <<>> /\ (verdict' = "good" <=> Equal(summed, trailer))
  BY DEF ChecksumIInv, ChecksumTypeOK, Judge, checksum_vars
<1>2. ChecksumTypeOK'
  BY <1>1 DEF ChecksumIInv, ChecksumTypeOK
<1>3. SumsFollowDamage' /\ WakeUpSums'
  BY <1>1 DEF ChecksumIInv, SumsFollowDamage, WakeUpSums
<1>4. Equal(summed, trailer)' = Equal(summed, trailer)
  BY <1>1 DEF Equal, Char, Packed
<1>5. TrailerIsWritten'
  BY <1>1, <1>4 DEF ChecksumIInv, TrailerIsWritten, Char, Packed, Changed
<1> QED
  BY <1>2, <1>3, <1>5 DEF ChecksumIInv

LEMMA CheckInvariant == ChecksumSpec => []ChecksumIInv
<1>1. ChecksumIInv /\ [ChecksumNext]_checksum_vars => ChecksumIInv'
  BY SumStep, WriteStep, JudgeStep DEF ChecksumNext
<1> QED
  BY CheckInit, <1>1, PTL DEF ChecksumSpec

-----------------------------------------------------------------------------
(* A reader finds the bytes equal exactly if its sums are those bytes      *)
(* modulo 256, whether it compares chars or bytes.                         *)
LEMMA EqualIsSame ==
    ASSUME ChecksumIInv, NEW t \in Byte \X Byte,
           reader \in CPrograms
           => Char(summed.a) = summed.a /\ Char(summed.b) = summed.b
    PROVE  Equal(summed, t) <=> Same(summed.a, t[1]) /\ Same(summed.b, t[2])
<1>1. /\ summed.a \in Int /\ summed.b \in Int /\ signed \in BOOLEAN
      /\ t[1] \in Byte /\ t[2] \in Byte /\ t = <<t[1], t[2]>>
  BY DEF ChecksumIInv, ChecksumTypeOK
<1>2. t[1] \in Int /\ t[2] \in Int
  BY <1>1 DEF Byte
<1>3. CASE reader \in CPrograms
  <2>1. /\ summed.a = Char(t[1]) <=> Same(summed.a, t[1])
        /\ summed.b = Char(t[2]) <=> Same(summed.b, t[2])
    BY <1>1, <1>2, <1>3, CharFacts
  <2> QED
    BY <1>3, <2>1 DEF Equal
<1>4. CASE reader \notin CPrograms
  <2>1. ASSUME NEW x \in Int, NEW y \in Byte
        PROVE  x % 256 = y <=> Same(x, y)
    <3>1. x % 256 \in Byte /\ Same(x % 256, x) /\ y \in Int /\ x % 256 \in Int
      BY ByteOf DEF Byte
    <3> DEFINE z == x % 256
    <3> HIDE DEF z
    <3>2. z = y => Same(x, y)
      BY <3>1, SameIsEquivalence DEF z
    <3>3. Same(x, y) => Same(z, y)
      BY <3>1, SameIsEquivalence DEF z
    <3>4. Same(z, y) => z = y
      BY <3>1, SameBytes DEF z
    <3> QED
      BY <3>2, <3>3, <3>4 DEF z
  <2>2. Equal(summed, t) <=> summed.a % 256 = t[1] /\ summed.b % 256 = t[2]
    BY <1>1, <1>4 DEF Equal, Packed
  <2> QED
    BY <1>1, <2>1, <2>2
<1> QED
  BY <1>3, <1>4

(* What the verdict says: whether the sums are the trailer.                *)
LEMMA VerdictFacts ==
    ASSUME ChecksumIInv, verdict # "none"
    PROVE  /\ count = Len(bytes)
           /\ trailer[1] \in Int /\ trailer[2] \in Int
           /\ summed.a \in Int /\ summed.b \in Int
           /\ written.a \in Int /\ written.b \in Int
           /\ verdict = "good" <=> Same(summed.a, trailer[1]) /\ Same(summed.b, trailer[2])
           /\ damage.kind # "trailer" =>
                 Same(trailer[1], written.a) /\ Same(trailer[2], written.b)
<1>1. trailer # <<>> /\ count = Len(bytes) /\ (verdict = "good" <=> Equal(summed, trailer))
  BY DEF ChecksumIInv, TrailerIsWritten
<1>2. trailer \in Byte \X Byte
  BY <1>1 DEF ChecksumIInv, ChecksumTypeOK, Byte
<1>3. verdict = "good" <=> Same(summed.a, trailer[1]) /\ Same(summed.b, trailer[2])
  BY <1>1, <1>2, EqualIsSame DEF ChecksumIInv, TrailerIsWritten
<1>4. ASSUME damage.kind # "trailer"
      PROVE  Same(trailer[1], written.a) /\ Same(trailer[2], written.b)
  <2>1. trailer[1] = written.a % 256 /\ trailer[2] = written.b % 256
    BY <1>1, <1>4 DEF ChecksumIInv, TrailerIsWritten, Packed
  <2>2. written.a \in Int /\ written.b \in Int
    BY DEF ChecksumIInv, ChecksumTypeOK
  <2> QED
    BY <2>1, <2>2, ByteOf
<1>5. /\ summed.a \in Int /\ summed.b \in Int
      /\ written.a \in Int /\ written.b \in Int
  BY DEF ChecksumIInv, ChecksumTypeOK
<1>6. trailer[1] \in Int /\ trailer[2] \in Int
  BY <1>2 DEF Byte
<1> QED
  BY <1>1, <1>3, <1>4, <1>5, <1>6

(* What either program writes, the wake-up sequence included, either       *)
(* accepts, whatever the payload, its size and the signedness of a char    *)
(* (c/ubx_io.h:17-41, 112-119, 134-153, c/fixnow.h:17,                     *)
(* python/ubxlib/ubx.py:241-249, python/ubxlib/ubx_reader.py:37).          *)
THEOREM IntactAccepted == ChecksumSpec => []IntactIsAccepted
<1>1. ChecksumIInv => IntactIsAccepted
  <2> SUFFICES ASSUME ChecksumIInv, verdict # "none", damage = Intact PROVE verdict = "good"
    BY DEF IntactIsAccepted
  <2>1. /\ summed.a \in Int /\ summed.b \in Int /\ written.a \in Int /\ written.b \in Int
        /\ trailer[1] \in Int /\ trailer[2] \in Int
    BY VerdictFacts
  <2>2. Same(summed.a, written.a) /\ Same(summed.b, written.b)
    BY DEF ChecksumIInv, SumsFollowDamage, Intact
  <2>3. Same(trailer[1], written.a) /\ Same(trailer[2], written.b)
    BY VerdictFacts DEF Intact
  <2>4. Same(summed.a, trailer[1]) /\ Same(summed.b, trailer[2])
    BY <2>1, <2>2, <2>3, SameIsEquivalence
  <2> QED
    BY <2>4, VerdictFacts
<1> QED
  BY <1>1, CheckInvariant, PTL

(* Neither program accepts a frame with a byte of class, id, payload or    *)
(* trailer changed, or with two different neighbours exchanged             *)
(* (c/ubx_io.h:29, 35, python/ubxlib/ubx.py:246).                          *)
THEOREM DamagedRejected == ChecksumSpec => []DamagedIsRejected
<1>1. ChecksumIInv => DamagedIsRejected
  <2> SUFFICES ASSUME ChecksumIInv, verdict = "good", damage # Intact PROVE FALSE
    BY DEF DamagedIsRejected
  <2>1. /\ summed.a \in Int /\ summed.b \in Int /\ written.a \in Int /\ written.b \in Int
        /\ trailer[1] \in Int /\ trailer[2] \in Int
        /\ count = Len(bytes) /\ trailer # <<>>
        /\ Same(summed.a, trailer[1]) /\ Same(summed.b, trailer[2])
    BY VerdictFacts DEF ChecksumIInv, TrailerIsWritten
  <2>2. bytes \in Seq(Byte) /\ Len(bytes) >= 4 /\ damage \in Damages(bytes)
    BY DEF ChecksumIInv, ChecksumTypeOK, Byte
  <2>3. damage.kind \in {"trailer", "changed", "swapped"}
    BY <2>2, DamageFacts
  <2>4. CASE damage.kind = "trailer"
    <3>1. trailer = Changed(Packed(written), damage)
      BY <2>1, <2>4 DEF ChecksumIInv, TrailerIsWritten
    <3>2. Same(summed.a, written.a) /\ Same(summed.b, written.b)
      BY <2>4 DEF ChecksumIInv, SumsFollowDamage
    <3>3. Same(trailer[1], written.a) /\ Same(trailer[2], written.b)
      BY <2>1, <3>2, SameIsEquivalence
    <3> QED
      BY <2>4, <3>1, <3>3, ChangedTrailer
  <2>5. ASSUME damage.kind # "trailer"
        PROVE  Same(summed.a, written.a) /\ Same(summed.b, written.b)
    BY <2>1, <2>5, VerdictFacts, SameIsEquivalence
  <2>6. ASSUME NEW x \in Byte, NEW y \in Byte, NEW u \in Int, NEW v \in Int,
               Same(u, v), Same(u, v + (y - x))
        PROVE  x = y
    <3>1. x \in Int /\ y \in Int
      BY DEF Byte
    <3>2. Same(y, x)
      BY <2>6, <3>1 DEF Same
    <3> QED
      BY <3>2, SameBytes
  <2>7. CASE damage.kind = "changed"
    <3> DEFINE x == bytes[damage.place]  y == damage.byte
    <3>1. x \in Byte /\ y \in Byte /\ y # x /\ ~ count < damage.place
      BY <2>1, <2>2, <2>7, DamageFacts
    <3>2. Same(summed.a, written.a + (y - x))
      BY <2>7, <3>1 DEF ChecksumIInv, SumsFollowDamage
    <3> HIDE DEF x, y
    <3> QED
      BY <2>1, <2>5, <2>6, <2>7, <3>1, <3>2
  <2>8. CASE damage.kind = "swapped"
    <3> DEFINE x == bytes[damage.place]  y == bytes[damage.place + 1]
    <3>1. x \in Byte /\ y \in Byte /\ y # x /\ ~ count < damage.place
      BY <2>1, <2>2, <2>8, DamageFacts
    <3>2. Same(summed.b, written.b + (y - x))
      BY <2>8, <3>1 DEF ChecksumIInv, SumsFollowDamage
    <3> HIDE DEF x, y
    <3> QED
      BY <2>1, <2>5, <2>6, <2>8, <3>1, <3>2
  <2> QED
    BY <2>3, <2>4, <2>7, <2>8
<1> QED
  BY <1>1, CheckInvariant, PTL

=============================================================================
