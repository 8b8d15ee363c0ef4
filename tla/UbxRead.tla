------------------------------ MODULE UbxRead ------------------------------
(***************************************************************************)
(* ubx_read (c/ubx_io.h): the loop that cuts UBX frames out of the bytes   *)
(* of a device or a file, with its fixed buffer and its three cursors.     *)
(*                                                                         *)
(* buffer_start is the array mem; a byte in it is the position it has in   *)
(* the stream.  buffer and buffer_end are indices into mem, as the C       *)
(* pointers are relative to buffer_start.                                  *)
(***************************************************************************)
EXTENDS UbxStream

CONSTANTS
    BUFFER_SIZE,  (* size of buffer_start: 16 * 1024                       *)
    HIGH_WATER,   (* buffer_read above which the buffer is cleaned: 15*1024*)
    READ_SIZE,    (* bytes asked of one read(): 32                         *)
    Sources       (* which kinds of descriptor are read: "tty", "file"     *)

ASSUME BufferAssumption ==
    /\ BUFFER_SIZE \in Nat /\ HIGH_WATER \in Nat /\ READ_SIZE \in Nat \ {0}
    /\ HIGH_WATER + READ_SIZE <= BUFFER_SIZE
    /\ FRAME_SIZE <= HIGH_WATER
    /\ Sources \subseteq {"tty", "file"}

Index == 0 .. (BUFFER_SIZE - 1)

VARIABLES
    stream,       (* everything the descriptor will ever yield             *)
    source,       (* what the descriptor is                                *)
    sent,         (* bytes that have arrived at the descriptor             *)
    taken,        (* bytes that read() has returned so far                 *)
    mem,          (* buffer_start                                          *)
    buffer,       (* first byte not dealt with                             *)
    buffer_end,   (* one past the last byte read                           *)
    buffer_read,  (* bytes read since the buffer was last cleaned          *)
    delivered,    (* the frames given to handle_message                    *)
    pc            (* where the loop is                                     *)

vars == <<stream, source, sent, taken, mem, buffer, buffer_end, buffer_read,
          delivered, pc>>

(* The place in the stream of the first byte not dealt with.               *)
Pos == taken - (buffer_end - buffer)

Init ==
    /\ stream \in Streams
    /\ source \in Sources
    /\ sent = IF source = "file" THEN stream.len ELSE 0
    /\ taken = 0
    /\ mem = [k \in Index |-> 0]
    /\ buffer = 0 /\ buffer_end = 0 /\ buffer_read = 0
    /\ delivered = <<>>
    /\ pc = "clean"

(* Faulty variant: one more read() before cleaning.                        *)
CleanLate == buffer_read > HIGH_WATER + READ_SIZE

(* The buffer is due for cleaning.                                         *)
MustClean == buffer_read > HIGH_WATER

(* Faulty variant: the last byte read is not moved.                        *)
OneShort == (buffer_end - buffer) - 1

(* How many bytes cleaning keeps.                                          *)
real_size == buffer_end - buffer

(* The device puts one more byte on the line, whatever the loop is doing:  *)
(* nothing makes it wait.                                                  *)
Arrive ==
    /\ sent < stream.len
    /\ sent' = sent + 1
    /\ UNCHANGED <<stream, source, taken, mem, buffer, buffer_end,
                   buffer_read, delivered, pc>>

(* Above the high-water mark what is left moves to the start of mem.       *)
Clean ==
    /\ pc = "clean"
    /\ pc' = "read"
    /\ IF MustClean
       THEN /\ mem' = [k \in Index |-> IF k < real_size
                                       THEN mem[buffer + k] ELSE mem[k]]
            /\ buffer_read' = real_size
            /\ buffer' = 0
            /\ buffer_end' = real_size
       ELSE UNCHANGED <<mem, buffer, buffer_end, buffer_read>>
    /\ UNCHANGED <<stream, source, sent, taken, delivered>>

(* There is room in buffer_start for n bytes more.                         *)
Fits(n) == buffer_end + n <= BUFFER_SIZE

(* read() returns what is there, up to READ_SIZE bytes; it may return less *)
(* than is there.  With nothing there it blocks.                           *)
Read ==
    /\ pc = "read"
    /\ pc' = "scan"
    /\ \E n \in 1 .. READ_SIZE :
          /\ n <= sent - taken /\ Fits(n)
          /\ mem' = [k \in Index |-> IF buffer_end <= k /\ k < buffer_end + n
                                     THEN taken + (k - buffer_end) ELSE mem[k]]
          /\ taken' = taken + n
          /\ buffer_read' = buffer_read + n
          /\ buffer_end' = buffer_end + n
    /\ UNCHANGED <<stream, source, sent, buffer, delivered>>

(* read() is not told how much room there is: with too little, it writes   *)
(* behind buffer_start.  What the program does from then on is undefined   *)
(* and not followed.                                                       *)
Overrun ==
    /\ pc = "read"
    /\ \E n \in 1 .. READ_SIZE : n <= sent - taken /\ ~Fits(n)
    /\ pc' = "overrun"
    /\ UNCHANGED <<stream, source, sent, taken, mem, buffer, buffer_end,
                   buffer_read, delivered>>

(* Faulty variant: a read() of 0 bytes goes on without a scan.             *)
ReadEOFNoScan ==
    /\ pc = "read"
    /\ source = "file" /\ taken = stream.len
    /\ pc' = "clean"
    /\ UNCHANGED <<stream, source, sent, taken, mem, buffer, buffer_end,
                   buffer_read, delivered>>

(* At the end of a file read() returns 0 and the loop goes on.             *)
ReadEOF ==
    /\ pc = "read"
    /\ source = "file" /\ taken = stream.len
    /\ pc' = "scan"
    /\ UNCHANGED <<stream, source, sent, taken, mem, buffer, buffer_end,
                   buffer_read, delivered>>

ReadError ==
    /\ pc = "read"
    /\ pc' = "panic"
    /\ UNCHANGED <<stream, source, sent, taken, mem, buffer, buffer_end,
                   buffer_read, delivered>>

(* The two bytes at k are the magic ones.                                  *)
MagicAt(k) == mem[k] \in stream.heads /\ mem[k + 1] = mem[k] + 1

(* Faulty variant: without a magic pair all that was read is dropped.      *)
DropsTail ==
    {k \in buffer .. buffer_end :
        k = buffer_end \/ (k < buffer_end - FRAME_SIZE /\ MagicAt(k))}

(* Bytes are dropped up to the next magic pair that has a whole header and *)
(* more behind it, or until no more than FRAME_SIZE bytes are left.        *)
ScanStops ==
    {k \in buffer .. buffer_end : k >= buffer_end - FRAME_SIZE \/ MagicAt(k)}

Scan ==
    /\ pc = "scan"
    /\ \E k \in ScanStops :
          /\ \A i \in ScanStops : k <= i
          /\ buffer' = k
          /\ pc' = IF k < buffer_end - FRAME_SIZE THEN "frame" ELSE "clean"
    /\ UNCHANGED <<stream, source, sent, taken, mem, buffer_end, buffer_read,
                   delivered>>

(* Faulty variant: the checksum bytes are not counted.                     *)
NoChecksumBytes == stream.need[mem[buffer]] - 2

(* What the header claims, and the bytes around the payload.               *)
need_size == stream.need[mem[buffer]]

Complete == buffer_end - buffer >= need_size

(* The rest of the frame has not been read yet.                            *)
Incomplete ==
    /\ pc = "frame" /\ ~Complete
    /\ pc' = "clean"
    /\ UNCHANGED <<stream, source, sent, taken, mem, buffer, buffer_end,
                   buffer_read, delivered>>

(* Faulty variant: the whole claimed frame is given up.                    *)
SkipsBadFrame ==
    /\ pc = "frame" /\ Complete
    /\ mem[buffer] \notin stream.good
    /\ buffer' = buffer + need_size
    /\ pc' = "clean"
    /\ UNCHANGED <<stream, source, sent, taken, mem, buffer_end, buffer_read,
                   delivered>>

(* What looked like a frame was none: its magic bytes are given up.        *)
WrongChecksum ==
    /\ pc = "frame" /\ Complete
    /\ mem[buffer] \notin stream.good
    /\ buffer' = buffer + SYNC_SIZE
    /\ pc' = "clean"
    /\ UNCHANGED <<stream, source, sent, taken, mem, buffer_end, buffer_read,
                   delivered>>

(* handle_message gets the frame; it returns whether to stop.              *)
Deliver ==
    /\ pc = "frame" /\ Complete
    /\ mem[buffer] \in stream.good
    /\ buffer' = buffer + need_size
    /\ delivered' = Append(delivered, mem[buffer])
    /\ \E quit \in BOOLEAN : pc' = IF quit THEN "quit" ELSE "clean"
    /\ UNCHANGED <<stream, source, sent, taken, mem, buffer_end, buffer_read>>

Step == Clean \/ Read \/ Overrun \/ ReadEOF \/ Scan \/ Incomplete \/ WrongChecksum
            \/ Deliver

Next == Step \/ Arrive \/ ReadError

Spec == Init /\ [][Next]_vars

(* The process runs whenever it can; the device need not send.             *)
FairSpec == Spec /\ WF_vars(Step)

-----------------------------------------------------------------------------
TypeOK ==
    /\ IsStream(stream) /\ source \in Sources
    /\ sent \in 0 .. stream.len
    /\ taken \in 0 .. sent
    /\ mem \in [Index -> Nat]
    /\ buffer \in 0 .. buffer_end
    /\ buffer_end \in Nat /\ buffer_read \in Nat
    /\ delivered \in Seq(stream.good)
    /\ pc \in {"clean", "read", "scan", "frame", "quit", "panic", "overrun"}

(* The heads at the cursor or before it, those inside the frames handed    *)
(* over aside.                                                             *)
Met ==
    {h \in stream.heads :
        /\ h <= Pos
        /\ \A i \in DOMAIN delivered :
              h <= delivered[i] \/ FrameEnd(stream, delivered[i]) <= h}

(* What makes the unprocessed bytes pile up: a head that is taken back     *)
(* after a wrong checksum, one that claims less than one read() brings, or *)
(* one that claims so much that it is not whole with the buffer full.      *)
Strains(h) ==
    \/ h \notin stream.good
    \/ stream.need[h] < READ_SIZE
    \/ stream.need[h] > BUFFER_SIZE - READ_SIZE + 1

(* "clean up if we're going past the buffer": however fast the bytes come, *)
(* the loop writes past its buffer only if it is full of bytes not dealt   *)
(* with and more have come, and never on frames that are all good, no      *)
(* shorter than a read() and fit with one read() to spare; only what       *)
(* Strains can make it (c/ubx_io.h:66-80, 102-119).                        *)
OverrunHasCause ==
    pc = "overrun" =>
        /\ sent - Pos > BUFFER_SIZE
        /\ \E h \in Met : Strains(h)

(* The bytes between the two cursors are the last ones read, in order and  *)
(* without a gap: header and msg, pointers into them, point at one frame   *)
(* of the stream whatever cleaning moved (c/ubx_io.h:67-80, 100-110).      *)
BufferIsWindow ==
    \A k \in buffer .. (buffer_end - 1) : mem[k] = Pos + (k - buffer)

(* The inductive invariant behind TypeOK, BufferIsWindow and the           *)
(* refinement of Deframer: what the loop relies on between two of its      *)
(* steps.  The two cursors count from the same place and stay inside the   *)
(* buffer; cleaning leaves no room unused; a header that was found is      *)
(* whole.                                                                  *)
IInv ==
    /\ TypeOK
    /\ buffer_end <= BUFFER_SIZE
    /\ BufferIsWindow
    /\ buffer_read = buffer_end
    /\ Pos \in Nat
    /\ pc = "read" => buffer_end <= HIGH_WATER \/ buffer = 0
    /\ pc = "overrun" =>
          sent - Pos > BUFFER_SIZE /\ real_size + READ_SIZE > BUFFER_SIZE
    /\ pc = "frame" => buffer < buffer_end - FRAME_SIZE /\ MagicAt(buffer)

(* Until something strains the buffer, what is left in it when a read()    *)
(* comes leaves room for the read().                                       *)
Room ==
    \/ \E h \in Met : Strains(h)
    \/ IF pc \in {"scan", "frame"} THEN real_size <= BUFFER_SIZE
                                   ELSE real_size + READ_SIZE <= BUFFER_SIZE

Status == IF pc \in {"quit", "panic", "overrun"} THEN pc ELSE "reading"

Abs == INSTANCE Deframer WITH pos <- Pos, status <- Status

(* The handlers see good frames, each once, in order, none overlapping     *)
(* another or cut out of one (c/ubx_io.h:102-130).                         *)
FramesInOrder == InOrder(stream, delivered, Pos)

(* No good frame is lost, however read() cuts the bytes: after a wrong     *)
(* checksum only the magic bytes are given up, since a frame may start     *)
(* inside what looked like one (c/ubx_io.h:82-123).                        *)
NoFrameLost == NoneLost(stream, delivered, Pos)

(* The loop implements the cursor of Deframer: what is delivered does not  *)
(* depend on read sizes, on cleaning or on when bytes arrive.              *)
ImplementsDeframer == Abs!DSpec

-----------------------------------------------------------------------------
(* What the callers of ubx_read see of it, when the stream is frames with  *)
(* nothing between them that looks like one.                               *)
frames == FramesOf(stream)

(* This turn of the loop will hand over the next frame.                    *)
WillDeliver ==
    LET next == Len(delivered) + 1
    IN  /\ pc \in {"scan", "frame"} /\ next <= Len(frames)
        /\ EndOf(stream, frames, next) <= taken
        /\ frames[next] + FRAME_SIZE < taken

(* The frames handed over, that one included.                              *)
Handled ==
    [i \in 1 .. Len(delivered) |-> MessageAt(stream, delivered[i])] \o
    IF WillDeliver THEN <<MessageAt(stream, frames[Len(delivered) + 1])>>
    ELSE <<>>

(* Of the frames, those still to arrive, those not read to their end, and  *)
(* those read and left in the buffer.                                      *)
Coming == Span(stream, BegunIn(stream, sent), Len(frames))
Line   == Span(stream, EndedIn(stream, taken), BegunIn(stream, sent))
Buf    == Span(stream, Len(Handled), EndedIn(stream, taken))

Port == INSTANCE UbxLoop WITH
            FRAMES_PER_READ <- 1 + (READ_SIZE - 1) \div FRAME_SIZE,
            coming <- Coming, line <- Line, buf <- Buf, handled <- Handled

(* To its callers ubx_read is UbxLoop: a read() brings messages, and each  *)
(* turn hands over one at most, in order, as soon as it is visible.  That  *)
(* justifies UbxPort, from which the callers are modelled                  *)
(* (c/ubx_io.h:65-131).                                                    *)
ImplementsPort == Port!LoopSpec

(* The part of the invariant behind it that is about such streams: the     *)
(* cursor is at the next frame or before it.                               *)
AtNextFrame ==
    LET done == Len(delivered)
    IN  /\ stream \in Streams
        /\ done <= Len(frames)
        /\ \A i \in 1 .. done : delivered[i] = frames[i]
        /\ EndOf(stream, frames, done) <= Pos
        /\ done < Len(frames) => Pos <= frames[done + 1]
        /\ pc = "frame" => done < Len(frames) /\ Pos = frames[done + 1]

-----------------------------------------------------------------------------
(* The next frame the cursor will meet is complete in the stream, and a    *)
(* byte follows its first FRAME_SIZE ones, as the scan demands.            *)
FrameWaits ==
    \E h \in stream.heads :
        /\ h >= Pos
        /\ \A g \in stream.heads : g >= Pos => g >= h
        /\ h + stream.need[h] <= stream.len
        /\ h + FRAME_SIZE < stream.len

(* A file is read to its end: although the loop takes one frame per read() *)
(* and falls behind, no complete frame is left waiting for ever once       *)
(* read() returns 0 (c/ubx_io.h:65-131).                                   *)
FileIsDrained ==
    source = "file" ~> [](pc \in {"quit", "panic", "overrun"} \/ ~FrameWaits)

=============================================================================
