------------------------------ MODULE PyReader ------------------------------
(***************************************************************************)
(* UBXReader.read (python/ubxlib/ubx_reader.py): the Python counterpart of *)
(* ubx_read.  It differs in how it reads (file.read(8), which blocks until *)
(* 8 bytes are there), in its buffer (a string of any length) and in how   *)
(* it gets past a wrong checksum (it searches on from buffer_offset and    *)
(* drops what is before a frame only once that frame is known to be good). *)
(*                                                                         *)
(* self.buffer holds the bytes base .. taken - 1 of the stream: slices cut *)
(* it at the front, reads extend it at the end.                            *)
(***************************************************************************)
EXTENDS UbxStream

CONSTANTS
    READ_SIZE,  (* bytes asked of one file.read(): 8                       *)
    Sources     (* what stdin is: a "tty", or a "pipe" or file that ends   *)

ASSUME ReadAssumption ==
    READ_SIZE \in Nat \ {0} /\ Sources \subseteq {"tty", "pipe"}

VARIABLES
    stream,         (* everything stdin will ever yield                    *)
    source,         (* what stdin is                                       *)
    sent,           (* bytes that have arrived at stdin                    *)
    taken,          (* bytes that file.read() has returned so far          *)
    base,           (* where in the stream self.buffer begins              *)
    buffer_offset,  (* where in self.buffer the search begins              *)
    start,          (* where in self.buffer it ended; -1: nothing found    *)
    delivered,      (* the frames decoded and given to the handler         *)
    pc              (* where the loop is                                   *)

vars == <<stream, source, sent, taken, base, buffer_offset, start,
          delivered, pc>>

Init ==
    /\ stream \in Streams
    /\ source \in Sources
    /\ sent = 0 /\ taken = 0 /\ base = 0
    /\ buffer_offset = 0
    /\ start = 0
    /\ delivered = <<>>
    /\ pc = "read"

(* The sender puts one more byte on the line.                              *)
Arrive ==
    /\ sent < stream.len
    /\ sent' = sent + 1
    /\ UNCHANGED <<stream, source, taken, base, buffer_offset, start,
                   delivered, pc>>

(* file.read() returns READ_SIZE bytes; fewer only at the end of the       *)
(* input, where it returns none from then on.                              *)
Read ==
    /\ pc = "read"
    /\ pc' = "find"
    /\ \/ sent - taken >= READ_SIZE /\ taken' = taken + READ_SIZE
       \/ /\ source = "pipe" /\ sent = stream.len
          /\ sent - taken < READ_SIZE /\ taken' = sent
    /\ UNCHANGED <<stream, source, sent, base, buffer_offset, start,
                   delivered>>

(* The magic pairs that lie in the buffer from buffer_offset on.           *)
Pairs ==
    {h \in stream.heads : base + buffer_offset <= h /\ h + SYNC_SIZE <= taken}

Find ==
    /\ pc = "find"
    /\ pc' = "judge"
    /\ \/ Pairs = {} /\ start' = -1
       \/ \E h \in Pairs : (\A g \in Pairs : h <= g) /\ start' = h - base
    /\ UNCHANGED <<stream, source, sent, taken, base, buffer_offset,
                   delivered>>

-----------------------------------------------------------------------------
NotAtStart == buffer_offset = 0 /\ start # 0

(* Faulty variant: with nothing found the whole buffer is dropped.         *)
DropsLastByte == IF start = -1 THEN taken ELSE base + start

(* self.buffer[start:], where [-1:] keeps the last byte, if there is one.  *)
DiscardTo ==
    IF start = -1 THEN IF base < taken THEN taken - 1 ELSE base
                  ELSE base + start

(* Bytes before the first magic pair are dropped.                          *)
Discard ==
    /\ pc = "judge" /\ NotAtStart
    /\ base' = DiscardTo
    /\ start' = 0
    /\ pc' = "read"
    /\ UNCHANGED <<stream, source, sent, taken, buffer_offset, delivered>>

head == base + start

(* Faulty variant: one byte behind the frame is waited for.                *)
NeedsOneMore == start # -1 /\ taken > head + stream.need[head]

(* A magic pair was found, and the frame its header claims is all there.   *)
Complete == start # -1 /\ taken >= head + stream.need[head]

(* No magic pair behind the rejected one, or not enough data.              *)
Incomplete ==
    /\ pc = "judge" /\ ~NotAtStart /\ ~Complete
    /\ pc' = "read"
    /\ UNCHANGED <<stream, source, sent, taken, base, buffer_offset, start,
                   delivered>>

Judged == pc = "judge" /\ ~NotAtStart /\ Complete

(* Faulty variant: the search goes on behind the whole claimed frame.      *)
SkipsBadFrame ==
    /\ Judged /\ head \notin stream.good
    /\ buffer_offset' = start + stream.need[head]
    /\ pc' = "read"
    /\ UNCHANGED <<stream, source, sent, taken, base, start, delivered>>

(* The search goes on behind the magic pair; the bytes stay in the buffer. *)
WrongChecksum ==
    /\ Judged /\ head \notin stream.good
    /\ buffer_offset' = start + SYNC_SIZE
    /\ pc' = "read"
    /\ UNCHANGED <<stream, source, sent, taken, base, start, delivered>>

(* A good frame behind rejected bytes: these are dropped first.            *)
DropRejected ==
    /\ Judged /\ head \in stream.good /\ start # 0
    /\ base' = head
    /\ buffer_offset' = 0 /\ start' = 0
    /\ pc' = "read"
    /\ UNCHANGED <<stream, source, sent, taken, delivered>>

(* decode gives the frame to the handler, which says whether to stop.      *)
Decode ==
    /\ Judged /\ head \in stream.good /\ start = 0
    /\ base' = base + stream.need[base]
    /\ buffer_offset' = 0
    /\ delivered' = Append(delivered, base)
    /\ pc' \in {"read", "quit"}
    /\ UNCHANGED <<stream, source, sent, taken, start>>

(* decode raises an exception, which nobody catches: for a message it does *)
(* not know, or by exit() in logger.error.                                 *)
DecodeRaises ==
    /\ Judged /\ head \in stream.good /\ start = 0
    /\ pc' = "raised"
    /\ UNCHANGED <<stream, source, sent, taken, base, buffer_offset, start,
                   delivered>>

Step == Read \/ Find \/ Discard \/ Incomplete \/ WrongChecksum
            \/ DropRejected \/ Decode \/ DecodeRaises

Next == Step \/ Arrive

Spec == Init /\ [][Next]_vars

(* The process runs whenever it can; the sender need not send, but what is *)
(* in a pipe or file will come.                                            *)
FairSpec == Spec /\ WF_vars(Step) /\ WF_vars(Arrive /\ source = "pipe")

-----------------------------------------------------------------------------
TypeOK ==
    /\ IsStream(stream) /\ source \in Sources
    /\ sent \in 0 .. stream.len
    /\ taken \in 0 .. sent
    /\ base \in 0 .. taken
    /\ buffer_offset \in 0 .. (taken - base)
    /\ start \in -1 .. (taken - base)
    /\ delivered \in Seq(stream.good)
    /\ pc \in {"read", "find", "judge", "quit", "raised"}

(* The place in the stream of the first byte not dealt with.               *)
Pos == base + (IF start > buffer_offset THEN start ELSE buffer_offset)

(* The inductive invariant behind TypeOK and the refinement of Deframer:   *)
(* start, once beyond buffer_offset, stays where the search would end      *)
(* again, however many bytes are read meanwhile.                           *)
IInv ==
    /\ TypeOK
    /\ start > buffer_offset \/ (pc = "judge" /\ start # -1) =>
          head \in Pairs /\ \A g \in Pairs : head <= g
    /\ pc = "judge" /\ start = -1 => Pairs = {}

Finished == pc \in {"quit", "raised"}

Status == CASE pc = "quit" -> "quit" [] pc = "raised" -> "panic"
            [] OTHER -> "reading"

Abs == INSTANCE Deframer WITH pos <- Pos, status <- Status

(* The handler sees good frames, each once, in order, none overlapping     *)
(* another (python/ubxlib/ubx_reader.py:32-51).                            *)
FramesInOrder == InOrder(stream, delivered, Pos)

(* No good frame is lost: not to a magic pair cut between two reads, not   *)
(* to rejected bytes before it or around it                                *)
(* (python/ubxlib/ubx_reader.py:21-45).                                    *)
NoFrameLost == NoneLost(stream, delivered, Pos)

(* The Python loop implements the same cursor as the C loop: "They differ  *)
(* only a little" (README) and not in which frames they take               *)
(* (python/ubxlib/ubx_reader.py:12-54).                                    *)
ImplementsDeframer == Abs!DSpec

(* The head the cursor will meet next, if there is one, ...               *)
NextHead == {h \in stream.heads :
                h >= Pos /\ \A g \in stream.heads : g >= Pos => g >= h}

(* ... and it, if the frame it claims is all among the first n bytes.      *)
NextFrameIn(n) == {h \in NextHead : FrameEnd(stream, h) <= n}

(* At the end of the input no complete frame is left waiting, although the *)
(* loop takes at most one per read and spends reads on dropping bytes      *)
(* (python/ubxlib/ubx_reader.py:15-54).                                    *)
PipeIsDrained ==
    source = "pipe" ~> [](Finished \/ NextFrameIn(stream.len) = {})

(* A good frame that has come in whole does not wait for ever: reading by  *)
(* 8 bytes is taken to be safe since "Minimum packet length is 8"          *)
(* (python/ubxlib/ubx_reader.py:16-17).                                    *)
ArrivedIsHandled ==
    []<>(Finished \/ NextFrameIn(sent) \cap stream.good = {})

=============================================================================
