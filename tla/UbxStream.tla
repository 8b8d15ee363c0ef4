----------------------------- MODULE UbxStream -----------------------------
(***************************************************************************)
(* The bytes that travel on one direction of a serial line, or that lie in *)
(* a dump file, seen the way ubx_read (c/ubx_io.h) sees them.              *)
(*                                                                         *)
(* A byte is its position 0 .. len-1 in the stream.  What its value is     *)
(* does not matter to the reader, apart from three questions it asks:      *)
(*   heads  the positions where the two magic bytes B5 62 stand;           *)
(*   need   for such a position, the size its header claims for the whole  *)
(*          frame: payload + 6 bytes of header + 2 of checksum;            *)
(*   good   the heads whose two checksum bytes are the right ones.         *)
(* A head that is not good is noise that looks like a header, or a frame   *)
(* damaged on the line.  Heads may lie anywhere, inside frames included.   *)
(***************************************************************************)
EXTENDS Integers, Sequences

CONSTANTS
    FRAME_SIZE,  (* bytes of a frame around its payload: 8 in the code     *)
    SYNC_SIZE,   (* the magic bytes at the start of a header: 2            *)
    Streams      (* the streams that may come in                           *)

ASSUME SizeAssumption ==
    /\ SYNC_SIZE = 2
    /\ FRAME_SIZE \in Nat
    /\ FRAME_SIZE >= SYNC_SIZE

(* A stream holds whole heads only, and B5 62 cannot start on both of two  *)
(* neighbouring bytes.                                                     *)
IsStream(s) ==
    /\ s.len \in Nat
    /\ s.heads \subseteq 0 .. (s.len - SYNC_SIZE)
    /\ s.need \in [s.heads -> Nat]
    /\ s.good \subseteq s.heads
    /\ \A h \in s.heads : s.need[h] >= FRAME_SIZE /\ h + 1 \notin s.heads

ASSUME StreamsAssumption == \A s \in Streams : IsStream(s)

-----------------------------------------------------------------------------
(* Below, d is a sequence of heads handed over by a reader that has dealt  *)
(* with the bytes of s before p.                                           *)
FrameEnd(s, h) == h + s.need[h]

(* The frames in d are good, stand in stream order, do not overlap, and    *)
(* all their bytes are before p.                                           *)
InOrder(s, d, p) ==
    /\ \A i \in DOMAIN d : d[i] \in s.good /\ FrameEnd(s, d[i]) <= p
    /\ \A i, j \in DOMAIN d : i < j => FrameEnd(s, d[i]) <= d[j]

(* A good head before p is in d, or lies inside a frame that is.           *)
NoneLost(s, d, p) ==
    \A h \in s.good :
        h < p => \E i \in DOMAIN d : d[i] <= h /\ h < FrameEnd(s, d[i])

-----------------------------------------------------------------------------
(* Streams that are good frames and, between them, bytes that look like    *)
(* none: NMEA sentences, say.  f lists where the frames begin; what        *)
(* precedes a frame is counted as part of it.                              *)
EndOf(s, f, i) == IF i = 0 THEN 0 ELSE FrameEnd(s, f[i])

(* Heads inside the payloads do not matter.                                *)
IsFrames(s, f) ==
    /\ \A i \in DOMAIN f :
          /\ EndOf(s, f, i - 1) <= f[i]
          /\ \A h \in s.heads : h < f[i] => h < EndOf(s, f, i - 1)
    /\ s.len = EndOf(s, f, Len(f))

FrameLists(s) == UNION {[1 .. n -> s.good] : n \in 0 .. s.len \div FRAME_SIZE}

OnlyFrames == \A s \in Streams : \E f \in FrameLists(s) : IsFrames(s, f)

FramesOf(s) == CHOOSE f \in FrameLists(s) : IsFrames(s, f)

(* How many of the frames have ended, and have begun, within the first t   *)
(* bytes.                                                                  *)
EndedIn(s, t) ==
    LET f == FramesOf(s)
    IN  CHOOSE n \in 0 .. Len(f) :
            /\ EndOf(s, f, n) <= t
            /\ \A i \in 0 .. Len(f) : EndOf(s, f, i) <= t => i <= n

BegunIn(s, t) ==
    LET f == FramesOf(s)
    IN  CHOOSE n \in 0 .. Len(f) :
            /\ EndOf(s, f, n) >= t
            /\ \A i \in 0 .. Len(f) : EndOf(s, f, i) >= t => n <= i

(* A frame as UbxPort's Visible sees it: which one it is, and whether it   *)
(* has a payload.                                                          *)
MessageAt(s, h) ==
    [id |-> h, size |-> IF s.need[h] = FRAME_SIZE THEN "empty" ELSE "full"]

(* The frames behind the i-th up to the j-th.                              *)
Span(s, i, j) == [k \in 1 .. j - i |-> MessageAt(s, FramesOf(s)[i + k])]

=============================================================================
