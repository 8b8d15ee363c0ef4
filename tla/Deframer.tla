------------------------------ MODULE Deframer ------------------------------
(***************************************************************************)
(* What ubx_read promises, without its buffer: a cursor moves over the     *)
(* stream from head to head.  A good head is delivered and its frame is    *)
(* jumped over; a head with a wrong checksum is given up by moving past    *)
(* its magic bytes; any other byte is passed.  Nothing depends on how the  *)
(* bytes are cut into read() calls.                                        *)
(***************************************************************************)
EXTENDS UbxStream

VARIABLES
    stream,     (* everything that will ever come in                       *)
    sent,       (* how many of its bytes have come in                      *)
    pos,        (* the cursor: everything before it has been dealt with    *)
    delivered,  (* the heads of the frames given to the handler, in order  *)
    status      (* "reading", "quit" (the handler said stop), "panic" (no  *)
                (* more can be read) or "overrun" (no room for what was)   *)

dvars == <<stream, sent, pos, delivered, status>>

(* Of any stream, not only of Streams.                                     *)
DInit ==
    /\ IsStream(stream)
    /\ sent \in 0 .. stream.len
    /\ pos = 0
    /\ delivered = <<>>
    /\ status = "reading"

(* More bytes come in.                                                     *)
DArrive ==
    /\ sent' \in sent .. stream.len
    /\ UNCHANGED <<stream, pos, delivered, status>>

(* Bytes that start no frame are passed.                                   *)
DSkip ==
    /\ status = "reading"
    /\ \E p \in pos .. sent :
          /\ \A q \in pos .. (p - 1) : q \notin stream.heads
          /\ pos' = p
    /\ UNCHANGED <<stream, sent, delivered, status>>

AtHead == pos \in stream.heads /\ pos + stream.need[pos] <= sent

(* A complete frame with a wrong checksum: only its magic bytes go.        *)
DReject ==
    /\ status = "reading"
    /\ AtHead /\ pos \notin stream.good
    /\ pos' = pos + SYNC_SIZE
    /\ UNCHANGED <<stream, sent, delivered, status>>

(* A complete good frame is handed over, once; the handler may say stop.   *)
DDeliver ==
    /\ status = "reading"
    /\ AtHead /\ pos \in stream.good
    /\ pos' = pos + stream.need[pos]
    /\ delivered' = Append(delivered, pos)
    /\ status' \in {"reading", "quit"}
    /\ UNCHANGED <<stream, sent>>

(* read() fails, or brings more than the reader has room for.              *)
DFail ==
    /\ status = "reading"
    /\ status' \in {"panic", "overrun"}
    /\ UNCHANGED <<stream, sent, pos, delivered>>

DNext == DArrive \/ DSkip \/ DReject \/ DDeliver \/ DFail

DSpec == DInit /\ [][DNext]_dvars

=============================================================================
