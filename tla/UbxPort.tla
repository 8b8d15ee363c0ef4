------------------------------ MODULE UbxPort ------------------------------
(***************************************************************************)
(* What a caller of ubx_read (c/ubx_io.h) sees of it, one message at a     *)
(* time: a descriptor may be treated as a sequence of good messages, each  *)
(* handled once, in order, since UbxRead implements UbxLoop.               *)
(*                                                                         *)
(* Two things of the loop remain visible at this level: it handles at most *)
(* one message per read(), whatever that read() brought, and it looks at a *)
(* message only once a byte has followed its first 8.                      *)
(***************************************************************************)
EXTENDS Integers, Sequences, FiniteSets

CONSTANT FRAMES_PER_READ  (* whole messages one read() may bring; 32 bytes *)
                          (* hold up to 4                                  *)

ASSUME PortAssumption == FRAMES_PER_READ \in Nat \ {0}

(* The messages the programs tell apart by msg_is, and any other.          *)
Ids == {"AID_ALM", "AID_EPH", "AID_HUI", "NAV_POSECEF", "AID_DATA", "OTHER"}

(* A payload has the size the code expects of its id, or another one, or   *)
(* there is none.                                                          *)
Sizes == {"full", "bare", "empty"}

Messages == [id : Ids, size : Sizes]

Full(id) == [id |-> id, size |-> "full"]

(* read(): the first n messages on the line move behind what buf still     *)
(* holds, and with part some bytes of the next one.                        *)
Moved(line, buf, n, part) ==
    [line |-> SubSeq(line, n + 1, Len(line)),
     buf  |-> buf \o SubSeq(line, 1, n),
     part |-> part]

(* It brings a byte at least, so with no whole message a part of one.      *)
ReadResults(line, buf) ==
    LET brought == {n \in 0 .. Len(line) : n <= FRAMES_PER_READ}
    IN  {Moved(line, buf, n, TRUE) : n \in brought \ {Len(line)}} \cup
        {Moved(line, buf, n, FALSE) : n \in brought \ {0}}

(* The message at the head of r.buf is whole and more than 8 bytes are     *)
(* there: it has a payload, or bytes of a next message follow it.          *)
Visible(r) ==
    /\ r.buf # <<>>
    /\ Head(r.buf).size # "empty" \/ Len(r.buf) > 1 \/ r.part

=============================================================================
