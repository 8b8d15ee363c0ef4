------------------------------ MODULE UbxLoop ------------------------------
(***************************************************************************)
(* ubx_read (c/ubx_io.h) as its callers see it, with the messages for its  *)
(* only data: what AgpsDump and AgpsLoad do at their read(), without what  *)
(* their handlers make of a message.  UbxRead implements it.               *)
(***************************************************************************)
EXTENDS UbxPort

VARIABLES
    coming,   (* messages not on the line yet                              *)
    line,     (* messages of which no read() has brought the last byte     *)
    buf,      (* messages read() has brought, not handled yet              *)
    handled   (* messages the handler has been given                       *)

port == <<coming, line, buf, handled>>

(* A line is empty at first, a file is all there.                          *)
LoopInit ==
    /\ line = <<>> \/ coming = <<>>
    /\ buf = <<>> /\ handled = <<>>

(* The first byte of a message arrives.                                    *)
LoopArrive ==
    /\ coming # <<>>
    /\ line' = Append(line, Head(coming))
    /\ coming' = Tail(coming)
    /\ UNCHANGED <<buf, handled>>

(* One turn of the loop after read() has returned.                         *)
Turn(r) ==
    /\ line' = r.line
    /\ IF Visible(r)
       THEN buf' = Tail(r.buf) /\ handled' = Append(handled, Head(r.buf))
       ELSE buf' = r.buf /\ UNCHANGED handled
    /\ UNCHANGED coming

(* With nothing on the line read() blocks.                                 *)
LoopRead ==
    /\ line # <<>>
    /\ \E r \in ReadResults(line, buf) : Turn(r)

(* At the end of a file it returns 0.                                      *)
LoopReadEOF ==
    /\ line = <<>> /\ coming = <<>>
    /\ Turn(Moved(line, buf, 0, FALSE))

LoopNext == LoopArrive \/ LoopRead \/ LoopReadEOF

LoopSpec == LoopInit /\ [][LoopNext]_port

=============================================================================
