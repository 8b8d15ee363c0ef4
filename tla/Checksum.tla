------------------------------ MODULE Checksum ------------------------------
(***************************************************************************)
(* The two bytes at the end of a frame: how each program computes them     *)
(* when it writes (ubx_construct, UBXWriter.send), what is written down    *)
(* as the wake-up sequence (c/fixnow.h), and how each compares them when   *)
(* it reads (ubx_read, UBXReader.read).  The C program sums in chars,      *)
(* which the target and the developer's machine take to be unsigned and    *)
(* signed; the Python program sums in integers and takes the remainder.    *)
(*                                                                         *)
(* Writer and reader go over their bytes here in step, which they may, as  *)
(* they share nothing.  On the way the line may change a byte or exchange  *)
(* two neighbours, but in the size, by which the reader finds the end.     *)
(***************************************************************************)
EXTENDS Integers, Sequences

CONSTANTS
    Bytes,       (* values a byte may have                                 *)
    PayloadMax   (* bound: bytes of payload                                *)

ASSUME BytesAssumption ==
    /\ Bytes \subseteq 0 .. 255
    /\ PayloadMax \in 0 .. 65535

VARIABLES
    signed,   (* char is a signed type                                     *)
    writer,   (* who builds the frame                                      *)
    reader,   (* who reads it                                              *)
    bytes,    (* the bytes summed: class, id, two of size, payload         *)
    damage,   (* what happens to them: kind, and place and byte            *)
    got,      (* the bytes as they arrive                                  *)
    count,    (* how many have been summed                                 *)
    written,  (* ck_a and ck_b of the writer                               *)
    summed,   (* ck_a and ck_b of the reader                               *)
    trailer,  (* the two bytes behind the payload as they arrive           *)
    verdict   (* "none" yet, "good" or "wrong_checksum"                    *)

checksum_vars == <<signed, writer, reader, bytes, damage, got, count,
                   written, summed, trailer, verdict>>

CPrograms == {"ubx_construct", "ubx_read"}
Writers == {"ubx_construct", "UBXWriter.send", "WAKEUP_SEQ"}
Readers == {"ubx_read", "UBXReader.read"}

(* The empty RXM-POSREQ of WAKEUP_SEQ, and its checksum as written there.  *)
RXM_POSREQ == <<2, 64, 0, 0>>
WAKEUP_CHECKSUM == <<66, 200>>

(* GPS_UBX_HEAD_s without the prefix, ...                                  *)
Head4(klassId, msgId, len) == <<klassId, msgId, len % 256, len \div 256>>

(* ... and the payload.                                                    *)
OfSize(len) ==
    {Head4(klassId, msgId, len) \o payload :
        klassId \in Bytes, msgId \in Bytes, payload \in [1 .. len -> Bytes]}

Contents == UNION {OfSize(len) : len \in 0 .. PayloadMax}

(* The places of class, id and payload.                                    *)
Places(s) == {1, 2} \cup 5 .. Len(s)

Intact == [kind |-> "none", place |-> 0, byte |-> 0]

Damages(s) ==
    {Intact}
    \cup {d \in [kind : {"changed"}, place : Places(s), byte : Bytes] :
              d.byte # s[d.place]}
    \cup {d \in [kind : {"swapped"}, place : Places(s), byte : {0}] :
              d.place + 1 \in Places(s) /\ s[d.place] # s[d.place + 1]}
    \cup [kind : {"trailer"}, place : {1, 2}, byte : Bytes \ {0}]

(* What arrives of s.                                                      *)
Arrives(s, d) ==
    CASE d.kind = "changed" -> [s EXCEPT ![d.place] = d.byte]
      [] d.kind = "swapped" -> [s EXCEPT ![d.place] = s[d.place + 1],
                                         ![d.place + 1] = s[d.place]]
      [] OTHER              -> s

Zero == [a |-> 0, b |-> 0]

ChecksumInit ==
    /\ signed \in BOOLEAN
    /\ writer \in Writers /\ reader \in Readers
    /\ bytes \in IF writer = "WAKEUP_SEQ" THEN {RXM_POSREQ} ELSE Contents
    /\ damage \in Damages(bytes)
    /\ got = Arrives(bytes, damage)
    /\ count = 0
    /\ written = Zero /\ summed = Zero
    /\ trailer = <<>>
    /\ verdict = "none"

(* An int as a char.                                                       *)
Char(i) == IF signed /\ i % 256 > 127 THEN (i % 256) - 256 ELSE i % 256

(* Faulty variant: the second sum is one of bytes, too.                    *)
SumsBytes(program, ck, byte) ==
    IF program \in CPrograms
    THEN [a |-> Char(ck.a + Char(byte)), b |-> Char(ck.b + Char(byte))]
    ELSE [a |-> ck.a + byte, b |-> ck.b + byte]

(* One turn of the loops of checksum, in either program.                   *)
Add(program, ck, byte) ==
    IF program \in CPrograms
    THEN LET ck_a == Char(ck.a + Char(byte))
         IN  [a |-> ck_a, b |-> Char(ck.b + ck_a)]
    ELSE [a |-> ck.a + byte, b |-> ck.b + (ck.a + byte)]

Sum ==
    /\ count < Len(bytes)
    /\ count' = count + 1
    /\ written' = Add(writer, written, bytes[count + 1])
    /\ summed' = Add(reader, summed, got[count + 1])
    /\ UNCHANGED <<signed, writer, reader, bytes, damage, got, trailer,
                   verdict>>

(* memcpy of a char, or struct.pack("<BB") of the remainders: one byte     *)
(* each.                                                                   *)
Packed(ck) == <<ck.a % 256, ck.b % 256>>

(* The line changes a byte by d, whichever it is.                          *)
Changed(t, d) == [t EXCEPT ![d.place] = (@ + d.byte) % 256]

Write ==
    /\ count = Len(bytes) /\ trailer = <<>>
    /\ LET t == IF writer = "WAKEUP_SEQ" THEN WAKEUP_CHECKSUM ELSE Packed(written)
       IN  trailer' = IF damage.kind = "trailer" THEN Changed(t, damage) ELSE t
    /\ UNCHANGED <<signed, writer, reader, bytes, damage, got, count,
                   written, summed, verdict>>

(* Faulty variant: the byte behind the payload is taken as unsigned.       *)
ComparesBytes(ck, t) ==
    IF reader \in CPrograms THEN ck.a = t[1] /\ ck.b = t[2] ELSE Packed(ck) = t

(* ubx_read compares chars, UBXReader.read what unpack("<BB") makes of the *)
(* bytes.                                                                  *)
Equal(ck, t) ==
    IF reader \in CPrograms
    THEN ck.a = Char(t[1]) /\ ck.b = Char(t[2])
    ELSE Packed(ck) = t

Judge ==
    /\ trailer # <<>> /\ verdict = "none"
    /\ verdict' = IF Equal(summed, trailer) THEN "good" ELSE "wrong_checksum"
    /\ UNCHANGED <<signed, writer, reader, bytes, damage, got, count,
                   written, summed, trailer>>

ChecksumNext == Sum \/ Write \/ Judge

ChecksumSpec == ChecksumInit /\ [][ChecksumNext]_checksum_vars

-----------------------------------------------------------------------------
(* What either program writes, either accepts, whatever a char is, and     *)
(* both accept the wake-up sequence, whose checksum was computed by hand   *)
(* (c/ubx_io.h:17-41, 112-119, 134-153, c/fixnow.h:17,                     *)
(* python/ubxlib/ubx.py:241-249, python/ubxlib/ubx_writer.py:33,           *)
(* python/ubxlib/ubx_reader.py:37).                                        *)
IntactIsAccepted == verdict # "none" /\ damage = Intact => verdict = "good"

(* A frame in which one byte was changed, or two different neighbours were *)
(* exchanged, is rejected by both: the second sum, of the first one's      *)
(* values, is what tells the order (c/ubx_io.h:29, 35,                     *)
(* python/ubxlib/ubx.py:246).                                              *)
DamagedIsRejected == verdict = "good" => damage = Intact

-----------------------------------------------------------------------------
(* The invariant both follow from (UbxReadProofs).                        *)
ChecksumTypeOK ==
    /\ signed \in BOOLEAN /\ writer \in Writers /\ reader \in Readers
    /\ bytes \in Seq(0 .. 255) /\ Len(bytes) >= 4
    /\ damage \in Damages(bytes) /\ got = Arrives(bytes, damage)
    /\ count \in 0 .. Len(bytes)
    /\ written \in [a : Int, b : Int] /\ summed \in [a : Int, b : Int]
    /\ trailer = <<>> \/ trailer \in (0 .. 255) \X (0 .. 255)
    /\ verdict \in {"none", "good", "wrong_checksum"}

Same(x, y) == (x - y) % 256 = 0

(* The sums of the reader differ from those of the writer by what the line *)
(* has done to the bytes summed so far: by the change; or by the           *)
(* difference of the neighbours, the first sum between the two of them     *)
(* only, the second one from there on.                                     *)
SumsFollowDamage ==
    LET p == damage.place
    IN  /\ damage.kind \in {"none", "trailer"} =>
              Same(summed.a, written.a) /\ Same(summed.b, written.b)
        /\ damage.kind = "changed" =>
              Same(summed.a,
                   written.a
                       + (IF count < p THEN 0 ELSE damage.byte - bytes[p]))
        /\ damage.kind = "swapped" =>
              LET d == bytes[p + 1] - bytes[p]
              IN  /\ Same(summed.a, written.a + (IF count = p THEN d ELSE 0))
                  /\ Same(summed.b, written.b + (IF count < p THEN 0 ELSE d))

(* The sums of the wake-up sequence, byte by byte.                         *)
WakeUpSums ==
    writer = "WAKEUP_SEQ" =>
        /\ bytes = RXM_POSREQ
        /\ written = CASE count = 0 -> Zero
                       [] count = 1 -> [a |-> 2, b |-> 2]
                       [] count = 2 -> [a |-> 66, b |-> 68]
                       [] count = 3 -> [a |-> 66, b |-> 134]
                       [] OTHER -> [a |-> 66, b |-> 200]

(* The trailer is the writer's sums, but for the line.                     *)
TrailerIsWritten ==
    /\ reader \in CPrograms => Char(summed.a) = summed.a /\ Char(summed.b) = summed.b
    /\ trailer # <<>> =>
          /\ count = Len(bytes)
          /\ trailer = IF damage.kind = "trailer"
                       THEN Changed(Packed(written), damage) ELSE Packed(written)
    /\ verdict # "none" =>
          trailer # <<>> /\ (verdict = "good" <=> Equal(summed, trailer))

ChecksumIInv ==
    ChecksumTypeOK /\ SumsFollowDamage /\ WakeUpSums /\ TrailerIsWritten

=============================================================================
