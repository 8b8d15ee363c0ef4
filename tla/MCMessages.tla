----------------------------- MODULE MCMessages -----------------------------
(***************************************************************************)
(* What is in the messages, for TLC: their checksums (Checksum), AID_INI   *)
(* (AidIni) and the formats of all (UbxCodec).  The three share nothing,   *)
(* so a behaviour is of one of them, while the other two stay in some      *)
(* first state of theirs.                                                  *)
(***************************************************************************)
EXTENDS MCAidIni, MCUbxCodec, Checksum

VARIABLE part  (* what the behaviour is of                                 *)

ChecksumRests ==
    /\ signed = FALSE /\ writer = "WAKEUP_SEQ" /\ reader = "ubx_read"
    /\ bytes = RXM_POSREQ /\ damage = Intact
    /\ ChecksumInit

IniRests ==
    /\ program = "c" /\ utc = EPOCH + TIME_ACCURACY /\ clock = utc
    /\ leaps = C_LEAPS /\ pos = [known |-> TRUE, pAcc |-> 0] /\ hui = FALSE
    /\ IniInit

CodecRests ==
    /\ frame = [id |-> CLIDPAIR["AID_HUI"], size |-> 72]
    /\ CodecInit

MessagesInit ==
    \/ part = "checksum" /\ IniRests /\ CodecRests /\ ChecksumInit
    \/ part = "ini" /\ ChecksumRests /\ CodecRests /\ IniInit
    \/ part = "codec" /\ ChecksumRests /\ IniRests /\ CodecInit

MessagesNext ==
    /\ \/ part = "checksum" /\ ChecksumNext /\ UNCHANGED <<ini_vars, codec_vars>>
       \/ part = "ini" /\ IniNext /\ UNCHANGED <<checksum_vars, codec_vars>>
       \/ part = "codec" /\ CodecNext /\ UNCHANGED <<checksum_vars, ini_vars>>
    /\ UNCHANGED part

MessagesSpec ==
    MessagesInit /\ [][MessagesNext]_<<part, checksum_vars, ini_vars, codec_vars>>

=============================================================================
