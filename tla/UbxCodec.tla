------------------------------ MODULE UbxCodec ------------------------------
(***************************************************************************)
(* One message with a good checksum meets both programs.                   *)
(*                                                                         *)
(* The Python program decodes it (UBXReader.decode, ubx_reader.py), may    *)
(* keep what it decoded (UBXDumpHandler, ubx_dump.py), and packs what it   *)
(* kept when it loads (UBXWriter.send, ubx_writer.py, as UBXLoadHandler    *)
(* calls it).  The C program may save the payload as it is                 *)
(* (dump_handle_message, c/dump_agps.h).                                   *)
(*                                                                         *)
(* A value is told by where in the payload it was read and as what.        *)
(***************************************************************************)
EXTENDS UbxFormats

CONSTANT Frames  (* the messages tried: their id and payload size          *)

ASSUME FramesAssumption == Frames \subseteq [id : Nat, size : Nat]

(* The sizes MSGFMT states, and its formats, which are kept apart by hand  *)
(* (python/ubxlib/ubx.py:96-237).  No prover adds up a hundred tables: TLC *)
(* does.                                                                   *)
ASSUME FormatsAssumption ==
    /\ \A f \in MSGFMT : f.le \in Nat /\ calcsize(f.fmt) = f.le
    /\ \A v \in MSGFMT_None :
          /\ v.base_size \in Nat /\ calcsize(v.base) = v.base_size
          /\ v.rep_size \in Nat \ {0} /\ calcsize(v.rep) = v.rep_size

Values == [at : Nat, size : 1 .. 32,
           is : {"signed", "unsigned", "float", "chars"}]

(* MSGFMT_INV and CLIDPAIR are dictionaries: a key has one entry, and a    *)
(* format of AID_ALM, say, is found under that name only.  Every value of  *)
(* a format has a name (python/ubxlib/ubx.py:13-254).                      *)
ASSUME EntriesAssumption ==
    /\ \A f, g \in MSGFMT :
          CLIDPAIR[f.clid] = CLIDPAIR[g.clid] /\ f.le = g.le => f = g
    /\ \A v, w \in MSGFMT_None : CLIDPAIR[v.clid] = CLIDPAIR[w.clid] => v = w
    /\ \A f \in MSGFMT :
          Fields(f.fmt) \in Seq(Values) /\ f.names = Len(Fields(f.fmt))
    /\ \A v \in MSGFMT_None :
          /\ Fields(v.base) \in Seq(Values) /\ v.base_names = Len(Fields(v.base))
          /\ Fields(v.rep) \in Seq(Values) /\ v.rep_names = Len(Fields(v.rep))

VARIABLES
    frame,    (* the message                                               *)
    py_pc,    (* where the Python program is with it, or how it ended      *)
    data,     (* decode: the records decoded so far                        *)
    kept,     (* the record put into aid_data, or <<>>                     *)
    packed,   (* what is sent of it: from where a value, to where          *)
    c_pc,     (* where the C program is with it: "read" or "done"          *)
    c_saved   (* the C program saved it                                    *)

python == <<py_pc, data, kept, packed>>
codec_vars == <<frame, python, c_pc, c_saved>>

CodecInit ==
    /\ frame \in Frames
    /\ py_pc = "decode" /\ data = <<>> /\ kept = <<>> /\ packed = {}
    /\ c_pc = "read" /\ c_saved = FALSE

-----------------------------------------------------------------------------
Named(clid) == CLIDPAIR[clid] = frame.id

(* MSGFMT_INV[((cl, id), length)] and MSGFMT_INV[((cl, id), None)].        *)
Fixed  == {f \in MSGFMT : Named(f.clid) /\ f.le = frame.size}
Varied == {v \in MSGFMT_None : Named(v.clid)}

(* The bytes in payload[from:to].                                          *)
Slice(from, to) == Min({to, frame.size}) - Min({from, frame.size})

(* dict(zip(names, values)).                                               *)
Record(fmt, names, from) ==
    LET values == unpack(fmt, from)
    IN  SubSeq(values, 1, Min({names, Len(values)}))

(* struct.unpack raises struct.error, which nobody catches, unless it gets *)
(* as many bytes as the format has.                                        *)
Unpack(fmt, names, from, to, next) ==
    LET fits == calcsize(fmt) = Slice(from, to)
    IN  /\ data' = IF fits THEN Append(data, Record(fmt, names, from)) ELSE data
        /\ py_pc' = IF fits THEN next ELSE "struct.error"

LengthMatches(v) == (frame.size - v.base_size) % v.rep_size = 0

DecodeFixed ==
    /\ py_pc = "decode"
    /\ \E f \in Fixed : Unpack(f.fmt, f.names, 0, frame.size, "handle")
    /\ UNCHANGED <<frame, kept, packed, c_pc, c_saved>>

DecodeBase ==
    /\ py_pc = "decode" /\ Fixed = {}
    /\ \E v \in Varied :
          /\ LengthMatches(v)
          /\ Unpack(v.base, v.base_names, 0, v.base_size, "blocks")
    /\ UNCHANGED <<frame, kept, packed, c_pc, c_saved>>

(* Faulty variant: one block too many.                                     *)
OneMoreBlock(v) == (frame.size - v.base_size) \div v.rep_size + 1

Blocks(v) == (frame.size - v.base_size) \div v.rep_size

(* Faulty variant: blocks are looked for from the front of the payload.    *)
BlockFromFront(v, i) == v.rep_size * i

BlockAt(v, i) == v.base_size + v.rep_size * i

(* The i-th block, from 0, comes when the base and i blocks are decoded.   *)
DecodeBlock ==
    /\ py_pc = "blocks"
    /\ \E v \in Varied :
          LET i == Len(data) - 1
              offset == BlockAt(v, i)
          IN  /\ i < Blocks(v)
              /\ Unpack(v.rep, v.rep_names, offset, offset + v.rep_size,
                        "blocks")
    /\ UNCHANGED <<frame, kept, packed, c_pc, c_saved>>

DecodeEnds ==
    /\ py_pc = "blocks"
    /\ \A v \in Varied : Len(data) - 1 >= Blocks(v)
    /\ py_pc' = "handle"
    /\ UNCHANGED <<frame, data, kept, packed, c_pc, c_saved>>

(* logger.error, which exits.                                              *)
WrongLength ==
    /\ py_pc = "decode" /\ Fixed = {}
    /\ \E v \in Varied : ~LengthMatches(v)
    /\ py_pc' = "exit"
    /\ UNCHANGED <<frame, data, kept, packed, c_pc, c_saved>>

(* logger.info, which does not exist.                                      *)
UnknownMessage ==
    /\ py_pc = "decode" /\ Fixed = {} /\ Varied = {}
    /\ py_pc' = "AttributeError"
    /\ UNCHANGED <<frame, data, kept, packed, c_pc, c_saved>>

-----------------------------------------------------------------------------
(* Faulty variant: a satellite's message without data is kept as well.     *)
AnyRecord(record) == TRUE

(* "DWRD0" in data, "SF1D0" in data: the third name of their formats.      *)
HasWords(record) == Len(record) >= 3

(* What the dump's handlers keep.                                          *)
Kept ==
    \/ (Named("AID_ALM") \/ Named("AID_EPH")) /\ HasWords(data[1])
    \/ Named("AID_HUI") \/ Named("NAV_POSECEF")

Handle ==
    /\ py_pc = "handle"
    /\ \/ Kept  /\ kept' = data[1] /\ py_pc' = "load"
       \/ ~Kept /\ kept' = <<>>    /\ py_pc' = "done"
    /\ UNCHANGED <<frame, data, packed, c_pc, c_saved>>

(* The lengths with which the load sends what the dump has kept.           *)
SentWith == [AID_EPH |-> 104, AID_HUI |-> 72, AID_ALM |-> 40]

Sent == {f \in MSGFMT : /\ f.clid \in DOMAIN SentWith
                        /\ Named(f.clid) /\ f.le = SentWith[f.clid]}

(* struct.pack takes its values from the record by name; a name that is    *)
(* not there raises KeyError.                                              *)
Send ==
    /\ py_pc = "load"
    /\ \E f \in Sent :
          LET there == {i \in 1 .. f.names : i <= Len(kept)}
          IN  /\ packed' = {<<kept[i], unpack(f.fmt, 0)[i]>> : i \in there}
              /\ py_pc' = IF there = 1 .. f.names THEN "done" ELSE "KeyError"
    /\ UNCHANGED <<frame, data, kept, c_pc, c_saved>>

(* Of a position three values go into an AID-INI instead.                  *)
SendPosition ==
    /\ py_pc = "load" /\ Named("NAV_POSECEF")
    /\ py_pc' = "done"
    /\ UNCHANGED <<frame, data, kept, packed, c_pc, c_saved>>

-----------------------------------------------------------------------------
TheStruct(name) == CHOOSE s \in Structs : s.name = name

msg_is(name) == TheStruct(name).id = frame.id

(* The sizes with which dump_handle_message saves a message.               *)
Accepts ==
    \/ msg_is("AID_ALM") /\ frame.size = 40
    \/ msg_is("AID_EPH") /\ frame.size = 104
    \/ /\ msg_is("AID_HUI")
       /\ frame.size = sizeof(TheStruct("AID_HUI").base)
    \/ /\ msg_is("NAV_POSECEF")
       /\ frame.size = sizeof(TheStruct("NAV_POSECEF").base)

(* The bytes that are packed, given which value goes where.                *)
PackedSize(pairs) == MapThenSumSet(LAMBDA p : p[2].size, pairs)

(* Every value goes where it was read.                                     *)
AsRead(fmt) ==
    {<<unpack(fmt, 0)[i], unpack(fmt, 0)[i]>> : i \in DOMAIN Fields(fmt)}

(* The messages that both programs dump, with the size of one with data.   *)
(* The Python program tells one without by its number of names; all that a *)
(* format reads are the bytes of the message.                              *)
DumpedSizes == [AID_ALM |-> 40, AID_EPH |-> 104, AID_HUI |-> 72,
                NAV_POSECEF |-> 20]

ASSUME DumpedAssumption ==
    /\ \A name, other \in DOMAIN DumpedSizes :
          CLIDPAIR[name] = CLIDPAIR[other] => name = other
    /\ \A name \in DOMAIN DumpedSizes :
          /\ TheStruct(name).id = CLIDPAIR[name]
          /\ \A v \in MSGFMT_None : CLIDPAIR[v.clid] # CLIDPAIR[name]
          /\ \E f \in MSGFMT : f.clid = name /\ f.le = DumpedSizes[name]
          /\ \A f \in MSGFMT : CLIDPAIR[f.clid] = CLIDPAIR[name] =>
                /\ f.clid = name
                /\ IF f.le = DumpedSizes[name] THEN f.names >= 3
                   ELSE name \in {"AID_ALM", "AID_EPH"} /\ f.names < 3
                /\ f.le = DumpedSizes[name] => PackedSize(AsRead(f.fmt)) = f.le
    /\ PackStruct => \A name \in {"AID_HUI", "NAV_POSECEF"} :
                        sizeof(TheStruct(name).base) = DumpedSizes[name]

dump_handle_message ==
    /\ c_pc = "read"
    /\ c_saved' = Accepts
    /\ c_pc' = "done"
    /\ UNCHANGED <<frame, python>>

decode == DecodeFixed \/ DecodeBase \/ DecodeBlock \/ DecodeEnds
            \/ WrongLength \/ UnknownMessage

CodecNext == decode \/ Handle \/ Send \/ SendPosition \/ dump_handle_message

CodecSpec == CodecInit /\ [][CodecNext]_codec_vars

-----------------------------------------------------------------------------
Ends == {"done", "exit", "AttributeError", "struct.error", "KeyError"}

Stopped == py_pc \in Ends

CodecTypeOK ==
    /\ frame \in [id : Nat, size : Nat]
    /\ py_pc \in {"decode", "blocks", "handle", "load"} \cup Ends
    /\ data \in Seq(Seq(Values))
    /\ kept \in Seq(Values)
    /\ packed \subseteq Values \X Values
    /\ c_pc \in {"read", "done"}
    /\ c_saved \in BOOLEAN

(* The payload size a struct has, and those it may have.                   *)
HasSize(s, size) ==
    LET more == size - sizeof(s.base)
    IN  more = 0 \/ (s.repeat0 # <<>> /\ more >= 0
                        /\ more % sizeof(s.repeat0) = 0)

(* What the C program would read of a payload through struct s.            *)
CastPayload(s, size) ==
    Cast(s.base) \cup
    {[v EXCEPT !.at = @ + sizeof(s.base) + k * sizeof(s.repeat0)] :
        v \in Cast(s.repeat0),
        k \in IF s.repeat0 = <<>> THEN {}
              ELSE 0 .. (size - sizeof(s.base)) \div sizeof(s.repeat0) - 1}

(* Six values of AID-HUI and the quality of a channel of NAV-SVINFO are    *)
(* signed for one program and unsigned for the other.                      *)
SignDiffers == {\h0B02, \h0130}

SameValue(id, v, w) ==
    /\ v.at = w.at /\ v.size = w.size
    /\ \/ v.is = w.is
       \/ id \in SignDiffers /\ {v.is, w.is} = {"signed", "unsigned"}

(* Each of the values is a field.                                          *)
AreAmong(id, values, fields) ==
    \A i \in DOMAIN values : \E v \in fields : SameValue(id, v, values[i])

(* The tables of both programs, entry by entry.  A format that comes with  *)
(* a length names fields of each struct that may have it.  Of a message of *)
(* several blocks that is said of the base and of one block, if the struct *)
(* has blocks; otherwise its one size tells the number of them.            *)
FormatIsStruct(f, s) ==
    HasSize(s, f.le) => AreAmong(s.id, unpack(f.fmt, 0), CastPayload(s, f.le))

VariedIsStruct(v, s) ==
    /\ AreAmong(s.id, unpack(v.base, 0), Cast(s.base))
    /\ IF s.repeat0 = <<>>
       THEN \A i \in 0 .. (sizeof(s.base) - v.base_size) \div v.rep_size - 1 :
               AreAmong(s.id, unpack(v.rep, BlockAt(v, i)), Cast(s.base))
       ELSE /\ sizeof(s.base) = v.base_size
            /\ sizeof(s.repeat0) = v.rep_size
            /\ AreAmong(s.id, unpack(v.rep, 0), Cast(s.repeat0))

ASSUME StructsAssumption ==
    PackStruct =>
       \A s \in Structs :
          /\ sizeof(s.base) \in Nat
          /\ \A f \in MSGFMT : CLIDPAIR[f.clid] = s.id => FormatIsStruct(f, s)
          /\ \A v \in MSGFMT_None :
                CLIDPAIR[v.clid] = s.id => VariedIsStruct(v, s)

(* No message the receiver sends, whatever its number of blocks, ends the  *)
(* Python program with a struct.error, which would cost the whole dump:    *)
(* the sizes MSGFMT states and those of its formats are kept apart by hand *)
(* (python/ubxlib/ubx.py:96-237, python/ubxlib/ubx_reader.py:58-77).       *)
UnpackFits == py_pc # "struct.error"

(* No message is shorter than its base, which the receiver sends whole.    *)
BasesAreWhole ==
    \A m \in Frames, v \in MSGFMT_None :
        CLIDPAIR[v.clid] = m.id => m.size >= v.base_size

(* Both programs read the same values of a message: where a struct of      *)
(* ubx.h declares a message, each value the Python formats name is one of  *)
(* its fields, at the same place, in every block                           *)
(* (python/ubxlib/ubx_reader.py:58-77, c/ubx.h:97-2434).                   *)
DecodedIsStruct ==
    \A s \in {t \in Structs : t.id = frame.id /\ HasSize(t, frame.size)} :
        \A j \in DOMAIN data :
            AreAmong(s.id, data[j], CastPayload(s, frame.size))

(* What the load sends of a satellite or of the constellation's health is  *)
(* byte for byte what the dump was sent: nothing lost to a pad, nothing    *)
(* moved, no name missing (python/ubxlib/ubx_dump.py:25-46,                *)
(* python/ubxlib/ubx_load.py:46-64, python/ubxlib/ubx_writer.py:9-36).     *)
SentAsDumped ==
    /\ py_pc # "KeyError"
    /\ packed # {} =>
          /\ \A p \in packed : p[1] = p[2]
          /\ PackedSize(packed) = frame.size

(* Both programs dump the same messages: sizeof in dump_handle_message and *)
(* the lengths in MSGFMT pick the same payloads                            *)
(* (c/dump_agps.h:85-112, c/Makefile:5-6, python/ubxlib/ubx_dump.py:16-46).*)
BothDumpTheSame ==
    Stopped /\ c_pc = "done" => (c_saved <=> kept # <<>>)

-----------------------------------------------------------------------------
(* The invariant the properties follow from (PyReaderProofs).              *)

(* What has been decoded of the message.                                   *)
Decoded ==
    \/ \E f \in Fixed : data = <<Record(f.fmt, f.names, 0)>>
    \/ \E v \in Varied :
          /\ Fixed = {} /\ LengthMatches(v)
          /\ Len(data) - 1 <= Blocks(v)
          /\ data[1] = Record(v.base, v.base_names, 0)
          /\ \A j \in 2 .. Len(data) :
                data[j] = Record(v.rep, v.rep_names, BlockAt(v, j - 2))

CodecIInv ==
    /\ CodecTypeOK /\ frame \in Frames
    /\ UnpackFits /\ SentAsDumped
    /\ data # <<>> => Decoded
    /\ py_pc = "decode" => data = <<>>
    /\ py_pc \in {"blocks", "handle", "load"} => data # <<>>
    /\ py_pc = "blocks" => Fixed = {}
    /\ py_pc \in {"decode", "blocks", "handle"} => kept = <<>>
    /\ py_pc = "load" => kept = data[1] /\ kept # <<>>
    /\ py_pc \in {"load"} \cup Ends => (Accepts <=> kept # <<>>)
    /\ c_pc = "done" => c_saved = Accepts

=============================================================================
