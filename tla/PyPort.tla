------------------------------- MODULE PyPort -------------------------------
(***************************************************************************)
(* What a handler sees of UBXReader.read and decode                        *)
(* (python/ubxlib/ubx_reader.py), one message at a time: PyReader and its  *)
(* refinement of Deframer say why stdin may be treated as a sequence of    *)
(* good messages.                                                          *)
(*                                                                         *)
(* The reader takes stdin eight bytes at a time and waits for the eighth,  *)
(* so the last messages that have arrived may have to wait in it for bytes *)
(* behind them.  How many do depends on lengths and places that are left   *)
(* out here: any number up to HELD may.  Frames alone, of eight bytes at   *)
(* least, leave one at most waiting.                                       *)
(***************************************************************************)
EXTENDS Integers, Sequences, FiniteSets

CONSTANTS
    SV,      (* the satellites a receiver may know of                      *)
    Others,  (* messages of other kinds it may send                        *)
    HELD     (* bound: messages that wait in the reader                    *)

ASSUME PortAssumption ==
    /\ IsFiniteSet(SV) /\ HELD \in Nat
    /\ Others \subseteq {[id |-> "Known"], [id |-> "Unknown"]}

(* A message about a satellite has data words, or it says that the         *)
(* receiver has no data: in eight bytes, or of an ephemeris in four        *)
(* ("brief", c/ubx.h:2405).                                                *)
SVMessages ==
    [id : {"AID_ALM", "AID_EPH"}, sv : SV, form : {"data", "nodata"}]
        \cup [id : {"AID_EPH"}, sv : SV, form : {"brief"}]

(* "Known" has a format in MSGFMT and no handler; "Unknown" has no format  *)
(* for its length.                                                         *)
Messages == SVMessages
    \cup [id : {"AID_HUI", "NAV_POSECEF", "AID_DATA", "Known", "Unknown"}]

(* The dictionary aid_data, by satellite, as it is saved and evaluated:    *)
(* of position and health data whether they are there.                     *)
Dictionaries == [almanac : SUBSET SV, ephemeris : SUBSET SV,
                 position : BOOLEAN, hui : BOOLEAN]

(* MSGFMT_INV has neither ((cl, id), length) nor ((cl, id), None).         *)
NoFormat(m) == m.id = "Unknown" \/ (m.id = "AID_EPH" /\ m.form = "brief")

(* How many of the messages in line wait once one more has arrived, when   *)
(* held did before: it may wait too, or release some.                      *)
Waiting(line, held) ==
    {n \in 0 .. HELD : n <= held + 1 /\ n <= Len(line)}

=============================================================================
