---------------------------- MODULE MCPySession ----------------------------
(***************************************************************************)
(* Small instances of PySession; the file from before is a dump of every   *)
(* satellite.  Of the messages without a format only those about an        *)
(* ephemeris come.  Satellites are interchangeable.                        *)
(***************************************************************************)
EXTENDS PySession, TLC

MCOthers == {[id |-> "Known"]}

MCOldFiles ==
    {[is |-> "old",
      data |-> [almanac |-> SV, ephemeris |-> SV,
                position |-> TRUE, hui |-> TRUE]]}

Satellites == Permutations(SV)

=============================================================================
