----------------------------- MODULE PySession -----------------------------
(***************************************************************************)
(* gta02-agps.py --dump, the receiver off and on, then gta02-agps.py       *)
(* [--reset] --load (python/README.md): two processes that share nothing   *)
(* but the dump file, whatever became of the first.                        *)
(*                                                                         *)
(* The first process is PyDump as it stands; its variables pc, status,     *)
(* file, tx, line and held become those of the second.  sky remembers what *)
(* the receiver knew before it was switched off.                           *)
(***************************************************************************)
EXTENDS PyDump

CONSTANT AskMax  (* bound: how often the receiver asks for aid data        *)

ASSUME AskAssumption == AskMax \in Nat

VARIABLES
    program,  (* the program that runs: "dump", then "load"                *)
    saved,    (* the file is of this session's dump                        *)
    left, fed, announce, asked  (* of the load                             *)

Load == INSTANCE PyLoad WITH Files <- OldFiles

load_only == <<left, fed, announce, asked>>
session_vars == <<program, saved, load_only, vars>>

SessionInit ==
    /\ program = "dump" /\ saved = FALSE
    /\ Init
    /\ left = <<>> /\ fed = <<>> /\ announce = FALSE /\ asked = 0

DumpDoes(step) ==
    /\ program = "dump"
    /\ step
    /\ UNCHANGED <<program, saved, load_only>>

(* The receiver is switched off and on, and the load is started, with or   *)
(* without --reset.                                                        *)
Restart ==
    /\ program = "dump" /\ status # "running"
    /\ program' = "load"
    /\ saved' = (file.is = "saved")
    /\ pc' \in {"reset", "eval"} /\ status' = "running"
    /\ aid_data' = [almanac |-> {}, ephemeris |-> {},
                    position |-> FALSE, hui |-> FALSE]
    /\ tx' = <<>> /\ line' = <<>> /\ held' = 0
    /\ owed' = {} /\ positions' = FALSE
    /\ UNCHANGED <<file, sky, load_only>>

LoadDoes(step) ==
    /\ program = "load"
    /\ step
    /\ UNCHANGED <<program, saved, aid_data, device>>

SessionNext == DumpDoes(Next) \/ Restart \/ LoadDoes(Load!Next)

SessionSpec == SessionInit /\ [][SessionNext]_session_vars

(* Of each program what its own module asks for.                           *)
SessionFairSpec ==
    /\ SessionSpec
    /\ WF_session_vars(DumpDoes(Host)) /\ WF_session_vars(DumpDoes(Obey))
    /\ SF_session_vars(DumpDoes(Answer)) /\ SF_session_vars(DumpDoes(Position))
    /\ WF_session_vars(LoadDoes(Load!Host))
    /\ WF_session_vars(LoadDoes(Load!Obey))

-----------------------------------------------------------------------------
(* A load of this session's dump that ends normally has given back to the  *)
(* receiver an almanac, an ephemeris, its position as valid and the health *)
(* data, and of no satellite anything it did not have before it was        *)
(* switched off: nothing gets lost or comes up between the handlers that   *)
(* fill the dictionary, the file and the handler that empties it           *)
(* (python/ubxlib/ubx_dump.py:10-45, python/ubxlib/ubx_load.py:40-66).     *)
LoadedFromDump ==
    program = "load" /\ saved /\ status = "exit_0" =>
        LET Fed(id) == {i \in DOMAIN fed : fed[i].id = id}
        IN  /\ \A id \in DOMAIN sky :
                  /\ Fed(id) # {}
                  /\ \A i \in Fed(id) : fed[i].sv \in sky[id]
            /\ Fed("AID_HUI") # {}
            /\ \A i \in Fed("AID_INI") : fed[i].valid

-----------------------------------------------------------------------------
(* The invariant the safety properties follow from (PySessionProofs).      *)

(* What of this session's dump is in the file.                             *)
FileIsTruthful ==
    /\ file.data.almanac \subseteq sky["AID_ALM"]
    /\ file.data.ephemeris \subseteq sky["AID_EPH"]
    /\ check_aid_data(file.data)

(* Fed and left to feed is what the handler made of the file.              *)
FeedingTheFile ==
    /\ left \in Seq(Load!AidSet) /\ fed \in Seq(Load!AidSet)
    /\ Load!FeedingTheFile

SessionIInv ==
    /\ program \in {"dump", "load"}
    /\ program = "dump" =>
          IInv /\ OffIsLast /\ ~saved /\ fed = <<>> /\ left = <<>>
    /\ program = "load" =>
          /\ saved = Saved /\ ~positions
          /\ sky \in [{"AID_ALM", "AID_EPH"} -> SUBSET SV]
          /\ file.is # "cut" => file.data \in Dictionaries
          /\ saved => FileIsTruthful
          /\ FeedingTheFile

=============================================================================
