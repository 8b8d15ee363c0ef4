---------------------------- MODULE AgpsSession ----------------------------
(***************************************************************************)
(* What the programs are for (c/README.md, SUSPEND): the aid data is       *)
(* dumped, the receiver is switched off and on again, and the dump is      *)
(* loaded.  The two programs run one after the other on the same line and  *)
(* share nothing but the dump file, whatever became of the first.          *)
(*                                                                         *)
(* The first process is AgpsDump as it stands; its variables pc, status,   *)
(* armed, file, buf and line become those of the second.                   *)
(***************************************************************************)
EXTENDS AgpsDump

CONSTANT AskMax  (* bound: how often the receiver asks for aid data        *)

VARIABLES
    program,  (* the program that runs: "dump", then "load"                *)
    saved,    (* what a dump that ended normally has written, whole        *)
    fed, next, asked  (* of the load                                       *)

Load == INSTANCE AgpsLoad WITH Files <- OldFiles

load_only == <<fed, next, asked>>
session_vars == <<program, saved, load_only, vars>>

SessionInit ==
    /\ program = "dump" /\ saved = <<>>
    /\ Init
    /\ fed = <<>> /\ next = 0 /\ asked = 0

DumpDoes(step) ==
    /\ program = "dump"
    /\ step
    /\ UNCHANGED <<program, saved, load_only>>

(* The dump has ended, the whole of its buffer written.                    *)
DumpComplete == status = "exit_0" /\ pc = "close" /\ file = dump_buffer

(* The receiver is switched off and on, and load_agps is started.          *)
Restart ==
    /\ program = "dump" /\ status # "running"
    /\ program' = "load"
    /\ saved' = IF DumpComplete THEN dump_buffer ELSE <<>>
    /\ pc' = "open" /\ status' = "running" /\ armed' = FALSE
    /\ buf' = <<>> /\ line' = <<>>
    /\ requested' = 0 /\ dump_buffer' = <<>> /\ dump_used' = 0
    /\ got' = [id \in DOMAIN got |-> 0]
    /\ dumped' = [id \in DOMAIN dumped |-> 0]
    /\ tx' = <<>> /\ ecef_on' = FALSE
    /\ owed' = [id \in DOMAIN owed |-> 0]
    /\ UNCHANGED <<file, load_only>>

LoadDoes(step) ==
    /\ program = "load"
    /\ step
    /\ UNCHANGED <<program, saved, requested, collection, tx, device>>

SessionNext == DumpDoes(Next) \/ Restart \/ LoadDoes(Load!Next)

SessionSpec == SessionInit /\ [][SessionNext]_session_vars

(* Of each program what its own module asks for; the receiver need not     *)
(* send, and the phone need not be restarted.                              *)
SessionFairSpec ==
    /\ SessionSpec
    /\ WF_session_vars(DumpDoes(Host)) /\ WF_session_vars(DumpDoes(Alarm))
    /\ WF_session_vars(DumpDoes(Obey))
    /\ WF_session_vars(LoadDoes(Load!Host))
    /\ WF_session_vars(LoadDoes(Load!Alarm))

-----------------------------------------------------------------------------
Loaded == program = "load" /\ pc = "feed" /\ status = "exit_0"

(* A complete dump can always be loaded: the load does not hang on it,     *)
(* since a position is in it (c/dump_agps.h:106-113, c/load_agps.h:88).    *)
CompleteDumpLoads ==
    program = "load" /\ saved # <<>> ~> status # "running"

(* The two programs agree on the file: of a complete dump, a load that     *)
(* ends normally has turned every message up to the first position into    *)
(* one for the receiver, with its data, and the position into the last:    *)
(* the dump saves nothing the load would drop                              *)
(* (c/dump_agps.h:84-120, c/load_agps.h:71-129).                           *)
LoadedFromDump ==
    Loaded /\ saved # <<>> =>
        /\ saved[next].id = "NAV_POSECEF"
        /\ Len(fed) = next /\ fed[next].id = "AID_INI"
        /\ \A i \in 1 .. next : fed[i].size = "full"

(* "this should be the last message in file" (c/load_agps.h:125), said of  *)
(* the position at which the load stops: all that was dumped is loaded.    *)
PositionIsLast == Loaded /\ saved # <<>> => next = Len(saved)

-----------------------------------------------------------------------------
(* The invariant the safety properties follow from (AgpsSessionProofs).    *)

(* What a complete dump consists of; the load sends one message for each.  *)
Dumped == [id : Wanted, size : {"full"}]

FedAsDumped == fed = [i \in 1 .. next |-> Load!SendsAs(saved[i])[1]]

SessionIInv ==
    /\ program \in {"dump", "load"}
    /\ program = "dump" => IInv /\ saved = <<>> /\ fed = <<>> /\ next = 0
    /\ program = "load" =>
          /\ SavedAsCounted /\ dump_used = 0 /\ tx = <<>> /\ ~ecef_on
          /\ file \in Seq(Messages) /\ next \in 0 .. Len(file)
          /\ pc = "feed" /\ status = "exit_0" =>
                next > 0 /\ file[next].id = "NAV_POSECEF"
          /\ saved # <<>> =>
                file = saved /\ saved \in Seq(Dumped) /\ FedAsDumped

=============================================================================
