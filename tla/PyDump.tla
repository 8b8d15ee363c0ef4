------------------------------- MODULE PyDump -------------------------------
(***************************************************************************)
(* gta02-agps.py --dump: dump_aid_data and UBXDumpHandler                  *)
(* (python/gta02-agps.py, python/ubxlib/ubx_dump.py).  The program polls   *)
(* the receiver, switches the periodic position on, gathers what comes in  *)
(* a dictionary until each part of it has something, and writes that to    *)
(* the dump file.  There is no timeout.                                    *)
(*                                                                         *)
(* The receiver is external: it takes commands in order, answers a poll    *)
(* for almanac or ephemeris with a message for every satellite, in any     *)
(* order, and may send the position since before the program started.      *)
(***************************************************************************)
EXTENDS PyPort

CONSTANTS
    LineMax,  (* bound: messages sent and not yet handled                  *)
    TxMax,    (* bound: commands written and not yet taken                 *)
    OldFiles  (* what the dump file may hold before                        *)

ASSUME DumpAssumption ==
    /\ LineMax \in Nat /\ HELD < LineMax /\ TxMax \in Nat
    /\ OldFiles \subseteq [is : {"old"}, data : Dictionaries]
                               \cup [is : {"cut"}]

VARIABLES
    pc,         (* where the program is                                    *)
    status,     (* "running", or how the process ended                     *)
    aid_data,   (* the dictionary                                          *)
    file,       (* the dump file: as it was, cut, or what was saved        *)
    tx,         (* commands on their way to the receiver                   *)
    line,       (* messages on their way from it                           *)
    held,       (* how many of them, the last ones, wait in the reader     *)
    sky,        (* what the receiver knows, per kind                       *)
    owed,       (* answers it has still to send                            *)
    positions   (* it sends NAV_POSECEF periodically                       *)

device == <<sky, owed, positions>>
vars == <<pc, status, aid_data, file, tx, line, held, device>>

(* Faulty variant: ephemerides are not asked for.                          *)
NoEphRequest == <<"AID_HUI", "AID_ALM", "positions_on">>

(* What dump_aid_data writes before it reads, in order.                    *)
Requests == <<"AID_HUI", "AID_ALM", "AID_EPH", "positions_on">>

Init ==
    /\ pc = "request" /\ status = "running"
    /\ aid_data = [almanac |-> {}, ephemeris |-> {},
                   position |-> FALSE, hui |-> FALSE]
    /\ file \in OldFiles
    /\ tx = <<>> /\ line = <<>> /\ held = 0
    /\ sky \in [{"AID_ALM", "AID_EPH"} -> SUBSET SV]
    /\ owed = {}
    /\ positions \in BOOLEAN

Running(at) == status = "running" /\ pc = at

(* dump_aid_data: the requests; the reader then starts.                    *)
Request ==
    /\ Running("request")
    /\ tx' = tx \o Requests
    /\ pc' = "read"
    /\ UNCHANGED <<status, aid_data, file, line, held, device>>

-----------------------------------------------------------------------------
(* Faulty variant: messages without data are saved too.                    *)
SavesEmpty(m) ==
    CASE m.id = "AID_ALM"     -> [aid_data EXCEPT !.almanac = @ \cup {m.sv}]
      [] m.id = "AID_EPH"     -> [aid_data EXCEPT !.ephemeris = @ \cup {m.sv}]
      [] m.id = "AID_HUI"     -> [aid_data EXCEPT !.hui = TRUE]
      [] m.id = "NAV_POSECEF" -> [aid_data EXCEPT !.position = TRUE]
      [] OTHER                -> aid_data

(* What the handler of a message puts into the dictionary.                 *)
Gathered(m) ==
    CASE m.id = "AID_ALM" /\ m.form = "data" ->
            [aid_data EXCEPT !.almanac = @ \cup {m.sv}]
      [] m.id = "AID_EPH" /\ m.form = "data" ->
            [aid_data EXCEPT !.ephemeris = @ \cup {m.sv}]
      [] m.id = "AID_HUI"     -> [aid_data EXCEPT !.hui = TRUE]
      [] m.id = "NAV_POSECEF" -> [aid_data EXCEPT !.position = TRUE]
      [] OTHER                -> aid_data

(* Faulty variant: health data is not waited for.                          *)
NoHuiNeeded(a) == a.almanac # {} /\ a.ephemeris # {} /\ a.position

(* check_aid_data returns the dictionary, which stops the reader.          *)
check_aid_data(a) ==
    a.almanac # {} /\ a.ephemeris # {} /\ a.position /\ a.hui

Handled == {"AID_ALM", "AID_EPH", "AID_HUI", "NAV_POSECEF"}

(* Faulty variant: no command goes out.                                    *)
WritesNothing(m) == <<>>

(* Every position seen makes the handler switch positions off.             *)
Writes(m) == IF m.id = "NAV_POSECEF" THEN <<"positions_off">> ELSE <<>>

(* decode finds a format, and a handler or none.                           *)
Handle ==
    /\ Running("read") /\ Len(line) > held
    /\ ~NoFormat(Head(line))
    /\ line' = Tail(line)
    /\ aid_data' = Gathered(Head(line))
    /\ tx' = tx \o Writes(Head(line))
    /\ pc' = IF Head(line).id \in Handled /\ check_aid_data(aid_data')
             THEN "open" ELSE "read"
    /\ UNCHANGED <<status, file, held, device>>

(* decode finds no format and calls logger.info, which does not exist: the *)
(* AttributeError ends the program.                                        *)
Raise ==
    /\ Running("read") /\ Len(line) > held
    /\ NoFormat(Head(line))
    /\ line' = Tail(line)
    /\ status' = "raised"
    /\ UNCHANGED <<pc, aid_data, file, tx, held, device>>

-----------------------------------------------------------------------------
(* open(dumpfile, 'w') truncates it, ...                                   *)
Open ==
    /\ Running("open")
    /\ file' = [is |-> "cut"]
    /\ pc' = "write"
    /\ UNCHANGED <<status, aid_data, tx, line, held, device>>

(* ... and the dictionary reaches it when the interpreter closes it.       *)
Write ==
    /\ Running("write")
    /\ file' = [is |-> "saved", data |-> aid_data]
    /\ status' = "exit_0"
    /\ UNCHANGED <<pc, aid_data, tx, line, held, device>>

(* The program is killed, as it has to be when it does not end.            *)
Kill ==
    /\ status = "running"
    /\ status' = "killed"
    /\ UNCHANGED <<pc, aid_data, file, tx, line, held, device>>

-----------------------------------------------------------------------------
(* External: what the receiver owes an answer on, a satellite at a time.   *)
Polled(command) ==
    CASE command \in {"AID_ALM", "AID_EPH"} ->
            {[id |-> command, sv |-> sv] : sv \in SV}
      [] command = "AID_HUI" -> {[id |-> "AID_HUI"]}
      [] OTHER -> {}

(* Data about a satellite is what the receiver knows, and it sends what it *)
(* knows.                                                                  *)
Truthful(m) ==
    m.id \in {"AID_ALM", "AID_EPH"} =>
        (m.form = "data" <=> m.sv \in sky[m.id])

Answers(poll) ==
    {m \in Messages :
        /\ m.id = poll.id /\ (m.id # "AID_HUI" => m.sv = poll.sv)
        /\ Truthful(m)}

(* It takes a command.                                                     *)
Obey ==
    /\ tx # <<>>
    /\ tx' = Tail(tx)
    /\ owed' = owed \cup Polled(Head(tx))
    /\ positions' = CASE Head(tx) = "positions_on"  -> TRUE
                      [] Head(tx) = "positions_off" -> FALSE
                      [] OTHER                      -> positions
    /\ UNCHANGED <<pc, status, aid_data, file, line, held, sky>>

(* What it sends once the program has ended is left out.                   *)
Send(m) ==
    /\ status = "running" /\ Len(line) < LineMax
    /\ line' = Append(line, m)
    /\ held' \in Waiting(line', held)
    /\ UNCHANGED <<pc, status, aid_data, file, tx, sky, positions>>

Answer ==
    \E poll \in owed :
        /\ \E m \in Answers(poll) : Send(m)
        /\ owed' = owed \ {poll}

Position ==
    /\ positions /\ Len(tx) + Len(line) < TxMax
    /\ Send([id |-> "NAV_POSECEF"])
    /\ UNCHANGED owed

Chat == \E m \in Others : Send(m) /\ UNCHANGED owed

Host == Request \/ Handle \/ Raise \/ Open \/ Write

Next == Host \/ Kill \/ Obey \/ Answer \/ Position \/ Chat

Spec == Init /\ [][Next]_vars

(* The process runs whenever it can, and the receiver takes commands; it   *)
(* sends what it owes, and the position while that is on, however much     *)
(* else it has to send.                                                    *)
FairSpec ==
    Spec /\ WF_vars(Host) /\ WF_vars(Obey) /\ SF_vars(Answer) /\ SF_vars(Position)

-----------------------------------------------------------------------------
Saved == file.is = "saved"

Polls == [id : {"AID_ALM", "AID_EPH"}, sv : SV] \cup {[id |-> "AID_HUI"]}

TypeOK ==
    /\ pc \in {"request", "read", "open", "write"}
    /\ status \in {"running", "exit_0", "raised", "killed"}
    /\ aid_data \in Dictionaries
    /\ file \in OldFiles \cup [is : {"cut"}]
                   \cup [is : {"saved"}, data : {aid_data}]
    /\ tx \in Seq({"AID_HUI", "AID_ALM", "AID_EPH", "positions_on",
                   "positions_off"})
    /\ line \in Seq(Messages) /\ held \in 0 .. HELD
    /\ sky \in [{"AID_ALM", "AID_EPH"} -> SUBSET SV]
    /\ owed \subseteq Polls
    /\ positions \in BOOLEAN

(* The old dump is given up only when there is some of everything to put   *)
(* in its place, wherever the program is stopped or fails                  *)
(* (python/gta02-agps.py:38-40, python/ubxlib/ubx_dump.py:10-14).          *)
OldDumpKept ==
    [][file' # file =>
          /\ status = "running"
          /\ aid_data.almanac # {} /\ aid_data.ephemeris # {}
          /\ aid_data.position /\ aid_data.hui]_vars

(* What is saved of a satellite is data, never the receiver's word that it *)
(* has none, which a later load would feed back to it                      *)
(* (python/ubxlib/ubx_dump.py:25-39).                                      *)
SavedIsData ==
    Saved => /\ file.data.almanac \subseteq sky["AID_ALM"]
             /\ file.data.ephemeris \subseteq sky["AID_EPH"]

(* After a dump the receiver ends up with positions switched off, also     *)
(* when they were on before and a position overtook the command to switch  *)
(* them on (python/ubxlib/ubx_dump.py:16-23, python/gta02-agps.py:22-27).  *)
PositionSwitchedOff == [](status = "exit_0" => <>[]~positions)

(* By the time it has taken the last command, that is.                     *)
NoPositionsLeft == status = "exit_0" /\ tx = <<>> => ~positions

(* If the receiver has data for a satellite in each kind, and always sends *)
(* something more, for which the last answer may have to wait, the dump    *)
(* ends, in whatever order the answers come: with what it has saved, or    *)
(* with the AttributeError of Raise (python/ubxlib/ubx_dump.py:10-45,      *)
(* python/ubxlib/ubx_reader.py:17).                                        *)
DumpEnds ==
    (\A id \in DOMAIN sky : sky[id] # {}) /\ WF_vars(Chat)
        => <>(status # "running")

(* A message the program does not know is passed over: only a handler that *)
(* returns something stops the reader, "if this returns True, read is      *)
(* stopped" (python/ubxlib/ubx_reader.py:57, 79-81).                       *)
UnknownIsPassedOver == status # "raised"

(* What is saved is complete: "Check if aid data is complete and if so     *)
(* return it" (python/ubxlib/ubx_dump.py:11).                              *)
SavedIsComplete ==
    Saved => /\ file.data.almanac = sky["AID_ALM"]
             /\ file.data.ephemeris = sky["AID_EPH"]

-----------------------------------------------------------------------------
(* The invariant the safety properties follow from (PySessionProofs).      *)

NothingInvented ==
    /\ \A i \in DOMAIN line : Truthful(line[i])
    /\ aid_data.almanac \subseteq sky["AID_ALM"]
    /\ aid_data.ephemeris \subseteq sky["AID_EPH"]

CompleteWhenSaved ==
    /\ pc \in {"open", "write"} => check_aid_data(aid_data)
    /\ Saved => status = "exit_0" /\ check_aid_data(aid_data)

IInv == TypeOK /\ NothingInvented /\ CompleteWhenSaved

(* No position is handled before the command that switches positions on is *)
(* written; each one after it has them switched off.                       *)
OffIsLast ==
    /\ pc = "request" => ~aid_data.position
    /\ aid_data.position =>
          IF tx = <<>> THEN ~positions ELSE tx[Len(tx)] = "positions_off"
    /\ status = "exit_0" => pc = "write"

=============================================================================
