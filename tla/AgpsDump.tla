------------------------------ MODULE AgpsDump ------------------------------
(***************************************************************************)
(* gta02-gps --dump-agps (dump_agps, c/dump_agps.h, as main calls it): the *)
(* program asks the receiver for almanac, ephemeris, health and position,  *)
(* collects what comes until it has some of each or its alarm goes off,    *)
(* and then writes the collected messages to the dump file.                *)
(*                                                                         *)
(* The receiver is external: it answers each poll with up to Sats          *)
(* messages, in any order, sends the position whenever that is switched    *)
(* on, and may still owe answers to a program that was stopped earlier.    *)
(* Answers may be lost on the line; commands are not.                      *)
(***************************************************************************)
EXTENDS UbxPort

CONSTANTS
    Sats,       (* answers to one AID_ALM or AID_EPH poll: 32 satellites   *)
    Stale,      (* answers per poll still owed from an earlier run         *)
    LineMax,    (* bound: messages sent and not yet handled                *)
    DUMP_SIZE,  (* size of dump_buffer_start: 16000                        *)
    OldFiles    (* what the dump file may hold before                      *)

Wanted == {"AID_ALM", "AID_EPH", "AID_HUI", "NAV_POSECEF"}

(* Payload of a full message and the 8 bytes around it.                    *)
FrameBytes == [AID_ALM |-> 48, AID_EPH |-> 112, AID_HUI |-> 80,
               NAV_POSECEF |-> 28]

ASSUME DumpAssumption ==
    /\ Sats \in Nat /\ Stale \in Nat /\ LineMax \in Nat
    /\ DUMP_SIZE \in Nat
    /\ \A f \in OldFiles : f \in Seq(Messages)
    /\ DUMP_SIZE >= (Sats + Stale) * (48 + 112) + 80 + 28

VARIABLES
    pc,           (* where dump_agps is                                    *)
    status,       (* "running", or how the process ended                   *)
    requested,    (* how many of Requests have been written                *)
    armed,        (* the alarm clock is set                                *)
    got,          (* alm_got, eph_got, hui_got, ecef_got                   *)
    dumped,       (* alm_dumped, eph_dumped                                *)
    dump_buffer,  (* the messages saved                                    *)
    dump_used,    (* dump_buffer - dump_buffer_start, in bytes             *)
    file,         (* what the dump file holds                              *)
    buf,          (* whole messages in the buffer of ubx_read              *)
    tx,           (* commands on their way to the receiver                 *)
    line,         (* messages on their way from it                         *)
    owed,         (* answers the receiver has still to send                *)
    ecef_on       (* the receiver sends NAV_POSECEF periodically           *)

collection == <<got, dumped, dump_buffer, dump_used>>
host == <<requested, armed, collection>>
device == <<owed, ecef_on>>
vars == <<pc, status, host, file, buf, tx, line, device>>

(* What dump_agps writes before it reads, in order.                        *)
Requests == <<"AID_HUI", "AID_ALM", "AID_EPH", "ecef_on">>

Commands == {"AID_HUI", "AID_ALM", "AID_EPH", "ecef_on", "ecef_off"}

Init ==
    /\ pc = "request" /\ status = "running"
    /\ requested = 0
    /\ armed = FALSE
    /\ got = [id \in Wanted |-> 0]
    /\ dumped = [id \in {"AID_ALM", "AID_EPH"} |-> 0]
    /\ dump_buffer = <<>> /\ dump_used = 0
    /\ file \in OldFiles
    /\ buf = <<>> /\ tx = <<>> /\ line = <<>>
    /\ owed \in [{"AID_ALM", "AID_EPH", "AID_HUI"} -> 0 .. Stale]
    /\ ecef_on \in BOOLEAN

Running(at) == status = "running" /\ pc = at

(* The program has not read its last message.                              *)
Listening == \E at \in {"request", "arm", "read"} : Running(at)

(* ubx_write of the next request.                                          *)
Request ==
    /\ Running("request")
    /\ tx' = Append(tx, Requests[requested + 1])
    /\ requested' = requested + 1
    /\ pc' = IF requested' = Len(Requests) THEN "arm" ELSE "request"
    /\ UNCHANGED <<status, armed, collection, file, buf, line, device>>

(* Faulty variant: the alarm clock is not set.                             *)
NoAlarm ==
    /\ Running("arm")
    /\ armed' = FALSE
    /\ pc' = "read"
    /\ UNCHANGED <<status, requested, collection, file, buf, tx, line, device>>

(* signal and alarm(AID_DATA_COLLECT_TIMEOUT_S).                           *)
Arm ==
    /\ Running("arm")
    /\ armed' = TRUE
    /\ pc' = "read"
    /\ UNCHANGED <<status, requested, collection, file, buf, tx, line, device>>

(* Faulty variant: any number of position messages is taken.               *)
CountsEveryPosition(m) ==
    \/ m.id \in {"AID_ALM", "AID_EPH"}
    \/ m.id = "NAV_POSECEF" /\ m.size = "full"
    \/ m.id = "AID_HUI" /\ m.size = "full" /\ got[m.id] = 0

(* dump_handle_message counts a message ...                                *)
Counts(m) ==
    \/ m.id \in {"AID_ALM", "AID_EPH"}
    \/ /\ m.id \in {"AID_HUI", "NAV_POSECEF"}
       /\ m.size = "full" /\ got[m.id] = 0

(* Faulty variant: a message is saved whatever its size.                   *)
SavesAnySize(m) == Counts(m)

(* ... and saves it, by save_to_buffer.                                    *)
Saves(m) == Counts(m) /\ m.size = "full"

(* Faulty variant: the position is not waited for.                         *)
CollectedAidOnly(g) == \A id \in Wanted \ {"NAV_POSECEF"} : g[id] > 0

(* Some of each kind has come: the handler tells ubx_read to stop.         *)
Collected(g) == \A id \in Wanted : g[id] > 0

dump_handle_message(m) ==
    /\ got' = IF Counts(m) THEN [got EXCEPT ![m.id] = @ + 1] ELSE got
    /\ dumped' = IF Saves(m) /\ m.id \in DOMAIN dumped
                 THEN [dumped EXCEPT ![m.id] = @ + 1] ELSE dumped
    /\ IF Saves(m)
       THEN /\ dump_buffer' = Append(dump_buffer, m)
            /\ dump_used' = dump_used + FrameBytes[m.id]
       ELSE UNCHANGED <<dump_buffer, dump_used>>
    /\ pc' = IF Collected(got') THEN "disarm" ELSE "read"

(* One turn of ubx_read.  With nothing on the line read() blocks.          *)
Read ==
    /\ Running("read")
    /\ line # <<>>
    /\ \E r \in ReadResults(line, buf) :
          /\ line' = r.line
          /\ IF Visible(r)
             THEN /\ buf' = Tail(r.buf)
                  /\ dump_handle_message(Head(r.buf))
             ELSE /\ buf' = r.buf
                  /\ UNCHANGED <<collection, pc>>
    /\ UNCHANGED <<status, requested, armed, file, tx, device>>

(* Faulty variant: the alarm clock is left running.                        *)
StaysArmed ==
    /\ Running("disarm")
    /\ pc' = "disable"
    /\ UNCHANGED <<status, host, file, buf, tx, line, device>>

(* alarm(0).                                                               *)
Disarm ==
    /\ Running("disarm")
    /\ armed' = FALSE
    /\ pc' = "disable"
    /\ UNCHANGED <<status, requested, collection, file, buf, tx, line, device>>

(* Faulty variant: cfg_msg still has the rate that switches positions on.  *)
RateNotReset ==
    /\ Running("disable")
    /\ tx' = Append(tx, "ecef_on")
    /\ pc' = "open"
    /\ UNCHANGED <<status, host, file, buf, line, device>>

(* ubx_write of the CFG-MSG with rate 0.                                   *)
Disable ==
    /\ Running("disable")
    /\ tx' = Append(tx, "ecef_off")
    /\ pc' = "open"
    /\ UNCHANGED <<status, host, file, buf, line, device>>

(* open with O_TRUNC; when it fails dump_agps returns 1, but main ignores  *)
(* that and exits with 0.                                                  *)
Open ==
    /\ Running("open")
    /\ \/ /\ file' = <<>> /\ pc' = "write"
          /\ UNCHANGED status
       \/ /\ status' = "exit_0"
          /\ UNCHANGED <<file, pc>>
    /\ UNCHANGED <<host, buf, tx, line, device>>

(* write, whose result is not looked at, close, and return 0 through main. *)
Write ==
    /\ Running("write")
    /\ \E n \in 0 .. Len(dump_buffer) : file' = SubSeq(dump_buffer, 1, n)
    /\ pc' = "close" /\ status' = "exit_0"
    /\ UNCHANGED <<host, buf, tx, line, device>>

(* dump_onalarm.                                                           *)
Alarm ==
    /\ status = "running" /\ armed
    /\ status' = "timeout"
    /\ UNCHANGED <<pc, host, file, buf, tx, line, device>>

(* panic: a short ubx_write, or read() failing.                            *)
Panic ==
    /\ \E at \in {"request", "read", "disable"} : Running(at)
    /\ status' = "panic"
    /\ UNCHANGED <<pc, host, file, buf, tx, line, device>>

(* The process is killed, or the phone goes down.                          *)
Kill ==
    /\ status = "running"
    /\ status' = "killed"
    /\ UNCHANGED <<pc, host, file, buf, tx, line, device>>

-----------------------------------------------------------------------------
(* External: the receiver takes the next command.  What it does after the  *)
(* program has failed, and what it sends when nobody will read it, is left *)
(* out.                                                                    *)
Obey ==
    /\ tx # <<>> /\ status \in {"running", "exit_0"}
    /\ tx' = Tail(tx)
    /\ LET c == Head(tx)
       IN  CASE c = "AID_HUI" -> /\ owed' = [owed EXCEPT ![c] = @ + 1]
                                 /\ UNCHANGED ecef_on
             [] c \in {"AID_ALM", "AID_EPH"} ->
                                 /\ owed' = [owed EXCEPT ![c] = @ + Sats]
                                 /\ UNCHANGED ecef_on
             [] OTHER ->         /\ ecef_on' = (c = "ecef_on")
                                 /\ UNCHANGED owed
    /\ UNCHANGED <<pc, status, host, file, buf, line>>

(* It sends an answer, with data or without, or the line loses it.         *)
Answer ==
    /\ Listening
    /\ \E id \in DOMAIN owed :
          /\ owed[id] > 0
          /\ owed' = [owed EXCEPT ![id] = @ - 1]
          /\ \/ UNCHANGED line
             \/ /\ Len(line) + Len(buf) < LineMax
                /\ \E size \in {"full", "bare"} :
                      line' = Append(line, [id |-> id, size |-> size])
    /\ UNCHANGED <<pc, status, host, file, buf, tx, ecef_on>>

(* It sends its position.                                                  *)
Position ==
    /\ Listening /\ ecef_on
    /\ Len(line) + Len(buf) < LineMax
    /\ line' = Append(line, Full("NAV_POSECEF"))
    /\ UNCHANGED <<pc, status, host, file, buf, tx, device>>

Host == Request \/ Arm \/ Read \/ Disarm \/ Disable \/ Open \/ Write

Receiver == Obey \/ Answer \/ Position

Next == Host \/ Alarm \/ Panic \/ Kill \/ Receiver

Spec == Init /\ [][Next]_vars

(* The process runs whenever it can and an alarm that is set goes off; the *)
(* receiver takes commands, but need not send.                             *)
FairSpec == Spec /\ WF_vars(Host) /\ WF_vars(Alarm) /\ WF_vars(Obey)

-----------------------------------------------------------------------------
CountOf(id, s) == Cardinality({i \in DOMAIN s : s[i].id = id})

TypeOK ==
    /\ pc \in {"request", "arm", "read", "disarm", "disable", "open", "write",
               "close"}
    /\ status \in {"running", "exit_0", "timeout", "panic", "killed"}
    /\ requested \in 0 .. Len(Requests)
    /\ armed \in BOOLEAN /\ ecef_on \in BOOLEAN
    /\ got \in [Wanted -> Nat]
    /\ got["AID_HUI"] \in 0 .. 1 /\ got["NAV_POSECEF"] \in 0 .. 1
    /\ dumped \in [{"AID_ALM", "AID_EPH"} -> Nat]
    /\ dump_used \in Nat
    /\ \A s \in {dump_buffer, file, buf, line} : s \in Seq(Messages)
    /\ tx \in Seq(Commands)
    /\ owed \in [{"AID_ALM", "AID_EPH", "AID_HUI"} -> Nat]

(* What is saved agrees with what is counted, as the message printed at    *)
(* the end says (c/dump_agps.h:113-118): every full almanac and ephemeris  *)
(* message, one health and one position message, and no other.             *)
SavedAsCounted ==
    /\ \A i \in DOMAIN dump_buffer :
          dump_buffer[i].size = "full" /\ dump_buffer[i].id \in Wanted
    /\ \A id \in Wanted :
          CountOf(id, dump_buffer) = IF id \in DOMAIN dumped
                                     THEN dumped[id] ELSE got[id]

(* dump_buffer_start is large enough for all a receiver has to answer to   *)
(* three polls and what an earlier run left, although save_to_buffer does  *)
(* not look (c/dump_agps.h:16-29).                                         *)
DumpBufferFits == dump_used <= DUMP_SIZE

(* The old dump is given up only for a complete new one, and once it is    *)
(* no timeout can cut the writing short (c/dump_agps.h:31-34, 58-75).      *)
OldDumpKept ==
    [][file' # file => Collected(got) /\ ~armed /\ status = "running"]_vars

(* A run that ends normally leaves the receiver without the periodic       *)
(* position it switched on, whatever the receiver did before               *)
(* (c/dump_agps.h:49-51, 64-66).                                           *)
PositionSwitchedOff == status = "exit_0" /\ tx = <<>> => ~ecef_on

(* The program ends, whatever the receiver sends or does not send          *)
(* (c/dump_agps.h:53-56).                                                  *)
DumpEnds == <>(status # "running")

-----------------------------------------------------------------------------
(* The invariant the safety properties follow from (AgpsSessionProofs).    *)

(* The first request for id is still to be written or to be taken.         *)
Asking(id) ==
    \/ \E i \in requested + 1 .. Len(Requests) : Requests[i] = id
    \/ \E i \in DOMAIN tx : tx[i] = id

(* Almanac and ephemeris are asked for once.                               *)
AskedOnce ==
    /\ pc = "request" => requested < Len(Requests)
    /\ \A i \in DOMAIN tx : tx[i] \in DOMAIN dumped =>
          /\ \A j \in DOMAIN tx : tx[j] = tx[i] => j = i
          /\ \A j \in requested + 1 .. Len(Requests) : Requests[j] # tx[i]

(* Every answer was owed by an earlier run or is to the one request.       *)
AnswersBounded ==
    \A id \in DOMAIN dumped :
       dumped[id] + CountOf(id, buf) + CountOf(id, line) + owed[id]
          + (IF Asking(id) THEN Sats ELSE 0) <= Sats + Stale

UsedAsCounted ==
    dump_used = 48 * dumped["AID_ALM"] + 112 * dumped["AID_EPH"]
                + 80 * got["AID_HUI"] + 28 * got["NAV_POSECEF"]

(* The end of dump_agps, in order.                                         *)
EndsInOrder ==
    /\ pc \in {"disarm", "disable", "open", "write", "close"} => Collected(got)
    /\ pc \in {"disable", "open", "write", "close"} => ~armed
    /\ pc \in {"open", "write", "close"} =>
          IF tx = <<>> THEN ~ecef_on ELSE tx[Len(tx)] = "ecef_off"
    /\ status = "exit_0" => pc \in {"open", "close"}

IInv ==
    /\ TypeOK /\ SavedAsCounted
    /\ AskedOnce /\ AnswersBounded /\ UsedAsCounted /\ EndsInOrder

=============================================================================
