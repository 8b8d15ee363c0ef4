------------------------------ MODULE AgpsLoad ------------------------------
(***************************************************************************)
(* gta02-gps --load-agps (load_agps, c/load_agps.h, as main calls it): the *)
(* program has the receiver announce that it wants aid data, waits for the *)
(* announcement under an alarm, and then feeds it the messages of the dump *)
(* file, the position last, turned into an AID_INI.                        *)
(*                                                                         *)
(* The receiver is external: it asks when and as often as it likes, or     *)
(* not at all, and sends other messages in between.                        *)
(***************************************************************************)
EXTENDS UbxPort

CONSTANTS
    LineMax,  (* bound: messages sent and not yet handled                  *)
    AskMax,   (* bound: how often the receiver asks                        *)
    Files     (* what the dump file may hold                               *)

ASSUME LoadAssumption ==
    /\ LineMax \in Nat /\ AskMax \in Nat \ {0}
    /\ \A f \in Files : f \in Seq(Messages)

VARIABLES
    pc,      (* where load_agps is                                         *)
    status,  (* "running", or how the process ended                        *)
    armed,   (* the alarm clock is set                                     *)
    file,    (* what the dump file holds                                   *)
    fed,     (* what the program wrote to the receiver, after the CFG-MSG  *)
    next,    (* how many messages of the file have been handled            *)
    buf,     (* whole messages in the buffer of ubx_read                   *)
    line,    (* messages on their way from the receiver                    *)
    asked    (* how often the receiver has asked for aid data              *)

vars == <<pc, status, armed, file, fed, next, buf, line, asked>>

Ask == [id |-> "AID_DATA", size |-> "empty"]

Init ==
    /\ pc = "open" /\ status = "running"
    /\ armed = FALSE
    /\ file \in Files
    /\ fed = <<>> /\ next = 0
    /\ buf = <<>>
    /\ line \in {<<>>, <<Ask>>}
    /\ asked = Len(line)

Running(at) == status = "running" /\ pc = at

(* When open fails load_agps returns 1, but main ignores that and exits    *)
(* with 0.                                                                 *)
Open ==
    /\ Running("open")
    /\ \/ pc' = "enable" /\ UNCHANGED status
       \/ status' = "exit_0" /\ UNCHANGED pc
    /\ UNCHANGED <<armed, file, fed, next, buf, line, asked>>

(* ubx_write of the CFG-MSG that turns announcements on.                   *)
Enable ==
    /\ Running("enable")
    /\ pc' = "arm"
    /\ UNCHANGED <<status, armed, file, fed, next, buf, line, asked>>

(* Faulty variant: the alarm clock is not set.                             *)
NoAlarm ==
    /\ Running("arm")
    /\ armed' = FALSE
    /\ pc' = "wait"
    /\ UNCHANGED <<status, file, fed, next, buf, line, asked>>

(* signal and alarm(AID_DATA_TIMEOUT_S).                                   *)
Arm ==
    /\ Running("arm")
    /\ armed' = TRUE
    /\ pc' = "wait"
    /\ UNCHANGED <<status, file, fed, next, buf, line, asked>>

(* Faulty variant: any message is taken for a request.                     *)
any_message_is_request(m) == pc' = "disarm"

wait_for_aid_data_request(m) ==
    pc' = IF m.id = "AID_DATA" THEN "disarm" ELSE "wait"

(* One turn of ubx_read on the device.  With nothing on the line read()    *)
(* blocks.                                                                 *)
Wait ==
    /\ Running("wait")
    /\ line # <<>>
    /\ \E r \in ReadResults(line, buf) :
          /\ line' = r.line
          /\ IF Visible(r)
             THEN /\ buf' = Tail(r.buf)
                  /\ wait_for_aid_data_request(Head(r.buf))
             ELSE /\ buf' = r.buf
                  /\ UNCHANGED pc
    /\ UNCHANGED <<status, armed, file, fed, next, asked>>

(* alarm(0).                                                               *)
Disarm ==
    /\ Running("disarm")
    /\ armed' = FALSE
    /\ pc' = "feed"
    /\ UNCHANGED <<status, file, fed, next, buf, line, asked>>

(* Faulty variant: the health message is not sent.                         *)
SendsNoHui(m) ==
    CASE m.id \in {"AID_ALM", "AID_EPH"} -> <<m>>
      [] m.id = "NAV_POSECEF" -> <<[id |-> "AID_INI", size |-> "full"]>>
      [] OTHER                -> <<>>

(* What handle_message_from_file sends for a message, and under which id.  *)
SendsAs(m) ==
    CASE m.id \in {"AID_ALM", "AID_EPH"} -> <<m>>
      [] m.id = "AID_HUI"     -> <<[m EXCEPT !.id = "AID_EPH"]>>
      [] m.id = "NAV_POSECEF" -> <<[id |-> "AID_INI", size |-> "full"]>>
      [] OTHER                -> <<>>

(* Faulty variant: the handler does not say stop after the position.       *)
never_stops(m) ==
    /\ fed' = fed \o SendsAs(m)
    /\ UNCHANGED status

(* One message of the file.  The position makes ubx_read stop, and         *)
(* load_agps returns.  At the end of a file without one, or before a last  *)
(* message of no payload, ubx_read reads on for ever.                      *)
handle_message_from_file(m) ==
    /\ fed' = fed \o SendsAs(m)
    /\ status' = IF m.id = "NAV_POSECEF" THEN "exit_0" ELSE "running"

Feed ==
    /\ Running("feed")
    /\ Visible([buf |-> SubSeq(file, next + 1, Len(file)), part |-> FALSE])
    /\ handle_message_from_file(file[next + 1])
    /\ next' = next + 1
    /\ UNCHANGED <<pc, armed, file, buf, line, asked>>

(* load_onalarm.                                                           *)
Alarm ==
    /\ status = "running" /\ armed
    /\ status' = "timeout"
    /\ UNCHANGED <<pc, armed, file, fed, next, buf, line, asked>>

(* panic: a short ubx_write, or read() failing.                            *)
Panic ==
    /\ \E at \in {"enable", "wait", "feed"} : Running(at)
    /\ status' = "panic"
    /\ UNCHANGED <<pc, armed, file, fed, next, buf, line, asked>>

-----------------------------------------------------------------------------
(* External: the receiver asks for aid data, ...                           *)
Send(m) ==
    /\ status = "running" /\ pc \in {"open", "enable", "arm", "wait"}
    /\ Len(line) + Len(buf) < LineMax
    /\ line' = Append(line, m)
    /\ UNCHANGED <<pc, status, armed, file, fed, next, buf>>

AskForData ==
    /\ asked < AskMax /\ asked' = asked + 1
    /\ Send(Ask)

(* ... or sends another message, with a payload or without.                *)
Chat ==
    /\ \E size \in {"full", "empty"} : Send([id |-> "OTHER", size |-> size])
    /\ UNCHANGED asked

Host == Open \/ Enable \/ Arm \/ Wait \/ Disarm \/ Feed

Next == Host \/ Alarm \/ Panic \/ AskForData \/ Chat

Spec == Init /\ [][Next]_vars

(* The process runs whenever it can and an alarm that is set goes off; the *)
(* receiver need not send.                                                 *)
FairSpec == Spec /\ WF_vars(Host) /\ WF_vars(Alarm)

-----------------------------------------------------------------------------
AidIds == {"AID_ALM", "AID_EPH", "AID_HUI", "AID_INI"}

TypeOK ==
    /\ pc \in {"open", "enable", "arm", "wait", "disarm", "feed"}
    /\ status \in {"running", "exit_0", "timeout", "panic"}
    /\ armed \in BOOLEAN
    /\ \A s \in {file, buf, line} : s \in Seq(Messages)
    /\ fed \in Seq([id : AidIds, size : Sizes])
    /\ next \in 0 .. Len(file)
    /\ asked \in 0 .. AskMax

(* No aid data goes to a receiver that has not asked for it, and no        *)
(* timeout stops the program half-way through feeding it: it is armed      *)
(* only while it waits (c/load_agps.h:45-54, 64-69).                       *)
FedOnlyWhenAsked ==
    fed # <<>> => asked > 0 /\ ~armed /\ status # "timeout"

(* The position and time go once, and nothing after them, so the receiver  *)
(* has the satellite data by then (c/load_agps.h:88-126).                  *)
IniIsLast ==
    \A i \in DOMAIN fed : fed[i].id = "AID_INI" =>
        i = Len(fed) /\ status = "exit_0"

(* The place in the file of its first position message.                    *)
Positions(f) == {i \in DOMAIN f : f[i].id = "NAV_POSECEF"}

(* A run that ends normally after it began to feed has fed something for   *)
(* every almanac, ephemeris and health message ahead of the file's first   *)
(* position, and that position: the handler skips none                     *)
(* (c/load_agps.h:56-57, 71-129).                                          *)
FedUpToPosition ==
    status = "exit_0" /\ pc = "feed" =>
        /\ Positions(file) # {}
        /\ Len(fed) = Cardinality({i \in DOMAIN file :
                          /\ \A p \in Positions(file) : i <= p
                          /\ file[i].id \in AidIds \cup {"NAV_POSECEF"}})

(* The program ends if the file has a position in it, whatever the         *)
(* receiver sends or does not send (c/load_agps.h:45-54, 125-126).         *)
LoadEnds == Positions(file) # {} => <>(status # "running")

(* Each message goes to the receiver as what it is, an AID_HUI as AID_HUI: *)
(* "Sending AID_HUI message (health information, leap seconds, etc) to     *)
(* GPS" (c/load_agps.h:84-87).                                             *)
HuiIsSentAsHui ==
    Len(fed) = next /\ next > 0 /\ file[next].id = "AID_HUI" =>
        fed[next].id = "AID_HUI"

(* "Device has not asked for aid data.  Probably it is already set up."    *)
(* (c/load_agps.h:13): the program says so only when no request lies       *)
(* before it in its own buffer.                                            *)
TimeoutMeansNotAsked ==
    status = "timeout" /\ pc = "wait" => \A i \in DOMAIN buf : buf[i] # Ask

-----------------------------------------------------------------------------
(* The invariant the safety properties follow from (AgpsLoadProofs).       *)

(* A request on its way, and one that was acted on, was made.              *)
RequestsWereMade ==
    /\ \A s \in {line, buf} : \A i \in DOMAIN s : s[i].id = "AID_DATA" => asked > 0
    /\ pc \in {"disarm", "feed"} => asked > 0

ArmedWhileWaiting ==
    /\ armed => pc \in {"wait", "disarm"}
    /\ status = "timeout" => armed

(* The messages handled that the handler sends something for.              *)
Answered == {i \in 1 .. next : file[i].id \in AidIds \cup {"NAV_POSECEF"}}

FedAsHandled ==
    /\ pc # "feed" => fed = <<>> /\ next = 0
    /\ Len(fed) = Cardinality(Answered)
    /\ \A i \in 1 .. next : file[i].id = "NAV_POSECEF" =>
          i = next /\ status = "exit_0"
    /\ status = "exit_0" /\ pc = "feed" =>
          next > 0 /\ file[next].id = "NAV_POSECEF"

IInv ==
    /\ TypeOK /\ IniIsLast
    /\ RequestsWereMade /\ ArmedWhileWaiting /\ FedAsHandled

=============================================================================
