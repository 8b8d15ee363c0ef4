------------------------------- MODULE PyLoad -------------------------------
(***************************************************************************)
(* gta02-agps.py [--reset] --load: reset, load_aid_data and UBXLoadHandler *)
(* (python/gta02-agps.py, python/ubxlib/ubx_load.py).  The program may     *)
(* restart the receiver first; it evaluates the dump file, has the         *)
(* receiver announce that it wants aid data, and at the announcement feeds *)
(* it ephemerides, position and time, health data and almanacs, in this    *)
(* order.  There is no timeout.                                            *)
(*                                                                         *)
(* The receiver is external: a restart makes it forget; it takes commands  *)
(* in order and asks only while announcing is on and it lacks data.        *)
(***************************************************************************)
EXTENDS PyPort, SequencesExt

CONSTANTS
    LineMax,  (* bound: messages sent and not yet handled                  *)
    AskMax,   (* bound: how often the receiver asks                        *)
    Files     (* what the dump file may hold: a dictionary, or "cut"       *)

ASSUME LoadAssumption ==
    /\ LineMax \in Nat /\ HELD < LineMax /\ AskMax \in Nat
    /\ Files \subseteq [is : {"old", "saved"}, data : Dictionaries]
                           \cup [is : {"cut"}]

VARIABLES
    pc,       (* where the program is                                      *)
    status,   (* "running", or how the process ended                       *)
    file,     (* the dump file                                             *)
    left,     (* what handle_AID_DATA has still to send                    *)
    fed,      (* the aid messages it has sent, in order                    *)
    tx,       (* commands on their way to the receiver                     *)
    line,     (* messages on their way from it                             *)
    held,     (* how many of them, the last ones, wait in the reader       *)
    announce, (* the receiver announces that it wants aid data             *)
    asked     (* how often it has                                          *)

vars == <<pc, status, file, left, fed, tx, line, held, announce, asked>>

Init ==
    /\ pc \in {"reset", "eval"}
    /\ status = "running"
    /\ file \in Files
    /\ left = <<>> /\ fed = <<>>
    /\ tx = <<>> /\ line = <<>> /\ held = 0
    /\ announce \in BOOLEAN /\ asked = 0

Running(at) == status = "running" /\ pc = at

(* reset(): CFG-RST, and a second of sleep.                                *)
Reset ==
    /\ Running("reset")
    /\ tx' = Append(tx, "reset")
    /\ pc' = "eval"
    /\ UNCHANGED <<status, file, left, fed, line, held, announce, asked>>

(* eval(open(dumpfile).read()): a dump that was cut is no expression.      *)
Eval ==
    /\ Running("eval")
    /\ IF file.is = "cut"
       THEN status' = "raised" /\ pc' = pc
       ELSE status' = status /\ pc' = "enable"
    /\ UNCHANGED <<file, left, fed, tx, line, held, announce, asked>>

(* load_aid_data: CFG-MSG; the reader then starts.                         *)
Enable ==
    /\ Running("enable")
    /\ tx' = Append(tx, "announce")
    /\ pc' = "read"
    /\ UNCHANGED <<status, file, left, fed, line, held, announce, asked>>

-----------------------------------------------------------------------------
Of(id, svs) == {[id |-> id, sv |-> sv] : sv \in svs}

(* Faulty variant: the position is always flagged as known.                *)
AlwaysValid(d) == [id |-> "AID_INI", valid |-> TRUE]

(* Time, and the position, which is flagged as valid if the dump has one.  *)
Ini(d) == [id |-> "AID_INI", valid |-> d.position]

Hui(d) == IF d.hui THEN <<[id |-> "AID_HUI"]>> ELSE <<>>

(* What handle_AID_DATA may send for d: iteritems() yields the satellites  *)
(* in any order.                                                           *)
AidMessages(d) ==
    {e \o <<Ini(d)>> \o Hui(d) \o a :
        e \in SetToSeqs(Of("AID_EPH", d.ephemeris)),
        a \in SetToSeqs(Of("AID_ALM", d.almanac))}

(* Faulty variant: any message counts as a request.                        *)
AnyIsRequest(m) == TRUE

(* Faulty variant: without a position a request is not answered.           *)
RequestForPosition(m) == m.id = "AID_DATA" /\ file.data.position

(* decode finds handle_AID_DATA; no other message has a handler.           *)
IsRequest(m) == m.id = "AID_DATA"

Handle ==
    /\ Running("read") /\ Len(line) > held
    /\ ~NoFormat(Head(line))
    /\ line' = Tail(line)
    /\ IF IsRequest(Head(line))
       THEN left' \in AidMessages(file.data) /\ pc' = "feed"
       ELSE UNCHANGED <<left, pc>>
    /\ UNCHANGED <<status, file, fed, tx, held, announce, asked>>

(* The AttributeError of decode for a message without a format.            *)
Raise ==
    /\ Running("read") /\ Len(line) > held
    /\ NoFormat(Head(line))
    /\ line' = Tail(line)
    /\ status' = "raised"
    /\ UNCHANGED <<pc, file, left, fed, tx, held, announce, asked>>

(* writer.send of the next message; after the last one the handler returns *)
(* True, and the program ends.                                             *)
Feed ==
    /\ Running("feed")
    /\ fed' = Append(fed, Head(left))
    /\ left' = Tail(left)
    /\ status' = IF left' = <<>> THEN "exit_0" ELSE "running"
    /\ UNCHANGED <<pc, file, tx, line, held, announce, asked>>

(* The program is killed, or a write fails, which ends it by way of        *)
(* decode's except clause and logger.error.                                *)
Kill ==
    /\ status = "running"
    /\ status' = "killed"
    /\ UNCHANGED <<pc, file, left, fed, tx, line, held, announce, asked>>

-----------------------------------------------------------------------------
(* External: the receiver takes a command; a restart switches announcing   *)
(* off, whose setting it does not keep.                                    *)
Obey ==
    /\ tx # <<>>
    /\ tx' = Tail(tx)
    /\ announce' = (Head(tx) = "announce")
    /\ UNCHANGED <<pc, status, file, left, fed, line, held, asked>>

Send(m) ==
    /\ status = "running" /\ Len(line) < LineMax
    /\ line' = Append(line, m)
    /\ held' \in Waiting(line', held)
    /\ UNCHANGED <<pc, status, file, left, fed, tx, announce>>

Ask ==
    /\ announce /\ asked < AskMax /\ asked' = asked + 1
    /\ Send([id |-> "AID_DATA"])

Chat == \E m \in Others : Send(m) /\ UNCHANGED asked

Host == Reset \/ Eval \/ Enable \/ Handle \/ Raise \/ Feed

Next == Host \/ Kill \/ Obey \/ Ask \/ Chat

Spec == Init /\ [][Next]_vars

(* The process runs whenever it can; the receiver need not ask, or send    *)
(* anything else.                                                          *)
FairSpec == Spec /\ WF_vars(Host) /\ WF_vars(Obey)

-----------------------------------------------------------------------------
AidSet == Of("AID_EPH", SV) \cup Of("AID_ALM", SV)
              \cup [id : {"AID_INI"}, valid : BOOLEAN] \cup {[id |-> "AID_HUI"]}

TypeOK ==
    /\ pc \in {"reset", "eval", "enable", "read", "feed"}
    /\ status \in {"running", "exit_0", "raised", "killed"}
    /\ file \in Files
    /\ left \in Seq(AidSet) /\ fed \in Seq(AidSet)
    /\ tx \in Seq({"reset", "announce"})
    /\ line \in Seq(Messages) /\ held \in 0 .. HELD
    /\ announce \in BOOLEAN
    /\ asked \in 0 .. AskMax

(* Aid data goes only to a receiver that has asked for it, and never from  *)
(* a dump that was cut (python/gta02-agps.py:43-49,                        *)
(* python/ubxlib/ubx_load.py:11).                                          *)
FedOnlyWhenAsked == fed # <<>> => asked > 0 /\ file.is # "cut"

(* What a dump d holds, as what it is.                                     *)
Contents(d) ==
    Of("AID_EPH", d.ephemeris) \cup Of("AID_ALM", d.almanac)
        \cup {[id |-> "AID_INI", valid |-> d.position]}
        \cup (IF d.hui THEN {[id |-> "AID_HUI"]} ELSE {})

(* A load that ends normally has fed everything the dump holds, each thing *)
(* once and as what it is, with the position marked as known exactly when  *)
(* it is, and the time in any case (python/ubxlib/ubx_load.py:40-66).  The *)
(* one thing left out is the accuracy dumped with the position: a constant *)
(* is sent in its place (ubx_load.py:15).                                  *)
FedIsDump ==
    status = "exit_0" =>
        /\ {fed[i] : i \in DOMAIN fed} = Contents(file.data)
        /\ Len(fed) = Cardinality(Contents(file.data))

(* Once the receiver has asked, the load comes to an end, through with     *)
(* feeding or not, provided the receiver always sends something more: its  *)
(* request may have to wait in the reader for the bytes behind it          *)
(* (python/ubxlib/ubx_load.py:66, python/ubxlib/ubx_reader.py:17, 53-54).  *)
LoadEnds == WF_vars(Chat) => [](asked > 0 => <>(status # "running"))

(* Without --reset a request is not missed: "you won't supply --reset and  *)
(* as a result this problem should not happen", which is that it "is       *)
(* somehow missed by reading process" (python/README.md:41-47).            *)
RequestNotMissed == pc = "eval" => [](asked > 0 => <>(status # "running"))

-----------------------------------------------------------------------------
(* The invariant the safety properties follow from (PyLoadProofs).         *)

(* A request is on its way, or being answered, only after the receiver has *)
(* asked.                                                                  *)
AskedFirst ==
    pc = "feed" \/ (\E i \in DOMAIN line : IsRequest(line[i])) => asked > 0

(* Fed and left to feed is what the handler made of the file.              *)
FeedingTheFile ==
    /\ pc \in {"enable", "read", "feed"} => file.is # "cut"
    /\ pc # "feed" => fed = <<>>
    /\ pc = "feed" => fed \o left \in AidMessages(file.data)
    /\ pc = "feed" /\ status = "running" => left # <<>>
    /\ status = "exit_0" => pc = "feed" /\ left = <<>>

IInv == TypeOK /\ AskedFirst /\ FeedingTheFile

=============================================================================
