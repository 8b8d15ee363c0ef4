-------------------------- MODULE PySessionProofs --------------------------
(***************************************************************************)
(* Proofs about the Python dump (PyDump) and about the session of a dump   *)
(* and a load (PySession): what is saved is the receiver's data, the old   *)
(* dump is given up for a complete one only, positions do not stay on, and *)
(* what a load gives back is what the receiver had.                        *)
(***************************************************************************)
EXTENDS PySession, TLAPS, FiniteSetTheorems, SequenceTheorems

Commands == {"AID_HUI", "AID_ALM", "AID_EPH", "positions_on", "positions_off"}

LEMMA MessageKinds ==
    ASSUME NEW m \in Messages
    PROVE  /\ m.id \in {"AID_ALM", "AID_EPH"} => m.sv \in SV
           /\ m.id \in {"AID_ALM", "AID_EPH", "AID_HUI", "NAV_POSECEF", "AID_DATA",
                        "Known", "Unknown"}
BY DEF Messages, SVMessages

LEMMA OtherMessages ==
    /\ \A m \in Others : m \in Messages /\ Truthful(m)
    /\ \A id \in {"AID_HUI", "NAV_POSECEF", "AID_DATA", "Known", "Unknown"} :
          [id |-> id] \in Messages /\ Truthful([id |-> id])
<1>1. \A id \in {"AID_HUI", "NAV_POSECEF", "AID_DATA", "Known", "Unknown"} :
          [id |-> id] \in Messages /\ Truthful([id |-> id])
  BY DEF Messages, Truthful
<1>2. \A m \in Others : m = [id |-> "Known"] \/ m = [id |-> "Unknown"]
  BY PortAssumption
<1> QED
  BY <1>1, <1>2

LEMMA PollsArePolls == ASSUME NEW c PROVE Polled(c) \subseteq Polls
<1>1. CASE c \in {"AID_ALM", "AID_EPH"}
  BY <1>1 DEF Polled, Polls
<1>2. CASE c \notin {"AID_ALM", "AID_EPH"}
  BY <1>2 DEF Polled, Polls
<1> QED
  BY <1>1, <1>2

(* A true message keeps the dictionary true.                               *)
LEMMA GatheredIsTrue ==
    ASSUME NEW m \in Messages, Truthful(m), aid_data \in Dictionaries,
           aid_data.almanac \subseteq sky["AID_ALM"],
           aid_data.ephemeris \subseteq sky["AID_EPH"]
    PROVE  /\ Gathered(m) \in Dictionaries
           /\ Gathered(m).almanac \subseteq sky["AID_ALM"]
           /\ Gathered(m).ephemeris \subseteq sky["AID_EPH"]
<1> DEFINE d == aid_data
<1>1. /\ d = [almanac |-> d.almanac, ephemeris |-> d.ephemeris,
              position |-> d.position, hui |-> d.hui]
      /\ d.almanac \subseteq SV /\ d.ephemeris \subseteq SV
      /\ d.position \in BOOLEAN /\ d.hui \in BOOLEAN
  BY DEF Dictionaries
<1>2. CASE m.id = "AID_ALM" /\ m.form = "data"
  <2>1. m.sv \in SV /\ m.sv \in sky["AID_ALM"]
    BY <1>2, MessageKinds DEF Truthful
  <2>2. Gathered(m) = [d EXCEPT !.almanac = d.almanac \cup {m.sv}]
    BY <1>2 DEF Gathered
  <2> QED
    BY <1>1, <2>1, <2>2 DEF Dictionaries
<1>3. CASE m.id = "AID_EPH" /\ m.form = "data"
  <2>1. m.sv \in SV /\ m.sv \in sky["AID_EPH"]
    BY <1>3, MessageKinds DEF Truthful
  <2>2. Gathered(m) = [d EXCEPT !.ephemeris = d.ephemeris \cup {m.sv}]
    BY <1>3 DEF Gathered
  <2> QED
    BY <1>1, <2>1, <2>2 DEF Dictionaries
<1>4. CASE m.id = "AID_HUI"
  <2>1. Gathered(m) = [d EXCEPT !.hui = TRUE]
    BY <1>4 DEF Gathered
  <2> QED
    BY <1>1, <2>1 DEF Dictionaries
<1>5. CASE m.id = "NAV_POSECEF"
  <2>1. Gathered(m) = [d EXCEPT !.position = TRUE]
    BY <1>5 DEF Gathered
  <2> QED
    BY <1>1, <2>1 DEF Dictionaries
<1>6. CASE /\ ~(m.id = "AID_ALM" /\ m.form = "data") /\ ~(m.id = "AID_EPH" /\ m.form = "data")
           /\ m.id # "AID_HUI" /\ m.id # "NAV_POSECEF"
  BY <1>6 DEF Gathered
<1> QED
  BY <1>2, <1>3, <1>4, <1>5, <1>6

LEMMA DumpInit == Init => IInv
<1> SUFFICES ASSUME Init PROVE IInv
  OBVIOUS
<1>1. /\ file \in OldFiles /\ ~Saved
      /\ aid_data \in Dictionaries
  BY DumpAssumption DEF Init, Saved, Dictionaries
<1>2. TypeOK
  BY <1>1, PortAssumption DEF Init, TypeOK
<1>3. NothingInvented /\ CompleteWhenSaved
  BY <1>1 DEF Init, NothingInvented, CompleteWhenSaved
<1> QED
  BY <1>2, <1>3 DEF IInv

(* What is saved is the dictionary.                                        *)
LEMMA SavedFile == ASSUME IInv, Saved PROVE file.data = aid_data
<1>1. /\ file \in OldFiles \cup [is : {"cut"}] \cup [is : {"saved"}, data : {aid_data}]
      /\ file.is = "saved"
  BY DEF IInv, TypeOK, Saved
<1>2. file \notin OldFiles
  BY <1>1, DumpAssumption
<1> QED
  BY <1>1, <1>2

(* While the program runs nothing is saved.                                *)
LEMMA FileBefore ==
    ASSUME IInv, status = "running"
    PROVE  file \in OldFiles \cup [is : {"cut"}] /\ ~Saved
<1>1. ~Saved
  BY DEF IInv, CompleteWhenSaved
<1> QED
  BY <1>1 DEF IInv, TypeOK, Saved

(* The reader has a message when fewer wait than are on their way.         *)
LEMMA SomethingToHandle ==
    ASSUME TypeOK, Len(line) > held PROVE line # <<>>
<1>1. held \in Nat
  BY PortAssumption DEF TypeOK
<1>2. Len(<<>>) = 0
  OBVIOUS
<1> QED
  BY <1>1, <1>2

LEMMA HandleStep == ASSUME IInv, Handle PROVE IInv'
<1> DEFINE m == Head(line)
<1>1. /\ line \in Seq(Messages) /\ line # <<>> /\ m \in Messages
      /\ Truthful(m) /\ line' = Tail(line) /\ line' \in Seq(Messages)
      /\ \A i \in DOMAIN line' : Truthful(line'[i])
  <2>1. /\ line \in Seq(Messages) /\ line # <<>> /\ line' = Tail(line)
        /\ \A i \in DOMAIN line : Truthful(line[i])
    BY SomethingToHandle DEF IInv, TypeOK, NothingInvented, Handle
  <2>2. /\ m = line[1] /\ 1 \in DOMAIN line
        /\ \A i \in DOMAIN line' : i + 1 \in DOMAIN line /\ line'[i] = line[i + 1]
    BY <2>1
  <2> QED
    BY <2>1, <2>2
<1>2. /\ status = "running" /\ pc = "read"
      /\ aid_data' = Gathered(m) /\ tx' = tx \o Writes(m)
      /\ pc' = IF m.id \in Handled /\ check_aid_data(aid_data')
               THEN "open" ELSE "read"
      /\ UNCHANGED <<status, file, held, sky, owed, positions>>
  BY DEF Handle, Running, device
<1>3. /\ aid_data' \in Dictionaries
      /\ aid_data'.almanac \subseteq sky["AID_ALM"]
      /\ aid_data'.ephemeris \subseteq sky["AID_EPH"]
  BY <1>1, <1>2, GatheredIsTrue DEF IInv, TypeOK, NothingInvented
<1>4. tx' \in Seq(Commands)
  <2>1. tx \in Seq(Commands)
    BY DEF Commands, IInv, TypeOK
  <2>2. "positions_off" \in Commands
    BY DEF Commands
  <2>3. Writes(m) = <<"positions_off">> \/ Writes(m) = <<>>
    BY DEF Writes
  <2>4. Writes(m) \in Seq(Commands)
    <3>1. <<"positions_off">> \in Seq(Commands)
      BY <2>2
    <3> QED
      BY <2>3, <3>1, EmptySeq
  <2> QED
    BY <1>2, <2>1, <2>4, ConcatProperties
<1> HIDE DEF m
<1>5. TypeOK'
  <2>1. file' \in OldFiles \cup [is : {"cut"}]
    BY <1>2, FileBefore
  <2> QED
    BY <1>1, <1>2, <1>3, <1>4, <2>1 DEF IInv, TypeOK, Commands
<1>6. NothingInvented'
  <2>1. \A x : Truthful(x)' = Truthful(x)
    BY <1>2 DEF Truthful
  <2> QED
    BY <1>1, <1>2, <1>3, <2>1 DEF IInv, NothingInvented
<1>7. CompleteWhenSaved'
  BY <1>2, FileBefore DEF CompleteWhenSaved, Saved
<1> QED
  BY <1>5, <1>6, <1>7 DEF IInv

(* The receiver sends a true message.                                      *)
LEMMA SendStep ==
    ASSUME IInv, NEW m \in Messages, Truthful(m), Send(m), owed' \subseteq owed
    PROVE  IInv'
<1>1. /\ line \in Seq(Messages) /\ line' = Append(line, m)
      /\ held' \in 0 .. HELD
      /\ UNCHANGED <<pc, status, aid_data, file, tx, sky, positions>>
  BY DEF IInv, TypeOK, Send, Waiting
<1>2. /\ line' \in Seq(Messages)
      /\ \A i \in DOMAIN line' :
            line'[i] = m \/ (i \in DOMAIN line /\ line'[i] = line[i])
  <2>1. line' \in Seq(Messages) /\ Len(line') = Len(line) + 1
    BY <1>1
  <2>2. /\ DOMAIN line' = 1 .. Len(line) + 1 /\ DOMAIN line = 1 .. Len(line)
        /\ Len(line) \in Nat /\ line'[Len(line) + 1] = m
        /\ \A i \in 1 .. Len(line) : line'[i] = line[i]
    BY <1>1, AppendProperties, LenProperties
  <2> HIDE DEF IInv
  <2>3. ASSUME NEW i \in DOMAIN line'
        PROVE  line'[i] = m \/ (i \in DOMAIN line /\ line'[i] = line[i])
    <3>1. i = Len(line) + 1 \/ i \in 1 .. Len(line)
      BY <2>2
    <3> QED
      BY <2>2, <3>1
  <2> QED
    BY <2>1, <2>3
<1>3. TypeOK'
  BY <1>1, <1>2 DEF IInv, TypeOK
<1>4. NothingInvented'
  <2>1. \A x : Truthful(x)' = Truthful(x)
    BY <1>1 DEF Truthful
  <2> QED
    BY <1>1, <1>2, <2>1 DEF IInv, NothingInvented
<1>5. CompleteWhenSaved'
  BY <1>1 DEF IInv, CompleteWhenSaved, Saved, check_aid_data
<1> QED
  BY <1>3, <1>4, <1>5 DEF IInv

LEMMA ObeyStep == ASSUME IInv, Obey PROVE IInv'
<1>1. /\ tx \in Seq(Commands) /\ tx # <<>> /\ tx' = Tail(tx)
      /\ owed' = owed \cup Polled(Head(tx))
      /\ UNCHANGED <<pc, status, aid_data, file, line, held, sky>>
      /\ sky \in [{"AID_ALM", "AID_EPH"} -> SUBSET SV]
  BY DEF IInv, TypeOK, Obey, Commands
<1>2. positions' \in BOOLEAN
  BY DEF Obey, IInv, TypeOK
<1>3. owed' \subseteq Polls
  BY <1>1, PollsArePolls DEF IInv, TypeOK
<1>4. TypeOK'
  <2>1. tx' \in Seq(Commands)
    BY <1>1
  <2> QED
    BY <1>1, <1>2, <1>3, <2>1 DEF IInv, TypeOK, Commands
<1>5. NothingInvented'
  <2>1. \A x : Truthful(x)' = Truthful(x)
    BY <1>1 DEF Truthful
  <2> QED
    BY <1>1, <2>1 DEF IInv, NothingInvented
<1>6. CompleteWhenSaved'
  BY <1>1 DEF IInv, CompleteWhenSaved, Saved, check_aid_data
<1> QED
  BY <1>4, <1>5, <1>6 DEF IInv

(* The other steps of the program, and none.                               *)
LEMMA ControlStep ==
    ASSUME IInv, Request \/ Raise \/ Open \/ Write \/ Kill \/ UNCHANGED vars
    PROVE  IInv'
<1>1. /\ UNCHANGED <<aid_data, held, sky, owed, positions>>
      /\ pc' \in {"read", "write", pc}
      /\ status' \in {"raised", "exit_0", "killed", status}
  BY DEF Request, Raise, Open, Write, Kill, vars, device, Running
<1>2. /\ line \in Seq(Messages) /\ line' \in Seq(Messages)
      /\ \A i \in DOMAIN line' : Truthful(line'[i])
  <2>1. /\ line \in Seq(Messages) /\ \A i \in DOMAIN line : Truthful(line[i])
        /\ line' = line \/ (line # <<>> /\ line' = Tail(line))
    BY SomethingToHandle DEF IInv, TypeOK, NothingInvented, Request, Raise, Open, Write, Kill, vars
  <2>2. \A i \in DOMAIN line' : \E j \in DOMAIN line : line'[i] = line[j]
    BY <2>1
  <2>3. line' \in Seq(Messages)
    BY <2>1
  <2> QED
    BY <2>1, <2>2, <2>3
<1>3. tx' \in Seq(Commands)
  <2>1. tx \in Seq(Commands) /\ Requests \in Seq(Commands)
    BY DEF IInv, TypeOK, Requests, Commands
  <2>2. tx' = tx \/ tx' = tx \o Requests
    BY DEF Request, Raise, Open, Write, Kill, vars
  <2>3. tx \o Requests \in Seq(Commands)
    BY <2>1, ConcatProperties
  <2> QED
    BY <2>1, <2>2, <2>3
<1>4. file' \in OldFiles \cup [is : {"cut"}] \cup [is : {"saved"}, data : {aid_data}]
  BY DEF IInv, TypeOK, Request, Raise, Open, Write, Kill, vars
<1>5. TypeOK'
  <2>1. pc' \in {"request", "read", "open", "write"}
    BY <1>1 DEF IInv, TypeOK
  <2>2. status' \in {"running", "exit_0", "raised", "killed"}
    BY <1>1 DEF IInv, TypeOK
  <2> QED
    BY <1>1, <1>2, <1>3, <1>4, <2>1, <2>2 DEF IInv, TypeOK, Commands
<1>6. NothingInvented'
  <2>1. \A x : Truthful(x)' = Truthful(x)
    BY <1>1 DEF Truthful
  <2> QED
    BY <1>1, <1>2, <2>1 DEF IInv, NothingInvented
<1>7. CompleteWhenSaved'
  <2>1. check_aid_data(aid_data') <=> check_aid_data(aid_data)
    BY <1>1
  <2> USE DEF IInv, CompleteWhenSaved
  <2>2. CASE Request
    BY <2>1, <2>2, FileBefore DEF Request, Running, Saved
  <2>3. CASE Raise
    BY <2>1, <2>3, FileBefore DEF Raise, Running, Saved
  <2>4. CASE Open
    BY <2>1, <2>4 DEF Open, Running, Saved
  <2>5. CASE Write
    BY <2>1, <2>5 DEF Write, Running, Saved
  <2>6. CASE Kill
    BY <2>1, <2>6, FileBefore DEF Kill, Saved
  <2>7. CASE UNCHANGED vars
    BY <2>1, <2>7 DEF vars, Saved
  <2> QED
    BY <2>2, <2>3, <2>4, <2>5, <2>6, <2>7
<1> QED
  BY <1>5, <1>6, <1>7 DEF IInv

LEMMA DumpStep == IInv /\ [Next]_vars => IInv'
<1> SUFFICES ASSUME IInv, [Next]_vars PROVE IInv'
  OBVIOUS
<1>1. CASE Request \/ Raise \/ Open \/ Write \/ Kill \/ UNCHANGED vars
  BY <1>1, ControlStep
<1>2. CASE Handle
  BY <1>2, HandleStep
<1>3. CASE Obey
  BY <1>3, ObeyStep
<1>4. CASE Answer
  <2>0. PICK poll \in owed :
            /\ \E m \in Answers(poll) : Send(m)
            /\ owed' = owed \ {poll}
    BY <1>4 DEF Answer
  <2>1. PICK m \in Answers(poll) : Send(m)
    BY <2>0
  <2>2. m \in Messages /\ Truthful(m)
    BY DEF Answers
  <2> QED
    BY <2>0, <2>1, <2>2, SendStep
<1>5. CASE Position
  BY <1>5, SendStep, OtherMessages DEF Position
<1>6. CASE Chat
  <2>1. PICK m \in Others : Send(m) /\ UNCHANGED owed
    BY <1>6 DEF Chat
  <2> QED
    BY <2>1, SendStep, OtherMessages
<1> QED
  BY <1>1, <1>2, <1>3, <1>4, <1>5, <1>6 DEF Next, Host

(* Once a position has been handled the last command switches them off.    *)
LEMMA OffStep == IInv /\ OffIsLast /\ [Next]_vars => OffIsLast'
<1> SUFFICES ASSUME IInv, OffIsLast, [Next]_vars PROVE OffIsLast'
  OBVIOUS
<1>1. tx \in Seq(Commands) /\ aid_data \in Dictionaries
  BY DEF IInv, TypeOK, Commands
<1>2. CASE Request
  BY <1>2 DEF Request, Running, OffIsLast
<1>3. CASE Handle
  <2> DEFINE m == Head(line)
  <2>1. /\ status = "running" /\ status' = status
        /\ pc = "read" /\ pc' # "request" /\ positions' = positions
        /\ aid_data' = Gathered(m) /\ tx' = tx \o Writes(m)
    BY <1>3 DEF Handle, Running, device
  <2> HIDE DEF m
  <2>2. CASE m.id = "NAV_POSECEF"
    <3>1. tx' = Append(tx, "positions_off")
      BY <1>1, <2>1, <2>2, AppendIsConcat DEF Writes, Commands
    <3>2. tx' # <<>> /\ tx'[Len(tx')] = "positions_off"
      BY <1>1, <3>1
    <3> QED
      BY <2>1, <3>2 DEF OffIsLast
  <2>3. CASE m.id # "NAV_POSECEF"
    <3>1. tx' = tx
      BY <1>1, <2>1, <2>3, ConcatEmptySeq DEF Writes
    <3>2. Gathered(m).position = aid_data.position
      BY <1>1, <2>3 DEF Gathered, Dictionaries
    <3> QED
      BY <2>1, <3>1, <3>2 DEF OffIsLast
  <2> QED
    BY <2>2, <2>3
<1>4. CASE Obey
  <2>1. /\ tx # <<>> /\ tx' = Tail(tx)
        /\ UNCHANGED <<pc, status, aid_data>>
        /\ Head(tx) = "positions_off" => ~positions'
    BY <1>4 DEF Obey
  <2>2. aid_data.position => tx[Len(tx)] = "positions_off"
    BY <2>1 DEF OffIsLast
  <2>3. CASE Len(tx) = 1
    <3>1. tx' = <<>> /\ Head(tx) = tx[Len(tx)]
      BY <1>1, <2>1, <2>3
    <3> QED
      BY <2>1, <2>2, <3>1 DEF OffIsLast
  <2>4. CASE Len(tx) # 1
    <3>1. /\ Len(tx) \in Nat \ {0} /\ Len(tx') = Len(tx) - 1
          /\ \A i \in 1 .. Len(tx) - 1 : tx'[i] = tx[i + 1]
      BY <1>1, <2>1
    <3>2. tx' # <<>> /\ tx'[Len(tx')] = tx[Len(tx)]
      BY <2>4, <3>1
    <3> QED
      BY <2>1, <2>2, <3>2 DEF OffIsLast
  <2> QED
    BY <2>3, <2>4
<1>5. CASE Write
  BY <1>5 DEF Write, Running, device, OffIsLast
<1>6. CASE Raise \/ Open \/ Kill \/ Answer \/ Position \/ Chat \/ UNCHANGED vars
  <2>1. /\ UNCHANGED <<aid_data, tx, positions>>
        /\ pc' = pc \/ pc' = "write"
        /\ status' = status \/ status' \in {"raised", "killed"}
        /\ pc' # pc => status' = "running"
    BY <1>6 DEF Raise, Open, Kill, Answer, Position, Chat, Send, vars, device, Running
  <2> QED
    BY <2>1 DEF OffIsLast
<1> QED
  BY <1>2, <1>3, <1>4, <1>5, <1>6 DEF Next, Host

LEMMA DumpInvariant == Spec => [](IInv /\ OffIsLast)
<1>1. Init => OffIsLast
  BY DEF Init, OffIsLast
<1> QED
  BY <1>1, DumpInit, DumpStep, OffStep, PTL DEF Spec

-----------------------------------------------------------------------------
(* The lemmas about the load (PyLoadProofs), which hold whatever is in the *)
(* file.                                                                   *)
L == INSTANCE PyLoadProofs WITH Files <- OldFiles

LEMMA SameOrders == \A S : Load!SetToSeqs(S) = L!SetToSeqs(S)
BY DEF Load!SetToSeqs, L!SetToSeqs, Load!Cardinality, L!Cardinality

LEMMA SameAidMessages ==
    ASSUME NEW d, NEW s \in Load!AidMessages(d)
    PROVE  s \in L!AidMessages(d)
<1>1. PICK e \in Load!SetToSeqs(Load!Of("AID_EPH", d.ephemeris)),
           a \in Load!SetToSeqs(Load!Of("AID_ALM", d.almanac)) :
          s = e \o <<Load!Ini(d)>> \o Load!Hui(d) \o a
  BY DEF Load!AidMessages
<1>2. /\ Load!Ini(d) = L!Ini(d) /\ Load!Hui(d) = L!Hui(d)
      /\ Load!Of("AID_EPH", d.ephemeris) = L!Of("AID_EPH", d.ephemeris)
      /\ Load!Of("AID_ALM", d.almanac) = L!Of("AID_ALM", d.almanac)
  BY DEF Load!Ini, L!Ini, Load!Hui, L!Hui, Load!Of, L!Of
<1>3. /\ e \in L!SetToSeqs(L!Of("AID_EPH", d.ephemeris))
      /\ a \in L!SetToSeqs(L!Of("AID_ALM", d.almanac))
  BY <1>2, SameOrders
<1>4. s = e \o <<L!Ini(d)>> \o L!Hui(d) \o a
  BY <1>1, <1>2
<1> QED
  BY <1>3, <1>4 DEF L!AidMessages

(* What the handler sends for a dictionary: of each kind what is in it.    *)
LEMMA AidMessageFacts ==
    ASSUME NEW d \in Dictionaries, NEW s \in Load!AidMessages(d)
    PROVE  /\ s \in Seq(Load!AidSet) /\ s # <<>>
           /\ \A i \in DOMAIN s :
                 /\ s[i].id = "AID_ALM" => s[i].sv \in d.almanac
                 /\ s[i].id = "AID_EPH" => s[i].sv \in d.ephemeris
                 /\ s[i].id = "AID_INI" => s[i].valid = d.position
           /\ d.almanac # {} => \E i \in DOMAIN s : s[i].id = "AID_ALM"
           /\ d.ephemeris # {} => \E i \in DOMAIN s : s[i].id = "AID_EPH"
           /\ d.hui => \E i \in DOMAIN s : s[i].id = "AID_HUI"
<1> DEFINE C == L!Contents(d)
<1>1. d \in L!Dictionaries /\ s \in L!AidMessages(d)
  BY SameAidMessages DEF Dictionaries, L!Dictionaries
<1>2. /\ LineMax \in Nat /\ HELD < LineMax /\ AskMax \in Nat
      /\ OldFiles \subseteq [is : {"old", "saved"}, data : L!Dictionaries]
                               \cup [is : {"cut"}]
  <2>1. Dictionaries = L!Dictionaries
    BY DEF Dictionaries, L!Dictionaries
  <2> QED
    BY <2>1, DumpAssumption, AskAssumption
<1>3. L!Lists(s, C)
  <2>1. /\ L!IsFiniteSet(SV) /\ HELD \in Nat
        /\ Others \subseteq {[id |-> "Known"], [id |-> "Unknown"]}
    BY PortAssumption DEF IsFiniteSet, L!IsFiniteSet
  <2> QED
    BY <1>1, <1>2, <2>1, L!AidMessagesListContents
<1> HIDE DEF C
<1>4. /\ s \in Seq(C)
      /\ s = <<>> => C = {}
      /\ \A i \in DOMAIN s : s[i] \in C
      /\ \A x \in C : \E i \in DOMAIN s : s[i] = x
  <2>1. s \in Seq(C) /\ {s[i] : i \in DOMAIN s} = C
    BY <1>3 DEF L!Lists
  <2> QED
    BY <2>1
<1>5. C \subseteq Load!AidSet
  BY DEF C, L!Contents, L!Of, Load!Of, Load!AidSet, Dictionaries
<1>6. /\ [id |-> "AID_INI", valid |-> d.position] \in C
      /\ \A sv \in d.almanac : [id |-> "AID_ALM", sv |-> sv] \in C
      /\ \A sv \in d.ephemeris : [id |-> "AID_EPH", sv |-> sv] \in C
      /\ d.hui => [id |-> "AID_HUI"] \in C
  BY DEF C, L!Contents, L!Of
<1>7. \A x \in C : /\ x.id = "AID_ALM" => x.sv \in d.almanac
                   /\ x.id = "AID_EPH" => x.sv \in d.ephemeris
                   /\ x.id = "AID_INI" => x.valid = d.position
  BY DEF C, L!Contents, L!Of
<1>8. s \in Seq(Load!AidSet)
  BY <1>4, <1>5, SeqMonotonic
<1>9. /\ d.almanac # {} => \E x \in C : x.id = "AID_ALM"
      /\ d.ephemeris # {} => \E x \in C : x.id = "AID_EPH"
      /\ d.hui => \E x \in C : x.id = "AID_HUI"
  BY <1>6
<1> QED
  BY <1>4, <1>6, <1>7, <1>8, <1>9

-----------------------------------------------------------------------------
(* The session starts with a dump that has yet to begin.                   *)
LEMMA SessionStart == SessionInit => SessionIInv
<1> SUFFICES ASSUME SessionInit PROVE SessionIInv
  OBVIOUS
<1>1. IInv /\ OffIsLast
  BY DumpInit DEF SessionInit, Init, OffIsLast
<1> QED
  BY <1>1 DEF SessionInit, SessionIInv

(* Of a file that is not cut the load knows what the dump guarantees.      *)
LEMMA RestartStep ==
    ASSUME SessionIInv, Restart
    PROVE  SessionIInv'
<1>1. /\ IInv /\ fed' = <<>> /\ left' = <<>> /\ program' = "load"
      /\ sky \in [{"AID_ALM", "AID_EPH"} -> SUBSET SV]
      /\ pc' \in {"reset", "eval"} /\ status' = "running"
      /\ saved' = Saved /\ ~positions' /\ UNCHANGED <<file, sky>>
  BY DEF Restart, SessionIInv, IInv, TypeOK, load_only, Saved
<1>2. file.is # "cut" => file.data \in Dictionaries
  <2>1. /\ file \in OldFiles \cup [is : {"cut"}] \cup [is : {"saved"}, data : {aid_data}]
        /\ aid_data \in Dictionaries
    BY <1>1 DEF IInv, TypeOK
  <2>2. CASE file \in OldFiles
    BY <2>2, DumpAssumption
  <2>3. CASE file \in [is : {"cut"}]
    BY <2>3
  <2>4. CASE file \in [is : {"saved"}, data : {aid_data}]
    BY <2>1, <2>4
  <2> QED
    BY <2>1, <2>2, <2>3, <2>4
<1>3. Saved => FileIsTruthful
  <2> SUFFICES ASSUME Saved PROVE FileIsTruthful
    OBVIOUS
  <2>1. file.data = aid_data
    BY <1>1, SavedFile
  <2>2. check_aid_data(aid_data)
    BY <1>1 DEF IInv, CompleteWhenSaved
  <2> QED
    BY <1>1, <2>1, <2>2 DEF IInv, NothingInvented, FileIsTruthful
<1>4. FileIsTruthful' = FileIsTruthful /\ Saved' = Saved
  BY <1>1 DEF FileIsTruthful, check_aid_data, Saved
<1>5. FeedingTheFile'
  BY <1>1, EmptySeq DEF FeedingTheFile, Load!FeedingTheFile
<1> QED
  BY <1>1, <1>2, <1>3, <1>4, <1>5 DEF SessionIInv

(* The load evaluates the file, works out what to feed, and feeds it.      *)
LEMMA LoadStep ==
    ASSUME SessionIInv, LoadDoes(Load!Next)
    PROVE  SessionIInv'
<1>1. /\ program = "load" /\ program' = "load" /\ FeedingTheFile
      /\ UNCHANGED <<saved, sky, positions>>
      /\ sky \in [{"AID_ALM", "AID_EPH"} -> SUBSET SV]
      /\ file.is # "cut" => file.data \in Dictionaries
      /\ saved => FileIsTruthful
      /\ saved = Saved /\ ~positions
  BY DEF SessionIInv, LoadDoes, device
<1>2. Load!Next
  BY DEF LoadDoes
<1>3. file' = file
  BY <1>2 DEF Load!Next, Load!Host, Load!Reset, Load!Eval, Load!Enable,
              Load!Handle, Load!Raise, Load!Feed, Load!Kill, Load!Obey,
              Load!Ask, Load!Chat, Load!Send
<1>4. FileIsTruthful' = FileIsTruthful /\ Saved' = Saved
  BY <1>1, <1>3 DEF FileIsTruthful, check_aid_data, Saved
<1>5. FeedingTheFile'
  <2> USE DEF FeedingTheFile, Load!FeedingTheFile
  <2>1. CASE Load!Reset
    BY <1>1, <1>3, <2>1 DEF Load!Reset, Load!Running
  <2>2. CASE Load!Eval
    BY <1>1, <1>3, <2>2 DEF Load!Eval, Load!Running
  <2>3. CASE Load!Enable
    BY <1>1, <1>3, <2>3 DEF Load!Enable, Load!Running
  <2>4. CASE Load!Handle
    <3>1. /\ status = "running" /\ pc = "read" /\ fed = <<>>
          /\ UNCHANGED <<status, file, fed>> /\ file.is # "cut"
      BY <1>1, <2>4 DEF Load!Handle, Load!Running
    <3>2. CASE Load!IsRequest(Head(line))
      <4>1. left' \in Load!AidMessages(file.data) /\ pc' = "feed"
        BY <2>4, <3>2 DEF Load!Handle
      <4>2. left' \in Seq(Load!AidSet) /\ left' # <<>>
        BY <1>1, <3>1, <4>1, AidMessageFacts
      <4>3. fed' \o left' = left'
        BY <3>1, <4>2, ConcatEmptySeq
      <4> QED
        BY <1>1, <3>1, <4>1, <4>2, <4>3
    <3>3. CASE ~Load!IsRequest(Head(line))
      BY <1>1, <2>4, <3>1, <3>3 DEF Load!Handle
    <3> QED
      BY <3>2, <3>3
  <2>5. CASE Load!Raise
    BY <1>1, <1>3, <2>5 DEF Load!Raise, Load!Running
  <2>6. CASE Load!Feed
    <3>1. /\ status = "running" /\ pc = "feed" /\ pc' = "feed" /\ left # <<>>
          /\ left \in Seq(Load!AidSet) /\ fed \in Seq(Load!AidSet)
          /\ fed' = Append(fed, Head(left)) /\ left' = Tail(left)
          /\ status' = IF left' = <<>> THEN "exit_0" ELSE "running"
      BY <1>1, <2>6 DEF Load!Feed, Load!Running
    <3>2. left' \in Seq(Load!AidSet) /\ fed' \in Seq(Load!AidSet)
      BY <3>1
    <3>3. fed' \o left' = fed \o left
      BY <3>1
    <3> QED
      BY <1>1, <1>3, <3>1, <3>2, <3>3
  <2>7. CASE Load!Kill
    BY <1>1, <1>3, <2>7 DEF Load!Kill
  <2>8. CASE Load!Obey \/ Load!Ask \/ Load!Chat
    BY <1>1, <1>3, <2>8 DEF Load!Obey, Load!Ask, Load!Chat, Load!Send
  <2> QED
    BY <1>2, <2>1, <2>2, <2>3, <2>4, <2>5, <2>6, <2>7, <2>8 DEF Load!Next, Load!Host
<1> QED
  BY <1>1, <1>3, <1>4, <1>5 DEF SessionIInv

LEMMA SessionStep == SessionIInv /\ [SessionNext]_session_vars => SessionIInv'
<1> SUFFICES ASSUME SessionIInv, [SessionNext]_session_vars PROVE SessionIInv'
  OBVIOUS
<1>1. CASE DumpDoes(Next)
  <2>1. /\ program = "dump" /\ IInv /\ OffIsLast /\ Next
        /\ UNCHANGED <<program, saved, fed, left>>
        /\ ~saved /\ fed = <<>> /\ left = <<>>
    BY <1>1 DEF SessionIInv, DumpDoes, load_only
  <2>2. IInv' /\ OffIsLast'
    BY <2>1, DumpStep, OffStep
  <2> QED
    BY <2>1, <2>2 DEF SessionIInv
<1>2. CASE Restart
  BY <1>2, RestartStep
<1>3. CASE LoadDoes(Load!Next)
  BY <1>3, LoadStep
<1>4. CASE UNCHANGED session_vars
  <2>1. UNCHANGED <<program, saved, left, fed, pc, status, file, sky>> /\ UNCHANGED vars
    BY <1>4 DEF session_vars, load_only, vars, device
  <2>2. IInv /\ OffIsLast => IInv' /\ OffIsLast'
    BY <2>1, DumpStep, OffStep
  <2>3. /\ FileIsTruthful' = FileIsTruthful /\ Saved' = Saved
        /\ positions' = positions
    BY <2>1 DEF FileIsTruthful, check_aid_data, Saved, vars, device
  <2>4. FeedingTheFile' = FeedingTheFile
    BY <2>1 DEF FeedingTheFile, Load!FeedingTheFile
  <2> QED
    BY <2>1, <2>2, <2>3, <2>4 DEF SessionIInv
<1> QED
  BY <1>1, <1>2, <1>3, <1>4 DEF SessionNext

LEMMA SessionInvariant == SessionSpec => []SessionIInv
BY SessionStart, SessionStep, PTL DEF SessionSpec

-----------------------------------------------------------------------------
LEMMA IInvSavedIsData == IInv => SavedIsData
<1> SUFFICES ASSUME IInv, Saved PROVE SavedIsData
  BY DEF SavedIsData
<1>1. file.data = aid_data
  BY SavedFile
<1> QED
  BY <1>1 DEF IInv, NothingInvented, SavedIsData

LEMMA FileIsSafe ==
    ASSUME IInv, Next, file' # file
    PROVE  /\ status = "running"
           /\ aid_data.almanac # {} /\ aid_data.ephemeris # {}
           /\ aid_data.position /\ aid_data.hui
<1>1. Open \/ Write
  BY DEF Next, Host, Request, Handle, Raise, Kill, Obey, Answer, Position,
         Chat, Send
<1>2. status = "running" /\ pc \in {"open", "write"}
  BY <1>1 DEF Open, Write, Running
<1> QED
  BY <1>2 DEF IInv, CompleteWhenSaved, check_aid_data

(* The Python dump, its file and its queues are what they should be in     *)
(* every state (python/ubxlib/ubx_dump.py:10-45,                           *)
(* python/gta02-agps.py:22-40).                                            *)
THEOREM TypeCorrect == Spec => []TypeOK
<1>1. IInv => TypeOK
  BY DEF IInv
<1> QED
  BY <1>1, DumpInvariant, PTL

(* What is saved of a satellite is data the receiver has: the handlers     *)
(* pass over messages without data words                                   *)
(* (python/ubxlib/ubx_dump.py:25-39).                                      *)
THEOREM SavedIsTrue == Spec => []SavedIsData
BY IInvSavedIsData, DumpInvariant, PTL

(* Positions overtake commands, but not those that switch them off: the    *)
(* one the last position called for is the last command there is           *)
(* (python/ubxlib/ubx_dump.py:16-23, python/gta02-agps.py:22-27).          *)
THEOREM PositionIsOff == Spec => []NoPositionsLeft
<1>1. IInv /\ OffIsLast => NoPositionsLeft
  BY DEF IInv, CompleteWhenSaved, check_aid_data, OffIsLast, NoPositionsLeft
<1> QED
  BY <1>1, DumpInvariant, PTL

(* The old dump is given up only for a complete one: the file is opened    *)
(* after check_aid_data has returned the dictionary                        *)
(* (python/gta02-agps.py:38-40, python/ubxlib/ubx_dump.py:10-14).          *)
THEOREM DumpKept == Spec => OldDumpKept
<1>1. IInv /\ [Next]_vars =>
        [file' # file =>
            /\ status = "running"
            /\ aid_data.almanac # {} /\ aid_data.ephemeris # {}
            /\ aid_data.position /\ aid_data.hui]_vars
  BY FileIsSafe
<1> QED
  BY <1>1, DumpInvariant, PTL DEF Spec, OldDumpKept

(* What a load of this session's dump has given back when it ends is       *)
(* something of each kind, the position as valid, and nothing the receiver *)
(* did not have before it was switched off, however many satellites there  *)
(* are and in whatever order the dictionary yields them                    *)
(* (python/ubxlib/ubx_dump.py:10-45, python/ubxlib/ubx_load.py:40-66).     *)
THEOREM LoadIsOfDump == SessionSpec => []LoadedFromDump
<1>1. SessionIInv => LoadedFromDump
  <2> SUFFICES ASSUME SessionIInv, program = "load", saved, status = "exit_0"
               PROVE  LoadedFromDump
    BY DEF LoadedFromDump
  <2>1. /\ FileIsTruthful /\ pc = "feed" /\ left = <<>>
        /\ fed \in Seq(Load!AidSet) /\ fed \o left \in Load!AidMessages(file.data)
        /\ file.data \in Dictionaries
    BY DEF SessionIInv, FeedingTheFile, Load!FeedingTheFile
  <2>2. fed \in Load!AidMessages(file.data)
    BY <2>1, ConcatEmptySeq
  <2>3. /\ file.data.almanac # {} /\ file.data.ephemeris # {}
        /\ file.data.position /\ file.data.hui
        /\ file.data.almanac \subseteq sky["AID_ALM"]
        /\ file.data.ephemeris \subseteq sky["AID_EPH"]
    BY <2>1 DEF FileIsTruthful, check_aid_data
  <2>4. /\ \A i \in DOMAIN fed :
              /\ fed[i].id = "AID_ALM" => fed[i].sv \in sky["AID_ALM"]
              /\ fed[i].id = "AID_EPH" => fed[i].sv \in sky["AID_EPH"]
              /\ fed[i].id = "AID_INI" => fed[i].valid
        /\ \E i \in DOMAIN fed : fed[i].id = "AID_ALM"
        /\ \E i \in DOMAIN fed : fed[i].id = "AID_EPH"
        /\ \E i \in DOMAIN fed : fed[i].id = "AID_HUI"
    BY <2>1, <2>2, <2>3, AidMessageFacts
  <2>5. DOMAIN sky = {"AID_ALM", "AID_EPH"}
    BY DEF SessionIInv
  <2> QED
    BY <2>4, <2>5 DEF LoadedFromDump
<1> QED
  BY <1>1, SessionInvariant, PTL

(* In the session as in the dump by itself: neither a restart at any point *)
(* nor the load makes what is saved untrue or leaves positions on          *)
(* (python/ubxlib/ubx_dump.py:16-39).                                      *)
THEOREM SessionDumpsSafely == SessionSpec => [](SavedIsData /\ NoPositionsLeft)
<1>1. SessionIInv => SavedIsData /\ NoPositionsLeft
  <2> SUFFICES ASSUME SessionIInv PROVE SavedIsData /\ NoPositionsLeft
    OBVIOUS
  <2>1. CASE program = "dump"
    BY <2>1, IInvSavedIsData
       DEF SessionIInv, IInv, CompleteWhenSaved, check_aid_data, OffIsLast,
           NoPositionsLeft
  <2>2. CASE program = "load"
    BY <2>2 DEF SessionIInv, FileIsTruthful, SavedIsData, NoPositionsLeft
  <2> QED
    BY <2>1, <2>2 DEF SessionIInv
<1> QED
  BY <1>1, SessionInvariant, PTL

(* The load only reads the dump file, so in the session too the old dump   *)
(* is given up for a complete one only (python/gta02-agps.py:38-48).       *)
THEOREM SessionKeepsOldDump == SessionSpec => OldDumpKept
<1>1. SessionIInv /\ [SessionNext]_session_vars =>
        [file' # file =>
            /\ status = "running"
            /\ aid_data.almanac # {} /\ aid_data.ephemeris # {}
            /\ aid_data.position /\ aid_data.hui]_vars
  <2> SUFFICES ASSUME SessionIInv, [SessionNext]_session_vars, file' # file
               PROVE  /\ status = "running"
                      /\ aid_data.almanac # {} /\ aid_data.ephemeris # {}
                      /\ aid_data.position /\ aid_data.hui
    BY DEF vars
  <2>1. CASE DumpDoes(Next)
    BY <2>1, FileIsSafe DEF DumpDoes, SessionIInv
  <2>2. CASE Restart
    BY <2>2 DEF Restart
  <2>3. CASE LoadDoes(Load!Next)
    BY <2>3 DEF LoadDoes, Load!Next, Load!Host, Load!Reset, Load!Eval, Load!Enable,
                Load!Handle, Load!Raise, Load!Feed, Load!Kill, Load!Obey,
                Load!Ask, Load!Chat, Load!Send
  <2>4. CASE UNCHANGED session_vars
    BY <2>4 DEF session_vars, vars
  <2> QED
    BY <2>1, <2>2, <2>3, <2>4 DEF SessionNext
<1> QED
  BY <1>1, SessionInvariant, PTL DEF SessionSpec, OldDumpKept

=============================================================================
