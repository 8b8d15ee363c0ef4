--------------------------- MODULE AgpsLoadProofs ---------------------------
(***************************************************************************)
(* Proofs about AgpsLoad: aid data goes only to a receiver that asked, the *)
(* position and time go last, and everything up to the first position of   *)
(* the file goes; and about AidIni: its fields fit, and the time in it is  *)
(* right within the accuracy stated with it.                               *)
(***************************************************************************)
EXTENDS AgpsLoad, AidIni, TLAPS, FiniteSetTheorems, SequenceTheorems

Fed == [id : AidIds, size : Sizes]

(* read() moves messages and makes none.                                   *)
LEMMA ReadMembers ==
    ASSUME NEW l \in Seq(Messages), NEW b \in Seq(Messages),
           NEW r \in ReadResults(l, b)
    PROVE  /\ r.line \in Seq(Messages) /\ r.buf \in Seq(Messages)
           /\ \A i \in DOMAIN r.line : \E j \in DOMAIN l : r.line[i] = l[j]
           /\ \A i \in DOMAIN r.buf : \/ \E j \in DOMAIN l : r.buf[i] = l[j]
                                      \/ \E j \in DOMAIN b : r.buf[i] = b[j]
<1>0. PICK n \in 0 .. Len(l), part \in BOOLEAN : r = Moved(l, b, n, part)
  BY DEF ReadResults
<1>1. r.line = SubSeq(l, n + 1, Len(l)) /\ r.buf = b \o SubSeq(l, 1, n)
  BY <1>0 DEF Moved
<1> DEFINE front == SubSeq(l, 1, n)  rest == SubSeq(l, n + 1, Len(l))
<1>2. /\ front \in Seq(Messages) /\ rest \in Seq(Messages)
      /\ Len(front) = n /\ Len(rest) = Len(l) - n
      /\ \A i \in 1 .. n : front[i] = l[i]
      /\ \A i \in 1 .. Len(l) - n : rest[i] = l[i + n]
  OBVIOUS
<1> HIDE DEF front, rest
<1>3. r.line = rest /\ r.buf = b \o front
  BY <1>1 DEF front, rest
<1>4. \A i \in DOMAIN rest : i + n \in DOMAIN l /\ rest[i] = l[i + n]
  BY <1>2
<1>5. /\ b \o front \in Seq(Messages)
      /\ Len(b \o front) = Len(b) + n
      /\ \A i \in 1 .. Len(b) + n : (b \o front)[i] =
            IF i <= Len(b) THEN b[i] ELSE front[i - Len(b)]
  BY <1>2, ConcatProperties
<1>6. ASSUME NEW i \in DOMAIN (b \o front)
      PROVE  \/ \E j \in DOMAIN l : (b \o front)[i] = l[j]
             \/ \E j \in DOMAIN b : (b \o front)[i] = b[j]
  <2>1. i \in 1 .. Len(b) + n /\ Len(b) \in Nat
    BY <1>5
  <2>2. CASE i <= Len(b)
    <3>1. i \in DOMAIN b /\ (b \o front)[i] = b[i]
      BY <1>5, <2>1, <2>2
    <3> QED
      BY <3>1
  <2>3. CASE ~(i <= Len(b))
    <3>1. i - Len(b) \in 1 .. n /\ i - Len(b) \in DOMAIN l
      BY <2>1, <2>3
    <3>2. (b \o front)[i] = l[i - Len(b)]
      BY <1>2, <1>5, <2>1, <2>3, <3>1
    <3> QED
      BY <3>1, <3>2
  <2> QED
    BY <2>2, <2>3
<1>7. \A i \in DOMAIN r.buf : \/ \E j \in DOMAIN l : r.buf[i] = l[j]
                              \/ \E j \in DOMAIN b : r.buf[i] = b[j]
  BY <1>3, <1>6
<1>8. \A i \in DOMAIN r.line : \E j \in DOMAIN l : r.line[i] = l[j]
  BY <1>3, <1>4
<1> QED
  BY <1>2, <1>3, <1>5, <1>7, <1>8

LEMMA AskIsMessage ==
    /\ Ask \in Messages /\ Ask.id = "AID_DATA"
    /\ \A size \in {"full", "empty"} : [id |-> "OTHER", size |-> size] \in Messages
    /\ <<Ask>> \in Seq(Messages) /\ Len(<<Ask>>) = 1
BY DEF Ask, Messages, Ids, Sizes

LEMMA NothingHandled ==
    ASSUME next = 0 PROVE Answered = {} /\ Cardinality(Answered) = 0
<1>1. Answered = {}
  BY DEF Answered
<1> QED
  BY <1>1, FS_EmptySet

LEMMA IInvInit == Init => IInv
<1> SUFFICES ASSUME Init PROVE IInv
  OBVIOUS
<1> USE DEF Init
<1>1. /\ file \in Seq(Messages) /\ line \in Seq(Messages) /\ buf \in Seq(Messages)
      /\ asked = Len(line) /\ line \in {<<>>, <<Ask>>}
  BY LoadAssumption, AskIsMessage, EmptySeq
<1>2. asked \in 0 .. AskMax
  <2>1. asked \in {0, 1}
    BY <1>1, AskIsMessage
  <2>2. AskMax \in Nat \ {0}
    BY LoadAssumption
  <2> QED
    BY <2>1, <2>2
<1>3. TypeOK
  <2>1. next \in 0 .. Len(file) /\ fed \in Seq(Fed)
    BY <1>1
  <2> QED
    BY <1>1, <1>2, <2>1 DEF TypeOK, Fed
<1>4. IniIsLast
  BY DEF IniIsLast
<1>5. RequestsWereMade
  <2>1. line # <<>> => asked = 1
    BY <1>1, AskIsMessage
  <2> QED
    BY <2>1 DEF RequestsWereMade
<1>6. ArmedWhileWaiting
  BY DEF ArmedWhileWaiting
<1>7. FedAsHandled
  BY NothingHandled DEF FedAsHandled
<1> QED
  BY <1>3, <1>4, <1>5, <1>6, <1>7 DEF IInv

(* What is fed stays as it is while the file is not read.                  *)
LEMMA FeedKept ==
    ASSUME IInv, UNCHANGED <<file, fed, next>>, pc = "feed" => pc' = "feed",
           status' = status \/ status = "running",
           status' = status \/ (status' = "exit_0" => pc' # "feed"),
           pc' = "feed" /\ pc # "feed" => status' = "running"
    PROVE  FedAsHandled' /\ IniIsLast'
<1>1. Answered' = Answered
  BY DEF Answered
<1>2. FedAsHandled'
  BY <1>1 DEF IInv, FedAsHandled
<1>3. IniIsLast'
  BY DEF IInv, IniIsLast
<1> QED
  BY <1>2, <1>3

LEMMA WaitStep == ASSUME IInv, Wait PROVE IInv'
<1>1. PICK r \in ReadResults(line, buf) :
         /\ line' = r.line
         /\ IF Visible(r)
            THEN /\ buf' = Tail(r.buf)
                 /\ wait_for_aid_data_request(Head(r.buf))
            ELSE /\ buf' = r.buf
                 /\ UNCHANGED pc
  BY DEF Wait
<1>2. /\ pc = "wait" /\ status = "running"
      /\ UNCHANGED <<status, armed, file, fed, next, asked>>
      /\ line \in Seq(Messages) /\ buf \in Seq(Messages)
      /\ \A i \in DOMAIN line : line[i].id = "AID_DATA" => asked > 0
      /\ \A i \in DOMAIN buf : buf[i].id = "AID_DATA" => asked > 0
  BY DEF Wait, Running, IInv, TypeOK, RequestsWereMade
<1>3. /\ r.line \in Seq(Messages) /\ r.buf \in Seq(Messages)
      /\ \A i \in DOMAIN r.line : r.line[i].id = "AID_DATA" => asked > 0
      /\ \A i \in DOMAIN r.buf : r.buf[i].id = "AID_DATA" => asked > 0
  BY <1>2, ReadMembers
<1>4. /\ buf' \in Seq(Messages) /\ pc' \in {"wait", "disarm"}
      /\ \A i \in DOMAIN buf' : buf'[i].id = "AID_DATA" => asked > 0
      /\ pc' = "disarm" => asked > 0
  <2>1. CASE Visible(r)
    <3>1. r.buf # <<>> /\ buf' = Tail(r.buf) /\ wait_for_aid_data_request(r.buf[1])
      BY <1>1, <1>3, <2>1 DEF Visible
    <3>2. /\ Tail(r.buf) \in Seq(Messages) /\ 1 \in DOMAIN r.buf
          /\ \A i \in DOMAIN Tail(r.buf) :
                i + 1 \in DOMAIN r.buf /\ Tail(r.buf)[i] = r.buf[i + 1]
      BY <1>3, <3>1
    <3> QED
      BY <1>3, <3>1, <3>2 DEF wait_for_aid_data_request
  <2>2. CASE ~Visible(r)
    BY <1>1, <1>2, <1>3, <2>2
  <2> QED
    BY <2>1, <2>2
<1>5. TypeOK'
  BY <1>1, <1>2, <1>3, <1>4 DEF IInv, TypeOK
<1>6. RequestsWereMade'
  BY <1>1, <1>2, <1>3, <1>4 DEF RequestsWereMade
<1>7. ArmedWhileWaiting'
  BY <1>2, <1>4 DEF IInv, ArmedWhileWaiting
<1>8. FedAsHandled' /\ IniIsLast'
  BY <1>2, <1>4, FeedKept
<1> QED
  BY <1>5, <1>6, <1>7, <1>8 DEF IInv

(* The receiver sends.                                                     *)
LEMMA SendStep ==
    ASSUME IInv, NEW m \in Messages, Send(m), asked' \in {asked, asked + 1},
           asked' \in 0 .. AskMax, m.id = "AID_DATA" => asked' = asked + 1
    PROVE  IInv'
<1>1. /\ line \in Seq(Messages) /\ line' = Append(line, m) /\ asked \in Nat
      /\ UNCHANGED <<pc, status, armed, file, fed, next, buf>>
      /\ asked > 0 => asked' > 0
  BY DEF IInv, TypeOK, Send
<1>2. TypeOK'
  <2>1. line' \in Seq(Messages)
    BY <1>1
  <2> QED
    BY <1>1, <2>1 DEF IInv, TypeOK
<1>3. \A i \in DOMAIN line' : line'[i].id = "AID_DATA" => asked' > 0
  <2>1. /\ DOMAIN line' = 1 .. Len(line) + 1 /\ DOMAIN line = 1 .. Len(line)
        /\ line'[Len(line) + 1] = m /\ \A i \in DOMAIN line : line'[i] = line[i]
        /\ Len(line) \in Nat
    BY <1>1
  <2>2. \A i \in DOMAIN line : line[i].id = "AID_DATA" => asked > 0
    BY DEF IInv, RequestsWereMade
  <2> QED
    BY <1>1, <2>1, <2>2
<1>4. RequestsWereMade'
  BY <1>1, <1>3 DEF IInv, RequestsWereMade
<1>5. ArmedWhileWaiting'
  BY <1>1 DEF IInv, ArmedWhileWaiting
<1>6. FedAsHandled' /\ IniIsLast'
  BY <1>1, FeedKept
<1> QED
  BY <1>2, <1>4, <1>5, <1>6 DEF IInv

(* The steps before the file is read.                                      *)
LEMMA ControlStep ==
    ASSUME IInv,
           Open \/ Enable \/ Arm \/ Disarm \/ Alarm \/ Panic \/ UNCHANGED vars
    PROVE  IInv'
<1>1. /\ UNCHANGED <<file, fed, next, buf, line, asked>>
      /\ pc' \in {"enable", "arm", "wait", "feed", pc}
      /\ status' \in {"exit_0", "timeout", "panic", status}
      /\ armed' \in BOOLEAN
  BY DEF IInv, TypeOK, Open, Enable, Arm, Disarm, Alarm, Panic, vars
<1>2. TypeOK'
  <2>1. pc' \in {"open", "enable", "arm", "wait", "disarm", "feed"}
    BY <1>1 DEF IInv, TypeOK
  <2>2. status' \in {"running", "exit_0", "timeout", "panic"}
    BY <1>1 DEF IInv, TypeOK
  <2> QED
    BY <1>1, <2>1, <2>2 DEF IInv, TypeOK
<1>3. RequestsWereMade'
  <2>1. pc' = "feed" => pc \in {"disarm", "feed"}
    BY DEF Open, Enable, Arm, Disarm, Alarm, Panic, Running, vars
  <2>2. pc' = "disarm" => pc = "disarm"
    BY <1>1
  <2> QED
    BY <1>1, <2>1, <2>2 DEF IInv, RequestsWereMade
<1>4. ArmedWhileWaiting'
  <2> USE DEF IInv, ArmedWhileWaiting, Running
  <2>1. CASE Open
    BY <2>1 DEF Open
  <2>2. CASE Enable
    BY <2>2 DEF Enable
  <2>3. CASE Arm
    BY <2>3 DEF Arm
  <2>4. CASE Disarm
    BY <2>4 DEF Disarm
  <2>5. CASE Alarm
    BY <2>5 DEF Alarm
  <2>6. CASE Panic
    BY <2>6 DEF Panic
  <2>7. CASE UNCHANGED vars
    BY <2>7 DEF vars
  <2> QED
    BY <2>1, <2>2, <2>3, <2>4, <2>5, <2>6, <2>7
<1>5. FedAsHandled' /\ IniIsLast'
  <2>1. /\ pc = "feed" => pc' = "feed"
        /\ status' = status \/ status = "running"
        /\ status' = status \/ (status' = "exit_0" => pc' # "feed")
        /\ pc' = "feed" /\ pc # "feed" => status' = "running"
    BY DEF Open, Enable, Arm, Disarm, Alarm, Panic, Running, vars
  <2> QED
    BY <1>1, <2>1, FeedKept
<1> QED
  BY <1>2, <1>3, <1>4, <1>5 DEF IInv

(* What the handler sends for a message.                                   *)
LEMMA SentFacts ==
    ASSUME NEW m \in Messages
    PROVE  /\ m.id = "NAV_POSECEF" =>
                 SendsAs(m) = <<[id |-> "AID_INI", size |-> "full"]>>
           /\ m.id \in {"AID_ALM", "AID_EPH", "AID_HUI"} =>
                 \E x \in Fed : x.id # "AID_INI" /\ SendsAs(m) = <<x>>
           /\ m.id \notin AidIds \cup {"NAV_POSECEF"} => SendsAs(m) = <<>>
           /\ m.id # "AID_INI"
<1>1. m.id \in Ids /\ m.size \in Sizes /\ m = [id |-> m.id, size |-> m.size]
  BY DEF Messages
<1>2. m.id # "AID_INI"
  BY <1>1 DEF Ids
<1>3. m.id = "NAV_POSECEF" => SendsAs(m) = <<[id |-> "AID_INI", size |-> "full"]>>
  BY DEF SendsAs
<1>4. ASSUME m.id \in {"AID_ALM", "AID_EPH"}
      PROVE  m \in Fed /\ m.id # "AID_INI" /\ SendsAs(m) = <<m>>
  BY <1>1, <1>4 DEF SendsAs, Fed, AidIds
<1>5. ASSUME m.id = "AID_HUI"
      PROVE  /\ [m EXCEPT !.id = "AID_EPH"] \in Fed
             /\ [m EXCEPT !.id = "AID_EPH"].id # "AID_INI"
             /\ SendsAs(m) = <<[m EXCEPT !.id = "AID_EPH"]>>
  <2>1. [m EXCEPT !.id = "AID_EPH"] = [id |-> "AID_EPH", size |-> m.size]
    BY <1>1
  <2> QED
    BY <1>1, <1>5, <2>1 DEF SendsAs, Fed, AidIds
<1>6. m.id \notin AidIds \cup {"NAV_POSECEF"} => SendsAs(m) = <<>>
  BY DEF SendsAs, AidIds
<1> QED
  BY <1>2, <1>3, <1>4, <1>5, <1>6

LEMMA FeedStep == ASSUME IInv, Feed PROVE IInv'
<1> DEFINE n == next + 1  m == file[n]
           takes == m.id \in AidIds \cup {"NAV_POSECEF"}
<1>1. /\ pc = "feed" /\ status = "running" /\ pc' = "feed"
      /\ fed' = fed \o SendsAs(m) /\ next' = n
      /\ status' = IF m.id = "NAV_POSECEF" THEN "exit_0" ELSE "running"
      /\ UNCHANGED <<armed, file, buf, line, asked>>
      /\ SubSeq(file, n, Len(file)) # <<>>
  BY DEF Feed, Running, handle_message_from_file, Visible
<1>2. /\ file \in Seq(Messages) /\ fed \in Seq(Fed) /\ next \in 0 .. Len(file)
      /\ Len(file) \in Nat
  <2>1. file \in Seq(Messages) /\ next \in 0 .. Len(file)
    BY DEF IInv, TypeOK
  <2>2. fed \in Seq(Fed)
    BY DEF IInv, TypeOK, Fed
  <2> QED
    BY <2>1, <2>2
<1>3. n \in DOMAIN file /\ n \in 1 .. Len(file) /\ m \in Messages
  <2>1. n \in Nat \ {0} /\ n <= Len(file) + 1
    BY <1>2
  <2>2. ASSUME n = Len(file) + 1 PROVE FALSE
    <3>1. n \in Int /\ Len(file) \in Int /\ Len(file) < n
      BY <1>2, <2>1, <2>2
    <3>2. SubSeq(file, n, Len(file)) = <<>>
      BY <3>1, SubSeqEmpty
    <3> QED
      BY <1>1, <3>2
  <2>3. n \in 1 .. Len(file)
    BY <1>2, <2>1, <2>2
  <2> QED
    BY <1>2, <2>3
<1>4. /\ \A i \in DOMAIN fed : fed[i].id # "AID_INI"
      /\ Len(fed) = Cardinality(Answered)
      /\ \A i \in 1 .. next : file[i].id # "NAV_POSECEF"
  BY <1>1 DEF IInv, IniIsLast, FedAsHandled
<1> HIDE DEF m
<1>5. /\ Answered' = Answered \cup (IF takes THEN {n} ELSE {})
      /\ n \notin Answered /\ IsFiniteSet(Answered)
  <2>1. 1 .. n = 1 .. next \cup {n} /\ n \notin 1 .. next
    BY <1>2
  <2>2. IsFiniteSet(Answered)
    <3>1. next \in Int /\ IsFiniteSet(1 .. next)
      BY <1>2, FS_Interval
    <3>2. Answered \in SUBSET (1 .. next)
      BY DEF Answered
    <3> QED
      BY <3>1, <3>2, FS_Subset
  <2> QED
    BY <1>1, <2>1, <2>2 DEF Answered, m
<1>6. /\ fed' \in Seq(Fed)
      /\ Len(fed') = Len(fed) + (IF takes THEN 1 ELSE 0)
      /\ \A i \in DOMAIN fed' : fed'[i].id = "AID_INI" =>
            i = Len(fed') /\ m.id = "NAV_POSECEF"
  <2>1. CASE m.id = "NAV_POSECEF"
    <3> DEFINE x == [id |-> "AID_INI", size |-> "full"]
    <3>1. fed' = fed \o <<x>> /\ x \in Fed /\ takes
      BY <1>1, <1>3, <2>1, SentFacts DEF Fed, AidIds, Sizes
    <3> HIDE DEF x
    <3> QED
      BY <1>2, <1>4, <2>1, <3>1
  <2>2. CASE m.id \in {"AID_ALM", "AID_EPH", "AID_HUI"}
    <3>1. PICK x \in Fed : x.id # "AID_INI" /\ SendsAs(m) = <<x>>
      BY <1>3, <2>2, SentFacts
    <3>2. takes
      BY <2>2 DEF AidIds
    <3>3. fed' = fed \o <<x>>
      BY <1>1, <3>1
    <3> QED
      BY <1>2, <1>4, <3>1, <3>2, <3>3
  <2>3. CASE ~takes
    <3>1. fed' = fed \o <<>>
      BY <1>1, <1>3, <2>3, SentFacts
    <3>2. fed' = fed
      BY <1>2, <3>1
    <3> QED
      BY <1>2, <1>4, <2>3, <3>2
  <2> QED
    BY <1>3, <2>1, <2>2, <2>3, SentFacts DEF AidIds
<1>7. TypeOK'
  <2>1. next' \in 0 .. Len(file') /\ fed' \in Seq([id : AidIds, size : Sizes])
    <3>1. n \in 0 .. Len(file)
      BY <1>2, <1>3
    <3> QED
      BY <1>1, <1>6, <3>1 DEF Fed
  <2>2. status' \in {"running", "exit_0"}
    BY <1>1
  <2> QED
    BY <1>1, <2>1, <2>2 DEF IInv, TypeOK
<1>8. IniIsLast'
  BY <1>1, <1>6 DEF IniIsLast
<1>9. FedAsHandled'
  <2>1. Cardinality(Answered') = Cardinality(Answered) + (IF takes THEN 1 ELSE 0)
    <3>1. Cardinality(Answered) \in Nat
      BY <1>5, FS_CardinalityType
    <3>2. CASE takes
      BY <1>5, <3>2, FS_AddElement
    <3>3. CASE ~takes
      BY <1>5, <3>1, <3>3
    <3> QED
      BY <3>2, <3>3
  <2>2. Len(fed') = Cardinality(Answered')
    BY <1>4, <1>6, <2>1
  <2>3. \A i \in 1 .. n : file[i].id = "NAV_POSECEF" => i = n /\ m.id = "NAV_POSECEF"
    BY <1>2, <1>4 DEF m
  <2>4. status' = "exit_0" => n > 0 /\ file[n].id = "NAV_POSECEF"
    <3>1. n > 0
      BY <1>2
    <3> QED
      BY <1>1, <3>1 DEF m
  <2> QED
    BY <1>1, <2>2, <2>3, <2>4 DEF FedAsHandled
<1>10. RequestsWereMade' /\ ArmedWhileWaiting'
  BY <1>1 DEF IInv, RequestsWereMade, ArmedWhileWaiting
<1> QED
  BY <1>7, <1>8, <1>9, <1>10 DEF IInv

LEMMA IInvStep == IInv /\ [Next]_vars => IInv'
<1> SUFFICES ASSUME IInv, [Next]_vars PROVE IInv'
  OBVIOUS
<1>1. CASE Open \/ Enable \/ Arm \/ Disarm \/ Alarm \/ Panic \/ UNCHANGED vars
  BY <1>1, ControlStep
<1>2. CASE Wait
  BY <1>2, WaitStep
<1>3. CASE Feed
  BY <1>3, FeedStep
<1>4. CASE AskForData
  <2>1. asked' = asked + 1 /\ asked' \in 0 .. AskMax
    <3>1. asked \in 0 .. AskMax /\ asked < AskMax /\ asked' = asked + 1
      BY <1>4 DEF AskForData, IInv, TypeOK
    <3>2. AskMax \in Nat
      BY LoadAssumption
    <3> QED
      BY <3>1, <3>2
  <2> QED
    BY <1>4, <2>1, SendStep, AskIsMessage DEF AskForData
<1>5. CASE Chat
  <2>1. PICK size \in {"full", "empty"} : Send([id |-> "OTHER", size |-> size])
    BY <1>5 DEF Chat
  <2>2. asked' = asked /\ asked' \in 0 .. AskMax
    BY <1>5 DEF Chat, IInv, TypeOK
  <2> DEFINE m == [id |-> "OTHER", size |-> size]
  <2>3. m \in Messages /\ m.id # "AID_DATA"
    BY AskIsMessage
  <2> QED
    BY <2>1, <2>2, <2>3, SendStep
<1> QED
  BY <1>1, <1>2, <1>3, <1>4, <1>5 DEF Next, Host

LEMMA Invariant == Spec => []IInv
BY IInvInit, IInvStep, PTL DEF Spec

-----------------------------------------------------------------------------
(* Every variable of load_agps keeps its type.                             *)
THEOREM TypeCorrect == Spec => []TypeOK
<1>1. IInv => TypeOK
  BY DEF IInv
<1> QED
  BY <1>1, Invariant, PTL

(* No aid data goes to a receiver that has not asked, and none is cut      *)
(* short by the alarm (c/load_agps.h:45-54, 64-69).                        *)
THEOREM NotFedUnasked == Spec => []FedOnlyWhenAsked
<1>1. IInv => FedOnlyWhenAsked
  BY DEF IInv, FedAsHandled, RequestsWereMade, ArmedWhileWaiting, FedOnlyWhenAsked
<1> QED
  BY <1>1, Invariant, PTL

(* The position and time go once, and nothing after them                   *)
(* (c/load_agps.h:88-126).                                                 *)
THEOREM IniGoesLast == Spec => []IniIsLast
<1>1. IInv => IniIsLast
  BY DEF IInv
<1> QED
  BY <1>1, Invariant, PTL

(* A run that ends normally after it began to feed has fed something for   *)
(* each aid message ahead of the first position, whatever the file holds   *)
(* (c/load_agps.h:56-57, 71-129).                                          *)
THEOREM AllFedUpToPosition == Spec => []FedUpToPosition
<1>1. IInv => FedUpToPosition
  <2> SUFFICES ASSUME IInv, status = "exit_0", pc = "feed"
               PROVE  /\ Positions(file) # {}
                      /\ Len(fed) = Cardinality({i \in DOMAIN file :
                            /\ \A p \in Positions(file) : i <= p
                            /\ file[i].id \in AidIds \cup {"NAV_POSECEF"}})
    BY DEF FedUpToPosition
  <2>1. file \in Seq(Messages) /\ next \in 0 .. Len(file) /\ next > 0
    BY DEF IInv, FedAsHandled, TypeOK
  <2>2. /\ file[next].id = "NAV_POSECEF"
        /\ \A i \in 1 .. next : file[i].id = "NAV_POSECEF" => i = next
        /\ Len(fed) = Cardinality(Answered)
    BY DEF IInv, FedAsHandled
  <2>4. DOMAIN file = 1 .. Len(file) /\ Len(file) \in Nat /\ next \in 1 .. Len(file)
    <3>1. DOMAIN file = 1 .. Len(file) /\ Len(file) \in Nat
      BY <2>1, LenProperties
    <3>2. next \in Nat /\ next # 0 /\ next <= Len(file)
      BY <2>1, <3>1
    <3>3. next \in 1 .. Len(file)
      BY <3>1, <3>2
    <3> QED
      BY <3>1, <3>3
  <2>5. /\ next \in Positions(file)
        /\ \A p \in Positions(file) : p \in Nat /\ next <= p
    <3>1. next \in Positions(file)
      BY <2>2, <2>4 DEF Positions
    <3>2. ASSUME NEW p \in Positions(file) PROVE p \in Nat /\ next <= p
      <4>1. p \in 1 .. Len(file) /\ file[p].id = "NAV_POSECEF"
        BY <2>4 DEF Positions
      <4>2. p \in 1 .. next => p = next
        BY <2>2, <4>1
      <4> QED
        BY <2>4, <4>1, <4>2
    <3> QED
      BY <3>1, <3>2
  <2>3. Answered = {i \in DOMAIN file :
                      /\ \A p \in Positions(file) : i <= p
                      /\ file[i].id \in AidIds \cup {"NAV_POSECEF"}}
    <3>1. ASSUME NEW i \in DOMAIN file
          PROVE  (\A p \in Positions(file) : i <= p) <=> i \in 1 .. next
      <4>1. i \in 1 .. Len(file) /\ next \in Nat
        BY <2>4
      <4>2. ASSUME i \in 1 .. next, NEW p \in Positions(file) PROVE i <= p
        <5>1. p \in Nat /\ next <= p
          BY <2>5
        <5> QED
          BY <4>1, <4>2, <5>1
      <4>3. (\A p \in Positions(file) : i <= p) => i <= next
        BY <2>5
      <4>4. i <= next => i \in 1 .. next
        BY <4>1
      <4> QED
        BY <4>2, <4>3, <4>4
    <3>2. 1 .. next \subseteq DOMAIN file
      BY <2>4
    <3> QED
      BY <3>1, <3>2 DEF Answered
  <2> QED
    BY <2>2, <2>3, <2>5
<1> QED
  BY <1>1, Invariant, PTL

-----------------------------------------------------------------------------
(* AID_INI (AidIni).                                                      *)

(* Division with remainder.                                                *)
LEMMA DivMod ==
    ASSUME NEW x \in Nat, NEW d \in Nat \ {0}
    PROVE  /\ x \div d \in Nat /\ x % d \in 0 .. (d - 1)
           /\ x = ((x \div d) * d) + (x % d)
  OBVIOUS

(* A product divides back.                                                 *)
LEMMA DivProduct ==
    ASSUME NEW x \in Nat, NEW d \in Nat \ {0}
    PROVE  (x * d) \div d = x
  OBVIOUS

(* Of two products by the same factor one is less by that factor at least. *)
LEMMA ProductMonotone ==
    ASSUME NEW x \in Nat, NEW y \in Nat, NEW d \in Nat \ {0}, x < y
    PROVE  x * d \in Nat /\ y * d \in Nat /\ x * d + d <= y * d
  OBVIOUS
-----------------------------------------------------------------------------
(* Nothing but ini changes, and the messages depend on the rest only.      *)
LEMMA WorldStays ==
    ASSUME UNCHANGED world
    PROVE  /\ World' = World
           /\ CMessage' = CMessage /\ PyMessage' = PyMessage
<1>1. /\ UNCHANGED <<program, utc, leaps, clock, pos, hui>>
      /\ Assumed' = Assumed
  BY DEF world, Assumed
<1>2. World' = World
  BY <1>1 DEF World
<1>3. CMessage' = CMessage
  BY <1>1 DEF CMessage, posAcc, gps_week, gps_second, gps_time
<1>4. PyMessage' = PyMessage
  BY <1>1 DEF PyMessage, wn, days, PyTow
<1> QED
  BY <1>2, <1>3, <1>4

(* The message sent is one of the two, computed from the world as it is.   *)
LEMMA IniInvariant == IniSpec => []IniIInv
<1>1. IniInit => IniIInv
  <2> SUFFICES ASSUME IniInit PROVE IniIInv
    OBVIOUS
  <2>1. pos.known \in BOOLEAN /\ pos.pAcc \in 0 .. (WORD - 1)
    <3>1. 0 \in 0 .. (WORD - 1)
      BY AccuracyAssumption, WidthAssumption
    <3>2. CASE pos \in {[known |-> TRUE, pAcc |-> a] : a \in PAccs}
      <4>1. PICK a \in PAccs : pos = [known |-> TRUE, pAcc |-> a]
        BY <3>2
      <4>2. pos.known = TRUE /\ pos.pAcc = a
        BY <4>1
      <4> QED
        BY <4>2, AccuracyAssumption
    <3>3. CASE pos = [known |-> FALSE, pAcc |-> 0]
      BY <3>1, <3>3
    <3>4. \/ pos \in {[known |-> TRUE, pAcc |-> a] : a \in PAccs}
          \/ pos = [known |-> FALSE, pAcc |-> 0]
      BY DEF IniInit
    <3> QED
      BY <3>2, <3>3, <3>4
  <2>2. World
    BY <2>1 DEF IniInit, World
  <2> QED
    BY <2>2 DEF IniInit, IniIInv
<1>2. IniIInv /\ [IniNext]_ini_vars => IniIInv'
  <2> SUFFICES ASSUME IniIInv, [IniNext]_ini_vars PROVE IniIInv'
    OBVIOUS
  <2>1. CASE CIni
    BY <2>1, WorldStays DEF CIni, IniIInv, world
  <2>2. CASE PyIni
    BY <2>2, WorldStays DEF PyIni, IniIInv, world
  <2>3. CASE UNCHANGED ini_vars
    BY <2>3, WorldStays DEF IniIInv, ini_vars, world
  <2> QED
    BY <2>1, <2>2, <2>3 DEF IniNext
<1> QED
  BY <1>1, <1>2, PTL DEF IniSpec

-----------------------------------------------------------------------------
(* The clock, counted from the epoch, is a number that fits the word even  *)
(* with the leap seconds on, so gps_time is not cut.                       *)
LEMMA ClockFits ==
    ASSUME World
    PROVE  /\ clock - EPOCH \in Nat /\ clock - EPOCH < WORD
           /\ gps_time = (clock - EPOCH) + C_LEAPS
           /\ gps_time \in 0 .. (WORD - 1)
<1>1. /\ utc \in Nat /\ EPOCH \in Nat /\ C_LEAPS \in Nat /\ WORD \in Nat
      /\ TIME_ACCURACY \in Nat
      /\ utc - TIME_ACCURACY >= EPOCH
      /\ utc + TIME_ACCURACY + C_LEAPS < EPOCH + WORD
  BY TimeAssumption, WidthAssumption DEF World
<1>2. /\ clock \in Int
      /\ clock - EPOCH \in Nat
      /\ (clock - EPOCH) + C_LEAPS < WORD
  BY <1>1 DEF World
<1>3. gps_time = (clock - EPOCH) + C_LEAPS
  BY <1>1, <1>2 DEF gps_time
<1> QED
  BY <1>1, <1>2, <1>3

(* A week has a length.                                                    *)
LEMMA WeekType == WEEK \in Nat \ {0}
  BY WidthAssumption DEF WEEK

(* Week and second of the C program are GPS time as it assumes it.         *)
LEMMA CTime ==
    ASSUME World
    PROVE  /\ gps_week \in Nat /\ gps_second \in 0 .. (WEEK - 1)
           /\ (gps_week * WEEK) + gps_second = gps_time
<1>1. gps_time \in Nat
  BY ClockFits, WidthAssumption
<1> QED
  BY <1>1, WeekType, DivMod DEF gps_week, gps_second

(* So are week, day and second of the day of the Python program, without   *)
(* the leap seconds.                                                       *)
PySecond == ((days % 7) * DAY) + ((clock - EPOCH) % DAY)

LEMMA PyTime ==
    ASSUME World
    PROVE  /\ days \in Nat /\ wn \in Nat /\ PySecond \in 0 .. (WEEK - 1)
           /\ (wn * WEEK) + PySecond = clock - EPOCH
<1>1. clock - EPOCH \in Nat /\ DAY \in Nat \ {0}
  BY ClockFits, WidthAssumption
<1> DEFINE rest == (clock - EPOCH) % DAY
           day == days % 7
<1>2. /\ days \in Nat /\ rest \in 0 .. (DAY - 1)
      /\ clock - EPOCH = (days * DAY) + rest
  BY <1>1, DivMod DEF days
<1>3. /\ wn \in Nat /\ day \in 0 .. 6
      /\ days = (wn * 7) + day
  BY <1>2, DivMod DEF wn
<1>4. day * DAY \in 0 .. (6 * DAY)
  BY <1>1, <1>3
<1>5. PySecond = (day * DAY) + rest
  BY DEF PySecond
<1>6. PySecond \in 0 .. (WEEK - 1)
  BY <1>1, <1>2, <1>4, <1>5 DEF WEEK
<1>7. days * DAY = (wn * WEEK) + (day * DAY)
  BY <1>1, <1>3 DEF WEEK
<1> QED
  BY <1>1, <1>2, <1>3, <1>5, <1>6, <1>7, WeekType

-----------------------------------------------------------------------------
(* What the Python program takes for the leap seconds is the true number   *)
(* or its default.                                                         *)
LEMMA PyAssumed ==
    ASSUME World, program = "py"
    PROVE  Assumed \in Leaps \cup {PY_LEAPS} /\ Assumed \in Nat
<1>1. Assumed = IF hui THEN leaps ELSE PY_LEAPS
  BY DEF World, Assumed
<1> QED
  BY <1>1, TimeAssumption DEF World

(* The time of week of the Python program, before it is in milliseconds.   *)
LEMMA PyTowSplits ==
    ASSUME World, program = "py"
    PROVE  /\ PySecond + Assumed \in Nat
           /\ PyTow = (PySecond + Assumed) * SECOND
<1>1. PySecond \in Nat
  BY PyTime, WeekType
<1> QED
  BY <1>1, PyAssumed DEF PyTow, PySecond

(* The fields of the C program's message fit their widths.                 *)
LEMMA CFits ==
    ASSUME World
    PROVE  /\ gps_week \in 0 .. (HALF - 1)
           /\ gps_second * SECOND \in 0 .. (WORD - 1)
           /\ posAcc(pos.pAcc) \in 0 .. (WORD - 1)
<1>1. gps_week \in 0 .. (HALF - 1)
  <2>1. gps_week \in Nat /\ gps_week * WEEK <= gps_time
    BY CTime, WeekType
  <2>2. gps_time < WEEK * HALF /\ HALF \in Nat
    BY ClockFits, WidthAssumption, WeekType
  <2>3. ~(HALF < gps_week)
    BY <2>1, <2>2, WeekType, ProductMonotone, ClockFits
  <2>4. gps_week # HALF
    BY <2>1, <2>2, WeekType, ClockFits
  <2> QED
    BY <2>1, <2>2, <2>3, <2>4
<1>2. gps_second * SECOND \in 0 .. (WORD - 1)
  <2>1. /\ SECOND \in Nat \ {0} /\ WORD \in Nat
        /\ WEEK * SECOND <= WORD
    BY WidthAssumption DEF WEEK
  <2>2. /\ gps_second * SECOND \in Nat
        /\ (gps_second * SECOND) + SECOND <= WEEK * SECOND
    BY <2>1, CTime, WeekType, ProductMonotone
  <2> QED
    BY <2>1, <2>2, WeekType
<1>3. posAcc(pos.pAcc) \in 0 .. (WORD - 1)
  BY AccuracyAssumption DEF World, posAcc
<1> QED
  BY <1>1, <1>2, <1>3

(* In the Python program the leap seconds may exceed a week, not the word. *)
LEMMA PyFits ==
    ASSUME World, program = "py"
    PROVE  /\ wn \in 0 .. (HALF - 1)
           /\ PyTow \in 0 .. (WORD - 1)
<1>1. wn \in 0 .. (HALF - 1)
  <2>1. wn \in Nat /\ wn * WEEK <= clock - EPOCH
    BY PyTime, WeekType
  <2>2. clock - EPOCH < WEEK * HALF /\ HALF \in Nat /\ clock - EPOCH \in Nat
    BY ClockFits, WidthAssumption, WeekType
  <2>3. ~(HALF < wn)
    BY <2>1, <2>2, WeekType, ProductMonotone
  <2>4. wn # HALF
    BY <2>1, <2>2, WeekType
  <2> QED
    BY <2>1, <2>2, <2>3, <2>4
<1>2. PyTow \in 0 .. (WORD - 1)
  <2>1. /\ SECOND \in Nat \ {0} /\ WORD \in Nat
        /\ (WEEK + Assumed) * SECOND <= WORD
    BY WidthAssumption, TimeAssumption, PyAssumed
  <2>2. PySecond + Assumed \in Nat /\ WEEK + Assumed \in Nat
    BY PyTowSplits, PyAssumed, WeekType
  <2>3. PySecond + Assumed < WEEK + Assumed
    BY PyTime, PyAssumed, WeekType
  <2>4. /\ (PySecond + Assumed) * SECOND \in Nat
        /\ ((PySecond + Assumed) * SECOND) + SECOND <= (WEEK + Assumed) * SECOND
    BY <2>1, <2>2, <2>3, ProductMonotone
  <2>5. (WEEK + Assumed) * SECOND \in Nat
    BY <2>1, <2>2
  <2> QED
    BY <2>1, <2>4, <2>5, PyTowSplits
<1> QED
  BY <1>1, <1>2

(* Every field of AID-INI fits its width (c/load_agps.h:93-123,            *)
(* python/ubxlib/ubx_load.py:11-56).                                       *)
THEOREM IniTypeCorrect == IniSpec => []IniTypeOK
<1>1. IniIInv => IniTypeOK
  <2> SUFFICES ASSUME IniIInv PROVE IniTypeOK
    OBVIOUS
  <2>1. World
    BY DEF IniIInv
  <2>2. CASE ini = [sent |-> FALSE]
    BY <2>2 DEF IniTypeOK
  <2>3. CASE program = "c" /\ ini = CMessage
    BY <2>1, <2>3, CFits DEF IniTypeOK, CMessage
  <2>4. CASE program = "py" /\ ini = PyMessage
    BY <2>1, <2>4, PyFits, AccuracyAssumption DEF IniTypeOK, PyMessage
  <2> QED
    BY <2>2, <2>3, <2>4 DEF IniIInv
<1> QED
  BY <1>1, IniInvariant, PTL

(* The time sent is the true GPS time within the accuracy sent with it, at *)
(* the end of a week as anywhere else (c/load_agps.h:108-119,              *)
(* python/ubxlib/ubx_load.py:17-38).                                       *)
THEOREM TimeIsAccurate == IniSpec => []TimeWithinAccuracy
<1>1. IniIInv => TimeWithinAccuracy
  <2> SUFFICES ASSUME IniIInv PROVE TimeWithinAccuracy
    OBVIOUS
  <2> DEFINE stated == (ini.wn * WEEK) + (ini.tow \div SECOND)
  <2>1. /\ World /\ SECOND \in Nat \ {0}
        /\ utc \in Nat /\ EPOCH \in Nat /\ leaps \in Nat /\ clock \in Int
    BY WidthAssumption, TimeAssumption DEF IniIInv, World
  <2>2. CASE ini = [sent |-> FALSE]
    BY <2>2 DEF TimeWithinAccuracy
  <2>3. CASE program = "c" /\ ini = CMessage
    <3>1. ini.wn = gps_week /\ ini.tow = gps_second * SECOND
      BY <2>3 DEF CMessage
    <3>2. ini.tow \div SECOND = gps_second
      BY <2>1, <3>1, CTime, WeekType, DivProduct
    <3>3. stated = (clock - EPOCH) + C_LEAPS
      BY <2>1, <3>1, <3>2, CTime, ClockFits
    <3>4. Assumed = C_LEAPS /\ C_LEAPS \in Nat
      BY <2>3, TimeAssumption DEF Assumed
    <3>5. Distance(stated, (utc - EPOCH) + leaps)
              = Distance(clock + Assumed, utc + leaps)
      BY <2>1, <3>3, <3>4 DEF Distance
    <3> QED
      BY <2>1, <3>5 DEF World, TimeWithinAccuracy
  <2>4. CASE program = "py" /\ ini = PyMessage
    <3>1. ini.wn = wn /\ ini.tow = PyTow
      BY <2>4 DEF PyMessage
    <3>2. ini.tow \div SECOND = PySecond + Assumed
      BY <2>1, <2>4, <3>1, PyTowSplits, DivProduct
    <3>3. Assumed \in Nat /\ PySecond \in Nat /\ wn \in Nat
      BY <2>1, <2>4, PyAssumed, PyTime, WeekType
    <3>4. stated = (clock - EPOCH) + Assumed
      <4>1. stated = (wn * WEEK) + (PySecond + Assumed)
        BY <3>1, <3>2
      <4>2. wn * WEEK \in Nat
        BY <3>3, WeekType
      <4> HIDE DEF stated
      <4> QED
        BY <2>1, <3>3, <4>1, <4>2, PyTime
    <3>5. Distance(stated, (utc - EPOCH) + leaps)
              = Distance(clock + Assumed, utc + leaps)
      BY <2>1, <3>3, <3>4 DEF Distance
    <3> QED
      BY <2>1, <3>5 DEF World, TimeWithinAccuracy
  <2> QED
    BY <2>2, <2>3, <2>4 DEF IniIInv
<1> QED
  BY <1>1, IniInvariant, PTL

(* Where only the C program runs the time of week is one                   *)
(* (c/load_agps.h:110-117); AidIniTow.cfg shows that it need not be where  *)
(* the Python program does.                                                *)
THEOREM CTowInWeek ==
    ASSUME Programs = {"c"}
    PROVE  IniSpec => []TowInWeek
<1>1. IniIInv => TowInWeek
  <2> SUFFICES ASSUME IniIInv PROVE TowInWeek
    OBVIOUS
  <2>1. World /\ program = "c" /\ SECOND \in Nat \ {0}
    BY WidthAssumption DEF IniIInv, World
  <2>2. CASE ini = [sent |-> FALSE]
    BY <2>2 DEF TowInWeek
  <2>3. CASE ini = CMessage
    <3>1. gps_second * SECOND < WEEK * SECOND
      <4>1. /\ gps_second * SECOND \in Nat /\ WEEK * SECOND \in Nat
            /\ (gps_second * SECOND) + SECOND <= WEEK * SECOND
        BY <2>1, CTime, WeekType, ProductMonotone
      <4> QED
        BY <2>1, <4>1
    <3> QED
      BY <2>3, <3>1 DEF TowInWeek, CMessage
  <2> QED
    BY <2>1, <2>2, <2>3 DEF IniIInv
<1> QED
  BY <1>1, IniInvariant, PTL

=============================================================================
