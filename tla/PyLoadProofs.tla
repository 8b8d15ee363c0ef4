---------------------------- MODULE PyLoadProofs ----------------------------
(***************************************************************************)
(* Proofs about the Python load (PyLoad): it feeds only a receiver that    *)
(* has asked, and a load that ends normally has fed what the dump holds,   *)
(* each thing once.                                                        *)
(***************************************************************************)
EXTENDS PyLoad, TLAPS, FiniteSetTheorems, SequenceTheorems

(* The sequence s names each element of the finite set S once.             *)
Lists(s, S) ==
    /\ IsFiniteSet(S) /\ s \in Seq(S)
    /\ {s[i] : i \in DOMAIN s} = S
    /\ Len(s) = Cardinality(S)

LEMMA EmptyList == Lists(<<>>, {})
BY FS_EmptySet DEF Lists

LEMMA SingletonList == ASSUME NEW x PROVE Lists(<<x>>, {x})
<1>1. <<x>> \in Seq({x}) /\ Len(<<x>>) = 1 /\ {<<x>>[i] : i \in DOMAIN <<x>>} = {x}
  OBVIOUS
<1> QED
  BY <1>1, FS_Singleton DEF Lists

(* One list after the other, of two sets that have nothing in common.      *)
LEMMA JoinedList ==
    ASSUME NEW S, NEW T, NEW s, NEW t, Lists(s, S), Lists(t, T), S \cap T = {}
    PROVE  Lists(s \o t, S \cup T)
<1> DEFINE U == S \cup T  u == s \o t  n == Len(s)  m == Len(t)
<1>1. IsFiniteSet(U) /\ Cardinality(U) = Cardinality(S) + Cardinality(T)
  <2>1. Cardinality(S \cap T) = 0
    BY FS_EmptySet
  <2>2. Cardinality(S) \in Nat /\ Cardinality(T) \in Nat
    BY FS_CardinalityType DEF Lists
  <2>3. /\ IsFiniteSet(S \cup T)
        /\ Cardinality(S \cup T)
             = Cardinality(S) + Cardinality(T) - Cardinality(S \cap T)
    BY FS_Union DEF Lists
  <2> QED
    BY <2>1, <2>2, <2>3
<1>2. s \in Seq(U) /\ t \in Seq(U)
  BY SeqMonotonic DEF Lists
<1>3. /\ u \in Seq(U) /\ Len(u) = n + m /\ n \in Nat /\ m \in Nat
      /\ DOMAIN u = 1 .. n + m /\ DOMAIN s = 1 .. n /\ DOMAIN t = 1 .. m
      /\ \A i \in 1 .. n + m : u[i] = IF i <= n THEN s[i] ELSE t[i - n]
  BY <1>2, ConcatProperties, LenProperties
<1> HIDE DEF u, n, m
<1>4. {u[i] : i \in DOMAIN u} = U
  <2>1. \A i \in DOMAIN u : u[i] \in U
    BY <1>3
  <2>2. ASSUME NEW x \in S PROVE \E i \in DOMAIN u : u[i] = x
    <3>1. PICK i \in 1 .. n : s[i] = x
      BY <1>3 DEF Lists
    <3> QED
      BY <1>3, <3>1
  <2>3. ASSUME NEW x \in T PROVE \E i \in DOMAIN u : u[i] = x
    <3>1. PICK i \in 1 .. m : t[i] = x
      BY <1>3 DEF Lists
    <3>2. i + n \in 1 .. n + m /\ u[i + n] = t[i]
      BY <1>3
    <3> QED
      BY <1>3, <3>1, <3>2
  <2> QED
    BY <2>1, <2>2, <2>3
<1>5. Len(u) = Cardinality(U)
  BY <1>1, <1>3 DEF Lists, n, m
<1> QED
  BY <1>1, <1>3, <1>4, <1>5 DEF Lists, u

(* SetToSeqs lists.                                                        *)
LEMMA OrderedSet ==
    ASSUME NEW S, IsFiniteSet(S), NEW s \in SetToSeqs(S)
    PROVE  Lists(s, S)
<1> DEFINE D == 1 .. Cardinality(S)
<1>1. s \in [D -> S] /\ \A i, j \in D : i # j => s[i] # s[j]
  BY DEF SetToSeqs
<1>2. Cardinality(S) \in Nat
  BY FS_CardinalityType
<1>3. IsFiniteSet(D) /\ Cardinality(D) = Cardinality(S)
  BY <1>2, FS_Interval
<1>4. s \in Injection(D, S)
  BY <1>1 DEF Injection, IsInjective
<1>5. s \in Surjection(D, S)
  BY <1>3, <1>4, FS_Injection
<1>6. s \in Seq(S) /\ Len(s) = Cardinality(S) /\ DOMAIN s = D
  BY <1>1, <1>2
<1>7. {s[i] : i \in D} = S
  BY <1>1, <1>5 DEF Surjection
<1> QED
  BY <1>6, <1>7 DEF Lists

(* In whatever order the dictionary yields its satellites, what the        *)
(* handler sends lists what the dictionary holds.                          *)
LEMMA AidMessagesListContents ==
    ASSUME NEW d \in Dictionaries, NEW s \in AidMessages(d)
    PROVE  Lists(s, Contents(d))
<1> DEFINE E == Of("AID_EPH", d.ephemeris)
           A == Of("AID_ALM", d.almanac)
           H == IF d.hui THEN {[id |-> "AID_HUI"]} ELSE {}
           I == {Ini(d)}
<1>1. PICK e \in SetToSeqs(E), a \in SetToSeqs(A) : s = e \o <<Ini(d)>> \o Hui(d) \o a
  BY DEF AidMessages
<1>2. IsFiniteSet(E) /\ IsFiniteSet(A)
  <2>1. IsFiniteSet(d.almanac) /\ IsFiniteSet(d.ephemeris)
    BY PortAssumption, FS_Subset DEF Dictionaries
  <2>2. ASSUME NEW id, NEW S, IsFiniteSet(S) PROVE IsFiniteSet(Of(id, S))
    <3> DEFINE f == [sv \in S |-> [id |-> id, sv |-> sv]]
    <3>1. f \in Surjection(S, Of(id, S))
      BY DEF Of, Surjection
    <3> QED
      BY <2>2, <3>1, FS_Surjection
  <2> QED
    BY <2>1, <2>2
<1>3. Lists(e, E) /\ Lists(a, A)
  BY <1>2, OrderedSet
<1>4. Lists(Hui(d), H)
  BY EmptyList, SingletonList DEF Hui
<1>5. Lists(<<Ini(d)>>, I)
  BY SingletonList
<1>6. E \cap I = {} /\ (E \cup I) \cap H = {} /\ (E \cup I \cup H) \cap A = {}
  <2>1. \A x \in E : x.id = "AID_EPH"
    BY DEF Of
  <2>2. \A x \in A : x.id = "AID_ALM"
    BY DEF Of
  <2>3. \A x \in I : x.id = "AID_INI"
    BY DEF Ini
  <2>4. \A x \in H : x.id = "AID_HUI"
    OBVIOUS
  <2> HIDE DEF E, A, H, I
  <2> QED
    BY <2>1, <2>2, <2>3, <2>4
<1>7. Contents(d) = E \cup I \cup H \cup A
  <2>1. I = {[id |-> "AID_INI", valid |-> d.position]}
    BY DEF Ini
  <2> HIDE DEF I
  <2> QED
    BY <2>1 DEF Contents
<1> HIDE DEF E, A, H, I
<1>8. Lists(e \o <<Ini(d)>>, E \cup I)
  BY <1>3, <1>5, <1>6, JoinedList
<1>9. Lists((e \o <<Ini(d)>>) \o Hui(d), (E \cup I) \cup H)
  BY <1>4, <1>6, <1>8, JoinedList
<1>10. Lists(((e \o <<Ini(d)>>) \o Hui(d)) \o a, (E \cup I \cup H) \cup A)
  BY <1>3, <1>6, <1>9, JoinedList
<1> QED
  BY <1>1, <1>7, <1>10

LEMMA ContentsAreAid ==
    ASSUME NEW d \in Dictionaries
    PROVE  Contents(d) \subseteq AidSet
BY DEF Contents, Of, AidSet, Dictionaries

-----------------------------------------------------------------------------
(* A file that is not cut holds a dictionary.                              *)
LEMMA FileData ==
    ASSUME file \in Files, file.is # "cut" PROVE file.data \in Dictionaries
BY LoadAssumption

LEMMA InitIInv == Init => IInv
<1> SUFFICES ASSUME Init PROVE IInv
  OBVIOUS
<1>1. TypeOK
  BY PortAssumption, LoadAssumption DEF Init, TypeOK
<1>2. AskedFirst /\ FeedingTheFile
  BY DEF Init, AskedFirst, FeedingTheFile
<1> QED
  BY <1>1, <1>2 DEF IInv

(* What becomes of a queue when its head is taken.                         *)
LEMMA TailFacts ==
    ASSUME NEW S, NEW s \in Seq(S), s # <<>>
    PROVE  /\ Head(s) \in S /\ Tail(s) \in Seq(S)
           /\ Head(s) = s[1] /\ 1 \in DOMAIN s
           /\ \A i \in DOMAIN Tail(s) :
                 i + 1 \in DOMAIN s /\ Tail(s)[i] = s[i + 1]
OBVIOUS

LEMMA AppendFacts ==
    ASSUME NEW S, NEW s \in Seq(S), NEW m \in S
    PROVE  /\ Append(s, m) \in Seq(S)
           /\ \A i \in DOMAIN Append(s, m) :
                 \/ Append(s, m)[i] = m
                 \/ i \in DOMAIN s /\ Append(s, m)[i] = s[i]
<1>1. /\ Append(s, m) \in Seq(S) /\ Len(s) \in Nat
      /\ DOMAIN Append(s, m) = 1 .. Len(s) + 1 /\ DOMAIN s = 1 .. Len(s)
      /\ Append(s, m)[Len(s) + 1] = m
      /\ \A i \in 1 .. Len(s) : Append(s, m)[i] = s[i]
  BY AppendProperties, LenProperties
<1>2. \A i \in 1 .. Len(s) + 1 : i = Len(s) + 1 \/ i \in 1 .. Len(s)
  BY <1>1
<1> QED
  BY <1>1, <1>2

(* The program's steps ahead of the reader, and being killed.              *)
LEMMA StartStep ==
    ASSUME IInv, Reset \/ Eval \/ Enable \/ Kill
    PROVE  IInv'
<1>1. /\ UNCHANGED <<file, left, fed, line, held, announce, asked>>
      /\ pc' \in {"eval", "enable", "read", pc}
      /\ status' \in {"raised", "killed", status}
  BY DEF Reset, Eval, Enable, Kill, Running
<1>2. tx' \in Seq({"reset", "announce"})
  <2>1. /\ tx \in Seq({"reset", "announce"})
        /\ tx' = tx \/ tx' = Append(tx, "reset") \/ tx' = Append(tx, "announce")
    BY DEF IInv, TypeOK, Reset, Eval, Enable, Kill
  <2> QED
    BY <2>1
<1>3. TypeOK'
  BY <1>1, <1>2 DEF IInv, TypeOK
<1>4. AskedFirst'
  <2>1. pc' = "feed" => pc = "feed"
    BY <1>1
  <2> QED
    BY <1>1, <2>1 DEF IInv, AskedFirst, IsRequest
<1>5. FeedingTheFile'
  <2> USE DEF IInv, FeedingTheFile
  <2>1. CASE Reset
    BY <1>1, <2>1 DEF Reset, Running
  <2>2. CASE Eval
    BY <1>1, <2>2 DEF Eval, Running
  <2>3. CASE Enable
    BY <1>1, <2>3 DEF Enable, Running
  <2>4. CASE Kill
    BY <1>1, <2>4 DEF Kill
  <2> QED
    BY <2>1, <2>2, <2>3, <2>4
<1> QED
  BY <1>3, <1>4, <1>5 DEF IInv

(* The reader has a message when fewer wait than are on their way.         *)
LEMMA SomethingToHandle ==
    ASSUME TypeOK, Len(line) > held PROVE line # <<>>
<1>1. held \in Nat
  BY PortAssumption DEF TypeOK
<1>2. Len(<<>>) = 0
  OBVIOUS
<1> QED
  BY <1>1, <1>2

(* A request is answered from the file.                                    *)
LEMMA HandleStep == ASSUME IInv, Handle PROVE IInv'
<1>1. /\ status = "running" /\ pc = "read" /\ fed = <<>>
      /\ line \in Seq(Messages) /\ line # <<>> /\ line' = Tail(line)
      /\ file \in Files /\ file.is # "cut"
      /\ UNCHANGED <<status, file, fed, tx, held, announce, asked>>
  BY SomethingToHandle DEF IInv, TypeOK, FeedingTheFile, Handle, Running
<1>2. \A i \in DOMAIN line' : \E j \in DOMAIN line : line'[i] = line[j]
  BY <1>1, TailFacts
<1>3. line' \in Seq(Messages)
  BY <1>1
<1>4. CASE IsRequest(Head(line))
  <2>1. left' \in AidMessages(file.data) /\ pc' = "feed"
    BY <1>4 DEF Handle
  <2>2. file.data \in Dictionaries
    BY <1>1, FileData
  <2>3. left' \in Seq(Contents(file.data)) /\ left' # <<>>
    <3>1. Lists(left', Contents(file.data))
      BY <2>1, <2>2, AidMessagesListContents
    <3>2. Contents(file.data) # {}
      BY DEF Contents
    <3>3. {<<>>[i] : i \in DOMAIN <<>>} = {}
      OBVIOUS
    <3> QED
      BY <3>1, <3>2, <3>3 DEF Lists
  <2>4. left' \in Seq(AidSet)
    BY <2>2, <2>3, ContentsAreAid, SeqMonotonic
  <2>5. fed' \o left' = left'
    BY <1>1, <2>4, ConcatEmptySeq
  <2>6. asked > 0
    <3>1. Head(line) = line[1] /\ 1 \in DOMAIN line
      BY <1>1, TailFacts
    <3> QED
      BY <1>4, <3>1 DEF IInv, AskedFirst
  <2>7. TypeOK'
    BY <1>1, <1>3, <2>1, <2>4 DEF IInv, TypeOK
  <2>8. AskedFirst'
    BY <1>1, <2>6 DEF AskedFirst
  <2>9. FeedingTheFile'
    BY <1>1, <2>1, <2>3, <2>5 DEF FeedingTheFile
  <2> QED
    BY <2>7, <2>8, <2>9 DEF IInv
<1>5. CASE ~IsRequest(Head(line))
  <2>1. UNCHANGED <<left, pc>>
    BY <1>5 DEF Handle
  <2>2. TypeOK'
    BY <1>1, <1>3, <2>1 DEF IInv, TypeOK
  <2>3. AskedFirst'
    BY <1>1, <1>2, <2>1 DEF IInv, AskedFirst, IsRequest
  <2>4. FeedingTheFile'
    BY <1>1, <2>1 DEF IInv, FeedingTheFile
  <2> QED
    BY <2>2, <2>3, <2>4 DEF IInv
<1> QED
  BY <1>4, <1>5

LEMMA RaiseStep == ASSUME IInv, Raise PROVE IInv'
<1>1. /\ line \in Seq(Messages) /\ line # <<>> /\ line' = Tail(line)
      /\ status = "running" /\ pc = "read" /\ status' = "raised"
      /\ UNCHANGED <<pc, file, left, fed, tx, held, announce, asked>>
  BY SomethingToHandle DEF IInv, TypeOK, Raise, Running
<1>2. \A i \in DOMAIN line' : \E j \in DOMAIN line : line'[i] = line[j]
  BY <1>1, TailFacts
<1>3. TypeOK'
  BY <1>1 DEF IInv, TypeOK
<1>4. AskedFirst'
  BY <1>1, <1>2 DEF IInv, AskedFirst, IsRequest
<1>5. FeedingTheFile'
  BY <1>1 DEF IInv, FeedingTheFile
<1> QED
  BY <1>3, <1>4, <1>5 DEF IInv

(* What is fed comes off what is left.                                     *)
LEMMA FeedStep == ASSUME IInv, Feed PROVE IInv'
<1>1. /\ status = "running" /\ pc = "feed" /\ left # <<>>
      /\ left \in Seq(AidSet) /\ fed \in Seq(AidSet)
      /\ fed' = Append(fed, Head(left)) /\ left' = Tail(left)
      /\ status' = IF left' = <<>> THEN "exit_0" ELSE "running"
      /\ UNCHANGED <<pc, file, tx, line, held, announce, asked>>
  BY DEF IInv, TypeOK, FeedingTheFile, Feed, Running
<1>2. left' \in Seq(AidSet) /\ fed' \in Seq(AidSet)
  BY <1>1
<1>3. fed' \o left' = fed \o left
  BY <1>1
<1>4. TypeOK'
  BY <1>1, <1>2 DEF IInv, TypeOK
<1>5. AskedFirst'
  BY <1>1 DEF IInv, AskedFirst, IsRequest
<1>6. FeedingTheFile'
  BY <1>1, <1>3 DEF IInv, FeedingTheFile
<1> QED
  BY <1>4, <1>5, <1>6 DEF IInv

(* No more messages wait than may.                                         *)
LEMMA WaitingIsBounded ==
    ASSUME NEW s, NEW n PROVE Waiting(s, n) \subseteq 0 .. HELD
BY DEF Waiting

(* The receiver asks, sends something else, or takes a command.            *)
LEMMA ReceiverStep == ASSUME IInv, Obey \/ Ask \/ Chat PROVE IInv'
<1>1. UNCHANGED <<pc, status, file, left, fed>>
  BY DEF Obey, Ask, Chat, Send
<1>2. FeedingTheFile'
  BY <1>1 DEF IInv, FeedingTheFile
<1>3. CASE Obey
  <2>1. TypeOK'
    BY <1>3 DEF Obey, IInv, TypeOK
  <2>2. AskedFirst'
    BY <1>3 DEF Obey, IInv, AskedFirst, IsRequest
  <2> QED
    BY <1>2, <2>1, <2>2 DEF IInv
<1>4. CASE Ask
  <2> DEFINE m == [id |-> "AID_DATA"]
  <2>1. m \in Messages
    BY DEF Messages
  <2>2. /\ line' = Append(line, m) /\ asked' = asked + 1 /\ asked < AskMax
        /\ held' \in 0 .. HELD /\ UNCHANGED <<tx, announce>>
    BY <1>4, WaitingIsBounded DEF Ask, Send
  <2> HIDE DEF m
  <2>3. asked \in Nat /\ asked' \in 0 .. AskMax /\ asked' > 0
    BY <2>2, LoadAssumption DEF IInv, TypeOK
  <2>4. TypeOK'
    BY <1>1, <2>1, <2>2, <2>3 DEF IInv, TypeOK
  <2>5. AskedFirst'
    BY <2>3 DEF AskedFirst
  <2> QED
    BY <1>2, <2>4, <2>5 DEF IInv
<1>5. CASE Chat
  <2>1. PICK m \in Others : Send(m) /\ UNCHANGED asked
    BY <1>5 DEF Chat
  <2>2. m \in Messages /\ ~IsRequest(m)
    <3>1. m = [id |-> "Known"] \/ m = [id |-> "Unknown"]
      BY PortAssumption
    <3> QED
      BY <3>1 DEF Messages, IsRequest
  <2>3. /\ line' = Append(line, m) /\ UNCHANGED <<tx, announce, asked>>
        /\ held' \in 0 .. HELD
    BY <2>1, WaitingIsBounded DEF Send
  <2>4. line \in Seq(Messages)
    BY DEF IInv, TypeOK
  <2>5. /\ line' \in Seq(Messages)
        /\ \A i \in DOMAIN line' :
              line'[i] = m \/ (i \in DOMAIN line /\ line'[i] = line[i])
    BY <2>2, <2>3, <2>4, AppendFacts
  <2>6. TypeOK'
    BY <1>1, <2>3, <2>5 DEF IInv, TypeOK
  <2>7. AskedFirst'
    <3>1. (\E i \in DOMAIN line' : IsRequest(line'[i]))
              => \E i \in DOMAIN line : IsRequest(line[i])
      BY <2>2, <2>5
    <3> QED
      BY <1>1, <2>3, <3>1 DEF IInv, AskedFirst, IsRequest
  <2> QED
    BY <1>2, <2>6, <2>7 DEF IInv
<1> QED
  BY <1>3, <1>4, <1>5

LEMMA NextIInv == IInv /\ [Next]_vars => IInv'
<1> SUFFICES ASSUME IInv, [Next]_vars PROVE IInv'
  OBVIOUS
<1>1. CASE Reset \/ Eval \/ Enable \/ Kill
  BY <1>1, StartStep
<1>2. CASE Handle
  BY <1>2, HandleStep
<1>3. CASE Raise
  BY <1>3, RaiseStep
<1>4. CASE Feed
  BY <1>4, FeedStep
<1>5. CASE Obey \/ Ask \/ Chat
  BY <1>5, ReceiverStep
<1>6. CASE UNCHANGED vars
  <2>1. TypeOK'
    BY <1>6 DEF vars, IInv, TypeOK
  <2>2. AskedFirst' /\ FeedingTheFile'
    BY <1>6 DEF vars, IInv, AskedFirst, FeedingTheFile, IsRequest
  <2> QED
    BY <2>1, <2>2 DEF IInv
<1> QED
  BY <1>1, <1>2, <1>3, <1>4, <1>5, <1>6 DEF Next, Host

LEMMA Invariant == Spec => []IInv
BY InitIInv, NextIInv, PTL DEF Spec

-----------------------------------------------------------------------------
(* The load, its queues and what it feeds are what they should be in every *)
(* state (python/gta02-agps.py:43-49, python/ubxlib/ubx_load.py:40-66).    *)
THEOREM TypeCorrect == Spec => []TypeOK
<1>1. IInv => TypeOK
  BY DEF IInv
<1> QED
  BY <1>1, Invariant, PTL

(* Aid data goes only to a receiver that has asked for it, and never from  *)
(* a dump that was cut (python/gta02-agps.py:43-49,                        *)
(* python/ubxlib/ubx_load.py:11).                                          *)
THEOREM AskedBeforeFed == Spec => []FedOnlyWhenAsked
<1>1. IInv => FedOnlyWhenAsked
  BY DEF IInv, AskedFirst, FeedingTheFile, FedOnlyWhenAsked
<1> QED
  BY <1>1, Invariant, PTL

(* A load that ends normally has fed everything the dump holds and each    *)
(* thing once, however many satellites there are and in whatever order the *)
(* dictionary yields them (python/ubxlib/ubx_load.py:40-66).               *)
THEOREM FedIsAllOfDump == Spec => []FedIsDump
<1>1. IInv => FedIsDump
  <2> SUFFICES ASSUME IInv, status = "exit_0" PROVE FedIsDump
    BY DEF FedIsDump
  <2>1. /\ pc = "feed" /\ left = <<>> /\ fed \o left \in AidMessages(file.data)
        /\ file \in Files /\ file.is # "cut" /\ fed \in Seq(AidSet)
    BY DEF IInv, TypeOK, FeedingTheFile
  <2>2. fed \in AidMessages(file.data)
    BY <2>1, ConcatEmptySeq
  <2>3. Lists(fed, Contents(file.data))
    BY <2>1, <2>2, FileData, AidMessagesListContents
  <2> QED
    BY <2>3 DEF Lists, FedIsDump
<1> QED
  BY <1>1, Invariant, PTL

=============================================================================
