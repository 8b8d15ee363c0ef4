---------------------------- MODULE FixNowProofs ----------------------------
(***************************************************************************)
(* Proofs about the command line (Args) and the FixNow commands behind it  *)
(* (FixNow), for every command line, every device and any length of the    *)
(* wake-up sequence.  What Remaining leaves of a sequence is shown by      *)
(* induction on its length, which rests on the least element a set of      *)
(* natural numbers has.                                                    *)
(***************************************************************************)
EXTENDS FixNow, TLAPS, SequenceTheorems, WellFoundedInduction

LEMMA LeastElement ==
    ASSUME NEW S, S \subseteq Nat, S # {}
    PROVE  \E n \in S : \A m \in S : n <= m
<1> DEFINE R == OpToRel(<, Nat)
<1>1. \A m, n \in Nat : <<m, n>> \in R <=> m < n
  BY DEF OpToRel
<1>2. IsWellFoundedOn(R, Nat)
  BY NatLessThanWellFounded
<1> HIDE DEF R
<1>3. PICK n \in S : \A m \in S : ~(<<m, n>> \in R)
  BY <1>2, WFMin
<1>4. \A m \in S : n <= m
  <2> TAKE m \in S
  <2>1. m \in Nat /\ n \in Nat
    OBVIOUS
  <2>2. ~(m < n)
    BY <1>1, <1>3, <2>1
  <2> QED
    BY <2>1, <2>2
<1> QED
  BY <1>4

LEMMA Induction ==
    ASSUME NEW P, P \subseteq Nat, 0 \in P, \A n \in P : n + 1 \in P
    PROVE  P = Nat
<1> DEFINE S == Nat \ P
<1>1. SUFFICES ASSUME S # {} PROVE FALSE
  OBVIOUS
<1>2. S \subseteq Nat
  OBVIOUS
<1>3. PICK n \in S : \A m \in S : n <= m
  <2> HIDE DEF S
  <2> QED
    BY <1>1, <1>2, LeastElement
<1>4. n \in Nat /\ n # 0 /\ n - 1 \in Nat
  OBVIOUS
<1>5. n - 1 \in P
  BY <1>3, <1>4
<1>6. (n - 1) + 1 \in P
  BY <1>5
<1> QED
  BY <1>4, <1>6

(* What holds of the empty sequence, and of a longer one if of the one     *)
(* without its last element, holds of all.                                 *)
LEMMA SequenceInduction ==
    ASSUME NEW X, NEW P, P \subseteq Seq(X), <<>> \in P,
           \A s \in P, x \in X : Append(s, x) \in P
    PROVE  P = Seq(X)
<1> DEFINE L == {n \in Nat : \A s \in Seq(X) : Len(s) = n => s \in P}
<1>1. 0 \in L
  <2>1. \A s \in Seq(X) : Len(s) = 0 => s = <<>>
    BY EmptySeq
  <2> QED
    BY <2>1
<1>2. ASSUME NEW n \in L PROVE n + 1 \in L
  <2> SUFFICES ASSUME NEW s \in Seq(X), Len(s) = n + 1 PROVE s \in P
    OBVIOUS
  <2>1. n \in Nat /\ s # <<>>
    BY EmptySeq
  <2>2. PICK f \in Seq(X), x \in X : s = Append(f, x)
    BY <2>1, SequenceEmptyOrAppend
  <2>3. Len(f) = n
    BY <2>1, <2>2, AppendProperties, LenProperties
  <2>4. f \in P
    BY <2>3
  <2> QED
    BY <2>2, <2>4
<1>3. L = Nat
  <2> HIDE DEF L
  <2>1. L \subseteq Nat
    BY DEF L
  <2> QED
    BY <1>1, <1>2, <2>1, Induction
<1> QED
  BY <1>3, LenProperties

-----------------------------------------------------------------------------
(* Remaining's recursive function.                                         *)
Kept(words, gone) ==
    LET kept[i \in 0 .. Len(words)] ==
            IF i = 0 THEN <<>>
            ELSE IF words[i] \in gone THEN kept[i - 1]
            ELSE Append(kept[i - 1], words[i])
    IN  kept

KeptStep(words, gone, k, i) ==
    IF i = 0 THEN <<>>
    ELSE IF words[i] \in gone THEN k[i - 1]
    ELSE Append(k[i - 1], words[i])

LEMMA KeptDef ==
    ASSUME NEW X, NEW words \in Seq(X), NEW gone
    PROVE  Kept(words, gone)
             = [i \in 0 .. Len(words) |->
                   KeptStep(words, gone, Kept(words, gone), i)]
<1> DEFINE G(k, n) == k = [i \in 0 .. n |-> KeptStep(words, gone, k, i)]
           P == {n \in Nat : \E k : G(k, n)}
<1>1. 0 \in P
  <2> DEFINE k == [i \in {0} |-> <<>>]
  <2>1. G(k, 0)
    BY DEF KeptStep
  <2> HIDE DEF G, k
  <2> QED
    BY <2>1
<1>2. ASSUME NEW n \in P PROVE n + 1 \in P
  <2>1. PICK k : G(k, n)
    OBVIOUS
  <2> DEFINE s == IF words[n + 1] \in gone THEN k[n]
                  ELSE Append(k[n], words[n + 1])
             h == [i \in 0 .. n + 1 |-> IF i = n + 1 THEN s ELSE k[i]]
  <2>2. n \in Nat
    OBVIOUS
  <2>3. ASSUME NEW i \in 0 .. n + 1 PROVE h[i] = KeptStep(words, gone, h, i)
    <3>1. CASE i = n + 1
      BY <2>2, <3>1 DEF KeptStep
    <3>2. CASE i # n + 1
      <4>1. i \in 0 .. n
        BY <3>2, <2>2
      <4>2. h[i] = k[i]
        BY <4>1, <2>2
      <4>3. k[i] = KeptStep(words, gone, k, i)
        BY <2>1, <4>1
      <4>4. i # 0 => h[i - 1] = k[i - 1]
        BY <4>1, <2>2
      <4> QED
        BY <4>2, <4>3, <4>4 DEF KeptStep
    <3> QED
      BY <3>1, <3>2
  <2>4. G(h, n + 1)
    BY <2>3
  <2> HIDE DEF G, h
  <2> QED
    BY <2>4, <2>2
<1>3. P = Nat
  <2> HIDE DEF P
  <2>1. P \subseteq Nat
    BY DEF P
  <2> QED
    BY <1>1, <1>2, <2>1, Induction
<1>4. \E k : G(k, Len(words))
  <2>1. Len(words) \in P
    BY <1>3, LenProperties
  <2> QED
    BY <2>1
<1>5. G(Kept(words, gone), Len(words))
  BY <1>4, Zenon DEF Kept, KeptStep
<1> QED
  BY <1>5

LEMMA RemainingIsKept ==
    ASSUME NEW words, NEW gone
    PROVE  Remaining(words, gone) = Kept(words, gone)[Len(words)]
BY DEF Remaining, Kept

LEMMA RemainingOfEmpty ==
    ASSUME NEW gone
    PROVE  Remaining(<<>>, gone) = <<>>
<1>1. <<>> \in Seq({}) /\ Len(<<>>) = 0
  OBVIOUS
<1>2. Kept(<<>>, gone)
        = [i \in 0 .. Len(<<>>) |-> KeptStep(<<>>, gone, Kept(<<>>, gone), i)]
  <2>1. \A s \in Seq({}) :
            Kept(s, gone)
              = [i \in 0 .. Len(s) |-> KeptStep(s, gone, Kept(s, gone), i)]
    BY KeptDef
  <2> QED
    BY <1>1, <2>1
<1>3. Kept(<<>>, gone)[0] = <<>>
  BY <1>1, <1>2 DEF KeptStep
<1> QED
  BY <1>1, <1>3, RemainingIsKept

LEMMA RemainingOfAppend ==
    ASSUME NEW X, NEW s \in Seq(X), NEW x \in X, NEW gone
    PROVE  Remaining(Append(s, x), gone)
             = IF x \in gone THEN Remaining(s, gone)
                             ELSE Append(Remaining(s, gone), x)
<1> DEFINE n == Len(s)
           t == Append(s, x)
           k == Kept(s, gone)
           h == Kept(t, gone)
<1>1. /\ t \in Seq(X) /\ Len(t) = n + 1 /\ n \in Nat
      /\ t[n + 1] = x /\ \A i \in 1 .. n : t[i] = s[i]
  BY AppendProperties, LenProperties
<1>2. k = [i \in 0 .. n |-> KeptStep(s, gone, k, i)]
  BY KeptDef
<1>3. h = [i \in 0 .. Len(t) |-> KeptStep(t, gone, h, i)]
  <2> HIDE DEF t
  <2> QED
    BY <1>1, KeptDef
<1> HIDE DEF n, t, k, h
<1> DEFINE P == {i \in Nat : i <= n => h[i] = k[i]}
<1>4. 0 \in P
  BY <1>1, <1>2, <1>3 DEF KeptStep
<1>5. ASSUME NEW i \in P PROVE i + 1 \in P
  <2> SUFFICES ASSUME i + 1 <= n PROVE h[i + 1] = k[i + 1]
    OBVIOUS
  <2>1. /\ i + 1 \in 0 .. n /\ i + 1 \in 0 .. n + 1 /\ i + 1 # 0
        /\ (i + 1) - 1 = i /\ i + 1 \in 1 .. n
    BY <1>1
  <2>2. h[i] = k[i] /\ t[i + 1] = s[i + 1]
    BY <1>1, <2>1
  <2>3. k[i + 1] = KeptStep(s, gone, k, i + 1)
    BY <1>2, <2>1
  <2>4. h[i + 1] = KeptStep(t, gone, h, i + 1)
    BY <1>3, <2>1
  <2> QED
    BY <2>1, <2>2, <2>3, <2>4 DEF KeptStep
<1>6. P = Nat
  <2> HIDE DEF P
  <2>1. P \subseteq Nat
    BY DEF P
  <2> QED
    BY <1>4, <1>5, <2>1, Induction
<1>7. h[n] = k[n]
  BY <1>1, <1>6
<1>8. h[n + 1] = IF x \in gone THEN h[n] ELSE Append(h[n], x)
  <2>1. n + 1 \in 0 .. n + 1 /\ n + 1 # 0 /\ (n + 1) - 1 = n
    BY <1>1
  <2> QED
    BY <1>1, <1>3, <2>1 DEF KeptStep
<1> QED
  BY <1>1, <1>7, <1>8, RemainingIsKept DEF n, t, k, h

LEMMA AppendOfConcat ==
    ASSUME NEW X, NEW s \in Seq(X), NEW t \in Seq(X), NEW x \in X
    PROVE  s \o Append(t, x) = Append(s \o t, x)
<1>1. <<x>> \in Seq(X) /\ s \o t \in Seq(X)
  BY ConcatProperties
<1>2. Append(t, x) = t \o <<x>> /\ Append(s \o t, x) = (s \o t) \o <<x>>
  BY <1>1, AppendIsConcat
<1> QED
  BY <1>1, <1>2, ConcatAssociative

(* Remaining takes words out, and leaves the others in their order.        *)
LEMMA RangeOfAppend ==
    ASSUME NEW X, NEW s \in Seq(X), NEW x \in X
    PROVE  Range(Append(s, x)) = Range(s) \cup {x}
<1>1. <<x>> \in Seq(X) /\ Range(<<x>>) = {x}
  BY DEF Range
<1>2. Append(s, x) = s \o <<x>>
  BY AppendIsConcat
<1>3. Range(s \o <<x>>) = Range(s) \cup Range(<<x>>)
  BY <1>1, RangeConcatenation
<1> QED
  BY <1>1, <1>2, <1>3

LEMMA RemainingWords ==
    ASSUME NEW X, NEW words \in Seq(X), NEW gone
    PROVE  /\ Remaining(words, gone) \in Seq(X)
           /\ Range(Remaining(words, gone)) = Range(words) \ gone
<1> DEFINE P == {s \in Seq(X) : /\ Remaining(s, gone) \in Seq(X)
                               /\ Range(Remaining(s, gone)) = Range(s) \ gone}
<1>1. <<>> \in P
  <2>1. Range(<<>>) = {} /\ <<>> \in Seq(X)
    BY DEF Range
  <2>2. Remaining(<<>>, gone) = <<>>
    BY RemainingOfEmpty
  <2> QED
    BY <2>1, <2>2, Zenon
<1>2. ASSUME NEW s \in P, NEW x \in X PROVE Append(s, x) \in P
  <2>1. Append(s, x) \in Seq(X) /\ Range(Append(s, x)) = Range(s) \cup {x}
    BY RangeOfAppend
  <2>2. CASE x \in gone
    <3>1. Remaining(Append(s, x), gone) = Remaining(s, gone)
      BY <2>2, RemainingOfAppend
    <3> QED
      BY <2>1, <2>2, <3>1
  <2>3. CASE x \notin gone
    <3>1. Remaining(Append(s, x), gone) = Append(Remaining(s, gone), x)
      BY <2>3, RemainingOfAppend
    <3>2. /\ Append(Remaining(s, gone), x) \in Seq(X)
          /\ Range(Append(Remaining(s, gone), x))
               = Range(Remaining(s, gone)) \cup {x}
      BY RangeOfAppend
    <3> QED
      BY <2>1, <2>3, <3>1, <3>2
  <2> QED
    BY <2>2, <2>3
<1>3. P = Seq(X)
  <2> HIDE DEF P
  <2>1. P \subseteq Seq(X)
    BY DEF P
  <2> QED
    BY <1>1, <1>2, <2>1, SequenceInduction
<1> QED
  BY <1>3

LEMMA NothingToRemove ==
    ASSUME NEW X, NEW words \in Seq(X), NEW gone, Range(words) \cap gone = {}
    PROVE  Remaining(words, gone) = words
<1> DEFINE P == {s \in Seq(X) : Range(s) \cap gone = {} => Remaining(s, gone) = s}
<1>1. <<>> \in P
  BY RemainingOfEmpty
<1>2. ASSUME NEW s \in P, NEW x \in X PROVE Append(s, x) \in P
  <2>1. Append(s, x) \in Seq(X) /\ Range(Append(s, x)) = Range(s) \cup {x}
    BY RangeOfAppend
  <2>2. Remaining(Append(s, x), gone)
          = IF x \in gone THEN Remaining(s, gone) ELSE Append(Remaining(s, gone), x)
    BY RemainingOfAppend
  <2> QED
    BY <2>1, <2>2
<1>3. P = Seq(X)
  <2> HIDE DEF P
  <2>1. P \subseteq Seq(X)
    BY DEF P
  <2> QED
    BY <1>1, <1>2, <2>1, SequenceInduction
<1> QED
  BY <1>3

LEMMA NothingRemains ==
    ASSUME NEW X, NEW words \in Seq(X), NEW gone, Range(words) \subseteq gone
    PROVE  Remaining(words, gone) = <<>>
<1>1. /\ Remaining(words, gone) \in Seq(X)
      /\ Range(Remaining(words, gone)) = {}
  BY RemainingWords
<1> DEFINE r == Remaining(words, gone)
<1> HIDE DEF r
<1>2. r \in Seq(X) /\ Range(r) = {}
  BY <1>1 DEF r
<1>3. r = <<>>
  <2> SUFFICES ASSUME r # <<>> PROVE FALSE
    OBVIOUS
  <2>1. 1 \in DOMAIN r
    BY <1>2, EmptySeq, LenProperties
  <2> QED
    BY <1>2, <2>1 DEF Range
<1> QED
  BY <1>3 DEF r

LEMMA RemainingOfConcat ==
    ASSUME NEW X, NEW s \in Seq(X), NEW words \in Seq(X), NEW gone
    PROVE  Remaining(s \o words, gone) = Remaining(s, gone) \o Remaining(words, gone)
<1> DEFINE P == {t \in Seq(X) : Remaining(s \o t, gone)
                                 = Remaining(s, gone) \o Remaining(t, gone)}
<1>1. <<>> \in P
  <2>1. Remaining(s, gone) \in Seq(X)
    BY RemainingWords
  <2>2. s \o <<>> = s /\ Remaining(s, gone) \o <<>> = Remaining(s, gone)
    BY <2>1, ConcatEmptySeq
  <2>3. Remaining(<<>>, gone) = <<>> /\ <<>> \in Seq(X)
    BY RemainingOfEmpty
  <2> QED
    BY <2>2, <2>3, Zenon
<1>2. ASSUME NEW t \in P, NEW x \in X PROVE Append(t, x) \in P
  <2> DEFINE a == Remaining(s, gone)  b == Remaining(t, gone)
  <2>1. a \in Seq(X) /\ b \in Seq(X) /\ s \o t \in Seq(X)
    BY RemainingWords, ConcatProperties
  <2>2. s \o Append(t, x) = Append(s \o t, x)
    BY AppendOfConcat
  <2>3. a \o Append(b, x) = Append(a \o b, x)
    BY <2>1, AppendOfConcat
  <2>4. Remaining(Append(s \o t, x), gone)
          = IF x \in gone THEN a \o b ELSE Append(a \o b, x)
    <3>1. Remaining(Append(s \o t, x), gone)
            = IF x \in gone THEN Remaining(s \o t, gone)
                            ELSE Append(Remaining(s \o t, gone), x)
      BY <2>1, RemainingOfAppend
    <3> QED
      BY <3>1
  <2>5. Remaining(Append(t, x), gone) = IF x \in gone THEN b ELSE Append(b, x)
    BY RemainingOfAppend
  <2>6. Append(t, x) \in Seq(X)
    BY AppendProperties
  <2> HIDE DEF a, b
  <2>7. Remaining(s \o Append(t, x), gone) = a \o Remaining(Append(t, x), gone)
    BY <2>2, <2>3, <2>4, <2>5
  <2> QED
    BY <2>6, <2>7 DEF a
<1>3. P = Seq(X)
  <2> HIDE DEF P
  <2>1. P \subseteq Seq(X)
    BY DEF P
  <2> QED
    BY <1>1, <1>2, <2>1, SequenceInduction
<1> QED
  BY <1>3

LEMMA RemainingTwice ==
    ASSUME NEW X, NEW words \in Seq(X), NEW gone, NEW too
    PROVE  Remaining(Remaining(words, gone), too) = Remaining(words, gone \cup too)
<1> DEFINE P == {s \in Seq(X) : Remaining(Remaining(s, gone), too)
                                 = Remaining(s, gone \cup too)}
<1>1. <<>> \in P
  BY RemainingOfEmpty
<1>2. ASSUME NEW s \in P, NEW x \in X PROVE Append(s, x) \in P
  <2>1. Append(s, x) \in Seq(X) /\ Remaining(s, gone) \in Seq(X)
    BY AppendProperties, RemainingWords
  <2>2. \A g : Remaining(Append(s, x), g)
                = IF x \in g THEN Remaining(s, g) ELSE Append(Remaining(s, g), x)
    BY RemainingOfAppend
  <2>3. \A u \in Seq(X) : Remaining(Append(u, x), too)
                = IF x \in too THEN Remaining(u, too) ELSE Append(Remaining(u, too), x)
    BY RemainingOfAppend
  <2> QED
    BY <2>1, <2>2, <2>3
<1>3. P = Seq(X)
  <2> HIDE DEF P
  <2>1. P \subseteq Seq(X)
    BY DEF P
  <2> QED
    BY <1>1, <1>2, <2>1, SequenceInduction
<1> QED
  BY <1>3

-----------------------------------------------------------------------------
(* Main's stages, one by one.                                              *)
LEMMA StageNames ==
    /\ DOMAIN Stages = 1 .. 9
    /\ Stages[1] = "--help" /\ Stages[2] = "--verbose"
    /\ Stages[3] = "--setup-serial" /\ Stages[4] = "device"
    /\ Stages[5] = "--dump-agps" /\ Stages[6] = "--load-agps"
    /\ Stages[7] = "--sleep" /\ Stages[8] = "--wake-up" /\ Stages[9] = "none"
BY DEF Stages

LEMMA StageOf ==
    ASSUME NEW n \in DOMAIN Stages
    PROVE  /\ n \in 1 .. 9
           /\ Stages[n] = "--help" <=> n = 1
           /\ Stages[n] = "--verbose" <=> n = 2
           /\ Stages[n] = "--setup-serial" <=> n = 3
           /\ Stages[n] = "device" <=> n = 4
           /\ Stages[n] \in Commands <=> n \in 5 .. 8
           /\ Stages[n] = "none" <=> n = 9
<1>1. \/ n = 1 \/ n = 2 \/ n = 3 \/ n = 4 \/ n = 5 \/ n = 6 \/ n = 7 \/ n = 8
      \/ n = 9
  BY StageNames
<1> QED
  BY <1>1, StageNames DEF Commands

(* The words of the command line, and what can be left of them.            *)
W == Range(args)

LEMMA LineOfWords ==
    ASSUME args \in Lines
    PROVE  args \in Seq(W)
<1>1. PICK X : args \in Seq(X)
  <2>1. args = <<>> => args \in Seq({})
    OBVIOUS
  <2> QED
    BY <2>1, LinesAssumption
<1> QED
  BY <1>1, SeqOfRange DEF W

LEMMA OperandsType ==
    ASSUME args \in Seq(W)
    PROVE  Operands \in Seq(W)
BY RemainingWords DEF Operands

(* The first word is the device, and what follows it is words again.       *)
LEMMA DeviceAndRest ==
    ASSUME NEW X, NEW words \in Seq(X), words # <<>>
    PROVE  Head(words) \in X /\ Tail(words) \in Seq(X)
BY HeadTailProperties

LEMMA PerformsType ==
    ASSUME NEW command \in Commands
    PROVE  Performs(command) \in Seq({"help", "raw"} \cup Commands)
<1> DEFINE D == {"help", "raw"} \cup Commands
<1>1. <<"raw">> \in Seq(D) /\ <<>> \in Seq(D) /\ <<command>> \in Seq(D)
  OBVIOUS
<1> HIDE DEF D
<1>2. (IF p_setup_serial THEN <<"raw">> ELSE <<>>) \in Seq(D)
  BY <1>1
<1>3. Performs(command) \in Seq(D)
  BY <1>1, <1>2, ConcatProperties DEF Performs
<1> QED
  BY <1>3 DEF D

LEMMA ArgsStarts == Init => IInv
<1> SUFFICES ASSUME Init PROVE IInv
  OBVIOUS
<1>1. TypeOK
  <2>1. argv \in Seq(Range(args))
    BY LineOfWords DEF Init, W
  <2>2. <<>> \in Seq({"help", "raw"} \cup Commands)
    OBVIOUS
  <2>3. pc \in DOMAIN Stages
    BY StageNames DEF Init
  <2> QED
    BY <2>1, <2>2, <2>3, Zenon DEF Init, TypeOK
<1> QED
  BY <1>1, StageOf
  DEF Init, IInv, TypeOK, OptionsTaken, DeviceTaken, StillRunning, Ended

(* One step of main, from a state of the invariant.                        *)
LEMMA HelpStep == IInv /\ parse_args_help => IInv'
<1> SUFFICES ASSUME IInv, parse_args_help PROVE IInv'
  OBVIOUS
<1>0. pc = 1 /\ status = "running"
  BY StageOf DEF IInv, TypeOK, parse_args_help, At
<1>1. /\ pc = 1 /\ status = "running" /\ argv = args /\ done = <<>>
      /\ dump_file = "none" /\ dev = "none" /\ ~p_setup_serial
  BY <1>0
  DEF IInv, TypeOK, OptionsTaken, StillRunning, DeviceTaken, parse_args_help, At
<1>2. args \in Seq(W) /\ Remaining(args, {"--help"}) \in Seq(W)
  BY LineOfWords, RemainingWords DEF IInv, TypeOK
<1>3. /\ argv' = Remaining(args, {"--help"})
      /\ UNCHANGED <<args, VERBOSE, p_setup_serial, dev, dump_file>>
  BY <1>1 DEF parse_args_help, Without
<1>4. CASE "--help" \in W
  <2>1. done' = <<"help">> /\ status' = "exit_0" /\ pc' = 1
    BY <1>1, <1>4 DEF parse_args_help, Found, Exit, W
  <2>2. TypeOK'
    <3>1. done' \in Seq({"help", "raw"} \cup Commands)
      BY <2>1
    <3>2. argv' \in Seq(Range(args)')
      BY <1>2, <1>3 DEF W, Range
    <3>3. pc' \in DOMAIN Stages
      BY <2>1, StageNames
    <3> QED
      BY <1>3, <2>1, <3>1, <3>2, <3>3, Zenon DEF IInv, TypeOK
  <2>3. OptionsTaken' /\ DeviceTaken' /\ StillRunning'
    BY <1>1, <1>3, <2>1 DEF OptionsTaken, DeviceTaken, StillRunning
  <2>4. Ended'
    BY <1>1, <1>3, <1>4, <2>1, StageNames DEF Ended, W
  <2> QED
    BY <2>2, <2>3, <2>4 DEF IInv
<1>5. CASE "--help" \notin W
  <2>1. done' = <<>> /\ status' = "running" /\ pc' = 2
    BY <1>1, <1>5 DEF parse_args_help, Found, GoOn, W
  <2>2. argv' = args
    BY <1>2, <1>3, <1>5, NothingToRemove DEF W
  <2>3. TypeOK'
    <3>1. pc' \in DOMAIN Stages
      BY <2>1, StageNames
    <3> QED
      BY <1>1, <1>3, <2>1, <2>2, <3>1, Zenon DEF IInv, TypeOK
  <2>4. OptionsTaken' /\ DeviceTaken' /\ StillRunning' /\ Ended'
    BY <1>1, <1>3, <1>5, <2>1, <2>2
    DEF OptionsTaken, DeviceTaken, StillRunning, Ended, W
  <2> QED
    BY <2>3, <2>4 DEF IInv
<1> QED
  BY <1>4, <1>5

LEMMA VerboseStep == IInv /\ parse_args_verbose => IInv'
<1> SUFFICES ASSUME IInv, parse_args_verbose PROVE IInv'
  OBVIOUS
<1>0. pc = 2 /\ status = "running"
  BY StageOf DEF IInv, TypeOK, parse_args_verbose, At
<1>1. /\ pc = 2 /\ status = "running" /\ argv = args /\ done = <<>>
      /\ dump_file = "none" /\ dev = "none" /\ ~p_setup_serial
      /\ "--help" \notin Range(args)
  BY <1>0
  DEF IInv, TypeOK, OptionsTaken, StillRunning, DeviceTaken, parse_args_verbose, At
<1>2. args \in Seq(W) /\ Remaining(args, {"--verbose"}) \in Seq(W)
  BY LineOfWords, RemainingWords DEF IInv, TypeOK
<1>3. /\ argv' = Remaining(args, {"--verbose"}) /\ pc' = 3 /\ VERBOSE' \in BOOLEAN
      /\ UNCHANGED <<args, status, p_setup_serial, dev, dump_file, done>>
  BY <1>1 DEF parse_args_verbose, Without, GoOn, Found
<1>4. TypeOK'
  <2>1. argv' \in Seq(Range(args)')
    BY <1>2, <1>3 DEF W, Range
  <2>2. pc' \in DOMAIN Stages
    BY <1>3, StageNames
  <2> QED
    BY <1>3, <2>1, <2>2, Zenon DEF IInv, TypeOK
<1>5. OptionsTaken' /\ DeviceTaken' /\ StillRunning' /\ Ended'
  BY <1>1, <1>3 DEF OptionsTaken, DeviceTaken, StillRunning, Ended
<1> QED
  BY <1>4, <1>5 DEF IInv

LEMMA SetupSerialStep == IInv /\ parse_args_setup_serial => IInv'
<1> SUFFICES ASSUME IInv, parse_args_setup_serial PROVE IInv'
  OBVIOUS
<1> DEFINE quiet == Remaining(args, {"--verbose"})
<1>0. pc = 3 /\ status = "running"
  BY StageOf DEF IInv, TypeOK, parse_args_setup_serial, At
<1>1. /\ pc = 3 /\ status = "running" /\ argv = quiet /\ done = <<>>
      /\ dump_file = "none" /\ dev = "none" /\ "--help" \notin Range(args)
  BY <1>0
  DEF IInv, TypeOK, OptionsTaken, StillRunning, DeviceTaken,
      parse_args_setup_serial, At
<1>2. args \in Seq(W) /\ Range(quiet) = W \ {"--verbose"}
  BY LineOfWords, RemainingWords DEF IInv, TypeOK, W
<1>3. argv' = Operands
  <2>1. argv' = Remaining(quiet, {"--setup-serial"})
    BY <1>1 DEF parse_args_setup_serial, Without
  <2>2. Remaining(quiet, {"--setup-serial"})
          = Remaining(args, {"--verbose"} \cup {"--setup-serial"})
    BY <1>2, RemainingTwice
  <2>3. {"--verbose"} \cup {"--setup-serial"} = {"--verbose", "--setup-serial"}
    OBVIOUS
  <2> QED
    BY <2>1, <2>2, <2>3 DEF Operands
<1>4. /\ pc' = 4 /\ (p_setup_serial' <=> "--setup-serial" \in Range(args))
      /\ p_setup_serial' \in BOOLEAN
      /\ UNCHANGED <<args, status, VERBOSE, dev, dump_file, done>>
  <2>1. "--setup-serial" \in Range(argv) <=> "--setup-serial" \in Range(args)
    BY <1>1, <1>2 DEF W
  <2>2. p_setup_serial' = ("--setup-serial" \in Range(argv))
    BY DEF parse_args_setup_serial, Found
  <2>3. p_setup_serial' \in BOOLEAN
    BY <2>2
  <2>4. p_setup_serial' <=> "--setup-serial" \in Range(args)
    BY <2>1, <2>2, Zenon
  <2> QED
    BY <1>1, <2>3, <2>4 DEF parse_args_setup_serial, GoOn
<1>5. Operands \in Seq(W) /\ Operands' = Operands
  BY <1>2, <1>4, OperandsType DEF Operands
<1>6. TypeOK'
  <2>1. argv' \in Seq(Range(args)')
    BY <1>3, <1>4, <1>5 DEF W, Range
  <2>2. pc' \in DOMAIN Stages
    BY <1>4, StageNames
  <2> QED
    BY <1>4, <2>1, <2>2, Zenon DEF IInv, TypeOK
<1>7. OptionsTaken'
  BY <1>1, <1>4 DEF OptionsTaken
<1>8. DeviceTaken' /\ StillRunning' /\ Ended'
  BY <1>1, <1>3, <1>4, <1>5 DEF DeviceTaken, StillRunning, Ended
<1> QED
  BY <1>6, <1>7, <1>8 DEF IInv

LEMMA DeviceStep == IInv /\ parse_args_device => IInv'
<1> SUFFICES ASSUME IInv, parse_args_device PROVE IInv'
  OBVIOUS
<1>0. pc = 4 /\ status = "running"
  BY StageOf DEF IInv, TypeOK, parse_args_device, At
<1>1. /\ argv = Operands /\ done = <<>> /\ dump_file = "none" /\ dev = "none"
      /\ "--help" \notin Range(args)
      /\ (p_setup_serial <=> "--setup-serial" \in Range(args))
  BY <1>0 DEF IInv, OptionsTaken, StillRunning, DeviceTaken
<1>2. UNCHANGED <<args, VERBOSE, p_setup_serial, dump_file, done>>
  BY DEF parse_args_device
<1>3. Operands \in Seq(W) /\ Operands' = Operands
  BY <1>2, LineOfWords, OperandsType DEF IInv, TypeOK, Operands
<1>4. CASE Operands = <<>> \/ Head(Operands) \notin Devices \cup {"-"}
  <2>1. status' = "exit_1" /\ pc' = 4 /\ dev' = "none"
    BY <1>0, <1>1, <1>4 DEF parse_args_device, Exit
  <2>2. TypeOK'
    <3>1. argv' \in Seq(Range(args)')
      <4>1. CASE Operands = <<>>
        BY <1>1, <1>2, <1>3, <4>1 DEF parse_args_device, W, Range
      <4>2. CASE Operands # <<>>
        <5>1. argv' = Tail(Operands)
          BY <1>1, <4>2 DEF parse_args_device
        <5> QED
          BY <1>2, <1>3, <4>2, <5>1, DeviceAndRest DEF W, Range
      <4> QED
        BY <4>1, <4>2
    <3>2. pc' \in DOMAIN Stages
      BY <2>1, StageNames
    <3> QED
      BY <1>1, <1>2, <2>1, <3>1, <3>2, Zenon DEF IInv, TypeOK
  <2>3. OptionsTaken' /\ DeviceTaken' /\ StillRunning'
    BY <1>1, <1>2, <2>1 DEF OptionsTaken, DeviceTaken, StillRunning
  <2>4. Ended'
    <3>1. Stages[pc'] = "device"
      BY <2>1, StageNames
    <3> QED
      BY <1>1, <1>2, <1>3, <1>4, <2>1, <3>1 DEF Ended
  <2> QED
    BY <2>2, <2>3, <2>4 DEF IInv
<1>5. CASE Operands # <<>> /\ Head(Operands) \in Devices \cup {"-"}
  <2>1. /\ status' = "running" /\ pc' = 5
        /\ argv' = Tail(Operands) /\ dev' = Head(Operands)
    BY <1>0, <1>1, <1>5 DEF parse_args_device, GoOn
  <2>2. TypeOK'
    <3>1. argv' \in Seq(Range(args)')
      BY <1>2, <1>3, <1>5, <2>1, DeviceAndRest DEF W, Range
    <3>2. pc' \in DOMAIN Stages
      BY <2>1, StageNames
    <3> QED
      BY <1>2, <1>5, <2>1, <3>1, <3>2, Zenon DEF IInv, TypeOK
  <2>3. OptionsTaken' /\ StillRunning' /\ Ended'
    BY <1>1, <1>2, <1>3, <2>1 DEF OptionsTaken, StillRunning, Ended
  <2>4. DeviceTaken'
    BY <1>3, <1>5, <2>1 DEF DeviceTaken
  <2> QED
    BY <2>2, <2>3, <2>4 DEF IInv
<1> QED
  BY <1>4, <1>5

LEMMA CommandStep == IInv /\ Command => IInv'
<1> SUFFICES ASSUME IInv, Command PROVE IInv'
  OBVIOUS
<1> DEFINE command == Stages[pc]
           rest == Remaining(Tail(Operands), {command})
<1>0. pc \in 5 .. 8 /\ status = "running" /\ command \in Commands
  BY StageOf DEF IInv, TypeOK, Command
<1>1. /\ argv = Tail(Operands) /\ done = <<>> /\ dump_file = "none"
      /\ Operands # <<>> /\ dev = Head(Operands) /\ dev \in Devices \cup {"-"}
      /\ \A n \in 5 .. pc - 1 : Stages[n] \notin Range(Tail(Operands))
      /\ "--help" \notin Range(args)
      /\ (p_setup_serial <=> "--setup-serial" \in Range(args))
  BY <1>0 DEF IInv, OptionsTaken, StillRunning, DeviceTaken
<1>2. UNCHANGED <<args, VERBOSE, p_setup_serial, dev>>
  BY DEF Command
<1>3. /\ Operands \in Seq(W) /\ Operands' = Operands
      /\ Tail(Operands) \in Seq(W) /\ rest \in Seq(W)
  <2>1. Operands \in Seq(W) /\ Operands' = Operands
    BY <1>2, LineOfWords, OperandsType DEF IInv, TypeOK, Operands
  <2>2. Tail(Operands) \in Seq(W)
    BY <1>1, <2>1, DeviceAndRest
  <2> QED
    BY <2>1, <2>2, RemainingWords
<1>4. OptionsTaken' \/ ~(pc' > 3 /\ pc' \in Nat)
  BY <1>1, <1>2 DEF OptionsTaken
<1>5. CASE command \notin Range(Tail(Operands))
  <2>1. /\ status' = "running" /\ pc' = pc + 1
        /\ UNCHANGED <<argv, dump_file, done>>
    BY <1>0, <1>1, <1>5 DEF Command, Found, GoOn
  <2>2. TypeOK'
    <3>1. pc' \in DOMAIN Stages
      BY <1>0, <2>1, StageNames
    <3> QED
      BY <1>2, <2>1, <3>1, Zenon DEF IInv, TypeOK
  <2>3. StillRunning' /\ Ended'
    BY <1>0, <1>1, <1>2, <1>3, <2>1 DEF StillRunning, Ended
  <2>4. DeviceTaken'
    <3>1. \A n \in 5 .. pc' - 1 : Stages[n] \notin Range(Tail(Operands))
      BY <1>0, <1>1, <1>5, <2>1
    <3> QED
      BY <1>0, <1>1, <1>2, <1>3, <2>1, <3>1 DEF DeviceTaken
  <2>5. OptionsTaken'
    BY <1>0, <1>4, <2>1
  <2> QED
    BY <2>2, <2>3, <2>4, <2>5 DEF IInv
<1>6. CASE command \in Range(Tail(Operands))
  <2>0. pc' = pc /\ status' # "running" /\ argv' \in {rest, <<>>}
    BY <1>1, <1>6 DEF Command, Found, Exit, Without
  <2>1. IF Fits(command, rest)
        THEN /\ status' = "exit_0" /\ done' = Performs(command)
             /\ dump_file' = IF command \in TakesFile THEN Head(rest) ELSE "none"
        ELSE status' = "exit_1" /\ dump_file' = "none" /\ done' = <<>>
    BY <1>1, <1>6 DEF Command, Found, Exit, Without
  <2>2. TypeOK'
    <3>1. argv' \in Seq(Range(args)')
      <4>1. <<>> \in Seq(W)
        OBVIOUS
      <4>2. argv' \in Seq(W)
        BY <1>3, <2>0, <4>1, Zenon
      <4> QED
        BY <1>2, <4>2 DEF W, Range
    <3>2. dump_file' \in Range(args)' \cup {"none"}
      <4>1. command \in TakesFile /\ Fits(command, rest) => Head(rest) \in W
        BY <1>3, DeviceAndRest DEF Fits
      <4>2. dump_file' \in W \cup {"none"}
        BY <2>1, <4>1
      <4> QED
        BY <1>2, <4>2 DEF W, Range
    <3>3. done' \in Seq({"help", "raw"} \cup Commands)
      <4>1. <<>> \in Seq({"help", "raw"} \cup Commands)
        OBVIOUS
      <4>2. Performs(command) \in Seq({"help", "raw"} \cup Commands)
        BY <1>0, PerformsType
      <4> QED
        BY <2>1, <4>1, <4>2, Zenon
    <3>4. status' \in {"running", "exit_0", "exit_1"} /\ pc' \in DOMAIN Stages
      BY <2>0, <2>1 DEF IInv, TypeOK
    <3> QED
      BY <1>2, <3>1, <3>2, <3>3, <3>4, Zenon DEF IInv, TypeOK
  <2>3. OptionsTaken' /\ DeviceTaken' /\ StillRunning'
    BY <1>0, <1>1, <1>2, <1>3, <1>4, <2>0 DEF DeviceTaken, StillRunning
  <2>4. EndedAt(command)'
    <3>1. Performs(command)' = Performs(command)
      BY <1>2, <2>0 DEF Performs
    <3> QED
      BY <1>3, <1>6, <2>0, <2>1, <3>1 DEF EndedAt, Fits
  <2>5. Ended'
    BY <1>0, <2>0, <2>4 DEF Ended
  <2> QED
    BY <2>2, <2>3, <2>5 DEF IInv
<1> QED
  BY <1>5, <1>6

LEMMA NoCommandStep == IInv /\ NoCommand => IInv'
<1> SUFFICES ASSUME IInv, NoCommand PROVE IInv'
  OBVIOUS
<1>0. pc = 9 /\ status = "running"
  BY StageOf DEF IInv, TypeOK, NoCommand, At
<1>1. done = <<>> /\ dump_file = "none"
  BY <1>0 DEF IInv, StillRunning
<1>2. /\ pc' = pc /\ status' # "running"
      /\ UNCHANGED <<args, argv, VERBOSE, p_setup_serial, dev, dump_file>>
  BY DEF NoCommand, Exit
<1>3. IF p_setup_serial THEN status' = "exit_0" /\ done' = <<"raw">>
                        ELSE status' = "exit_1" /\ done' = <<>>
  BY <1>1 DEF NoCommand, Exit
<1>4. TypeOK'
  <2>1. done' \in Seq({"help", "raw"} \cup Commands)
    <3>1. /\ <<>> \in Seq({"help", "raw"} \cup Commands)
          /\ <<"raw">> \in Seq({"help", "raw"} \cup Commands)
      OBVIOUS
    <3> QED
      BY <1>3, <3>1, Zenon
  <2>2. status' \in {"running", "exit_0", "exit_1"}
    BY <1>3
  <2> QED
    BY <1>2, <2>1, <2>2, Zenon DEF IInv, TypeOK
<1>5. OptionsTaken' /\ DeviceTaken' /\ StillRunning'
  BY <1>0, <1>2
  DEF IInv, OptionsTaken, DeviceTaken, StillRunning, Operands
<1>6. Ended'
  BY <1>0, <1>1, <1>2, <1>3, StageNames DEF Ended
<1> QED
  BY <1>4, <1>5, <1>6 DEF IInv

LEMMA ArgsStep == IInv /\ [Next]_vars => IInv'
<1>1. IInv /\ UNCHANGED vars => IInv'
  <2> SUFFICES ASSUME IInv, UNCHANGED vars PROVE IInv'
    OBVIOUS
  <2>1. TypeOK'
    BY Zenon DEF IInv, TypeOK, vars, Range
  <2>2. OptionsTaken' /\ DeviceTaken' /\ StillRunning'
    BY DEF IInv, OptionsTaken, DeviceTaken, StillRunning, Operands, vars
  <2>3. Ended'
    BY DEF IInv, Ended, EndedAt, Performs, Operands, vars
  <2> QED
    BY <2>1, <2>2, <2>3 DEF IInv
<1> QED
  BY <1>1, HelpStep, VerboseStep, SetupSerialStep, DeviceStep, CommandStep,
     NoCommandStep DEF Next

LEMMA ArgsInvariant == Spec => []IInv
BY ArgsStarts, ArgsStep, PTL DEF Spec

(* Every variable of main keeps to its values, on every command line.      *)
THEOREM ArgsTypeCorrect == Spec => []TypeOK
<1>1. IInv => TypeOK
  BY DEF IInv
<1> QED
  BY <1>1, ArgsInvariant, PTL

(* A run that succeeds accounts for its words, whatever they are and       *)
(* wherever the options stand: a command uses every word, none twice, and  *)
(* setting the device up alone, which passes words over, passes over no    *)
(* command (c/parse_args.h:7-30, 32-42, c/gta02-gps.c:21-49).              *)
THEOREM NoCommandIsLost == Spec => []WordsAccountedFor
<1>1. IInv => WordsAccountedFor
  <2> DEFINE behind == Tail(Operands)
  <2> SUFFICES ASSUME IInv, status = "exit_0", Last(done) # "help"
               PROVE  WordsAccountedFor
    BY DEF WordsAccountedFor
  <2>1. \/ Stages[pc] \in Commands /\ EndedAt(Stages[pc])
        \/ Stages[pc] = "none" /\ done = <<"raw">>
    <3>1. Last(<<"help">>) = "help"
      BY DEF Last
    <3> QED
      BY <3>1 DEF IInv, Ended
  <2>2. CASE Stages[pc] \in Commands /\ EndedAt(Stages[pc])
    <3>1. pc \in 5 .. 8 /\ Operands # <<>> /\ dev = Head(Operands)
      BY <2>2, StageOf DEF IInv, TypeOK, DeviceTaken
    <3> DEFINE command == Stages[pc]
               rest == Remaining(behind, {command})
    <3>2. done = Performs(command) /\ Fits(command, rest)
          /\ dump_file = IF command \in TakesFile THEN Head(rest) ELSE "none"
      BY <2>2 DEF EndedAt
    <3>3. Last(done) = command
      BY <3>2 DEF Last, Performs
    <3>4. rest \in Seq(W)
      <4>1. Operands \in Seq(W)
        BY LineOfWords, OperandsType DEF IInv, TypeOK
      <4>2. behind \in Seq(W)
        BY <3>1, <4>1, DeviceAndRest
      <4> QED
        BY <4>2, RemainingWords
    <3> HIDE DEF command, rest
    <3>5. rest = IF command \in TakesFile THEN <<dump_file>> ELSE <<>>
      BY <3>2, <3>4 DEF Fits
    <3>6. command \in Commands
      BY <2>2 DEF command
    <3> QED
      BY <3>1, <3>3, <3>5, <3>6 DEF WordsAccountedFor, rest
  <2>3. CASE Stages[pc] = "none" /\ done = <<"raw">>
    <3>1. pc = 9
      BY <2>3, StageOf DEF IInv, TypeOK
    <3>2. Operands # <<>> /\ dev = Head(Operands)
          /\ \A n \in 5 .. 8 : Stages[n] \notin Range(behind)
      BY <3>1 DEF IInv, DeviceTaken
    <3>3. Range(behind) \cap Commands = {}
      BY <3>2, StageNames DEF Commands
    <3>4. Last(done) = "raw" /\ "raw" \notin Commands
      BY <2>3 DEF Last, Commands
    <3> QED
      BY <3>2, <3>3, <3>4 DEF WordsAccountedFor
  <2> QED
    BY <2>1, <2>2, <2>3
<1> QED
  BY <1>1, ArgsInvariant, PTL

-----------------------------------------------------------------------------
(* What main makes of a documented invocation: the options, and words      *)
(* behind them that are none.                                              *)
LEMMA OptionsFirst ==
    ASSUME NEW v \in Verbose, NEW raw \in BOOLEAN, NEW X, NEW words \in Seq(X),
           Range(words) \cap {"--help", "--verbose", "--setup-serial"} = {},
           args = (v \o SetUp(raw)) \o words
    PROVE  /\ Operands = words
           /\ "--help" \notin Range(args)
           /\ "--setup-serial" \in Range(args) <=> raw
<1> DEFINE Y == X \cup {"--verbose", "--setup-serial"}
           taken == {"--verbose", "--setup-serial"}
           s == SetUp(raw)
           p == v \o s
<1>1. /\ v \in Seq(Y) /\ s \in Seq(Y)
      /\ Range(v) \subseteq {"--verbose"}
      /\ Range(s) = IF raw THEN {"--setup-serial"} ELSE {}
  <2>1. \A x \in Y : <<x>> \in Seq(Y) /\ Range(<<x>>) = {x}
    BY DEF Range
  <2>2. <<>> \in Seq(Y) /\ Range(<<>>) = {}
    BY DEF Range
  <2>3. v = <<>> \/ v = <<"--verbose">>
    BY DEF Verbose
  <2>4. s = IF raw THEN <<"--setup-serial">> ELSE <<>>
    BY DEF SetUp
  <2>5. "--verbose" \in Y /\ "--setup-serial" \in Y
    OBVIOUS
  <2> HIDE DEF Y, s
  <2>6. v \in Seq(Y) /\ Range(v) \subseteq {"--verbose"}
    BY <2>1, <2>2, <2>3, <2>5
  <2>7. s \in Seq(Y) /\ Range(s) = IF raw THEN {"--setup-serial"} ELSE {}
    BY <2>1, <2>2, <2>4, <2>5
  <2> QED
    BY <2>6, <2>7
<1>2. words \in Seq(Y)
  BY SeqMonotonic
<1> HIDE DEF Y, taken, s
<1>3. p \in Seq(Y) /\ Range(p) = Range(v) \cup Range(s)
  BY <1>1, ConcatProperties, RangeConcatenation
<1>4. Remaining(p, taken) = <<>>
  <2>1. Range(p) \subseteq taken
    BY <1>1, <1>3 DEF taken
  <2> HIDE DEF p
  <2> QED
    BY <1>3, <2>1, NothingRemains
<1>5. args = p \o words
  BY DEF s
<1> HIDE DEF p
<1>6. Range(args) = Range(p) \cup Range(words)
  BY <1>2, <1>3, <1>5, RangeConcatenation
<1>7. Operands = words
  <2>1. Remaining(words, taken) = words
    BY <1>2, NothingToRemove DEF taken
  <2>2. Remaining(args, taken) = Remaining(p, taken) \o Remaining(words, taken)
    BY <1>2, <1>3, <1>5, RemainingOfConcat
  <2>3. <<>> \o words = words
    BY ConcatEmptySeq
  <2> QED
    BY <1>4, <2>1, <2>2, <2>3 DEF Operands, taken
<1> QED
  BY <1>1, <1>3, <1>6, <1>7

LEMMA WithoutCommand ==
    ASSUME NEW command, NEW f, f # command
    PROVE  /\ Remaining(<<command, f>>, {command}) = <<f>>
           /\ Remaining(<<command>>, {command}) = <<>>
<1> DEFINE X == {command, f}
<1>1. /\ <<>> \in Seq(X) /\ <<command>> \in Seq(X)
      /\ <<command>> = Append(<<>>, command)
      /\ <<command, f>> = Append(<<command>>, f)
      /\ Append(<<>>, f) = <<f>> /\ command \in X /\ f \in X
  OBVIOUS
<1>2. \A s \in Seq(X), x \in X :
          Remaining(Append(s, x), {command})
            = IF x \in {command} THEN Remaining(s, {command})
                                 ELSE Append(Remaining(s, {command}), x)
  BY RemainingOfAppend
<1>3. Remaining(<<>>, {command}) = <<>>
  BY RemainingOfEmpty
<1> HIDE DEF X
<1>4. Remaining(<<command>>, {command}) = <<>>
  BY <1>1, <1>2, <1>3
<1>5. Remaining(<<command, f>>, {command}) = <<f>>
  BY <1>1, <1>2, <1>4
<1> QED
  BY <1>4, <1>5

(* A device that can be opened, and one command behind it.                 *)
LEMMA OneCommand ==
    ASSUME IInv, status # "running", "--help" \notin Range(args),
           NEW command \in Commands, Operands # <<>>,
           Head(Operands) \in Devices \cup {"-"},
           Range(Tail(Operands)) \cap Commands = {command},
           Fits(command, Remaining(Tail(Operands), {command}))
    PROVE  /\ status = "exit_0" /\ dev = Head(Operands)
           /\ dump_file = IF command \in TakesFile
                          THEN Head(Remaining(Tail(Operands), {command}))
                          ELSE "none"
           /\ done = Performs(command)
           /\ p_setup_serial <=> "--setup-serial" \in Range(args)
<1>1. pc \in DOMAIN Stages /\ pc \in 1 .. 9
  BY StageNames DEF IInv, TypeOK
<1>2. pc # 1 /\ pc # 4
  BY <1>1, StageNames, StageOf DEF IInv, Ended, Commands
<1>3. pc # 9
  <2> SUFFICES ASSUME pc = 9 PROVE FALSE
    OBVIOUS
  <2>1. \A n \in 5 .. 8 : Stages[n] \notin Range(Tail(Operands))
    BY DEF IInv, DeviceTaken
  <2>2. \E n \in 5 .. 8 : Stages[n] = command
    BY StageNames DEF Commands
  <2> QED
    BY <2>1, <2>2
<1>4. Stages[pc] \in Commands /\ EndedAt(Stages[pc])
  BY <1>1, <1>2, <1>3, StageOf DEF IInv, Ended
<1>5. Stages[pc] = command
  BY <1>4 DEF EndedAt
<1>6. pc > 4
  BY <1>1, <1>4, StageOf
<1> QED
  BY <1>1, <1>4, <1>5, <1>6 DEF EndedAt, IInv, DeviceTaken, OptionsTaken

LEMMA DocumentedDone ==
    ASSUME IInv, status # "running",
           NEW d \in (Devices \cup {"-"}) \ Options, NEW f \in W \ Options,
           NEW doc \in Documented(d, f), doc.line = args
    PROVE  /\ status = "exit_0" /\ dev = doc.dev
           /\ dump_file = doc.file /\ done = doc.done
<1> DEFINE Done ==
        /\ status = "exit_0" /\ dev = doc.dev
        /\ dump_file = doc.file /\ done = doc.done
           NoFile == Commands \ TakesFile
<1>0. d \in Devices \cup {"-"} /\ d \notin Options /\ f \notin Options
  OBVIOUS
<1>1. CASE doc = Does(<<"--help">>, "none", "none", <<"help">>)
  <2>1. args = <<"--help">> /\ "--help" \in Range(args)
    BY <1>1 DEF Does, Range
  <2>2. pc = 1
    <3>1. pc \in Nat /\ ~(pc > 1) /\ pc \in 1 .. 9
      BY <2>1, StageNames DEF IInv, TypeOK, OptionsTaken
    <3> QED
      BY <3>1
  <2>3. Stages[pc] = "--help"
    BY <2>2, StageNames
  <2>4. status = "exit_0" /\ done = <<"help">> /\ dump_file = "none"
    BY <2>3 DEF IInv, Ended, Commands
  <2>5. dev = "none"
    BY <2>2 DEF IInv, DeviceTaken
  <2> QED
    BY <1>1, <2>4, <2>5 DEF Does
<1>2. ASSUME NEW v \in Verbose,
             doc = Does(v \o <<"--setup-serial", d>>, d, "none", <<"raw">>)
      PROVE  Done
  <2>1. args = (v \o SetUp(TRUE)) \o <<d>>
    <3>1. args = v \o <<"--setup-serial", d>>
      BY <1>2 DEF Does
    <3>2. v \o <<"--setup-serial", d>> = (v \o SetUp(TRUE)) \o <<d>>
      BY DEF Verbose, SetUp
    <3> QED
      BY <3>1, <3>2
  <2>2. <<d>> \in Seq({d}) /\ Range(<<d>>) = {d}
    BY DEF Range
  <2>3. /\ Operands = <<d>> /\ "--help" \notin Range(args)
        /\ "--setup-serial" \in Range(args)
    BY <1>0, <2>1, <2>2, OptionsFirst DEF Options
  <2>4. Head(Operands) = d /\ Tail(Operands) = <<>> /\ Range(Tail(Operands)) = {}
    BY <2>3 DEF Range
  <2>5. pc = 9
    <3>1. pc \in DOMAIN Stages /\ pc \in 1 .. 9
      BY StageNames DEF IInv, TypeOK
    <3>2. pc # 1 /\ pc # 4
      BY <1>0, <2>3, <2>4, <3>1, StageNames DEF IInv, Ended, Commands
    <3>3. Stages[pc] \notin Commands
      BY <2>4, <3>2, StageNames DEF IInv, Ended, EndedAt, Commands
    <3> QED
      BY <3>1, <3>2, <3>3, StageOf DEF IInv, Ended
  <2>6. p_setup_serial /\ dev = d
    BY <2>3, <2>4, <2>5 DEF IInv, OptionsTaken, DeviceTaken
  <2>7. dump_file = "none" /\ status = "exit_0" /\ done = <<"raw">>
    BY <2>5, <2>6, StageNames DEF IInv, Ended, Commands
  <2> QED
    BY <1>2, <2>6, <2>7 DEF Does
<1>3. ASSUME NEW v \in Verbose, NEW raw \in BOOLEAN, NEW c \in TakesFile,
             doc = Does(v \o SetUp(raw) \o <<d, c, f>>, d, f, Raw(raw) \o <<c>>)
      PROVE  Done
  <2>1. args = (v \o SetUp(raw)) \o <<d, c, f>>
    BY <1>3 DEF Does
  <2>2. /\ <<d, c, f>> \in Seq({d, c, f}) /\ Range(<<d, c, f>>) = {d, c, f}
        /\ Range(<<c, f>>) = {c, f}
    BY DEF Range
  <2>3. c \in Commands /\ c # f
    BY <1>0 DEF Options, TakesFile, Commands
  <2>4. /\ Operands = <<d, c, f>> /\ "--help" \notin Range(args)
        /\ "--setup-serial" \in Range(args) <=> raw
    <3>1. {d, c, f} \cap {"--help", "--verbose", "--setup-serial"} = {}
      BY <1>0 DEF Options, TakesFile
    <3> QED
      BY <2>1, <2>2, <3>1, OptionsFirst
  <2>5. /\ Operands # <<>> /\ Head(Operands) = d /\ Tail(Operands) = <<c, f>>
        /\ Range(Tail(Operands)) \cap Commands = {c}
    BY <1>0, <2>2, <2>3, <2>4 DEF Options
  <2>6. Remaining(Tail(Operands), {c}) = <<f>>
    BY <2>3, <2>5, WithoutCommand
  <2>7. /\ Fits(c, Remaining(Tail(Operands), {c}))
        /\ Head(Remaining(Tail(Operands), {c})) = f
    BY <2>6 DEF Fits
  <2>8. /\ status = "exit_0" /\ dev = d /\ dump_file = f
        /\ done = Performs(c) /\ (p_setup_serial <=> raw)
    BY <1>0, <2>3, <2>4, <2>5, <2>7, OneCommand
  <2>9. Performs(c) = Raw(raw) \o <<c>>
    BY <2>8 DEF Performs, Raw
  <2> QED
    BY <1>3, <2>8, <2>9 DEF Does
<1>4. ASSUME NEW v \in Verbose, NEW raw \in BOOLEAN, NEW c \in NoFile,
             doc = Does(v \o SetUp(raw) \o <<d, c>>, d, "none", Raw(raw) \o <<c>>)
      PROVE  Done
  <2>1. args = (v \o SetUp(raw)) \o <<d, c>>
    BY <1>4 DEF Does
  <2>2. /\ <<d, c>> \in Seq({d, c}) /\ Range(<<d, c>>) = {d, c}
        /\ Range(<<c>>) = {c}
    BY DEF Range
  <2>3. c \in Commands /\ c \notin TakesFile /\ c # f
    BY <1>0 DEF Options
  <2>4. /\ Operands = <<d, c>> /\ "--help" \notin Range(args)
        /\ "--setup-serial" \in Range(args) <=> raw
    <3>1. {d, c} \cap {"--help", "--verbose", "--setup-serial"} = {}
      BY <1>0, <2>3 DEF Options, Commands
    <3> QED
      BY <2>1, <2>2, <3>1, OptionsFirst
  <2>5. /\ Operands # <<>> /\ Head(Operands) = d /\ Tail(Operands) = <<c>>
        /\ Range(Tail(Operands)) \cap Commands = {c}
    BY <2>2, <2>3, <2>4
  <2>6. Remaining(Tail(Operands), {c}) = <<>>
    <3>1. Remaining(<<c>>, {c}) = <<>>
      BY <2>3, WithoutCommand
    <3> QED
      BY <2>5, <3>1
  <2>7. Fits(c, Remaining(Tail(Operands), {c}))
    BY <2>3, <2>6 DEF Fits
  <2>8. /\ status = "exit_0" /\ dev = d /\ dump_file = "none"
        /\ done = Performs(c) /\ (p_setup_serial <=> raw)
    BY <1>0, <2>3, <2>4, <2>5, <2>7, OneCommand
  <2>9. Performs(c) = Raw(raw) \o <<c>>
    BY <2>8 DEF Performs, Raw
  <2> QED
    BY <1>4, <2>8, <2>9 DEF Does
<1>5. \/ doc = Does(<<"--help">>, "none", "none", <<"help">>)
      \/ \E v \in Verbose :
              doc = Does(v \o <<"--setup-serial", d>>, d, "none", <<"raw">>)
      \/ \E v \in Verbose, raw \in BOOLEAN, c \in TakesFile :
              doc = Does(v \o SetUp(raw) \o <<d, c, f>>, d, f, Raw(raw) \o <<c>>)
      \/ \E v \in Verbose, raw \in BOOLEAN, c \in NoFile :
              doc = Does(v \o SetUp(raw) \o <<d, c>>, d, "none", Raw(raw) \o <<c>>)
  <2> DEFINE
        SetUps == {Does(v \o <<"--setup-serial", d>>, d, "none", <<"raw">>) :
                       v \in Verbose}
        Files == {Does(v \o SetUp(raw) \o <<d, c, f>>, d, f, Raw(raw) \o <<c>>) :
                      v \in Verbose, raw \in BOOLEAN, c \in TakesFile}
        Others == {Does(v \o SetUp(raw) \o <<d, c>>, d, "none", Raw(raw) \o <<c>>) :
                       v \in Verbose, raw \in BOOLEAN, c \in NoFile}
  <2>1. \/ doc = Does(<<"--help">>, "none", "none", <<"help">>)
        \/ doc \in SetUps \/ doc \in Files \/ doc \in Others
    <3> HIDE DEF Done
    <3>1. Documented(d, f) = {Does(<<"--help">>, "none", "none", <<"help">>)}
                               \cup SetUps \cup Files \cup Others
      BY DEF Documented
    <3> HIDE DEF SetUps, Files, Others
    <3> QED
      BY <3>1
  <2>2. doc \in SetUps =>
          \E v \in Verbose :
              doc = Does(v \o <<"--setup-serial", d>>, d, "none", <<"raw">>)
    OBVIOUS
  <2>3. doc \in Files =>
          \E v \in Verbose, raw \in BOOLEAN, c \in TakesFile :
              doc = Does(v \o SetUp(raw) \o <<d, c, f>>, d, f, Raw(raw) \o <<c>>)
    OBVIOUS
  <2>4. doc \in Others =>
          \E v \in Verbose, raw \in BOOLEAN, c \in NoFile :
              doc = Does(v \o SetUp(raw) \o <<d, c>>, d, "none", Raw(raw) \o <<c>>)
    <3> HIDE DEF NoFile, Done
    <3> QED
      BY DEF Others
  <2> HIDE DEF NoFile, SetUps, Files, Others, Done
  <2> QED
    BY <2>1, <2>2, <2>3, <2>4
<1> HIDE DEF Done, NoFile
<1>6. Done
  BY <1>1, <1>2, <1>3, <1>4, <1>5, Zenon DEF Done
<1> QED
  BY <1>6 DEF Done

(* Every documented invocation, with any device that can be opened and any *)
(* file, does what it says and succeeds (DocumentedWorks).                 *)
THEOREM DocumentedInvocations == Spec => []DocumentedWorks
<1>1. IInv => DocumentedWorks
  BY DocumentedDone DEF DocumentedWorks, W
<1> QED
  BY <1>1, ArgsInvariant, PTL

-----------------------------------------------------------------------------
(* fixnow and the receiver leave main alone: what is shown of main holds   *)
(* of a process that sleeps or wakes the receiver, too.                    *)
THEOREM FixNowIsMain == FixNowSpec => Spec
<1>1. FixNowInit => Init
  BY DEF FixNowInit
<1>2. [FixNowNext]_all_vars => [Next]_vars
  BY DEF FixNowNext, Main, WriteSequence, WriteConfig, Panic, Receiver, WakeUp,
         Lose, Obey, Fix, FallAsleep, all_vars
<1> QED
  BY <1>1, <1>2, PTL DEF FixNowSpec, Spec

-----------------------------------------------------------------------------
(* The messages, as far as the receiver tells them apart.                  *)
LEMMA MessageKinds ==
    /\ FF.id # "CFG_RXM" /\ POSREQ.id # "CFG_RXM" /\ FF # POSREQ
    /\ FF \notin Configs /\ POSREQ \notin Configs
    /\ \A lp \in {0, 1} : /\ CFG_RXM(lp).id = "CFG_RXM" /\ CFG_RXM(lp).lpMode = lp
                          /\ CFG_RXM(lp) \in Configs
    /\ \A c \in Configs : /\ c.id = "CFG_RXM" /\ c.lpMode \in {0, 1}
                         /\ c # FF /\ c # POSREQ
<1>1. FF.id = "FF" /\ POSREQ.id = "RXM_POSREQ"
  BY DEF FF, POSREQ
<1>2. \A lp : CFG_RXM(lp).id = "CFG_RXM" /\ CFG_RXM(lp).lpMode = lp
  BY DEF CFG_RXM
<1>3. \A c \in Configs : c = CFG_RXM(0) \/ c = CFG_RXM(1)
  BY DEF Configs
<1>4. CFG_RXM(0) \in Configs /\ CFG_RXM(1) \in Configs
  BY DEF Configs
<1>5. FF # POSREQ
  BY <1>1
<1>6. \A c \in Configs : /\ c.id = "CFG_RXM" /\ c.lpMode \in {0, 1}
                        /\ c # FF /\ c # POSREQ
  BY <1>1, <1>2, <1>3
<1> QED
  BY <1>1, <1>2, <1>4, <1>5, <1>6

LEMMA WakeUpSequence ==
    /\ WAKEUP_SEQ \in Seq(Messages) /\ Len(WAKEUP_SEQ) = WAKEUP_FFS + 1
    /\ \A i \in 1 .. WAKEUP_FFS : WAKEUP_SEQ[i] = FF
    /\ WAKEUP_SEQ[WAKEUP_FFS + 1] = POSREQ
<1> DEFINE ffs == [i \in 1 .. WAKEUP_FFS |-> FF]  req == <<POSREQ>>
<1>1. WAKEUP_FFS \in Nat /\ FF \in Messages /\ POSREQ \in Messages
  BY WakingAssumption DEF Messages
<1>2. ffs \in Seq(Messages) /\ Len(ffs) = WAKEUP_FFS
  BY <1>1
<1>3. req \in Seq(Messages) /\ Len(req) = 1 /\ req[1] = POSREQ
  BY <1>1
<1>4. \A i \in 1 .. WAKEUP_FFS : ffs[i] = FF
  OBVIOUS
<1>5. WAKEUP_SEQ = ffs \o req
  BY DEF WAKEUP_SEQ
<1> HIDE DEF ffs, req
<1>6. /\ ffs \o req \in Seq(Messages) /\ Len(ffs \o req) = WAKEUP_FFS + 1
      /\ \A i \in 1 .. WAKEUP_FFS + 1 :
             (ffs \o req)[i] = IF i <= WAKEUP_FFS THEN ffs[i] ELSE req[i - WAKEUP_FFS]
  <2>1. \A s, t \in Seq(Messages) :
            /\ s \o t \in Seq(Messages) /\ Len(s \o t) = Len(s) + Len(t)
            /\ \A i \in 1 .. Len(s) + Len(t) :
                   (s \o t)[i] = IF i <= Len(s) THEN s[i] ELSE t[i - Len(s)]
    BY ConcatProperties
  <2> QED
    BY <1>2, <1>3, <2>1
<1> QED
  BY <1>1, <1>3, <1>4, <1>5, <1>6

LEMMA FixNowStarts == FixNowInit => FixNowIInv
<1> SUFFICES ASSUME FixNowInit PROVE FixNowIInv
  OBVIOUS
<1>1. tx \in Seq(Messages) /\ tx = <<>>
  BY DEF FixNowInit
<1>2. wrote \in 0 .. Len(WAKEUP_SEQ) /\ losing \in 0 .. WakingLoss
  BY WakeUpSequence, WakingAssumption DEF FixNowInit
<1>3. FixNowTypeOK
  BY <1>1, <1>2, Zenon DEF FixNowInit, FixNowTypeOK
<1>4. MainFirst /\ SleepsInFixNow /\ PutToSleep /\ NotYetWoken /\ WokenUp
  BY DEF FixNowInit, MainFirst, SleepsInFixNow, PutToSleep, NotYetWoken, WokenUp
<1> QED
  BY <1>3, <1>4 DEF FixNowIInv

LEMMA MainStep == FixNowIInv /\ IInv' /\ Main => FixNowIInv'
<1> SUFFICES ASSUME FixNowIInv, IInv', Main PROVE FixNowIInv'
  OBVIOUS
<1>1. at = "main" /\ tx = <<>> /\ up /\ losing = 0 /\ ~fixing /\ lpMode = 0
  BY DEF FixNowIInv, MainFirst, Main, Next, parse_args_help, parse_args_verbose,
         parse_args_setup_serial, parse_args_device, Command, NoCommand, At
<1>2. wrote' = wrote
  BY DEF Main
<1>3. CASE at' = "main"
  <2>1. UNCHANGED <<tx, lpMode, up, losing, fixing>>
    BY <1>3 DEF Main, receiver
  <2>2. FixNowTypeOK'
    BY <1>1, <1>2, <1>3, <2>1, Zenon DEF FixNowIInv, FixNowTypeOK
  <2>3. MainFirst' /\ SleepsInFixNow' /\ PutToSleep' /\ NotYetWoken' /\ WokenUp'
    BY <1>1, <1>3, <2>1
    DEF MainFirst, SleepsInFixNow, PutToSleep, NotYetWoken, WokenUp
  <2> QED
    BY <2>2, <2>3 DEF FixNowIInv
<1>4. CASE at' # "main"
  <2>1. /\ \/ at' = "cfg" /\ "--sleep" \in Range(done')
           \/ at' = "seq" /\ "--wake-up" \in Range(done')
        /\ Finds
    BY <1>4 DEF Main
  <2>2. /\ tx' = <<>> \/ \E c \in Configs : tx' = <<c>>
        /\ lpMode' \in {0, 1} /\ up' \in BOOLEAN /\ (~up' => lpMode' = 1)
        /\ losing' = losing /\ fixing' = fixing
    BY <2>1 DEF Finds, Configs
  <2>3. tx' \in Seq(Messages)
    <3>1. <<>> \in Seq(Messages)
      OBVIOUS
    <3>2. \A c \in Configs : <<c>> \in Seq(Messages)
      BY DEF Messages
    <3> QED
      BY <2>2, <3>1, <3>2, Zenon
  <2>4. FixNowTypeOK'
    BY <1>2, <2>1, <2>2, <2>3, Zenon DEF FixNowIInv, FixNowTypeOK
  <2>5. MainFirst'
    <3>1. Range(done') # {}
      BY <2>1
    <3>2. status' = "running" => done' = <<>>
      BY DEF IInv, StillRunning
    <3>3. Range(<<>>) = {}
      BY DEF Range
    <3> QED
      BY <1>4, <3>1, <3>2, <3>3 DEF MainFirst
  <2>6. SleepsInFixNow' /\ PutToSleep'
    BY <1>1, <2>1, <2>2 DEF SleepsInFixNow, PutToSleep
  <2>7. NotYetWoken'
    <3>1. \A c : Len(<<c>>) = 1 /\ <<c>>[1] = c
      OBVIOUS
    <3>2. tx' = <<>> \/ (Len(tx') = 1 /\ tx'[1] \in Configs)
      BY <2>2, <3>1
    <3>3. UNCHANGED Configs
      BY DEF Configs, CFG_RXM
    <3> QED
      BY <3>2, <3>3 DEF NotYetWoken
  <2>8. WokenUp'
    BY <2>1 DEF WokenUp, mode
  <2> QED
    BY <2>4, <2>5, <2>6, <2>7, <2>8 DEF FixNowIInv
<1> QED
  BY <1>3, <1>4

(* fixnow's own steps.                                                     *)
LEMMA Numbers ==
    /\ WAKEUP_FFS \in Nat /\ WakingLoss \in Nat
    /\ 1 <= WakingLoss /\ WakingLoss <= WAKEUP_FFS
BY WakingAssumption

LEMMA WriteSequenceStep == FixNowIInv /\ WriteSequence => FixNowIInv'
<1> SUFFICES ASSUME FixNowIInv, WriteSequence PROVE FixNowIInv'
  OBVIOUS
<1>1. /\ at = "seq" /\ at' = "cfg" /\ wrote' \in 0 .. WAKEUP_FFS + 1
      /\ tx' = tx \o SubSeq(WAKEUP_SEQ, 1, wrote')
      /\ UNCHANGED <<vars, lpMode, up, losing, fixing>>
  BY WakeUpSequence DEF WriteSequence, receiver
<1>2. tx \in Seq(Messages) /\ losing \in 0 .. WakingLoss
  BY DEF FixNowIInv, FixNowTypeOK
<1> DEFINE s == SubSeq(WAKEUP_SEQ, 1, wrote')
<1>3. s \in Seq(Messages)
  <2>1. \A i \in 1 .. wrote' : WAKEUP_SEQ[i] \in Messages
    BY <1>1, Numbers, WakeUpSequence, ElementOfSeq
  <2> QED
    BY <1>1, <2>1, Numbers, SubSeqProperties
<1>4. FixNowTypeOK'
  <2>1. tx' \in Seq(Messages)
    BY <1>1, <1>2, <1>3, ConcatProperties
  <2>2. wrote' \in 0 .. Len(WAKEUP_SEQ)
    BY <1>1, WakeUpSequence
  <2> QED
    BY <1>1, <2>1, <2>2, Zenon DEF FixNowIInv, FixNowTypeOK
<1>5. MainFirst' /\ SleepsInFixNow' /\ PutToSleep' /\ NotYetWoken'
  BY <1>1
  DEF FixNowIInv, MainFirst, SleepsInFixNow, PutToSleep, NotYetWoken, vars
<1>6. WokenUp'
  <2> SUFFICES ASSUME wrote' = WAKEUP_FFS + 1 PROVE Reaching(Len(tx))'
    BY <1>1, WakeUpSequence DEF WokenUp
  <2>1. /\ s = WAKEUP_SEQ /\ Len(s) = WAKEUP_FFS + 1
        /\ \A i \in 1 .. WAKEUP_FFS : s[i] = FF
        /\ s[WAKEUP_FFS + 1] = POSREQ
    BY WakeUpSequence, SubSeqFull
  <2> HIDE DEF s
  <2>2. /\ Len(tx') = Len(tx) + WAKEUP_FFS + 1
        /\ \A i \in 1 .. Len(tx) + WAKEUP_FFS + 1 :
               tx'[i] = IF i <= Len(tx) THEN tx[i] ELSE s[i - Len(tx)]
    <3>1. tx' = tx \o s
      BY <1>1 DEF s
    <3>2. /\ Len(tx \o s) = Len(tx) + Len(s)
          /\ \A i \in 1 .. Len(tx) + Len(s) :
                 (tx \o s)[i] = IF i <= Len(tx) THEN tx[i] ELSE s[i - Len(tx)]
      BY <1>2, <1>3, ConcatProperties
    <3>3. Len(tx) + Len(s) = Len(tx) + WAKEUP_FFS + 1
      BY <1>2, <2>1, Numbers, LenProperties
    <3> QED
      BY <3>1, <3>2, <3>3
  <2>3. CASE tx = <<>>
    <3>1. Len(tx) = 0
      BY <2>3
    <3>2. /\ tx'[WAKEUP_FFS + 1] = POSREQ /\ tx'[1] = FF
          /\ \A i \in 2 .. WAKEUP_FFS : tx'[i] = FF
      BY <2>1, <2>2, <3>1, Numbers
    <3> QED
      BY <1>1, <1>2, <2>2, <3>1, <3>2, Numbers, MessageKinds DEF Reaching
  <2>4. CASE Len(tx) = 1 /\ tx[1] \in Configs
    <3>1. /\ tx'[WAKEUP_FFS + 2] = POSREQ /\ tx'[1] \in Configs
          /\ \A i \in 2 .. WAKEUP_FFS + 1 : tx'[i] = FF
      BY <2>1, <2>2, <2>4, Numbers
    <3> QED
      BY <1>1, <1>2, <2>2, <2>4, <3>1, Numbers DEF Reaching
  <2> QED
    BY <1>1, <2>3, <2>4 DEF FixNowIInv, NotYetWoken
<1> QED
  BY <1>4, <1>5, <1>6 DEF FixNowIInv

LEMMA WriteConfigStep == FixNowIInv /\ WriteConfig => FixNowIInv'
<1> SUFFICES ASSUME FixNowIInv, WriteConfig PROVE FixNowIInv'
  OBVIOUS
<1>1. /\ at = "cfg" /\ at' = "return" /\ tx' = Append(tx, CFG_RXM(mode))
      /\ UNCHANGED <<vars, wrote, lpMode, up, losing, fixing>>
  BY DEF WriteConfig, receiver
<1>2. mode \in {0, 1} /\ mode' = mode
  BY <1>1 DEF mode, vars
<1>3. tx \in Seq(Messages) /\ CFG_RXM(mode) \in Messages
  BY <1>2, MessageKinds DEF FixNowIInv, FixNowTypeOK, Messages
<1>4. /\ tx' \in Seq(Messages) /\ tx' # <<>> /\ Len(tx') = Len(tx) + 1
      /\ \A i \in 1 .. Len(tx) : tx'[i] = tx[i]
      /\ Last(tx') = CFG_RXM(mode) /\ Len(tx) \in Nat
  BY <1>1, <1>3, AppendProperties, LenProperties DEF Last
<1>5. FixNowTypeOK'
  BY <1>1, <1>4, Zenon DEF FixNowIInv, FixNowTypeOK
<1>6. MainFirst' /\ SleepsInFixNow' /\ NotYetWoken'
  BY <1>1 DEF FixNowIInv, MainFirst, SleepsInFixNow, NotYetWoken, vars
<1>7. PutToSleep'
  BY <1>2, <1>4 DEF PutToSleep
<1>8. WokenUp'
  <2> SUFFICES ASSUME mode = 0, wrote = Len(WAKEUP_SEQ)
               PROVE  \/ Reaching(Len(tx) - 1)'
                      \/ tx' = <<CFG_RXM(0)>> /\ up' /\ losing' = 0
    BY <1>1, <1>2, <1>4 DEF WokenUp
  <2>1. CASE Reaching(Len(tx))
    BY <1>1, <1>4, <2>1 DEF Reaching
  <2>2. CASE tx = <<>> /\ up /\ losing = 0 /\ fixing
    BY <1>1, <2>2
  <2> QED
    BY <1>1, <2>1, <2>2 DEF FixNowIInv, WokenUp
<1> QED
  BY <1>5, <1>6, <1>7, <1>8 DEF FixNowIInv

LEMMA PanicStep == FixNowIInv /\ Panic => FixNowIInv'
<1> SUFFICES ASSUME FixNowIInv, Panic PROVE FixNowIInv'
  OBVIOUS
<1>1. /\ at = "cfg" /\ at' = "panic"
      /\ UNCHANGED <<vars, wrote, tx, lpMode, up, losing, fixing>>
  BY DEF Panic, receiver
<1>2. FixNowTypeOK'
  BY <1>1, Zenon DEF FixNowIInv, FixNowTypeOK
<1>3. MainFirst' /\ SleepsInFixNow' /\ PutToSleep' /\ NotYetWoken' /\ WokenUp'
  BY <1>1 DEF FixNowIInv, MainFirst, SleepsInFixNow, PutToSleep, NotYetWoken,
              WokenUp, vars
<1> QED
  BY <1>2, <1>3 DEF FixNowIInv

-----------------------------------------------------------------------------
(* The receiver's steps.                                                   *)
LEMMA TailOfLine ==
    ASSUME tx \in Seq(Messages), tx # <<>>
    PROVE  /\ Len(tx) \in Nat /\ Len(tx) >= 1 /\ Head(tx) = tx[1]
           /\ Head(tx) \in Messages
           /\ Tail(tx) \in Seq(Messages) /\ Len(Tail(tx)) = Len(tx) - 1
           /\ \A i \in 1 .. Len(tx) - 1 : Tail(tx)[i] = tx[i + 1]
           /\ Tail(tx) = <<>> <=> Len(tx) = 1
           /\ Len(tx) > 1 => Last(Tail(tx)) = Last(tx)
<1>1. /\ Head(tx) \in Messages /\ Tail(tx) \in Seq(Messages)
      /\ Len(Tail(tx)) = Len(tx) - 1
      /\ \A i \in 1 .. Len(Tail(tx)) : Tail(tx)[i] = tx[i + 1]
  BY HeadTailProperties
<1>2. Len(tx) \in Nat /\ Len(tx) >= 1
  BY EmptySeq
<1>3. Head(tx) = tx[1]
  OBVIOUS
<1>4. Tail(tx) = <<>> <=> Len(tx) = 1
  <2> DEFINE t == Tail(tx)
  <2>1. t \in Seq(Messages) /\ Len(t) = Len(tx) - 1
    BY <1>1
  <2> HIDE DEF t
  <2>2. t = <<>> <=> Len(t) = 0
    BY <2>1, EmptySeq
  <2> QED
    BY <1>2, <2>1, <2>2 DEF t
<1>5. Len(tx) > 1 => Last(Tail(tx)) = Last(tx)
  BY <1>1, <1>2 DEF Last
<1> QED
  BY <1>1, <1>2, <1>3, <1>4, <1>5

LEMMA WakeUpStep == FixNowIInv /\ WakeUp => FixNowIInv'
<1> SUFFICES ASSUME FixNowIInv, WakeUp PROVE FixNowIInv'
  OBVIOUS
<1>1. /\ ~up /\ tx # <<>> /\ up' = TRUE /\ losing' \in 1 .. WakingLoss
      /\ UNCHANGED <<vars, at, wrote, tx, lpMode, fixing>>
  BY DEF WakeUp
<1>2. FixNowTypeOK'
  <2>1. losing' \in 0 .. WakingLoss /\ up' \in BOOLEAN
    BY <1>1, Numbers
  <2> QED
    BY <1>1, <2>1, Zenon DEF FixNowIInv, FixNowTypeOK
<1>3. MainFirst' /\ SleepsInFixNow' /\ PutToSleep' /\ NotYetWoken'
  BY <1>1 DEF FixNowIInv, MainFirst, SleepsInFixNow, PutToSleep, NotYetWoken,
              mode, vars
<1>4. \A p \in Int : Reaching(p) => Reaching(p)'
  BY <1>1, Numbers DEF Reaching
<1>5. WokenUp'
  <2> SUFFICES ASSUME mode = 0, wrote = Len(WAKEUP_SEQ)
               PROVE  /\ at = "cfg" => Reaching(Len(tx))'
                      /\ at = "return" => /\ Last(tx) = CFG_RXM(0)
                                         /\ Reaching(Len(tx) - 1)'
    BY <1>1 DEF WokenUp, mode, vars
  <2>1. /\ at = "cfg" => Reaching(Len(tx))
        /\ at = "return" => Last(tx) = CFG_RXM(0) /\ Reaching(Len(tx) - 1)
    BY <1>1 DEF FixNowIInv, WokenUp
  <2>2. Len(tx) \in Nat
    BY LenProperties DEF FixNowIInv, FixNowTypeOK
  <2>3. \A p \in Int : Reaching(p) => Reaching(p)'
    BY <1>4
  <2> QED
    BY <1>1, <2>1, <2>2, <2>3
<1> QED
  BY <1>2, <1>3, <1>5 DEF FixNowIInv

LEMMA LoseStep == FixNowIInv /\ Lose => FixNowIInv'
<1> SUFFICES ASSUME FixNowIInv, Lose PROVE FixNowIInv'
  OBVIOUS
<1>1. /\ up /\ losing > 0 /\ tx # <<>> /\ tx' = Tail(tx)
      /\ losing' = IF tx[1] = FF THEN losing - 1 ELSE 0
      /\ UNCHANGED <<vars, at, wrote, lpMode, up, fixing>>
  BY DEF Lose
<1>2. tx \in Seq(Messages) /\ losing \in 0 .. WakingLoss /\ losing' \in 0 .. WakingLoss
  BY <1>1, Numbers DEF FixNowIInv, FixNowTypeOK
<1>3. /\ tx' \in Seq(Messages) /\ Len(tx) \in Nat /\ Len(tx) >= 1
      /\ Len(tx') = Len(tx) - 1 /\ \A i \in 1 .. Len(tx) - 1 : tx'[i] = tx[i + 1]
      /\ tx' = <<>> <=> Len(tx) = 1
      /\ Len(tx) > 1 => Last(tx') = Last(tx)
  BY <1>1, <1>2, TailOfLine
<1>4. FixNowTypeOK'
  BY <1>1, <1>2, <1>3, Zenon DEF FixNowIInv, FixNowTypeOK
<1>5. MainFirst' /\ SleepsInFixNow'
  BY <1>1 DEF FixNowIInv, MainFirst, SleepsInFixNow, vars
<1>6. PutToSleep' /\ NotYetWoken'
  BY <1>1, <1>3
  DEF FixNowIInv, SleepsInFixNow, PutToSleep, NotYetWoken, mode, vars
<1>7. ASSUME NEW p \in Int, Reaching(p)
      PROVE  p > 1 /\ Reaching(p - 1)'
  BY <1>1, <1>2, <1>3, <1>7, Numbers, MessageKinds DEF Reaching
<1>8. ASSUME mode = 0, wrote = Len(WAKEUP_SEQ), at = "cfg"
      PROVE  Reaching(Len(tx))'
  <2>1. Reaching(Len(tx))
    BY <1>1, <1>8 DEF FixNowIInv, WokenUp
  <2>2. PICK p \in Int : p = Len(tx)
    BY <1>3
  <2>3. Reaching(p - 1)'
    BY <1>7, <2>1, <2>2
  <2> QED
    BY <1>3, <2>2, <2>3 DEF Reaching
<1>9. ASSUME mode = 0, wrote = Len(WAKEUP_SEQ), at = "return"
      PROVE  tx' # <<>> /\ Last(tx') = CFG_RXM(0) /\ Reaching(Len(tx) - 1)'
  <2>1. Reaching(Len(tx) - 1) /\ Last(tx) = CFG_RXM(0)
    BY <1>1, <1>9 DEF FixNowIInv, WokenUp
  <2>2. PICK p \in Int : p = Len(tx) - 1
    BY <1>3
  <2>3. p > 1 /\ Reaching(p - 1)'
    BY <1>7, <2>1, <2>2
  <2>4. tx' # <<>> /\ Last(tx') = CFG_RXM(0)
    BY <1>3, <2>1, <2>2, <2>3
  <2> QED
    BY <1>3, <2>2, <2>3, <2>4 DEF Reaching
<1>10. WokenUp'
  BY <1>1, <1>8, <1>9 DEF WokenUp, mode, vars
<1> QED
  BY <1>4, <1>5, <1>6, <1>10 DEF FixNowIInv

LEMMA ObeyStep == FixNowIInv /\ Obey => FixNowIInv'
<1> SUFFICES ASSUME FixNowIInv, Obey PROVE FixNowIInv'
  OBVIOUS
<1>1. /\ up /\ losing = 0 /\ tx # <<>> /\ tx' = Tail(tx)
      /\ lpMode' = IF Head(tx).id = "CFG_RXM" THEN Head(tx).lpMode ELSE lpMode
      /\ fixing' = (fixing \/ Head(tx) = POSREQ)
      /\ UNCHANGED <<vars, at, wrote, up, losing>>
  BY DEF Obey
<1>2. tx \in Seq(Messages) /\ lpMode \in {0, 1}
  BY DEF FixNowIInv, FixNowTypeOK
<1>3. /\ tx' \in Seq(Messages) /\ Len(tx) \in Nat /\ Len(tx) >= 1
      /\ Len(tx') = Len(tx) - 1 /\ \A i \in 1 .. Len(tx) - 1 : tx'[i] = tx[i + 1]
      /\ tx' = <<>> <=> Len(tx) = 1
      /\ Len(tx) > 1 => Last(tx') = Last(tx)
      /\ Head(tx) = tx[1] /\ Head(tx) \in Messages
  BY <1>1, <1>2, TailOfLine
<1>4. FixNowTypeOK'
  <2>1. lpMode' \in {0, 1}
    BY <1>1, <1>2, <1>3, MessageKinds DEF Messages
  <2>2. fixing' \in BOOLEAN
    BY <1>1
  <2> QED
    BY <1>1, <1>3, <2>1, <2>2, Zenon DEF FixNowIInv, FixNowTypeOK
<1>5. MainFirst' /\ SleepsInFixNow'
  BY <1>1 DEF FixNowIInv, MainFirst, SleepsInFixNow, vars
<1>6. PutToSleep' /\ NotYetWoken'
  <2>1. NotYetWoken'
    BY <1>1, <1>3 DEF FixNowIInv, NotYetWoken
  <2>2. ASSUME at = "return", mode = 1
        PROVE  IF tx' = <<>> THEN lpMode' = 1 ELSE Last(tx') = CFG_RXM(1)
    <3>1. Last(tx) = CFG_RXM(1)
      BY <1>1, <2>2 DEF FixNowIInv, PutToSleep
    <3>2. CASE Len(tx) = 1
      <4>1. Head(tx) = CFG_RXM(1)
        BY <1>3, <3>1, <3>2 DEF Last
      <4> QED
        BY <1>1, <1>3, <3>2, <4>1, MessageKinds
    <3>3. CASE Len(tx) # 1
      BY <1>3, <3>1, <3>3
    <3> QED
      BY <3>2, <3>3
  <2>3. PutToSleep'
    BY <1>1, <2>2 DEF PutToSleep, mode, vars
  <2> QED
    BY <2>1, <2>3
<1>7. ASSUME NEW p \in Int, Reaching(p), p > 1
      PROVE  Reaching(p - 1)'
  BY <1>1, <1>2, <1>3, <1>7, Numbers, MessageKinds DEF Reaching
<1>8. ASSUME mode = 0, wrote = Len(WAKEUP_SEQ), at = "cfg"
      PROVE  \/ Reaching(Len(tx))'
             \/ tx' = <<>> /\ up' /\ losing' = 0 /\ fixing'
  <2>1. Reaching(Len(tx))
    BY <1>1, <1>8 DEF FixNowIInv, WokenUp
  <2>2. PICK p \in Int : p = Len(tx)
    BY <1>3
  <2>3. CASE p > 1
    <3>1. Reaching(p - 1)'
      BY <1>7, <2>1, <2>2, <2>3
    <3> QED
      BY <1>3, <2>2, <3>1 DEF Reaching
  <2>4. CASE p = 1
    <3>1. tx' = <<>> /\ Head(tx) = POSREQ
      BY <1>3, <2>1, <2>2, <2>4 DEF Reaching
    <3> QED
      BY <1>1, <3>1
  <2> QED
    BY <1>3, <2>2, <2>3, <2>4
<1>9. ASSUME mode = 0, wrote = Len(WAKEUP_SEQ), at = "return"
      PROVE  \/ tx' # <<>> /\ Last(tx') = CFG_RXM(0) /\ Reaching(Len(tx) - 1)'
             \/ tx' = <<CFG_RXM(0)>> /\ up' /\ losing' = 0
             \/ tx' = <<>> /\ lpMode' = 0
  <2>1. CASE Last(tx) = CFG_RXM(0) /\ Reaching(Len(tx) - 1)
    <3>1. PICK p \in Int : p = Len(tx) - 1
      BY <1>3
    <3>2. p >= 1 /\ tx' # <<>> /\ Last(tx') = CFG_RXM(0)
      BY <1>3, <2>1, <3>1 DEF Reaching
    <3>3. CASE p > 1
      <4>1. Reaching(p - 1)'
        BY <1>7, <2>1, <3>1, <3>3
      <4> QED
        BY <1>3, <3>1, <3>2, <4>1 DEF Reaching
    <3>4. CASE p = 1
      <4>1. Len(tx') = 1 /\ tx'[1] = CFG_RXM(0)
        BY <1>3, <3>1, <3>2, <3>4 DEF Last
      <4>2. tx' = <<CFG_RXM(0)>>
        BY <1>3, <4>1
      <4> QED
        BY <1>1, <4>2
    <3> QED
      BY <3>2, <3>3, <3>4
  <2>2. CASE tx = <<CFG_RXM(0)>>
    <3>1. tx' = <<>> /\ Head(tx) = CFG_RXM(0)
      BY <1>1, <2>2
    <3> QED
      BY <1>1, <3>1, MessageKinds
  <2> QED
    BY <1>1, <1>9, <2>1, <2>2 DEF FixNowIInv, WokenUp
<1>10. WokenUp'
  BY <1>1, <1>8, <1>9 DEF WokenUp, mode, vars
<1> QED
  BY <1>4, <1>5, <1>6, <1>10 DEF FixNowIInv

LEMMA FixStep == FixNowIInv /\ Fix => FixNowIInv'
<1> SUFFICES ASSUME FixNowIInv, Fix PROVE FixNowIInv'
  OBVIOUS
<1>1. /\ fixing /\ at \notin {"seq", "cfg"} /\ fixing' = FALSE
      /\ UNCHANGED <<vars, at, wrote, tx, lpMode, up, losing>>
  BY DEF Fix
<1>2. FixNowTypeOK'
  BY <1>1, Zenon DEF FixNowIInv, FixNowTypeOK
<1>3. MainFirst' /\ SleepsInFixNow' /\ PutToSleep' /\ NotYetWoken' /\ WokenUp'
  BY <1>1 DEF FixNowIInv, MainFirst, SleepsInFixNow, PutToSleep, NotYetWoken,
              WokenUp, Reaching, mode, vars
<1> QED
  BY <1>2, <1>3 DEF FixNowIInv

LEMMA FallAsleepStep == FixNowIInv /\ FallAsleep => FixNowIInv'
<1> SUFFICES ASSUME FixNowIInv, FallAsleep PROVE FixNowIInv'
  OBVIOUS
<1>1. /\ at # "main" /\ lpMode = 1 /\ ~fixing /\ tx = <<>>
      /\ up' = FALSE /\ up' \in BOOLEAN /\ losing' = 0
      /\ UNCHANGED <<vars, at, wrote, tx, lpMode, fixing>>
  BY DEF FallAsleep
<1>2. FixNowTypeOK'
  <2>1. losing' \in 0 .. WakingLoss
    BY <1>1, Numbers
  <2> QED
    BY <1>1, <2>1, Zenon DEF FixNowIInv, FixNowTypeOK
<1>3. MainFirst' /\ SleepsInFixNow' /\ PutToSleep' /\ NotYetWoken'
  BY <1>1 DEF FixNowIInv, MainFirst, SleepsInFixNow, PutToSleep, NotYetWoken,
              mode, vars
<1>4. WokenUp'
  <2>1. ~Reaching(Len(tx))
    BY <1>1 DEF Reaching
  <2> QED
    BY <1>1, <2>1 DEF FixNowIInv, WokenUp, mode, vars
<1> QED
  BY <1>2, <1>3, <1>4 DEF FixNowIInv

LEMMA FixNowStep ==
    IInv' /\ FixNowIInv /\ [FixNowNext]_all_vars => FixNowIInv'
<1>1. FixNowIInv /\ UNCHANGED all_vars => FixNowIInv'
  <2> SUFFICES ASSUME FixNowIInv, UNCHANGED all_vars PROVE FixNowIInv'
    OBVIOUS
  <2>1. UNCHANGED <<vars, at, wrote, tx, lpMode, up, losing, fixing>>
    BY DEF all_vars, fix_vars, receiver
  <2>2. FixNowTypeOK'
    BY <2>1, Zenon DEF FixNowIInv, FixNowTypeOK
  <2>3. MainFirst' /\ SleepsInFixNow' /\ PutToSleep' /\ NotYetWoken' /\ WokenUp'
    BY <2>1 DEF FixNowIInv, MainFirst, SleepsInFixNow, PutToSleep, NotYetWoken,
                WokenUp, Reaching, mode, vars
  <2> QED
    BY <2>2, <2>3 DEF FixNowIInv
<1> QED
  BY <1>1, MainStep, WriteSequenceStep, WriteConfigStep, PanicStep, WakeUpStep,
     LoseStep, ObeyStep, FixStep, FallAsleepStep DEF FixNowNext, Receiver

(* With everything delivered, the receiver is in the mode the command asks *)
(* for, whatever state it was in when the process began, as long as the    *)
(* wake-up sequence was written whole and has at least as many FFs as the  *)
(* receiver can lose (Commanded; c/fixnow.h:12-34).                        *)
THEOREM ReceiverIsCommanded == FixNowSpec => []Commanded
<1>1. FixNowIInv => Commanded
  <2> SUFFICES ASSUME FixNowIInv, at = "return", tx = <<>>,
                      mode = 0 => wrote = Len(WAKEUP_SEQ)
               PROVE  lpMode = mode
    BY DEF Commanded
  <2>1. CASE mode = 1
    BY <2>1 DEF FixNowIInv, PutToSleep
  <2>2. CASE mode = 0
    <3>1. tx # <<CFG_RXM(0)>>
      OBVIOUS
    <3> QED
      BY <2>2, <3>1 DEF FixNowIInv, WokenUp
  <2> QED
    BY <2>1, <2>2 DEF mode
<1>2. Spec => []IInv
  BY ArgsInvariant
<1> QED
  BY <1>1, <1>2, FixNowIsMain, FixNowStarts, FixNowStep, PTL DEF FixNowSpec

=============================================================================
