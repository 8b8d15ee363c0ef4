------------------------------- MODULE FixNow -------------------------------
(***************************************************************************)
(* gta02-gps --sleep and --wake-up: main as in Args, and then fixnow       *)
(* (c/fixnow.h), which puts the receiver into its FixNow mode or wakes it  *)
(* up from it.  Nothing is read: the process ends when it has written.     *)
(*                                                                         *)
(* The receiver is external, and as fixnow.h takes it to be: in FixNow     *)
(* mode it goes to sleep whenever it has nothing to do; asleep it is woken *)
(* by what comes in, but loses that until it is up; up it takes commands   *)
(* in order, and stays up for a position it has been asked for.            *)
(***************************************************************************)
EXTENDS Args

CONSTANTS
    WAKEUP_FFS,  (* bytes FF ahead of the message in WAKEUP_SEQ: 8         *)
    WakingLoss   (* the most bytes a receiver loses while it wakes up      *)

ASSUME WakingAssumption ==
    WAKEUP_FFS \in Nat /\ WakingLoss \in 1 .. WAKEUP_FFS

VARIABLES
    at,       (* where fixnow is                                           *)
    wrote,    (* how much of WAKEUP_SEQ write() took                       *)
    tx,       (* what is on its way to the receiver                        *)
    lpMode,   (* the receiver's mode: 0 tracks continuously, 1 is FixNow   *)
    up,       (* it is not asleep                                          *)
    losing,   (* how much it will still lose of what comes in              *)
    fixing    (* it has been asked for a position                          *)

receiver == <<lpMode, up, losing, fixing>>
fix_vars == <<at, wrote, tx, receiver>>
all_vars == <<vars, fix_vars>>

CFG_RXM(lp) == [id |-> "CFG_RXM", lpMode |-> lp]
FF == [id |-> "FF"]
POSREQ == [id |-> "RXM_POSREQ"]

(* Faulty variant: the receiver is woken, and not kept awake.              *)
OnlyFFs == [i \in 1 .. WAKEUP_FFS |-> FF]

(* Eight bytes FF, then the empty RXM-POSREQ.                              *)
WAKEUP_SEQ == [i \in 1 .. WAKEUP_FFS |-> FF] \o <<POSREQ>>

FixNowInit ==
    /\ Init
    /\ at = "main" /\ wrote = 0 /\ tx = <<>>
    /\ lpMode = 0 /\ up = TRUE /\ losing = 0 /\ fixing = FALSE

(* External: the receiver as the command finds it.  An earlier process may *)
(* have left it in either mode, and something on the line.                 *)
Finds ==
    /\ tx' \in {<<>>, <<CFG_RXM(0)>>, <<CFG_RXM(1)>>}
    /\ lpMode' \in {0, 1}
    /\ up' \in (IF lpMode' = 0 THEN {TRUE} ELSE BOOLEAN)
    /\ UNCHANGED <<losing, fixing>>

(* main, up to the call of fixnow_sleep or fixnow_wake_up.                 *)
Main ==
    /\ Next
    /\ at' = CASE "--sleep" \in Range(done')   -> "cfg"
              [] "--wake-up" \in Range(done') -> "seq"
              [] OTHER                        -> "main"
    /\ IF at' = "main" THEN UNCHANGED <<tx, receiver>> ELSE Finds
    /\ UNCHANGED wrote

(* enable: what the command asks for.                                      *)
mode == IF "--sleep" \in Range(done) THEN 1 ELSE 0

(* write of WAKEUP_SEQ, whose result is not looked at.                     *)
WriteSequence ==
    /\ at = "seq"
    /\ wrote' \in 0 .. Len(WAKEUP_SEQ)
    /\ tx' = tx \o SubSeq(WAKEUP_SEQ, 1, wrote')
    /\ at' = "cfg"
    /\ UNCHANGED <<vars, receiver>>

(* ubx_write of the CFG-RXM.                                               *)
WriteConfig ==
    /\ at = "cfg"
    /\ tx' = Append(tx, CFG_RXM(mode))
    /\ at' = "return"
    /\ UNCHANGED <<vars, wrote, receiver>>

(* panic: ubx_write comes short.                                           *)
Panic ==
    /\ at = "cfg"
    /\ at' = "panic"
    /\ UNCHANGED <<vars, wrote, tx, receiver>>

-----------------------------------------------------------------------------
(* External: what comes in wakes the receiver, ...                         *)
WakeUp ==
    /\ ~up /\ tx # <<>>
    /\ up' = TRUE
    /\ losing' \in 1 .. WakingLoss
    /\ UNCHANGED <<vars, at, wrote, tx, lpMode, fixing>>

(* ... which loses it; a message of which it lost a byte is lost, and ends *)
(* the loss.                                                               *)
Lose ==
    /\ up /\ losing > 0 /\ tx # <<>>
    /\ tx' = Tail(tx)
    /\ losing' = IF Head(tx) = FF THEN losing - 1 ELSE 0
    /\ UNCHANGED <<vars, at, wrote, lpMode, up, fixing>>

(* Up, it takes what comes in.                                             *)
Obey ==
    /\ up /\ losing = 0 /\ tx # <<>>
    /\ tx' = Tail(tx)
    /\ lpMode' = IF Head(tx).id = "CFG_RXM" THEN Head(tx).lpMode ELSE lpMode
    /\ fixing' = (fixing \/ Head(tx) = POSREQ)
    /\ UNCHANGED <<vars, at, wrote, up, losing>>

(* It has its position; that takes longer than fixnow's two writes.        *)
Fix ==
    /\ fixing /\ at \notin {"seq", "cfg"}
    /\ fixing' = FALSE
    /\ UNCHANGED <<vars, at, wrote, tx, lpMode, up, losing>>

FallAsleep ==
    /\ at # "main" /\ up /\ lpMode = 1 /\ ~fixing /\ tx = <<>>
    /\ up' = FALSE /\ losing' = 0
    /\ UNCHANGED <<vars, at, wrote, tx, lpMode, fixing>>

Receiver == WakeUp \/ Lose \/ Obey \/ Fix \/ FallAsleep

FixNowNext == Main \/ WriteSequence \/ WriteConfig \/ Panic \/ Receiver

FixNowSpec == FixNowInit /\ [][FixNowNext]_all_vars

(* The receiver takes what comes in.                                       *)
FixNowFairSpec ==
    /\ FixNowSpec
    /\ WF_all_vars(WakeUp) /\ WF_all_vars(Lose) /\ WF_all_vars(Obey)

-----------------------------------------------------------------------------
(* The receiver comes to be in the mode the command asks for, whether it   *)
(* was awake, asleep or about to be when the process began, and whatever   *)
(* an earlier process had left on the line, if the wake-up sequence was    *)
(* written whole (c/fixnow.h:12-34).                                       *)
CommandHolds ==
    at = "return" /\ (mode = 0 => wrote = Len(WAKEUP_SEQ))
        ~> tx = <<>> /\ lpMode = mode

(* "8 times FF and then empty RXM-POSREQ" (c/fixnow.h:12-16): a process    *)
(* that says it wakes the receiver up, and ends normally, does so.         *)
WakesUp ==
    at = "return" /\ tx = <<>> /\ mode = 0 => lpMode = 0

-----------------------------------------------------------------------------
(* What CommandHolds waits for is all that can come of it: once nothing is *)
(* on its way any more, the receiver is in the mode the command asks for.  *)
Commanded ==
    at = "return" /\ tx = <<>> /\ (mode = 0 => wrote = Len(WAKEUP_SEQ))
        => lpMode = mode

(* The inductive invariant.                                                *)
Configs == {CFG_RXM(0), CFG_RXM(1)}
Messages == {FF, POSREQ} \cup Configs

FixNowTypeOK ==
    /\ at \in {"main", "seq", "cfg", "return", "panic"}
    /\ wrote \in 0 .. Len(WAKEUP_SEQ)
    /\ tx \in Seq(Messages)
    /\ lpMode \in {0, 1}
    /\ up \in BOOLEAN /\ fixing \in BOOLEAN
    /\ losing \in 0 .. WakingLoss

(* fixnow comes after main, and before it the receiver is as it starts.    *)
MainFirst ==
    IF at = "main"
    THEN tx = <<>> /\ up /\ losing = 0 /\ ~fixing /\ lpMode = 0
    ELSE status # "running"

(* Only a receiver in FixNow mode sleeps, or is still waking up.           *)
SleepsInFixNow == ~up \/ losing > 0 => lpMode = 1

(* Put to sleep: what it is told last is to be in FixNow mode.             *)
PutToSleep ==
    at = "return" /\ mode = 1 =>
        IF tx = <<>> THEN lpMode = 1 ELSE Last(tx) = CFG_RXM(1)

(* Nothing is ahead of the wake-up sequence but what was on the line.      *)
NotYetWoken ==
    at = "seq" => tx = <<>> \/ (Len(tx) = 1 /\ tx[1] \in Configs)

(* The POSREQ of a wake-up sequence written whole is the pth on the line,  *)
(* behind what an earlier process left there, and enough FFs for what the  *)
(* receiver still loses.                                                   *)
Reaching(p) ==
    /\ p \in 1 .. Len(tx) /\ tx[p] = POSREQ
    /\ \A i \in 2 .. p - 1 : tx[i] = FF
    /\ IF tx[1] \in Configs
       THEN p = WAKEUP_FFS + 2
       ELSE losing < p /\ (~up => p = WAKEUP_FFS + 1) /\ (p > 1 => tx[1] = FF)

(* Woken up: it is awake, and kept awake until it is told to stay.         *)
WokenUp ==
    mode = 0 /\ wrote = Len(WAKEUP_SEQ) =>
        /\ at = "cfg" =>
              \/ Reaching(Len(tx))
              \/ tx = <<>> /\ up /\ losing = 0 /\ fixing
        /\ at = "return" =>
              \/ tx # <<>> /\ Last(tx) = CFG_RXM(0) /\ Reaching(Len(tx) - 1)
              \/ tx = <<CFG_RXM(0)>> /\ up /\ losing = 0
              \/ tx = <<>> /\ lpMode = 0

FixNowIInv ==
    /\ FixNowTypeOK /\ MainFirst /\ SleepsInFixNow
    /\ PutToSleep /\ NotYetWoken /\ WokenUp

=============================================================================
