----------------------------- MODULE MCUbxRead -----------------------------
(***************************************************************************)
(* Small instances of UbxRead: every stream of some lengths with at most   *)
(* MaxHeads heads, of every size in Needs, good or not, at any place; and  *)
(* bursts, longer than the buffer, of empty frames, of heads that are none *)
(* and of both.                                                            *)
(***************************************************************************)
EXTENDS UbxRead, FiniteSets

CONSTANTS
    Lengths, MaxHeads, Needs,
    Bursts   (* how many frames, and bare heads, a burst has               *)

HeadSets(len) ==
    {H \in SUBSET (0 .. (len - SYNC_SIZE)) :
        /\ Cardinality(H) <= MaxHeads
        /\ \A h \in H : h + 1 \notin H}

AnyStreams ==
    UNION {UNION {{[len |-> len, heads |-> H, need |-> n, good |-> g] :
                       n \in [H -> Needs], g \in SUBSET H} :
                  H \in HeadSets(len)} : len \in Lengths}

(* Bare heads, then empty frames.                                          *)
Burst(b) ==
    LET false == {SYNC_SIZE * i : i \in 0 .. (b.false - 1)}
        true  == {SYNC_SIZE * b.false + FRAME_SIZE * i : i \in 0 .. (b.true - 1)}
    IN  [len |-> SYNC_SIZE * b.false + FRAME_SIZE * b.true,
         heads |-> false \cup true, good |-> true,
         need |-> [h \in false \cup true |-> FRAME_SIZE]]

MCStreams == AnyStreams \cup {Burst(b) : b \in Bursts}

MCBursts == {[false |-> 0, true |-> 9], [false |-> 7, true |-> 1],
             [false |-> 3, true |-> 5]}

=============================================================================
