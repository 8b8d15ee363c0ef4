---------------------------- MODULE MCPyReader -----------------------------
(***************************************************************************)
(* Small instances of PyReader: every stream of as many bytes as Lengths   *)
(* has, with at most MaxHeads heads, of every size in Needs, good or not,  *)
(* at any place.                                                           *)
(***************************************************************************)
EXTENDS PyReader, FiniteSets

CONSTANTS Lengths, MaxHeads, Needs

HeadSets(len) ==
    {H \in SUBSET (0 .. (len - SYNC_SIZE)) :
        /\ Cardinality(H) <= MaxHeads
        /\ \A h \in H : h + 1 \notin H}

MCStreams ==
    UNION {UNION {{[len |-> len, heads |-> H, need |-> n, good |-> g] :
                       n \in [H -> Needs], g \in SUBSET H} :
                  H \in HeadSets(len)} : len \in Lengths}

=============================================================================
