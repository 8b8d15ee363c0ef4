----------------------------- MODULE MCUbxCodec -----------------------------
(***************************************************************************)
(* UbxCodec for TLC: every id of either program, with every payload size   *)
(* either has for it, up to Repeats blocks, and one byte more.             *)
(***************************************************************************)
EXTENDS UbxCodec

CONSTANTS
    Repeats,  (* bound: numbers of blocks in a message                     *)
    Others    (* sizes tried of every message besides                      *)

MCIds == {CLIDPAIR[clid] : clid \in DOMAIN CLIDPAIR}
            \cup {s.id : s \in Structs}

MCSizes(id) ==
    Others
    \cup {f.le : f \in {g \in MSGFMT : CLIDPAIR[g.clid] = id}}
    \cup {v.base_size + k * v.rep_size :
             v \in {w \in MSGFMT_None : CLIDPAIR[w.clid] = id}, k \in Repeats}
    \cup {sizeof(s.base) : s \in {t \in Structs : t.id = id}}

MCFrames ==
    UNION {{[id |-> id, size |-> size + more] :
               size \in MCSizes(id), more \in {0, 1}} : id \in MCIds}

=============================================================================
