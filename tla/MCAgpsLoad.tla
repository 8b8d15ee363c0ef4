----------------------------- MODULE MCAgpsLoad -----------------------------
(***************************************************************************)
(* Small instances of AgpsLoad: every file of up to FileMax messages.      *)
(***************************************************************************)
EXTENDS AgpsLoad

CONSTANT FileMax

FileMessages ==
    {Full(id) : id \in {"AID_ALM", "AID_EPH", "AID_HUI", "NAV_POSECEF"}}
        \cup {[id |-> "OTHER", size |-> "empty"]}

MCFiles == UNION {[1 .. n -> FileMessages] : n \in 0 .. FileMax}

=============================================================================
