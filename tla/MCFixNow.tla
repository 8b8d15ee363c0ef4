------------------------------ MODULE MCFixNow ------------------------------
(***************************************************************************)
(* Every command line of up to MaxWords words.                             *)
(***************************************************************************)
EXTENDS FixNow

CONSTANTS MaxWords, Words

MCLines == UNION {[1 .. n -> Words] : n \in 0 .. MaxWords}

=============================================================================
