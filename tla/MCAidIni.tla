------------------------------ MODULE MCAidIni ------------------------------
(***************************************************************************)
(* Small instances of AidIni: days and weeks of a few seconds, and every   *)
(* second of all the weeks a word can count.                               *)
(***************************************************************************)
EXTENDS AidIni

MCMoments ==
    (EPOCH + TIME_ACCURACY) .. (EPOCH + WORD - TIME_ACCURACY - C_LEAPS - 1)

=============================================================================
