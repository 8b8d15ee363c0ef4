--------------------------- MODULE MCAgpsSession ---------------------------
(***************************************************************************)
(* A small instance of AgpsSession.                                        *)
(***************************************************************************)
EXTENDS AgpsSession

(* An older dump, of one health and one position message.                  *)
MCOldFiles == {<<Full("AID_HUI"), Full("NAV_POSECEF")>>}

=============================================================================
