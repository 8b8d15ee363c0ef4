------------------------------ MODULE MCPyLoad ------------------------------
(***************************************************************************)
(* Small instances of PyLoad: any dictionary, also one no dump would save, *)
(* and a dump that was cut.                                                *)
(***************************************************************************)
EXTENDS PyLoad

MCOthers == {[id |-> "Known"], [id |-> "Unknown"]}

MCFiles == [is : {"saved"}, data : Dictionaries] \cup [is : {"cut"}]

=============================================================================
