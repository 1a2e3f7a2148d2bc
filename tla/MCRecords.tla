----------------------------- MODULE MCRecords -----------------------------
(* Instances of Records for TLC: all constants are given in the cfg. *)
EXTENDS Records
=============================================================================
