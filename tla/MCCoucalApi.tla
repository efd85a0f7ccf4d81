---------------------------- MODULE MCCoucalApi ------------------------------
(***************************************************************************)
(* Small instances of CoucalApi for TLC: the hash pairs of MCCoucal.       *)
(***************************************************************************)
EXTENDS CoucalApi, MCCoucal
==============================================================================
