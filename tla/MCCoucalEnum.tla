---------------------------- MODULE MCCoucalEnum -----------------------------
(***************************************************************************)
(* Small instances of CoucalEnum for TLC.                                  *)
(***************************************************************************)
EXTENDS CoucalEnum, TLC

Pair(h1, h2) == [hash1 |-> h1, hash2 |-> h2]

(* Keys that share both positions for ever, so that the stash is in use,   *)
(* and one that moves when the table doubles.                              *)
EnumHashers == [Key -> {Pair(0, 1), Pair(4, 0)}]

Symmetry == Permutations(Key)
==============================================================================
