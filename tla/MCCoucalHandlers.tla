-------------------------- MODULE MCCoucalHandlers ---------------------------
(***************************************************************************)
(* Small instances of CoucalHandlers for TLC.                              *)
(***************************************************************************)
EXTENDS CoucalHandlers, TLC

Pair(h1, h2) == [hash1 |-> h1, hash2 |-> h2]

(* Two hash handlers: under the first every key has the same two positions,*)
(* so that entries are kicked, stashed, drained and merged; under the      *)
(* second they are elsewhere.                                              *)
HandlersHashers == {[k \in Key |-> Pair(0, 1)], [k \in Key |-> Pair(2, 3)]}

Symmetry == Permutations(Key)
==============================================================================
