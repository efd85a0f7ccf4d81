---------------------------- MODULE MCCoucalPool -----------------------------
(***************************************************************************)
(* Small instances of CoucalPool for TLC.                                  *)
(***************************************************************************)
EXTENDS CoucalPool

CONSTANTS empty, ab, b, cde  \* the keys

Pair(h1, h2) == [hash1 |-> h1, hash2 |-> h2]

(* All keys share both positions: with all of them stored, two names are  *)
(* in the table and two in the stash.                                      *)
PoolHashers == {[k \in Key |-> Pair(0, 1)]}

(* strlen() + 1: the empty string, "ab", "b", which is its tail, "cde" *)
PoolSizes ==
  [k \in Key |-> CASE k = empty -> 1 [] k = b -> 2 [] k = ab -> 3 [] k = cde -> 4]
PoolTails == {<<ab, b>>}
==============================================================================
