---------------------------- MODULE MCCoucalHash -----------------------------
(***************************************************************************)
(* Small instances of CoucalHash for TLC.                                  *)
(***************************************************************************)
EXTENDS CoucalHash, Bitwise

CONSTANT Lengths

MCXor(x, y) == x ^^ y

(* keys of low and high bytes in turn, and of high bytes only *)
MCKeys ==
  UNION {{[p \in 1 .. n |-> (p * p + 1) % Byte], [p \in 1 .. n |-> Byte - 1]} :
           n \in Lengths}

(* identical, identical once folded, and different *)
MCDigests == {<<6, 6, 6, 6>>, <<6, 6, 0, 0>>, <<6, 0, 0, 0>>}
==============================================================================
