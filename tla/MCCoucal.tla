------------------------------ MODULE MCCoucal -------------------------------
(***************************************************************************)
(* Small instances of Coucal for TLC.                                      *)
(***************************************************************************)
EXTENDS CoucalProperties, TLC

Pair(h1, h2) == [hash1 |-> h1, hash2 |-> h2]

(* Hash pairs that make the interesting cases happen: two keys may share   *)
(* both positions for ever, swap them, share one, meet only in the         *)
(* smallest table, or have two hashes with the same position.              *)
MCPairs == {Pair(0, 1), Pair(1, 0), Pair(0, 2), Pair(4, 5), Pair(2, 10)}

(* Any key may have any of the pairs. *)
MCHashers == [Key -> MCPairs]

(* Enough to fill the stash and to make every walk, with fewer functions. *)
FewPairs == {Pair(0, 1), Pair(1, 0), Pair(2, 10), Pair(2, 2)}
FewHashers == [Key -> FewPairs]

(* The same positions from hashes that no two keys share: the high part of *)
(* a hash, beyond the largest table, tells the key and the rank.           *)
Rank == CHOOSE r \in [Key -> 1 .. Cardinality(Key)] :
          \A k, l \in Key : r[k] = r[l] => k = l

Apart(base) ==
  [k \in Key |-> Pair(base[k].hash1 + 64 * 2 * Rank[k],
                      base[k].hash2 + 64 * (2 * Rank[k] + 1))]
RoomPairs == {Pair(0, 1), Pair(1, 0), Pair(0, 2), Pair(2, 3), Pair(1, 1)}
RoomHashers == {Apart(base) : base \in [Key -> RoomPairs]}

Symmetry == Permutations(Key)
==============================================================================
