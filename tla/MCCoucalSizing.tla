--------------------------- MODULE MCCoucalSizing ----------------------------
(***************************************************************************)
(* Small instances of CoucalSizing for TLC.                                *)
(***************************************************************************)
EXTENDS CoucalSizing

Build(s, h, i, a) ==
  [size_bits |-> s, hash_bits |-> h, item_bytes |-> i, alloc_bits |-> a]

(* hashes narrower than size_t, as wide, and wider; items of one byte, of  *)
(* a power of two and of an odd number of bytes; allocators that refuse    *)
(* the upper half of size_t, and that do not                               *)
SmallBuilds ==
  {Build(s, h, i, a) : s \in {6}, h \in {3, 6, 7}, i \in {1, 3, 4}, a \in {5, 6}}
==============================================================================
