---------------------------- MODULE CoucalSizing -----------------------------
(***************************************************************************)
(* The sizes coucal.c computes, in machine arithmetic: the power of two of *)
(* coucal_new(), the doubled table, the mask that turns a hash into a      *)
(* position and the capacity of the string pool.  Coucal and CoucalPool    *)
(* have exact numbers instead: this module shows when that is right.       *)
(***************************************************************************)
EXTENDS Integers

CONSTANTS
  Builds,          \* [size_bits, hash_bits, item_bytes, alloc_bits]: the width of
                   \* size_t, COUCAL_HASH_SIZE, sizeof(coucal_item), and the width
                   \* of the sizes that malloc() and realloc() grant
  MinLgSize,       \* MIN_LG_SIZE
  MinPoolCapacity  \* MIN_POOL_CAPACITY

ASSUME SizingAssumption ==
  /\ Builds \subseteq [size_bits : Nat \ {0}, hash_bits : Nat \ {0},
                       item_bytes : Nat \ {0}, alloc_bits : Nat \ {0}]
  /\ MinLgSize \in Nat \ {0}
  /\ \A b \in Builds : b.alloc_bits <= b.size_bits
  /\ \A b \in Builds : MinLgSize < b.size_bits /\ MinLgSize <= b.hash_bits
  /\ \A b \in Builds : MinPoolCapacity \in 1 .. 2^(b.size_bits - 1) - 1

VARIABLES
  build,      \* how the library was compiled
  pc,
  request,    \* the argument of coucal_new()
  lg_size,
  bytes,      \* the bytes allocated for the items
  shift,      \* the largest amount that POW2() has shifted by
  pool_size,
  pool_capacity,
  len,        \* strlen(name) + 1 of the name to copy
  capacity    \* the local variable of coucal_dup_name_internal()

poolSizes == <<pool_size, pool_capacity, len, capacity>>
sizingVars == <<build, pc, request, lg_size, bytes, shift, poolSizes>>

Modulus == 2^build.size_bits
Size == 0 .. Modulus - 1
Mod(n) == n % Modulus

(* malloc() and realloc() may refuse what a ptrdiff_t cannot measure, or   *)
(* not: C does not say.                                                    *)
MaxBytes == 2^build.alloc_bits - 1

(* POW2(): a shift by the width or more is undefined; bits fall off here,  *)
(* and the amount is remembered.                                           *)
Pow2(x) == Mod(2^x)
Shifts(x) == shift' = IF x > shift THEN x ELSE shift

(* Mutant: the width of a hash does not count.                             *)
IsAcceptablePow2_AnyHash(lg) == lg < build.size_bits

IsAcceptablePow2(lg) == lg <= build.hash_bits /\ lg < build.size_bits

(* the mask of coucal_hash_to_pos_(), converted to a coucal_hashkey *)
Mask(lg) == Mod(Pow2(lg) - 1) % 2^build.hash_bits

SizingInit ==
  /\ build \in Builds
  /\ pc = "null"
  /\ request = 0 /\ lg_size = 0 /\ bytes = 0 /\ shift = 0
  /\ pool_size = 0 /\ pool_capacity = 0 /\ len = 0 /\ capacity = 0

(***************************************************************************)
(* coucal_new()                                                            *)
(***************************************************************************)
SizingNew(n) ==
  /\ pc = "null"
  /\ request' = n
  /\ lg_size' = MinLgSize
  /\ pc' = "pow2"
  /\ UNCHANGED <<build, bytes, shift, poolSizes>>

(* Mutant: POW2() is evaluated first.                                      *)
GetPow2Step_ShiftsFirst ==
  /\ pc = "pow2"
  /\ Shifts(lg_size)
  /\ IF Pow2(lg_size) < request /\ IsAcceptablePow2(lg_size)
     THEN lg_size' = lg_size + 1 /\ UNCHANGED pc
     ELSE pc' = "allocate" /\ UNCHANGED lg_size
  /\ UNCHANGED <<build, request, bytes, poolSizes>>

(* Mutant: a size that is exactly a power of two gets the next one.        *)
GetPow2Step_OneMore ==
  /\ pc = "pow2"
  /\ IF IsAcceptablePow2(lg_size) THEN Shifts(lg_size) ELSE UNCHANGED shift
  /\ IF IsAcceptablePow2(lg_size) /\ Pow2(lg_size) <= request
     THEN lg_size' = lg_size + 1 /\ UNCHANGED pc
     ELSE pc' = "allocate" /\ UNCHANGED lg_size
  /\ UNCHANGED <<build, request, bytes, poolSizes>>

(* Mutant: the largest size is tried again, not given up.                  *)
GetPow2Step_Stays ==
  /\ pc = "pow2"
  /\ Shifts(lg_size)
  /\ IF Pow2(lg_size) < request
     THEN /\ lg_size' = IF IsAcceptablePow2(lg_size + 1) THEN lg_size + 1 ELSE lg_size
          /\ UNCHANGED pc
     ELSE pc' = "allocate" /\ UNCHANGED lg_size
  /\ UNCHANGED <<build, request, bytes, poolSizes>>

(* the loop of coucal_get_pow2(), short-circuit included *)
GetPow2Step ==
  /\ pc = "pow2"
  /\ IF IsAcceptablePow2(lg_size) THEN Shifts(lg_size) ELSE UNCHANGED shift
  /\ IF IsAcceptablePow2(lg_size) /\ Pow2(lg_size) < request
     THEN lg_size' = lg_size + 1 /\ UNCHANGED pc
     ELSE pc' = "allocate" /\ UNCHANGED lg_size
  /\ UNCHANGED <<build, request, bytes, poolSizes>>

(* calloc() multiplies by itself, and refuses a product that is too large *)
AllocateTable ==
  /\ pc = "allocate"
  /\ IsAcceptablePow2(lg_size)
  /\ Shifts(lg_size)
  /\ IF Pow2(lg_size) * build.item_bytes <= MaxBytes
     THEN pc' = "idle" /\ bytes' = Pow2(lg_size) * build.item_bytes
     ELSE pc' = "refused" /\ UNCHANGED bytes
  /\ UNCHANGED <<build, request, lg_size, poolSizes>>

RefuseSize ==
  /\ pc = "allocate"
  /\ ~IsAcceptablePow2(lg_size)
  /\ pc' = "refused"
  /\ UNCHANGED <<build, request, lg_size, bytes, shift, poolSizes>>

(***************************************************************************)
(* The doubling in coucal_write_value().                                   *)
(***************************************************************************)
HalfSize == Pow2(lg_size - 1)
PrevSize == Mod(HalfSize * 2)

(* Mutant: one doubling too late.                                          *)
SizeOverflow_Late == PrevSize > (Modulus - 1) \div build.item_bytes

SizeOverflow == PrevSize > (Modulus - 1) \div (2 * build.item_bytes)
AllocSize == IF SizeOverflow THEN 0 ELSE Mod(Mod(PrevSize * build.item_bytes) * 2)

(* the table is half full: two assertions, then realloc() *)
DoubleTable ==
  /\ pc = "idle"
  /\ Shifts(lg_size - 1)
  /\ lg_size' = lg_size + 1
  /\ IF IsAcceptablePow2(lg_size + 1) /\ ~SizeOverflow /\ AllocSize <= MaxBytes
     THEN bytes' = AllocSize /\ UNCHANGED pc
     ELSE pc' = "aborted" /\ UNCHANGED bytes
  /\ UNCHANGED <<build, request, poolSizes>>

(***************************************************************************)
(* The capacity of the pool, in coucal_dup_name_internal().                *)
(***************************************************************************)

(* A name lies in one block, and the name, the table and the pool are in   *)
(* memory together; the empty string is not copied.                        *)
NameInMemory(n) == n \in 2 .. MaxBytes /\ bytes + pool_capacity + n < Modulus

DupFits(n) ==
  /\ pc = "idle" /\ NameInMemory(n)
  /\ pool_capacity - pool_size >= n
  /\ pool_size' = pool_size + n
  /\ UNCHANGED <<build, pc, request, lg_size, bytes, shift, pool_capacity, len, capacity>>

(* Mutant: the doubling starts from the present capacity.                  *)
DupGrows_FromCapacity(n) ==
  /\ pc = "idle" /\ NameInMemory(n)
  /\ pool_capacity - pool_size < n
  /\ len' = n
  /\ capacity' = pool_capacity
  /\ pc' = "capacity"
  /\ UNCHANGED <<build, request, lg_size, bytes, shift, pool_size, pool_capacity>>

DupGrows(n) ==
  /\ pc = "idle" /\ NameInMemory(n)
  /\ pool_capacity - pool_size < n
  /\ len' = n
  /\ capacity' = MinPoolCapacity
  /\ pc' = "capacity"
  /\ UNCHANGED <<build, request, lg_size, bytes, shift, pool_size, pool_capacity>>

(* Mutant: the room that is left is forgotten.                             *)
Needed_NameOnly == len

Needed == Mod(pool_size + len)

(* capacity <<= 1 *)
CapacityStep ==
  /\ pc = "capacity"
  /\ capacity < Needed
  /\ capacity' = Mod(capacity * 2)
  /\ UNCHANGED <<build, pc, request, lg_size, bytes, shift, pool_size, pool_capacity, len>>

(* realloc(), no hole to compact, and the copy *)
CapacityFound ==
  /\ pc = "capacity"
  /\ capacity >= Needed
  /\ IF pool_size < capacity /\ capacity <= MaxBytes
     THEN pc' = "idle" /\ pool_capacity' = capacity /\ pool_size' = pool_size + len
     ELSE pc' = "aborted" /\ UNCHANGED <<pool_capacity, pool_size>>
  /\ len' = 0 /\ capacity' = 0
  /\ UNCHANGED <<build, request, lg_size, bytes, shift>>

Stopped == pc \in {"refused", "aborted"} /\ UNCHANGED sizingVars

Step ==
  \/ GetPow2Step \/ AllocateTable \/ RefuseSize
  \/ CapacityStep \/ CapacityFound

SizingNext ==
  \/ \E n \in Size : SizingNew(n) \/ DupFits(n) \/ DupGrows(n)
  \/ DoubleTable
  \/ Step
  \/ Stopped

(* A call in progress goes on. *)
SizingSpec == SizingInit /\ [][SizingNext]_sizingVars /\ WF_sizingVars(Step)

-----------------------------------------------------------------------------
(* "POW2() must never shift by the width of size_t": not for any requested *)
(* size, not when the table has reached its largest size.                  *)
ShiftDefined == shift < build.size_bits

(* coucal_new() makes the smallest acceptable table that has the requested *)
(* size, and refuses only when there is none.                              *)
LeastPow2 ==
  pc \in {"allocate", "refused"} =>
    LET enough == {l \in MinLgSize .. build.size_bits :
                     IsAcceptablePow2(l) /\ 2^l >= request}
    IN  IF enough = {} THEN ~IsAcceptablePow2(lg_size)
        ELSE lg_size \in enough /\ \A l \in enough : lg_size <= l

(* "a wrap here would silently under-allocate": the items of the table     *)
(* have all their bytes, after any number of doublings, in any build.      *)
TableAllocated == pc = "idle" => bytes = 2^lg_size * build.item_bytes

(* The mask of a position keeps every bit of the table's size, although it *)
(* is converted to the width of a hash: HashToPos(sz, h) == h % sz.        *)
MaskCoversTable == pc = "idle" => Mask(lg_size) + 1 = 2^lg_size

(* Every string of the pool lies inside its buffer, although the capacity  *)
(* is doubled, and the room needed is added up, modulo the width.          *)
PoolInCapacity == pc = "idle" => pool_size <= pool_capacity

(* The loop that doubles the capacity ends as long as the pool needs no    *)
(* more than half of what a size_t counts: until then it is never at 0,    *)
(* where it would stay, no doubling wraps, and each one enlarges it.       *)
(* Above, see CapacityIsFound.                                             *)
CapacityGrows ==
  /\ [](pc = "capacity" /\ Needed <= Modulus \div 2 => capacity # 0)
  /\ [][CapacityStep /\ Needed <= Modulus \div 2 =>
          capacity' \in capacity + 1 .. Modulus - 1]_sizingVars

(* coucal_new() returns. *)
NewReturns == pc = "pow2" ~> pc \in {"idle", "refused"}

(* coucal_assert(hashtable, hashtable->pool.size < capacity), after the    *)
(* loop: a write that needs a larger pool gets there, with a capacity that *)
(* is large enough, or aborts.                                             *)
CapacityIsFound == pc = "capacity" ~> pc \in {"idle", "aborted"}
==============================================================================
