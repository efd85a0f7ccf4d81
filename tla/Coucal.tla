------------------------------- MODULE Coucal --------------------------------
(***************************************************************************)
(* The hashtable of coucal.c: a cuckoo table whose size is a power of two, *)
(* a stash for the items the cuckoo walk could not place, the doubling of  *)
(* the table and the merge of the stash that follows it.                   *)
(*                                                                         *)
(* The program is single threaded.  A call that only looks up, replaces or *)
(* removes is one step.  A call that adds an item is the sequence of steps *)
(* the C code makes - drain the stash, place, walk, stash, count, double,  *)
(* merge, return - one step per loop iteration, with pc as the place in    *)
(* the code; no other call can start before it has returned.               *)
(***************************************************************************)
EXTENDS Integers, FiniteSets

CONSTANTS
  Key,         \* the keys
  ValueMod,    \* 2^w for the w bits of uintptr_t
  IntMod,      \* 2^w for the w bits of int
  TableSizes,  \* POW2(lg_size) for every acceptable lg_size, from MIN_LG_SIZE
  StashSize,   \* STASH_SIZE
  Hashers,     \* the hash handlers: functions from Key to a pair of hashes
  NewSizes,    \* the sizes passed to coucal_new()
  Written,     \* the values passed to coucal_write()
  Increments,  \* 1 for coucal_inc(), (size_t) -1 for coucal_dec()
  NoItem,      \* an item whose name is NULL: a free slot
  NULL         \* "not found", and "no result"

ASSUME ConstantsAssumption ==
  /\ ValueMod \in Nat \ {0, 1}
  /\ IntMod \in Nat \ {0}
  /\ TableSizes \subseteq Nat \ {0}
  /\ \A s \in TableSizes : s % 2 = 0
  /\ StashSize \in Nat \ {0}
  /\ NewSizes \subseteq Nat
  /\ Written \subseteq 0 .. ValueMod - 1
  /\ Increments \subseteq {1, ValueMod - 1}
  /\ NULL \notin Int

ASSUME HashersAssumption ==
  Hashers \subseteq [Key -> [hash1 : Nat, hash2 : Nat]]

Value == 0 .. ValueMod - 1
Item == [name : Key, value : Value]
ItemOf(k, v) == [name |-> k, value |-> v]

ASSUME NoItemAssumption == NoItem \notin Item

Slot == Item \cup {NoItem}
StashIndex == 0 .. StashSize - 1

(* The conversion (int) of a uintptr_t, on a two's complement machine.     *)
AsInt(v) == IF v % IntMod < IntMod \div 2 THEN v % IntMod
                                          ELSE (v % IntMod) - IntMod

VARIABLES
  \* struct struct_coucal
  hash,          \* custom.key.hash
  size,          \* POW2(lg_size), 0 when there is no hashtable
  items,         \* the table
  used,          \* number of items, in the table and in the stash
  stash,         \* stash.items
  stash_size,    \* stash.size
  stash_extent,  \* stash.extent
  \* coucal_write_value() in progress
  pc,            \* the place in the code
  adding,        \* the arguments: name and value
  result,        \* what the call returns when the item has been added
  \* coucal_add_item_()
  item,          \* the item to place
  cuckoo_hash,
  initial_hash,
  loops,
  return_to,     \* the caller: "count" for the write, "merge" for the merge
  \* the loops over the stash and over its backup
  index,
  backup,
  old_extent,
  old_size,
  \* what the caller sees
  ret,           \* the result of the last call
  failure        \* the assertion that failed, or "none"

tableVars == <<hash, size, items>>
stashVars == <<stash, stash_size, stash_extent>>
callVars == <<adding, result>>
walkVars == <<item, cuckoo_hash, initial_hash, loops, return_to>>
mergeVars == <<backup, old_extent, old_size>>
vars == <<hash, size, items, used, stash, stash_size, stash_extent, pc, adding,
          result, item, cuckoo_hash, initial_hash, loops, return_to, index,
          backup, old_extent, old_size, ret, failure>>

EmptyStash == [j \in StashIndex |-> NoItem]

(***************************************************************************)
(* Positions and matches.                                                  *)
(***************************************************************************)

(* hash & (POW2(lg_size) - 1) *)
HashToPos(sz, h) == h % sz

Pos1(k) == HashToPos(size, hash[k].hash1)
Pos2(k) == HashToPos(size, hash[k].hash2)

IsFree(p) == items[p] = NoItem

(* The stored hashes are those of the stored name: comparing hashes and    *)
(* keys is comparing keys.                                                 *)
Matches(slot, k) == slot # NoItem /\ slot.name = k

(* Mutant: the lookups stop at the number of items, as if there were no holes. *)
StashScanned_IgnoresHoles == 0 .. stash_size - 1

(* The stash slots a lookup reads: up to the extent, holes included, and   *)
(* none at all when the stash is empty.                                    *)
StashScanned == IF stash_size # 0 THEN 0 .. stash_extent - 1 ELSE {}

(* The lookup order of every call: position 1, position 2, the stash. *)
AtTable(k, p) ==
  \/ p = Pos1(k) /\ Matches(items[p], k)
  \/ p = Pos2(k) /\ Matches(items[p], k) /\ ~Matches(items[Pos1(k)], k)

NotInTable(k) == ~Matches(items[Pos1(k)], k) /\ ~Matches(items[Pos2(k)], k)

AtStash(k, j) ==
  /\ NotInTable(k)
  /\ j \in StashScanned
  /\ Matches(stash[j], k)
  /\ \A l \in 0 .. j - 1 : ~Matches(stash[l], k)

NotFound(k) ==
  /\ NotInTable(k)
  /\ \A j \in StashScanned : ~Matches(stash[j], k)

(* while (extent != 0 && items[extent - 1].name == NULL) extent--          *)
Trimmed(st, ext, n) ==
  /\ n \in 0 .. ext
  /\ \A j \in n .. ext - 1 : st[j] = NoItem
  /\ n # 0 => st[n - 1] # NoItem

(* coucal_assert(): continue at `next', or report the expression and abort *)
CoucalAssert(condition, expression, next) ==
  /\ pc' = IF condition THEN next ELSE "aborted"
  /\ failure' = IF condition THEN failure ELSE expression

Abort(expression) ==
  /\ pc' = "aborted"
  /\ failure' = expression

-----------------------------------------------------------------------------
Init ==
  /\ hash \in Hashers
  /\ size = 0
  /\ items = [p \in {} |-> NoItem]
  /\ used = 0
  /\ stash = EmptyStash /\ stash_size = 0 /\ stash_extent = 0
  /\ pc = "null"
  /\ adding = NoItem /\ result = 0
  /\ item = NoItem /\ cuckoo_hash = 0 /\ initial_hash = 0 /\ loops = 0
  /\ return_to = "count"
  /\ index = 0
  /\ backup = EmptyStash /\ old_extent = 0 /\ old_size = 0
  /\ ret = NULL
  /\ failure = "none"

(***************************************************************************)
(* coucal_new(n) and the hash handler installed before the first write.    *)
(***************************************************************************)

(* coucal_get_pow2(): the first acceptable size not below n *)
GetPow2(n, sz) ==
  /\ sz \in TableSizes
  /\ n <= sz
  /\ \A s \in TableSizes : n <= s => sz <= s

New(n, h) ==
  /\ pc = "null"
  /\ \E sz \in TableSizes :
       /\ GetPow2(n, sz)
       /\ size' = sz
       /\ items' = [p \in 0 .. sz - 1 |-> NoItem]
  /\ hash' = h
  /\ pc' = "idle"
  /\ ret' = NULL
  /\ UNCHANGED <<used, stashVars, callVars, walkVars, index, mergeVars, failure>>

(* coucal_delete(): everything goes, the caller's pointer becomes NULL. *)
Delete ==
  /\ pc = "idle"
  /\ size' = 0
  /\ items' = [p \in {} |-> NoItem]
  /\ used' = 0
  /\ stash' = EmptyStash /\ stash_size' = 0 /\ stash_extent' = 0
  /\ pc' = "null"
  /\ ret' = NULL
  /\ UNCHANGED <<hash, callVars, walkVars, index, mergeVars, failure>>

(***************************************************************************)
(* Calls that add nothing: one step.                                       *)
(***************************************************************************)
SetValue(slot, v) == [slot EXCEPT !.value = v]

(* coucal_read_value(): coucal_fetch_value_hashes(), the value copied out *)
Read(k) ==
  /\ pc = "idle"
  /\ \/ \E p \in 0 .. size - 1 : AtTable(k, p) /\ ret' = items[p].value
     \/ \E j \in StashIndex : AtStash(k, j) /\ ret' = stash[j].value
     \/ NotFound(k) /\ ret' = NULL
  /\ UNCHANGED <<tableVars, used, stashVars, pc, callVars, walkVars, index,
                 mergeVars, failure>>

(* coucal_write_value_(), the three "return 0; replaced" *)
Replace(k, v) ==
  /\ pc = "idle"
  /\ \/ /\ \E p \in 0 .. size - 1 :
             /\ AtTable(k, p)
             /\ items' = [items EXCEPT ![p] = SetValue(@, v)]
        /\ UNCHANGED stash
     \/ /\ \E j \in StashIndex :
             /\ AtStash(k, j)
             /\ stash' = [stash EXCEPT ![j] = SetValue(@, v)]
        /\ UNCHANGED items
  /\ ret' = 0
  /\ UNCHANGED <<hash, size, used, stash_size, stash_extent, pc, callVars,
                 walkVars, index, mergeVars, failure>>

(* coucal_inc_() on an existing entry: value->uintg += inc, in place *)
IncExisting(k, inc) ==
  /\ pc = "idle"
  /\ \/ /\ \E p \in 0 .. size - 1 :
             LET v == (items[p].value + inc) % ValueMod
             IN  /\ AtTable(k, p)
                 /\ items' = [items EXCEPT ![p] = SetValue(@, v)]
                 /\ ret' = AsInt(v)
        /\ UNCHANGED stash
     \/ /\ \E j \in StashIndex :
             LET v == (stash[j].value + inc) % ValueMod
             IN  /\ AtStash(k, j)
                 /\ stash' = [stash EXCEPT ![j] = SetValue(@, v)]
                 /\ ret' = AsInt(v)
        /\ UNCHANGED items
  /\ UNCHANGED <<hash, size, used, stash_size, stash_extent, pc, callVars,
                 walkVars, index, mergeVars, failure>>

(* Mutant: the slots above a removed one are shifted down.                 *)
WithHole_Shifts(j) ==
  [l \in StashIndex |->
     IF l < j THEN stash[l] ELSE IF l + 1 \in StashIndex THEN stash[l + 1] ELSE NoItem]

(* Compacting would shift entries backwards past a running enumeration. *)
WithHole(j) == [stash EXCEPT ![j] = NoItem]

(* Mutant: the removal from the table forgets the count.                   *)
Discount_Never == used' = used

Discount == used' = used - 1

(* coucal_remove(): a table slot is emptied, a stash slot becomes a hole   *)
(* and the extent is trimmed; the count is decremented afterwards.         *)
Remove(k) ==
  /\ pc = "idle"
  /\ \/ /\ \E p \in 0 .. size - 1 :
             /\ AtTable(k, p)
             /\ items' = [items EXCEPT ![p] = NoItem]
        /\ UNCHANGED stashVars
        /\ Discount /\ ret' = 1
        /\ CoucalAssert(used # 0, "used_not_zero", "idle")
     \/ /\ \E j \in StashIndex :
             /\ AtStash(k, j)
             /\ stash' = WithHole(j)
        /\ stash_size' = stash_size - 1
        /\ Trimmed(stash', stash_extent, stash_extent')
        /\ UNCHANGED items
        /\ Discount /\ ret' = 1
        /\ CoucalAssert(used # 0, "used_not_zero", "idle")
     \/ /\ NotFound(k)
        /\ ret' = 0
        /\ UNCHANGED <<items, stashVars, used, pc, failure>>
  /\ UNCHANGED <<hash, size, callVars, walkVars, index, mergeVars>>

(***************************************************************************)
(* Calls that add an item.                                                 *)
(***************************************************************************)

(* Mutant: the stash is not drained.                                       *)
StartAdd_NoDrain(k, v, r) ==
  /\ pc = "idle"
  /\ NotFound(k)
  /\ adding' = ItemOf(k, v)
  /\ result' = r
  /\ pc' = "place" /\ item' = ItemOf(k, v)
  /\ UNCHANGED <<tableVars, used, stashVars, cuckoo_hash, initial_hash, loops,
                 return_to, index, mergeVars, ret, failure>>

(* The write turned out to be an add: the stash is drained first if it is  *)
(* not empty, then the new item is handed to coucal_add_item_().           *)
StartAdd(k, v, r) ==
  /\ pc = "idle"
  /\ NotFound(k)
  /\ adding' = ItemOf(k, v)
  /\ result' = r
  /\ IF stash_size # 0
     THEN pc' = "drain" /\ UNCHANGED item
     ELSE pc' = "place" /\ item' = ItemOf(k, v)
  /\ UNCHANGED <<tableVars, used, stashVars, cuckoo_hash, initial_hash, loops,
                 return_to, index, mergeVars, ret, failure>>

WriteNew(k, v) == StartAdd(k, v, 1)

(* coucal_inc_() on a missing key: coucal_write(name, inc), return inc *)
IncNew(k, inc) == StartAdd(k, inc, AsInt(inc))

(* Mutants: the slot keeps its copy; the size forgets it.                  *)
Home_KeepsCopy(p) ==
  /\ items' = [items EXCEPT ![p] = stash[index]]
  /\ stash_size' = stash_size - 1
  /\ UNCHANGED stash

Home_KeepsSize(p) ==
  /\ items' = [items EXCEPT ![p] = stash[index]]
  /\ stash' = [stash EXCEPT ![index] = NoItem]
  /\ UNCHANGED stash_size

(* an item of the stash goes back to the table *)
Home(p) ==
  /\ items' = [items EXCEPT ![p] = stash[index]]
  /\ stash' = [stash EXCEPT ![index] = NoItem]
  /\ stash_size' = stash_size - 1

(* coucal_drain_stash(): every stashed item one of whose positions is free *)
(* goes back to the table, position 1 first.                               *)
DrainStep ==
  /\ pc = "drain"
  /\ index < stash_extent
  /\ LET it == stash[index]
     IN  IF it # NoItem /\ IsFree(Pos1(it.name)) THEN Home(Pos1(it.name))
         ELSE IF it # NoItem /\ IsFree(Pos2(it.name)) THEN Home(Pos2(it.name))
         ELSE UNCHANGED <<items, stash, stash_size>>
  /\ index' = index + 1
  /\ UNCHANGED <<hash, size, used, stash_extent, pc, callVars, walkVars,
                 mergeVars, ret, failure>>

DrainDone ==
  /\ pc = "drain"
  /\ index = stash_extent
  /\ Trimmed(stash, stash_extent, stash_extent')
  /\ index' = 0
  /\ item' = adding
  /\ pc' = "place"
  /\ UNCHANGED <<tableVars, used, stash, stash_size, callVars, cuckoo_hash,
                 initial_hash, loops, return_to, mergeVars, ret, failure>>

(* coucal_add_item_() found a place for its item and returns *)
PutItem(p) ==
  /\ items' = [items EXCEPT ![p] = item]
  /\ item' = NoItem
  /\ pc' = return_to

(* position 1 if free, else position 2 if free *)
PlaceFree ==
  /\ pc = "place"
  /\ \/ IsFree(Pos1(item.name)) /\ PutItem(Pos1(item.name))
     \/ /\ ~IsFree(Pos1(item.name))
        /\ IsFree(Pos2(item.name)) /\ PutItem(Pos2(item.name))
  /\ UNCHANGED <<hash, size, used, stashVars, callVars, cuckoo_hash,
                 initial_hash, loops, return_to, index, mergeVars, ret, failure>>

(* both are taken: prepare the cuckoo walk, from position 1 *)
PlaceTaken ==
  /\ pc = "place"
  /\ ~IsFree(Pos1(item.name))
  /\ ~IsFree(Pos2(item.name))
  /\ cuckoo_hash' = hash[item.name].hash1
  /\ initial_hash' = hash[item.name].hash1
  /\ loops' = size
  /\ pc' = "walk"
  /\ UNCHANGED <<tableVars, used, stashVars, callVars, item, return_to, index,
                 mergeVars, ret, failure>>

(* the end of the walk: the locals of the loop are dead *)
EndWalk == cuckoo_hash' = 0 /\ initial_hash' = 0 /\ loops' = 0

WalkFree ==
  /\ pc = "walk"
  /\ IsFree(HashToPos(size, cuckoo_hash))
  /\ PutItem(HashToPos(size, cuckoo_hash))
  /\ EndWalk
  /\ UNCHANGED <<hash, size, used, stashVars, callVars, return_to, index,
                 mergeVars, ret, failure>>

(* The position the kicked item was not at: where it goes next. *)
OtherHash(k, p) == IF p = Pos1(k) THEN hash[k].hash2 ELSE hash[k].hash1

(* Mutants: the positions are compared, as the TODO in the code suggests;  *)
(* the walk is cut short; the loop does not count.                         *)
GivesUp_ComparesPositions(next) ==
  HashToPos(size, next) = HashToPos(size, initial_hash) \/ loops = 1

GivesUp_TooEarly(next) == next = initial_hash \/ loops <= size - 1

Tick_Never == UNCHANGED loops

Tick == loops' = loops - 1

(* The walk ends when it is back to the hash it started from (a hash, not  *)
(* a position), or when the loop counter runs out.                         *)
GivesUp(next) == next = initial_hash \/ loops = 1

(* The item takes the place of another one, which becomes the item. *)
WalkKick ==
  /\ pc = "walk"
  /\ ~IsFree(HashToPos(size, cuckoo_hash))
  /\ LET p == HashToPos(size, cuckoo_hash)
         kicked == items[p]
         next == OtherHash(kicked.name, p)
         last == GivesUp(next)
     IN  /\ items' = [items EXCEPT ![p] = item]
         /\ item' = kicked
         /\ CoucalAssert(p = Pos1(kicked.name) \/ p = Pos2(kicked.name),
                   "unexpected_position", IF last THEN "stash" ELSE "walk")
         /\ IF last THEN EndWalk
            ELSE /\ cuckoo_hash' = next
                 /\ Tick
                 /\ UNCHANGED initial_hash
  /\ UNCHANGED <<hash, size, used, stashVars, callVars, return_to, index,
                 mergeVars, ret>>

(* Mutant: one item too many.                                              *)
StashHasRoom_OneMore == stash_size <= StashSize

StashHasRoom == stash_size < StashSize

(* emergency stashing: the first hole below the extent, or the extent *)
StashItem ==
  /\ pc = "stash"
  /\ StashHasRoom
  /\ \E n \in 0 .. StashSize :
       /\ n <= stash_extent
       /\ \A j \in 0 .. n - 1 : stash[j] # NoItem
       /\ n # stash_extent => stash[n] = NoItem
       /\ stash' = [stash EXCEPT ![n] = item]
       /\ stash_extent' = IF n = stash_extent THEN n + 1 ELSE stash_extent
  /\ stash_size' = stash_size + 1
  /\ item' = NoItem
  /\ pc' = return_to
  /\ UNCHANGED <<tableVars, used, callVars, cuckoo_hash, initial_hash, loops,
                 return_to, index, mergeVars, ret, failure>>

StashFull ==
  /\ pc = "stash"
  /\ ~StashHasRoom
  /\ Abort("stash_collision")
  /\ UNCHANGED <<tableVars, used, stashVars, callVars, walkVars, index,
                 mergeVars, ret>>

(***************************************************************************)
(* coucal_write_value(), after an add.                                     *)
(***************************************************************************)

(* Mutant: the table grows one item too late.                              *)
MustGrow_Late(n) == n > size \div 2 \/ stash_size >= StashSize \div 2

(* the table is more than half-full, or the stash is *)
MustGrow(n) == n >= size \div 2 \/ stash_size >= StashSize \div 2

Count ==
  /\ pc = "count"
  /\ used' = used + 1
  /\ pc' = IF MustGrow(used + 1) THEN "grow" ELSE "return"
  /\ UNCHANGED <<tableVars, stashVars, callVars, walkVars, index, mergeVars,
                 ret, failure>>

(* Mutant: the first hash decides, wherever the item is.                   *)
MovesUp_ByHash1(p) ==
  items[p] # NoItem /\ HashToPos(2 * size, hash[items[p].name].hash1) # p

(* Where the item at old position p goes when the table doubles: the one   *)
(* of its hashes that put it there decides between p and p + size.         *)
MovesUp(p) ==
  LET k == items[p].name
      h == IF Pos1(k) = p THEN hash[k].hash1 ELSE hash[k].hash2
  IN  items[p] # NoItem /\ HashToPos(2 * size, h) # p

(* Mutant: the table is not reallocated.                                   *)
Doubled_NotReallocated ==
  [p \in 0 .. size - 1 |-> IF MovesUp(p) THEN NoItem ELSE items[p]]

Doubled ==
  [p \in 0 .. 2 * size - 1 |->
     IF p < size THEN IF MovesUp(p) THEN NoItem ELSE items[p]
     ELSE IF MovesUp(p - size) THEN items[p - size] ELSE NoItem]

WellPositioned ==
  \A p \in 0 .. size - 1 :
    ~IsFree(p) => p = Pos1(items[p].name) \/ p = Pos2(items[p].name)

(* Mutant: the stash keeps its copies of the items that are merged.        *)
ResetStash_KeepsCopies ==
  /\ UNCHANGED stash
  /\ stash_size' = 0 /\ stash_extent' = 0

ResetStash ==
  /\ stash' = EmptyStash
  /\ stash_size' = 0 /\ stash_extent' = 0

(* The table is doubled and its items are relocated; a stash that is not   *)
(* empty is backed up and reset, to be merged.                             *)
Grow ==
  /\ pc = "grow"
  /\ 2 * size \in TableSizes
  /\ size' = 2 * size
  /\ items' = Doubled
  /\ IF stash_size # 0
     THEN /\ backup' = stash /\ old_extent' = stash_extent /\ old_size' = stash_size
          /\ ResetStash
          /\ return_to' = "merge"
     ELSE UNCHANGED <<mergeVars, stashVars, return_to>>
  /\ CoucalAssert(WellPositioned, "bad_position",
            IF stash_size # 0 THEN "merge" ELSE "return")
  /\ UNCHANGED <<hash, used, callVars, item, cuckoo_hash, initial_hash, loops,
                 index, ret>>

(* lg_size has reached its maximum: coucal_is_acceptable_pow2() fails *)
GrowRefused ==
  /\ pc = "grow"
  /\ 2 * size \notin TableSizes
  /\ Abort("acceptable_lg_size")
  /\ UNCHANGED <<tableVars, used, stashVars, callVars, walkVars, index,
                 mergeVars, ret>>

(* realloc() may return NULL *)
GrowNoMemory ==
  /\ pc = "grow"
  /\ 2 * size \in TableSizes
  /\ Abort("allocation_error")
  /\ UNCHANGED <<tableVars, used, stashVars, callVars, walkVars, index,
                 mergeVars, ret>>

(* Mutant: the merge stops at the number of items, as if there were no     *)
(* holes.                                                                  *)
MergeEnd_IgnoresHoles == old_size

MergeEnd == old_extent

(* the stash is merged item by item, holes skipped *)
MergeStep ==
  /\ pc = "merge"
  /\ index < MergeEnd
  /\ index' = index + 1
  /\ IF backup[index] # NoItem
     THEN item' = backup[index] /\ pc' = "place"
     ELSE UNCHANGED <<item, pc>>
  /\ UNCHANGED <<tableVars, used, stashVars, callVars, cuckoo_hash,
                 initial_hash, loops, return_to, mergeVars, ret, failure>>

MergeDone ==
  /\ pc = "merge"
  /\ index = MergeEnd
  /\ CoucalAssert(stash_size <= old_size, "stash_size_grew", "return")
  /\ index' = 0
  /\ backup' = EmptyStash /\ old_extent' = 0 /\ old_size' = 0
  /\ return_to' = "count"
  /\ UNCHANGED <<tableVars, used, stashVars, callVars, item, cuckoo_hash,
                 initial_hash, loops, ret>>

Return ==
  /\ pc = "return"
  /\ pc' = "idle"
  /\ ret' = result
  /\ adding' = NoItem
  /\ result' = 0
  /\ UNCHANGED <<tableVars, used, stashVars, walkVars, index, mergeVars, failure>>

-----------------------------------------------------------------------------
AddStep ==
  \/ DrainStep \/ DrainDone
  \/ PlaceFree \/ PlaceTaken
  \/ WalkFree \/ WalkKick
  \/ StashItem \/ StashFull
  \/ Count
  \/ Grow \/ GrowRefused \/ GrowNoMemory
  \/ MergeStep \/ MergeDone
  \/ Return

Call ==
  \/ \E n \in NewSizes, h \in Hashers : New(n, h)
  \/ Delete
  \/ \E k \in Key :
       \/ Read(k)
       \/ Remove(k)
       \/ \E v \in Written : Replace(k, v) \/ WriteNew(k, v)
       \/ \E inc \in Increments : IncExisting(k, inc) \/ IncNew(k, inc)

(* abort(): nothing happens any more, and what an aborted call leaves *)
(* behind is not modelled *)
Halted == pc = "aborted" /\ UNCHANGED vars

Next == Call \/ AddStep \/ Halted

(* A call in progress runs to its end: it is the only code that runs. *)
Spec == Init /\ [][Next]_vars /\ WF_vars(AddStep)
==============================================================================
