# A TLA+ development of coucal

coucal (`src/coucal.c`, `src/coucal.h`) is a hashtable library in C: cuckoo
hashing with two positions per key, a *stash* of 16 slots for the items that the
cuckoo walk could not place, a string pool that owns the keys, and handlers the
client installs. It is single threaded. What makes it hard to test is not
interleaving but long sequences of legal calls: items are kicked from slot to
slot, stashed, drained, merged and relocated while one call is in progress, and
an error in the accounts of one call shows several calls later, as an entry that
is lost, found twice, or skipped by an enumeration.

## 1. Inventory

| component | state | operations | modelled in |
|---|---|---|---|
| hashtable core | `items`, `lg_size`, `used`, `stash.{items,extent,size}` | `coucal_write_value`, `coucal_read_value`, `coucal_exists`, `coucal_inc/dec`, `coucal_remove`, `coucal_new`, `coucal_delete`; inside: `coucal_add_item_`, `coucal_drain_stash`, doubling, merge | `Coucal` |
| the contract of `coucal.h` | a set of entries | the same calls | `CoucalMap` |
| enumerator | `index`, `table` | `coucal_enum_new`, `coucal_enum_next` | `CoucalEnum`, `CoucalEnumMap` |
| reading calls | - | `coucal_read`, `coucal_readptr`, `coucal_get_intptr`, the `pvoid` variants, `coucal_exists`, `coucal_nitems` | `CoucalApi` |
| table and pool sizes | `lg_size`, `pool.capacity` in machine arithmetic | `coucal_get_pow2`, `coucal_is_acceptable_pow2`, `POW2`, the overflow test of the doubling, the mask of a position, the capacity loop | `CoucalSizing` |
| key string pool | `pool.{buffer,size,capacity,used}` and every `name` that points into it | `coucal_dup_name_internal`, `coucal_free_key_internal`, `coucal_compact_pool`, `coucal_realloc_pool`, `coucal_is_pooled` | `CoucalPool` |
| handlers | `custom.value`, `custom.key` | `coucal_value_is_malloc`, `coucal_value_set_*_handler`, the calls of `free` and `dup` | `CoucalHandlers` |
| hash functions | - | `coucal_hash_data` with its MD5, Murmur and FNV-1 backends, `MurmurHash3_x86_128` | `CoucalHash`; in the other modules any function (`Hashers`) |
| assertions, logging, statistics | `stats`, `custom.error` | `coucal_assert_failed`, `coucal_log_stats` | assertions only |
| tests, fuzzer, sample, build | - | - | not modelled: clients and scripts |

How they interact: every call computes the two hashes of its key, then looks at
position 1, position 2 and the stash, in that order. A write that finds nothing
becomes an *add*: the stash is drained (items whose position has become free go
home), the key is copied to the pool, and `coucal_add_item_` places the item,
by a walk that kicks other items if both its positions are taken; the item in
hand at the end of the walk is stashed. The count is then incremented, and if
the table is half full, or the stash is, the table is doubled, its items
relocated, and the stash emptied into a local backup whose items are added
again, which may walk and stash again. Removals leave holes in the stash so that
an enumeration is not disturbed; only adds move items.

What makes each component correct:

* core: lookups find exactly the entries that were written and not removed; the
  cuckoo invariant; no key in two places; `used`, `stash.size` and
  `stash.extent` are what they say; every loop ends; the stash is a last resort;
* enumerator: every entry not deleted is visited exactly once while nothing is
  added, and the cursor stays in range when something is;
* reading calls: they all tell the same map, zero values included;
* pool: every stored name keeps pointing to its own characters, whatever was
  grown, compacted, shrunk or released since it was copied;
* handlers: every value and every custom key is freed exactly once, by the
  handler that made it;
* sizes: no undefined shift, no product that wraps into a smaller allocation, no
  mask that cuts positions off;
* hashes: every byte of a key counts, nothing outside it is read, and the two
  hashes of a key differ.

`PROJECT.json` lists the hazards, each at the line where it bites, with the
properties that would catch it.

## 2. The modules

* **`CoucalMap`** - the promise: `open`, `entries`, `ret`. One action per call.
* **`Coucal`** - the implementation. A call that adds nothing is one atomic step
  (nothing can run in the middle of it, and it has one effect). A call that adds
  is one step per loop iteration, with `pc` as the place in the code:
  `idle` -> (`drain`*) -> `place` -> (`walk`*) -> (`stash`) -> `count` ->
  (`grow` -> (`merge` -> `place` -> ... -> `merge`)*) -> `return` -> `idle`.
  `return_to` is the caller of `coucal_add_item_`: the write or the merge.
  `null` is a table not created or deleted, `aborted` an assertion that failed.
* **`CoucalProperties`** - invariants, action properties, liveness and the
  refinement mapping to `CoucalMap`.
* **`CoucalEnum`** - `Coucal` and one enumerator, whose calls come between any
  others; **`CoucalEnumMap`** - the promise of `coucal.h` about it: an abstract
  enumeration has a set of keys left to visit, and each call takes one of them.
* **`CoucalApi`** - what each reading call returns, as functions of the state of
  `Coucal`.
* **`CoucalPool`** - `Coucal` and the string pool. The calls and steps of `Coucal`
  that copy a key (`WriteNew`, `DrainDone`) or release one (`Remove`, `Delete`)
  are conjoined with what the pool does there; all others leave it alone. The
  pool's functions are operators from a pool to the possible next ones: a
  `realloc` moves the buffer or does not.
* **`CoucalHandlers`** - `Coucal` and the ownership of values and copied keys,
  composed in the same way, with the calls that install handlers.
* **`CoucalSizing`** - the sizes alone, modulo the width of `size_t`: why `Coucal`
  and `CoucalPool` may use exact numbers, and where that ends.
* **`CoucalHash`** - one call of `coucal_hash_data`, made on a key and on a twin
  that differs from it in at most one byte.
* **`CoucalProofs`** - theorems about `Coucal`: one inductive invariant.
  **`CoucalCountProofs`** extends it (the count, the assertions, the cuckoo walk).
* **`CoucalMapProofs`** - `Coucal` implements `CoucalMap`, and the reading calls
  agree. **`CoucalEnumProofs`**, **`CoucalHandlersProofs`** and
  **`CoucalPoolProofs`** build the theorems about the three compositions on it;
  **`CoucalSizingProofs`** and **`CoucalHashProofs`** stand alone.
* **`MCCoucal`**, **`MCCoucalApi`**, **`MCCoucalEnum`**, **`MCCoucalPool`**,
  **`MCCoucalHandlers`**, **`MCCoucalSizing`**, **`MCCoucalHash`** - instances for
  TLC.

`CoucalEnum`, `CoucalPool` and `CoucalHandlers` are three compositions with the
same `Coucal`, not one with another: the pool never looks at values or handlers,
custom keys never enter the pool, and the enumerator reads slots only. The one
place where they meet, a client that passes the name of an enumerated item back
to the library, is in `CoucalPool` (`Arguments`).

Correspondence, beyond what `map` in `PROJECT.json` lists line by line:

| code | model |
|---|---|
| `POW2(lg_size)` | `size`, a member of the constant `TableSizes`; `lg_size++` is `size' = 2 * size` |
| `item.name == NULL` | the slot is `NoItem` |
| `hashes` stored in an item | `hash[name]`: they are computed from the name and never change |
| `STASH_SIZE` | `StashSize`; half of it is `StashSize \div 2` |
| the local array `stash[]` of the merge | `backup`, of which the merge has done the first `index` slots |
| `coucal_assert` | `CoucalAssert`, `Abort`: the behaviour ends with `failure` naming the expression |
| `realloc` returning NULL | `GrowNoMemory`, possible at every doubling |
| `calloc` returning NULL in `coucal_new` | no step: the caller gets NULL and nothing has changed |

For the pool, the handlers and the hashes:

| code | model |
|---|---|
| the characters of the buffer | `pool.text`: which key lies at which offset, and whether its first character has been zeroed; `ReadsAs` is what a `strcmp` there would find, in the middle of a longer key too (`Tails`) |
| a `char*` | a buffer and an offset; of the buffers one is allocated between calls, so that two identities tell the present one from a stale one |
| `name` of an item | `pool.name[key]`: an item and its name move together, and a key is stored once (`NoKeyTwice`) |
| the bytes counted into `pool.size` and `pool.used`, one string after the other | `CharCount`: the number of the strings' `Characters`, a set |
| the doubling of the capacity until a name fits | `NewCapacities`: the least multiple by a power of two that is large enough |
| the loops over `items` and `stash.items` up to the extent | `Holders`, in that order |
| `malloc`, `realloc` returning NULL for the buffer | above `MaxCapacity` |
| `malloc` returning NULL for the staged key | `NoStaging`, whenever a key is staged |
| a value pointer | a block with an owner (`nobody`, `table`, `client`); 0 is NULL |
| a custom or pooled copy of a key | `copy[key]`, the allocator that made it |
| a call of a `free` handler that should not be | `misuse`, the first of its kind |
| 32-bit words of the hashes | words of `4 * ByteBits` bits, 32 when `ByteBits` is 8; in narrower ones constants keep their low bits, so that the odd ones stay odd, and rotations and shifts their share of the width |
| `^` | the constant operator `BitXor`, with the laws of `XorAssumption`; the instance gives it the `^^` of `Bitwise`, and TLC evaluates the laws |
| `unsigned int` of the MD5 update, `0x10000000` | `UIntMod`, `ChunkSize`, below the length of the longest keys |
| the compression function of the MD5 | external: any member of `Digests` |

An assertion that fails calls `abort()` (or a handler of the client that is not
meant to return): what an aborted call leaves behind is not modelled, except that
nothing happens any more. Pointers returned by `coucal_fetch_value()` let the
client write a value in place: to the table that is a `Replace`.

Mutants - the wrong variants of a definition that show that each property can
fail - stand just above the definitions they vary and are used by nothing else.

## 3. What the runs check

Hash pairs are chosen, not random: keys that share both positions for ever, that
swap them, that share one, that meet only in the smallest table, and whose two
positions are the same. Runs `core` and `refine` try *every* assignment of these
pairs to the keys. Sizes start at 4 rather than 16 and the stash has 2 to 6 slots
rather than 16, so that five keys fill the stash, fill half of a table, force
doublings one after the other and reach the largest table.

| run | instance | shows |
|---|---|---|
| `core` | 5 keys, sizes 4-16, stash 4 | types; `CuckooPlaced`, `NoKeyTwice`, `StashAccounting`, `UsedIsCount`, `LessThanHalfFull`; `NoInternalError`: of the assertions only the full stash, the largest table and the allocation can fail; `StashedOnlyIfBlocked`; `AddLeavesStashBlocked` |
| `limits` | 4 keys, sizes 4-32, stash 2, positions may coincide | the same accounts when the stash overflows and every add doubles the table; `AddsAdvance`: every step of a write takes one off a bound on the steps it has left; `CallReturns`: every call returns or aborts |
| `room` | 4 keys, unshared hash values | `StashedOnlyIfNoRoom`: a walk that stashes had no arrangement to find |
| `refine` | 3 keys, 2-bit values, 1-bit `int` | `ImplementsMap` (refinement), `StaysPut`, and `AccessorsAgree`: between calls all the ways of reading tell the same map |
| `enum` | 4 keys, stash 6 | `ImplementsEnum` (refinement), the cursor's range |
| `pool` | keys "", "b", "ab", "cde" on the same two positions, pool of 4 to 16 characters | `NamesReadBack`, `PoolAccounting`, and `NoPoolError`: of the pool's assertions only the allocation can fail |
| `handlers` | 4 keys, 2 blocks, 2 hash handlers, stash 4 | `OwnsItsValues`, `OwnsItsNames`, `NoMisuse`, and that the table with its handlers still implements the map |
| `sizing` | 6-bit `size_t`; hashes of 3, 6, 7 bits; items of 1, 3, 4 bytes; two kinds of allocators | `ShiftDefined`, `LeastPow2`, `TableAllocated`, `MaskCoversTable`, `PoolInCapacity`, `NewReturns`, `CapacityGrows` |
| `hash` | 1-bit bytes, lengths 0-35 and 40, 5-bit `unsigned int`, three backends, both hash sizes | `EveryByteOnce`, `OneByteCounts`, `NoIdenticalHashes`, `HashReturns`, `HashAdvances` |
| `inc`, `pool_holes`, `capacity` | | disagreements, see below |

Why these bounds are enough to be interesting: a stash slot is used by the third
key that shares two positions, a hole below the extent needs two stashed items,
a merge that stashes again needs keys that collide at every size, and all of that
together with a walk through a third key needs five keys; each mutant in
`PROJECT.json` is found within them. Values have a width of one to three bits so
that counters wrap. Keys are symmetric where the set of hash functions is closed
under permutation of the keys (not in `room`, whose hashes are ranked, not in
`pool`, whose keys have lengths, and not in `limits`, where symmetry would not be
sound for liveness).

The four keys of `pool` all share two positions, so that names are held by the
table and by the stash at once; a minimal capacity of 4 makes the pool grow twice
and shrink, and the tail "b" of "ab" lets a caller pass a pointer into the middle
of a stored key. Three quarters and halves of sizes up to 16 take every branch of
the compaction. In `handlers` two blocks are enough for one to be freed twice
while the other is held, and two hash handlers for a change of handler to lose
entries, if it were made while there are any: the client keeps to the header's
"MUST NOT be changed once elements have been added", and the mutant
`HandlersMayChange_Always` shows what that is worth. In `sizing` every request, every
key length and every number of doublings of a 6-bit machine is tried; the widths
matter only relative to each other, and the three relations of hash width and
`size_t` are there. In `hash` a block is 16 bytes as in the code: the lengths
cover no, one and two blocks with every tail, and pass both `ChunkSize` and
`UIntMod`.

The one thing that the code's `TODO FIXME` suggests, to end the walk when a
*position* comes back rather than a hash, is the mutant `GivesUp_ComparesPositions`:
run `room` refutes it. Comparing positions ends walks that would still have found
a place. `StashedOnlyIfNoRoom` needs the assumption that no hash value is shared:
when two keys share one the present test ends the walk early too.

**Fairness.** `Spec` has `WF_vars(AddStep)`: once a write has begun, the code of
that call is the only code that runs, so it goes on until it returns or aborts.
`SizingSpec` (steps of the loops in `coucal_new` and in the copy of a name) and
`HashSpec` (steps of the one call) say the same of their calls. Nothing is assumed
of the client, which may never call again; no other fairness is used, and none at
all for the safety properties.

**Disagreements found.**

* `inc`: a counter whose value does not fit an `int`. `coucal_inc()` returns the
  low bits of it, where the header promises "the entry's new (incremented) value"
  (`coucal.h:464`).
* `pool_holes`: adding and removing one key over and over enlarges the pool of an
  empty table. A release compacts only when something is still used
  (`coucal.c:811`), so the watermark climbs to the capacity, and the compaction
  that `coucal_realloc_pool()` then chooses goes into the capacity already
  doubled (`coucal.c:767`), although the old one would do.
* `capacity`: when the pool needs more than half of what a `size_t` counts, the
  capacity wraps to 0 and the loop at `coucal.c:767` never ends; the assertion
  after it is never evaluated. It takes a pool and a key that fill the address
  space, which 64-bit systems do not meet. Up to one half the loop ends
  (`CapacityGrows`, a theorem).

Two more, read in the code and without a run: the capacity of the pool is halved
at `coucal.c:816` without a lower limit, although `coucal.c:124` calls
`MIN_POOL_CAPACITY` the "Minimum value for pool.capacity" (`NoPoolError` shows that
what is kept still fits); and `coucal_value_is_malloc(table, 1)` keeps a value
handler that is already installed (`coucal.c:1558`), where `coucal.h:310` says that
it calls `coucal_value_set_value_handler()` (`ValueIsMalloc` models the code).

## 4. What is proved

For every set of keys, every hash handler, every stash size and every set of even
table sizes (not necessarily powers of two), with the assumptions named in
`Coucal` (`ConstantsAssumption`, `HashersAssumption`, `NoItemAssumption`: the
table sizes are even and positive, hashes are naturals, values fit their width, a
free slot is not an item), and those of `CoucalPool` (`PoolAssumption`: every key
has a length, and the tail of a key is shorter than the key) and of
`CoucalSizing` (`SizingAssumption`: the widths have room for the smallest table
and the smallest pool). In `CoucalHash` they hold for keys of any length and for
words of 4, 8, 16 or 32 bits, the real width included (`HashAssumption`: a chunk of
the MD5 update is not empty and fits an `unsigned int`), and for any operator that
has the laws of the exclusive or that the argument needs (`XorAssumption`):

| module | theorems |
|---|---|
| `CoucalProofs` | `TypeOK`, `CuckooPlaced`, `NoKeyTwice`, `StashAccounting`, `LessThanHalfFull`, and the action properties `StaysPut` and `AddsAdvance` |
| `CoucalCountProofs` | `UsedIsCount`, `NoInternalError`; `StashedOnlyIfBlocked`, `AddLeavesStashBlocked`, `StashedOnlyIfNoRoom` |
| `CoucalMapProofs` | `Spec` implements `CoucalMap` (`ImplementsMap`); `AccessorsAgree` |
| `CoucalEnumProofs` | `EnumTypeOK`; `EnumSpec` implements `CoucalEnumMap` (`ImplementsEnum`) |
| `CoucalHandlersProofs` | `OwnsItsValues`, `OwnsItsNames`, `NoMisuse`, `ImplementsMap` with handlers |
| `CoucalPoolProofs` | `NamesReadBack`, `PoolAccounting`, `NoPoolError`, `ImplementsMap` with the pool |
| `CoucalSizingProofs` | `ShiftDefined`, `TableAllocated`, `MaskCoversTable`, `PoolInCapacity`, `LeastPow2`, and the progress of the capacity loop, `CapacityGrows` |
| `CoucalHashProofs` | `EveryByteOnce`, `OneByteCounts`, `NoIdenticalHashes`, and the progress of its loops, `HashAdvances` |

So every safety and action property that the passing runs check, and all three
refinements, are proved.

**The core.** The argument is one inductive invariant (`Invariance`):

    Inv == TypeOK /\ Control /\ StashCounted /\ ExtentTrimmed
           /\ CuckooPlaced /\ NoKeyTwice /\ RoomLeft

The properties are not inductive one by one. That a kick goes from one position
of the kicked item to its other one needs `CuckooPlaced`. That an add starts with
a key that is nowhere (`NotFoundIsNowhere`) needs `CuckooPlaced`, because the
lookup reads two slots only, and `StashCounted`, because it does not read the
stash at all when its size is 0 and stops at the extent otherwise. That an
emergency stashing stays inside the array (`StashSlotInRange`) needs the size to
be the number of items: if every slot below the extent is taken, the extent is
less than the capacity. `ExtentTrimmed` is broken by the drain and restored at
its end, and `Control` ties the locals to the place in the code: which of them
are live, whose hash the walk is at, and that nothing is pending outside a merge.
`RoomLeft` is `LessThanHalfFull` for the steps inside a call. The doubling rests
on arithmetic alone (`PositionAfterDoubling`): modulo 2s a hash keeps its
remainder modulo s or gains s, so an item stays or moves to a slot of the upper
half that no other item takes. Each conjunct has one lemma per action.

`AddsAdvance` is the part of termination that is a matter of steps: `StepsLeft` is a
natural number that bounds the steps a write in progress has left - the walk by its
counter, the drain and the merge by their slots, each slot of the merge by a whole
walk in the doubled table, at most `StashSize` of them - and every `AddStep` makes
it smaller, so that none is a stutter (`StepAdvances`). With `WF_vars(AddStep)` it
leaves `CallReturns` to the fact that a write in progress always has a step, which
TLC checks (no deadlock).

**The count.** `CountInv` is about the set of stored items, the union of table,
stash, backup and hand. One lemma per action says what becomes of that set
(`Stored...`): walks, drains, doublings and merges leave it as it is, an add
gains one item and a removal loses one. That a merge does not stash more than it
took out (the assertion `stash_size_grew`) needs `MergeBounded`: what is stashed,
in hand or pending never outnumbers the old stash.

**The walk.** Let a position be a vertex and an item an edge between its two
positions. `Searching` says where a walk is, with no history: a set V of visited
positions, all taken, and a chain f[1], ..., f[n] in V on which every item lies
one position further than where it came from, while all other items in V have no
position outside V. The walk is going *out* (to a position that may be new), or
coming *home* along the chain, which it has met again, or going *on* from the
second position of the item it began with. `steps + n <= 2 * Cardinality(V)` is
kept by every kick (`KickFurther`, `KickHome`, `KickFirst`, `KickOnward`), each
position being visited twice at most, until a visited position is met again after
the turn: then V is `Closed` (`KickCloses`), and nothing in it or in hand can
leave. As V holds stored items only and less than half of the table is used, the
counter `loops` cannot run out before that (`LoopsLeft`): when it does, or when
the walk is back to the hash it began with, both positions of the item in hand
are taken. A closed part has one item more than positions, so no arrangement
places them all (`ClosedHasNoRoom`). If no hash value is shared, a hash that
comes back is the first item's, kicked from its second position, and that too
closes V (`FirstKickedElsewhere`). This is where a comparison of positions, as
the `TODO FIXME` suggests, or a counter that starts at `size - 1` or stops at 2,
breaks the proof. `AddLeavesStashBlocked` follows: the drain leaves only blocked
items, the walk adds only blocked ones, and taken positions stay taken until the
table doubles, which empties the stash.

**The refinements.** `Entries` is the set of stored items but the one being
added. With the lemmas on that set, each step of `Coucal` is a step of
`CoucalMap` or a stutter; `CallInv` carries the item and the result of the call in
progress from its beginning to its `Return`. For the enumerator,
the keys left to visit are those at or above the cursor: a removal takes at most
one of them and moves none, since nothing that adds nothing moves
(`StaysPut`), and the extent can only be trimmed past slots that are free.

**Handlers.** `OwnsItsValues` and `OwnsItsNames` relate the blocks and copies to
the set of stored items; with `NoMisuse` and `OneAllocator` (all copies come from
the present allocator, since handlers change on an empty table) they are
inductive, because a removal visits exactly the slot of its key (`NoKeyTwice`)
and a deletion every slot (`StashCounted`).

**The pool.** `GoodPool(p, K)`: strings lie below the watermark and do not
overlap, every key of K with a length has its own unwiped copy, and `used` is the
number of their characters. Each function of the pool is shown to keep it, for
any pool and any set of names: `CompactKeeps` (the strings are laid out one after
the other, so that the sums of lengths are disjoint intervals), `ReallocKeeps`,
`CopyAdds`, `WipedKeeps`, `FreeKeyKeeps`. That a key passed by a pointer into the
pool survives a growth (`StagedOutside`) is why it is staged. A shrink leaves
room because the compaction that goes with it keeps `used` characters only.

**Sizes.** `SizingInv` is proved from the overflow test and from
`IsAcceptablePow2` alone, for every width; powers of two are counted as subsets
of an interval (`PowerDoubles`), which needs no induction. `CapacityGrows` adds that
the capacity sought is not 0 while at most half of a `size_t` is needed
(`CapacityPositive`): it starts from `MIN_POOL_CAPACITY`, not from a pool that may
be empty, and does not wrap.

**Hashes.** `HashInv` says where each loop is and what it has read so far
(`ReadsInOrder`: blocks from the first one, counted up from a negative index;
chunks or bytes from the first), so that the tail, read from its end, takes what is
left (`EveryByteOnce`). `OneByteCounts` needs more than it says: two keys of the same
length that differ in one byte have equal states until that byte is read and
different ones from then on (`OneDifference`, `DifferenceKept`). Each function on
the way is shown to be injective: a product with an odd constant is undone by the
inverse of the constant modulo 2^32, which is written out and checked, for FNV-1
modulo 2^64; a rotation by its two parts; a xor with a shift of itself
because what two words with the same result differ in would be its own shift, which
only 0 is; the sums of the lanes by
differences; a block by undoing its lanes from the last. A word that holds a
different byte differs, so the lane it enters does, and the others follow
(`MixBlock` is injective in the lanes for a given block, and in the block for given
lanes). `NoIdenticalHashes` is about `Distinct` alone: the complement of a hash is
not the hash, because 2^w - 1 is odd.

**Only model-checked.** `CallReturns`, `NewReturns` and `HashReturns`: liveness is
out of the prover's reach. For the first and the last, the theorems `AddsAdvance`
and `HashAdvances` bound the steps. The three disagreements are counterexamples.
What TLC checks and the theorems state too, the runs show on instances where the
interesting cases happen, and their mutants that the properties can fail.

## 5. Plan

`CoucalEnum`, `CoucalPool` and `CoucalHandlers` are compositions with the same
`Coucal`; a composition of all three would show that they do not interfere. It has
nothing to say beyond the argument of section 2.

## 6. Not modelled

* The compression function of the MD5, a library that the repository only stubs.
* Logging, statistics and printing (`coucal_log_stats`, `coucal_print_*`,
  `coucal_set_name`, the formatting of assertions), and `coucal_memory_size()`:
  they change no state that a caller of the map can see.
* The opaque arguments of handlers, and handlers that call back into the table
  they are called from: no client in the repository has one.
* A comparison handler that is not equality of keys: two spellings that a client
  declares equal are one key here.
* Tests, fuzzer, sample, build and CI files: clients and scripts, read for what
  they say of the library.
