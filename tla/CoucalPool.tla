----------------------------- MODULE CoucalPool ------------------------------
(***************************************************************************)
(* The string pool of coucal.c, composed with the hashtable: the buffer    *)
(* that holds the keys, the name pointers of the items, which point into   *)
(* it, and what moves both - growth, compaction and shrinking, in the      *)
(* middle of a write or of a removal.                                      *)
(*                                                                         *)
(* A string is its key: what a pointer reads is found from the strings     *)
(* that lie in the buffer, and nothing is read in a buffer that has been   *)
(* freed or moved.  Every function of the pool is an operator on the pool; *)
(* the actions are those of Coucal with the calls they make to it.         *)
(***************************************************************************)
EXTENDS CoucalProperties

CONSTANTS
  StrSize,          \* strlen(key) + 1, for every key
  Tails,            \* pairs <<d, k>>: the characters of k are the end of those of d
  MinPoolCapacity,  \* MIN_POOL_CAPACITY
  MaxCapacity       \* bound: malloc() and realloc() return NULL above it

ASSUME PoolAssumption ==
  /\ StrSize \in [Key -> Nat \ {0}]
  /\ Tails \subseteq {pair \in Key \X Key : StrSize[pair[2]] < StrSize[pair[1]]}
  /\ MinPoolCapacity \in Nat \ {0}
  /\ MaxCapacity \in Nat

VARIABLES
  pool,  \* pool.{buffer, size, capacity, used}, the strings, the name pointers
  arg    \* the pointer passed as `name' to the write in progress

poolVars == <<pool, arg>>

(***************************************************************************)
(* Pointers and what they read.  Of the buffers at most one is allocated   *)
(* at the end of a call: two identities are enough to tell a pointer into  *)
(* the present one from a stale one.                                       *)
(***************************************************************************)
Pointer(b, o) == [buffer |-> b, offset |-> o]
Nil == Pointer("none", 0)
TheEmptyString == Pointer("static", 0)

(* a string that is not in the pool: the caller's, or the staged copy *)
Outside == Pointer("outside", 0)

(* A string in the buffer; wiped when its first character has been zeroed. *)
Str(o, k, w) == [offset |-> o, key |-> k, wiped |-> w]

(* Reading at ptr yields the characters of k: ptr is at the start of k, or *)
(* in the middle of a string, wiped or not, that ends like k.              *)
ReadsAs(p, ptr, k) ==
  \/ ptr = Outside
  \/ ptr = TheEmptyString /\ StrSize[k] = 1
  \/ /\ ptr.buffer = p.buffer
     /\ \E t \in p.text :
          \/ t.key = k /\ ~t.wiped /\ ptr.offset = t.offset
          \/ /\ <<t.key, k>> \in Tails
             /\ ptr.offset = t.offset + StrSize[t.key] - StrSize[k]

NoPool ==
  [buffer |-> "none", size |-> 0, capacity |-> 0, used |-> 0, text |-> {},
   name |-> [k \in Key |-> Nil], error |-> "none"]

(* coucal_assert() inside the pool: the first assertion that fails *)
PoolAssert(p, condition, expression) ==
  IF p.error = "none" /\ ~condition THEN [p EXCEPT !.error = expression] ELSE p

(* malloc(), realloc() and the assertion on their result *)
Allocated(p, capacity) ==
  PoolAssert(p, capacity <= MaxCapacity, "pool_allocation_error")

OtherBuffer(p) == IF p.buffer = "A" THEN "B" ELSE "A"

(***************************************************************************)
(* The two loops over the name pointers: the table, then the stash up to   *)
(* its extent.  The empty string is not in the pool.                       *)
(***************************************************************************)

Holders ==
  [i \in 0 .. size + stash_extent - 1 |->
     IF i < size THEN items[i] ELSE stash[i - size]]

(* Mutant: the name is freed before it is detached.                        *)
HoldersWithout_StillHeld(k) == Holders

(* the same once the item of k has been detached from its name *)
HoldersWithout(k) ==
  [i \in DOMAIN Holders |-> IF Matches(Holders[i], k) THEN NoItem ELSE Holders[i]]

PooledHolders(p, held) ==
  {i \in DOMAIN held : held[i] # NoItem /\ p.name[held[i].name] # TheEmptyString}

(* The name pointers after a loop that gives new[i] to the holder i. *)
WithNames(p, held, new) ==
  [k \in Key |->
     IF \E i \in PooledHolders(p, held) : held[i].name = k
     THEN new[CHOOSE i \in PooledHolders(p, held) : held[i].name = k]
     ELSE p.name[k]]

(* The characters of strings of the given lengths, terminators included:   *)
(* counting them adds the lengths up.                                      *)
Characters(length, S) == UNION {{i} \X (1 .. length[i]) : i \in S}
CharCount(length, S) == Cardinality(Characters(length, S))

(***************************************************************************)
(* coucal_compact_pool(): a new buffer, to which the strings are copied in *)
(* the order of the loops, one after the other; the old one is freed.      *)
(***************************************************************************)
CompactPool(p, held, capacity) ==
  LET movable == PooledHolders(p, held)
      reads(i) == ReadsAs(p, p.name[held[i].name], held[i].name)
      \* a wiped string is copied as its terminator
      length == [i \in movable |-> IF reads(i) THEN StrSize[held[i].name] ELSE 1]
      dest(i) == CharCount(length, {j \in movable : j < i})
      moved == [i \in movable |-> Pointer(OtherBuffer(p), dest(i))]
      total == CharCount(length, movable)
      new == [p EXCEPT !.buffer = OtherBuffer(p), !.capacity = capacity,
                       !.size = total, !.used = total,
                       !.text = {Str(dest(i), held[i].name, FALSE) :
                                   i \in {j \in movable : reads(j)}},
                       !.name = WithNames(p, held, moved)]
  IN  PoolAssert(Allocated(new, capacity), total <= capacity, "dest_max_dest")

(* realloc() to buffer b; if the buffer has moved the names are recomputed *)
(* from their offsets.                                                     *)
ReallocAt(p, held, capacity, b) ==
  LET rebased == [i \in PooledHolders(p, held) |-> Pointer(b, p.name[held[i].name].offset)]
      new == [p EXCEPT !.buffer = b, !.capacity = capacity,
                       !.name = IF b = p.buffer THEN @ ELSE WithNames(p, held, rebased)]
  IN  PoolAssert(Allocated(new, capacity),
                 \A i \in PooledHolders(p, held) :
                   p.name[held[i].name].offset < capacity,
                 "offset_capacity")

(* coucal_realloc_pool(): the possible outcomes.  "compact instead ?"      *)
ReallocPool(p, held, capacity) ==
  IF p.used < (p.size * 3) \div 4
  THEN {CompactPool(p, held, capacity)}
  ELSE {ReallocAt(p, held, capacity, b) :
          b \in {OtherBuffer(p)} \cup {p.buffer : x \in {p.buffer} \ {"none"}}}

(***************************************************************************)
(* coucal_dup_name_internal()                                              *)
(***************************************************************************)

(* the minimum, doubled until what is needed fits: one number *)
NewCapacities(needed) ==
  {c \in {MinPoolCapacity * 2^i : i \in 0 .. needed} :
     c >= needed /\ (c = MinPoolCapacity \/ c < 2 * needed)}

(* Mutant: the key is not staged.                                          *)
Staged_Never(p, ptr) == ptr

(* coucal_is_pooled(): a key inside the pool is copied out before it grows *)
Staged(p, ptr) ==
  IF ptr.buffer = p.buffer /\ ptr.offset < p.capacity THEN Outside ELSE ptr

(* memcpy() at the watermark: what was there is gone, and what is written  *)
(* there is the key if that is what the source reads.                      *)
CopyTo(p, k, ptr) ==
  LET end == p.size + StrSize[k]
      kept == {t \in p.text : t.offset + StrSize[t.key] <= p.size \/ t.offset >= end}
      written == {Str(p.size, k, FALSE) : x \in {q \in {ptr} : ReadsAs(p, q, k)}}
  IN  PoolAssert([p EXCEPT !.text = kept \cup written,
                           !.size = end, !.used = @ + StrSize[k],
                           !.name[k] = Pointer(p.buffer, p.size)],
                 end <= p.capacity, "copy_capacity")

(* There may be no memory to stage the key. *)
NoStaging(p, ptr) ==
  {PoolAssert(p, FALSE, "key_staging_error") : x \in {ptr} \ {Staged(p, ptr)}}

(* The possible outcomes of copying the key k, found at ptr. *)
DupName(p, k, ptr, held) ==
  IF StrSize[k] = 1
  THEN {[p EXCEPT !.name[k] = TheEmptyString]}
  ELSE IF p.capacity - p.size < StrSize[k]
  THEN NoStaging(p, ptr) \cup
       {CopyTo(q, k, Staged(p, ptr)) :
          q \in UNION {ReallocPool(p, held, c) : c \in NewCapacities(p.size + StrSize[k])}}
  ELSE {CopyTo(p, k, ptr)}

(***************************************************************************)
(* coucal_free_key_internal()                                              *)
(***************************************************************************)

(* Mutant: shrunk as soon as a half would do, measured before the release. *)
Shrunk_TooFar(p) == IF p.used < p.capacity \div 2 THEN p.capacity \div 4 ELSE p.capacity

(* compact and shrink *)
Shrunk(p) == IF p.used < p.capacity \div 4 THEN p.capacity \div 2 ELSE p.capacity

(* the string is now invalidated *)
Wiped(p, k) ==
  [p EXCEPT !.used = @ - StrSize[k],
            !.text = {IF t.offset = p.name[k].offset THEN [t EXCEPT !.wiped = TRUE]
                                                     ELSE t : t \in @},
            !.name[k] = Nil]

FreeKey(p, k, held) ==
  IF p.name[k] = TheEmptyString
  THEN [p EXCEPT !.name[k] = Nil]
  ELSE LET q == PoolAssert(Wiped(p, k), ReadsAs(p, p.name[k], k), "duplicate_release")
       IN  IF q.used # 0 /\ q.used < q.size \div 2
           THEN CompactPool(PoolAssert(q, q.used < Shrunk(q), "used_capacity"),
                            held, Shrunk(q))
           ELSE q

-----------------------------------------------------------------------------
(***************************************************************************)
(* The calls and steps of Coucal, with the pool.                           *)
(***************************************************************************)
PoolInit == Init /\ pool = NoPool /\ arg = Nil

(* The step of the table, unless the pool has aborted. *)
PoolStep(p, step) ==
  \/ p.error = "none" /\ step /\ pool' = p
  \/ /\ p.error # "none"
     /\ Abort(p.error)
     /\ pool' = p
     /\ UNCHANGED <<tableVars, used, stashVars, callVars, walkVars, index,
                    mergeVars, ret>>

PoolNew(n, h) == New(n, h) /\ UNCHANGED poolVars

(* The names in the pool are not freed one by one: the buffer goes. *)
PoolDelete == Delete /\ pool' = NoPool /\ UNCHANGED arg

(* The name is detached from its item, then freed. *)
PoolRemove(k) ==
  /\ pc = "idle"
  /\ IF NotFound(k) THEN Remove(k) /\ UNCHANGED pool
                    ELSE PoolStep(FreeKey(pool, k, HoldersWithout(k)), Remove(k))
  /\ UNCHANGED arg

(* Where the caller may have the key: in its own memory, or inside the     *)
(* pool, reached from the name of an enumerated item.                      *)
Arguments(k) ==
  {Outside} \cup
  {ptr \in {Pointer(pool.buffer, o) : o \in 0 .. pool.size - 1} : ReadsAs(pool, ptr, k)}

(* A write that adds: the stash is drained, then the name is duplicated;   *)
(* coucal_inc() on a missing key makes the same write.                     *)
PoolWriteNew(k, v, ptr) ==
  /\ pc = "idle"
  /\ NotFound(k)
  /\ IF stash_size # 0
     THEN WriteNew(k, v) /\ arg' = ptr /\ UNCHANGED pool
     ELSE /\ \E p \in DupName(pool, k, ptr, Holders) : PoolStep(p, WriteNew(k, v))
          /\ UNCHANGED arg

DrainEnds == pc = "drain" /\ index = stash_extent

PoolDrainDone ==
  /\ DrainEnds
  /\ \E p \in DupName(pool, adding.name, arg, Holders) : PoolStep(p, DrainDone)
  /\ arg' = Nil

(* What does not call the pool: lookups, replacements, and the steps of an *)
(* add, which move items with their names.                                 *)
PoolUntouched ==
  /\ \/ AddStep /\ ~DrainEnds
     \/ \E k \in Key : Read(k) \/ \E v \in Written : Replace(k, v)
     \/ Halted
  /\ UNCHANGED poolVars

PoolNext ==
  \/ \E n \in NewSizes, h \in Hashers : PoolNew(n, h)
  \/ PoolDelete
  \/ \E k \in Key :
       \/ PoolRemove(k)
       \/ \E v \in Written, ptr \in Arguments(k) : PoolWriteNew(k, v, ptr)
  \/ PoolDrainDone
  \/ PoolUntouched

PoolSpec == PoolInit /\ [][PoolNext]_<<vars, poolVars>>

-----------------------------------------------------------------------------
StoredKeys == NamesIn(Stored)
PooledKeys == {k \in StoredKeys : StrSize[k] # 1}

(* the characters of the name of k *)
Extent(k) == pool.name[k].offset .. pool.name[k].offset + StrSize[k] - 1

(* Every item of the table, of the stash, in the hand of a walk or waiting *)
(* to be merged has a name that still reads as its key: no growth,         *)
(* compaction, shrink, release or copy of another key leaves it behind in  *)
(* a freed buffer or writes over it.                                       *)
NamesReadBack ==
  pc # "aborted" => \A k \in StoredKeys : ReadsAs(pool, pool.name[k], k)

(* "Used chars", "high watermark", "capacity": the names lie below the     *)
(* watermark, no two of them share a character - or the release of one     *)
(* would wipe another - and used counts exactly their characters.          *)
PoolAccounting ==
  pc # "aborted" =>
    /\ pool.size <= pool.capacity
    /\ \A k \in PooledKeys : Extent(k) \subseteq 0 .. pool.size - 1
    /\ \A k, l \in PooledKeys : k # l => Extent(k) \cap Extent(l) = {}
    /\ pool.used = CharCount(StrSize, PooledKeys)

(* The assertions of the pool never fail, whatever was added and removed   *)
(* before: only the allocation can.  What is kept fits in the capacity     *)
(* that the shrinking and the growth have chosen, and no name is released  *)
(* twice.                                                                  *)
NoPoolError ==
  failure \notin {"dest_max_dest", "offset_capacity", "copy_capacity",
                  "duplicate_release", "used_capacity"}

(* "compact instead ?", "compact the pool is too many holes": holes are    *)
(* recovered by a compaction, so that a pool that is mostly holes, and has *)
(* the capacity for what is used in it after the call, does not get a      *)
(* larger one.                                                             *)
MostlyHoles == pool.used < pool.size \div 2

HolesDoNotGrow ==
  [][MostlyHoles /\ pool'.used <= pool.capacity =>
       pool'.capacity <= pool.capacity]_<<vars, poolVars>>
==============================================================================
