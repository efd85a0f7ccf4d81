------------------------ MODULE CoucalHandlersProofs -------------------------
(***************************************************************************)
(* Proofs about the handlers: the table owns exactly the blocks and the    *)
(* names of its entries, wherever a walk, a drain or a merge has put them, *)
(* and releases each of them once, with the handler that made it.          *)
(***************************************************************************)
EXTENDS CoucalHandlers, CoucalMapProofs

Owner == {"nobody", "table", "client"}

HandlersTypeOK ==
  /\ key_alloc \in {"pool", "custom"}
  /\ block \in [Block -> Owner]
  /\ copy \in [Key -> {"none", "pool", "custom"}]

(* The names of the entries were all made by the present allocator.        *)
OneAllocator == pc # "aborted" => \A k \in Key : copy[k] \in {"none", key_alloc}

(* What an aborted call leaves behind is not modelled.                     *)
MapHeld == pc # "aborted" => MapInv

HandlersInv ==
  /\ MapHeld
  /\ HandlersTypeOK
  /\ OneAllocator
  /\ OwnsItsValues
  /\ OwnsItsNames
  /\ NoMisuse

(***************************************************************************)
(* The hashtable under the handlers.                                       *)
(***************************************************************************)

(* An empty table holds nothing: its hashes can be changed.                *)
LEMMA NothingStored ==
  ASSUME MapInv, pc \in {"null", "idle"}, used = 0
  PROVE  /\ Stored = {}
         /\ \A p \in 0 .. size - 1 : items[p] = NoItem
         /\ \A j \in StashIndex : stash[j] = NoItem
<1>1. IsFiniteSet(StoredNames) /\ Cardinality(StoredNames) = 0
  BY DEF MapInv, CountInv, Counted, Uncounted
<1>2. StoredNames = {}
  BY <1>1, FS_EmptySet
<1>3. \A it : it \notin Stored
  BY <1>2 DEF StoredNames, NamesIn
<1> QED
  BY <1>3, InStored DEF InTable, InStash, Live

(* Another hash handler on an empty table.                                 *)
LEMMA HashChanged ==
  ASSUME MapInv, pc = "idle", used = 0, hash' \in Hashers,
         UNCHANGED <<size, items, used, stash, stash_size, stash_extent, pc, adding, result,
                     item, cuckoo_hash, initial_hash, loops, return_to, index, backup,
                     old_extent, old_size, ret, failure>>
  PROVE  MapInv' /\ Stored' = Stored
<1>1. Stored' = Stored
  BY StoredUnchanged
<1>2. hash' \in [Key -> [hash1 : Nat, hash2 : Nat]]
  BY HashersAssumption
<1>3. TypeOK'
  BY <1>2 DEF MapInv, Inv, TypeOK, Slot, StashIndex
<1>4. Control'
  BY DEF MapInv, Inv, Control, InAddItem, Live
<1>5. StashCounted' /\ ExtentTrimmed' /\ RoomLeft'
  BY DEF MapInv, Inv, StashCounted, LiveStash, ExtentTrimmed, RoomLeft, Live
<1>6. CuckooPlaced'
  BY NothingStored DEF CuckooPlaced, WellPositioned, IsFree
<1>7. NoKeyTwice'
  BY DEF MapInv, Inv, NoKeyTwice, Distinct, Live, Pending
<1>8. BackupExtent' /\ MergeBounded' /\ NoInternalError'
  BY DEF MapInv, CountInv, BackupExtent, MergeBounded, NoInternalError, HandCount,
     PendingSlots, Pending, Live
<1>9. Counted'
  BY <1>1 DEF MapInv, CountInv, Counted, Uncounted, StoredNames, NamesIn
<1>10. CallInv'
  BY <1>1 DEF MapInv, CallInv, AsInt
<1> QED
  BY <1>1, <1>3, <1>4, <1>5, <1>6, <1>7, <1>8, <1>9, <1>10 DEF MapInv, Inv, CountInv

HandlersStep == [HandlersNext]_<<vars, handlerVars>>

(* Every step of the handlers is one of the hashtable, or a change of the  *)
(* hash handler of an empty table, or an abort.                            *)
LEMMA HandlersSteps ==
  ASSUME HandlersStep
  PROVE  \/ [Next]_vars
         \/ \E dup, free \in BOOLEAN, h \in Hashers : ValueSetKeyHandler(dup, free, h)
BY DEF HandlersStep, HandlersNext, HandlersNew, HandlersDelete, ValueSetValueHandler,
   ValueIsMalloc, HandlersRemove, HandlersReplace, HandlersWriteNew, HandlersDrainDone,
   ClientFree, Next, Call, AddStep

(* The hashtable stays what it was without handlers.                       *)
LEMMA MapHeldStep ==
  ASSUME MapHeld, HandlersStep
  PROVE  MapHeld'
<1>1. CASE pc = "aborted"
  <2>1. pc' = "aborted"
    BY <1>1 DEF HandlersStep, HandlersNext, HandlersNew, HandlersDelete, ValueSetValueHandler,
       ValueIsMalloc, ValueSetKeyHandler, HandlersMayChange, HandlersRemove, HandlersReplace,
       HandlersWriteNew, HandlersDrainDone, ClientFree, AddStep, DrainStep, DrainDone,
       PlaceFree, PlaceTaken, WalkFree, WalkKick, StashItem, StashFull, Count, Grow,
       GrowRefused, GrowNoMemory, MergeStep, MergeDone, Return, New, Delete, Read, Remove,
       Replace, WriteNew, StartAdd, Halted, vars
  <2> QED
    BY <2>1 DEF MapHeld
<1>2. CASE pc # "aborted" /\ [Next]_vars
  BY <1>2, MapInvStep DEF MapHeld
<1>3. ASSUME pc # "aborted", NEW dup \in BOOLEAN, NEW free \in BOOLEAN, NEW h \in Hashers,
             ValueSetKeyHandler(dup, free, h)
      PROVE  MapHeld'
  <2>1. CASE dup = free
    <3>1. pc = "idle" /\ used = 0 /\ hash' = h
      BY <1>3, <2>1 DEF ValueSetKeyHandler, HandlersMayChange
    <3>2. UNCHANGED <<size, items, used, stash, stash_size, stash_extent, pc, adding, result,
                     item, cuckoo_hash, initial_hash, loops, return_to, index, backup,
                     old_extent, old_size, ret, failure>>
      BY <1>3, <2>1 DEF ValueSetKeyHandler, stashVars, callVars, walkVars, mergeVars
    <3> QED
      BY <1>3, <3>1, <3>2, HashChanged DEF MapHeld
  <2>2. CASE dup # free
    BY <1>3, <2>2 DEF ValueSetKeyHandler, Abort, MapHeld
  <2> QED
    BY <2>1, <2>2
<1> QED
  BY <1>1, <1>2, <1>3, HandlersSteps

(***************************************************************************)
(* The slots that a call releases.                                         *)
(***************************************************************************)

(* the slots hold the items of S, each of them once                        *)
Holds(slots, S) ==
  /\ \A i \in DOMAIN slots : slots[i] \in S
  /\ \A it \in S : \E i \in DOMAIN slots : slots[i] = it
  /\ \A i, j \in DOMAIN slots : slots[i] = slots[j] => i = j

SlotNo(i) == IF i < size THEN items[i] ELSE stash[i - size]

(* What a scan of the table and of the stash finds.                        *)
LEMMA LiveSlotsAre ==
  ASSUME TypeOK
  PROVE  /\ \A i : i \in DOMAIN LiveSlots <=>
                   i \in 0 .. size + stash_extent - 1 /\ Live(SlotNo(i))
         /\ \A i \in DOMAIN LiveSlots : LiveSlots[i] = SlotNo(i)
BY DEF LiveSlots, SlotNo

(* Between two calls it finds everything, once.                            *)
LEMMA EverythingHeld ==
  ASSUME MapInv, pc = "idle"
  PROVE  Holds(LiveSlots, Stored)
<1>1. TypeOK /\ Control /\ StashCounted /\ NoKeyTwice
  BY DEF MapInv, Inv
<1>2. size \in Nat /\ stash_extent \in 0 .. StashSize /\ StashSize \in Nat
  BY <1>1, ConstantsAssumption DEF TypeOK
<1>3. ASSUME NEW i \in DOMAIN LiveSlots
      PROVE  /\ Live(SlotNo(i))
             /\ \/ i \in 0 .. size - 1 /\ SlotNo(i) = items[i]
                \/ i - size \in StashIndex /\ SlotNo(i) = stash[i - size] /\ i \in Int
  <2>1. i \in 0 .. size + stash_extent - 1 /\ Live(SlotNo(i))
    BY <1>1, LiveSlotsAre
  <2>2. CASE i < size
    BY <1>2, <2>1, <2>2 DEF SlotNo
  <2>3. CASE ~(i < size)
    BY <1>2, <2>1, <2>3 DEF SlotNo, StashIndex
  <2> QED
    BY <2>2, <2>3
<1>4. \A i \in DOMAIN LiveSlots : LiveSlots[i] \in Stored
  BY <1>1, <1>3, LiveSlotsAre, InStored DEF InTable, InStash
<1>5. ASSUME NEW it \in Stored PROVE \E i \in DOMAIN LiveSlots : LiveSlots[i] = it
  <2>1. CASE InTable(it)
    <3>1. PICK p \in 0 .. size - 1 : Live(items[p]) /\ it = items[p]
      BY <2>1 DEF InTable
    <3>2. p \in 0 .. size + stash_extent - 1 /\ SlotNo(p) = items[p]
      BY <1>2, <3>1 DEF SlotNo
    <3> QED
      BY <1>1, <3>1, <3>2, LiveSlotsAre
  <2>2. CASE InStash(it)
    <3>1. PICK j \in StashIndex : Live(stash[j]) /\ it = stash[j]
      BY <2>2 DEF InStash
    <3>2. j < stash_extent /\ j \in Nat
      BY <1>1, <1>2, <3>1 DEF StashCounted, Live, StashIndex
    <3>3. /\ size + j \in 0 .. size + stash_extent - 1
          /\ ~(size + j < size) /\ (size + j) - size = j
      BY <1>2, <3>2
    <3>4. SlotNo(size + j) = stash[j]
      BY <3>3 DEF SlotNo
    <3>5. size + j \in DOMAIN LiveSlots /\ LiveSlots[size + j] = stash[j]
      BY <1>1, <3>1, <3>3, <3>4, LiveSlotsAre
    <3> QED
      BY <3>1, <3>5
  <2> QED
    BY <1>1, <2>1, <2>2, StoredAtRest
<1>6. ASSUME NEW i \in DOMAIN LiveSlots, NEW j \in DOMAIN LiveSlots,
             LiveSlots[i] = LiveSlots[j], i # j
      PROVE  FALSE
  <2>1. SlotNo(i) = SlotNo(j) /\ Live(SlotNo(i)) /\ Live(SlotNo(j))
    BY <1>1, <1>3, <1>6, LiveSlotsAre
  <2>2. ASSUME i - size \in StashIndex, j - size \in StashIndex, i \in Int, j \in Int
        PROVE  i - size # j - size
    BY <1>2, <1>6, <2>2
  <2> QED
    BY <1>1, <1>3, <1>6, <2>1, <2>2 DEF NoKeyTwice, Distinct
<1> QED
  BY <1>4, <1>5, <1>6 DEF Holds

(* The slots of a key hold its entry.                                      *)
LEMMA KeyHeld ==
  ASSUME MapInv, pc = "idle", NEW k
  PROVE  Holds(SlotsOf(k), {it \in Stored : it.name = k})
<1>1. Holds(LiveSlots, Stored)
  BY EverythingHeld
<1>2. /\ \A i : i \in DOMAIN SlotsOf(k) <=> i \in DOMAIN LiveSlots /\ LiveSlots[i].name = k
      /\ \A i \in DOMAIN SlotsOf(k) : SlotsOf(k)[i] = LiveSlots[i]
  BY DEF SlotsOf
<1> QED
  BY <1>1, <1>2 DEF Holds

(* Between two calls what is held is what is stored.                       *)
LEMMA HeldAtRest ==
  ASSUME pc # "drain"
  PROVE  Held = Stored
BY DEF Held

(* The values held are blocks of the table, or NULL.                       *)
LEMMA HeldBlocks ==
  ASSUME OwnsItsValues, pc # "aborted"
  PROVE  /\ \A it \in Held : it.value # 0 => it.value \in Block /\ block[it.value] = "table"
         /\ \A b \in Block : block[b] = "table" => \E it \in Held : it.value = b
         /\ \A it, other \in Held : it.value = other.value /\ it.value # 0 => it = other
<1>1. {b \in Block : block[b] = "table"} = {it.value : it \in Held} \ {0}
  BY DEF OwnsItsValues
<1>2. \A b : b \in Block /\ block[b] = "table" <=> b # 0 /\ \E it \in Held : it.value = b
  BY <1>1
<1> QED
  BY <1>2 DEF OwnsItsValues

(* The converse, of the next state.                                        *)
LEMMA HeldBlocksNext ==
  ASSUME \A it \in Held' : it.value # 0 => it.value \in Block /\ block'[it.value] = "table",
         \A b \in Block : block'[b] = "table" => \E it \in Held' : it.value = b,
         \A it, other \in Held' : it.value = other.value /\ it.value # 0 => it = other
  PROVE  OwnsItsValues'
<1>1. 0 \notin Block
  BY DEF Block
<1>2. \A b : b \in Block /\ block'[b] = "table" <=> b # 0 /\ \E it \in Held' : it.value = b
  BY <1>1
<1>3. {b \in Block : block'[b] = "table"} = {it.value : it \in Held'} \ {0}
  BY <1>2
<1> QED
  BY <1>3 DEF OwnsItsValues, Block

(* The names of the entries are the keys that have a copy.                 *)
LEMMA HeldNames ==
  ASSUME OwnsItsNames, pc # "aborted"
  PROVE  \A k \in Key : copy[k] # "none" <=> \E it \in Stored : it.name = k
<1>1. {k \in Key : copy[k] # "none"} = NamesIn(Stored)
  BY DEF OwnsItsNames
<1>2. \A k : k \in Key /\ copy[k] # "none" <=> k \in NamesIn(Stored)
  BY <1>1
<1> QED
  BY <1>2 DEF NamesIn

(* The converse, of the next state.                                        *)
LEMMA HeldNamesNext ==
  ASSUME \A it \in Stored' : it.name \in Key,
         \A k \in Key : copy'[k] # "none" <=> \E it \in Stored' : it.name = k
  PROVE  OwnsItsNames'
<1>1. \A k : k \in {l \in Key : copy'[l] # "none"} <=> k \in NamesIn(Stored')
  BY DEF NamesIn
<1>2. {l \in Key : copy'[l] # "none"} = NamesIn(Stored')
  BY <1>1
<1> QED
  BY <1>2 DEF OwnsItsNames, NamesIn

(* A release of slots that hold what the table owns is not a misuse, and   *)
(* takes from the table exactly their blocks.                              *)
LEMMA ReleaseIsRight ==
  ASSUME HandlersInv, pc = "idle", NEW slots, NEW S, S \subseteq Stored, Holds(slots, S)
  PROVE  /\ ~FreedTwice(slots)
         /\ ~FreedByAnother(slots)
         /\ Released(slots) \in [Block -> Owner]
         /\ \A b \in Block : Released(slots)[b] = "table" <=>
              block[b] = "table" /\ \A it \in S : it.value # b
<1>1. /\ \A it \in Stored : it.value # 0 => it.value \in Block /\ block[it.value] = "table"
      /\ \A it, other \in Stored : it.value = other.value /\ it.value # 0 => it = other
  BY HeldBlocks, HeldAtRest DEF HandlersInv
<1>2. ~FreedTwice(slots)
  BY <1>1 DEF FreedTwice, Holds
<1>3. ~FreedByAnother(slots)
  <2>1. \A it \in Stored : it.name \in Key
    BY StoredAreItems DEF HandlersInv, MapHeld, MapInv, Inv
  <2>2. \A it \in Stored : copy[it.name] = key_alloc
    BY <2>1, HeldNames DEF HandlersInv, OneAllocator
  <2> QED
    BY <2>2 DEF FreedByAnother, Holds
<1>4. Released(slots) \in [Block -> Owner]
  BY DEF Released, Owner, HandlersInv, HandlersTypeOK
<1>5. ASSUME NEW b \in Block
      PROVE  Released(slots)[b] = "table" <=> block[b] = "table" /\ \A it \in S : it.value # b
  <2>1. (\E i \in DOMAIN slots : slots[i].value = b) <=> \E it \in S : it.value = b
    BY DEF Holds
  <2>2. Released(slots)[b] = IF \E i \in DOMAIN slots : slots[i].value = b
                             THEN IF value_free # NULL THEN "nobody" ELSE "client"
                             ELSE block[b]
    BY DEF Released
  <2> QED
    BY <2>1, <2>2
<1> QED
  BY <1>2, <1>3, <1>4, <1>5

(* The release of names.                                                   *)
LEMMA NamesReleased ==
  ASSUME HandlersInv, NEW slots, NEW S, Holds(slots, S), DelNames(slots)
  PROVE  /\ copy' \in [Key -> {"none", "pool", "custom"}]
         /\ \A k \in Key : copy'[k] = IF \E it \in S : it.name = k THEN "none" ELSE copy[k]
<1>1. \A k \in Key : (\E i \in DOMAIN slots : slots[i].name = k) <=> \E it \in S : it.name = k
  BY DEF Holds
<1>2. \A k \in Key : copy'[k] = IF \E i \in DOMAIN slots : slots[i].name = k
                               THEN "none" ELSE copy[k]
  BY DEF DelNames
<1>3. copy' \in [Key -> {"none", "pool", "custom"}]
  BY DEF DelNames, HandlersInv, HandlersTypeOK
<1> QED
  BY <1>1, <1>2, <1>3

(***************************************************************************)
(* The calls.                                                              *)
(***************************************************************************)
StoredNamed == TypeOK => \A it \in Stored : it.name \in Key

(* What is stored has a name.                                              *)
LEMMA StoredAreNamed ==
  StoredNamed
BY StoredAreItems DEF StoredNamed

(* The same, of the next state.                                            *)
LEMMA StoredAreNamedNext ==
  StoredNamed'
BY StoredAreNamed, PTL

(* The parts of the invariant, by name.                                    *)
LEMMA HandlersParts ==
  ASSUME HandlersInv
  PROVE  /\ HandlersTypeOK /\ OwnsItsValues /\ OwnsItsNames /\ NoMisuse /\ MapHeld
         /\ pc # "aborted" =>
              /\ MapInv /\ Inv /\ CountInv /\ CallInv
              /\ TypeOK /\ Control /\ StashInv /\ CuckooPlaced /\ NoKeyTwice
              /\ StashCounted /\ BackupExtent
BY DEF HandlersInv, MapHeld, MapInv, Inv, StashInv, CountInv

(* An abort leaves only what the handlers have done so far.                *)
LEMMA AbortedHandlers ==
  ASSUME pc' = "aborted", HandlersTypeOK', NoMisuse'
  PROVE  HandlersInv'
BY DEF HandlersInv, MapHeld, OneAllocator, OwnsItsValues, OwnsItsNames

(* A step that moves items without adding, releasing or copying any.       *)
LEMMA OwnersStay ==
  ASSUME HandlersInv, MapHeld', pc # "aborted", pc' # "aborted" => Held' = Held /\ Stored' = Stored,
         UNCHANGED <<key_alloc, block, copy, misuse>>
  PROVE  HandlersInv'
<1>1. HandlersTypeOK' /\ NoMisuse'
  BY DEF HandlersInv, HandlersTypeOK, NoMisuse, Block
<1>2. CASE pc' = "aborted"
  BY <1>1, <1>2, AbortedHandlers
<1>3. CASE pc' # "aborted"
  <2>1. OwnsItsValues'
    BY <1>3, HeldBlocks, HeldBlocksNext DEF HandlersInv
  <2>2. \A it \in Stored' : it.name \in Key
    BY <1>3, StoredAreNamedNext DEF StoredNamed, MapHeld, MapInv, Inv
  <2>3. OwnsItsNames'
    BY <1>3, <2>2, HeldNames, HeldNamesNext DEF HandlersInv
  <2>4. OneAllocator'
    BY <1>3 DEF HandlersInv, OneAllocator
  <2> QED
    BY <1>1, <2>1, <2>3, <2>4 DEF HandlersInv
<1> QED
  BY <1>2, <1>3

(* The handlers of an empty table are changed, or a new table has none:    *)
(* there is no name of the former allocator.                               *)
LEMMA AllocatorChanged ==
  ASSUME HandlersInv, MapHeld', pc \in {"null", "idle"}, used = 0, pc' # "drain",
         pc' # "aborted" => Stored' = Stored,
         key_alloc' \in {"pool", "custom"}, UNCHANGED <<block, copy, misuse>>
  PROVE  HandlersInv'
<1>1. HandlersTypeOK' /\ NoMisuse'
  BY DEF HandlersInv, HandlersTypeOK, NoMisuse, Block
<1>2. CASE pc' = "aborted"
  BY <1>1, <1>2, AbortedHandlers
<1>3. CASE pc' # "aborted"
  <2>1. Stored = {} /\ Stored' = {} /\ Held = {} /\ Held' = {}
    <3>1. Stored = {} /\ Stored' = {}
      BY <1>3, NothingStored, HandlersParts
    <3> QED
      BY <3>1 DEF Held
  <2>2. OwnsItsValues'
    BY <2>1, HeldBlocks, HeldBlocksNext DEF HandlersInv
  <2>3. \A k \in Key : copy'[k] = "none"
    BY <2>1, HeldNames DEF HandlersInv
  <2>4. OwnsItsNames'
    BY <2>1, <2>3, HeldNamesNext
  <2>5. OneAllocator'
    BY <2>3 DEF OneAllocator
  <2> QED
    BY <1>1, <2>2, <2>4, <2>5 DEF HandlersInv
<1> QED
  BY <1>2, <1>3

(* coucal_new() and the calls that set handlers.                           *)
LEMMA SetHandlers ==
  ASSUME HandlersInv, MapHeld',
         \/ \E n \in NewSizes, h \in Hashers : HandlersNew(n, h)
         \/ \E f \in {NULL, "custom"} : ValueSetValueHandler(f)
         \/ \E flag \in BOOLEAN : ValueIsMalloc(flag)
         \/ \E dup, free \in BOOLEAN, h \in Hashers : ValueSetKeyHandler(dup, free, h)
  PROVE  HandlersInv'
<1>1. ASSUME NEW n \in NewSizes, NEW h \in Hashers, HandlersNew(n, h) PROVE HandlersInv'
  <2>1. /\ New(n, h) /\ pc = "null" /\ pc' = "idle" /\ key_alloc' = "pool"
        /\ UNCHANGED <<block, copy, misuse>>
    BY <1>1 DEF HandlersNew, New
  <2>2. used = 0
    BY <2>1, HandlersParts DEF Control
  <2>3. Stored' = Stored
    BY <2>1, HandlersParts, StoredNew
  <2> QED
    BY <2>1, <2>2, <2>3, AllocatorChanged
<1>2. ASSUME NEW f, ValueSetValueHandler(f) \/ ValueIsMalloc(f) PROVE HandlersInv'
  <2>1. /\ UNCHANGED <<vars, key_alloc, block, copy, misuse>> /\ pc = "idle"
    BY <1>2 DEF ValueSetValueHandler, ValueIsMalloc, HandlersMayChange
  <2>2. UNCHANGED <<size, items, stash, item, index, backup, pc, adding>>
    BY <2>1 DEF vars
  <2>3. Stored' = Stored /\ Held' = Held
    BY <2>2, StoredUnchanged DEF Held
  <2> QED
    BY <2>1, <2>3, OwnersStay
<1>3. ASSUME NEW dup \in BOOLEAN, NEW free \in BOOLEAN, NEW h \in Hashers,
             ValueSetKeyHandler(dup, free, h)
      PROVE  HandlersInv'
  <2>1. /\ pc = "idle" /\ used = 0
        /\ UNCHANGED <<size, items, stash, item, index, backup, block, copy, misuse>>
    BY <1>3 DEF ValueSetKeyHandler, HandlersMayChange, stashVars, walkVars, mergeVars
  <2>2. Stored' = Stored
    BY <2>1, StoredUnchanged
  <2>3. pc' \in {"idle", "aborted"} /\ key_alloc' \in {"pool", "custom"}
    BY <1>3, <2>1, HandlersParts DEF ValueSetKeyHandler, Abort, HandlersTypeOK
  <2> QED
    BY <2>1, <2>2, <2>3, AllocatorChanged
<1> QED
  BY <1>1, <1>2, <1>3

(* A call that releases some entries, and their names, and no other.       *)
LEMMA EntriesReleased ==
  ASSUME HandlersInv, MapHeld', pc = "idle", NEW slots, NEW S, S \subseteq Stored,
         Holds(slots, S), pc' \in {"null", "idle", "aborted"}, Stored' = Stored \ S,
         block' = Released(slots), Misused(slots, TRUE), DelNames(slots), UNCHANGED key_alloc
  PROVE  HandlersInv'
<1>1. /\ ~FreedTwice(slots) /\ ~FreedByAnother(slots) /\ block' \in [Block -> Owner]
      /\ \A b \in Block : block'[b] = "table" <=>
           block[b] = "table" /\ \A it \in S : it.value # b
  BY ReleaseIsRight
<1>2. /\ copy' \in [Key -> {"none", "pool", "custom"}]
      /\ \A k \in Key : copy'[k] = IF \E it \in S : it.name = k THEN "none" ELSE copy[k]
  BY NamesReleased
<1>3. NoMisuse'
  BY <1>1, HandlersParts DEF Misused, NoMisuse
<1>4. HandlersTypeOK'
  BY <1>1, <1>2, HandlersParts DEF HandlersTypeOK, Block, Owner
<1>5. CASE pc' = "aborted"
  BY <1>3, <1>4, <1>5, AbortedHandlers
<1>6. CASE pc' # "aborted"
  <2>1. Held = Stored /\ Held' = Stored'
    BY <1>6 DEF Held
  <2>2. /\ \A it \in Stored : it.value # 0 => it.value \in Block /\ block[it.value] = "table"
        /\ \A b \in Block : block[b] = "table" => \E it \in Stored : it.value = b
        /\ \A it, other \in Stored : it.value = other.value /\ it.value # 0 => it = other
    BY <2>1, HeldBlocks, HandlersParts
  <2>3. OwnsItsValues'
    <3>1. ASSUME NEW it \in Held', it.value # 0
          PROVE  it.value \in Block /\ block'[it.value] = "table"
      BY <1>1, <2>1, <2>2, <3>1
    <3>2. ASSUME NEW b \in Block, block'[b] = "table" PROVE \E it \in Held' : it.value = b
      BY <1>1, <2>1, <2>2, <3>2
    <3>3. \A it, other \in Held' : it.value = other.value /\ it.value # 0 => it = other
      BY <2>1, <2>2
    <3> QED
      BY <3>1, <3>2, <3>3, HeldBlocksNext
  <2>4. OwnsItsNames'
    <3>1. \A it \in Stored : it.name \in Key
      BY StoredAreNamed, HandlersParts DEF StoredNamed
    <3>2. \A k \in Key : copy[k] # "none" <=> \E it \in Stored : it.name = k
      BY HeldNames, HandlersParts
    <3>3. \A a, b \in Stored : a.name = b.name => a = b
      BY StoredOnce, HandlersParts
    <3>4. \A k \in Key : copy'[k] # "none" <=> \E it \in Stored' : it.name = k
      BY <1>2, <3>2, <3>3
    <3> QED
      BY <3>1, <3>4, HeldNamesNext
  <2>5. OneAllocator'
    BY <1>2 DEF HandlersInv, OneAllocator
  <2> QED
    BY <1>3, <1>4, <2>3, <2>4, <2>5 DEF HandlersInv
<1> QED
  BY <1>5, <1>6

(* coucal_remove().                                                        *)
LEMMA RemoveReleases ==
  ASSUME HandlersInv, MapHeld', NEW k \in Key, HandlersRemove(k)
  PROVE  HandlersInv'
<1> DEFINE S == {it \in Stored : it.name = k}
<1>1. /\ pc = "idle" /\ Remove(k) /\ block' = Released(SlotsOf(k)) /\ DelNames(SlotsOf(k))
      /\ Misused(SlotsOf(k), TRUE) /\ UNCHANGED key_alloc
  BY DEF HandlersRemove, Remove
<1>2. pc' \in {"idle", "aborted"}
  BY <1>1 DEF Remove, CoucalAssert
<1>3. Holds(SlotsOf(k), S)
  BY <1>1, KeyHeld, HandlersParts
<1>4. Stored' = Stored \ S
  <2>1. \A a, b \in Stored : a.name = b.name => a = b
    BY <1>1, StoredOnce, HandlersParts
  <2>2. \/ \E it \in Stored : it.name = k /\ Stored' = Stored \ {it}
        \/ k \notin NamesIn(Stored) /\ Stored' = Stored
    BY <1>1, StoredRemove, HandlersParts
  <2>3. ASSUME NEW it \in Stored, it.name = k PROVE S = {it}
    BY <2>1, <2>3
  <2>4. ASSUME k \notin NamesIn(Stored) PROVE S = {}
    BY <2>4 DEF NamesIn
  <2> QED
    BY <2>2, <2>3, <2>4
<1>5. S \subseteq Stored
  OBVIOUS
<1> HIDE DEF S
<1> QED
  BY <1>1, <1>2, <1>3, <1>4, <1>5, EntriesReleased

(* coucal_delete(): what the pool holds goes with it.                      *)
LEMMA DeleteReleases ==
  ASSUME HandlersInv, MapHeld', HandlersDelete
  PROVE  HandlersInv'
<1>1. /\ pc = "idle" /\ pc' = "null" /\ Delete /\ block' = Released(LiveSlots)
      /\ UNCHANGED key_alloc
  BY DEF HandlersDelete, Delete, WipedByDelete
<1>2. Stored' = {} /\ Held' = {}
  <2>1. Stored' = {}
    BY <1>1, StoredDelete, HandlersParts
  <2> QED
    BY <1>1, <2>1 DEF Held
<1>3. Holds(LiveSlots, Stored)
  BY <1>1, EverythingHeld, HandlersParts
<1>4. CASE key_alloc = "custom"
  <2>1. DelNames(LiveSlots) /\ Misused(LiveSlots, TRUE)
    BY <1>4 DEF HandlersDelete, WipedByDelete
  <2>2. Stored' = Stored \ Stored
    BY <1>2
  <2> QED
    BY <1>1, <1>3, <2>1, <2>2, EntriesReleased
<1>5. CASE key_alloc # "custom"
  <2>1. key_alloc = "pool"
    BY <1>5, HandlersParts DEF HandlersTypeOK
  <2>2. /\ copy' = [k \in Key |-> IF copy[k] = "pool" THEN "none" ELSE copy[k]]
        /\ Misused(LiveSlots, FALSE)
    BY <2>1 DEF HandlersDelete, WipedByDelete
  <2>3. /\ ~FreedTwice(LiveSlots) /\ block' \in [Block -> Owner]
        /\ \A b \in Block : block'[b] = "table" <=>
             block[b] = "table" /\ \A it \in Stored : it.value # b
    BY <1>1, <1>3, ReleaseIsRight
  <2>4. \A k \in Key : copy'[k] = "none"
    BY <1>1, <2>1, <2>2 DEF HandlersInv, OneAllocator
  <2>5. HandlersTypeOK' /\ NoMisuse'
    <3>1. copy' \in [Key -> {"none", "pool", "custom"}]
      BY <2>2, HandlersParts DEF HandlersTypeOK
    <3> QED
      BY <1>1, <2>2, <2>3, <3>1, HandlersParts DEF HandlersTypeOK, NoMisuse, Misused, Block, Owner
  <2>6. \A b \in Block : block'[b] # "table"
    BY <1>1, <2>3, HeldBlocks, HeldAtRest, HandlersParts
  <2>7. OwnsItsValues'
    BY <1>2, <2>6, HeldBlocksNext
  <2>8. OwnsItsNames' /\ OneAllocator'
    BY <1>2, <2>4, HeldNamesNext DEF OneAllocator
  <2> QED
    BY <2>5, <2>7, <2>8 DEF HandlersInv
<1> QED
  BY <1>4, <1>5

(* Zero is not a block.                                                    *)
LEMMA HandOverIs ==
  ASSUME NEW v \in Written, NEW owner \in [Block -> Owner]
  PROVE  /\ HandOver(v, owner) \in [Block -> Owner]
         /\ \A b \in Block : HandOver(v, owner)[b] = IF b = v THEN "table" ELSE owner[b]
BY DEF HandOver, Block, Owner

(* coucal_write() on an existing entry.                                    *)
LEMMA ReplaceReleases ==
  ASSUME HandlersInv, MapHeld', NEW k \in Key, NEW v \in Written, HandlersReplace(k, v)
  PROVE  HandlersInv'
<1> DEFINE S == {it \in Stored : it.name = k}
<1>1. /\ pc = "idle" /\ pc' = "idle" /\ Replace(k, v) /\ Fresh(v)
      /\ block' = HandOver(v, Released(SlotsOf(k))) /\ Misused(SlotsOf(k), FALSE)
      /\ UNCHANGED <<key_alloc, copy>>
  BY DEF HandlersReplace, Replace
<1>2. PICK old \in Stored : old.name = k /\ Stored' = (Stored \ {old}) \cup {ItemOf(k, v)}
  <2>1. v \in Value
    BY ConstantsAssumption DEF Value
  <2> QED
    BY <1>1, <2>1, StoredReplace, HandlersParts
<1>3. \A a, b \in Stored : a.name = b.name => a = b
  BY <1>1, StoredOnce, HandlersParts
<1>4. S = {old}
  BY <1>2, <1>3
<1>5. Holds(SlotsOf(k), S) /\ S \subseteq Stored
  BY <1>1, KeyHeld, HandlersParts
<1> HIDE DEF S
<1>6. /\ ~FreedTwice(SlotsOf(k)) /\ Released(SlotsOf(k)) \in [Block -> Owner]
      /\ \A b \in Block : Released(SlotsOf(k))[b] = "table" <=>
           block[b] = "table" /\ old.value # b
  BY <1>1, <1>4, <1>5, ReleaseIsRight
<1>7. /\ block' \in [Block -> Owner]
      /\ \A b \in Block : block'[b] = "table" <=> b = v \/ (block[b] = "table" /\ old.value # b)
  BY <1>1, <1>6, HandOverIs
<1>8. HandlersTypeOK' /\ NoMisuse'
  BY <1>1, <1>6, <1>7, HandlersParts DEF HandlersTypeOK, NoMisuse, Misused, Block, Owner
<1>9. Held = Stored /\ Held' = Stored'
  BY <1>1 DEF Held
<1>10. /\ \A it \in Stored : it.value # 0 => it.value \in Block /\ block[it.value] = "table"
       /\ \A b \in Block : block[b] = "table" => \E it \in Stored : it.value = b
       /\ \A it, other \in Stored : it.value = other.value /\ it.value # 0 => it = other
  BY <1>1, <1>9, HeldBlocks, HandlersParts
<1>11. ItemOf(k, v).value = v /\ ItemOf(k, v).name = k /\ ItemOf(k, v) \in Stored'
  BY <1>2 DEF ItemOf
<1>12. v # 0 => v \in Block /\ block[v] # "table"
  BY <1>1 DEF Fresh, Block
<1>13. OwnsItsValues'
  <2>1. ASSUME NEW it \in Held', it.value # 0
        PROVE  it.value \in Block /\ block'[it.value] = "table"
    <3>1. CASE it = ItemOf(k, v)
      BY <1>7, <1>11, <1>12, <2>1, <3>1
    <3>2. CASE it \in Stored /\ it # old
      BY <1>2, <1>7, <1>10, <2>1, <3>2
    <3> QED
      BY <1>2, <1>9, <3>1, <3>2
  <2>2. ASSUME NEW b \in Block, block'[b] = "table" PROVE \E it \in Held' : it.value = b
    BY <1>2, <1>7, <1>9, <1>10, <1>11, <2>2
  <2>3. ASSUME NEW it \in Held', NEW other \in Held', it.value = other.value, it.value # 0
        PROVE  it = other
    <3>1. \A x \in Held' : x = ItemOf(k, v) \/ x.value # v \/ x.value = 0
      BY <1>2, <1>9, <1>10, <1>12
    <3>2. \A x \in Held' : x = ItemOf(k, v) \/ x \in Stored
      BY <1>2, <1>9
    <3> QED
      BY <1>10, <1>11, <2>3, <3>1, <3>2
  <2> QED
    BY <2>1, <2>2, <2>3, HeldBlocksNext
<1>14. OwnsItsNames'
  <2>1. \A l \in Key : copy'[l] # "none" <=> \E it \in Stored : it.name = l
    BY <1>1, HeldNames, HandlersParts
  <2>2. \A l \in Key : (\E it \in Stored : it.name = l) <=> \E it \in Stored' : it.name = l
    BY <1>2, <1>11
  <2>3. \A it \in Stored' : it.name \in Key
    BY <1>1, StoredAreNamedNext DEF StoredNamed, MapHeld, MapInv, Inv
  <2> QED
    BY <2>1, <2>2, <2>3, HeldNamesNext
<1>15. OneAllocator'
  BY <1>1 DEF HandlersInv, OneAllocator
<1> QED
  BY <1>8, <1>13, <1>14, <1>15 DEF HandlersInv

(* The name is copied: the item is in the hand of coucal_add_item_().      *)
LEMMA NameCopied ==
  ASSUME HandlersInv, MapHeld', pc # "aborted", pc' # "aborted", UNCHANGED key_alloc,
         NEW it, it.name \in Key, Stored' = Stored \cup {it}, DupCopy(it.name)
  PROVE  /\ copy' \in [Key -> {"none", "pool", "custom"}]
         /\ OwnsItsNames' /\ OneAllocator'
<1>1. /\ copy' \in [Key -> {"none", "pool", "custom"}]
      /\ \A k \in Key : copy'[k] = IF k = it.name THEN key_alloc ELSE copy[k]
  BY HandlersParts DEF DupCopy, HandlersTypeOK
<1>2. key_alloc # "none"
  BY HandlersParts DEF HandlersTypeOK
<1>3. \A k \in Key : copy[k] # "none" <=> \E o \in Stored : o.name = k
  BY HeldNames, HandlersParts
<1>4. \A k \in Key : copy'[k] # "none" <=> \E o \in Stored' : o.name = k
  BY <1>1, <1>2, <1>3
<1>5. \A o \in Stored' : o.name \in Key
  BY StoredAreNamedNext DEF StoredNamed, MapHeld, MapInv, Inv
<1>6. OneAllocator'
  BY <1>1 DEF HandlersInv, OneAllocator
<1> QED
  BY <1>1, <1>4, <1>5, <1>6, HeldNamesNext

(* coucal_write() on a missing key: the block is the table's from now on,  *)
(* the name when the stash has been drained.                               *)
LEMMA WriteNewCopies ==
  ASSUME HandlersInv, MapHeld', NEW k \in Key, NEW v \in Written, HandlersWriteNew(k, v)
  PROVE  HandlersInv'
<1>1. /\ pc = "idle" /\ StartAdd(k, v, 1) /\ Fresh(v) /\ block' = HandOver(v, block)
      /\ IF stash_size # 0 THEN UNCHANGED copy ELSE DupCopy(k)
      /\ UNCHANGED <<key_alloc, misuse>>
  BY DEF HandlersWriteNew, WriteNew, StartAdd
<1>2. /\ pc' = IF stash_size # 0 THEN "drain" ELSE "place"
      /\ adding' = ItemOf(k, v) /\ ItemOf(k, v).name = k /\ ItemOf(k, v).value = v
  BY <1>1 DEF StartAdd, ItemOf
<1>3. Stored' = IF pc' = "drain" THEN Stored ELSE Stored \cup {ItemOf(k, v)}
  <2>1. v \in Value
    BY ConstantsAssumption DEF Value
  <2> QED
    BY <1>1, <1>2, <2>1, StoredStartAdd, HandlersParts
<1>4. Held = Stored /\ Held' = Stored \cup {ItemOf(k, v)}
  BY <1>1, <1>2, <1>3 DEF Held
<1>5. /\ block' \in [Block -> Owner]
      /\ \A b \in Block : block'[b] = IF b = v THEN "table" ELSE block[b]
  BY <1>1, HandOverIs, HandlersParts DEF HandlersTypeOK
<1>6. OwnsItsValues'
  <2>1. /\ \A it \in Stored : it.value # 0 => it.value \in Block /\ block[it.value] = "table"
        /\ \A b \in Block : block[b] = "table" => \E it \in Stored : it.value = b
        /\ \A it, other \in Stored : it.value = other.value /\ it.value # 0 => it = other
    BY <1>1, <1>4, HeldBlocks, HandlersParts
  <2>2. v # 0 => v \in Block /\ block[v] # "table"
    BY <1>1 DEF Fresh, Block
  <2>3. \A it \in Held' : it.value # 0 => it.value \in Block /\ block'[it.value] = "table"
    BY <1>2, <1>4, <1>5, <2>1, <2>2
  <2>4. \A b \in Block : block'[b] = "table" => \E it \in Held' : it.value = b
    BY <1>2, <1>4, <1>5, <2>1
  <2>5. \A it, other \in Held' : it.value = other.value /\ it.value # 0 => it = other
    BY <1>2, <1>4, <2>1, <2>2
  <2> QED
    BY <2>3, <2>4, <2>5, HeldBlocksNext
<1>7. /\ copy' \in [Key -> {"none", "pool", "custom"}]
      /\ OwnsItsNames' /\ OneAllocator'
  <2>1. CASE stash_size # 0
    <3>1. Stored' = Stored /\ UNCHANGED copy
      BY <1>1, <1>2, <1>3, <2>1
    <3>2. \A it \in Stored' : it.name \in Key
      BY <1>1, <3>1, StoredAreNamed, HandlersParts DEF StoredNamed
    <3>3. OwnsItsNames'
      BY <1>1, <3>1, <3>2, HeldNames, HeldNamesNext, HandlersParts
    <3> QED
      BY <1>1, <3>1, <3>3, HandlersParts DEF HandlersTypeOK, HandlersInv, OneAllocator
  <2>2. CASE stash_size = 0
    <3>1. Stored' = Stored \cup {ItemOf(k, v)} /\ DupCopy(ItemOf(k, v).name) /\ pc' # "aborted"
      BY <1>1, <1>2, <1>3, <2>2
    <3> QED
      BY <1>1, <1>2, <3>1, NameCopied
  <2> QED
    BY <2>1, <2>2
<1>8. HandlersTypeOK' /\ NoMisuse'
  BY <1>1, <1>5, <1>7, HandlersParts DEF HandlersTypeOK, NoMisuse, Block, Owner
<1> QED
  BY <1>6, <1>7, <1>8 DEF HandlersInv

(* The end of the drain copies the name.                                   *)
LEMMA DrainDoneCopies ==
  ASSUME HandlersInv, MapHeld', HandlersDrainDone
  PROVE  HandlersInv'
<1>1. /\ pc = "drain" /\ pc' = "place" /\ DrainDone /\ DupCopy(adding.name)
      /\ UNCHANGED <<key_alloc, block, misuse, adding>>
  BY DEF HandlersDrainDone, DrainDone, callVars
<1>2. Stored' = Stored \cup {adding} /\ Live(adding)
  BY <1>1, StoredDrainDone, HandlersParts
<1>3. adding.name \in Key
  BY <1>1, <1>2, LiveIsItem, HandlersParts DEF TypeOK
<1>4. Held = Stored \cup {adding} /\ Held' = Held
  BY <1>1, <1>2 DEF Held
<1>5. OwnsItsValues'
  BY <1>1, <1>4, HeldBlocks, HeldBlocksNext, HandlersParts
<1>6. /\ copy' \in [Key -> {"none", "pool", "custom"}]
      /\ OwnsItsNames' /\ OneAllocator'
  BY <1>1, <1>2, <1>3, NameCopied
<1>7. HandlersTypeOK' /\ NoMisuse'
  BY <1>1, <1>6, HandlersParts DEF HandlersTypeOK, NoMisuse, Block
<1> QED
  BY <1>5, <1>6, <1>7 DEF HandlersInv

(* The other steps of an add move items, and release nothing.              *)
LEMMA MovesOwnNothing ==
  ASSUME HandlersInv, MapHeld', AddStep, ~DrainEnds, UNCHANGED handlerVars
  PROVE  HandlersInv'
<1>1. /\ pc \notin {"aborted", "idle", "null"}
      /\ pc = "drain" => pc' = "drain"
      /\ pc' = "drain" => pc = "drain"
      /\ pc' # "idle" => UNCHANGED adding
  BY DEF AddStep, DrainEnds, DrainStep, DrainDone, PlaceFree, PlaceTaken, WalkFree, WalkKick,
     PutItem, StashItem, StashFull, Count, Grow, GrowRefused, GrowNoMemory, MergeStep,
     MergeDone, Return, CoucalAssert, Abort, callVars, HandlersInv, MapHeld, MapInv, Inv, TypeOK
<1>2. Stored' = Stored
  BY <1>1, StoredAddStep, HandlersParts
<1>3. Held' = Held
  BY <1>1, <1>2 DEF Held
<1> QED
  BY <1>1, <1>2, <1>3, OwnersStay DEF handlerVars

(* The client frees a block that it owns.                                  *)
LEMMA ClientFrees ==
  ASSUME HandlersInv, MapHeld', NEW b \in Block, ClientFree(b)
  PROVE  HandlersInv'
<1>1. /\ block[b] = "client" /\ block' = [block EXCEPT ![b] = "nobody"]
      /\ UNCHANGED <<key_alloc, copy, misuse>> /\ UNCHANGED vars
  BY DEF ClientFree
<1>2. UNCHANGED <<size, items, stash, item, index, backup, pc, adding>>
  BY <1>1 DEF vars
<1>3. Stored' = Stored /\ Held' = Held
  BY <1>2, StoredUnchanged DEF Held
<1>4. /\ block' \in [Block -> Owner]
      /\ \A c \in Block : block'[c] = "table" <=> block[c] = "table"
  BY <1>1, HandlersParts DEF HandlersTypeOK, Owner
<1>5. HandlersTypeOK' /\ NoMisuse'
  BY <1>1, <1>4, HandlersParts DEF HandlersTypeOK, NoMisuse, Block, Owner
<1>6. CASE pc' = "aborted"
  BY <1>5, <1>6, AbortedHandlers
<1>7. CASE pc' # "aborted"
  <2>1. OwnsItsValues'
    BY <1>2, <1>3, <1>4, <1>7, HeldBlocks, HeldBlocksNext, HandlersParts
  <2>2. \A it \in Stored' : it.name \in Key
    BY <1>7, StoredAreNamedNext DEF StoredNamed, MapHeld, MapInv, Inv
  <2>3. OwnsItsNames'
    BY <1>1, <1>2, <1>3, <1>7, <2>2, HeldNames, HeldNamesNext, HandlersParts
  <2>4. OneAllocator'
    BY <1>1, <1>2 DEF HandlersInv, OneAllocator
  <2> QED
    BY <1>5, <2>1, <2>3, <2>4 DEF HandlersInv
<1> QED
  BY <1>6, <1>7

(* A read, and a step that changes nothing.                                *)
LEMMA NothingReleased ==
  ASSUME HandlersInv, MapHeld', UNCHANGED handlerVars,
         UNCHANGED vars \/ \E k \in Key : Read(k)
  PROVE  HandlersInv'
<1>1. UNCHANGED <<size, items, stash, item, index, backup, pc, adding>>
  BY DEF vars, Read, tableVars, stashVars, walkVars, mergeVars, callVars
<1>2. Stored' = Stored /\ Held' = Held
  BY <1>1, StoredUnchanged DEF Held
<1>3. CASE pc # "aborted"
  BY <1>2, <1>3, OwnersStay DEF handlerVars
<1>4. CASE pc = "aborted"
  BY <1>1, <1>4, AbortedHandlers DEF HandlersInv, HandlersTypeOK, NoMisuse, handlerVars, Block
<1> QED
  BY <1>3, <1>4

(* Nothing is stored, nothing is owned at first.                           *)
LEMMA HandlersInvInit ==
  HandlersInit => HandlersInv
<1> SUFFICES ASSUME HandlersInit PROVE HandlersInv
  OBVIOUS
<1>1. MapInv /\ pc = "null" /\ used = 0
  BY InvInit, CountInit, CallInit DEF HandlersInit, MapInv, Init
<1>2. Stored = {} /\ Held = {}
  BY <1>1, NothingStored DEF Held
<1>3. block = [b \in Block |-> "nobody"] /\ copy = [k \in Key |-> "none"]
  BY DEF HandlersInit
<1>4. {b \in Block : block[b] = "table"} = {} /\ {k \in Key : copy[k] # "none"} = {}
  BY <1>3
<1>5. OwnsItsValues /\ OwnsItsNames
  <2>1. {it.value : it \in Held} \ {0} = {} /\ NamesIn(Stored) = {}
    BY <1>2 DEF NamesIn
  <2> QED
    BY <1>2, <1>4, <2>1 DEF OwnsItsValues, OwnsItsNames
<1>6. HandlersTypeOK /\ OneAllocator
  BY <1>3 DEF HandlersTypeOK, OneAllocator, Owner, HandlersInit
<1> QED
  BY <1>1, <1>5, <1>6 DEF HandlersInv, MapHeld, NoMisuse, HandlersInit

(* Every step keeps the accounts of blocks and names.                      *)
LEMMA HandlersInvStep ==
  ASSUME HandlersInv, HandlersStep
  PROVE  HandlersInv'
<1>1. MapHeld'
  BY MapHeldStep, HandlersParts
<1>2. CASE UNCHANGED <<vars, handlerVars>>
  BY <1>1, <1>2, NothingReleased
<1>3. CASE HandlersNext
  <2>1. ASSUME UNCHANGED handlerVars, Halted \/ \E k \in Key : Read(k) PROVE HandlersInv'
    BY <1>1, <2>1, NothingReleased DEF Halted
  <2> QED
    BY <1>1, <1>3, <2>1, SetHandlers, DeleteReleases, RemoveReleases, ReplaceReleases,
       WriteNewCopies, DrainDoneCopies, ClientFrees, MovesOwnNothing DEF HandlersNext
<1> QED
  BY <1>2, <1>3 DEF HandlersStep

(* The accounts of blocks and names hold in every state.                   *)
THEOREM HandlersInvariance == HandlersSpec => []HandlersInv
<1>1. HandlersInv /\ [HandlersNext]_<<vars, handlerVars>> => HandlersInv'
  BY HandlersInvStep DEF HandlersStep
<1> QED
  BY <1>1, HandlersInvInit, PTL DEF HandlersSpec

(* The free handler is called exactly once for every value that leaves the *)
(* table: the table owns exactly the blocks its entries hold, one each, in *)
(* the table, the stash, the hand of a walk or the backup of a merge.      *)
THEOREM OwnsItsValuesAlways == HandlersSpec => []OwnsItsValues
<1>1. HandlersInv => OwnsItsValues
  BY DEF HandlersInv
<1> QED
  BY <1>1, HandlersInvariance, PTL

(* Every entry has its copy of the key, no entry that is gone has left     *)
(* one, and a deleted table none.                                          *)
THEOREM OwnsItsNamesAlways == HandlersSpec => []OwnsItsNames
<1>1. HandlersInv => OwnsItsNames
  BY DEF HandlersInv
<1> QED
  BY <1>1, HandlersInvariance, PTL

(* No block is freed twice, no name by a handler that has not made it,     *)
(* provided that the client changes handlers on an empty table only.       *)
THEOREM NoMisuseEver == HandlersSpec => []NoMisuse
<1>1. HandlersInv => NoMisuse
  BY DEF HandlersInv
<1> QED
  BY <1>1, HandlersInvariance, PTL

(***************************************************************************)
(* With handlers the hashtable is the same map.                            *)
(***************************************************************************)

(* Setting handlers does not show, and neither does the abort of an        *)
(* inconsistent pair of them.                                              *)
LEMMA HandlersMapStep ==
  ASSUME HandlersInv, HandlersStep
  PROVE  [Map!MapNext]_(Map!mapVars)
<1>1. CASE pc # "aborted" /\ [Next]_vars
  BY <1>1, MapStep, HandlersParts
<1>2. ASSUME NEW dup \in BOOLEAN, NEW free \in BOOLEAN, NEW h \in Hashers,
             ValueSetKeyHandler(dup, free, h)
      PROVE  UNCHANGED Map!mapVars
  <2>1. /\ pc = "idle" /\ pc' \in {"idle", "aborted"}
        /\ UNCHANGED <<size, items, stash, item, index, backup, adding, ret>>
    BY <1>2 DEF ValueSetKeyHandler, HandlersMayChange, Abort, stashVars, walkVars, mergeVars,
       callVars
  <2>2. Stored' = Stored
    BY <2>1, StoredUnchanged
  <2>3. Entries' = Entries
    BY <2>1, <2>2 DEF Entries, Live
  <2> QED
    BY <2>1, <2>3 DEF Map!mapVars
<1>3. CASE pc = "aborted"
  <2>1. UNCHANGED vars
    BY <1>3 DEF HandlersStep, HandlersNext, HandlersNew, HandlersDelete, ValueSetValueHandler,
       ValueIsMalloc, ValueSetKeyHandler, HandlersMayChange, HandlersRemove, HandlersReplace,
       HandlersWriteNew, HandlersDrainDone, ClientFree, AddStep, DrainStep, DrainDone,
       PlaceFree, PlaceTaken, WalkFree, WalkKick, StashItem, StashFull, Count, Grow,
       GrowRefused, GrowNoMemory, MergeStep, MergeDone, Return, New, Delete, Read, Remove,
       Replace, WriteNew, StartAdd, Halted
  <2>2. UNCHANGED <<size, items, stash, item, index, backup, adding, ret, pc>>
    BY <2>1 DEF vars
  <2>3. Entries' = Entries
    BY <2>2, StoredUnchanged DEF Entries, Live
  <2> QED
    BY <2>2, <2>3 DEF Map!mapVars
<1> QED
  BY <1>1, <1>2, <1>3, HandlersSteps

(* The hashtable implements the map of coucal.h with handlers too, also    *)
(* when the hash handler of an empty table is replaced.                    *)
THEOREM HandlersImplementMap == HandlersSpec => ImplementsMap
<1>1. HandlersInit => Map!MapInit
  BY MapInitial DEF HandlersInit
<1>2. HandlersInv /\ [HandlersNext]_<<vars, handlerVars>> => [Map!MapNext]_(Map!mapVars)
  BY HandlersMapStep DEF HandlersStep
<1> QED
  BY <1>1, <1>2, HandlersInvariance, PTL DEF HandlersSpec, ImplementsMap, Map!MapSpec
==============================================================================
