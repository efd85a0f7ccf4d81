-------------------------- MODULE CoucalCountProofs --------------------------
(***************************************************************************)
(* What every step of module Coucal does to the set of stored items, and   *)
(* what follows from it: coucal_nitems() is their number, and no assertion *)
(* that guards against an internal error can fail.                         *)
(***************************************************************************)
EXTENDS CoucalProofs

(***************************************************************************)
(* The stored items.                                                       *)
(***************************************************************************)
InTable(it) == \E p \in 0 .. size - 1 : Live(items[p]) /\ it = items[p]
InStash(it) == \E j \in StashIndex : Live(stash[j]) /\ it = stash[j]
InBackup(it) == \E j \in StashIndex : Pending(j) /\ it = backup[j]
InHand(it) == Live(item) /\ it = item

(* The four places where an item can be.                                   *)
LEMMA InStored ==
  \A it : it \in Stored <=> InTable(it) \/ InStash(it) \/ InBackup(it) \/ InHand(it)
BY DEF Stored, TableItems, StashItems, BackupItems, HandItems, InTable, InStash,
       InBackup, InHand

(* The same, of the next state.                                            *)
LEMMA InStoredNext ==
  \A it : it \in Stored' <=> InTable(it)' \/ InStash(it)' \/ InBackup(it)' \/ InHand(it)'
BY DEF Stored, TableItems, StashItems, BackupItems, HandItems, InTable, InStash,
       InBackup, InHand

(* What is stored are items: they have a name and a value.                 *)
LEMMA StoredAreItems ==
  ASSUME TypeOK
  PROVE  \A it \in Stored : it \in Item /\ it.name \in Key /\ it.value \in Value
<1> SUFFICES ASSUME NEW it \in Stored PROVE it \in Item /\ it.name \in Key /\ it.value \in Value
  OBVIOUS
<1>1. ASSUME InTable(it) PROVE it \in Slot /\ Live(it)
  BY <1>1 DEF InTable, TypeOK
<1>2. ASSUME InStash(it) \/ InBackup(it) PROVE it \in Slot /\ Live(it)
  BY <1>2 DEF InStash, InBackup, Pending, TypeOK
<1>3. ASSUME InHand(it) PROVE it \in Slot /\ Live(it)
  BY <1>3 DEF InHand, TypeOK
<1> QED
  BY <1>1, <1>2, <1>3, InStored, LiveIsItem

(* At most one stored item has a given name.                               *)
LEMMA StoredOnce ==
  ASSUME NoKeyTwice
  PROVE  \A a, b \in Stored : a.name = b.name => a = b
<1> SUFFICES ASSUME NEW a \in Stored, NEW b \in Stored, a.name = b.name PROVE a = b
  OBVIOUS
<1>1. ASSUME InTable(a), InTable(b) PROVE a = b
  BY <1>1 DEF NoKeyTwice, Distinct, InTable
<1>2. ASSUME InStash(a), InStash(b) PROVE a = b
  BY <1>2 DEF NoKeyTwice, Distinct, InStash
<1>3. ASSUME InBackup(a), InBackup(b) PROVE a = b
  BY <1>3 DEF NoKeyTwice, Distinct, InBackup, Pending
<1>4. ASSUME NEW c, NEW d, InTable(c), InStash(d) \/ InBackup(d) \/ InHand(d)
      PROVE  c.name # d.name
  BY <1>4 DEF NoKeyTwice, Distinct, InTable, InStash, InBackup, InHand, Pending
<1>5. ASSUME NEW c, NEW d, InStash(c), InBackup(d) \/ InHand(d)
      PROVE  c.name # d.name
  BY <1>5 DEF NoKeyTwice, Distinct, InStash, InBackup, InHand, Pending
<1>6. ASSUME NEW c, NEW d, InBackup(c), InHand(d)
      PROVE  c.name # d.name
  BY <1>6 DEF NoKeyTwice, Distinct, InBackup, InHand, Pending
<1> QED
  BY <1>1, <1>2, <1>3, <1>4, <1>5, <1>6, InStored DEF InHand

(* A step that leaves every place alone leaves the stored items.           *)
LEMMA StoredUnchanged ==
  ASSUME UNCHANGED <<size, items, stash, item, index, backup>>
  PROVE  Stored' = Stored
BY DEF Stored, TableItems, StashItems, BackupItems, HandItems, Pending, Live

(* A placement or a kick: the item in hand and what is at position p       *)
(* change places.                                                          *)
LEMMA StoredSwapped ==
  ASSUME TypeOK, NEW p \in 0 .. size - 1,
         items' = [items EXCEPT ![p] = item], item' = items[p],
         UNCHANGED <<size, stash, index, backup>>
  PROVE  Stored' = Stored
<1>1. \A q \in 0 .. size - 1 : items'[q] = IF q = p THEN item ELSE items[q]
  BY DEF TypeOK
<1>2. \A it : InStash(it)' <=> InStash(it)
  BY DEF InStash, Live
<1>3. \A it : InBackup(it)' <=> InBackup(it)
  BY DEF InBackup, Pending, Live
<1>4. \A it : InTable(it)' \/ InHand(it)' <=> InTable(it) \/ InHand(it)
  BY <1>1 DEF InTable, InHand, Live
<1>5. \A it : it \in Stored' <=> it \in Stored
  BY <1>2, <1>3, <1>4, InStored, InStoredNext
<1> QED
  BY <1>5

(* An item of the stash that is drained is stored in the table instead.    *)
LEMMA StoredDrainStep ==
  ASSUME TypeOK, Control, DrainStep
  PROVE  Stored' = Stored
<1>1. UNCHANGED <<size, item, backup>>
  BY DEF DrainStep, walkVars, mergeVars
<1>2. \A j \in StashIndex : ~Live(backup[j])
  BY NothingPending DEF Control, InAddItem, DrainStep
<1>3. \A it : ~InBackup(it) /\ ~InBackup(it)'
  BY <1>1, <1>2 DEF InBackup, Pending, Live
<1>4. \A it : InHand(it)' <=> InHand(it)
  BY <1>1 DEF InHand, Live
<1>5. \A it : InTable(it)' \/ InStash(it)' <=> InTable(it) \/ InStash(it)
  <2>1. CASE UNCHANGED <<items, stash, stash_size>>
    BY <1>1, <2>1 DEF InTable, InStash, Live
  <2>2. CASE Live(stash[index]) /\ \E p \in 0 .. size - 1 : IsFree(p) /\ Home(p)
    <3>1. index \in StashIndex
      BY DrainHome
    <3>2. PICK p \in 0 .. size - 1 :
            /\ ~Live(items[p])
            /\ items' = [items EXCEPT ![p] = stash[index]]
            /\ stash' = [stash EXCEPT ![index] = NoItem]
      BY <2>2 DEF Home, IsFree, Live
    <3>3. \A q \in 0 .. size - 1 : items'[q] = IF q = p THEN stash[index] ELSE items[q]
      BY <3>2 DEF TypeOK
    <3>4. \A j \in StashIndex : stash'[j] = IF j = index THEN NoItem ELSE stash[j]
      BY <3>2 DEF TypeOK
    <3> QED
      BY <1>1, <2>2, <3>1, <3>2, <3>3, <3>4 DEF InTable, InStash, Live
  <2> QED
    BY <2>1, <2>2, DrainHome
<1>6. \A it : it \in Stored' <=> it \in Stored
  BY <1>3, <1>4, <1>5, InStored, InStoredNext
<1> QED
  BY <1>6

(* The item to add is stored when it is taken in hand, after the drain.    *)
LEMMA StoredDrainDone ==
  ASSUME TypeOK, Control, DrainDone
  PROVE  Stored' = Stored \cup {adding} /\ item' = adding /\ Live(adding)
<1>1. UNCHANGED <<size, items, stash, backup>> /\ item' = adding /\ pc = "drain"
  BY DEF DrainDone, tableVars, mergeVars
<1>2. item = NoItem /\ Live(adding)
  BY <1>1 DEF Control, InAddItem
<1>3. \A j \in StashIndex : ~Live(backup[j])
  BY NothingPending DEF Control, InAddItem, DrainDone
<1>4. \A it : ~InBackup(it) /\ ~InBackup(it)'
  BY <1>1, <1>3 DEF InBackup, Pending, Live
<1>5. \A it : InTable(it)' <=> InTable(it)
  BY <1>1 DEF InTable, Live
<1>6. \A it : InStash(it)' <=> InStash(it)
  BY <1>1 DEF InStash, Live
<1>7. \A it : ~InHand(it) /\ (InHand(it)' <=> it = adding)
  BY <1>1, <1>2 DEF InHand, Live
<1>8. \A it : it \in Stored' <=> it \in Stored \/ it = adding
  BY <1>4, <1>5, <1>6, <1>7, InStored, InStoredNext
<1> QED
  BY <1>1, <1>2, <1>8

(* Placements and kicks store the same items elsewhere.                    *)
LEMMA StoredPlaced ==
  ASSUME TypeOK, Control, CuckooPlaced, PlaceFree \/ WalkFree \/ WalkKick
  PROVE  Stored' = Stored
<1>1. ASSUME PlaceFree PROVE Stored' = Stored
  <2>1. item.name \in Key /\ size \in TableSizes
    BY <1>1, LiveIsItem DEF PlaceFree, Control, InAddItem, TypeOK
  <2>2. PICK p \in 0 .. size - 1 : IsFree(p) /\ PutItem(p)
    BY <1>1, <2>1, PositionsInRange DEF PlaceFree
  <2> QED
    BY <1>1, <2>2, StoredSwapped DEF PlaceFree, PutItem, IsFree, stashVars, mergeVars
<1>2. ASSUME WalkFree PROVE Stored' = Stored
  <2>1. PICK p \in 0 .. size - 1 : IsFree(p) /\ PutItem(p)
    BY <1>2, WalkPosition DEF WalkFree
  <2> QED
    BY <1>2, <2>1, StoredSwapped DEF WalkFree, PutItem, IsFree, stashVars, mergeVars
<1>3. ASSUME WalkKick PROVE Stored' = Stored
  <2>1. PICK p \in 0 .. size - 1 :
          items' = [items EXCEPT ![p] = item] /\ item' = items[p]
    BY <1>3, WalkKicks
  <2> QED
    BY <1>3, <2>1, StoredSwapped DEF WalkKick, stashVars, mergeVars
<1> QED
  BY <1>1, <1>2, <1>3

(* An emergency stashing stores the item in hand in the stash.             *)
LEMMA StoredStashItem ==
  ASSUME TypeOK, StashInv, StashItem
  PROVE  Stored' = Stored
<1>1. PICK n \in StashIndex : stash[n] = NoItem /\ stash' = [stash EXCEPT ![n] = item]
  BY StashItemSlot DEF StashInv
<1>2. UNCHANGED <<size, items, index, backup>> /\ item' = NoItem
  BY DEF StashItem, tableVars, mergeVars
<1>3. \A j \in StashIndex : stash'[j] = IF j = n THEN item ELSE stash[j]
  BY <1>1 DEF TypeOK
<1>4. \A it : InTable(it)' <=> InTable(it)
  BY <1>2 DEF InTable, Live
<1>5. \A it : InBackup(it)' <=> InBackup(it)
  BY <1>2 DEF InBackup, Pending, Live
<1>6. \A it : InStash(it)' \/ InHand(it)' <=> InStash(it) \/ InHand(it)
  BY <1>1, <1>2, <1>3 DEF InStash, InHand, Live
<1>7. \A it : it \in Stored' <=> it \in Stored
  BY <1>4, <1>5, <1>6, InStored, InStoredNext
<1> QED
  BY <1>7

(* The doubling moves the items of the table inside the table, and those   *)
(* of the stash to what is to be merged.                                   *)
LEMMA StoredGrow ==
  ASSUME TypeOK, Control, Grow
  PROVE  Stored' = Stored
<1>1. size \in TableSizes /\ item = NoItem /\ return_to # "merge" /\ index = 0
  BY DEF Grow, Control, InAddItem, TypeOK
<1>2. \A j \in StashIndex : ~Live(backup[j])
  BY <1>1, NothingPending
<1>3. size' = 2 * size /\ items' = Doubled /\ item' = NoItem /\ index' = 0
  BY <1>1 DEF Grow
<1>4. \A it : ~InHand(it) /\ ~InHand(it)'
  BY <1>1, <1>3 DEF InHand, Live
<1>5. \A it : InTable(it)' <=> InTable(it)
  <2>1. ASSUME NEW it, InTable(it)' PROVE InTable(it)
    <3>1. PICK q \in 0 .. 2 * size - 1 : Live(Doubled[q]) /\ it = Doubled[q]
      BY <1>3, <2>1 DEF InTable, Live
    <3>2. PICK p \in 0 .. size - 1 : q = p \/ q = p + size
      BY <1>1, DoubledTable
    <3>3. Doubled[q] \in {NoItem, items[p]}
      BY <1>1, <3>2, DoubledTable
    <3> QED
      BY <3>1, <3>3 DEF InTable, Live
  <2>2. ASSUME NEW it, InTable(it) PROVE InTable(it)'
    <3>1. PICK p \in 0 .. size - 1 : Live(items[p]) /\ it = items[p]
      BY <2>2 DEF InTable
    <3>2. \E q \in 0 .. 2 * size - 1 : Doubled[q] = items[p]
      BY <1>1, DoubledTable
    <3> QED
      BY <1>3, <3>1, <3>2 DEF InTable, Live
  <2> QED
    BY <2>1, <2>2
<1>6. \A it : InStash(it)' \/ InBackup(it)' <=> InStash(it) \/ InBackup(it)
  <2>1. CASE UNCHANGED <<stash, backup>>
    BY <1>1, <1>3, <2>1 DEF InStash, InBackup, Pending, Live
  <2>2. CASE backup' = stash /\ stash' = EmptyStash
    <3>1. \A it : ~InStash(it)'
      BY <2>2 DEF InStash, EmptyStash, Live
    <3>2. \A it : ~InBackup(it)
      BY <1>2 DEF InBackup, Pending
    <3>3. \A j \in StashIndex : Pending(j)' <=> Live(stash[j])
      BY <1>3, <2>2 DEF Pending, Live, StashIndex
    <3>4. \A it : InBackup(it)' <=> InStash(it)
      BY <2>2, <3>3 DEF InBackup, InStash
    <3> QED
      BY <3>1, <3>2, <3>4
  <2> QED
    BY <2>1, <2>2 DEF Grow, ResetStash, mergeVars, stashVars
<1>7. \A it : it \in Stored' <=> it \in Stored
  BY <1>4, <1>5, <1>6, InStored, InStoredNext
<1> QED
  BY <1>7

(* An item of the backup is taken in hand: it is stored once.              *)
LEMMA StoredMergeStep ==
  ASSUME TypeOK, Control, MergeStep
  PROVE  Stored' = Stored
<1>1. index \in StashIndex /\ index \in Nat
  BY ConstantsAssumption DEF TypeOK, MergeStep, MergeEnd, StashIndex
<1>2. UNCHANGED <<size, items, stash, backup>> /\ index' = index + 1 /\ item = NoItem
  BY DEF MergeStep, Control, InAddItem, tableVars, stashVars, mergeVars
<1>3. \A j \in StashIndex : Pending(j) <=> Pending(j)' \/ (j = index /\ Live(backup[j]))
  BY <1>1, <1>2 DEF Pending, Live, StashIndex
<1>4. \A it : InTable(it)' <=> InTable(it)
  BY <1>2 DEF InTable, Live
<1>5. \A it : InStash(it)' <=> InStash(it)
  BY <1>2 DEF InStash, Live
<1>6. item' = IF Live(backup[index]) THEN backup[index] ELSE NoItem
  BY <1>2 DEF MergeStep, Live
<1>7. \A it : InBackup(it)' \/ InHand(it)' <=> InBackup(it) \/ InHand(it)
  BY <1>1, <1>2, <1>3, <1>6 DEF InBackup, InHand, Live
<1>8. \A it : it \in Stored' <=> it \in Stored
  BY <1>4, <1>5, <1>7, InStored, InStoredNext
<1> QED
  BY <1>8

(* the merge reads all of the backup                                       *)
BackupExtent == \A j \in StashIndex : j >= old_extent => backup[j] = NoItem

(* The merge ends when nothing of the backup is pending.                   *)
LEMMA StoredMergeDone ==
  ASSUME TypeOK, Control, BackupExtent, MergeDone
  PROVE  Stored' = Stored
<1>1. UNCHANGED <<size, items, stash, item>> /\ backup' = EmptyStash
  BY DEF MergeDone, tableVars, stashVars
<1>2. \A it : ~InBackup(it)'
  BY <1>1 DEF InBackup, Pending, EmptyStash, Live
<1>3. \A it : ~InBackup(it)
  BY DEF InBackup, Pending, BackupExtent, Live, MergeDone, MergeEnd
<1>4. \A it : InTable(it)' <=> InTable(it)
  BY <1>1 DEF InTable, Live
<1>5. \A it : InStash(it)' <=> InStash(it)
  BY <1>1 DEF InStash, Live
<1>6. \A it : InHand(it)' <=> InHand(it)
  BY <1>1 DEF InHand, Live
<1>7. \A it : it \in Stored' <=> it \in Stored
  BY <1>2, <1>3, <1>4, <1>5, <1>6, InStored, InStoredNext
<1> QED
  BY <1>7

(* What the steps of an add store: the item to add, once the drain is      *)
(* over, and nothing else; nothing is lost.                                *)
LEMMA StoredAddStep ==
  ASSUME TypeOK, Control, StashInv, CuckooPlaced, BackupExtent, AddStep
  PROVE  IF pc = "drain" /\ pc' # "drain" THEN Stored' = Stored \cup {adding}
                                         ELSE Stored' = Stored
<1>1. CASE DrainDone
  BY <1>1, StoredDrainDone DEF DrainDone
<1>2. CASE DrainStep
  BY <1>2, StoredDrainStep DEF DrainStep
<1>3. CASE PlaceTaken \/ StashFull \/ Count \/ GrowRefused \/ GrowNoMemory \/ Return
  <2>1. UNCHANGED <<size, items, stash, item, index, backup>> /\ pc # "drain"
    BY <1>3 DEF PlaceTaken, StashFull, Count, GrowRefused, GrowNoMemory, Return, Abort,
                tableVars, stashVars, walkVars, mergeVars
  <2> QED
    BY <2>1, StoredUnchanged
<1>4. CASE PlaceFree \/ WalkFree \/ WalkKick
  BY <1>4, StoredPlaced DEF PlaceFree, WalkFree, WalkKick
<1>5. CASE StashItem \/ Grow \/ MergeStep \/ MergeDone
  BY <1>5, StoredStashItem, StoredGrow, StoredMergeStep, StoredMergeDone
     DEF StashItem, Grow, MergeStep, MergeDone
<1> QED
  BY <1>1, <1>2, <1>3, <1>4, <1>5 DEF AddStep

(* The beginning of an add stores the item at once if there is nothing to  *)
(* drain.                                                                  *)
LEMMA StoredStartAdd ==
  ASSUME TypeOK, Control, NEW k \in Key, NEW v \in Value, NEW r, StartAdd(k, v, r)
  PROVE  /\ pc' \in {"drain", "place"}
         /\ Stored' = IF pc' = "drain" THEN Stored ELSE Stored \cup {adding'}
<1>1. /\ UNCHANGED <<size, items, stash, index, backup>> /\ item = NoItem
      /\ adding' = ItemOf(k, v)
      /\ \/ pc' = "drain" /\ item' = NoItem
         \/ pc' = "place" /\ item' = ItemOf(k, v)
  BY DEF StartAdd, Control, InAddItem, tableVars, stashVars, mergeVars
<1>2. Live(ItemOf(k, v))
  BY ItemOfIsItem, ItemIsLive
<1>3. CASE pc' = "drain"
  BY <1>1, <1>3, StoredUnchanged
<1>4. CASE pc' = "place"
  <2>1. item' = ItemOf(k, v)
    BY <1>1, <1>4
  <2>2. \A it : InTable(it)' <=> InTable(it)
    BY <1>1 DEF InTable, Live
  <2>3. \A it : InStash(it)' <=> InStash(it)
    BY <1>1 DEF InStash, Live
  <2>4. \A it : InBackup(it)' <=> InBackup(it)
    BY <1>1 DEF InBackup, Pending, Live
  <2>5. \A it : ~InHand(it) /\ (InHand(it)' <=> it = adding')
    BY <1>1, <1>2, <2>1 DEF InHand, Live
  <2>6. \A it : it \in Stored' <=> it \in Stored \/ it = adding'
    BY <2>2, <2>3, <2>4, <2>5, InStored, InStoredNext
  <2> QED
    BY <1>1, <1>4, <2>6
<1> QED
  BY <1>1, <1>3, <1>4

(***************************************************************************)
(* The calls that add nothing.                                             *)
(***************************************************************************)
ItemsOf(slot) == IF Live(slot) THEN {slot} ELSE {}

(* A table slot that is written or emptied: its item is stored no more.    *)
LEMMA StoredTableSlot ==
  ASSUME TypeOK, NoKeyTwice, NEW p \in 0 .. size - 1, Live(items[p]), NEW new \in Slot,
         items' = [items EXCEPT ![p] = new],
         UNCHANGED <<size, stash, item, index, backup>>
  PROVE  /\ items[p] \in Stored
         /\ Stored' = (Stored \ {items[p]}) \cup ItemsOf(new)
<1>1. \A q \in 0 .. size - 1 : items'[q] = IF q = p THEN new ELSE items[q]
  BY DEF TypeOK
<1>2. \A it : InStash(it)' <=> InStash(it) /\ it # items[p]
  BY DEF InStash, Live, NoKeyTwice, Distinct
<1>3. \A it : InBackup(it)' <=> InBackup(it) /\ it # items[p]
  BY DEF InBackup, Pending, Live, NoKeyTwice, Distinct
<1>4. \A it : InHand(it)' <=> InHand(it) /\ it # items[p]
  BY DEF InHand, Live, NoKeyTwice, Distinct
<1>5. \A q \in 0 .. size - 1 : q # p /\ Live(items[q]) => items[q] # items[p]
  BY DEF NoKeyTwice, Distinct
<1>6. \A it : InTable(it)' <=> (InTable(it) /\ it # items[p]) \/ (Live(new) /\ it = new)
  BY <1>1, <1>5 DEF InTable, Live
<1>7. \A it : it \in Stored' <=> (it \in Stored /\ it # items[p]) \/ (Live(new) /\ it = new)
  BY <1>2, <1>3, <1>4, <1>6, InStored, InStoredNext
<1>8. items[p] \in Stored
  BY InStored DEF InTable
<1> QED
  BY <1>7, <1>8 DEF ItemsOf

(* The same of a stash slot.                                               *)
LEMMA StoredStashSlot ==
  ASSUME TypeOK, NoKeyTwice, NEW j \in StashIndex, Live(stash[j]), NEW new \in Slot,
         stash' = [stash EXCEPT ![j] = new],
         UNCHANGED <<size, items, item, index, backup>>
  PROVE  /\ stash[j] \in Stored
         /\ Stored' = (Stored \ {stash[j]}) \cup ItemsOf(new)
<1>1. \A l \in StashIndex : stash'[l] = IF l = j THEN new ELSE stash[l]
  BY DEF TypeOK
<1>2. \A it : InTable(it)' <=> InTable(it) /\ it # stash[j]
  BY DEF InTable, Live, NoKeyTwice, Distinct
<1>3. \A it : InBackup(it)' <=> InBackup(it) /\ it # stash[j]
  BY DEF InBackup, Pending, Live, NoKeyTwice, Distinct
<1>4. \A it : InHand(it)' <=> InHand(it) /\ it # stash[j]
  BY DEF InHand, Live, NoKeyTwice, Distinct
<1>5. \A l \in StashIndex : l # j /\ Live(stash[l]) => stash[l] # stash[j]
  BY DEF NoKeyTwice, Distinct
<1>6. \A it : InStash(it)' <=> (InStash(it) /\ it # stash[j]) \/ (Live(new) /\ it = new)
  BY <1>1, <1>5 DEF InStash, Live
<1>7. \A it : it \in Stored' <=> (it \in Stored /\ it # stash[j]) \/ (Live(new) /\ it = new)
  BY <1>2, <1>3, <1>4, <1>6, InStored, InStoredNext
<1>8. stash[j] \in Stored
  BY InStored DEF InStash
<1> QED
  BY <1>7, <1>8 DEF ItemsOf

(* The lookups, between two calls: a found slot holds the item of the key, *)
(* and a key that is not found is the name of nothing that is stored.      *)
LEMMA FoundInTable ==
  ASSUME TypeOK, NEW k \in Key, NEW p \in 0 .. size - 1, AtTable(k, p)
  PROVE  Live(items[p]) /\ items[p] \in Item /\ items[p].name = k /\ items[p] \in Stored
<1>1. Live(items[p]) /\ items[p].name = k
  BY DEF AtTable, Matches, Live
<1>2. items[p] \in Item
  BY <1>1, LiveIsItem DEF TypeOK
<1> QED
  BY <1>1, <1>2, InStored DEF InTable

(* The same in the stash.                                                  *)
LEMMA FoundInStash ==
  ASSUME TypeOK, NEW k \in Key, NEW j \in StashIndex, AtStash(k, j)
  PROVE  Live(stash[j]) /\ stash[j] \in Item /\ stash[j].name = k /\ stash[j] \in Stored
<1>1. Live(stash[j]) /\ stash[j].name = k
  BY DEF AtStash, Matches, Live
<1>2. stash[j] \in Item
  BY <1>1, LiveIsItem DEF TypeOK
<1> QED
  BY <1>1, <1>2, InStored DEF InStash

(* Between two calls the table and the stash hold everything.              *)
LEMMA StoredAtRest ==
  ASSUME TypeOK, Control, pc \in {"null", "idle"}
  PROVE  /\ item = NoItem
         /\ \A j \in StashIndex : ~Live(backup[j])
         /\ \A it \in Stored : InTable(it) \/ InStash(it)
<1>1. item = NoItem
  BY DEF Control, InAddItem
<1>2. \A j \in StashIndex : ~Live(backup[j])
  BY NothingPending DEF Control, InAddItem
<1> QED
  BY <1>1, <1>2, InStored DEF InBackup, InHand, Pending, Live

(* A lookup that finds nothing.                                            *)
LEMMA NotFoundNotStored ==
  ASSUME TypeOK, Control, StashInv, CuckooPlaced, pc = "idle", NEW k \in Key, NotFound(k)
  PROVE  k \notin NamesIn(Stored)
<1>1. /\ \A p \in 0 .. size - 1 : Live(items[p]) => items[p].name # k
      /\ \A j \in StashIndex : Live(stash[j]) => stash[j].name # k
  BY NotFoundIsNowhere
<1> QED
  BY <1>1, StoredAtRest DEF NamesIn, InTable, InStash

(* An item whose value is set is the item of the same name and that value. *)
LEMMA SetValueIs ==
  ASSUME NEW it \in Item, NEW v \in Value
  PROVE  /\ SetValue(it, v) = ItemOf(it.name, v)
         /\ ItemsOf(SetValue(it, v)) = {ItemOf(it.name, v)}
<1>1. SetValue(it, v) = ItemOf(it.name, v)
  BY DEF SetValue, ItemOf, Item
<1>2. Live(SetValue(it, v))
  BY SetValueIsItem, ItemIsLive
<1> QED
  BY <1>1, <1>2 DEF ItemsOf

(* coucal_read() tells what is stored.                                     *)
LEMMA StoredRead ==
  ASSUME Inv, NEW k \in Key, Read(k)
  PROVE  /\ Stored' = Stored
         /\ \/ \E it \in Stored : it.name = k /\ ret' = it.value
            \/ k \notin NamesIn(Stored) /\ ret' = NULL
<1>1. Stored' = Stored
  BY StoredUnchanged DEF Read, tableVars, stashVars, walkVars, mergeVars
<1>2. ASSUME NEW p \in 0 .. size - 1, AtTable(k, p), ret' = items[p].value
      PROVE  \E it \in Stored : it.name = k /\ ret' = it.value
  BY <1>2, FoundInTable DEF Inv
<1>3. ASSUME NEW j \in StashIndex, AtStash(k, j), ret' = stash[j].value
      PROVE  \E it \in Stored : it.name = k /\ ret' = it.value
  BY <1>3, FoundInStash DEF Inv
<1>4. ASSUME NotFound(k) PROVE k \notin NamesIn(Stored)
  BY <1>4, NotFoundNotStored DEF Inv, StashInv, Read
<1> QED
  BY <1>1, <1>2, <1>3, <1>4 DEF Read

(* A write to a stored key replaces its item.                              *)
LEMMA StoredReplace ==
  ASSUME Inv, NEW k \in Key, NEW v \in Value, Replace(k, v)
  PROVE  \E it \in Stored :
           it.name = k /\ Stored' = (Stored \ {it}) \cup {ItemOf(k, v)}
<1>1. UNCHANGED <<size, item, index, backup>>
  BY DEF Replace, walkVars, mergeVars
<1>2. ASSUME NEW p \in 0 .. size - 1, AtTable(k, p), UNCHANGED stash,
             items' = [items EXCEPT ![p] = SetValue(@, v)]
      PROVE  \E it \in Stored :
               it.name = k /\ Stored' = (Stored \ {it}) \cup {ItemOf(k, v)}
  <2>1. Live(items[p]) /\ items[p] \in Item /\ items[p].name = k
    BY <1>2, FoundInTable DEF Inv
  <2>2. SetValue(items[p], v) \in Slot
    BY <2>1, SetValueIsItem, ItemIsLive
  <2>3. items' = [items EXCEPT ![p] = SetValue(items[p], v)]
    BY <1>2
  <2>4. /\ items[p] \in Stored
        /\ Stored' = (Stored \ {items[p]}) \cup ItemsOf(SetValue(items[p], v))
    BY <1>1, <1>2, <2>1, <2>2, <2>3, StoredTableSlot DEF Inv
  <2> QED
    BY <2>1, <2>4, SetValueIs
<1>3. ASSUME NEW j \in StashIndex, AtStash(k, j), UNCHANGED items,
             stash' = [stash EXCEPT ![j] = SetValue(@, v)]
      PROVE  \E it \in Stored :
               it.name = k /\ Stored' = (Stored \ {it}) \cup {ItemOf(k, v)}
  <2>1. Live(stash[j]) /\ stash[j] \in Item /\ stash[j].name = k
    BY <1>3, FoundInStash DEF Inv
  <2>2. SetValue(stash[j], v) \in Slot
    BY <2>1, SetValueIsItem, ItemIsLive
  <2>3. stash' = [stash EXCEPT ![j] = SetValue(stash[j], v)]
    BY <1>3
  <2>4. /\ stash[j] \in Stored
        /\ Stored' = (Stored \ {stash[j]}) \cup ItemsOf(SetValue(stash[j], v))
    BY <1>1, <1>3, <2>1, <2>2, <2>3, StoredStashSlot DEF Inv
  <2> QED
    BY <2>1, <2>4, SetValueIs
<1> QED
  BY <1>2, <1>3 DEF Replace

(* An increment of a stored key replaces its item, and returns the sum.    *)
LEMMA StoredIncExisting ==
  ASSUME Inv, NEW k \in Key, NEW inc \in Increments, IncExisting(k, inc)
  PROVE  \E it \in Stored :
           /\ it.name = k
           /\ Stored' = (Stored \ {it}) \cup {ItemOf(k, (it.value + inc) % ValueMod)}
           /\ ret' = AsInt((it.value + inc) % ValueMod)
<1>1. UNCHANGED <<size, item, index, backup>>
  BY DEF IncExisting, walkVars, mergeVars
<1>2. ASSUME NEW p \in 0 .. size - 1, NEW v, AtTable(k, p), UNCHANGED stash,
             v = (items[p].value + inc) % ValueMod, ret' = AsInt(v),
             items' = [items EXCEPT ![p] = SetValue(@, v)]
      PROVE  \E it \in Stored :
               /\ it.name = k
               /\ Stored' = (Stored \ {it}) \cup {ItemOf(k, (it.value + inc) % ValueMod)}
               /\ ret' = AsInt((it.value + inc) % ValueMod)
  <2>1. Live(items[p]) /\ items[p] \in Item /\ items[p].name = k
    BY <1>2, FoundInTable DEF Inv
  <2>2. v \in Value
    BY <1>2, <2>1, SumIsValue DEF Item
  <2>3. SetValue(items[p], v) \in Slot
    BY <2>1, <2>2, SetValueIsItem, ItemIsLive
  <2>4. items' = [items EXCEPT ![p] = SetValue(items[p], v)]
    BY <1>2
  <2>5. /\ items[p] \in Stored
        /\ Stored' = (Stored \ {items[p]}) \cup ItemsOf(SetValue(items[p], v))
    BY <1>1, <1>2, <2>1, <2>3, <2>4, StoredTableSlot DEF Inv
  <2>6. ItemsOf(SetValue(items[p], v)) = {ItemOf(k, v)}
    BY <2>1, <2>2, SetValueIs
  <2> QED
    BY <1>2, <2>1, <2>5, <2>6
<1>3. ASSUME NEW j \in StashIndex, NEW v, AtStash(k, j), UNCHANGED items,
             v = (stash[j].value + inc) % ValueMod, ret' = AsInt(v),
             stash' = [stash EXCEPT ![j] = SetValue(@, v)]
      PROVE  \E it \in Stored :
               /\ it.name = k
               /\ Stored' = (Stored \ {it}) \cup {ItemOf(k, (it.value + inc) % ValueMod)}
               /\ ret' = AsInt((it.value + inc) % ValueMod)
  <2>1. Live(stash[j]) /\ stash[j] \in Item /\ stash[j].name = k
    BY <1>3, FoundInStash DEF Inv
  <2>2. v \in Value
    BY <1>3, <2>1, SumIsValue DEF Item
  <2>3. SetValue(stash[j], v) \in Slot
    BY <2>1, <2>2, SetValueIsItem, ItemIsLive
  <2>4. stash' = [stash EXCEPT ![j] = SetValue(stash[j], v)]
    BY <1>3
  <2>5. /\ stash[j] \in Stored
        /\ Stored' = (Stored \ {stash[j]}) \cup ItemsOf(SetValue(stash[j], v))
    BY <1>1, <1>3, <2>1, <2>3, <2>4, StoredStashSlot DEF Inv
  <2>6. ItemsOf(SetValue(stash[j], v)) = {ItemOf(k, v)}
    BY <2>1, <2>2, SetValueIs
  <2> QED
    BY <1>3, <2>1, <2>5, <2>6
<1> QED
  BY <1>2, <1>3 DEF IncExisting

(* A removal takes out the item of its key, or there is none.              *)
LEMMA StoredRemove ==
  ASSUME Inv, NEW k \in Key, Remove(k)
  PROVE  \/ /\ \E it \in Stored : it.name = k /\ Stored' = Stored \ {it}
            /\ used' = used - 1 /\ ret' = 1
            /\ CoucalAssert(used # 0, "used_not_zero", "idle")
         \/ /\ k \notin NamesIn(Stored) /\ Stored' = Stored
            /\ ret' = 0 /\ UNCHANGED <<used, pc, failure>>
<1>1. UNCHANGED <<size, item, index, backup>>
  BY DEF Remove, walkVars, mergeVars
<1>2. NoItem \in Slot /\ ItemsOf(NoItem) = {}
  BY DEF Slot, ItemsOf, Live
<1>3. ASSUME NEW p \in 0 .. size - 1, AtTable(k, p), UNCHANGED stash,
             items' = [items EXCEPT ![p] = NoItem]
      PROVE  \E it \in Stored : it.name = k /\ Stored' = Stored \ {it}
  <2>1. Live(items[p]) /\ items[p].name = k
    BY <1>3, FoundInTable DEF Inv
  <2>2. items[p] \in Stored /\ Stored' = (Stored \ {items[p]}) \cup ItemsOf(NoItem)
    BY <1>1, <1>2, <1>3, <2>1, StoredTableSlot DEF Inv
  <2> QED
    BY <1>2, <2>1, <2>2
<1>4. ASSUME NEW j \in StashIndex, AtStash(k, j), UNCHANGED items,
             stash' = WithHole(j)
      PROVE  \E it \in Stored : it.name = k /\ Stored' = Stored \ {it}
  <2>1. Live(stash[j]) /\ stash[j].name = k
    BY <1>4, FoundInStash DEF Inv
  <2>2. stash[j] \in Stored /\ Stored' = (Stored \ {stash[j]}) \cup ItemsOf(NoItem)
    BY <1>1, <1>2, <1>4, <2>1, StoredStashSlot DEF Inv, WithHole
  <2> QED
    BY <1>2, <2>1, <2>2
<1>5. ASSUME NotFound(k), UNCHANGED <<items, stashVars>>
      PROVE  k \notin NamesIn(Stored) /\ Stored' = Stored
  <2>1. k \notin NamesIn(Stored)
    BY <1>5, NotFoundNotStored DEF Inv, StashInv, Remove
  <2>2. Stored' = Stored
    BY <1>1, <1>5, StoredUnchanged DEF stashVars
  <2> QED
    BY <2>1, <2>2
<1> QED
  BY <1>3, <1>4, <1>5 DEF Remove, Discount, stashVars

(* A deletion takes out everything.                                        *)
LEMMA StoredDelete ==
  ASSUME TypeOK, Control, Delete
  PROVE  Stored' = {}
<1>1. item = NoItem /\ \A j \in StashIndex : ~Live(backup[j])
  BY StoredAtRest DEF Delete
<1>2. UNCHANGED <<item, index, backup>> /\ size' = 0 /\ stash' = EmptyStash
  BY DEF Delete, walkVars, mergeVars
<1>3. \A it : ~InTable(it)'
  BY <1>2 DEF InTable
<1>4. \A it : ~InStash(it)'
  BY <1>2 DEF InStash, EmptyStash, Live
<1>5. \A it : ~InBackup(it)' /\ ~InHand(it)'
  BY <1>1, <1>2 DEF InBackup, Pending, InHand, Live
<1> QED
  BY <1>3, <1>4, <1>5, InStoredNext

(* A creation stores nothing.                                              *)
LEMMA StoredNew ==
  ASSUME TypeOK, Control, NEW n \in NewSizes, NEW h \in Hashers, New(n, h)
  PROVE  Stored' = Stored
<1>1. UNCHANGED <<stash, item, index, backup>> /\ size = 0
  BY DEF New, Control, stashVars, walkVars, mergeVars
<1>2. \A p \in 0 .. size' - 1 : ~Live(items'[p])
  BY DEF New, Live
<1>3. \A it : ~InTable(it) /\ ~InTable(it)'
  BY <1>1, <1>2 DEF InTable, Live
<1>4. \A it : InStash(it)' <=> InStash(it)
  BY <1>1 DEF InStash, Live
<1>5. \A it : InBackup(it)' <=> InBackup(it)
  BY <1>1 DEF InBackup, Pending, Live
<1>6. \A it : InHand(it)' <=> InHand(it)
  BY <1>1 DEF InHand, Live
<1>7. \A it : it \in Stored' <=> it \in Stored
  BY <1>3, <1>4, <1>5, <1>6, InStored, InStoredNext
<1> QED
  BY <1>7

(***************************************************************************)
(* The count and the assertions.  The merge may stash items again: it does *)
(* not stash more than it took out, because what is stashed, in hand or    *)
(* still pending never outnumbers the old stash.                           *)
(***************************************************************************)
StoredNames == NamesIn(Stored)
HandCount == IF Live(item) THEN 1 ELSE 0
PendingSlots == {j \in StashIndex : Pending(j)}

MergeBounded ==
  return_to = "merge" /\ pc # "aborted" =>
    stash_size + HandCount + Cardinality(PendingSlots) <= old_size

Counted ==
  pc # "aborted" =>
    /\ IsFiniteSet(StoredNames)
    /\ Cardinality(StoredNames) = used + (IF Uncounted THEN 1 ELSE 0)

(* the strengthening of Inv                                                *)
CountInv == BackupExtent /\ MergeBounded /\ Counted /\ NoInternalError

(* The pending slots are finitely many.                                    *)
LEMMA PendingFinite ==
  IsFiniteSet(PendingSlots) /\ Cardinality(PendingSlots) \in Nat
<1>1. PendingSlots \in SUBSET StashIndex
  BY DEF PendingSlots
<1> QED
  BY <1>1, LiveStashFinite, FS_Subset, FS_CardinalityType

(* The names of a set with one more item, or with one item less of which   *)
(* there is no other of the same name.                                     *)
LEMMA NamesAdded ==
  ASSUME NEW S, NEW it
  PROVE  NamesIn(S \cup {it}) = NamesIn(S) \cup {it.name}
BY DEF NamesIn

(* An item taken out takes its name with it.                               *)
LEMMA NamesRemoved ==
  ASSUME NoKeyTwice, NEW it \in Stored
  PROVE  NamesIn(Stored \ {it}) = StoredNames \ {it.name}
BY StoredOnce DEF NamesIn, StoredNames

(* A step that stores the same names and counts the same.                  *)
LEMMA CountedSame ==
  ASSUME Counted, pc # "aborted" \/ pc' = "aborted", StoredNames' = StoredNames,
         UNCHANGED used, pc' # "aborted" => Uncounted' = Uncounted
  PROVE  Counted'
<1>1. CASE pc' = "aborted"
  BY <1>1 DEF Counted
<1>2. CASE pc' # "aborted"
  BY <1>2 DEF Counted
<1> QED
  BY <1>1, <1>2

(* There is nothing to count at first.                                     *)
LEMMA CountInit ==
  Init => CountInv
<1> SUFFICES ASSUME Init PROVE CountInv
  OBVIOUS
<1>1. \A it : it \notin Stored
  BY InStored DEF Init, InTable, InStash, InBackup, InHand, Pending, EmptyStash, Live
<1>2. StoredNames = {}
  BY <1>1 DEF StoredNames, NamesIn
<1>3. Counted
  BY <1>2, FS_EmptySet DEF Counted, Init, Uncounted
<1> QED
  BY <1>3 DEF CountInv, Init, BackupExtent, MergeBounded, NoInternalError, EmptyStash

(* Outside the merge its bound says nothing, and the backup is left alone. *)
LEMMA MergeElsewhere ==
  ASSUME BackupExtent, return_to' # "merge", UNCHANGED <<backup, old_extent>>
  PROVE  BackupExtent' /\ MergeBounded'
BY DEF BackupExtent, MergeBounded

(* A call that adds nothing keeps the count: the name removed is one that  *)
(* was counted, so that there is something to discount.                    *)
LEMMA CountNoAdd ==
  ASSUME Inv, CountInv, NoAdd
  PROVE  CountInv'
<1>1. /\ pc \in {"null", "idle"}
      /\ UNCHANGED <<return_to, backup, old_extent>>
  BY DEF NoAdd, Read, Remove, Replace, IncExisting, Delete, New, walkVars, mergeVars
<1>2. return_to = "count"
  BY <1>1 DEF Inv, Control, InAddItem, TypeOK
<1>3. BackupExtent' /\ MergeBounded'
  BY <1>1, <1>2, MergeElsewhere DEF CountInv
<1>4. ~Uncounted /\ IsFiniteSet(StoredNames) /\ Cardinality(StoredNames) = used
  BY <1>1 DEF Uncounted, Counted, CountInv, Inv, TypeOK
<1>5. ASSUME NEW k \in Key, Read(k) PROVE Counted' /\ NoInternalError'
  <2>1. UNCHANGED <<pc, used, failure>>
    BY <1>5 DEF Read
  <2>2. StoredNames' = StoredNames /\ ~Uncounted'
    BY <1>1, <1>5, <2>1, StoredRead DEF StoredNames, NamesIn, Uncounted
  <2> QED
    BY <1>1, <1>4, <2>1, <2>2 DEF Counted, CountInv, NoInternalError
<1>6. ASSUME NEW k \in Key, NEW it \in Stored, NEW v, it.name = k,
             Stored' = (Stored \ {it}) \cup {ItemOf(k, v)}
      PROVE  StoredNames' = StoredNames
  <2>1. NamesIn(Stored \ {it}) = StoredNames \ {k}
    BY <1>6, NamesRemoved DEF Inv
  <2>2. ItemOf(k, v).name = k
    BY DEF ItemOf
  <2>3. StoredNames' = (StoredNames \ {k}) \cup {k}
    BY <1>6, <2>1, <2>2, NamesAdded DEF StoredNames, NamesIn
  <2>4. k \in StoredNames
    BY <1>6 DEF StoredNames, NamesIn
  <2> QED
    BY <2>3, <2>4
<1>7. ASSUME NEW k \in Key, NEW v \in Written, Replace(k, v) PROVE Counted' /\ NoInternalError'
  <2>1. UNCHANGED <<pc, used, failure>> /\ v \in Value
    BY <1>7, ConstantsAssumption DEF Replace, Value
  <2>2. StoredNames' = StoredNames /\ ~Uncounted'
    BY <1>1, <1>6, <1>7, <2>1, StoredReplace DEF Uncounted
  <2> QED
    BY <1>1, <1>4, <2>1, <2>2 DEF Counted, CountInv, NoInternalError
<1>8. ASSUME NEW k \in Key, NEW inc \in Increments, IncExisting(k, inc)
      PROVE  Counted' /\ NoInternalError'
  <2>1. UNCHANGED <<pc, used, failure>>
    BY <1>8 DEF IncExisting
  <2>2. StoredNames' = StoredNames /\ ~Uncounted'
    BY <1>1, <1>6, <1>8, <2>1, StoredIncExisting DEF Uncounted
  <2> QED
    BY <1>1, <1>4, <2>1, <2>2 DEF Counted, CountInv, NoInternalError
<1>9. ASSUME NEW k \in Key, Remove(k) PROVE Counted' /\ NoInternalError'
  <2>1. CASE /\ k \notin NamesIn(Stored) /\ Stored' = Stored
             /\ ret' = 0 /\ UNCHANGED <<used, pc, failure>>
    <3>1. StoredNames' = StoredNames /\ ~Uncounted'
      BY <1>1, <2>1 DEF StoredNames, NamesIn, Uncounted
    <3> QED
      BY <1>1, <1>4, <2>1, <3>1 DEF Counted, CountInv, NoInternalError
  <2>2. CASE /\ \E it \in Stored : it.name = k /\ Stored' = Stored \ {it}
             /\ used' = used - 1 /\ ret' = 1
             /\ CoucalAssert(used # 0, "used_not_zero", "idle")
    <3>1. PICK it \in Stored : it.name = k /\ Stored' = Stored \ {it}
      BY <2>2
    <3>2. k \in StoredNames
      BY <3>1 DEF StoredNames, NamesIn
    <3>3. StoredNames' = StoredNames \ {k}
      BY <3>1, NamesRemoved DEF Inv, StoredNames, NamesIn
    <3>4. used # 0
      BY <1>4, <3>2, FS_EmptySet
    <3>5. pc' = "idle" /\ failure' = failure /\ used' = used - 1
      BY <2>2, <3>4 DEF CoucalAssert
    <3>6. IsFiniteSet(StoredNames') /\ Cardinality(StoredNames') = used'
      BY <1>4, <3>2, <3>3, <3>5, FS_RemoveElement
    <3>7. ~Uncounted'
      BY <3>5 DEF Uncounted
    <3> QED
      BY <3>5, <3>6, <3>7 DEF Counted, CountInv, NoInternalError, Inv, TypeOK
  <2> QED
    BY <1>9, <2>1, <2>2, StoredRemove
<1>10. ASSUME Delete PROVE Counted' /\ NoInternalError'
  <2>1. StoredNames' = {} /\ used' = 0 /\ ~Uncounted' /\ failure' = failure
    BY <1>10, StoredDelete DEF StoredNames, NamesIn, Delete, Uncounted, Inv
  <2> QED
    BY <2>1, FS_EmptySet DEF Counted, CountInv, NoInternalError
<1>11. ASSUME NEW n \in NewSizes, NEW h \in Hashers, New(n, h)
       PROVE  Counted' /\ NoInternalError'
  <2>1. UNCHANGED <<used, failure>> /\ pc' = "idle"
    BY <1>11 DEF New
  <2>2. StoredNames' = StoredNames /\ ~Uncounted'
    BY <1>11, <2>1, StoredNew DEF StoredNames, NamesIn, Uncounted, Inv
  <2> QED
    BY <1>4, <2>1, <2>2 DEF Counted, CountInv, NoInternalError, Inv, TypeOK
<1> QED
  BY <1>3, <1>5, <1>7, <1>8, <1>9, <1>10, <1>11 DEF NoAdd, CountInv

(* A new name is one more.                                                 *)
LEMMA NameCounted ==
  ASSUME IsFiniteSet(StoredNames), NEW it, it.name \notin StoredNames,
         Stored' = Stored \cup {it}
  PROVE  /\ IsFiniteSet(StoredNames')
         /\ Cardinality(StoredNames') = Cardinality(StoredNames) + 1
<1>1. StoredNames' = StoredNames \cup {it.name}
  BY NamesAdded DEF StoredNames, NamesIn
<1> QED
  BY <1>1, FS_AddElement

(* The beginning of an add: the item in hand is stored and not counted.    *)
LEMMA CountStartAdd ==
  ASSUME Inv, CountInv, NEW k \in Key, NEW v \in Value, NEW r, StartAdd(k, v, r)
  PROVE  CountInv'
<1>1. /\ pc = "idle" /\ return_to = "count"
      /\ UNCHANGED <<return_to, backup, old_extent, used, failure>>
  BY DEF StartAdd, Inv, Control, InAddItem, TypeOK, mergeVars
<1>2. BackupExtent' /\ MergeBounded' /\ NoInternalError'
  BY <1>1, MergeElsewhere DEF CountInv, NoInternalError
<1>3. ~Uncounted /\ IsFiniteSet(StoredNames) /\ Cardinality(StoredNames) = used
  BY <1>1 DEF Uncounted, Counted, CountInv, Inv, TypeOK
<1>4. k \notin StoredNames
  BY <1>1, NotFoundNotStored DEF StartAdd, Inv, StashInv, StoredNames
<1>5. adding'.name = k
  BY DEF StartAdd, ItemOf
<1>6. CASE pc' = "drain" /\ Stored' = Stored
  <2>1. StoredNames' = StoredNames /\ ~Uncounted'
    BY <1>6 DEF StoredNames, NamesIn, Uncounted
  <2> QED
    BY <1>1, <1>2, <1>3, <2>1 DEF CountInv, Counted, Inv, TypeOK
<1>7. CASE pc' = "place" /\ Stored' = Stored \cup {adding'}
  <2>1. IsFiniteSet(StoredNames') /\ Cardinality(StoredNames') = used' + 1
    BY <1>1, <1>3, <1>4, <1>5, <1>7, NameCounted
  <2>2. Uncounted'
    BY <1>1, <1>7 DEF Uncounted
  <2> QED
    BY <1>2, <2>1, <2>2 DEF CountInv, Counted
<1> QED
  BY <1>6, <1>7, StoredStartAdd DEF Inv

(* Steps outside the merge keep its bound trivially; in the merge an item  *)
(* goes from the pending slots to the hand, then to the table or to the    *)
(* stash.                                                                  *)
LEMMA MergeKept ==
  ASSUME BackupExtent, MergeBounded, TypeOK,
         UNCHANGED <<return_to, backup, old_extent, old_size, index>>,
         pc # "aborted" \/ pc' = "aborted",
         stash_size' \in Int, stash_size' + HandCount' <= stash_size + HandCount
  PROVE  BackupExtent' /\ MergeBounded'
<1>1. PendingSlots' = PendingSlots
  BY DEF PendingSlots, Pending, Live
<1>2. BackupExtent'
  BY DEF BackupExtent
<1>3. HandCount \in Int /\ HandCount' \in Int
  BY DEF HandCount
<1>4. ASSUME return_to' = "merge", pc' # "aborted"
      PROVE  stash_size' + HandCount' + Cardinality(PendingSlots') <= old_size'
  <2>1. stash_size + HandCount + Cardinality(PendingSlots) <= old_size
    BY <1>4 DEF MergeBounded
  <2>2. stash_size \in Int /\ old_size \in Int /\ Cardinality(PendingSlots) \in Int
    BY PendingFinite DEF TypeOK
  <2>3. old_size' = old_size /\ Cardinality(PendingSlots') = Cardinality(PendingSlots)
    BY <1>1
  <2>4. \A s, h, t, g, n, o \in Int : s + h <= t + g /\ t + g + n <= o => s + h + n <= o
    OBVIOUS
  <2>5. stash_size' + HandCount' + Cardinality(PendingSlots) <= old_size
    BY <1>3, <2>1, <2>2, <2>4
  <2> QED
    BY <2>3, <2>5
<1> QED
  BY <1>2, <1>4 DEF MergeBounded

(* The merge does not stash more than it takes out.                        *)
LEMMA MergeAddStep ==
  ASSUME Inv, CountInv, AddStep
  PROVE  BackupExtent' /\ MergeBounded'
<1> USE DEF HandCount
<1>1. CASE DrainStep \/ DrainDone
  <2>1. return_to' = return_to /\ UNCHANGED <<backup, old_extent>> /\ pc = "drain"
    BY <1>1 DEF DrainStep, DrainDone, walkVars, mergeVars
  <2>2. return_to # "merge"
    BY <2>1 DEF Inv, Control, InAddItem
  <2> QED
    BY <2>1, <2>2, MergeElsewhere DEF CountInv
<1>2. CASE PlaceFree \/ WalkFree
  <2>1. /\ UNCHANGED <<return_to, backup, old_extent, old_size, index, stash_size>>
        /\ item' = NoItem /\ pc # "aborted"
    BY <1>2 DEF PlaceFree, WalkFree, PutItem, stashVars, mergeVars
  <2> QED
    BY <2>1, MergeKept DEF CountInv, Inv, TypeOK, Live
<1>3. CASE PlaceTaken \/ StashFull \/ Count \/ GrowRefused \/ GrowNoMemory \/ Return
  <2>1. /\ UNCHANGED <<return_to, backup, old_extent, old_size, index, stash_size, item>>
        /\ pc # "aborted"
    BY <1>3 DEF PlaceTaken, StashFull, Count, GrowRefused, GrowNoMemory, Return,
                stashVars, walkVars, mergeVars
  <2> QED
    BY <2>1, MergeKept DEF CountInv, Inv, TypeOK, Live
<1>4. CASE WalkKick
  <2>1. /\ UNCHANGED <<return_to, backup, old_extent, old_size, index, stash_size>>
        /\ pc # "aborted"
    BY <1>4 DEF WalkKick, stashVars, mergeVars
  <2>2. Live(item)
    BY <1>4 DEF WalkKick, Inv, Control, InAddItem
  <2> QED
    BY <2>1, <2>2, MergeKept DEF CountInv, Inv, TypeOK
<1>5. CASE StashItem
  <2>1. /\ UNCHANGED <<return_to, backup, old_extent, old_size, index>>
        /\ stash_size' = stash_size + 1 /\ item' = NoItem
        /\ pc # "aborted" /\ Live(item)
    BY <1>5 DEF StashItem, Inv, Control, InAddItem, mergeVars
  <2> QED
    BY <2>1, MergeKept DEF CountInv, Inv, TypeOK, Live
<1>6. CASE Grow
  <2>1. return_to # "merge" /\ index = 0 /\ item = NoItem /\ UNCHANGED <<index, item>>
    BY <1>6 DEF Grow, Inv, Control, InAddItem, TypeOK
  <2>2. CASE stash_size = 0
    BY <1>6, <2>1, <2>2, MergeElsewhere DEF Grow, CountInv, mergeVars
  <2>3. CASE stash_size # 0
    <3>1. /\ backup' = stash /\ old_extent' = stash_extent /\ old_size' = stash_size
          /\ stash_size' = 0
      BY <1>6, <2>3 DEF Grow, ResetStash
    <3>2. BackupExtent'
      BY <3>1 DEF BackupExtent, Inv, StashCounted
    <3>3. PendingSlots' = LiveStash
      BY <2>1, <3>1 DEF PendingSlots, Pending, LiveStash, Live, StashIndex
    <3>4. Cardinality(PendingSlots') = old_size'
      BY <3>1, <3>3 DEF Inv, StashCounted
    <3>5. HandCount' = 0
      BY <2>1 DEF Live
    <3>6. old_size' \in Int
      BY <3>1 DEF Inv, TypeOK
    <3> HIDE DEF HandCount
    <3> QED
      BY <3>1, <3>2, <3>4, <3>5, <3>6 DEF MergeBounded
  <2> QED
    BY <2>2, <2>3
<1>7. CASE MergeStep
  <2>1. /\ UNCHANGED <<return_to, backup, old_extent, old_size, stash_size>>
        /\ index' = index + 1 /\ item = NoItem /\ pc # "aborted" /\ return_to = "merge"
    BY <1>7 DEF MergeStep, Inv, Control, InAddItem, stashVars, mergeVars
  <2>2. index \in StashIndex /\ index \in Nat
    BY <1>7, ConstantsAssumption DEF Inv, TypeOK, MergeStep, MergeEnd, StashIndex
  <2>3. BackupExtent'
    BY <2>1 DEF BackupExtent, CountInv
  <2>4. stash_size + Cardinality(PendingSlots) <= old_size
    BY <2>1, PendingFinite DEF CountInv, MergeBounded, Inv, TypeOK, Live
  <2>5. CASE backup[index] = NoItem
    <3>1. PendingSlots' = PendingSlots
      BY <2>1, <2>2, <2>5 DEF PendingSlots, Pending, Live, StashIndex
    <3>2. item' = NoItem
      BY <1>7, <2>1, <2>5 DEF MergeStep
    <3> QED
      BY <2>1, <2>3, <2>4, <3>1, <3>2, PendingFinite DEF MergeBounded, Inv, TypeOK, Live
  <2>6. CASE backup[index] # NoItem
    <3>1. PendingSlots' = PendingSlots \ {index} /\ index \in PendingSlots
      BY <2>1, <2>2, <2>6 DEF PendingSlots, Pending, Live, StashIndex
    <3>2. Cardinality(PendingSlots') = Cardinality(PendingSlots) - 1
      BY <3>1, PendingFinite, FS_RemoveElement
    <3>3. HandCount' = 1
      BY <1>7, <2>6 DEF MergeStep, Live
    <3> HIDE DEF HandCount
    <3> QED
      BY <2>1, <2>3, <2>4, <3>2, <3>3, PendingFinite DEF MergeBounded, Inv, TypeOK
  <2> QED
    BY <2>5, <2>6
<1>8. CASE MergeDone
  <2>1. backup' = EmptyStash /\ return_to' = "count"
    BY <1>8 DEF MergeDone
  <2>2. \A j \in StashIndex : EmptyStash[j] = NoItem
    BY DEF EmptyStash
  <2> QED
    BY <2>1, <2>2 DEF BackupExtent, MergeBounded
<1> QED
  BY <1>1, <1>2, <1>3, <1>4, <1>5, <1>6, <1>7, <1>8 DEF AddStep

(* The steps of an add keep the count, and their assertions hold: the      *)
(* kicked item and the items of the doubled table are at a position of     *)
(* theirs, and the stash is not larger after the merge.                    *)
LEMMA CountAddStep ==
  ASSUME Inv, CountInv, AddStep
  PROVE  CountInv'
<1>1. BackupExtent' /\ MergeBounded'
  BY MergeAddStep
<1>2. pc # "aborted"
  BY DEF AddStep, DrainStep, DrainDone, PlaceFree, PlaceTaken, WalkFree, WalkKick,
     StashItem, StashFull, Count, Grow, GrowRefused, GrowNoMemory, MergeStep, MergeDone,
     Return
<1>3. /\ IsFiniteSet(StoredNames)
      /\ Cardinality(StoredNames) = used + (IF Uncounted THEN 1 ELSE 0)
      /\ used \in Int
  BY <1>2 DEF CountInv, Counted, Inv, TypeOK
<1>4. ASSUME ~DrainDone PROVE StoredNames' = StoredNames
  <2>1. ~(pc = "drain" /\ pc' # "drain")
    BY <1>4 DEF AddStep, DrainStep, PlaceFree, PlaceTaken, WalkFree, WalkKick, StashItem,
       StashFull, Count, Grow, GrowRefused, GrowNoMemory, MergeStep, MergeDone, Return
  <2>2. Stored' = Stored
    BY <2>1, StoredAddStep DEF Inv, StashInv, CountInv
  <2> QED
    BY <2>2 DEF StoredNames, NamesIn
<1>5. CASE DrainDone
  <2>1. /\ UNCHANGED <<return_to, used, failure>> /\ pc = "drain" /\ pc' = "place"
    BY <1>5 DEF DrainDone
  <2>2. ~Uncounted /\ Uncounted'
    BY <2>1 DEF Uncounted, Inv, Control, InAddItem, TypeOK
  <2>3. Stored' = Stored \cup {adding} /\ Live(adding)
    BY <1>5, StoredDrainDone DEF Inv
  <2>4. item = NoItem /\ \A j \in StashIndex : ~Live(backup[j])
    BY <2>1, NothingPending DEF Inv, Control, InAddItem
  <2>5. adding.name \notin StoredNames
    <3>1. ASSUME NEW it \in Stored PROVE it.name # adding.name
      <4>1. InTable(it) \/ InStash(it)
        BY <2>4, InStored DEF InBackup, InHand, Pending, Live
      <4> QED
        BY <2>1, <2>3, <4>1 DEF Inv, NoKeyTwice, Distinct, InTable, InStash
    <3> QED
      BY <3>1 DEF StoredNames, NamesIn
  <2>6. IsFiniteSet(StoredNames') /\ Cardinality(StoredNames') = used + 1
    BY <1>3, <2>2, <2>3, <2>5, NameCounted
  <2>7. Counted' /\ NoInternalError'
    BY <2>1, <2>2, <2>6 DEF Counted, CountInv, NoInternalError
  <2> QED
    BY <1>1, <2>7 DEF CountInv
<1>6. CASE Count
  <2>1. used' = used + 1 /\ failure' = failure /\ Uncounted /\ ~Uncounted'
    BY <1>6 DEF Count, Uncounted
  <2>2. StoredNames' = StoredNames
    BY <1>4, <1>6 DEF Count, DrainDone
  <2>3. Counted' /\ NoInternalError'
    BY <1>3, <2>1, <2>2 DEF Counted, CountInv, NoInternalError
  <2> QED
    BY <1>1, <2>3 DEF CountInv
<1>7. ASSUME ~DrainDone, ~Count, UNCHANGED used, pc' # "aborted" => Uncounted' = Uncounted,
             NoInternalError'
      PROVE  CountInv'
  <2>1. Counted'
    BY <1>2, <1>4, <1>7, CountedSame DEF CountInv
  <2> QED
    BY <1>1, <1>7, <2>1 DEF CountInv
<1>8. CASE DrainStep \/ PlaceTaken \/ Return
  <2>1. ~DrainDone /\ ~Count /\ UNCHANGED <<used, failure, return_to>>
    BY <1>8 DEF DrainStep, PlaceTaken, Return, DrainDone, Count, walkVars
  <2>2. Uncounted' = Uncounted
    BY <1>8, <2>1 DEF DrainStep, PlaceTaken, Return, Uncounted
  <2> QED
    BY <1>7, <2>1, <2>2 DEF CountInv, NoInternalError
<1>9. CASE PlaceFree \/ WalkFree \/ StashItem
  <2>1. /\ ~DrainDone /\ ~Count /\ UNCHANGED <<used, failure, return_to>>
        /\ pc \in {"place", "walk", "stash"} /\ pc' = return_to
    BY <1>9 DEF PlaceFree, WalkFree, StashItem, PutItem, DrainDone, Count
  <2>2. Uncounted' = Uncounted
    BY <2>1 DEF Uncounted, Inv, TypeOK
  <2> QED
    BY <1>7, <2>1, <2>2 DEF CountInv, NoInternalError
<1>10. CASE WalkKick
  <2>1. ~DrainDone /\ ~Count /\ UNCHANGED <<used, return_to>> /\ pc = "walk"
    BY <1>10 DEF WalkKick, DrainDone, Count
  <2>2. pc' \in {"walk", "stash"} /\ failure' = failure
    BY <1>10, WalkKicks DEF Inv
  <2>3. Uncounted' = Uncounted
    BY <2>1, <2>2 DEF Uncounted
  <2> QED
    BY <1>7, <2>1, <2>2, <2>3 DEF CountInv, NoInternalError
<1>11. CASE StashFull \/ GrowRefused \/ GrowNoMemory
  <2>1. /\ ~DrainDone /\ ~Count /\ UNCHANGED used /\ pc' = "aborted"
        /\ failure' \in {"stash_collision", "acceptable_lg_size", "allocation_error"}
    BY <1>11 DEF StashFull, GrowRefused, GrowNoMemory, Abort, DrainDone, Count
  <2> QED
    BY <1>7, <2>1 DEF NoInternalError
<1>12. CASE Grow
  <2>1. ~DrainDone /\ ~Count /\ UNCHANGED used /\ pc = "grow"
    BY <1>12 DEF Grow, DrainDone, Count
  <2>2. pc' \in {"merge", "return"} /\ failure' = failure
    BY <1>12 DEF Grow, CoucalAssert, Inv, CuckooPlaced
  <2>3. Uncounted' = Uncounted
    BY <2>1, <2>2 DEF Uncounted
  <2> QED
    BY <1>7, <2>1, <2>2, <2>3 DEF CountInv, NoInternalError
<1>13. CASE MergeStep
  <2>1. /\ ~DrainDone /\ ~Count /\ UNCHANGED <<used, failure, return_to>>
        /\ pc = "merge" /\ pc' \in {"merge", "place"} /\ return_to = "merge"
    BY <1>13 DEF MergeStep, DrainDone, Count, Inv, Control
  <2>2. Uncounted' = Uncounted
    BY <2>1 DEF Uncounted
  <2> QED
    BY <1>7, <2>1, <2>2 DEF CountInv, NoInternalError
<1>14. CASE MergeDone
  <2>1. /\ ~DrainDone /\ ~Count /\ UNCHANGED used /\ pc = "merge"
        /\ return_to = "merge" /\ item = NoItem
    BY <1>14 DEF MergeDone, DrainDone, Count, Inv, Control, InAddItem
  <2>2. stash_size <= old_size
    BY <2>1, PendingFinite DEF CountInv, MergeBounded, HandCount, Live, Inv, TypeOK
  <2>3. pc' = "return" /\ failure' = failure
    BY <1>14, <2>2 DEF MergeDone, CoucalAssert
  <2>4. Uncounted' = Uncounted
    BY <2>1, <2>3 DEF Uncounted
  <2> QED
    BY <1>7, <2>1, <2>3, <2>4 DEF CountInv, NoInternalError
<1> QED
  BY <1>5, <1>6, <1>8, <1>9, <1>10, <1>11, <1>12, <1>13, <1>14 DEF AddStep

(* Every step keeps the count.                                             *)
LEMMA CountStep ==
  ASSUME Inv, CountInv, [Next]_vars
  PROVE  CountInv'
<1>1. CASE AddStep
  BY <1>1, CountAddStep
<1>2. ASSUME NEW k \in Key, NEW v \in Written, WriteNew(k, v) PROVE CountInv'
  <2>1. v \in Value /\ StartAdd(k, v, 1)
    BY <1>2, ConstantsAssumption DEF WriteNew, Value
  <2> QED
    BY <2>1, CountStartAdd
<1>3. ASSUME NEW k \in Key, NEW inc \in Increments, IncNew(k, inc) PROVE CountInv'
  <2>1. inc \in Value /\ StartAdd(k, inc, AsInt(inc))
    BY <1>3, ConstantsAssumption DEF Value, IncNew
  <2> QED
    BY <2>1, CountStartAdd
<1>4. CASE NoAdd
  BY <1>4, CountNoAdd
<1>5. CASE UNCHANGED vars
  <2>1. StoredNames' = StoredNames
    BY <1>5, StoredUnchanged DEF vars, StoredNames, NamesIn
  <2>2. Uncounted' = Uncounted /\ UNCHANGED <<used, pc, failure>>
    BY <1>5 DEF Uncounted, vars
  <2>3. Counted' /\ NoInternalError'
    BY <2>1, <2>2, CountedSame DEF CountInv, NoInternalError
  <2>4. BackupExtent' /\ PendingSlots' = PendingSlots /\ HandCount' = HandCount
    BY <1>5 DEF vars, CountInv, BackupExtent, PendingSlots, Pending, HandCount, Live
  <2>5. MergeBounded'
    BY <1>5, <2>4 DEF vars, CountInv, MergeBounded
  <2> QED
    BY <2>3, <2>4, <2>5 DEF CountInv
<1> QED
  BY <1>1, <1>2, <1>3, <1>4, <1>5 DEF Next, Call, Halted, NoAdd

(* Inv and its strengthening hold in every state of every behaviour.       *)
THEOREM CountInvariance == Spec => [](Inv /\ CountInv)
<1>1. Inv /\ CountInv /\ [Next]_vars => (Inv /\ CountInv)'
  BY InvStep, CountStep
<1> QED
  BY <1>1, InvInit, CountInit, PTL DEF Spec

(* coucal_nitems() is the number of entries, in the table and in the       *)
(* stash, whatever was added, replaced, removed, kicked, drained, doubled  *)
(* and merged: no step loses an item and none is counted twice.            *)
THEOREM UsedIsCountAlways == Spec => []UsedIsCount
<1>1. CountInv => UsedIsCount
  BY DEF CountInv, Counted, UsedIsCount, StoredNames
<1> QED
  BY <1>1, CountInvariance, PTL

(* The assertions on the count, on the position of a kicked item, on the   *)
(* positions before a doubling and on the stash after a merge never fail.  *)
THEOREM NoInternalErrorEver == Spec => []NoInternalError
<1>1. CountInv => NoInternalError
  BY DEF CountInv
<1> QED
  BY <1>1, CountInvariance, PTL

------------------------------------------------------------------------------
(***************************************************************************)
(* The cuckoo walk of coucal_add_item_(): why its loop counter is long     *)
(* enough, and what it means that it gives up.                             *)
(*                                                                         *)
(* Let a position be a vertex and an item an edge between its two          *)
(* positions.  The walk goes out along a chain of positions, each item     *)
(* having been kicked to the next one.  If it meets the chain again it     *)
(* comes home along it, every item going back where it was, until the item *)
(* the walk began with is kicked from its first position and goes to the   *)
(* second one, from where the walk goes on.  If it then meets a position   *)
(* it has been to, what it has been to is closed: there are more items     *)
(* than positions.  Until then each position is visited at most twice, and *)
(* the table is less than half full.                                       *)
(***************************************************************************)

(***************************************************************************)
(* The state of a walk: P are the positions of a key, tbl the table, k the *)
(* key in hand, c where it goes; root and k0 are the position and the key  *)
(* the walk began with.                                                    *)
(***************************************************************************)

(* V is visited, and what lies there but not on the chain f[1], ..., f[n]  *)
(* has no position outside.                                                *)
Chain(P, tbl, root, k0, V, n, f) ==
  /\ V \in SUBSET DOMAIN tbl /\ IsFiniteSet(V)
  /\ \A v \in V : Live(tbl[v])
  /\ n \in 0 .. Cardinality(V) /\ f \in [1 .. n -> V]
  /\ \A i, j \in 1 .. n : f[i] = f[j] => i = j
  /\ n >= 1 => f[1] = root /\ tbl[root].name = k0
  /\ \A i \in 2 .. n : P[tbl[f[i]].name] = {f[i - 1], f[i]}
  /\ \A v \in V : (\A i \in 1 .. n : f[i] # v) => P[tbl[v].name] \subseteq V

(* to a position not seen before, if there is one                          *)
Outward(P, root, k0, V, n, f, k, c) ==
  /\ \A v \in V : \E i \in 1 .. n : f[i] = v
  /\ n = 0 => k = k0 /\ c = root
  /\ n >= 1 => P[k] = {f[n], c}

(* back along the chain                                                    *)
Homeward(P, V, n, f, k, c) ==
  n >= 1 /\ c = f[n] /\ P[k] \subseteq V

(* to the second position of the first item, and beyond                    *)
Onward(P, tbl, k0, V, n, k, c) ==
  /\ n = 0
  /\ \E a \in V : P[k] = {a, c}
  /\ k = k0 \/ \E v \in V : tbl[v].name = k0

(* Nothing visited, and nothing in hand, has a position outside.           *)
Closed(P, tbl, k, c) ==
  \E V \in SUBSET DOMAIN tbl :
    /\ \A v \in V : Live(tbl[v]) /\ P[tbl[v].name] \subseteq V
    /\ P[k] \subseteq V
    /\ c \in V

Searching(P, tbl, root, k0, k, c, steps) ==
  \E V \in SUBSET DOMAIN tbl : \E n \in 0 .. Cardinality(V) : \E f \in [1 .. n -> V] :
    /\ Chain(P, tbl, root, k0, V, n, f)
    /\ \/ Outward(P, root, k0, V, n, f, k, c)
       \/ Homeward(P, V, n, f, k, c)
       \/ Onward(P, tbl, k0, V, n, k, c)
    /\ steps + n <= 2 * Cardinality(V)

Positions == [k \in Key |-> {Pos1(k), Pos2(k)}]
Root == HashToPos(size, initial_hash)
Target == HashToPos(size, cuckoo_hash)

WalkGoes ==
  pc = "walk" =>
    /\ Live(items[Root])
    /\ loops <= size
    /\ \/ Closed(Positions, items, item.name, Target)
       \/ \E k0 \in Key :
            /\ hash[k0].hash1 = initial_hash
            /\ Searching(Positions, items, Root, k0, item.name, Target, size - loops)

WalkEnds ==
  pc = "stash" =>
    /\ Blocked(item.name)
    /\ NoHashShared => \E c \in 0 .. size - 1 : Closed(Positions, items, item.name, c)

(* the drain has done the slots below index                                *)
Drained == {j \in StashIndex : j < index}

BlockedIn(J) == \A j \in J : Live(stash[j]) => Blocked(stash[j].name)

StashBlocked ==
  /\ pc = "drain" => BlockedIn(Drained)
  /\ pc \notin {"null", "idle", "drain", "aborted"} => BlockedIn(StashIndex)

WalkInv == WalkGoes /\ WalkEnds /\ StashBlocked

(***************************************************************************)
(* One kick: the item in hand takes the place of the one at c, which goes  *)
(* to its other position d.                                                *)
(***************************************************************************)

(* At a position not seen before the chain gets longer.                    *)
LEMMA KickFurther ==
  ASSUME NEW P, NEW tbl, NEW root, NEW k0, NEW V, NEW n, NEW f, NEW hand,
         NEW c \in DOMAIN tbl, NEW d, NEW steps \in Nat,
         Live(hand), P[tbl[c].name] = {c, d},
         Chain(P, tbl, root, k0, V, n, f), Outward(P, root, k0, V, n, f, hand.name, c),
         c \notin V, steps + n <= 2 * Cardinality(V)
  PROVE  Searching(P, [tbl EXCEPT ![c] = hand], root, k0, tbl[c].name, d, steps + 1)
<1> DEFINE tbl2 == [tbl EXCEPT ![c] = hand]
           W == V \cup {c}
           m == n + 1
           g == [i \in 1 .. m |-> IF i = m THEN c ELSE f[i]]
<1>1. /\ V \in SUBSET DOMAIN tbl /\ IsFiniteSet(V) /\ Cardinality(V) \in Nat
      /\ n \in Nat /\ n <= Cardinality(V) /\ f \in [1 .. n -> V]
  BY FS_CardinalityType DEF Chain
<1>2. IsFiniteSet(W) /\ Cardinality(W) = Cardinality(V) + 1
  BY <1>1, FS_AddElement
<1>3. m \in 0 .. Cardinality(W) /\ m \in Nat /\ m >= 1
  BY <1>1, <1>2
<1>4. /\ \A i \in 1 .. n : g[i] = f[i] /\ f[i] \in V /\ g[i] # c
      /\ g[m] = c
      /\ 1 .. m = (1 .. n) \cup {m} /\ m \notin 1 .. n
  BY <1>1, <1>3
<1>5. DOMAIN tbl2 = DOMAIN tbl /\ tbl2[c] = hand
  OBVIOUS
<1>6. \A v \in V : v # c /\ tbl2[v] = tbl[v]
  BY <1>1
<1>7. g \in [1 .. m -> W]
  BY <1>4
<1> HIDE DEF tbl2, W, g
<1>8. Chain(P, tbl2, root, k0, W, m, g)
  <2>1. W \in SUBSET DOMAIN tbl2
    BY <1>1, <1>5 DEF W
  <2>2. \A v \in W : Live(tbl2[v])
    BY <1>5, <1>6 DEF W, Chain
  <2>3. \A i, j \in 1 .. m : g[i] = g[j] => i = j
    BY <1>4 DEF Chain
  <2>4. g[1] = root /\ tbl2[root].name = k0
    <3>1. CASE n = 0
      BY <3>1, <1>4, <1>5 DEF Outward
    <3>2. CASE n >= 1
      <4>1. 1 \in 1 .. n
        BY <3>2, <1>1
      <4>2. f[1] = root /\ tbl[root].name = k0
        BY <3>2 DEF Chain
      <4> QED
        BY <4>1, <4>2, <1>4, <1>6
    <3> QED
      BY <3>1, <3>2, <1>1
  <2>5. ASSUME NEW i \in 2 .. m PROVE P[tbl2[g[i]].name] = {g[i - 1], g[i]}
    <3>1. i - 1 \in 1 .. n
      BY <1>1
    <3>2. CASE i = m
      <4>1. i - 1 = n /\ n >= 1
        BY <3>2, <3>1, <1>1
      <4> QED
        BY <4>1, <3>1, <3>2, <1>4, <1>5 DEF Outward
    <3>3. CASE i # m
      <4>1. i \in 2 .. n /\ i \in 1 .. n
        BY <3>3, <1>1
      <4> QED
        BY <4>1, <3>1, <1>4, <1>6 DEF Chain
    <3> QED
      BY <3>2, <3>3
  <2>6. \A v \in W : \E i \in 1 .. m : g[i] = v
    BY <1>3, <1>4 DEF W, Outward
  <2> QED
    BY <2>1, <2>2, <2>3, <2>4, <2>5, <2>6, <1>2, <1>3, <1>7 DEF Chain
<1>9. Outward(P, root, k0, W, m, g, tbl[c].name, d)
  <2>1. \A v \in W : \E i \in 1 .. m : g[i] = v
    BY <1>3, <1>4 DEF W, Outward
  <2> QED
    BY <2>1, <1>3, <1>4 DEF Outward
<1>10. (steps + 1) + m <= 2 * Cardinality(W)
  BY <1>1, <1>2
<1>11. W \in SUBSET DOMAIN tbl2
  BY <1>1, <1>5 DEF W
<1> QED
  BY <1>3, <1>7, <1>8, <1>9, <1>10, <1>11 DEF Searching, tbl2

(* On the chain, but not at its root, the walk comes home by one position. *)
LEMMA KickHome ==
  ASSUME NEW P, NEW tbl, NEW root, NEW k0, NEW V, NEW n, NEW f, NEW hand,
         NEW c \in DOMAIN tbl, NEW d, NEW steps \in Nat, NEW j \in 2 .. n,
         Live(hand), P[tbl[c].name] = {c, d}, c = f[j], P[hand.name] \subseteq V,
         Chain(P, tbl, root, k0, V, n, f), steps + n <= 2 * Cardinality(V)
  PROVE  Searching(P, [tbl EXCEPT ![c] = hand], root, k0, tbl[c].name, d, steps + 1)
<1> DEFINE tbl2 == [tbl EXCEPT ![c] = hand]
           m == j - 1
           g == [i \in 1 .. m |-> f[i]]
<1>1. /\ V \in SUBSET DOMAIN tbl /\ IsFiniteSet(V) /\ Cardinality(V) \in Nat
      /\ n \in Nat /\ n <= Cardinality(V) /\ f \in [1 .. n -> V]
  BY FS_CardinalityType DEF Chain
<1>2. m \in 0 .. Cardinality(V) /\ m \in Nat /\ m >= 1 /\ j \in 1 .. n /\ m \in 1 .. n
  BY <1>1
<1>3. \A i \in 1 .. m : i \in 1 .. n /\ i # j /\ g[i] = f[i] /\ f[i] \in V
  BY <1>1
<1>4. c \in V /\ tbl2[c] = hand /\ DOMAIN tbl2 = DOMAIN tbl
  BY <1>1, <1>2
<1>5. \A v \in V : v # c => tbl2[v] = tbl[v]
  BY <1>1
<1>6. g \in [1 .. m -> V]
  BY <1>3
<1> HIDE DEF tbl2, g
<1>7. \A i \in 1 .. m : g[i] # c
  BY <1>2, <1>3 DEF Chain
<1>8. P[tbl[c].name] = {f[m], c} /\ f[m] \in V /\ f[m] # c
  <2>1. P[tbl[f[j]].name] = {f[j - 1], f[j]}
    BY DEF Chain
  <2>2. f[m] \in V
    BY <1>1, <1>2
  <2>3. f[m] # f[j]
    BY <1>2 DEF Chain
  <2> QED
    BY <2>1, <2>2, <2>3
<1>9. d = f[m]
  BY <1>8
<1>10. Chain(P, tbl2, root, k0, V, m, g)
  <2>1. V \in SUBSET DOMAIN tbl2
    BY <1>1, <1>4
  <2>2. \A v \in V : Live(tbl2[v])
    BY <1>4, <1>5 DEF Chain
  <2>3. \A i, l \in 1 .. m : g[i] = g[l] => i = l
    BY <1>3 DEF Chain
  <2>4. g[1] = root /\ tbl2[root].name = k0
    <3>1. 1 \in 1 .. m /\ n >= 1
      BY <1>1, <1>2
    <3>2. f[1] = root /\ tbl[root].name = k0
      BY <3>1 DEF Chain
    <3>3. root \in V /\ root # c
      BY <3>1, <3>2, <1>3, <1>7
    <3> QED
      BY <3>1, <3>2, <3>3, <1>3, <1>5
  <2>5. ASSUME NEW i \in 2 .. m PROVE P[tbl2[g[i]].name] = {g[i - 1], g[i]}
    <3>1. i - 1 \in 1 .. m /\ i \in 1 .. m /\ i \in 2 .. n
      BY <1>1, <1>2
    <3>2. P[tbl[f[i]].name] = {f[i - 1], f[i]}
      BY <3>1 DEF Chain
    <3>3. g[i] = f[i] /\ g[i - 1] = f[i - 1] /\ tbl2[g[i]] = tbl[f[i]]
      BY <3>1, <1>3, <1>5, <1>7
    <3> QED
      BY <3>2, <3>3
  <2>6. ASSUME NEW v \in V, \A i \in 1 .. m : g[i] # v
        PROVE  P[tbl2[v].name] \subseteq V
    <3>1. CASE v = c
      BY <3>1, <1>4
    <3>2. CASE v # c /\ \E i \in 1 .. n : f[i] = v
      <4>1. PICK i \in 1 .. n : f[i] = v
        BY <3>2
      <4>2. i \notin 1 .. m
        BY <4>1, <2>6, <1>3
      <4>3. i \in 2 .. n /\ i - 1 \in 1 .. n
        BY <4>2, <1>1, <1>2
      <4>4. P[tbl[v].name] = {f[i - 1], f[i]} /\ f[i - 1] \in V
        BY <4>1, <4>3, <1>1 DEF Chain
      <4> QED
        BY <4>1, <4>4, <3>2, <1>5
    <3>3. CASE v # c /\ \A i \in 1 .. n : f[i] # v
      BY <3>3, <1>5 DEF Chain
    <3> QED
      BY <3>1, <3>2, <3>3
  <2> QED
    BY <2>1, <2>2, <2>3, <2>4, <2>5, <2>6, <1>1, <1>2, <1>6 DEF Chain
<1>11. Homeward(P, V, m, g, tbl[c].name, d)
  <2>1. m \in 1 .. m
    BY <1>2
  <2> QED
    BY <2>1, <1>2, <1>3, <1>4, <1>8, <1>9 DEF Homeward
<1>12. (steps + 1) + m <= 2 * Cardinality(V)
  BY <1>1, <1>2
<1> QED
  BY <1>1, <1>2, <1>4, <1>6, <1>10, <1>11, <1>12 DEF Searching, tbl2

(* At the root the first item is kicked, and goes to its other position.   *)
LEMMA KickFirst ==
  ASSUME NEW P, NEW tbl, NEW root, NEW k0, NEW V, NEW n, NEW f, NEW hand,
         NEW c \in DOMAIN tbl, NEW d, NEW steps \in Nat,
         Live(hand), P[tbl[c].name] = {c, d}, n >= 1, c = f[1], P[hand.name] \subseteq V,
         Chain(P, tbl, root, k0, V, n, f), steps + n <= 2 * Cardinality(V)
  PROVE  Searching(P, [tbl EXCEPT ![c] = hand], root, k0, tbl[c].name, d, steps + 1)
<1> DEFINE tbl2 == [tbl EXCEPT ![c] = hand]
           g == [i \in 1 .. 0 |-> f[i]]
<1>1. /\ V \in SUBSET DOMAIN tbl /\ IsFiniteSet(V) /\ Cardinality(V) \in Nat
      /\ n \in Nat /\ n <= Cardinality(V) /\ f \in [1 .. n -> V]
  BY FS_CardinalityType DEF Chain
<1>2. 1 \in 1 .. n /\ c \in V /\ c = root /\ tbl[c].name = k0
  BY <1>1 DEF Chain
<1>3. 0 \in 0 .. Cardinality(V) /\ g \in [1 .. 0 -> V] /\ \A i : i \notin 1 .. 0 /\ i \notin 2 .. 0
  BY <1>1
<1>4. c \in V /\ tbl2[c] = hand /\ DOMAIN tbl2 = DOMAIN tbl
  BY <1>2
<1>5. \A v \in V : v # c => tbl2[v] = tbl[v]
  BY <1>1
<1> HIDE DEF tbl2, g
<1>6. Chain(P, tbl2, root, k0, V, 0, g)
  <2>1. V \in SUBSET DOMAIN tbl2
    BY <1>1, <1>4
  <2>2. \A v \in V : Live(tbl2[v])
    BY <1>4, <1>5 DEF Chain
  <2>3. ASSUME NEW v \in V PROVE P[tbl2[v].name] \subseteq V
    <3>1. CASE v = c
      BY <3>1, <1>4
    <3>2. CASE v # c /\ \E i \in 1 .. n : f[i] = v
      <4>1. PICK i \in 1 .. n : f[i] = v
        BY <3>2
      <4>2. i \in 2 .. n /\ i - 1 \in 1 .. n
        BY <4>1, <3>2, <1>1
      <4>3. P[tbl[v].name] = {f[i - 1], f[i]} /\ f[i - 1] \in V
        BY <4>1, <4>2, <1>1 DEF Chain
      <4> QED
        BY <4>1, <4>3, <3>2, <1>5
    <3>3. CASE v # c /\ \A i \in 1 .. n : f[i] # v
      BY <3>3, <1>5 DEF Chain
    <3> QED
      BY <3>1, <3>2, <3>3
  <2> QED
    BY <2>1, <2>2, <2>3, <1>1, <1>3 DEF Chain
<1>7. Onward(P, tbl2, k0, V, 0, tbl[c].name, d)
  BY <1>2 DEF Onward
<1>8. (steps + 1) + 0 <= 2 * Cardinality(V)
  BY <1>1
<1> QED
  BY <1>1, <1>3, <1>4, <1>6, <1>7, <1>8 DEF Searching, tbl2

(* Beyond, at a position not seen before, the visited part grows.          *)
LEMMA KickOnward ==
  ASSUME NEW P, NEW tbl, NEW root, NEW k0, NEW V, NEW n, NEW f, NEW hand,
         NEW c \in DOMAIN tbl, NEW d, NEW steps \in Nat,
         Live(hand), P[tbl[c].name] = {c, d},
         Chain(P, tbl, root, k0, V, n, f), Onward(P, tbl, k0, V, n, hand.name, c),
         c \notin V, steps + n <= 2 * Cardinality(V)
  PROVE  Searching(P, [tbl EXCEPT ![c] = hand], root, k0, tbl[c].name, d, steps + 1)
<1> DEFINE tbl2 == [tbl EXCEPT ![c] = hand]
           W == V \cup {c}
           g == [i \in 1 .. 0 |-> c]
<1>1. /\ V \in SUBSET DOMAIN tbl /\ IsFiniteSet(V) /\ Cardinality(V) \in Nat /\ n = 0
      /\ \A i : i \notin 1 .. n
  BY FS_CardinalityType DEF Chain, Onward
<1>2. IsFiniteSet(W) /\ Cardinality(W) = Cardinality(V) + 1
  BY <1>1, FS_AddElement
<1>3. 0 \in 0 .. Cardinality(W) /\ g \in [1 .. 0 -> W] /\ \A i : i \notin 1 .. 0 /\ i \notin 2 .. 0
  BY <1>1, <1>2
<1>4. tbl2[c] = hand /\ DOMAIN tbl2 = DOMAIN tbl /\ \A v \in V : tbl2[v] = tbl[v]
  BY <1>1
<1>5. PICK a \in V : P[hand.name] = {a, c}
  BY DEF Onward
<1> HIDE DEF tbl2, g
<1>6. Chain(P, tbl2, root, k0, W, 0, g)
  <2>1. W \in SUBSET DOMAIN tbl2
    BY <1>1, <1>4
  <2>2. \A v \in W : Live(tbl2[v])
    BY <1>4 DEF Chain
  <2>3. \A v \in W : P[tbl2[v].name] \subseteq W
    BY <1>1, <1>4, <1>5 DEF Chain
  <2> QED
    BY <2>1, <2>2, <2>3, <1>2, <1>3 DEF Chain
<1>7. Onward(P, tbl2, k0, W, 0, tbl[c].name, d)
  <2>1. \E v \in W : tbl2[v].name = k0
    BY <1>4 DEF Onward
  <2> QED
    BY <2>1 DEF Onward
<1>8. (steps + 1) + 0 <= 2 * Cardinality(W)
  BY <1>1, <1>2
<1>9. W \in SUBSET DOMAIN tbl2
  BY <1>1, <1>4
<1> QED
  BY <1>3, <1>6, <1>7, <1>8, <1>9 DEF Searching, tbl2

(* Beyond, at a visited position, the visited part is closed.              *)
LEMMA KickCloses ==
  ASSUME NEW P, NEW tbl, NEW root, NEW k0, NEW V, NEW n, NEW f, NEW hand,
         NEW c \in DOMAIN tbl, NEW d,
         Live(hand), P[tbl[c].name] = {c, d},
         Chain(P, tbl, root, k0, V, n, f), Onward(P, tbl, k0, V, n, hand.name, c),
         c \in V
  PROVE  Closed(P, [tbl EXCEPT ![c] = hand], tbl[c].name, d)
<1> DEFINE tbl2 == [tbl EXCEPT ![c] = hand]
<1>1. V \in SUBSET DOMAIN tbl /\ n = 0 /\ \A i : i \notin 1 .. n
  BY DEF Chain, Onward
<1>2. tbl2[c] = hand /\ DOMAIN tbl2 = DOMAIN tbl /\ \A v \in V : v # c => tbl2[v] = tbl[v]
  BY <1>1
<1>3. P[hand.name] \subseteq V
  BY DEF Onward
<1>4. \A v \in V : Live(tbl[v]) /\ P[tbl[v].name] \subseteq V
  BY <1>1 DEF Chain
<1>5. P[tbl[c].name] \subseteq V /\ d \in V
  BY <1>4
<1> HIDE DEF tbl2
<1>6. \A v \in V : Live(tbl2[v]) /\ P[tbl2[v].name] \subseteq V
  BY <1>2, <1>3, <1>4
<1> QED
  BY <1>1, <1>2, <1>5, <1>6 DEF Closed, tbl2

(* What is closed stays closed.                                            *)
LEMMA KickClosed ==
  ASSUME NEW P, NEW tbl, NEW hand, NEW c \in DOMAIN tbl, NEW d,
         Live(hand), P[tbl[c].name] = {c, d}, Closed(P, tbl, hand.name, c)
  PROVE  Closed(P, [tbl EXCEPT ![c] = hand], tbl[c].name, d)
<1> DEFINE tbl2 == [tbl EXCEPT ![c] = hand]
<1>1. PICK V \in SUBSET DOMAIN tbl :
        /\ \A v \in V : Live(tbl[v]) /\ P[tbl[v].name] \subseteq V
        /\ P[hand.name] \subseteq V
        /\ c \in V
  BY DEF Closed
<1>2. tbl2[c] = hand /\ DOMAIN tbl2 = DOMAIN tbl /\ \A v \in V : v # c => tbl2[v] = tbl[v]
  BY <1>1
<1>3. P[tbl[c].name] \subseteq V /\ d \in V
  BY <1>1
<1> HIDE DEF tbl2
<1>4. \A v \in V : Live(tbl2[v]) /\ P[tbl2[v].name] \subseteq V
  BY <1>1, <1>2
<1> QED
  BY <1>1, <1>2, <1>3, <1>4 DEF Closed, tbl2

(* The walk goes on, or what it has been to is closed.                     *)
LEMMA KickGoesOn ==
  ASSUME NEW P, NEW tbl, NEW root, NEW k0, NEW hand, NEW c \in DOMAIN tbl, NEW d,
         NEW steps \in Nat, Live(hand), P[tbl[c].name] = {c, d},
         Searching(P, tbl, root, k0, hand.name, c, steps)
  PROVE  \/ Closed(P, [tbl EXCEPT ![c] = hand], tbl[c].name, d)
         \/ Searching(P, [tbl EXCEPT ![c] = hand], root, k0, tbl[c].name, d, steps + 1)
<1>1. PICK V, n, f :
        /\ Chain(P, tbl, root, k0, V, n, f)
        /\ \/ Outward(P, root, k0, V, n, f, hand.name, c)
           \/ Homeward(P, V, n, f, hand.name, c)
           \/ Onward(P, tbl, k0, V, n, hand.name, c)
        /\ steps + n <= 2 * Cardinality(V)
  BY DEF Searching
<1>0. /\ n \in Nat /\ f \in [1 .. n -> V] /\ V \in SUBSET DOMAIN tbl
  BY <1>1, FS_CardinalityType DEF Chain
<1>2. CASE Onward(P, tbl, k0, V, n, hand.name, c)
  BY <1>1, <1>2, KickOnward, KickCloses
<1>3. CASE Outward(P, root, k0, V, n, f, hand.name, c) /\ c \notin V
  BY <1>1, <1>3, KickFurther
<1>4. ASSUME NEW j \in 1 .. n, c = f[j], P[hand.name] \subseteq V
      PROVE  Searching(P, [tbl EXCEPT ![c] = hand], root, k0, tbl[c].name, d, steps + 1)
  <2>1. CASE j = 1
    <3>1. n >= 1
      BY <2>1
    <3> QED
      BY <3>1, <2>1, <1>1, <1>4, KickFirst
  <2>2. CASE j # 1
    <3>1. j \in 2 .. n
      BY <2>2
    <3> QED
      BY <3>1, <1>1, <1>4, KickHome
  <2> QED
    BY <2>1, <2>2
<1>5. CASE Outward(P, root, k0, V, n, f, hand.name, c) /\ c \in V
  <2>1. PICK j \in 1 .. n : f[j] = c
    BY <1>5 DEF Outward
  <2>2. n >= 1 /\ n \in 1 .. n
    BY <2>1, <1>0
  <2>3. P[hand.name] = {f[n], c} /\ f[n] \in V
    BY <2>2, <1>0, <1>5 DEF Outward
  <2> QED
    BY <2>1, <2>3, <1>4, <1>5
<1>6. CASE Homeward(P, V, n, f, hand.name, c)
  <2>1. n \in 1 .. n
    BY <1>0, <1>6 DEF Homeward
  <2> QED
    BY <2>1, <1>4, <1>6 DEF Homeward
<1> QED
  BY <1>1, <1>2, <1>3, <1>5, <1>6

(* When the first item is kicked from another position than the one the    *)
(* walk began at, what the walk has been to is closed.                     *)
LEMMA FirstKickedElsewhere ==
  ASSUME NEW P, NEW tbl, NEW root, NEW k0, NEW hand, NEW c \in DOMAIN tbl, NEW d,
         NEW steps, Live(hand), Live(tbl[c]), P[tbl[c].name] = {c, d},
         \A p, q \in DOMAIN tbl : p # q => Distinct(tbl[p], tbl[q]),
         \A p \in DOMAIN tbl : Distinct(tbl[p], hand),
         Searching(P, tbl, root, k0, hand.name, c, steps),
         tbl[c].name = k0, c # root
  PROVE  Closed(P, [tbl EXCEPT ![c] = hand], tbl[c].name, d)
<1>1. PICK V, n, f :
        /\ Chain(P, tbl, root, k0, V, n, f)
        /\ \/ Outward(P, root, k0, V, n, f, hand.name, c)
           \/ Homeward(P, V, n, f, hand.name, c)
           \/ Onward(P, tbl, k0, V, n, hand.name, c)
        /\ steps + n <= 2 * Cardinality(V)
  BY DEF Searching
<1>2. hand.name # k0
  BY DEF Distinct
<1>3. \A v \in V : tbl[v].name = k0 => v = c
  BY <1>1 DEF Distinct, Chain
<1>4. n \in Nat
  BY <1>1, FS_CardinalityType DEF Chain
<1>5. ~(n >= 1)
  <2> SUFFICES ASSUME n >= 1 PROVE FALSE
    OBVIOUS
  <2>1. 1 \in 1 .. n
    BY <1>4
  <2>2. f[1] \in V /\ f[1] = root /\ tbl[root].name = k0
    BY <2>1, <1>1 DEF Chain
  <2> QED
    BY <2>2, <1>3
<1>6. n = 0
  BY <1>4, <1>5
<1>7. Onward(P, tbl, k0, V, n, hand.name, c)
  BY <1>1, <1>2, <1>5, <1>6 DEF Outward, Homeward
<1>8. c \in V
  BY <1>2, <1>3, <1>7 DEF Onward
<1> QED
  BY <1>1, <1>7, <1>8, KickCloses

(***************************************************************************)
(* A closed part has more items than positions.                            *)
(***************************************************************************)

(* A set of positions is finite.                                           *)
LEMMA PartOfTable ==
  ASSUME NEW sz \in Nat, NEW V \in SUBSET (0 .. sz - 1)
  PROVE  IsFiniteSet(V) /\ Cardinality(V) \in Nat
<1>1. 0 \in Int /\ sz - 1 \in Int
  OBVIOUS
<1>2. IsFiniteSet(0 .. sz - 1)
  BY <1>1, FS_Interval
<1>3. IsFiniteSet(V)
  BY <1>2, FS_Subset
<1> QED
  BY <1>3, FS_CardinalityType

(* An arrangement of the table and the hand would be one of the closed     *)
(* part, one item to a position; yet it has one item more.                 *)
LEMMA ClosedHasNoRoom ==
  ASSUME TypeOK, NoKeyTwice, size \in TableSizes, Live(item),
         NEW c \in 0 .. size - 1, Closed(Positions, items, item.name, c)
  PROVE  ~Fits(NamesIn(TableItems \cup HandItems))
<1> DEFINE K == NamesIn(TableItems \cup HandItems)
<1>1. PICK V \in SUBSET DOMAIN items :
        /\ \A v \in V : Live(items[v]) /\ Positions[items[v].name] \subseteq V
        /\ Positions[item.name] \subseteq V
        /\ c \in V
  BY DEF Closed
<1>2. /\ items \in [0 .. size - 1 -> Slot] /\ DOMAIN items = 0 .. size - 1
      /\ size \in Nat /\ V \subseteq 0 .. size - 1
  BY <1>1, ConstantsAssumption DEF TypeOK
<1>3. IsFiniteSet(V) /\ Cardinality(V) \in Nat
  BY <1>2, PartOfTable
<1>4. item.name \in Key /\ \A v \in V : items[v].name \in Key
  BY <1>1, <1>2, LiveIsItem DEF TypeOK
<1>5. \A k \in Key : Positions[k] = {Pos1(k), Pos2(k)}
  BY DEF Positions
<1>6. item.name \in K /\ \A v \in V : items[v].name \in K
  BY <1>1, <1>2 DEF NamesIn, TableItems, HandItems
<1>7. /\ \A v, w \in V : items[v].name = items[w].name => v = w
      /\ \A v \in V : items[v].name # item.name
  BY <1>1, <1>2 DEF NoKeyTwice, Distinct
<1> DEFINE W == V \cup {size}
           nameOf(v) == IF v = size THEN item.name ELSE items[v].name
<1>8. size \notin V /\ size \in W /\ \A v \in V : v # size
  BY <1>2
<1>9. Cardinality(W) = Cardinality(V) + 1 /\ IsFiniteSet(W)
  BY <1>3, <1>8, FS_AddElement
<1>10. \A v, w \in W : nameOf(v) = nameOf(w) => v = w
  BY <1>7, <1>8
<1>11. \A v \in W : nameOf(v) \in K /\ Pos1(nameOf(v)) \in V /\ Pos2(nameOf(v)) \in V
  BY <1>1, <1>4, <1>5, <1>6
<1> HIDE DEF K, W, nameOf
<1> SUFFICES ASSUME Fits(K) PROVE FALSE
  BY DEF K
<1>12. PICK first \in SUBSET K :
         \A k, l \in K : (IF k \in first THEN Pos1(k) ELSE Pos2(k))
                         = (IF l \in first THEN Pos1(l) ELSE Pos2(l)) => k = l
  BY DEF Fits
<1> DEFINE place(k) == IF k \in first THEN Pos1(k) ELSE Pos2(k)
           g == [v \in W |-> place(nameOf(v))]
<1>13. \A k, l \in K : place(k) = place(l) => k = l
  BY <1>12
<1>14. \A v \in W : place(nameOf(v)) \in V
  BY <1>11
<1> HIDE DEF place
<1>15. g \in [W -> V] /\ \A v, w \in W : g[v] = g[w] => v = w
  BY <1>10, <1>11, <1>13, <1>14
<1> HIDE DEF g
<1>16. g \in Injection(W, V)
  BY <1>15 DEF Injection, IsInjective
<1>17. Cardinality(W) <= Cardinality(V)
  BY <1>16, <1>3, FS_Injection
<1> QED
  BY <1>3, <1>9, <1>17

(* Both positions of what is in hand are taken in a closed part.           *)
LEMMA ClosedIsBlocked ==
  ASSUME NEW k \in Key, NEW c, Closed(Positions, items, k, c)
  PROVE  Blocked(k)
<1>1. Positions[k] = {Pos1(k), Pos2(k)}
  BY DEF Positions
<1> QED
  BY <1>1 DEF Closed, Blocked, IsFree, Live

(***************************************************************************)
(* The loop counter.                                                       *)
(***************************************************************************)

(* During a walk the taken positions do not outnumber the counted items:   *)
(* the item in hand is one of those that are stored.                       *)
LEMMA TakenCounted ==
  ASSUME TypeOK, Control, NoKeyTwice, Counted, pc = "walk",
         NEW V \in SUBSET (0 .. size - 1), \A v \in V : Live(items[v])
  PROVE  IsFiniteSet(V) /\ Cardinality(V) \in Nat /\ Cardinality(V) <= used
<1>1. /\ size \in Nat /\ items \in [0 .. size - 1 -> Slot] /\ used \in Int
      /\ Live(item) /\ return_to \in {"count", "merge"}
  BY ConstantsAssumption DEF TypeOK, Control, InAddItem
<1>2. IsFiniteSet(V) /\ Cardinality(V) \in Nat
  BY <1>1, PartOfTable
<1>3. IsFiniteSet(StoredNames) /\ Cardinality(StoredNames) <= used + 1
  BY <1>1 DEF Counted, Uncounted
<1> DEFINE W == V \cup {size}
           g == [v \in W |-> IF v = size THEN item.name ELSE items[v].name]
<1>4. size \notin V /\ \A v \in V : v # size
  BY <1>1
<1>5. Cardinality(W) = Cardinality(V) + 1
  BY <1>2, <1>4, FS_AddElement
<1>6. item.name \in StoredNames /\ \A v \in V : items[v].name \in StoredNames
  BY <1>1 DEF StoredNames, NamesIn, Stored, HandItems, TableItems
<1>7. /\ \A v, w \in V : items[v].name = items[w].name => v = w
      /\ \A v \in V : items[v].name # item.name
  BY <1>1 DEF NoKeyTwice, Distinct
<1>8. g \in [W -> StoredNames] /\ \A v, w \in W : g[v] = g[w] => v = w
  BY <1>4, <1>6, <1>7
<1> HIDE DEF W, g
<1>9. g \in Injection(W, StoredNames)
  BY <1>8 DEF Injection, IsInjective
<1>10. Cardinality(W) <= Cardinality(StoredNames) /\ Cardinality(StoredNames) \in Nat
  BY <1>3, <1>9, FS_Injection, FS_CardinalityType
<1> QED
  BY <1>1, <1>2, <1>3, <1>5, <1>10

(* A walk that is still searching has at least two kicks left.             *)
LEMMA LoopsLeft ==
  ASSUME Inv, Counted, pc = "walk", NEW k0,
         Searching(Positions, items, Root, k0, item.name, Target, size - loops)
  PROVE  loops # 1
<1>1. PICK V, n, f :
        /\ Chain(Positions, items, Root, k0, V, n, f)
        /\ (size - loops) + n <= 2 * Cardinality(V)
  BY DEF Searching
<1>2. V \in SUBSET (0 .. size - 1) /\ \A v \in V : Live(items[v])
  BY <1>1 DEF Chain, Inv, TypeOK
<1>3. Cardinality(V) \in Nat /\ Cardinality(V) <= used
  BY <1>2, TakenCounted DEF Inv
<1>4. used < size \div 2 /\ used \in Int /\ size \in Nat /\ size % 2 = 0 /\ loops \in Nat
  BY ConstantsAssumption DEF Inv, TypeOK, Control, RoomLeft
<1>5. 2 * used + 2 <= size
  BY <1>4
<1>6. n \in Nat
  BY <1>1, <1>3 DEF Chain
<1> QED
  BY <1>1, <1>3, <1>4, <1>5, <1>6

(***************************************************************************)
(* The kicks of the walk.                                                  *)
(***************************************************************************)

(* A kicked item goes from one of its positions to the other one.          *)
LEMMA OtherPosition ==
  ASSUME NEW k \in Key, NEW p \in {Pos1(k), Pos2(k)}
  PROVE  /\ Positions[k] = {p, HashToPos(size, OtherHash(k, p))}
         /\ OtherHash(k, p) \in HashValues(k)
BY DEF Positions, OtherHash, Pos1, Pos2, HashValues

(* What a kick does, in terms of the search.                               *)
LEMMA KickIs ==
  ASSUME Inv, WalkKick
  PROVE  /\ Target \in DOMAIN items /\ DOMAIN items = 0 .. size - 1
         /\ Live(item) /\ Live(items[Target])
         /\ items[Target].name \in Key
         /\ Target \in {Pos1(items[Target].name), Pos2(items[Target].name)}
         /\ items' = [items EXCEPT ![Target] = item]
         /\ item' = items[Target]
         /\ LET next == OtherHash(items[Target].name, Target)
            IN  /\ pc' = (IF GivesUp(next) THEN "stash" ELSE "walk")
                /\ pc' = "walk" =>
                     /\ cuckoo_hash' = next
                     /\ loops' = loops - 1
                     /\ initial_hash' = initial_hash
         /\ pc = "walk" /\ UNCHANGED <<hash, size>>
<1>1. /\ Target \in 0 .. size - 1 /\ items[Target] \in Slot
      /\ item \in Item
  BY WalkPosition DEF WalkKick, Target, Inv
<1>2. Live(items[Target]) /\ items[Target].name \in Key
  BY <1>1, LiveIsItem DEF WalkKick, IsFree, Live, Target
<1>3. Target \in {Pos1(items[Target].name), Pos2(items[Target].name)}
  BY <1>1, <1>2 DEF Inv, CuckooPlaced, WellPositioned, IsFree, Live
<1>4. /\ items' = [items EXCEPT ![Target] = item]
      /\ item' = items[Target]
      /\ pc = "walk" /\ UNCHANGED <<hash, size>>
  BY DEF WalkKick, Target
<1>5. LET next == OtherHash(items[Target].name, Target)
      IN  /\ pc' = (IF GivesUp(next) THEN "stash" ELSE "walk")
          /\ ~GivesUp(next) =>
                /\ cuckoo_hash' = next
                /\ loops' = loops - 1
                /\ initial_hash' = initial_hash
  BY <1>3 DEF WalkKick, Target, CoucalAssert, Tick
<1>6. Live(item)
  BY <1>1, ItemIsLive
<1>7. DOMAIN items = 0 .. size - 1
  BY DEF Inv, TypeOK
<1> QED
  BY <1>1, <1>2, <1>3, <1>4, <1>5, <1>6, <1>7

(* The locals of the walk after a kick that does not give up.              *)
LEMMA WalkLocals ==
  ASSUME Inv, WalkKick
  PROVE  /\ Positions' = Positions
         /\ pc' = "walk" =>
              /\ Root' = Root
              /\ Target' = HashToPos(size, OtherHash(items[Target].name, Target))
              /\ size' - loops' = (size - loops) + 1
<1>1. UNCHANGED <<hash, size>> /\ size \in Int /\ loops \in Int
  BY KickIs, ConstantsAssumption DEF Inv, TypeOK
<1>2. Positions' = Positions
  BY <1>1 DEF Positions, Pos1, Pos2
<1>3. pc' = "walk" =>
        /\ cuckoo_hash' = OtherHash(items[Target].name, Target)
        /\ loops' = loops - 1
        /\ initial_hash' = initial_hash
  BY KickIs
<1> HIDE DEF Positions
<1> QED
  BY <1>1, <1>2, <1>3 DEF Root, Target

(* After a kick the search has gone one step further, with a step to       *)
(* spare, or what it has been to is closed.                                *)
LEMMA SearchGoesOn ==
  ASSUME Inv, Counted, WalkGoes, WalkKick
  PROVE  LET d == HashToPos(size, OtherHash(items[Target].name, Target))
         IN  \/ Closed(Positions, items', item'.name, d)
             \/ \E k0 \in Key :
                  /\ hash[k0].hash1 = initial_hash
                  /\ loops # 1
                  /\ Searching(Positions, items, Root, k0, item.name, Target, size - loops)
                  /\ Searching(Positions, items', Root, k0, item'.name, d, (size - loops) + 1)
<1> DEFINE d == HashToPos(size, OtherHash(items[Target].name, Target))
<1>1. /\ Target \in DOMAIN items /\ Live(item)
      /\ items' = [items EXCEPT ![Target] = item]
      /\ item' = items[Target] /\ pc = "walk"
  BY KickIs
<1>2. Positions[items[Target].name] = {Target, d}
  BY KickIs, OtherPosition
<1> HIDE DEF d
<1>3. CASE Closed(Positions, items, item.name, Target)
  BY <1>1, <1>2, <1>3, KickClosed DEF d
<1>4. ASSUME NEW k0 \in Key, hash[k0].hash1 = initial_hash,
             Searching(Positions, items, Root, k0, item.name, Target, size - loops)
      PROVE  /\ loops # 1
             /\ \/ Closed(Positions, items', item'.name, d)
                \/ Searching(Positions, items', Root, k0, item'.name, d, (size - loops) + 1)
  <2>1. loops # 1
    BY <1>1, <1>4, LoopsLeft
  <2>2. size - loops \in Nat
    BY <1>1, ConstantsAssumption DEF WalkGoes, Inv, TypeOK
  <2> DEFINE steps == size - loops
  <2> HIDE DEF steps
  <2>3. steps \in Nat /\ Searching(Positions, items, Root, k0, item.name, Target, steps)
    BY <2>2, <1>4 DEF steps
  <2>4. \/ Closed(Positions, items', item'.name, d)
        \/ Searching(Positions, items', Root, k0, item'.name, d, steps + 1)
    BY <1>1, <1>2, <2>3, KickGoesOn
  <2> QED
    BY <2>1, <2>4 DEF steps
<1> QED
  BY <1>1, <1>3, <1>4 DEF WalkGoes, d

(* A walk that goes on after a kick.                                       *)
LEMMA KickKeepsWalk ==
  ASSUME Inv, Counted, WalkGoes, WalkKick
  PROVE  WalkGoes'
<1> SUFFICES ASSUME pc' = "walk"
             PROVE  /\ Live(items'[Root']) /\ loops' <= size'
                    /\ \/ Closed(Positions', items', item'.name, Target')
                       \/ \E k0 \in Key :
                            /\ hash'[k0].hash1 = initial_hash'
                            /\ Searching(Positions', items', Root', k0, item'.name, Target',
                                         size' - loops')
  BY DEF WalkGoes, Live, Closed, Searching
<1>1. /\ Target \in DOMAIN items /\ Live(item)
      /\ items' = [items EXCEPT ![Target] = item]
      /\ pc = "walk" /\ UNCHANGED <<hash, size>>
      /\ loops' = loops - 1 /\ initial_hash' = initial_hash
  BY KickIs
<1>2. /\ Positions' = Positions /\ Root' = Root
      /\ Target' = HashToPos(size, OtherHash(items[Target].name, Target))
      /\ size' - loops' = (size - loops) + 1
  BY WalkLocals
<1>3. Live(items'[Root'])
  <2>1. Root \in DOMAIN items
    <3>1. size \in Nat \ {0} /\ initial_hash \in Nat
      BY <1>1, ConstantsAssumption DEF Inv, TypeOK, Control
    <3> QED
      BY <3>1, PositionInRange DEF Root, Inv, TypeOK
  <2>2. Live(items[Root])
    BY <1>1 DEF WalkGoes
  <2> QED
    BY <2>1, <2>2, <1>1, <1>2
<1>4. loops' <= size'
  BY <1>1, ConstantsAssumption DEF WalkGoes, Inv, TypeOK
<1> HIDE DEF Positions, Root, Target
<1> QED
  BY <1>1, <1>2, <1>3, <1>4, SearchGoesOn

(* A walk that gives up: it is back to the hash it began with, whose       *)
(* position is taken, or what it has been to is closed.                    *)
LEMMA KickEndsWalk ==
  ASSUME Inv, Counted, WalkGoes, WalkKick
  PROVE  WalkEnds'
<1> DEFINE k == items[Target].name
           next == OtherHash(k, Target)
           d == HashToPos(size, next)
<1> SUFFICES ASSUME pc' = "stash"
             PROVE  /\ Blocked(item.name)'
                    /\ NoHashShared' =>
                         \E c \in 0 .. size' - 1 : Closed(Positions', items', item'.name, c)
  BY DEF WalkEnds, Closed
<1>1. /\ Target \in DOMAIN items /\ DOMAIN items = 0 .. size - 1 /\ Live(item)
      /\ Live(items[Target]) /\ k \in Key
      /\ Target \in {Pos1(k), Pos2(k)}
      /\ items' = [items EXCEPT ![Target] = item]
      /\ item' = items[Target]
      /\ GivesUp(next)
      /\ pc = "walk" /\ UNCHANGED <<hash, size>>
  BY KickIs
<1>2. Positions[k] = {Target, d} /\ next \in HashValues(k)
  BY <1>1, OtherPosition
<1>3. Positions' = Positions
  BY WalkLocals
<1>4. Positions[k] = {Pos1(k), Pos2(k)} /\ Positions[k] \subseteq 0 .. size - 1
  BY <1>1, PositionsInRange DEF Positions, Inv, Control
<1>5. d \in 0 .. size - 1
  BY <1>2, <1>4
<1>6. ASSUME Closed(Positions, items', item'.name, d) PROVE Live(items'[d])
  BY <1>6 DEF Closed
<1>7. ASSUME next = initial_hash PROVE Live(items'[d])
  BY <1>1, <1>5, <1>7 DEF WalkGoes, Root
<1>8. \/ Closed(Positions, items', item'.name, d)
      \/ /\ next = initial_hash
         /\ \E k0 \in Key : /\ hash[k0].hash1 = initial_hash
                            /\ Searching(Positions, items, Root, k0, item.name, Target, size - loops)
  BY <1>1, SearchGoesOn DEF GivesUp
<1>9. Blocked(item.name)'
  <2>1. Live(items'[Target]) /\ Live(items'[d])
    BY <1>1, <1>6, <1>7, <1>8
  <2>2. Live(items'[Pos1(k)]) /\ Live(items'[Pos2(k)])
    BY <2>1, <1>2, <1>4
  <2> QED
    BY <2>2, <1>1 DEF Blocked, IsFree, Live, Pos1, Pos2
<1>10. ASSUME NoHashShared, next = initial_hash, NEW k0 \in Key, hash[k0].hash1 = initial_hash,
              Searching(Positions, items, Root, k0, item.name, Target, size - loops)
       PROVE  Closed(Positions, items', item'.name, d)
  <2>1. k = k0
    BY <1>1, <1>2, <1>10 DEF NoHashShared, HashValues
  <2>2. Target # Root
    <3> SUFFICES ASSUME Target = Root PROVE FALSE
      OBVIOUS
    <3>1. Root = Pos1(k)
      BY <2>1, <1>10 DEF Root, Pos1
    <3>2. next = hash[k].hash2
      BY <3>1 DEF OtherHash
    <3> QED
      BY <3>2, <2>1, <1>10 DEF NoHashShared
  <2>3. /\ \A p, q \in DOMAIN items : p # q => Distinct(items[p], items[q])
        /\ \A p \in DOMAIN items : Distinct(items[p], item)
    BY <1>1 DEF Inv, NoKeyTwice
  <2>4. Closed(Positions, [items EXCEPT ![Target] = item], items[Target].name, d)
    <3> DEFINE steps == size - loops
    <3>1. Searching(Positions, items, Root, k0, item.name, Target, steps)
      BY <1>10
    <3> HIDE DEF steps, d, next
    <3> QED
      BY <3>1, <2>1, <2>2, <2>3, <1>1, <1>2, FirstKickedElsewhere
  <2> QED
    BY <2>4, <1>1
<1>11. NoHashShared' = NoHashShared
  BY <1>1 DEF NoHashShared, HashValues
<1>12. NoHashShared => Closed(Positions, items', item'.name, d)
  BY <1>8, <1>10
<1> QED
  BY <1>1, <1>3, <1>5, <1>9, <1>11, <1>12

(* A walk begins with the first position of its item, at the root of an    *)
(* empty chain.                                                            *)
LEMMA WalkBegins ==
  ASSUME Inv, PlaceTaken
  PROVE  WalkGoes'
<1> DEFINE k == item.name
           f == [i \in 1 .. 0 |-> Pos1(k)]
<1>1. /\ k \in Key /\ ~IsFree(Pos1(k)) /\ pc' = "walk"
      /\ UNCHANGED <<hash, size, items, item>>
      /\ initial_hash' = hash[k].hash1 /\ cuckoo_hash' = hash[k].hash1
      /\ loops' = size
  BY LiveIsItem DEF PlaceTaken, Inv, TypeOK, Control, InAddItem, tableVars
<1>2. Root' = Pos1(k) /\ Target' = Pos1(k) /\ Positions' = Positions
  BY <1>1 DEF Root, Target, Positions, Pos1, Pos2
<1>3. size \in Int /\ size' - loops' = 0
  BY <1>1, ConstantsAssumption DEF Inv, TypeOK
<1>4. Cardinality({}) = 0 /\ IsFiniteSet({}) /\ 0 \in 0 .. Cardinality({})
  BY FS_EmptySet
<1>5. f \in [1 .. 0 -> {}] /\ \A i : i \notin 1 .. 0 /\ i \notin 2 .. 0
  OBVIOUS
<1> HIDE DEF f
<1>6. Chain(Positions, items, Pos1(k), k, {}, 0, f)
  BY <1>4, <1>5 DEF Chain
<1>7. Outward(Positions, Pos1(k), k, {}, 0, f, k, Pos1(k))
  BY DEF Outward
<1>8. 0 + 0 <= 2 * Cardinality({}) /\ {} \in SUBSET DOMAIN items
  BY <1>4
<1>9. Searching(Positions, items, Pos1(k), k, k, Pos1(k), 0)
  BY <1>4, <1>5, <1>6, <1>7, <1>8 DEF Searching
<1>10. Live(items[Pos1(k)])
  BY <1>1 DEF IsFree, Live
<1>11. hash'[k].hash1 = initial_hash' /\ loops' <= size'
  BY <1>1, <1>3
<1>12. Searching(Positions', items', Root', k, item'.name, Target', size' - loops')
  BY <1>1, <1>2, <1>3, <1>9
<1>13. Live(items'[Root'])
  BY <1>1, <1>2, <1>10
<1> HIDE DEF Positions
<1> QED
  BY <1>1, <1>11, <1>12, <1>13 DEF WalkGoes, Live, Closed, Searching

(***************************************************************************)
(* What is stashed stays blocked until the call returns.                   *)
(***************************************************************************)

(* Taken positions stay taken, so a blocked key stays blocked.             *)
LEMMA BlockedKept ==
  ASSUME TypeOK, size \in TableSizes, UNCHANGED <<hash, size>>,
         \A p \in 0 .. size - 1 : Live(items[p]) => Live(items'[p]),
         NEW k \in Key, Blocked(k)
  PROVE  Blocked(k)'
<1>1. Pos1(k) \in 0 .. size - 1 /\ Pos2(k) \in 0 .. size - 1
  BY PositionsInRange
<1>2. Live(items[Pos1(k)]) /\ Live(items[Pos2(k)])
  BY DEF Blocked, IsFree, Live
<1>3. Live(items'[Pos1(k)]) /\ Live(items'[Pos2(k)])
  BY <1>1, <1>2
<1> QED
  BY <1>3 DEF Blocked, IsFree, Live, Pos1, Pos2

(* The steps that put an item into the table take no other one out.        *)
LEMMA TakenKept ==
  ASSUME Inv, \/ DrainStep \/ PlaceFree \/ WalkFree \/ WalkKick
              \/ UNCHANGED <<hash, size, items>>
  PROVE  \A p \in 0 .. size - 1 : Live(items[p]) => Live(items'[p])
<1>1. items \in [0 .. size - 1 -> Slot]
  BY DEF Inv, TypeOK
<1>2. ASSUME NEW p, NEW it, Live(it), items' = [items EXCEPT ![p] = it]
      PROVE  \A q \in 0 .. size - 1 : Live(items[q]) => Live(items'[q])
  BY <1>1, <1>2
<1>3. CASE DrainStep
  <2>1. \/ UNCHANGED items
        \/ Live(stash[index]) /\ \E p : items' = [items EXCEPT ![p] = stash[index]]
    BY <1>3, DrainHome DEF Inv, Home
  <2> QED
    BY <2>1, <1>2
<1>4. CASE PlaceFree \/ WalkFree
  <2>1. Live(item) /\ \E p : items' = [items EXCEPT ![p] = item]
    BY <1>4 DEF PlaceFree, WalkFree, PutItem, Inv, Control, InAddItem
  <2> QED
    BY <2>1, <1>2
<1>5. CASE WalkKick
  BY <1>5, <1>2, KickIs
<1> QED
  BY <1>3, <1>4, <1>5

(* A step that keeps the table's taken positions and takes items out of    *)
(* the stash at most.                                                      *)
LEMMA StashStaysBlocked ==
  ASSUME Inv, size \in TableSizes, UNCHANGED <<hash, size>>,
         \A p \in 0 .. size - 1 : Live(items[p]) => Live(items'[p]),
         NEW J, J \subseteq StashIndex,
         \A j \in J : Live(stash'[j]) => stash'[j] = stash[j],
         BlockedIn(J)
  PROVE  BlockedIn(J)'
<1> SUFFICES ASSUME NEW j \in J, Live(stash'[j]) PROVE Blocked(stash[j].name)'
  BY DEF BlockedIn, Live
<1> DEFINE k == stash[j].name
<1>1. stash'[j] = stash[j] /\ Live(stash[j])
  OBVIOUS
<1>2. k \in Key /\ Blocked(k)
  BY <1>1, LiveIsItem DEF Inv, TypeOK, BlockedIn
<1>3. ASSUME NEW l \in Key, Blocked(l) PROVE Blocked(l)'
  BY <1>3, BlockedKept DEF Inv
<1>4. \A l \in Key : Blocked(l) =>
        items'[HashToPos(size', hash'[l].hash1)] # NoItem /\ items'[HashToPos(size', hash'[l].hash2)] # NoItem
  BY <1>3 DEF Blocked, IsFree, Pos1, Pos2
<1> QED
  BY <1>1, <1>2, <1>4 DEF Blocked, IsFree, Pos1, Pos2

(* An add begins with a drain that has done nothing, or with no stash.     *)
LEMMA BlockedStartAdd ==
  ASSUME Inv, NEW k, NEW v, NEW r, StartAdd(k, v, r)
  PROVE  StashBlocked'
<1>1. CASE stash_size # 0
  <2>1. pc' = "drain" /\ index' = 0
    BY <1>1 DEF StartAdd, Inv, Control, TypeOK, InAddItem
  <2>2. Drained' = {}
    BY <2>1 DEF Drained, StashIndex
  <2> QED
    BY <2>1, <2>2 DEF StashBlocked, BlockedIn
<1>2. CASE stash_size = 0
  <2>1. pc' = "place" /\ stash' = stash
    BY <1>2 DEF StartAdd, stashVars
  <2>2. \A j \in StashIndex : stash[j] = NoItem
    BY <1>2, NothingStashed DEF Inv
  <2> QED
    BY <2>1, <2>2 DEF StashBlocked, BlockedIn, Live
<1> QED
  BY <1>1, <1>2

(* A step of the drain: an item with a free position goes home.            *)
LEMMA BlockedDrainStep ==
  ASSUME Inv, StashBlocked, DrainStep
  PROVE  StashBlocked'
<1>1. /\ pc = "drain" /\ pc' = "drain" /\ index' = index + 1 /\ index \in StashIndex
      /\ size \in TableSizes /\ UNCHANGED <<hash, size>> /\ index \in Nat
  BY DrainHome DEF DrainStep, Inv, Control, TypeOK
<1>2. \A p \in 0 .. size - 1 : Live(items[p]) => Live(items'[p])
  BY TakenKept
<1>3. PICK J, i : J = Drained /\ i = index
  OBVIOUS
<1>4. /\ J \subseteq StashIndex /\ i \in StashIndex /\ i \notin J /\ BlockedIn(J)
      /\ Drained' = J \cup {i}
  BY <1>1, <1>3 DEF Drained, StashIndex, StashBlocked, BlockedIn
<1>5. stash \in [StashIndex -> Slot]
  BY DEF Inv, TypeOK
<1>6. CASE UNCHANGED stash
  <2>1. Live(stash[i]) => Blocked(stash[i].name)
    <3> SUFFICES ASSUME Live(stash[i]), ~Blocked(stash[i].name) PROVE FALSE
      OBVIOUS
    <3>1. \E p : Home(p)
      BY <1>3 DEF DrainStep, Live, Blocked
    <3>2. stash' = [stash EXCEPT ![i] = NoItem]
      BY <3>1, <1>3 DEF Home
    <3> QED
      BY <3>2, <1>4, <1>5, <1>6 DEF Live
  <2>2. BlockedIn(J \cup {i})
    BY <2>1, <1>4 DEF BlockedIn
  <2>3. J \cup {i} \subseteq StashIndex
    BY <1>4
  <2>4. BlockedIn(J \cup {i})'
    BY <2>2, <2>3, <1>1, <1>2, <1>6, StashStaysBlocked
  <2> QED
    BY <2>4, <1>1, <1>4 DEF StashBlocked, BlockedIn
<1>7. CASE stash' = [stash EXCEPT ![i] = NoItem]
  <2>1. ~Live(stash'[i]) /\ \A j \in J : stash'[j] = stash[j]
    BY <1>4, <1>5, <1>7 DEF Live
  <2>2. BlockedIn(J)'
    BY <2>1, <1>1, <1>2, <1>4, StashStaysBlocked
  <2>3. BlockedIn(J \cup {i})'
    BY <2>1, <2>2 DEF BlockedIn, Live
  <2> QED
    BY <2>3, <1>1, <1>4 DEF StashBlocked, BlockedIn
<1> QED
  BY <1>3, <1>6, <1>7, DrainHome DEF Inv, Home

(* The drain has done every slot below the extent; nothing lies above.     *)
LEMMA BlockedDrainDone ==
  ASSUME Inv, StashBlocked, DrainDone
  PROVE  StashBlocked'
<1>1. /\ pc = "drain" /\ pc' = "place" /\ index = stash_extent
      /\ UNCHANGED <<hash, size, items, stash>>
  BY DEF DrainDone, tableVars
<1>2. \A j \in StashIndex : j < index \/ stash[j] = NoItem
  BY <1>1, ConstantsAssumption DEF Inv, TypeOK, StashCounted, StashIndex
<1>3. BlockedIn(StashIndex)
  BY <1>1, <1>2 DEF StashBlocked, BlockedIn, Drained, Live
<1> QED
  BY <1>1, <1>3 DEF StashBlocked, BlockedIn, Blocked, IsFree, Pos1, Pos2, Live

(* Inside coucal_add_item_() and the merge no stashed item gets room.      *)
LEMMA BlockedAddItem ==
  ASSUME Inv, StashBlocked,
         PlaceFree \/ PlaceTaken \/ WalkFree \/ WalkKick \/ Count \/ MergeStep \/ MergeDone
  PROVE  StashBlocked'
<1>1. /\ pc \in {"place", "walk", "count", "merge"} /\ UNCHANGED <<hash, size, stash>>
      /\ pc' # "drain"
  BY DEF PlaceFree, PlaceTaken, WalkFree, WalkKick, Count, MergeStep, MergeDone, PutItem,
         CoucalAssert, tableVars, stashVars, Inv, TypeOK
<1>2. \A p \in 0 .. size - 1 : Live(items[p]) => Live(items'[p])
  BY TakenKept DEF PlaceTaken, Count, MergeStep, MergeDone, tableVars
<1>3. size \in TableSizes /\ BlockedIn(StashIndex)
  BY <1>1 DEF Inv, Control, StashBlocked
<1>4. BlockedIn(StashIndex)'
  BY <1>1, <1>2, <1>3, StashStaysBlocked
<1> QED
  BY <1>1, <1>4 DEF StashBlocked, BlockedIn

(* What the walk sends to the stash is blocked.                            *)
LEMMA BlockedStashItem ==
  ASSUME Inv, WalkEnds, StashBlocked, StashItem
  PROVE  StashBlocked'
<1>1. /\ pc = "stash" /\ pc' = return_to /\ pc' # "drain"
      /\ UNCHANGED <<hash, size, items>>
  BY DEF StashItem, tableVars, Inv, TypeOK
<1>2. PICK n \in StashIndex : stash' = [stash EXCEPT ![n] = item]
  BY StashItemSlot DEF Inv
<1>3. Blocked(item.name) /\ BlockedIn(StashIndex)
  BY <1>1 DEF WalkEnds, StashBlocked
<1>4. \A j \in StashIndex : stash'[j] = IF j = n THEN item ELSE stash[j]
  BY <1>2 DEF Inv, TypeOK
<1>5. \A j \in StashIndex : Live(stash'[j]) => Blocked(stash[j].name)'
  BY <1>1, <1>3, <1>4 DEF BlockedIn, Blocked, IsFree, Pos1, Pos2
<1> QED
  BY <1>1, <1>5 DEF StashBlocked, BlockedIn, Live

(* A table that grows leaves nothing in the stash.                         *)
LEMMA BlockedGrow ==
  ASSUME Inv, Grow
  PROVE  StashBlocked'
<1>1. \A j \in StashIndex : stash'[j] = NoItem
  <2>1. CASE stash_size # 0
    BY <2>1 DEF Grow, ResetStash, EmptyStash
  <2>2. CASE stash_size = 0
    BY <2>2, NothingStashed DEF Grow, stashVars, Inv
  <2> QED
    BY <2>1, <2>2
<1>2. pc' # "drain"
  BY DEF Grow, CoucalAssert
<1> QED
  BY <1>1, <1>2 DEF StashBlocked, BlockedIn, Live

(***************************************************************************)
(* The theorems.                                                           *)
(***************************************************************************)

(* No walk has begun at first.                                             *)
LEMMA WalkInit ==
  Init => WalkInv
BY DEF Init, WalkInv, WalkGoes, WalkEnds, StashBlocked

(* Outside coucal_add_item_() there is nothing to say of a walk.           *)
LEMMA NoWalk ==
  ASSUME pc' \notin {"walk", "stash"}
  PROVE  WalkGoes' /\ WalkEnds'
BY DEF WalkGoes, WalkEnds

(* A step of an add.                                                       *)
LEMMA WalkAddStep ==
  ASSUME Inv, Counted, WalkInv, AddStep
  PROVE  WalkInv'
<1>1. CASE DrainStep
  <2>1. pc' = "drain"
    BY <1>1 DEF DrainStep
  <2> QED
    BY <1>1, <2>1, NoWalk, BlockedDrainStep DEF WalkInv
<1>2. CASE DrainDone
  <2>1. pc' = "place"
    BY <1>2 DEF DrainDone
  <2> QED
    BY <1>2, <2>1, NoWalk, BlockedDrainDone DEF WalkInv
<1>3. CASE PlaceTaken
  <2>1. pc' = "walk"
    BY <1>3 DEF PlaceTaken
  <2>2. WalkEnds'
    BY <2>1 DEF WalkEnds
  <2> QED
    BY <1>3, <2>2, WalkBegins, BlockedAddItem DEF WalkInv
<1>4. CASE WalkKick
  BY <1>4, KickKeepsWalk, KickEndsWalk, BlockedAddItem DEF WalkInv
<1>5. CASE PlaceFree \/ WalkFree \/ Count \/ MergeStep \/ MergeDone
  <2>1. pc' \notin {"walk", "stash"}
    BY <1>5 DEF PlaceFree, WalkFree, Count, MergeStep, MergeDone, PutItem, CoucalAssert, Inv, TypeOK
  <2> QED
    BY <1>5, <2>1, NoWalk, BlockedAddItem DEF WalkInv
<1>6. CASE StashItem
  <2>1. pc' \notin {"walk", "stash"}
    BY <1>6 DEF StashItem, Inv, TypeOK
  <2> QED
    BY <1>6, <2>1, NoWalk, BlockedStashItem DEF WalkInv
<1>7. CASE Grow
  <2>1. pc' \notin {"walk", "stash"}
    BY <1>7 DEF Grow, CoucalAssert
  <2> QED
    BY <1>7, <2>1, NoWalk, BlockedGrow DEF WalkInv
<1>8. CASE StashFull \/ GrowRefused \/ GrowNoMemory \/ Return
  <2>1. pc' \in {"aborted", "idle"}
    BY <1>8 DEF StashFull, GrowRefused, GrowNoMemory, Return, Abort
  <2> QED
    BY <2>1, NoWalk DEF WalkInv, StashBlocked
<1> QED
  BY <1>1, <1>2, <1>3, <1>4, <1>5, <1>6, <1>7, <1>8 DEF AddStep

(* Every step of the specification.                                        *)
LEMMA WalkInvStep ==
  ASSUME Inv, Counted, WalkInv, [Next]_vars
  PROVE  WalkInv'
<1>1. CASE AddStep
  BY <1>1, WalkAddStep
<1>2. ASSUME NEW k, NEW v, NEW r, StartAdd(k, v, r) PROVE WalkInv'
  <2>1. pc' \in {"drain", "place"}
    BY <1>2 DEF StartAdd
  <2> QED
    BY <1>2, <2>1, NoWalk, BlockedStartAdd DEF WalkInv
<1>3. CASE \E k \in Key : \/ \E v \in Written : WriteNew(k, v)
                          \/ \E inc \in Increments : IncNew(k, inc)
  BY <1>2, <1>3 DEF WriteNew, IncNew
<1>4. CASE NoAdd
  <2>1. pc' \in {"null", "idle", "aborted"}
    BY <1>4 DEF NoAdd, Read, Remove, Replace, IncExisting, Delete, New, CoucalAssert
  <2> QED
    BY <2>1, NoWalk DEF WalkInv, StashBlocked
<1>5. CASE UNCHANGED vars
  <2>1. Positions' = Positions /\ Root' = Root /\ Target' = Target /\ Drained' = Drained
    BY <1>5 DEF vars, Positions, Pos1, Pos2, Root, Target, Drained
  <2>2. UNCHANGED <<hash, size, items, stash, pc, item, initial_hash, loops>>
    BY <1>5 DEF vars
  <2>3. WalkGoes'
    BY <2>1, <2>2 DEF WalkInv, WalkGoes, Live, Closed, Searching
  <2>4. WalkEnds'
    BY <2>1, <2>2 DEF WalkInv, WalkEnds, Blocked, IsFree, Pos1, Pos2, Closed, NoHashShared, HashValues
  <2>5. StashBlocked'
    BY <2>1, <2>2 DEF WalkInv, StashBlocked, BlockedIn, Blocked, IsFree, Pos1, Pos2, Live
  <2> QED
    BY <2>3, <2>4, <2>5 DEF WalkInv
<1> QED
  BY <1>1, <1>3, <1>4, <1>5 DEF Next, Call, Halted, NoAdd

(* The invariant of the walk holds in every state of every behaviour.      *)
THEOREM WalkInvariance == Spec => [](Inv /\ CountInv /\ WalkInv)
<1>1. Inv /\ CountInv /\ WalkInv /\ [Next]_vars => (Inv /\ CountInv /\ WalkInv)'
  BY InvStep, CountStep, WalkInvStep DEF CountInv
<1> QED
  BY <1>1, InvInit, CountInit, WalkInit, PTL DEF Spec

(* An item is sent to the stash only when both its positions are taken:    *)
(* the loop counter of the walk cannot run out while there is still a free *)
(* position ahead, for any size and any hashes.                            *)
THEOREM StashedOnlyIfBlockedAlways == Spec => []StashedOnlyIfBlocked
<1>1. WalkInv => StashedOnlyIfBlocked
  BY DEF WalkInv, WalkEnds, StashedOnlyIfBlocked
<1> QED
  BY <1>1, WalkInvariance, PTL

(* When an add returns, no item of the stash has a free position: what     *)
(* removals have freed the drain has used, and neither the walks of the    *)
(* add nor those of the merge free a position.                             *)
THEOREM AddLeavesStashBlockedAlways == Spec => []AddLeavesStashBlocked
<1>1. WalkInv => AddLeavesStashBlocked
  BY DEF WalkInv, StashBlocked, BlockedIn, AddLeavesStashBlocked, StashItems
<1> QED
  BY <1>1, WalkInvariance, PTL

(* When no hash value is shared, the walk gives up only if there is no     *)
(* arrangement of the table that would place its item: the counter is      *)
(* large enough and the comparison with the first hash not too early.      *)
THEOREM StashedOnlyIfNoRoomAlways == Spec => []StashedOnlyIfNoRoom
<1>1. Inv /\ WalkInv => StashedOnlyIfNoRoom
  <2> SUFFICES ASSUME Inv, WalkInv, pc = "stash", NoHashShared
               PROVE  ~Fits(NamesIn(TableItems \cup HandItems))
    BY DEF StashedOnlyIfNoRoom
  <2>1. PICK c \in 0 .. size - 1 : Closed(Positions, items, item.name, c)
    BY DEF WalkInv, WalkEnds
  <2>2. TypeOK /\ NoKeyTwice /\ size \in TableSizes /\ Live(item)
    BY DEF Inv, Control, InAddItem
  <2> QED
    BY <2>1, <2>2, ClosedHasNoRoom
<1> QED
  BY <1>1, WalkInvariance, PTL
==============================================================================
