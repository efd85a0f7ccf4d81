--------------------------- MODULE CoucalProperties --------------------------
(***************************************************************************)
(* What must hold of module Coucal.                                        *)
(***************************************************************************)
EXTENDS Coucal

(***************************************************************************)
(* Where an item can be: the table, the stash, the local `item' of         *)
(* coucal_add_item_(), or the part of the stash backup that the merge has  *)
(* not reached yet.                                                        *)
(***************************************************************************)
Live(slot) == slot # NoItem
Pending(j) == Live(backup[j]) /\ index <= j

TableItems == {items[p] : p \in {q \in 0 .. size - 1 : Live(items[q])}}
StashItems == {stash[j] : j \in {l \in StashIndex : Live(stash[l])}}
BackupItems == {backup[j] : j \in {l \in StashIndex : Pending(l)}}
HandItems == IF Live(item) THEN {item} ELSE {}
Stored == TableItems \cup StashItems \cup BackupItems \cup HandItems

NamesIn(S) == {it.name : it \in S}

(* both positions of key k are taken *)
Blocked(k) == ~IsFree(Pos1(k)) /\ ~IsFree(Pos2(k))

-----------------------------------------------------------------------------
(* the assertions of the modelled functions that can be evaluated *)
Failures ==
  {"none", "used_not_zero", "unexpected_position", "bad_position",
   "stash_size_grew", "stash_collision", "acceptable_lg_size",
   "allocation_error"}

(* The types of the variables: what the struct and the locals may hold.    *)
TypeOK ==
  /\ hash \in [Key -> [hash1 : Nat, hash2 : Nat]]
  /\ size \in TableSizes \cup {0}
  /\ items \in [0 .. size - 1 -> Slot]
  /\ used \in Int
  /\ stash \in [StashIndex -> Slot]
  /\ stash_size \in Int
  /\ stash_extent \in 0 .. StashSize
  /\ pc \in {"null", "idle", "drain", "place", "walk", "stash", "count",
             "grow", "merge", "return", "aborted"}
  /\ adding \in Slot
  /\ result \in Int
  /\ item \in Slot
  /\ cuckoo_hash \in Nat
  /\ initial_hash \in Nat
  /\ loops \in Nat
  /\ return_to \in {"count", "merge"}
  /\ index \in Nat
  /\ backup \in [StashIndex -> Slot]
  /\ old_extent \in 0 .. StashSize
  /\ old_size \in Int
  /\ ret \in Int \cup {NULL}
  /\ failure \in Failures

(* The cuckoo invariant: an item of the table is at one of the two         *)
(* positions its hashes give for the present size - after a kick and after *)
(* a doubling too - or lookups, which read those two only, would miss it.  *)
CuckooPlaced == WellPositioned

(* "The item SHALL NOT be already present": no key is in two places, not   *)
(* even half-way through a walk, a drain or a merge; and the key that a    *)
(* write is about to add is nowhere while the stash is drained.            *)
Distinct(slot, other) == Live(slot) /\ Live(other) => slot.name # other.name

NoKeyTwice ==
  /\ \A p, q \in 0 .. size - 1 : p # q => Distinct(items[p], items[q])
  /\ \A j, l \in StashIndex : j # l => Distinct(stash[j], stash[l])
  /\ \A j, l \in StashIndex :
       j # l /\ Pending(j) /\ Pending(l) => Distinct(backup[j], backup[l])
  /\ \A p \in 0 .. size - 1 :
       /\ \A j \in StashIndex : Distinct(items[p], stash[j])
       /\ \A j \in StashIndex : Pending(j) => Distinct(items[p], backup[j])
       /\ Distinct(items[p], item)
       /\ pc = "drain" => Distinct(items[p], adding)
  /\ \A j \in StashIndex :
       /\ \A l \in StashIndex : Pending(l) => Distinct(stash[j], backup[l])
       /\ Distinct(stash[j], item)
       /\ Pending(j) => Distinct(backup[j], item)
       /\ pc = "drain" => Distinct(stash[j], adding)

(* "Stash size, holes excluded" and "slots in use": no item lies at or     *)
(* above the extent, where no loop would see it, size counts the items     *)
(* below it, and between two calls the extent ends on an item.             *)
StashAccounting ==
  /\ \A j \in StashIndex : j >= stash_extent => stash[j] = NoItem
  /\ stash_size = Cardinality({j \in StashIndex : Live(stash[j])})
  /\ pc = "idle" /\ stash_extent # 0 => Live(stash[stash_extent - 1])

(* The item that is in coucal_add_item_() for a write is not counted yet.  *)
Uncounted == pc = "count" \/ (pc \in {"place", "walk", "stash"} /\ return_to = "count")

(* coucal_nitems() is the number of entries, table and stash together, and *)
(* no walk, drain, merge or removal loses one.                             *)
UsedIsCount ==
  pc # "aborted" =>
    Cardinality(NamesIn(Stored)) = used + (IF Uncounted THEN 1 ELSE 0)

(* Between two calls more than half of the table is free: the doubling is  *)
(* never late, which is what keeps walks short.                            *)
LessThanHalfFull == pc = "idle" => used < size \div 2

(* The assertions that guard against an internal error never fail: the     *)
(* only aborts are the full stash, the largest table and the allocation.   *)
NoInternalError ==
  failure \in {"none", "stash_collision", "acceptable_lg_size",
               "allocation_error"}

(* An item is sent to the stash only when both its positions are taken,    *)
(* although the walk gives up on a repeated hash or a loop count.          *)
StashedOnlyIfBlocked == pc = "stash" => Blocked(item.name)

(* A walk is a fair attempt: when no hash value is shared, by two keys or  *)
(* by the two hashes of one, an item is sent to the stash only if the      *)
(* table has no arrangement that places it - "loops" is large enough and   *)
(* the walk tries both positions.  (When hash values are shared the walk   *)
(* may give up early: it compares hashes, not positions.)                  *)
HashValues(k) == {hash[k].hash1, hash[k].hash2}

NoHashShared ==
  /\ \A k \in Key : hash[k].hash1 # hash[k].hash2
  /\ \A k, l \in Key : k # l => HashValues(k) \cap HashValues(l) = {}

Fits(K) ==
  \E first \in SUBSET K :
    LET place(k) == IF k \in first THEN Pos1(k) ELSE Pos2(k)
    IN  \A k, l \in K : place(k) = place(l) => k = l

StashedOnlyIfNoRoom ==
  pc = "stash" /\ NoHashShared => ~Fits(NamesIn(TableItems \cup HandItems))

(* When an add returns, no item of the stash has a free position: what the *)
(* removals since the last add have freed, the drain has used.             *)
AddLeavesStashBlocked == pc = "return" => \A it \in StashItems : Blocked(it.name)

(* A call that adds nothing moves nothing: whatever is removed, replaced,  *)
(* incremented or read, every entry that stays keeps its slot.             *)
StaysPut ==
  [][pc = "idle" /\ pc' = "idle" =>
       /\ \A p \in 0 .. size - 1 :
            Live(items[p]) => items'[p] = NoItem \/ items'[p].name = items[p].name
       /\ \A j \in StashIndex :
            Live(stash[j]) => stash'[j] = NoItem \/ stash'[j].name = stash[j].name]_vars

(* "Return the entry's new (incremented) value", which is what coucal_read  *)
(* returns for it: an intptr_t.                                            *)
AsIntptr(v) == IF v < ValueMod \div 2 THEN v ELSE v - ValueMod

IncReturnsNewValue ==
  [][\A k \in Key, inc \in Increments :
       IncExisting(k, inc) =>
         \E it \in TableItems' \cup StashItems' :
           it.name = k /\ ret' = AsIntptr(it.value)]_vars

(* Every call returns, or aborts: the walk, the drain and the merge end.   *)
CallReturns == pc \notin {"null", "idle", "aborted"} ~> pc \in {"idle", "aborted"}

(* A bound on the steps that a write in progress has left.                 *)
(* coucal_add_item_() takes at most size + 2 of them, for the item that is *)
(* added and, if the table doubles, for each slot of the backup.           *)
StepsLeft ==
  LET grown == StashSize * (2 * size + 3) + 3
      merged == (old_extent - index) * (size + 3) + 2
      after == IF return_to = "merge" THEN merged ELSE grown + 1
  IN  CASE pc = "drain" -> (stash_extent - index) + 1 + (size + 2) + after
        [] pc = "place" -> size + 2 + after
        [] pc = "walk" -> loops + 1 + after
        [] pc = "stash" -> 1 + after
        [] pc = "count" -> grown + 1
        [] pc = "grow" -> grown
        [] pc = "merge" -> merged
        [] pc = "return" -> 1
        [] OTHER -> 0

(* Every step of a write brings its end nearer: no kick, drain, stashing,  *)
(* doubling or merge can go round in circles, so that a call takes no more *)
(* steps than StepsLeft allows at its beginning.                           *)
AddsAdvance == [][AddStep => StepsLeft' \in 0 .. StepsLeft - 1]_vars

(***************************************************************************)
(* The refinement mapping: the entries are the items that are stored,      *)
(* except for the one a write in progress is adding, which counts from the *)
(* return of the call.                                                     *)
(***************************************************************************)
Entries == {it \in Stored : Live(adding) => it.name # adding.name}

Map == INSTANCE CoucalMap WITH open <- pc # "null", entries <- Entries

(* The hashtable does what coucal.h promises: every call returns what the  *)
(* map would, lookups find exactly what was written and not removed, and   *)
(* what an add does on its way shows to nobody.                            *)
ImplementsMap == Map!MapSpec
==============================================================================
