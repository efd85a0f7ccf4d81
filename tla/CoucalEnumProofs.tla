-------------------------- MODULE CoucalEnumProofs ---------------------------
(***************************************************************************)
(* Proofs about the enumerator: its cursor stays within the slots, and it  *)
(* implements the enumeration that coucal.h promises, because no call that *)
(* adds nothing moves an item across the cursor.                           *)
(***************************************************************************)
EXTENDS CoucalEnum, CoucalMapProofs

allVars == <<vars, enumVars>>
EnumStep == TableStep \/ EnumNew \/ EnumNext

(* An enumeration is defined only between two calls, and goes with the     *)
(* table.                                                                  *)
EnumControl ==
  /\ enum = "defined" => pc = "idle"
  /\ pc = "null" => enum = "none"

EnumInv == MapInv /\ EnumTypeOK /\ EnumControl

(***************************************************************************)
(* The slots in the order of the enumeration.                              *)
(***************************************************************************)

(* The cursor passes over the slots of the table, then those of the stash. *)
LEMMA SlotsInOrder ==
  ASSUME TypeOK, NEW i \in Nat, i < EnumEnd
  PROVE  SlotAt(i) \in Slot
<1>1. size \in Nat
  BY ConstantsAssumption DEF TypeOK
<1>2. CASE i < size
  BY <1>1, <1>2 DEF SlotAt, TypeOK
<1>3. CASE ~(i < size)
  <2>1. i - size \in StashIndex
    BY <1>1, <1>3, ConstantsAssumption DEF EnumEnd, TypeOK, StashIndex
  <2> QED
    BY <1>3, <2>1 DEF SlotAt, TypeOK
<1> QED
  BY <1>2, <1>3

(* The size of the table only grows, until it is deleted.                  *)
LEMMA SizeGrows ==
  ASSUME Inv, [Next]_vars, pc' # "null"
  PROVE  size' >= size
<1>1. size \in Nat
  BY ConstantsAssumption DEF Inv, TypeOK
<1>2. CASE size' = size
  BY <1>1, <1>2
<1>3. CASE Grow
  BY <1>1, <1>3 DEF Grow
<1>4. ASSUME NEW n \in NewSizes, NEW h \in Hashers, New(n, h) PROVE size' >= size
  BY <1>1, <1>4, ConstantsAssumption DEF New, Inv, Control
<1>5. CASE AddStep
  BY <1>2, <1>3, <1>5 DEF AddStep, DrainStep, DrainDone, PlaceFree, PlaceTaken, WalkFree,
     WalkKick, StashItem, StashFull, Count, GrowRefused, GrowNoMemory, MergeStep, MergeDone,
     Return, tableVars
<1>6. ASSUME NEW k \in Key, NEW v, NEW r,
             Read(k) \/ Remove(k) \/ Replace(k, v) \/ IncExisting(k, v) \/ StartAdd(k, v, r)
      PROVE  size' = size
  BY <1>6 DEF Read, Remove, Replace, IncExisting, StartAdd, tableVars
<1>7. ~Delete
  BY DEF Delete
<1>8. CASE UNCHANGED vars
  BY <1>2, <1>8 DEF vars
<1> QED
  BY <1>2, <1>4, <1>5, <1>6, <1>7, <1>8 DEF Next, Call, Halted, WriteNew, IncNew

(* The cursor starts at the first slot.                                    *)
LEMMA EnumInvInit ==
  EnumInit => EnumInv
<1> SUFFICES ASSUME EnumInit PROVE EnumInv
  OBVIOUS
<1>1. MapInv
  BY InvInit, CountInit, CallInit DEF EnumInit, MapInv
<1> QED
  BY <1>1, ConstantsAssumption DEF EnumInit, Init, EnumInv, EnumTypeOK, EnumControl

(* The cursor stays within the slots.                                      *)
LEMMA EnumInvStep ==
  ASSUME EnumInv, [EnumStep]_allVars
  PROVE  EnumInv'
<1>1. size \in Nat /\ stash_extent \in 0 .. StashSize /\ StashSize \in Nat
  BY ConstantsAssumption DEF EnumInv, MapInv, Inv, TypeOK
<1>2. MapInv'
  <2>1. [Next]_vars
    BY DEF EnumStep, TableStep, EnumNew, EnumNext, allVars
  <2> QED
    BY <2>1, MapInvStep DEF EnumInv
<1>3. CASE UNCHANGED allVars
  BY <1>2, <1>3 DEF allVars, enumVars, vars, EnumInv, EnumTypeOK, EnumControl
<1>4. CASE EnumNew
  BY <1>1, <1>2, <1>4 DEF EnumNew, vars, EnumInv, EnumTypeOK, EnumControl
<1>5. CASE EnumNext
  <2>1. UNCHANGED <<size, pc, enum>>
    BY <1>5 DEF EnumNext, vars
  <2>2. ASSUME NEW i \in e_index .. EnumEnd - 1, Live(SlotAt(i)),
               e_index' = i + 1, e_name' = SlotAt(i).name
        PROVE  e_index' \in 0 .. size + StashSize /\ e_name' \in Key
    <3>1. i \in Nat /\ i < EnumEnd
      BY <1>1 DEF EnumInv, EnumTypeOK, EnumEnd
    <3>2. SlotAt(i).name \in Key
      BY <2>2, <3>1, SlotsInOrder, LiveIsItem DEF EnumInv, MapInv, Inv
    <3> QED
      BY <1>1, <2>2, <3>1, <3>2 DEF EnumEnd
  <2>3. AfterEnd \in 0 .. size + StashSize
    BY <1>1 DEF AfterEnd, EnumEnd, EnumInv, EnumTypeOK
  <2>4. e_index' \in 0 .. size + StashSize /\ e_name' \in Key \cup {NULL}
    BY <1>5, <2>2, <2>3 DEF EnumNext
  <2> QED
    BY <1>2, <2>1, <2>4 DEF EnumInv, EnumTypeOK, EnumControl
<1>6. CASE TableStep
  <2>1. e_index' \in 0 .. size' + StashSize
    <3>1. size' \in TableSizes \cup {0}
      <4>1. TypeOK'
        BY <1>2 DEF MapInv, Inv
      <4> QED
        BY <4>1 DEF TypeOK
    <3>2. size' \in Nat
      BY <3>1, ConstantsAssumption
    <3>3. ASSUME pc' = "null" PROVE e_index' = 0
      BY <1>6, <3>3 DEF TableStep
    <3>4. ASSUME pc' # "null" PROVE e_index' = e_index /\ size' >= size
      BY <1>6, <3>4, SizeGrows DEF TableStep, EnumInv, MapInv
    <3>5. e_index \in 0 .. size + StashSize
      BY DEF EnumInv, EnumTypeOK
    <3> QED
      BY <1>1, <3>2, <3>3, <3>4, <3>5
  <2>2. /\ enum' \in {"none", "defined", "undefined"} /\ e_name' = e_name
        /\ enum' = "defined" => pc' = "idle"
        /\ pc' = "null" => enum' = "none"
    BY <1>6 DEF TableStep, EnumInv, EnumTypeOK
  <2> QED
    BY <1>2, <2>1, <2>2 DEF EnumInv, EnumTypeOK, EnumControl
<1> QED
  BY <1>3, <1>4, <1>5, <1>6 DEF EnumStep

(* Of every behaviour with an enumerator.                                  *)
THEOREM EnumInvariance == EnumSpec => []EnumInv
<1>1. EnumInv /\ [EnumStep]_allVars => EnumInv'
  BY EnumInvStep
<1> QED
  BY <1>1, EnumInvInit, PTL DEF EnumSpec, EnumStep, allVars

(* The cursor stays within the slots of the table and of the stash, also   *)
(* when the table has grown or the extent has been trimmed below it.       *)
THEOREM EnumTypeCorrect == EnumSpec => []EnumTypeOK
<1>1. EnumInv => EnumTypeOK
  BY DEF EnumInv
<1> QED
  BY <1>1, EnumInvariance, PTL

(***************************************************************************)
(* The refinement: the keys left to visit are those of the slots at or     *)
(* beyond the cursor.                                                      *)
(***************************************************************************)
LeftInTable(k) == \E p \in 0 .. size - 1 : e_index <= p /\ Live(items[p]) /\ items[p].name = k
LeftInStash(k) ==
  \E j \in StashIndex : e_index <= size + j /\ Live(stash[j]) /\ stash[j].name = k

LeftCorrect ==
  TypeOK /\ StashCounted /\ EnumTypeOK /\ enum = "defined" =>
    \A k : k \in Left <=> LeftInTable(k) \/ LeftInStash(k)

(* The slots of the enumeration are those of the table and those of the    *)
(* stash that hold an item: none is beyond the extent.                     *)
LEMMA LeftIs ==
  LeftCorrect
<1> SUFFICES ASSUME TypeOK, StashCounted, EnumTypeOK, enum = "defined"
             PROVE  \A k : k \in Left <=> LeftInTable(k) \/ LeftInStash(k)
  BY DEF LeftCorrect
<1>1. /\ size \in Nat /\ stash_extent \in 0 .. StashSize /\ StashSize \in Nat
      /\ e_index \in Nat
  BY ConstantsAssumption DEF TypeOK, EnumTypeOK
<1>2. \A k : k \in Left <=>
        \E i \in e_index .. EnumEnd - 1 : Live(SlotAt(i)) /\ SlotAt(i).name = k
  BY DEF Left
<1>3. ASSUME NEW k, NEW i \in e_index .. EnumEnd - 1, Live(SlotAt(i)), SlotAt(i).name = k
      PROVE  LeftInTable(k) \/ LeftInStash(k)
  <2>1. CASE i < size
    <3>1. i \in 0 .. size - 1 /\ e_index <= i /\ SlotAt(i) = items[i]
      BY <1>1, <2>1 DEF EnumEnd, SlotAt
    <3> QED
      BY <1>3, <3>1 DEF LeftInTable
  <2>2. CASE ~(i < size)
    <3>1. /\ i - size \in StashIndex /\ e_index <= size + (i - size)
          /\ SlotAt(i) = stash[i - size]
      BY <1>1, <2>2 DEF EnumEnd, SlotAt, StashIndex
    <3> QED
      BY <1>3, <3>1 DEF LeftInStash
  <2> QED
    BY <2>1, <2>2
<1>4. ASSUME NEW k, LeftInTable(k)
      PROVE  \E i \in e_index .. EnumEnd - 1 : Live(SlotAt(i)) /\ SlotAt(i).name = k
  <2>1. PICK p \in 0 .. size - 1 : e_index <= p /\ Live(items[p]) /\ items[p].name = k
    BY <1>4 DEF LeftInTable
  <2>2. p \in e_index .. EnumEnd - 1 /\ SlotAt(p) = items[p]
    BY <1>1, <2>1 DEF EnumEnd, SlotAt
  <2> QED
    BY <2>1, <2>2
<1>5. ASSUME NEW k, LeftInStash(k)
      PROVE  \E i \in e_index .. EnumEnd - 1 : Live(SlotAt(i)) /\ SlotAt(i).name = k
  <2>1. PICK j \in StashIndex : e_index <= size + j /\ Live(stash[j]) /\ stash[j].name = k
    BY <1>5 DEF LeftInStash
  <2>2. j < stash_extent /\ j \in Nat
    BY <1>1, <2>1 DEF StashCounted, Live, StashIndex
  <2>3. /\ size + j \in e_index .. EnumEnd - 1 /\ (size + j) - size = j
        /\ ~(size + j < size)
    BY <1>1, <2>1, <2>2 DEF EnumEnd
  <2>4. SlotAt(size + j) = stash[j]
    BY <2>3 DEF SlotAt
  <2> QED
    BY <2>1, <2>3, <2>4
<1> QED
  BY <1>2, <1>3, <1>4, <1>5

(* The same, of the next state.                                            *)
LEMMA LeftIsNext ==
  LeftCorrect'
BY LeftIs, PTL

(* What the four parts of the invariant say, by name.                      *)
LEMMA EnumParts ==
  ASSUME EnumInv
  PROVE  /\ MapInv /\ Inv /\ CountInv /\ CallInv /\ EnumTypeOK /\ EnumControl
         /\ TypeOK /\ Control /\ StashCounted /\ StashInv /\ CuckooPlaced /\ NoKeyTwice
BY DEF EnumInv, MapInv, Inv, StashInv

(* The cursor and the end of the enumeration are natural numbers.          *)
LEMMA EnumNumbers ==
  ASSUME EnumInv
  PROVE  size \in Nat /\ EnumEnd \in Nat /\ e_index \in Nat
<1>1. size \in Nat /\ stash_extent \in Nat
  BY ConstantsAssumption DEF EnumInv, MapInv, Inv, TypeOK
<1> QED
  BY <1>1 DEF EnumEnd, EnumInv, EnumTypeOK

(* Two slots hold different keys.                                          *)
LEMMA SlotsDistinct ==
  ASSUME TypeOK, NoKeyTwice, NEW i \in Nat, NEW l \in Nat, i < EnumEnd, l < EnumEnd, i # l,
         Live(SlotAt(i)), Live(SlotAt(l))
  PROVE  SlotAt(i).name # SlotAt(l).name
<1>1. size \in Nat
  BY ConstantsAssumption DEF TypeOK
<1>2. ASSUME NEW m \in Nat, m < EnumEnd
      PROVE  \/ m \in 0 .. size - 1 /\ SlotAt(m) = items[m]
             \/ m - size \in StashIndex /\ SlotAt(m) = stash[m - size]
  <2>1. CASE m < size
    BY <1>1, <2>1 DEF SlotAt
  <2>2. CASE ~(m < size)
    BY <1>1, <1>2, <2>2, ConstantsAssumption DEF SlotAt, EnumEnd, StashIndex, TypeOK
  <2> QED
    BY <2>1, <2>2
<1>3. CASE i \in 0 .. size - 1 /\ SlotAt(i) = items[i]
  BY <1>2, <1>3 DEF NoKeyTwice, Distinct
<1>4. CASE i - size \in StashIndex /\ SlotAt(i) = stash[i - size]
  <2>1. CASE l \in 0 .. size - 1 /\ SlotAt(l) = items[l]
    BY <1>4, <2>1 DEF NoKeyTwice, Distinct
  <2>2. CASE l - size \in StashIndex /\ SlotAt(l) = stash[l - size]
    <3>1. i - size # l - size
      BY <1>1
    <3> QED
      BY <1>4, <2>2, <3>1 DEF NoKeyTwice, Distinct
  <2> QED
    BY <1>2, <2>1, <2>2
<1> QED
  BY <1>2, <1>3, <1>4

(* A slot of the enumeration that is not free holds a stored item.         *)
LEMMA SlotsStored ==
  ASSUME TypeOK, NEW i \in Nat, i < EnumEnd, Live(SlotAt(i))
  PROVE  SlotAt(i) \in Stored
<1>1. size \in Nat
  BY ConstantsAssumption DEF TypeOK
<1>2. CASE i < size
  BY <1>1, <1>2, InStored DEF SlotAt, InTable
<1>3. CASE ~(i < size)
  <2>1. i - size \in StashIndex /\ SlotAt(i) = stash[i - size]
    BY <1>1, <1>3, ConstantsAssumption DEF SlotAt, EnumEnd, StashIndex, TypeOK
  <2> QED
    BY <2>1, InStored DEF InStash
<1> QED
  BY <1>2, <1>3

(* Calls of the enumerator leave the entries alone.                        *)
LEMMA EntriesUnchanged ==
  ASSUME UNCHANGED vars
  PROVE  UNCHANGED <<pc, ret>> /\ Entries' = Entries
<1>1. Stored' = Stored /\ UNCHANGED <<pc, ret, adding>>
  BY StoredUnchanged DEF vars
<1> QED
  BY <1>1 DEF Entries, Live

(* A new enumeration has everything to visit.                              *)
LEMMA EnumNewMaps ==
  ASSUME EnumInv, EnumInv', EnumNew
  PROVE  EnumMap!MapEnumNew
<1>1. /\ pc = "idle" /\ enum' = "defined" /\ e_index' = 0
      /\ UNCHANGED <<size, items, stash, e_name>> /\ UNCHANGED vars
  BY DEF EnumNew, vars
<1>2. \A k : k \in Left' <=> LeftInTable(k)' \/ LeftInStash(k)'
  BY <1>1, LeftIsNext DEF LeftCorrect, EnumInv, MapInv, Inv
<1>3. size \in Nat /\ Entries = Stored
  BY <1>1, EnumNumbers, EntriesAtRest DEF EnumInv, MapInv
<1>4. \A k : LeftInTable(k)' <=> \E it : InTable(it) /\ it.name = k
  BY <1>1, <1>3 DEF LeftInTable, InTable, Live
<1>5. \A k : LeftInStash(k)' <=> \E it : InStash(it) /\ it.name = k
  BY <1>1, <1>3 DEF LeftInStash, InStash, Live, StashIndex
<1>6. \A it : it \in Stored <=> InTable(it) \/ InStash(it)
  BY <1>1, EnumParts, InStored, StoredAtRest
<1>7. Left' = EnumMap!Names
  <2>1. \A k : k \in Left' <=> k \in EnumMap!Names
    BY <1>2, <1>3, <1>4, <1>5, <1>6 DEF EnumMap!Names
  <2> QED
    BY <2>1
<1> QED
  BY <1>1, <1>7, EntriesUnchanged DEF EnumMap!MapEnumNew, EnumMap!mapVars

(* The next slot that is not free is an entry still to visit, and leaves   *)
(* the others; when there is none everything has been visited.             *)
LEMMA EnumNextMaps ==
  ASSUME EnumInv, EnumInv', EnumNext
  PROVE  EnumMap!MapEnumNext \/ EnumMap!MapEnumNextUndefined
<1>1. /\ pc = "idle" /\ enum \in {"defined", "undefined"}
      /\ UNCHANGED <<size, items, stash, stash_extent, enum>> /\ UNCHANGED vars
  BY EnumParts DEF EnumNext, vars, EnumTypeOK
<1>2. e_index \in Nat /\ e_index' \in Nat /\ EnumEnd \in Nat /\ size \in Nat
  <2>1. size' = size /\ e_index' \in 0 .. size' + StashSize
    BY <1>1 DEF EnumInv, EnumTypeOK
  <2> QED
    BY <2>1, EnumNumbers
<1>3. /\ EnumEnd' = EnumEnd
      /\ \A i : SlotAt(i)' = SlotAt(i)
  BY <1>1 DEF EnumEnd, SlotAt
<1>4. Entries = Stored /\ Entries' = Entries /\ UNCHANGED <<pc, ret>>
  BY <1>1, EnumParts, EntriesAtRest, EntriesUnchanged
<1>5. CASE enum = "undefined"
  <2>1. Left = {} /\ Left' = {}
    BY <1>1, <1>5 DEF Left
  <2>2. ASSUME NEW i \in e_index .. EnumEnd - 1, Live(SlotAt(i))
        PROVE  SlotAt(i).name \in EnumMap!Names
    <3>1. SlotAt(i) \in Stored
      BY <1>2, <2>2, EnumParts, SlotsStored
    <3> QED
      BY <1>4, <3>1 DEF EnumMap!Names
  <2>3. e_name' \in EnumMap!Names \cup {NULL}
    BY <2>2 DEF EnumNext
  <2> QED
    BY <1>1, <1>4, <1>5, <2>1, <2>3 DEF EnumMap!MapEnumNextUndefined, EnumMap!mapVars
<1>6. CASE enum = "defined"
  <2>1. /\ \A k : k \in Left <=>
             \E i \in e_index .. EnumEnd - 1 : Live(SlotAt(i)) /\ SlotAt(i).name = k
        /\ \A k : k \in Left' <=>
             \E i \in e_index' .. EnumEnd - 1 : Live(SlotAt(i)) /\ SlotAt(i).name = k
    BY <1>1, <1>3, <1>6 DEF Left, Live
  <2>2. ASSUME NEW i \in e_index .. EnumEnd - 1, Live(SlotAt(i)),
               \A j \in e_index .. i - 1 : ~Live(SlotAt(j)),
               e_index' = i + 1
        PROVE  SlotAt(i).name \in Left /\ Left' = Left \ {SlotAt(i).name}
    <3>1. SlotAt(i).name \in Left
      BY <2>1, <2>2
    <3>2. ASSUME NEW l \in e_index .. EnumEnd - 1, Live(SlotAt(l)), l # i
          PROVE  l \in e_index' .. EnumEnd - 1 /\ SlotAt(l).name # SlotAt(i).name
      <4>1. l \in e_index' .. EnumEnd - 1
        BY <1>2, <2>2, <3>2
      <4> QED
        BY <1>2, <2>2, <3>2, <4>1, EnumParts, SlotsDistinct
    <3>3. \A l \in e_index' .. EnumEnd - 1 : l \in e_index .. EnumEnd - 1 /\ l # i
      BY <1>2, <2>2
    <3>4. \A k : k \in Left' <=> k \in Left /\ k # SlotAt(i).name
      BY <2>1, <3>2, <3>3
    <3> QED
      BY <3>1, <3>4
  <2>3. ASSUME \A j \in e_index .. EnumEnd - 1 : ~Live(SlotAt(j)), e_index' = AfterEnd
        PROVE  Left = {} /\ Left' = {}
    <3>1. \A k : k \notin Left
      BY <2>1, <2>3
    <3>2. \A l \in e_index' .. EnumEnd - 1 : FALSE
      BY <1>2, <2>3 DEF AfterEnd
    <3>3. \A k : k \notin Left'
      BY <2>1, <3>2
    <3> QED
      BY <3>1, <3>3
  <2>4. UNCHANGED EnumMap!mapVars
    BY <1>4 DEF EnumMap!mapVars
  <2>5. \/ \E k \in Left : e_name' = k /\ Left' = Left \ {k}
        \/ Left = {} /\ e_name' = NULL /\ Left' = Left
    BY <2>2, <2>3 DEF EnumNext
  <2> QED
    BY <1>1, <1>6, <2>4, <2>5 DEF EnumMap!MapEnumNext
<1> QED
  BY <1>1, <1>5, <1>6

(***************************************************************************)
(* The calls under a running enumeration.                                  *)
(***************************************************************************)

(* no name comes, goes or moves                                            *)
NamesStay ==
  /\ UNCHANGED size
  /\ \A p \in 0 .. size - 1 :
       /\ Live(items'[p]) <=> Live(items[p])
       /\ Live(items[p]) => items'[p].name = items[p].name
  /\ \A j \in StashIndex :
       /\ Live(stash'[j]) <=> Live(stash[j])
       /\ Live(stash[j]) => stash'[j].name = stash[j].name

(* Reading and replacing leave every key where it is.                      *)
LEMMA CallsStay ==
  ASSUME TypeOK, NEW k \in Key, NEW v,
         \/ Read(k)
         \/ v \in Written /\ Replace(k, v)
         \/ v \in Increments /\ IncExisting(k, v)
  PROVE  NamesStay
<1>1. UNCHANGED size
  BY DEF Read, Replace, IncExisting, tableVars
<1>2. ASSUME UNCHANGED <<items, stash>> PROVE NamesStay
  BY <1>1, <1>2 DEF NamesStay
<1>3. ASSUME NEW p \in 0 .. size - 1, NEW w \in Value, AtTable(k, p), UNCHANGED stash,
             items' = [items EXCEPT ![p] = SetValue(@, w)]
      PROVE  NamesStay
  <2>1. Live(items[p]) /\ items[p] \in Item
    BY <1>3, FoundInTable
  <2>2. Live(SetValue(items[p], w)) /\ SetValue(items[p], w).name = items[p].name
    BY <2>1, SetValueIsItem, ItemIsLive
  <2>3. \A q \in 0 .. size - 1 : items'[q] = IF q = p THEN SetValue(items[p], w) ELSE items[q]
    BY <1>3 DEF TypeOK
  <2> QED
    BY <1>1, <1>3, <2>1, <2>2, <2>3 DEF NamesStay
<1>4. ASSUME NEW j \in StashIndex, NEW w \in Value, AtStash(k, j), UNCHANGED items,
             stash' = [stash EXCEPT ![j] = SetValue(@, w)]
      PROVE  NamesStay
  <2>1. Live(stash[j]) /\ stash[j] \in Item
    BY <1>4, FoundInStash
  <2>2. Live(SetValue(stash[j], w)) /\ SetValue(stash[j], w).name = stash[j].name
    BY <2>1, SetValueIsItem, ItemIsLive
  <2>3. \A l \in StashIndex : stash'[l] = IF l = j THEN SetValue(stash[j], w) ELSE stash[l]
    BY <1>4 DEF TypeOK
  <2> QED
    BY <1>1, <1>4, <2>1, <2>2, <2>3 DEF NamesStay
<1>5. CASE Read(k)
  BY <1>2, <1>5 DEF Read, tableVars, stashVars
<1>6. CASE v \in Written /\ Replace(k, v)
  <2>1. v \in Value
    BY <1>6, ConstantsAssumption DEF Value
  <2> QED
    BY <1>3, <1>4, <1>6, <2>1 DEF Replace
<1>7. CASE v \in Increments /\ IncExisting(k, v)
  <2>1. ASSUME NEW p \in 0 .. size - 1, AtTable(k, p)
        PROVE  (items[p].value + v) % ValueMod \in Value
    BY <1>7, <2>1, FoundInTable, SumIsValue DEF Item
  <2>2. ASSUME NEW j \in StashIndex, AtStash(k, j)
        PROVE  (stash[j].value + v) % ValueMod \in Value
    BY <1>7, <2>2, FoundInStash, SumIsValue DEF Item
  <2> QED
    BY <1>3, <1>4, <1>7, <2>1, <2>2 DEF IncExisting
<1> QED
  BY <1>5, <1>6, <1>7

(* What is left to visit stays so when no name moves.                      *)
LEMMA LeftStays ==
  ASSUME EnumInv, EnumInv', NamesStay, UNCHANGED <<enum, e_index>>
  PROVE  Left' = Left
<1>1. CASE enum # "defined"
  BY <1>1 DEF Left
<1>2. CASE enum = "defined"
  <2>1. \A k : k \in Left <=> LeftInTable(k) \/ LeftInStash(k)
    BY <1>2, LeftIs DEF LeftCorrect, EnumInv, MapInv, Inv
  <2>2. \A k : k \in Left' <=> LeftInTable(k)' \/ LeftInStash(k)'
    BY <1>2, LeftIsNext DEF LeftCorrect, EnumInv, MapInv, Inv
  <2>3. \A k : LeftInTable(k)' <=> LeftInTable(k)
    BY DEF NamesStay, LeftInTable, Live
  <2>4. \A k : LeftInStash(k)' <=> LeftInStash(k)
    BY DEF NamesStay, LeftInStash, Live
  <2>5. \A k : k \in Left' <=> k \in Left
    BY <2>1, <2>2, <2>3, <2>4
  <2> QED
    BY <2>5
<1> QED
  BY <1>1, <1>2

(* A removal takes its own key out of what is left, and no other: the slot *)
(* becomes a hole, and trimming passes over holes only.                    *)
LEMMA LeftRemoved ==
  ASSUME EnumInv, EnumInv', NEW k \in Key, Remove(k), UNCHANGED <<enum, e_index>>
  PROVE  Left' = Left \ {k}
<1>1. CASE enum # "defined"
  BY <1>1 DEF Left
<1>2. CASE enum = "defined"
  <2>1. \A m : m \in Left <=> LeftInTable(m) \/ LeftInStash(m)
    BY <1>2, LeftIs DEF LeftCorrect, EnumInv, MapInv, Inv
  <2>2. \A m : m \in Left' <=> LeftInTable(m)' \/ LeftInStash(m)'
    BY <1>2, LeftIsNext DEF LeftCorrect, EnumInv, MapInv, Inv
  <2>3. UNCHANGED size
    BY DEF Remove
  <2>4. ASSUME NEW p \in 0 .. size - 1, AtTable(k, p), UNCHANGED stash,
               items' = [items EXCEPT ![p] = NoItem]
        PROVE  \A m : /\ LeftInTable(m)' <=> LeftInTable(m) /\ m # k
                      /\ LeftInStash(m)' <=> LeftInStash(m) /\ m # k
    <3>1. Live(items[p]) /\ items[p].name = k
      BY <2>4, FoundInTable, EnumParts
    <3>2. \A q \in 0 .. size - 1 : items'[q] = IF q = p THEN NoItem ELSE items[q]
      BY <2>4, EnumParts DEF TypeOK
    <3>3. \A q \in 0 .. size - 1 : q # p /\ Live(items[q]) => items[q].name # k
      BY <3>1, EnumParts DEF NoKeyTwice, Distinct
    <3>4. \A j \in StashIndex : Live(stash[j]) => stash[j].name # k
      BY <3>1, EnumParts DEF NoKeyTwice, Distinct
    <3>5. \A m : LeftInTable(m)' <=> LeftInTable(m) /\ m # k
      BY <2>3, <3>1, <3>2, <3>3 DEF LeftInTable, Live
    <3>6. \A m : LeftInStash(m)' <=> LeftInStash(m) /\ m # k
      BY <2>3, <2>4, <3>4 DEF LeftInStash, Live
    <3> QED
      BY <3>5, <3>6
  <2>5. ASSUME NEW j \in StashIndex, AtStash(k, j), UNCHANGED items, stash' = WithHole(j)
        PROVE  \A m : /\ LeftInTable(m)' <=> LeftInTable(m) /\ m # k
                      /\ LeftInStash(m)' <=> LeftInStash(m) /\ m # k
    <3>1. Live(stash[j]) /\ stash[j].name = k
      BY <2>5, FoundInStash, EnumParts
    <3>2. \A l \in StashIndex : stash'[l] = IF l = j THEN NoItem ELSE stash[l]
      BY <2>5, EnumParts DEF TypeOK, WithHole
    <3>3. \A l \in StashIndex : l # j /\ Live(stash[l]) => stash[l].name # k
      BY <3>1, EnumParts DEF NoKeyTwice, Distinct
    <3>4. \A p \in 0 .. size - 1 : Live(items[p]) => items[p].name # k
      BY <3>1, EnumParts DEF NoKeyTwice, Distinct
    <3>5. \A m : LeftInTable(m)' <=> LeftInTable(m) /\ m # k
      BY <2>3, <2>5, <3>4 DEF LeftInTable, Live
    <3>6. \A m : LeftInStash(m)' <=> LeftInStash(m) /\ m # k
      BY <2>3, <3>1, <3>2, <3>3 DEF LeftInStash, Live
    <3> QED
      BY <3>5, <3>6
  <2>6. ASSUME NotFound(k), UNCHANGED <<items, stash>>
        PROVE  \A m : /\ LeftInTable(m)' <=> LeftInTable(m) /\ m # k
                      /\ LeftInStash(m)' <=> LeftInStash(m) /\ m # k
    <3>1. /\ \A p \in 0 .. size - 1 : Live(items[p]) => items[p].name # k
          /\ \A j \in StashIndex : Live(stash[j]) => stash[j].name # k
      BY <2>6, EnumParts, NotFoundIsNowhere DEF Remove
    <3> QED
      BY <2>3, <2>6, <3>1 DEF LeftInTable, LeftInStash, Live
  <2>7. \A m : m \in Left' <=> m \in Left /\ m # k
    BY <2>1, <2>2, <2>4, <2>5, <2>6 DEF Remove, stashVars
  <2> QED
    BY <2>7
<1> QED
  BY <1>1, <1>2

(* The calls of the map are those of the map that is enumerated.           *)
LEMMA SameMap ==
  /\ EnumMap!Names = Map!Names /\ EnumMap!Value = Map!Value
  /\ \A k : EnumMap!MapRead(k) <=> Map!MapRead(k)
  /\ \A k : EnumMap!MapRemove(k) <=> Map!MapRemove(k)
  /\ \A k, v : EnumMap!MapWrite(k, v) <=> Map!MapWrite(k, v)
  /\ \A k, d : EnumMap!MapInc(k, d) <=> Map!MapInc(k, d)
  /\ EnumMap!MapDelete <=> Map!MapDelete
  /\ EnumMap!MapNew <=> Map!MapNew
<1>1. /\ EnumMap!Names = Map!Names /\ EnumMap!Value = Map!Value
      /\ \A k : EnumMap!Without(k) = Map!Without(k)
      /\ \A k, v : EnumMap!EntryOf(k, v) = Map!EntryOf(k, v)
      /\ \A v : EnumMap!AsInt(v) = Map!AsInt(v)
  BY DEF EnumMap!Names, Map!Names, EnumMap!Value, Map!Value, EnumMap!Without, Map!Without,
     EnumMap!EntryOf, Map!EntryOf, EnumMap!AsInt, Map!AsInt
<1>2. \A k : EnumMap!MapRead(k) <=> Map!MapRead(k)
  BY <1>1 DEF EnumMap!MapRead, Map!MapRead
<1>3. \A k : EnumMap!MapRemove(k) <=> Map!MapRemove(k)
  BY <1>1 DEF EnumMap!MapRemove, Map!MapRemove
<1>4. \A k, v : EnumMap!MapWrite(k, v) <=> Map!MapWrite(k, v)
  BY <1>1 DEF EnumMap!MapWrite, Map!MapWrite
<1>5. \A k, d : EnumMap!MapInc(k, d) <=> Map!MapInc(k, d)
  BY <1>1 DEF EnumMap!MapInc, Map!MapInc
<1>6. (EnumMap!MapDelete <=> Map!MapDelete) /\ (EnumMap!MapNew <=> Map!MapNew)
  BY DEF EnumMap!MapDelete, Map!MapDelete, EnumMap!MapNew, Map!MapNew
<1> QED
  BY <1>1, <1>2, <1>3, <1>4, <1>5, <1>6

(* Reading and replacing go on with the enumeration.                       *)
LEMMA EnumKeepMaps ==
  ASSUME EnumInv, EnumInv', TableStep, NEW k \in Key, NEW v,
         \/ Read(k)
         \/ v \in Written /\ Replace(k, v)
         \/ v \in Increments /\ IncExisting(k, v)
  PROVE  EnumMap!MapEnumKeep
<1>1. pc' = "idle"
  BY DEF Read, Replace, IncExisting
<1>2. UNCHANGED <<enum, e_index, e_name>>
  BY <1>1 DEF TableStep
<1>3. Left' = Left
  BY <1>2, CallsStay, LeftStays, EnumParts
<1>4. \/ Map!MapRead(k)
      \/ k \in Map!Names /\ v \in Map!Value /\ Map!MapWrite(k, v)
      \/ k \in Map!Names /\ v \in {1, ValueMod - 1} /\ Map!MapInc(k, v)
  <2>1. NoAdd
    BY DEF NoAdd
  <2> QED
    BY <2>1, MapCalls, EnumParts
<1> QED
  BY <1>2, <1>3, <1>4, SameMap DEF EnumMap!MapEnumKeep

(* A removal takes its key out of the map and out of what is left.         *)
LEMMA EnumRemoveMaps ==
  ASSUME EnumInv, EnumInv', TableStep, NEW k \in Key, Remove(k)
  PROVE  EnumMap!MapEnumRemove(k)
<1>1. pc' = "idle"
  <2>1. failure' # "used_not_zero"
    BY DEF EnumInv, MapInv, CountInv, NoInternalError
  <2> QED
    BY <2>1 DEF Remove, CoucalAssert
<1>2. UNCHANGED <<enum, e_index, e_name>>
  BY <1>1 DEF TableStep
<1>3. Left' = Left \ {k}
  BY <1>2, LeftRemoved
<1>4. Map!MapRemove(k)
  <2>1. NoAdd
    BY DEF NoAdd
  <2> QED
    BY <2>1, MapCalls, EnumParts
<1> QED
  BY <1>2, <1>3, <1>4, SameMap DEF EnumMap!MapEnumRemove

(* The enumerator goes with the table.                                     *)
LEMMA EnumOpenOrDeleteMaps ==
  ASSUME EnumInv, EnumInv', TableStep,
         Delete \/ \E n \in NewSizes, h \in Hashers : New(n, h)
  PROVE  EnumMap!MapEnumOpenOrDelete
<1>1. enum' = "none" /\ e_name' = e_name
  <2>1. ASSUME NEW n \in NewSizes, NEW h \in Hashers, New(n, h) PROVE enum = "none"
    BY <2>1, EnumParts DEF New, EnumControl
  <2>2. pc' = "null" \/ enum = "none"
    BY <2>1 DEF Delete
  <2> QED
    BY <2>2 DEF TableStep
<1>2. Left' = {}
  BY <1>1 DEF Left
<1>3. Map!MapDelete \/ Map!MapNew
  <2>1. NoAdd
    BY DEF NoAdd
  <2> QED
    BY <2>1, MapCalls, EnumParts
<1> QED
  BY <1>1, <1>2, <1>3, SameMap DEF EnumMap!MapEnumOpenOrDelete

(* The beginning of an add makes a defined enumeration undefined.          *)
LEMMA EnumStartAddMaps ==
  ASSUME EnumInv, EnumInv', TableStep, NEW k \in Key, NEW v \in Value, NEW r,
         StartAdd(k, v, r)
  PROVE  EnumMap!MapEnumDisturbed \/ UNCHANGED EnumMap!enumMapVars
<1>1. UNCHANGED Map!mapVars
  BY MapStartAdd, EnumParts
<1>2. pc' \in {"drain", "place"} /\ e_name' = e_name
  BY DEF StartAdd, TableStep
<1>3. enum' # "defined" /\ enum' = IF enum = "defined" THEN "undefined" ELSE enum
  BY <1>2 DEF TableStep
<1>4. Left' = {}
  BY <1>3 DEF Left
<1>5. CASE enum = "defined"
  BY <1>1, <1>2, <1>3, <1>4, <1>5 DEF EnumMap!MapEnumDisturbed, EnumMap!mapVars, Map!mapVars
<1>6. CASE enum # "defined"
  <2>1. Left = {}
    BY <1>6 DEF Left
  <2> QED
    BY <1>1, <1>2, <1>3, <1>4, <1>6, <2>1 DEF EnumMap!enumMapVars, Map!mapVars
<1> QED
  BY <1>5, <1>6

(* An add shows when it returns.                                           *)
LEMMA EnumAddStepMaps ==
  ASSUME EnumInv, EnumInv', TableStep, AddStep
  PROVE  EnumMap!MapEnumAdd \/ UNCHANGED EnumMap!enumMapVars
<1>1. pc \notin {"null", "idle"} /\ pc' # "null"
  BY DEF AddStep, DrainStep, DrainDone, PlaceFree, PlaceTaken, WalkFree, WalkKick, PutItem,
     StashItem, StashFull, Count, Grow, GrowRefused, GrowNoMemory, MergeStep, MergeDone,
     Return, CoucalAssert, Abort, EnumInv, MapInv, Inv, TypeOK
<1>2. enum # "defined" /\ UNCHANGED <<enum, e_name>>
  BY <1>1, EnumParts DEF TableStep, EnumControl
<1>3. Left = {} /\ Left' = {}
  BY <1>2 DEF Left
<1>4. CASE Return
  <2>1. \E k \in Key : /\ k \notin Map!Names
                       /\ \/ \E v \in Map!Value : Map!MapWrite(k, v)
                          \/ \E d \in {1, ValueMod - 1} : Map!MapInc(k, d)
    BY <1>4, MapReturn, EnumParts
  <2>2. \E k \in Key \ EnumMap!Names : \/ \E v \in EnumMap!Value : EnumMap!MapWrite(k, v)
                                      \/ \E d \in {1, ValueMod - 1} : EnumMap!MapInc(k, d)
    BY <2>1, SameMap
  <2> QED
    BY <1>2, <1>3, <2>2 DEF EnumMap!MapEnumAdd
<1>5. CASE ~Return
  <2>1. UNCHANGED Map!mapVars
    BY <1>5, MapAddStep, EnumParts
  <2> QED
    BY <1>2, <1>3, <2>1 DEF EnumMap!enumMapVars, Map!mapVars
<1> QED
  BY <1>4, <1>5

(* A step that changes nothing does not show.                              *)
LEMMA EnumStutters ==
  ASSUME EnumInv, UNCHANGED vars, UNCHANGED <<enum, e_index, e_name>>
  PROVE  UNCHANGED EnumMap!enumMapVars
<1>1. UNCHANGED <<size, items, stash, stash_extent>>
  BY DEF vars
<1>2. EnumEnd' = EnumEnd /\ \A i : SlotAt(i)' = SlotAt(i)
  BY <1>1 DEF EnumEnd, SlotAt
<1>3. Left' = Left
  BY <1>2 DEF Left, Live
<1> QED
  BY <1>3, EntriesUnchanged DEF EnumMap!enumMapVars

(* Every step is a step of the enumerated map, or does not show.           *)
LEMMA EnumMapsStep ==
  ASSUME EnumInv, EnumInv', [EnumStep]_allVars
  PROVE  [EnumMap!EnumMapNext]_(EnumMap!enumMapVars)
<1>1. CASE UNCHANGED allVars
  BY <1>1, EnumStutters DEF allVars, enumVars
<1>2. CASE EnumNew
  BY <1>2, EnumNewMaps DEF EnumMap!EnumMapNext
<1>3. CASE EnumNext
  BY <1>3, EnumNextMaps DEF EnumMap!EnumMapNext
<1>4. CASE TableStep
  <2>1. CASE AddStep
    BY <1>4, <2>1, EnumAddStepMaps DEF EnumMap!EnumMapNext
  <2>2. CASE Halted
    <3>1. pc = "aborted" /\ UNCHANGED vars /\ pc' = "aborted"
      BY <2>2 DEF Halted, vars
    <3>2. UNCHANGED <<enum, e_index, e_name>>
      BY <1>4, <3>1, EnumParts DEF TableStep, EnumControl
    <3> QED
      BY <3>1, <3>2, EnumStutters
  <2>3. CASE Delete \/ \E n \in NewSizes, h \in Hashers : New(n, h)
    BY <1>4, <2>3, EnumOpenOrDeleteMaps DEF EnumMap!EnumMapNext
  <2>4. ASSUME NEW k \in Key, Read(k) PROVE EnumMap!EnumMapNext
    BY <1>4, <2>4, EnumKeepMaps DEF EnumMap!EnumMapNext
  <2>5. ASSUME NEW k \in Key, NEW v \in Written, Replace(k, v) PROVE EnumMap!EnumMapNext
    BY <1>4, <2>5, EnumKeepMaps DEF EnumMap!EnumMapNext
  <2>6. ASSUME NEW k \in Key, NEW v \in Increments, IncExisting(k, v)
        PROVE  EnumMap!EnumMapNext
    BY <1>4, <2>6, EnumKeepMaps DEF EnumMap!EnumMapNext
  <2>7. ASSUME NEW k \in Key, Remove(k) PROVE EnumMap!EnumMapNext
    BY <1>4, <2>7, EnumRemoveMaps DEF EnumMap!EnumMapNext
  <2>8. ASSUME NEW k \in Key, NEW v \in Value, NEW r, StartAdd(k, v, r)
        PROVE  EnumMap!EnumMapNext \/ UNCHANGED EnumMap!enumMapVars
    BY <1>4, <2>8, EnumStartAddMaps DEF EnumMap!EnumMapNext
  <2>9. ASSUME NEW k \in Key, NEW v,
               \/ v \in Written /\ WriteNew(k, v)
               \/ v \in Increments /\ IncNew(k, v)
        PROVE  EnumMap!EnumMapNext \/ UNCHANGED EnumMap!enumMapVars
    <3>1. v \in Written \cup Increments
      BY <2>9
    <3>2. v \in Value
      BY <3>1, ConstantsAssumption DEF Value
    <3> QED
      BY <2>8, <2>9, <3>2 DEF WriteNew, IncNew
  <2>10. Next
    BY <1>4 DEF TableStep
  <2>11. CASE Call
    BY <2>3, <2>4, <2>5, <2>6, <2>7, <2>9, <2>11 DEF Call
  <2> QED
    BY <2>1, <2>2, <2>10, <2>11 DEF Next
<1> QED
  BY <1>1, <1>2, <1>3, <1>4 DEF EnumStep

(* The enumerator does what coucal.h promises: a full enumeration visits   *)
(* every entry exactly once, whatever the sizes, the keys and their        *)
(* hashes; removals and replacements on the way are safe, an add makes it  *)
(* undefined, yet it returns entries of the map or the end.                *)
THEOREM ImplementsEnumAlways == EnumSpec => ImplementsEnum
<1>1. EnumInit => EnumMap!EnumMapInit
  <2> SUFFICES ASSUME EnumInit PROVE EnumMap!EnumMapInit
    OBVIOUS
  <2>1. Map!MapInit /\ enum = "none" /\ e_name = NULL
    BY MapInitial DEF EnumInit
  <2> QED
    BY <2>1 DEF EnumMap!EnumMapInit, EnumMap!MapInit, Map!MapInit, Left
<1>2. EnumInv /\ EnumInv' /\ [EnumStep]_allVars
        => [EnumMap!EnumMapNext]_(EnumMap!enumMapVars)
  BY EnumMapsStep
<1> QED
  BY <1>1, <1>2, EnumInvariance, PTL
     DEF EnumSpec, EnumStep, allVars, ImplementsEnum, EnumMap!EnumMapSpec
==============================================================================
