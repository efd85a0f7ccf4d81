---------------------------- MODULE CoucalProofs -----------------------------
(***************************************************************************)
(* Proofs about module Coucal, for all values of its constants: the stash  *)
(* accounts, the cuckoo positions, "no key twice" and the room in the      *)
(* table.  They are conjuncts of one inductive invariant, Inv, because     *)
(* each needs others: a lookup that finds nothing shows that a key is      *)
(* nowhere only if items are at their positions and below the extent; a    *)
(* kick is between the two positions of the kicked item only if that item  *)
(* is well placed; and an emergency stashing is in range only if size      *)
(* counts the slots.                                                       *)
(***************************************************************************)
EXTENDS CoucalProperties, FiniteSetTheorems, TLAPS

(***************************************************************************)
(* Positions.                                                              *)
(***************************************************************************)

(* Multiplication by at least one does not decrease.                       *)
LEMMA MulMono ==
  ASSUME NEW s \in Nat, NEW d \in Int, d >= 1
  PROVE  s * d >= s
OBVIOUS

(* One half of the uniqueness of quotient and remainder.                   *)
LEMMA QuotientLeq ==
  ASSUME NEW s \in Nat, NEW a \in Int, NEW b \in Int, NEW r \in Int, NEW t \in Int,
         0 <= r, r < s, 0 <= t, t < s, s * a + r = s * b + t
  PROVE  a <= b
<1> SUFFICES ASSUME a > b PROVE FALSE
  OBVIOUS
<1> DEFINE d == a - b
<1>1. d \in Int /\ d >= 1
  OBVIOUS
<1>2. s * d >= s
  BY <1>1, MulMono
<1>3. s * d = s * a - s * b
  OBVIOUS
<1>4. s * a \in Int /\ s * b \in Int /\ s * d \in Int
  OBVIOUS
<1> QED
  BY <1>2, <1>3, <1>4

(* The remainder of a division by s is unique.                             *)
LEMMA RemainderUnique ==
  \A s \in Nat : \A a, b, r, t \in Int :
    0 <= r /\ r < s /\ 0 <= t /\ t < s /\ s * a + r = s * b + t => r = t
<1> SUFFICES ASSUME NEW s \in Nat, NEW a \in Int, NEW b \in Int, NEW r \in Int,
                    NEW t \in Int, 0 <= r, r < s, 0 <= t, t < s,
                    s * a + r = s * b + t
             PROVE  r = t
  OBVIOUS
<1>1. a <= b
  BY QuotientLeq
<1>2. b <= a
  BY QuotientLeq
<1>3. a = b
  BY <1>1, <1>2
<1>4. s * a \in Int
  OBVIOUS
<1> QED
  BY <1>3, <1>4

(* A position is inside the table.                                         *)
LEMMA PositionInRange ==
  ASSUME NEW s \in Nat \ {0}, NEW h \in Nat
  PROVE  HashToPos(s, h) \in 0 .. s - 1
BY DEF HashToPos

(* When the table doubles, a position stays or moves by the old size.      *)
LEMMA PositionAfterDoubling ==
  ASSUME NEW s \in Nat \ {0}, NEW h \in Nat
  PROVE  HashToPos(2 * s, h) \in {HashToPos(s, h), HashToPos(s, h) + s}
<1> DEFINE q == h \div s
           r == h % s
           Q == h \div (2 * s)
           R == h % (2 * s)
<1>1. h = s * q + r /\ q \in Int /\ r \in Int /\ 0 <= r /\ r < s
  OBVIOUS
<1>2. h = (2 * s) * Q + R /\ Q \in Int /\ R \in Int /\ 0 <= R /\ R < 2 * s
  OBVIOUS
<1> HIDE DEF q, r, Q, R
<1>3. (2 * s) * Q = s * (2 * Q) /\ s * (2 * Q + 1) = s * (2 * Q) + s
  BY <1>2
<1>4. 2 * Q \in Int /\ 2 * Q + 1 \in Int /\ R - s \in Int
  BY <1>2
<1>5. CASE R < s
  <2>1. s * q + r = s * (2 * Q) + R
    BY <1>1, <1>2, <1>3
  <2> DEFINE b == 2 * Q
  <2>2. b \in Int /\ s * q + r = s * b + R
    BY <2>1, <1>4
  <2> HIDE DEF b
  <2>3. r = R
    BY <2>2, <1>1, <1>2, <1>5, RemainderUnique
  <2> QED
    BY <2>3 DEF r, R, HashToPos
<1>6. CASE R >= s
  <2> DEFINE b == 2 * Q + 1
             t == R - s
  <2>1. s * q + r = s * b + t
    BY <1>1, <1>2, <1>3
  <2>2. b \in Int /\ t \in Int /\ 0 <= t /\ t < s
    BY <1>2, <1>4, <1>6
  <2> HIDE DEF b, t
  <2>3. r = t
    BY <2>1, <2>2, <1>1, RemainderUnique
  <2>4. R = r + s
    BY <2>3, <1>1, <1>2 DEF t
  <2> QED
    BY <2>4 DEF r, R, HashToPos
<1> QED
  BY <1>2, <1>5, <1>6

(***************************************************************************)
(* The inductive invariant.                                                *)
(***************************************************************************)
InAddItem == pc \in {"place", "walk", "stash"}

(* What the place in the code says of the locals and of the struct.        *)
Control ==
  /\ pc = "null" => size = 0 /\ used = 0
  /\ pc # "null" => size \in TableSizes
  /\ pc \notin {"null", "idle", "aborted"} => Live(adding)
  /\ InAddItem => Live(item)
  /\ InAddItem \/ pc = "aborted" \/ item = NoItem
  /\ pc = "walk" =>
       cuckoo_hash \in {hash[item.name].hash1, hash[item.name].hash2}
  /\ pc = "walk" => loops >= 1
  /\ pc = "drain" => index <= stash_extent
  /\ pc = "merge" => return_to = "merge"
  /\ return_to = "merge" => InAddItem \/ pc = "merge" \/ pc = "aborted"
  /\ return_to = "merge" /\ pc # "aborted" => index <= old_extent
  /\ return_to = "count" => backup = EmptyStash
  /\ return_to = "count" /\ pc \notin {"drain", "aborted"} => index = 0

(* the extent ends on an item, except while the stash is being drained     *)
ExtentTrimmed ==
  pc # "drain" /\ stash_extent # 0 => Live(stash[stash_extent - 1])

(* the table is less than half full, up to the item being counted          *)
RoomLeft ==
  /\ pc \notin {"null", "grow", "aborted"} => used < size \div 2
  /\ pc = "grow" => used < size

LiveStash == {j \in StashIndex : Live(stash[j])}

StashCounted ==
  /\ \A j \in StashIndex : j >= stash_extent => stash[j] = NoItem
  /\ stash_size = Cardinality(LiveStash)

Inv ==
  /\ TypeOK
  /\ Control
  /\ StashCounted
  /\ ExtentTrimmed
  /\ CuckooPlaced
  /\ NoKeyTwice
  /\ RoomLeft

(* The calls that add nothing. *)
NoAdd ==
  \/ \E k \in Key :
       \/ Read(k) \/ Remove(k)
       \/ \E v \in Written : Replace(k, v)
       \/ \E inc \in Increments : IncExisting(k, inc)
  \/ Delete
  \/ \E n \in NewSizes, h \in Hashers : New(n, h)

(* The two positions of a key are in the table.                            *)
LEMMA PositionsInRange ==
  ASSUME TypeOK, size \in TableSizes, NEW k \in Key
  PROVE  Pos1(k) \in 0 .. size - 1 /\ Pos2(k) \in 0 .. size - 1
<1>1. size \in Nat \ {0}
  BY ConstantsAssumption
<1>2. hash[k].hash1 \in Nat /\ hash[k].hash2 \in Nat
  BY DEF TypeOK
<1> QED
  BY <1>1, <1>2, PositionInRange DEF Pos1, Pos2

(* A slot that is not free holds an item, with a name and a value.         *)
LEMMA LiveIsItem ==
  ASSUME NEW slot \in Slot, Live(slot)
  PROVE  slot \in Item /\ slot.name \in Key /\ slot.value \in Value
BY DEF Slot, Live, Item

(* An item is a slot that is not free.                                     *)
LEMMA ItemIsLive ==
  ASSUME NEW it \in Item
  PROVE  it \in Slot /\ Live(it)
BY NoItemAssumption DEF Slot, Live

(* A name and a value make an item.                                        *)
LEMMA ItemOfIsItem ==
  ASSUME NEW k \in Key, NEW v \in Value
  PROVE  ItemOf(k, v) \in Item
BY DEF ItemOf, Item

(* Writing the value of an item leaves its name.                           *)
LEMMA SetValueIsItem ==
  ASSUME NEW it \in Item, NEW v \in Value
  PROVE  SetValue(it, v) \in Item /\ SetValue(it, v).name = it.name
BY DEF SetValue, Item

(* The conversion to int gives an integer.                                 *)
LEMMA AsIntIsInt ==
  ASSUME NEW v \in Value
  PROVE  AsInt(v) \in Int
<1>1. IntMod \in Nat \ {0} /\ v \in Int
  BY ConstantsAssumption DEF Value
<1>2. v % IntMod \in Int
  BY <1>1
<1> QED
  BY <1>1, <1>2 DEF AsInt

(* Sums wrap: an incremented value is a value.                             *)
LEMMA SumIsValue ==
  ASSUME NEW v \in Value, NEW inc \in Increments
  PROVE  (v + inc) % ValueMod \in Value
<1>1. ValueMod \in Nat \ {0} /\ v \in Nat /\ inc \in Nat
  BY ConstantsAssumption DEF Value
<1> QED
  BY <1>1 DEF Value

(* Trimming leaves an extent between 0 and the old one.                    *)
LEMMA TrimmedExtent ==
  ASSUME NEW st \in [StashIndex -> Slot], NEW ext \in 0 .. StashSize, NEW n,
         Trimmed(st, ext, n)
  PROVE  n \in 0 .. StashSize /\ n <= ext
BY ConstantsAssumption DEF Trimmed

(***************************************************************************)
(* The types.                                                              *)
(***************************************************************************)
LEMMA TypeInit ==
  Init => TypeOK
<1> SUFFICES ASSUME Init PROVE TypeOK
  OBVIOUS
<1>1. hash \in [Key -> [hash1 : Nat, hash2 : Nat]]
  BY HashersAssumption DEF Init
<1>2. items \in [0 .. size - 1 -> Slot]
  BY DEF Init, Slot
<1>3. EmptyStash \in [StashIndex -> Slot]
  BY DEF EmptyStash, Slot
<1>4. 0 \in 0 .. StashSize
  BY ConstantsAssumption
<1> QED
  BY <1>1, <1>2, <1>3, <1>4 DEF Init, TypeOK, Slot, Failures

(* coucal_new() keeps the types.                                           *)
LEMMA TypeNew ==
  ASSUME TypeOK, NEW n \in NewSizes, NEW h \in Hashers, New(n, h)
  PROVE  TypeOK'
<1>1. PICK sz \in TableSizes :
        size' = sz /\ items' = [p \in 0 .. sz - 1 |-> NoItem]
  BY DEF New
<1>2. items' \in [0 .. size' - 1 -> Slot]
  BY <1>1 DEF Slot
<1> QED
  BY <1>1, <1>2, HashersAssumption
     DEF New, TypeOK, Failures, stashVars, callVars, walkVars, mergeVars

(* coucal_delete() keeps the types.                                        *)
LEMMA TypeDelete ==
  ASSUME TypeOK, Delete
  PROVE  TypeOK'
<1>1. items' \in [0 .. size' - 1 -> Slot]
  BY DEF Delete, Slot
<1>2. EmptyStash \in [StashIndex -> Slot]
  BY DEF EmptyStash, Slot
<1>3. 0 \in 0 .. StashSize
  BY ConstantsAssumption
<1> QED
  BY <1>1, <1>2, <1>3 DEF Delete, TypeOK, Failures, callVars, walkVars, mergeVars

(* A read returns a value or "not found".                                  *)
LEMMA TypeRead ==
  ASSUME TypeOK, Control, NEW k \in Key, Read(k)
  PROVE  TypeOK'
<1>1. ret' \in Int \cup {NULL}
  <2>1. ASSUME NEW p \in 0 .. size - 1, AtTable(k, p) PROVE items[p].value \in Int
    BY <2>1, LiveIsItem DEF AtTable, Matches, TypeOK, Live, Value
  <2>2. ASSUME NEW j \in StashIndex, AtStash(k, j) PROVE stash[j].value \in Int
    BY <2>2, LiveIsItem DEF AtStash, Matches, TypeOK, Live, Value
  <2> QED
    BY <2>1, <2>2 DEF Read
<1> QED
  BY <1>1 DEF Read, TypeOK, Failures, tableVars, stashVars, callVars, walkVars, mergeVars

(* A replacement keeps the types.                                          *)
LEMMA TypeReplace ==
  ASSUME TypeOK, NEW k \in Key, NEW v \in Written, Replace(k, v)
  PROVE  TypeOK'
<1>1. v \in Value
  BY ConstantsAssumption DEF Value
<1>2. items' \in [0 .. size - 1 -> Slot] /\ stash' \in [StashIndex -> Slot]
  <2>1. ASSUME NEW p \in 0 .. size - 1, AtTable(k, p) PROVE SetValue(items[p], v) \in Slot
    BY <1>1, <2>1, LiveIsItem, SetValueIsItem, ItemIsLive DEF AtTable, Matches, TypeOK, Live
  <2>2. ASSUME NEW j \in StashIndex, AtStash(k, j) PROVE SetValue(stash[j], v) \in Slot
    BY <1>1, <2>2, LiveIsItem, SetValueIsItem, ItemIsLive DEF AtStash, Matches, TypeOK, Live
  <2> QED
    BY <2>1, <2>2 DEF Replace, TypeOK
<1> QED
  BY <1>2 DEF Replace, TypeOK, Failures, callVars, walkVars, mergeVars

(* An increment in place keeps the types: the sum wraps.                   *)
LEMMA TypeIncExisting ==
  ASSUME TypeOK, NEW k \in Key, NEW inc \in Increments, IncExisting(k, inc)
  PROVE  TypeOK'
<1>1. /\ items' \in [0 .. size - 1 -> Slot] /\ stash' \in [StashIndex -> Slot]
      /\ ret' \in Int
  <2>1. ASSUME NEW p \in 0 .. size - 1, AtTable(k, p)
        PROVE  LET v == (items[p].value + inc) % ValueMod
               IN  SetValue(items[p], v) \in Slot /\ AsInt(v) \in Int
    <3>1. items[p] \in Item /\ items[p].value \in Value
      BY <2>1, LiveIsItem DEF AtTable, Matches, TypeOK, Live
    <3> QED
      BY <3>1, SumIsValue, SetValueIsItem, ItemIsLive, AsIntIsInt
  <2>2. ASSUME NEW j \in StashIndex, AtStash(k, j)
        PROVE  LET v == (stash[j].value + inc) % ValueMod
               IN  SetValue(stash[j], v) \in Slot /\ AsInt(v) \in Int
    <3>1. stash[j] \in Item /\ stash[j].value \in Value
      BY <2>2, LiveIsItem DEF AtStash, Matches, TypeOK, Live
    <3> QED
      BY <3>1, SumIsValue, SetValueIsItem, ItemIsLive, AsIntIsInt
  <2> QED
    BY <2>1, <2>2 DEF IncExisting, TypeOK
<1> QED
  BY <1>1 DEF IncExisting, TypeOK, Failures, callVars, walkVars, mergeVars

(* A removal keeps the types: trimming only lowers the extent.             *)
LEMMA TypeRemove ==
  ASSUME TypeOK, NEW k \in Key, Remove(k)
  PROVE  TypeOK'
<1>1. items' \in [0 .. size - 1 -> Slot]
  BY DEF Remove, TypeOK, Slot
<1>2. stash' \in [StashIndex -> Slot] /\ stash_size' \in Int
  BY DEF Remove, TypeOK, Slot, WithHole, stashVars
<1>3. stash_extent' \in 0 .. StashSize
  BY <1>2, TrimmedExtent DEF Remove, TypeOK, stashVars
<1>4. /\ used' \in Int /\ ret' \in Int /\ pc' \in {pc, "aborted", "idle"}
      /\ failure' \in Failures
  BY DEF Remove, Discount, TypeOK, CoucalAssert, Failures
<1> QED
  BY <1>1, <1>2, <1>3, <1>4 DEF Remove, TypeOK, callVars, walkVars, mergeVars

(* The beginning of an add keeps the types.                                *)
LEMMA TypeStartAdd ==
  ASSUME TypeOK, NEW k \in Key, NEW v \in Value, NEW r \in Int, StartAdd(k, v, r)
  PROVE  TypeOK'
<1>1. ItemOf(k, v) \in Slot
  BY ItemOfIsItem, ItemIsLive
<1> QED
  BY <1>1 DEF StartAdd, TypeOK, Failures, tableVars, stashVars, mergeVars

(* The write of a new key keeps the types.                                 *)
LEMMA TypeWriteNew ==
  ASSUME TypeOK, NEW k \in Key, NEW v \in Written, WriteNew(k, v)
  PROVE  TypeOK'
BY ConstantsAssumption, TypeStartAdd DEF WriteNew, Value

(* The increment of a new key keeps the types.                             *)
LEMMA TypeIncNew ==
  ASSUME TypeOK, NEW k \in Key, NEW inc \in Increments, IncNew(k, inc)
  PROVE  TypeOK'
<1>1. inc \in Value
  BY ConstantsAssumption DEF Value
<1> QED
  BY <1>1, AsIntIsInt, TypeStartAdd DEF IncNew

(* An item of the stash is drained to one of its two positions.            *)
LEMMA DrainHome ==
  ASSUME TypeOK, Control, DrainStep
  PROVE  /\ index \in StashIndex
         /\ \/ /\ Live(stash[index])
               /\ \E p \in 0 .. size - 1 :
                    /\ p \in {Pos1(stash[index].name), Pos2(stash[index].name)}
                    /\ IsFree(p)
                    /\ Home(p)
            \/ UNCHANGED <<items, stash, stash_size>>
<1>1. index \in StashIndex
  BY ConstantsAssumption DEF TypeOK, DrainStep, StashIndex
<1>2. size \in TableSizes
  BY DEF Control, DrainStep
<1>3. ASSUME Live(stash[index])
      PROVE  /\ Pos1(stash[index].name) \in 0 .. size - 1
             /\ Pos2(stash[index].name) \in 0 .. size - 1
  BY <1>1, <1>2, <1>3, LiveIsItem, PositionsInRange DEF TypeOK
<1> QED
  BY <1>1, <1>3 DEF DrainStep, Live

(* A step of the drain keeps the types.                                    *)
LEMMA TypeDrainStep ==
  ASSUME TypeOK, Control, DrainStep
  PROVE  TypeOK'
<1>1. /\ items' \in [0 .. size - 1 -> Slot] /\ stash' \in [StashIndex -> Slot]
      /\ stash_size' \in Int
  BY DrainHome DEF Home, TypeOK, Slot
<1> QED
  BY <1>1 DEF DrainStep, TypeOK, Failures, callVars, walkVars, mergeVars

(* The end of the drain keeps the types.                                   *)
LEMMA TypeDrainDone ==
  ASSUME TypeOK, DrainDone
  PROVE  TypeOK'
<1>1. stash_extent' \in 0 .. StashSize
  BY TrimmedExtent DEF DrainDone, TypeOK
<1> QED
  BY <1>1 DEF DrainDone, TypeOK, Failures, tableVars, callVars, mergeVars

(* A placement in a free slot keeps the types.                             *)
LEMMA TypePlaceFree ==
  ASSUME TypeOK, PlaceFree
  PROVE  TypeOK'
<1>1. items' \in [0 .. size - 1 -> Slot] /\ item' \in Slot /\ pc' = return_to
  BY DEF PlaceFree, PutItem, TypeOK, Slot
<1> QED
  BY <1>1 DEF PlaceFree, TypeOK, Failures, stashVars, callVars, mergeVars

(* The preparation of the walk keeps the types.                            *)
LEMMA TypePlaceTaken ==
  ASSUME TypeOK, Control, PlaceTaken
  PROVE  TypeOK'
<1>1. item.name \in Key
  BY LiveIsItem DEF PlaceTaken, Control, InAddItem, TypeOK
<1>2. hash[item.name].hash1 \in Nat /\ size \in Nat
  BY <1>1, ConstantsAssumption DEF TypeOK
<1> QED
  BY <1>2 DEF PlaceTaken, TypeOK, Failures, tableVars, stashVars, callVars, mergeVars

(* The last placement of a walk keeps the types.                           *)
LEMMA TypeWalkFree ==
  ASSUME TypeOK, WalkFree
  PROVE  TypeOK'
<1>1. items' \in [0 .. size - 1 -> Slot] /\ item' \in Slot /\ pc' = return_to
  BY DEF WalkFree, PutItem, TypeOK, Slot
<1> QED
  BY <1>1 DEF WalkFree, EndWalk, TypeOK, Failures, stashVars, callVars, mergeVars

(* The walk looks inside the table, and kicks an item. *)
LEMMA WalkPosition ==
  ASSUME TypeOK, Control, pc = "walk"
  PROVE  /\ HashToPos(size, cuckoo_hash) \in 0 .. size - 1
         /\ items[HashToPos(size, cuckoo_hash)] \in Slot
         /\ item \in Item /\ item.name \in Key
         /\ HashToPos(size, cuckoo_hash) \in {Pos1(item.name), Pos2(item.name)}
<1>1. size \in Nat \ {0} /\ cuckoo_hash \in Nat
  BY ConstantsAssumption DEF TypeOK, Control
<1>2. HashToPos(size, cuckoo_hash) \in 0 .. size - 1
  BY <1>1, PositionInRange
<1>3. item \in Item /\ item.name \in Key
  BY LiveIsItem DEF TypeOK, Control, InAddItem
<1> QED
  BY <1>2, <1>3 DEF TypeOK, Control, Pos1, Pos2

(* What a kick does: the item changes places with the one that is there.   *)
LEMMA WalkKicks ==
  ASSUME TypeOK, Control, CuckooPlaced, WalkKick
  PROVE  \E p \in 0 .. size - 1 :
           /\ p \in {Pos1(item.name), Pos2(item.name)}
           /\ items[p] \in Item
           /\ items' = [items EXCEPT ![p] = item]
           /\ item' = items[p]
           /\ pc' \in {"walk", "stash"} /\ failure' = failure
           /\ pc' = "walk" =>
                /\ cuckoo_hash' \in {hash[item'.name].hash1, hash[item'.name].hash2}
                /\ loops' = loops - 1 /\ loops' >= 1
                /\ initial_hash' = initial_hash
           /\ pc' = "stash" => EndWalk
<1> DEFINE p == HashToPos(size, cuckoo_hash)
<1>1. /\ p \in 0 .. size - 1 /\ items[p] \in Slot
      /\ p \in {Pos1(item.name), Pos2(item.name)}
  BY WalkPosition DEF WalkKick
<1>2. Live(items[p]) /\ items[p] \in Item
  BY <1>1, LiveIsItem DEF WalkKick, IsFree, Live
<1>3. p = Pos1(items[p].name) \/ p = Pos2(items[p].name)
  BY <1>1, <1>2 DEF CuckooPlaced, WellPositioned, IsFree, Live
<1>4. loops \in Nat /\ loops >= 1
  BY DEF TypeOK, Control, WalkKick
<1>5. /\ items' = [items EXCEPT ![p] = item]
      /\ item' = items[p]
      /\ pc' = (IF GivesUp(OtherHash(items[p].name, p)) THEN "stash" ELSE "walk")
      /\ failure' = failure
      /\ IF GivesUp(OtherHash(items[p].name, p)) THEN EndWalk
         ELSE /\ cuckoo_hash' = OtherHash(items[p].name, p)
              /\ loops' = loops - 1
              /\ initial_hash' = initial_hash
  BY <1>3 DEF WalkKick, CoucalAssert, Tick
<1>6. OtherHash(items[p].name, p) \in {hash[items[p].name].hash1, hash[items[p].name].hash2}
  BY DEF OtherHash
<1>7. ~GivesUp(OtherHash(items[p].name, p)) => loops - 1 >= 1
  BY <1>4 DEF GivesUp
<1> HIDE DEF p
<1> QED
  BY <1>1, <1>2, <1>5, <1>6, <1>7

(* A kick keeps the types: loops does not go below one.                    *)
LEMMA TypeWalkKick ==
  ASSUME TypeOK, Control, CuckooPlaced, WalkKick
  PROVE  TypeOK'
<1>1. PICK p \in 0 .. size - 1 :
        /\ items[p] \in Item
        /\ items' = [items EXCEPT ![p] = item]
        /\ item' = items[p]
        /\ pc' \in {"walk", "stash"} /\ failure' = failure
        /\ pc' = "walk" =>
             /\ cuckoo_hash' \in {hash[item'.name].hash1, hash[item'.name].hash2}
             /\ loops' = loops - 1 /\ loops' >= 1
             /\ initial_hash' = initial_hash
        /\ pc' = "stash" => EndWalk
  BY WalkKicks
<1>2. items' \in [0 .. size - 1 -> Slot] /\ item' \in Slot
  BY <1>1, ItemIsLive DEF TypeOK
<1>3. item'.name \in Key
  BY <1>1 DEF Item
<1>4. cuckoo_hash' \in Nat /\ initial_hash' \in Nat /\ loops' \in Nat
  <2>1. CASE pc' = "walk"
    BY <1>1, <1>3, <2>1 DEF TypeOK
  <2>2. CASE pc' = "stash"
    BY <1>1, <2>2 DEF EndWalk
  <2> QED
    BY <1>1, <2>1, <2>2
<1> QED
  BY <1>1, <1>2, <1>4 DEF WalkKick, TypeOK, stashVars, callVars, mergeVars

(* The slots of the stash are finitely many.                               *)
LEMMA LiveStashFinite ==
  /\ IsFiniteSet(StashIndex)
  /\ Cardinality(StashIndex) = StashSize
  /\ IsFiniteSet(LiveStash)
  /\ Cardinality(LiveStash) \in Nat
<1>1. IsFiniteSet(StashIndex) /\ Cardinality(StashIndex) = StashSize
  BY ConstantsAssumption, FS_Interval DEF StashIndex
<1>2. LiveStash \in SUBSET StashIndex
  BY DEF LiveStash
<1>3. IsFiniteSet(LiveStash)
  BY <1>1, <1>2, FS_Subset
<1> QED
  BY <1>1, <1>3, FS_CardinalityType

(* The slot found for an emergency stashing is inside the stash: if every  *)
(* slot below the extent is taken, the extent is at most the size.         *)
LEMMA StashSlotInRange ==
  ASSUME TypeOK, StashCounted, StashHasRoom,
         NEW n \in 0 .. stash_extent, \A j \in 0 .. n - 1 : stash[j] # NoItem
  PROVE  n \in StashIndex
<1>1. n \in 0 .. StashSize
  BY ConstantsAssumption DEF TypeOK
<1>2. n # StashSize
  <2> SUFFICES ASSUME n = StashSize PROVE FALSE
    OBVIOUS
  <2>1. LiveStash = StashIndex
    BY DEF LiveStash, StashIndex, Live
  <2> QED
    BY <2>1, LiveStashFinite, ConstantsAssumption DEF StashCounted, StashHasRoom
<1> QED
  BY <1>1, <1>2, ConstantsAssumption DEF StashIndex

(* What an emergency stashing does.                                        *)
LEMMA StashItemSlot ==
  ASSUME TypeOK, StashCounted, StashItem
  PROVE  \E n \in StashIndex :
           /\ n <= stash_extent
           /\ stash[n] = NoItem
           /\ stash' = [stash EXCEPT ![n] = item]
           /\ stash_extent' = IF n = stash_extent THEN n + 1 ELSE stash_extent
<1>1. PICK n \in 0 .. StashSize :
        /\ n <= stash_extent
        /\ \A j \in 0 .. n - 1 : stash[j] # NoItem
        /\ n # stash_extent => stash[n] = NoItem
        /\ stash' = [stash EXCEPT ![n] = item]
        /\ stash_extent' = IF n = stash_extent THEN n + 1 ELSE stash_extent
  BY DEF StashItem
<1>2. n \in 0 .. stash_extent
  BY <1>1, ConstantsAssumption DEF TypeOK
<1>3. n \in StashIndex
  BY <1>1, <1>2, StashSlotInRange DEF StashItem
<1>4. stash[n] = NoItem
  BY <1>1, <1>3 DEF StashCounted, TypeOK
<1> QED
  BY <1>1, <1>3, <1>4

(* An emergency stashing keeps the types: the extent stays in range.       *)
LEMMA TypeStashItem ==
  ASSUME TypeOK, StashCounted, StashItem
  PROVE  TypeOK'
<1>1. stash' \in [StashIndex -> Slot] /\ stash_extent' \in 0 .. StashSize
  BY StashItemSlot, ConstantsAssumption DEF TypeOK, StashIndex
<1> QED
  BY <1>1 DEF StashItem, TypeOK, Failures, Slot, tableVars, callVars, mergeVars

(* An abort keeps the types.                                               *)
LEMMA TypeAbort ==
  ASSUME TypeOK, StashFull \/ GrowRefused \/ GrowNoMemory
  PROVE  TypeOK'
BY DEF StashFull, GrowRefused, GrowNoMemory, Abort, TypeOK, Failures,
       tableVars, stashVars, callVars, walkVars, mergeVars

(* The count of the new item keeps the types.                              *)
LEMMA TypeCount ==
  ASSUME TypeOK, Count
  PROVE  TypeOK'
BY DEF Count, TypeOK, Failures, tableVars, stashVars, callVars, walkVars, mergeVars

(* The doubled table, slot by slot. *)
LEMMA DoubledTable ==
  ASSUME TypeOK, size \in TableSizes
  PROVE  /\ Doubled \in [0 .. 2 * size - 1 -> Slot]
         /\ \A p \in 0 .. size - 1 :
              /\ p \in 0 .. 2 * size - 1
              /\ p + size \in 0 .. 2 * size - 1
              /\ Doubled[p] = IF MovesUp(p) THEN NoItem ELSE items[p]
              /\ Doubled[p + size] = IF MovesUp(p) THEN items[p] ELSE NoItem
         /\ \A q \in 0 .. 2 * size - 1 :
              \E p \in 0 .. size - 1 : q = p \/ q = p + size
<1>1. size \in Nat \ {0}
  BY ConstantsAssumption
<1>2. ASSUME NEW q \in 0 .. 2 * size - 1, q >= size
      PROVE  q - size \in 0 .. size - 1
  BY <1>1, <1>2
<1>3. Doubled \in [0 .. 2 * size - 1 -> Slot]
  BY <1>1, <1>2 DEF Doubled, TypeOK, Slot
<1>4. ASSUME NEW p \in 0 .. size - 1
      PROVE  /\ p \in 0 .. 2 * size - 1
             /\ p + size \in 0 .. 2 * size - 1
             /\ Doubled[p] = IF MovesUp(p) THEN NoItem ELSE items[p]
             /\ Doubled[p + size] = IF MovesUp(p) THEN items[p] ELSE NoItem
  <2>1. p \in 0 .. 2 * size - 1 /\ p + size \in 0 .. 2 * size - 1
    BY <1>1
  <2>2. p < size /\ ~(p + size < size) /\ (p + size) - size = p
    BY <1>1
  <2> QED
    BY <2>1, <2>2 DEF Doubled
<1>5. ASSUME NEW q \in 0 .. 2 * size - 1
      PROVE  \E p \in 0 .. size - 1 : q = p \/ q = p + size
  <2>1. CASE q < size
    BY <1>1, <2>1
  <2>2. CASE q >= size
    <3>1. q - size \in 0 .. size - 1
      BY <1>2, <2>2
    <3>2. q = (q - size) + size
      BY <1>1
    <3> QED
      BY <3>1, <3>2
  <2> QED
    BY <1>1, <2>1, <2>2
<1> QED
  BY <1>3, <1>4, <1>5

(* The doubling keeps the types.                                           *)
LEMMA TypeGrow ==
  ASSUME TypeOK, Control, Grow
  PROVE  TypeOK'
<1>1. size \in TableSizes
  BY DEF Control, Grow
<1>2. size' = 2 * size /\ size' \in TableSizes
  BY DEF Grow
<1>3. items' \in [0 .. size' - 1 -> Slot]
  BY <1>1, <1>2, DoubledTable DEF Grow
<1>4. /\ backup' \in [StashIndex -> Slot] /\ old_extent' \in 0 .. StashSize
      /\ old_size' \in Int /\ return_to' \in {"count", "merge"}
  BY DEF Grow, TypeOK, mergeVars
<1>5. /\ stash' \in [StashIndex -> Slot] /\ stash_size' \in Int
      /\ stash_extent' \in 0 .. StashSize
  BY ConstantsAssumption DEF Grow, TypeOK, stashVars, ResetStash, EmptyStash, Slot
<1>6. pc' \in {"merge", "return", "aborted"} /\ failure' \in Failures
  BY DEF Grow, CoucalAssert, TypeOK, Failures
<1> QED
  BY <1>2, <1>3, <1>4, <1>5, <1>6 DEF Grow, TypeOK, callVars

(* A step of the merge keeps the types: it reads inside the backup.        *)
LEMMA TypeMergeStep ==
  ASSUME TypeOK, Control, MergeStep
  PROVE  TypeOK'
<1>1. item' \in Slot /\ pc' \in {"merge", "place"}
  <2>1. index \in StashIndex
    BY ConstantsAssumption DEF TypeOK, MergeStep, MergeEnd, StashIndex
  <2> QED
    BY <2>1 DEF MergeStep, TypeOK
<1> QED
  BY <1>1 DEF MergeStep, TypeOK, Failures, tableVars, stashVars, callVars, mergeVars

(* The end of the merge keeps the types.                                   *)
LEMMA TypeMergeDone ==
  ASSUME TypeOK, MergeDone
  PROVE  TypeOK'
<1>1. backup' \in [StashIndex -> Slot] /\ 0 \in 0 .. StashSize
  BY ConstantsAssumption DEF MergeDone, EmptyStash, Slot
<1>2. pc' \in {"return", "aborted"} /\ failure' \in Failures
  BY DEF MergeDone, CoucalAssert, TypeOK, Failures
<1> QED
  BY <1>1, <1>2 DEF MergeDone, TypeOK, tableVars, stashVars, callVars

(* The return of an add keeps the types.                                   *)
LEMMA TypeReturn ==
  ASSUME TypeOK, Return
  PROVE  TypeOK'
BY DEF Return, TypeOK, Failures, Slot, tableVars, stashVars, walkVars, mergeVars

(***************************************************************************)
(* The control state.                                                      *)
(***************************************************************************)
LEMMA ControlInit ==
  Init => Control
BY DEF Init, Control, InAddItem

(* A call that adds nothing keeps the control state.                       *)
LEMMA ControlNoAdd ==
  ASSUME TypeOK, Control, NoAdd
  PROVE  Control'
<1>1. ASSUME NEW k \in Key, Read(k) PROVE Control'
  BY <1>1 DEF Read, Control, InAddItem, Live, tableVars, stashVars, callVars, walkVars, mergeVars
<1>2. ASSUME NEW k \in Key, Remove(k) PROVE Control'
  BY <1>2 DEF Remove, CoucalAssert, Control, InAddItem, Live, stashVars, callVars, walkVars, mergeVars
<1>3. ASSUME NEW k \in Key, NEW v \in Written, Replace(k, v) PROVE Control'
  BY <1>3 DEF Replace, Control, InAddItem, Live, callVars, walkVars, mergeVars
<1>4. ASSUME NEW k \in Key, NEW inc \in Increments, IncExisting(k, inc) PROVE Control'
  BY <1>4 DEF IncExisting, Control, InAddItem, Live, callVars, walkVars, mergeVars
<1>5. ASSUME Delete PROVE Control'
  BY <1>5 DEF Delete, Control, InAddItem, Live, callVars, walkVars, mergeVars
<1>6. ASSUME NEW n \in NewSizes, NEW h \in Hashers, New(n, h) PROVE Control'
  BY <1>6 DEF New, Control, InAddItem, Live, stashVars, callVars, walkVars, mergeVars
<1> QED
  BY <1>1, <1>2, <1>3, <1>4, <1>5, <1>6 DEF NoAdd

(* The beginning of an add keeps the control state.                        *)
LEMMA ControlStartAdd ==
  ASSUME TypeOK, Control, NEW k \in Key, NEW v \in Value, NEW r \in Int,
         StartAdd(k, v, r)
  PROVE  Control'
<1>1. Live(ItemOf(k, v))
  BY ItemOfIsItem, ItemIsLive
<1> QED
  BY <1>1, ConstantsAssumption
  DEF StartAdd, Control, InAddItem, Live, TypeOK, tableVars, stashVars, mergeVars

(* Every step of an add keeps the control state.                           *)
LEMMA ControlAddStep ==
  ASSUME TypeOK, Control, CuckooPlaced, AddStep
  PROVE  Control'
<1>1. ASSUME DrainStep PROVE Control'
  BY <1>1, ConstantsAssumption
  DEF DrainStep, Control, InAddItem, Live, TypeOK, callVars, walkVars, mergeVars
<1>2. ASSUME DrainDone PROVE Control'
  BY <1>2 DEF DrainDone, Control, InAddItem, Live, tableVars, callVars, mergeVars
<1>3. ASSUME PlaceFree PROVE Control'
  BY <1>3 DEF PlaceFree, PutItem, Control, InAddItem, Live, TypeOK, stashVars, callVars, mergeVars
<1>4. ASSUME PlaceTaken PROVE Control'
  BY <1>4, ConstantsAssumption
  DEF PlaceTaken, Control, InAddItem, Live, TypeOK, tableVars, stashVars, callVars, mergeVars
<1>5. ASSUME WalkFree PROVE Control'
  BY <1>5 DEF WalkFree, PutItem, Control, InAddItem, Live, TypeOK, stashVars, callVars, mergeVars
<1>6. ASSUME WalkKick PROVE Control'
  <2>1. PICK p \in 0 .. size - 1 :
          /\ items[p] \in Item
          /\ item' = items[p]
          /\ pc' \in {"walk", "stash"}
          /\ pc' = "walk" =>
               /\ cuckoo_hash' \in {hash[item'.name].hash1, hash[item'.name].hash2}
               /\ loops' >= 1
    BY <1>6, WalkKicks
  <2>2. Live(item')
    BY <2>1, ItemIsLive
  <2> QED
    BY <1>6, <2>1, <2>2 DEF WalkKick, Control, InAddItem, Live, stashVars, callVars, mergeVars
<1>7. ASSUME StashItem PROVE Control'
  BY <1>7 DEF StashItem, Control, InAddItem, Live, TypeOK, tableVars, callVars, mergeVars
<1>8. ASSUME StashFull \/ GrowRefused \/ GrowNoMemory PROVE Control'
  BY <1>8 DEF StashFull, GrowRefused, GrowNoMemory, Abort, Control, InAddItem, Live,
     tableVars, stashVars, callVars, walkVars, mergeVars
<1>9. ASSUME Count PROVE Control'
  BY <1>9 DEF Count, Control, InAddItem, Live, tableVars, stashVars, callVars, walkVars, mergeVars
<1>10. ASSUME Grow PROVE Control'
  BY <1>10, ConstantsAssumption
  DEF Grow, CoucalAssert, Control, InAddItem, Live, TypeOK, mergeVars, callVars
<1>11. ASSUME MergeStep PROVE Control'
  BY <1>11, ConstantsAssumption
  DEF MergeStep, MergeEnd, Control, InAddItem, Live, TypeOK, tableVars, stashVars, callVars, mergeVars
<1>12. ASSUME MergeDone PROVE Control'
  BY <1>12 DEF MergeDone, CoucalAssert, Control, InAddItem, Live, tableVars, stashVars, callVars
<1>13. ASSUME Return PROVE Control'
  BY <1>13 DEF Return, Control, InAddItem, Live, tableVars, stashVars, walkVars, mergeVars
<1> QED
  BY <1>1, <1>2, <1>3, <1>4, <1>5, <1>6, <1>7, <1>8, <1>9, <1>10, <1>11, <1>12, <1>13
  DEF AddStep

(***************************************************************************)
(* The stash: its size, its extent.                                        *)
(***************************************************************************)

(* Emptying a slot of the stash, and filling one. *)
LEMMA StashSlotEmptied ==
  ASSUME TypeOK, StashCounted, NEW j \in StashIndex, Live(stash[j]),
         stash' = [stash EXCEPT ![j] = NoItem]
  PROVE  Cardinality(LiveStash') = stash_size - 1
<1>1. LiveStash' = LiveStash \ {j} /\ j \in LiveStash
  BY DEF LiveStash, Live, TypeOK
<1> QED
  BY <1>1, LiveStashFinite, FS_RemoveElement DEF StashCounted

(* Filling a free slot of the stash adds one to its items.                 *)
LEMMA StashSlotFilled ==
  ASSUME TypeOK, StashCounted, NEW j \in StashIndex, stash[j] = NoItem, NEW it \in Item,
         stash' = [stash EXCEPT ![j] = it]
  PROVE  Cardinality(LiveStash') = stash_size + 1
<1>1. LiveStash' = LiveStash \cup {j} /\ j \notin LiveStash
  BY ItemIsLive DEF LiveStash, Live, TypeOK
<1> QED
  BY <1>1, LiveStashFinite, FS_AddElement DEF StashCounted

(* Changing an item of the stash leaves their number.                      *)
LEMMA StashSlotChanged ==
  ASSUME TypeOK, StashCounted, NEW j \in StashIndex, Live(stash[j]), NEW it \in Item,
         stash' = [stash EXCEPT ![j] = it]
  PROVE  Cardinality(LiveStash') = stash_size
<1>1. LiveStash' = LiveStash
  BY ItemIsLive DEF LiveStash, Live, TypeOK
<1> QED
  BY <1>1 DEF StashCounted

(* The empty stash has no item.                                            *)
LEMMA EmptyStashCounted ==
  Cardinality({j \in StashIndex : Live(EmptyStash[j])}) = 0
<1>1. {j \in StashIndex : Live(EmptyStash[j])} = {}
  BY DEF EmptyStash, Live
<1> QED
  BY <1>1, FS_EmptySet

(* An empty stash has no item, wherever its extent is.                     *)
LEMMA NothingStashed ==
  ASSUME StashCounted, stash_size = 0, NEW j \in StashIndex
  PROVE  stash[j] = NoItem
<1>1. LiveStash = {}
  BY LiveStashFinite, FS_EmptySet DEF StashCounted
<1> QED
  BY <1>1 DEF LiveStash, Live

(* Trimming passes over free slots only. *)
LEMMA TrimmedStash ==
  ASSUME NEW st \in [StashIndex -> Slot], NEW ext \in 0 .. StashSize, NEW n,
         Trimmed(st, ext, n),
         \A j \in StashIndex : j >= ext => st[j] = NoItem
  PROVE  /\ \A j \in StashIndex : j >= n => st[j] = NoItem
         /\ n # 0 => Live(st[n - 1])
BY ConstantsAssumption DEF Trimmed, StashIndex, Live

StashInv == StashCounted /\ ExtentTrimmed

(* There is nothing in the stash at first.                                 *)
LEMMA StashInit ==
  Init => StashInv
<1> SUFFICES ASSUME Init PROVE StashInv
  OBVIOUS
<1>1. Cardinality(LiveStash) = 0
  BY EmptyStashCounted DEF Init, LiveStash
<1> QED
  BY <1>1 DEF Init, StashInv, StashCounted, ExtentTrimmed, EmptyStash

(* A step that leaves the stash alone keeps its accounts.                  *)
LEMMA StashUnchanged ==
  ASSUME StashInv, UNCHANGED stashVars, pc = "drain" => pc' = "drain"
  PROVE  StashInv'
<1>1. LiveStash' = LiveStash
  BY DEF stashVars, LiveStash, Live
<1> QED
  BY <1>1 DEF stashVars, StashInv, StashCounted, ExtentTrimmed, Live

(* A step that replaces an item of the stash keeps its accounts.           *)
LEMMA StashReplaced ==
  ASSUME TypeOK, StashInv, NEW j \in StashIndex, Live(stash[j]), NEW it \in Item,
         stash' = [stash EXCEPT ![j] = it],
         UNCHANGED <<stash_size, stash_extent, pc>>
  PROVE  StashInv'
<1>1. StashCounted'
  BY StashSlotChanged, ItemIsLive DEF StashInv, StashCounted, TypeOK, Live
<1>2. ExtentTrimmed'
  BY ItemIsLive, ConstantsAssumption DEF StashInv, ExtentTrimmed, TypeOK, StashIndex, Live
<1> QED
  BY <1>1, <1>2 DEF StashInv

(* A replacement keeps the accounts of the stash.                          *)
LEMMA StashReplace ==
  ASSUME TypeOK, StashInv, NEW k \in Key, NEW v \in Written, Replace(k, v)
  PROVE  StashInv'
<1>1. CASE UNCHANGED stash
  BY <1>1, StashUnchanged DEF Replace, stashVars
<1>2. CASE \E j \in StashIndex :
             AtStash(k, j) /\ stash' = [stash EXCEPT ![j] = SetValue(@, v)]
  <2>1. PICK j \in StashIndex :
          AtStash(k, j) /\ stash' = [stash EXCEPT ![j] = SetValue(stash[j], v)]
    BY <1>2
  <2>2. v \in Value
    BY ConstantsAssumption DEF Value
  <2>3. Live(stash[j]) /\ SetValue(stash[j], v) \in Item
    BY <2>1, <2>2, LiveIsItem, SetValueIsItem DEF AtStash, Matches, Live, TypeOK
  <2> QED
    BY <2>1, <2>3, StashReplaced DEF Replace
<1> QED
  BY <1>1, <1>2 DEF Replace

(* An increment keeps the accounts of the stash.                           *)
LEMMA StashIncExisting ==
  ASSUME TypeOK, StashInv, NEW k \in Key, NEW inc \in Increments, IncExisting(k, inc)
  PROVE  StashInv'
<1>1. CASE UNCHANGED stash
  BY <1>1, StashUnchanged DEF IncExisting, stashVars
<1>2. CASE \E j \in StashIndex :
             /\ AtStash(k, j)
             /\ stash' = [stash EXCEPT ![j] =
                            SetValue(@, (stash[j].value + inc) % ValueMod)]
  <2>1. PICK j \in StashIndex :
          /\ AtStash(k, j)
          /\ stash' = [stash EXCEPT ![j] =
                         SetValue(stash[j], (stash[j].value + inc) % ValueMod)]
    BY <1>2
  <2>2. Live(stash[j]) /\ stash[j] \in Item /\ stash[j].value \in Value
    BY <2>1, LiveIsItem DEF AtStash, Matches, Live, TypeOK
  <2>3. SetValue(stash[j], (stash[j].value + inc) % ValueMod) \in Item
    BY <2>2, SumIsValue, SetValueIsItem
  <2> QED
    BY <2>1, <2>2, <2>3, StashReplaced DEF IncExisting
<1> QED
  BY <1>1, <1>2 DEF IncExisting

(* A removal keeps the accounts: a hole, one less, a trimmed extent.       *)
LEMMA StashRemove ==
  ASSUME TypeOK, StashInv, NEW k \in Key, Remove(k)
  PROVE  StashInv'
<1>1. CASE UNCHANGED stashVars
  BY <1>1, StashUnchanged DEF Remove, CoucalAssert
<1>2. CASE /\ \E j \in StashIndex : AtStash(k, j) /\ stash' = WithHole(j)
           /\ stash_size' = stash_size - 1
           /\ Trimmed(stash', stash_extent, stash_extent')
  <2>1. PICK j \in StashIndex :
          Live(stash[j]) /\ stash' = [stash EXCEPT ![j] = NoItem]
    BY <1>2 DEF AtStash, Matches, Live, WithHole
  <2>2. Cardinality(LiveStash') = stash_size'
    BY <1>2, <2>1, StashSlotEmptied DEF StashInv
  <2>3. /\ stash' \in [StashIndex -> Slot]
        /\ \A l \in StashIndex : l >= stash_extent => stash'[l] = NoItem
    BY <2>1 DEF TypeOK, Slot, StashInv, StashCounted
  <2>4. /\ \A l \in StashIndex : l >= stash_extent' => stash'[l] = NoItem
        /\ stash_extent' # 0 => Live(stash'[stash_extent' - 1])
    BY <1>2, <2>3, TrimmedStash DEF TypeOK
  <2> QED
    BY <2>2, <2>4 DEF StashInv, StashCounted, ExtentTrimmed, Live
<1> QED
  BY <1>1, <1>2 DEF Remove

(* A call that adds nothing keeps the accounts of the stash.               *)
LEMMA StashNoAdd ==
  ASSUME TypeOK, StashInv, NoAdd
  PROVE  StashInv'
<1>1. ASSUME NEW k \in Key, Read(k) PROVE StashInv'
  BY <1>1, StashUnchanged DEF Read
<1>2. ASSUME Delete PROVE StashInv'
  <2>1. Cardinality(LiveStash') = 0
    BY <1>2, EmptyStashCounted DEF Delete, LiveStash, Live
  <2> QED
    BY <1>2, <2>1 DEF Delete, StashInv, StashCounted, ExtentTrimmed, EmptyStash
<1>3. ASSUME NEW n \in NewSizes, NEW h \in Hashers, New(n, h) PROVE StashInv'
  BY <1>3, StashUnchanged DEF New
<1> QED
  BY <1>1, <1>2, <1>3, StashReplace, StashIncExisting, StashRemove DEF NoAdd

(* The beginning of an add keeps the accounts of the stash.                *)
LEMMA StashStartAdd ==
  ASSUME TypeOK, StashInv, NEW k \in Key, NEW v \in Value, NEW r \in Int,
         StartAdd(k, v, r)
  PROVE  StashInv'
BY StashUnchanged DEF StartAdd

(* A step of the drain keeps the accounts: a hole and one less.            *)
LEMMA StashDrainStep ==
  ASSUME TypeOK, Control, StashInv, DrainStep
  PROVE  StashInv'
<1>1. CASE UNCHANGED <<items, stash, stash_size>>
  BY <1>1, StashUnchanged DEF DrainStep, stashVars
<1>2. CASE Live(stash[index]) /\ \E p \in 0 .. size - 1 : Home(p)
  <2>1. /\ index \in StashIndex
        /\ stash' = [stash EXCEPT ![index] = NoItem]
        /\ stash_size' = stash_size - 1
    BY <1>2, DrainHome DEF Home
  <2>2. Cardinality(LiveStash') = stash_size'
    BY <1>2, <2>1, StashSlotEmptied DEF StashInv
  <2> QED
    BY <2>1, <2>2 DEF DrainStep, StashInv, StashCounted, ExtentTrimmed, TypeOK
<1> QED
  BY <1>1, <1>2, DrainHome

(* The end of the drain trims the extent.                                  *)
LEMMA StashDrainDone ==
  ASSUME TypeOK, StashInv, DrainDone
  PROVE  StashInv'
<1>1. /\ \A j \in StashIndex : j >= stash_extent' => stash[j] = NoItem
      /\ stash_extent' # 0 => Live(stash[stash_extent' - 1])
  BY TrimmedStash DEF DrainDone, TypeOK, StashInv, StashCounted
<1>2. LiveStash' = LiveStash /\ stash' = stash /\ stash_size' = stash_size
  BY DEF DrainDone, LiveStash, Live
<1> QED
  BY <1>1, <1>2 DEF StashInv, StashCounted, ExtentTrimmed, Live

(* An emergency stashing keeps the accounts: a slot and one more.          *)
LEMMA StashStashItem ==
  ASSUME TypeOK, Control, StashInv, StashItem
  PROVE  StashInv'
<1>1. PICK n \in StashIndex :
        /\ n <= stash_extent
        /\ stash[n] = NoItem
        /\ stash' = [stash EXCEPT ![n] = item]
        /\ stash_extent' = IF n = stash_extent THEN n + 1 ELSE stash_extent
  BY StashItemSlot DEF StashInv
<1>2. item \in Item /\ pc # "drain"
  BY LiveIsItem DEF StashItem, Control, InAddItem, TypeOK
<1>3. Cardinality(LiveStash') = stash_size'
  BY <1>1, <1>2, StashSlotFilled DEF StashInv, StashItem
<1>4. \A j \in StashIndex : j >= stash_extent' => stash'[j] = NoItem
  BY <1>1, ConstantsAssumption DEF StashInv, StashCounted, TypeOK, StashIndex
<1>5. stash_extent' # 0 => Live(stash'[stash_extent' - 1])
  BY <1>1, <1>2, ItemIsLive, ConstantsAssumption DEF StashInv, ExtentTrimmed, TypeOK, StashIndex, Live
<1> QED
  BY <1>3, <1>4, <1>5 DEF StashInv, StashCounted, ExtentTrimmed, Live

(* The reset of the stash before the merge keeps its accounts.             *)
LEMMA StashGrow ==
  ASSUME StashInv, Grow
  PROVE  StashInv'
<1>1. CASE UNCHANGED stashVars
  BY <1>1, StashUnchanged DEF Grow
<1>2. CASE ResetStash
  <2>1. Cardinality(LiveStash') = 0
    BY <1>2, EmptyStashCounted DEF ResetStash, LiveStash, Live
  <2> QED
    BY <1>2, <2>1 DEF ResetStash, StashInv, StashCounted, ExtentTrimmed, EmptyStash
<1> QED
  BY <1>1, <1>2 DEF Grow

(* Every step of an add keeps the accounts of the stash.                   *)
LEMMA StashAddStep ==
  ASSUME TypeOK, Control, StashInv, AddStep
  PROVE  StashInv'
<1>1. CASE PlaceFree \/ PlaceTaken \/ WalkFree \/ WalkKick \/ StashFull \/ Count
           \/ GrowRefused \/ GrowNoMemory \/ MergeStep \/ MergeDone \/ Return
  BY <1>1, StashUnchanged
  DEF PlaceFree, PlaceTaken, WalkFree, WalkKick, StashFull, Count, GrowRefused,
      GrowNoMemory, MergeStep, MergeDone, Return
<1> QED
  BY <1>1, StashDrainStep, StashDrainDone, StashStashItem, StashGrow DEF AddStep

(***************************************************************************)
(* The cuckoo invariant.                                                   *)
(***************************************************************************)
LEMMA PlacedInit ==
  Init => CuckooPlaced
BY DEF Init, CuckooPlaced, WellPositioned

(* An item put at one of its positions is well placed. *)
LEMMA PlacedPut ==
  ASSUME TypeOK, CuckooPlaced, NEW p \in 0 .. size - 1, NEW it \in Item,
         p \in {Pos1(it.name), Pos2(it.name)},
         items' = [items EXCEPT ![p] = it], UNCHANGED <<hash, size>>
  PROVE  CuckooPlaced'
BY DEF TypeOK, CuckooPlaced, WellPositioned, IsFree, Pos1, Pos2

(* Emptying a slot displaces no item.                                      *)
LEMMA PlacedEmptied ==
  ASSUME TypeOK, CuckooPlaced, NEW p \in 0 .. size - 1,
         items' = [items EXCEPT ![p] = NoItem], UNCHANGED <<hash, size>>
  PROVE  CuckooPlaced'
BY DEF TypeOK, CuckooPlaced, WellPositioned, IsFree, Pos1, Pos2

(* A step that leaves the table alone displaces no item.                   *)
LEMMA PlacedUnchanged ==
  ASSUME CuckooPlaced, UNCHANGED tableVars
  PROVE  CuckooPlaced'
BY DEF CuckooPlaced, WellPositioned, IsFree, Pos1, Pos2, tableVars

(* A replacement displaces no item.                                        *)
LEMMA PlacedReplace ==
  ASSUME TypeOK, CuckooPlaced, NEW k \in Key, NEW v \in Written, Replace(k, v)
  PROVE  CuckooPlaced'
<1>1. CASE UNCHANGED items
  BY <1>1, PlacedUnchanged DEF Replace, tableVars
<1>2. CASE \E p \in 0 .. size - 1 :
             AtTable(k, p) /\ items' = [items EXCEPT ![p] = SetValue(@, v)]
  <2>1. PICK p \in 0 .. size - 1 :
          AtTable(k, p) /\ items' = [items EXCEPT ![p] = SetValue(items[p], v)]
    BY <1>2 DEF TypeOK
  <2>2. v \in Value
    BY ConstantsAssumption DEF Value
  <2>3. /\ SetValue(items[p], v) \in Item /\ SetValue(items[p], v).name = items[p].name
        /\ p \in {Pos1(items[p].name), Pos2(items[p].name)}
    BY <2>1, <2>2, LiveIsItem, SetValueIsItem DEF AtTable, Matches, Live, TypeOK
  <2> QED
    BY <2>1, <2>3, PlacedPut DEF Replace
<1> QED
  BY <1>1, <1>2 DEF Replace

(* An increment displaces no item.                                         *)
LEMMA PlacedIncExisting ==
  ASSUME TypeOK, CuckooPlaced, NEW k \in Key, NEW inc \in Increments, IncExisting(k, inc)
  PROVE  CuckooPlaced'
<1>1. CASE UNCHANGED items
  BY <1>1, PlacedUnchanged DEF IncExisting, tableVars
<1>2. CASE \E p \in 0 .. size - 1 :
             /\ AtTable(k, p)
             /\ items' = [items EXCEPT ![p] =
                            SetValue(@, (items[p].value + inc) % ValueMod)]
  <2>1. PICK p \in 0 .. size - 1 :
          /\ AtTable(k, p)
          /\ items' = [items EXCEPT ![p] =
                         SetValue(items[p], (items[p].value + inc) % ValueMod)]
    BY <1>2 DEF TypeOK
  <2> DEFINE v == (items[p].value + inc) % ValueMod
  <2>2. items[p] \in Item /\ v \in Value
    BY <2>1, LiveIsItem, SumIsValue DEF AtTable, Matches, Live, TypeOK
  <2> HIDE DEF v
  <2>3. /\ SetValue(items[p], v) \in Item /\ SetValue(items[p], v).name = items[p].name
        /\ p \in {Pos1(items[p].name), Pos2(items[p].name)}
    BY <2>1, <2>2, SetValueIsItem DEF AtTable, Matches
  <2> QED
    BY <2>1, <2>3, PlacedPut DEF IncExisting, v
<1> QED
  BY <1>1, <1>2 DEF IncExisting

(* A call that adds nothing displaces no item.                             *)
LEMMA PlacedNoAdd ==
  ASSUME TypeOK, CuckooPlaced, NoAdd
  PROVE  CuckooPlaced'
<1>1. ASSUME NEW k \in Key, Read(k) PROVE CuckooPlaced'
  BY <1>1, PlacedUnchanged DEF Read
<1>2. ASSUME NEW k \in Key, Remove(k) PROVE CuckooPlaced'
  BY <1>2, PlacedUnchanged, PlacedEmptied DEF Remove, tableVars
<1>3. ASSUME Delete PROVE CuckooPlaced'
  BY <1>3 DEF Delete, CuckooPlaced, WellPositioned
<1>4. ASSUME NEW n \in NewSizes, NEW h \in Hashers, New(n, h) PROVE CuckooPlaced'
  BY <1>4 DEF New, CuckooPlaced, WellPositioned, IsFree
<1> QED
  BY <1>1, <1>2, <1>3, <1>4, PlacedReplace, PlacedIncExisting DEF NoAdd

(* The drain puts an item at one of its own positions.                     *)
LEMMA PlacedDrainStep ==
  ASSUME TypeOK, Control, CuckooPlaced, DrainStep
  PROVE  CuckooPlaced'
<1>1. CASE UNCHANGED items
  BY <1>1, PlacedUnchanged DEF DrainStep, tableVars
<1>2. CASE /\ Live(stash[index])
           /\ \E p \in 0 .. size - 1 :
                p \in {Pos1(stash[index].name), Pos2(stash[index].name)} /\ Home(p)
  <2>1. stash[index] \in Item
    BY <1>2, DrainHome, LiveIsItem DEF TypeOK
  <2> QED
    BY <1>2, <2>1, PlacedPut DEF DrainStep, Home
<1> QED
  BY <1>1, <1>2, DrainHome

(* The positions in the doubled table. *)
NextPos1(k) == HashToPos(2 * size, hash[k].hash1)
NextPos2(k) == HashToPos(2 * size, hash[k].hash2)

(* The table after it has been doubled.                                    *)
LEMMA PlacedGrow ==
  ASSUME TypeOK, Control, CuckooPlaced, Grow
  PROVE  CuckooPlaced'
<1>1. size \in TableSizes /\ size \in Nat \ {0}
  BY ConstantsAssumption DEF Control, Grow
<1>2. size' = 2 * size /\ items' = Doubled /\ hash' = hash
  BY DEF Grow
<1>3. ASSUME NEW p \in 0 .. size - 1, Live(items[p])
      PROVE  LET k == items[p].name
             IN  IF MovesUp(p) THEN p + size \in {NextPos1(k), NextPos2(k)}
                 ELSE p \in {NextPos1(k), NextPos2(k)}
  <2> DEFINE k == items[p].name
             h == IF Pos1(k) = p THEN hash[k].hash1 ELSE hash[k].hash2
  <2>1. k \in Key
    BY <1>3, LiveIsItem DEF TypeOK
  <2>2. p = Pos1(k) \/ p = Pos2(k)
    BY <1>3 DEF CuckooPlaced, WellPositioned, IsFree, Live
  <2>3. h \in Nat /\ h \in {hash[k].hash1, hash[k].hash2}
    BY <2>1 DEF TypeOK
  <2>4. HashToPos(size, h) = p
    BY <2>2 DEF Pos1, Pos2
  <2>5. HashToPos(2 * size, h) \in {p, p + size}
    BY <1>1, <2>3, <2>4, PositionAfterDoubling
  <2>6. HashToPos(2 * size, h) \in {NextPos1(k), NextPos2(k)}
    BY <2>3 DEF NextPos1, NextPos2
  <2>7. MovesUp(p) <=> HashToPos(2 * size, h) # p
    BY <1>3 DEF MovesUp, Live
  <2> QED
    BY <2>5, <2>6, <2>7
<1>4. ASSUME NEW q \in 0 .. 2 * size - 1, Doubled[q] # NoItem
      PROVE  q \in {NextPos1(Doubled[q].name), NextPos2(Doubled[q].name)}
  <2>1. PICK p \in 0 .. size - 1 : q = p \/ q = p + size
    BY <1>1, DoubledTable
  <2>2. /\ Doubled[p] = IF MovesUp(p) THEN NoItem ELSE items[p]
        /\ Doubled[p + size] = IF MovesUp(p) THEN items[p] ELSE NoItem
    BY <1>1, DoubledTable
  <2>3. Live(items[p]) /\ Doubled[q] = items[p]
    BY <1>4, <2>1, <2>2 DEF Live
  <2>4. CASE q = p
    <3>1. ~MovesUp(p)
      BY <1>4, <2>2, <2>4
    <3> QED
      BY <1>3, <2>3, <2>4, <3>1
  <2>5. CASE q = p + size
    <3>1. MovesUp(p)
      BY <1>4, <2>2, <2>5
    <3> QED
      BY <1>3, <2>3, <2>5, <3>1
  <2> QED
    BY <2>1, <2>4, <2>5
<1> QED
  BY <1>2, <1>4 DEF CuckooPlaced, WellPositioned, IsFree, Pos1, Pos2, NextPos1, NextPos2

(* Every step of an add leaves the items at their positions.               *)
LEMMA PlacedAddStep ==
  ASSUME TypeOK, Control, CuckooPlaced, AddStep
  PROVE  CuckooPlaced'
<1>1. CASE DrainDone \/ PlaceTaken \/ StashItem \/ StashFull \/ Count \/ GrowRefused
           \/ GrowNoMemory \/ MergeStep \/ MergeDone \/ Return
  BY <1>1, PlacedUnchanged
  DEF DrainDone, PlaceTaken, StashItem, StashFull, Count, GrowRefused, GrowNoMemory,
      MergeStep, MergeDone, Return
<1>2. ASSUME PlaceFree PROVE CuckooPlaced'
  <2>1. item \in Item /\ item.name \in Key /\ size \in TableSizes
    BY <1>2, LiveIsItem DEF PlaceFree, Control, InAddItem, TypeOK
  <2>2. Pos1(item.name) \in 0 .. size - 1 /\ Pos2(item.name) \in 0 .. size - 1
    BY <2>1, PositionsInRange
  <2> QED
    BY <1>2, <2>1, <2>2, PlacedPut DEF PlaceFree, PutItem
<1>3. ASSUME WalkFree PROVE CuckooPlaced'
  BY <1>3, WalkPosition, PlacedPut DEF WalkFree, PutItem
<1>4. ASSUME WalkKick PROVE CuckooPlaced'
  <2>1. item \in Item
    BY <1>4, WalkPosition DEF WalkKick
  <2> QED
    BY <1>4, <2>1, WalkKicks, PlacedPut DEF WalkKick
<1> QED
  BY <1>1, <1>2, <1>3, <1>4, PlacedDrainStep, PlacedGrow DEF AddStep

(***************************************************************************)
(* Room: less than half of the table is used between two calls.            *)
(***************************************************************************)
LEMMA HalfSize ==
  ASSUME NEW s \in TableSizes
  PROVE  /\ s \in Nat /\ s \div 2 \in Nat
         /\ s \div 2 >= 1 /\ s \div 2 < s
         /\ (2 * s) \div 2 = s
<1>1. s \in Nat \ {0} /\ s % 2 = 0
  BY ConstantsAssumption
<1> QED
  BY <1>1

(* There is room at first: there is no table.                              *)
LEMMA RoomInit ==
  Init => RoomLeft
BY DEF Init, RoomLeft

(* Every step leaves room, or is followed by the doubling.                 *)
LEMMA RoomStep ==
  ASSUME TypeOK, Control, RoomLeft, Next
  PROVE  RoomLeft'
<1>1. ASSUME NEW n \in NewSizes, NEW h \in Hashers, New(n, h) PROVE RoomLeft'
  BY <1>1, HalfSize DEF New, Control, RoomLeft
<1>2. ASSUME NEW k \in Key, Remove(k) PROVE RoomLeft'
  BY <1>2, ConstantsAssumption DEF Remove, Discount, CoucalAssert, RoomLeft, TypeOK
<1>3. CASE Count
  <2> DEFINE half == size \div 2
  <2>1. /\ size \in Nat /\ half \in Nat /\ used \in Int
        /\ used < half /\ half < size
    BY <1>3, HalfSize DEF Count, Control, RoomLeft, TypeOK
  <2>2. /\ used' = used + 1 /\ size' = size
        /\ pc' = "grow" \/ (pc' = "return" /\ ~(used + 1 >= half))
    BY <1>3 DEF Count, MustGrow, tableVars
  <2>3. size' \div 2 = half
    BY <2>2
  <2> HIDE DEF half
  <2> QED
    BY <2>1, <2>2, <2>3 DEF RoomLeft
<1>4. CASE Grow
  <2>1. size \in TableSizes /\ used < size
    BY <1>4 DEF Grow, Control, RoomLeft
  <2> QED
    BY <1>4, <2>1, HalfSize DEF Grow, CoucalAssert, RoomLeft, TypeOK
<1>5. ASSUME UNCHANGED <<size, used>>,
             pc \notin {"null", "grow", "aborted"} \/ pc' \in {"null", "aborted"} \/ pc' = pc,
             pc' # "grow" \/ pc' = pc
      PROVE  RoomLeft'
  BY <1>5 DEF RoomLeft
<1>6. ASSUME Delete PROVE RoomLeft'
  BY <1>6 DEF Delete, RoomLeft
<1>7. ASSUME NEW k \in Key,
             \/ Read(k)
             \/ \E v \in Written : Replace(k, v) \/ WriteNew(k, v)
             \/ \E inc \in Increments : IncExisting(k, inc) \/ IncNew(k, inc)
      PROVE  RoomLeft'
  BY <1>5, <1>7 DEF Read, Replace, IncExisting, WriteNew, IncNew, StartAdd, tableVars
<1>8. CASE DrainStep \/ DrainDone \/ PlaceTaken
  BY <1>5, <1>8 DEF DrainStep, DrainDone, PlaceTaken, tableVars
<1>9. CASE PlaceFree \/ WalkFree \/ WalkKick \/ StashItem
  BY <1>5, <1>9 DEF PlaceFree, WalkFree, WalkKick, StashItem, PutItem, CoucalAssert, TypeOK, tableVars
<1>10. CASE StashFull \/ GrowRefused \/ GrowNoMemory \/ MergeStep \/ MergeDone \/ Return
  BY <1>5, <1>10 DEF StashFull, GrowRefused, GrowNoMemory, MergeStep, MergeDone, Return,
     Abort, CoucalAssert, tableVars
<1>11. CASE Halted
  BY <1>5, <1>11 DEF Halted, vars
<1> QED
  BY <1>1, <1>2, <1>3, <1>4, <1>6, <1>7, <1>8, <1>9, <1>10, <1>11 DEF Next, Call, AddStep

(***************************************************************************)
(* No key is in two places.                                                *)
(***************************************************************************)
LEMMA KeysInit ==
  Init => NoKeyTwice
BY DEF Init, NoKeyTwice, Distinct, Live, Pending, EmptyStash

(* A step that adds nothing to any place, and renames nothing. *)
SlotKept(new, old) == new = NoItem \/ (Live(old) /\ new.name = old.name)

NamesKept ==
  /\ \A p \in 0 .. size' - 1 :
       items'[p] = NoItem \/ (p \in 0 .. size - 1 /\ SlotKept(items'[p], items[p]))
  /\ \A j \in StashIndex : SlotKept(stash'[j], stash[j])
  /\ item' \in {item, NoItem}
  /\ index' = index /\ backup' = backup
  /\ pc' = "drain" => pc = "drain" /\ adding' = adding

(* Such a step does not put a key in a second place.                       *)
LEMMA KeysKept ==
  NoKeyTwice /\ NamesKept => NoKeyTwice'
<1> SUFFICES ASSUME NoKeyTwice, NamesKept PROVE NoKeyTwice'
  OBVIOUS
<1>1. \A j \in StashIndex : Pending(j)' <=> Pending(j)
  BY DEF NamesKept, Pending, Live
<1> QED
  BY <1>1 DEF NamesKept, SlotKept, NoKeyTwice, Distinct, Live

(* A slot whose value is set keeps its name.                               *)
LEMMA SetValueKept ==
  ASSUME NEW slot \in Slot, NEW k \in Key, Matches(slot, k), NEW v \in Value
  PROVE  SlotKept(SetValue(slot, v), slot)
BY LiveIsItem, SetValueIsItem DEF Matches, SlotKept, Live

(* A call that adds nothing moves nothing. *)
LEMMA NamesNoAdd ==
  ASSUME TypeOK, NoAdd
  PROVE  NamesKept
<1> DEFINE ItemsKept == \A p \in 0 .. size' - 1 :
             items'[p] = NoItem \/ (p \in 0 .. size - 1 /\ SlotKept(items'[p], items[p]))
           StashKept == \A j \in StashIndex : SlotKept(stash'[j], stash[j])
<1>1. ASSUME UNCHANGED items, UNCHANGED size PROVE ItemsKept
  BY <1>1 DEF SlotKept, Live
<1>2. ASSUME UNCHANGED stash PROVE StashKept
  BY <1>2 DEF SlotKept, Live
<1>3. ASSUME NEW k \in Key, Read(k) PROVE NamesKept
  <2>1. UNCHANGED items /\ UNCHANGED size /\ UNCHANGED stash
    BY <1>3 DEF Read, tableVars, stashVars
  <2>2. ItemsKept /\ StashKept
    BY <2>1, <1>1, <1>2
  <2> QED
    BY <1>3, <2>2 DEF Read, NamesKept, walkVars, mergeVars
<1>4. ASSUME NEW k \in Key, Remove(k) PROVE NamesKept
  <2>1. ItemsKept
    <3>1. CASE UNCHANGED items
      BY <3>1, <1>4, <1>1 DEF Remove
    <3>2. CASE \E p \in 0 .. size - 1 : items' = [items EXCEPT ![p] = NoItem]
      <4>1. PICK p \in 0 .. size - 1 : items' = [items EXCEPT ![p] = NoItem]
        BY <3>2
      <4>2. size' = size
        BY <1>4 DEF Remove
      <4>3. \A q \in 0 .. size - 1 : items'[q] = NoItem \/ items'[q] = items[q]
        BY <4>1 DEF TypeOK
      <4> QED
        BY <4>2, <4>3 DEF SlotKept, Live
    <3> QED
      BY <1>4, <3>1, <3>2 DEF Remove
  <2>2. StashKept
    <3>1. CASE UNCHANGED stash
      BY <3>1, <1>2
    <3>2. CASE \E j \in StashIndex : stash' = WithHole(j)
      <4>1. \A l \in StashIndex : stash'[l] = NoItem \/ stash'[l] = stash[l]
        BY <3>2 DEF WithHole, TypeOK
      <4> QED
        BY <4>1 DEF SlotKept, Live
    <3> QED
      BY <1>4, <3>1, <3>2 DEF Remove, stashVars
  <2>3. pc' # "drain" /\ UNCHANGED item /\ UNCHANGED <<index, backup>>
    BY <1>4 DEF Remove, CoucalAssert, walkVars, mergeVars
  <2> QED
    BY <2>1, <2>2, <2>3 DEF NamesKept
<1>5. ASSUME NEW k \in Key, NEW v \in Written, Replace(k, v) PROVE NamesKept
  <2>1. v \in Value /\ size' = size
    BY <1>5, ConstantsAssumption DEF Replace, Value
  <2>2. ItemsKept
    <3>1. CASE UNCHANGED items
      BY <3>1, <2>1, <1>1
    <3>2. CASE \E p \in 0 .. size - 1 :
                 AtTable(k, p) /\ items' = [items EXCEPT ![p] = SetValue(@, v)]
      <4>1. PICK p \in 0 .. size - 1 :
              AtTable(k, p) /\ items' = [items EXCEPT ![p] = SetValue(items[p], v)]
        BY <3>2 DEF TypeOK
      <4>2. SlotKept(SetValue(items[p], v), items[p])
        BY <4>1, <2>1, SetValueKept DEF AtTable, TypeOK
      <4>3. \A q \in 0 .. size - 1 : q # p => SlotKept(items[q], items[q])
        BY DEF SlotKept, Live
      <4> QED
        BY <4>1, <4>2, <4>3, <2>1 DEF TypeOK
    <3> QED
      BY <1>5, <3>1, <3>2 DEF Replace
  <2>3. StashKept
    <3>1. CASE UNCHANGED stash
      BY <3>1, <1>2
    <3>2. CASE \E j \in StashIndex :
                 AtStash(k, j) /\ stash' = [stash EXCEPT ![j] = SetValue(@, v)]
      <4>1. PICK j \in StashIndex :
              AtStash(k, j) /\ stash' = [stash EXCEPT ![j] = SetValue(stash[j], v)]
        BY <3>2 DEF TypeOK
      <4>2. SlotKept(SetValue(stash[j], v), stash[j])
        BY <4>1, <2>1, SetValueKept DEF AtStash, TypeOK
      <4>3. \A l \in StashIndex : l # j => SlotKept(stash[l], stash[l])
        BY DEF SlotKept, Live
      <4> QED
        BY <4>1, <4>2, <4>3 DEF TypeOK
    <3> QED
      BY <1>5, <3>1, <3>2 DEF Replace
  <2> QED
    BY <1>5, <2>2, <2>3 DEF NamesKept, Replace, walkVars, mergeVars
<1>6. ASSUME NEW k \in Key, NEW inc \in Increments, IncExisting(k, inc) PROVE NamesKept
  <2> DEFINE Sum(slot) == (slot.value + inc) % ValueMod
  <2>1. ASSUME NEW slot \in Slot, Matches(slot, k) PROVE Sum(slot) \in Value
    BY <2>1, LiveIsItem, SumIsValue DEF Matches, Live
  <2>2. ItemsKept
    <3>1. CASE UNCHANGED items
      BY <3>1, <1>6, <1>1 DEF IncExisting
    <3>2. CASE \E p \in 0 .. size - 1 :
                 /\ AtTable(k, p)
                 /\ items' = [items EXCEPT ![p] = SetValue(@, Sum(items[p]))]
      <4>1. PICK p \in 0 .. size - 1 :
              /\ AtTable(k, p)
              /\ items' = [items EXCEPT ![p] = SetValue(items[p], Sum(items[p]))]
        BY <3>2 DEF TypeOK
      <4>2. Sum(items[p]) \in Value
        BY <4>1, <2>1 DEF AtTable, TypeOK
      <4> HIDE DEF Sum
      <4>3. SlotKept(SetValue(items[p], Sum(items[p])), items[p])
        BY <4>1, <4>2, SetValueKept DEF AtTable, TypeOK
      <4>4. \A q \in 0 .. size - 1 : q # p => SlotKept(items[q], items[q])
        BY DEF SlotKept, Live
      <4> QED
        BY <4>1, <4>3, <4>4, <1>6 DEF TypeOK, IncExisting
    <3> QED
      BY <1>6, <3>1, <3>2 DEF IncExisting
  <2>3. StashKept
    <3>1. CASE UNCHANGED stash
      BY <3>1, <1>2
    <3>2. CASE \E j \in StashIndex :
                 /\ AtStash(k, j)
                 /\ stash' = [stash EXCEPT ![j] = SetValue(@, Sum(stash[j]))]
      <4>1. PICK j \in StashIndex :
              /\ AtStash(k, j)
              /\ stash' = [stash EXCEPT ![j] = SetValue(stash[j], Sum(stash[j]))]
        BY <3>2 DEF TypeOK
      <4>2. Sum(stash[j]) \in Value
        BY <4>1, <2>1 DEF AtStash, TypeOK
      <4> HIDE DEF Sum
      <4>3. SlotKept(SetValue(stash[j], Sum(stash[j])), stash[j])
        BY <4>1, <4>2, SetValueKept DEF AtStash, TypeOK
      <4>4. \A l \in StashIndex : l # j => SlotKept(stash[l], stash[l])
        BY DEF SlotKept, Live
      <4> QED
        BY <4>1, <4>3, <4>4 DEF TypeOK
    <3> QED
      BY <1>6, <3>1, <3>2 DEF IncExisting
  <2> QED
    BY <1>6, <2>2, <2>3 DEF NamesKept, IncExisting, walkVars, mergeVars
<1>7. ASSUME Delete PROVE NamesKept
  <2>1. ItemsKept
    <3>1. 0 .. size' - 1 = {}
      BY <1>7 DEF Delete
    <3> QED
      BY <3>1
  <2>2. StashKept
    BY <1>7 DEF Delete, EmptyStash, SlotKept
  <2> QED
    BY <1>7, <2>1, <2>2 DEF Delete, NamesKept, walkVars, mergeVars
<1>8. ASSUME NEW n \in NewSizes, NEW h \in Hashers, New(n, h) PROVE NamesKept
  <2>1. ItemsKept
    <3>1. \A p \in 0 .. size' - 1 : items'[p] = NoItem
      BY <1>8 DEF New
    <3> QED
      BY <3>1
  <2>2. StashKept
    BY <1>8, <1>2 DEF New, stashVars
  <2> QED
    BY <1>8, <2>1, <2>2 DEF New, NamesKept, walkVars, mergeVars
<1> QED
  BY <1>3, <1>4, <1>5, <1>6, <1>7, <1>8 DEF NoAdd

(* A call that adds nothing does not put a key in a second place.          *)
LEMMA KeysNoAdd ==
  ASSUME TypeOK, NoKeyTwice, NoAdd
  PROVE  NoKeyTwice'
BY NamesNoAdd, KeysKept

(* Nothing is left to merge, except while the stash is being merged.       *)
LEMMA NothingPending ==
  ASSUME TypeOK, Control, return_to # "merge"
  PROVE  \A j \in StashIndex : ~Live(backup[j])
<1>1. return_to = "count" /\ backup = EmptyStash
  BY DEF TypeOK, Control
<1> QED
  BY <1>1 DEF EmptyStash, Live

(* A key that the lookup does not find is nowhere. *)
LEMMA NotFoundIsNowhere ==
  ASSUME TypeOK, Control, StashInv, CuckooPlaced, pc = "idle", NEW k \in Key, NotFound(k)
  PROVE  /\ \A p \in 0 .. size - 1 : Live(items[p]) => items[p].name # k
         /\ \A j \in StashIndex : Live(stash[j]) => stash[j].name # k
<1>1. ASSUME NEW p \in 0 .. size - 1, Live(items[p]), items[p].name = k
      PROVE  FALSE
  <2>1. p = Pos1(k) \/ p = Pos2(k)
    BY <1>1 DEF CuckooPlaced, WellPositioned, IsFree, Live
  <2> QED
    BY <1>1, <2>1 DEF NotFound, NotInTable, Matches, Live
<1>2. ASSUME NEW j \in StashIndex, Live(stash[j]), stash[j].name = k
      PROVE  FALSE
  <2>1. stash_size # 0
    BY <1>2, NothingStashed DEF StashInv, Live
  <2>2. j \in 0 .. stash_extent - 1
    BY <1>2, ConstantsAssumption DEF StashInv, StashCounted, Live, StashIndex, TypeOK
  <2> QED
    BY <1>2, <2>1, <2>2 DEF NotFound, StashScanned, Matches, Live
<1> QED
  BY <1>1, <1>2

(* An add starts with a key that is nowhere.                               *)
LEMMA KeysStartAdd ==
  ASSUME TypeOK, Control, StashInv, CuckooPlaced, NoKeyTwice,
         NEW k \in Key, NEW v \in Value, NEW r \in Int, StartAdd(k, v, r)
  PROVE  NoKeyTwice'
<1>1. /\ \A p \in 0 .. size - 1 : Live(items[p]) => items[p].name # k
      /\ \A j \in StashIndex : Live(stash[j]) => stash[j].name # k
  BY NotFoundIsNowhere DEF StartAdd
<1>2. \A j \in StashIndex : ~Live(backup[j])
  BY NothingPending DEF Control, InAddItem, StartAdd
<1>3. \A j \in StashIndex : ~Pending(j)'
  BY <1>2 DEF Pending, Live, StartAdd, mergeVars
<1>4. ItemOf(k, v).name = k
  BY DEF ItemOf
<1>5. item = NoItem
  BY DEF StartAdd, Control, InAddItem
<1>6. /\ UNCHANGED <<size, items, stash>>
      /\ \/ item' = NoItem /\ adding' = ItemOf(k, v)
         \/ pc' = "place" /\ item' = ItemOf(k, v)
  BY <1>5 DEF StartAdd, tableVars, stashVars
<1> QED
  BY <1>1, <1>3, <1>4, <1>6 DEF NoKeyTwice, Distinct, Live

(* The item of a drain goes from the stash to the table.                   *)
LEMMA KeysDrainStep ==
  ASSUME TypeOK, Control, NoKeyTwice, DrainStep
  PROVE  NoKeyTwice'
<1>1. \A j \in StashIndex : ~Live(backup[j])
  BY NothingPending DEF Control, InAddItem, DrainStep
<1>2. \A j \in StashIndex : ~Pending(j)'
  BY <1>1 DEF Pending, Live, DrainStep, mergeVars
<1>3. UNCHANGED <<size, item, adding, pc>>
  BY DEF DrainStep, walkVars, callVars
<1>4. CASE UNCHANGED <<items, stash, stash_size>>
  BY <1>2, <1>3, <1>4 DEF NoKeyTwice, Distinct, Live
<1>5. CASE Live(stash[index]) /\ \E p \in 0 .. size - 1 : IsFree(p) /\ Home(p)
  <2>1. index \in StashIndex
    BY DrainHome
  <2>2. PICK p \in 0 .. size - 1 :
          /\ items' = [items EXCEPT ![p] = stash[index]]
          /\ stash' = [stash EXCEPT ![index] = NoItem]
    BY <1>5 DEF Home
  <2>3. \A q \in 0 .. size - 1 : items'[q] = IF q = p THEN stash[index] ELSE items[q]
    BY <2>2 DEF TypeOK
  <2>4. \A j \in StashIndex : stash'[j] = IF j = index THEN NoItem ELSE stash[j]
    BY <2>2 DEF TypeOK
  <2> QED
    BY <1>2, <1>3, <2>1, <2>3, <2>4 DEF NoKeyTwice, Distinct, Live
<1> QED
  BY <1>4, <1>5, DrainHome

(* The item to add is taken in hand after the drain.                       *)
LEMMA KeysDrainDone ==
  ASSUME TypeOK, Control, NoKeyTwice, DrainDone
  PROVE  NoKeyTwice'
<1>1. \A j \in StashIndex : ~Live(backup[j])
  BY NothingPending DEF Control, InAddItem, DrainDone
<1>2. \A j \in StashIndex : ~Pending(j)'
  BY <1>1 DEF Pending, Live, DrainDone, mergeVars
<1>3. UNCHANGED <<size, items, stash>> /\ item' = adding /\ pc = "drain" /\ pc' = "place"
  BY DEF DrainDone, tableVars
<1> QED
  BY <1>2, <1>3 DEF NoKeyTwice, Distinct, Live

(* The item in hand goes to the table, in the place of no other or of one  *)
(* that becomes the item in hand.                                          *)
LEMMA KeysSwapped ==
  ASSUME TypeOK, NoKeyTwice, NEW p \in 0 .. size - 1,
         items' = [items EXCEPT ![p] = item], item' = items[p],
         UNCHANGED <<size, stash, index, backup>>, pc' # "drain"
  PROVE  NoKeyTwice'
<1>1. \A j \in StashIndex : Pending(j)' <=> Pending(j)
  BY DEF Pending, Live
<1>2. \A q \in 0 .. size - 1 : items'[q] = IF q = p THEN item ELSE items[q]
  BY DEF TypeOK
<1> QED
  BY <1>1, <1>2 DEF NoKeyTwice, Distinct, Live

(* Placements and kicks do not put a key in a second place.                *)
LEMMA KeysPlaced ==
  ASSUME TypeOK, Control, CuckooPlaced, NoKeyTwice, PlaceFree \/ WalkFree \/ WalkKick
  PROVE  NoKeyTwice'
<1>1. ASSUME PlaceFree PROVE NoKeyTwice'
  <2>1. item.name \in Key /\ size \in TableSizes
    BY <1>1, LiveIsItem DEF PlaceFree, Control, InAddItem, TypeOK
  <2>2. PICK p \in 0 .. size - 1 : IsFree(p) /\ PutItem(p)
    BY <1>1, <2>1, PositionsInRange DEF PlaceFree
  <2> QED
    BY <1>1, <2>2, KeysSwapped DEF PlaceFree, PutItem, IsFree, TypeOK, stashVars, mergeVars
<1>2. ASSUME WalkFree PROVE NoKeyTwice'
  <2>1. PICK p \in 0 .. size - 1 : IsFree(p) /\ PutItem(p)
    BY <1>2, WalkPosition DEF WalkFree
  <2> QED
    BY <1>2, <2>1, KeysSwapped DEF WalkFree, PutItem, IsFree, TypeOK, stashVars, mergeVars
<1>3. ASSUME WalkKick PROVE NoKeyTwice'
  <2>1. PICK p \in 0 .. size - 1 :
          /\ items' = [items EXCEPT ![p] = item]
          /\ item' = items[p]
          /\ pc' \in {"walk", "stash"}
    BY <1>3, WalkKicks
  <2> QED
    BY <1>3, <2>1, KeysSwapped DEF WalkKick, stashVars, mergeVars
<1> QED
  BY <1>1, <1>2, <1>3

(* An emergency stashing moves the item in hand to a free slot.            *)
LEMMA KeysStashItem ==
  ASSUME TypeOK, StashInv, NoKeyTwice, StashItem
  PROVE  NoKeyTwice'
<1>1. PICK n \in StashIndex : stash[n] = NoItem /\ stash' = [stash EXCEPT ![n] = item]
  BY StashItemSlot DEF StashInv
<1>2. UNCHANGED <<size, items, index, backup>> /\ item' = NoItem /\ pc' # "drain"
  BY DEF StashItem, TypeOK, tableVars, mergeVars
<1>3. \A j \in StashIndex : Pending(j)' <=> Pending(j)
  BY <1>2 DEF Pending, Live
<1>4. \A j \in StashIndex : stash'[j] = IF j = n THEN item ELSE stash[j]
  BY <1>1 DEF TypeOK
<1> QED
  BY <1>2, <1>3, <1>4 DEF NoKeyTwice, Distinct, Live

(* An item of the old table is at one place of the doubled one.            *)
LEMMA DoubledDistinct ==
  ASSUME TypeOK, size \in TableSizes, NoKeyTwice
  PROVE  /\ \A q \in 0 .. 2 * size - 1 : Live(Doubled[q]) =>
              \E p \in 0 .. size - 1 : Live(items[p]) /\ Doubled[q] = items[p]
         /\ \A q, r \in 0 .. 2 * size - 1 : q # r => Distinct(Doubled[q], Doubled[r])
<1>1. ASSUME NEW q \in 0 .. 2 * size - 1, Live(Doubled[q])
      PROVE  \E p \in 0 .. size - 1 :
               /\ Live(items[p]) /\ Doubled[q] = items[p]
               /\ q = IF MovesUp(p) THEN p + size ELSE p
  BY <1>1, DoubledTable DEF Live
<1>2. ASSUME NEW q \in 0 .. 2 * size - 1, NEW r \in 0 .. 2 * size - 1, q # r,
             Live(Doubled[q]), Live(Doubled[r])
      PROVE  Doubled[q].name # Doubled[r].name
  <2>1. PICK p \in 0 .. size - 1 :
          /\ Live(items[p]) /\ Doubled[q] = items[p]
          /\ q = IF MovesUp(p) THEN p + size ELSE p
    BY <1>1, <1>2
  <2>2. PICK o \in 0 .. size - 1 :
          /\ Live(items[o]) /\ Doubled[r] = items[o]
          /\ r = IF MovesUp(o) THEN o + size ELSE o
    BY <1>1, <1>2
  <2>3. p # o
    BY <1>2, <2>1, <2>2
  <2> QED
    BY <2>1, <2>2, <2>3 DEF NoKeyTwice, Distinct, Live
<1> QED
  BY <1>1, <1>2 DEF Distinct

(* The doubling moves items; the stash becomes what is to be merged.       *)
LEMMA KeysGrow ==
  ASSUME TypeOK, Control, NoKeyTwice, Grow
  PROVE  NoKeyTwice'
<1>1. size \in TableSizes /\ item = NoItem /\ return_to # "merge" /\ index = 0
  BY DEF Grow, Control, InAddItem, TypeOK
<1>2. \A j \in StashIndex : ~Live(backup[j])
  BY <1>1, NothingPending
<1>3. size' = 2 * size /\ items' = Doubled /\ item' = NoItem /\ index' = 0 /\ pc' # "drain"
  BY <1>1 DEF Grow, CoucalAssert
<1>4. \A q \in 0 .. size' - 1 : Live(items'[q]) =>
        \E p \in 0 .. size - 1 : Live(items[p]) /\ items'[q] = items[p]
  BY <1>1, <1>3, DoubledDistinct
<1>5. \A q, r \in 0 .. size' - 1 : q # r => Distinct(items'[q], items'[r])
  BY <1>1, <1>3, DoubledDistinct
<1>6. CASE UNCHANGED <<stash, backup>>
  <2>1. \A j \in StashIndex : ~Pending(j)'
    BY <1>2, <1>6 DEF Pending, Live
  <2> QED
    BY <1>3, <1>4, <1>5, <1>6, <2>1 DEF NoKeyTwice, Distinct, Live
<1>7. CASE backup' = stash /\ stash' = EmptyStash
  <2>1. \A j \in StashIndex : stash'[j] = NoItem
    BY <1>7 DEF EmptyStash
  <2> QED
    BY <1>3, <1>4, <1>5, <1>7, <2>1 DEF NoKeyTwice, Distinct, Live
<1> QED
  BY <1>6, <1>7 DEF Grow, ResetStash, mergeVars, stashVars

(* The next item of the backup is taken in hand: it is pending no more.    *)
LEMMA KeysMergeStep ==
  ASSUME TypeOK, Control, NoKeyTwice, MergeStep
  PROVE  NoKeyTwice'
<1>1. index \in StashIndex /\ index \in Nat
  BY ConstantsAssumption DEF TypeOK, MergeStep, MergeEnd, StashIndex
<1>2. UNCHANGED <<size, items, stash, backup>> /\ index' = index + 1 /\ pc' # "drain"
  BY DEF MergeStep, tableVars, stashVars, mergeVars
<1>3. \A j \in StashIndex : Pending(j)' => Pending(j) /\ j # index
  BY <1>1, <1>2 DEF Pending, Live, StashIndex
<1>4. CASE Live(backup[index]) /\ item' = backup[index]
  <2>1. Pending(index)
    BY <1>1, <1>4 DEF Pending
  <2> QED
    BY <1>1, <1>2, <1>3, <1>4, <2>1 DEF NoKeyTwice, Distinct, Live
<1>5. CASE item' = item
  BY <1>2, <1>3, <1>5 DEF NoKeyTwice, Distinct, Live
<1> QED
  BY <1>4, <1>5 DEF MergeStep, Live

(* Nothing is pending when the merge ends.                                 *)
LEMMA KeysMergeDone ==
  ASSUME NoKeyTwice, MergeDone
  PROVE  NoKeyTwice'
<1>1. UNCHANGED <<size, items, stash, item>> /\ pc' # "drain"
  BY DEF MergeDone, CoucalAssert, tableVars, stashVars
<1>2. \A j \in StashIndex : ~Pending(j)'
  BY DEF MergeDone, EmptyStash, Pending, Live
<1> QED
  BY <1>1, <1>2 DEF NoKeyTwice, Distinct, Live

(* No step of an add puts a key in a second place.                         *)
LEMMA KeysAddStep ==
  ASSUME TypeOK, Control, StashInv, CuckooPlaced, NoKeyTwice, AddStep
  PROVE  NoKeyTwice'
<1>1. CASE PlaceTaken \/ StashFull \/ Count \/ GrowRefused \/ GrowNoMemory \/ Return
  <2>1. UNCHANGED <<size, items, stash, item, index, backup>> /\ pc' # "drain"
    BY <1>1 DEF PlaceTaken, StashFull, Count, GrowRefused, GrowNoMemory, Return, Abort,
                tableVars, stashVars, walkVars, mergeVars
  <2>2. NamesKept
    BY <2>1 DEF NamesKept, SlotKept, Live
  <2> QED
    BY <2>2, KeysKept
<1> QED
  BY <1>1, KeysDrainStep, KeysDrainDone, KeysPlaced, KeysStashItem, KeysGrow,
     KeysMergeStep, KeysMergeDone DEF AddStep

(***************************************************************************)
(* The invariant is inductive.                                             *)
(***************************************************************************)
LEMMA InvInit ==
  Init => Inv
BY TypeInit, ControlInit, StashInit, PlacedInit, KeysInit, RoomInit DEF Inv, StashInv

(* A call that adds nothing preserves the invariant.                       *)
LEMMA InvNoAdd ==
  ASSUME Inv, NoAdd
  PROVE  Inv'
<1>1. TypeOK'
  BY TypeRead, TypeRemove, TypeReplace, TypeIncExisting, TypeDelete, TypeNew DEF Inv, NoAdd
<1>2. Control' /\ StashInv' /\ CuckooPlaced' /\ NoKeyTwice'
  BY ControlNoAdd, StashNoAdd, PlacedNoAdd, KeysNoAdd DEF Inv, StashInv
<1>3. Next
  BY DEF Next, Call, NoAdd
<1>4. RoomLeft'
  BY <1>3, RoomStep DEF Inv
<1> QED
  BY <1>1, <1>2, <1>4 DEF Inv, StashInv

(* The beginning of an add preserves the invariant.                        *)
LEMMA InvStartAdd ==
  ASSUME Inv, NEW k \in Key, NEW v \in Value, NEW r \in Int, StartAdd(k, v, r), Next
  PROVE  Inv'
<1>1. TypeOK' /\ Control' /\ StashInv' /\ NoKeyTwice'
  BY TypeStartAdd, ControlStartAdd, StashStartAdd, KeysStartAdd DEF Inv, StashInv
<1>2. CuckooPlaced'
  BY PlacedUnchanged DEF StartAdd, Inv
<1>3. RoomLeft'
  BY RoomStep DEF Inv
<1> QED
  BY <1>1, <1>2, <1>3 DEF Inv, StashInv

(* Every step of an add preserves the invariant.                           *)
LEMMA InvAddStep ==
  ASSUME Inv, AddStep
  PROVE  Inv'
<1>1. TypeOK'
  BY TypeDrainStep, TypeDrainDone, TypePlaceFree, TypePlaceTaken, TypeWalkFree,
     TypeWalkKick, TypeStashItem, TypeAbort, TypeCount, TypeGrow, TypeMergeStep,
     TypeMergeDone, TypeReturn DEF Inv, AddStep
<1>2. Control' /\ StashInv' /\ CuckooPlaced' /\ NoKeyTwice'
  BY ControlAddStep, StashAddStep, PlacedAddStep, KeysAddStep DEF Inv, StashInv
<1>3. RoomLeft'
  BY RoomStep DEF Inv, Next
<1> QED
  BY <1>1, <1>2, <1>3 DEF Inv, StashInv

(* So does stuttering.                                                     *)
LEMMA InvUnchanged ==
  ASSUME Inv, UNCHANGED vars
  PROVE  Inv'
<1>1. Control' /\ TypeOK' /\ RoomLeft'
  BY DEF Inv, Control, InAddItem, TypeOK, RoomLeft, Live, Failures, vars
<1>2. StashInv' /\ CuckooPlaced'
  BY StashUnchanged, PlacedUnchanged DEF Inv, StashInv, vars, stashVars, tableVars
<1>3. NamesKept
  BY DEF NamesKept, SlotKept, Live, vars
<1> QED
  BY <1>1, <1>2, <1>3, KeysKept DEF Inv, StashInv

(* So does every step of the specification.                                *)
LEMMA InvStep ==
  ASSUME Inv, [Next]_vars
  PROVE  Inv'
<1>1. CASE AddStep
  BY <1>1, InvAddStep
<1>2. ASSUME NEW k \in Key, NEW v \in Written, WriteNew(k, v) PROVE Inv'
  <2>1. v \in Value /\ 1 \in Int /\ StartAdd(k, v, 1)
    BY <1>2, ConstantsAssumption DEF WriteNew, Value
  <2>2. Next
    BY <1>2 DEF Next, Call
  <2> QED
    BY <2>1, <2>2, InvStartAdd
<1>3. ASSUME NEW k \in Key, NEW inc \in Increments, IncNew(k, inc) PROVE Inv'
  <2>1. inc \in Value
    BY ConstantsAssumption DEF Value
  <2>2. AsInt(inc) \in Int /\ StartAdd(k, inc, AsInt(inc))
    BY <1>3, <2>1, AsIntIsInt DEF IncNew
  <2>3. Next
    BY <1>3 DEF Next, Call
  <2> QED
    BY <2>1, <2>2, <2>3, InvStartAdd
<1>4. CASE NoAdd
  BY <1>4, InvNoAdd
<1>5. CASE UNCHANGED vars
  BY <1>5, InvUnchanged
<1> QED
  BY <1>1, <1>2, <1>3, <1>4, <1>5 DEF Next, Call, Halted, NoAdd

(* Inv holds in every state of every behaviour: for every size of the      *)
(* stash and of the table, every set of keys and every hash handler.       *)
THEOREM Invariance == Spec => []Inv
<1>1. Inv /\ [Next]_vars => Inv'
  BY InvStep
<1> QED
  BY <1>1, InvInit, PTL DEF Spec

(* The struct and the locals always have their types: the stash extent     *)
(* never passes STASH_SIZE, and no loop reads outside its array.           *)
THEOREM TypeCorrect == Spec => []TypeOK
<1>1. Inv => TypeOK
  BY DEF Inv
<1> QED
  BY <1>1, Invariance, PTL

(* Items are always at a position of their own name: a lookup that reads   *)
(* two slots and the stash misses nothing, after any kicks and doublings.  *)
THEOREM CuckooPlacedAlways == Spec => []CuckooPlaced
<1>1. Inv => CuckooPlaced
  BY DEF Inv
<1> QED
  BY <1>1, Invariance, PTL

(* "The item SHALL NOT be already present": coucal_add_item_() is never    *)
(* called for a key that is stored, whatever the drains, walks and merges. *)
THEOREM NoKeyTwiceAlways == Spec => []NoKeyTwice
<1>1. Inv => NoKeyTwice
  BY DEF Inv
<1> QED
  BY <1>1, Invariance, PTL

(* The size and the extent of the stash describe its slots after every     *)
(* stashing, removal, drain and reset, holes included.                     *)
THEOREM StashAccountingAlways == Spec => []StashAccounting
<1>1. Inv => StashAccounting
  BY DEF Inv, StashCounted, ExtentTrimmed, StashAccounting, LiveStash
<1> QED
  BY <1>1, Invariance, PTL

(* Between two calls less than half of the table is used: the doubling of  *)
(* coucal_write_value() is never late.                                     *)
THEOREM LessThanHalfFullAlways == Spec => []LessThanHalfFull
<1>1. Inv => LessThanHalfFull
  BY DEF Inv, RoomLeft, LessThanHalfFull
<1> QED
  BY <1>1, Invariance, PTL

(* Whatever is removed, replaced, incremented or read, the entries that    *)
(* stay keep their slots: removals leave holes, nothing is compacted.      *)
THEOREM StaysPutAlways == Spec => StaysPut
<1>1. ASSUME Inv, [Next]_vars, pc = "idle", pc' = "idle"
      PROVE  /\ \A p \in 0 .. size - 1 :
                  Live(items[p]) => items'[p] = NoItem \/ items'[p].name = items[p].name
             /\ \A j \in StashIndex :
                  Live(stash[j]) => stash'[j] = NoItem \/ stash'[j].name = stash[j].name
  <2>1. CASE UNCHANGED vars
    BY <2>1 DEF vars
  <2>2. CASE NoAdd
    <3>1. size' = size
      BY <1>1, <2>2 DEF NoAdd, Read, Remove, Replace, IncExisting, Delete, New, tableVars
    <3>2. NamesKept
      BY <1>1, <2>2, NamesNoAdd DEF Inv
    <3> QED
      BY <3>1, <3>2 DEF NamesKept, SlotKept
  <2>3. ~AddStep
    BY <1>1 DEF AddStep, DrainStep, DrainDone, PlaceFree, PlaceTaken, WalkFree, WalkKick,
       StashItem, StashFull, Count, Grow, GrowRefused, GrowNoMemory, MergeStep, MergeDone,
       Return
  <2>4. ASSUME NEW k \in Key, NEW v, NEW r PROVE ~StartAdd(k, v, r)
    BY <1>1 DEF StartAdd
  <2> QED
    BY <1>1, <2>1, <2>2, <2>3, <2>4 DEF Next, Call, NoAdd, WriteNew, IncNew, Halted
<1>2. Inv /\ [Next]_vars =>
        [pc = "idle" /\ pc' = "idle" =>
           /\ \A p \in 0 .. size - 1 :
                Live(items[p]) => items'[p] = NoItem \/ items'[p].name = items[p].name
           /\ \A j \in StashIndex :
                Live(stash[j]) => stash'[j] = NoItem \/ stash'[j].name = stash[j].name]_vars
  BY <1>1
<1> QED
  BY <1>2, Invariance, PTL DEF Spec, StaysPut

(***************************************************************************)
(* The steps of a write are bounded.                                       *)
(***************************************************************************)
Grown == StashSize * (2 * size + 3) + 3
Merged == (old_extent - index) * (size + 3) + 2
After == IF return_to = "merge" THEN Merged ELSE Grown + 1

(* The bound, place by place.                                              *)
LEMMA StepsLeftAt ==
  /\ pc = "drain" => StepsLeft = (stash_extent - index) + 1 + (size + 2) + After
  /\ pc = "place" => StepsLeft = size + 2 + After
  /\ pc = "walk" => StepsLeft = loops + 1 + After
  /\ pc = "stash" => StepsLeft = 1 + After
  /\ pc = "count" => StepsLeft = Grown + 1
  /\ pc = "grow" => StepsLeft = Grown
  /\ pc = "merge" => StepsLeft = Merged
  /\ pc = "return" => StepsLeft = 1
  /\ pc \in {"null", "idle", "aborted"} => StepsLeft = 0
BY DEF StepsLeft, Grown, Merged, After

LEMMA StepsLeftAtNext ==
  /\ pc' = "drain" => StepsLeft' = (stash_extent' - index') + 1 + (size' + 2) + After'
  /\ pc' = "place" => StepsLeft' = size' + 2 + After'
  /\ pc' = "walk" => StepsLeft' = loops' + 1 + After'
  /\ pc' = "stash" => StepsLeft' = 1 + After'
  /\ pc' = "count" => StepsLeft' = Grown' + 1
  /\ pc' = "grow" => StepsLeft' = Grown'
  /\ pc' = "merge" => StepsLeft' = Merged'
  /\ pc' = "return" => StepsLeft' = 1
  /\ pc' \in {"null", "idle", "aborted"} => StepsLeft' = 0
BY DEF StepsLeft, Grown, Merged, After

(* A product with one factor less.                                         *)
LEMMA OneLess ==
  ASSUME NEW m \in Int, NEW s \in Int
  PROVE  m * s = (m - 1) * s + s
OBVIOUS

LEMMA ProductGrows ==
  ASSUME NEW m \in Nat, NEW n \in Nat, m <= n, NEW s \in Nat
  PROVE  m * s \in Nat /\ n * s \in Nat /\ m * s <= n * s
OBVIOUS

(* In an add, what is left after the item has found its place is positive. *)
LEMMA LeftAfter ==
  ASSUME Inv, pc \notin {"null", "idle", "aborted"}
  PROVE  /\ size \in Nat /\ Grown \in Nat /\ Grown >= 3
         /\ return_to = "merge" => Merged \in Nat /\ Merged >= 2
         /\ After \in Nat /\ After >= 2
<1>1. size \in Nat /\ StashSize \in Nat /\ old_extent \in Nat /\ index \in Nat
  BY ConstantsAssumption DEF Inv, TypeOK, Control
<1>2. StashSize * (2 * size + 3) \in Nat
  BY <1>1, ProductGrows
<1>3. ASSUME return_to = "merge" PROVE Merged \in Nat /\ Merged >= 2
  <2>1. index <= old_extent
    BY <1>3 DEF Inv, Control
  <2>2. old_extent - index \in Nat /\ size + 3 \in Nat
    BY <1>1, <2>1
  <2>3. (old_extent - index) * (size + 3) \in Nat
    BY <2>2, ProductGrows
  <2> QED
    BY <2>3 DEF Merged
<1>4. Grown \in Nat /\ Grown >= 3
  BY <1>2 DEF Grown
<1> QED
  BY <1>1, <1>3, <1>4 DEF After

LEMMA StepAdvances ==
  ASSUME Inv, AddStep
  PROVE  StepsLeft' \in 0 .. StepsLeft - 1
<1>1. pc \notin {"null", "idle", "aborted"}
  BY DEF AddStep, DrainStep, DrainDone, PlaceFree, PlaceTaken, WalkFree, WalkKick,
     StashItem, StashFull, Count, Grow, GrowRefused, GrowNoMemory, MergeStep, MergeDone,
     Return
<1>2. /\ size \in Nat /\ Grown \in Nat /\ Grown >= 3
      /\ return_to = "merge" => Merged \in Nat /\ Merged >= 2
      /\ After \in Nat /\ After >= 2
  BY <1>1, LeftAfter
<1>3. /\ index \in Nat /\ stash_extent \in Nat /\ old_extent \in Nat /\ loops \in Nat
      /\ return_to \in {"count", "merge"}
  BY DEF Inv, TypeOK
<1>4. ASSUME UNCHANGED <<size, return_to, index, old_extent>>
      PROVE  Grown' = Grown /\ Merged' = Merged /\ After' = After
  BY <1>4 DEF Grown, Merged, After
<1>5. ASSUME pc' = return_to, UNCHANGED <<size, return_to, index, old_extent>>
      PROVE  StepsLeft' = After
  BY <1>3, <1>4, <1>5, StepsLeftAtNext DEF After
<1>6. ASSUME pc' = "aborted", StepsLeft \in Nat, StepsLeft >= 1
      PROVE  StepsLeft' \in 0 .. StepsLeft - 1
  BY <1>6, StepsLeftAtNext
<1>7. CASE DrainStep
  <2>1. /\ pc = "drain" /\ pc' = "drain" /\ index < stash_extent /\ index' = index + 1
        /\ UNCHANGED <<size, return_to, old_extent, stash_extent>>
    BY <1>7 DEF DrainStep, walkVars, mergeVars
  <2>2. return_to = "count"
    BY <1>3, <2>1 DEF Inv, Control, InAddItem
  <2>3. After' = After
    BY <2>1, <2>2 DEF After, Grown
  <2>4. StepsLeft = (stash_extent - index) + 1 + (size + 2) + After
    BY <2>1, StepsLeftAt
  <2>5. StepsLeft' = (stash_extent - (index + 1)) + 1 + (size + 2) + After
    BY <2>1, <2>3, StepsLeftAtNext
  <2> QED
    BY <1>2, <1>3, <2>1, <2>4, <2>5
<1>8. CASE DrainDone
  <2>1. /\ pc = "drain" /\ pc' = "place" /\ index = stash_extent
        /\ UNCHANGED <<size, return_to>>
    BY <1>8 DEF DrainDone, tableVars
  <2>2. return_to = "count"
    BY <1>3, <2>1 DEF Inv, Control, InAddItem
  <2>3. After' = After
    BY <2>1, <2>2 DEF After, Grown
  <2>4. StepsLeft = (stash_extent - index) + 1 + (size + 2) + After
    BY <2>1, StepsLeftAt
  <2>5. StepsLeft' = size + 2 + After
    BY <2>1, <2>3, StepsLeftAtNext
  <2> QED
    BY <1>2, <1>3, <2>1, <2>4, <2>5
<1>9. CASE PlaceFree
  <2>1. pc = "place" /\ pc' = return_to /\ UNCHANGED <<size, return_to, index, old_extent>>
    BY <1>9 DEF PlaceFree, PutItem, mergeVars
  <2>2. StepsLeft = size + 2 + After /\ StepsLeft' = After
    BY <1>5, <2>1, StepsLeftAt
  <2> QED
    BY <1>2, <2>2
<1>10. CASE PlaceTaken
  <2>1. /\ pc = "place" /\ pc' = "walk" /\ loops' = size
        /\ UNCHANGED <<size, return_to, index, old_extent>>
    BY <1>10 DEF PlaceTaken, tableVars, mergeVars
  <2>2. StepsLeft = size + 2 + After /\ StepsLeft' = size + 1 + After
    BY <1>4, <2>1, StepsLeftAt, StepsLeftAtNext
  <2> QED
    BY <1>2, <2>2
<1>11. CASE WalkFree
  <2>1. pc = "walk" /\ pc' = return_to /\ UNCHANGED <<size, return_to, index, old_extent>>
    BY <1>11 DEF WalkFree, PutItem, mergeVars
  <2>2. StepsLeft = loops + 1 + After /\ StepsLeft' = After
    BY <1>5, <2>1, StepsLeftAt
  <2> QED
    BY <1>2, <1>3, <2>2
<1>12. CASE WalkKick
  <2>1. pc = "walk" /\ UNCHANGED <<size, return_to, index, old_extent>>
    BY <1>12 DEF WalkKick, mergeVars
  <2>2. loops >= 1
    BY <2>1 DEF Inv, Control
  <2>3. StepsLeft = loops + 1 + After
    BY <2>1, StepsLeftAt
  <2>4. pc' = "aborted" \/ pc' = "stash" \/ (pc' = "walk" /\ loops' = loops - 1)
    BY <1>12 DEF WalkKick, CoucalAssert, Tick
  <2>5. CASE pc' = "aborted"
    BY <1>2, <1>3, <1>6, <2>3, <2>5
  <2>6. CASE pc' = "stash"
    <3>1. StepsLeft' = 1 + After
      BY <1>4, <2>1, <2>6, StepsLeftAtNext
    <3> QED
      BY <1>2, <1>3, <2>2, <2>3, <3>1
  <2>7. CASE pc' = "walk" /\ loops' = loops - 1
    <3>1. StepsLeft' = (loops - 1) + 1 + After
      BY <1>4, <2>1, <2>7, StepsLeftAtNext
    <3> QED
      BY <1>2, <1>3, <2>2, <2>3, <3>1
  <2> QED
    BY <2>4, <2>5, <2>6, <2>7
<1>13. CASE StashItem
  <2>1. pc = "stash" /\ pc' = return_to /\ UNCHANGED <<size, return_to, index, old_extent>>
    BY <1>13 DEF StashItem, tableVars, mergeVars
  <2>2. StepsLeft = 1 + After /\ StepsLeft' = After
    BY <1>5, <2>1, StepsLeftAt
  <2> QED
    BY <1>2, <2>2
<1>14. CASE StashFull
  <2>1. pc = "stash" /\ pc' = "aborted"
    BY <1>14 DEF StashFull, Abort
  <2>2. StepsLeft = 1 + After
    BY <2>1, StepsLeftAt
  <2> QED
    BY <1>2, <1>6, <2>1, <2>2
<1>15. CASE Count
  <2>1. /\ pc = "count" /\ pc' \in {"grow", "return"}
        /\ UNCHANGED <<size, return_to, index, old_extent>>
    BY <1>15 DEF Count, tableVars, walkVars, mergeVars
  <2>2. StepsLeft = Grown + 1
    BY <2>1, StepsLeftAt
  <2>3. StepsLeft' = Grown \/ StepsLeft' = 1
    BY <1>4, <2>1, StepsLeftAtNext
  <2> QED
    BY <1>2, <2>2, <2>3
<1>16. CASE Grow
  <2>1. /\ pc = "grow" /\ size' = 2 * size /\ index' = index
        /\ pc' \in {"aborted", "merge", "return"}
        /\ pc' = "merge" => old_extent' = stash_extent
    BY <1>16 DEF Grow, CoucalAssert
  <2>2. StepsLeft = Grown
    BY <2>1, StepsLeftAt
  <2>3. CASE pc' = "aborted"
    BY <1>2, <1>6, <2>2, <2>3
  <2>4. CASE pc' = "return"
    <3>1. StepsLeft' = 1
      BY <2>4, StepsLeftAtNext
    <3> QED
      BY <1>2, <2>2, <3>1
  <2>5. CASE pc' = "merge"
    <3>1. index = 0
      BY <1>3, <2>1 DEF Inv, Control, InAddItem
    <3>2. StepsLeft' = (stash_extent - 0) * (2 * size + 3) + 2
      BY <2>1, <2>5, <3>1, StepsLeftAtNext DEF Merged
    <3>3. stash_extent - 0 = stash_extent
      BY <1>3
    <3>4. stash_extent <= StashSize /\ StashSize \in Nat /\ 2 * size + 3 \in Nat
      BY <1>2, ConstantsAssumption DEF Inv, TypeOK
    <3>5. /\ stash_extent * (2 * size + 3) \in Nat
          /\ StashSize * (2 * size + 3) \in Nat
          /\ stash_extent * (2 * size + 3) <= StashSize * (2 * size + 3)
      BY <1>3, <3>4, ProductGrows
    <3>6. StepsLeft = StashSize * (2 * size + 3) + 3
      BY <2>2 DEF Grown
    <3>7. StepsLeft' = stash_extent * (2 * size + 3) + 2
      BY <3>2, <3>3
    <3> QED
      BY <3>5, <3>6, <3>7
  <2> QED
    BY <2>1, <2>3, <2>4, <2>5
<1>17. CASE GrowRefused \/ GrowNoMemory
  <2>1. pc = "grow" /\ pc' = "aborted"
    BY <1>17 DEF GrowRefused, GrowNoMemory, Abort
  <2>2. StepsLeft = Grown
    BY <2>1, StepsLeftAt
  <2> QED
    BY <1>2, <1>6, <2>1, <2>2
<1>18. CASE MergeStep
  <2>1. /\ pc = "merge" /\ pc' \in {"merge", "place"} /\ index < old_extent
        /\ index' = index + 1 /\ UNCHANGED <<size, return_to, old_extent>>
    BY <1>18 DEF MergeStep, MergeEnd, tableVars, mergeVars
  <2>2. return_to = "merge"
    BY <2>1 DEF Inv, Control
  <2> DEFINE m == old_extent - index
  <2>3. Merged = m * (size + 3) + 2 /\ m \in Int /\ m - 1 \in Nat /\ m - 1 = old_extent - (index + 1)
    BY <1>3, <2>1 DEF Merged
  <2>4. Merged' = (m - 1) * (size + 3) + 2
    BY <2>1, <2>3 DEF Merged
  <2>5. m * (size + 3) = (m - 1) * (size + 3) + (size + 3)
    BY <1>2, <2>3, OneLess
  <2>6. (m - 1) * (size + 3) \in Nat
    BY <1>2, <2>3, ProductGrows
  <2>7. StepsLeft = Merged
    BY <2>1, StepsLeftAt
  <2>8. StepsLeft' = Merged' \/ StepsLeft' = size + 2 + Merged'
    BY <2>1, <2>2, StepsLeftAtNext DEF After
  <2> HIDE DEF m
  <2> QED
    BY <1>2, <2>3, <2>4, <2>5, <2>6, <2>7, <2>8
<1>19. CASE MergeDone
  <2>1. pc = "merge" /\ pc' \in {"return", "aborted"}
    BY <1>19 DEF MergeDone, CoucalAssert
  <2>2. return_to = "merge"
    BY <2>1 DEF Inv, Control
  <2>3. StepsLeft = Merged
    BY <2>1, StepsLeftAt
  <2>4. StepsLeft' = 1 \/ StepsLeft' = 0
    BY <2>1, StepsLeftAtNext
  <2> QED
    BY <1>2, <2>2, <2>3, <2>4
<1>20. CASE Return
  <2>1. pc = "return" /\ pc' = "idle"
    BY <1>20 DEF Return
  <2> QED
    BY <2>1, StepsLeftAt, StepsLeftAtNext
<1> QED
  BY <1>7, <1>8, <1>9, <1>10, <1>11, <1>12, <1>13, <1>14, <1>15, <1>16, <1>17, <1>18,
     <1>19, <1>20 DEF AddStep

(* Every step of a write brings its end nearer: whatever the hashes, no    *)
(* kick, drain, stashing, doubling or merge goes round in circles.         *)
THEOREM AddsAdvanceAlways == Spec => AddsAdvance
<1>1. Inv /\ [Next]_vars => [AddStep => StepsLeft' \in 0 .. StepsLeft - 1]_vars
  BY StepAdvances
<1> QED
  BY <1>1, Invariance, PTL DEF Spec, AddsAdvance
==============================================================================
