--------------------------- MODULE CoucalMapProofs ---------------------------
(***************************************************************************)
(* The hashtable implements the map of coucal.h: proof of the refinement   *)
(* that CoucalProperties states, for all values of the constants.  A call  *)
(* that adds nothing is a step of the map; the steps of an add change      *)
(* nothing of the map until the last one, the return, which is the step of *)
(* the map.  And what the reading calls of CoucalApi find is that map.     *)
(***************************************************************************)
EXTENDS CoucalCountProofs, CoucalApi

(* What an add in progress keeps for its return: the item to add, which is *)
(* stored once the drain is over, and the result.                          *)
CallInv ==
  /\ pc \in {"null", "idle"} => adding = NoItem
  /\ pc \notin {"null", "idle", "drain", "aborted"} => adding \in Stored
  /\ pc \notin {"null", "idle", "aborted"} =>
       \/ result = 1
       \/ adding.value \in {1, ValueMod - 1} /\ result = AsInt(adding.value)

MapInv == Inv /\ CountInv /\ CallInv

(***************************************************************************)
(* The call in progress.                                                   *)
(***************************************************************************)

(* There is no call in progress at first.                                  *)
LEMMA CallInit ==
  Init => CallInv
BY DEF Init, CallInv

(* A call that adds nothing leaves no call in progress.                    *)
LEMMA CallNoAdd ==
  ASSUME Inv, CountInv, CallInv, NoAdd
  PROVE  CallInv'
<1>1. UNCHANGED adding /\ pc \in {"null", "idle"} /\ pc' \in {"null", "idle", "aborted"}
  BY DEF NoAdd, Read, Remove, Replace, IncExisting, Delete, New, CoucalAssert, callVars
<1> QED
  BY <1>1 DEF CallInv

(* The beginning of an add.                                                *)
LEMMA CallStartAdd ==
  ASSUME Inv, NEW k \in Key, NEW v \in Value, NEW r, StartAdd(k, v, r),
         r = 1 \/ (v \in {1, ValueMod - 1} /\ r = AsInt(v))
  PROVE  CallInv'
<1>1. adding' = ItemOf(k, v) /\ adding'.value = v /\ result' = r
  BY DEF StartAdd, ItemOf
<1>2. pc' = "drain" \/ (pc' = "place" /\ adding' \in Stored')
  BY StoredStartAdd DEF Inv
<1> QED
  BY <1>1, <1>2 DEF CallInv

(* The steps of an add keep the item that is to be added.                  *)
LEMMA CallAddStep ==
  ASSUME Inv, CountInv, CallInv, AddStep
  PROVE  CallInv'
<1>1. CASE Return
  BY <1>1 DEF Return, CallInv
<1>2. CASE ~Return
  <2>1. /\ UNCHANGED <<adding, result>>
        /\ pc \notin {"null", "idle", "aborted"} /\ pc' \notin {"null", "idle"}
        /\ pc' = "drain" => pc = "drain"
    BY <1>2 DEF AddStep, DrainStep, DrainDone, PlaceFree, PlaceTaken, WalkFree, WalkKick,
       PutItem, StashItem, StashFull, Count, Grow, GrowRefused, GrowNoMemory, MergeStep,
       MergeDone, CoucalAssert, Abort, callVars, Inv, TypeOK
  <2>2. IF pc = "drain" /\ pc' # "drain" THEN Stored' = Stored \cup {adding}
                                         ELSE Stored' = Stored
    BY StoredAddStep DEF Inv, StashInv, CountInv
  <2>3. pc' \notin {"drain", "aborted"} => adding' \in Stored'
    BY <2>1, <2>2 DEF CallInv
  <2> QED
    BY <2>1, <2>3 DEF CallInv
<1> QED
  BY <1>1, <1>2

(* The invariant of the refinement is inductive.                           *)
LEMMA MapInvStep ==
  ASSUME MapInv, [Next]_vars
  PROVE  MapInv'
<1>1. Inv' /\ CountInv'
  BY InvStep, CountStep DEF MapInv
<1>2. ASSUME AddStep PROVE CallInv'
  BY <1>2, CallAddStep DEF MapInv
<1>3. ASSUME NEW k \in Key, NEW v \in Written, WriteNew(k, v) PROVE CallInv'
  <2>1. v \in Value /\ StartAdd(k, v, 1)
    BY <1>3, ConstantsAssumption DEF WriteNew, Value
  <2> QED
    BY <2>1, CallStartAdd DEF MapInv
<1>4. ASSUME NEW k \in Key, NEW inc \in Increments, IncNew(k, inc) PROVE CallInv'
  <2>1. inc \in Value /\ inc \in {1, ValueMod - 1} /\ StartAdd(k, inc, AsInt(inc))
    BY <1>4, ConstantsAssumption DEF Value, IncNew
  <2> QED
    BY <2>1, CallStartAdd DEF MapInv
<1>5. ASSUME NoAdd PROVE CallInv'
  BY <1>5, CallNoAdd DEF MapInv
<1>6. ASSUME UNCHANGED vars PROVE CallInv'
  <2>1. Stored' = Stored
    BY <1>6, StoredUnchanged DEF vars
  <2> QED
    BY <1>6, <2>1 DEF vars, CallInv, MapInv
<1>7. CallInv'
  BY <1>2, <1>3, <1>4, <1>5, <1>6 DEF Next, Call, Halted, NoAdd
<1> QED
  BY <1>1, <1>7 DEF MapInv

(***************************************************************************)
(* The steps, one by one.                                                  *)
(***************************************************************************)

(* Between two calls everything that is stored is an entry.                *)
LEMMA EntriesAtRest ==
  ASSUME CallInv, pc \in {"null", "idle"}
  PROVE  Entries = Stored
BY DEF CallInv, Entries, Live

(* The same, of the next state.                                            *)
LEMMA EntriesAtRestNext ==
  ASSUME CallInv', pc' \in {"null", "idle"}
  PROVE  Entries' = Stored'
BY DEF CallInv, Entries, Live

(* The initial states are those of the map.                                *)
LEMMA MapInitial ==
  Init => Map!MapInit
<1> SUFFICES ASSUME Init PROVE Map!MapInit
  OBVIOUS
<1>1. \A it : it \notin Stored
  BY InStored DEF Init, InTable, InStash, InBackup, InHand, Pending, EmptyStash, Live
<1>2. Entries = {}
  BY <1>1 DEF Entries
<1> QED
  BY <1>2 DEF Init, Map!MapInit

(* An add in progress does not show.                                       *)
LEMMA MapAddStep ==
  ASSUME MapInv, AddStep, ~Return
  PROVE  UNCHANGED Map!mapVars
<1>1. /\ UNCHANGED <<adding, ret>>
      /\ pc # "null" /\ pc' # "null"
      /\ Live(adding)
  BY DEF MapInv, AddStep, DrainStep, DrainDone, PlaceFree, PlaceTaken, WalkFree, WalkKick,
     PutItem, StashItem, StashFull, Count, Grow, GrowRefused, GrowNoMemory, MergeStep,
     MergeDone, CoucalAssert, Abort, callVars, Inv, TypeOK, Control
<1>2. Stored' \in {Stored, Stored \cup {adding}}
  BY StoredAddStep DEF MapInv, Inv, StashInv, CountInv
<1>3. Entries' = Entries
  BY <1>1, <1>2 DEF Entries, Live
<1> QED
  BY <1>1, <1>3 DEF Map!mapVars

(* The beginning of an add does not show.                                  *)
LEMMA MapStartAdd ==
  ASSUME MapInv, NEW k \in Key, NEW v \in Value, NEW r, StartAdd(k, v, r)
  PROVE  UNCHANGED Map!mapVars
<1>1. pc = "idle" /\ pc' \in {"drain", "place"} /\ UNCHANGED ret
  BY DEF StartAdd
<1>2. adding' = ItemOf(k, v) /\ adding'.name = k /\ Live(adding)'
  BY ItemOfIsItem, ItemIsLive DEF StartAdd, ItemOf, Live
<1>3. k \notin NamesIn(Stored)
  BY <1>1, NotFoundNotStored DEF StartAdd, MapInv, Inv, StashInv
<1>4. Stored' \in {Stored, Stored \cup {adding'}}
  BY StoredStartAdd DEF MapInv, Inv
<1>5. Entries' = Stored
  BY <1>2, <1>3, <1>4 DEF Entries, NamesIn
<1>6. Entries = Stored
  BY <1>1, EntriesAtRest DEF MapInv
<1> QED
  BY <1>1, <1>5, <1>6 DEF Map!mapVars

(* The return of an add is the write, or the increment, of a key that the  *)
(* map does not have.                                                      *)
LEMMA MapReturn ==
  ASSUME MapInv, Return
  PROVE  \E k \in Key : /\ k \notin Map!Names
                        /\ \/ \E v \in Map!Value : Map!MapWrite(k, v)
                           \/ \E d \in {1, ValueMod - 1} : Map!MapInc(k, d)
<1>1. pc = "return" /\ pc' = "idle" /\ ret' = result /\ adding' = NoItem
  BY DEF Return
<1>2. Live(adding) /\ adding \in Item /\ adding.name \in Key /\ adding.value \in Value
  BY <1>1, LiveIsItem DEF MapInv, Inv, Control, TypeOK
<1>3. Stored' = Stored
  BY StoredUnchanged DEF Return, tableVars, stashVars, walkVars, mergeVars
<1>4. Entries' = Stored
  BY <1>1, <1>3 DEF Entries, Live
<1>5. adding \in Stored
  BY <1>1 DEF MapInv, CallInv
<1>6. Entries = {it \in Stored : it.name # adding.name}
  BY <1>2 DEF Entries
<1>7. Stored = Entries \cup {adding}
  BY <1>5, <1>6, StoredOnce DEF MapInv, Inv
<1>8. adding = Map!EntryOf(adding.name, adding.value)
  BY <1>2 DEF Item, Map!EntryOf
<1>9. adding.name \notin Map!Names
  BY <1>6 DEF Map!Names
<1>10. Map!Without(adding.name) = Entries
  BY <1>6 DEF Map!Without
<1>11. CASE result = 1
  <2>1. Map!MapWrite(adding.name, adding.value)
    BY <1>1, <1>4, <1>7, <1>8, <1>9, <1>10, <1>11 DEF Map!MapWrite
  <2>2. adding.value \in Map!Value
    BY <1>2 DEF Value, Map!Value
  <2> QED
    BY <1>2, <1>9, <2>1, <2>2
<1>12. CASE adding.value \in {1, ValueMod - 1} /\ result = AsInt(adding.value)
  <2>1. AsInt(adding.value) = Map!AsInt(adding.value)
    BY DEF AsInt, Map!AsInt
  <2>2. Map!MapInc(adding.name, adding.value)
    BY <1>1, <1>4, <1>7, <1>8, <1>9, <1>12, <2>1 DEF Map!MapInc
  <2> QED
    BY <1>2, <1>9, <1>12, <2>2
<1> QED
  BY <1>1, <1>11, <1>12 DEF MapInv, CallInv

(* The calls that add nothing are those of the map, one by one.            *)
LEMMA MapCalls ==
  ASSUME MapInv, NoAdd
  PROVE  /\ \A k \in Key : Read(k) => Map!MapRead(k)
         /\ \A k \in Key, v \in Written : Replace(k, v) =>
              k \in Map!Names /\ v \in Map!Value /\ Map!MapWrite(k, v)
         /\ \A k \in Key, inc \in Increments : IncExisting(k, inc) =>
              k \in Map!Names /\ inc \in {1, ValueMod - 1} /\ Map!MapInc(k, inc)
         /\ \A k \in Key : Remove(k) => Map!MapRemove(k)
         /\ Delete => Map!MapDelete
         /\ \A n \in NewSizes, h \in Hashers : New(n, h) => Map!MapNew
<1>1. CallInv'
  BY CallNoAdd DEF MapInv
<1>2. pc \in {"null", "idle"}
  BY DEF NoAdd, Read, Remove, Replace, IncExisting, Delete, New
<1>3. Entries = Stored
  BY <1>2, EntriesAtRest DEF MapInv
<1>4. adding = NoItem /\ adding' = NoItem
  BY <1>2 DEF MapInv, CallInv, NoAdd, Read, Remove, Replace, IncExisting, Delete, New, callVars
<1>5. Entries' = Stored'
  BY <1>4 DEF Entries, Live
<1>6. ASSUME NEW it \in Stored
      PROVE  /\ it.name \in Map!Names
             /\ Stored \ {it} = Map!Without(it.name)
  BY <1>3, StoredOnce DEF MapInv, Inv, Map!Names, Map!Without
<1>7. \A k, v : ItemOf(k, v) = Map!EntryOf(k, v)
  BY DEF ItemOf, Map!EntryOf
<1>8. \A k : k \notin NamesIn(Stored) => k \notin Map!Names /\ Map!Without(k) = Stored
  BY <1>3 DEF NamesIn, Map!Names, Map!Without
<1>9. ASSUME NEW k \in Key, Read(k) PROVE Map!MapRead(k)
  <2>1. pc = "idle" /\ pc' = "idle"
    BY <1>9 DEF Read
  <2> QED
    BY <1>3, <1>5, <1>8, <1>9, <2>1, StoredRead DEF MapInv, Map!MapRead
<1>10. ASSUME NEW k \in Key, NEW v \in Written, Replace(k, v)
       PROVE  k \in Map!Names /\ v \in Map!Value /\ Map!MapWrite(k, v)
  <2>1. pc = "idle" /\ pc' = "idle" /\ ret' = 0
    BY <1>10 DEF Replace
  <2>2. v \in Value
    BY ConstantsAssumption DEF Value
  <2>3. PICK it \in Stored : it.name = k /\ Stored' = (Stored \ {it}) \cup {ItemOf(k, v)}
    BY <1>10, <2>2, StoredReplace DEF MapInv
  <2>4. Map!MapWrite(k, v)
    BY <1>5, <1>6, <1>7, <2>1, <2>3 DEF Map!MapWrite
  <2> QED
    BY <1>6, <2>2, <2>3, <2>4 DEF Value, Map!Value
<1>11. ASSUME NEW k \in Key, NEW inc \in Increments, IncExisting(k, inc)
       PROVE  k \in Map!Names /\ inc \in {1, ValueMod - 1} /\ Map!MapInc(k, inc)
  <2>1. pc = "idle" /\ pc' = "idle"
    BY <1>11 DEF IncExisting
  <2>2. inc \in {1, ValueMod - 1}
    BY ConstantsAssumption
  <2>3. PICK it \in Stored :
          /\ it.name = k
          /\ Stored' = (Stored \ {it}) \cup {ItemOf(k, (it.value + inc) % ValueMod)}
          /\ ret' = AsInt((it.value + inc) % ValueMod)
    BY <1>11, StoredIncExisting DEF MapInv
  <2>4. \A v : AsInt(v) = Map!AsInt(v)
    BY DEF AsInt, Map!AsInt
  <2>5. Map!MapInc(k, inc)
    BY <1>3, <1>5, <1>6, <1>7, <2>1, <2>3, <2>4 DEF Map!MapInc
  <2> QED
    BY <1>6, <2>2, <2>3, <2>5
<1>12. ASSUME NEW k \in Key, Remove(k) PROVE Map!MapRemove(k)
  <2>1. pc = "idle" /\ pc' # "null"
    BY <1>12 DEF Remove, CoucalAssert
  <2>2. CASE /\ k \notin NamesIn(Stored) /\ Stored' = Stored
             /\ ret' = 0 /\ UNCHANGED <<used, pc, failure>>
    BY <1>5, <1>8, <2>1, <2>2 DEF Map!MapRemove
  <2>3. CASE (\E it \in Stored : it.name = k /\ Stored' = Stored \ {it}) /\ ret' = 1
    <3>1. PICK it \in Stored : it.name = k /\ Stored' = Stored \ {it}
      BY <2>3
    <3> QED
      BY <1>5, <1>6, <2>1, <2>3, <3>1 DEF Map!MapRemove
  <2> QED
    BY <1>12, <2>2, <2>3, StoredRemove DEF MapInv
<1>13. ASSUME Delete PROVE Map!MapDelete
  <2>1. Stored' = {} /\ pc = "idle" /\ pc' = "null" /\ ret' = NULL
    BY <1>13, StoredDelete DEF Delete, MapInv, Inv
  <2> QED
    BY <1>5, <2>1 DEF Map!MapDelete
<1>14. ASSUME NEW n \in NewSizes, NEW h \in Hashers, New(n, h) PROVE Map!MapNew
  <2>1. Stored' = Stored /\ pc = "null" /\ pc' = "idle" /\ ret' = NULL
    BY <1>14, StoredNew DEF New, MapInv, Inv
  <2> QED
    BY <1>3, <1>5, <2>1 DEF Map!MapNew
<1> QED
  BY <1>9, <1>10, <1>11, <1>12, <1>13, <1>14

(* Every step of the hashtable is a step of the map, or does not show.     *)
LEMMA MapStep ==
  ASSUME MapInv, [Next]_vars
  PROVE  [Map!MapNext]_(Map!mapVars)
<1>1. CASE AddStep
  BY <1>1, MapAddStep, MapReturn DEF Map!MapNext
<1>2. ASSUME NEW k \in Key, NEW v \in Written, WriteNew(k, v)
      PROVE  UNCHANGED Map!mapVars
  <2>1. v \in Value /\ StartAdd(k, v, 1)
    BY <1>2, ConstantsAssumption DEF WriteNew, Value
  <2> QED
    BY <2>1, MapStartAdd
<1>3. ASSUME NEW k \in Key, NEW inc \in Increments, IncNew(k, inc)
      PROVE  UNCHANGED Map!mapVars
  <2>1. inc \in Value /\ StartAdd(k, inc, AsInt(inc))
    BY <1>3, ConstantsAssumption DEF Value, IncNew
  <2> QED
    BY <2>1, MapStartAdd
<1>4. CASE NoAdd
  BY <1>4, MapCalls DEF NoAdd, Map!MapNext
<1>5. CASE UNCHANGED vars
  <2>1. Stored' = Stored /\ UNCHANGED <<pc, ret, adding>>
    BY <1>5, StoredUnchanged DEF vars
  <2>2. Entries' = Entries
    BY <2>1 DEF Entries, Live
  <2> QED
    BY <2>1, <2>2 DEF Map!mapVars
<1> QED
  BY <1>1, <1>2, <1>3, <1>4, <1>5 DEF Next, Call, Halted, NoAdd

(* The invariant of the refinement holds in every state.                   *)
THEOREM MapInvariance == Spec => []MapInv
<1>1. MapInv /\ [Next]_vars => MapInv'
  BY MapInvStep
<1>2. Init => MapInv
  BY InvInit, CountInit, CallInit DEF MapInv
<1> QED
  BY <1>1, <1>2, PTL DEF Spec

(* The hashtable implements the map of coucal.h: whatever the sizes, the   *)
(* keys and the hash handler, every call returns what the map would, the   *)
(* entries are those written and not removed, and no drain, walk, doubling *)
(* or merge shows.                                                         *)
THEOREM ImplementsMapAlways == Spec => ImplementsMap
<1>1. Init => Map!MapInit
  BY MapInitial
<1>2. MapInv /\ [Next]_vars => [Map!MapNext]_(Map!mapVars)
  BY MapStep
<1> QED
  BY <1>1, <1>2, MapInvariance, PTL DEF Spec, ImplementsMap, Map!MapSpec

(***************************************************************************)
(* The reading calls: what a lookup finds between two calls is the entry   *)
(* of its key, wherever it is stored.                                      *)
(***************************************************************************)

(* The lookup finds the item of its key, if one is stored, and nothing     *)
(* else: two positions and the stash up to its extent are enough.          *)
LEMMA FetchFinds ==
  ASSUME Inv, pc = "idle", NEW k \in Key
  PROVE  /\ \A it \in Stored : it.name = k => Fetch(k) = it
         /\ k \notin StoredNames => Fetch(k) = NoItem
<1>1. size \in TableSizes
  BY DEF Inv, Control
<1>2. Pos1(k) \in 0 .. size - 1 /\ Pos2(k) \in 0 .. size - 1
  BY <1>1, PositionsInRange DEF Inv
<1>3. CASE \E p \in 0 .. size - 1 : AtTable(k, p)
  <2> DEFINE p == CHOOSE p \in 0 .. size - 1 : AtTable(k, p)
  <2>1. p \in 0 .. size - 1 /\ AtTable(k, p)
    BY <1>3
  <2>2. Fetch(k) = items[p]
    BY <1>3 DEF Fetch
  <2> HIDE DEF p
  <2>3. items[p] \in Stored /\ items[p].name = k
    BY <2>1, FoundInTable DEF Inv
  <2> QED
    BY <2>2, <2>3, StoredOnce DEF Inv, StoredNames, NamesIn
<1>4. CASE /\ ~\E p \in 0 .. size - 1 : AtTable(k, p)
           /\ \E j \in StashIndex : AtStash(k, j)
  <2> DEFINE j == CHOOSE j \in StashIndex : AtStash(k, j)
  <2>1. j \in StashIndex /\ AtStash(k, j)
    BY <1>4
  <2>2. Fetch(k) = stash[j]
    BY <1>4 DEF Fetch
  <2> HIDE DEF j
  <2>3. stash[j] \in Stored /\ stash[j].name = k
    BY <2>1, FoundInStash DEF Inv
  <2> QED
    BY <2>2, <2>3, StoredOnce DEF Inv, StoredNames, NamesIn
<1>5. CASE /\ ~\E p \in 0 .. size - 1 : AtTable(k, p)
           /\ ~\E j \in StashIndex : AtStash(k, j)
  <2>1. Fetch(k) = NoItem
    BY <1>5 DEF Fetch
  <2>2. NotInTable(k)
    BY <1>2, <1>5 DEF AtTable, NotInTable
  <2>3. ASSUME NEW j \in StashScanned, Matches(stash[j], k) PROVE FALSE
    <3>1. j \in StashIndex
      BY <2>3, ConstantsAssumption DEF StashScanned, StashIndex, Inv, TypeOK
    <3>2. ASSUME NEW l \in 0 .. j - 1 PROVE ~Matches(stash[l], k)
      <4>1. l \in StashIndex /\ l # j
        BY <3>1, ConstantsAssumption DEF StashIndex
      <4> QED
        BY <2>3, <3>1, <4>1 DEF Matches, Inv, NoKeyTwice, Distinct, Live
    <3>3. AtStash(k, j)
      BY <2>2, <2>3, <3>2 DEF AtStash
    <3> QED
      BY <1>5, <3>1, <3>3
  <2>4. k \notin NamesIn(Stored)
    BY <2>2, <2>3, NotFoundNotStored DEF NotFound, Inv, StashInv
  <2> QED
    BY <2>1, <2>4 DEF NamesIn
<1> QED
  BY <1>3, <1>4, <1>5

(* What exists is what is stored.                                          *)
LEMMA ExistsIsStored ==
  ASSUME Inv, pc = "idle", NEW k \in Key
  PROVE  Exists(k) <=> k \in StoredNames
<1>1. ASSUME NEW it \in Stored PROVE it # NoItem
  <2>1. it \in Item
    BY StoredAreItems DEF Inv
  <2> QED
    BY <2>1, ItemIsLive DEF Live
<1> QED
  BY <1>1, FetchFinds DEF Exists, StoredNames, NamesIn

(* The count and the accessors of one state between two calls.             *)
LEMMA AccessorsOfState ==
  ASSUME MapInv
  PROVE  AccessorsAgree
<1> SUFFICES ASSUME pc \in {"null", "idle"}
             PROVE  /\ Nitems = Cardinality({k \in Key : size # 0 /\ Exists(k)})
                    /\ size # 0 => \A k \in Key :
                         LET written == {AsIntptr(it.value) : it \in {e \in Entries : e.name = k}}
                         IN  /\ ReadOut(k).ret = (written # {})
                             /\ Readptr(k).ret = (written \notin {{}, {0}})
                             /\ \A v \in written :
                                  ReadOut(k).value = v /\ Readptr(k).value = v /\ Get(k) = v
                             /\ written = {} => ReadOut(k).value = 0 /\ Get(k) = 0
  BY DEF AccessorsAgree
<1>1. CASE pc = "null"
  <2>1. size = 0
    BY <1>1 DEF MapInv, Inv, Control
  <2>2. {k \in Key : size # 0 /\ Exists(k)} = {}
    BY <2>1
  <2> QED
    BY <1>1, <2>1, <2>2, FS_EmptySet DEF Nitems
<1>2. CASE pc = "idle"
  <2>1. size # 0
    BY <1>2, ConstantsAssumption DEF MapInv, Inv, Control
  <2>2. StoredNames \subseteq Key
    BY StoredAreItems DEF MapInv, Inv, StoredNames, NamesIn
  <2>3. {k \in Key : size # 0 /\ Exists(k)} = StoredNames
    BY <1>2, <2>1, <2>2, ExistsIsStored DEF MapInv
  <2>4. Cardinality(StoredNames) = used
    BY <1>2 DEF MapInv, CountInv, Counted, Uncounted, Inv, TypeOK
  <2>5. Nitems = Cardinality({k \in Key : size # 0 /\ Exists(k)})
    BY <1>2, <2>3, <2>4 DEF Nitems
  <2>6. ASSUME NEW k \in Key, NEW written,
               written = {AsIntptr(it.value) : it \in {e \in Entries : e.name = k}}
        PROVE  /\ ReadOut(k).ret = (written # {})
               /\ Readptr(k).ret = (written \notin {{}, {0}})
               /\ \A v \in written :
                    ReadOut(k).value = v /\ Readptr(k).value = v /\ Get(k) = v
               /\ written = {} => ReadOut(k).value = 0 /\ Get(k) = 0
    <3>1. Entries = Stored
      BY <1>2, EntriesAtRest DEF MapInv
    <3>2. CASE k \notin StoredNames
      <4>1. written = {}
        BY <2>6, <3>1, <3>2 DEF StoredNames, NamesIn
      <4>2. Fetch(k) = NoItem
        BY <1>2, <3>2, FetchFinds DEF MapInv
      <4>3. ReadOut(k) = [ret |-> FALSE, value |-> 0]
        BY <4>2 DEF ReadOut, Answer, Exists
      <4>4. ReadOut(k).ret = FALSE /\ ReadOut(k).value = 0 /\ Get(k) = 0
        BY <4>3 DEF Get
      <4>5. Readptr(k).ret = FALSE
        BY <4>4 DEF Readptr, Answer
      <4> QED
        BY <4>1, <4>4, <4>5
    <3>3. CASE k \in StoredNames
      <4>1. PICK it \in Stored : it.name = k
        BY <3>3 DEF StoredNames, NamesIn
      <4>2. Fetch(k) = it /\ it # NoItem
        <5>1. it \in Item
          BY StoredAreItems DEF MapInv, Inv
        <5> QED
          BY <1>2, <4>1, <5>1, FetchFinds, ItemIsLive DEF MapInv, Live
      <4>3. {e \in Entries : e.name = k} = {it}
        BY <3>1, <4>1, StoredOnce DEF MapInv, Inv
      <4>4. written = {AsIntptr(it.value)}
        BY <2>6, <4>3
      <4>5. ReadOut(k) = [ret |-> TRUE, value |-> AsIntptr(it.value)]
        BY <4>2 DEF ReadOut, Answer, Exists
      <4> DEFINE v == AsIntptr(it.value)
      <4> HIDE DEF v
      <4>6. ReadOut(k).ret = TRUE /\ ReadOut(k).value = v /\ Get(k) = v
        BY <4>5 DEF Get, v
      <4>7. Readptr(k).ret = (v # 0) /\ Readptr(k).value = v
        BY <4>6 DEF Readptr, Answer
      <4>8. written = {v} /\ written # {} /\ (written \notin {{}, {0}}) = (v # 0)
        BY <4>4 DEF v
      <4> QED
        BY <4>6, <4>7, <4>8
    <3> QED
      BY <3>2, <3>3
  <2> QED
    BY <2>5, <2>6
<1> QED
  BY <1>1, <1>2

(* Between two calls every way of reading tells the same map, for every    *)
(* hash handler and however the items have been moved: what was written    *)
(* and not removed exists, is read with its value and is counted once, and *)
(* coucal_readptr() differs for a zero only.                               *)
THEOREM AccessorsAgreeAlways == Spec => []AccessorsAgree
<1>1. MapInv => AccessorsAgree
  BY AccessorsOfState
<1> QED
  BY <1>1, MapInvariance, PTL
==============================================================================
