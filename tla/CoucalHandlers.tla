--------------------------- MODULE CoucalHandlers ----------------------------
(***************************************************************************)
(* Who owns the values and the keys of a hashtable: the handlers that the  *)
(* client installs, and every call of them that coucal.c makes, composed   *)
(* with the moves of the items in Coucal.                                  *)
(*                                                                         *)
(* A value other than 0 is a block the client has allocated; writing it    *)
(* hands it over.  A name is a copy made by the dup handler, or one in the *)
(* pool (whose place there is the concern of CoucalPool).                  *)
(***************************************************************************)
EXTENDS CoucalProperties

VARIABLES
  value_free,  \* custom.value.free: NULL, "free" (the default one), "custom"
  key_alloc,   \* custom.key.dup and free: "pool" when NULL, "custom"
  block,       \* who owns a block: "nobody" (not allocated), "table", "client"
  copy,        \* how the name of a key was allocated, "none" when it is not
  misuse       \* the first release that should not have been made

handlerVars == <<value_free, key_alloc, block, copy, misuse>>

Block == Written \ {0}

HandlersInit ==
  /\ Init
  /\ value_free = NULL /\ key_alloc = "pool"
  /\ block = [b \in Block |-> "nobody"]
  /\ copy = [k \in Key |-> "none"]
  /\ misuse = "none"

(***************************************************************************)
(* Releases.                                                               *)
(***************************************************************************)

(* coucal_del_value_() on the values of some slots: a NULL value is        *)
(* skipped; without handler the client gets its block back.                *)
Released(slots) ==
  [b \in Block |->
     IF \E i \in DOMAIN slots : slots[i].value = b
     THEN IF value_free # NULL THEN "nobody" ELSE "client"
     ELSE block[b]]

(* the free handler is called for a block that the table does not own, or  *)
(* for two slots                                                           *)
FreedTwice(slots) ==
  \E i, j \in DOMAIN slots :
    /\ slots[i].value # 0
    /\ \/ block[slots[i].value] # "table"
       \/ i # j /\ slots[i].value = slots[j].value

(* Mutant: the name is forgotten.                                          *)
DelNames_Forgets(slots) == UNCHANGED copy

(* coucal_del_name(): coucal_free_key() with the handler of the present *)
DelNames(slots) ==
  copy' = [k \in Key |-> IF \E i \in DOMAIN slots : slots[i].name = k
                         THEN "none" ELSE copy[k]]

FreedByAnother(slots) == \E i \in DOMAIN slots : copy[slots[i].name] # key_alloc

Misused(slots, names) ==
  misuse' = IF misuse # "none" THEN misuse
            ELSE IF FreedTwice(slots) THEN "value_freed_twice"
            ELSE IF names /\ FreedByAnother(slots) THEN "name_of_another_allocator"
            ELSE "none"

(* the slots of the table and of the stash, indexed as they are scanned *)
LiveSlots ==
  LET at(i) == IF i < size THEN items[i] ELSE stash[i - size]
  IN  [i \in {j \in 0 .. size + stash_extent - 1 : Live(at(j))} |-> at(i)]

SlotsOf(k) == [i \in {j \in DOMAIN LiveSlots : LiveSlots[j].name = k} |-> LiveSlots[i]]

(***************************************************************************)
(* The handlers.  "Handler(s) MUST NOT be changed once elements have been  *)
(* added": the client keeps to that, or waits until the table is empty.    *)
(***************************************************************************)

(* Mutant: the client changes handlers while there are elements.           *)
HandlersMayChange_Always == pc = "idle"

HandlersMayChange == pc = "idle" /\ used = 0

ValueSetValueHandler(f) ==
  /\ HandlersMayChange
  /\ value_free' = f
  /\ UNCHANGED <<vars, key_alloc, block, copy, misuse>>

(* coucal_value_is_malloc(): a handler that is already there is kept *)
ValueIsMalloc(flag) ==
  /\ HandlersMayChange
  /\ value_free' = IF ~flag THEN NULL ELSE IF value_free = NULL THEN "free" ELSE value_free
  /\ UNCHANGED <<vars, key_alloc, block, copy, misuse>>

(* coucal_value_set_key_handler(): dup and free are set together, and the  *)
(* hash handler with them.                                                 *)
ValueSetKeyHandler(dup, free, h) ==
  /\ HandlersMayChange
  /\ \/ /\ dup = free
        /\ key_alloc' = IF dup THEN "custom" ELSE "pool"
        /\ hash' = h
        /\ UNCHANGED <<pc, failure>>
     \/ /\ dup # free
        /\ Abort("dup_free_consistent")
        /\ UNCHANGED <<key_alloc, hash>>
  /\ UNCHANGED <<size, items, used, stashVars, callVars, walkVars, index,
                 mergeVars, ret, value_free, block, copy, misuse>>

(***************************************************************************)
(* The calls and steps of Coucal, with the releases and copies they make.  *)
(***************************************************************************)

(* the client allocates the block it writes; 0 is no block *)
HandOver(v, owner) == IF v = 0 THEN owner ELSE [owner EXCEPT ![v] = "table"]
Fresh(v) == v \in Block => block[v] = "nobody"

(* coucal_new(): no handlers, values are not freed, names are in the pool *)
HandlersNew(n, h) ==
  /\ New(n, h)
  /\ value_free' = NULL /\ key_alloc' = "pool"
  /\ UNCHANGED <<block, copy, misuse>>

(* the old value is freed, the name stays *)
HandlersReplace(k, v) ==
  /\ Fresh(v)
  /\ Replace(k, v)
  /\ block' = HandOver(v, Released(SlotsOf(k)))
  /\ Misused(SlotsOf(k), FALSE)
  /\ UNCHANGED <<value_free, key_alloc, copy>>

(* coucal_dup_name(), when the stash has been drained *)
DupCopy(k) == copy' = [copy EXCEPT ![k] = key_alloc]

HandlersWriteNew(k, v) ==
  /\ Fresh(v)
  /\ WriteNew(k, v)
  /\ block' = HandOver(v, block)
  /\ IF stash_size # 0 THEN UNCHANGED copy ELSE DupCopy(k)
  /\ UNCHANGED <<value_free, key_alloc, misuse>>

DrainEnds == pc = "drain" /\ index = stash_extent

HandlersDrainDone ==
  /\ DrainEnds
  /\ DrainDone
  /\ DupCopy(adding.name)
  /\ UNCHANGED <<value_free, key_alloc, block, misuse>>

HandlersRemove(k) ==
  /\ Remove(k)
  /\ block' = Released(SlotsOf(k))
  /\ DelNames(SlotsOf(k))
  /\ Misused(SlotsOf(k), TRUE)
  /\ UNCHANGED <<value_free, key_alloc>>

(* Mutant: the stash is not wiped.                                         *)
WipedByDelete_TableOnly ==
  [i \in {j \in DOMAIN LiveSlots : j < size} |-> LiveSlots[i]]

(* the slots coucal_delete() goes through *)
WipedByDelete == LiveSlots

(* names are freed one by one only if a handler made them: those of the    *)
(* pool go with its buffer                                                 *)
HandlersDelete ==
  /\ Delete
  /\ block' = Released(WipedByDelete)
  /\ IF key_alloc = "custom" THEN DelNames(WipedByDelete)
     ELSE copy' = [k \in Key |-> IF copy[k] = "pool" THEN "none" ELSE copy[k]]
  /\ Misused(WipedByDelete, key_alloc = "custom")
  /\ UNCHANGED <<value_free, key_alloc>>

(* a block that has come back to the client is freed by it *)
ClientFree(b) ==
  /\ block[b] = "client"
  /\ block' = [block EXCEPT ![b] = "nobody"]
  /\ UNCHANGED <<vars, value_free, key_alloc, copy, misuse>>

HandlersNext ==
  \/ \E n \in NewSizes, h \in Hashers : HandlersNew(n, h)
  \/ HandlersDelete
  \/ \E f \in {NULL, "custom"} : ValueSetValueHandler(f)
  \/ \E flag \in BOOLEAN : ValueIsMalloc(flag)
  \/ \E dup, free \in BOOLEAN, h \in Hashers : ValueSetKeyHandler(dup, free, h)
  \/ \E k \in Key : HandlersRemove(k)
  \/ \E k \in Key, v \in Written : HandlersReplace(k, v) \/ HandlersWriteNew(k, v)
  \/ HandlersDrainDone
  \/ \E b \in Block : ClientFree(b)
  \/ /\ \/ AddStep /\ ~DrainEnds
        \/ \E k \in Key : Read(k)
        \/ Halted
     /\ UNCHANGED handlerVars

HandlersSpec == HandlersInit /\ [][HandlersNext]_<<vars, handlerVars>>

-----------------------------------------------------------------------------
(* every place an item can be in, as in Stored, with the item about to be *)
(* copied while the stash is drained *)
Held == Stored \cup (IF pc = "drain" THEN {adding} ELSE {})

(* "This handler is called exactly once for every value whose ptr member   *)
(* is not NULL and that leaves the hashtable": the table owns exactly the  *)
(* blocks that its entries hold, one each, in the table, in the stash, in  *)
(* the hand of a walk or in the backup of a merge.  A block that left      *)
(* without being freed, or was freed while it stays, would differ.         *)
OwnsItsValues ==
  pc # "aborted" =>
    /\ {b \in Block : block[b] = "table"} = {it.value : it \in Held} \ {0}
    /\ \A it, other \in Held : it.value = other.value /\ it.value # 0 => it = other

(* "fires once per 'dup' key on removal/delete, not replace": every entry  *)
(* has its copy of the key, no entry that is gone has left one, and a      *)
(* deleted table none.                                                     *)
OwnsItsNames ==
  pc # "aborted" => {k \in Key : copy[k] # "none"} = NamesIn(Stored)

(* No block is freed twice, no name by a handler that has not made it: not *)
(* by a removal, not by a replacement, not when the table is deleted.      *)
NoMisuse == misuse = "none"
==============================================================================
