----------------------------- MODULE CoucalEnum ------------------------------
(***************************************************************************)
(* The enumerator of coucal.c: a cursor over the slots of the table, then  *)
(* over those of the stash, that other calls move under its feet.          *)
(***************************************************************************)
EXTENDS CoucalProperties

VARIABLES
  enum,     \* "none": no enumerator; "defined"; "undefined": after an add
  e_index,  \* struct_coucal_enum.index
  e_name    \* the name of the last item returned by coucal_enum_next()

enumVars == <<enum, e_index, e_name>>

(* The slots in the order of the enumeration. *)
EnumEnd == size + stash_extent
SlotAt(i) == IF i < size THEN items[i] ELSE stash[i - size]

(* Mutant: the index is incremented at every end.                          *)
AfterEnd_Advances == e_index + 1

(* e->index after the end: the extent may have been trimmed below it. *)
AfterEnd == IF e_index < EnumEnd THEN EnumEnd ELSE e_index

EnumInit ==
  /\ Init
  /\ enum = "none" /\ e_index = 0 /\ e_name = NULL

EnumNew ==
  /\ pc = "idle"
  /\ enum' = "defined" /\ e_index' = 0
  /\ UNCHANGED <<vars, e_name>>

(* coucal_enum_next(): the next slot that is not free, holes of the stash  *)
(* skipped, or NULL at the end.                                            *)
EnumNext ==
  /\ pc = "idle" /\ enum # "none"
  /\ \/ \E i \in e_index .. EnumEnd - 1 :
          /\ Live(SlotAt(i))
          /\ \A j \in e_index .. i - 1 : ~Live(SlotAt(j))
          /\ e_index' = i + 1
          /\ e_name' = SlotAt(i).name
     \/ /\ \A j \in e_index .. EnumEnd - 1 : ~Live(SlotAt(j))
        /\ e_index' = AfterEnd
        /\ e_name' = NULL
  /\ UNCHANGED <<vars, enum>>

(* Any other call, between two of the enumerator: an add, which is the     *)
(* only call that does not leave the table idle, disturbs the enumeration. *)
(* The enumerator goes with the table.                                     *)
TableStep ==
  /\ Next
  /\ enum' = IF pc' = "null" THEN "none"
             ELSE IF enum = "defined" /\ pc' # "idle" THEN "undefined"
             ELSE enum
  /\ e_index' = IF pc' = "null" THEN 0 ELSE e_index
  /\ UNCHANGED e_name

EnumSpec == EnumInit /\ [][TableStep \/ EnumNew \/ EnumNext]_<<vars, enumVars>>

-----------------------------------------------------------------------------
(* The keys whose slots are at or beyond the cursor. *)
Left ==
  IF enum # "defined" THEN {}
  ELSE {SlotAt(i).name : i \in {j \in e_index .. EnumEnd - 1 : Live(SlotAt(j))}}

EnumMap ==
  INSTANCE CoucalEnumMap
  WITH open <- pc # "null", entries <- Entries, left <- Left, visited <- e_name

(* "A full enumeration visits every entry exactly once; deleting entries,  *)
(* or replacing the value of an existing one, is safe while enumerating":  *)
(* the slots at or beyond the cursor are the entries still to visit,       *)
(* because no such call moves an item across the cursor.                   *)
ImplementsEnum == EnumMap!EnumMapSpec

(* The cursor stays within the slots of the table and of the stash, also   *)
(* when the table has grown or the extent has been trimmed: "adding        *)
(* entries leads to undefined enumeration behavior (yet safe)".            *)
EnumTypeOK ==
  /\ enum \in {"none", "defined", "undefined"}
  /\ e_index \in 0 .. size + StashSize
  /\ e_name \in Key \cup {NULL}
==============================================================================
