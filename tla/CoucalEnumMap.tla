---------------------------- MODULE CoucalEnumMap ----------------------------
(***************************************************************************)
(* What coucal.h promises of an enumeration of the map: it visits every    *)
(* entry exactly once, in an unspecified order; deleting an entry, or      *)
(* replacing its value, is safe on the way; adding one leads to undefined  *)
(* behaviour "(yet safe)".                                                 *)
(***************************************************************************)
EXTENDS CoucalMap

VARIABLES
  enum,    \* "none", "defined", or "undefined": an entry has been added
  left,    \* the keys that the enumeration has still to visit
  visited  \* the key that coucal_enum_next() returned last

enumMapVars == <<open, entries, ret, enum, left, visited>>

EnumMapInit ==
  /\ MapInit
  /\ enum = "none"
  /\ left = {}
  /\ visited = NULL

MapEnumNew ==
  /\ open
  /\ enum' = "defined"
  /\ left' = Names
  /\ UNCHANGED <<mapVars, visited>>

(* exactly once: any of the keys that are left, and the end when none is *)
MapEnumNext ==
  /\ enum = "defined"
  /\ \/ \E k \in left :
          /\ visited' = k
          /\ left' = left \ {k}
     \/ /\ left = {}
        /\ visited' = NULL
        /\ UNCHANGED left
  /\ UNCHANGED <<mapVars, enum>>

(* safe: an entry, or the end *)
MapEnumNextUndefined ==
  /\ enum = "undefined"
  /\ visited' \in Names \cup {NULL}
  /\ UNCHANGED <<mapVars, enum, left>>

(* An entry is deleted, visited or not: the others are still to visit. *)
MapEnumRemove(k) ==
  /\ MapRemove(k)
  /\ left' = left \ {k}
  /\ UNCHANGED <<enum, visited>>

(* Nothing is added: the enumeration goes on. *)
MapEnumKeep ==
  /\ \E k \in Key :
       \/ MapRead(k)
       \/ k \in Names /\ \E v \in Value : MapWrite(k, v)
       \/ k \in Names /\ \E d \in {1, ValueMod - 1} : MapInc(k, d)
  /\ UNCHANGED <<enum, left, visited>>

(* A call that adds an entry begins before it returns, and may abort. *)
MapEnumDisturbed ==
  /\ enum = "defined"
  /\ enum' = "undefined"
  /\ left' = {}
  /\ UNCHANGED <<mapVars, visited>>

MapEnumAdd ==
  /\ enum # "defined"
  /\ \E k \in Key \ Names :
       \/ \E v \in Value : MapWrite(k, v)
       \/ \E d \in {1, ValueMod - 1} : MapInc(k, d)
  /\ UNCHANGED <<enum, left, visited>>

MapEnumOpenOrDelete ==
  /\ MapNew \/ MapDelete
  /\ enum' = "none"
  /\ left' = {}
  /\ UNCHANGED visited

EnumMapNext ==
  \/ MapEnumNew \/ MapEnumNext \/ MapEnumNextUndefined
  \/ \E k \in Key : MapEnumRemove(k)
  \/ MapEnumKeep \/ MapEnumDisturbed \/ MapEnumAdd \/ MapEnumOpenOrDelete

EnumMapSpec == EnumMapInit /\ [][EnumMapNext]_enumMapVars
==============================================================================
