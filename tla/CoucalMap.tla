------------------------------ MODULE CoucalMap ------------------------------
(***************************************************************************)
(* What coucal.h promises of a hashtable: a set of entries, at most one    *)
(* per key, and the result each call returns.  No positions, no stash, no  *)
(* growth: module Coucal is shown to implement this one.                   *)
(***************************************************************************)
EXTENDS Integers

CONSTANTS
  Key,       \* the keys (what custom.key.equals tells apart)
  ValueMod,  \* 2^w for the w bits of uintptr_t: values are 0..ValueMod-1
  IntMod,    \* 2^w for the w bits of int, the result type of coucal_inc()
  NULL       \* "not found", and "no result"

VARIABLES
  open,      \* the caller's pointer is not NULL
  entries,   \* the entries of the hashtable
  ret        \* what the last call returned

mapVars == <<open, entries, ret>>

Value == 0 .. ValueMod - 1
Entry == [name : Key, value : Value]

(* The conversion of a uintptr_t to int, (int) in coucal_inc(): the low    *)
(* bits, read as a two's complement number.                                *)
AsInt(v) == IF v % IntMod < IntMod \div 2 THEN v % IntMod
                                          ELSE (v % IntMod) - IntMod

Names == {e.name : e \in entries}
Without(k) == {e \in entries : e.name # k}
EntryOf(k, v) == [name |-> k, value |-> v]

MapTypeOK ==
  /\ open \in BOOLEAN
  /\ entries \subseteq Entry
  /\ ret \in Int \cup {NULL}

MapInit ==
  /\ open = FALSE
  /\ entries = {}
  /\ ret = NULL

MapNew ==
  /\ ~open
  /\ open' = TRUE
  /\ ret' = NULL
  /\ UNCHANGED entries

MapDelete ==
  /\ open
  /\ open' = FALSE
  /\ entries' = {}
  /\ ret' = NULL

(* coucal.h: "Return non-zero value if the entry was added, zero if it was *)
(* replaced."                                                              *)
MapWrite(k, v) ==
  /\ open
  /\ entries' = Without(k) \cup {EntryOf(k, v)}
  /\ ret' = IF k \in Names THEN 0 ELSE 1
  /\ UNCHANGED open

(* coucal.h: "Increment an entry value in the hashtable (or create a new   *)
(* entry ...). Return the entry's new value", as an int.                   *)
MapInc(k, d) ==
  /\ open
  /\ \/ \E e \in entries :
          /\ e.name = k
          /\ LET v == (e.value + d) % ValueMod
             IN  /\ entries' = Without(k) \cup {EntryOf(k, v)}
                 /\ ret' = AsInt(v)
     \/ /\ k \notin Names
        /\ entries' = entries \cup {EntryOf(k, d)}
        /\ ret' = AsInt(d)
  /\ UNCHANGED open

MapRemove(k) ==
  /\ open
  /\ entries' = Without(k)
  /\ ret' = IF k \in Names THEN 1 ELSE 0
  /\ UNCHANGED open

MapRead(k) ==
  /\ open
  /\ \/ \E e \in entries : e.name = k /\ ret' = e.value
     \/ k \notin Names /\ ret' = NULL
  /\ UNCHANGED <<open, entries>>

MapNext ==
  \/ MapNew
  \/ MapDelete
  \/ \E k \in Key :
       \/ \E v \in Value : MapWrite(k, v)
       \/ \E d \in {1, ValueMod - 1} : MapInc(k, d)
       \/ MapRemove(k)
       \/ MapRead(k)

MapSpec == MapInit /\ [][MapNext]_mapVars
==============================================================================
