----------------------------- MODULE CoucalApi -------------------------------
(***************************************************************************)
(* The calls that only read a hashtable, as functions of its state: what   *)
(* each returns, and what it leaves in the variable of the caller.         *)
(***************************************************************************)
EXTENDS CoucalProperties

(* the slot found by coucal_fetch_value(), or NoItem *)
Fetch(k) ==
  IF \E p \in 0 .. size - 1 : AtTable(k, p)
  THEN items[CHOOSE p \in 0 .. size - 1 : AtTable(k, p)]
  ELSE IF \E j \in StashIndex : AtStash(k, j)
  THEN stash[CHOOSE j \in StashIndex : AtStash(k, j)]
  ELSE NoItem

Answer(found, v) == [ret |-> found, value |-> v]

(* coucal_exists(): the value is not copied out *)
Exists(k) == Fetch(k) # NoItem

(* coucal_read(), coucal_read_pvoid(): the local variable that is copied   *)
(* out starts as INTHASH_VALUE_NULL                                        *)
ReadOut(k) ==
  Answer(Exists(k), IF Fetch(k) # NoItem THEN AsIntptr(Fetch(k).value) ELSE 0)

(* coucal_readptr(): a zero is not found *)
Readptr(k) == Answer(ReadOut(k).ret /\ ReadOut(k).value # 0, ReadOut(k).value)

(* coucal_get_intptr(), coucal_get_pvoid() *)
Get(k) == IF ReadOut(k).ret THEN ReadOut(k).value ELSE 0

(* coucal_nitems(), of no hashtable too *)
Nitems == IF pc = "null" THEN 0 ELSE used

-----------------------------------------------------------------------------
(* Between two calls every way of reading tells the same map: an entry     *)
(* that was written and not removed exists, with a zero for value too, is  *)
(* read with its value wherever drains, walks and holes have left it, and  *)
(* is counted once; "return 0 is the value was zero" is the only           *)
(* difference of coucal_readptr(); what is not there reads as zero.        *)
AccessorsAgree ==
  pc \in {"null", "idle"} =>
    /\ Nitems = Cardinality({k \in Key : size # 0 /\ Exists(k)})
    /\ size # 0 => \A k \in Key :
         LET written == {AsIntptr(it.value) : it \in {e \in Entries : e.name = k}}
         IN  /\ ReadOut(k).ret = (written # {})
             /\ Readptr(k).ret = (written \notin {{}, {0}})
             /\ \A v \in written : ReadOut(k).value = v /\ Readptr(k).value = v /\ Get(k) = v
             /\ written = {} => ReadOut(k).value = 0 /\ Get(k) = 0
==============================================================================
