-------------------------- MODULE CoucalPoolProofs ---------------------------
(***************************************************************************)
(* Proofs about the string pool: whatever is added and removed, with any   *)
(* growth, compaction and shrink on the way, every stored item has a name  *)
(* that reads as its key, the accounts of the pool are exact and none of   *)
(* its assertions fails.                                                   *)
(***************************************************************************)
EXTENDS CoucalPool, CoucalMapProofs

(***************************************************************************)
(* The invariant.                                                          *)
(***************************************************************************)
Buffers == {"none", "A", "B"}
PointerType == [buffer : Buffers \cup {"static", "outside"}, offset : Nat]
StrType == [offset : Nat, key : Key, wiped : BOOLEAN]

PoolType ==
  [buffer : Buffers, size : Nat, capacity : Nat, used : Nat, text : SUBSET StrType,
   name : [Key -> PointerType],
   error : {"none", "pool_allocation_error", "key_staging_error"}]

EndOf(t) == t.offset + StrSize[t.key]

(* Strings lie below the watermark, and no two of them overlap.            *)
TextLaidOut(p) ==
  /\ \A t \in p.text : EndOf(t) <= p.size
  /\ \A t, u \in p.text : t # u => EndOf(t) <= u.offset \/ EndOf(u) <= t.offset

(* The name of k is at the start of its own copy.                          *)
Named(p, k) ==
  /\ p.name[k].buffer = p.buffer
  /\ \E t \in p.text : t.key = k /\ ~t.wiped /\ t.offset = p.name[k].offset

InPool(K) == {k \in K : StrSize[k] # 1}

(* The pool p holds the names of the keys in K.                            *)
GoodPool(p, K) ==
  /\ p \in PoolType
  /\ K \subseteq Key /\ IsFiniteSet(K)
  /\ p.used <= p.size /\ p.size <= p.capacity
  /\ TextLaidOut(p)
  /\ \A k \in InPool(K) : Named(p, k)
  /\ \A k \in K : StrSize[k] = 1 => p.name[k] = TheEmptyString
  /\ p.used = CharCount(StrSize, InPool(K))

PoolHeld ==
  pc # "aborted" =>
    /\ MapInv
    /\ GoodPool(pool, StoredNames)
    /\ pool.error = "none"
    /\ pc = "drain" => ReadsAs(pool, arg, adding.name)

PoolInv == PoolHeld /\ NoPoolError

(***************************************************************************)
(* Adding lengths up.                                                      *)
(***************************************************************************)

(* A character is that of one string.                                      *)
LEMMA CharactersAre ==
  ASSUME NEW length, NEW S
  PROVE  \A x : x \in Characters(length, S) <=>
               \E i \in S : \E c \in 1 .. length[i] : x = <<i, c>>
BY DEF Characters

(* The characters of one string.                                           *)
LEMMA OneCount ==
  ASSUME NEW i, NEW n \in Nat
  PROVE  IsFiniteSet({i} \X (1 .. n)) /\ Cardinality({i} \X (1 .. n)) = n
<1>1. IsFiniteSet({i}) /\ Cardinality({i}) = 1
  BY FS_Singleton
<1>2. IsFiniteSet(1 .. n) /\ Cardinality(1 .. n) = n
  BY FS_Interval
<1>3. ASSUME NEW S, NEW T, IsFiniteSet(S), Cardinality(S) = 1, IsFiniteSet(T),
             Cardinality(T) = n
      PROVE  IsFiniteSet(S \X T) /\ Cardinality(S \X T) = n
  <2>1. IsFiniteSet(S \X T) /\ Cardinality(S \X T) = 1 * n
    BY <1>3, FS_Product
  <2> QED
    BY <2>1
<1> QED
  BY <1>1, <1>2, <1>3

(* There are finitely many characters in finitely many strings.            *)
LEMMA CountFinite ==
  ASSUME NEW length, NEW S, IsFiniteSet(S), \A i \in S : length[i] \in Nat
  PROVE  IsFiniteSet(Characters(length, S)) /\ CharCount(length, S) \in Nat
<1> DEFINE T == {{i} \X (1 .. length[i]) : i \in S}
           f == [i \in S |-> {i} \X (1 .. length[i])]
<1>1. f \in Surjection(S, T)
  <2>1. f \in [S -> T] /\ \A t \in T : \E i \in S : f[i] = t
    OBVIOUS
  <2> HIDE DEF f, T
  <2> QED
    BY <2>1 DEF Surjection
<1>2. \A t \in T : IsFiniteSet(t)
  <2>1. ASSUME NEW i \in S PROVE IsFiniteSet({i} \X (1 .. length[i]))
    <3>1. length[i] \in Nat
      OBVIOUS
    <3> QED
      BY <3>1, OneCount
  <2> QED
    BY <2>1
<1> HIDE DEF T, f
<1>3. IsFiniteSet(T)
  BY <1>1, FS_Surjection
<1>4. IsFiniteSet(UNION T)
  BY <1>2, <1>3, FS_UNION
<1>5. IsFiniteSet(Characters(length, S))
  BY <1>4 DEF Characters, T
<1> QED
  BY <1>5, FS_CardinalityType DEF CharCount

(* No string, no characters.                                               *)
LEMMA CountEmpty ==
  ASSUME NEW length
  PROVE  CharCount(length, {}) = 0
<1>1. Characters(length, {}) = {}
  BY CharactersAre
<1> QED
  BY <1>1, FS_EmptySet DEF CharCount

(* One more string adds its length.                                        *)
LEMMA CountAdd ==
  ASSUME NEW length, NEW S, IsFiniteSet(S), NEW x, x \notin S,
         \A i \in S \cup {x} : length[i] \in Nat
  PROVE  CharCount(length, S \cup {x}) = CharCount(length, S) + length[x]
<1> DEFINE C == Characters(length, S)
           D == {x} \X (1 .. length[x])
<1>1. Characters(length, S \cup {x}) = C \cup D
  <2>1. \A y : y \in D <=> \E c \in 1 .. length[x] : y = <<x, c>>
    OBVIOUS
  <2>2. \A y : y \in Characters(length, S \cup {x}) <=> y \in C \/ y \in D
    BY <2>1, CharactersAre
  <2> QED
    BY <2>2
<1>2. C \cap D = {}
  <2>1. \A y \in C : \E i \in S : y[1] = i
    BY CharactersAre
  <2>2. \A y \in D : y[1] = x
    OBVIOUS
  <2> QED
    BY <2>1, <2>2
<1>3. IsFiniteSet(C) /\ Cardinality(C) \in Nat
  BY CountFinite DEF CharCount
<1>4. IsFiniteSet(D) /\ Cardinality(D) = length[x] /\ length[x] \in Nat
  BY OneCount
<1> HIDE DEF C, D
<1>5. Cardinality(C \cup D) = Cardinality(C) + Cardinality(D) - Cardinality(C \cap D)
  BY <1>3, <1>4, FS_Union
<1>6. Cardinality(C \cap D) = 0
  BY <1>2, FS_EmptySet
<1>7. Cardinality(C \cup D) = Cardinality(C) + length[x]
  BY <1>3, <1>4, <1>5, <1>6
<1> QED
  BY <1>1, <1>7 DEF CharCount, C

(* One string less takes its length away.                                  *)
LEMMA CountRemove ==
  ASSUME NEW length, NEW S, IsFiniteSet(S), NEW x \in S, \A i \in S : length[i] \in Nat
  PROVE  CharCount(length, S) = CharCount(length, S \ {x}) + length[x]
<1> DEFINE T == S \ {x}
<1>1. IsFiniteSet(T) /\ x \notin T /\ S = T \cup {x}
  BY FS_RemoveElement
<1>2. \A i \in T \cup {x} : length[i] \in Nat
  OBVIOUS
<1> HIDE DEF T
<1>3. CharCount(length, T \cup {x}) = CharCount(length, T) + length[x]
  BY <1>1, <1>2, CountAdd
<1> QED
  BY <1>1, <1>3 DEF T

(* Fewer strings have fewer characters.                                    *)
LEMMA CountMono ==
  ASSUME NEW length, NEW T, IsFiniteSet(T), NEW S \in SUBSET T,
         \A i \in T : length[i] \in Nat
  PROVE  CharCount(length, S) <= CharCount(length, T)
<1>1. Characters(length, S) \in SUBSET Characters(length, T)
  BY CharactersAre
<1>2. IsFiniteSet(Characters(length, T))
  BY CountFinite
<1> QED
  BY <1>1, <1>2, FS_Subset DEF CharCount

(* Only the lengths count.                                                 *)
LEMMA CountSame ==
  ASSUME NEW length, NEW other, NEW S, NEW T, NEW h \in Bijection(S, T), IsFiniteSet(S),
         \A i \in S : length[i] \in Nat /\ length[i] = other[h[i]]
  PROVE  CharCount(length, S) = CharCount(other, T)
<1> DEFINE C == Characters(length, S)
           D == Characters(other, T)
           g == [x \in C |-> <<h[x[1]], x[2]>>]
<1>1. /\ \A i \in S : h[i] \in T
      /\ \A i, j \in S : h[i] = h[j] => i = j
      /\ \A t \in T : \E i \in S : h[i] = t
  BY DEF Bijection, Injection, Surjection, IsInjective
<1>2. \A x : x \in C <=> \E i \in S : \E c \in 1 .. length[i] : x = <<i, c>>
  BY CharactersAre
<1>3. \A x : x \in D <=> \E i \in T : \E c \in 1 .. other[i] : x = <<i, c>>
  BY CharactersAre
<1>4. g \in [C -> D]
  <2>1. ASSUME NEW x \in C PROVE <<h[x[1]], x[2]>> \in D
    <3>1. PICK i \in S : \E c \in 1 .. length[i] : x = <<i, c>>
      BY <1>2
    <3>2. PICK c \in 1 .. length[i] : x = <<i, c>>
      BY <3>1
    <3> QED
      BY <1>1, <1>3, <3>2
  <2> QED
    BY <2>1
<1>5. \A x, y \in C : g[x] = g[y] => x = y
  <2> SUFFICES ASSUME NEW x \in C, NEW y \in C, g[x] = g[y] PROVE x = y
    OBVIOUS
  <2>1. PICK i \in S : \E c \in 1 .. length[i] : x = <<i, c>>
    BY <1>2
  <2>2. PICK j \in S : \E c \in 1 .. length[j] : y = <<j, c>>
    BY <1>2
  <2> QED
    BY <1>1, <2>1, <2>2
<1>6. \A z \in D : \E x \in C : g[x] = z
  <2> SUFFICES ASSUME NEW z \in D PROVE \E x \in C : g[x] = z
    OBVIOUS
  <2>1. PICK t \in T : \E c \in 1 .. other[t] : z = <<t, c>>
    BY <1>3
  <2>2. PICK i \in S : h[i] = t
    BY <1>1
  <2>3. PICK c \in 1 .. length[i] : z = <<t, c>>
    BY <2>1, <2>2
  <2>4. <<i, c>> \in C
    BY <1>2
  <2>5. g[<<i, c>>] = z
    BY <2>2, <2>3, <2>4
  <2> QED
    BY <2>4, <2>5
<1>7. IsFiniteSet(C)
  BY CountFinite
<1> HIDE DEF C, D, g
<1>8. g \in Bijection(C, D)
  BY <1>4, <1>5, <1>6 DEF Bijection, Injection, Surjection, IsInjective
<1>9. ExistsBijection(C, D)
  BY <1>8 DEF ExistsBijection
<1>10. Cardinality(C) = Cardinality(D)
  BY <1>7, <1>9, FS_Bijection
<1> QED
  BY <1>10 DEF CharCount, C, D

(***************************************************************************)
(* The pool and those who hold its names.                                  *)
(***************************************************************************)

(* The slots of held have the names of the keys in K, each of them once.   *)
Holding(held, K) ==
  /\ DOMAIN held \subseteq Nat /\ IsFiniteSet(DOMAIN held)
  /\ \A i \in DOMAIN held : held[i] \in Slot
  /\ \A i, j \in DOMAIN held :
       Live(held[i]) /\ Live(held[j]) /\ held[i].name = held[j].name => i = j
  /\ \A k : k \in K <=> \E i \in DOMAIN held : Live(held[i]) /\ held[i].name = k

Aborts == {"pool_allocation_error", "key_staging_error"}

(* An assertion that holds.                                                *)
LEMMA AssertHolds ==
  ASSUME NEW p, NEW condition, NEW expression, condition
  PROVE  PoolAssert(p, condition, expression) = p
BY DEF PoolAssert

(* The result of malloc() or realloc(): only the error may differ.         *)
LEMMA AllocatedIs ==
  ASSUME NEW K, NEW p, GoodPool(p, K), NEW capacity
  PROVE  LET q == Allocated(p, capacity)
         IN  /\ GoodPool(q, K)
             /\ q.size = p.size /\ q.used = p.used /\ q.capacity = p.capacity
             /\ q.error \in {p.error, "pool_allocation_error"}
<1> DEFINE q == Allocated(p, capacity)
<1>1. \/ q = p
      \/ q = [p EXCEPT !.error = "pool_allocation_error"]
  BY DEF Allocated, PoolAssert
<1>2. p \in PoolType
  BY DEF GoodPool
<1> HIDE DEF q
<1>3. /\ q \in PoolType
      /\ q.buffer = p.buffer /\ q.size = p.size /\ q.used = p.used
      /\ q.capacity = p.capacity /\ q.text = p.text /\ q.name = p.name
      /\ q.error \in {p.error, "pool_allocation_error"}
  BY <1>1, <1>2 DEF PoolType
<1>4. GoodPool(q, K)
  BY <1>3 DEF GoodPool, TextLaidOut, Named
<1> QED
  BY <1>3, <1>4 DEF q

(* The names in the pool are those of the holders: they read as their      *)
(* keys.                                                                   *)
LEMMA HoldersNamed ==
  ASSUME NEW K, NEW p, GoodPool(p, K), NEW held, Holding(held, K)
  PROVE  /\ \A i \in PooledHolders(p, held) :
              /\ i \in Nat /\ i \in DOMAIN held /\ held[i].name \in InPool(K)
              /\ ReadsAs(p, p.name[held[i].name], held[i].name)
         /\ \A k \in InPool(K) : \E i \in PooledHolders(p, held) : held[i].name = k
         /\ \A i, j \in PooledHolders(p, held) : held[i].name = held[j].name => i = j
         /\ IsFiniteSet(PooledHolders(p, held))
<1>1. ASSUME NEW k \in InPool(K)
      PROVE  p.name[k] # TheEmptyString /\ ReadsAs(p, p.name[k], k)
  <2>1. Named(p, k) /\ p.buffer \in Buffers
    BY <1>1 DEF GoodPool, PoolType
  <2> QED
    BY <2>1 DEF Named, ReadsAs, TheEmptyString, Pointer, Buffers
<1>2. \A k \in K : k \notin InPool(K) => p.name[k] = TheEmptyString
  BY DEF GoodPool, InPool
<1>3. \A i : i \in PooledHolders(p, held) <=>
             /\ i \in DOMAIN held /\ Live(held[i])
             /\ p.name[held[i].name] # TheEmptyString
  BY DEF PooledHolders, Live
<1>4. \A i \in PooledHolders(p, held) : held[i].name \in InPool(K) /\ i \in DOMAIN held
  BY <1>2, <1>3 DEF Holding
<1>5. \A k \in InPool(K) : \E i \in PooledHolders(p, held) : held[i].name = k
  <2>1. InPool(K) \subseteq K
    BY DEF InPool
  <2> QED
    BY <1>1, <1>3, <2>1 DEF Holding
<1>6. PooledHolders(p, held) \in SUBSET DOMAIN held
  BY <1>3
<1>7. IsFiniteSet(PooledHolders(p, held))
  BY <1>6, FS_Subset DEF Holding
<1> QED
  BY <1>1, <1>3, <1>4, <1>5, <1>7 DEF Holding

(* The loops over the names give each holder its new pointer, and leave    *)
(* the other names alone.                                                  *)
LEMMA NewNames ==
  ASSUME NEW K, NEW p, GoodPool(p, K), NEW held, Holding(held, K),
         NEW new \in [PooledHolders(p, held) -> PointerType]
  PROVE  /\ WithNames(p, held, new) \in [Key -> PointerType]
         /\ \A i \in PooledHolders(p, held) :
              WithNames(p, held, new)[held[i].name] = new[i]
         /\ \A k \in K : StrSize[k] = 1 => WithNames(p, held, new)[k] = p.name[k]
<1> DEFINE M == PooledHolders(p, held)
           W == WithNames(p, held, new)
<1>1. K \subseteq Key /\ p.name \in [Key -> PointerType]
  BY DEF GoodPool, PoolType
<1>2. /\ \A i \in M : held[i].name \in InPool(K)
      /\ \A i, j \in M : held[i].name = held[j].name => i = j
  BY HoldersNamed
<1>3. W = [k \in Key |-> IF \E i \in M : held[i].name = k
                        THEN new[CHOOSE i \in M : held[i].name = k] ELSE p.name[k]]
  BY DEF WithNames
<1> HIDE DEF M, W
<1>4. ASSUME NEW i \in M PROVE (CHOOSE j \in M : held[j].name = held[i].name) = i
  BY <1>2
<1>5. ASSUME NEW i \in M PROVE W[held[i].name] = new[i]
  <2>1. held[i].name \in Key
    BY <1>1, <1>2 DEF InPool
  <2> QED
    BY <1>3, <1>4, <2>1
<1>6. ASSUME NEW k \in Key PROVE W[k] \in PointerType
  <2>1. CASE \E i \in M : held[i].name = k
    BY <1>5, <2>1 DEF M
  <2>2. CASE ~\E i \in M : held[i].name = k
    BY <1>1, <1>3, <2>2
  <2> QED
    BY <2>1, <2>2
<1>7. W \in [Key -> PointerType]
  BY <1>3, <1>6
<1>8. ASSUME NEW k \in K, StrSize[k] = 1 PROVE W[k] = p.name[k]
  BY <1>1, <1>2, <1>3, <1>8 DEF InPool
<1> QED
  BY <1>5, <1>7, <1>8 DEF M, W

(* What is known of the strings of a pool.                                 *)
LEMMA TextFacts ==
  ASSUME NEW K, NEW p, GoodPool(p, K)
  PROVE  /\ p.size \in Nat /\ p.used \in Nat /\ p.capacity \in Nat
         /\ \A k \in Key : StrSize[k] \in Nat /\ StrSize[k] > 0
         /\ \A t \in p.text : /\ t \in StrType /\ t.offset \in Nat /\ t.key \in Key
                              /\ t.offset < EndOf(t) /\ EndOf(t) <= p.size
         /\ \A t, u \in p.text : t.offset = u.offset => t = u
<1>1. p.size \in Nat /\ p.used \in Nat /\ p.capacity \in Nat /\ p.text \subseteq StrType
  BY DEF GoodPool, PoolType
<1>2. \A k \in Key : StrSize[k] \in Nat /\ StrSize[k] > 0
  BY PoolAssumption
<1>3. \A t \in p.text : t \in StrType /\ t.offset \in Nat /\ t.key \in Key
  BY <1>1 DEF StrType
<1>4. \A t \in p.text : t.offset < EndOf(t) /\ EndOf(t) \in Nat
  BY <1>2, <1>3 DEF EndOf
<1>5. TextLaidOut(p)
  BY DEF GoodPool
<1>6. ASSUME NEW t \in p.text, NEW u \in p.text, t.offset = u.offset, t # u PROVE FALSE
  <2>1. EndOf(t) <= u.offset \/ EndOf(u) <= t.offset
    BY <1>5, <1>6 DEF TextLaidOut
  <2> QED
    BY <1>3, <1>4, <1>6, <2>1
<1> QED
  BY <1>1, <1>2, <1>3, <1>4, <1>5, <1>6 DEF TextLaidOut

(* A name in the pool is below the watermark.                              *)
LEMMA NamedBelow ==
  ASSUME NEW K, NEW p, GoodPool(p, K), NEW k \in InPool(K)
  PROVE  \E t \in p.text :
           /\ t.key = k /\ ~t.wiped /\ t.offset = p.name[k].offset
           /\ t.offset < EndOf(t) /\ EndOf(t) <= p.size /\ t.offset \in Nat
<1>1. Named(p, k)
  BY DEF GoodPool
<1> QED
  BY <1>1, TextFacts DEF Named

(* coucal_realloc_pool(), the buffer moved or not: the same names, read in *)
(* the new buffer, and offsets that are within it.                         *)
LEMMA ReallocKeeps ==
  ASSUME NEW K, NEW p, GoodPool(p, K), NEW held, Holding(held, K),
         NEW capacity \in Nat, p.size <= capacity, NEW b \in Buffers
  PROVE  LET q == ReallocAt(p, held, capacity, b)
         IN  /\ GoodPool(q, K)
             /\ q.size = p.size /\ q.capacity = capacity
             /\ q.error \in {p.error, "pool_allocation_error"}
<1> DEFINE M == PooledHolders(p, held)
           rebased == [i \in M |-> Pointer(b, p.name[held[i].name].offset)]
           names == IF b = p.buffer THEN p.name ELSE WithNames(p, held, rebased)
           new == [p EXCEPT !.buffer = b, !.capacity = capacity, !.name = names]
           inside == \A i \in M : p.name[held[i].name].offset < capacity
<1>1. ReallocAt(p, held, capacity, b) =
        PoolAssert(Allocated(new, capacity), inside, "offset_capacity")
  BY DEF ReallocAt
<1>2. p \in PoolType /\ K \subseteq Key /\ p.name \in [Key -> PointerType]
  BY DEF GoodPool, PoolType
<1>3. /\ \A i \in M : held[i].name \in InPool(K)
      /\ \A k \in InPool(K) : \E i \in M : held[i].name = k
  BY HoldersNamed
<1>4. \A k \in InPool(K) : k \in Key /\ p.name[k].offset \in Nat
                            /\ p.name[k].offset < p.size /\ p.size \in Nat
  <2> SUFFICES ASSUME NEW k \in InPool(K)
               PROVE  k \in Key /\ p.name[k].offset \in Nat
                      /\ p.name[k].offset < p.size /\ p.size \in Nat
    OBVIOUS
  <2>1. PICK t \in p.text : /\ t.offset = p.name[k].offset /\ t.offset \in Nat
                            /\ t.offset < EndOf(t) /\ EndOf(t) <= p.size
    BY NamedBelow
  <2>2. p.size \in Nat /\ EndOf(t) \in Nat /\ k \in Key
    BY <1>2, TextFacts DEF EndOf, InPool
  <2> QED
    BY <2>1, <2>2
<1>5. inside
  BY <1>3, <1>4
<1>6. rebased \in [M -> PointerType]
  BY <1>3, <1>4 DEF PointerType, Pointer
<1> HIDE DEF M, rebased
<1>7. /\ names \in [Key -> PointerType]
      /\ \A k \in K : StrSize[k] = 1 => names[k] = p.name[k]
  BY <1>2, <1>6, NewNames DEF M
<1>8. ASSUME NEW k \in InPool(K)
      PROVE  names[k].buffer = b /\ names[k].offset = p.name[k].offset
  <2>1. CASE b = p.buffer
    BY <1>8, <2>1 DEF GoodPool, Named
  <2>2. CASE b # p.buffer
    <3>1. PICK i \in M : held[i].name = k
      BY <1>3
    <3>2. names[k] = rebased[i]
      BY <1>6, <2>2, <3>1, NewNames DEF M
    <3>3. rebased[i] = Pointer(b, p.name[k].offset)
      BY <3>1 DEF rebased
    <3> QED
      BY <3>2, <3>3 DEF Pointer
  <2> QED
    BY <2>1, <2>2
<1> HIDE DEF names
<1>9. /\ new \in PoolType /\ new.buffer = b /\ new.size = p.size /\ new.used = p.used
      /\ new.capacity = capacity /\ new.text = p.text /\ new.name = names
      /\ new.error = p.error
  BY <1>2, <1>7 DEF PoolType
<1> HIDE DEF new
<1>10. GoodPool(new, K)
  <2>1. TextLaidOut(new)
    BY <1>9 DEF GoodPool, TextLaidOut
  <2>2. \A k \in InPool(K) : Named(new, k)
    BY <1>8, <1>9 DEF GoodPool, Named
  <2>3. \A k \in K : StrSize[k] = 1 => new.name[k] = TheEmptyString
    BY <1>7, <1>9 DEF GoodPool
  <2> QED
    BY <1>9, <2>1, <2>2, <2>3 DEF GoodPool
<1>11. ReallocAt(p, held, capacity, b) = Allocated(new, capacity)
  BY <1>1, <1>5, AssertHolds
<1> QED
  BY <1>9, <1>10, <1>11, AllocatedIs

(* The copy of a key at the watermark.                                     *)
LEMMA CopyAdds ==
  ASSUME NEW K, NEW p, GoodPool(p, K), NEW k \in Key, k \notin K, StrSize[k] # 1,
         p.size + StrSize[k] <= p.capacity, NEW ptr, ReadsAs(p, ptr, k)
  PROVE  GoodPool(CopyTo(p, k, ptr), K \cup {k}) /\ CopyTo(p, k, ptr).error = p.error
<1> DEFINE end == p.size + StrSize[k]
           kept == {t \in p.text : t.offset + StrSize[t.key] <= p.size \/ t.offset >= end}
           written == {Str(p.size, k, FALSE) : x \in {r \in {ptr} : ReadsAs(p, r, k)}}
           q == [p EXCEPT !.text = kept \cup written, !.size = end, !.used = @ + StrSize[k],
                          !.name[k] = Pointer(p.buffer, p.size)]
           s == Str(p.size, k, FALSE)
<1>1. CopyTo(p, k, ptr) = q
  BY AssertHolds DEF CopyTo
<1>2. p \in PoolType /\ K \subseteq Key /\ IsFiniteSet(K)
  BY DEF GoodPool
<1>3. /\ p.size \in Nat /\ p.used \in Nat /\ p.capacity \in Nat
      /\ StrSize[k] \in Nat /\ StrSize[k] > 0
      /\ \A t \in p.text : t \in StrType /\ EndOf(t) <= p.size
  BY TextFacts
<1>4. kept = p.text /\ written = {s}
  BY <1>3 DEF EndOf
<1>5. /\ s \in StrType /\ s.offset = p.size /\ s.key = k /\ ~s.wiped /\ EndOf(s) = end
      /\ end \in Nat
  BY <1>3 DEF Str, StrType, EndOf
<1>6. Pointer(p.buffer, p.size) \in PointerType
  BY <1>2 DEF PoolType, Pointer, PointerType
<1> HIDE DEF kept, written, s
<1>7. p.text \cup {s} \in SUBSET StrType
  BY <1>3, <1>5
<1>8. /\ q \in PoolType /\ q.buffer = p.buffer /\ q.size = end /\ q.used = p.used + StrSize[k]
      /\ q.capacity = p.capacity /\ q.text = p.text \cup {s}
      /\ q.name = [p.name EXCEPT ![k] = Pointer(p.buffer, p.size)] /\ q.error = p.error
  <2> DEFINE text == kept \cup written
             chars == p.used + StrSize[k]
             r == [p EXCEPT !.text = text, !.size = end, !.used = chars]
  <2>1. q = [r EXCEPT !.name = [r.name EXCEPT ![k] = Pointer(p.buffer, p.size)]]
    OBVIOUS
  <2>2. text = p.text \cup {s} /\ text \in SUBSET StrType /\ chars \in Nat /\ end \in Nat
    BY <1>3, <1>4, <1>5, <1>7
  <2> HIDE DEF text, chars, end
  <2>3. /\ r \in PoolType /\ r.buffer = p.buffer /\ r.size = end
        /\ r.used = chars /\ r.capacity = p.capacity
        /\ r.text = text /\ r.name = p.name /\ r.error = p.error
    BY <1>2, <2>2 DEF PoolType
  <2> HIDE DEF r, q
  <2> QED
    BY <1>6, <2>1, <2>2, <2>3 DEF PoolType, chars, end
<1> HIDE DEF q
<1>9. \A l \in Key : q.name[l] = IF l = k THEN Pointer(p.buffer, p.size) ELSE p.name[l]
  BY <1>2, <1>8 DEF PoolType
<1>10. TextLaidOut(q)
  <2>1. \A t \in q.text : EndOf(t) <= q.size
    <3>1. \A t \in p.text : EndOf(t) \in Nat
      BY <1>3, TextFacts DEF EndOf
    <3> QED
      BY <1>3, <1>5, <1>8, <3>1
  <2>2. ASSUME NEW t \in q.text, NEW u \in q.text, t # u
        PROVE  EndOf(t) <= u.offset \/ EndOf(u) <= t.offset
    <3>1. CASE t \in p.text /\ u \in p.text
      BY <2>2, <3>1 DEF GoodPool, TextLaidOut
    <3>2. CASE t = s
      BY <1>3, <1>5, <1>8, <2>2, <3>2
    <3>3. CASE u = s
      BY <1>3, <1>5, <1>8, <2>2, <3>3
    <3> QED
      BY <1>8, <3>1, <3>2, <3>3
  <2> QED
    BY <2>1, <2>2 DEF TextLaidOut
<1>11. InPool(K \cup {k}) = InPool(K) \cup {k} /\ k \notin InPool(K)
  BY DEF InPool
<1>12. \A l \in InPool(K \cup {k}) : Named(q, l)
  <2>1. \A l \in InPool(K) : Named(q, l)
    <3>1. \A l \in InPool(K) : l \in Key /\ l # k /\ Named(p, l)
      BY <1>2 DEF GoodPool, InPool
    <3> QED
      BY <1>8, <1>9, <3>1 DEF Named
  <2>2. Named(q, k)
    BY <1>5, <1>8, <1>9 DEF Named, Pointer
  <2> QED
    BY <1>11, <2>1, <2>2
<1>13. \A l \in K \cup {k} : StrSize[l] = 1 => q.name[l] = TheEmptyString
  BY <1>2, <1>9 DEF GoodPool
<1>14. q.used = CharCount(StrSize, InPool(K \cup {k})) /\ IsFiniteSet(K \cup {k})
  <2>1. IsFiniteSet(InPool(K)) /\ \A l \in InPool(K) \cup {k} : StrSize[l] \in Nat
    <3>1. InPool(K) \in SUBSET K /\ \A l \in InPool(K) \cup {k} : l \in Key
      BY <1>2 DEF InPool
    <3> QED
      BY <1>2, <3>1, FS_Subset, TextFacts
  <2>2. CharCount(StrSize, InPool(K) \cup {k}) = CharCount(StrSize, InPool(K)) + StrSize[k]
    BY <1>11, <2>1, CountAdd
  <2> QED
    BY <1>2, <1>8, <1>11, <2>2, FS_AddElement DEF GoodPool
<1>15. q.used <= q.size /\ q.size <= q.capacity
  BY <1>3, <1>8 DEF GoodPool
<1>16. GoodPool(q, K \cup {k})
  BY <1>2, <1>8, <1>10, <1>12, <1>13, <1>14, <1>15 DEF GoodPool
<1> QED
  BY <1>1, <1>8, <1>16

(* Where the compaction puts the strings: one after the other, in as many  *)
(* characters as are used.                                                 *)
LEMMA CompactLayout ==
  ASSUME NEW K, NEW p, GoodPool(p, K), NEW held, Holding(held, K), NEW length,
         length = [i \in PooledHolders(p, held) |-> StrSize[held[i].name]]
  PROVE  LET M == PooledHolders(p, held)
             dest(i) == CharCount(length, {j \in M : j < i})
         IN  /\ CharCount(length, M) = p.used
             /\ \A i \in M : dest(i) \in Nat /\ dest(i) + length[i] <= p.used
             /\ \A i, j \in M : i < j => dest(i) + length[i] <= dest(j)
<1> DEFINE M == PooledHolders(p, held)
           below(i) == {j \in M : j < i}
           dest(i) == CharCount(length, below(i))
           h == [i \in M |-> held[i].name]
<1>1. /\ \A i \in M : i \in Nat /\ held[i].name \in InPool(K)
      /\ \A k \in InPool(K) : \E i \in M : held[i].name = k
      /\ \A i, j \in M : held[i].name = held[j].name => i = j
      /\ IsFiniteSet(M)
  BY HoldersNamed
<1>2. K \subseteq Key /\ p.used = CharCount(StrSize, InPool(K)) /\ p.used \in Nat
  BY DEF GoodPool, PoolType
<1>3. \A i \in M : length[i] = StrSize[held[i].name] /\ length[i] \in Nat
  BY <1>1, <1>2, TextFacts DEF InPool
<1>4. /\ h \in [M -> InPool(K)] /\ \A i, j \in M : h[i] = h[j] => i = j
      /\ \A k \in InPool(K) : \E i \in M : h[i] = k
  BY <1>1
<1>5. \A i \in M : length[i] = StrSize[h[i]]
  BY <1>3
<1> HIDE DEF M, h
<1>6. h \in Bijection(M, InPool(K))
  BY <1>4 DEF Bijection, Injection, Surjection, IsInjective
<1>7. CharCount(length, M) = p.used
  BY <1>1, <1>2, <1>3, <1>5, <1>6, CountSame
<1>8. ASSUME NEW i \in M
      PROVE  /\ IsFiniteSet(below(i)) /\ dest(i) \in Nat
             /\ CharCount(length, below(i) \cup {i}) = dest(i) + length[i]
  <2>1. below(i) \in SUBSET M /\ i \notin below(i)
    BY <1>1
  <2>2. IsFiniteSet(below(i)) /\ \A j \in below(i) \cup {i} : length[j] \in Nat
    BY <1>1, <1>3, <2>1, FS_Subset
  <2> DEFINE B == below(i)
  <2> HIDE DEF B
  <2>3. i \notin B /\ IsFiniteSet(B) /\ \A j \in B \cup {i} : length[j] \in Nat
    BY <2>1, <2>2 DEF B
  <2>4. /\ CharCount(length, B) \in Nat
        /\ CharCount(length, B \cup {i}) = CharCount(length, B) + length[i]
    BY <2>3, CountFinite, CountAdd
  <2> QED
    BY <2>3, <2>4 DEF B
<1>9. ASSUME NEW i \in M PROVE dest(i) \in Nat /\ dest(i) + length[i] <= p.used
  <2>1. below(i) \cup {i} \in SUBSET M
    OBVIOUS
  <2>2. CharCount(length, below(i) \cup {i}) <= CharCount(length, M)
    BY <1>1, <1>3, <2>1, CountMono
  <2> QED
    BY <1>7, <1>8, <2>2
<1>10. ASSUME NEW i \in M, NEW j \in M, i < j PROVE dest(i) + length[i] <= dest(j)
  <2>1. ASSUME NEW l \in M, l < i
        PROVE  l < j
    <3>1. l \in Nat /\ i \in Nat /\ j \in Nat
      BY <1>1
    <3> QED
      BY <1>10, <2>1, <3>1
  <2>2. below(i) \cup {i} \in SUBSET below(j)
    BY <1>10, <2>1
  <2>3. \A l \in below(j) : length[l] \in Nat
    <3>1. below(j) \in SUBSET M
      OBVIOUS
    <3> QED
      BY <1>3, <3>1
  <2>4. IsFiniteSet(below(j))
    BY <1>8
  <2>5. CharCount(length, below(i) \cup {i}) <= CharCount(length, below(j))
    BY <2>2, <2>3, <2>4, CountMono
  <2> QED
    BY <1>8, <2>5
<1> QED
  BY <1>7, <1>9, <1>10 DEF M

(* coucal_compact_pool(): the same names, and no holes.                    *)
LEMMA CompactKeeps ==
  ASSUME NEW K, NEW p, GoodPool(p, K), NEW held, Holding(held, K),
         NEW capacity \in Nat, p.used <= capacity
  PROVE  LET q == CompactPool(p, held, capacity)
         IN  /\ GoodPool(q, K)
             /\ q.size = p.used /\ q.capacity = capacity
             /\ q.error \in {p.error, "pool_allocation_error"}
<1> DEFINE M == PooledHolders(p, held)
           reads(i) == ReadsAs(p, p.name[held[i].name], held[i].name)
           length == [i \in M |-> IF reads(i) THEN StrSize[held[i].name] ELSE 1]
           dest(i) == CharCount(length, {j \in M : j < i})
           moved == [i \in M |-> Pointer(OtherBuffer(p), dest(i))]
           total == CharCount(length, M)
           text == {Str(dest(i), held[i].name, FALSE) : i \in {j \in M : reads(j)}}
           names == WithNames(p, held, moved)
           b == OtherBuffer(p)
           new == [p EXCEPT !.buffer = b, !.capacity = capacity, !.size = total,
                            !.used = total, !.text = text, !.name = names]
<1>1. CompactPool(p, held, capacity) =
        PoolAssert(Allocated(new, capacity), total <= capacity, "dest_max_dest")
  BY DEF CompactPool
<1>2. /\ p \in PoolType /\ K \subseteq Key /\ IsFiniteSet(K)
      /\ p.used = CharCount(StrSize, InPool(K)) /\ p.used \in Nat
  BY DEF GoodPool, PoolType
<1>3. /\ \A i \in M : reads(i) /\ i \in Nat /\ held[i].name \in InPool(K)
      /\ \A k \in InPool(K) : \E i \in M : held[i].name = k
      /\ \A i, j \in M : held[i].name = held[j].name => i = j
  BY HoldersNamed
<1>4. length = [i \in M |-> StrSize[held[i].name]]
  BY <1>3
<1>5. text = {Str(dest(i), held[i].name, FALSE) : i \in M}
  BY <1>3
<1> HIDE DEF reads, length, text
<1>6. /\ total = p.used
      /\ \A i \in M : dest(i) \in Nat /\ dest(i) + length[i] <= p.used
      /\ \A i, j \in M : i < j => dest(i) + length[i] <= dest(j)
  BY <1>4, CompactLayout
<1> HIDE DEF total, dest
<1>7. b \in Buffers
  BY DEF OtherBuffer, Buffers
<1> HIDE DEF b
<1>8. moved \in [M -> PointerType]
  <2>1. \A i \in M : dest(i) \in Nat /\ OtherBuffer(p) \in Buffers
    BY <1>6, <1>7 DEF b
  <2> QED
    BY <2>1 DEF PointerType, Pointer
<1> HIDE DEF M, moved
<1>9. /\ names \in [Key -> PointerType]
      /\ \A i \in M : names[held[i].name] = moved[i]
      /\ \A k \in K : StrSize[k] = 1 => names[k] = p.name[k]
  BY <1>8, NewNames DEF M
<1>10. \A i \in M : /\ moved[i].buffer = b /\ moved[i].offset = dest(i)
  BY DEF moved, b, Pointer
<1> HIDE DEF names
<1>11. /\ \A t \in text : \E i \in M : /\ t.offset = dest(i) /\ t.key = held[i].name
                                       /\ ~t.wiped /\ t = Str(dest(i), held[i].name, FALSE)
       /\ \A i \in M : \E t \in text : /\ t.offset = dest(i) /\ t.key = held[i].name
                                       /\ ~t.wiped
  <2>1. \A t : t \in text <=> \E i \in M : t = Str(dest(i), held[i].name, FALSE)
    BY <1>5
  <2>2. \A i \in M : /\ Str(dest(i), held[i].name, FALSE).offset = dest(i)
                     /\ Str(dest(i), held[i].name, FALSE).key = held[i].name
                     /\ ~Str(dest(i), held[i].name, FALSE).wiped
    BY DEF Str
  <2> QED
    BY <2>1, <2>2
<1>12. text \in SUBSET StrType
  <2>1. \A i \in M : dest(i) \in Nat /\ held[i].name \in Key
    BY <1>2, <1>3, <1>6 DEF InPool, M
  <2>2. \A i \in M : Str(dest(i), held[i].name, FALSE) \in StrType
    BY <2>1 DEF Str, StrType
  <2> QED
    BY <1>11, <2>2
<1>13. total \in Nat
  BY <1>2, <1>6
<1>14. /\ new \in PoolType /\ new.buffer = b /\ new.size = total /\ new.used = total
       /\ new.capacity = capacity /\ new.text = text /\ new.name = names
       /\ new.error = p.error
  BY <1>2, <1>7, <1>9, <1>12, <1>13 DEF PoolType
<1> HIDE DEF new
<1>15. TextLaidOut(new)
  <2>1. \A t \in text, i \in M :
          t.offset = dest(i) /\ t.key = held[i].name => EndOf(t) = dest(i) + length[i]
    BY <1>4 DEF EndOf, M
  <2>2. \A t \in text : EndOf(t) <= total
    BY <1>6, <1>11, <2>1 DEF M
  <2>3. ASSUME NEW t \in text, NEW u \in text, t # u
        PROVE  EndOf(t) <= u.offset \/ EndOf(u) <= t.offset
    <3>1. PICK i \in M : /\ t.offset = dest(i) /\ t.key = held[i].name
                         /\ t = Str(dest(i), held[i].name, FALSE)
      BY <1>11
    <3>2. PICK j \in M : /\ u.offset = dest(j) /\ u.key = held[j].name
                         /\ u = Str(dest(j), held[j].name, FALSE)
      BY <1>11
    <3>3. i # j /\ i \in Nat /\ j \in Nat
      BY <1>3, <2>3, <3>1, <3>2 DEF M
    <3>4. CASE i < j
      BY <1>6, <2>1, <3>1, <3>2, <3>4 DEF M
    <3>5. CASE j < i
      BY <1>6, <2>1, <3>1, <3>2, <3>5 DEF M
    <3> QED
      BY <3>3, <3>4, <3>5
  <2> QED
    BY <1>14, <2>2, <2>3 DEF TextLaidOut
<1>16. ASSUME NEW k \in InPool(K) PROVE Named(new, k)
  <2>1. PICK i \in M : held[i].name = k
    BY <1>3 DEF M
  <2>2. names[k].buffer = b /\ names[k].offset = dest(i)
    BY <1>9, <1>10, <2>1
  <2>3. PICK t \in text : t.offset = dest(i) /\ t.key = k /\ ~t.wiped
    BY <1>11, <2>1
  <2> QED
    BY <1>14, <2>2, <2>3 DEF Named
<1>17. \A k \in K : StrSize[k] = 1 => new.name[k] = TheEmptyString
  BY <1>9, <1>14 DEF GoodPool
<1>18. GoodPool(new, K)
  BY <1>2, <1>6, <1>13, <1>14, <1>15, <1>16, <1>17 DEF GoodPool
<1>19. CompactPool(p, held, capacity) = Allocated(new, capacity)
  BY <1>1, <1>6, AssertHolds
<1> QED
  BY <1>6, <1>14, <1>18, <1>19, AllocatedIs

(* The release of a name wipes its string, and no other.                   *)
LEMMA WipedKeeps ==
  ASSUME NEW K, NEW p, GoodPool(p, K), NEW k \in InPool(K)
  PROVE  /\ GoodPool(Wiped(p, k), K \ {k}) /\ Wiped(p, k).error = p.error
<1> DEFINE wipe == [t \in p.text |-> IF t.offset = p.name[k].offset
                                    THEN [t EXCEPT !.wiped = TRUE] ELSE t]
           text == {IF t.offset = p.name[k].offset
                    THEN [t EXCEPT !.wiped = TRUE] ELSE t : t \in p.text}
           chars == p.used - StrSize[k]
           q == [p EXCEPT !.used = chars, !.text = text, !.name[k] = Nil]
<1>1. Wiped(p, k) = q
  BY DEF Wiped
<1>2. p \in PoolType /\ K \subseteq Key /\ IsFiniteSet(K) /\ k \in Key /\ k \in K
  BY DEF GoodPool, InPool
<1>3. /\ p.size \in Nat /\ p.used \in Nat /\ p.capacity \in Nat
      /\ StrSize[k] \in Nat /\ StrSize[k] > 0
      /\ \A t \in p.text : t \in StrType /\ EndOf(t) <= p.size
      /\ \A t, u \in p.text : t.offset = u.offset => t = u
  BY <1>2, TextFacts
<1>4. \A t \in p.text :
        /\ wipe[t] \in StrType /\ wipe[t].offset = t.offset /\ wipe[t].key = t.key
        /\ t.offset # p.name[k].offset => wipe[t] = t
  BY <1>3 DEF StrType
<1>5. \A u : u \in text <=> \E t \in p.text : u = wipe[t]
  OBVIOUS
<1> HIDE DEF wipe, text
<1>6. text \in SUBSET StrType
  <2>1. \A t \in p.text : wipe[t] \in StrType
    BY <1>4
  <2> QED
    BY <1>5, <2>1
<1>7. IsFiniteSet(InPool(K)) /\ \A l \in InPool(K) : l \in Key /\ StrSize[l] \in Nat
  <2>1. InPool(K) \in SUBSET K
    BY DEF InPool
  <2> QED
    BY <1>2, <2>1, FS_Subset, TextFacts
<1>8. InPool(K \ {k}) = InPool(K) \ {k}
  BY DEF InPool
<1>9. chars = CharCount(StrSize, InPool(K \ {k})) /\ chars \in Nat
  <2>1. CharCount(StrSize, InPool(K)) = CharCount(StrSize, InPool(K) \ {k}) + StrSize[k]
    BY <1>7, CountRemove
  <2>2. IsFiniteSet(InPool(K) \ {k}) /\ \A l \in InPool(K) \ {k} : StrSize[l] \in Nat
    BY <1>7, FS_RemoveElement
  <2>3. CharCount(StrSize, InPool(K) \ {k}) \in Nat
    BY <2>2, CountFinite
  <2>4. p.used = CharCount(StrSize, InPool(K))
    BY DEF GoodPool
  <2> DEFINE rest == CharCount(StrSize, InPool(K \ {k}))
  <2>5. rest \in Nat /\ p.used = rest + StrSize[k]
    BY <1>8, <2>1, <2>3, <2>4
  <2> HIDE DEF rest
  <2>6. chars = rest
    BY <1>3, <2>5
  <2> QED
    BY <2>5, <2>6 DEF rest
<1>10. chars <= p.used
  BY <1>3
<1> HIDE DEF chars
<1>11. Nil \in PointerType
  BY DEF Nil, Pointer, PointerType, Buffers
<1>12. /\ q \in PoolType /\ q.buffer = p.buffer /\ q.size = p.size /\ q.used = chars
       /\ q.capacity = p.capacity /\ q.text = text
       /\ q.name = [p.name EXCEPT ![k] = Nil] /\ q.error = p.error
  <2> DEFINE r == [p EXCEPT !.used = chars, !.text = text]
  <2>1. q = [r EXCEPT !.name = [r.name EXCEPT ![k] = Nil]]
    OBVIOUS
  <2>2. /\ r \in PoolType /\ r.buffer = p.buffer /\ r.size = p.size
        /\ r.used = chars /\ r.capacity = p.capacity
        /\ r.text = text /\ r.name = p.name /\ r.error = p.error
    BY <1>2, <1>6, <1>9 DEF PoolType
  <2> HIDE DEF r, q
  <2> QED
    BY <1>2, <1>11, <2>1, <2>2 DEF PoolType
<1> HIDE DEF q
<1>13. \A l \in Key : l # k => q.name[l] = p.name[l]
  BY <1>2, <1>12 DEF PoolType
<1>14. TextLaidOut(q)
  <2>1. ASSUME NEW t \in p.text
        PROVE  EndOf(wipe[t]) = EndOf(t) /\ wipe[t].offset = t.offset
    <3> DEFINE u == wipe[t]
    <3>1. u.offset = t.offset /\ u.key = t.key
      BY <1>4
    <3> HIDE DEF u
    <3>2. EndOf(u) = EndOf(t)
      BY <3>1 DEF EndOf
    <3> QED
      BY <3>1, <3>2 DEF u
  <2>2. \A u \in text : EndOf(u) <= q.size
    BY <1>3, <1>5, <1>12, <2>1
  <2>3. ASSUME NEW t \in text, NEW u \in text, t # u
        PROVE  EndOf(t) <= u.offset \/ EndOf(u) <= t.offset
    <3>1. PICK v \in p.text : t = wipe[v]
      BY <1>5
    <3>2. PICK w \in p.text : u = wipe[w]
      BY <1>5
    <3>3. EndOf(v) <= w.offset \/ EndOf(w) <= v.offset
      BY <2>3, <3>1, <3>2 DEF GoodPool, TextLaidOut
    <3> QED
      BY <2>1, <3>1, <3>2, <3>3
  <2> QED
    BY <1>12, <2>2, <2>3 DEF TextLaidOut
<1>15. ASSUME NEW l \in InPool(K \ {k}) PROVE Named(q, l)
  <2>1. l \in InPool(K) /\ l # k /\ l \in Key
    BY <1>7, <1>8
  <2>2. PICK t \in p.text : t.key = l /\ ~t.wiped /\ t.offset = p.name[l].offset
    BY <2>1, NamedBelow
  <2>3. PICK u \in p.text : u.key = k /\ u.offset = p.name[k].offset
    BY NamedBelow
  <2>4. t.offset # p.name[k].offset
    BY <1>3, <2>1, <2>2, <2>3
  <2>5. t \in text
    <3>1. wipe[t] = t
      BY <1>4, <2>4
    <3> QED
      BY <1>5, <3>1
  <2>6. p.name[l].buffer = p.buffer
    BY <2>1 DEF GoodPool, Named
  <2> QED
    BY <1>12, <1>13, <2>1, <2>2, <2>5, <2>6 DEF Named
<1>16. \A l \in K \ {k} : StrSize[l] = 1 => q.name[l] = TheEmptyString
  BY <1>2, <1>13 DEF GoodPool
<1>17. q.used <= q.size /\ q.size <= q.capacity
  BY <1>3, <1>9, <1>10, <1>12 DEF GoodPool
<1>18. IsFiniteSet(K \ {k})
  BY <1>2, FS_RemoveElement
<1>19. GoodPool(q, K \ {k})
  BY <1>2, <1>9, <1>12, <1>14, <1>15, <1>16, <1>17, <1>18 DEF GoodPool
<1> QED
  BY <1>1, <1>12, <1>19

(* The pointer of the empty string, which is not in the pool.              *)
LEMMA EmptyNamed ==
  ASSUME NEW K, NEW p, GoodPool(p, K), NEW k \in Key, StrSize[k] = 1, NEW ptr \in PointerType,
         NEW L \in {K \ {k}, K \cup {k}}, k \in L => ptr = TheEmptyString
  PROVE  LET q == [p EXCEPT !.name[k] = ptr]
         IN  GoodPool(q, L) /\ q.error = p.error
<1> DEFINE q == [p EXCEPT !.name[k] = ptr]
<1>1. p \in PoolType /\ K \subseteq Key /\ IsFiniteSet(K)
  BY DEF GoodPool
<1>2. /\ q \in PoolType /\ q.buffer = p.buffer /\ q.size = p.size /\ q.used = p.used
      /\ q.capacity = p.capacity /\ q.text = p.text /\ q.error = p.error
      /\ q.name = [p.name EXCEPT ![k] = ptr]
  BY <1>1 DEF PoolType
<1> HIDE DEF q
<1>3. \A l \in Key : q.name[l] = IF l = k THEN ptr ELSE p.name[l]
  BY <1>1, <1>2 DEF PoolType
<1>4. InPool(L) = InPool(K) /\ k \notin InPool(K) /\ InPool(K) \subseteq Key
  BY <1>1 DEF InPool
<1>5. TextLaidOut(q)
  BY <1>2 DEF GoodPool, TextLaidOut
<1>6. \A l \in InPool(L) : Named(q, l)
  BY <1>2, <1>3, <1>4 DEF GoodPool, Named
<1>7. \A l \in L : StrSize[l] = 1 => q.name[l] = TheEmptyString
  BY <1>1, <1>3 DEF GoodPool
<1>8. L \subseteq Key /\ IsFiniteSet(L)
  BY <1>1, FS_AddElement, FS_RemoveElement
<1>9. GoodPool(q, L)
  BY <1>2, <1>4, <1>5, <1>6, <1>7, <1>8 DEF GoodPool
<1> QED
  BY <1>2, <1>9 DEF q

(* coucal_free_key_internal(): the other names stay, whatever the pool     *)
(* becomes.                                                                *)
LEMMA FreeKeyKeeps ==
  ASSUME NEW K, NEW p, GoodPool(p, K), p.error = "none", NEW k \in K, NEW held,
         Holding(held, K \ {k})
  PROVE  /\ GoodPool(FreeKey(p, k, held), K \ {k})
         /\ FreeKey(p, k, held).error \in {"none", "pool_allocation_error"}
<1>1. k \in Key
  BY DEF GoodPool
<1>2. CASE StrSize[k] = 1
  <2>1. p.name[k] = TheEmptyString /\ Nil \in PointerType
    BY <1>2 DEF GoodPool, Nil, Pointer, PointerType, Buffers
  <2>2. FreeKey(p, k, held) = [p EXCEPT !.name[k] = Nil]
    BY <2>1 DEF FreeKey
  <2>3. k \notin K \ {k}
    OBVIOUS
  <2> QED
    BY <1>1, <1>2, <2>1, <2>2, <2>3, EmptyNamed
<1>3. CASE StrSize[k] # 1
  <2> DEFINE q == Wiped(p, k)
             asserted == PoolAssert(q, q.used < Shrunk(q), "used_capacity")
  <2>1. k \in InPool(K)
    BY <1>3 DEF InPool
  <2>2. p.name[k] # TheEmptyString /\ ReadsAs(p, p.name[k], k)
    <3>1. Named(p, k) /\ p.buffer \in Buffers
      BY <2>1 DEF GoodPool, PoolType
    <3> QED
      BY <3>1 DEF Named, ReadsAs, TheEmptyString, Pointer, Buffers
  <2>3. GoodPool(q, K \ {k}) /\ q.error = "none"
    BY <2>1, WipedKeeps
  <2>4. FreeKey(p, k, held) = IF q.used # 0 /\ q.used < q.size \div 2
                              THEN CompactPool(asserted, held, Shrunk(q)) ELSE q
    BY <2>2, AssertHolds DEF FreeKey
  <2> HIDE DEF q
  <2>5. ASSUME q.used < q.size \div 2
        PROVE  Shrunk(q) \in Nat /\ q.used < Shrunk(q)
    <3>1. /\ q.size \in Nat /\ q.used \in Nat /\ q.capacity \in Nat
          /\ q.size <= q.capacity
      BY <2>3 DEF GoodPool, PoolType
    <3>2. CASE q.used < q.capacity \div 4
      BY <3>1, <3>2 DEF Shrunk
    <3>3. CASE ~(q.used < q.capacity \div 4)
      BY <2>5, <3>1, <3>3 DEF Shrunk
    <3> QED
      BY <3>2, <3>3
  <2>6. CASE q.used < q.size \div 2
    <3>1. asserted = q
      BY <2>5, <2>6, AssertHolds
    <3>2. q.used <= Shrunk(q) /\ Shrunk(q) \in Nat
      BY <2>3, <2>5, <2>6 DEF GoodPool, PoolType
    <3> HIDE DEF asserted
    <3>3. /\ GoodPool(CompactPool(q, held, Shrunk(q)), K \ {k})
          /\ CompactPool(q, held, Shrunk(q)).error \in {q.error, "pool_allocation_error"}
      BY <2>3, <3>2, CompactKeeps
    <3> QED
      BY <2>3, <2>4, <3>1, <3>3
  <2>7. CASE ~(q.used < q.size \div 2)
    BY <2>3, <2>4, <2>7
  <2> QED
    BY <2>6, <2>7
<1> QED
  BY <1>2, <1>3

(* A capacity is a number, and large enough.                               *)
LEMMA CapacityFits ==
  ASSUME NEW needed \in Nat, NEW c \in NewCapacities(needed)
  PROVE  c \in Nat /\ needed <= c
<1>1. PICK i \in 0 .. needed : c = MinPoolCapacity * 2^i
  BY DEF NewCapacities
<1>2. 2^i \in Nat
  <2>1. IsFiniteSet(1 .. i) /\ Cardinality(1 .. i) = i
    BY FS_Interval
  <2>2. IsFiniteSet(SUBSET (1 .. i)) /\ Cardinality(SUBSET (1 .. i)) = 2^Cardinality(1 .. i)
    BY <2>1, FS_SUBSET
  <2> QED
    BY <2>1, <2>2, FS_CardinalityType
<1> DEFINE power == 2^i
<1> HIDE DEF power
<1>3. c = MinPoolCapacity * power /\ power \in Nat /\ MinPoolCapacity \in Nat
  BY <1>1, <1>2, PoolAssumption DEF power
<1>4. c \in Nat
  BY <1>3
<1> QED
  BY <1>4 DEF NewCapacities

(* coucal_realloc_pool(), compacted instead or not.                        *)
LEMMA ReallocPoolKeeps ==
  ASSUME NEW K, NEW p, GoodPool(p, K), NEW held, Holding(held, K),
         NEW capacity \in Nat, p.size <= capacity, NEW q \in ReallocPool(p, held, capacity)
  PROVE  /\ GoodPool(q, K) /\ q.size <= p.size /\ q.capacity = capacity
         /\ q.error \in {p.error, "pool_allocation_error"}
<1>1. p.size \in Nat /\ p.used \in Nat /\ p.used <= p.size /\ p.buffer \in Buffers
  BY DEF GoodPool, PoolType
<1>2. CASE q = CompactPool(p, held, capacity)
  <2>1. p.used <= capacity
    BY <1>1
  <2>2. /\ GoodPool(q, K) /\ q.size = p.used /\ q.capacity = capacity
        /\ q.error \in {p.error, "pool_allocation_error"}
    BY <1>2, <2>1, CompactKeeps
  <2> QED
    BY <1>1, <2>2
<1>3. ASSUME NEW b \in Buffers, q = ReallocAt(p, held, capacity, b)
      PROVE  /\ GoodPool(q, K) /\ q.size <= p.size /\ q.capacity = capacity
             /\ q.error \in {p.error, "pool_allocation_error"}
  <2>1. /\ GoodPool(q, K) /\ q.size = p.size /\ q.capacity = capacity
        /\ q.error \in {p.error, "pool_allocation_error"}
    BY <1>3, ReallocKeeps
  <2> QED
    BY <1>1, <2>1
<1>4. OtherBuffer(p) \in Buffers
  BY DEF OtherBuffer, Buffers
<1>5. \/ q = CompactPool(p, held, capacity)
      \/ \E b \in Buffers : q = ReallocAt(p, held, capacity, b)
  BY <1>1, <1>4 DEF ReallocPool
<1> QED
  BY <1>2, <1>3, <1>5

(* A key that has to be copied from inside the pool is staged before the   *)
(* pool moves.                                                             *)
LEMMA StagedOutside ==
  ASSUME NEW K, NEW p, GoodPool(p, K), NEW k \in Key, StrSize[k] # 1, NEW ptr,
         ReadsAs(p, ptr, k)
  PROVE  Staged(p, ptr) = Outside
<1>1. p.size \in Nat /\ p.capacity \in Nat /\ p.size <= p.capacity /\ p.buffer \in Buffers
  BY DEF GoodPool, PoolType
<1>2. CASE ptr = Outside
  BY <1>1, <1>2 DEF Staged, Outside, Pointer, Buffers
<1>3. ASSUME NEW t \in p.text, ptr.buffer = p.buffer,
             \/ ptr.offset = t.offset
             \/ ptr.offset = t.offset + StrSize[t.key] - StrSize[k]
      PROVE  Staged(p, ptr) = Outside
  <2>1. /\ t.offset \in Nat /\ t.offset < EndOf(t) /\ EndOf(t) <= p.size
        /\ StrSize[k] \in Nat /\ StrSize[k] > 0 /\ StrSize[t.key] \in Nat
    BY TextFacts
  <2>2. ptr.offset < p.capacity
    <3>1. CASE ptr.offset = t.offset
      BY <1>1, <2>1, <3>1 DEF EndOf
    <3>2. CASE ptr.offset = t.offset + StrSize[t.key] - StrSize[k]
      BY <1>1, <2>1, <3>2 DEF EndOf
    <3> QED
      BY <1>3, <3>1, <3>2
  <2> QED
    BY <1>3, <2>2 DEF Staged
<1> QED
  BY <1>2, <1>3 DEF ReadsAs

(* coucal_dup_name_internal(): the name of the new key is added to those   *)
(* in the pool, or there is no memory.                                     *)
LEMMA DupNameAdds ==
  ASSUME NEW K, NEW p, GoodPool(p, K), p.error = "none", NEW k \in Key, k \notin K,
         NEW held, Holding(held, K), NEW ptr, ReadsAs(p, ptr, k),
         NEW q \in DupName(p, k, ptr, held)
  PROVE  /\ q.error \in Aborts \cup {"none"}
         /\ q.error = "none" => GoodPool(q, K \cup {k})
<1>1. p.size \in Nat /\ p.capacity \in Nat /\ p \in PoolType
  BY DEF GoodPool, PoolType
<1>2. StrSize[k] \in Nat /\ StrSize[k] > 0
  BY PoolAssumption
<1>3. CASE StrSize[k] = 1
  <2>1. q = [p EXCEPT !.name[k] = TheEmptyString]
    BY <1>3 DEF DupName
  <2>2. TheEmptyString \in PointerType
    BY DEF TheEmptyString, Pointer, PointerType, Buffers
  <2> QED
    BY <1>3, <2>1, <2>2, EmptyNamed
<1>4. CASE StrSize[k] # 1 /\ ~(p.capacity - p.size < StrSize[k])
  <2>1. q = CopyTo(p, k, ptr)
    BY <1>4 DEF DupName
  <2>2. p.size + StrSize[k] <= p.capacity
    BY <1>1, <1>2, <1>4
  <2> QED
    BY <1>4, <2>1, <2>2, CopyAdds
<1>5. ASSUME q \in NoStaging(p, ptr) PROVE q.error = "key_staging_error"
  <2>1. q = [p EXCEPT !.error = "key_staging_error"]
    BY <1>5 DEF NoStaging, PoolAssert
  <2> QED
    BY <1>1, <2>1 DEF PoolType
<1>6. ASSUME StrSize[k] # 1, NEW c \in NewCapacities(p.size + StrSize[k]),
             NEW r \in ReallocPool(p, held, c), q = CopyTo(r, k, Staged(p, ptr))
      PROVE  q.error \in Aborts \cup {"none"} /\ GoodPool(q, K \cup {k})
  <2>1. c \in Nat /\ p.size + StrSize[k] <= c
    <3>1. p.size + StrSize[k] \in Nat
      BY <1>1, <1>2
    <3> QED
      BY <3>1, CapacityFits
  <2>2. p.size <= c
    BY <1>1, <1>2, <2>1
  <2>3. /\ GoodPool(r, K) /\ r.size <= p.size /\ r.capacity = c
        /\ r.error \in {"none", "pool_allocation_error"}
    BY <2>1, <2>2, ReallocPoolKeeps
  <2>4. r.size + StrSize[k] <= r.capacity
    <3>1. r.size \in Nat
      BY <2>3 DEF GoodPool, PoolType
    <3> QED
      BY <1>1, <1>2, <2>1, <2>3, <3>1
  <2>5. Staged(p, ptr) = Outside
    BY <1>6, StagedOutside
  <2>6. ReadsAs(r, Staged(p, ptr), k)
    BY <2>5 DEF ReadsAs
  <2>7. GoodPool(q, K \cup {k}) /\ q.error = r.error
    BY <1>6, <2>3, <2>4, <2>6, CopyAdds
  <2> QED
    BY <2>3, <2>7 DEF Aborts
<1>7. CASE StrSize[k] # 1 /\ p.capacity - p.size < StrSize[k]
  <2>1. \/ q \in NoStaging(p, ptr)
        \/ \E c \in NewCapacities(p.size + StrSize[k]) : \E r \in ReallocPool(p, held, c) :
             q = CopyTo(r, k, Staged(p, ptr))
    BY <1>7 DEF DupName
  <2> QED
    BY <1>5, <1>6, <1>7, <2>1 DEF Aborts
<1> QED
  BY <1>3, <1>4, <1>7

(***************************************************************************)
(* The holders of the names, between two calls and at the end of a drain.  *)
(***************************************************************************)

(* What a scan of the table and of the stash finds.                        *)
HolderNo(i) == IF i < size THEN items[i] ELSE stash[i - size]

(* Every stored item is in one slot that the loops read.                   *)
LEMMA HoldersHold ==
  ASSUME MapInv, pc \in {"idle", "drain"}
  PROVE  Holding(Holders, StoredNames)
<1>1. TypeOK /\ Control /\ StashCounted /\ NoKeyTwice
  BY DEF MapInv, Inv
<1>2. size \in Nat /\ stash_extent \in 0 .. StashSize /\ StashSize \in Nat
  BY <1>1, ConstantsAssumption DEF TypeOK
<1>3. /\ DOMAIN Holders = 0 .. size + stash_extent - 1
      /\ \A i \in 0 .. size + stash_extent - 1 : Holders[i] = HolderNo(i)
  BY DEF Holders, HolderNo
<1>4. DOMAIN Holders \subseteq Nat /\ IsFiniteSet(DOMAIN Holders)
  <2>1. size + stash_extent - 1 \in Int
    BY <1>2
  <2>2. IsFiniteSet(0 .. size + stash_extent - 1)
    BY <2>1, FS_Interval
  <2> QED
    BY <1>3, <2>1, <2>2
<1>5. ASSUME NEW i \in DOMAIN Holders
      PROVE  \/ i \in 0 .. size - 1 /\ Holders[i] = items[i]
             \/ i - size \in StashIndex /\ Holders[i] = stash[i - size] /\ i \in Int
  <2>1. CASE i < size
    BY <1>2, <1>3, <2>1 DEF HolderNo
  <2>2. CASE ~(i < size)
    BY <1>2, <1>3, <2>2 DEF HolderNo, StashIndex
  <2> QED
    BY <2>1, <2>2
<1>6. \A i \in DOMAIN Holders : Holders[i] \in Slot
  BY <1>1, <1>5 DEF TypeOK
<1>7. ASSUME NEW i \in DOMAIN Holders, NEW j \in DOMAIN Holders,
             Live(Holders[i]), Live(Holders[j]), Holders[i].name = Holders[j].name, i # j
      PROVE  FALSE
  <2>1. ASSUME i - size \in StashIndex, j - size \in StashIndex, i \in Int, j \in Int
        PROVE  i - size # j - size
    BY <1>2, <1>7, <2>1
  <2> QED
    BY <1>1, <1>5, <1>7, <2>1 DEF NoKeyTwice, Distinct
<1>8. \A it : it \in Stored <=> InTable(it) \/ InStash(it)
  <2>1. item = NoItem
    BY <1>1 DEF Control, InAddItem
  <2>2. \A j \in StashIndex : ~Live(backup[j])
    BY <1>1, NothingPending DEF Control, InAddItem
  <2> QED
    BY <2>1, <2>2, InStored DEF InBackup, InHand, Pending, Live
<1>9. ASSUME NEW it, InTable(it) \/ InStash(it)
      PROVE  \E i \in DOMAIN Holders : Live(Holders[i]) /\ Holders[i] = it
  <2>1. CASE InTable(it)
    <3>1. PICK p \in 0 .. size - 1 : Live(items[p]) /\ it = items[p]
      BY <2>1 DEF InTable
    <3>2. p \in 0 .. size + stash_extent - 1 /\ HolderNo(p) = items[p]
      BY <1>2, <3>1 DEF HolderNo
    <3> QED
      BY <1>3, <3>1, <3>2
  <2>2. CASE InStash(it)
    <3>1. PICK j \in StashIndex : Live(stash[j]) /\ it = stash[j]
      BY <2>2 DEF InStash
    <3>2. j < stash_extent /\ j \in Nat
      BY <1>1, <1>2, <3>1 DEF StashCounted, Live, StashIndex
    <3>3. /\ size + j \in 0 .. size + stash_extent - 1
          /\ ~(size + j < size) /\ (size + j) - size = j
      BY <1>2, <3>2
    <3>4. HolderNo(size + j) = stash[j]
      BY <3>3 DEF HolderNo
    <3> QED
      BY <1>3, <3>1, <3>3, <3>4
  <2> QED
    BY <1>9, <2>1, <2>2
<1>10. ASSUME NEW i \in DOMAIN Holders, Live(Holders[i])
       PROVE  Holders[i] \in Stored
  BY <1>5, <1>8, <1>10 DEF InTable, InStash
<1>11. ASSUME NEW k
       PROVE  k \in StoredNames <=>
                \E i \in DOMAIN Holders : Live(Holders[i]) /\ Holders[i].name = k
  <2>1. k \in StoredNames <=> \E it \in Stored : it.name = k
    BY DEF StoredNames, NamesIn
  <2> QED
    BY <1>8, <1>9, <1>10, <2>1
<1> QED
  BY <1>4, <1>6, <1>7, <1>11 DEF Holding

(* The same once a name has been detached.                                 *)
LEMMA HoldersHoldRest ==
  ASSUME MapInv, pc = "idle", NEW k
  PROVE  Holding(HoldersWithout(k), StoredNames \ {k})
<1> DEFINE H == HoldersWithout(k)
<1>1. Holding(Holders, StoredNames)
  BY HoldersHold
<1>2. /\ DOMAIN H = DOMAIN Holders
      /\ \A i \in DOMAIN Holders :
           H[i] = IF Live(Holders[i]) /\ Holders[i].name = k THEN NoItem ELSE Holders[i]
  BY DEF HoldersWithout, Matches, Live
<1>3. \A i \in DOMAIN H : H[i] \in Slot
  BY <1>1, <1>2 DEF Holding, Slot
<1> HIDE DEF H
<1>4. \A i \in DOMAIN H : Live(H[i]) <=> Live(Holders[i]) /\ Holders[i].name # k
  BY <1>2 DEF Live
<1>5. \A i \in DOMAIN H : Live(H[i]) => H[i] = Holders[i]
  BY <1>2 DEF Live
<1>6. Holding(H, StoredNames \ {k})
  BY <1>1, <1>2, <1>3, <1>4, <1>5 DEF Holding
<1> QED
  BY <1>6 DEF H

(***************************************************************************)
(* The steps.                                                              *)
(***************************************************************************)
PoolMoves == [PoolNext]_<<vars, poolVars>>

(* What a step of the hashtable has to leave behind.                       *)
LEMMA PoolHeldNext ==
  ASSUME MapInv', NEW STATE K, NEW STATE p, pool' = p, StoredNames' = K, GoodPool(p, K),
         p.error = "none", pc' = "drain" => ReadsAs(p, arg', adding'.name)
  PROVE  PoolInv'
<1>1. failure' \in {"none", "stash_collision", "acceptable_lg_size", "allocation_error"}
  BY DEF MapInv, CountInv, NoInternalError
<1>2. NoPoolError'
  BY <1>1 DEF NoPoolError
<1>3. PoolHeld'
  BY DEF PoolHeld
<1> QED
  BY <1>2, <1>3 DEF PoolInv

(* An abort, of the pool or of the hashtable.                              *)
LEMMA PoolAborts ==
  ASSUME pc' = "aborted",
         \/ failure' \in Aborts
         \/ MapInv'
         \/ NoPoolError /\ failure' = failure
  PROVE  PoolInv'
<1>1. PoolHeld'
  BY DEF PoolHeld
<1>2. ASSUME failure' \in Aborts PROVE NoPoolError'
  BY <1>2 DEF NoPoolError, Aborts
<1>3. ASSUME MapInv' PROVE NoPoolError'
  <2>1. failure' \in {"none", "stash_collision", "acceptable_lg_size", "allocation_error"}
    BY <1>3 DEF MapInv, CountInv, NoInternalError
  <2> QED
    BY <2>1 DEF NoPoolError
<1>4. ASSUME NoPoolError, failure' = failure PROVE NoPoolError'
  BY <1>4 DEF NoPoolError
<1> QED
  BY <1>1, <1>2, <1>3, <1>4 DEF PoolInv

(* A step that calls the pool, and aborts or not.                          *)
LEMMA PoolStepKeeps ==
  ASSUME MapInv, NEW ACTION step, step => [Next]_vars, NEW STATE p, PoolStep(p, step),
         p.error \in Aborts \cup {"none"},
         NEW STATE K, p.error = "none" => GoodPool(p, K),
         step => StoredNames' = K /\ pc' # "drain"
  PROVE  PoolInv'
<1>1. CASE p.error = "none"
  <2>1. step /\ pool' = p
    BY <1>1 DEF PoolStep
  <2>2. MapInv'
    BY <2>1, MapInvStep
  <2> QED
    BY <1>1, <2>1, <2>2, PoolHeldNext
<1>2. CASE p.error # "none"
  <2>1. pc' = "aborted" /\ failure' = p.error
    BY <1>2 DEF PoolStep, Abort
  <2> QED
    BY <1>2, <2>1, PoolAborts
<1> QED
  BY <1>1, <1>2

(* The hashtable and the pool when no call has aborted.                    *)
LEMMA PoolParts ==
  ASSUME PoolInv, pc # "aborted"
  PROVE  /\ MapInv /\ Inv /\ TypeOK /\ Control /\ StashInv /\ CuckooPlaced /\ NoKeyTwice
         /\ BackupExtent
         /\ GoodPool(pool, StoredNames) /\ pool.error = "none"
         /\ pc = "drain" => ReadsAs(pool, arg, adding.name)
BY DEF PoolInv, PoolHeld, MapInv, Inv, CountInv, StashInv

(* coucal_new().                                                           *)
LEMMA PoolNewKeeps ==
  ASSUME PoolInv, NEW n \in NewSizes, NEW h \in Hashers, PoolNew(n, h)
  PROVE  PoolInv'
<1>1. New(n, h) /\ UNCHANGED pool /\ pc = "null" /\ pc' = "idle"
  BY DEF PoolNew, New, poolVars
<1>2. Stored' = Stored
  BY <1>1, StoredNew, PoolParts
<1>3. StoredNames' = StoredNames
  BY <1>2 DEF StoredNames, NamesIn
<1>4. MapInv'
  BY <1>1, MapInvStep, PoolParts DEF Next, Call
<1> QED
  BY <1>1, <1>3, <1>4, PoolParts, PoolHeldNext

(* coucal_delete(): the buffer goes with the names.                        *)
LEMMA PoolEmpty == GoodPool(NoPool, {}) /\ NoPool.error = "none"
<1>1. NoPool \in PoolType
  BY DEF NoPool, PoolType, Buffers, PointerType, Nil, Pointer
<1>2. InPool({}) = {}
  BY DEF InPool
<1>3. CharCount(StrSize, InPool({})) = 0
  BY <1>2, CountEmpty
<1>4. IsFiniteSet({})
  BY FS_EmptySet
<1>5. TextLaidOut(NoPool)
  BY DEF NoPool, TextLaidOut
<1> QED
  BY <1>1, <1>2, <1>3, <1>4, <1>5 DEF GoodPool, NoPool

(* coucal_delete().                                                        *)
LEMMA PoolDeleteKeeps ==
  ASSUME PoolInv, PoolDelete
  PROVE  PoolInv'
<1>1. Delete /\ pool' = NoPool /\ pc = "idle" /\ pc' = "null"
  BY DEF PoolDelete, Delete
<1>2. Stored' = {}
  BY <1>1, StoredDelete, PoolParts
<1>3. StoredNames' = {}
  BY <1>2 DEF StoredNames, NamesIn
<1>4. MapInv'
  BY <1>1, MapInvStep, PoolParts DEF Next, Call
<1> QED
  BY <1>1, <1>3, <1>4, PoolEmpty, PoolHeldNext

(* A key that is found is stored.                                          *)
LEMMA FoundIsStored ==
  ASSUME TypeOK, Control, pc = "idle", NEW k \in Key, ~NotFound(k)
  PROVE  \E it \in Stored : it.name = k
<1>1. Pos1(k) \in 0 .. size - 1 /\ Pos2(k) \in 0 .. size - 1
  <2>1. size \in TableSizes
    BY DEF Control, TypeOK
  <2> QED
    BY <2>1, PositionsInRange
<1>2. StashScanned \subseteq StashIndex
  BY ConstantsAssumption DEF StashScanned, StashIndex, TypeOK
<1>3. ASSUME NEW p \in 0 .. size - 1, Matches(items[p], k)
      PROVE  items[p] \in Stored /\ items[p].name = k
  BY <1>3, InStored DEF Matches, InTable, Live
<1>4. ASSUME NEW j \in StashIndex, Matches(stash[j], k)
      PROVE  stash[j] \in Stored /\ stash[j].name = k
  BY <1>4, InStored DEF Matches, InStash, Live
<1> QED
  BY <1>1, <1>2, <1>3, <1>4 DEF NotFound, NotInTable

(* coucal_remove().                                                        *)
LEMMA PoolRemoveKeeps ==
  ASSUME PoolInv, NEW k \in Key, PoolRemove(k)
  PROVE  PoolInv'
<1>1. pc = "idle"
  BY DEF PoolRemove
<1>2. ASSUME Remove(k) PROVE [Next]_vars /\ pc' # "drain"
  BY <1>1, <1>2 DEF Next, Call, Remove, CoucalAssert
<1>3. ASSUME Remove(k) PROVE StoredNames' = StoredNames \ {k}
  <2>1. \/ \E it \in Stored : it.name = k /\ Stored' = Stored \ {it}
        \/ k \notin NamesIn(Stored) /\ Stored' = Stored
    BY <1>1, <1>3, StoredRemove, PoolParts
  <2>2. ASSUME NEW it \in Stored, it.name = k, Stored' = Stored \ {it}
        PROVE  StoredNames' = StoredNames \ {k}
    <3>1. NamesIn(Stored \ {it}) = StoredNames \ {k}
      BY <1>1, <2>2, NamesRemoved, PoolParts
    <3> QED
      BY <2>2, <3>1 DEF StoredNames, NamesIn
  <2>3. ASSUME k \notin NamesIn(Stored), Stored' = Stored
        PROVE  StoredNames' = StoredNames \ {k}
    BY <2>3 DEF StoredNames, NamesIn
  <2> QED
    BY <2>1, <2>2, <2>3
<1>4. CASE NotFound(k)
  <2>1. Remove(k) /\ UNCHANGED pool
    BY <1>4 DEF PoolRemove
  <2>2. k \notin StoredNames
    BY <1>1, <1>4, NotFoundNotStored, PoolParts DEF StoredNames
  <2>3. StoredNames' = StoredNames
    BY <1>3, <2>1, <2>2
  <2>4. MapInv'
    BY <1>1, <1>2, <2>1, MapInvStep, PoolParts
  <2> QED
    BY <1>1, <1>2, <2>1, <2>3, <2>4, PoolParts, PoolHeldNext
<1>5. CASE ~NotFound(k)
  <2> DEFINE p == FreeKey(pool, k, HoldersWithout(k))
  <2>1. PoolStep(p, Remove(k))
    BY <1>5 DEF PoolRemove
  <2>2. k \in StoredNames
    <3>1. PICK it : it \in Stored /\ it.name = k
      BY <1>1, <1>5, FoundIsStored, PoolParts
    <3> QED
      BY <3>1 DEF StoredNames, NamesIn
  <2>3. Holding(HoldersWithout(k), StoredNames \ {k})
    BY <1>1, HoldersHoldRest, PoolParts
  <2>4. /\ GoodPool(p, StoredNames \ {k})
        /\ p.error \in {"none", "pool_allocation_error"}
    BY <1>1, <2>2, <2>3, FreeKeyKeeps, PoolParts
  <2>5. p.error \in Aborts \cup {"none"}
    BY <2>4 DEF Aborts
  <2> HIDE DEF p
  <2>6. ASSUME Remove(k) PROVE StoredNames' = StoredNames \ {k} /\ pc' # "drain"
    BY <1>2, <1>3, <2>6
  <2>7. MapInv /\ (Remove(k) => [Next]_vars)
    BY <1>1, <1>2, PoolParts
  <2> DEFINE K == StoredNames \ {k}
  <2>8. GoodPool(p, K) /\ (Remove(k) => StoredNames' = K /\ pc' # "drain")
    BY <2>4, <2>6
  <2> HIDE DEF K
  <2> QED
    BY <2>1, <2>5, <2>7, <2>8, PoolStepKeeps
<1> QED
  BY <1>4, <1>5

(* Where the caller may have the key, it reads as the key.                 *)
LEMMA ArgumentsRead ==
  ASSUME NEW k, NEW ptr \in Arguments(k)
  PROVE  ReadsAs(pool, ptr, k)
BY DEF Arguments, ReadsAs

(* coucal_write() and coucal_inc() on a missing key.                       *)
LEMMA PoolWriteNewKeeps ==
  ASSUME PoolInv, NEW k \in Key, NEW v \in Written, NEW ptr \in Arguments(k),
         PoolWriteNew(k, v, ptr)
  PROVE  PoolInv'
<1>1. pc = "idle" /\ NotFound(k)
  BY DEF PoolWriteNew
<1>2. ASSUME WriteNew(k, v)
      PROVE  /\ [Next]_vars /\ adding' = ItemOf(k, v) /\ ItemOf(k, v).name = k
             /\ pc' = IF stash_size # 0 THEN "drain" ELSE "place"
             /\ Stored' = IF stash_size # 0 THEN Stored ELSE Stored \cup {ItemOf(k, v)}
  <2>1. v \in Value /\ StartAdd(k, v, 1)
    BY <1>2, ConstantsAssumption DEF WriteNew, Value
  <2>2. /\ adding' = ItemOf(k, v) /\ pc' = IF stash_size # 0 THEN "drain" ELSE "place"
    BY <2>1 DEF StartAdd
  <2>3. Stored' = IF pc' = "drain" THEN Stored ELSE Stored \cup {adding'}
    BY <1>1, <2>1, StoredStartAdd, PoolParts
  <2>4. ItemOf(k, v).name = k
    BY DEF ItemOf
  <2>5. [Next]_vars
    BY <1>2 DEF Next, Call
  <2> QED
    BY <2>2, <2>3, <2>4, <2>5
<1>3. ReadsAs(pool, ptr, k)
  BY ArgumentsRead
<1>4. CASE stash_size # 0
  <2>1. WriteNew(k, v) /\ arg' = ptr /\ UNCHANGED pool
    BY <1>4 DEF PoolWriteNew
  <2>2. StoredNames' = StoredNames
    BY <1>2, <1>4, <2>1 DEF StoredNames, NamesIn
  <2>3. MapInv'
    BY <1>1, <1>2, <2>1, MapInvStep, PoolParts
  <2>4. adding'.name = k
    BY <1>2, <2>1
  <2> QED
    BY <1>1, <1>3, <2>1, <2>2, <2>3, <2>4, PoolParts, PoolHeldNext
<1>5. CASE stash_size = 0
  <2>1. PICK p \in DupName(pool, k, ptr, Holders) : PoolStep(p, WriteNew(k, v))
    BY <1>5 DEF PoolWriteNew
  <2>2. k \notin StoredNames
    BY <1>1, NotFoundNotStored, PoolParts DEF StoredNames
  <2>3. Holding(Holders, StoredNames)
    BY <1>1, HoldersHold, PoolParts
  <2>4. /\ p.error \in Aborts \cup {"none"}
        /\ p.error = "none" => GoodPool(p, StoredNames \cup {k})
    BY <1>1, <1>3, <2>1, <2>2, <2>3, DupNameAdds, PoolParts
  <2>5. ASSUME WriteNew(k, v) PROVE StoredNames' = StoredNames \cup {k} /\ pc' # "drain"
    BY <1>2, <1>5, <2>5, NamesAdded DEF StoredNames, NamesIn
  <2> QED
    BY <1>1, <1>2, <2>1, <2>4, <2>5, PoolStepKeeps, PoolParts
<1> QED
  BY <1>4, <1>5

(* The end of the drain copies the name, from where it was at the          *)
(* beginning of the call.                                                  *)
LEMMA PoolDrainDoneKeeps ==
  ASSUME PoolInv, PoolDrainDone
  PROVE  PoolInv'
<1>1. pc = "drain"
  BY DEF PoolDrainDone, DrainEnds
<1>2. Live(adding) /\ adding \in Slot
  BY <1>1, PoolParts DEF Control, InAddItem, TypeOK
<1>3. adding.name \in Key
  BY <1>2, LiveIsItem
<1>4. adding.name \notin StoredNames
  <2>1. item = NoItem /\ \A j \in StashIndex : ~Live(backup[j])
    BY <1>1, NothingPending, PoolParts DEF Control, InAddItem
  <2>2. \A it \in Stored : InTable(it) \/ InStash(it)
    BY <2>1, InStored DEF InBackup, InHand, Pending, Live
  <2> QED
    BY <1>1, <1>2, <2>2, PoolParts DEF StoredNames, NamesIn, InTable, InStash, NoKeyTwice,
       Distinct
<1>5. PICK p \in DupName(pool, adding.name, arg, Holders) : PoolStep(p, DrainDone)
  BY DEF PoolDrainDone
<1>6. Holding(Holders, StoredNames)
  BY <1>1, HoldersHold, PoolParts
<1>7. /\ p.error \in Aborts \cup {"none"}
      /\ p.error = "none" => GoodPool(p, StoredNames \cup {adding.name})
  BY <1>1, <1>3, <1>4, <1>5, <1>6, DupNameAdds, PoolParts
<1>8. ASSUME DrainDone
      PROVE  [Next]_vars /\ StoredNames' = StoredNames \cup {adding.name} /\ pc' # "drain"
  <2>1. Stored' = Stored \cup {adding}
    BY <1>1, <1>8, StoredDrainDone, PoolParts
  <2>2. StoredNames' = StoredNames \cup {adding.name}
    BY <2>1, NamesAdded DEF StoredNames, NamesIn
  <2> QED
    BY <1>8, <2>2 DEF Next, AddStep, DrainDone
<1> QED
  BY <1>1, <1>5, <1>7, <1>8, PoolStepKeeps, PoolParts

(* What does not call the pool moves items with their names.               *)
LEMMA PoolUntouchedKeeps ==
  ASSUME PoolInv, PoolUntouched \/ UNCHANGED <<vars, poolVars>>
  PROVE  PoolInv'
<1>1. [Next]_vars /\ UNCHANGED <<pool, arg>>
  BY DEF PoolUntouched, Next, Call, poolVars
<1>2. CASE pc = "aborted"
  <2>1. pc' = "aborted" /\ failure' = failure
    BY <1>2 DEF PoolUntouched, AddStep, DrainStep, DrainDone, PlaceFree, PlaceTaken,
       WalkFree, WalkKick, StashItem, StashFull, Count, Grow, GrowRefused, GrowNoMemory,
       MergeStep, MergeDone, Return, Read, Replace, Halted, vars
  <2> QED
    BY <2>1, PoolAborts DEF PoolInv
<1>3. CASE pc # "aborted"
  <2>1. MapInv'
    BY <1>1, <1>3, MapInvStep, PoolParts
  <2>2. ASSUME AddStep, ~DrainEnds
        PROVE  StoredNames' = StoredNames /\ (pc' = "drain" => pc = "drain" /\ adding' = adding)
    <3>1. /\ pc = "drain" => pc' = "drain"
          /\ pc' = "drain" => pc = "drain" /\ adding' = adding
      BY <2>2, <1>3, PoolParts DEF AddStep, DrainEnds, DrainStep, DrainDone, PlaceFree,
         PlaceTaken, WalkFree, WalkKick, PutItem, StashItem, StashFull, Count, Grow,
         GrowRefused, GrowNoMemory, MergeStep, MergeDone, Return, CoucalAssert, Abort,
         callVars, TypeOK
    <3>2. Stored' = Stored
      BY <1>3, <2>2, <3>1, StoredAddStep, PoolParts
    <3> QED
      BY <3>1, <3>2 DEF StoredNames, NamesIn
  <2>3. ASSUME NEW k \in Key, Read(k)
        PROVE  StoredNames' = StoredNames /\ pc' # "drain"
    <3>1. Stored' = Stored /\ pc' = "idle"
      BY <1>3, <2>3, StoredRead, PoolParts DEF Read
    <3> QED
      BY <3>1 DEF StoredNames, NamesIn
  <2>4. ASSUME NEW k \in Key, NEW v \in Written, Replace(k, v)
        PROVE  StoredNames' = StoredNames /\ pc' # "drain"
    <3>1. v \in Value /\ pc' = "idle"
      BY <2>4, ConstantsAssumption DEF Value, Replace
    <3>2. PICK it \in Stored : it.name = k /\ Stored' = (Stored \ {it}) \cup {ItemOf(k, v)}
      BY <1>3, <2>4, <3>1, StoredReplace, PoolParts
    <3>3. NamesIn((Stored \ {it}) \cup {ItemOf(k, v)}) = NamesIn(Stored \ {it}) \cup {k}
      BY NamesAdded DEF ItemOf
    <3>4. NamesIn(Stored \ {it}) = StoredNames \ {k} /\ k \in StoredNames
      BY <1>3, <3>2, NamesRemoved, PoolParts DEF StoredNames, NamesIn
    <3>5. NamesIn(Stored') = StoredNames
      BY <3>2, <3>3, <3>4
    <3> QED
      BY <3>1, <3>5 DEF StoredNames, NamesIn
  <2>5. ASSUME UNCHANGED vars
        PROVE  StoredNames' = StoredNames /\ UNCHANGED <<pc, adding>>
    BY <2>5, StoredUnchanged DEF vars, StoredNames, NamesIn
  <2>6. /\ StoredNames' = StoredNames
        /\ pc' = "drain" => pc = "drain" /\ adding' = adding
    BY <1>3, <2>2, <2>3, <2>4, <2>5 DEF PoolUntouched, Halted
  <2> QED
    BY <1>1, <1>3, <2>1, <2>6, PoolParts, PoolHeldNext
<1> QED
  BY <1>2, <1>3

(* There is no pool at first.                                              *)
LEMMA PoolInvInit ==
  PoolInit => PoolInv
<1> SUFFICES ASSUME PoolInit PROVE PoolInv
  OBVIOUS
<1>1. MapInv /\ pc = "null" /\ pool = NoPool /\ failure = "none"
  BY InvInit, CountInit, CallInit DEF PoolInit, MapInv, Init
<1>2. StoredNames = {}
  BY <1>1 DEF PoolInit, Init, StoredNames, NamesIn, Stored, TableItems, StashItems,
     BackupItems, HandItems, EmptyStash, Pending, Live
<1> QED
  BY <1>1, <1>2, PoolEmpty DEF PoolInv, PoolHeld, NoPoolError

(* Every step keeps the names in the pool and its accounts.                *)
LEMMA PoolInvStep ==
  ASSUME PoolInv, PoolMoves
  PROVE  PoolInv'
BY PoolNewKeeps, PoolDeleteKeeps, PoolRemoveKeeps, PoolWriteNewKeeps, PoolDrainDoneKeeps,
   PoolUntouchedKeeps DEF PoolMoves, PoolNext

(* The pool holds the names of what is stored in every state.              *)
THEOREM PoolInvariance == PoolSpec => []PoolInv
<1>1. PoolInv /\ [PoolNext]_<<vars, poolVars>> => PoolInv'
  BY PoolInvStep DEF PoolMoves
<1> QED
  BY <1>1, PoolInvInit, PTL DEF PoolSpec

(* Every item of the table, of the stash, in the hand of a walk or in the  *)
(* backup of a merge has a name that reads as its key, whatever growth,    *)
(* compaction, shrink or release has happened to the pool.                 *)
THEOREM NamesReadBackAlways == PoolSpec => []NamesReadBack
<1>1. PoolInv => NamesReadBack
  <2> SUFFICES ASSUME PoolInv, pc # "aborted", NEW k \in StoredNames
               PROVE  ReadsAs(pool, pool.name[k], k)
    BY DEF NamesReadBack, StoredKeys, StoredNames
  <2>1. GoodPool(pool, StoredNames)
    BY PoolParts
  <2>2. CASE StrSize[k] = 1
    BY <2>1, <2>2 DEF GoodPool, ReadsAs
  <2>3. CASE StrSize[k] # 1
    <3>1. Named(pool, k)
      BY <2>1, <2>3 DEF GoodPool, InPool
    <3> QED
      BY <3>1 DEF Named, ReadsAs
  <2> QED
    BY <2>2, <2>3
<1> QED
  BY <1>1, PoolInvariance, PTL

(* The names lie below the watermark, no two of them share a character,    *)
(* and "used" is exactly the number of their characters, which fit in the  *)
(* capacity.                                                               *)
THEOREM PoolAccountingAlways == PoolSpec => []PoolAccounting
<1>1. ASSUME PoolInv, pc # "aborted", NEW k \in InPool(StoredNames)
      PROVE  \E t \in pool.text :
               /\ t.key = k /\ t.offset = pool.name[k].offset /\ t.offset \in Nat
               /\ EndOf(t) <= pool.size /\ EndOf(t) = pool.name[k].offset + StrSize[k]
               /\ StrSize[k] \in Nat /\ pool.size \in Nat
  <2>1. GoodPool(pool, StoredNames)
    BY <1>1, PoolParts
  <2>2. PICK t \in pool.text : /\ t.key = k /\ t.offset = pool.name[k].offset
                               /\ EndOf(t) <= pool.size /\ t.offset \in Nat
    BY <2>1, NamedBelow
  <2>3. StrSize[k] \in Nat /\ pool.size \in Nat
    BY <2>1, <2>2, TextFacts
  <2> QED
    BY <2>2, <2>3 DEF EndOf
<1>2. ASSUME PoolInv, pc # "aborted", NEW k \in InPool(StoredNames)
      PROVE  Extent(k) \subseteq 0 .. pool.size - 1
  <2>1. PICK t \in pool.text :
               /\ t.key = k /\ t.offset = pool.name[k].offset /\ t.offset \in Nat
               /\ EndOf(t) <= pool.size /\ EndOf(t) = pool.name[k].offset + StrSize[k]
               /\ StrSize[k] \in Nat /\ pool.size \in Nat
    BY <1>1, <1>2
  <2>2. ASSUME NEW o \in Nat, NEW n \in Nat, o + n <= pool.size
        PROVE  o .. o + n - 1 \subseteq 0 .. pool.size - 1
    BY <2>1, <2>2
  <2> QED
    BY <2>1, <2>2 DEF Extent
<1>3. ASSUME PoolInv, pc # "aborted", NEW k \in InPool(StoredNames),
             NEW l \in InPool(StoredNames), k # l
      PROVE  Extent(k) \cap Extent(l) = {}
  <2>1. PICK t \in pool.text :
               /\ t.key = k /\ t.offset = pool.name[k].offset /\ t.offset \in Nat
               /\ EndOf(t) = pool.name[k].offset + StrSize[k] /\ StrSize[k] \in Nat
    BY <1>1, <1>3
  <2>2. PICK u \in pool.text :
               /\ u.key = l /\ u.offset = pool.name[l].offset /\ u.offset \in Nat
               /\ EndOf(u) = pool.name[l].offset + StrSize[l] /\ StrSize[l] \in Nat
    BY <1>1, <1>3
  <2>3. EndOf(t) <= u.offset \/ EndOf(u) <= t.offset
    BY <1>3, <2>1, <2>2, PoolParts DEF GoodPool, TextLaidOut
  <2>4. ASSUME NEW o \in Nat, NEW n \in Nat, NEW a \in Nat, NEW m \in Nat,
               o + n <= a \/ a + m <= o
        PROVE  (o .. o + n - 1) \cap (a .. a + m - 1) = {}
    BY <2>4
  <2>5. /\ pool.name[k].offset \in Nat /\ pool.name[l].offset \in Nat
        /\ \/ pool.name[k].offset + StrSize[k] <= pool.name[l].offset
           \/ pool.name[l].offset + StrSize[l] <= pool.name[k].offset
    BY <2>1, <2>2, <2>3
  <2> QED
    BY <2>1, <2>2, <2>4, <2>5 DEF Extent
<1>4. PooledKeys = InPool(StoredNames)
  BY DEF PooledKeys, InPool, StoredKeys, StoredNames
<1>5. ASSUME PoolInv, pc # "aborted"
      PROVE  pool.size <= pool.capacity /\ pool.used = CharCount(StrSize, PooledKeys)
  BY <1>4, <1>5, PoolParts DEF GoodPool
<1>6. PoolInv => PoolAccounting
  BY <1>2, <1>3, <1>4, <1>5 DEF PoolAccounting
<1> QED
  BY <1>6, PoolInvariance, PTL

(* No assertion of the pool ever fails: no name is released twice, what is *)
(* moved or copied fits where it goes, and a shrink leaves room for what   *)
(* is used.                                                                *)
THEOREM NoPoolErrorEver == PoolSpec => []NoPoolError
<1>1. PoolInv => NoPoolError
  BY DEF PoolInv
<1> QED
  BY <1>1, PoolInvariance, PTL

(***************************************************************************)
(* With the pool the hashtable is the same map.                            *)
(***************************************************************************)

(* An abort of the pool does not show, and its other steps are those of    *)
(* the hashtable.                                                          *)
LEMMA PoolMapStep ==
  ASSUME PoolInv, PoolMoves
  PROVE  [Map!MapNext]_(Map!mapVars)
<1>1. ASSUME pc # "aborted", [Next]_vars PROVE [Map!MapNext]_(Map!mapVars)
  BY <1>1, MapStep, PoolParts
<1>2. ASSUME UNCHANGED <<size, items, stash, item, index, backup, adding, ret>>,
             pc = "null" <=> pc' = "null"
      PROVE  [Map!MapNext]_(Map!mapVars)
  <2>1. Stored' = Stored
    BY <1>2, StoredUnchanged
  <2>2. Entries' = Entries
    BY <1>2, <2>1 DEF Entries, Live
  <2> QED
    BY <1>2, <2>2 DEF Map!mapVars
<1>3. ASSUME NEW p, NEW ACTION step, PoolStep(p, step), pc \in {"idle", "drain"},
             step => [Next]_vars
      PROVE  [Map!MapNext]_(Map!mapVars)
  <2>1. CASE step
    BY <1>1, <1>3, <2>1
  <2>2. CASE ~step
    <3>1. /\ pc' = "aborted"
          /\ UNCHANGED <<size, items, stash, item, index, backup, adding, ret>>
      BY <1>3, <2>2 DEF PoolStep, Abort, tableVars, stashVars, callVars, walkVars, mergeVars
    <3> QED
      BY <1>2, <1>3, <3>1
  <2> QED
    BY <2>1, <2>2
<1>4. ASSUME NEW n \in NewSizes, NEW h \in Hashers, PoolNew(n, h)
      PROVE  pc # "aborted" /\ [Next]_vars
  BY <1>4 DEF PoolNew, New, Next, Call
<1>5. ASSUME PoolDelete PROVE pc # "aborted" /\ [Next]_vars
  BY <1>5 DEF PoolDelete, Delete, Next, Call
<1>6. ASSUME NEW k \in Key, PoolRemove(k) PROVE [Map!MapNext]_(Map!mapVars)
  <2>1. pc = "idle" /\ (Remove(k) => [Next]_vars)
    BY <1>6 DEF PoolRemove, Next, Call
  <2>2. \/ Remove(k)
        \/ PoolStep(FreeKey(pool, k, HoldersWithout(k)), Remove(k))
    BY <1>6 DEF PoolRemove
  <2> QED
    BY <1>1, <1>3, <2>1, <2>2
<1>7. ASSUME NEW k \in Key, NEW v \in Written, NEW ptr, PoolWriteNew(k, v, ptr)
      PROVE  [Map!MapNext]_(Map!mapVars)
  <2>1. pc = "idle" /\ (WriteNew(k, v) => [Next]_vars)
    BY <1>7 DEF PoolWriteNew, Next, Call
  <2>2. WriteNew(k, v) \/ \E p : PoolStep(p, WriteNew(k, v))
    BY <1>7 DEF PoolWriteNew
  <2> QED
    BY <1>1, <1>3, <2>1, <2>2
<1>8. ASSUME PoolDrainDone PROVE [Map!MapNext]_(Map!mapVars)
  <2>1. pc = "drain" /\ (DrainDone => [Next]_vars) /\ \E p : PoolStep(p, DrainDone)
    BY <1>8 DEF PoolDrainDone, DrainEnds, Next, AddStep
  <2> QED
    BY <1>3, <2>1
<1>9. ASSUME PoolUntouched \/ UNCHANGED <<vars, poolVars>> PROVE [Map!MapNext]_(Map!mapVars)
  <2>1. [Next]_vars
    BY <1>9 DEF PoolUntouched, Next, Call
  <2>2. CASE pc # "aborted"
    BY <1>1, <2>1, <2>2
  <2>3. CASE pc = "aborted"
    <3>1. UNCHANGED vars
      BY <1>9, <2>3 DEF PoolUntouched, AddStep, DrainStep, DrainDone, PlaceFree, PlaceTaken,
         WalkFree, WalkKick, StashItem, StashFull, Count, Grow, GrowRefused, GrowNoMemory,
         MergeStep, MergeDone, Return, Read, Replace, Halted
    <3> QED
      BY <1>2, <3>1 DEF vars
  <2> QED
    BY <2>2, <2>3
<1> QED
  BY <1>1, <1>4, <1>5, <1>6, <1>7, <1>8, <1>9 DEF PoolMoves, PoolNext

(* The hashtable implements the map of coucal.h with its keys in the pool. *)
THEOREM PoolImplementsMap == PoolSpec => ImplementsMap
<1>1. PoolInit => Map!MapInit
  BY MapInitial DEF PoolInit
<1>2. PoolInv /\ [PoolNext]_<<vars, poolVars>> => [Map!MapNext]_(Map!mapVars)
  BY PoolMapStep DEF PoolMoves
<1> QED
  BY <1>1, <1>2, PoolInvariance, PTL DEF PoolSpec, ImplementsMap, Map!MapSpec
==============================================================================
