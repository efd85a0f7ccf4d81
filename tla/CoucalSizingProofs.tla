------------------------- MODULE CoucalSizingProofs --------------------------
(***************************************************************************)
(* Proofs about the sizes that coucal.c computes in machine arithmetic,    *)
(* for every width of size_t and of a hash, every size of an item and      *)
(* every limit of the allocator.                                           *)
(***************************************************************************)
EXTENDS CoucalSizing, FiniteSetTheorems, TLAPS

(***************************************************************************)
(* Powers of two, from the numbers of subsets.                             *)
(***************************************************************************)

(* An interval of n numbers has 2^n subsets.                               *)
LEMMA SubsetsOfInterval ==
  ASSUME NEW n \in Nat
  PROVE  /\ IsFiniteSet(SUBSET (1 .. n))
         /\ Cardinality(SUBSET (1 .. n)) = 2^n
         /\ Cardinality(SUBSET (1 .. n)) \in Nat
<1>1. IsFiniteSet(1 .. n) /\ Cardinality(1 .. n) = n
  BY FS_Interval
<1>2. IsFiniteSet(SUBSET (1 .. n)) /\ Cardinality(SUBSET (1 .. n)) = 2^Cardinality(1 .. n)
  BY <1>1, FS_SUBSET
<1> QED
  BY <1>1, <1>2, FS_CardinalityType

(* A power of two is at least one.                                         *)
LEMMA PowerPositive ==
  ASSUME NEW n \in Nat
  PROVE  2^n \in Nat \ {0}
<1>1. SUBSET (1 .. n) # {}
  OBVIOUS
<1> QED
  BY <1>1, SubsetsOfInterval, FS_EmptySet

(* Powers of two grow.                                                     *)
LEMMA PowerGrows ==
  ASSUME NEW m \in Nat, NEW n \in Nat, m < n
  PROVE  2^m < 2^n
<1> DEFINE S == SUBSET (1 .. m)
           T == SUBSET (1 .. n)
<1>1. S \in SUBSET T
  OBVIOUS
<1>2. n \in 1 .. n /\ n \notin 1 .. m
  OBVIOUS
<1>3. S # T
  <2>1. (1 .. n) \in T /\ (1 .. n) \notin S
    BY <1>2
  <2> QED
    BY <2>1
<1>4. /\ IsFiniteSet(T) /\ Cardinality(T) \in Nat /\ Cardinality(S) \in Nat
      /\ Cardinality(S) = 2^m /\ Cardinality(T) = 2^n
  BY SubsetsOfInterval
<1> HIDE DEF S, T
<1>5. Cardinality(S) <= Cardinality(T) /\ Cardinality(S) # Cardinality(T)
  BY <1>1, <1>3, <1>4, FS_Subset
<1>6. Cardinality(S) < Cardinality(T)
  BY <1>4, <1>5
<1> QED
  BY <1>4, <1>6

(* The next power of two is the double.                                    *)
LEMMA PowerDoubles ==
  ASSUME NEW n \in Nat
  PROVE  2^(n + 1) = 2 * 2^n
<1> DEFINE S == SUBSET (1 .. n)
           N == n + 1
           T == {U \cup {N} : U \in S}
           W == SUBSET (1 .. n + 1)
<1>1. /\ IsFiniteSet(S) /\ Cardinality(S) = 2^n /\ Cardinality(S) \in Nat
      /\ Cardinality(W) = 2^(n + 1)
  BY SubsetsOfInterval
<1>2. \A U \in S : N \notin U /\ U \subseteq 1 .. n
  OBVIOUS
<1>3. W = S \cup T
  <2>1. 1 .. n + 1 = (1 .. n) \cup {N}
    OBVIOUS
  <2>2. ASSUME NEW V \in SUBSET (1 .. n + 1), N \in V PROVE V \in T
    <3>1. V \ {N} \in S
      BY <2>1
    <3>2. V = (V \ {N}) \cup {N}
      BY <2>2
    <3> QED
      BY <3>1, <3>2
  <2>3. \A V \in SUBSET (1 .. n + 1) : N \notin V => V \in S
    BY <2>1
  <2>4. \A V \in S \cup T : V \in SUBSET (1 .. n + 1)
    BY <2>1
  <2> QED
    BY <2>2, <2>3, <2>4
<1>4. S \cap T = {}
  BY <1>2
<1>5. ExistsBijection(S, T)
  <2> DEFINE f == [U \in S |-> U \cup {N}]
  <2>1. f \in [S -> T]
    OBVIOUS
  <2>2. \A U, V \in S : f[U] = f[V] => U = V
    <3> SUFFICES ASSUME NEW U \in S, NEW V \in S, f[U] = f[V] PROVE U = V
      OBVIOUS
    <3>1. U \cup {N} = V \cup {N} /\ N \notin U /\ N \notin V
      BY <1>2
    <3>2. \A x : x \in U <=> x \in V
      BY <3>1
    <3> QED
      BY <3>2
  <2>3. \A V \in T : \E U \in S : f[U] = V
    OBVIOUS
  <2> HIDE DEF f
  <2>4. f \in Bijection(S, T)
    BY <2>1, <2>2, <2>3 DEF Bijection, Injection, Surjection, IsInjective
  <2> QED
    BY <2>4 DEF ExistsBijection
<1> HIDE DEF S, T, N, W
<1>6. IsFiniteSet(T) /\ Cardinality(T) = Cardinality(S)
  BY <1>1, <1>5, FS_Bijection
<1>7. Cardinality(S \cup T) = Cardinality(S) + Cardinality(T) - Cardinality(S \cap T)
  BY <1>1, <1>6, FS_Union
<1>8. Cardinality(S \cap T) = 0
  BY <1>4, FS_EmptySet
<1>9. Cardinality(W) = Cardinality(S \cup T)
  BY <1>3
<1>10. Cardinality(W) = 2 * Cardinality(S)
  BY <1>1, <1>6, <1>7, <1>8, <1>9
<1> QED
  BY <1>1, <1>10

(* A number below the modulus is its own remainder.                        *)
LEMMA SmallRemainder ==
  ASSUME NEW m \in Nat \ {0}, NEW a \in Nat, a < m
  PROVE  a % m = a
OBVIOUS

(* A remainder is below the modulus.                                       *)
LEMMA RemainderBelow ==
  ASSUME NEW m \in Nat \ {0}, NEW a \in Nat
  PROVE  a % m \in Nat /\ a % m < m
OBVIOUS

(***************************************************************************)
(* The inductive invariant.                                                *)
(***************************************************************************)
SizingTypeOK ==
  /\ build \in Builds
  /\ pc \in {"null", "pow2", "allocate", "refused", "idle", "capacity", "aborted"}
  /\ request \in Nat /\ lg_size \in Nat /\ bytes \in Nat /\ shift \in Nat
  /\ pool_size \in Nat /\ pool_capacity \in Nat /\ len \in Nat /\ capacity \in Nat

(* The sizes below lg_size are too small, and it is large enough unless    *)
(* there is no acceptable one.                                             *)
TooSmall == \A l \in MinLgSize .. lg_size - 1 : 2^l < request

SizeSought ==
  /\ pc # "null" => lg_size >= MinLgSize
  /\ pc \in {"pow2", "allocate", "refused"} => TooSmall
  /\ pc \in {"allocate", "refused"} => (IsAcceptablePow2(lg_size) => 2^lg_size >= request)

InUse == pc \in {"idle", "capacity"}

TableSized ==
  InUse => IsAcceptablePow2(lg_size) /\ bytes = 2^lg_size * build.item_bytes

PoolSized ==
  /\ pool_size <= pool_capacity
  /\ pc = "capacity" => pool_size + len < Modulus

SizingInv ==
  /\ SizingTypeOK /\ ShiftDefined
  /\ SizeSought /\ TableSized /\ PoolSized

(* The widths are positive numbers, and so is the modulus.                 *)
LEMMA Widths ==
  ASSUME build \in Builds
  PROVE  /\ build.size_bits \in Nat \ {0} /\ build.hash_bits \in Nat \ {0}
         /\ build.item_bytes \in Nat \ {0} /\ build.alloc_bits \in Nat \ {0}
         /\ MinLgSize \in Nat \ {0} /\ MinLgSize < build.size_bits
         /\ MinLgSize <= build.hash_bits
         /\ Modulus \in Nat \ {0}
<1>1. /\ build.size_bits \in Nat \ {0} /\ build.hash_bits \in Nat \ {0}
      /\ build.item_bytes \in Nat \ {0} /\ build.alloc_bits \in Nat \ {0}
  BY SizingAssumption
<1>2. /\ MinLgSize \in Nat \ {0} /\ MinLgSize < build.size_bits
      /\ MinLgSize <= build.hash_bits
  BY SizingAssumption
<1> QED
  BY <1>1, <1>2, PowerPositive DEF Modulus

(* POW2() of an acceptable exponent loses no bit.                          *)
LEMMA AcceptablePow2 ==
  ASSUME build \in Builds, NEW lg \in Nat, lg < build.size_bits
  PROVE  Pow2(lg) = 2^lg /\ 2^lg \in Nat \ {0} /\ 2^lg < Modulus
<1>1. 2^lg \in Nat \ {0} /\ 2^lg < Modulus
  BY Widths, PowerPositive, PowerGrows DEF Modulus
<1> QED
  BY <1>1, Widths, SmallRemainder DEF Pow2, Mod

(* Shifting by an acceptable amount is defined.                            *)
LEMMA ShiftStays ==
  ASSUME build \in Builds, UNCHANGED build, ShiftDefined, shift \in Nat, NEW x \in Nat,
         x < build.size_bits, Shifts(x)
  PROVE  ShiftDefined' /\ shift' \in Nat
BY Widths DEF ShiftDefined, Shifts

(* Nothing is requested at first.                                          *)
LEMMA SizingInvInit ==
  SizingInit => SizingInv
<1> SUFFICES ASSUME SizingInit PROVE SizingInv
  OBVIOUS
<1>1. build \in Builds
  BY DEF SizingInit
<1> QED
  BY <1>1, Widths DEF SizingInit, SizingInv, SizingTypeOK, ShiftDefined, SizeSought,
     TableSized, PoolSized, InUse

(* The loop of coucal_get_pow2().                                          *)
LEMMA SizingSearch ==
  ASSUME SizingInv, GetPow2Step
  PROVE  SizingInv'
<1>1. /\ build \in Builds /\ pc = "pow2" /\ lg_size \in Nat /\ request \in Nat /\ shift \in Nat
      /\ UNCHANGED <<build, request, bytes, pool_size, pool_capacity, len, capacity>>
      /\ lg_size >= MinLgSize /\ ShiftDefined
      /\ TooSmall
  BY DEF SizingInv, SizingTypeOK, SizeSought, GetPow2Step, poolSizes
<1>2. MinLgSize \in Nat /\ build.size_bits \in Nat
  BY <1>1, Widths
<1>3. ShiftDefined' /\ shift' \in Nat
  <2>1. CASE IsAcceptablePow2(lg_size)
    BY <1>1, <2>1, ShiftStays DEF GetPow2Step, IsAcceptablePow2
  <2>2. CASE ~IsAcceptablePow2(lg_size)
    BY <1>1, <2>2 DEF GetPow2Step, ShiftDefined
  <2> QED
    BY <2>1, <2>2
<1>4. ASSUME IsAcceptablePow2(lg_size) PROVE Pow2(lg_size) = 2^lg_size /\ 2^lg_size \in Nat
  BY <1>1, <1>4, AcceptablePow2 DEF IsAcceptablePow2
<1>5. CASE IsAcceptablePow2(lg_size) /\ Pow2(lg_size) < request
  <2>1. lg_size' = lg_size + 1 /\ pc' = "pow2"
    BY <1>1, <1>5 DEF GetPow2Step
  <2>2. \A l \in MinLgSize .. lg_size' - 1 : l \in MinLgSize .. lg_size - 1 \/ l = lg_size
    BY <1>1, <1>2, <2>1
  <2>3. TooSmall'
    BY <1>1, <1>4, <1>5, <2>2 DEF TooSmall
  <2> QED
    BY <1>1, <1>2, <1>3, <2>1, <2>3
       DEF SizingInv, SizingTypeOK, SizeSought, TableSized, PoolSized, InUse
<1>6. CASE ~(IsAcceptablePow2(lg_size) /\ Pow2(lg_size) < request)
  <2>1. lg_size' = lg_size /\ pc' = "allocate"
    BY <1>1, <1>6 DEF GetPow2Step
  <2>2. TooSmall'
    BY <1>1, <2>1 DEF TooSmall
  <2>3. IsAcceptablePow2(lg_size) => 2^lg_size >= request
    BY <1>1, <1>4, <1>6
  <2>4. IsAcceptablePow2(lg_size)' <=> IsAcceptablePow2(lg_size)
    BY <1>1, <2>1 DEF IsAcceptablePow2
  <2> QED
    BY <1>1, <1>3, <2>1, <2>2, <2>3, <2>4
       DEF SizingInv, SizingTypeOK, SizeSought, TableSized, PoolSized, InUse
<1> QED
  BY <1>5, <1>6

(* The allocation of the table.                                            *)
LEMMA SizingAllocation ==
  ASSUME SizingInv, AllocateTable \/ RefuseSize
  PROVE  SizingInv'
<1>1. /\ build \in Builds /\ pc = "allocate" /\ lg_size \in Nat /\ shift \in Nat
      /\ UNCHANGED <<build, request, lg_size, pool_size, pool_capacity, len, capacity>>
      /\ pc' \in {"idle", "refused"}
  BY DEF SizingInv, SizingTypeOK, AllocateTable, RefuseSize, poolSizes
<1>2. ShiftDefined' /\ shift' \in Nat
  <2>1. CASE AllocateTable
    BY <1>1, <2>1, ShiftStays DEF AllocateTable, IsAcceptablePow2, SizingInv
  <2>2. CASE RefuseSize
    BY <2>2 DEF RefuseSize, SizingInv, SizingTypeOK, ShiftDefined
  <2> QED
    BY <2>1, <2>2
<1>3. UNCHANGED <<TooSmall, IsAcceptablePow2(lg_size)>>
  BY <1>1 DEF TooSmall, IsAcceptablePow2
<1>4. ASSUME AllocateTable, pc' = "idle"
      PROVE  IsAcceptablePow2(lg_size) /\ bytes' = 2^lg_size * build.item_bytes /\ bytes' \in Nat
  <2>1. IsAcceptablePow2(lg_size) /\ bytes' = Pow2(lg_size) * build.item_bytes
    BY <1>4 DEF AllocateTable
  <2>2. Pow2(lg_size) = 2^lg_size /\ 2^lg_size \in Nat
    BY <1>1, <2>1, AcceptablePow2 DEF IsAcceptablePow2
  <2> QED
    BY <1>1, <2>1, <2>2, Widths
<1>5. pc' = "refused" => bytes' = bytes
  BY DEF AllocateTable, RefuseSize
<1>6. RefuseSize => pc' # "idle"
  BY DEF RefuseSize
<1>7. SizingTypeOK'
  BY <1>1, <1>2, <1>4, <1>5, <1>6 DEF SizingInv, SizingTypeOK
<1>8. SizeSought'
  BY <1>1, <1>3 DEF SizingInv, SizeSought
<1>9. TableSized'
  BY <1>1, <1>3, <1>4, <1>6 DEF TableSized, InUse
<1>10. PoolSized'
  <2>1. pc # "capacity" /\ pc' # "capacity"
    BY <1>1
  <2> QED
    BY <1>1, <2>1 DEF SizingInv, PoolSized
<1> QED
  BY <1>2, <1>7, <1>8, <1>9, <1>10 DEF SizingInv

(* A product that was checked against the largest size has not wrapped.    *)
LEMMA NoWrap ==
  ASSUME NEW M \in Nat, NEW a \in Nat, NEW d \in Nat \ {0}, a <= M \div d
  PROVE  a * d <= M /\ a * d \in Nat
<1> DEFINE q == M \div d
<1>1. q \in Nat /\ q * d <= M
  OBVIOUS
<1> HIDE DEF q
<1>2. a <= q
  BY DEF q
<1>3. (q - a) * d >= 0 /\ (q - a) * d = q * d - a * d /\ a * d \in Nat /\ q * d \in Nat
  BY <1>1, <1>2
<1> QED
  BY <1>1, <1>3

(* The size in bytes of a doubled table is exact.                          *)
LEMMA DoubledBytes ==
  ASSUME build \in Builds, NEW lg \in Nat \ {0}, lg = lg_size, lg < build.size_bits,
         ~SizeOverflow
  PROVE  AllocSize = 2^(lg + 1) * build.item_bytes /\ AllocSize \in Nat
<1> DEFINE i == build.item_bytes
           m == Modulus
           h == 2^(lg - 1)
           s == 2^lg
<1>1. i \in Nat \ {0} /\ m \in Nat \ {0}
  BY Widths
<1>2. HalfSize = h /\ h \in Nat \ {0}
  BY Widths, AcceptablePow2 DEF HalfSize
<1>3. s \in Nat \ {0} /\ s < m
  BY AcceptablePow2
<1>4. s = h * 2
  <2>1. lg - 1 \in Nat /\ (lg - 1) + 1 = lg
    OBVIOUS
  <2>2. 2^((lg - 1) + 1) = 2 * h
    BY <2>1, PowerDoubles
  <2>3. s = 2 * h
    BY <2>1, <2>2
  <2> HIDE DEF s, h
  <2> QED
    BY <1>2, <2>3
<1>5. 2^(lg + 1) = 2 * s
  BY PowerDoubles
<1> HIDE DEF i, m, h, s
<1>6. PrevSize = s
  BY <1>1, <1>2, <1>3, <1>4, SmallRemainder DEF PrevSize, Mod, m
<1>7. s <= (m - 1) \div (2 * i)
  <2>1. (m - 1) \div (2 * i) \in Nat
    BY <1>1
  <2> QED
    BY <1>3, <1>6, <2>1 DEF SizeOverflow, m, i
<1>8. s * (2 * i) <= m - 1 /\ s * (2 * i) \in Nat
  BY <1>1, <1>3, <1>7, NoWrap
<1>9. s * i \in Nat /\ (s * i) * 2 = s * (2 * i) /\ (2 * s) * i = s * (2 * i)
  BY <1>1, <1>3
<1>10. s * i < m /\ (s * i) * 2 < m /\ (s * i) * 2 \in Nat
  BY <1>1, <1>8, <1>9
<1>11. Mod(s * i) = s * i
  BY <1>1, <1>9, <1>10, SmallRemainder DEF Mod, m
<1>12. Mod((s * i) * 2) = (s * i) * 2
  BY <1>1, <1>10, SmallRemainder DEF Mod, m
<1>13. AllocSize = (s * i) * 2
  BY <1>6, <1>11, <1>12 DEF AllocSize, i
<1>14. AllocSize = (2 * s) * i
  BY <1>9, <1>13
<1> QED
  BY <1>5, <1>10, <1>13, <1>14 DEF i

(* The doubling of the table.                                              *)
LEMMA SizingDoubling ==
  ASSUME SizingInv, DoubleTable
  PROVE  SizingInv'
<1>1. /\ build \in Builds /\ pc = "idle" /\ lg_size \in Nat /\ shift \in Nat
      /\ UNCHANGED <<build, request, pool_size, pool_capacity, len, capacity>>
      /\ lg_size >= MinLgSize /\ ShiftDefined /\ lg_size < build.size_bits
      /\ lg_size' = lg_size + 1 /\ Shifts(lg_size - 1) /\ pc' \in {"idle", "aborted"}
      /\ pc' = "aborted" => bytes' = bytes
      /\ pc' = "idle" => IsAcceptablePow2(lg_size + 1) /\ ~SizeOverflow /\ bytes' = AllocSize
  BY DEF SizingInv, SizingTypeOK, SizeSought, TableSized, InUse, IsAcceptablePow2,
     DoubleTable, poolSizes
<1>2. lg_size \in Nat \ {0} /\ lg_size - 1 \in Nat /\ lg_size - 1 < build.size_bits
  BY <1>1, Widths
<1>3. ShiftDefined' /\ shift' \in Nat
  BY <1>1, <1>2, ShiftStays
<1>4. pc' = "idle" => /\ bytes' = 2^lg_size' * build'.item_bytes /\ bytes' \in Nat
                      /\ IsAcceptablePow2(lg_size)'
  <2>1. ASSUME pc' = "idle"
        PROVE  bytes' = 2^(lg_size + 1) * build.item_bytes /\ bytes' \in Nat
    BY <1>1, <1>2, <2>1, DoubledBytes
  <2>2. IsAcceptablePow2(lg_size)' <=> IsAcceptablePow2(lg_size + 1)
    BY <1>1 DEF IsAcceptablePow2
  <2> QED
    BY <1>1, <2>1, <2>2
<1>5. SizingTypeOK'
  BY <1>1, <1>3, <1>4 DEF SizingInv, SizingTypeOK
<1>6. SizeSought'
  BY <1>1, Widths DEF SizeSought
<1>7. TableSized' /\ PoolSized'
  BY <1>1, <1>4 DEF SizingInv, TableSized, PoolSized, InUse
<1> QED
  BY <1>3, <1>5, <1>6, <1>7 DEF SizingInv

(* The calls: a new table, and copies to the pool.                         *)
LEMMA SizingCalls ==
  ASSUME SizingInv, NEW n \in Size, SizingNew(n) \/ DupFits(n) \/ DupGrows(n)
  PROVE  SizingInv'
<1>1. build \in Builds /\ UNCHANGED <<build, bytes, shift>>
  BY DEF SizingInv, SizingTypeOK, SizingNew, DupFits, DupGrows
<1>2. n \in Nat /\ Modulus \in Nat
  BY <1>1, Widths DEF Size
<1>3. ShiftDefined'
  BY <1>1 DEF SizingInv, ShiftDefined
<1>4. CASE SizingNew(n)
  <2>1. /\ pc' = "pow2" /\ request' = n /\ lg_size' = MinLgSize
        /\ UNCHANGED <<pool_size, pool_capacity, len, capacity>>
    BY <1>4 DEF SizingNew, poolSizes
  <2>2. MinLgSize \in Nat /\ MinLgSize .. lg_size' - 1 = {}
    BY <1>1, <2>1, Widths
  <2>3. TooSmall'
    BY <2>2 DEF TooSmall
  <2> QED
    BY <1>1, <1>2, <1>3, <2>1, <2>2, <2>3 DEF SizingInv, SizingTypeOK, SizeSought, TableSized,
       PoolSized, InUse
<1>5. CASE DupFits(n) \/ DupGrows(n)
  <2>1. /\ pc = "idle" /\ pc' \in {"idle", "capacity"} /\ UNCHANGED <<request, lg_size, pool_capacity>>
        /\ bytes + pool_capacity + n < Modulus
    BY <1>5 DEF DupFits, DupGrows, NameInMemory
  <2>2. UNCHANGED IsAcceptablePow2(lg_size)
    BY <1>1, <2>1 DEF IsAcceptablePow2
  <2>3. /\ lg_size >= MinLgSize /\ IsAcceptablePow2(lg_size)
        /\ bytes = 2^lg_size * build.item_bytes /\ pool_size <= pool_capacity
        /\ pool_size \in Nat /\ pool_capacity \in Nat /\ bytes \in Nat
        /\ len \in Nat /\ capacity \in Nat /\ request \in Nat /\ lg_size \in Nat /\ shift \in Nat
    BY <2>1 DEF SizingInv, SizingTypeOK, SizeSought, TableSized, PoolSized, InUse
  <2>4. SizeSought' /\ TableSized'
    BY <1>1, <2>1, <2>2, <2>3 DEF SizeSought, TableSized, InUse
  <2>5. CASE DupFits(n)
    <3>1. /\ pc' = "idle" /\ pool_size' = pool_size + n /\ pool_capacity - pool_size >= n
          /\ UNCHANGED <<len, capacity>>
      BY <2>5 DEF DupFits
    <3>2. SizingTypeOK' /\ PoolSized'
      BY <1>1, <1>2, <2>1, <2>3, <3>1 DEF SizingTypeOK, PoolSized
    <3> QED
      BY <1>3, <2>4, <3>2 DEF SizingInv
  <2>6. CASE DupGrows(n)
    <3>1. /\ pc' = "capacity" /\ len' = n /\ capacity' = MinPoolCapacity
          /\ UNCHANGED <<pool_size, Modulus>>
      BY <1>1, <2>6 DEF DupGrows, Modulus
    <3>2. MinPoolCapacity \in Nat
      <4>1. MinPoolCapacity \in 1 .. 2^(build.size_bits - 1) - 1
        BY <1>1, SizingAssumption
      <4> QED
        BY <4>1
    <3>3. SizingTypeOK'
      BY <1>1, <1>2, <2>1, <2>3, <3>1, <3>2 DEF SizingTypeOK
    <3>4. pool_size' + len' < Modulus'
      BY <1>2, <2>1, <2>3, <3>1
    <3>5. PoolSized'
      BY <2>1, <2>3, <3>1, <3>4 DEF PoolSized
    <3> QED
      BY <1>3, <2>4, <3>3, <3>5 DEF SizingInv
  <2> QED
    BY <1>5, <2>5, <2>6
<1> QED
  BY <1>4, <1>5

(* The search for a capacity of the pool: the room needed has not wrapped. *)
LEMMA SizingCapacity ==
  ASSUME SizingInv, CapacityStep \/ CapacityFound
  PROVE  SizingInv'
<1>1. /\ build \in Builds /\ UNCHANGED <<build, request, lg_size, bytes, shift>>
      /\ pc = "capacity" /\ pc' \in {"idle", "capacity", "aborted"}
  BY DEF SizingInv, SizingTypeOK, CapacityStep, CapacityFound
<1>2. UNCHANGED <<Modulus, IsAcceptablePow2(lg_size)>> /\ Modulus \in Nat \ {0}
  BY <1>1, Widths DEF Modulus, IsAcceptablePow2
<1>3. /\ lg_size >= MinLgSize /\ IsAcceptablePow2(lg_size)
      /\ bytes = 2^lg_size * build.item_bytes /\ pool_size <= pool_capacity
      /\ pool_size \in Nat /\ pool_capacity \in Nat /\ bytes \in Nat
      /\ len \in Nat /\ capacity \in Nat /\ request \in Nat /\ lg_size \in Nat /\ shift \in Nat
      /\ pool_size + len < Modulus /\ ShiftDefined
  BY <1>1 DEF SizingInv, SizingTypeOK, SizeSought, TableSized, PoolSized, InUse
<1>4. SizeSought' /\ TableSized' /\ ShiftDefined'
  BY <1>1, <1>2, <1>3 DEF SizeSought, TableSized, InUse, ShiftDefined
<1>5. Needed = pool_size + len
  <2>1. pool_size + len \in Nat
    BY <1>3
  <2> QED
    BY <1>2, <1>3, <2>1, SmallRemainder DEF Needed, Mod
<1>6. CASE CapacityStep
  <2>1. capacity' = (capacity * 2) % Modulus /\ UNCHANGED <<pc, pool_size, pool_capacity, len>>
    BY <1>6 DEF CapacityStep, Mod
  <2>2. capacity' \in Nat
    <3>1. capacity * 2 \in Nat
      BY <1>3
    <3> QED
      BY <1>2, <2>1, <3>1, RemainderBelow
  <2>3. SizingTypeOK' /\ PoolSized'
    BY <1>1, <1>2, <1>3, <2>1, <2>2 DEF SizingTypeOK, PoolSized
  <2> QED
    BY <1>4, <2>3 DEF SizingInv
<1>7. CASE CapacityFound
  <2>1. /\ pc' \in {"idle", "aborted"} /\ len' = 0 /\ capacity' = 0
        /\ \/ UNCHANGED <<pool_size, pool_capacity>>
           \/ capacity >= Needed /\ pool_capacity' = capacity /\ pool_size' = pool_size + len
    BY <1>7 DEF CapacityFound
  <2>2. pool_size' \in Nat /\ pool_capacity' \in Nat /\ pool_size' <= pool_capacity'
    BY <1>3, <1>5, <2>1
  <2>3. SizingTypeOK' /\ PoolSized'
    BY <1>1, <1>3, <2>1, <2>2 DEF SizingTypeOK, PoolSized
  <2> QED
    BY <1>4, <2>3 DEF SizingInv
<1> QED
  BY <1>6, <1>7

(* Nothing changes.                                                        *)
LEMMA SizingStops ==
  ASSUME SizingInv, UNCHANGED sizingVars
  PROVE  SizingInv'
<1>1. UNCHANGED <<build, pc, request, lg_size, bytes, shift, pool_size, pool_capacity, len,
                  capacity>>
  BY DEF sizingVars, poolSizes
<1>2. UNCHANGED <<Modulus, IsAcceptablePow2(lg_size), TooSmall, InUse>>
  BY <1>1 DEF Modulus, IsAcceptablePow2, TooSmall, InUse
<1> QED
  BY <1>1, <1>2 DEF SizingInv, SizingTypeOK, ShiftDefined, SizeSought, TableSized, PoolSized

(* The sizes stay right in every state.                                    *)
THEOREM SizingInvariance == SizingSpec => []SizingInv
<1>1. SizingInv /\ [SizingNext]_sizingVars => SizingInv'
  BY SizingSearch, SizingAllocation, SizingDoubling, SizingCalls, SizingCapacity, SizingStops
     DEF SizingNext, Step, Stopped
<1> QED
  BY <1>1, SizingInvInit, PTL DEF SizingSpec

(* POW2() never shifts by the width of size_t, whatever the requested size *)
(* and the number of doublings.                                            *)
THEOREM ShiftAlwaysDefined == SizingSpec => []ShiftDefined
<1>1. SizingInv => ShiftDefined
  BY DEF SizingInv
<1> QED
  BY <1>1, SizingInvariance, PTL

(* The items of the table have all their bytes, after any number of        *)
(* doublings, in any build.                                                *)
THEOREM TableAlwaysAllocated == SizingSpec => []TableAllocated
<1>1. SizingInv => TableAllocated
  BY DEF SizingInv, TableSized, TableAllocated, InUse
<1> QED
  BY <1>1, SizingInvariance, PTL

(* Every string of the pool lies inside its buffer.                        *)
THEOREM PoolAlwaysInCapacity == SizingSpec => []PoolInCapacity
<1>1. SizingInv => PoolInCapacity
  BY DEF SizingInv, PoolSized, PoolInCapacity
<1> QED
  BY <1>1, SizingInvariance, PTL

(* The mask of a position keeps every bit of the table's size.             *)
THEOREM MaskAlwaysCoversTable == SizingSpec => []MaskCoversTable
<1>1. SizingInv => MaskCoversTable
  <2> SUFFICES ASSUME SizingInv, pc = "idle" PROVE Mask(lg_size) + 1 = 2^lg_size
    BY DEF MaskCoversTable
  <2> DEFINE s == 2^lg_size
             h == 2^build.hash_bits
  <2>1. /\ build \in Builds /\ lg_size \in Nat
        /\ lg_size < build.size_bits /\ lg_size <= build.hash_bits
    BY DEF SizingInv, SizingTypeOK, TableSized, InUse, IsAcceptablePow2
  <2>2. Pow2(lg_size) = s /\ s \in Nat \ {0} /\ s < Modulus
    BY <2>1, AcceptablePow2
  <2>3. h \in Nat \ {0} /\ s <= h
    BY <2>1, <2>2, Widths, PowerPositive, PowerGrows
  <2> HIDE DEF s, h
  <2>4. s - 1 \in Nat /\ s - 1 < Modulus /\ s - 1 < h
    BY <2>1, <2>2, <2>3, Widths
  <2>5. Mod(s - 1) = s - 1 /\ (s - 1) % h = s - 1
    BY <2>1, <2>3, <2>4, Widths, SmallRemainder DEF Mod
  <2>6. Mask(lg_size) = s - 1
    BY <2>2, <2>5 DEF Mask, h
  <2> QED
    BY <2>2, <2>6 DEF s
<1> QED
  BY <1>1, SizingInvariance, PTL

(* coucal_new() makes the smallest acceptable table that has the requested *)
(* size, and refuses only when there is none or no memory.                 *)
THEOREM LeastPow2Always == SizingSpec => []LeastPow2
<1>1. SizingInv => LeastPow2
  <2> SUFFICES ASSUME SizingInv, pc \in {"allocate", "refused"} PROVE LeastPow2
    BY DEF LeastPow2
  <2> DEFINE enough == {l \in MinLgSize .. build.size_bits :
                          IsAcceptablePow2(l) /\ 2^l >= request}
  <2>1. /\ build \in Builds /\ lg_size \in Nat /\ lg_size >= MinLgSize /\ TooSmall
        /\ IsAcceptablePow2(lg_size) => 2^lg_size >= request
        /\ request \in Nat
    BY DEF SizingInv, SizingTypeOK, SizeSought
  <2>2. MinLgSize \in Nat /\ build.size_bits \in Nat /\ build.hash_bits \in Nat
    BY <2>1, Widths
  <2>3. ASSUME NEW l \in enough PROVE lg_size <= l
    <3>1. l \in Nat /\ l >= MinLgSize /\ 2^l \in Nat /\ 2^l >= request
      BY <2>2, <2>3, PowerPositive
    <3>2. l \in MinLgSize .. lg_size - 1 => 2^l < request
      BY <2>1 DEF TooSmall
    <3>3. l \notin MinLgSize .. lg_size - 1
      BY <2>1, <3>1, <3>2
    <3> QED
      BY <2>1, <2>2, <3>1, <3>3
  <2>4. CASE IsAcceptablePow2(lg_size)
    <3>1. lg_size \in enough
      BY <2>1, <2>2, <2>4 DEF IsAcceptablePow2
    <3> QED
      BY <2>3, <3>1 DEF LeastPow2
  <2>5. CASE ~IsAcceptablePow2(lg_size)
    <3>1. ASSUME NEW l \in enough PROVE FALSE
      BY <2>1, <2>2, <2>3, <2>5, <3>1 DEF IsAcceptablePow2
    <3> QED
      BY <2>5, <3>1 DEF LeastPow2
  <2> QED
    BY <2>4, <2>5
<1> QED
  BY <1>1, SizingInvariance, PTL

(* The capacity sought is not 0, unless the pool needs more than half of   *)
(* what a size_t counts.                                                   *)
CapacityPositive ==
  pc = "capacity" /\ Needed <= Modulus \div 2 => capacity >= 1

(* A doubling of a capacity that is too small, for a need of at most half. *)
LEMMA DoubledCapacity ==
  ASSUME SizingInv, CapacityPositive, CapacityStep, Needed <= Modulus \div 2
  PROVE  capacity' \in capacity + 1 .. Modulus - 1
<1>1. /\ capacity \in Nat /\ capacity < Needed /\ capacity >= 1
      /\ capacity' = (capacity * 2) % Modulus
  BY DEF SizingInv, SizingTypeOK, CapacityStep, CapacityPositive, Mod
<1>2. Modulus \in Nat \ {0}
  BY Widths DEF SizingInv, SizingTypeOK
<1>3. Needed \in Nat
  BY <1>2, RemainderBelow DEF Needed, Mod, SizingInv, SizingTypeOK
<1> DEFINE m == Modulus
           c == capacity
           n == Needed
<1>4. /\ m \in Nat \ {0} /\ c \in Nat /\ n \in Nat
      /\ c >= 1 /\ c < n /\ n <= m \div 2
  BY <1>1, <1>2, <1>3
<1> HIDE DEF m, c, n
<1>5. c * 2 \in Nat /\ c * 2 < m /\ c * 2 > c
  BY <1>4
<1>6. (c * 2) % m = c * 2
  BY <1>4, <1>5, SmallRemainder
<1>7. capacity' = c * 2
  BY <1>1, <1>6 DEF m, c
<1>8. c * 2 \in c + 1 .. m - 1
  BY <1>4, <1>5
<1> QED
  BY <1>7, <1>8 DEF m, c

LEMMA CapacityPositiveStep ==
  ASSUME SizingInv, CapacityPositive, [SizingNext]_sizingVars
  PROVE  CapacityPositive'
<1>1. build' = build
  BY DEF SizingNext, Step, Stopped, sizingVars, SizingNew, DupFits, DupGrows, DoubleTable,
     GetPow2Step, AllocateTable, RefuseSize, CapacityStep, CapacityFound
<1>2. Modulus' = Modulus
  BY <1>1 DEF Modulus
<1>3. CASE CapacityStep
  <2>1. UNCHANGED <<pool_size, len>>
    BY <1>3 DEF CapacityStep
  <2>2. Needed' = Needed
    BY <1>2, <2>1 DEF Needed, Mod
  <2>3. ASSUME Needed <= Modulus \div 2 PROVE capacity' >= 1
    <3>1. capacity \in Nat
      BY DEF SizingInv, SizingTypeOK
    <3> QED
      BY <1>3, <2>3, <3>1, DoubledCapacity
  <2> QED
    BY <1>2, <2>2, <2>3 DEF CapacityPositive
<1>4. CASE \E n \in Size : DupGrows(n)
  <2>1. capacity' = MinPoolCapacity
    BY <1>4 DEF DupGrows
  <2>2. MinPoolCapacity \in 1 .. 2^(build.size_bits - 1) - 1
    BY SizingAssumption DEF SizingInv, SizingTypeOK
  <2> QED
    BY <2>1, <2>2 DEF CapacityPositive
<1>5. CASE UNCHANGED sizingVars
  <2>1. UNCHANGED <<pc, pool_size, len, capacity>>
    BY <1>5 DEF sizingVars, poolSizes
  <2>2. Needed' = Needed
    BY <1>2, <2>1 DEF Needed, Mod
  <2> QED
    BY <1>2, <2>1, <2>2 DEF CapacityPositive
<1>6. CASE \/ \E n \in Size : SizingNew(n) \/ DupFits(n)
           \/ DoubleTable \/ GetPow2Step \/ AllocateTable \/ RefuseSize \/ CapacityFound
  <2>1. pc' # "capacity"
    BY <1>6 DEF SizingNew, DupFits, DoubleTable, GetPow2Step, AllocateTable, RefuseSize,
       CapacityFound
  <2> QED
    BY <2>1 DEF CapacityPositive
<1> QED
  BY <1>3, <1>4, <1>5, <1>6 DEF SizingNext, Step, Stopped

(* The loop that doubles the capacity ends as long as the pool needs no    *)
(* more than half of what a size_t counts, for every width and smallest    *)
(* capacity.                                                               *)
THEOREM CapacityGrowsAlways == SizingSpec => CapacityGrows
<1>1. SizingInit => CapacityPositive
  BY DEF SizingInit, CapacityPositive
<1>2. SizingInv /\ CapacityPositive /\ [SizingNext]_sizingVars => CapacityPositive'
  BY CapacityPositiveStep
<1>3. SizingInv /\ CapacityPositive =>
        (pc = "capacity" /\ Needed <= Modulus \div 2 => capacity # 0)
  BY DEF CapacityPositive
<1>4. SizingInv /\ CapacityPositive /\ [SizingNext]_sizingVars =>
        [CapacityStep /\ Needed <= Modulus \div 2 =>
           capacity' \in capacity + 1 .. Modulus - 1]_sizingVars
  BY DoubledCapacity
<1> QED
  BY <1>1, <1>2, <1>3, <1>4, SizingInvariance, PTL DEF SizingSpec, CapacityGrows
==============================================================================
