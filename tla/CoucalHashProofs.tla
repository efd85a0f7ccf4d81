-------------------------- MODULE CoucalHashProofs ---------------------------
(***************************************************************************)
(* What is proved of the hash functions, for keys of any length: every     *)
(* byte is read, once; one byte that differs is never lost on the way to   *)
(* the digest; the two hashes returned differ.                             *)
(***************************************************************************)
EXTENDS CoucalHash, TLAPS

(***************************************************************************)
(* Arithmetic.                                                             *)
(***************************************************************************)
LEMMA DivMod ==
  ASSUME NEW n \in Nat \ {0}, NEW x \in Int
  PROVE  /\ x = (n * (x \div n)) + (x % n)
         /\ x \div n \in Int /\ x % n \in 0 .. n - 1
         /\ x \in Nat => x \div n \in Nat
BY SMT

Multiple(n, d) == \E t \in Int : d = n * t

LEMMA SmallMod ==
  ASSUME NEW n \in Nat \ {0}, NEW x \in 0 .. n - 1
  PROVE  x % n = x
BY SMT

(* A multiple of n closer to zero than n is zero. *)
LEMMA SmallMultiple ==
  ASSUME NEW n \in Nat \ {0}, NEW d \in Int, Multiple(n, d), - n < d, d < n
  PROVE  d = 0
<1>1. PICK t \in Int : d = n * t
  BY DEF Multiple
<1>2. t >= 1 => n * t >= n
  OBVIOUS
<1>3. t <= -1 => n * t <= - n
  OBVIOUS
<1>4. t = 0
  BY <1>1, <1>2, <1>3
<1> QED
  BY <1>1, <1>4

LEMMA DivUnique ==
  ASSUME NEW n \in Nat \ {0}, NEW a \in Int, NEW b \in Int,
         NEW u \in 0 .. n - 1, NEW v \in 0 .. n - 1, (n * a) + u = (n * b) + v
  PROVE  a = b /\ u = v
<1> DEFINE d == v - u
           t == a - b
<1>1. d \in Int /\ t \in Int /\ d = n * t /\ - n < d /\ d < n
  OBVIOUS
<1>2. d = v - u /\ t = a - b
  OBVIOUS
<1> HIDE DEF d, t
<1>3. d = 0
  BY <1>1, SmallMultiple DEF Multiple
<1>4. t = 0
  BY <1>1, <1>3
<1> QED
  BY <1>2, <1>3, <1>4

LEMMA Congruent ==
  ASSUME NEW n \in Nat \ {0}, NEW a \in Int, NEW b \in Int, a % n = b % n
  PROVE  Multiple(n, a - b)
<1> DEFINE t == (a \div n) - (b \div n)
<1>1. /\ a = (n * (a \div n)) + (a % n) /\ a \div n \in Int /\ a % n \in 0 .. n - 1
      /\ b = (n * (b \div n)) + (b % n) /\ b \div n \in Int /\ b % n \in 0 .. n - 1
  BY DivMod
<1>2. a - b = n * t /\ t \in Int
  BY <1>1
<1> HIDE DEF t
<1> QED
  BY <1>2 DEF Multiple

LEMMA CongruentEqual ==
  ASSUME NEW n \in Nat \ {0}, NEW a \in 0 .. n - 1, NEW b \in 0 .. n - 1, NEW k \in Int,
         (a + k) % n = (b + k) % n
  PROVE  a = b
<1> DEFINE A == a + k
           B == b + k
           d == A - B
<1>1. A \in Int /\ B \in Int /\ A % n = B % n
  OBVIOUS
<1>2. d = a - b /\ d \in Int /\ - n < d /\ d < n
  OBVIOUS
<1> HIDE DEF A, B
<1>3. Multiple(n, d)
  BY <1>1, Congruent
<1> HIDE DEF d
<1>4. d = 0
  BY <1>2, <1>3, SmallMultiple
<1> QED
  BY <1>2, <1>4

(* An odd multiplier has an inverse modulo a power of two. *)
Unit(c, n) == \E inverse, e \in Int : c * inverse = 1 + (n * e)

(* A multiplication by it can be undone. *)
LEMMA UnitDivides ==
  ASSUME NEW n \in Nat \ {0}, NEW c \in Int, Unit(c, n), NEW d \in Int, Multiple(n, d * c)
  PROVE  Multiple(n, d)
<1>1. PICK inverse, e \in Int : c * inverse = 1 + (n * e)
  BY DEF Unit
<1>2. PICK m \in Int : d * c = n * m
  BY DEF Multiple
<1>3. (d * c) * inverse = (n * m) * inverse
  BY <1>2
<1>4. (d * c) * inverse = d * (c * inverse)
  BY <1>1
<1>5. d * (c * inverse) = d + (n * (e * d))
  BY <1>1
<1>6. (n * m) * inverse = n * (m * inverse)
  BY <1>1, <1>2
<1> DEFINE t == (m * inverse) - (e * d)
<1>7. d = n * t /\ t \in Int
  BY <1>1, <1>2, <1>3, <1>4, <1>5, <1>6
<1> HIDE DEF t
<1> QED
  BY <1>7 DEF Multiple

LEMMA UnitCongruent ==
  ASSUME NEW n \in Nat \ {0}, NEW c \in Int, Unit(c, n),
         NEW a \in Int, NEW b \in Int, NEW k \in Int,
         ((c * a) + k) % n = ((c * b) + k) % n
  PROVE  Multiple(n, a - b)
<1> DEFINE A == (c * a) + k
           B == (c * b) + k
           d == a - b
<1>1. A \in Int /\ B \in Int /\ A % n = B % n /\ d \in Int /\ A - B = d * c
  OBVIOUS
<1> HIDE DEF A, B
<1>2. Multiple(n, A - B)
  BY <1>1, Congruent
<1> HIDE DEF d
<1>3. Multiple(n, d * c)
  BY <1>1, <1>2
<1>4. Multiple(n, d)
  BY <1>1, <1>3, UnitDivides
<1> QED
  BY <1>4 DEF d

LEMMA UnitEqual ==
  ASSUME NEW n \in Nat \ {0}, NEW c \in Int, Unit(c, n),
         NEW a \in 0 .. n - 1, NEW b \in 0 .. n - 1, (a * c) % n = (b * c) % n
  PROVE  a = b
<1> DEFINE k == 0
           d == a - b
<1>1. k \in Int /\ a \in Int /\ b \in Int /\ d \in Int /\ - n < d /\ d < n
  OBVIOUS
<1>2. (c * a) + k = a * c /\ (c * b) + k = b * c
  OBVIOUS
<1> HIDE DEF k
<1>3. ((c * a) + k) % n = ((c * b) + k) % n
  BY <1>2
<1>4. Multiple(n, d)
  BY <1>1, <1>3, UnitCongruent
<1> HIDE DEF d
<1>5. d = 0
  BY <1>1, <1>4, SmallMultiple
<1> QED
  BY <1>5 DEF d

LEMMA UnitReduced ==
  ASSUME NEW n \in Nat \ {0}, NEW c \in Nat, Unit(c, n)
  PROVE  c % n \in 0 .. n - 1 /\ Unit(c % n, n)
<1>1. PICK inverse, e \in Int : c * inverse = 1 + (n * e)
  BY DEF Unit
<1> DEFINE q == c \div n
           r == c % n
<1>2. c = (n * q) + r /\ q \in Int /\ r \in 0 .. n - 1
  BY DivMod
<1> HIDE DEF q, r
<1>3. r * inverse = (c * inverse) - (n * (q * inverse))
  BY <1>1, <1>2
<1>4. (c * inverse) - (n * (q * inverse)) = 1 + (n * (e - (q * inverse)))
  BY <1>1, <1>2
<1>5. e - (q * inverse) \in Int
  BY <1>1, <1>2
<1>6. Unit(r, n)
  BY <1>1, <1>3, <1>4, <1>5 DEF Unit
<1> QED
  BY <1>2, <1>6 DEF r

LEMMA UnitDivisor ==
  ASSUME NEW n \in Nat \ {0}, NEW m \in Nat, NEW c \in Nat, Unit(c, n * m)
  PROVE  Unit(c, n)
<1>1. PICK inverse, e \in Int : c * inverse = 1 + ((n * m) * e)
  BY DEF Unit
<1>2. (n * m) * e = n * (m * e) /\ m * e \in Int
  BY <1>1
<1> QED
  BY <1>1, <1>2 DEF Unit

(***************************************************************************)
(* The widths: each is a power of two that divides the modulus in which    *)
(* the inverses below are given.                                           *)
(***************************************************************************)
LEMMA Widths ==
  /\ Byte \in Nat /\ Byte >= 2 /\ Word \in Nat \ {0} /\ TwoWords \in Nat \ {0}
  /\ Word = Byte * (Byte * (Byte * Byte)) /\ TwoWords = Word * Word
  /\ \/ Word = 16 /\ TwoWords = 256
     \/ Word = 256 /\ TwoWords = 65536
     \/ Word = 65536 /\ TwoWords = 4294967296
     \/ Word = 4294967296 /\ TwoWords = 4294967296 * 4294967296
<1>1. CASE ByteBits = 1
  <2>1. 2^1 = 2 /\ 2^4 = 16
    OBVIOUS
  <2>2. WordBits = 4
    BY <1>1 DEF WordBits
  <2>3. 256 = 16 * 16 /\ 16 = 2 * (2 * (2 * 2))
    OBVIOUS
  <2>4. Byte = 2 /\ Word = 16 /\ TwoWords = 256
    BY <1>1, <2>1, <2>2, <2>3 DEF Byte, Word, TwoWords
  <2> QED
    BY <2>3, <2>4
<1>2. CASE ByteBits = 2
  <2>1. 2^2 = 4 /\ 2^8 = 256
    OBVIOUS
  <2>2. WordBits = 8
    BY <1>2 DEF WordBits
  <2>3. 65536 = 256 * 256 /\ 256 = 4 * (4 * (4 * 4))
    OBVIOUS
  <2>4. Byte = 4 /\ Word = 256 /\ TwoWords = 65536
    BY <1>2, <2>1, <2>2, <2>3 DEF Byte, Word, TwoWords
  <2> QED
    BY <2>3, <2>4
<1>3. CASE ByteBits = 4
  <2>1. 2^4 = 16 /\ 2^16 = 65536
    OBVIOUS
  <2>2. WordBits = 16
    BY <1>3 DEF WordBits
  <2>3. 4294967296 = 65536 * 65536 /\ 65536 = 16 * (16 * (16 * 16))
    OBVIOUS
  <2>4. Byte = 16 /\ Word = 65536 /\ TwoWords = 4294967296
    BY <1>3, <2>1, <2>2, <2>3 DEF Byte, Word, TwoWords
  <2> QED
    BY <2>3, <2>4
<1>4. CASE ByteBits = 8
  <2>1. 2^8 = 256 /\ 2^32 = 4294967296
    OBVIOUS
  <2>2. WordBits = 32
    BY <1>4 DEF WordBits
  <2>3. 4294967296 = 256 * (256 * (256 * 256))
    OBVIOUS
  <2>4. Byte = 256 /\ Word = 4294967296 /\ TwoWords = 4294967296 * 4294967296
    BY <1>4, <2>1, <2>2, <2>3 DEF Byte, Word, TwoWords
  <2>5. Word = Byte * (Byte * (Byte * Byte))
    BY <2>3, <2>4
  <2>6. TwoWords = Word * Word
    BY <2>4
  <2>7. /\ Byte \in Nat /\ Byte >= 2 /\ Word \in Nat \ {0}
        /\ Word = 4294967296 /\ TwoWords = 4294967296 * 4294967296
    BY <2>4
  <2>8. TwoWords \in Nat \ {0}
    <3>1. \A w \in Nat \ {0} : w * w \in Nat \ {0}
      OBVIOUS
    <3>2. Word \in Nat \ {0}
      BY <2>7
    <3> QED
      BY <2>6, <3>1, <3>2
  <2> QED
    BY <2>5, <2>6, <2>7, <2>8
<1> QED
  BY <1>1, <1>2, <1>3, <1>4, HashAssumption

(* The amounts of the rotations and of the shifts. *)
Amounts == {13, 15, 16, 17, 18, 19}

(* 2^Scaled(r) and 2^(WordBits - Scaled(r)), whose product is a word *)
LEMMA AmountsScaled ==
  ASSUME NEW r \in Amounts
  PROVE  /\ 2^Scaled(r) \in Nat /\ 2^Scaled(r) >= 2
         /\ 2^(WordBits - Scaled(r)) \in Nat /\ 2^(WordBits - Scaled(r)) >= 2
         /\ Word = 2^Scaled(r) * 2^(WordBits - Scaled(r))
<1>1. r = 13 \/ r = 15 \/ r = 16 \/ r = 17 \/ r = 18 \/ r = 19
  BY DEF Amounts
<1>2. CASE ByteBits = 1
  <2>1. /\ 2^1 = 2 /\ 2^2 = 4 /\ 2^3 = 8 /\ 2^4 = 16
    OBVIOUS
  <2>2. WordBits = 4
    BY <1>2 DEF WordBits
  <2>3. Scaled(r) = (r * 4) \div 32
    BY <2>2 DEF Scaled
  <2>4. Scaled(r) = 1 \/ Scaled(r) = 2
    BY <1>1, <2>3
  <2>5. CASE Scaled(r) = 1
    BY <2>1, <2>2, <2>5 DEF Word
  <2>6. CASE Scaled(r) = 2
    BY <2>1, <2>2, <2>6 DEF Word
  <2> QED
    BY <2>4, <2>5, <2>6
<1>3. CASE ByteBits = 2
  <2>1. /\ 2^3 = 8 /\ 2^4 = 16 /\ 2^5 = 32 /\ 2^8 = 256
    OBVIOUS
  <2>2. WordBits = 8
    BY <1>3 DEF WordBits
  <2>3. Scaled(r) = (r * 8) \div 32
    BY <2>2 DEF Scaled
  <2>4. Scaled(r) = 3 \/ Scaled(r) = 4
    BY <1>1, <2>3
  <2>5. CASE Scaled(r) = 3
    BY <2>1, <2>2, <2>5 DEF Word
  <2>6. CASE Scaled(r) = 4
    BY <2>1, <2>2, <2>6 DEF Word
  <2> QED
    BY <2>4, <2>5, <2>6
<1>4. CASE ByteBits = 4
  <2>1. /\ 2^6 = 64 /\ 2^7 = 128 /\ 2^8 = 256 /\ 2^9 = 512
        /\ 2^10 = 1024 /\ 2^16 = 65536
    OBVIOUS
  <2>2. WordBits = 16
    BY <1>4 DEF WordBits
  <2>3. Scaled(r) = (r * 16) \div 32
    BY <2>2 DEF Scaled
  <2>4. Scaled(r) = 6 \/ Scaled(r) = 7 \/ Scaled(r) = 8 \/ Scaled(r) = 9
    BY <1>1, <2>3
  <2>5. CASE Scaled(r) = 6
    BY <2>1, <2>2, <2>5 DEF Word
  <2>6. CASE Scaled(r) = 7
    BY <2>1, <2>2, <2>6 DEF Word
  <2>7. CASE Scaled(r) = 8
    BY <2>1, <2>2, <2>7 DEF Word
  <2>8. CASE Scaled(r) = 9
    BY <2>1, <2>2, <2>8 DEF Word
  <2> QED
    BY <2>4, <2>5, <2>6, <2>7, <2>8
<1>5. CASE ByteBits = 8
  <2>1. /\ 2^13 = 8192 /\ 2^14 = 16384 /\ 2^15 = 32768 /\ 2^16 = 65536
        /\ 2^17 = 131072 /\ 2^18 = 262144 /\ 2^19 = 524288 /\ 2^32 = 4294967296
    OBVIOUS
  <2>2. WordBits = 32
    BY <1>5 DEF WordBits
  <2>3. Scaled(r) = (r * 32) \div 32
    BY <2>2 DEF Scaled
  <2>4. \/ Scaled(r) = 13 \/ Scaled(r) = 15 \/ Scaled(r) = 16
        \/ Scaled(r) = 17 \/ Scaled(r) = 18 \/ Scaled(r) = 19
    BY <1>1, <2>3
  <2>5. CASE Scaled(r) = 13
    BY <2>1, <2>2, <2>5 DEF Word
  <2>6. CASE Scaled(r) = 15
    BY <2>1, <2>2, <2>6 DEF Word
  <2>7. CASE Scaled(r) = 16
    BY <2>1, <2>2, <2>7 DEF Word
  <2>8. CASE Scaled(r) = 17
    BY <2>1, <2>2, <2>8 DEF Word
  <2>9. CASE Scaled(r) = 18
    BY <2>1, <2>2, <2>9 DEF Word
  <2>10. CASE Scaled(r) = 19
    BY <2>1, <2>2, <2>10 DEF Word
  <2> QED
    BY <2>4, <2>5, <2>6, <2>7, <2>8, <2>9, <2>10
<1> QED
  BY <1>2, <1>3, <1>4, <1>5, HashAssumption

(***************************************************************************)
(* The multipliers.                                                        *)
(***************************************************************************)
LEMMA ConstUnit ==
  ASSUME NEW high \in Nat, NEW low \in Nat, Unit((high * 65536) + low, 4294967296)
  PROVE  Const(high, low) \in 0 .. Word - 1 /\ Unit(Const(high, low), Word)
<1> DEFINE c == (high * 65536) + low
<1>1. c \in Nat
  OBVIOUS
<1>2. Unit(c, Word)
  <2>1. /\ 4294967296 = 16 * 268435456 /\ 4294967296 = 256 * 16777216
        /\ 4294967296 = 65536 * 65536 /\ 4294967296 = 4294967296 * 1
    OBVIOUS
  <2>2. \E m \in Nat : 4294967296 = Word * m
    <3>1. Word = 16 \/ Word = 256 \/ Word = 65536 \/ Word = 4294967296
      BY Widths
    <3>2. CASE Word = 16
      BY <2>1, <3>2
    <3>3. CASE Word = 256
      BY <2>1, <3>3
    <3>4. CASE Word = 65536
      BY <2>1, <3>4
    <3>5. CASE Word = 4294967296
      BY <2>1, <3>5
    <3> QED
      BY <3>1, <3>2, <3>3, <3>4, <3>5
  <2>3. PICK m \in Nat : 4294967296 = Word * m
    BY <2>2
  <2>4. Unit(c, Word * m)
    BY <2>3
  <2> HIDE DEF c
  <2> QED
    BY <1>1, <2>4, Widths, UnitDivisor
<1>3. c % Word \in 0 .. Word - 1 /\ Unit(c % Word, Word)
  <2> HIDE DEF c
  <2> QED
    BY <1>1, <1>2, Widths, UnitReduced
<1>4. Const(high, low) = c % Word
  <2>1. CASE Word = 16
    <3>1. 65536 % 16 = 0
      OBVIOUS
    <3>2. Const(high, low) = ((high * 0) + low) % 16
      BY <2>1, <3>1 DEF Const
    <3>3. ((high * 0) + low) % 16 = ((high * 65536) + low) % 16
      OBVIOUS
    <3> QED
      BY <2>1, <3>2, <3>3
  <2>2. CASE Word = 256
    <3>1. 65536 % 256 = 0
      OBVIOUS
    <3>2. Const(high, low) = ((high * 0) + low) % 256
      BY <2>2, <3>1 DEF Const
    <3>3. ((high * 0) + low) % 256 = ((high * 65536) + low) % 256
      OBVIOUS
    <3> QED
      BY <2>2, <3>2, <3>3
  <2>3. CASE Word = 65536
    <3>1. 65536 % 65536 = 0
      OBVIOUS
    <3>2. Const(high, low) = ((high * 0) + low) % 65536
      BY <2>3, <3>1 DEF Const
    <3>3. ((high * 0) + low) % 65536 = ((high * 65536) + low) % 65536
      OBVIOUS
    <3> QED
      BY <2>3, <3>2, <3>3
  <2>4. CASE Word = 4294967296
    <3>1. 65536 % 4294967296 = 65536
      OBVIOUS
    <3>2. Const(high, low) = ((high * 65536) + low) % 4294967296
      BY <2>4, <3>1 DEF Const
    <3>3. ((high * 65536) + low) % 4294967296 = ((high * 65536) + low) % 4294967296
      OBVIOUS
    <3> QED
      BY <2>4, <3>2, <3>3
  <2> QED
    BY <2>1, <2>2, <2>3, <2>4, Widths
<1> QED
  BY <1>3, <1>4

IsUnit(c, n) == c \in 0 .. n - 1 /\ Unit(c, n)

LEMMA Multipliers ==
  /\ \A l \in 1 .. 4 : IsUnit(C[l], Word)
  /\ IsUnit(F[1], Word) /\ IsUnit(F[2], Word)
<1>1. IsUnit(C[1], Word)
  <2>1. Unit(597399067, 4294967296)
    <3>1. \E inverse, e \in Int : 597399067 * inverse = 1 + (4294967296 * e)
      <4> WITNESS 2311672851 \in Int, 321537071 \in Int
      <4> QED
        OBVIOUS
    <3> QED
      BY <3>1 DEF Unit
  <2>2. (9115 * 65536) + 38427 = 597399067
    OBVIOUS
  <2>3. Unit((9115 * 65536) + 38427, 4294967296)
    BY <2>1, <2>2
  <2>4. IsUnit(Const(9115, 38427), Word)
    BY <2>3, ConstUnit DEF IsUnit
  <2> QED
    BY <2>4 DEF C
<1>2. IsUnit(C[2], Word)
  <2>1. Unit(2869860233, 4294967296)
    <3>1. \E inverse, e \in Int : 2869860233 * inverse = 1 + (4294967296 * e)
      <4> WITNESS 3742568121 \in Int, 2500751852 \in Int
      <4> QED
        OBVIOUS
    <3> QED
      BY <3>1 DEF Unit
  <2>2. (43790 * 65536) + 38793 = 2869860233
    OBVIOUS
  <2>3. Unit((43790 * 65536) + 38793, 4294967296)
    BY <2>1, <2>2
  <2>4. IsUnit(Const(43790, 38793), Word)
    BY <2>3, ConstUnit DEF IsUnit
  <2> QED
    BY <2>4 DEF C
<1>3. IsUnit(C[3], Word)
  <2>1. Unit(951274213, 4294967296)
    <3>1. \E inverse, e \in Int : 951274213 * inverse = 1 + (4294967296 * e)
      <4> WITNESS 1954046701 \in Int, 432793572 \in Int
      <4> QED
        OBVIOUS
    <3> QED
      BY <3>1 DEF Unit
  <2>2. (14515 * 65536) + 19173 = 951274213
    OBVIOUS
  <2>3. Unit((14515 * 65536) + 19173, 4294967296)
    BY <2>1, <2>2
  <2>4. IsUnit(Const(14515, 19173), Word)
    BY <2>3, ConstUnit DEF IsUnit
  <2> QED
    BY <2>4 DEF C
<1>4. IsUnit(C[4], Word)
  <2>1. Unit(2716044179, 4294967296)
    <3>1. \E inverse, e \in Int : 2716044179 * inverse = 1 + (4294967296 * e)
      <4> WITNESS 1490438811 \in Int, 942521183 \in Int
      <4> QED
        OBVIOUS
    <3> QED
      BY <3>1 DEF Unit
  <2>2. (41443 * 65536) + 35731 = 2716044179
    OBVIOUS
  <2>3. Unit((41443 * 65536) + 35731, 4294967296)
    BY <2>1, <2>2
  <2>4. IsUnit(Const(41443, 35731), Word)
    BY <2>3, ConstUnit DEF IsUnit
  <2> QED
    BY <2>4 DEF C
<1>5. IsUnit(F[1], Word)
  <2>1. Unit(2246822507, 4294967296)
    <3>1. \E inverse, e \in Int : 2246822507 * inverse = 1 + (4294967296 * e)
      <4> WITNESS 2781581891 \in Int, 1455126516 \in Int
      <4> QED
        OBVIOUS
    <3> QED
      BY <3>1 DEF Unit
  <2>2. (34283 * 65536) + 51819 = 2246822507
    OBVIOUS
  <2>3. Unit((34283 * 65536) + 51819, 4294967296)
    BY <2>1, <2>2
  <2>4. IsUnit(Const(34283, 51819), Word)
    BY <2>3, ConstUnit DEF IsUnit
  <2> QED
    BY <2>4 DEF F
<1>6. IsUnit(F[2], Word)
  <2>1. Unit(3266489909, 4294967296)
    <3>1. \E inverse, e \in Int : 3266489909 * inverse = 1 + (4294967296 * e)
      <4> WITNESS 2127672349 \in Int, 1618177690 \in Int
      <4> QED
        OBVIOUS
    <3> QED
      BY <3>1 DEF Unit
  <2>2. (49842 * 65536) + 44597 = 3266489909
    OBVIOUS
  <2>3. Unit((49842 * 65536) + 44597, 4294967296)
    BY <2>1, <2>2
  <2>4. IsUnit(Const(49842, 44597), Word)
    BY <2>3, ConstUnit DEF IsUnit
  <2> QED
    BY <2>4 DEF F
<1> QED
  BY <1>1, <1>2, <1>3, <1>4, <1>5, <1>6

LEMMA FiveIsUnit == Unit(5, Word)
<1>1. CASE Word = 16
  <2>1. Unit(5, 16)
    <3>1. \E inverse, e \in Int : 5 * inverse = 1 + (16 * e)
      <4> WITNESS 13 \in Int, 4 \in Int
      <4> QED
        OBVIOUS
    <3> QED
      BY <3>1 DEF Unit
  <2> QED
    BY <1>1, <2>1
<1>2. CASE Word = 256
  <2>1. Unit(5, 256)
    <3>1. \E inverse, e \in Int : 5 * inverse = 1 + (256 * e)
      <4> WITNESS 205 \in Int, 4 \in Int
      <4> QED
        OBVIOUS
    <3> QED
      BY <3>1 DEF Unit
  <2> QED
    BY <1>2, <2>1
<1>3. CASE Word = 65536
  <2>1. Unit(5, 65536)
    <3>1. \E inverse, e \in Int : 5 * inverse = 1 + (65536 * e)
      <4> WITNESS 52429 \in Int, 4 \in Int
      <4> QED
        OBVIOUS
    <3> QED
      BY <3>1 DEF Unit
  <2> QED
    BY <1>3, <2>1
<1>4. CASE Word = 4294967296
  <2>1. Unit(5, 4294967296)
    <3>1. \E inverse, e \in Int : 5 * inverse = 1 + (4294967296 * e)
      <4> WITNESS 3435973837 \in Int, 4 \in Int
      <4> QED
        OBVIOUS
    <3> QED
      BY <3>1 DEF Unit
  <2> QED
    BY <1>4, <2>1
<1> QED
  BY <1>1, <1>2, <1>3, <1>4, Widths

(* the prime and the basis of FNV-1 *)
LEMMA Fnv1Constants == IsUnit(Fnv1Prime, TwoWords) /\ Fnv1OffsetBasis \in 0 .. TwoWords - 1
<1> DEFINE half == 65536 % TwoWords
<1>1. half \in Nat
  BY Widths, DivMod
<1>2. ASSUME TwoWords = 256
      PROVE  Unit(Fnv1Prime, TwoWords)
  <2>1. Unit(179, 256)
    <3>1. \E inverse, e \in Int : 179 * inverse = 1 + (256 * e)
      <4> WITNESS 123 \in Int, 86 \in Int
      <4> QED
        OBVIOUS
    <3> QED
      BY <3>1 DEF Unit
  <2>2. 65536 % 256 = 0
    OBVIOUS
  <2>3. ((((0 * 0) + 256) * 0 + 0) * 0 + 435) % 256 = 179
    OBVIOUS
  <2>4. Fnv1Prime = 179
    BY <1>2, <2>2, <2>3 DEF Fnv1Prime, Const64
  <2> QED
    BY <1>2, <2>1, <2>4
<1>3. ASSUME TwoWords = 65536
      PROVE  Unit(Fnv1Prime, TwoWords)
  <2>1. Unit(435, 65536)
    <3>1. \E inverse, e \in Int : 435 * inverse = 1 + (65536 * e)
      <4> WITNESS 38267 \in Int, 254 \in Int
      <4> QED
        OBVIOUS
    <3> QED
      BY <3>1 DEF Unit
  <2>2. 65536 % 65536 = 0
    OBVIOUS
  <2>3. ((((0 * 0) + 256) * 0 + 0) * 0 + 435) % 65536 = 435
    OBVIOUS
  <2>4. Fnv1Prime = 435
    BY <1>3, <2>2, <2>3 DEF Fnv1Prime, Const64
  <2> QED
    BY <1>3, <2>1, <2>4
<1>4. ASSUME TwoWords = 4294967296
      PROVE  Unit(Fnv1Prime, TwoWords)
  <2>1. Unit(435, 4294967296)
    <3>1. \E inverse, e \in Int : 435 * inverse = 1 + (4294967296 * e)
      <4> WITNESS 2952172923 \in Int, 299 \in Int
      <4> QED
        OBVIOUS
    <3> QED
      BY <3>1 DEF Unit
  <2>2. 65536 % 4294967296 = 65536
    OBVIOUS
  <2>3. ((((0 * 65536) + 256) * 65536 + 0) * 65536 + 435) % 4294967296 = 435
    OBVIOUS
  <2>4. Fnv1Prime = 435
    BY <1>4, <2>2, <2>3 DEF Fnv1Prime, Const64
  <2> QED
    BY <1>4, <2>1, <2>4
<1>5. ASSUME Word = 4294967296, TwoWords = 4294967296 * 4294967296
      PROVE  Unit(Fnv1Prime, TwoWords)
  <2>1. Unit(1099511628211, (4294967296 * 4294967296))
    <3>1. \E inverse, e \in Int : 1099511628211 * inverse = 1 + ((4294967296 * 4294967296) * e)
      <4> DEFINE x == -3560570117845248645
                 y == -212226517156
      <4>1. 3560570117845248645 \in Int /\ 212226517156 \in Int
        OBVIOUS
      <4>2. x \in Int /\ y \in Int
        BY <4>1
      <4>3. 1099511628211 * x = 1 + ((4294967296 * 4294967296) * y)
        OBVIOUS
      <4> HIDE DEF x, y
      <4> QED
        BY <4>2, <4>3
    <3> QED
      BY <3>1 DEF Unit
  <2>2. \A w \in Nat : w >= 1024 => w * w >= 1024 * w
    OBVIOUS
  <2>3. TwoWords > 1099511628211 /\ TwoWords \in Nat \ {0}
    <3>1. Word = 4294967296
      BY <1>5
    <3>2. Word * Word >= 1024 * Word
      <4>1. Word \in Nat /\ Word >= 1024
        BY <3>1
      <4> QED
        BY <2>2, <4>1
    <3>3. TwoWords = Word * Word /\ TwoWords \in Nat \ {0}
      BY Widths
    <3> QED
      BY <3>1, <3>2, <3>3
  <2>4. 65536 % TwoWords = 65536 /\ 1099511628211 % TwoWords = 1099511628211
    BY <2>3, SmallMod
  <2>5. (((((0 * 65536) + 256) * 65536) + 0) * 65536) + 435 = 1099511628211
    OBVIOUS
  <2>6. Fnv1Prime = 1099511628211
    BY <2>4, <2>5 DEF Fnv1Prime, Const64
  <2> QED
    BY <1>5, <2>1, <2>6
<1>6. Unit(Fnv1Prime, TwoWords)
  BY <1>2, <1>3, <1>4, <1>5, Widths
<1>7. Fnv1Prime \in 0 .. TwoWords - 1
  <2> DEFINE b == (((((0 * half) + 256) * half) + 0) * half) + 435
  <2>1. b \in Int
    BY <1>1
  <2>2. Fnv1Prime = b % TwoWords
    BY DEF Fnv1Prime, Const64
  <2> HIDE DEF b
  <2> QED
    BY <2>1, <2>2, Widths, DivMod
<1>8. Fnv1OffsetBasis \in 0 .. TwoWords - 1
  <2> DEFINE b == (((((52210 * half) + 40164) * half) + 33826) * half) + 8997
  <2>1. b \in Int
    BY <1>1
  <2>2. Fnv1OffsetBasis = b % TwoWords
    BY DEF Fnv1OffsetBasis, Const64
  <2> HIDE DEF b
  <2> QED
    BY <2>1, <2>2, Widths, DivMod
<1> QED
  BY <1>6, <1>7, <1>8 DEF IsUnit

(***************************************************************************)
(* Nothing that is done to a word loses a bit of it.                       *)
(***************************************************************************)
Words == 0 .. Word - 1
DoubleWords == 0 .. TwoWords - 1

LEMMA MulWord ==
  ASSUME NEW x \in Words, NEW y \in Words, NEW c, IsUnit(c, Word)
  PROVE  Mul(x, c) \in Words /\ (Mul(x, c) = Mul(y, c) => x = y)
<1>1. c \in Int /\ Unit(c, Word) /\ Word \in Nat \ {0}
  BY Widths DEF IsUnit
<1>2. x * c \in Int
  BY <1>1 DEF Words
<1>3. Mul(x, c) \in Words
  BY <1>1, <1>2, DivMod DEF Mul, Words
<1>4. Mul(x, c) = Mul(y, c) => x = y
  BY <1>1, UnitEqual DEF Mul, Words
<1> QED
  BY <1>3, <1>4

(* What is moved left and what is moved right by a rotation of a number    *)
(* below p * q: its remainder by q, and its quotient.                      *)
RotatedParts(x, p, q, n) ==
  /\ x \div q \in 0 .. p - 1 /\ x % q \in 0 .. q - 1
  /\ x = (q * (x \div q)) + (x % q)
  /\ (x * p) % n = p * (x % q)

LEMMA RotateParts ==
  ASSUME NEW p \in Nat \ {0}, NEW q \in Nat \ {0}, NEW n \in Nat \ {0}, n = p * q,
         NEW x \in 0 .. n - 1
  PROVE  RotatedParts(x, p, q, n)
<1> DEFINE a == x \div q
           u == x % q
<1>1. x = (q * a) + u /\ a \in Nat /\ u \in 0 .. q - 1
  <2>1. x \in Int /\ x \in Nat
    OBVIOUS
  <2>2. x = (q * (x \div q)) + (x % q) /\ x \div q \in Nat /\ x % q \in 0 .. q - 1
    BY <2>1, DivMod
  <2> QED
    BY <2>2
<1>2. x * p \in Int /\ x * p = (n * ((x * p) \div n)) + ((x * p) % n)
      /\ (x * p) \div n \in Int /\ (x * p) % n \in 0 .. n - 1
  <2> DEFINE z == x * p
  <2>1. z \in Int
    OBVIOUS
  <2> HIDE DEF z
  <2>2. z = (n * (z \div n)) + (z % n) /\ z \div n \in Int /\ z % n \in 0 .. n - 1
    BY <2>1, DivMod
  <2> QED
    BY <2>1, <2>2 DEF z
<1> HIDE DEF a, u
<1>3. a < p
  <2>1. a >= p => q * a >= q * p
    BY <1>1
  <2>2. q * p = n
    OBVIOUS
  <2> QED
    BY <1>1, <2>1, <2>2
<1>4. p * u \in 0 .. n - 1
  <2>1. p * u <= p * (q - 1)
    BY <1>1
  <2>2. p * (q - 1) = n - p
    OBVIOUS
  <2>3. p * u >= 0
    BY <1>1
  <2> QED
    BY <1>1, <2>1, <2>2, <2>3
<1>5. x * p = (n * a) + (p * u)
  <2>1. x * p = ((q * a) + u) * p
    BY <1>1
  <2>2. ((q * a) + u) * p = ((p * q) * a) + (p * u)
    BY <1>1
  <2> QED
    BY <2>1, <2>2
<1>6. (x * p) % n = p * u
  <2> DEFINE z == (x * p) \div n
             r == (x * p) % n
             s == p * u
  <2>1. (n * z) + r = (n * a) + s /\ z \in Int /\ r \in 0 .. n - 1 /\ s \in 0 .. n - 1
    BY <1>2, <1>4, <1>5
  <2> HIDE DEF z, r, s
  <2>2. a \in Int
    BY <1>1
  <2>3. r = s
    BY <2>1, <2>2, DivUnique
  <2> QED
    BY <2>3 DEF r, s
<1> QED
  BY <1>1, <1>3, <1>6 DEF a, u, RotatedParts

LEMMA Rotate ==
  ASSUME NEW p \in Nat \ {0}, NEW q \in Nat \ {0}, NEW n \in Nat \ {0}, n = p * q,
         NEW x \in 0 .. n - 1, NEW y \in 0 .. n - 1
  PROVE  /\ ((x * p) % n) + (x \div q) \in 0 .. n - 1
         /\ ((x * p) % n) + (x \div q) = ((y * p) % n) + (y \div q) => x = y
<1> DEFINE a == x \div q
           u == x % q
           b == y \div q
           v == y % q
<1>1. /\ a \in 0 .. p - 1 /\ u \in 0 .. q - 1 /\ x = (q * a) + u /\ (x * p) % n = p * u
      /\ b \in 0 .. p - 1 /\ v \in 0 .. q - 1 /\ y = (q * b) + v /\ (y * p) % n = p * v
  <2>1. RotatedParts(x, p, q, n)
    BY RotateParts
  <2>2. RotatedParts(y, p, q, n)
    BY RotateParts
  <2> QED
    BY <2>1, <2>2 DEF RotatedParts
<1> HIDE DEF a, u, b, v
<1>2. (p * u) + a \in 0 .. n - 1
  <2>1. p * u <= p * (q - 1) /\ p * u >= 0
    BY <1>1
  <2>2. p * (q - 1) = n - p
    OBVIOUS
  <2> QED
    BY <1>1, <2>1, <2>2
<1>3. (p * u) + a = (p * v) + b => u = v /\ a = b
  BY <1>1, DivUnique
<1>4. (p * u) + a = (p * v) + b => x = y
  BY <1>1, <1>3
<1> QED
  BY <1>1, <1>2, <1>4 DEF a, b

LEMMA RotateWord ==
  ASSUME NEW x \in Words, NEW y \in Words, NEW r \in Amounts
  PROVE  Rotl32(x, r) \in Words /\ (Rotl32(x, r) = Rotl32(y, r) => x = y)
<1> DEFINE p == 2^Scaled(r)
           q == 2^(WordBits - Scaled(r))
<1>1. p \in Nat \ {0} /\ q \in Nat \ {0} /\ Word \in Nat \ {0} /\ Word = p * q
  BY AmountsScaled, Widths
<1>2. /\ Rotl32(x, r) = ((x * p) % Word) + (x \div q)
      /\ Rotl32(y, r) = ((y * p) % Word) + (y \div q)
  BY DEF Rotl32
<1> HIDE DEF p, q
<1>3. x \in 0 .. Word - 1 /\ y \in 0 .. Word - 1
  BY DEF Words
<1>4. /\ ((x * p) % Word) + (x \div q) \in 0 .. Word - 1
      /\ ((x * p) % Word) + (x \div q) = ((y * p) % Word) + (y \div q) => x = y
  BY <1>1, <1>3, Rotate
<1> QED
  BY <1>2, <1>4 DEF Words

LEMMA XorWords ==
  /\ \A x, y \in Words : /\ BitXor(x, y) \in Words
                         /\ BitXor(x, y) = BitXor(y, x) /\ BitXor(BitXor(x, y), y) = x
  /\ \A x, y, z \in Words : BitXor(BitXor(x, y), z) = BitXor(x, BitXor(y, z))
BY XorAssumption DEF Words

LEMMA XorCancel ==
  ASSUME NEW x \in Words, NEW y \in Words, NEW z \in Words
  PROVE  /\ BitXor(x, z) = BitXor(y, z) => x = y
         /\ BitXor(z, x) = BitXor(z, y) => x = y
<1>1. BitXor(BitXor(x, z), z) = x /\ BitXor(BitXor(y, z), z) = y
  BY XorWords
<1>2. BitXor(x, z) = BitXor(z, x) /\ BitXor(y, z) = BitXor(z, y)
  BY XorWords
<1> QED
  BY <1>1, <1>2

LEMMA ShiftedWord ==
  ASSUME NEW z \in Words, NEW p \in Nat, p >= 2
  PROVE  z \div p \in Words /\ (z = z \div p => z = 0)
<1> DEFINE q == z \div p
<1>1. z \in Nat /\ z \in Int /\ z < Word /\ Word \in Nat /\ p \in Nat \ {0}
  BY Widths DEF Words
<1>2. z = (p * (z \div p)) + (z % p) /\ z \div p \in Nat /\ z % p \in 0 .. p - 1
  BY <1>1, DivMod
<1>3. q \in Nat /\ z >= p * q
  BY <1>1, <1>2
<1> HIDE DEF q
<1>4. p * q >= 2 * q
  BY <1>3
<1>5. q \in Words /\ (z = q => z = 0)
  BY <1>1, <1>3, <1>4 DEF Words
<1> QED
  BY <1>5 DEF q

(* h ^= h >> r : what two words are different by is not shifted to itself. *)
LEMMA ShiftXorDifference ==
  ASSUME NEW r \in {13, 16}, NEW x \in Words, NEW y \in Words, ShiftXor(x, r) = ShiftXor(y, r)
  PROVE  BitXor(x, y) = 0
<1> DEFINE p == 2^Scaled(r)
           s == x \div p
           t == y \div p
           v == BitXor(x, s)
           d == BitXor(x, y)
<1>1. p \in Nat /\ p >= 2
  BY AmountsScaled DEF Amounts
<1>2. ShiftXor(x, r) = BitXor(x, s) /\ ShiftXor(y, r) = BitXor(y, t)
  BY DEF ShiftXor
<1>3. d \div p = BitXor(s, t)
  BY XorAssumption DEF Words
<1> HIDE DEF p
<1>4. \A z \in Words : z \div p \in Words /\ (z = z \div p => z = 0)
  BY <1>1, ShiftedWord
<1>5. s \in Words /\ t \in Words
  BY <1>4
<1> HIDE DEF s, t
<1>6. v \in Words /\ d \in Words
  BY <1>5, XorWords
<1>7. v = BitXor(y, t)
  BY <1>2
<1>8. x = BitXor(v, s) /\ y = BitXor(v, t)
  BY <1>5, <1>7, XorWords
<1> HIDE DEF v, d
<1>9. BitXor(BitXor(s, v), BitXor(v, t)) = BitXor(s, t)
  <2>1. BitXor(s, v) \in Words /\ BitXor(BitXor(s, v), v) = s
    BY <1>5, <1>6, XorWords
  <2>2. BitXor(BitXor(BitXor(s, v), v), t) = BitXor(BitXor(s, v), BitXor(v, t))
    BY <1>5, <1>6, <2>1, XorWords
  <2> QED
    BY <2>1, <2>2
<1>10. d = BitXor(s, t)
  <2>1. BitXor(v, s) = BitXor(s, v)
    BY <1>5, <1>6, XorWords
  <2> QED
    BY <1>8, <1>9, <2>1 DEF d
<1>11. d = 0
  BY <1>3, <1>4, <1>6, <1>10
<1> QED
  BY <1>11 DEF d

LEMMA ShiftXorWord ==
  ASSUME NEW r \in {13, 16}, NEW x \in Words, NEW y \in Words
  PROVE  ShiftXor(x, r) \in Words /\ (ShiftXor(x, r) = ShiftXor(y, r) => x = y)
<1>1. ShiftXor(x, r) \in Words
  <2> DEFINE p == 2^Scaled(r)
  <2>1. p \in Nat /\ p >= 2
    BY AmountsScaled DEF Amounts
  <2>2. ShiftXor(x, r) = BitXor(x, x \div p)
    BY DEF ShiftXor
  <2> HIDE DEF p
  <2>3. x \div p \in Words
    BY <2>1, ShiftedWord
  <2> QED
    BY <2>2, <2>3, XorWords
<1>2. ASSUME ShiftXor(x, r) = ShiftXor(y, r) PROVE x = y
  <2>1. BitXor(x, y) = 0 /\ BitXor(y, y) = 0
    BY <1>2, ShiftXorDifference
  <2>2. BitXor(BitXor(x, y), y) = x /\ BitXor(BitXor(y, y), y) = y
    BY XorWords
  <2> QED
    BY <2>1, <2>2
<1> QED
  BY <1>1, <1>2

LEMMA Fmix32Word ==
  ASSUME NEW x \in Words, NEW y \in Words
  PROVE  Fmix32(x) \in Words /\ (Fmix32(x) = Fmix32(y) => x = y)
<1> DEFINE a(h) == ShiftXor(h, 16)
           b(h) == Mul(a(h), F[1])
           c(h) == ShiftXor(b(h), 13)
           d(h) == Mul(c(h), F[2])
<1>1. a(x) \in Words /\ a(y) \in Words /\ (a(x) = a(y) => x = y)
  BY ShiftXorWord
<1>2. b(x) \in Words /\ b(y) \in Words /\ (b(x) = b(y) => a(x) = a(y))
  <2> HIDE DEF a
  <2> QED
    BY <1>1, MulWord, Multipliers
<1>3. c(x) \in Words /\ c(y) \in Words /\ (c(x) = c(y) => b(x) = b(y))
  <2> HIDE DEF b
  <2> QED
    BY <1>2, ShiftXorWord
<1>4. d(x) \in Words /\ d(y) \in Words /\ (d(x) = d(y) => c(x) = c(y))
  <2> HIDE DEF c
  <2> QED
    BY <1>3, MulWord, Multipliers
<1>5. ShiftXor(d(x), 16) \in Words /\ (ShiftXor(d(x), 16) = ShiftXor(d(y), 16) => d(x) = d(y))
  <2> HIDE DEF d
  <2> QED
    BY <1>4, ShiftXorWord
<1>6. Fmix32(x) = ShiftXor(d(x), 16) /\ Fmix32(y) = ShiftXor(d(y), 16)
  BY DEF Fmix32
<1> HIDE DEF a, b, c, d
<1> QED
  BY <1>1, <1>2, <1>3, <1>4, <1>5, <1>6

(***************************************************************************)
(* Four lanes.                                                             *)
(***************************************************************************)
Lanes == [1 .. 4 -> Words]

LEMMA SameLanes ==
  ASSUME NEW g \in Lanes, NEW h \in Lanes, \A l \in 1 .. 4 : g[l] = h[l]
  PROVE  g = h
BY DEF Lanes

LEMMA MixKWord ==
  ASSUME NEW l \in 1 .. 4, NEW x \in Words, NEW y \in Words
  PROVE  MixK(l, x) \in Words /\ (MixK(l, x) = MixK(l, y) => x = y)
<1> DEFINE a(k) == Mul(k, C[l])
           b(k) == Rotl32(a(k), KRot[l])
<1>1. KRot[l] \in Amounts
  BY DEF KRot, Amounts
<1>2. Next4(l) \in 1 .. 4
  BY DEF Next4
<1>3. IsUnit(C[l], Word) /\ IsUnit(C[Next4(l)], Word)
  BY <1>2, Multipliers
<1>4. a(x) \in Words /\ a(y) \in Words /\ (a(x) = a(y) => x = y)
  BY <1>3, MulWord
<1>5. b(x) \in Words /\ b(y) \in Words /\ (b(x) = b(y) => a(x) = a(y))
  <2> HIDE DEF a
  <2> QED
    BY <1>1, <1>4, RotateWord
<1>6. /\ Mul(b(x), C[Next4(l)]) \in Words
      /\ Mul(b(x), C[Next4(l)]) = Mul(b(y), C[Next4(l)]) => b(x) = b(y)
  <2> HIDE DEF b
  <2> QED
    BY <1>3, <1>5, MulWord
<1>7. MixK(l, x) = Mul(b(x), C[Next4(l)]) /\ MixK(l, y) = Mul(b(y), C[Next4(l)])
  BY DEF MixK
<1> HIDE DEF a, b
<1> QED
  BY <1>4, <1>5, <1>6, <1>7

LEMMA MixHWord ==
  ASSUME NEW l \in 1 .. 4, NEW h \in Words, NEW g \in Words,
         NEW k \in Words, NEW m \in Words, NEW next \in Words
  PROVE  /\ MixH(l, h, k, next) \in Words
         /\ MixH(l, h, k, next) = MixH(l, g, m, next) =>
              BitXor(h, MixK(l, k)) = BitXor(g, MixK(l, m))
<1> DEFINE a == BitXor(h, MixK(l, k))
           b == BitXor(g, MixK(l, m))
           r == Rotl32(a, HRot[l])
           s == Rotl32(b, HRot[l])
           add == HAdd[l]
<1>1. a \in Words /\ b \in Words
  BY MixKWord, XorWords
<1>2. HRot[l] \in Amounts
  BY DEF HRot, Amounts
<1>3. add \in Int
  <2>1. \A high, low \in Nat : Const(high, low) \in Int
    <3> TAKE high, low \in Nat
    <3> DEFINE c == (high * (65536 % Word)) + low
    <3>1. 65536 % Word \in Int
      BY Widths, DivMod
    <3>2. c \in Int
      BY <3>1
    <3>3. Const(high, low) = c % Word
      BY DEF Const
    <3> HIDE DEF c
    <3> QED
      BY <3>2, <3>3, Widths, DivMod
  <2> QED
    BY <2>1 DEF HAdd
<1>4. /\ MixH(l, h, k, next) = ((5 * (r + next)) + add) % Word
      /\ MixH(l, g, m, next) = ((5 * (s + next)) + add) % Word
  BY DEF MixH
<1> HIDE DEF a, b
<1>5. r \in Words /\ s \in Words /\ (r = s => a = b)
  BY <1>1, <1>2, RotateWord
<1> HIDE DEF r, s, add
<1> DEFINE A == r + next
           B == s + next
<1>6. /\ A \in Int /\ B \in Int /\ A - B = r - s /\ - Word < r - s /\ r - s < Word
      /\ Word \in Nat \ {0}
  BY <1>5, Widths DEF Words
<1>7. (5 * A) + add \in Int
  BY <1>3, <1>6
<1>8. MixH(l, h, k, next) \in Words
  <2> DEFINE z == (5 * A) + add
  <2>1. z \in Int
    BY <1>7
  <2>2. MixH(l, h, k, next) = z % Word
    BY <1>4
  <2> HIDE DEF z
  <2> QED
    BY <2>1, <2>2, <1>6, DivMod DEF Words
<1>9. ASSUME MixH(l, h, k, next) = MixH(l, g, m, next) PROVE a = b
  <2> DEFINE five == 5
             d == r - s
  <2>1. five \in Int /\ Unit(five, Word)
        /\ ((five * A) + add) % Word = ((five * B) + add) % Word
    BY <1>4, <1>9, FiveIsUnit
  <2> HIDE DEF A, B, five
  <2>2. Multiple(Word, A - B)
    BY <2>1, <1>3, <1>6, UnitCongruent
  <2>3. Multiple(Word, d) /\ d \in Int /\ - Word < d /\ d < Word
    BY <2>2, <1>5, <1>6 DEF Words
  <2> HIDE DEF d
  <2>4. d = 0
    BY <2>3, <1>6, SmallMultiple
  <2>5. r = s
    BY <2>4, <1>5, Widths DEF d, Words
  <2> QED
    BY <2>5, <1>5
<1> QED
  BY <1>8, <1>9 DEF a, b

LEMMA MixHIn ==
  ASSUME NEW l \in 1 .. 4, NEW h \in Words, NEW k \in Words, NEW next \in Words
  PROVE  MixH(l, h, k, next) \in Words
BY MixHWord

LEMMA MixHEqual ==
  ASSUME NEW l \in 1 .. 4, NEW h \in Words, NEW g \in Words,
         NEW k \in Words, NEW m \in Words, NEW next \in Words, NEW same \in Words,
         next = same, MixH(l, h, k, next) = MixH(l, g, m, same)
  PROVE  BitXor(h, MixK(l, k)) = BitXor(g, MixK(l, m))
BY MixHWord

(* A block changes the lanes by its words in a way that either determines. *)
LEMMA MixBlockLanes ==
  ASSUME NEW h \in Lanes, NEW k \in Lanes
  PROVE  MixBlock(h, k) \in Lanes
<1> DEFINE h1 == MixH(1, h[1], k[1], h[2])
           h2 == MixH(2, h[2], k[2], h[3])
           h3 == MixH(3, h[3], k[3], h[4])
           h4 == MixH(4, h[4], k[4], h1)
<1>1. /\ h[1] \in Words /\ h[2] \in Words /\ h[3] \in Words /\ h[4] \in Words
      /\ k[1] \in Words /\ k[2] \in Words /\ k[3] \in Words /\ k[4] \in Words
      /\ 1 \in 1 .. 4 /\ 2 \in 1 .. 4 /\ 3 \in 1 .. 4 /\ 4 \in 1 .. 4
  BY DEF Lanes
<1>2. h1 \in Words /\ h2 \in Words /\ h3 \in Words
  <2>1. h1 \in Words
    BY <1>1, MixHIn
  <2>2. h2 \in Words
    BY <1>1, MixHIn
  <2>3. h3 \in Words
    BY <1>1, MixHIn
  <2> QED
    BY <2>1, <2>2, <2>3
<1>3. h4 \in Words
  <2> HIDE DEF h1
  <2> QED
    BY <1>1, <1>2, MixHIn
<1>4. MixBlock(h, k) = <<h1, h2, h3, h4>>
  BY DEF MixBlock
<1> HIDE DEF h1, h2, h3, h4
<1> QED
  BY <1>2, <1>3, <1>4 DEF Lanes

LEMMA MixBlockEqual ==
  ASSUME NEW h \in Lanes, NEW g \in Lanes, NEW k \in Lanes, NEW m \in Lanes,
         MixBlock(h, k) = MixBlock(g, m)
  PROVE  /\ k = m => h = g
         /\ h = g => k = m
<1> DEFINE h1 == MixH(1, h[1], k[1], h[2])
           g1 == MixH(1, g[1], m[1], g[2])
           sum(l) == BitXor(h[l], MixK(l, k[l])) = BitXor(g[l], MixK(l, m[l]))
<1>1. \A l \in 1 .. 4 : h[l] \in Words /\ k[l] \in Words /\ g[l] \in Words /\ m[l] \in Words
  BY DEF Lanes
<1>0. /\ h[1] \in Words /\ h[2] \in Words /\ h[3] \in Words /\ h[4] \in Words
      /\ k[1] \in Words /\ k[2] \in Words /\ k[3] \in Words /\ k[4] \in Words
      /\ g[1] \in Words /\ g[2] \in Words /\ g[3] \in Words /\ g[4] \in Words
      /\ m[1] \in Words /\ m[2] \in Words /\ m[3] \in Words /\ m[4] \in Words
      /\ 1 \in 1 .. 4 /\ 2 \in 1 .. 4 /\ 3 \in 1 .. 4 /\ 4 \in 1 .. 4
  BY <1>1
<1>2. h1 \in Words /\ g1 \in Words
  <2>1. h1 \in Words
    BY <1>0, MixHIn
  <2>2. g1 \in Words
    BY <1>0, MixHIn
  <2> QED
    BY <2>1, <2>2
<1>3. /\ h1 = g1
      /\ MixH(2, h[2], k[2], h[3]) = MixH(2, g[2], m[2], g[3])
      /\ MixH(3, h[3], k[3], h[4]) = MixH(3, g[3], m[3], g[4])
      /\ MixH(4, h[4], k[4], h1) = MixH(4, g[4], m[4], g1)
  BY DEF MixBlock
<1>4. \A l \in 1 .. 4 : \A next, same \in Words :
        next = same /\ MixH(l, h[l], k[l], next) = MixH(l, g[l], m[l], same) => sum(l)
  <2> SUFFICES ASSUME NEW l \in 1 .. 4, NEW next \in Words, NEW same \in Words,
                      next = same, MixH(l, h[l], k[l], next) = MixH(l, g[l], m[l], same)
               PROVE  sum(l)
    OBVIOUS
  <2> DEFINE x == h[l]
             y == g[l]
             u == k[l]
             v == m[l]
  <2>1. x \in Words /\ y \in Words /\ u \in Words /\ v \in Words
    BY <1>1
  <2>2. MixH(l, x, u, next) = MixH(l, y, v, same)
    OBVIOUS
  <2> HIDE DEF x, y, u, v
  <2>3. BitXor(x, MixK(l, u)) = BitXor(y, MixK(l, v))
    BY <2>1, <2>2, MixHEqual
  <2> QED
    BY <2>3 DEF x, y, u, v
<1>5. /\ sum(4)
      /\ h[4] = g[4] => sum(3)
      /\ h[3] = g[3] => sum(2)
      /\ h[2] = g[2] => sum(1)
  <2> HIDE DEF sum, h1, g1
  <2>1. sum(4)
    BY <1>0, <1>2, <1>3, <1>4
  <2>2. h[4] = g[4] => sum(3)
    BY <1>0, <1>3, <1>4
  <2>3. h[3] = g[3] => sum(2)
    BY <1>0, <1>3, <1>4
  <2>4. h[2] = g[2] => sum(1)
    <3>1. MixH(1, h[1], k[1], h[2]) = MixH(1, g[1], m[1], g[2])
      BY <1>3 DEF h1, g1
    <3> QED
      BY <1>0, <1>4, <3>1
  <2> QED
    BY <2>1, <2>2, <2>3, <2>4
<1>8. ASSUME k = m PROVE h = g
  <2>1. \A l \in 1 .. 4 : sum(l) => h[l] = g[l]
    <3> SUFFICES ASSUME NEW l \in 1 .. 4, sum(l) PROVE h[l] = g[l]
      OBVIOUS
    <3>1. MixK(l, k[l]) \in Words
      BY <1>1, MixKWord
    <3> QED
      BY <1>1, <1>8, <3>1, XorCancel
  <2> QED
    BY <2>1, <1>5, SameLanes
<1>9. ASSUME h = g PROVE k = m
  <2>1. \A l \in 1 .. 4 : sum(l) => k[l] = m[l]
    <3> SUFFICES ASSUME NEW l \in 1 .. 4, sum(l) PROVE k[l] = m[l]
      OBVIOUS
    <3>1. MixK(l, k[l]) \in Words /\ MixK(l, m[l]) \in Words
      BY <1>1, MixKWord
    <3>2. MixK(l, k[l]) = MixK(l, m[l])
      BY <1>1, <1>9, <3>1, XorCancel
    <3> QED
      BY <1>1, <3>2, MixKWord
  <2> QED
    BY <2>1, <1>9, <1>5, SameLanes
<1> QED
  BY <1>8, <1>9

(* The sums of lanes, and the last multiplications. *)
LEMMA AddLanesWord ==
  ASSUME NEW h \in Lanes, NEW g \in Lanes
  PROVE  AddLanes(h) \in Lanes /\ (AddLanes(h) = AddLanes(g) => h = g)
<1> DEFINE H == h[1] + h[2] + h[3] + h[4]
           G == g[1] + g[2] + g[3] + g[4]
           s == H % Word
           t == G % Word
<1>1. /\ \A l \in 1 .. 4 : h[l] \in 0 .. Word - 1 /\ g[l] \in 0 .. Word - 1
      /\ Word \in Nat \ {0}
  BY Widths DEF Lanes, Words
<1>2. \A l \in 1 .. 4 : h[l] \in Int /\ g[l] \in Int
  BY <1>1
<1>3. H \in Int /\ G \in Int
  BY <1>2
<1>4. s \in 0 .. Word - 1 /\ t \in 0 .. Word - 1
  <2> HIDE DEF H, G
  <2> QED
    BY <1>1, <1>3, DivMod
<1>5. /\ AddLanes(h) = [l \in 1 .. 4 |-> IF l = 1 THEN s ELSE (h[l] + s) % Word]
      /\ AddLanes(g) = [l \in 1 .. 4 |-> IF l = 1 THEN t ELSE (g[l] + t) % Word]
  BY DEF AddLanes
<1>6. s = t => H % Word = G % Word
  OBVIOUS
<1> HIDE DEF s, t
<1>7. AddLanes(h) \in Lanes
  <2>1. \A l \in 1 .. 4 : (h[l] + s) % Word \in 0 .. Word - 1
    <3> TAKE l \in 1 .. 4
    <3> DEFINE x == h[l] + s
    <3>1. x \in Int
      BY <1>2, <1>4, <1>1
    <3> HIDE DEF x
    <3>2. x % Word \in 0 .. Word - 1
      BY <3>1, <1>1, DivMod
    <3> QED
      BY <3>2 DEF x
  <2> QED
    BY <2>1, <1>4, <1>5 DEF Lanes, Words
<1>8. ASSUME AddLanes(h) = AddLanes(g) PROVE h = g
  <2>1. s = t
    BY <1>5, <1>8
  <2>2. \A l \in 2 .. 4 : (h[l] + s) % Word = (g[l] + s) % Word
    BY <1>5, <1>8, <2>1
  <2>3. \A l \in 2 .. 4 : h[l] = g[l]
    <3> TAKE l \in 2 .. 4
    <3>1. s \in Int /\ h[l] \in 0 .. Word - 1 /\ g[l] \in 0 .. Word - 1
      BY <1>1, <1>4
    <3> QED
      BY <2>2, <3>1, <1>1, CongruentEqual
  <2>4. h[1] = g[1]
    <3> DEFINE rest == h[2] + h[3] + h[4]
    <3>1. rest \in Int
      BY <1>2
    <3>2. H = h[1] + rest /\ G = g[1] + rest
      BY <1>2, <2>3
    <3>3. h[1] \in 0 .. Word - 1 /\ g[1] \in 0 .. Word - 1
      BY <1>1
    <3> HIDE DEF rest, H, G
    <3>4. (h[1] + rest) % Word = (g[1] + rest) % Word
      BY <1>6, <2>1, <3>2
    <3> QED
      BY <3>1, <3>3, <3>4, <1>1, CongruentEqual
  <2> QED
    BY <2>3, <2>4, SameLanes
<1> QED
  BY <1>7, <1>8

FmixLanes(h) == [l \in 1 .. 4 |-> Fmix32(h[l])]

LEMMA FmixLanesWord ==
  ASSUME NEW h \in Lanes, NEW g \in Lanes
  PROVE  FmixLanes(h) \in Lanes /\ (FmixLanes(h) = FmixLanes(g) => h = g)
<1>1. \A l \in 1 .. 4 : h[l] \in Words /\ g[l] \in Words
  BY DEF Lanes
<1>2. \A l \in 1 .. 4 : Fmix32(h[l]) \in Words /\ (Fmix32(h[l]) = Fmix32(g[l]) => h[l] = g[l])
  BY <1>1, Fmix32Word
<1>3. \A l \in 1 .. 4 : FmixLanes(h)[l] = Fmix32(h[l]) /\ FmixLanes(g)[l] = Fmix32(g[l])
  BY DEF FmixLanes
<1>4. FmixLanes(h) \in Lanes
  BY <1>2 DEF FmixLanes, Lanes
<1> QED
  BY <1>2, <1>3, <1>4, SameLanes

(***************************************************************************)
(* The bytes of a word.                                                    *)
(***************************************************************************)
Bytes == 0 .. Byte - 1

LEMMA FirstByte ==
  ASSUME NEW a \in Bytes, NEW b \in Bytes, NEW x \in Nat, NEW y \in Nat
  PROVE  /\ a + Byte * x \in Nat
         /\ a + Byte * x = b + Byte * y => a = b /\ x = y
<1>1. Byte \in Nat \ {0} /\ a \in 0 .. Byte - 1 /\ b \in 0 .. Byte - 1 /\ x \in Int /\ y \in Int
  BY Widths DEF Bytes
<1> DEFINE z == Byte * x
           t == Byte * y
<1>2. z \in Nat /\ t \in Nat
  BY <1>1
<1>3. a + z = z + a /\ b + t = t + b
  BY <1>1, <1>2
<1>4. z + a = t + b => a = b /\ x = y
  BY <1>1, DivUnique
<1>5. a + z \in Nat
  <2> HIDE DEF z, t
  <2> QED
    BY <1>1, <1>2
<1> HIDE DEF z, t
<1>6. a + z = b + t => a = b /\ x = y
  BY <1>3, <1>4
<1> QED
  BY <1>5, <1>6 DEF z, t

FourBytes(f) == f[0] + Byte * (f[1] + Byte * (f[2] + Byte * f[3]))

LEMMA FourBytesWord ==
  ASSUME NEW f \in [0 .. 3 -> Bytes], NEW g \in [0 .. 3 -> Bytes]
  PROVE  FourBytes(f) \in Words /\ (FourBytes(f) = FourBytes(g) => f = g)
<1> DEFINE x2 == f[2] + Byte * f[3]
           y2 == g[2] + Byte * g[3]
           x1 == f[1] + Byte * x2
           y1 == g[1] + Byte * y2
           x0 == f[0] + Byte * x1
           y0 == g[0] + Byte * y1
<1>1. /\ f[0] \in Bytes /\ f[1] \in Bytes /\ f[2] \in Bytes /\ f[3] \in Bytes
      /\ g[0] \in Bytes /\ g[1] \in Bytes /\ g[2] \in Bytes /\ g[3] \in Bytes
      /\ f[3] \in Nat /\ g[3] \in Nat
  BY DEF Bytes
<1>2. x2 \in Nat /\ y2 \in Nat /\ (x2 = y2 => f[2] = g[2] /\ f[3] = g[3])
  BY <1>1, FirstByte
<1>3. x1 \in Nat /\ y1 \in Nat /\ (x1 = y1 => f[1] = g[1] /\ x2 = y2)
  <2> DEFINE a == f[1]
             b == g[1]
  <2>1. a \in Bytes /\ b \in Bytes /\ x2 \in Nat /\ y2 \in Nat
    BY <1>1, <1>2
  <2> HIDE DEF x2, y2, a, b
  <2>2. a + Byte * x2 \in Nat /\ b + Byte * y2 \in Nat
        /\ (a + Byte * x2 = b + Byte * y2 => a = b /\ x2 = y2)
    BY <2>1, FirstByte
  <2> QED
    BY <2>2 DEF a, b
<1>4. x0 \in Nat /\ y0 \in Nat /\ (x0 = y0 => f[0] = g[0] /\ x1 = y1)
  <2> DEFINE a == f[0]
             b == g[0]
  <2>1. a \in Bytes /\ b \in Bytes /\ x1 \in Nat /\ y1 \in Nat
    BY <1>1, <1>3
  <2> HIDE DEF x1, y1, a, b
  <2>2. a + Byte * x1 \in Nat /\ b + Byte * y1 \in Nat
        /\ (a + Byte * x1 = b + Byte * y1 => a = b /\ x1 = y1)
    BY <2>1, FirstByte
  <2> QED
    BY <2>2 DEF a, b
<1>5. FourBytes(f) = x0 /\ FourBytes(g) = y0
  BY DEF FourBytes
<1>6. ASSUME NEW a \in Bytes, NEW n \in Nat, NEW x \in 0 .. n - 1
      PROVE  a + Byte * x < Byte * n
  <2>1. Byte \in Nat /\ a \in Nat /\ a < Byte
    BY Widths DEF Bytes
  <2> DEFINE m == Byte
  <2>2. m \in Nat /\ a < m
    BY <2>1
  <2> HIDE DEF m
  <2>3. m * (x + 1) <= m * n
    BY <2>2
  <2>4. m * (x + 1) = m * x + m
    BY <2>2
  <2>5. m * x \in Int /\ m * n \in Int
    BY <2>2
  <2>6. a + m * x < m * n
    BY <2>1, <2>2, <2>3, <2>4, <2>5
  <2> QED
    BY <2>6 DEF m
<1>7. FourBytes(f) \in Words
  <2> DEFINE n2 == Byte * Byte
             n1 == Byte * n2
             n0 == Byte * n1
  <2>1. Byte \in Nat /\ n2 \in Nat /\ n1 \in Nat /\ n0 \in Nat
    BY Widths
  <2>2. f[3] \in 0 .. Byte - 1
    BY <1>1 DEF Bytes
  <2>3. x2 \in 0 .. n2 - 1
    <3>1. x2 < n2
      BY <1>1, <1>6, <2>1, <2>2
    <3> HIDE DEF x2, n2
    <3> QED
      BY <3>1, <2>1, <1>2
  <2>4. x1 \in 0 .. n1 - 1
    <3> HIDE DEF x2, n2
    <3>1. x1 < n1
      BY <1>1, <1>6, <2>1, <2>3
    <3> HIDE DEF x1, n1
    <3> QED
      BY <3>1, <2>1, <1>3
  <2>5. x0 \in 0 .. n0 - 1
    <3> HIDE DEF x1, n1
    <3>1. x0 < n0
      BY <1>1, <1>6, <2>1, <2>4
    <3> HIDE DEF x0, n0
    <3> QED
      BY <3>1, <2>1, <1>4
  <2>6. n0 = Word
    BY Widths
  <2> QED
    BY <2>5, <2>6, <1>5 DEF Words
<1>8. ASSUME FourBytes(f) = FourBytes(g) PROVE f = g
  <2>1. f[0] = g[0] /\ f[1] = g[1] /\ f[2] = g[2] /\ f[3] = g[3]
    BY <1>2, <1>3, <1>4, <1>5, <1>8
  <2>2. \A b \in 0 .. 3 : f[b] = g[b]
    BY <2>1
  <2> QED
    BY <2>2
<1> QED
  BY <1>7, <1>8

(***************************************************************************)
(* The inductive invariant.                                                *)
(***************************************************************************)
HashTypes ==
  /\ backend \in {"md5", "murmur", "fnv1"}
  /\ wide \in BOOLEAN
  /\ data \in [Who -> Seq(Bytes)] /\ Len(data["twin"]) = len
  /\ pc \in {"call", "loop", "sum", "fmix", "last_sum", "digest", "done", "aborted"}
  /\ pc \in {"sum", "fmix", "last_sum"} => backend = "murmur"
  /\ pc = "loop" /\ backend = "fnv1" => state \in [Who -> [1 .. 2 -> DoubleWords]]
  /\ pc = "loop" /\ backend = "murmur" => state \in [Who -> Lanes]
  /\ pc \in {"sum", "fmix", "last_sum", "digest"} => state \in [Who -> Lanes]

(* The keys differ in the byte q alone, if they differ. *)
DifferAt(q) ==
  /\ q \in 0 .. len - 1
  /\ At("key", q) # At("twin", q)
  /\ \A p \in 0 .. len - 1 : p # q => At("key", p) = At("twin", p)

OneDifference == data["key"] # data["twin"] => \E q \in 0 .. len - 1 : DifferAt(q)

(* The first n positions have been read, in order. *)
Ordered(n) == Len(reads) = n /\ \A m \in 1 .. n : reads[m] = m - 1

(* All have been, the bytes of the tail from the last to the first. *)
TailReversed ==
  /\ Len(reads) = len
  /\ \A m \in 1 .. len :
       reads[m] = IF m <= 16 * NBlocks THEN m - 1 ELSE 16 * NBlocks + len - m

ReadsInOrder ==
  /\ reads \in Seq(Int)
  /\ pc \in {"call", "aborted"} => Ordered(0)
  /\ pc = "call" => i = 0
  /\ pc = "loop" /\ backend # "murmur" => i \in 0 .. len /\ Ordered(i)
  /\ pc = "loop" /\ backend = "murmur" =>
       i \in - NBlocks .. 0 /\ Ordered(16 * (NBlocks + i))
  /\ pc \in {"sum", "fmix", "last_sum", "digest", "done"} =>
       IF backend = "murmur" THEN TailReversed ELSE Ordered(len)

(* The difference is in the state as soon as its byte has been read, and   *)
(* stays there.                                                            *)
DifferenceKept ==
  backend # "md5" => \A q \in 0 .. len - 1 : DifferAt(q) =>
    /\ pc = "loop" /\ backend = "fnv1" =>
         IF i <= q THEN state["key"] = state["twin"]
         ELSE state["key"][1] # state["twin"][1]
    /\ pc = "loop" /\ backend = "murmur" =>
         IF 16 * (NBlocks + i) <= q THEN state["key"] = state["twin"]
         ELSE state["key"] # state["twin"]
    /\ pc \in {"sum", "fmix", "last_sum", "digest"} => state["key"] # state["twin"]

HashInv ==
  HashTypes /\ OneDifference /\ ReadsInOrder /\ DifferenceKept /\ NoIdenticalHashes

(***************************************************************************)
(* What is read of the keys.                                               *)
(***************************************************************************)
LEMMA Lengths ==
  ASSUME HashTypes
  PROVE  /\ len \in Nat /\ NBlocks \in Nat /\ len % 16 \in 0 .. 15
         /\ len = (16 * NBlocks) + (len % 16)
<1>1. len \in Nat /\ len \in Int
  BY DEF HashTypes, len, Who
<1> HIDE DEF len
<1>2. /\ len = (16 * (len \div 16)) + (len % 16) /\ len % 16 \in 0 .. 16 - 1
      /\ len \div 16 \in Nat
  BY <1>1, DivMod
<1> QED
  BY <1>1, <1>2 DEF NBlocks

LEMMA AtByte ==
  ASSUME HashTypes, NEW w \in Who, NEW p \in Int
  PROVE  At(w, p) \in Bytes
<1>1. 0 \in Bytes
  BY Widths DEF Bytes
<1>2. data[w] \in Seq(Bytes) /\ Len(data[w]) = len
  BY DEF HashTypes, Who, len
<1>3. p \in 0 .. len - 1 => data[w][p + 1] \in Bytes
  <2> HIDE DEF len, Bytes
  <2> QED
    BY <1>2
<1> QED
  BY <1>1, <1>3 DEF At

LEMMA DataKept ==
  ASSUME UNCHANGED data
  PROVE  /\ len' = len /\ NBlocks' = NBlocks
         /\ \A q : DifferAt(q)' <=> DifferAt(q)
         /\ OneDifference' <=> OneDifference
BY DEF len, NBlocks, DifferAt, At, OneDifference

(* At most one byte differs. *)
LEMMA DifferOnce ==
  ASSUME NEW q, DifferAt(q), NEW p \in Int
  PROVE  p # q => At("key", p) = At("twin", p)
BY DEF DifferAt, At

LEMMA WordAtWord ==
  ASSUME HashTypes, NEW w \in Who, NEW p \in Int, NEW n \in 0 .. 4
  PROVE  WordAt(w, p, n) \in Words
<1> DEFINE f == [b \in 0 .. 3 |-> IF b < n THEN At(w, p + b) ELSE 0]
<1>1. \A b \in 0 .. 3 : At(w, p + b) \in Bytes
  BY AtByte
<1>2. 0 \in Bytes
  BY Widths DEF Bytes
<1>3. f \in [0 .. 3 -> Bytes]
  BY <1>1, <1>2
<1>4. WordAt(w, p, n) = FourBytes(f)
  BY DEF WordAt, FourBytes
<1> HIDE DEF f
<1> QED
  BY <1>3, <1>4, FourBytesWord

LEMMA WordAtEqual ==
  ASSUME HashTypes, NEW p \in Int, NEW n \in 0 .. 4
  PROVE  WordAt("key", p, n) = WordAt("twin", p, n)
         <=> \A b \in 0 .. n - 1 : At("key", p + b) = At("twin", p + b)
<1> DEFINE f == [b \in 0 .. 3 |-> IF b < n THEN At("key", p + b) ELSE 0]
           g == [b \in 0 .. 3 |-> IF b < n THEN At("twin", p + b) ELSE 0]
<1>1. \A b \in 0 .. 3 : At("key", p + b) \in Bytes /\ At("twin", p + b) \in Bytes
  BY AtByte DEF Who
<1>2. 0 \in Bytes
  BY Widths DEF Bytes
<1>3. f \in [0 .. 3 -> Bytes] /\ g \in [0 .. 3 -> Bytes]
  BY <1>1, <1>2
<1>4. WordAt("key", p, n) = FourBytes(f) /\ WordAt("twin", p, n) = FourBytes(g)
  BY DEF WordAt, FourBytes
<1>5. f = g <=> \A b \in 0 .. n - 1 : At("key", p + b) = At("twin", p + b)
  <2>1. ASSUME f = g PROVE \A b \in 0 .. n - 1 : At("key", p + b) = At("twin", p + b)
    <3> TAKE b \in 0 .. n - 1
    <3>1. b \in 0 .. 3 /\ b < n
      OBVIOUS
    <3>2. f[b] = At("key", p + b) /\ g[b] = At("twin", p + b)
      BY <3>1
    <3> QED
      BY <2>1, <3>2
  <2>2. ASSUME \A b \in 0 .. n - 1 : At("key", p + b) = At("twin", p + b) PROVE f = g
    <3>1. \A b \in 0 .. 3 : b < n => At("key", p + b) = At("twin", p + b)
      BY <2>2
    <3> QED
      BY <3>1
  <2> QED
    BY <2>1, <2>2
<1>6. f = g <=> FourBytes(f) = FourBytes(g)
  <2> HIDE DEF f, g
  <2> QED
    BY <1>3, FourBytesWord
<1> HIDE DEF f, g
<1> QED
  BY <1>4, <1>5, <1>6

(* the words of the block at i *)
BlockWords(w) == [l \in 1 .. 4 |-> WordAt(w, BlockAddress(l), 4)]

LEMMA BlockAddresses ==
  ASSUME HashTypes, i \in Int, NEW l \in 1 .. 4
  PROVE  BlockAddress(l) \in Int /\ BlockAddress(l) = 16 * (NBlocks + i) + 4 * (l - 1)
<1>1. NBlocks \in Int
  BY Lengths
<1> HIDE DEF NBlocks
<1> QED
  BY <1>1 DEF BlockAddress

LEMMA BlockWordsLanes ==
  ASSUME HashTypes, i \in Int, NEW w \in Who
  PROVE  BlockWords(w) \in Lanes
<1>1. \A l \in 1 .. 4 : WordAt(w, BlockAddress(l), 4) \in Words
  BY BlockAddresses, WordAtWord
<1> QED
  BY <1>1 DEF BlockWords, Lanes

LEMMA BlockWordsEqual ==
  ASSUME HashTypes, i \in Int, NEW q \in 0 .. len - 1, DifferAt(q)
  PROVE  BlockWords("key") = BlockWords("twin")
         <=> q \notin 16 * (NBlocks + i) .. 16 * (NBlocks + i) + 15
<1> DEFINE base == 16 * (NBlocks + i)
<1>1. base \in Int /\ q \in Int
  BY Lengths
<1>2. /\ At("key", q) # At("twin", q)
      /\ \A p \in Int : p # q => At("key", p) = At("twin", p)
  BY DifferOnce DEF DifferAt
<1>3. \A l \in 1 .. 4 : BlockAddress(l) \in Int /\ BlockAddress(l) = base + 4 * (l - 1)
  BY BlockAddresses
<1>4. \A l \in 1 .. 4 : /\ BlockWords("key")[l] = WordAt("key", BlockAddress(l), 4)
                        /\ BlockWords("twin")[l] = WordAt("twin", BlockAddress(l), 4)
  BY DEF BlockWords
<1> HIDE DEF base
<1>5. ASSUME q \notin base .. base + 15
      PROVE  BlockWords("key") = BlockWords("twin")
  <2>1. ASSUME NEW l \in 1 .. 4
        PROVE  WordAt("key", BlockAddress(l), 4) = WordAt("twin", BlockAddress(l), 4)
    <3> DEFINE p == BlockAddress(l)
    <3>1. p \in Int /\ p >= base /\ p + 3 <= base + 15
      BY <1>1, <1>3
    <3> HIDE DEF p
    <3>2. \A b \in 0 .. 4 - 1 : At("key", p + b) = At("twin", p + b)
      BY <1>1, <1>2, <1>5, <3>1
    <3>3. WordAt("key", p, 4) = WordAt("twin", p, 4)
      BY <3>1, <3>2, WordAtEqual
    <3> QED
      BY <3>3 DEF p
  <2> QED
    BY <2>1 DEF BlockWords
<1>6. ASSUME q \in base .. base + 15
      PROVE  BlockWords("key") # BlockWords("twin")
  <2> DEFINE l == ((q - base) \div 4) + 1
             p == BlockAddress(l)
             b == q - p
  <2>1. l \in 1 .. 4 /\ base + 4 * (l - 1) <= q /\ q < base + 4 * l
    BY <1>1, <1>6
  <2> HIDE DEF l
  <2>2. p \in Int /\ p = base + 4 * (l - 1)
    BY <1>3, <2>1
  <2>3. b \in 0 .. 4 - 1 /\ p + b = q
    BY <1>1, <2>1, <2>2
  <2>4. BlockWords("key")[l] = WordAt("key", p, 4) /\ BlockWords("twin")[l] = WordAt("twin", p, 4)
    BY <1>4, <2>1
  <2> HIDE DEF p, b
  <2>5. WordAt("key", p, 4) # WordAt("twin", p, 4)
    BY <1>2, <2>2, <2>3, WordAtEqual
  <2> QED
    BY <2>4, <2>5
<1> QED
  BY <1>5, <1>6 DEF base

(* what the tail mixes into a lane *)
TailWord(w, l) ==
  IF TailBytes(l) = 0 THEN 0 ELSE MixK(l, WordAt(w, 16 * NBlocks + 4 * (l - 1), TailBytes(l)))

TailLanes(w) == [l \in 1 .. 4 |-> BitXor(BitXor(state[w][l], TailWord(w, l)), len % Word)]

LEMMA TailCounts ==
  ASSUME HashTypes
  PROVE  /\ \A l \in 1 .. 4 : /\ TailBytes(l) \in 0 .. 4
                              /\ 16 * NBlocks + 4 * (l - 1) \in Int
         /\ TailBytes(1) + TailBytes(2) + TailBytes(3) + TailBytes(4) = len % 16
         /\ \A t \in 0 .. (len % 16) - 1 :
              LET l == (t \div 4) + 1
              IN  l \in 1 .. 4 /\ t - 4 * (l - 1) \in 0 .. TailBytes(l) - 1
<1> DEFINE r == len % 16
           count(l) == IF r - 4 * (l - 1) <= 0 THEN 0
                       ELSE IF r - 4 * (l - 1) >= 4 THEN 4 ELSE r - 4 * (l - 1)
<1>1. r \in 0 .. 15 /\ NBlocks \in Int
  BY Lengths
<1>2. \A l \in 1 .. 4 : TailBytes(l) = count(l)
  BY DEF TailBytes
<1> HIDE DEF r
<1>3. \A l \in 1 .. 4 : count(l) \in 0 .. 4
  BY <1>1
<1>4. count(1) + count(2) + count(3) + count(4) = r
  BY <1>1
<1>5. ASSUME NEW t \in 0 .. r - 1
      PROVE  /\ (t \div 4) + 1 \in 1 .. 4
             /\ t - 4 * (((t \div 4) + 1) - 1) \in 0 .. count((t \div 4) + 1) - 1
  <2> DEFINE l == (t \div 4) + 1
  <2>1. l \in 1 .. 4 /\ 4 * (l - 1) <= t /\ t < 4 * l
    BY <1>1
  <2> HIDE DEF l
  <2>2. t - 4 * (l - 1) \in 0 .. count(l) - 1
    BY <1>1, <2>1
  <2> QED
    BY <2>1, <2>2 DEF l
<1> HIDE DEF count, NBlocks
<1>6. TailBytes(1) + TailBytes(2) + TailBytes(3) + TailBytes(4) = r
  BY <1>2, <1>4
<1>7. \A l \in 1 .. 4 : TailBytes(l) \in 0 .. 4 /\ 16 * NBlocks + 4 * (l - 1) \in Int
  BY <1>1, <1>2, <1>3
<1>8. \A t \in 0 .. r - 1 :
        LET l == (t \div 4) + 1
        IN  l \in 1 .. 4 /\ t - 4 * (l - 1) \in 0 .. TailBytes(l) - 1
  BY <1>2, <1>5
<1> QED
  BY <1>6, <1>7, <1>8 DEF r

LEMMA TailWordIn ==
  ASSUME HashTypes, NEW w \in Who, NEW l \in 1 .. 4
  PROVE  TailWord(w, l) \in Words
<1>1. 0 \in Words
  BY Widths DEF Words
<1>2. TailBytes(l) \in 0 .. 4 /\ 16 * NBlocks + 4 * (l - 1) \in Int
  BY TailCounts
<1> DEFINE k == WordAt(w, 16 * NBlocks + 4 * (l - 1), TailBytes(l))
<1>3. k \in Words
  BY <1>2, WordAtWord
<1>4. TailWord(w, l) = IF TailBytes(l) = 0 THEN 0 ELSE MixK(l, k)
  BY DEF TailWord
<1> HIDE DEF k
<1>5. MixK(l, k) \in Words
  BY <1>3, MixKWord
<1> QED
  BY <1>1, <1>4, <1>5

LEMMA TailWordEqual ==
  ASSUME HashTypes, NEW q \in 0 .. len - 1, DifferAt(q)
  PROVE  /\ q < 16 * NBlocks => \A l \in 1 .. 4 : TailWord("key", l) = TailWord("twin", l)
         /\ q >= 16 * NBlocks => \E l \in 1 .. 4 : TailWord("key", l) # TailWord("twin", l)
<1> DEFINE tail == 16 * NBlocks
<1>1. tail \in Int /\ q \in Int /\ len \in Int /\ len % 16 \in 0 .. 15 /\ len = tail + (len % 16)
  BY Lengths
<1>2. /\ At("key", q) # At("twin", q)
      /\ \A p \in Int : p # q => At("key", p) = At("twin", p)
  BY DifferOnce DEF DifferAt
<1>3. \A l \in 1 .. 4 : TailBytes(l) \in 0 .. 4 /\ tail + 4 * (l - 1) \in Int
  BY TailCounts
<1>4. \A w \in Who : \A l \in 1 .. 4 :
        TailWord(w, l) = IF TailBytes(l) = 0 THEN 0
                         ELSE MixK(l, WordAt(w, tail + 4 * (l - 1), TailBytes(l)))
  BY DEF TailWord
<1>5. "key" \in Who /\ "twin" \in Who
  BY DEF Who
<1> HIDE DEF tail
<1>6. ASSUME q < tail, NEW l \in 1 .. 4
      PROVE  TailWord("key", l) = TailWord("twin", l)
  <2> DEFINE p == tail + 4 * (l - 1)
             n == TailBytes(l)
  <2>1. p \in Int /\ p >= tail /\ n \in 0 .. 4
    BY <1>1, <1>3
  <2> HIDE DEF p, n
  <2>2. \A b \in 0 .. n - 1 : At("key", p + b) = At("twin", p + b)
    BY <1>1, <1>2, <1>6, <2>1
  <2>3. WordAt("key", p, n) = WordAt("twin", p, n)
    BY <2>1, <2>2, WordAtEqual
  <2> QED
    BY <1>4, <1>5, <2>3 DEF p, n
<1>7. ASSUME q >= tail
      PROVE  \E l \in 1 .. 4 : TailWord("key", l) # TailWord("twin", l)
  <2> DEFINE t == q - tail
             l == (t \div 4) + 1
             p == tail + 4 * (l - 1)
             n == TailBytes(l)
             b == t - 4 * (l - 1)
  <2>1. t \in 0 .. (len % 16) - 1
    <3> DEFINE r == len % 16
    <3>1. r \in Int /\ len = tail + r
      BY <1>1
    <3> HIDE DEF r
    <3>2. t \in 0 .. r - 1
      BY <1>1, <1>7, <3>1
    <3> QED
      BY <3>2 DEF r
  <2> HIDE DEF t
  <2>2. l \in 1 .. 4 /\ b \in 0 .. n - 1
    BY <2>1, TailCounts
  <2> HIDE DEF l
  <2>3. n \in 0 .. 4 /\ p \in Int
    BY <1>3, <2>2
  <2>4. p + b = q
    <3>1. t \in Int /\ t = q - tail /\ l \in Int
      BY <1>1, <2>2 DEF t
    <3> QED
      BY <1>1, <3>1
  <2>5. n # 0 /\ b \in Int
    BY <2>2, <2>3
  <2>6. /\ TailWord("key", l) = MixK(l, WordAt("key", p, n))
        /\ TailWord("twin", l) = MixK(l, WordAt("twin", p, n))
    BY <1>4, <1>5, <2>2, <2>5
  <2> HIDE DEF p, n, b
  <2>7. WordAt("key", p, n) # WordAt("twin", p, n)
    BY <1>2, <2>2, <2>3, <2>4, WordAtEqual
  <2> DEFINE x == WordAt("key", p, n)
             y == WordAt("twin", p, n)
  <2>8. x \in Words /\ y \in Words /\ x # y
    BY <1>5, <2>3, <2>7, WordAtWord
  <2> HIDE DEF x, y
  <2>9. MixK(l, x) # MixK(l, y)
    BY <2>2, <2>8, MixKWord
  <2> QED
    BY <2>2, <2>6, <2>9 DEF x, y
<1> QED
  BY <1>6, <1>7 DEF tail

LEMMA TailLanesIn ==
  ASSUME HashTypes, state \in [Who -> Lanes], NEW w \in Who
  PROVE  TailLanes(w) \in Lanes
<1>1. len % Word \in Words
  <2>1. len \in Int /\ Word \in Nat \ {0}
    BY Lengths, Widths
  <2> HIDE DEF len
  <2> QED
    BY <2>1, DivMod DEF Words
<1>2. \A l \in 1 .. 4 : state[w][l] \in Words /\ TailWord(w, l) \in Words
  BY TailWordIn DEF Lanes
<1>3. \A l \in 1 .. 4 : BitXor(BitXor(state[w][l], TailWord(w, l)), len % Word) \in Words
  BY <1>1, <1>2, XorWords
<1> QED
  BY <1>3 DEF TailLanes, Lanes

LEMMA TailLanesDiffer ==
  ASSUME HashTypes, state \in [Who -> Lanes], NEW q \in 0 .. len - 1, DifferAt(q),
         IF q < 16 * NBlocks THEN state["key"] # state["twin"]
         ELSE state["key"] = state["twin"]
  PROVE  TailLanes("key") # TailLanes("twin")
<1> DEFINE n == len % Word
           g == state["key"]
           h == state["twin"]
           k(l) == TailWord("key", l)
           m(l) == TailWord("twin", l)
<1>1. n \in Words
  <2>1. len \in Int /\ Word \in Nat \ {0}
    BY Lengths, Widths
  <2> HIDE DEF len
  <2> QED
    BY <2>1, DivMod DEF Words
<1>2. g \in Lanes /\ h \in Lanes
  BY DEF Who
<1>3. \A l \in 1 .. 4 : g[l] \in Words /\ h[l] \in Words /\ k(l) \in Words /\ m(l) \in Words
  BY <1>2, TailWordIn DEF Lanes, Who
<1>4. \A l \in 1 .. 4 : /\ TailLanes("key")[l] = BitXor(BitXor(g[l], k(l)), n)
                        /\ TailLanes("twin")[l] = BitXor(BitXor(h[l], m(l)), n)
  BY DEF TailLanes
<1>5. q \in Int /\ 16 * NBlocks \in Int
  BY Lengths
<1>6. \/ (g # h /\ \A l \in 1 .. 4 : k(l) = m(l))
      \/ (g = h /\ \E l \in 1 .. 4 : k(l) # m(l))
  <2>1. CASE q < 16 * NBlocks
    BY <2>1, TailWordEqual
  <2>2. CASE ~(q < 16 * NBlocks)
    <3>1. q >= 16 * NBlocks
      BY <1>5, <2>2
    <3> QED
      BY <2>2, <3>1, TailWordEqual
  <2> QED
    BY <2>1, <2>2
<1> HIDE DEF n, g, h, k, m
<1>7. PICK l \in 1 .. 4 : (g[l] # h[l] /\ k(l) = m(l)) \/ (g[l] = h[l] /\ k(l) # m(l))
  BY <1>2, <1>6, SameLanes
<1> DEFINE x == BitXor(g[l], k(l))
           y == BitXor(h[l], m(l))
<1>8. x \in Words /\ y \in Words
  BY <1>3, XorWords
<1>9. x # y
  <2>1. g[l] \in Words /\ h[l] \in Words /\ k(l) \in Words /\ m(l) \in Words
    BY <1>3
  <2> QED
    BY <1>7, <2>1, XorCancel
<1> HIDE DEF x, y
<1>10. BitXor(x, n) # BitXor(y, n)
  BY <1>1, <1>8, <1>9, XorCancel
<1> QED
  BY <1>4, <1>10 DEF x, y

(* A step of FNV-1. *)
Fnv1Next(x, c) == BitXor((x * Fnv1Prime) % TwoWords, c)

LEMMA Fnv1NextWord ==
  ASSUME NEW x \in DoubleWords, NEW y \in DoubleWords, NEW c \in Bytes, NEW d \in Bytes
  PROVE  /\ Fnv1Next(x, c) \in DoubleWords
         /\ Fnv1Next(x, c) = Fnv1Next(y, c) => x = y
         /\ Fnv1Next(x, c) = Fnv1Next(x, d) => c = d
<1> DEFINE a == (x * Fnv1Prime) % TwoWords
           b == (y * Fnv1Prime) % TwoWords
<1>1. Fnv1Prime \in Int /\ Unit(Fnv1Prime, TwoWords) /\ TwoWords \in Nat \ {0}
  BY Fnv1Constants, Widths DEF IsUnit
<1>2. a = b => x = y
  BY <1>1, UnitEqual DEF DoubleWords
<1>3. a \in DoubleWords /\ b \in DoubleWords
  <2> DEFINE u == x * Fnv1Prime
             v == y * Fnv1Prime
  <2>1. u \in Int /\ v \in Int
    BY <1>1 DEF DoubleWords
  <2> HIDE DEF u, v
  <2>2. u % TwoWords \in 0 .. TwoWords - 1 /\ v % TwoWords \in 0 .. TwoWords - 1
    BY <1>1, <2>1, DivMod
  <2> QED
    BY <2>2 DEF u, v, DoubleWords
<1>4. /\ Fnv1Next(x, c) = BitXor(a, c) /\ Fnv1Next(x, d) = BitXor(a, d)
      /\ Fnv1Next(y, c) = BitXor(b, c)
  BY DEF Fnv1Next
<1> HIDE DEF a, b
<1>5. /\ BitXor(a, c) \in DoubleWords
      /\ BitXor(BitXor(a, c), c) = a /\ BitXor(BitXor(b, c), c) = b
      /\ BitXor(a, BitXor(a, c)) = c /\ BitXor(a, BitXor(a, d)) = d
  BY <1>3, XorAssumption DEF DoubleWords, Bytes
<1> QED
  BY <1>2, <1>4, <1>5

(* The halves of h1 and h2 as four words. *)
Halves(h) == <<h[1] % Word, h[1] \div Word, h[2] % Word, h[2] \div Word>>

LEMMA HalvesWords ==
  ASSUME NEW x \in DoubleWords
  PROVE  /\ x % Word \in Words /\ x \div Word \in Words
         /\ x = (Word * (x \div Word)) + (x % Word)
<1>1. Word \in Nat \ {0} /\ TwoWords = Word * Word
  BY Widths
<1>2. x \in 0 .. TwoWords - 1
  BY DEF DoubleWords
<1>3. x \in 0 .. (Word * Word) - 1
  BY <1>1, <1>2
<1> DEFINE n == Word
           m == n * n
<1>4. n \in Nat \ {0} /\ m \in Nat \ {0} /\ m = n * n /\ x \in 0 .. m - 1
  <2>1. n \in Nat \ {0} /\ x \in 0 .. m - 1
    BY <1>1, <1>3
  <2> HIDE DEF n
  <2> QED
    BY <2>1
<1> HIDE DEF n, m
<1>5. RotatedParts(x, n, n, m)
  BY <1>4, RotateParts
<1> QED
  BY <1>5 DEF RotatedParts, n, Words

LEMMA HalvesLanes ==
  ASSUME NEW g \in [1 .. 2 -> DoubleWords], NEW h \in [1 .. 2 -> DoubleWords]
  PROVE  Halves(g) \in Lanes /\ (Halves(g) = Halves(h) => g[1] = h[1])
<1>1. /\ g[1] \in DoubleWords /\ g[2] \in DoubleWords
      /\ h[1] \in DoubleWords /\ h[2] \in DoubleWords
  OBVIOUS
<1>2. /\ g[1] % Word \in Words /\ g[1] \div Word \in Words
      /\ g[2] % Word \in Words /\ g[2] \div Word \in Words
  BY <1>1, HalvesWords
<1>3. Halves(g) \in Lanes
  <2> DEFINE a == g[1] % Word
             b == g[1] \div Word
             c == g[2] % Word
             d == g[2] \div Word
  <2>1. a \in Words /\ b \in Words /\ c \in Words /\ d \in Words /\ Halves(g) = <<a, b, c, d>>
    BY <1>2 DEF Halves
  <2> HIDE DEF a, b, c, d
  <2> QED
    BY <2>1 DEF Lanes
<1>4. ASSUME Halves(g) = Halves(h) PROVE g[1] = h[1]
  <2>1. Halves(g)[1] = Halves(h)[1] /\ Halves(g)[2] = Halves(h)[2]
    BY <1>4
  <2>2. g[1] % Word = h[1] % Word /\ g[1] \div Word = h[1] \div Word
    BY <2>1 DEF Halves
  <2>3. /\ g[1] = (Word * (g[1] \div Word)) + (g[1] % Word)
        /\ h[1] = (Word * (h[1] \div Word)) + (h[1] % Word)
    BY <1>1, HalvesWords
  <2> QED
    BY <2>2, <2>3
<1> QED
  BY <1>3, <1>4

(***************************************************************************)
(* The types are kept.                                                     *)
(***************************************************************************)
Fnv1Bytes(w) == <<Fnv1Next(state[w][1], At(w, i)), Fnv1Next(state[w][2], Byte - 1 - At(w, i))>>

LEMMA Fnv1BytesIn ==
  ASSUME HashTypes, state \in [Who -> [1 .. 2 -> DoubleWords]], i \in Int, NEW w \in Who
  PROVE  Fnv1Bytes(w) \in [1 .. 2 -> DoubleWords]
<1> DEFINE x == state[w][1]
           y == state[w][2]
           c == At(w, i)
           d == Byte - 1 - At(w, i)
<1>1. x \in DoubleWords /\ y \in DoubleWords
  BY DEF HashTypes
<1>2. c \in Bytes /\ d \in Bytes
  <2>1. c \in Bytes
    BY AtByte
  <2> HIDE DEF c
  <2>2. Byte - 1 - c \in Bytes
    BY <2>1, Widths DEF Bytes
  <2> QED
    BY <2>1, <2>2 DEF c
<1>3. Fnv1Bytes(w) = <<Fnv1Next(x, c), Fnv1Next(y, d)>>
  BY DEF Fnv1Bytes
<1> HIDE DEF x, y, c, d
<1>4. Fnv1Next(x, c) \in DoubleWords /\ Fnv1Next(y, d) \in DoubleWords
  BY <1>1, <1>2, Fnv1NextWord
<1> QED
  BY <1>3, <1>4

LEMMA HashTypesStep ==
  ASSUME HashTypes, ReadsInOrder, [HashNext]_hashVars
  PROVE  HashTypes'
<1> DEFINE Kept ==
             /\ backend' \in {"md5", "murmur", "fnv1"} /\ wide' \in BOOLEAN
             /\ data' \in [Who -> Seq(Bytes)] /\ Len(data'["twin"]) = len'
<1>1. ASSUME UNCHANGED <<backend, wide, data>> PROVE Kept
  BY <1>1 DEF HashTypes, len
<1>2. CASE UNCHANGED hashVars
  BY <1>2 DEF HashTypes, hashVars, len
<1>3. CASE MurmurStart
  <2>1. 42 % Word \in Words
    BY Widths, DivMod DEF Words
  <2>2. state' \in [Who -> Lanes]
    BY <1>3, <2>1 DEF MurmurStart, Lanes
  <2>3. backend = "murmur" /\ backend' = backend /\ pc' = "loop" /\ Kept
    BY <1>1, <1>3 DEF MurmurStart
  <2> QED
    BY <2>2, <2>3 DEF HashTypes
<1>4. CASE MurmurBlock
  <2>1. backend = "murmur" /\ backend' = backend /\ pc = "loop" /\ pc' = "loop" /\ Kept
    BY <1>1, <1>4 DEF MurmurBlock
  <2>2. i \in Int /\ state \in [Who -> Lanes]
    <3>1. i \in - NBlocks .. 0 /\ NBlocks \in Nat
      BY <2>1, Lengths DEF ReadsInOrder
    <3> HIDE DEF NBlocks
    <3> QED
      BY <2>1, <3>1 DEF HashTypes
  <2>3. state' = [w \in Who |-> MixBlock(state[w], BlockWords(w))]
    BY <1>4 DEF MurmurBlock, BlockWords
  <2>4. \A w \in Who : MixBlock(state[w], BlockWords(w)) \in Lanes
    BY <2>2, BlockWordsLanes, MixBlockLanes
  <2>5. state' \in [Who -> Lanes]
    BY <2>3, <2>4
  <2> QED
    BY <2>1, <2>5 DEF HashTypes
<1>5. CASE MurmurTail
  <2>1. backend = "murmur" /\ backend' = backend /\ pc = "loop" /\ pc' = "sum" /\ Kept
    BY <1>1, <1>5 DEF MurmurTail
  <2>2. state' = [w \in Who |-> TailLanes(w)]
    BY <1>5 DEF MurmurTail, TailLanes, TailWord
  <2>3. \A w \in Who : TailLanes(w) \in Lanes
    BY <2>1, TailLanesIn DEF HashTypes
  <2>4. state' \in [Who -> Lanes]
    BY <2>2, <2>3
  <2> QED
    BY <2>1, <2>4 DEF HashTypes
<1>6. CASE MurmurSum
  <2>1. /\ backend = "murmur" \/ pc' = "digest"
        /\ backend' = backend /\ pc \in {"sum", "last_sum"} /\ pc' \in {"fmix", "digest"} /\ Kept
    BY <1>1, <1>6 DEF MurmurSum, HashTypes
  <2>2. state' = [w \in Who |-> AddLanes(state[w])]
    BY <1>6 DEF MurmurSum
  <2>3. \A w \in Who : AddLanes(state[w]) \in Lanes
    BY <2>1, AddLanesWord DEF HashTypes
  <2>4. state' \in [Who -> Lanes]
    BY <2>2, <2>3
  <2> QED
    BY <2>1, <2>4 DEF HashTypes
<1>7. CASE MurmurFmix
  <2>1. backend = "murmur" /\ backend' = backend /\ pc = "fmix" /\ pc' = "last_sum" /\ Kept
    BY <1>1, <1>7 DEF MurmurFmix, HashTypes
  <2>2. state' = [w \in Who |-> FmixLanes(state[w])]
    BY <1>7 DEF MurmurFmix, FmixLanes
  <2>3. \A w \in Who : FmixLanes(state[w]) \in Lanes
    BY <2>1, FmixLanesWord DEF HashTypes
  <2>4. state' \in [Who -> Lanes]
    BY <2>2, <2>3
  <2> QED
    BY <2>1, <2>4 DEF HashTypes
<1>8. CASE Md5Start
  BY <1>1, <1>8 DEF Md5Start, HashTypes
<1>9. CASE Md5NoContext
  BY <1>1, <1>9 DEF Md5NoContext, HashTypes
<1>10. CASE Md5Update
  BY <1>1, <1>10 DEF Md5Update, HashTypes
<1>11. CASE Md5Final
  <2>1. Digests \subseteq Lanes
    BY HashAssumption DEF Lanes, Words
  <2>2. state' \in [Who -> Lanes]
    BY <1>11, <2>1 DEF Md5Final
  <2>3. backend = "md5" /\ backend' = backend /\ pc' = "digest" /\ Kept
    BY <1>1, <1>11 DEF Md5Final
  <2> QED
    BY <2>2, <2>3 DEF HashTypes
<1>12. CASE Fnv1Start
  <2> DEFINE x == Fnv1OffsetBasis
             y == TwoWords - 1 - Fnv1OffsetBasis
  <2>1. x \in DoubleWords
    BY Fnv1Constants DEF DoubleWords
  <2>2. y \in DoubleWords
    <3> HIDE DEF x
    <3>1. TwoWords - 1 - x \in DoubleWords
      BY <2>1, Widths DEF DoubleWords
    <3> QED
      BY <3>1 DEF x
  <2>3. state' = [w \in Who |-> <<x, y>>]
    BY <1>12 DEF Fnv1Start
  <2>4. backend = "fnv1" /\ backend' = backend /\ pc' = "loop" /\ Kept
    BY <1>1, <1>12 DEF Fnv1Start
  <2> HIDE DEF x, y
  <2>5. <<x, y>> \in [1 .. 2 -> DoubleWords]
    BY <2>1, <2>2
  <2>6. state' \in [Who -> [1 .. 2 -> DoubleWords]]
    BY <2>3, <2>5
  <2> QED
    BY <2>4, <2>6 DEF HashTypes
<1>13. CASE Fnv1Byte
  <2>1. backend = "fnv1" /\ backend' = backend /\ pc = "loop" /\ pc' = "loop" /\ Kept
    BY <1>1, <1>13 DEF Fnv1Byte
  <2>2. i \in Int
    <3>1. i \in 0 .. len /\ len \in Nat
      BY <2>1, Lengths DEF ReadsInOrder
    <3> HIDE DEF len
    <3> QED
      BY <3>1
  <2>3. state' = [w \in Who |-> Fnv1Bytes(w)]
    BY <1>13 DEF Fnv1Byte, Fnv1Bytes, Fnv1Next
  <2>4. \A w \in Who : Fnv1Bytes(w) \in [1 .. 2 -> DoubleWords]
    BY <2>1, <2>2, Fnv1BytesIn DEF HashTypes
  <2>5. state' \in [Who -> [1 .. 2 -> DoubleWords]]
    BY <2>3, <2>4
  <2> QED
    BY <2>1, <2>5 DEF HashTypes
<1>14. CASE Fnv1End
  <2>1. backend = "fnv1" /\ backend' = backend /\ pc = "loop" /\ pc' = "digest" /\ Kept
    BY <1>1, <1>14 DEF Fnv1End
  <2>2. state' = [w \in Who |-> Halves(state[w])]
    BY <1>14 DEF Fnv1End, Halves
  <2>3. \A w \in Who : Halves(state[w]) \in Lanes
    BY <2>1, HalvesLanes DEF HashTypes
  <2>4. state' \in [Who -> Lanes]
    BY <2>2, <2>3
  <2> QED
    BY <2>1, <2>4 DEF HashTypes
<1>15. CASE Return
  BY <1>1, <1>15 DEF Return, HashTypes
<1> QED
  BY <1>2, <1>3, <1>4, <1>5, <1>6, <1>7, <1>8, <1>9, <1>10, <1>11, <1>12, <1>13, <1>14, <1>15
  DEF HashNext, HashStep, Returned

(***************************************************************************)
(* What is read next follows what has been.                                *)
(***************************************************************************)
(* u is s, of n elements, and then t, of m. *)
Concatenation(u, s, n, t, m) ==
  /\ u \in Seq(Int) /\ Len(u) = n + m
  /\ \A b \in 1 .. n + m : u[b] = IF b <= n THEN s[b] ELSE t[b - n]

LEMMA Concatenated ==
  ASSUME NEW s \in Seq(Int), NEW t \in Seq(Int), NEW n \in Nat, NEW m \in Nat,
         Len(s) = n, Len(t) = m
  PROVE  Concatenation(s \o t, s, n, t, m)
BY DEF Concatenation

(* m positions from n on *)
Positions(n, m) == [b \in 1 .. m |-> n + b - 1]

LEMMA ReadOn ==
  ASSUME reads \in Seq(Int), NEW n \in Nat, Ordered(n), NEW m \in Nat,
         reads' = reads \o Positions(n, m)
  PROVE  reads' \in Seq(Int) /\ Ordered(n + m)'
<1> DEFINE more == Positions(n, m)
<1>1. more \in Seq(Int) /\ Len(more) = m /\ \A b \in 1 .. m : more[b] = n + b - 1
  <2>1. more \in [1 .. m -> Int]
    BY DEF Positions
  <2>2. \A b \in 1 .. m : more[b] = n + b - 1
    BY DEF Positions
  <2> HIDE DEF more
  <2> QED
    BY <2>1, <2>2
<1> HIDE DEF more
<1>2. reads' = reads \o more
  BY DEF more
<1>3. Len(reads) = n /\ \A b \in 1 .. n : reads[b] = b - 1
  BY DEF Ordered
<1>4. /\ reads' \in Seq(Int) /\ Len(reads') = n + m
      /\ \A b \in 1 .. n + m : reads'[b] = IF b <= n THEN reads[b] ELSE more[b - n]
  <2>1. /\ reads \in Seq(Int) /\ Len(reads) = n /\ n \in Nat
        /\ more \in Seq(Int) /\ Len(more) = m /\ m \in Nat
    BY <1>1, <1>3
  <2>2. Concatenation(reads \o more, reads, n, more, m)
    BY <2>1, Concatenated
  <2> QED
    BY <1>2, <2>2 DEF Concatenation
<1>5. \A b \in 1 .. n + m : reads'[b] = b - 1
  <2> TAKE b \in 1 .. n + m
  <2>1. CASE b <= n
    BY <2>1, <1>3, <1>4
  <2>2. CASE ~(b <= n)
    <3>1. b - n \in 1 .. m
      BY <2>2
    <3>2. more[b - n] = n + (b - n) - 1
      BY <3>1, <1>1
    <3>3. reads'[b] = more[b - n]
      BY <2>2, <1>4
    <3>4. n + (b - n) - 1 = b - 1
      OBVIOUS
    <3> HIDE DEF more
    <3> QED
      BY <2>2, <3>2, <3>3, <3>4
  <2> QED
    BY <2>1, <2>2
<1> QED
  BY <1>4, <1>5 DEF Ordered

LEMMA ReadTail ==
  ASSUME HashTypes, reads \in Seq(Int), Ordered(16 * NBlocks), UNCHANGED data,
         reads' = reads \o Reverse([b \in 1 .. len % 16 |-> 16 * NBlocks + b - 1])
  PROVE  reads' \in Seq(Int) /\ TailReversed'
<1> DEFINE r == len % 16
           tail == 16 * NBlocks
           f == [b \in 1 .. r |-> tail + b - 1]
           more == Reverse(f)
<1>1. r \in Nat /\ tail \in Nat /\ len = tail + r
  BY Lengths
<1>2. Len(reads) = tail /\ \A b \in 1 .. tail : reads[b] = b - 1
  BY DEF Ordered
<1>3. reads' = reads \o more
  OBVIOUS
<1>4. len' = len /\ NBlocks' = NBlocks /\ 16 * NBlocks = tail
  BY DataKept
<1> HIDE DEF r, tail
<1>5. Len(f) = r /\ \A b \in 1 .. r : f[b] = tail + b - 1
  BY <1>1
<1>6. more = [b \in 1 .. r |-> f[(r - b) + 1]]
  <2> HIDE DEF f
  <2> QED
    BY <1>5 DEF Reverse
<1> HIDE DEF f
<1>7. \A b \in 1 .. r : f[(r - b) + 1] = tail + r - b
  <2> TAKE b \in 1 .. r
  <2>1. (r - b) + 1 \in 1 .. r
    BY <1>1
  <2> QED
    BY <2>1, <1>1, <1>5
<1> HIDE DEF more
<1>8. more \in Seq(Int) /\ Len(more) = r /\ \A b \in 1 .. r : more[b] = tail + r - b
  <2>1. \A b \in 1 .. r : more[b] = tail + r - b
    BY <1>6, <1>7
  <2>2. \A b \in 1 .. r : f[(r - b) + 1] \in Int
    BY <1>1, <1>7
  <2>3. more \in [1 .. r -> Int]
    BY <1>6, <2>2
  <2> QED
    BY <1>1, <2>1, <2>3
<1>9. /\ reads' \in Seq(Int) /\ Len(reads') = tail + r
      /\ \A b \in 1 .. tail + r : reads'[b] = IF b <= tail THEN reads[b] ELSE more[b - tail]
  <2>1. /\ reads \in Seq(Int) /\ Len(reads) = tail /\ tail \in Nat
        /\ more \in Seq(Int) /\ Len(more) = r /\ r \in Nat
    BY <1>1, <1>2, <1>8
  <2>2. Concatenation(reads \o more, reads, tail, more, r)
    BY <2>1, Concatenated
  <2> QED
    BY <1>3, <2>2 DEF Concatenation
<1>10. \A b \in 1 .. tail + r : reads'[b] = IF b <= tail THEN b - 1 ELSE tail + (tail + r) - b
  <2> TAKE b \in 1 .. tail + r
  <2>1. CASE b <= tail
    BY <1>1, <2>1, <1>2, <1>9
  <2>2. CASE ~(b <= tail)
    <3>1. b - tail \in 1 .. r
      BY <1>1, <2>2
    <3>2. more[b - tail] = tail + r - (b - tail)
      BY <3>1, <1>8
    <3>3. reads'[b] = more[b - tail]
      BY <2>2, <1>9
    <3>4. tail + r - (b - tail) = tail + (tail + r) - b
      BY <1>1
    <3> QED
      BY <2>2, <3>2, <3>3, <3>4
  <2> QED
    BY <2>1, <2>2
<1> HIDE DEF NBlocks, len
<1>11. len' = tail + r /\ 16 * NBlocks' = tail
  BY <1>1, <1>4
<1> QED
  BY <1>9, <1>10, <1>11 DEF TailReversed

LEMMA ReadsStep ==
  ASSUME HashTypes, ReadsInOrder, [HashNext]_hashVars
  PROVE  ReadsInOrder'
<1>1. /\ len \in Nat /\ NBlocks \in Nat /\ len % 16 \in 0 .. 15
      /\ len = (16 * NBlocks) + (len % 16)
  BY Lengths
<1>2. ASSUME UNCHANGED data
      PROVE  len' = len /\ NBlocks' = NBlocks
  BY <1>2, DataKept
<1>3. \A n : UNCHANGED reads /\ Ordered(n) => Ordered(n)'
  BY DEF Ordered
<1>4. ASSUME UNCHANGED <<reads, data>>, TailReversed PROVE TailReversed'
  BY <1>2, <1>4 DEF TailReversed
<1>5. CASE UNCHANGED hashVars
  <2>1. UNCHANGED <<reads, data, pc, i, backend>>
    BY <1>5 DEF hashVars
  <2> QED
    BY <2>1, <1>2, <1>3, <1>4 DEF ReadsInOrder
<1>6. CASE MurmurStart
  <2>1. /\ pc = "call" /\ backend = "murmur" /\ backend' = "murmur" /\ pc' = "loop"
        /\ i' = - NBlocks /\ UNCHANGED <<reads, data>>
    BY <1>6 DEF MurmurStart
  <2>2. reads' \in Seq(Int) /\ Ordered(0)'
    BY <2>1, <1>3 DEF ReadsInOrder
  <2>3. NBlocks' = NBlocks
    BY <1>2, <2>1
  <2>4. i' \in - NBlocks' .. 0 /\ 16 * (NBlocks' + i') = 0
    <3> DEFINE n == NBlocks
    <3>1. n \in Nat /\ i' = - n /\ NBlocks' = n
      BY <1>1, <2>1, <2>3
    <3> HIDE DEF n
    <3> QED
      BY <3>1
  <2>5. Ordered(16 * (NBlocks + i))'
    BY <2>2, <2>4 DEF Ordered
  <2> QED
    BY <2>1, <2>2, <2>4, <2>5 DEF ReadsInOrder
<1>7. CASE MurmurBlock
  <2> DEFINE n == 16 * (NBlocks + i)
  <2>1. /\ pc = "loop" /\ backend = "murmur" /\ backend' = "murmur" /\ pc' = "loop"
        /\ i # 0 /\ i' = i + 1 /\ UNCHANGED data
        /\ reads' = reads \o [b \in 1 .. 16 |-> BlockAddress(1) + b - 1]
    BY <1>7 DEF MurmurBlock
  <2>2. reads \in Seq(Int) /\ i \in - NBlocks .. 0 /\ Ordered(n)
    BY <2>1 DEF ReadsInOrder
  <2>3. i \in Int /\ n \in Nat /\ n + 16 = 16 * (NBlocks + (i + 1)) /\ i + 1 \in - NBlocks .. 0
    <3> DEFINE m == NBlocks
    <3>1. m \in Nat /\ i \in - m .. 0
      BY <1>1, <2>2
    <3> HIDE DEF m
    <3>2. i \in Int /\ 16 * (m + i) \in Nat /\ 16 * (m + i) + 16 = 16 * (m + (i + 1))
      BY <3>1
    <3>3. i + 1 \in - m .. 0
      BY <2>1, <3>1
    <3> QED
      BY <3>2, <3>3 DEF m
  <2>4. BlockAddress(1) = n
    <3>1. BlockAddress(1) = n + 4 * (1 - 1)
      BY <2>3, BlockAddresses
    <3> HIDE DEF n
    <3> QED
      BY <2>3, <3>1
  <2> HIDE DEF n
  <2> PICK c : c = n
    OBVIOUS
  <2>5. reads' \in Seq(Int) /\ Ordered(c + 16)'
    <3> PICK d : d = 16
      OBVIOUS
    <3>1. /\ c \in Nat /\ d \in Nat /\ Ordered(c)
          /\ reads' = reads \o Positions(c, d)
      BY <2>1, <2>2, <2>3, <2>4 DEF Positions
    <3>2. reads' \in Seq(Int) /\ Ordered(c + d)'
      BY <2>2, <3>1, ReadOn
    <3> QED
      BY <3>2 DEF Ordered
  <2>6. NBlocks' = NBlocks
    BY <1>2, <2>1
  <2>7. i' \in - NBlocks' .. 0 /\ 16 * (NBlocks' + i') = c + 16
    BY <2>1, <2>3, <2>6
  <2>8. Ordered(16 * (NBlocks + i))'
    BY <2>5, <2>7 DEF Ordered
  <2> QED
    BY <2>1, <2>5, <2>7, <2>8 DEF ReadsInOrder
<1>8. CASE MurmurTail
  <2>1. /\ pc = "loop" /\ backend = "murmur" /\ backend' = "murmur" /\ pc' = "sum" /\ i = 0
        /\ UNCHANGED data
        /\ reads' = reads \o Reverse(
             [b \in 1 .. TailBytes(1) + TailBytes(2) + TailBytes(3) + TailBytes(4) |->
                16 * NBlocks + b - 1])
    BY <1>8 DEF MurmurTail
  <2>2. TailBytes(1) + TailBytes(2) + TailBytes(3) + TailBytes(4) = len % 16
    BY TailCounts
  <2>3. reads' = reads \o Reverse([b \in 1 .. len % 16 |-> 16 * NBlocks + b - 1])
    BY <2>1, <2>2
  <2>4. reads \in Seq(Int) /\ Ordered(16 * (NBlocks + i))
    BY <2>1 DEF ReadsInOrder
  <2>5. 16 * (NBlocks + i) = 16 * NBlocks
    BY <1>1, <2>1
  <2>6. Ordered(16 * NBlocks)
    BY <2>4, <2>5
  <2>7. reads' \in Seq(Int) /\ TailReversed'
    BY <2>1, <2>3, <2>4, <2>6, ReadTail
  <2> QED
    BY <2>1, <2>7 DEF ReadsInOrder
<1>9. CASE MurmurSum \/ MurmurFmix
  <2>1. /\ pc \in {"sum", "fmix", "last_sum"} /\ pc' \in {"fmix", "last_sum", "digest"}
        /\ UNCHANGED <<reads, data, backend>>
    BY <1>9 DEF MurmurSum, MurmurFmix
  <2>2. backend = "murmur"
    BY <2>1 DEF HashTypes
  <2>3. reads' \in Seq(Int) /\ TailReversed'
    BY <2>1, <2>2, <1>4 DEF ReadsInOrder
  <2> QED
    BY <2>1, <2>2, <2>3 DEF ReadsInOrder
<1>10. CASE Md5Start \/ Fnv1Start
  <2>1. /\ pc = "call" /\ pc' = "loop" /\ backend # "murmur"
        /\ UNCHANGED <<reads, data, backend, i>>
    BY <1>10 DEF Md5Start, Fnv1Start
  <2>2. reads' \in Seq(Int) /\ Ordered(0)' /\ i' = 0
    BY <2>1, <1>3 DEF ReadsInOrder
  <2>3. len' = len
    BY <1>2, <2>1
  <2>4. i' \in 0 .. len' /\ Ordered(i)'
    BY <2>2, <2>3, <1>1 DEF Ordered
  <2> QED
    BY <2>1, <2>2, <2>4 DEF ReadsInOrder
<1>11. CASE Md5NoContext
  <2>1. pc = "call" /\ pc' = "aborted" /\ UNCHANGED reads
    BY <1>11 DEF Md5NoContext
  <2>2. reads' \in Seq(Int) /\ Ordered(0)'
    BY <2>1, <1>3 DEF ReadsInOrder
  <2> QED
    BY <2>1, <2>2 DEF ReadsInOrder
<1>12. CASE Md5Update
  <2> DEFINE m == Chunk
  <2>1. /\ pc = "loop" /\ backend = "md5" /\ backend' = "md5" /\ pc' = "loop"
        /\ i < len /\ i' = i + m /\ UNCHANGED data
        /\ reads' = reads \o [b \in 1 .. m |-> i + b - 1]
    BY <1>12 DEF Md5Update
  <2>2. reads \in Seq(Int) /\ i \in 0 .. len /\ Ordered(i)
    BY <2>1 DEF ReadsInOrder
  <2>3. i \in Nat /\ m \in Nat /\ i + m \in 0 .. len
    <3> DEFINE n == len
               left == n - i
    <3>1. n \in Nat /\ i \in 0 .. n /\ i < n
      BY <1>1, <2>1, <2>2
    <3>2. m = IF left <= ChunkSize THEN left % UIntMod ELSE ChunkSize
      BY DEF Chunk
    <3> HIDE DEF n, m
    <3>3. left \in Nat /\ i + left = n
      BY <3>1
    <3>4. UIntMod \in Nat \ {0} /\ ChunkSize \in Nat /\ ChunkSize <= UIntMod - 1
      BY HashAssumption
    <3> HIDE DEF left
    <3>5. CASE left <= ChunkSize
      <4>1. left \in 0 .. UIntMod - 1
        BY <3>3, <3>4, <3>5
      <4>2. left % UIntMod = left
        BY <3>4, <4>1, SmallMod
      <4>3. m = left
        BY <3>2, <3>5, <4>2
      <4> QED
        BY <3>1, <3>3, <4>3 DEF n
    <3>6. CASE ~(left <= ChunkSize)
      <4>1. m = ChunkSize /\ m < left
        BY <3>2, <3>3, <3>4, <3>6
      <4>2. m \in Nat /\ i \in Nat /\ i + m \in 0 .. n
        BY <4>1, <3>1, <3>3, <3>4
      <4> QED
        BY <4>2 DEF n
    <3> QED
      BY <3>5, <3>6
  <2> HIDE DEF m
  <2>4. reads' \in Seq(Int) /\ Ordered(i)'
    <3> PICK n : n = i
      OBVIOUS
    <3>1. n \in Nat /\ Ordered(n) /\ reads' = reads \o [b \in 1 .. m |-> n + b - 1]
      BY <2>1, <2>2, <2>3
    <3> PICK d : d = m
      OBVIOUS
    <3>2. d \in Nat /\ reads' = reads \o Positions(n, d)
      BY <2>3, <3>1 DEF Positions
    <3>3. reads' \in Seq(Int) /\ Ordered(n + d)'
      BY <2>2, <3>1, <3>2, ReadOn
    <3>4. i' = n + d
      BY <2>1
    <3> QED
      BY <3>3, <3>4 DEF Ordered
  <2>5. len' = len
    BY <1>2, <2>1
  <2>6. i' \in 0 .. len'
    BY <2>1, <2>3, <2>5
  <2> QED
    BY <2>1, <2>4, <2>6 DEF ReadsInOrder
<1>13. CASE Md5Final \/ Fnv1End
  <2>1. /\ pc = "loop" /\ backend # "murmur" /\ backend' = backend /\ pc' = "digest"
        /\ UNCHANGED <<reads, data>> /\ (i = len \/ i >= len)
    BY <1>13 DEF Md5Final, Fnv1End
  <2>2. reads \in Seq(Int) /\ i \in 0 .. len /\ Ordered(i)
    BY <2>1 DEF ReadsInOrder
  <2>3. i = len
    <3> DEFINE n == len
    <3>1. n \in Nat /\ i \in 0 .. n /\ (i = n \/ i >= n)
      BY <1>1, <2>1, <2>2
    <3> HIDE DEF n
    <3>2. i = n
      BY <3>1
    <3> QED
      BY <3>2 DEF n
  <2>4. len' = len
    BY <1>2, <2>1
  <2>5. Ordered(len)'
    BY <2>1, <2>2, <2>3, <2>4 DEF Ordered
  <2> QED
    BY <2>1, <2>2, <2>5 DEF ReadsInOrder
<1>14. CASE Fnv1Byte
  <2>1. /\ pc = "loop" /\ backend = "fnv1" /\ backend' = "fnv1" /\ pc' = "loop"
        /\ i < len /\ i' = i + 1 /\ UNCHANGED data /\ reads' = Append(reads, i)
    BY <1>14 DEF Fnv1Byte
  <2>2. reads \in Seq(Int) /\ i \in 0 .. len /\ Ordered(i)
    BY <2>1 DEF ReadsInOrder
  <2>3. i \in Nat /\ i + 1 \in 0 .. len
    <3> DEFINE n == len
    <3>1. n \in Nat /\ i \in 0 .. n /\ i < n
      BY <1>1, <2>1, <2>2
    <3> HIDE DEF n
    <3>2. i \in Nat /\ i + 1 \in 0 .. n
      BY <3>1
    <3> QED
      BY <3>2 DEF n
  <2>4. Len(reads) = i /\ \A m \in 1 .. i : reads[m] = m - 1
    BY <2>2 DEF Ordered
  <2>5. /\ reads' \in Seq(Int) /\ Len(reads') = i + 1
        /\ \A m \in 1 .. i + 1 : reads'[m] = IF m <= i THEN reads[m] ELSE i
    BY <2>1, <2>2, <2>3, <2>4
  <2>6. \A m \in 1 .. i + 1 : reads'[m] = m - 1
    BY <2>3, <2>4, <2>5
  <2>7. Ordered(i)'
    BY <2>1, <2>5, <2>6 DEF Ordered
  <2>8. len' = len
    BY <1>2, <2>1
  <2>9. i' \in 0 .. len'
    BY <2>1, <2>3, <2>8
  <2> QED
    BY <2>1, <2>5, <2>7, <2>9 DEF ReadsInOrder
<1>15. CASE Return
  <2>1. pc = "digest" /\ pc' = "done" /\ UNCHANGED <<reads, data, backend>>
    BY <1>15 DEF Return
  <2>2. reads' \in Seq(Int) /\ IF backend = "murmur" THEN TailReversed ELSE Ordered(len)
    BY <2>1 DEF ReadsInOrder
  <2>3. len' = len
    BY <1>2, <2>1
  <2>4. IF backend' = "murmur" THEN TailReversed' ELSE Ordered(len)'
    BY <2>1, <2>2, <2>3, <1>4 DEF Ordered
  <2> QED
    BY <2>1, <2>2, <2>4 DEF ReadsInOrder
<1> QED
  BY <1>5, <1>6, <1>7, <1>8, <1>9, <1>10, <1>11, <1>12, <1>13, <1>14, <1>15
  DEF HashNext, HashStep, Returned

LEMMA OrderedReads ==
  ASSUME HashTypes, reads \in Seq(Int), NEW n \in 0 .. len, Ordered(n)
  PROVE  /\ \A m \in DOMAIN reads : reads[m] \in 0 .. len - 1
         /\ IsInjective(reads)
         /\ \A m \in DOMAIN reads : reads[m] = m - 1
<1>1. Len(reads) = n /\ \A m \in 1 .. n : reads[m] = m - 1
  BY DEF Ordered
<1>2. len \in Nat
  BY Lengths
<1> HIDE DEF len
<1>3. DOMAIN reads = 1 .. n
  BY <1>1
<1>4. \A m \in 1 .. n : m - 1 \in 0 .. len - 1
  BY <1>2
<1>5. \A a, b \in 1 .. n : reads[a] = reads[b] => a = b
  BY <1>1
<1> QED
  BY <1>1, <1>3, <1>4, <1>5 DEF IsInjective

LEMMA ReversedReads ==
  ASSUME HashTypes, reads \in Seq(Int), TailReversed
  PROVE  /\ \A m \in DOMAIN reads : reads[m] \in 0 .. len - 1
         /\ IsInjective(reads)
<1> DEFINE tail == 16 * NBlocks
<1>1. /\ Len(reads) = len
      /\ \A m \in 1 .. len : reads[m] = IF m <= tail THEN m - 1 ELSE tail + len - m
  BY DEF TailReversed
<1>2. len \in Nat /\ tail \in Nat /\ tail <= len
  BY Lengths
<1> HIDE DEF len, tail
<1>3. DOMAIN reads = 1 .. len
  BY <1>1
<1>4. \A m \in 1 .. len : (IF m <= tail THEN m - 1 ELSE tail + len - m) \in 0 .. len - 1
  BY <1>2
<1>5. ASSUME NEW a \in 1 .. len, NEW b \in 1 .. len, reads[a] = reads[b] PROVE a = b
  <2>1. /\ reads[a] = IF a <= tail THEN a - 1 ELSE tail + len - a
        /\ reads[b] = IF b <= tail THEN b - 1 ELSE tail + len - b
    BY <1>1
  <2>2. a \in Int /\ b \in Int /\ a >= 1 /\ b >= 1 /\ a <= len /\ b <= len
    BY <1>2
  <2>3. (IF a <= tail THEN a - 1 ELSE tail + len - a) = (IF b <= tail THEN b - 1 ELSE tail + len - b)
    BY <1>5, <2>1
  <2>4. CASE a <= tail /\ b <= tail
    BY <2>2, <2>3, <2>4
  <2>5. CASE ~(a <= tail) /\ ~(b <= tail)
    BY <1>2, <2>2, <2>3, <2>5
  <2>6. CASE a <= tail /\ ~(b <= tail)
    BY <1>2, <2>2, <2>3, <2>6
  <2>7. CASE ~(a <= tail) /\ b <= tail
    BY <1>2, <2>2, <2>3, <2>7
  <2> QED
    BY <2>4, <2>5, <2>6, <2>7
<1> QED
  BY <1>1, <1>3, <1>4, <1>5 DEF IsInjective

LEMMA AllReadOnce ==
  ASSUME HashTypes, ReadsInOrder
  PROVE  EveryByteOnce
<1>1. /\ len \in Nat /\ NBlocks \in Nat /\ len % 16 \in 0 .. 15
      /\ len = (16 * NBlocks) + (len % 16)
  BY Lengths
<1>2. reads \in Seq(Int)
  BY DEF ReadsInOrder
<1>3. ASSUME NEW n, n \in 0 .. len, Ordered(n), pc \in {"digest", "done"} => n = len
      PROVE  EveryByteOnce
  <2>1. pc \in {"digest", "done"} => Len(reads) = len
    BY <1>3 DEF Ordered
  <2> QED
    BY <1>2, <1>3, <2>1, OrderedReads DEF EveryByteOnce
<1>4. CASE pc \in {"call", "aborted"}
  <2>1. 0 \in 0 .. len
    <3> HIDE DEF len
    <3> QED
      BY <1>1
  <2> QED
    BY <1>3, <1>4, <2>1 DEF ReadsInOrder
<1>5. CASE pc = "loop" /\ backend # "murmur"
  BY <1>3, <1>5 DEF ReadsInOrder
<1>6. CASE pc = "loop" /\ backend = "murmur"
  <2> DEFINE n == 16 * (NBlocks + i)
  <2>1. i \in - NBlocks .. 0 /\ Ordered(n)
    BY <1>6 DEF ReadsInOrder
  <2>2. n \in 0 .. len
    <3> DEFINE l == len
               m == NBlocks
               r == len % 16
    <3>1. l \in Nat /\ m \in Nat /\ r \in 0 .. 15 /\ l = (16 * m) + r /\ i \in - m .. 0
      BY <1>1, <2>1
    <3> HIDE DEF l, m, r
    <3>2. 16 * (m + i) \in 0 .. l
      BY <3>1
    <3> QED
      BY <3>2 DEF l, m
  <2> HIDE DEF n
  <2> QED
    BY <1>3, <1>6, <2>1, <2>2
<1>7. CASE pc \in {"sum", "fmix", "last_sum", "digest", "done"} /\ backend = "murmur"
  <2>1. TailReversed
    BY <1>7 DEF ReadsInOrder
  <2>2. Len(reads) = len
    BY <2>1 DEF TailReversed
  <2> QED
    BY <1>2, <1>7, <2>1, <2>2, ReversedReads DEF EveryByteOnce
<1>8. CASE pc \in {"sum", "fmix", "last_sum", "digest", "done"} /\ backend # "murmur"
  <2>1. Ordered(len)
    BY <1>8 DEF ReadsInOrder
  <2>2. len \in 0 .. len
    <3> HIDE DEF len
    <3> QED
      BY <1>1
  <2> QED
    BY <1>3, <2>1, <2>2
<1> QED
  BY <1>4, <1>5, <1>6, <1>7, <1>8 DEF HashTypes

(***************************************************************************)
(* The difference is kept.                                                 *)
(***************************************************************************)
LEMMA DifferenceStep ==
  ASSUME HashTypes, ReadsInOrder, DifferenceKept, [HashNext]_hashVars
  PROVE  DifferenceKept'
<1>1. SUFFICES ASSUME backend' # "md5", NEW q \in (0 .. len - 1)', DifferAt(q)'
               PROVE  /\ pc' = "loop" /\ backend' = "fnv1" =>
                           IF i' <= q THEN state'["key"] = state'["twin"]
                           ELSE state'["key"][1] # state'["twin"][1]
                      /\ pc' = "loop" /\ backend' = "murmur" =>
                           IF 16 * (NBlocks' + i') <= q THEN state'["key"] = state'["twin"]
                           ELSE state'["key"] # state'["twin"]
                      /\ pc' \in {"sum", "fmix", "last_sum", "digest"} =>
                           state'["key"] # state'["twin"]
  BY DEF DifferenceKept
<1>2. UNCHANGED <<data, backend>>
  BY DEF hashVars, HashNext, HashStep, Returned, MurmurStart, MurmurBlock, MurmurTail, MurmurSum,
         MurmurFmix, Md5Start, Md5NoContext, Md5Update, Md5Final, Fnv1Start, Fnv1Byte, Fnv1End,
         Return
<1>3. /\ len' = len /\ NBlocks' = NBlocks /\ q \in 0 .. len - 1 /\ DifferAt(q)
      /\ backend # "md5"
  BY <1>1, <1>2, DataKept
<1>4. /\ pc = "loop" /\ backend = "fnv1" =>
           IF i <= q THEN state["key"] = state["twin"]
           ELSE state["key"][1] # state["twin"][1]
      /\ pc = "loop" /\ backend = "murmur" =>
           IF 16 * (NBlocks + i) <= q THEN state["key"] = state["twin"]
           ELSE state["key"] # state["twin"]
      /\ pc \in {"sum", "fmix", "last_sum", "digest"} => state["key"] # state["twin"]
  BY <1>3 DEF DifferenceKept
<1>5. len \in Nat /\ NBlocks \in Nat /\ q \in Nat /\ q < len
  <2>1. len \in Nat /\ NBlocks \in Nat
    BY Lengths
  <2> HIDE DEF len
  <2> QED
    BY <1>3, <2>1
<1>6. "key" \in Who /\ "twin" \in Who
  BY DEF Who
<1>7. CASE UNCHANGED hashVars
  <2>1. UNCHANGED <<pc, backend, i, state>>
    BY <1>7 DEF hashVars
  <2> QED
    BY <2>1, <1>3, <1>4
<1>8. CASE MurmurStart
  <2>1. /\ backend' = "murmur" /\ pc' = "loop" /\ i' = - NBlocks
        /\ state'["key"] = state'["twin"]
    BY <1>6, <1>8 DEF MurmurStart
  <2>2. 16 * (NBlocks' + i') <= q
    <3> DEFINE m == NBlocks
    <3>1. m \in Nat /\ NBlocks' = m /\ i' = - m
      BY <1>3, <1>5, <2>1
    <3> HIDE DEF m
    <3> QED
      BY <1>5, <3>1
  <2> QED
    BY <2>1, <2>2
<1>9. CASE MurmurBlock
  <2> DEFINE m == NBlocks
             base == 16 * (m + i)
             k == BlockWords("key")
             t == BlockWords("twin")
             g == state["key"]
             h == state["twin"]
  <2>1. /\ pc = "loop" /\ backend = "murmur" /\ backend' = "murmur" /\ pc' = "loop"
        /\ i' = i + 1
        /\ state' = [w \in Who |-> MixBlock(state[w], BlockWords(w))]
    BY <1>9 DEF MurmurBlock, BlockWords
  <2>2. i \in Int /\ m \in Nat /\ state \in [Who -> Lanes]
    <3>1. i \in - m .. 0 /\ m \in Nat
      BY <1>5, <2>1 DEF ReadsInOrder
    <3> HIDE DEF m
    <3> QED
      BY <2>1, <3>1 DEF HashTypes
  <2>3. k \in Lanes /\ t \in Lanes /\ g \in Lanes /\ h \in Lanes
    BY <1>6, <2>2, BlockWordsLanes
  <2>4. k = t <=> q \notin base .. base + 15
    BY <1>3, <2>2, BlockWordsEqual
  <2>5. /\ state'["key"] = MixBlock(g, k) /\ state'["twin"] = MixBlock(h, t)
    BY <1>6, <2>1
  <2>6. IF base <= q THEN g = h ELSE g # h
    BY <1>4, <2>1
  <2>7. NBlocks' = m
    BY <1>3
  <2> HIDE DEF m
  <2>8. 16 * (m + (i + 1)) = base + 16 /\ base \in Int
    BY <2>2
  <2> HIDE DEF base, k, t, g, h
  <2>9. 16 * (NBlocks' + i') = base + 16
    BY <2>1, <2>7, <2>8
  <2>10. CASE base + 16 <= q
    <3>1. k = t /\ g = h
      BY <1>5, <2>4, <2>6, <2>8, <2>10
    <3> QED
      BY <2>1, <2>5, <2>9, <2>10, <3>1
  <2>11. CASE ~(base + 16 <= q)
    <3>1. (k = t /\ g # h) \/ (k # t /\ g = h)
      BY <1>5, <2>4, <2>6, <2>8, <2>11
    <3>2. MixBlock(g, k) # MixBlock(h, t)
      BY <2>3, <3>1, MixBlockEqual
    <3> QED
      BY <2>1, <2>5, <2>9, <2>11, <3>2
  <2> QED
    BY <2>10, <2>11
<1>10. CASE MurmurTail
  <2>1. /\ pc = "loop" /\ backend = "murmur" /\ pc' = "sum" /\ i = 0
        /\ state' = [w \in Who |-> TailLanes(w)]
    BY <1>10 DEF MurmurTail, TailLanes, TailWord
  <2>2. state \in [Who -> Lanes]
    BY <2>1 DEF HashTypes
  <2>3. IF q < 16 * NBlocks THEN state["key"] # state["twin"] ELSE state["key"] = state["twin"]
    <3> DEFINE m == NBlocks
    <3>1. m \in Nat /\ (IF 16 * (m + i) <= q THEN state["key"] = state["twin"]
                        ELSE state["key"] # state["twin"])
      BY <1>4, <1>5, <2>1
    <3> HIDE DEF m
    <3>2. 16 * (m + i) <= q <=> ~(q < 16 * m)
      BY <1>5, <2>1, <3>1
    <3> QED
      BY <3>1, <3>2 DEF m
  <2>4. TailLanes("key") # TailLanes("twin")
    BY <1>3, <2>2, <2>3, TailLanesDiffer
  <2> QED
    BY <1>6, <2>1, <2>4
<1>11. CASE MurmurSum
  <2>1. /\ pc \in {"sum", "last_sum"} /\ pc' \in {"fmix", "digest"}
        /\ state' = [w \in Who |-> AddLanes(state[w])]
    BY <1>11 DEF MurmurSum
  <2>2. state["key"] \in Lanes /\ state["twin"] \in Lanes
    BY <1>6, <2>1 DEF HashTypes
  <2>3. AddLanes(state["key"]) # AddLanes(state["twin"])
    BY <1>4, <2>1, <2>2, AddLanesWord
  <2> QED
    BY <1>6, <2>1, <2>3
<1>12. CASE MurmurFmix
  <2>1. /\ pc = "fmix" /\ pc' = "last_sum"
        /\ state' = [w \in Who |-> FmixLanes(state[w])]
    BY <1>12 DEF MurmurFmix, FmixLanes
  <2>2. state["key"] \in Lanes /\ state["twin"] \in Lanes
    BY <1>6, <2>1 DEF HashTypes
  <2>3. FmixLanes(state["key"]) # FmixLanes(state["twin"])
    BY <1>4, <2>1, <2>2, FmixLanesWord
  <2> QED
    BY <1>6, <2>1, <2>3
<1>13. CASE Md5Start \/ Md5NoContext \/ Md5Update \/ Md5Final
  BY <1>3, <1>13 DEF Md5Start, Md5NoContext, Md5Update, Md5Final
<1>14. CASE Fnv1Start
  <2>1. /\ backend' = "fnv1" /\ pc' = "loop" /\ i' = i /\ pc = "call"
        /\ state'["key"] = state'["twin"]
    BY <1>6, <1>14 DEF Fnv1Start
  <2>2. i' = 0
    BY <2>1 DEF ReadsInOrder
  <2> QED
    BY <1>5, <2>1, <2>2
<1>15. CASE Fnv1Byte
  <2> DEFINE x == state["key"][1]
             y == state["twin"][1]
             c == At("key", i)
             d == At("twin", i)
  <2>1. /\ pc = "loop" /\ backend = "fnv1" /\ backend' = "fnv1" /\ pc' = "loop"
        /\ i' = i + 1 /\ state' = [w \in Who |-> Fnv1Bytes(w)]
    BY <1>15 DEF Fnv1Byte, Fnv1Bytes, Fnv1Next
  <2>2. i \in Int /\ state \in [Who -> [1 .. 2 -> DoubleWords]]
    <3> DEFINE n == len
    <3>1. i \in 0 .. n
      BY <2>1 DEF ReadsInOrder
    <3> HIDE DEF n
    <3> QED
      BY <2>1, <3>1 DEF HashTypes
  <2>3. c \in Bytes /\ d \in Bytes
    BY <1>6, <2>2, AtByte
  <2>4. x \in DoubleWords /\ y \in DoubleWords
    BY <1>6, <2>2
  <2>5. c = d <=> i # q
    BY <1>3, <2>2, DifferOnce DEF DifferAt
  <2>6. /\ state'["key"] = Fnv1Bytes("key") /\ state'["twin"] = Fnv1Bytes("twin")
        /\ state'["key"][1] = Fnv1Next(x, c) /\ state'["twin"][1] = Fnv1Next(y, d)
    BY <1>6, <2>1 DEF Fnv1Bytes
  <2>7. IF i <= q THEN state["key"] = state["twin"] ELSE x # y
    BY <1>4, <2>1
  <2>8. c = d /\ state["key"] = state["twin"] => Fnv1Bytes("key") = Fnv1Bytes("twin")
    BY DEF Fnv1Bytes
  <2>9. state["key"] = state["twin"] => x = y
    OBVIOUS
  <2> HIDE DEF x, y, c, d
  <2>10. CASE i + 1 <= q
    <3>1. i <= q /\ i # q
      BY <1>5, <2>2, <2>10
    <3> QED
      BY <2>1, <2>5, <2>6, <2>7, <2>8, <2>10, <3>1
  <2>11. CASE ~(i + 1 <= q)
    <3>1. (c = d /\ x # y) \/ (c # d /\ x = y)
      <4>1. CASE i = q
        <5>1. i <= q
          BY <1>5, <4>1
        <5> QED
          BY <2>5, <2>7, <2>9, <4>1, <5>1
      <4>2. CASE i # q
        <5>1. ~(i <= q)
          BY <1>5, <2>2, <2>11, <4>2
        <5> QED
          BY <2>5, <2>7, <4>2, <5>1
      <4> QED
        BY <4>1, <4>2
    <3>2. Fnv1Next(x, c) # Fnv1Next(y, d)
      BY <2>3, <2>4, <3>1, Fnv1NextWord
    <3> QED
      BY <2>1, <2>6, <2>11, <3>2
  <2> QED
    BY <2>10, <2>11
<1>16. CASE Fnv1End
  <2>1. /\ pc = "loop" /\ backend = "fnv1" /\ pc' = "digest" /\ i = len
        /\ state' = [w \in Who |-> Halves(state[w])]
    BY <1>16 DEF Fnv1End, Halves
  <2>2. state["key"] \in [1 .. 2 -> DoubleWords] /\ state["twin"] \in [1 .. 2 -> DoubleWords]
    BY <1>6, <2>1 DEF HashTypes
  <2>3. ~(i <= q)
    <3> HIDE DEF len
    <3> QED
      BY <1>5, <2>1
  <2>4. Halves(state["key"]) # Halves(state["twin"])
    BY <1>4, <2>1, <2>2, <2>3, HalvesLanes
  <2> QED
    BY <1>6, <2>1, <2>4
<1>17. CASE Return
  BY <1>17 DEF Return
<1> QED
  BY <1>7, <1>8, <1>9, <1>10, <1>11, <1>12, <1>13, <1>14, <1>15, <1>16, <1>17
  DEF HashNext, HashStep, Returned

(***************************************************************************)
(* The two hashes of a key.                                                *)
(***************************************************************************)
LEMMA ComplementDiffers ==
  ASSUME NEW h \in Int
  PROVE  Complement(h) # h
<1>1. \E m \in Int : Word = 2 * m
  <2>1. CASE Word = 16
    BY <2>1, 16 = 2 * 8
  <2>2. CASE Word = 256
    BY <2>2, 256 = 2 * 128
  <2>3. CASE Word = 65536
    BY <2>3, 65536 = 2 * 32768
  <2>4. CASE Word = 4294967296
    BY <2>4, 4294967296 = 2 * 2147483648
  <2> QED
    BY <2>1, <2>2, <2>3, <2>4, Widths
<1>2. Word \in Int /\ TwoWords = Word * Word
  BY Widths
<1> DEFINE w == Word
<1>3. PICK m \in Int : w = 2 * m
  BY <1>1
<1>4. w \in Int /\ TwoWords = w * w
  BY <1>2
<1> HIDE DEF w
<1> DEFINE n == m * w
<1>5. TwoWords = 2 * n /\ n \in Int
  BY <1>3, <1>4
<1> HIDE DEF n
<1>6. w - 1 - h # h
  BY <1>3
<1>7. TwoWords - 1 - h # h
  BY <1>5
<1> QED
  BY <1>6, <1>7 DEF Complement, w

LEMMA FoldedHashes ==
  ASSUME wide \in BOOLEAN, NEW d \in Lanes
  PROVE  Folded(d)[1] \in Int /\ Folded(d)[2] \in Int
<1>1. d[1] \in Words /\ d[2] \in Words /\ d[3] \in Words /\ d[4] \in Words
  BY DEF Lanes
<1>2. \A x, y \in Words : BitXor(x, y) \in Int
  BY XorWords DEF Words
<1>3. \A x, y \in Words : x + Word * y \in Int
  <2>1. Word \in Int
    BY Widths
  <2> SUFFICES ASSUME NEW x \in Words, NEW y \in Words PROVE x + Word * y \in Int
    OBVIOUS
  <2>2. x \in Int /\ y \in Int
    BY DEF Words
  <2> QED
    BY <2>1, <2>2
<1>4. CASE wide
  <2>1. Folded(d)[1] = d[1] + Word * d[2] /\ Folded(d)[2] = d[3] + Word * d[4]
    BY <1>4 DEF Folded
  <2> QED
    BY <1>1, <1>3, <2>1
<1>5. CASE ~wide /\ backend = "fnv1"
  <2>1. Folded(d)[1] = BitXor(d[1], d[2]) /\ Folded(d)[2] = BitXor(d[3], d[4])
    BY <1>5 DEF Folded
  <2> QED
    BY <1>1, <1>2, <2>1
<1>6. CASE ~wide /\ backend # "fnv1"
  <2>1. Folded(d)[1] = BitXor(d[1], d[3]) /\ Folded(d)[2] = BitXor(d[2], d[4])
    BY <1>6 DEF Folded
  <2> QED
    BY <1>1, <1>2, <2>1
<1> QED
  BY <1>4, <1>5, <1>6

LEMMA DistinctHashes ==
  ASSUME wide \in BOOLEAN, NEW d \in Lanes
  PROVE  Distinct(d)[1] # Distinct(d)[2]
<1> DEFINE h == Folded(d)
           a == h[1]
           b == h[2]
<1>1. a \in Int /\ b \in Int
  BY FoldedHashes
<1>2. CASE a = b
  <2>1. Distinct(d)[1] = a /\ Distinct(d)[2] = Complement(b)
    BY <1>2 DEF Distinct
  <2> HIDE DEF a, b
  <2>2. Complement(b) # b
    BY <1>1, ComplementDiffers
  <2> QED
    BY <1>2, <2>1, <2>2
<1>3. CASE a # b
  BY <1>3 DEF Distinct
<1> QED
  BY <1>2, <1>3

LEMMA IdenticalStep ==
  ASSUME HashTypes, NoIdenticalHashes, [HashNext]_hashVars
  PROVE  NoIdenticalHashes'
<1>1. CASE Return
  <2>1. state \in [Who -> Lanes] /\ wide \in BOOLEAN /\ hashes' = [w \in Who |-> Distinct(state[w])]
    BY <1>1 DEF Return, HashTypes
  <2>2. \A w \in Who : Distinct(state[w])[1] # Distinct(state[w])[2]
    BY <2>1, DistinctHashes
  <2>3. \A w \in Who : hashes'[w][1] # hashes'[w][2]
    BY <2>1, <2>2
  <2> QED
    BY <2>3 DEF NoIdenticalHashes
<1>2. CASE UNCHANGED hashVars
  BY <1>2 DEF NoIdenticalHashes, hashVars
<1>3. ASSUME pc' # "done" PROVE NoIdenticalHashes'
  BY <1>3 DEF NoIdenticalHashes
<1>4. CASE \/ MurmurStart \/ MurmurBlock \/ MurmurTail \/ MurmurSum \/ MurmurFmix
           \/ Md5Start \/ Md5NoContext \/ Md5Update \/ Md5Final
           \/ Fnv1Start \/ Fnv1Byte \/ Fnv1End
  <2>1. pc' # "done"
    BY <1>4 DEF MurmurStart, MurmurBlock, MurmurTail, MurmurSum, MurmurFmix, Md5Start,
                Md5NoContext, Md5Update, Md5Final, Fnv1Start, Fnv1Byte, Fnv1End
  <2> QED
    BY <1>3, <2>1
<1> QED
  BY <1>1, <1>2, <1>4 DEF HashNext, HashStep, Returned

(***************************************************************************)
(* The theorems.                                                           *)
(***************************************************************************)
LEMMA HashInitInv == HashInit => HashInv
<1> SUFFICES ASSUME HashInit PROVE HashInv
  OBVIOUS
<1>1. PICK s \in Keys : \E t \in Twins(s) \cup {s} : data = [w \in Who |-> IF w = "key" THEN s ELSE t]
  BY DEF HashInit
<1>2. PICK t \in Twins(s) \cup {s} : data = [w \in Who |-> IF w = "key" THEN s ELSE t]
  BY <1>1
<1>3. /\ backend \in {"md5", "murmur", "fnv1"} /\ wide \in BOOLEAN
      /\ pc = "call" /\ i = 0 /\ reads = << >>
  BY DEF HashInit
<1>4. s \in Seq(Bytes) /\ data["key"] = s /\ data["twin"] = t /\ len = Len(s)
  BY <1>2, HashAssumption DEF Bytes, Who, len
<1>5. t = s \/ (t # s /\ \E p \in DOMAIN s, c \in Bytes : t = [s EXCEPT ![p] = c])
  BY <1>2 DEF Twins, Bytes
<1>6. t \in Seq(Bytes) /\ Len(t) = Len(s)
  <2>1. ASSUME NEW p \in DOMAIN s, NEW c \in Bytes, t = [s EXCEPT ![p] = c]
        PROVE  t \in Seq(Bytes) /\ Len(t) = Len(s)
    <3> HIDE DEF Bytes
    <3> QED
      BY <1>4, <2>1
  <2> QED
    BY <1>4, <1>5, <2>1
<1>7. HashTypes
  <2>1. data \in [Who -> Seq(Bytes)]
    BY <1>2, <1>4, <1>6
  <2> QED
    BY <1>3, <1>4, <1>6, <2>1 DEF HashTypes
<1>8. OneDifference
  <2> SUFFICES ASSUME s # t PROVE \E q \in 0 .. len - 1 : DifferAt(q)
    BY <1>4 DEF OneDifference
  <2>1. PICK p \in DOMAIN s, c \in Bytes : t = [s EXCEPT ![p] = c]
    BY <1>5
  <2> DEFINE n == len
             q == p - 1
  <2>2. n \in Nat /\ DOMAIN s = 1 .. n
    BY <1>4
  <2>3. \A x \in 0 .. n - 1 : At("key", x) = s[x + 1] /\ At("twin", x) = t[x + 1]
    BY <1>4 DEF At
  <2> HIDE DEF n
  <2>4. p \in 1 .. n /\ q \in 0 .. n - 1 /\ q + 1 = p
    BY <2>1, <2>2
  <2>5. \A x \in 1 .. n : x # p => t[x] = s[x]
    BY <2>1, <2>2
  <2>6. s[p] # t[p]
    <3>1. t[p] = s[p] => t = s
      BY <1>4, <2>1
    <3> QED
      BY <3>1
  <2>7. At("key", q) # At("twin", q)
    BY <2>3, <2>4, <2>6
  <2>8. \A x \in 0 .. n - 1 : x # q => At("key", x) = At("twin", x)
    <3> TAKE x \in 0 .. n - 1
    <3> HAVE x # q
    <3>1. x + 1 \in 1 .. n /\ x + 1 # p
      BY <2>2, <2>4
    <3> QED
      BY <2>3, <2>5, <3>1
  <2>9. DifferAt(q)
    BY <2>4, <2>7, <2>8 DEF DifferAt, n
  <2> QED
    BY <2>4, <2>9 DEF n
<1>9. ReadsInOrder
  <2>1. Ordered(0) /\ reads \in Seq(Int)
    BY <1>3 DEF Ordered
  <2> QED
    BY <1>3, <2>1 DEF ReadsInOrder
<1>10. DifferenceKept /\ NoIdenticalHashes
  BY <1>3 DEF DifferenceKept, NoIdenticalHashes
<1> QED
  BY <1>7, <1>8, <1>9, <1>10 DEF HashInv

LEMMA HashNextInv == HashInv /\ [HashNext]_hashVars => HashInv'
<1> SUFFICES ASSUME HashInv, [HashNext]_hashVars PROVE HashInv'
  OBVIOUS
<1>1. HashTypes /\ OneDifference /\ ReadsInOrder /\ DifferenceKept /\ NoIdenticalHashes
  BY DEF HashInv
<1>2. UNCHANGED data
  BY DEF hashVars, HashNext, HashStep, Returned, MurmurStart, MurmurBlock, MurmurTail, MurmurSum,
         MurmurFmix, Md5Start, Md5NoContext, Md5Update, Md5Final, Fnv1Start, Fnv1Byte, Fnv1End,
         Return
<1>3. OneDifference'
  BY <1>1, <1>2, DataKept
<1>4. HashTypes' /\ ReadsInOrder' /\ DifferenceKept' /\ NoIdenticalHashes'
  BY <1>1, HashTypesStep, ReadsStep, DifferenceStep, IdenticalStep
<1> QED
  BY <1>3, <1>4 DEF HashInv

(* coucal_hash_data() keeps, with any of its backends and any result width, *)
(* what has been read in order, the difference of two keys once its byte    *)
(* has been read, and words within their width.                             *)
THEOREM HashInvariance == HashSpec => []HashInv
<1>1. HashInit => HashInv
  BY HashInitInv
<1>2. HashInv /\ [HashNext]_hashVars => HashInv'
  BY HashNextInv
<1> QED
  BY <1>1, <1>2, PTL DEF HashSpec

(* The loop over blocks from a negative index with its tail, the chunks of  *)
(* the MD5 and the loop of FNV-1 read every byte of a key once, whatever    *)
(* its length, and nothing outside it.                                      *)
THEOREM EveryByteOnceAlways == HashSpec => []EveryByteOnce
<1>1. HashInv => EveryByteOnce
  BY AllReadOnce DEF HashInv
<1> QED
  BY <1>1, HashInvariance, PTL

(* MurmurHash3_x86_128() and the FNV-1 pair give different digests to keys  *)
(* that differ in one byte, with words of 32 bits as of fewer.              *)
THEOREM OneByteCountsAlways == HashSpec => []OneByteCounts
<1>1. HashInv => OneByteCounts
  BY DEF HashInv, OneByteCounts, OneDifference, DifferenceKept
<1> QED
  BY <1>1, HashInvariance, PTL

(* coucal_hash_data() never returns two identical hashes for a key, for any *)
(* digest the backend may yield.                                            *)
THEOREM NoIdenticalHashesAlways == HashSpec => []NoIdenticalHashes
<1>1. HashInv => NoIdenticalHashes
  BY DEF HashInv
<1> QED
  BY <1>1, HashInvariance, PTL

(* A chunk is not empty and does not go beyond the key.                    *)
LEMMA ChunkInRange ==
  ASSUME HashTypes, ReadsInOrder, pc = "loop", backend # "murmur", i < len
  PROVE  Chunk \in 1 .. len - i
<1> DEFINE l == len
<1>1. l \in Nat /\ i \in 0 .. l /\ i < l
  BY Lengths DEF ReadsInOrder
<1>2. UIntMod \in Nat /\ ChunkSize \in 1 .. UIntMod - 1
  BY HashAssumption
<1>3. Chunk = IF l - i <= ChunkSize THEN (l - i) % UIntMod ELSE ChunkSize
  BY DEF Chunk
<1> HIDE DEF l
<1>4. ASSUME l - i <= ChunkSize PROVE (l - i) % UIntMod = l - i
  BY <1>1, <1>2, <1>4, SmallMod
<1>5. Chunk \in 1 .. l - i
  BY <1>1, <1>2, <1>3, <1>4
<1> QED
  BY <1>5 DEF l

(* The steps left, loop by loop: each takes one of them, or more.          *)
LEMMA HashStepAdvances ==
  ASSUME HashInv, HashStep
  PROVE  HashStepsLeft' \in 0 .. HashStepsLeft - 1
<1>1. HashTypes /\ ReadsInOrder
  BY DEF HashInv
<1> DEFINE l == len
           n == NBlocks
<1>2. l \in Nat /\ n \in Nat /\ n <= l
  <2>1. len \in Nat /\ NBlocks \in Nat /\ len % 16 \in 0 .. 15
        /\ len = (16 * NBlocks) + (len % 16)
    BY <1>1, Lengths
  <2> DEFINE r == len % 16
  <2>2. l \in Nat /\ n \in Nat /\ r \in 0 .. 15 /\ l = (16 * n) + r
    BY <2>1
  <2> HIDE DEF l, n, r
  <2> QED
    BY <2>2
<1>3. len' = l
  BY DEF len, HashStep, MurmurStart, MurmurBlock, MurmurTail, MurmurSum, MurmurFmix,
     Md5Start, Md5NoContext, Md5Update, Md5Final, Fnv1Start, Fnv1Byte, Fnv1End, Return
<1>4. /\ pc = "call" => HashStepsLeft = l + 6 /\ i = 0
      /\ pc = "loop" /\ backend = "murmur" => HashStepsLeft = 5 - i /\ i \in - n .. 0
      /\ pc = "loop" /\ backend # "murmur" => HashStepsLeft = l - i + 2 /\ i \in 0 .. l
      /\ pc = "sum" => HashStepsLeft = 4
      /\ pc = "fmix" => HashStepsLeft = 3
      /\ pc = "last_sum" => HashStepsLeft = 2
      /\ pc = "digest" => HashStepsLeft = 1
  BY <1>1 DEF HashStepsLeft, ReadsInOrder
<1>5. /\ pc' = "loop" /\ backend' = "murmur" => HashStepsLeft' = 5 - i'
      /\ pc' = "loop" /\ backend' # "murmur" => HashStepsLeft' = l - i' + 2
      /\ pc' = "sum" => HashStepsLeft' = 4
      /\ pc' = "fmix" => HashStepsLeft' = 3
      /\ pc' = "last_sum" => HashStepsLeft' = 2
      /\ pc' = "digest" => HashStepsLeft' = 1
      /\ pc' \in {"done", "aborted"} => HashStepsLeft' = 0
  BY <1>3 DEF HashStepsLeft
<1> HIDE DEF l, n
<1>6. CASE MurmurStart
  <2>1. pc = "call" /\ pc' = "loop" /\ backend' = "murmur" /\ i' = - n
    BY <1>6 DEF MurmurStart, n
  <2> QED
    BY <1>2, <1>4, <1>5, <2>1
<1>7. CASE MurmurBlock
  <2>1. /\ pc = "loop" /\ pc' = "loop" /\ backend = "murmur" /\ backend' = "murmur"
        /\ i # 0 /\ i' = i + 1
    BY <1>7 DEF MurmurBlock
  <2> QED
    BY <1>2, <1>4, <1>5, <2>1
<1>8. CASE MurmurTail
  <2>1. pc = "loop" /\ backend = "murmur" /\ i = 0 /\ pc' = "sum"
    BY <1>8 DEF MurmurTail
  <2> QED
    BY <1>4, <1>5, <2>1
<1>9. CASE MurmurSum \/ MurmurFmix \/ Return
  <2>1. \/ pc = "sum" /\ pc' = "fmix"
        \/ pc = "fmix" /\ pc' = "last_sum"
        \/ pc = "last_sum" /\ pc' = "digest"
        \/ pc = "digest" /\ pc' = "done"
    BY <1>9 DEF MurmurSum, MurmurFmix, Return
  <2> QED
    BY <1>4, <1>5, <2>1
<1>10. CASE Md5Start \/ Fnv1Start
  <2>1. pc = "call" /\ pc' = "loop" /\ backend' # "murmur" /\ i' = i
    BY <1>10 DEF Md5Start, Fnv1Start
  <2> QED
    BY <1>2, <1>4, <1>5, <2>1
<1>11. CASE Md5NoContext
  <2>1. pc = "call" /\ pc' = "aborted"
    BY <1>11 DEF Md5NoContext
  <2> QED
    BY <1>2, <1>4, <1>5, <2>1
<1>12. CASE Md5Update
  <2>1. /\ pc = "loop" /\ pc' = "loop" /\ backend # "murmur" /\ backend' # "murmur"
        /\ i < l /\ i' = i + Chunk
    BY <1>12 DEF Md5Update, l
  <2>2. Chunk \in 1 .. l - i
    BY <1>1, <2>1, ChunkInRange DEF l
  <2> QED
    BY <1>2, <1>4, <1>5, <2>1, <2>2
<1>13. CASE Md5Final \/ Fnv1End
  <2>1. pc = "loop" /\ backend # "murmur" /\ pc' = "digest"
    BY <1>13 DEF Md5Final, Fnv1End
  <2> QED
    BY <1>2, <1>4, <1>5, <2>1
<1>14. CASE Fnv1Byte
  <2>1. /\ pc = "loop" /\ pc' = "loop" /\ backend # "murmur" /\ backend' # "murmur"
        /\ i < l /\ i' = i + 1
    BY <1>14 DEF Fnv1Byte, l
  <2> QED
    BY <1>2, <1>4, <1>5, <2>1
<1> QED
  BY <1>6, <1>7, <1>8, <1>9, <1>10, <1>11, <1>12, <1>13, <1>14 DEF HashStep

(* Every step of coucal_hash_data() brings its end nearer, for keys of any *)
(* length and an unsigned int of any width.                                *)
THEOREM HashAdvancesAlways == HashSpec => HashAdvances
<1>1. HashInv => (pc = "loop" /\ backend = "md5" /\ i < len => Chunk # 0)
  <2> SUFFICES ASSUME HashInv, pc = "loop", backend = "md5", i < len PROVE Chunk # 0
    OBVIOUS
  <2>1. Chunk \in 1 .. len - i
    BY ChunkInRange DEF HashInv
  <2> HIDE DEF len
  <2> QED
    BY <2>1
<1>2. HashInv /\ [HashNext]_hashVars => [HashStep => HashStepsLeft' \in 0 .. HashStepsLeft - 1]_hashVars
  BY HashStepAdvances
<1> QED
  BY <1>1, <1>2, HashInvariance, PTL DEF HashSpec, HashAdvances
==============================================================================
