----------------------------- MODULE CoucalHash ------------------------------
(***************************************************************************)
(* The hash of a key: coucal_hash_data() with its three backends, and      *)
(* MurmurHash3_x86_128().  The same call is made on a key and on a twin    *)
(* that differs from it in one byte.                                       *)
(*                                                                         *)
(* A byte has eight bits and a word 32, or fewer: constants then keep      *)
(* their low bits, so the odd ones stay odd, and rotations and shifts      *)
(* their share of the width.                                               *)
(***************************************************************************)
EXTENDS Integers, SequencesExt

CONSTANTS
  ByteBits,   \* bits of a byte; four bytes make a word (uint32_t)
  UIntMod,    \* 2^width of an int, and of the unsigned int of HashMD5Update()
  ChunkSize,  \* 0x10000000, the largest update of the MD5
  Keys,       \* keys: sequences of bytes
  Digests,    \* digests the MD5 may yield: sequences of four words
  BitXor(_, _)   \* the exclusive or of two integers

VARIABLES
  backend,  \* "md5", "murmur", "fnv1": HTS_INTHASH_USES_...
  wide,     \* COUCAL_HASH_SIZE == 64
  data,     \* the two keys
  pc,
  i,        \* the index of the loop: bytes, or blocks counted from the last
  state,    \* what has been computed of each key
  reads,    \* the positions read, in order
  hashes    \* what is returned for each key

hashVars == <<backend, wide, data, pc, i, state, reads, hashes>>

Who == {"key", "twin"}
len == Len(data["key"])

Byte == 2^ByteBits
WordBits == 4 * ByteBits
Word == 2^WordBits
TwoWords == Word * Word

ASSUME HashAssumption ==
  /\ ByteBits \in {1, 2, 4, 8}
  /\ UIntMod \in Nat /\ ChunkSize \in 1 .. UIntMod - 1
  /\ Keys \subseteq Seq(0 .. Byte - 1)
  /\ Digests \subseteq [1 .. 4 -> 0 .. Word - 1]

(* the byte at an address from the start of a key; any, outside *)
At(w, p) == IF p \in 0 .. len - 1 THEN data[w][p + 1] ELSE 0

Twins(s) == {[s EXCEPT ![p] = c] : p \in DOMAIN s, c \in 0 .. Byte - 1} \ {s}

HashInit ==
  /\ backend \in {"md5", "murmur", "fnv1"}
  /\ wide \in BOOLEAN
  /\ \E s \in Keys : \E t \in Twins(s) \cup {s} :
       data = [w \in Who |-> IF w = "key" THEN s ELSE t]
  /\ pc = "call"
  /\ i = 0 /\ state = [w \in Who |-> << >>] /\ reads = << >>
  /\ hashes = [w \in Who |-> << >>]

(***************************************************************************)
(* Arithmetic on words, 32-bit amounts scaled to the width of a word.      *)
(***************************************************************************)
Scaled(amount) == (amount * WordBits) \div 32
Const(high, low) == (high * (65536 % Word) + low) % Word
Mul(x, c) == (x * c) % Word
Rotl32(x, r) ==
  ((x * 2^Scaled(r)) % Word) + (x \div 2^(WordBits - Scaled(r)))
ShiftXor(h, r) == BitXor(h, h \div 2^Scaled(r))

(* What of it matters: of words, a group in which a shift distributes; of  *)
(* two words and a byte, undone by the same byte.                          *)
ASSUME XorAssumption ==
  /\ \A x, y \in 0 .. Word - 1 :
       /\ BitXor(x, y) \in 0 .. Word - 1
       /\ BitXor(x, y) = BitXor(y, x) /\ BitXor(BitXor(x, y), y) = x
       /\ \A z \in 0 .. Word - 1 : BitXor(BitXor(x, y), z) = BitXor(x, BitXor(y, z))
       /\ \A r \in {13, 16} :
            BitXor(x, y) \div 2^Scaled(r) = BitXor(x \div 2^Scaled(r), y \div 2^Scaled(r))
  /\ \A x \in 0 .. TwoWords - 1, c \in 0 .. Byte - 1 :
       /\ BitXor(x, c) \in 0 .. TwoWords - 1
       /\ BitXor(BitXor(x, c), c) = x /\ BitXor(x, BitXor(x, c)) = c

(* fmix32(), with 0x85ebca6b and 0xc2b2ae35 *)
F == <<Const(34283, 51819), Const(49842, 44597)>>
Fmix32(h) == ShiftXor(Mul(ShiftXor(Mul(ShiftXor(h, 16), F[1]), 13), F[2]), 16)

(***************************************************************************)
(* MurmurHash3_x86_128(): four lanes h1, ..., h4.                          *)
(***************************************************************************)
C == <<Const(9115, 38427), Const(43790, 38793), Const(14515, 19173), Const(41443, 35731)>>
KRot == <<15, 16, 17, 18>>
HRot == <<19, 17, 15, 13>>
HAdd == <<Const(22044, 52507), Const(3018, 42823), Const(38605, 7221), Const(12972, 15127)>>
Next4(l) == (l % 4) + 1

MixK(l, k) == Mul(Rotl32(Mul(k, C[l]), KRot[l]), C[Next4(l)])

(* h ^= k, rotated, plus the next lane *)
MixH(l, h, k, next) ==
  (5 * (Rotl32(BitXor(h, MixK(l, k)), HRot[l]) + next) + HAdd[l]) % Word

(* the lane after the last is the first as it is by then *)
MixBlock(h, k) ==
  LET h1 == MixH(1, h[1], k[1], h[2])
  IN  <<h1, MixH(2, h[2], k[2], h[3]), MixH(3, h[3], k[3], h[4]), MixH(4, h[4], k[4], h1)>>

(* bytes at p, ..., p + n - 1 as a word *)
WordAt(w, p, n) ==
  LET byte(b) == IF b < n THEN At(w, p + b) ELSE 0
  IN  byte(0) + Byte * (byte(1) + Byte * (byte(2) + Byte * byte(3)))

(* Mutant: "an int len turns negative past 2GB".                           *)
NBlocks_IntLen ==
  LET half == UIntMod \div 2
      signed == ((len + half) % UIntMod) - half
  IN  IF signed < 0 THEN - ((- signed) \div 16) ELSE signed \div 16

NBlocks == len \div 16

(* getblock32(blocks, i * 4 + j): the address of a word of block i *)
BlockAddress(l) == 16 * NBlocks + 4 * (4 * i + l - 1)

MurmurStart ==
  /\ pc = "call" /\ backend = "murmur"
  /\ pc' = "loop"
  /\ i' = - NBlocks
  /\ state' = [w \in Who |-> [l \in 1 .. 4 |-> 42 % Word]]
  /\ UNCHANGED <<backend, wide, data, reads, hashes>>

MurmurBlock ==
  /\ pc = "loop" /\ backend = "murmur"
  /\ i # 0
  /\ state' = [w \in Who |->
                 MixBlock(state[w], [l \in 1 .. 4 |-> WordAt(w, BlockAddress(l), 4)])]
  /\ reads' = reads \o [b \in 1 .. 16 |-> BlockAddress(1) + b - 1]
  /\ i' = i + 1
  /\ UNCHANGED <<backend, wide, data, pc, hashes>>

(* Mutant: a lane is mixed in only when it is full.                        *)
TailBytes_FullLanes(l) == IF len % 16 >= 4 * l THEN 4 ELSE 0

(* the bytes of lane l in the tail, by the cases that fall through *)
TailBytes(l) ==
  LET left == (len % 16) - 4 * (l - 1)
  IN  IF left <= 0 THEN 0 ELSE IF left >= 4 THEN 4 ELSE left

(* h1 += h2; h1 += h3; h1 += h4; h2 += h1; h3 += h1; h4 += h1 *)
AddLanes(h) ==
  LET sum == (h[1] + h[2] + h[3] + h[4]) % Word
  IN  [l \in 1 .. 4 |-> IF l = 1 THEN sum ELSE (h[l] + sum) % Word]

(* the tail and the length *)
MurmurTail ==
  /\ pc = "loop" /\ backend = "murmur"
  /\ i = 0
  /\ LET tail == 16 * NBlocks
         k(w, l) == IF TailBytes(l) = 0 THEN 0
                    ELSE MixK(l, WordAt(w, tail + 4 * (l - 1), TailBytes(l)))
     IN  /\ state' = [w \in Who |->
                        [l \in 1 .. 4 |-> BitXor(BitXor(state[w][l], k(w, l)), len % Word)]]
         /\ reads' = reads \o Reverse(
              [b \in 1 .. TailBytes(1) + TailBytes(2) + TailBytes(3) + TailBytes(4) |->
                 tail + b - 1])
  /\ pc' = "sum"
  /\ UNCHANGED <<backend, wide, data, i, hashes>>

(* the finalization: twice the sums, fmix32() in between *)
MurmurSum ==
  /\ pc \in {"sum", "last_sum"}
  /\ state' = [w \in Who |-> AddLanes(state[w])]
  /\ pc' = IF pc = "sum" THEN "fmix" ELSE "digest"
  /\ UNCHANGED <<backend, wide, data, i, reads, hashes>>

MurmurFmix ==
  /\ pc = "fmix"
  /\ state' = [w \in Who |-> [l \in 1 .. 4 |-> Fmix32(state[w][l])]]
  /\ pc' = "last_sum"
  /\ UNCHANGED <<backend, wide, data, i, reads, hashes>>

(***************************************************************************)
(* The MD5, "fed by chunks, as the update size is an unsigned int".        *)
(***************************************************************************)
Md5Start ==
  /\ pc = "call" /\ backend = "md5"
  /\ pc' = "loop"
  /\ UNCHANGED <<backend, wide, data, i, state, reads, hashes>>

(* HashMD5Init() of OpenSSL: EVP_MD_CTX_new() returns NULL, and the        *)
(* assertion on it fails.                                                  *)
Md5NoContext ==
  /\ pc = "call" /\ backend = "md5"
  /\ pc' = "aborted"
  /\ UNCHANGED <<backend, wide, data, i, state, reads, hashes>>

(* Mutant: what remains is fed at once.                                    *)
Chunk_Remaining == (len - i) % UIntMod

Chunk == IF len - i <= ChunkSize THEN (len - i) % UIntMod ELSE ChunkSize

Md5Update ==
  /\ pc = "loop" /\ backend = "md5"
  /\ i < len
  /\ reads' = reads \o [b \in 1 .. Chunk |-> i + b - 1]
  /\ i' = i + Chunk
  /\ UNCHANGED <<backend, wide, data, pc, state, hashes>>

(* The digest of a stream of bytes: for equal streams, equal. *)
Md5Final ==
  /\ pc = "loop" /\ backend = "md5"
  /\ i >= len
  /\ \E d, e \in Digests :
       /\ data["key"] = data["twin"] => d = e
       /\ state' = [w \in Who |-> IF w = "key" THEN d ELSE e]
  /\ pc' = "digest"
  /\ UNCHANGED <<backend, wide, data, i, reads, hashes>>

(***************************************************************************)
(* Two FNV-1 hashes of two words, the second on complemented bytes.        *)
(***************************************************************************)
Const64(a, b, c, d) ==
  LET half == 65536 % TwoWords
  IN  (((a * half + b) * half + c) * half + d) % TwoWords

Fnv1Prime == Const64(0, 256, 0, 435)                    \* 0x100000001b3
Fnv1OffsetBasis == Const64(52210, 40164, 33826, 8997)   \* 0xcbf29ce484222325

Fnv1Start ==
  /\ pc = "call" /\ backend = "fnv1"
  /\ pc' = "loop"
  /\ state' = [w \in Who |-> <<Fnv1OffsetBasis, TwoWords - 1 - Fnv1OffsetBasis>>]
  /\ UNCHANGED <<backend, wide, data, i, reads, hashes>>

Fnv1Byte ==
  /\ pc = "loop" /\ backend = "fnv1"
  /\ i < len
  /\ LET c(w, n) == IF n = 1 THEN At(w, i) ELSE Byte - 1 - At(w, i)
         next(w, n) == BitXor((state[w][n] * Fnv1Prime) % TwoWords, c(w, n))
     IN  state' = [w \in Who |-> <<next(w, 1), next(w, 2)>>]
  /\ reads' = Append(reads, i)
  /\ i' = i + 1
  /\ UNCHANGED <<backend, wide, data, pc, hashes>>

(* h1 and h2 as words, low halves first *)
Fnv1End ==
  /\ pc = "loop" /\ backend = "fnv1"
  /\ i = len
  /\ state' = [w \in Who |-> <<state[w][1] % Word, state[w][1] \div Word,
                               state[w][2] % Word, state[w][2] \div Word>>]
  /\ pc' = "digest"
  /\ UNCHANGED <<backend, wide, data, i, reads, hashes>>

(***************************************************************************)
(* What the backends have in common: two hashes out of four words.         *)
(***************************************************************************)

(* 64 bits: as they are.  32 bits: "mix mix mix", or "XOR-folding".        *)
Folded(d) ==
  IF wide THEN <<d[1] + Word * d[2], d[3] + Word * d[4]>>
  ELSE IF backend = "fnv1" THEN <<BitXor(d[1], d[2]), BitXor(d[3], d[4])>>
  ELSE <<BitXor(d[1], d[3]), BitXor(d[2], d[4])>>

Complement(h) == (IF wide THEN TwoWords ELSE Word) - 1 - h

(* Mutant: the words are compared, then folded.                            *)
Distinct_BeforeFold(d) ==
  LET h == Folded(d)
  IN  IF d[1] = d[3] /\ d[2] = d[4] THEN <<h[1], Complement(h[2])>> ELSE h

(* "do not keep identical hashes" *)
Distinct(d) ==
  LET h == Folded(d)
  IN  IF h[1] = h[2] THEN <<h[1], Complement(h[2])>> ELSE h

Return ==
  /\ pc = "digest"
  /\ hashes' = [w \in Who |-> Distinct(state[w])]
  /\ pc' = "done"
  /\ UNCHANGED <<backend, wide, data, i, state, reads>>

Returned == pc \in {"done", "aborted"} /\ UNCHANGED hashVars

HashStep ==
  \/ MurmurStart \/ MurmurBlock \/ MurmurTail \/ MurmurSum \/ MurmurFmix
  \/ Md5Start \/ Md5NoContext \/ Md5Update \/ Md5Final
  \/ Fnv1Start \/ Fnv1Byte \/ Fnv1End
  \/ Return

HashNext == HashStep \/ Returned

(* A call in progress goes on. *)
HashSpec == HashInit /\ [][HashNext]_hashVars /\ WF_hashVars(HashStep)

-----------------------------------------------------------------------------
(* Every byte of the key is read, once, and none outside: by blocks        *)
(* counted up from a negative index and a switch that falls through, by    *)
(* chunks of a narrower type (in order, or it is not the MD5 of the key),  *)
(* or one by one.                                                          *)
EveryByteOnce ==
  /\ \A n \in DOMAIN reads : reads[n] \in 0 .. len - 1
  /\ IsInjective(reads)
  /\ backend = "md5" => \A n \in DOMAIN reads : reads[n] = n - 1
  /\ pc \in {"digest", "done"} => Len(reads) = len

(* Two keys that differ in one byte, wherever it is, have different        *)
(* digests before they are folded (the MD5 apart, which is not ours): no   *)
(* multiplication, rotation, shift or sum loses it on the way.             *)
OneByteCounts ==
  pc = "digest" /\ backend # "md5" /\ data["key"] # data["twin"] =>
    state["key"] # state["twin"]

(* "do not keep identical hashes": whatever the words of the digest, folded *)
(* or not, the two hashes that are returned differ.                        *)
NoIdenticalHashes == pc = "done" => \A w \in Who : hashes[w][1] # hashes[w][2]

(* The steps that a call has left, or more.                                *)
HashStepsLeft ==
  CASE pc = "call" -> len + 6
    [] pc = "loop" -> IF backend = "murmur" THEN 5 - i ELSE len - i + 2
    [] pc = "sum" -> 4
    [] pc = "fmix" -> 3
    [] pc = "last_sum" -> 2
    [] pc = "digest" -> 1
    [] OTHER -> 0

(* Every step brings the end of the call nearer: no chunk is empty, though *)
(* its size is cut to an unsigned int, and the blocks, counted up from a   *)
(* negative index, meet 0.                                                 *)
HashAdvances ==
  /\ [](pc = "loop" /\ backend = "md5" /\ i < len => Chunk # 0)
  /\ [][HashStep => HashStepsLeft' \in 0 .. HashStepsLeft - 1]_hashVars

(* The hash of a key of any length is returned, or there was no memory for *)
(* the context of the MD5: the loops over blocks, chunks and bytes end.    *)
HashReturns == <>(pc \in {"done", "aborted"})
==============================================================================
