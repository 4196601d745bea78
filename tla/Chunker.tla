------------------------------ MODULE Chunker ------------------------------
(***************************************************************************)
(* chunker.{hpp,cpp} and rolling_hash.hpp: Chunker::chunk as it walks over  *)
(* the bytes of one file, one byte per step.  Positions count from 0 as in  *)
(* the code, so the byte at position k is data[k + 1].  The digest of a     *)
(* chunk is left out: it is a function of the chunk's bytes.                *)
(***************************************************************************)
EXTENDS Integers, Sequences

CONSTANTS Byte,               \* the values of a byte
          GEAR_TABLE,         \* GEAR_TABLE[b]: the number a byte contributes
          HashWidth,          \* bits of the rolling hash (64 in the code)
          MinSize, AvgSize, MaxSize,
          Files               \* the files that are chunked

ASSUME SizeAssumption ==
  /\ MinSize \in Nat /\ AvgSize \in Nat /\ MaxSize \in Nat
  /\ 1 <= MinSize /\ MinSize <= MaxSize

ASSUME ByteAssumption ==
  /\ HashWidth \in Nat
  /\ \A b \in Byte : GEAR_TABLE[b] \in Nat
  /\ \A f \in Files : f \in Seq(Byte)

\* What exponentiation is: the provers know no law of it.
ASSUME PowerLaw == 2 ^ 0 = 1 /\ \A k \in 1 .. HashWidth : 2 ^ k = 2 * 2 ^ (k - 1)

VARIABLES data,               \* the file
          start,              \* where the current chunk begins
          i,                  \* the outer loop's progress
          j,                  \* the byte to be rolled in next
          hash,               \* RollingHash::hash_
          chunks              \* the chunks so far

vars == <<data, start, i, j, hash, chunks>>

n == Len(data)

-----------------------------------------------------------------------------

\* How often v can be halved before it is at most 1.
Halvings[v \in Nat] == IF v > 1 THEN 1 + Halvings[v \div 2] ELSE 0

\* mask_bits_: one cut in about AvgSize bytes.
mask_bits == Halvings[AvgSize]

\* The mask fits into the hash (64 bits, and AvgSize is a size_t).
ASSUME MaskAssumption == mask_bits \in 0 .. HashWidth

\* h & mask_ = 0.
Masked(h) == h % (2 ^ mask_bits) = 0

\* RollingHash::roll, in HashWidth bits.
roll(h, byte) == (2 * h + GEAR_TABLE[byte]) % (2 ^ HashWidth)

make_chunk(from, end) == [offset |-> from, data |-> SubSeq(data, from + 1, end)]

\* Mutant: a chunk may grow one byte past MaxSize.
CutHereMutant(window, h) == (window >= MinSize /\ Masked(h)) \/ window > MaxSize

\* boundary || at_max, for a chunk of window bytes with hash h.
CutHere(window, h) == (window >= MinSize /\ Masked(h)) \/ window >= MaxSize

-----------------------------------------------------------------------------

Init ==
  /\ data \in Files
  /\ start = 0 /\ i = 0 /\ j = 0
  /\ hash = 0
  /\ chunks = <<>>

\* A byte that does not end the chunk.
Roll ==
  LET h == roll(hash, data[j + 1]) IN
  /\ i < n /\ j < n
  /\ ~ CutHere(j - start + 1, h)
  /\ hash' = h
  /\ j' = j + 1
  /\ UNCHANGED <<data, start, i, chunks>>

\* A byte that ends the chunk; the next one begins at from, with hash h.
CutAndGoOn(from, h) ==
  /\ i < n /\ j < n
  /\ CutHere(j - start + 1, roll(hash, data[j + 1]))
  /\ chunks' = Append(chunks, make_chunk(start, j + 1))
  /\ start' = from /\ i' = j + 1 /\ j' = j + 1
  /\ hash' = h
  /\ UNCHANGED data

\* Mutant: the hash of the last chunk is carried on into the next one.
CutMutant == CutAndGoOn(j + 1, roll(hash, data[j + 1]))

\* Mutant: the byte at which a chunk is cut is put into the next chunk too.
CutOverlapMutant == CutAndGoOn(IF j > start THEN j ELSE j + 1, 0)

\* The outer loop resets the hash.
Cut == CutAndGoOn(j + 1, 0)

\* Mutant: a rest shorter than MinSize is dropped.
FinishMutant ==
  /\ i < n /\ j = n
  /\ n - start >= MinSize
  /\ chunks' = Append(chunks, make_chunk(start, n))
  /\ i' = n
  /\ UNCHANGED <<data, start, j, hash>>

\* The end of the data without a boundary: the rest is the final chunk.
Finish ==
  /\ i < n /\ j = n
  /\ chunks' = Append(chunks, make_chunk(start, n))
  /\ i' = n
  /\ UNCHANGED <<data, start, j, hash>>

Next == Roll \/ Cut \/ Finish

Spec == Init /\ [][Next]_vars


Returned == i = n

-----------------------------------------------------------------------------
(* Properties.                                                              *)

EndOf(c) == c.offset + Len(c.data)

TypeOK ==
  /\ data \in Seq(Byte)
  /\ start \in 0 .. n /\ i \in 0 .. n /\ j \in start .. n
  /\ hash \in Nat
  /\ \A k \in DOMAIN chunks : chunks[k].offset \in 0 .. n /\ chunks[k].data \in Seq(Byte)

\* The chunks tile the file: each holds the file's bytes from where the one
\* before it ended, and together they reach as far as the loop has come.  So
\* FileStore::reassemble, which puts them back to back, yields the file.
Tiling ==
  /\ \A k \in DOMAIN chunks :
       /\ chunks[k].data = SubSeq(data, chunks[k].offset + 1, EndOf(chunks[k]))
       /\ chunks[k].offset = IF k = 1 THEN 0 ELSE EndOf(chunks[k - 1])
  /\ i = IF chunks = <<>> THEN 0 ELSE EndOf(chunks[Len(chunks)])

\* "min/avg/max bound the chunk size" (chunker.hpp): no chunk is empty or
\* longer than MaxSize, and only the last one of a file is shorter than MinSize.
SizesBounded ==
  \A k \in DOMAIN chunks :
    /\ Len(chunks[k].data) \in 1 .. MaxSize
    /\ Len(chunks[k].data) < MinSize => k = Len(chunks) /\ Returned

\* How many of the last bytes of s can matter.
Recent(s) == IF Len(s) < mask_bits THEN Len(s) ELSE mask_bits

\* Weights(s)[k]: what the last k bytes of s stand for in the gear hash; a byte
\* that is k places back counts 2^k times.
Weights(s) ==
  LET sum[k \in 0 .. Recent(s)] ==
        IF k = 0 THEN 0 ELSE sum[k - 1] + GEAR_TABLE[s[Len(s) - k + 1]] * 2 ^ (k - 1)
  IN sum

\* The low mask_bits bits of the gear hash of bytes s, as the sum they stand
\* for: only the last mask_bits bytes matter.
LowBits(s) == Weights(s)[Recent(s)] % (2 ^ mask_bits)

\* A chunk of bytes s has a reason to end after its first w bytes.
Boundary(s, w) == (w >= MinSize /\ LowBits(SubSeq(s, 1, w)) = 0) \/ w >= MaxSize

\* Where chunks end is decided by their own bytes alone, and only by the last
\* mask_bits of them: each chunk ends at its first boundary, whatever comes
\* before it in the file, so that an edit changes no chunk after the next cut
\* that the old and the new file have in common (rolling_hash.hpp).
ContentDefined ==
  \A k \in DOMAIN chunks :
    LET s == chunks[k].data IN
    /\ \A w \in 1 .. Len(s) - 1 : ~ Boundary(s, w)
    /\ Boundary(s, Len(s)) \/ EndOf(chunks[k]) = n
=============================================================================
