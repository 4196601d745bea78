--------------------------- MODULE IngestProofs ---------------------------
(***************************************************************************)
(* Ingest for files of every length, every change, every size limit, gear   *)
(* table, width of the hash and size of a block.                            *)
(*                                                                          *)
(* Chunking.  Tiling and SizesBounded are not inductive by themselves: the  *)
(* final chunk is as long as the bytes rolled in since the last cut, and    *)
(* that these are fewer than MaxSize is known only from the loop.           *)
(* ContentDefined rests on what the rolling hash is: modulo the mask, the   *)
(* weighted sum of the last mask_bits bytes of the chunk under way.         *)
(*                                                                          *)
(* Two versions of a file.  A chunk is determined by the bytes from its     *)
(* start, so two files are cut alike up to the first byte that differs, and *)
(* again after any cut they have in common.                                 *)
(*                                                                          *)
(* Hashes and trees.  A padded message determines the message, a digest of  *)
(* two digests determines these, and so the root of a tree of known size    *)
(* determines the leaves; the walk down two trees is followed leaf by leaf. *)
(***************************************************************************)
EXTENDS Ingest, BoundedInduction, FiniteSetTheorems, TLAPS

-----------------------------------------------------------------------------
(* Chunks.                                                                  *)

LEMMA PowerType == \A k \in 0 .. HashWidth : 2 ^ k \in Nat \ {0}
<1>1. DEFINE S == {k \in Nat : 2 ^ k \in Nat \ {0}}
<1>2. 0 \in S
  BY PowerLaw
<1>3. ASSUME NEW k \in 1 .. HashWidth, k - 1 \in S
      PROVE  k \in S
  <2>1. DEFINE w == 2 ^ (k - 1)
  <2>2. 2 ^ k = 2 * w /\ w \in Nat \ {0} /\ k \in Nat
    BY <1>3, PowerLaw, ByteAssumption
  <2>3. HIDE DEF w
  <2>4. QED
    BY <2>2
<1>4. \A k \in 0 .. HashWidth : k \in S
  <2>1. HIDE DEF S
  <2>2. HashWidth \in Nat
    BY ByteAssumption
  <2>3. QED
    BY <1>2, <1>3, <2>2, UpToBound
<1>5. QED
  BY <1>4

\* While the outer loop runs, a chunk is under way that starts where the last
\* one ended and has not reached MaxSize.
Loop == i < n => i = start /\ j - start < MaxSize

Chunked == /\ chunks \in Seq([offset : Nat, data : Seq(Byte)])
           /\ TypeOK

IInv == Chunked /\ Loop /\ Tiling /\ SizesBounded

LEMMA InitIInv == Init => IInv
  BY SizeAssumption, ByteAssumption
  DEF Init, IInv, Chunked, TypeOK, Loop, Tiling, SizesBounded, n

LEMMA AppendedTo ==
  ASSUME NEW S, NEW s \in Seq(S), NEW e \in S, NEW t, t = Append(s, e)
  PROVE  /\ Len(s) \in Nat /\ Len(t) = Len(s) + 1
         /\ DOMAIN s = 1 .. Len(s) /\ DOMAIN t = 1 .. Len(s) + 1
         /\ t[Len(s) + 1] = e
         /\ \A k \in 1 .. Len(s) : t[k] = s[k]
         /\ t \in Seq(S)
         /\ t # <<>>
  OBVIOUS

\* What appending the chunk from start to end adds to the list.
LEMMA AppendFacts ==
  ASSUME NEW end \in Nat, IInv, i < n, start < end, end <= n,
         end - start <= MaxSize,
         chunks' = Append(chunks, make_chunk(start, end)), i' = end, data' = data,
         end - start < MinSize => end = n
  PROVE  /\ Tiling' /\ SizesBounded'
         /\ chunks' \in Seq([offset : Nat, data : Seq(Byte)])
         /\ \A k \in DOMAIN chunks' :
               chunks'[k].offset \in 0 .. n /\ chunks'[k].data \in Seq(Byte)
<1> DEFINE c == make_chunk(start, end)
           S == [offset : Nat, data : Seq(Byte)]
           t == chunks'
<1>1. /\ data \in Seq(Byte) /\ start \in Nat /\ end \in Nat /\ i = start /\ n = Len(data) /\ n \in Nat
      /\ chunks \in Seq([offset : Nat, data : Seq(Byte)]) /\ n' = n
  BY DEF IInv, Chunked, TypeOK, Loop, n
<1>2. /\ c.data \in Seq(Byte) /\ Len(c.data) = end - start
      /\ c.offset = start /\ c.data = SubSeq(data, start + 1, end)
      /\ c \in [offset : Nat, data : Seq(Byte)]
  BY <1>1 DEF make_chunk
<1>3. EndOf(c) = end /\ t = Append(chunks, c) /\ chunks \in Seq(S) /\ c \in S
  BY <1>1, <1>2 DEF EndOf
<1>4. HIDE DEF c, S, t
<1>5. /\ Len(chunks) \in Nat /\ Len(t) = Len(chunks) + 1
      /\ DOMAIN chunks = 1 .. Len(chunks) /\ DOMAIN t = 1 .. Len(chunks) + 1
      /\ t[Len(chunks) + 1] = c
      /\ \A k \in 1 .. Len(chunks) : t[k] = chunks[k]
      /\ t \in Seq(S)
      /\ t # <<>>
  BY <1>3, AppendedTo
<1>6. start = IF Len(chunks) = 0 THEN 0 ELSE EndOf(chunks[Len(chunks)])
  BY <1>1 DEF IInv, Tiling
<1>7. Tiling'
  <2>1. ASSUME NEW k \in DOMAIN t
        PROVE  /\ t[k].data = SubSeq(data', t[k].offset + 1, EndOf(t[k]))
               /\ t[k].offset = IF k = 1 THEN 0 ELSE EndOf(t[k - 1])
    <3>1. CASE k \in 1 .. Len(chunks)
      BY <1>5, <2>1, <3>1 DEF IInv, Tiling
    <3>2. CASE k = Len(chunks) + 1
      <4>1. t[k] = c /\ (k # 1 => t[k - 1] = chunks[Len(chunks)])
        BY <1>5, <3>2
      <4>2. t[k].data = SubSeq(data', t[k].offset + 1, EndOf(t[k]))
        BY <4>1, <1>2, <1>3
      <4>3. k = 1 <=> Len(chunks) = 0
        BY <1>5, <3>2
      <4>4. t[k].offset = IF k = 1 THEN 0 ELSE EndOf(t[k - 1])
        BY <4>1, <4>3, <1>2, <1>6
      <4>5. QED
        BY <4>2, <4>4
    <3>3. QED
      BY <1>5, <3>1, <3>2
  <2>2. i' = EndOf(t[Len(t)])
    BY <1>3, <1>5
  <2>3. QED
    BY <1>5, <2>1, <2>2 DEF Tiling, EndOf, t
<1>8. SizesBounded'
  <2>1. ASSUME NEW k \in DOMAIN t
        PROVE  /\ Len(t[k].data) \in 1 .. MaxSize
               /\ Len(t[k].data) < MinSize => k = Len(t) /\ i' = n'
    <3>1. CASE k \in 1 .. Len(chunks)
      <4>1. Len(chunks[k].data) \in 1 .. MaxSize /\ ~ (Len(chunks[k].data) < MinSize)
        BY <1>1, <1>5, <3>1 DEF IInv, SizesBounded, Returned
      <4>2. QED
        BY <1>5, <3>1, <4>1
    <3>2. CASE k = Len(chunks) + 1
      BY <1>1, <1>2, <1>5, <3>2, SizeAssumption
    <3>3. QED
      BY <1>5, <3>1, <3>2
  <2>2. QED
    BY <2>1 DEF SizesBounded, Returned, t
<1>9. \A k \in DOMAIN t :
         t[k].offset \in 0 .. n /\ t[k].data \in Seq(Byte)
  <2>1. \A k \in DOMAIN chunks : chunks[k].offset \in 0 .. n /\ chunks[k].data \in Seq(Byte)
    BY DEF IInv, Chunked, TypeOK
  <2>2. c.offset \in 0 .. n /\ c.data \in Seq(Byte)
    BY <1>1, <1>2
  <2>3. QED
    BY <1>5, <2>1, <2>2
<1>10. QED
  BY <1>5, <1>7, <1>8, <1>9 DEF t, S

LEMMA StepIInv == IInv /\ [Next]_vars => IInv'
<1> SUFFICES ASSUME IInv, [Next]_vars PROVE IInv'
  OBVIOUS
<1>1. /\ data \in Seq(Byte) /\ n = Len(data) /\ n \in Nat
      /\ start \in 0 .. n /\ i \in 0 .. n /\ j \in start .. n /\ hash \in Nat
      /\ i < n => i = start /\ j - start < MaxSize
  BY DEF IInv, Chunked, TypeOK, Loop, n
<1>2. ASSUME j < n PROVE roll(hash, data[j + 1]) \in Nat
  <2>1. data[j + 1] \in Byte
    BY <1>1, <1>2
  <2>2. 2 * hash + GEAR_TABLE[data[j + 1]] \in Nat
    BY <1>1, <2>1, ByteAssumption
  <2>3. 2 ^ HashWidth \in Nat \ {0}
    BY PowerType, ByteAssumption
  <2>4. QED
    BY <2>2, <2>3 DEF roll
<1>3. CASE Roll
  <2>1. /\ j < n /\ i < n /\ j' = j + 1 /\ hash' \in Nat
        /\ data' = data /\ start' = start /\ i' = i /\ chunks' = chunks /\ n' = n
    BY <1>2, <1>3 DEF Roll, n
  <2>2. j - start + 1 < MaxSize
    BY <1>1, <1>3, SizeAssumption DEF Roll, CutHere
  <2>3. Tiling' /\ SizesBounded'
    BY <2>1 DEF IInv, Tiling, SizesBounded, Returned, EndOf
  <2>4. Chunked' /\ Loop'
    BY <1>1, <2>1, <2>2 DEF IInv, Chunked, TypeOK, Loop
  <2>5. QED
    BY <2>3, <2>4 DEF IInv
<1>4. CASE Cut
  <2>1. /\ j < n /\ i < n /\ j' = j + 1 /\ start' = j + 1 /\ i' = j + 1 /\ hash' = 0
        /\ data' = data /\ n' = n /\ chunks' = Append(chunks, make_chunk(start, j + 1))
        /\ CutHere(j - start + 1, roll(hash, data[j + 1]))
    BY <1>4 DEF Cut, CutAndGoOn, n
  <2>2. ~ ((j + 1) - start < MinSize)
    BY <1>1, <2>1, SizeAssumption DEF CutHere
  <2>3. /\ Tiling' /\ SizesBounded'
        /\ chunks' \in Seq([offset : Nat, data : Seq(Byte)])
        /\ \A k \in DOMAIN chunks' :
               chunks'[k].offset \in 0 .. n /\ chunks'[k].data \in Seq(Byte)
    <3>1. j + 1 \in Nat /\ start < j + 1 /\ j + 1 <= n /\ (j + 1) - start <= MaxSize
      BY <1>1, <2>1, SizeAssumption
    <3>2. QED
      BY <2>1, <2>2, <3>1, AppendFacts
  <2>4. Chunked' /\ Loop'
    BY <1>1, <2>1, <2>3, SizeAssumption DEF Chunked, TypeOK, Loop
  <2>5. QED
    BY <2>3, <2>4 DEF IInv
<1>5. CASE Finish
  <2>1. /\ j = n /\ i < n /\ j' = j /\ start' = start /\ i' = n /\ hash' = hash
        /\ data' = data /\ n' = n /\ chunks' = Append(chunks, make_chunk(start, n))
    BY <1>5 DEF Finish, n
  <2>2. /\ Tiling' /\ SizesBounded'
        /\ chunks' \in Seq([offset : Nat, data : Seq(Byte)])
        /\ \A k \in DOMAIN chunks' :
               chunks'[k].offset \in 0 .. n /\ chunks'[k].data \in Seq(Byte)
    <3>1. /\ n \in Nat /\ start < n /\ n <= n /\ n - start <= MaxSize
          /\ n - start < MinSize => n = n
      BY <1>1, <2>1, SizeAssumption
    <3>2. QED
      BY <2>1, <3>1, AppendFacts
  <2>3. Chunked' /\ Loop'
    BY <1>1, <2>1, <2>2 DEF Chunked, TypeOK, Loop
  <2>4. QED
    BY <2>2, <2>3 DEF IInv
<1>6. CASE UNCHANGED vars
  BY <1>6 DEF vars, IInv, Chunked, TypeOK, Loop, Tiling, SizesBounded, Returned, EndOf, n
<1>7. QED
  BY <1>3, <1>4, <1>5, <1>6 DEF Next

\* The chunks of a file, put back to back, are the file: at every moment they
\* tile the part of it that the outer loop of Chunker::chunk has passed.
THEOREM TilingHolds == Spec => []Tiling
<1>1. IInv => Tiling
  BY DEF IInv
<1>2. QED
  BY <1>1, InitIInv, StepIInv, PTL DEF Spec

\* Chunker::chunk never emits an empty chunk or one above max_size_, and only
\* the last chunk of a file may be shorter than min_size_.
THEOREM SizesBoundedHolds == Spec => []SizesBounded
<1>1. IInv => SizesBounded
  BY DEF IInv
<1>2. QED
  BY <1>1, InitIInv, StepIInv, PTL DEF Spec

-----------------------------------------------------------------------------
(* Arithmetic.                                                              *)

LEMMA DivMod ==
  ASSUME NEW x \in Nat, NEW m \in Nat \ {0}
  PROVE  x \div m \in Nat /\ x % m \in Nat /\ x % m < m /\ x = (x \div m) * m + (x % m)
  OBVIOUS

LEMMA Larger ==
  ASSUME NEW m \in Nat \ {0}, NEW q \in Nat, NEW p \in Nat, q < p
  PROVE  q * m + m <= p * m
<1>1. DEFINE d == p - (q + 1)
<1>2. d \in Nat /\ p = q + 1 + d
  OBVIOUS
<1>3. HIDE DEF d
<1>4. p * m = q * m + m + d * m /\ d * m \in Nat /\ q * m \in Nat
  BY <1>2
<1>5. QED
  BY <1>4

LEMMA ModUnique ==
  ASSUME NEW m \in Nat \ {0}, NEW q \in Nat, NEW r \in Nat, r < m
  PROVE  (q * m + r) % m = r
<1>1. DEFINE x == q * m + r
             p == x \div m
             t == x % m
<1>2. x \in Nat
  OBVIOUS
<1>3. p \in Nat /\ t \in Nat /\ t < m /\ x = p * m + t
  <2>1. HIDE DEF x
  <2>2. QED
    BY <1>2, DivMod
<1>4. HIDE DEF p, t
<1>5. q * m \in Nat /\ p * m \in Nat /\ q * m + r = p * m + t
  BY <1>3
<1>6. ~ (q < p)
  BY <1>3, <1>5, Larger
<1>7. ~ (p < q)
  BY <1>3, <1>5, Larger
<1>8. t = r
  BY <1>3, <1>5, <1>6, <1>7
<1>9. QED
  BY <1>8 DEF t, x

LEMMA ModAdd ==
  ASSUME NEW x \in Nat, NEW y \in Nat, NEW m \in Nat \ {0}
  PROVE  (x + y * m) % m = x % m
<1>1. DEFINE q == x \div m
             r == x % m
<1>2. q \in Nat /\ r \in Nat /\ r < m /\ x = q * m + r
  BY DivMod
<1>3. HIDE DEF q, r
<1>4. x + y * m = (q + y) * m + r /\ q + y \in Nat
  BY <1>2
<1>5. ((q + y) * m + r) % m = r
  BY <1>2, <1>4, ModUnique
<1>6. QED
  BY <1>4, <1>5 DEF r

LEMMA ModMod ==
  ASSUME NEW x \in Nat, NEW m \in Nat \ {0}, NEW c \in Nat \ {0}
  PROVE  (x % (m * c)) % m = x % m
<1>1. DEFINE d == m * c
             q == x \div d
             r == x % d
<1>2. d \in Nat \ {0}
  OBVIOUS
<1>3. q \in Nat /\ r \in Nat /\ x = q * d + r
  <2>1. HIDE DEF d
  <2>2. QED
    BY <1>2, DivMod
<1>4. HIDE DEF q, r
<1>5. x = r + (q * c) * m /\ q * c \in Nat
  BY <1>3
<1>6. (r + (q * c) * m) % m = r % m
  BY <1>3, <1>5, ModAdd
<1>7. QED
  BY <1>5, <1>6 DEF r

LEMMA ModRoll ==
  ASSUME NEW x \in Nat, NEW g \in Nat, NEW m \in Nat \ {0}
  PROVE  (2 * (x % m) + g) % m = (2 * x + g) % m
<1>1. DEFINE q == x \div m
             r == x % m
<1>2. q \in Nat /\ r \in Nat /\ x = q * m + r
  BY DivMod
<1>3. HIDE DEF q, r
<1>4. 2 * x + g = (2 * r + g) + (2 * q) * m /\ 2 * r + g \in Nat /\ 2 * q \in Nat
  BY <1>2
<1>5. ((2 * r + g) + (2 * q) * m) % m = (2 * r + g) % m
  BY <1>4, ModAdd
<1>6. QED
  BY <1>4, <1>5 DEF r

-----------------------------------------------------------------------------
(* The hash of a chunk.                                                     *)

M == 2 ^ mask_bits

\* What k places from the end of s counts.
Weight(s, k) == GEAR_TABLE[s[Len(s) - k + 1]] * 2 ^ (k - 1)

LEMMA MaskFacts ==
  /\ mask_bits \in Nat /\ M \in Nat \ {0}
  /\ \A k \in 1 .. mask_bits : 2 ^ (k - 1) \in Nat \ {0} /\ 2 ^ k = 2 * 2 ^ (k - 1)
  /\ \E c \in Nat \ {0} : 2 ^ HashWidth = M * c
<1>1. HashWidth \in Nat /\ mask_bits \in Nat /\ mask_bits <= HashWidth
  BY MaskAssumption, ByteAssumption
<1>2. M \in Nat \ {0}
  BY <1>1, PowerType DEF M
<1>3. ASSUME NEW k \in 1 .. mask_bits
      PROVE  2 ^ (k - 1) \in Nat \ {0} /\ 2 ^ k = 2 * 2 ^ (k - 1)
  <2>1. k \in 1 .. HashWidth /\ k - 1 \in 0 .. HashWidth
    BY <1>1
  <2>2. QED
    BY <2>1, PowerType, PowerLaw
<1>4. \E c \in Nat \ {0} : 2 ^ HashWidth = M * c
  <2>1. DEFINE up == HashWidth - mask_bits
               S == {k \in 0 .. up : \E c \in Nat \ {0} : 2 ^ (mask_bits + k) = M * c}
  <2>2. up \in Nat /\ mask_bits + up = HashWidth
    BY <1>1
  <2>3. 0 \in S
    <3>1. mask_bits + 0 = mask_bits /\ M * 1 = M /\ 1 \in Nat \ {0} /\ 0 \in 0 .. up
      BY <1>1, <1>2
    <3>2. QED
      BY <3>1 DEF M
  <2>4. ASSUME NEW k \in 1 .. up, k - 1 \in S
        PROVE  k \in S
    <3>1. PICK c \in Nat \ {0} : 2 ^ (mask_bits + (k - 1)) = M * c
      BY <2>4
    <3>2. mask_bits + k \in 1 .. HashWidth /\ (mask_bits + k) - 1 = mask_bits + (k - 1) /\ k \in 0 .. up
      BY <1>1
    <3>3. 2 ^ (mask_bits + k) = 2 * (M * c)
      BY <3>1, <3>2, PowerLaw
    <3>4. 2 * (M * c) = M * (2 * c) /\ 2 * c \in Nat \ {0}
      BY <1>2
    <3>5. QED
      BY <3>2, <3>3, <3>4
  <2>5. up \in S
    <3>1. up \in 0 .. up
      BY <2>2
    <3>2. HIDE DEF S, up
    <3>3. QED
      BY <2>2, <2>3, <2>4, <3>1, UpToBound
  <2>6. QED
    BY <2>2, <2>5
<1>5. QED
  BY <1>1, <1>2, <1>3, <1>4

LEMMA RecentFacts ==
  ASSUME NEW s \in Seq(Byte)
  PROVE  /\ Len(s) \in Nat /\ Recent(s) \in Nat /\ Recent(s) <= mask_bits /\ Recent(s) <= Len(s)
         /\ \A k \in 1 .. Recent(s) : Weight(s, k) \in Nat
<1>1. /\ Len(s) \in Nat /\ Recent(s) \in Nat /\ Recent(s) <= mask_bits /\ Recent(s) <= Len(s)
  BY MaskFacts DEF Recent
<1>2. ASSUME NEW k \in 1 .. Recent(s)
      PROVE  Weight(s, k) \in Nat
  <2>1. Len(s) - k + 1 \in 1 .. Len(s) /\ k \in 1 .. mask_bits
    BY <1>1, MaskFacts
  <2>2. GEAR_TABLE[s[Len(s) - k + 1]] \in Nat /\ 2 ^ (k - 1) \in Nat
    <3>1. s[Len(s) - k + 1] \in Byte
      BY <2>1
    <3>2. GEAR_TABLE[s[Len(s) - k + 1]] \in Nat
      BY <3>1, ByteAssumption
    <3>3. 2 ^ (k - 1) \in Nat
      BY <2>1, MaskFacts
    <3>4. QED
      BY <3>2, <3>3
  <2>3. QED
    BY <2>2 DEF Weight
<1>3. QED
  BY <1>1, <1>2

LEMMA WeightsFacts ==
  ASSUME NEW s \in Seq(Byte)
  PROVE  /\ \A k \in 0 .. Recent(s) : Weights(s)[k] \in Nat
         /\ Weights(s)[0] = 0
         /\ \A k \in 1 .. Recent(s) : Weights(s)[k] = Weights(s)[k - 1] + Weight(s, k)
<1>1. DEFINE R == Recent(s)
             u == Weights(s)
             g == [k \in 1 .. R |-> Weight(s, k)]
<1>2. R \in Nat /\ \A k \in 1 .. R : g[k] \in Nat /\ g[k] = Weight(s, k)
  BY RecentFacts
<1>3. HIDE DEF g
<1>4. PICK f \in [0 .. R -> Nat] : f[0] = 0 /\ \A k \in 1 .. R : f[k] = f[k - 1] + g[k]
  <2>1. HIDE DEF R
  <2>2. QED
    BY <1>2, SumsExist
<1>5. f = [k \in 0 .. R |-> IF k = 0 THEN 0 ELSE f[k - 1] + Weight(s, k)]
  <2>1. ASSUME NEW k \in 0 .. R
        PROVE  f[k] = IF k = 0 THEN 0 ELSE f[k - 1] + Weight(s, k)
    <3>1. CASE k = 0
      BY <1>4, <3>1
    <3>2. CASE k # 0
      <4>1. k \in 1 .. R
        BY <1>2, <3>2
      <4>2. QED
        BY <1>2, <1>4, <3>2, <4>1
    <3>3. QED
      BY <3>1, <3>2
  <2>2. QED
    BY <2>1
<1>6. u = [k \in 0 .. R |-> IF k = 0 THEN 0 ELSE u[k - 1] + Weight(s, k)]
  BY <1>5, Zenon DEF Weights, Weight
<1>7. HIDE DEF u, R
<1>8. u[0] = 0 /\ \A k \in 1 .. R : u[k] = u[k - 1] + Weight(s, k)
  <2>1. 0 \in 0 .. R /\ \A k \in 1 .. R : k \in 0 .. R /\ k # 0
    BY <1>2
  <2>2. QED
    BY <1>6, <2>1
<1>9. \A k \in 0 .. R : u[k] \in Nat
  <2>1. DEFINE S == {k \in 0 .. R : u[k] \in Nat}
  <2>2. 0 \in S
    BY <1>2, <1>8
  <2>3. ASSUME NEW k \in 1 .. R, k - 1 \in S
        PROVE  k \in S
    <3>1. u[k - 1] \in Nat /\ Weight(s, k) \in Nat /\ k \in 0 .. R
      BY <1>2, <2>3
    <3>2. QED
      BY <1>8, <3>1
  <2>4. \A k \in 0 .. R : k \in S
    <3>1. HIDE DEF S
    <3>2. QED
      BY <1>2, <2>2, <2>3, UpToBound
  <2>5. QED
    BY <2>4
<1>10. QED
  BY <1>8, <1>9 DEF u, R

\* One more byte: the sum is doubled, and what is then beyond the mask is lost.
LEMMA LowBitsRoll ==
  ASSUME NEW s \in Seq(Byte), NEW v \in Byte
  PROVE  /\ LowBits(s) \in Nat
         /\ LowBits(Append(s, v)) = (2 * LowBits(s) + GEAR_TABLE[v]) % M
<1>1. DEFINE t == Append(s, v)
             x == Weights(s)
             y == Weights(t)
             gv == GEAR_TABLE[v]
<1>2. /\ t \in Seq(Byte) /\ Len(s) \in Nat /\ Len(t) = Len(s) + 1 /\ t[Len(s) + 1] = v
      /\ \A k \in 1 .. Len(s) : t[k] = s[k]
  OBVIOUS
<1>3. gv \in Nat
  BY ByteAssumption
<1>4. HIDE DEF t, gv
<1>5. /\ \A k \in 0 .. Recent(s) : x[k] \in Nat
      /\ x[0] = 0
      /\ \A k \in 1 .. Recent(s) : x[k] = x[k - 1] + Weight(s, k)
  BY WeightsFacts
<1>6. /\ \A k \in 0 .. Recent(t) : y[k] \in Nat
      /\ y[0] = 0
      /\ \A k \in 1 .. Recent(t) : y[k] = y[k - 1] + Weight(t, k)
  BY <1>2, WeightsFacts
<1>7. HIDE DEF x, y
<1>8. /\ Recent(s) \in Nat /\ Recent(s) <= mask_bits /\ Recent(s) <= Len(s)
      /\ Recent(t) \in Nat /\ Recent(t) <= mask_bits /\ Recent(t) <= Recent(s) + 1
      /\ \A k \in 1 .. Recent(s) : Weight(s, k) \in Nat
  <2>1. /\ Recent(s) \in Nat /\ Recent(s) <= mask_bits /\ Recent(s) <= Len(s)
        /\ Recent(t) \in Nat /\ Recent(t) <= mask_bits
        /\ \A k \in 1 .. Recent(s) : Weight(s, k) \in Nat
    BY <1>2, RecentFacts
  <2>2. Recent(t) <= Recent(s) + 1
    BY <1>2, MaskFacts DEF Recent
  <2>3. QED
    BY <2>1, <2>2
<1>9. ASSUME NEW k \in 2 .. Recent(t)
      PROVE  Weight(t, k) = 2 * Weight(s, k - 1)
  <2>1. /\ Len(t) - k + 1 = Len(s) - (k - 1) + 1 /\ Len(t) - k + 1 \in 1 .. Len(s)
        /\ k - 1 \in 1 .. mask_bits /\ k - 1 \in 1 .. Recent(s)
    BY <1>2, <1>8, MaskFacts
  <2>2. t[Len(t) - k + 1] = s[Len(s) - (k - 1) + 1]
    BY <1>2, <2>1
  <2>3. DEFINE g == GEAR_TABLE[s[Len(s) - (k - 1) + 1]]
               w == 2 ^ (k - 1 - 1)
  <2>4. g \in Nat
    BY <2>1, ByteAssumption
  <2>5. w \in Nat /\ 2 ^ (k - 1) = 2 * w
    BY <2>1, MaskFacts
  <2>6. Weight(t, k) = g * 2 ^ (k - 1) /\ Weight(s, k - 1) = g * w
    BY <2>2 DEF Weight
  <2>7. HIDE DEF g, w
  <2>8. g * (2 * w) = 2 * (g * w)
    BY <2>4, <2>5
  <2>9. QED
    BY <2>5, <2>6, <2>8
<1>10. \A k \in 1 .. Recent(t) : y[k] = 2 * x[k - 1] + gv
  <2>1. DEFINE S == {k \in 0 .. Recent(t) : k = 0 \/ y[k] = 2 * x[k - 1] + gv}
  <2>2. 0 \in S
    BY <1>8
  <2>3. ASSUME NEW k \in 1 .. Recent(t), k - 1 \in S
        PROVE  k \in S
    <3>1. k \in 0 .. Recent(t) /\ k \in 1 .. mask_bits
      BY <1>8, MaskFacts
    <3>2. CASE k = 1
      <4>1. Len(t) - 1 + 1 = Len(s) + 1
        BY <1>2
      <4>2. Weight(t, 1) = gv * 2 ^ (1 - 1)
        BY <1>2, <4>1 DEF Weight, gv
      <4>3. 2 ^ (1 - 1) = 1 /\ gv * 1 = gv
        BY <1>3, PowerLaw
      <4>4. y[1] = y[1 - 1] + Weight(t, 1) /\ y[1 - 1] = 0 /\ x[1 - 1] = 0
        BY <1>5, <1>6, <3>2
      <4>5. y[1] = 2 * x[1 - 1] + gv
        BY <1>3, <4>2, <4>3, <4>4
      <4>6. QED
        BY <3>1, <3>2, <4>5
    <3>3. CASE k # 1
      <4>1. k \in 2 .. Recent(t) /\ k - 1 \in 1 .. Recent(s) /\ k - 2 \in 0 .. Recent(s)
            /\ k - 1 - 1 = k - 2 /\ k - 1 # 0 /\ k - 1 \in 0 .. Recent(s)
        BY <1>8, <3>3
      <4>2. y[k - 1] = 2 * x[k - 2] + gv
        BY <2>3, <4>1
      <4>3. y[k] = y[k - 1] + 2 * Weight(s, k - 1)
        BY <1>6, <1>9, <4>1
      <4>4. x[k - 1] = x[k - 2] + Weight(s, k - 1) /\ x[k - 2] \in Nat /\ Weight(s, k - 1) \in Nat
        BY <1>5, <1>8, <4>1
      <4>5. y[k] = 2 * x[k - 1] + gv
        BY <1>3, <4>2, <4>3, <4>4
      <4>6. QED
        BY <3>1, <4>5
    <3>4. QED
      BY <3>2, <3>3
  <2>4. \A k \in 0 .. Recent(t) : k \in S
    <3>1. HIDE DEF S
    <3>2. QED
      BY <1>8, <2>2, <2>3, UpToBound
  <2>5. ASSUME NEW k \in 1 .. Recent(t)
        PROVE  y[k] = 2 * x[k - 1] + gv
    <3>1. k \in 0 .. Recent(t) /\ k # 0
      BY <1>8
    <3>2. QED
      BY <2>4, <3>1
  <2>6. QED
    BY <2>5
<1>11. DEFINE X == x[Recent(s)]
<1>12. X \in Nat /\ LowBits(s) = X % M /\ LowBits(t) = y[Recent(t)] % M /\ M \in Nat \ {0}
  BY <1>5, <1>8, MaskFacts DEF LowBits, M, x, y
<1>13. (2 * (X % M) + gv) % M = (2 * X + gv) % M
  <2>1. HIDE DEF X
  <2>2. QED
    BY <1>3, <1>12, ModRoll
<1>14. y[Recent(t)] % M = (2 * X + gv) % M
  <2>1. CASE Len(s) < mask_bits
    <3>1. Recent(t) = Recent(s) + 1 /\ Recent(t) \in 1 .. Recent(t) /\ Recent(t) - 1 = Recent(s)
      BY <1>2, <1>8, <2>1, MaskFacts DEF Recent
    <3>2. QED
      BY <1>10, <3>1
  <2>2. CASE ~ (Len(s) < mask_bits) /\ mask_bits = 0
    <3>1. M = 1 /\ Recent(t) \in 0 .. Recent(t)
      BY <1>8, <2>2, PowerLaw DEF M
    <3>2. y[Recent(t)] \in Nat /\ 2 * X + gv \in Nat
      BY <1>3, <1>6, <1>12, <3>1
    <3>3. \A z \in Nat : z % 1 = 0
      OBVIOUS
    <3>4. QED
      BY <3>1, <3>2, <3>3
  <2>3. CASE ~ (Len(s) < mask_bits) /\ mask_bits # 0
    <3>1. Recent(t) = mask_bits /\ Recent(s) = mask_bits /\ mask_bits \in 1 .. mask_bits
          /\ mask_bits - 1 \in 0 .. mask_bits
      BY <1>2, <2>3, MaskFacts DEF Recent
    <3>2. DEFINE p == x[mask_bits - 1]
                 l == Len(s) - mask_bits + 1
                 g == GEAR_TABLE[s[l]]
                 w == 2 ^ (mask_bits - 1)
    <3>3. p \in Nat /\ X = p + Weight(s, mask_bits) /\ y[Recent(t)] = 2 * p + gv
      BY <1>5, <1>10, <3>1
    <3>4. w \in Nat /\ M = 2 * w
      BY <3>1, MaskFacts DEF M
    <3>5. l \in 1 .. Len(s)
      BY <1>2, <2>3, MaskFacts
    <3>6. g \in Nat /\ Weight(s, mask_bits) = g * w
      <4>1. g \in Nat
        BY <3>5, ByteAssumption
      <4>2. QED
        BY <4>1 DEF Weight
    <3>7. HIDE DEF p, g, w, X
    <3>8. 2 * X + gv = 2 * p + gv + g * M
      BY <1>3, <3>3, <3>4, <3>6
    <3>9. 2 * p + gv \in Nat
      BY <1>3, <3>3
    <3>10. (2 * p + gv + g * M) % M = (2 * p + gv) % M
      BY <1>12, <3>6, <3>9, ModAdd
    <3>11. QED
      BY <3>3, <3>8, <3>10
  <2>4. QED
    BY <2>1, <2>2, <2>3
<1>15. X % M \in Nat
  BY <1>12
<1>16. QED
  BY <1>12, <1>13, <1>14, <1>15 DEF t, gv

\* The rolling hash agrees with that sum, whatever its width.
LEMMA RollIsSum ==
  ASSUME NEW s \in Seq(Byte), NEW v \in Byte, NEW h \in Nat, h % M = LowBits(s)
  PROVE  roll(h, v) \in Nat /\ roll(h, v) % M = LowBits(Append(s, v))
<1>1. DEFINE x == 2 * h + GEAR_TABLE[v]
<1>2. x \in Nat /\ GEAR_TABLE[v] \in Nat /\ M \in Nat \ {0}
  BY ByteAssumption, MaskFacts
<1>3. PICK c \in Nat \ {0} : 2 ^ HashWidth = M * c
  BY MaskFacts
<1>4. roll(h, v) = x % (M * c)
  BY <1>3 DEF roll
<1>5. x % M = (2 * LowBits(s) + GEAR_TABLE[v]) % M
  <2>1. DEFINE gv == GEAR_TABLE[v]
  <2>2. gv \in Nat
    BY <1>2
  <2>3. HIDE DEF gv
  <2>4. (2 * (h % M) + gv) % M = (2 * h + gv) % M
    BY <1>2, <2>2, ModRoll
  <2>5. QED
    BY <2>4 DEF gv
<1>6. HIDE DEF x
<1>7. x % (M * c) \in Nat
  <2>1. M * c \in Nat \ {0}
    BY <1>2
  <2>2. QED
    BY <1>2, <2>1
<1>8. (x % (M * c)) % M = x % M
  BY <1>2, ModMod
<1>9. QED
  BY <1>4, <1>5, <1>7, <1>8, LowBitsRoll

-----------------------------------------------------------------------------
(* Where chunks end.                                                        *)

\* A chunk that begins at from has a reason to end after w bytes.
CutAt(from, w) == (w >= MinSize /\ LowBits(SubSeq(data, from + 1, from + w)) = 0) \/ w >= MaxSize

\* The hash is that of the chunk under way, which has passed no boundary.
Under == i < n => /\ hash % M = LowBits(SubSeq(data, start + 1, j))
                  /\ \A w \in 1 .. j - start : ~ CutAt(start, w)

CInv == IInv /\ Under /\ ContentDefined

LEMMA PieceOfPiece ==
  ASSUME NEW d \in Seq(Byte), NEW from \in Nat, NEW end \in Nat, from < end, end <= Len(d),
         NEW w \in 1 .. end - from
  PROVE  SubSeq(SubSeq(d, from + 1, end), 1, w) = SubSeq(d, from + 1, from + w)
<1>1. DEFINE s == SubSeq(d, from + 1, end)
             x == SubSeq(s, 1, w)
             y == SubSeq(d, from + 1, from + w)
<1>2. s \in Seq(Byte) /\ Len(s) = end - from /\ w \in Nat /\ Len(d) \in Nat
  OBVIOUS
<1>3. \A k \in 1 .. end - from : s[k] = d[from + k]
  OBVIOUS
<1>4. y \in Seq(Byte) /\ Len(y) = w
  BY <1>2
<1>5. \A k \in 1 .. w : y[k] = d[from + k]
  BY <1>2
<1>6. HIDE DEF s, y
<1>7. x \in Seq(Byte) /\ Len(x) = w /\ \A k \in 1 .. w : x[k] = s[k]
  BY <1>2
<1>8. HIDE DEF x
<1>9. ASSUME NEW k \in 1 .. w
      PROVE  x[k] = y[k]
  <2>1. k \in 1 .. end - from
    BY <1>2
  <2>2. QED
    BY <1>3, <1>5, <1>7, <2>1
<1>10. x = [k \in 1 .. w |-> x[k]] /\ y = [k \in 1 .. w |-> y[k]]
  BY <1>4, <1>7
<1>11. x = y
  BY <1>9, <1>10
<1>12. QED
  BY <1>11 DEF x, y, s

LEMMA OneByteMore ==
  ASSUME NEW d \in Seq(Byte), NEW from \in Nat, NEW end \in Nat, from <= end, end < Len(d)
  PROVE  /\ SubSeq(d, from + 1, end) \in Seq(Byte) /\ d[end + 1] \in Byte
         /\ SubSeq(d, from + 1, end + 1) = Append(SubSeq(d, from + 1, end), d[end + 1])
<1>1. DEFINE s == SubSeq(d, from + 1, end)
             t == SubSeq(d, from + 1, end + 1)
             l == end - from
<1>2. l \in Nat /\ d[end + 1] \in Byte /\ Len(d) \in Nat
  OBVIOUS
<1>3. s \in Seq(Byte) /\ Len(s) = l
  BY <1>2
<1>4. \A k \in 1 .. l : s[k] = d[from + k]
  BY <1>2
<1>5. t \in Seq(Byte) /\ Len(t) = l + 1
  BY <1>2
<1>6. \A k \in 1 .. l + 1 : t[k] = d[from + k]
  BY <1>2
<1>7. HIDE DEF s, t
<1>8. DEFINE u == Append(s, d[end + 1])
<1>9. u \in Seq(Byte) /\ Len(u) = l + 1 /\ u[l + 1] = d[end + 1] /\ \A k \in 1 .. l : u[k] = s[k]
  BY <1>2, <1>3
<1>10. HIDE DEF u
<1>11. ASSUME NEW k \in 1 .. l + 1
       PROVE  t[k] = u[k]
  <2>1. CASE k = l + 1
    <3>1. from + (l + 1) = end + 1
      OBVIOUS
    <3>2. QED
      BY <1>6, <1>9, <2>1, <3>1
  <2>2. CASE k # l + 1
    <3>1. k \in 1 .. l
      BY <1>2, <2>2
    <3>2. QED
      BY <1>4, <1>6, <1>9, <3>1
  <2>3. QED
    BY <2>1, <2>2
<1>12. t = [k \in 1 .. l + 1 |-> t[k]] /\ u = [k \in 1 .. l + 1 |-> u[k]]
  BY <1>5, <1>9
<1>13. t = u
  BY <1>11, <1>12
<1>14. QED
  BY <1>2, <1>3, <1>13 DEF s, t, u

LEMMA NothingYet == LowBits(<<>>) = 0
<1>1. <<>> \in Seq(Byte) /\ Len(<<>>) = 0
  OBVIOUS
<1>2. Recent(<<>>) = 0
  BY <1>1, MaskFacts DEF Recent
<1>3. Weights(<<>>)[0] = 0
  BY <1>1, WeightsFacts
<1>4. 0 % M = 0
  BY MaskFacts
<1>5. QED
  BY <1>2, <1>3, <1>4 DEF LowBits, M

\* The chunk that is appended ends at its first boundary, or with the file.
LEMMA ChunkAdded ==
  ASSUME IInv, ContentDefined, NEW end \in Nat, start < end, end <= n, data' = data,
         chunks' = Append(chunks, make_chunk(start, end)),
         \A w \in 1 .. end - start - 1 : ~ CutAt(start, w),
         CutAt(start, end - start) \/ end = n
  PROVE  ContentDefined'
<1>1. DEFINE c == make_chunk(start, end)
             S == [offset : Nat, data : Seq(Byte)]
             t == chunks'
<1>2. /\ data \in Seq(Byte) /\ start \in Nat /\ n = Len(data) /\ n \in Nat
      /\ chunks \in Seq(S) /\ n' = n
  BY DEF IInv, Chunked, TypeOK, n
<1>3. /\ c.data \in Seq(Byte) /\ Len(c.data) = end - start /\ c.offset = start
      /\ c.data = SubSeq(data, start + 1, end) /\ c \in S
  <2>1. DEFINE p == SubSeq(data, start + 1, end)
  <2>2. p \in Seq(Byte) /\ Len(p) = end - start
    BY <1>2
  <2>3. c = [offset |-> start, data |-> p]
    BY DEF make_chunk
  <2>4. HIDE DEF c, p
  <2>5. c.offset = start /\ c.data = p /\ c \in S
    BY <1>2, <2>2, <2>3
  <2>6. c.data = SubSeq(data, start + 1, end)
    BY <2>5 DEF p
  <2>7. QED
    BY <2>2, <2>5, <2>6
<1>4. EndOf(c) = end /\ t = Append(chunks, c)
  BY <1>2, <1>3 DEF EndOf
<1>5. HIDE DEF c, S, t
<1>6. /\ Len(chunks) \in Nat /\ DOMAIN chunks = 1 .. Len(chunks) /\ DOMAIN t = 1 .. Len(chunks) + 1
      /\ t[Len(chunks) + 1] = c /\ \A k \in 1 .. Len(chunks) : t[k] = chunks[k]
  BY <1>2, <1>3, <1>4, AppendedTo
<1>7. ASSUME NEW w \in 1 .. end - start
      PROVE  Boundary(c.data, w) <=> CutAt(start, w)
  <2>1. SubSeq(c.data, 1, w) = SubSeq(data, start + 1, start + w)
    BY <1>2, <1>3, PieceOfPiece
  <2>2. QED
    BY <2>1 DEF Boundary, CutAt
<1>8. DEFINE Fine(ch) == /\ \A w \in 1 .. Len(ch.data) - 1 : ~ Boundary(ch.data, w)
                         /\ Boundary(ch.data, Len(ch.data)) \/ EndOf(ch) = n
<1>9. Fine(c)
  <2>1. \A w \in 1 .. end - start - 1 : w \in 1 .. end - start
    BY <1>2
  <2>2. end - start \in 1 .. end - start
    BY <1>2
  <2>3. QED
    BY <1>3, <1>4, <1>7, <2>1, <2>2
<1>10. \A k \in DOMAIN chunks : Fine(chunks[k])
  BY DEF ContentDefined
<1>11. HIDE DEF Fine
<1>12. \A k \in DOMAIN t : Fine(t[k])
  <2>1. \A k \in 1 .. Len(chunks) + 1 : k \in 1 .. Len(chunks) \/ k = Len(chunks) + 1
    BY <1>6
  <2>2. QED
    BY <1>6, <1>9, <1>10, <2>1
<1>13. QED
  BY <1>2, <1>12 DEF ContentDefined, Fine, t

LEMMA InitCInv == Init => CInv
<1>1. SUFFICES ASSUME Init PROVE CInv
  OBVIOUS
<1>2. IInv
  BY <1>1, InitIInv
<1>3. ContentDefined
  BY <1>1 DEF Init, ContentDefined
<1>4. Under
  <2>1. data \in Seq(Byte) /\ start = 0 /\ j = 0 /\ hash = 0
    BY <1>1, ByteAssumption DEF Init
  <2>2. SubSeq(data, start + 1, j) = <<>>
    BY <2>1
  <2>3. hash % M = 0
    BY <2>1, MaskFacts
  <2>4. 1 .. j - start = {}
    BY <2>1
  <2>5. QED
    BY <2>2, <2>3, <2>4, NothingYet DEF Under
<1>5. QED
  BY <1>2, <1>3, <1>4 DEF CInv

LEMMA StepCInv == CInv /\ [Next]_vars => CInv'
<1>1. SUFFICES ASSUME CInv, [Next]_vars PROVE CInv'
  OBVIOUS
<1>2. IInv /\ Under /\ ContentDefined /\ IInv'
  BY <1>1, StepIInv DEF CInv
<1>3. /\ data \in Seq(Byte) /\ n = Len(data) /\ n \in Nat
      /\ start \in Nat /\ i \in Nat /\ j \in Nat /\ start <= j /\ j <= n /\ hash \in Nat
      /\ i < n => i = start
  BY <1>2 DEF IInv, Chunked, TypeOK, Loop, n
<1>4. DEFINE s == SubSeq(data, start + 1, j)
             h == roll(hash, data[j + 1])
<1>5. ASSUME i < n, j < n
      PROVE  /\ h % M = LowBits(SubSeq(data, start + 1, j + 1))
             /\ CutHere(j - start + 1, h) <=> CutAt(start, j - start + 1)
  <2>1. /\ s \in Seq(Byte) /\ data[j + 1] \in Byte
        /\ SubSeq(data, start + 1, j + 1) = Append(s, data[j + 1])
    BY <1>3, <1>5, OneByteMore
  <2>2. hash % M = LowBits(s)
    BY <1>2, <1>5 DEF Under
  <2>3. h % M = LowBits(SubSeq(data, start + 1, j + 1))
    <3>1. DEFINE v == data[j + 1]
                 g == hash
    <3>2. v \in Byte /\ g \in Nat /\ g % M = LowBits(s)
      BY <1>3, <2>1, <2>2
    <3>3. HIDE DEF s, v, g
    <3>4. roll(g, v) % M = LowBits(Append(s, v))
      BY <2>1, <3>2, RollIsSum
    <3>5. QED
      BY <2>1, <3>4 DEF v, g
  <2>4. start + (j - start + 1) = j + 1
    BY <1>3
  <2>5. HIDE DEF s, h
  <2>6. QED
    BY <2>3, <2>4 DEF CutHere, CutAt, Masked, M
<1>6. HIDE DEF s, h
<1>7. CASE Roll
  <2>1. /\ i < n /\ j < n /\ ~ CutHere(j - start + 1, h) /\ hash' = h /\ j' = j + 1
        /\ data' = data /\ start' = start /\ i' = i /\ chunks' = chunks /\ n' = n
    BY <1>7 DEF Roll, n, h
  <2>2. ~ CutAt(start, j - start + 1) /\ h % M = LowBits(SubSeq(data, start + 1, j + 1))
    BY <1>5, <2>1
  <2>3. ASSUME NEW w \in 1 .. (j + 1) - start
        PROVE  ~ CutAt(start, w)
    <3>1. w \in 1 .. j - start \/ w = j - start + 1
      BY <1>3
    <3>2. QED
      BY <1>2, <2>1, <2>2, <3>1 DEF Under
  <2>4. Under'
    BY <2>1, <2>2, <2>3 DEF Under, CutAt
  <2>5. ContentDefined'
    BY <1>2, <2>1 DEF ContentDefined
  <2>6. QED
    BY <1>2, <2>4, <2>5 DEF CInv
<1>8. CASE Cut
  <2>1. /\ j < n /\ i < n /\ j' = j + 1 /\ start' = j + 1 /\ i' = j + 1 /\ hash' = 0
        /\ data' = data /\ n' = n /\ chunks' = Append(chunks, make_chunk(start, j + 1))
        /\ CutHere(j - start + 1, h)
    BY <1>8 DEF Cut, CutAndGoOn, n, h
  <2>2. CutAt(start, j - start + 1) /\ \A w \in 1 .. j - start : ~ CutAt(start, w)
    BY <1>2, <1>5, <2>1 DEF Under
  <2>3. ContentDefined'
    <3>1. j + 1 \in Nat /\ start < j + 1 /\ j + 1 <= n /\ (j + 1) - start = j - start + 1
          /\ (j + 1) - start - 1 = j - start
      BY <1>3, <2>1
    <3>2. QED
      BY <1>2, <2>1, <2>2, <3>1, ChunkAdded
  <2>4. Under'
    <3>1. SubSeq(data, j + 1 + 1, j + 1) = <<>> /\ 1 .. (j + 1) - (j + 1) = {}
      BY <1>3
    <3>2. 0 % M = 0
      BY MaskFacts
    <3>3. QED
      BY <2>1, <3>1, <3>2, NothingYet DEF Under
  <2>5. QED
    BY <1>2, <2>3, <2>4 DEF CInv
<1>9. CASE Finish
  <2>1. /\ j = n /\ i < n /\ i' = n /\ data' = data /\ n' = n
        /\ chunks' = Append(chunks, make_chunk(start, n))
    BY <1>9 DEF Finish, n
  <2>2. ContentDefined'
    <3>1. start < n /\ n <= n /\ \A w \in 1 .. n - start - 1 : w \in 1 .. j - start
      BY <1>3, <2>1
    <3>2. \A w \in 1 .. n - start - 1 : ~ CutAt(start, w)
      BY <1>2, <2>1, <3>1 DEF Under
    <3>3. QED
      BY <1>2, <1>3, <2>1, <3>1, <3>2, ChunkAdded
  <2>3. Under'
    BY <1>3, <2>1 DEF Under
  <2>4. QED
    BY <1>2, <2>2, <2>3 DEF CInv
<1>10. CASE UNCHANGED vars
  BY <1>2, <1>10 DEF vars, CInv, Under, CutAt, ContentDefined, n
<1>11. QED
  BY <1>1, <1>7, <1>8, <1>9, <1>10 DEF Next

\* Each chunk of Chunker::chunk ends at the first place where the last
\* mask_bits_ of its own bytes, or its size, call for it: for every file, gear
\* table, width of the hash and size limits.
THEOREM ContentDefinedHolds == Spec => []ContentDefined
<1>1. CInv => ContentDefined
  BY DEF CInv
<1>2. QED
  BY <1>1, InitCInv, StepCInv, PTL DEF Spec

-----------------------------------------------------------------------------
(* Two versions of a file.                                                  *)

ChunkRec == [offset : Nat, data : Seq(Byte)]

OffsetOf(cs, k) == IF k = 1 THEN 0 ELSE EndOf(cs[k - 1])

\* c ends at its first boundary, or with a file of length size.
EndsRightly(c, size) ==
  /\ \A w \in 1 .. Len(c.data) - 1 : ~ Boundary(c.data, w)
  /\ Boundary(c.data, Len(c.data)) \/ EndOf(c) = size

\* cs is what Chunker::chunk makes of the file f.
IsChunking(cs, f) ==
  /\ f \in Seq(Byte) /\ cs \in Seq(ChunkRec)
  /\ \A k \in DOMAIN cs :
       /\ cs[k].data = SubSeq(f, cs[k].offset + 1, EndOf(cs[k]))
       /\ cs[k].offset = OffsetOf(cs, k)
       /\ 1 <= Len(cs[k].data) /\ EndOf(cs[k]) <= Len(f)
       /\ EndsRightly(cs[k], Len(f))
  /\ Len(f) = IF cs = <<>> THEN 0 ELSE EndOf(cs[Len(cs)])

LEMMA ChunkFacts ==
  ASSUME NEW f, NEW cs, IsChunking(cs, f), NEW k \in DOMAIN cs
  PROVE  /\ f \in Seq(Byte) /\ Len(f) \in Nat /\ Len(cs) \in Nat /\ DOMAIN cs = 1 .. Len(cs)
         /\ cs[k] \in ChunkRec /\ cs[k].offset \in Nat /\ EndOf(cs[k]) \in Nat
         /\ cs[k].data \in Seq(Byte) /\ Len(cs[k].data) \in Nat /\ 1 <= Len(cs[k].data)
         /\ EndOf(cs[k]) = cs[k].offset + Len(cs[k].data) /\ EndOf(cs[k]) <= Len(f)
         /\ cs[k].offset = OffsetOf(cs, k) /\ EndsRightly(cs[k], Len(f))
         /\ \A m \in 1 .. Len(cs[k].data) : cs[k].data[m] = f[cs[k].offset + m]
<1>1. f \in Seq(Byte) /\ Len(f) \in Nat /\ Len(cs) \in Nat /\ DOMAIN cs = 1 .. Len(cs) /\ cs[k] \in ChunkRec
  BY DEF IsChunking
<1>2. DEFINE c == cs[k]
<1>3. /\ c.data = SubSeq(f, c.offset + 1, EndOf(c)) /\ c.offset = OffsetOf(cs, k)
      /\ 1 <= Len(c.data) /\ EndOf(c) <= Len(f) /\ EndsRightly(c, Len(f))
  BY DEF IsChunking
<1>4. c \in ChunkRec
  BY <1>1
<1>5. HIDE DEF c
<1>6. c.offset \in Nat /\ c.data \in Seq(Byte)
  BY <1>4 DEF ChunkRec
<1>7. EndOf(c) = c.offset + Len(c.data) /\ Len(c.data) \in Nat /\ EndOf(c) \in Nat
  BY <1>6 DEF EndOf
<1>8. \A m \in 1 .. Len(c.data) : c.data[m] = f[c.offset + m]
  <2>1. DEFINE d == c.data
               o == c.offset
               e == EndOf(c)
  <2>2. o \in Nat /\ d \in Seq(Byte) /\ e = o + Len(d) /\ e <= Len(f) /\ d = SubSeq(f, o + 1, e) /\ e \in Nat
    BY <1>3, <1>6, <1>7
  <2>3. HIDE DEF d, o, e
  <2>4. ASSUME NEW m \in 1 .. Len(d)
        PROVE  d[m] = f[o + m]
    <3>1. m \in 1 .. e - (o + 1) + 1 /\ o + m = (o + 1) + m - 1 /\ Len(d) \in Nat
      BY <2>2
    <3>2. SubSeq(f, o + 1, e)[m] = f[o + m]
      BY <1>1, <2>2, <3>1
    <3>3. QED
      BY <2>2, <3>2
  <2>5. QED
    BY <2>4 DEF d, o
<1>9. QED
  BY <1>1, <1>3, <1>6, <1>7, <1>8 DEF c

\* Pieces of the same bytes are the same.
LEMMA SameStart ==
  ASSUME NEW c \in Seq(Byte), NEW d \in Seq(Byte), NEW w \in Nat, w <= Len(c), w <= Len(d),
         \A m \in 1 .. w : c[m] = d[m]
  PROVE  SubSeq(c, 1, w) = SubSeq(d, 1, w)
<1>1. DEFINE x == SubSeq(c, 1, w)
             y == SubSeq(d, 1, w)
<1>2. x \in Seq(Byte) /\ Len(x) = w /\ \A m \in 1 .. w : x[m] = c[m]
  OBVIOUS
<1>3. y \in Seq(Byte) /\ Len(y) = w /\ \A m \in 1 .. w : y[m] = d[m]
  OBVIOUS
<1>4. HIDE DEF x, y
<1>5. x = [m \in 1 .. w |-> x[m]] /\ y = [m \in 1 .. w |-> y[m]]
  BY <1>2, <1>3
<1>6. x = y
  BY <1>2, <1>3, <1>5
<1>7. QED
  BY <1>6 DEF x, y

\* Where the bytes are the same, and the file goes on or ends in both versions,
\* the next chunk is the same.
LEMMA NextChunk ==
  ASSUME NEW f, NEW g, NEW cs, NEW ds, IsChunking(cs, f), IsChunking(ds, g),
         NEW k \in DOMAIN cs, NEW l \in DOMAIN ds,
         \A m \in 1 .. Len(cs[k].data) : g[ds[l].offset + m] = f[cs[k].offset + m],
         ds[l].offset + Len(cs[k].data) <= Len(g),
         EndOf(cs[k]) # Len(f) \/ ds[l].offset + Len(cs[k].data) = Len(g)
  PROVE  ds[l].data = cs[k].data
<1>1. DEFINE c == cs[k].data
             d == ds[l].data
             o == ds[l].offset
<1>2. /\ c \in Seq(Byte) /\ Len(c) \in Nat /\ 1 <= Len(c) /\ EndsRightly(cs[k], Len(f))
      /\ \A m \in 1 .. Len(c) : c[m] = f[cs[k].offset + m]
  BY ChunkFacts
<1>3. /\ d \in Seq(Byte) /\ Len(d) \in Nat /\ 1 <= Len(d) /\ EndsRightly(ds[l], Len(g))
      /\ o \in Nat /\ EndOf(ds[l]) = o + Len(d) /\ o + Len(d) <= Len(g) /\ Len(g) \in Nat
      /\ \A m \in 1 .. Len(d) : d[m] = g[o + m]
  BY ChunkFacts
<1>4. /\ \A w \in 1 .. Len(c) - 1 : ~ Boundary(c, w)
      /\ Boundary(c, Len(c)) \/ o + Len(c) = Len(g)
  BY <1>2 DEF EndsRightly
<1>5. /\ \A w \in 1 .. Len(d) - 1 : ~ Boundary(d, w)
      /\ Boundary(d, Len(d)) \/ o + Len(d) = Len(g)
  BY <1>3 DEF EndsRightly
<1>6. \A m \in 1 .. Len(c) : c[m] = g[o + m]
  BY <1>2
<1>7. o + Len(c) <= Len(g)
  OBVIOUS
<1>8. HIDE DEF c, d, o
<1>9. ASSUME NEW w \in Nat, w <= Len(c), w <= Len(d)
      PROVE  Boundary(c, w) <=> Boundary(d, w)
  <2>1. ASSUME NEW m \in 1 .. w
        PROVE  c[m] = d[m]
    <3>1. m \in 1 .. Len(c) /\ m \in 1 .. Len(d)
      BY <1>2, <1>3, <1>9
    <3>2. QED
      BY <1>3, <1>6, <3>1
  <2>2. SubSeq(c, 1, w) = SubSeq(d, 1, w)
    BY <1>2, <1>3, <2>1, SameStart
  <2>3. QED
    BY <2>2 DEF Boundary
<1>10. ~ (Len(d) < Len(c))
  <2>1. SUFFICES ASSUME Len(d) < Len(c) PROVE FALSE
    OBVIOUS
  <2>2. Len(d) \in 1 .. Len(c) - 1 /\ o + Len(d) # Len(g)
    BY <1>2, <1>3, <1>7, <2>1
  <2>3. Boundary(d, Len(d)) /\ ~ Boundary(c, Len(d))
    BY <1>4, <1>5, <2>2
  <2>4. Len(d) <= Len(c) /\ Len(d) <= Len(d) /\ Len(d) \in Nat
    BY <1>2, <1>3, <2>1
  <2>5. QED
    BY <1>9, <2>3, <2>4
<1>11. ~ (Len(c) < Len(d))
  <2>1. SUFFICES ASSUME Len(c) < Len(d) PROVE FALSE
    OBVIOUS
  <2>2. Len(c) \in 1 .. Len(d) - 1 /\ o + Len(c) # Len(g)
    BY <1>2, <1>3, <2>1
  <2>3. Boundary(c, Len(c)) /\ ~ Boundary(d, Len(c))
    BY <1>4, <1>5, <2>2
  <2>4. Len(c) <= Len(c) /\ Len(c) <= Len(d) /\ Len(c) \in Nat
    BY <1>2, <1>3, <2>1
  <2>5. QED
    BY <1>9, <2>3, <2>4
<1>12. Len(d) = Len(c)
  BY <1>2, <1>3, <1>10, <1>11
<1>13. \A m \in 1 .. Len(c) : c[m] = d[m]
  BY <1>3, <1>6, <1>12
<1>14. c = [m \in 1 .. Len(c) |-> c[m]] /\ d = [m \in 1 .. Len(d) |-> d[m]]
  BY <1>2, <1>3
<1>15. c = d
  BY <1>12, <1>13, <1>14
<1>16. QED
  BY <1>15 DEF c, d

\* Chunks follow each other to the end of the file.
LEMMA OffsetFacts ==
  ASSUME NEW f, NEW cs, IsChunking(cs, f)
  PROVE  /\ Len(cs) \in Nat /\ Len(f) \in Nat /\ DOMAIN cs = 1 .. Len(cs)
         /\ \A k \in 1 .. Len(cs) + 1 : OffsetOf(cs, k) \in Nat /\ OffsetOf(cs, k) <= Len(f)
         /\ \A k \in 1 .. Len(cs) : /\ cs[k].offset = OffsetOf(cs, k)
                                    /\ EndOf(cs[k]) = OffsetOf(cs, k + 1)
                                    /\ OffsetOf(cs, k) < OffsetOf(cs, k + 1)
         /\ OffsetOf(cs, Len(cs) + 1) = Len(f)
         /\ \A k \in 1 .. Len(cs) + 1 : OffsetOf(cs, k) < Len(f) => k \in DOMAIN cs
<1>1. Len(cs) \in Nat /\ Len(f) \in Nat /\ DOMAIN cs = 1 .. Len(cs)
  BY DEF IsChunking
<1>2. ASSUME NEW k \in 1 .. Len(cs)
      PROVE  /\ cs[k].offset = OffsetOf(cs, k) /\ EndOf(cs[k]) = OffsetOf(cs, k + 1)
             /\ cs[k].offset \in Nat /\ EndOf(cs[k]) \in Nat
             /\ cs[k].offset < EndOf(cs[k]) /\ EndOf(cs[k]) <= Len(f)
  <2>1. k \in DOMAIN cs /\ k + 1 # 1 /\ (k + 1) - 1 = k
    BY <1>1
  <2>2. EndOf(cs[k]) = OffsetOf(cs, k + 1)
    BY <2>1 DEF OffsetOf
  <2>3. /\ cs[k].offset \in Nat /\ EndOf(cs[k]) \in Nat /\ Len(cs[k].data) \in Nat /\ 1 <= Len(cs[k].data)
        /\ EndOf(cs[k]) = cs[k].offset + Len(cs[k].data) /\ EndOf(cs[k]) <= Len(f)
        /\ cs[k].offset = OffsetOf(cs, k)
    BY <2>1, ChunkFacts
  <2>4. QED
    BY <2>2, <2>3
<1>3. ASSUME NEW k \in 1 .. Len(cs) + 1
      PROVE  OffsetOf(cs, k) \in Nat /\ OffsetOf(cs, k) <= Len(f)
  <2>1. CASE k = 1
    BY <1>1, <2>1 DEF OffsetOf
  <2>2. CASE k # 1
    <3>1. k - 1 \in 1 .. Len(cs) /\ OffsetOf(cs, k) = EndOf(cs[k - 1])
      BY <1>1, <2>2 DEF OffsetOf
    <3>2. QED
      BY <1>2, <3>1
  <2>3. QED
    BY <2>1, <2>2
<1>4. OffsetOf(cs, Len(cs) + 1) = Len(f)
  <2>1. CASE cs = <<>>
    BY <2>1 DEF OffsetOf, IsChunking
  <2>2. CASE cs # <<>>
    <3>1. Len(cs) + 1 # 1 /\ (Len(cs) + 1) - 1 = Len(cs)
      BY <2>2 DEF IsChunking
    <3>2. QED
      BY <2>2, <3>1 DEF OffsetOf, IsChunking
  <2>3. QED
    BY <2>1, <2>2
<1>5. ASSUME NEW k \in 1 .. Len(cs) + 1, OffsetOf(cs, k) < Len(f)
      PROVE  k \in DOMAIN cs
  <2>1. k # Len(cs) + 1
    BY <1>1, <1>4, <1>5
  <2>2. QED
    BY <1>1, <2>1
<1>6. QED
  BY <1>1, <1>2, <1>3, <1>4, <1>5

\* cs and ds go through the same e bytes, from the k-th and the l-th chunk on:
\* the bytes after x in f, and after y in g.
SameBytes(f, x, g, y, e) ==
  /\ x \in Nat /\ y \in Nat /\ e \in Nat /\ x + e <= Len(f) /\ y + e <= Len(g)
  /\ \A m \in 1 .. e : f[x + m] = g[y + m]
  /\ x + e = Len(f) => y + e = Len(g)

LEMMA SameChunk ==
  ASSUME NEW f, NEW g, NEW cs, NEW ds, IsChunking(cs, f), IsChunking(ds, g),
         NEW x, NEW y, NEW e, SameBytes(f, x, g, y, e),
         NEW k \in DOMAIN cs, NEW l \in 1 .. Len(ds) + 1,
         x <= cs[k].offset, EndOf(cs[k]) <= x + e,
         OffsetOf(ds, l) - y = cs[k].offset - x
  PROVE  l \in DOMAIN ds /\ ds[l].data = cs[k].data /\ ds[l].offset = OffsetOf(ds, l)
<1>1. DEFINE p == cs[k].offset
             q == OffsetOf(ds, l)
             len == Len(cs[k].data)
<1>2. /\ p \in Nat /\ len \in Nat /\ 1 <= len /\ EndOf(cs[k]) = p + len /\ p + len <= Len(f)
      /\ Len(f) \in Nat
  BY ChunkFacts
<1>3. q \in Nat /\ Len(g) \in Nat
  BY OffsetFacts
<1>4. /\ x \in Nat /\ y \in Nat /\ e \in Nat /\ y + e <= Len(g) /\ x + e <= Len(f)
      /\ x + e = Len(f) => y + e = Len(g)
  BY DEF SameBytes
<1>5. x <= p /\ p + len <= x + e /\ q - y = p - x
  BY <1>2
<1>6. HIDE DEF p, q, len
<1>7. q + len <= Len(g) /\ q < Len(g)
  BY <1>2, <1>3, <1>4, <1>5
<1>8. l \in DOMAIN ds
  BY <1>7, OffsetFacts DEF q
<1>9. ds[l].offset = q
  BY <1>8, ChunkFacts DEF q
<1>10. ASSUME NEW m \in 1 .. len
       PROVE  g[q + m] = f[p + m]
  <2>1. DEFINE t == p - x + m
  <2>2. t \in 1 .. e /\ x + t = p + m /\ y + t = q + m
    BY <1>2, <1>3, <1>4, <1>5
  <2>3. f[x + t] = g[y + t]
    BY <2>2 DEF SameBytes
  <2>4. QED
    BY <2>2, <2>3
<1>11. p + len = Len(f) => q + len = Len(g)
  BY <1>2, <1>3, <1>4, <1>5
<1>12. EndOf(cs[k]) # Len(f) \/ ds[l].offset + Len(cs[k].data) = Len(g)
  BY <1>2, <1>9, <1>11 DEF len
<1>13. ds[l].offset + Len(cs[k].data) <= Len(g)
  BY <1>7, <1>9 DEF len
<1>14. \A m \in 1 .. Len(cs[k].data) : g[ds[l].offset + m] = f[cs[k].offset + m]
  BY <1>9, <1>10 DEF len, p
<1>15. ds[l].data = cs[k].data
  BY <1>8, <1>12, <1>13, <1>14, NextChunk
<1>16. QED
  BY <1>8, <1>9, <1>15 DEF q

LEMMA SameChunks ==
  ASSUME NEW f, NEW g, NEW cs, NEW ds, IsChunking(cs, f), IsChunking(ds, g),
         NEW k \in 1 .. Len(cs) + 1, NEW l \in 1 .. Len(ds) + 1, NEW e,
         SameBytes(f, OffsetOf(cs, k), g, OffsetOf(ds, l), e),
         NEW m \in Nat, k + m \in DOMAIN cs, EndOf(cs[k + m]) <= OffsetOf(cs, k) + e
  PROVE  /\ l + m \in DOMAIN ds /\ ds[l + m].data = cs[k + m].data
         /\ OffsetOf(ds, l + m) - OffsetOf(ds, l) = cs[k + m].offset - OffsetOf(cs, k)
<1>1. DEFINE x == OffsetOf(cs, k)
             y == OffsetOf(ds, l)
             Same(t) == /\ l + t \in DOMAIN ds /\ ds[l + t].data = cs[k + t].data
                        /\ OffsetOf(ds, l + t) - y = cs[k + t].offset - x
                        /\ x <= cs[k + t].offset
             S == {t \in Nat : k + t \in DOMAIN cs /\ EndOf(cs[k + t]) <= x + e => Same(t)}
<1>2. /\ x \in Nat /\ y \in Nat /\ Len(cs) \in Nat /\ Len(ds) \in Nat
      /\ DOMAIN cs = 1 .. Len(cs) /\ DOMAIN ds = 1 .. Len(ds) /\ k \in Nat /\ l \in Nat /\ e \in Nat
  BY OffsetFacts DEF SameBytes
<1>3. SameBytes(f, x, g, y, e)
  OBVIOUS
<1>4. 0 \in S
  <2>1. SUFFICES ASSUME k + 0 \in DOMAIN cs, EndOf(cs[k + 0]) <= x + e
                 PROVE  Same(0)
    OBVIOUS
  <2>2. k + 0 = k /\ l + 0 = l
    BY <1>2
  <2>3. k \in DOMAIN cs /\ EndOf(cs[k]) <= x + e
    BY <2>1, <2>2
  <2>4. cs[k].offset = x
    BY <2>3, ChunkFacts
  <2>5. x <= cs[k].offset /\ OffsetOf(ds, l) - y = cs[k].offset - x
    BY <1>2, <2>4
  <2>6. l \in DOMAIN ds /\ ds[l].data = cs[k].data
    BY <1>3, <2>3, <2>5, SameChunk
  <2>7. QED
    BY <2>2, <2>5, <2>6
<1>5. ASSUME NEW t \in 1 .. m, t - 1 \in S
      PROVE  t \in S
  <2>1. SUFFICES ASSUME k + t \in DOMAIN cs, EndOf(cs[k + t]) <= x + e
                 PROVE  Same(t)
    OBVIOUS
  <2>2. DEFINE c == k + (t - 1)
               d == l + (t - 1)
  <2>3. c \in 1 .. Len(cs) /\ c + 1 = k + t /\ d + 1 = l + t /\ t - 1 \in Nat
    BY <1>2, <2>1
  <2>4. EndOf(cs[c]) <= x + e =>
          /\ d \in DOMAIN ds /\ ds[d].data = cs[c].data
          /\ OffsetOf(ds, d) - y = cs[c].offset - x /\ x <= cs[c].offset
    BY <1>2, <1>5, <2>3
  <2>5. c + 1 \in DOMAIN cs /\ EndOf(cs[c + 1]) <= x + e
    BY <2>1, <2>3
  <2>6. HIDE DEF c, d, x, y
  <2>7. /\ cs[c].offset = OffsetOf(cs, c) /\ EndOf(cs[c]) = OffsetOf(cs, c + 1)
        /\ cs[c + 1].offset = OffsetOf(cs, c + 1) /\ OffsetOf(cs, c) \in Nat
        /\ OffsetOf(cs, c) < OffsetOf(cs, c + 1) /\ OffsetOf(cs, c + 1) \in Nat
    <3>1. c + 1 \in 1 .. Len(cs) /\ c \in 1 .. Len(cs) + 1 /\ c + 1 \in 1 .. Len(cs) + 1
      BY <1>2, <2>3, <2>5
    <3>2. QED
      BY <2>3, <3>1, OffsetFacts
  <2>8. /\ cs[c + 1].offset \in Nat /\ EndOf(cs[c + 1]) \in Nat /\ cs[c + 1].offset <= EndOf(cs[c + 1])
        /\ EndOf(cs[c]) = cs[c].offset + Len(cs[c].data)
    <3>1. c \in DOMAIN cs
      BY <1>2, <2>3
    <3>2. EndOf(cs[c]) = cs[c].offset + Len(cs[c].data)
      BY <3>1, ChunkFacts
    <3>3. /\ cs[c + 1].offset \in Nat /\ EndOf(cs[c + 1]) \in Nat /\ Len(cs[c + 1].data) \in Nat
          /\ EndOf(cs[c + 1]) = cs[c + 1].offset + Len(cs[c + 1].data)
      BY <2>5, ChunkFacts
    <3>4. QED
      BY <3>2, <3>3
  <2>9. EndOf(cs[c]) <= x + e
    BY <1>2, <2>5, <2>7, <2>8
  <2>10. /\ d \in DOMAIN ds /\ ds[d].data = cs[c].data
         /\ OffsetOf(ds, d) - y = cs[c].offset - x /\ x <= cs[c].offset
    BY <2>4, <2>9
  <2>11. /\ ds[d].offset = OffsetOf(ds, d) /\ EndOf(ds[d]) = OffsetOf(ds, d + 1)
         /\ OffsetOf(ds, d) \in Nat /\ OffsetOf(ds, d + 1) \in Nat /\ d + 1 \in 1 .. Len(ds) + 1
    <3>1. d \in 1 .. Len(ds) /\ d \in 1 .. Len(ds) + 1 /\ d + 1 \in 1 .. Len(ds) + 1
      BY <1>2, <2>10
    <3>2. QED
      BY <3>1, OffsetFacts
  <2>12. EndOf(ds[d]) = ds[d].offset + Len(ds[d].data) /\ Len(ds[d].data) \in Nat
    <3>1. d \in DOMAIN ds
      BY <2>10
    <3>2. QED
      BY <3>1, ChunkFacts
  <2>13. OffsetOf(ds, d + 1) - y = cs[c + 1].offset - x /\ x <= cs[c + 1].offset
    <3>1. DEFINE p == cs[c].offset
                 q == OffsetOf(ds, d)
                 len == Len(cs[c].data)
    <3>2. OffsetOf(ds, d + 1) = q + len /\ cs[c + 1].offset = p + len
      BY <2>7, <2>8, <2>10, <2>11, <2>12
    <3>3. p \in Nat /\ q \in Nat /\ q - y = p - x /\ x <= p
      BY <2>7, <2>10, <2>11
    <3>4. len \in Nat
      BY <2>10, <2>12
    <3>5. x \in Nat /\ y \in Nat
      BY <1>2
    <3>6. HIDE DEF p, q, len
    <3>7. (q + len) - y = (p + len) - x /\ x <= p + len
      BY <3>3, <3>4, <3>5
    <3>8. QED
      BY <3>2, <3>7
  <2>14. d + 1 \in DOMAIN ds /\ ds[d + 1].data = cs[c + 1].data
    BY <1>3, <2>5, <2>11, <2>13, SameChunk
  <2>15. QED
    BY <2>3, <2>13, <2>14
<1>6. m \in S
  <2>1. HIDE DEF S
  <2>2. m \in 0 .. m
    OBVIOUS
  <2>3. QED
    BY <1>4, <1>5, <2>2, UpToBound
<1>7. QED
  BY <1>6

\* Chunks that end before an edit stay as they are.
LEMMA SamePrefix ==
  ASSUME NEW f, NEW g, NEW cs, NEW ds, IsChunking(cs, f), IsChunking(ds, g), NEW k \in DOMAIN cs,
         EndOf(cs[k]) < Len(f) \/ Len(f) = Len(g), EndOf(cs[k]) <= Len(g),
         \A m \in 1 .. EndOf(cs[k]) : f[m] = g[m]
  PROVE  k \in DOMAIN ds /\ ds[k] = cs[k]
<1>1. DEFINE e == EndOf(cs[k])
<1>2. /\ e \in Nat /\ e <= Len(f) /\ Len(f) \in Nat /\ cs[k] \in ChunkRec
  BY ChunkFacts
<1>3. /\ Len(cs) \in Nat /\ DOMAIN cs = 1 .. Len(cs) /\ Len(ds) \in Nat /\ DOMAIN ds = 1 .. Len(ds)
      /\ Len(g) \in Nat
  BY OffsetFacts
<1>4. OffsetOf(cs, 1) = 0 /\ OffsetOf(ds, 1) = 0
  BY DEF OffsetOf
<1>5. SameBytes(f, 0, g, 0, e)
  <2>1. (e < Len(f) \/ Len(f) = Len(g)) /\ e <= Len(g) /\ \A m \in 1 .. e : f[m] = g[m]
    OBVIOUS
  <2>2. HIDE DEF e
  <2>3. \A m \in 1 .. e : 0 + m = m
    BY <1>2
  <2>4. 0 + e = e
    BY <1>2
  <2>5. QED
    BY <1>2, <1>3, <2>1, <2>3, <2>4 DEF SameBytes
<1>6. k - 1 \in Nat /\ 1 + (k - 1) = k /\ 1 \in 1 .. Len(cs) + 1 /\ 1 \in 1 .. Len(ds) + 1 /\ 0 + e = e
  BY <1>2, <1>3
<1>7. EndOf(cs[k]) <= 0 + e
  BY <1>2, <1>6
<1>8. /\ 1 + (k - 1) \in DOMAIN ds /\ ds[1 + (k - 1)].data = cs[1 + (k - 1)].data
      /\ OffsetOf(ds, 1 + (k - 1)) - 0 = cs[1 + (k - 1)].offset - 0
  <2>1. SameBytes(f, OffsetOf(cs, 1), g, OffsetOf(ds, 1), e)
    BY <1>4, <1>5
  <2>2. 1 + (k - 1) \in DOMAIN cs /\ EndOf(cs[1 + (k - 1)]) <= OffsetOf(cs, 1) + e
    BY <1>4, <1>6, <1>7
  <2>3. HIDE DEF e
  <2>4. QED
    BY <1>4, <1>6, <2>1, <2>2, SameChunks
<1>9. k \in DOMAIN ds /\ ds[k].data = cs[k].data /\ OffsetOf(ds, k) - 0 = cs[k].offset - 0
  BY <1>6, <1>8
<1>10. ds[k] \in ChunkRec /\ ds[k].offset = OffsetOf(ds, k) /\ ds[k].offset \in Nat
  BY <1>9, ChunkFacts
<1>11. ds[k].offset = cs[k].offset
  <2>1. cs[k].offset \in Nat
    BY <1>2 DEF ChunkRec
  <2>2. QED
    BY <1>9, <1>10, <2>1
<1>12. ds[k] = cs[k]
  BY <1>2, <1>9, <1>10, <1>11 DEF ChunkRec
<1>13. QED
  BY <1>9, <1>12

\* So chunking is a function of the file ...
LEMMA SameFile ==
  ASSUME NEW f, NEW cs, NEW ds, IsChunking(cs, f), IsChunking(ds, f)
  PROVE  cs = ds
<1>1. /\ Len(cs) \in Nat /\ DOMAIN cs = 1 .. Len(cs) /\ Len(ds) \in Nat /\ DOMAIN ds = 1 .. Len(ds)
  BY OffsetFacts
<1>2. ASSUME NEW k \in DOMAIN cs
      PROVE  k \in DOMAIN ds /\ ds[k] = cs[k]
  <2>1. EndOf(cs[k]) <= Len(f)
    BY ChunkFacts
  <2>2. QED
    BY <2>1, SamePrefix
<1>3. ASSUME NEW k \in DOMAIN ds
      PROVE  k \in DOMAIN cs
  <2>1. EndOf(ds[k]) <= Len(f)
    BY ChunkFacts
  <2>2. QED
    BY <2>1, SamePrefix
<1>4. cs \in Seq(ChunkRec) /\ ds \in Seq(ChunkRec)
  BY DEF IsChunking
<1>5. DOMAIN cs = DOMAIN ds
  BY <1>2, <1>3
<1>6. cs = [k \in DOMAIN cs |-> cs[k]] /\ ds = [k \in DOMAIN ds |-> ds[k]]
  BY <1>4
<1>7. QED
  BY <1>2, <1>5, <1>6

\* ... and so are the bytes of the file one of the chunks'.
LEMMA SameContent ==
  ASSUME NEW f, NEW g, NEW cs, NEW ds, IsChunking(cs, f), IsChunking(ds, g), Len(cs) = Len(ds),
         \A k \in DOMAIN cs : cs[k].data = ds[k].data
  PROVE  f = g
<1>1. DEFINE x(k) == OffsetOf(cs, k + 1)
             y(k) == OffsetOf(ds, k + 1)
             S == {k \in 0 .. Len(cs) : x(k) = y(k) /\ \A m \in 1 .. x(k) : f[m] = g[m]}
<1>2. /\ Len(cs) \in Nat /\ DOMAIN cs = 1 .. Len(cs) /\ DOMAIN ds = 1 .. Len(cs)
      /\ f \in Seq(Byte) /\ g \in Seq(Byte)
  BY OffsetFacts DEF IsChunking
<1>3. 0 \in S
  <2>1. x(0) = 0 /\ y(0) = 0
    BY DEF OffsetOf
  <2>2. 0 \in 0 .. Len(cs) /\ 1 .. 0 = {}
    BY <1>2
  <2>3. QED
    BY <2>1, <2>2
<1>4. ASSUME NEW k \in 1 .. Len(cs), k - 1 \in S
      PROVE  k \in S
  <2>1. DEFINE p == cs[k].offset
               len == Len(cs[k].data)
  <2>2. /\ p \in Nat /\ len \in Nat /\ EndOf(cs[k]) = p + len /\ p = OffsetOf(cs, k)
        /\ \A m \in 1 .. len : cs[k].data[m] = f[p + m]
    BY <1>2, ChunkFacts
  <2>3. /\ EndOf(ds[k]) = ds[k].offset + len /\ ds[k].offset = OffsetOf(ds, k)
        /\ \A m \in 1 .. len : cs[k].data[m] = g[ds[k].offset + m]
    <3>1. k \in DOMAIN ds /\ cs[k].data = ds[k].data
      BY <1>2
    <3>2. QED
      BY <3>1, ChunkFacts
  <2>4. (k - 1) + 1 = k /\ k + 1 # 1 /\ (k + 1) - 1 = k /\ k \in 0 .. Len(cs)
    BY <1>2
  <2>5. OffsetOf(ds, k) = p /\ \A m \in 1 .. p : f[m] = g[m]
    BY <1>4, <2>2, <2>4
  <2>6. x(k) = p + len /\ y(k) = p + len
    BY <2>2, <2>3, <2>4, <2>5 DEF OffsetOf
  <2>7. \A m \in 1 .. len : f[p + m] = g[p + m]
    BY <2>2, <2>3, <2>5
  <2>8. ASSUME NEW m \in 1 .. p + len
        PROVE  f[m] = g[m]
    <3>1. p \in Nat /\ len \in Nat
      BY <2>2
    <3>2. HIDE DEF p, len
    <3>3. CASE m <= p
      BY <2>5, <3>1, <3>3
    <3>4. CASE ~ (m <= p)
      <4>1. m - p \in 1 .. len /\ p + (m - p) = m
        BY <3>1, <3>4
      <4>2. QED
        BY <2>7, <4>1
    <3>5. QED
      BY <3>3, <3>4
  <2>9. QED
    BY <2>4, <2>6, <2>8
<1>5. Len(cs) \in S
  <2>1. HIDE DEF S
  <2>2. Len(cs) \in 0 .. Len(cs)
    BY <1>2
  <2>3. QED
    BY <1>2, <1>3, <1>4, <2>2, UpToBound
<1>6. x(Len(cs)) = Len(f) /\ y(Len(cs)) = Len(g)
  BY OffsetFacts
<1>7. Len(f) = Len(g) /\ \A m \in 1 .. Len(f) : f[m] = g[m]
  BY <1>5, <1>6
<1>8. f = [m \in 1 .. Len(f) |-> f[m]] /\ g = [m \in 1 .. Len(g) |-> g[m]]
  BY <1>2
<1>9. QED
  BY <1>7, <1>8

\* After x bytes f goes on as g does after y.
SameTail(f, x, g, y) == SubSeq(f, x + 1, Len(f)) = SubSeq(g, y + 1, Len(g))

LEMMA RestBytes ==
  ASSUME NEW f \in Seq(Byte), NEW g \in Seq(Byte), NEW x \in Nat, NEW y \in Nat,
         x <= Len(f), y <= Len(g), SameTail(f, x, g, y)
  PROVE  SameBytes(f, x, g, y, Len(f) - x)
<1>1. DEFINE s == SubSeq(f, x + 1, Len(f))
             t == SubSeq(g, y + 1, Len(g))
             e == Len(f) - x
<1>2. e \in Nat /\ Len(f) \in Nat /\ Len(g) \in Nat /\ x + e = Len(f)
  OBVIOUS
<1>3. Len(s) = e /\ \A m \in 1 .. e : s[m] = f[x + m]
  OBVIOUS
<1>4. Len(t) = Len(g) - y /\ \A m \in 1 .. Len(g) - y : t[m] = g[y + m]
  OBVIOUS
<1>5. s = t
  BY DEF SameTail
<1>6. HIDE DEF s, t, e
<1>7. e = Len(g) - y
  BY <1>3, <1>4, <1>5
<1>8. y + e = Len(g)
  BY <1>2, <1>7
<1>9. \A m \in 1 .. e : f[x + m] = g[y + m]
  BY <1>3, <1>4, <1>5, <1>7
<1>10. SameBytes(f, x, g, y, e)
  BY <1>2, <1>8, <1>9 DEF SameBytes
<1>11. QED
  BY <1>10 DEF e

LEMMA RestWithin ==
  ASSUME NEW f, NEW g, NEW cs, NEW ds, IsChunking(cs, f), IsChunking(ds, g),
         NEW k \in DOMAIN cs, NEW l \in DOMAIN ds,
         SameTail(f, EndOf(cs[k]), g, EndOf(ds[l])),
         NEW m \in 1 .. Len(cs) - k
  PROVE  m \in 1 .. Len(ds) - l /\ ds[l + m].data = cs[k + m].data
<1>1. /\ Len(cs) \in Nat /\ DOMAIN cs = 1 .. Len(cs) /\ Len(ds) \in Nat /\ DOMAIN ds = 1 .. Len(ds)
      /\ f \in Seq(Byte) /\ g \in Seq(Byte) /\ Len(f) \in Nat /\ Len(g) \in Nat
  BY OffsetFacts DEF IsChunking
<1>2. /\ EndOf(cs[k]) = OffsetOf(cs, k + 1) /\ EndOf(ds[l]) = OffsetOf(ds, l + 1)
      /\ k + 1 \in 1 .. Len(cs) + 1 /\ l + 1 \in 1 .. Len(ds) + 1
  <2>1. k \in 1 .. Len(cs) /\ l \in 1 .. Len(ds)
    BY <1>1
  <2>2. EndOf(cs[k]) = OffsetOf(cs, k + 1) /\ EndOf(ds[l]) = OffsetOf(ds, l + 1)
    BY <2>1, OffsetFacts
  <2>3. QED
    BY <1>1, <2>1, <2>2
<1>3. DEFINE x == OffsetOf(cs, k + 1)
             y == OffsetOf(ds, l + 1)
<1>4. x \in Nat /\ y \in Nat /\ x <= Len(f) /\ y <= Len(g)
  BY <1>2, OffsetFacts
<1>5. SameBytes(f, x, g, y, Len(f) - x)
  BY <1>1, <1>2, <1>4, RestBytes
<1>6. /\ m - 1 \in Nat /\ (k + 1) + (m - 1) = k + m /\ (l + 1) + (m - 1) = l + m
      /\ k + m \in DOMAIN cs
  BY <1>1
<1>7. EndOf(cs[k + m]) <= x + (Len(f) - x)
  <2>1. EndOf(cs[k + m]) <= Len(f) /\ EndOf(cs[k + m]) \in Nat
    BY <1>6, ChunkFacts
  <2>2. HIDE DEF x
  <2>3. x + (Len(f) - x) = Len(f)
    BY <1>1, <1>4
  <2>4. QED
    BY <2>1, <2>3
<1>8. l + m \in DOMAIN ds /\ ds[l + m].data = cs[k + m].data
  <2>1. (k + 1) + (m - 1) \in DOMAIN cs /\ EndOf(cs[(k + 1) + (m - 1)]) <= x + (Len(f) - x)
    BY <1>6, <1>7
  <2>2. /\ (l + 1) + (m - 1) \in DOMAIN ds
        /\ ds[(l + 1) + (m - 1)].data = cs[(k + 1) + (m - 1)].data
    <3>1. DEFINE k1 == k + 1
                 l1 == l + 1
                 m1 == m - 1
                 e == Len(f) - x
    <3>2. /\ k1 \in 1 .. Len(cs) + 1 /\ l1 \in 1 .. Len(ds) + 1 /\ m1 \in Nat
          /\ k1 + m1 \in DOMAIN cs /\ EndOf(cs[k1 + m1]) <= OffsetOf(cs, k1) + e
          /\ SameBytes(f, OffsetOf(cs, k1), g, OffsetOf(ds, l1), e)
      BY <1>2, <1>5, <1>6, <2>1
    <3>3. HIDE DEF k1, l1, m1, e
    <3>4. l1 + m1 \in DOMAIN ds /\ ds[l1 + m1].data = cs[k1 + m1].data
      BY <3>2, SameChunks
    <3>5. QED
      BY <3>4 DEF k1, l1, m1
  <2>3. QED
    BY <1>6, <2>2
<1>9. QED
  BY <1>1, <1>8

\* Chunks behind a common cut are the same.
LEMMA SameRest ==
  ASSUME NEW f, NEW g, NEW cs, NEW ds, IsChunking(cs, f), IsChunking(ds, g),
         NEW k \in DOMAIN cs, NEW l \in DOMAIN ds,
         SameTail(f, EndOf(cs[k]), g, EndOf(ds[l]))
  PROVE  Following(cs, k) = Following(ds, l)
<1>1. /\ Len(cs) \in Nat /\ DOMAIN cs = 1 .. Len(cs) /\ Len(ds) \in Nat /\ DOMAIN ds = 1 .. Len(ds)
  BY OffsetFacts
<1>2. \A m \in 1 .. Len(cs) - k : m \in 1 .. Len(ds) - l /\ ds[l + m].data = cs[k + m].data
  BY RestWithin
<1>3. ASSUME NEW m \in 1 .. Len(ds) - l
      PROVE  m \in 1 .. Len(cs) - k
  <2>1. SameTail(g, EndOf(ds[l]), f, EndOf(cs[k]))
    BY DEF SameTail
  <2>2. QED
    BY <2>1, RestWithin
<1>4. 1 .. Len(cs) - k = 1 .. Len(ds) - l
  <2>1. DEFINE D == 1 .. Len(cs) - k
               E == 1 .. Len(ds) - l
  <2>2. (\A m \in D : m \in E) /\ (\A m \in E : m \in D)
    BY <1>2, <1>3
  <2>3. HIDE DEF D, E
  <2>4. D = E
    BY <2>2
  <2>5. QED
    BY <2>4 DEF D, E
<1>5. QED
  BY <1>2, <1>4 DEF Following

LEMMA ReturnedChunking ==
  ASSUME CInv, Returned
  PROVE  IsChunking(chunks, data)
<1>1. /\ data \in Seq(Byte) /\ n = Len(data) /\ n \in Nat /\ i = n
      /\ chunks \in Seq(ChunkRec) /\ Tiling /\ SizesBounded /\ ContentDefined
      /\ \A k \in DOMAIN chunks : chunks[k].offset \in 0 .. n
  BY DEF CInv, IInv, Chunked, TypeOK, Returned, n, ChunkRec
<1>2. Len(chunks) \in Nat /\ DOMAIN chunks = 1 .. Len(chunks)
  BY <1>1
<1>3. ASSUME NEW k \in DOMAIN chunks
      PROVE  /\ chunks[k].data = SubSeq(data, chunks[k].offset + 1, EndOf(chunks[k]))
             /\ chunks[k].offset = OffsetOf(chunks, k)
             /\ 1 <= Len(chunks[k].data) /\ EndOf(chunks[k]) <= Len(data)
             /\ EndsRightly(chunks[k], Len(data))
  <2>1. /\ chunks[k].data = SubSeq(data, chunks[k].offset + 1, EndOf(chunks[k]))
        /\ chunks[k].offset = OffsetOf(chunks, k)
    BY <1>1 DEF Tiling, OffsetOf
  <2>2. 1 <= Len(chunks[k].data)
    BY <1>1 DEF SizesBounded
  <2>3. EndOf(chunks[k]) <= Len(data)
    <3>1. CASE k = Len(chunks)
      BY <1>1, <1>2, <3>1 DEF Tiling
    <3>2. CASE k # Len(chunks)
      <4>1. k + 1 \in DOMAIN chunks /\ k + 1 # 1 /\ (k + 1) - 1 = k
        BY <1>2, <3>2
      <4>2. chunks[k + 1].offset = EndOf(chunks[k])
        BY <1>1, <4>1 DEF Tiling
      <4>3. QED
        BY <1>1, <4>1, <4>2
    <3>3. QED
      BY <3>1, <3>2
  <2>4. EndsRightly(chunks[k], Len(data))
    BY <1>1 DEF ContentDefined, EndsRightly
  <2>5. QED
    BY <2>1, <2>2, <2>3, <2>4
<1>4. Len(data) = IF chunks = <<>> THEN 0 ELSE EndOf(chunks[Len(chunks)])
  BY <1>1 DEF Tiling
<1>5. QED
  BY <1>1, <1>3, <1>4 DEF IsChunking

\* Chunker::chunk is called again.
LEMMA CalledAgain ==
  ASSUME data' \in Seq(Byte), start' = 0, i' = 0, j' = 0, hash' = 0, chunks' = <<>>
  PROVE  CInv'
<1>1. IInv'
  BY SizeAssumption DEF IInv, Chunked, TypeOK, Loop, Tiling, SizesBounded, n
<1>2. ContentDefined'
  BY DEF ContentDefined
<1>3. Under'
  <2>1. SubSeq(data', start' + 1, j') = <<>>
    OBVIOUS
  <2>2. hash' % M = 0
    BY MaskFacts
  <2>3. 1 .. j' - start' = {}
    OBVIOUS
  <2>4. QED
    BY <2>1, <2>2, <2>3, NothingYet DEF Under
<1>4. QED
  BY <1>1, <1>2, <1>3 DEF CInv

VInv ==
  /\ CInv
  /\ phase \in {"old", "new", "diff"}
  /\ phase # "old" => IsChunking(prev, old) /\ a = Hashes(prev)
  /\ phase = "diff" => Returned /\ b = Hashes(chunks) /\ report = Change(a, b)

LEMMA VInvInit == IngestInit => VInv
  BY InitCInv DEF IngestInit, VInv

LEMMA VInvStep == VInv /\ [IngestNext]_ingestVars => VInv'
<1>1. SUFFICES ASSUME VInv, [IngestNext]_ingestVars PROVE VInv'
  OBVIOUS
<1>2. CASE ChunkStep
  <2>1. CInv'
    <3>1. Next
      BY <1>2 DEF ChunkStep, Next
    <3>2. QED
      BY <1>1, <3>1, StepCInv DEF VInv
  <2>2. phase # "diff"
    <3>1. i < n
      BY <1>2 DEF ChunkStep, Roll, Cut, CutAndGoOn, Finish
    <3>2. CInv
      BY <1>1 DEF VInv
    <3>3. i # n
      BY <3>1, <3>2 DEF CInv, IInv, Chunked, TypeOK, n
    <3>4. QED
      BY <1>1, <3>3 DEF VInv, Returned
  <2>3. UNCHANGED <<phase, old, prev, a, b, report>>
    BY <1>2 DEF ChunkStep
  <2>4. QED
    BY <1>1, <2>1, <2>2, <2>3 DEF VInv
<1>3. CASE AddAgain
  <2>1. IsChunking(chunks, data) /\ data \in Seq(Byte)
    BY <1>1, <1>3, ReturnedChunking DEF VInv, AddAgain, IsChunking
  <2>2. data' \in Seq(Byte)
    BY <1>3, ByteAssumption DEF AddAgain
  <2>3. CInv'
    BY <1>3, <2>2, CalledAgain DEF AddAgain
  <2>4. IsChunking(prev', old') /\ a' = Hashes(prev') /\ phase' = "new"
    BY <1>3, <2>1 DEF AddAgain
  <2>5. QED
    BY <2>3, <2>4 DEF VInv
<1>4. CASE Compare
  <2>1. UNCHANGED <<data, start, i, j, hash, chunks>>
    BY <1>4 DEF Compare, chunkerVars
  <2>2. CInv'
    <3>1. UNCHANGED vars
      BY <2>1 DEF vars
    <3>2. QED
      BY <1>1, <3>1, StepCInv DEF VInv
  <2>3. Returned'
    BY <1>4, <2>1 DEF Compare, Returned, n
  <2>4. /\ b' = Hashes(chunks') /\ report' = Change(a', b') /\ phase' = "diff"
        /\ UNCHANGED <<old, prev, a>> /\ phase # "old"
    BY <1>4, <2>1 DEF Compare
  <2>5. QED
    BY <1>1, <2>2, <2>3, <2>4 DEF VInv
<1>5. CASE DiffStep \/ UNCHANGED ingestVars
  <2>1. UNCHANGED <<data, start, i, j, hash, chunks>> /\ UNCHANGED <<phase, old, prev, a, b, report>>
    BY <1>5 DEF DiffStep, MT!Skip, MT!Report, MT!Descend, MT!Push, ingestVars, chunkerVars
  <2>2. CInv'
    <3>1. UNCHANGED vars
      BY <2>1 DEF vars
    <3>2. QED
      BY <1>1, <3>1, StepCInv DEF VInv
  <2>3. Returned' <=> Returned
    BY <2>1 DEF Returned, n
  <2>4. QED
    BY <1>1, <2>1, <2>2, <2>3 DEF VInv
<1>6. QED
  BY <1>1, <1>2, <1>3, <1>4, <1>5 DEF IngestNext

LEMMA VInvShared ==
  ASSUME VInv
  PROVE  SharedCutResyncs
<1>1. SUFFICES ASSUME phase = "diff"
               PROVE  /\ \A k \in DOMAIN prev :
                           EndOf(prev[k]) < Len(old) /\ EndOf(prev[k]) <= n
                             /\ SubSeq(old, 1, EndOf(prev[k])) = SubSeq(data, 1, EndOf(prev[k]))
                           => k \in DOMAIN chunks /\ chunks[k] = prev[k]
                      /\ \A k \in DOMAIN prev, l \in DOMAIN chunks :
                           SubSeq(old, EndOf(prev[k]) + 1, Len(old))
                             = SubSeq(data, EndOf(chunks[l]) + 1, n)
                           => Following(prev, k) = Following(chunks, l)
  BY DEF SharedCutResyncs
<1>2. IsChunking(prev, old) /\ IsChunking(chunks, data) /\ n = Len(data)
  BY <1>1, ReturnedChunking DEF VInv, n
<1>3. ASSUME NEW k \in DOMAIN prev, EndOf(prev[k]) < Len(old), EndOf(prev[k]) <= n,
             SubSeq(old, 1, EndOf(prev[k])) = SubSeq(data, 1, EndOf(prev[k]))
      PROVE  k \in DOMAIN chunks /\ chunks[k] = prev[k]
  <2>1. DEFINE e == EndOf(prev[k])
               s == SubSeq(old, 1, e)
  <2>2. e \in Nat /\ e <= Len(old) /\ e <= Len(data) /\ old \in Seq(Byte) /\ data \in Seq(Byte)
    BY <1>2, <1>3, ChunkFacts DEF IsChunking
  <2>3. s = SubSeq(data, 1, e)
    BY <1>3
  <2>4. \A m \in 1 .. e : s[m] = old[m]
    <3>1. HIDE DEF e
    <3>2. QED
      BY <2>2
  <2>5. \A m \in 1 .. e : SubSeq(data, 1, e)[m] = data[m]
    <3>1. HIDE DEF e
    <3>2. QED
      BY <2>2
  <2>6. HIDE DEF s
  <2>7. \A m \in 1 .. e : old[m] = data[m]
    BY <2>3, <2>4, <2>5
  <2>8. QED
    BY <1>2, <1>3, <2>7, SamePrefix
<1>4. ASSUME NEW k \in DOMAIN prev, NEW l \in DOMAIN chunks,
             SubSeq(old, EndOf(prev[k]) + 1, Len(old)) = SubSeq(data, EndOf(chunks[l]) + 1, n)
      PROVE  Following(prev, k) = Following(chunks, l)
  <2>1. SameTail(old, EndOf(prev[k]), data, EndOf(chunks[l]))
    BY <1>2, <1>4 DEF SameTail
  <2>2. QED
    BY <1>2, <2>1, SameRest
<1>5. QED
  BY <1>3, <1>4

\* Both calls of Chunker::chunk, for a file and for the version of it that is
\* added later, tile the bytes, keep the size limits and cut by content.
THEOREM BothVersionsChunked == IngestSpec => [](Tiling /\ SizesBounded /\ ContentDefined)
<1>1. VInv => Tiling /\ SizesBounded /\ ContentDefined
  BY DEF VInv, CInv, IInv
<1>2. QED
  BY <1>1, VInvInit, VInvStep, PTL DEF IngestSpec

\* For any two contents of a file, the chunks that end before the first byte in
\* which they differ are the same, and so are all those behind a cut of both from
\* which on they have the same bytes (Chunker::chunk resets the hash at a cut), for
\* any gear table, size limits and width of the hash.
THEOREM SharedCutResyncsHolds == IngestSpec => []SharedCutResyncs
<1>1. VInv => SharedCutResyncs
  BY VInvShared
<1>2. QED
  BY <1>1, VInvInit, VInvStep, PTL DEF IngestSpec

-----------------------------------------------------------------------------
(* Hashes.                                                                  *)

LEMMA JoinFacts ==
  ASSUME NEW S, NEW s \in Seq(S), NEW t \in Seq(S)
  PROVE  /\ s \o t \in Seq(S) /\ Len(s) \in Nat /\ Len(t) \in Nat /\ Len(s \o t) = Len(s) + Len(t)
         /\ \A k \in 1 .. Len(s) : (s \o t)[k] = s[k]
         /\ \A k \in 1 .. Len(t) : (s \o t)[Len(s) + k] = t[k]
  OBVIOUS

LEMMA JoinedTo ==
  ASSUME NEW S, NEW s \in Seq(S), NEW t \in Seq(S), NEW p, p = s \o t
  PROVE  /\ p \in Seq(S) /\ Len(s) \in Nat /\ Len(t) \in Nat /\ Len(p) = Len(s) + Len(t)
         /\ \A k \in 1 .. Len(s) : p[k] = s[k]
         /\ \A k \in 1 .. Len(t) : p[Len(s) + k] = t[k]
  BY JoinFacts

LEMMA PieceFacts ==
  ASSUME NEW S, NEW s \in Seq(S), NEW from \in Nat, NEW to \in Nat, from <= to, to <= Len(s)
  PROVE  /\ SubSeq(s, from + 1, to) \in Seq(S) /\ Len(SubSeq(s, from + 1, to)) = to - from
         /\ \A k \in 1 .. to - from : SubSeq(s, from + 1, to)[k] = s[from + k]
  OBVIOUS

LEMMA SameSeq ==
  ASSUME NEW S, NEW s \in Seq(S), NEW R, NEW t \in Seq(R), Len(s) = Len(t),
         \A k \in 1 .. Len(s) : s[k] = t[k]
  PROVE  s = t
<1>1. s = [k \in 1 .. Len(s) |-> s[k]] /\ t = [k \in 1 .. Len(t) |-> t[k]]
  OBVIOUS
<1>2. QED
  BY <1>1

LEMMA IsTuple ==
  ASSUME NEW S, NEW m \in Nat, NEW s, s = [k \in 1 .. m |-> s[k]], \A k \in 1 .. m : s[k] \in S
  PROVE  s \in Seq(S) /\ Len(s) = m
<1>1. s \in [1 .. m -> S]
  OBVIOUS
<1>2. QED
  BY <1>1

LEMMA Distribute ==
  ASSUME NEW x \in Nat, NEW y \in Nat, NEW m \in Nat
  PROVE  (x + y) * m = x * m + y * m /\ x * m \in Nat /\ y * m \in Nat
  OBVIOUS

\* The blocks and the buffer of ctx hold the bytes of msg, in order.
Absorbed(ctx, msg, T) ==
  /\ msg \in Seq(T)
  /\ ctx.h \in Seq(Seq(T)) /\ ctx.buffer \in Seq(T)
  /\ Len(ctx.buffer) < BlockSize
  /\ Len(msg) = Len(ctx.h) * BlockSize + Len(ctx.buffer)
  /\ \A k \in 1 .. Len(ctx.buffer) : msg[Len(ctx.h) * BlockSize + k] = ctx.buffer[k]
  /\ \A q \in 1 .. Len(ctx.h) : \A r \in 1 .. BlockSize :
        msg[(q - 1) * BlockSize + r] = ctx.h[q][r]

LEMMA AbsorbedNothing ==
  ASSUME NEW T
  PROVE  Absorbed(SHA!Ctx, <<>>, T)
<1>1. SHA!Ctx.h = <<>> /\ SHA!Ctx.buffer = <<>>
  BY DEF SHA!Ctx
<1>2. 0 * BlockSize = 0 /\ 0 < BlockSize
  BY BlockAssumption
<1>3. QED
  BY <1>1, <1>2 DEF Absorbed

LEMMA BlockWithin ==
  ASSUME NEW len \in Nat, NEW k \in 1 .. len \div BlockSize
  PROVE  /\ (k - 1) * BlockSize \in Nat /\ k * BlockSize \in Nat /\ k * BlockSize <= len
         /\ k * BlockSize = (k - 1) * BlockSize + BlockSize
<1>1. BlockSize \in Nat \ {0}
  BY BlockAssumption
<1>2. DEFINE q == len \div BlockSize
             r == len % BlockSize
<1>3. q \in Nat /\ r \in Nat /\ len = q * BlockSize + r
  BY <1>1, DivMod
<1>4. k \in 1 .. q
  OBVIOUS
<1>5. HIDE DEF q, r
<1>6. k * BlockSize = (k - 1) * BlockSize + BlockSize /\ (k - 1) * BlockSize \in Nat /\ k * BlockSize \in Nat
  BY <1>1, <1>3, <1>4
<1>7. k - 1 < q /\ k - 1 \in Nat
  BY <1>3, <1>4
<1>8. (k - 1) * BlockSize + BlockSize <= q * BlockSize
  BY <1>1, <1>3, <1>7, Larger
<1>9. q * BlockSize \in Nat
  BY <1>1, <1>3
<1>10. QED
  BY <1>3, <1>6, <1>8, <1>9

LEMMA AbsorbedMore ==
  ASSUME NEW T, NEW ctx, NEW msg, Absorbed(ctx, msg, T), NEW more \in Seq(T)
  PROVE  Absorbed(SHA!update(ctx, more), msg \o more, T)
<1>1. DEFINE B == BlockSize
             all == ctx.buffer \o more
             full == Len(all) \div B
             rest == Len(all) % B
             Block(k) == SubSeq(all, (k - 1) * B + 1, k * B)
             blocks == [k \in 1 .. full |-> Block(k)]
             tail == SubSeq(all, full * B + 1, Len(all))
             new == msg \o more
             c == SHA!update(ctx, more)
             done == Len(ctx.h) * B
<1>2. c.h = ctx.h \o blocks /\ c.buffer = tail
  BY DEF SHA!update
<1>3. B \in Nat \ {0}
  BY BlockAssumption
<1>4. /\ msg \in Seq(T) /\ ctx.h \in Seq(Seq(T)) /\ ctx.buffer \in Seq(T) /\ Len(ctx.h) \in Nat
      /\ Len(msg) \in Nat /\ Len(more) \in Nat /\ Len(ctx.buffer) \in Nat
      /\ Len(msg) = done + Len(ctx.buffer)
  BY DEF Absorbed
<1>5. /\ \A k \in 1 .. Len(ctx.buffer) : msg[done + k] = ctx.buffer[k]
      /\ \A q \in 1 .. Len(ctx.h) : \A r \in 1 .. B : msg[(q - 1) * B + r] = ctx.h[q][r]
  BY DEF Absorbed
<1>6. done \in Nat
  BY <1>3, <1>4
<1>7. /\ all \in Seq(T) /\ Len(all) = Len(ctx.buffer) + Len(more)
  BY <1>4, JoinFacts
<1>8. /\ \A k \in 1 .. Len(ctx.buffer) : all[k] = ctx.buffer[k]
      /\ \A k \in 1 .. Len(more) : all[Len(ctx.buffer) + k] = more[k]
  BY <1>4, JoinFacts
<1>9. /\ new \in Seq(T) /\ Len(new) = Len(msg) + Len(more)
  BY <1>4, JoinFacts
<1>10. /\ \A k \in 1 .. Len(msg) : new[k] = msg[k]
       /\ \A k \in 1 .. Len(more) : new[Len(msg) + k] = more[k]
  BY <1>4, JoinFacts
<1>11. /\ full \in Nat /\ rest \in Nat /\ rest < B /\ Len(all) = full * B + rest
       /\ Len(all) \in Nat /\ full * B \in Nat
  <2>1. Len(all) \in Nat
    BY <1>4, <1>7
  <2>2. HIDE DEF all
  <2>3. full \in Nat /\ rest \in Nat /\ rest < B /\ Len(all) = full * B + rest
    BY <1>3, <2>1, DivMod
  <2>4. HIDE DEF full, rest
  <2>5. QED
    BY <1>3, <2>1, <2>3
<1>12. \A k \in 1 .. full : /\ (k - 1) * B \in Nat /\ k * B \in Nat /\ k * B <= Len(all)
                            /\ k * B = (k - 1) * B + B
  <2>1. HIDE DEF all
  <2>2. QED
    BY <1>11, BlockWithin
<1>13. ASSUME NEW k \in 1 .. full
       PROVE  /\ Block(k) \in Seq(T) /\ Len(Block(k)) = B
              /\ \A r \in 1 .. B : Block(k)[r] = all[(k - 1) * B + r]
  <2>1. DEFINE from == (k - 1) * B
               to == k * B
  <2>2. from \in Nat /\ to \in Nat /\ to <= Len(all) /\ to = from + B
    BY <1>12
  <2>3. HIDE DEF from, to, all
  <2>4. from <= to /\ to - from = B
    BY <2>2, <1>3
  <2>5. /\ SubSeq(all, from + 1, to) \in Seq(T) /\ Len(SubSeq(all, from + 1, to)) = B
        /\ \A r \in 1 .. B : SubSeq(all, from + 1, to)[r] = all[from + r]
    BY <1>7, <2>2, <2>4, PieceFacts
  <2>6. QED
    BY <2>5 DEF from, to
<1>14. /\ tail \in Seq(T) /\ Len(tail) = rest
       /\ \A k \in 1 .. rest : tail[k] = all[full * B + k]
  <2>1. DEFINE from == full * B
               to == Len(all)
  <2>2. from \in Nat /\ to \in Nat /\ to = from + rest
    BY <1>11
  <2>3. HIDE DEF from, all, rest
  <2>4. from <= to /\ to - from = rest /\ to <= Len(all)
    BY <2>2, <1>11
  <2>5. /\ SubSeq(all, from + 1, to) \in Seq(T) /\ Len(SubSeq(all, from + 1, to)) = rest
        /\ \A r \in 1 .. rest : SubSeq(all, from + 1, to)[r] = all[from + r]
    BY <1>7, <2>2, <2>4, PieceFacts
  <2>6. QED
    BY <2>5 DEF from
<1>15. /\ blocks \in Seq(Seq(T)) /\ Len(blocks) = full
       /\ \A k \in 1 .. full : blocks[k] = Block(k)
  <2>1. HIDE DEF full, Block
  <2>2. blocks = [k \in 1 .. full |-> Block(k)] /\ \A k \in 1 .. full : Block(k) \in Seq(T)
    BY <1>13 
  <2>3. QED
    BY <1>11, <2>2
<1>16. HIDE DEF all, full, rest, Block, blocks, tail, new, c, done
<1>17. /\ Len(ctx.buffer) \in Nat /\ Len(more) \in Nat /\ Len(msg) \in Nat /\ done \in Nat
       /\ Len(all) \in Nat /\ Len(msg) = done + Len(ctx.buffer)
       /\ Len(all) = Len(ctx.buffer) + Len(more) /\ Len(new) = Len(msg) + Len(more)
  BY <1>4, <1>6, <1>7, <1>9, <1>11
<1>18. DEFINE lb == Len(ctx.buffer)
               lm == Len(msg)
               le == Len(more)
<1>19. /\ lb \in Nat /\ le \in Nat /\ lm \in Nat /\ done \in Nat /\ lm = done + lb
       /\ Len(all) = lb + le /\ Len(new) = lm + le
  BY <1>17
<1>20. HIDE DEF lb, lm, le
<1>21. ASSUME NEW x \in 1 .. Len(all)
       PROVE  new[done + x] = all[x]
  <2>1. CASE x <= Len(ctx.buffer)
    <3>1. x \in 1 .. Len(ctx.buffer) /\ done + x \in 1 .. Len(msg)
      BY <1>4, <1>6, <1>11, <2>1
    <3>2. QED
      BY <1>5, <1>8, <1>10, <3>1
  <2>2. CASE x > Len(ctx.buffer)
    <3>1. DEFINE y == x - Len(ctx.buffer)
    <3>2. y \in 1 .. Len(more) /\ x = Len(ctx.buffer) + y /\ done + x = Len(msg) + y
      <4>1. x \in 1 .. lb + le /\ x > lb
        BY <1>19, <2>2 DEF lb
      <4>2. x - lb \in 1 .. le /\ x = lb + (x - lb) /\ done + x = lm + (x - lb)
        BY <1>19, <4>1
      <4>3. QED
        BY <4>2 DEF lb, le, lm
    <3>3. HIDE DEF y
    <3>4. new[Len(msg) + y] = more[y] /\ all[Len(ctx.buffer) + y] = more[y]
      BY <1>8, <1>10, <3>2, Zenon
    <3>5. QED
      BY <3>2, <3>4
  <2>3. QED
    BY <1>4, <1>11, <2>1, <2>2
<1>22. /\ c.h \in Seq(Seq(T)) /\ Len(c.h) = Len(ctx.h) + full
  <2>1. ctx.h \in Seq(Seq(T)) /\ blocks \in Seq(Seq(T)) /\ Len(blocks) = full /\ c.h = ctx.h \o blocks
    BY <1>2, <1>4, <1>15
  <2>2. QED
    BY <2>1, JoinFacts
<1>23. /\ \A q \in 1 .. Len(ctx.h) : c.h[q] = ctx.h[q]
       /\ \A k \in 1 .. full : c.h[Len(ctx.h) + k] = blocks[k]
  <2>1. ctx.h \in Seq(Seq(T)) /\ blocks \in Seq(Seq(T)) /\ Len(blocks) = full /\ c.h = ctx.h \o blocks
    BY <1>2, <1>4, <1>15
  <2>2. QED
    BY <2>1, JoinFacts
<1>24. Len(c.h) * B = done + full * B
  <2>1. (Len(ctx.h) + full) * B = Len(ctx.h) * B + full * B
    <3>1. DEFINE x == Len(ctx.h)
    <3>2. x \in Nat /\ full \in Nat /\ B \in Nat
      BY <1>3, <1>4, <1>11
    <3>3. HIDE DEF x, B
    <3>4. (x + full) * B = x * B + full * B
      BY <3>2
    <3>5. QED
      BY <3>4 DEF x
  <2>2. QED
    BY <1>22, <2>1 DEF done
<1>25. Len(new) = Len(c.h) * B + Len(c.buffer)
  <2>1. DEFINE f == full * B
  <2>2. /\ Len(all) = f + rest /\ Len(c.h) * B = done + f /\ f \in Nat /\ Len(c.buffer) = rest
        /\ rest \in Nat
    BY <1>2, <1>11, <1>14, <1>24
  <2>3. HIDE DEF f
  <2>4. Len(new) = done + f + rest
    <3>1. lb + le = f + rest
      BY <1>19, <2>2
    <3>2. lm + le = done + f + rest
      BY <1>19, <2>2, <3>1
    <3>3. QED
      BY <1>19, <3>2
  <2>5. QED
    BY <1>6, <2>2, <2>4
<1>26. ASSUME NEW k \in 1 .. Len(c.buffer)
       PROVE  new[Len(c.h) * B + k] = c.buffer[k]
  <2>1. k \in 1 .. rest
    BY <1>2, <1>14
  <2>2. full * B + k \in 1 .. Len(all) /\ Len(c.h) * B + k = done + (full * B + k)
    BY <1>6, <1>11, <1>24, <2>1
  <2>3. new[done + (full * B + k)] = all[full * B + k]
    BY <1>21, <2>2
  <2>4. QED
    BY <1>2, <1>14, <2>1, <2>2, <2>3
<1>27. ASSUME NEW q \in 1 .. Len(c.h), NEW r \in 1 .. B
       PROVE  new[(q - 1) * B + r] = c.h[q][r]
  <2>1. CASE q <= Len(ctx.h)
    <3>1. q \in 1 .. Len(ctx.h)
      BY <1>4, <2>1
    <3>2. (q - 1) * B + r \in 1 .. Len(msg)
      <4>1. q - 1 \in Nat /\ q - 1 < Len(ctx.h)
        BY <1>4, <3>1
      <4>2. (q - 1) * B + B <= Len(ctx.h) * B
        BY <1>3, <1>4, <4>1, Larger
      <4>3. (q - 1) * B \in Nat
        BY <1>3, <4>1
      <4>4. QED
        <5>1. (q - 1) * B + B <= done
          BY <4>2 DEF done
        <5>2. DEFINE y == (q - 1) * B
        <5>3. y \in Nat /\ y + B <= done
          BY <4>3, <5>1
        <5>4. HIDE DEF y
        <5>5. y + r \in 1 .. Len(msg)
          BY <1>3, <1>4, <1>6, <5>3
        <5>6. QED
          BY <5>5 DEF y
    <3>3. QED
      <4>1. new[(q - 1) * B + r] = msg[(q - 1) * B + r]
        BY <1>10, <3>2, Zenon
      <4>2. msg[(q - 1) * B + r] = ctx.h[q][r]
        BY <1>5, <3>1, Zenon
      <4>3. c.h[q] = ctx.h[q]
        BY <1>23, <3>1, Zenon
      <4>4. QED
        BY <4>1, <4>2, <4>3, Zenon
  <2>2. CASE q > Len(ctx.h)
    <3>1. DEFINE k == q - Len(ctx.h)
    <3>2. k \in 1 .. full /\ q = Len(ctx.h) + k
      BY <1>4, <1>11, <1>22, <2>2
    <3>3. HIDE DEF k
    <3>4. (q - 1) * B = done + (k - 1) * B
      <4>1. (Len(ctx.h) + (k - 1)) * B = Len(ctx.h) * B + (k - 1) * B
        <5>1. Len(ctx.h) \in Nat /\ k - 1 \in Nat /\ B \in Nat
          BY <1>3, <1>4, <3>2
        <5>2. QED
          BY <5>1, Distribute
      <4>2. q - 1 = Len(ctx.h) + (k - 1)
        BY <3>2, <1>4
      <4>3. QED
        BY <4>1, <4>2 DEF done
    <3>5. DEFINE y == (k - 1) * B
    <3>6. y \in Nat /\ y + B <= Len(all)
      BY <1>12, <3>2
    <3>7. c.h[q][r] = all[y + r]
      <4>1. c.h[q] = Block(k)
        <5>1. c.h[Len(ctx.h) + k] = blocks[k]
          BY <1>23, <3>2, Zenon
        <5>2. blocks[k] = Block(k)
          BY <1>15, <3>2, Zenon
        <5>3. QED
          BY <3>2, <5>1, <5>2, Zenon
      <4>2. Block(k)[r] = all[(k - 1) * B + r]
        BY <1>13, <3>2
      <4>3. QED
        BY <4>1, <4>2
    <3>8. (q - 1) * B = done + y
      BY <3>4
    <3>9. HIDE DEF y
    <3>10. y + r \in 1 .. Len(all) /\ (q - 1) * B + r = done + (y + r)
      BY <1>3, <1>6, <1>11, <3>6, <3>8
    <3>11. QED
      BY <1>21, <3>7, <3>10
  <2>3. QED
    BY <1>4, <1>11, <1>22, <2>1, <2>2
<1>28. Len(c.buffer) < B /\ c.buffer \in Seq(T)
  BY <1>2, <1>11, <1>14
<1>29. Absorbed(c, new, T)
  BY <1>9, <1>22, <1>25, <1>26, <1>27, <1>28 DEF Absorbed
<1>30. QED
  BY <1>29 DEF c, new

LEMMA AbsorbedSame ==
  ASSUME NEW T, NEW c, NEW s, NEW d, NEW t, Absorbed(c, s, T), Absorbed(d, t, T),
         c.h = d.h, c.buffer = d.buffer
  PROVE  s = t
<1>1. DEFINE B == BlockSize
             full == Len(c.h)
             done == full * B
             rest == Len(c.buffer)
<1>2. B \in Nat \ {0}
  BY BlockAssumption
<1>3. /\ s \in Seq(T) /\ t \in Seq(T) /\ full \in Nat /\ rest \in Nat
      /\ Len(s) = done + rest /\ Len(t) = done + rest
  BY DEF Absorbed
<1>4. \A k \in 1 .. rest : s[done + k] = t[done + k]
  BY DEF Absorbed
<1>5. \A q \in 1 .. full : \A r \in 1 .. B : s[(q - 1) * B + r] = t[(q - 1) * B + r]
  BY DEF Absorbed
<1>6. done \in Nat
  BY <1>2, <1>3
<1>7. HIDE DEF full, rest, B
<1>8. ASSUME NEW x \in 1 .. Len(s)
      PROVE  s[x] = t[x]
  <2>1. CASE x <= done
    <3>1. DEFINE q == (x - 1) \div B
                 r == (x - 1) % B
    <3>2. x - 1 \in Nat
      OBVIOUS
    <3>3. q \in Nat /\ r \in Nat /\ r < B /\ x - 1 = q * B + r
      <4>1. DEFINE y == x - 1
      <4>2. y \in Nat
        BY <3>2
      <4>3. HIDE DEF y
      <4>4. y \div B \in Nat /\ y % B \in Nat /\ y % B < B /\ y = (y \div B) * B + (y % B)
        BY <1>2, <4>2, DivMod
      <4>5. QED
        BY <4>4 DEF y
    <3>4. HIDE DEF q, r
    <3>5. q * B \in Nat
      BY <1>2, <3>3
    <3>6. q < full
      <4>1. SUFFICES ASSUME full <= q PROVE FALSE
        BY <1>3, <3>3
      <4>2. full * B <= q * B
        <5>1. CASE full = q
          BY <5>1, <3>5
        <5>2. CASE full < q
          <6>1. full * B + B <= q * B
            BY <1>2, <1>3, <3>3, <5>2, Larger
          <6>2. full * B \in Nat
            BY <1>6
          <6>3. QED
            BY <1>2, <3>5, <6>1, <6>2
        <5>3. QED
          BY <1>3, <3>3, <4>1, <5>1, <5>2
      <4>3. done <= q * B
        BY <4>2
      <4>4. HIDE DEF done
      <4>5. DEFINE p == q * B
      <4>6. p \in Nat /\ x - 1 = p + r /\ done <= p
        BY <3>3, <3>5, <4>3
      <4>7. HIDE DEF p
      <4>8. QED
        BY <1>6, <2>1, <3>3, <4>6
    <3>7. q + 1 \in 1 .. full /\ r + 1 \in 1 .. B
      BY <1>2, <1>3, <3>3, <3>6
    <3>8. s[((q + 1) - 1) * B + (r + 1)] = t[((q + 1) - 1) * B + (r + 1)]
      BY <1>5, <3>7
    <3>9. x = ((q + 1) - 1) * B + (r + 1)
      <4>1. (q + 1) - 1 = q
        BY <3>3
      <4>2. DEFINE p == q * B
      <4>3. p \in Nat /\ x - 1 = p + r
        BY <3>3, <3>5
      <4>4. HIDE DEF p
      <4>5. x = p + (r + 1)
        BY <3>3, <4>3
      <4>6. QED
        BY <4>1, <4>5 DEF p
    <3>10. QED
      BY <3>8, <3>9
  <2>2. CASE x > done
    <3>1. HIDE DEF done
    <3>2. DEFINE k == x - done
    <3>3. k \in 1 .. rest /\ x = done + k
      BY <1>3, <1>6, <2>2
    <3>4. QED
      BY <1>4, <3>3
  <2>3. QED
    BY <1>6, <2>1, <2>2
<1>9. QED
  BY <1>3, <1>8, SameSeq

Mark == <<2 ^ ByteBits \div 2>>

Zeroes(z) == [k \in 1 .. z |-> <<0>>]

\* The bytes that follow one another in the blocks, without the length.
Padded(s, z) == (s \o <<Mark>>) \o Zeroes(z)

LEMMA PaddedFacts ==
  ASSUME NEW T, Mark \in T, << 0 >> \in T, NEW s \in Seq(T), NEW z \in Nat
  PROVE  /\ Padded(s, z) \in Seq(T) /\ Len(s) \in Nat /\ Len(Padded(s, z)) = Len(s) + 1 + z
         /\ \A k \in 1 .. Len(s) : Padded(s, z)[k] = s[k]
         /\ Padded(s, z)[Len(s) + 1] = Mark
         /\ \A k \in 1 .. z : Padded(s, z)[Len(s) + 1 + k] = <<0>>
<1>1. DEFINE x == s \o <<Mark>>
<1>2. <<Mark>> \in Seq(T) /\ Len(<<Mark>>) = 1 /\ <<Mark>>[1] = Mark
  OBVIOUS
<1>3. /\ x \in Seq(T) /\ Len(s) \in Nat /\ Len(x) = Len(s) + 1
      /\ \A k \in 1 .. Len(s) : x[k] = s[k]
      /\ x[Len(s) + 1] = Mark
  BY <1>2, JoinFacts
<1>4. Zeroes(z) \in Seq(T) /\ Len(Zeroes(z)) = z /\ \A k \in 1 .. z : Zeroes(z)[k] = <<0>>
  BY DEF Zeroes
<1>5. HIDE DEF x
<1>6. DEFINE p == Padded(s, z)
             e == Zeroes(z)
<1>7. p = x \o e /\ x \in Seq(T) /\ e \in Seq(T) /\ Len(e) = z /\ Len(x) = Len(s) + 1 /\ Len(s) \in Nat
  BY <1>3, <1>4 DEF Padded, x
<1>8. \A k \in 1 .. z : e[k] = <<0>>
  BY <1>4
<1>9. HIDE DEF p, e
<1>10. /\ p \in Seq(T) /\ Len(p) = Len(x) + z
       /\ \A k \in 1 .. Len(x) : p[k] = x[k]
       /\ \A k \in 1 .. z : p[Len(x) + k] = e[k]
  <2>1. x \in Seq(T) /\ e \in Seq(T) /\ p = x \o e
    BY <1>7
  <2>2. /\ p \in Seq(T) /\ Len(p) = Len(x) + Len(e)
        /\ \A k \in 1 .. Len(x) : p[k] = x[k]
        /\ \A k \in 1 .. Len(e) : p[Len(x) + k] = e[k]
    BY <2>1, JoinedTo
  <2>3. QED
    BY <1>7, <2>2
<1>11. Len(p) = Len(s) + 1 + z /\ \A k \in 1 .. z : p[Len(s) + 1 + k] = <<0>>
  BY <1>7, <1>8, <1>10
<1>12. p[Len(s) + 1] = Mark /\ \A k \in 1 .. Len(s) : p[k] = s[k]
  <2>1. 1 .. Len(s) \subseteq 1 .. Len(x) /\ Len(s) + 1 \in 1 .. Len(x)
    BY <1>7
  <2>2. QED
    BY <1>3, <1>10, <2>1, Zenon
<1>13. QED
  BY <1>7, <1>10, <1>11, <1>12 DEF p

\* The 0x80 tells where the message ends, whatever the number of zeros.
LEMMA PaddedSame ==
  ASSUME NEW T, Mark \in T, << 0 >> \in T, NEW s \in Seq(T), NEW y \in Nat, NEW t \in Seq(T), NEW z \in Nat,
         Padded(s, y) = Padded(t, z)
  PROVE  s = t
<1>1. Mark # <<0>>
  <2>1. 2 ^ ByteBits \div 2 # 0
    BY BlockAssumption
  <2>2. QED
    BY <2>1 DEF Mark
<1>2. ASSUME NEW u \in Seq(T), NEW v \in Seq(T), NEW w \in Nat, NEW x \in Nat, Padded(u, w) = Padded(v, x)
      PROVE  ~ (Len(u) < Len(v))
  <2>1. DEFINE p == Padded(u, w)
  <2>2. /\ Len(u) \in Nat /\ Len(p) = Len(u) + 1 + w
        /\ \A k \in 1 .. w : p[Len(u) + 1 + k] = <<0>>
    BY PaddedFacts
  <2>3. Len(v) \in Nat /\ Len(p) = Len(v) + 1 + x /\ p[Len(v) + 1] = Mark
    <3>1. p = Padded(v, x)
      BY <1>2
    <3>2. Len(v) \in Nat /\ Len(Padded(v, x)) = Len(v) + 1 + x /\ Padded(v, x)[Len(v) + 1] = Mark
      BY PaddedFacts
    <3>3. QED
      BY <3>1, <3>2
  <2>4. HIDE DEF p
  <2>5. SUFFICES ASSUME Len(u) < Len(v) PROVE FALSE
    OBVIOUS
  <2>6. DEFINE lu == Len(u)
               lv == Len(v)
  <2>7. lu \in Nat /\ lv \in Nat /\ lu < lv /\ lu + 1 + w = lv + 1 + x
    BY <2>2, <2>3, <2>5
  <2>8. HIDE DEF lu, lv
  <2>9. lv - lu \in 1 .. w /\ lu + 1 + (lv - lu) = lv + 1
    BY <2>7
  <2>10. p[lu + 1 + (lv - lu)] = <<0>>
    BY <2>2, <2>9 DEF lu
  <2>11. QED
    BY <1>1, <2>3, <2>9, <2>10 DEF lv
<1>3. Len(s) = Len(t)
  <2>1. Len(s) \in Nat /\ Len(t) \in Nat
    OBVIOUS
  <2>2. ~ (Len(s) < Len(t)) /\ ~ (Len(t) < Len(s))
    BY <1>2
  <2>3. QED
    BY <2>1, <2>2
<1>4. \A k \in 1 .. Len(s) : s[k] = t[k]
  <2>1. \A k \in 1 .. Len(s) : Padded(s, y)[k] = s[k]
    BY PaddedFacts
  <2>2. \A k \in 1 .. Len(t) : Padded(t, z)[k] = t[k]
    BY PaddedFacts
  <2>3. QED
    BY <1>3, <2>1, <2>2
<1>5. QED
  BY <1>3, <1>4, SameSeq

\* What finish makes of a message.
LEMMA ShaFacts ==
  ASSUME NEW T, Mark \in T, << 0 >> \in T, NEW s \in Seq(T)
  PROVE  \E z \in Nat : \E ctx :
            /\ Absorbed(ctx, Padded(s, z), T)
            /\ SHA!Sha(s) = Append(ctx.h, ctx.buffer \o SHA!len_bytes(ctx.bit_len))
<1>1. DEFINE taken == SHA!update(SHA!Ctx, s)
             marked == SHA!update(taken, <<Mark>>)
             z == SHA!Zeros(Len(marked.buffer))
             padded == SHA!update(marked, Zeroes(z))
<1>2. Absorbed(taken, s, T)
  <2>1. Absorbed(taken, <<>> \o s, T)
    BY AbsorbedNothing, AbsorbedMore
  <2>2. <<>> \o s = s
    OBVIOUS
  <2>3. QED
    BY <2>1, <2>2
<1>3. Absorbed(marked, s \o <<Mark>>, T)
  <2>1. <<Mark>> \in Seq(T)
    OBVIOUS
  <2>2. HIDE DEF taken
  <2>3. QED
    BY <1>2, <2>1, AbsorbedMore
<1>4. z \in Nat
  <2>1. Len(marked.buffer) \in Nat /\ Len(marked.buffer) < BlockSize
    BY <1>3 DEF Absorbed
  <2>2. DEFINE x == Len(marked.buffer)
  <2>3. x \in Nat /\ x < BlockSize
    BY <2>1
  <2>4. HIDE DEF x
  <2>5. 2 * BlockSize - LenSize - x \in Nat /\ BlockSize \in Nat \ {0}
    BY <2>3, BlockAssumption
  <2>6. (2 * BlockSize - LenSize - x) % BlockSize \in Nat
    BY <2>5, DivMod
  <2>7. QED
    BY <2>6 DEF x, SHA!Zeros
<1>5. HIDE DEF z
<1>6. Zeroes(z) \in Seq(T)
  BY <1>4 DEF Zeroes
<1>7. Absorbed(padded, Padded(s, z), T)
  <2>1. HIDE DEF marked
  <2>2. QED
    BY <1>3, <1>6, AbsorbedMore DEF Padded
<1>8. SHA!Sha(s) = Append(padded.h, padded.buffer \o SHA!len_bytes(padded.bit_len))
  BY DEF SHA!Sha, SHA!finish, SHA!Base, Mark, Zeroes, z
<1>9. HIDE DEF padded
<1>10. QED
  BY <1>4, <1>7, <1>8

LEMMA AppendSame ==
  ASSUME NEW S, NEW s \in Seq(S), NEW t \in Seq(S), NEW x, NEW y, Append(s, x) = Append(t, y)
  PROVE  s = t /\ x = y
<1>1. DEFINE U == S \cup {x, y}
<1>2. s \in Seq(U) /\ t \in Seq(U) /\ x \in U /\ y \in U
  OBVIOUS
<1>3. HIDE DEF U
<1>4. DEFINE v == Append(s, x)
<1>5. /\ Len(s) \in Nat /\ Len(v) = Len(s) + 1 /\ v[Len(s) + 1] = x
      /\ \A k \in 1 .. Len(s) : v[k] = s[k]
  BY <1>2, AppendedTo
<1>6. /\ Len(t) \in Nat /\ Len(v) = Len(t) + 1 /\ v[Len(t) + 1] = y
      /\ \A k \in 1 .. Len(t) : v[k] = t[k]
  BY <1>2, AppendedTo
<1>7. HIDE DEF v
<1>8. Len(s) = Len(t)
  BY <1>5, <1>6
<1>9. x = y /\ \A k \in 1 .. Len(s) : s[k] = t[k]
  BY <1>5, <1>6, <1>8
<1>10. QED
  BY <1>8, <1>9, SameSeq

\* Different messages have different padded blocks.
LEMMA ShaInjective ==
  ASSUME NEW T, Mark \in T, << 0 >> \in T, NEW s \in Seq(T), NEW t \in Seq(T), SHA!Sha(s) = SHA!Sha(t)
  PROVE  s = t
<1>1. PICK y \in Nat : \E c : /\ Absorbed(c, Padded(s, y), T)
                              /\ SHA!Sha(s) = Append(c.h, c.buffer \o SHA!len_bytes(c.bit_len))
  BY ShaFacts
<1>2. PICK c : /\ Absorbed(c, Padded(s, y), T)
               /\ SHA!Sha(s) = Append(c.h, c.buffer \o SHA!len_bytes(c.bit_len))
  BY <1>1
<1>3. PICK z \in Nat : \E d : /\ Absorbed(d, Padded(t, z), T)
                              /\ SHA!Sha(t) = Append(d.h, d.buffer \o SHA!len_bytes(d.bit_len))
  BY ShaFacts
<1>4. PICK d : /\ Absorbed(d, Padded(t, z), T)
               /\ SHA!Sha(t) = Append(d.h, d.buffer \o SHA!len_bytes(d.bit_len))
  BY <1>3
<1>5. DEFINE ec == SHA!len_bytes(c.bit_len)
             ed == SHA!len_bytes(d.bit_len)
             U == T \cup {ec[k] : k \in 1 .. LenSize} \cup {ed[k] : k \in 1 .. LenSize}
<1>6. c.h \in Seq(Seq(T)) /\ d.h \in Seq(Seq(T)) /\ c.buffer \in Seq(T) /\ d.buffer \in Seq(T)
  BY <1>2, <1>4 DEF Absorbed
<1>7. ec \in Seq(U) /\ Len(ec) = LenSize
  <2>1. \A k \in 1 .. LenSize : ec[k] \in U
    OBVIOUS
  <2>2. ec = [k \in 1 .. LenSize |-> ec[k]]
    BY DEF SHA!len_bytes
  <2>3. HIDE DEF ec, U
  <2>4. QED
    <3>1. LenSize \in Nat
      BY BlockAssumption
    <3>2. QED
      BY <2>1, <2>2, <3>1, IsTuple, Zenon
<1>8. ed \in Seq(U) /\ Len(ed) = LenSize
  <2>1. \A k \in 1 .. LenSize : ed[k] \in U
    OBVIOUS
  <2>2. ed = [k \in 1 .. LenSize |-> ed[k]]
    BY DEF SHA!len_bytes
  <2>3. HIDE DEF ed, U
  <2>4. QED
    <3>1. LenSize \in Nat
      BY BlockAssumption
    <3>2. QED
      BY <2>1, <2>2, <3>1, IsTuple, Zenon
<1>9. c.buffer \in Seq(U) /\ d.buffer \in Seq(U)
  BY <1>6
<1>10. Append(c.h, c.buffer \o ec) = Append(d.h, d.buffer \o ed)
  BY <1>2, <1>4
<1>11. HIDE DEF ec, ed, U
<1>12. c.h = d.h /\ c.buffer \o ec = d.buffer \o ed
  <2>1. \A f, g \in Seq(Seq(T)) : \A u, v : Append(f, u) = Append(g, v) => f = g /\ u = v
    BY AppendSame
  <2>2. c.h \in Seq(Seq(T)) /\ d.h \in Seq(Seq(T))
    BY <1>6
  <2>3. Append(c.h, c.buffer \o ec) = Append(d.h, d.buffer \o ed)
    BY <1>10, Zenon
  <2>4. \A g \in Seq(Seq(T)) : \A u, v : Append(c.h, u) = Append(g, v) => c.h = g /\ u = v
    BY <2>1, <2>2, Zenon
  <2>5. \A u, v : Append(c.h, u) = Append(d.h, v) => c.h = d.h /\ u = v
    BY <2>4, <2>2, Zenon
  <2>6. QED
    BY <2>3, <2>5, Zenon
<1>13. DEFINE v == c.buffer \o ec
<1>14. /\ Len(c.buffer) \in Nat /\ Len(v) = Len(c.buffer) + LenSize
       /\ \A k \in 1 .. Len(c.buffer) : v[k] = c.buffer[k]
  BY <1>7, <1>9, JoinFacts
<1>15. /\ Len(d.buffer) \in Nat /\ Len(v) = Len(d.buffer) + LenSize
       /\ \A k \in 1 .. Len(d.buffer) : v[k] = d.buffer[k]
  <2>1. v = d.buffer \o ed
    BY <1>12
  <2>2. HIDE DEF v
  <2>3. QED
    BY <1>8, <1>9, <2>1, JoinFacts
<1>16. HIDE DEF v
<1>17. Len(c.buffer) = Len(d.buffer)
  BY <1>14, <1>15, BlockAssumption
<1>18. c.buffer = d.buffer
  BY <1>9, <1>14, <1>15, <1>17, SameSeq
<1>19. Padded(s, y) = Padded(t, z)
  BY <1>2, <1>4, <1>12, <1>18, AbsorbedSame
<1>20. QED
  BY <1>19, PaddedSame

\* Different chunks have different hashes.
LEMMA ChunkHashes ==
  ASSUME NEW S, NEW s \in Seq(S), NEW t \in Seq(S), SHA!Sha(s) = SHA!Sha(t)
  PROVE  s = t
<1>1. DEFINE T == S \cup {Mark, <<0>>}
<1>2. s \in Seq(T) /\ t \in Seq(T) /\ Mark \in T /\ <<0>> \in T
  OBVIOUS
<1>3. HIDE DEF T
<1>4. QED
  BY <1>2, ShaInjective

LEMMA DigestBytesFacts ==
  ASSUME NEW l, NEW r
  PROVE  LET m == SHA!DigestBytes(l) \o SHA!DigestBytes(r)
             size == SHA!DigestLen
         IN  /\ size \in Nat /\ 1 <= size
             /\ m \in Seq({l, r} \X (1 .. size)) /\ Len(m) = size + size
             /\ m[1] = <<l, 1>> /\ m[size + 1] = <<r, 1>>
<1>1. DEFINE size == SHA!DigestLen
             x == SHA!DigestBytes(l)
             y == SHA!DigestBytes(r)
             U == {l, r} \X (1 .. size)
<1>2. size \in Nat /\ 1 <= size
  BY BlockAssumption DEF SHA!DigestLen
<1>3. x = [k \in 1 .. size |-> <<l, k>>] /\ y = [k \in 1 .. size |-> <<r, k>>]
  BY DEF SHA!DigestBytes
<1>4. HIDE DEF size, x, y
<1>5. x \in Seq(U) /\ Len(x) = size /\ x[1] = <<l, 1>>
  BY <1>2, <1>3
<1>6. y \in Seq(U) /\ Len(y) = size /\ y[1] = <<r, 1>>
  BY <1>2, <1>3
<1>7. HIDE DEF U
<1>8. /\ x \o y \in Seq(U) /\ Len(x \o y) = size + size
      /\ \A k \in 1 .. size : (x \o y)[k] = x[k]
      /\ \A k \in 1 .. size : (x \o y)[size + k] = y[k]
  <2>1. x \in Seq(U) /\ y \in Seq(U) /\ Len(x) = size /\ Len(y) = size
    BY <1>5, <1>6
  <2>2. QED
    BY <2>1, JoinFacts
<1>9. (x \o y)[1] = <<l, 1>> /\ (x \o y)[size + 1] = <<r, 1>>
  BY <1>2, <1>5, <1>6, <1>8
<1>10. QED
  BY <1>2, <1>8, <1>9 DEF U, x, y, size

\* Different pairs of digests have different combinations.
LEMMA CombineInjective ==
  ASSUME NEW l, NEW r, NEW u, NEW v, Combine(l, r) = Combine(u, v)
  PROVE  l = u /\ r = v
<1>1. DEFINE size == SHA!DigestLen
             m == SHA!DigestBytes(l) \o SHA!DigestBytes(r)
             w == SHA!DigestBytes(u) \o SHA!DigestBytes(v)
             A == {l, r} \X (1 .. size)
             B == {u, v} \X (1 .. size)
             T == A \cup B \cup {Mark, <<0>>}
<1>2. /\ size \in Nat /\ 1 <= size
      /\ m \in Seq(A) /\ m[1] = <<l, 1>> /\ m[size + 1] = <<r, 1>>
  BY DigestBytesFacts
<1>3. w \in Seq(B) /\ w[1] = <<u, 1>> /\ w[size + 1] = <<v, 1>>
  BY DigestBytesFacts
<1>4. SHA!Sha(m) = SHA!Sha(w)
  BY DEF Combine, SHA!combine
<1>5. HIDE DEF m, w, A, B
<1>6. m \in Seq(T) /\ w \in Seq(T) /\ Mark \in T /\ <<0>> \in T
  BY <1>2, <1>3
<1>7. HIDE DEF T, size
<1>8. m = w
  BY <1>4, <1>6, ShaInjective
<1>9. <<l, 1>> = <<u, 1>> /\ <<r, 1>> = <<v, 1>>
  BY <1>2, <1>3, <1>8
<1>10. QED
  BY <1>9

-----------------------------------------------------------------------------
(* Trees.                                                                   *)

Size(nd) == nd.hi - nd.lo

Half(m) == m \div 2

LEMMA NodeFacts ==
  ASSUME NEW x, Len(x) \in Nat, NEW nd \in MT!Nodes(x)
  PROVE  /\ nd.lo \in Nat /\ nd.hi \in Nat /\ nd.lo < nd.hi /\ nd.hi <= Len(x)
         /\ nd.hi = nd.lo + Size(nd)
         /\ Size(nd) \in Nat /\ 1 <= Size(nd) /\ Size(nd) <= Len(x)
         /\ MT!is_leaf(nd) <=> Size(nd) = 1
         /\ MT!Mid(nd) = nd.lo + Half(Size(nd))
  BY DEF MT!Nodes, Size, Half, MT!is_leaf, MT!Mid

LEMMA ChildFacts ==
  ASSUME NEW x, Len(x) \in Nat, NEW nd \in MT!Nodes(x), ~ MT!is_leaf(nd)
  PROVE  /\ MT!left(nd) \in MT!Nodes(x) /\ MT!right(nd) \in MT!Nodes(x)
         /\ MT!left(nd).lo = nd.lo /\ MT!left(nd).hi = nd.lo + Half(Size(nd))
         /\ MT!right(nd).lo = nd.lo + Half(Size(nd)) /\ MT!right(nd).hi = nd.hi
         /\ Size(MT!left(nd)) = Half(Size(nd)) /\ Size(MT!right(nd)) = Size(nd) - Half(Size(nd))
         /\ Half(Size(nd)) \in Nat /\ 1 <= Half(Size(nd)) /\ Half(Size(nd)) < Size(nd)
<1>1. DEFINE lo == nd.lo
             hi == nd.hi
             m == Size(nd)
             h == Half(m)
<1>2. /\ lo \in Nat /\ hi \in Nat /\ hi <= Len(x) /\ m \in Nat /\ 2 <= m /\ hi = lo + m
      /\ MT!Mid(nd) = lo + h
  BY NodeFacts
<1>3. HIDE DEF m
<1>4. h \in Nat /\ 1 <= h /\ h < m
  BY <1>2 DEF Half
<1>5. MT!left(nd) = [lo |-> lo, hi |-> lo + h] /\ MT!right(nd) = [lo |-> lo + h, hi |-> hi]
  BY <1>2 DEF MT!left, MT!right, MT!Node
<1>6. HIDE DEF h, lo, hi
<1>7. lo + h \in 0 .. Len(x) /\ lo \in 0 .. Len(x) /\ hi \in 0 .. Len(x) /\ lo < lo + h /\ lo + h < hi
  BY <1>2, <1>4
<1>8. MT!left(nd) \in MT!Nodes(x) /\ MT!right(nd) \in MT!Nodes(x)
  BY <1>5, <1>7 DEF MT!Nodes
<1>9. Size(MT!left(nd)) = h /\ Size(MT!right(nd)) = m - h
  BY <1>2, <1>4, <1>5 DEF Size
<1>10. QED
  BY <1>4, <1>5, <1>8, <1>9 DEF h, lo, hi, m

\* What build_recursive computes at a node from a table f of digests.
Rule(x, f, nd) ==
  IF MT!is_leaf(nd) THEN x[nd.lo + 1] ELSE Combine(f[MT!left(nd)], f[MT!right(nd)])

LEMMA BuildEq ==
  ASSUME NEW x, Len(x) \in Nat
  PROVE  \A nd \in MT!Nodes(x) : MT!build(x)[nd] = Rule(x, MT!build(x), nd)
<1>1. DEFINE N == MT!Nodes(x)
             Upto(f, m) == f = [nd \in N |-> IF Size(nd) <= m THEN Rule(x, f, nd) ELSE <<>>]
             S == {m \in 0 .. Len(x) : \E f : Upto(f, m)}
<1>2. 0 \in S
  <2>1. DEFINE f == [nd \in N |-> <<>>]
  <2>2. \A nd \in N : ~ (Size(nd) <= 0)
    BY NodeFacts
  <2>3. [nd \in N |-> IF Size(nd) <= 0 THEN Rule(x, f, nd) ELSE <<>>] = f
    BY <2>2
  <2>4. QED
    BY <2>3
<1>3. ASSUME NEW m \in 1 .. Len(x), m - 1 \in S
      PROVE  m \in S
  <2>1. PICK f : Upto(f, m - 1)
    BY <1>3
  <2>2. DEFINE g == [nd \in N |-> IF Size(nd) <= m THEN Rule(x, f, nd) ELSE <<>>]
  <2>3. ASSUME NEW nd \in N, Size(nd) <= m - 1
        PROVE  g[nd] = f[nd]
    <3>1. Size(nd) <= m
      BY <2>3, NodeFacts
    <3>2. f[nd] = Rule(x, f, nd)
      BY <2>1, <2>3
    <3>3. QED
      BY <3>1, <3>2
  <2>4. ASSUME NEW nd \in N, Size(nd) <= m
        PROVE  Rule(x, g, nd) = Rule(x, f, nd)
    <3>1. CASE MT!is_leaf(nd)
      BY <3>1 DEF Rule
    <3>2. CASE ~ MT!is_leaf(nd)
      <4>1. /\ MT!left(nd) \in N /\ MT!right(nd) \in N
            /\ Size(MT!left(nd)) <= m - 1 /\ Size(MT!right(nd)) <= m - 1
        BY <2>4, <3>2, ChildFacts, NodeFacts
      <4>2. g[MT!left(nd)] = f[MT!left(nd)] /\ g[MT!right(nd)] = f[MT!right(nd)]
        BY <2>3, <4>1
      <4>3. HIDE DEF g
      <4>4. QED
        BY <3>2, <4>2 DEF Rule
    <3>3. QED
      BY <3>1, <3>2
  <2>5. [nd \in N |-> IF Size(nd) <= m THEN Rule(x, g, nd) ELSE <<>>] = g
    <3>1. \A nd \in N : (IF Size(nd) <= m THEN Rule(x, g, nd) ELSE <<>>)
                         = (IF Size(nd) <= m THEN Rule(x, f, nd) ELSE <<>>)
      BY <2>4
    <3>2. QED
      BY <3>1
  <2>6. HIDE DEF g
  <2>7. Upto(g, m)
    BY <2>5
  <2>8. HIDE DEF Upto
  <2>9. QED
    BY <2>7
<1>4. Len(x) \in S
  <2>1. HIDE DEF S
  <2>2. Len(x) \in 0 .. Len(x)
    OBVIOUS
  <2>3. QED
    BY <1>2, <1>3, <2>2, UpToBound
<1>5. PICK f : Upto(f, Len(x))
  BY <1>4
<1>6. \A nd \in N : Size(nd) <= Len(x)
  BY NodeFacts
<1>7. f = [nd \in N |-> Rule(x, f, nd)]
  <2>1. [nd \in N |-> IF Size(nd) <= Len(x) THEN Rule(x, f, nd) ELSE <<>>] = [nd \in N |-> Rule(x, f, nd)]
    BY <1>6
  <2>2. QED
    BY <1>5, <2>1
<1>8. DEFINE d == CHOOSE g : g = [nd \in N |-> Rule(x, g, nd)]
<1>9. d = [nd \in N |-> Rule(x, d, nd)]
  BY <1>7
<1>10. MT!build(x) = d
  BY DEF MT!build, Rule
<1>11. HIDE DEF d
<1>12. QED
  BY <1>9, <1>10

\* The subtrees nd of x and md of y have the same leaves.
SameLeaves(x, nd, y, md) ==
  Size(nd) = Size(md) /\ \A k \in 1 .. Size(nd) : x[nd.lo + k] = y[md.lo + k]

LEMMA HalvesDecide ==
  ASSUME NEW x, NEW y, Len(x) \in Nat, Len(y) \in Nat, NEW nd \in MT!Nodes(x), NEW md \in MT!Nodes(y),
         ~ MT!is_leaf(nd), ~ MT!is_leaf(md)
  PROVE  SameLeaves(x, nd, y, md) <=> /\ SameLeaves(x, MT!left(nd), y, MT!left(md))
                                      /\ SameLeaves(x, MT!right(nd), y, MT!right(md))
<1>1. DEFINE s == Size(nd)
             t == Size(md)
             h == Half(s)
             g == Half(t)
             p == nd.lo
             q == md.lo
             L == SameLeaves(x, MT!left(nd), y, MT!left(md))
             R == SameLeaves(x, MT!right(nd), y, MT!right(md))
<1>2. s \in Nat /\ t \in Nat /\ h \in Nat /\ g \in Nat /\ h < s /\ g < t /\ p \in Nat /\ q \in Nat
  BY NodeFacts, ChildFacts
<1>3. L <=> h = g /\ \A k \in 1 .. h : x[p + k] = y[q + k]
  BY ChildFacts DEF SameLeaves
<1>4. R <=> s - h = t - g /\ \A k \in 1 .. s - h : x[p + h + k] = y[q + g + k]
  BY ChildFacts DEF SameLeaves
<1>5. SameLeaves(x, nd, y, md) <=> s = t /\ \A k \in 1 .. s : x[p + k] = y[q + k]
  BY DEF SameLeaves
<1>6. s = t => h = g
  OBVIOUS
<1>7. HIDE DEF s, t, h, g, p, q, L, R
<1>8. ASSUME s = t, \A k \in 1 .. s : x[p + k] = y[q + k]
      PROVE  L /\ R
  <2>1. \A k \in 1 .. h : x[p + k] = y[q + k]
    BY <1>2, <1>8
  <2>2. ASSUME NEW k \in 1 .. s - h
        PROVE  x[p + h + k] = y[q + g + k]
    <3>1. h + k \in 1 .. s /\ p + (h + k) = p + h + k /\ q + (h + k) = q + g + k
      BY <1>2, <1>6, <1>8
    <3>2. x[p + (h + k)] = y[q + (h + k)]
      BY <1>8, <3>1
    <3>3. QED
      BY <3>1, <3>2
  <2>3. h = g /\ s - h = t - g
    BY <1>6, <1>8
  <2>4. QED
    BY <1>3, <1>4, <2>1, <2>2, <2>3
<1>9. ASSUME L, R
      PROVE  s = t /\ \A k \in 1 .. s : x[p + k] = y[q + k]
  <2>1. h = g /\ s - h = t - g
    BY <1>3, <1>4, <1>9
  <2>2. s = t
    BY <1>2, <2>1
  <2>3. ASSUME NEW k \in 1 .. s
        PROVE  x[p + k] = y[q + k]
    <3>1. CASE k <= h
      <4>1. k \in 1 .. h
        BY <1>2, <3>1
      <4>2. QED
        BY <1>3, <1>9, <4>1
    <3>2. CASE k > h
      <4>1. DEFINE m == k - h
      <4>2. m \in 1 .. s - h /\ p + h + m = p + k /\ q + g + m = q + k
        BY <1>2, <2>1, <3>2
      <4>3. HIDE DEF m
      <4>4. x[p + h + m] = y[q + g + m]
        BY <1>4, <1>9, <4>2
      <4>5. QED
        BY <4>2, <4>4
    <3>3. QED
      BY <1>2, <3>1, <3>2
  <2>4. QED
    BY <2>2, <2>3
<1>10. SameLeaves(x, nd, y, md) <=> (L /\ R)
  BY <1>5, <1>8, <1>9
<1>11. QED
  BY <1>10 DEF L, R

\* x are hashes of chunks.
ChunkHashesOf(x) == /\ Len(x) \in Nat
                    /\ \A k \in 1 .. Len(x) : \E s \in Seq(Byte) : x[k] = SHA!Sha(s)

\* Two subtrees of the same size have the same digest exactly when they have the
\* same leaves.
LEMMA TreeDecides ==
  ASSUME NEW x, NEW y, ChunkHashesOf(x), ChunkHashesOf(y), NEW nd \in MT!Nodes(x),
         NEW md \in MT!Nodes(y), Size(nd) = Size(md)
  PROVE  MT!build(x)[nd] = MT!build(y)[md] <=> SameLeaves(x, nd, y, md)
<1>1. DEFINE X == MT!Nodes(x)
             Y == MT!Nodes(y)
             Decided(u, v) == MT!build(x)[u] = MT!build(y)[v] <=> SameLeaves(x, u, y, v)
             S == {m \in 0 .. Len(x) :
                     \A u \in X, v \in Y : Size(u) <= m /\ Size(u) = Size(v) => Decided(u, v)}
<1>2. Len(x) \in Nat /\ Len(y) \in Nat
  BY DEF ChunkHashesOf
<1>3. 0 \in S
  <2>1. \A u \in X : ~ (Size(u) <= 0)
    BY <1>2, NodeFacts
  <2>2. QED
    BY <1>2, <2>1
<1>4. ASSUME NEW m \in 1 .. Len(x), m - 1 \in S
      PROVE  m \in S
  <2>1. \A u \in X, v \in Y : Size(u) <= m - 1 /\ Size(u) = Size(v) => Decided(u, v)
    BY <1>4
  <2>2. ASSUME NEW u \in X, NEW v \in Y, Size(u) <= m, Size(u) = Size(v)
        PROVE  Decided(u, v)
    <3>1. CASE MT!is_leaf(u)
      <4>1. Size(u) = 1 /\ Size(v) = 1 /\ MT!is_leaf(v)
        BY <1>2, <2>2, <3>1, NodeFacts
      <4>2. MT!build(x)[u] = x[u.lo + 1] /\ MT!build(y)[v] = y[v.lo + 1]
        BY <1>2, <3>1, <4>1, BuildEq DEF Rule
      <4>3. SameLeaves(x, u, y, v) <=> x[u.lo + 1] = y[v.lo + 1]
        BY <4>1 DEF SameLeaves
      <4>4. QED
        BY <4>2, <4>3
    <3>2. CASE ~ MT!is_leaf(u)
      <4>1. ~ MT!is_leaf(v)
        BY <1>2, <2>2, <3>2, NodeFacts
      <4>2. /\ MT!build(x)[u] = Combine(MT!build(x)[MT!left(u)], MT!build(x)[MT!right(u)])
            /\ MT!build(y)[v] = Combine(MT!build(y)[MT!left(v)], MT!build(y)[MT!right(v)])
        BY <1>2, <3>2, <4>1, BuildEq DEF Rule
      <4>3. MT!build(x)[u] = MT!build(y)[v] <=>
              /\ MT!build(x)[MT!left(u)] = MT!build(y)[MT!left(v)]
              /\ MT!build(x)[MT!right(u)] = MT!build(y)[MT!right(v)]
        BY <4>2, CombineInjective
      <4>4. /\ MT!left(u) \in X /\ MT!right(u) \in X
            /\ Size(MT!left(u)) = Half(Size(u)) /\ Size(MT!right(u)) = Size(u) - Half(Size(u))
            /\ Size(MT!left(u)) <= m - 1 /\ Size(MT!right(u)) <= m - 1
        BY <1>2, <2>2, <3>2, ChildFacts, NodeFacts
      <4>5. /\ MT!left(v) \in Y /\ MT!right(v) \in Y
            /\ Size(MT!left(v)) = Half(Size(v)) /\ Size(MT!right(v)) = Size(v) - Half(Size(v))
        BY <1>2, <4>1, ChildFacts
      <4>6. Decided(MT!left(u), MT!left(v)) /\ Decided(MT!right(u), MT!right(v))
        BY <2>1, <2>2, <4>4, <4>5
      <4>7. QED
        BY <1>2, <3>2, <4>1, <4>3, <4>6, HalvesDecide
    <3>3. QED
      BY <3>1, <3>2
  <2>3. m \in 0 .. Len(x)
    BY <1>2
  <2>4. HIDE DEF Decided
  <2>5. QED
    BY <2>2, <2>3
<1>5. Len(x) \in S
  <2>1. HIDE DEF S
  <2>2. Len(x) \in 0 .. Len(x)
    BY <1>2
  <2>3. QED
    BY <1>2, <1>3, <1>4, <2>2, UpToBound
<1>6. Size(nd) <= Len(x)
  BY <1>2, NodeFacts
<1>7. QED
  BY <1>5, <1>6

LEMMA HashesFacts ==
  ASSUME NEW cs, NEW f, IsChunking(cs, f)
  PROVE  /\ ChunkHashesOf(Hashes(cs)) /\ Len(Hashes(cs)) = Len(cs)
         /\ Hashes(cs) = [k \in 1 .. Len(cs) |-> SHA!Sha(cs[k].data)]
         /\ Hashes(cs) \in Seq({SHA!Sha(s) : s \in Seq(Byte)})
<1>1. DEFINE D == {SHA!Sha(s) : s \in Seq(Byte)}
             x == Hashes(cs)
<1>2. Len(cs) \in Nat /\ DOMAIN cs = 1 .. Len(cs)
  BY OffsetFacts
<1>3. x = [k \in 1 .. Len(cs) |-> SHA!Sha(cs[k].data)]
  BY <1>2 DEF Hashes
<1>4. \A k \in 1 .. Len(cs) : cs[k].data \in Seq(Byte)
  BY <1>2, ChunkFacts
<1>5. \A k \in 1 .. Len(cs) : x[k] = SHA!Sha(cs[k].data) /\ x[k] \in D
  BY <1>3, <1>4
<1>6. x = [k \in 1 .. Len(cs) |-> x[k]]
  BY <1>3, <1>5
<1>7. \A k \in 1 .. Len(cs) : x[k] \in D
  BY <1>5
<1>8. HIDE DEF x, D
<1>9. x \in Seq(D) /\ Len(x) = Len(cs)
  BY <1>2, <1>6, <1>7, IsTuple
<1>10. ChunkHashesOf(x)
  <2>1. \A k \in 1 .. Len(x) : \E s \in Seq(Byte) : x[k] = SHA!Sha(s)
    BY <1>4, <1>5, <1>9
  <2>2. QED
    BY <1>2, <1>9, <2>1 DEF ChunkHashesOf
<1>11. QED
  BY <1>3, <1>9, <1>10 DEF x, D

\* The chunk hashes tell files apart.
LEMMA HashesDecide ==
  ASSUME NEW cs, NEW f, NEW ds, NEW g, IsChunking(cs, f), IsChunking(ds, g)
  PROVE  Hashes(cs) = Hashes(ds) <=> f = g
<1>1. ASSUME f = g
      PROVE  Hashes(cs) = Hashes(ds)
  BY <1>1, SameFile
<1>2. ASSUME Hashes(cs) = Hashes(ds)
      PROVE  f = g
  <2>1. Len(cs) = Len(ds)
    BY <1>2, HashesFacts
  <2>2. Len(cs) \in Nat /\ DOMAIN cs = 1 .. Len(cs) /\ DOMAIN ds = 1 .. Len(cs)
    BY <2>1, OffsetFacts
  <2>3. ASSUME NEW k \in DOMAIN cs
        PROVE  cs[k].data = ds[k].data
    <3>1. cs[k].data \in Seq(Byte) /\ ds[k].data \in Seq(Byte)
      BY <2>2, ChunkFacts
    <3>2. Hashes(cs)[k] = SHA!Sha(cs[k].data)
      BY <2>2, HashesFacts
    <3>3. Hashes(ds)[k] = SHA!Sha(ds[k].data)
      BY <2>1, <2>2, HashesFacts
    <3>4. SHA!Sha(cs[k].data) = SHA!Sha(ds[k].data)
      BY <1>2, <3>2, <3>3
    <3>5. QED
      BY <3>1, <3>4, ChunkHashes
  <2>4. QED
    BY <2>1, <2>3, SameContent
<1>3. QED
  BY <1>1, <1>2

\* The roots tell sequences of equally many chunk hashes apart.
LEMMA RootsDecide ==
  ASSUME NEW D, NEW x \in Seq(D), NEW y \in Seq(D), ChunkHashesOf(x), ChunkHashesOf(y),
         x # <<>>, Len(x) = Len(y)
  PROVE  MT!build(x)[MT!Root(x)] = MT!build(y)[MT!Root(y)] <=> x = y
<1>1. Len(x) \in Nat /\ Len(y) \in Nat /\ Len(x) # 0 /\ Len(y) # 0
  OBVIOUS
<1>2. MT!Root(x) = [lo |-> 0, hi |-> Len(x)] /\ MT!Root(y) = [lo |-> 0, hi |-> Len(y)]
  BY DEF MT!Root, MT!Node
<1>3. MT!Root(x) \in MT!Nodes(x) /\ MT!Root(y) \in MT!Nodes(y)
  BY <1>1, <1>2 DEF MT!Nodes
<1>4. Size(MT!Root(x)) = Len(x) /\ Size(MT!Root(y)) = Len(y)
  BY <1>1, <1>2 DEF Size
<1>5. SameLeaves(x, MT!Root(x), y, MT!Root(y)) <=> Len(x) = Len(y) /\ \A k \in 1 .. Len(x) : x[k] = y[k]
  <2>1. \A k \in 1 .. Len(x) : 0 + k = k
    BY <1>1
  <2>2. MT!Root(x).lo = 0 /\ MT!Root(y).lo = 0
    BY <1>2
  <2>3. QED
    BY <1>4, <2>1, <2>2 DEF SameLeaves
<1>6. SameLeaves(x, MT!Root(x), y, MT!Root(y)) <=> x = y
  BY <1>5, SameSeq
<1>7. QED
  BY <1>3, <1>4, <1>6, TreeDecides

LEMMA VInvRoots ==
  ASSUME VInv
  PROVE  RootDecides
<1>1. SUFFICES ASSUME phase = "diff", a # <<>>, Len(a) = Len(b)
               PROVE  MT!SameRoot <=> old = data
  BY DEF RootDecides
<1>2. IsChunking(prev, old) /\ IsChunking(chunks, data) /\ a = Hashes(prev) /\ b = Hashes(chunks)
  BY <1>1, ReturnedChunking DEF VInv
<1>3. DEFINE D == {SHA!Sha(s) : s \in Seq(Byte)}
<1>4. a \in Seq(D) /\ b \in Seq(D) /\ ChunkHashesOf(a) /\ ChunkHashesOf(b)
  BY <1>2, HashesFacts
<1>5. a = b <=> old = data
  BY <1>2, HashesDecide
<1>6. HIDE DEF D
<1>7. MT!SameRoot <=> a = b
  BY <1>1, <1>4, RootsDecide DEF MT!SameRoot
<1>8. QED
  BY <1>5, <1>7

\* For any two versions of a file with equally many chunks, the roots match exactly
\* when the files are identical (merkle_tree.hpp): the root of a tree of known size
\* stands for one sequence of chunk hashes, these for one sequence of chunks, and
\* these for one file, whatever bytes files consist of, those of digests included;
\* as far as the compression of a block can be told from that of another.
THEOREM RootDecidesHolds == IngestSpec => []RootDecides
<1>1. VInv => RootDecides
  BY VInvRoots
<1>2. QED
  BY <1>1, VInvInit, VInvStep, PTL DEF IngestSpec

\* A file of one chunk is that chunk.
LEMMA OneChunk ==
  ASSUME NEW cs, NEW f, IsChunking(cs, f), Len(cs) = 1
  PROVE  1 \in DOMAIN cs /\ cs[1].data = f /\ f \in Seq(Byte)
<1>1. /\ DOMAIN cs = 1 .. 1 /\ cs[1].offset = OffsetOf(cs, 1) /\ EndOf(cs[1]) = Len(f)
  BY OffsetFacts
<1>2. 1 \in DOMAIN cs
  BY <1>1
<1>3. /\ f \in Seq(Byte) /\ Len(f) \in Nat /\ cs[1].data \in Seq(Byte) /\ cs[1].offset = 0
      /\ EndOf(cs[1]) = cs[1].offset + Len(cs[1].data)
      /\ \A m \in 1 .. Len(cs[1].data) : cs[1].data[m] = f[cs[1].offset + m]
  BY <1>2, ChunkFacts DEF OffsetOf
<1>4. Len(cs[1].data) = Len(f)
  BY <1>1, <1>3
<1>5. \A m \in 1 .. Len(f) : cs[1].data[m] = f[m]
  BY <1>3, <1>4
<1>6. cs[1].data = f
  BY <1>3, <1>4, <1>5
<1>7. QED
  BY <1>2, <1>3, <1>6

\* A message has the digest of a node exactly when it consists of the node's halves.
LEMMA MessageOrNode ==
  ASSUME NEW f \in Seq(Byte), NEW l, NEW r
  PROVE  SHA!Sha(f) = Combine(l, r) <=> f = SHA!DigestBytes(l) \o SHA!DigestBytes(r)
<1>1. DEFINE m == SHA!DigestBytes(l) \o SHA!DigestBytes(r)
             A == {l, r} \X (1 .. SHA!DigestLen)
             T == A \cup Byte
<1>2. m \in Seq(A)
  BY DigestBytesFacts
<1>3. Combine(l, r) = SHA!Sha(m)
  BY DEF Combine, SHA!combine
<1>4. HIDE DEF m, A
<1>5. m \in Seq(T) /\ f \in Seq(T)
  BY <1>2
<1>6. HIDE DEF T
<1>7. SHA!Sha(f) = SHA!Sha(m) <=> f = m
  BY <1>5, ChunkHashes
<1>8. QED
  BY <1>3, <1>7 DEF m

LEMMA VInvDigests ==
  ASSUME VInv
  PROVE  RootOfDigests
<1>1. DEFINE l == MT!build(a)[MT!left(MT!Root(a))]
             r == MT!build(a)[MT!right(MT!Root(a))]
<1>2. SUFFICES ASSUME phase = "diff", Len(a) > 1, Len(b) = 1
               PROVE  MT!SameRoot <=> data = SHA!DigestBytes(l) \o SHA!DigestBytes(r)
  BY DEF RootOfDigests
<1>3. IsChunking(prev, old) /\ IsChunking(chunks, data) /\ a = Hashes(prev) /\ b = Hashes(chunks)
  BY <1>2, ReturnedChunking DEF VInv
<1>4. Len(a) \in Nat /\ Len(b) \in Nat /\ Len(chunks) = 1
  BY <1>2, <1>3, HashesFacts DEF ChunkHashesOf
<1>5. b[1] = SHA!Sha(data) /\ data \in Seq(Byte)
  <2>1. b = [k \in 1 .. Len(chunks) |-> SHA!Sha(chunks[k].data)]
    BY <1>3, HashesFacts
  <2>2. b[1] = SHA!Sha(chunks[1].data)
    BY <1>4, <2>1
  <2>3. QED
    BY <1>3, <1>4, <2>2, OneChunk
<1>6. /\ MT!Root(a) \in MT!Nodes(a) /\ ~ MT!is_leaf(MT!Root(a))
      /\ MT!Root(b) \in MT!Nodes(b) /\ MT!is_leaf(MT!Root(b)) /\ MT!Root(b).lo = 0
  <2>1. MT!Root(a) = [lo |-> 0, hi |-> Len(a)] /\ MT!Root(b) = [lo |-> 0, hi |-> Len(b)]
    BY DEF MT!Root, MT!Node
  <2>2. MT!Root(a) \in MT!Nodes(a) /\ MT!Root(b) \in MT!Nodes(b)
    BY <1>2, <1>4, <2>1 DEF MT!Nodes
  <2>3. ~ MT!is_leaf(MT!Root(a)) /\ MT!is_leaf(MT!Root(b))
    BY <1>2, <1>4, <2>1 DEF MT!is_leaf
  <2>4. QED
    BY <2>1, <2>2, <2>3
<1>7. MT!build(a)[MT!Root(a)] = Combine(l, r)
  BY <1>4, <1>6, BuildEq DEF Rule
<1>8. MT!build(b)[MT!Root(b)] = b[1]
  <2>1. MT!build(b)[MT!Root(b)] = b[0 + 1]
    BY <1>4, <1>6, BuildEq DEF Rule
  <2>2. QED
    BY <2>1
<1>9. HIDE DEF l, r
<1>10. SHA!Sha(data) = Combine(l, r) <=> data = SHA!DigestBytes(l) \o SHA!DigestBytes(r)
  BY <1>5, MessageOrNode
<1>11. QED
  BY <1>5, <1>7, <1>8, <1>10 DEF MT!SameRoot

\* Among files of any content and any number of chunks, one of a single chunk has
\* the root of a larger tree exactly when it consists of the digests of that tree's
\* halves (merkle_tree.cpp, sha256::combine): the root alone, without the number of
\* chunks, does not stand for one file.
THEOREM RootOfDigestsHolds == IngestSpec => []RootOfDigests
<1>1. VInv => RootOfDigests
  BY VInvDigests
<1>2. QED
  BY <1>1, VInvInit, VInvStep, PTL DEF IngestSpec

-----------------------------------------------------------------------------
(* The walk of diff_leaf_indices.                                           *)

Pair(nd) == [a |-> nd, b |-> nd]

\* The calls left on the stack s compare the same nodes of both trees, and cover
\* the leaves from pos to the end.
Stacked(s, N, len, pos) ==
  /\ s \in Seq({Pair(nd) : nd \in N})
  /\ \A k \in 1 .. Len(s) : s[k].a.hi = IF k = 1 THEN len ELSE s[k - 1].a.lo
  /\ pos = IF Len(s) = 0 THEN len ELSE s[Len(s)].a.lo

LEMMA StackedNone ==
  ASSUME NEW N, NEW len
  PROVE  Stacked(<<>>, N, len, len)
  BY DEF Stacked

LEMMA StackedEmpty ==
  ASSUME NEW N, NEW len, NEW pos, Stacked(<<>>, N, len, pos)
  PROVE  pos = len
  BY DEF Stacked

LEMMA Popped ==
  ASSUME NEW s, NEW N, NEW len, NEW pos, Stacked(s, N, len, pos), s # <<>>
  PROVE  \E nd \in N : /\ MT!Last(s) = Pair(nd) /\ nd.lo = pos
                       /\ Stacked(MT!Front(s), N, len, nd.hi)
<1>1. DEFINE P == {Pair(nd) : nd \in N}
             m == Len(s)
             f == MT!Front(s)
<1>2. s \in Seq(P) /\ m \in Nat /\ m # 0
  BY DEF Stacked
<1>3. /\ \A k \in 1 .. m : s[k].a.hi = IF k = 1 THEN len ELSE s[k - 1].a.lo
      /\ pos = s[m].a.lo
  BY <1>2 DEF Stacked
<1>4. PICK nd \in N : s[m] = Pair(nd)
  BY <1>2
<1>5. MT!Last(s) = Pair(nd)
  BY <1>4 DEF MT!Last
<1>6. s[m].a = nd
  BY <1>4 DEF Pair
<1>7. f = SubSeq(s, 0 + 1, m - 1)
  BY DEF MT!Front
<1>8. HIDE DEF P, m, f
<1>9. /\ f \in Seq(P) /\ Len(f) = m - 1
      /\ \A k \in 1 .. m - 1 : f[k] = s[k]
  <2>1. 0 <= m - 1 /\ m - 1 <= Len(s) /\ m - 1 \in Nat /\ (m - 1) - 0 = m - 1 /\ s \in Seq(P)
    BY <1>2 DEF m
  <2>2. /\ SubSeq(s, 0 + 1, m - 1) \in Seq(P) /\ Len(SubSeq(s, 0 + 1, m - 1)) = (m - 1) - 0
        /\ \A k \in 1 .. (m - 1) - 0 : SubSeq(s, 0 + 1, m - 1)[k] = s[0 + k]
    BY <2>1, PieceFacts
  <2>3. \A k \in 1 .. m - 1 : 0 + k = k
    BY <2>1
  <2>4. QED
    BY <1>7, <2>1, <2>2, <2>3
<1>10. \A k \in 1 .. Len(f) : f[k].a.hi = IF k = 1 THEN len ELSE f[k - 1].a.lo
  <2>1. SUFFICES ASSUME NEW k \in 1 .. m - 1
                 PROVE  f[k].a.hi = IF k = 1 THEN len ELSE f[k - 1].a.lo
    BY <1>9
  <2>2. k \in 1 .. m /\ f[k] = s[k]
    BY <1>2, <1>9
  <2>3. k # 1 => f[k - 1] = s[k - 1]
    <3>1. k # 1 => k - 1 \in 1 .. m - 1
      BY <1>2
    <3>2. QED
      BY <1>9, <3>1
  <2>4. QED
    BY <1>3, <2>2, <2>3
<1>11. nd.hi = IF Len(f) = 0 THEN len ELSE f[Len(f)].a.lo
  <2>1. nd.hi = IF m = 1 THEN len ELSE s[m - 1].a.lo
    BY <1>2, <1>3, <1>6
  <2>2. m # 1 => m - 1 \in 1 .. m - 1
    BY <1>2
  <2>3. m = 1 <=> m - 1 = 0
    BY <1>2
  <2>4. QED
    BY <1>9, <2>1, <2>2, <2>3
<1>12. Stacked(f, N, len, nd.hi)
  BY <1>9, <1>10, <1>11 DEF Stacked, P
<1>13. nd.lo = pos
  BY <1>3, <1>6
<1>14. QED
  BY <1>5, <1>12, <1>13 DEF f

LEMMA Pushed ==
  ASSUME NEW s, NEW N, NEW len, NEW nd \in N, Stacked(s, N, len, nd.hi)
  PROVE  Stacked(Append(s, Pair(nd)), N, len, nd.lo)
<1>1. DEFINE P == {Pair(u) : u \in N}
             e == Pair(nd)
             t == Append(s, e)
             m == Len(s)
<1>2. s \in Seq(P) /\ e \in P
  BY DEF Stacked
<1>3. /\ \A k \in 1 .. m : s[k].a.hi = IF k = 1 THEN len ELSE s[k - 1].a.lo
      /\ nd.hi = IF m = 0 THEN len ELSE s[m].a.lo
  BY DEF Stacked
<1>4. e.a = nd
  BY DEF Pair
<1>5. HIDE DEF P, e
<1>6. /\ m \in Nat /\ Len(t) = m + 1 /\ t[m + 1] = e /\ t \in Seq(P)
      /\ \A k \in 1 .. m : t[k] = s[k]
  BY <1>2, AppendedTo
<1>7. HIDE DEF t, m
<1>8. ASSUME NEW k \in 1 .. m + 1
      PROVE  t[k].a.hi = IF k = 1 THEN len ELSE t[k - 1].a.lo
  <2>1. CASE k = m + 1
    <3>1. t[k].a.hi = nd.hi
      BY <1>4, <1>6, <2>1
    <3>2. CASE m = 0
      BY <1>3, <2>1, <3>1, <3>2
    <3>3. CASE m # 0
      <4>1. k - 1 = m /\ k # 1 /\ m \in 1 .. m
        BY <1>6, <2>1, <3>3
      <4>2. t[k - 1] = s[m]
        BY <1>6, <4>1
      <4>3. QED
        BY <1>3, <3>1, <3>3, <4>1, <4>2
    <3>4. QED
      BY <3>2, <3>3
  <2>2. CASE k # m + 1
    <3>1. k \in 1 .. m /\ (k # 1 => k - 1 \in 1 .. m)
      BY <1>6, <2>2
    <3>2. t[k] = s[k] /\ (k # 1 => t[k - 1] = s[k - 1])
      BY <1>6, <3>1
    <3>3. QED
      BY <1>3, <3>1, <3>2
  <2>3. QED
    BY <2>1, <2>2
<1>9. nd.lo = IF Len(t) = 0 THEN len ELSE t[Len(t)].a.lo
  BY <1>4, <1>6
<1>10. Stacked(t, N, len, nd.lo)
  BY <1>6, <1>8, <1>9 DEF Stacked, P
<1>11. QED
  BY <1>10 DEF t, e

\* out holds the changed leaves before pos, in order.
Found(o, pos) ==
  /\ o \in Seq(Nat)
  /\ \A k, l \in 1 .. Len(o) : k < l => o[k] < o[l]
  /\ \A k \in 1 .. Len(o) : o[k] \in MT!Changed /\ o[k] < pos
  /\ \A c \in MT!Changed : c < pos => \E k \in 1 .. Len(o) : o[k] = c

WalkInv ==
  phase = "diff" =>
    IF Len(a) = Len(b)
    THEN \E pos \in 0 .. Len(a) : Stacked(stack, MT!Nodes(a), Len(a), pos) /\ Found(out, pos)
    ELSE stack = <<>> /\ out = <<>>

DInv == VInv /\ (phase # "diff" => stack = <<>> /\ out = <<>> /\ visited = 0) /\ WalkInv

\* What the hashes compared are.
Compared ==
  /\ Len(a) = Len(b) /\ Len(a) \in Nat /\ ChunkHashesOf(a) /\ ChunkHashesOf(b)

LEMMA ChangedFacts ==
  ASSUME Compared
  PROVE  /\ \A c \in MT!Changed : c \in Nat /\ c < Len(a)
         /\ \A c \in 0 .. Len(a) - 1 : c \in MT!Changed <=> a[c + 1] # b[c + 1]
  BY DEF Compared, MT!Changed

LEMMA FoundNothing ==
  ASSUME Compared
  PROVE  Found(<<>>, 0)
<1>1. \A c \in MT!Changed : ~ (c < 0)
  BY ChangedFacts
<1>2. QED
  BY <1>1 DEF Found

\* No leaf from pos to next changed.
LEMMA FoundNoMore ==
  ASSUME NEW o, NEW pos \in Nat, NEW next \in Nat, pos <= next, Found(o, pos), Compared,
         \A c \in MT!Changed : c < next => c < pos
  PROVE  Found(o, next)
<1>1. \A c \in MT!Changed : c \in Nat
  BY ChangedFacts
<1>2. \A c \in MT!Changed : c < pos => c < next
  BY <1>1
<1>3. QED
  BY <1>2 DEF Found

LEMMA FoundOneMore ==
  ASSUME NEW o, NEW pos \in MT!Changed, Found(o, pos), Compared
  PROVE  Found(Append(o, pos), pos + 1)
<1>1. DEFINE p == Append(o, pos)
             m == Len(o)
<1>2. pos \in Nat /\ \A c \in MT!Changed : c \in Nat
  BY ChangedFacts
<1>3. o \in Seq(Nat)
  BY DEF Found
<1>4. /\ m \in Nat /\ Len(p) = m + 1 /\ p[m + 1] = pos /\ p \in Seq(Nat)
      /\ \A k \in 1 .. m : p[k] = o[k]
  BY <1>2, <1>3, AppendedTo
<1>5. /\ \A k, l \in 1 .. m : k < l => o[k] < o[l]
      /\ \A k \in 1 .. m : o[k] \in MT!Changed /\ o[k] < pos
      /\ \A c \in MT!Changed : c < pos => \E k \in 1 .. m : o[k] = c
  BY DEF Found
<1>6. HIDE DEF p, m
<1>7. ASSUME NEW k \in 1 .. m + 1, NEW l \in 1 .. m + 1, k < l
      PROVE  p[k] < p[l]
  <2>1. k \in 1 .. m
    BY <1>4, <1>7
  <2>2. CASE l = m + 1
    BY <1>4, <1>5, <2>1, <2>2
  <2>3. CASE l # m + 1
    <3>1. l \in 1 .. m
      BY <1>4, <2>3
    <3>2. QED
      BY <1>4, <1>5, <1>7, <2>1, <3>1
  <2>4. QED
    BY <2>2, <2>3
<1>8. ASSUME NEW k \in 1 .. m + 1
      PROVE  p[k] \in MT!Changed /\ p[k] < pos + 1
  <2>1. CASE k = m + 1
    BY <1>2, <1>4, <2>1
  <2>2. CASE k # m + 1
    <3>1. k \in 1 .. m
      BY <1>4, <2>2
    <3>2. p[k] \in MT!Changed /\ p[k] < pos
      BY <1>4, <1>5, <3>1
    <3>3. p[k] \in Nat
      BY <1>2, <3>2
    <3>4. QED
      BY <1>2, <3>2, <3>3
  <2>3. QED
    BY <2>1, <2>2
<1>9. ASSUME NEW c \in MT!Changed, c < pos + 1
      PROVE  \E k \in 1 .. m + 1 : p[k] = c
  <2>1. CASE c = pos
    BY <1>4, <2>1
  <2>2. CASE c # pos
    <3>1. c < pos
      BY <1>2, <1>9, <2>2
    <3>2. PICK k \in 1 .. m : o[k] = c
      BY <1>5, <3>1
    <3>3. k \in 1 .. m + 1 /\ p[k] = c
      BY <1>4, <3>2
    <3>4. QED
      BY <3>3
  <2>3. QED
    BY <2>1, <2>2
<1>10. Found(p, pos + 1)
  BY <1>4, <1>7, <1>8, <1>9 DEF Found
<1>11. QED
  BY <1>10 DEF p

LEMMA SameNodes ==
  ASSUME Compared
  PROVE  MT!Nodes(a) = MT!Nodes(b)
  BY DEF Compared, MT!Nodes

LEMMA NodeChanged ==
  ASSUME Compared, NEW nd \in MT!Nodes(a)
  PROVE  MT!build(a)[nd] = MT!build(b)[nd] <=> \A c \in MT!Changed : ~ (nd.lo <= c /\ c < nd.hi)
<1>1. MT!build(a)[nd] = MT!build(b)[nd] <=> SameLeaves(a, nd, b, nd)
  BY SameNodes, TreeDecides DEF Compared
<1>2. DEFINE m == Size(nd)
             lo == nd.lo
             hi == nd.hi
<1>3. lo \in Nat /\ hi \in Nat /\ m \in Nat /\ hi = lo + m /\ hi <= Len(a) /\ Len(a) \in Nat
  BY NodeFacts DEF Compared
<1>4. SameLeaves(a, nd, b, nd) <=> \A k \in 1 .. m : a[lo + k] = b[lo + k]
  BY DEF SameLeaves
<1>5. HIDE DEF m, lo, hi
<1>6. ASSUME \A k \in 1 .. m : a[lo + k] = b[lo + k], NEW c \in MT!Changed, lo <= c, c < hi
      PROVE  FALSE
  <2>1. c \in Nat /\ c \in 0 .. Len(a) - 1
    BY <1>3, ChangedFacts
  <2>2. c + 1 - lo \in 1 .. m /\ lo + (c + 1 - lo) = c + 1
    BY <1>3, <1>6, <2>1
  <2>3. a[c + 1] = b[c + 1]
    BY <1>6, <2>2
  <2>4. QED
    BY <2>1, <2>3, ChangedFacts
<1>7. ASSUME \A c \in MT!Changed : ~ (lo <= c /\ c < hi), NEW k \in 1 .. m
      PROVE  a[lo + k] = b[lo + k]
  <2>1. DEFINE c == lo + k - 1
  <2>2. c \in 0 .. Len(a) - 1 /\ lo <= c /\ c < hi /\ c + 1 = lo + k
    BY <1>3
  <2>3. HIDE DEF c
  <2>4. c \notin MT!Changed
    BY <1>7, <2>2
  <2>5. a[c + 1] = b[c + 1]
    BY <2>2, <2>4, ChangedFacts
  <2>6. QED
    BY <2>2, <2>5
<1>8. (\A k \in 1 .. m : a[lo + k] = b[lo + k]) <=> \A c \in MT!Changed : ~ (lo <= c /\ c < hi)
  BY <1>6, <1>7
<1>9. QED
  BY <1>1, <1>4, <1>8 DEF lo, hi

\* No leaf of nd changed.
Untouched(nd) == \A c \in MT!Changed : ~ (nd.lo <= c /\ c < nd.hi)

\* What a call of collect_diffs for the node nd does.
Called(nd) ==
  /\ visited' = visited + 1
  /\ \/ Untouched(nd) /\ stack' = MT!Front(stack) /\ out' = out
     \/ /\ ~ Untouched(nd) /\ MT!is_leaf(nd)
        /\ stack' = MT!Front(stack) /\ out' = Append(out, nd.lo)
     \/ /\ ~ Untouched(nd) /\ ~ MT!is_leaf(nd)
        /\ stack' = Append(Append(MT!Front(stack), Pair(MT!right(nd))), Pair(MT!left(nd)))
        /\ out' = out

LEMMA TwoPushes ==
  ASSUME NEW S, NEW s \in Seq(S), NEW x, NEW y
  PROVE  s \o <<x, y>> = Append(Append(s, x), y)
<1>1. DEFINE U == S \cup {x, y}
<1>2. s \in Seq(U) /\ x \in U /\ y \in U
  OBVIOUS
<1>3. HIDE DEF U
<1>4. QED
  BY <1>2

LEMMA CallFacts ==
  ASSUME Compared, DiffStep, NEW pos, Stacked(stack, MT!Nodes(a), Len(a), pos)
  PROVE  \E nd \in MT!Nodes(a) : /\ MT!Last(stack) = Pair(nd) /\ nd.lo = pos
                                 /\ Stacked(MT!Front(stack), MT!Nodes(a), Len(a), nd.hi)
                                 /\ Called(nd)
<1>1. stack # <<>>
  BY DEF DiffStep, MT!Skip, MT!Report, MT!Descend
<1>2. PICK nd \in MT!Nodes(a) : /\ MT!Last(stack) = Pair(nd) /\ nd.lo = pos
                                /\ Stacked(MT!Front(stack), MT!Nodes(a), Len(a), nd.hi)
  BY <1>1, Popped
<1>3. MT!Top.a = nd /\ MT!Top.b = nd
  BY <1>2 DEF MT!Top, Pair
<1>4. MT!SameHash <=> Untouched(nd)
  BY <1>3, NodeChanged DEF MT!SameHash, Untouched
<1>5. CASE MT!Skip
  BY <1>2, <1>4, <1>5 DEF MT!Skip, Called
<1>6. CASE MT!Report
  BY <1>2, <1>3, <1>4, <1>6 DEF MT!Report, Called
<1>7. CASE MT!Descend
  <2>1. MT!Rights = Pair(MT!right(nd)) /\ MT!Lefts = Pair(MT!left(nd))
    BY <1>3 DEF MT!Rights, MT!Lefts, Pair
  <2>2. /\ ~ MT!SameHash /\ ~ MT!is_leaf(nd) /\ visited' = visited + 1 /\ out' = out
        /\ stack' = MT!Front(stack) \o <<Pair(MT!right(nd)), Pair(MT!left(nd))>>
    BY <1>3, <1>7, <2>1 DEF MT!Descend, MT!Push
  <2>3. MT!Front(stack) \in Seq({Pair(u) : u \in MT!Nodes(a)})
    BY <1>2 DEF Stacked
  <2>4. MT!Front(stack) \o <<Pair(MT!right(nd)), Pair(MT!left(nd))>>
          = Append(Append(MT!Front(stack), Pair(MT!right(nd))), Pair(MT!left(nd)))
    BY <2>3, TwoPushes
  <2>5. QED
    BY <1>2, <1>4, <2>2, <2>4 DEF Called
<1>8. QED
  BY <1>5, <1>6, <1>7 DEF DiffStep

LEMMA WalkOn ==
  ASSUME Compared, DiffStep, NEW pos \in 0 .. Len(a),
         Stacked(stack, MT!Nodes(a), Len(a), pos), Found(out, pos)
  PROVE  \E next \in 0 .. Len(a) : Stacked(stack', MT!Nodes(a), Len(a), next) /\ Found(out', next)
<1>1. DEFINE N == MT!Nodes(a)
             len == Len(a)
             rest == MT!Front(stack)
<1>2. PICK nd \in N : nd.lo = pos /\ Stacked(rest, N, len, nd.hi) /\ Called(nd)
  BY CallFacts
<1>3. len \in Nat
  BY DEF Compared
<1>4. /\ nd.lo \in Nat /\ nd.hi \in Nat /\ nd.lo < nd.hi /\ nd.hi <= len /\ nd.hi \in 0 .. len
      /\ pos \in Nat /\ pos <= nd.hi
  BY <1>2, <1>3, NodeFacts
<1>5. \A c \in MT!Changed : c \in Nat
  BY ChangedFacts
<1>6. CASE Untouched(nd) /\ stack' = rest /\ out' = out
  <2>1. \A c \in MT!Changed : c < nd.hi => c < pos
    BY <1>2, <1>4, <1>5, <1>6 DEF Untouched
  <2>2. Found(out, nd.hi)
    BY <1>4, <2>1, FoundNoMore
  <2>3. QED
    BY <1>2, <1>4, <1>6, <2>2
<1>7. CASE /\ ~ Untouched(nd) /\ MT!is_leaf(nd)
           /\ stack' = rest /\ out' = Append(out, nd.lo)
  <2>1. nd.hi = pos + 1
    BY <1>2, <1>3, <1>7, NodeFacts
  <2>2. PICK c \in MT!Changed : nd.lo <= c /\ c < nd.hi
    BY <1>7 DEF Untouched
  <2>3. c = pos
    BY <1>2, <1>4, <1>5, <2>1, <2>2
  <2>4. Found(Append(out, pos), pos + 1)
    BY <2>3, FoundOneMore
  <2>5. QED
    BY <1>2, <1>4, <1>7, <2>1, <2>4
<1>8. CASE /\ ~ Untouched(nd) /\ ~ MT!is_leaf(nd)
           /\ stack' = Append(Append(rest, Pair(MT!right(nd))), Pair(MT!left(nd)))
           /\ out' = out
  <2>1. /\ MT!left(nd) \in N /\ MT!right(nd) \in N /\ MT!left(nd).lo = pos
        /\ MT!left(nd).hi = MT!right(nd).lo /\ MT!right(nd).hi = nd.hi
    BY <1>2, <1>3, <1>8, ChildFacts
  <2>2. Stacked(Append(rest, Pair(MT!right(nd))), N, len, MT!right(nd).lo)
    BY <1>2, <2>1, Pushed
  <2>3. Stacked(stack', N, len, pos)
    BY <1>8, <2>1, <2>2, Pushed
  <2>4. QED
    BY <1>8, <2>3
<1>9. QED
  BY <1>2, <1>6, <1>7, <1>8 DEF Called

LEMMA WalkBegins ==
  ASSUME Len(a) = Len(b'), ChunkHashesOf(a), ChunkHashesOf(b'), NEW D, a \in Seq(D),
         out = <<>>, stack' = MT!Calls(a, b'), UNCHANGED <<a, out>>
  PROVE  \E pos \in 0 .. Len(a) :
            Stacked(stack', MT!Nodes(a), Len(a), pos) /\ Found(out, pos)'
<1>1. Compared'
  BY DEF Compared, ChunkHashesOf
<1>2. Found(<<>>, 0)'
  <2>1. \A c \in MT!Changed' : c \in Nat
    BY DEF MT!Changed, ChunkHashesOf
  <2>2. QED
    BY <2>1 DEF Found
<1>3. Len(a) \in Nat
  BY DEF ChunkHashesOf
<1>4. CASE stack' = <<>> /\ Len(a) = 0
  <2>1. Stacked(stack', MT!Nodes(a), Len(a), 0)
    BY <1>4, StackedNone
  <2>2. QED
    BY <1>2, <1>3, <2>1 DEF Found
<1>5. CASE stack' = <<Pair(MT!Root(a))>> /\ Len(a) # 0
  <2>1. MT!Root(a) = [lo |-> 0, hi |-> Len(a)]
    BY DEF MT!Root, MT!Node
  <2>2. MT!Root(a) \in MT!Nodes(a)
    BY <1>3, <1>5, <2>1 DEF MT!Nodes
  <2>3. Stacked(Append(<<>>, Pair(MT!Root(a))), MT!Nodes(a), Len(a), MT!Root(a).lo)
    BY <2>1, <2>2, StackedNone, Pushed
  <2>4. Append(<<>>, Pair(MT!Root(a))) = <<Pair(MT!Root(a))>> /\ MT!Root(a).lo = 0
    BY <2>1
  <2>5. Stacked(stack', MT!Nodes(a), Len(a), 0)
    BY <1>5, <2>3, <2>4
  <2>6. QED
    BY <1>2, <1>3, <2>5 DEF Found
<1>6. QED
  <2>1. a = <<>> <=> Len(a) = 0
    OBVIOUS
  <2>2. MT!Root(a) = MT!Root(b')
    BY DEF MT!Root
  <2>3. CASE Len(a) = 0
    BY <1>4, <2>1, <2>3 DEF MT!Calls
  <2>4. CASE Len(a) # 0
    <3>1. b' # <<>>
      BY <2>4
    <3>2. QED
      BY <1>5, <2>1, <2>2, <2>4, <3>1 DEF MT!Calls, Pair
  <2>5. QED
    BY <2>3, <2>4

LEMMA DInvInit == IngestInit => DInv
  BY VInvInit DEF IngestInit, DInv, WalkInv

LEMMA AllHashed ==
  ASSUME VInv, phase = "diff"
  PROVE  /\ IsChunking(prev, old) /\ IsChunking(chunks, data) /\ a = Hashes(prev) /\ b = Hashes(chunks)
         /\ ChunkHashesOf(a) /\ ChunkHashesOf(b) /\ Len(a) \in Nat /\ Len(b) \in Nat
         /\ a \in Seq({SHA!Sha(s) : s \in Seq(Byte)})
         /\ b \in Seq({SHA!Sha(s) : s \in Seq(Byte)})
<1>1. IsChunking(prev, old) /\ IsChunking(chunks, data) /\ a = Hashes(prev) /\ b = Hashes(chunks)
  BY ReturnedChunking DEF VInv
<1>2. /\ ChunkHashesOf(a) /\ ChunkHashesOf(b)
      /\ a \in Seq({SHA!Sha(s) : s \in Seq(Byte)})
      /\ b \in Seq({SHA!Sha(s) : s \in Seq(Byte)})
  BY <1>1, HashesFacts
<1>3. QED
  BY <1>1, <1>2 DEF ChunkHashesOf

LEMMA DInvStep == DInv /\ [IngestNext]_ingestVars => DInv'
<1>1. SUFFICES ASSUME DInv, [IngestNext]_ingestVars PROVE DInv'
  OBVIOUS
<1>2. VInv /\ VInv'
  BY <1>1, VInvStep DEF DInv
<1>3. CASE ChunkStep
  <2>1. phase # "diff"
    <3>1. i < n
      BY <1>3 DEF ChunkStep, Roll, Cut, CutAndGoOn, Finish
    <3>2. CInv
      BY <1>2 DEF VInv
    <3>3. i # n
      BY <3>1, <3>2 DEF CInv, IInv, Chunked, TypeOK, n
    <3>4. QED
      BY <1>2, <3>3 DEF VInv, Returned
  <2>2. UNCHANGED <<phase, stack, out, visited>>
    BY <1>3 DEF ChunkStep, diffVars
  <2>3. QED
    BY <1>1, <1>2, <2>1, <2>2 DEF DInv, WalkInv
<1>4. CASE AddAgain
  BY <1>1, <1>2, <1>4 DEF DInv, WalkInv, AddAgain, diffVars
<1>5. CASE Compare
  <2>1. /\ phase # "diff" /\ phase' = "diff" /\ stack' = MT!Calls(a, b') /\ UNCHANGED <<a, out>>
        /\ out = <<>> /\ stack = <<>>
    BY <1>1, <1>5 DEF Compare, DInv
  <2>2. /\ ChunkHashesOf(a') /\ ChunkHashesOf(b')
        /\ a' \in Seq({SHA!Sha(s) : s \in Seq(Byte)})
    <3>1. IsChunking(prev, old) /\ a = Hashes(prev)
      BY <1>2, <1>5 DEF VInv, Compare
    <3>2. IsChunking(chunks, data) /\ b' = Hashes(chunks)
      BY <1>2, <1>5, ReturnedChunking DEF VInv, Compare
    <3>3. QED
      BY <2>1, <3>1, <3>2, HashesFacts
  <2>3. WalkInv'
    <3>1. CASE Len(a) = Len(b')
      <4>1. \E pos \in 0 .. Len(a) :
              Stacked(stack', MT!Nodes(a), Len(a), pos) /\ Found(out, pos)'
        BY <2>1, <2>2, <3>1, WalkBegins
      <4>2. QED
        BY <2>1, <3>1, <4>1 DEF WalkInv
    <3>2. CASE Len(a) # Len(b')
      BY <2>1, <3>2 DEF WalkInv, MT!Calls
    <3>3. QED
      BY <3>1, <3>2
  <2>4. QED
    BY <1>2, <2>1, <2>3 DEF DInv
<1>6. CASE DiffStep
  <2>1. phase = "diff" /\ phase' = "diff" /\ UNCHANGED <<a, b>> /\ stack # <<>>
    BY <1>6 DEF DiffStep, MT!Skip, MT!Report, MT!Descend, MT!Push
  <2>2. ChunkHashesOf(a) /\ ChunkHashesOf(b) /\ Len(a) \in Nat
    BY <1>2, <2>1, AllHashed
  <2>3. Len(a) = Len(b)
    BY <1>1, <2>1 DEF DInv, WalkInv
  <2>4. Compared
    BY <2>2, <2>3 DEF Compared
  <2>5. PICK pos \in 0 .. Len(a) : Stacked(stack, MT!Nodes(a), Len(a), pos) /\ Found(out, pos)
    BY <1>1, <2>1, <2>3 DEF DInv, WalkInv
  <2>6. PICK next \in 0 .. Len(a) : Stacked(stack', MT!Nodes(a), Len(a), next) /\ Found(out', next)
    BY <1>6, <2>4, <2>5, WalkOn
  <2>7. Found(out, next)'
    BY <2>1, <2>6 DEF Found, MT!Changed
  <2>8. WalkInv'
    BY <2>1, <2>3, <2>6, <2>7 DEF WalkInv
  <2>9. QED
    BY <1>2, <2>1, <2>8 DEF DInv
<1>7. CASE UNCHANGED ingestVars
  <2>1. UNCHANGED <<phase, a, b, stack, out, visited>>
    BY <1>7 DEF ingestVars, diffVars
  <2>2. WalkInv'
    <3>1. \A pos : Found(out, pos) => Found(out, pos)'
      BY <2>1 DEF Found, MT!Changed
    <3>2. QED
      BY <1>1, <2>1, <3>1 DEF DInv, WalkInv
  <2>3. QED
    BY <1>1, <1>2, <2>1, <2>2 DEF DInv
<1>8. QED
  BY <1>1, <1>3, <1>4, <1>5, <1>6, <1>7 DEF IngestNext

\* Where the walk has ended.
LEMMA WalkEnded ==
  ASSUME DInv, Done, Len(a) = Len(b)
  PROVE  Found(out, Len(a)) /\ Compared
<1>1. phase = "diff" /\ stack = <<>>
  BY DEF Done
<1>2. Compared
  BY <1>1, AllHashed DEF DInv, Compared
<1>3. PICK pos \in 0 .. Len(a) : Stacked(stack, MT!Nodes(a), Len(a), pos) /\ Found(out, pos)
  BY <1>1 DEF DInv, WalkInv
<1>4. pos = Len(a)
  BY <1>1, <1>3, StackedEmpty
<1>5. QED
  BY <1>2, <1>3, <1>4

LEMMA DInvExact ==
  ASSUME DInv
  PROVE  DiffExact
<1>1. SUFFICES ASSUME Done, Len(a) = Len(b)
               PROVE  /\ MT!Range(out) = MT!Changed
                      /\ \A k, l \in DOMAIN out : k < l => out[k] < out[l]
  BY DEF DiffExact, MT!DiffExact
<1>2. Found(out, Len(a)) /\ Compared
  BY <1>1, WalkEnded
<1>3. DOMAIN out = 1 .. Len(out)
  BY <1>2 DEF Found
<1>4. \A c \in MT!Changed : c < Len(a)
  BY <1>2, ChangedFacts
<1>5. MT!Range(out) = MT!Changed
  BY <1>2, <1>3, <1>4 DEF Found, MT!Range
<1>6. QED
  BY <1>2, <1>3, <1>5 DEF Found

\* For any two versions with equally many chunks, diff_leaf_indices returns the
\* indices of the chunks that differ, each once and in file order, although
\* collect_diffs looks below no node whose hashes agree.
THEOREM DiffExactHolds == IngestSpec => []DiffExact
<1>1. DInv => DiffExact
  BY DInvExact
<1>2. QED
  BY <1>1, DInvInit, DInvStep, PTL DEF IngestSpec

LEMMA DInvReport ==
  ASSUME DInv
  PROVE  ReportTellsChange
<1>1. SUFFICES ASSUME Done, old # <<>>
               PROVE  /\ (report.said = "changed" /\ report.changed = 0) <=> old = data
                      /\ report.said = "changed" => report.changed = Len(out)
  BY DEF ReportTellsChange
<1>2. VInv /\ phase = "diff"
  BY <1>1 DEF DInv, Done
<1>3. DEFINE C == {k \in DOMAIN a \cap DOMAIN b : a[k] # b[k]}
             D == {SHA!Sha(s) : s \in Seq(Byte)}
<1>4. /\ IsChunking(prev, old) /\ IsChunking(chunks, data) /\ a = Hashes(prev) /\ b = Hashes(chunks)
      /\ a \in Seq(D) /\ b \in Seq(D)
  BY <1>2, AllHashed
<1>5. a = b <=> old = data
  BY <1>4, HashesDecide
<1>6. a # <<>>
  <2>1. Len(old) # 0
    <3>1. old \in Seq(Byte)
      BY <1>4 DEF IsChunking
    <3>2. QED
      BY <1>1, <3>1
  <2>2. prev # <<>>
    BY <1>4, <2>1 DEF IsChunking
  <2>3. Len(prev) # 0
    <3>1. prev \in Seq(ChunkRec)
      BY <1>4 DEF IsChunking
    <3>2. QED
      BY <2>2, <3>1
  <2>4. Len(a) = Len(prev)
    BY <1>4, HashesFacts
  <2>5. QED
    BY <2>3, <2>4
<1>7. report = Change(a, b)
  BY <1>2 DEF VInv
<1>8. report.said = "changed" <=> Len(a) = Len(b)
  BY <1>6, <1>7 DEF Change
<1>9. report.changed = Cardinality(C)
  BY <1>7 DEF Change
<1>10. HIDE DEF D
<1>11. ASSUME Len(a) = Len(b)
       PROVE  Cardinality(C) = Len(out)
  <2>1. Found(out, Len(a)) /\ Compared
    BY <1>1, <1>11, WalkEnded
  <2>2. DEFINE m == Len(out)
               f == [k \in 1 .. m |-> out[k] + 1]
  <2>3. /\ out \in Seq(Nat) /\ m \in Nat
        /\ \A k, l \in 1 .. m : k < l => out[k] < out[l]
        /\ \A k \in 1 .. m : out[k] \in MT!Changed
        /\ \A c \in MT!Changed : c < Len(a) => \E k \in 1 .. m : out[k] = c
    BY <2>1 DEF Found
  <2>4. /\ \A c \in MT!Changed : c \in Nat /\ c < Len(a)
        /\ \A c \in 0 .. Len(a) - 1 : c \in MT!Changed <=> a[c + 1] # b[c + 1]
    BY <2>1, ChangedFacts
  <2>5. DOMAIN a = 1 .. Len(a) /\ DOMAIN b = 1 .. Len(a) /\ Len(a) \in Nat
    BY <1>4, <1>11
  <2>6. HIDE DEF m
  <2>7. ASSUME NEW k \in 1 .. m
        PROVE  f[k] \in C
    <3>1. out[k] \in MT!Changed /\ out[k] \in 0 .. Len(a) - 1
      BY <2>3, <2>4, <2>5
    <3>2. out[k] + 1 \in 1 .. Len(a) /\ a[out[k] + 1] # b[out[k] + 1]
      BY <2>4, <2>5, <3>1
    <3>3. QED
      BY <2>5, <3>2
  <2>8. ASSUME NEW k \in 1 .. m, NEW l \in 1 .. m, f[k] = f[l]
        PROVE  k = l
    <3>1. out[k] \in Nat /\ out[l] \in Nat
      BY <2>3, <2>4
    <3>2. out[k] = out[l]
      BY <2>8, <3>1
    <3>3. ~ (k < l) /\ ~ (l < k)
      BY <2>3, <3>1, <3>2
    <3>4. QED
      BY <2>3, <3>3
  <2>9. ASSUME NEW c \in C
        PROVE  \E k \in 1 .. m : f[k] = c
    <3>1. c \in 1 .. Len(a) /\ a[c] # b[c]
      BY <2>5
    <3>2. c - 1 \in 0 .. Len(a) - 1 /\ (c - 1) + 1 = c
      BY <2>5, <3>1
    <3>3. c - 1 \in MT!Changed
      BY <2>4, <3>1, <3>2
    <3>4. PICK k \in 1 .. m : out[k] = c - 1
      BY <2>3, <2>4, <3>3
    <3>5. f[k] = c
      BY <3>2, <3>4
    <3>6. QED
      BY <3>5
  <2>10. f \in Bijection(1 .. m, C)
    <3>1. f \in [1 .. m -> C]
      BY <2>7
    <3>2. HIDE DEF f, C
    <3>3. f \in Injection(1 .. m, C)
      BY <2>8, <3>1 DEF Injection, IsInjective
    <3>4. f \in Surjection(1 .. m, C)
      BY <2>9, <3>1 DEF Surjection
    <3>5. QED
      BY <3>3, <3>4 DEF Bijection
  <2>11. ExistsBijection(1 .. m, C)
    BY <2>10 DEF ExistsBijection
  <2>12. HIDE DEF C
  <2>13. Cardinality(C) = m
    BY <2>3, <2>11, FS_CountingElements
  <2>14. QED
    BY <2>13 DEF m
<1>12. ASSUME Len(a) = Len(b)
       PROVE  Cardinality(C) = 0 <=> a = b
  <2>1. DOMAIN a = 1 .. Len(a) /\ DOMAIN b = 1 .. Len(a) /\ Len(a) \in Nat
    BY <1>4, <1>12
  <2>2. C = {} <=> \A k \in 1 .. Len(a) : a[k] = b[k]
    BY <2>1
  <2>3. C = {} <=> a = b
    BY <1>4, <1>12, <2>2, SameSeq
  <2>4. IsFiniteSet(C)
    <3>1. IsFiniteSet(1 .. Len(a))
      BY <2>1, FS_Interval
    <3>2. C \subseteq 1 .. Len(a)
      BY <2>1
    <3>3. HIDE DEF C
    <3>4. QED
      BY <3>1, <3>2, FS_Subset
  <2>5. HIDE DEF C
  <2>6. Cardinality(C) = 0 <=> C = {}
    BY <2>4, FS_EmptySet
  <2>7. QED
    BY <2>3, <2>6
<1>13. HIDE DEF C
<1>14. (report.said = "changed" /\ report.changed = 0) <=> a = b
  <2>1. a = b => Len(a) = Len(b)
    OBVIOUS
  <2>2. QED
    BY <1>8, <1>9, <1>12, <2>1
<1>15. QED
  BY <1>5, <1>8, <1>9, <1>11, <1>14

\* For any two versions of a file that is not empty, ingest_file says "changed"
\* with no chunk exactly when the bytes are the same, and its count is the number
\* of leaves diff_leaf_indices returns.
THEOREM ReportTellsChangeHolds == IngestSpec => []ReportTellsChange
<1>1. DInv => ReportTellsChange
  BY DInvReport
<1>2. QED
  BY <1>1, DInvInit, DInvStep, PTL DEF IngestSpec

-----------------------------------------------------------------------------
(* How many calls of collect_diffs the walk takes.                          *)

Level(h, m) == IF m <= 1 THEN 0 ELSE 1 + h[m - m \div 2]

\* How often each number up to len can be halved.
Heights(len) == CHOOSE h : h = [m \in 0 .. len |-> Level(h, m)]

LEMMA HeightsEq ==
  ASSUME NEW len \in Nat
  PROVE  /\ Heights(len) = [m \in 0 .. len |-> Level(Heights(len), m)]
         /\ \A m \in 0 .. len : Heights(len)[m] \in Nat
<1>1. DEFINE Upto(f, k) == f = [m \in 0 .. len |-> IF m <= k THEN Level(f, m) ELSE 0]
             S == {k \in 0 .. len : \E f : Upto(f, k)}
<1>2. \A m \in 2 .. len : m - m \div 2 \in 1 .. len /\ m - m \div 2 < m
  OBVIOUS
<1>3. 0 \in S
  <2>1. DEFINE f == [m \in 0 .. len |-> 0]
  <2>2. [m \in 0 .. len |-> IF m <= 0 THEN Level(f, m) ELSE 0] = f
    BY DEF Level
  <2>3. QED
    BY <2>2
<1>4. ASSUME NEW k \in 1 .. len, k - 1 \in S
      PROVE  k \in S
  <2>1. PICK f : Upto(f, k - 1)
    BY <1>4
  <2>2. DEFINE g == [m \in 0 .. len |-> IF m <= k THEN Level(f, m) ELSE 0]
  <2>3. ASSUME NEW m \in 0 .. len, m <= k - 1
        PROVE  g[m] = f[m]
    <3>1. m <= k /\ f[m] = Level(f, m)
      BY <2>1, <2>3
    <3>2. QED
      BY <3>1
  <2>4. ASSUME NEW m \in 0 .. len, m <= k
        PROVE  Level(g, m) = Level(f, m)
    <3>1. CASE m <= 1
      BY <3>1 DEF Level
    <3>2. CASE ~ (m <= 1)
      <4>1. m \in 2 .. len
        BY <3>2
      <4>2. m - m \div 2 \in 0 .. len /\ m - m \div 2 <= k - 1
        BY <1>2, <2>4, <4>1
      <4>3. g[m - m \div 2] = f[m - m \div 2]
        BY <2>3, <4>2
      <4>4. HIDE DEF g
      <4>5. QED
        BY <3>2, <4>3 DEF Level
    <3>3. QED
      BY <3>1, <3>2
  <2>5. [m \in 0 .. len |-> IF m <= k THEN Level(g, m) ELSE 0] = g
    <3>1. \A m \in 0 .. len : (IF m <= k THEN Level(g, m) ELSE 0) = (IF m <= k THEN Level(f, m) ELSE 0)
      BY <2>4
    <3>2. QED
      BY <3>1
  <2>6. HIDE DEF g
  <2>7. Upto(g, k)
    BY <2>5
  <2>8. HIDE DEF Upto
  <2>9. QED
    BY <2>7
<1>5. len \in S
  <2>1. HIDE DEF S
  <2>2. len \in 0 .. len
    OBVIOUS
  <2>3. QED
    BY <1>3, <1>4, <2>2, UpToBound
<1>6. PICK f : Upto(f, len)
  BY <1>5
<1>7. f = [m \in 0 .. len |-> Level(f, m)]
  <2>1. [m \in 0 .. len |-> IF m <= len THEN Level(f, m) ELSE 0] = [m \in 0 .. len |-> Level(f, m)]
    OBVIOUS
  <2>2. QED
    BY <1>6, <2>1
<1>8. DEFINE d == Heights(len)
<1>9. d = [m \in 0 .. len |-> Level(d, m)]
  BY <1>7 DEF Heights
<1>10. HIDE DEF d
<1>11. DEFINE R == {k \in 0 .. len : \A m \in 0 .. k : d[m] \in Nat}
<1>12. 0 \in R
  BY <1>9 DEF Level
<1>13. ASSUME NEW k \in 1 .. len, k - 1 \in R
       PROVE  k \in R
  <2>1. \A m \in 0 .. k - 1 : d[m] \in Nat
    BY <1>13
  <2>2. d[k] = Level(d, k)
    BY <1>9
  <2>3. d[k] \in Nat
    <3>1. CASE k <= 1
      BY <2>2, <3>1 DEF Level
    <3>2. CASE ~ (k <= 1)
      <4>1. k - k \div 2 \in 0 .. k - 1
        BY <1>2, <3>2
      <4>2. d[k - k \div 2] \in Nat
        BY <2>1, <4>1
      <4>3. QED
        BY <2>2, <3>2, <4>2 DEF Level
    <3>3. QED
      BY <3>1, <3>2
  <2>4. ASSUME NEW m \in 0 .. k
        PROVE  d[m] \in Nat
    <3>1. m = k \/ m \in 0 .. k - 1
      OBVIOUS
    <3>2. QED
      BY <2>1, <2>3, <3>1
  <2>5. k \in 0 .. len
    OBVIOUS
  <2>6. QED
    BY <2>4, <2>5
<1>14. len \in R
  <2>1. HIDE DEF R
  <2>2. len \in 0 .. len
    OBVIOUS
  <2>3. QED
    BY <1>12, <1>13, <2>2, UpToBound
<1>15. \A m \in 0 .. len : d[m] \in Nat
  BY <1>14
<1>16. QED
  BY <1>9, <1>15 DEF d

\* Larger subtrees are not lower.
LEMMA HeightsGrow ==
  ASSUME NEW len \in Nat, NEW m \in 1 .. len
  PROVE  Heights(len)[m - 1] <= Heights(len)[m]
<1>1. DEFINE h == Heights(len)
             S == {k \in 0 .. len : \A l \in 1 .. k : h[l - 1] <= h[l]}
<1>2. h = [k \in 0 .. len |-> Level(h, k)] /\ \A k \in 0 .. len : h[k] \in Nat
  BY HeightsEq
<1>3. HIDE DEF h
<1>4. 0 \in S
  OBVIOUS
<1>5. ASSUME NEW k \in 1 .. len, k - 1 \in S
      PROVE  k \in S
  <2>1. \A l \in 1 .. k - 1 : h[l - 1] <= h[l]
    BY <1>5
  <2>2. h[k] = Level(h, k) /\ h[k - 1] = Level(h, k - 1) /\ h[k] \in Nat
    BY <1>2
  <2>3. h[k - 1] <= h[k]
    <3>1. CASE k <= 2
      <4>1. h[k - 1] = 0
        BY <2>2, <3>1 DEF Level
      <4>2. QED
        BY <2>2, <4>1
    <3>2. CASE k > 2
      <4>1. DEFINE x == k - k \div 2
                   y == (k - 1) - (k - 1) \div 2
      <4>2. x \in 1 .. k - 1 /\ y \in 1 .. k - 1 /\ (y = x \/ y = x - 1)
        BY <3>2
      <4>3. h[k] = 1 + h[x] /\ h[k - 1] = 1 + h[y]
        BY <2>2, <3>2 DEF Level
      <4>4. HIDE DEF x, y
      <4>5. h[x] \in Nat /\ h[y] \in Nat
        BY <1>2, <4>2
      <4>6. h[y] <= h[x]
        <5>1. CASE y = x
          BY <4>5, <5>1
        <5>2. CASE y = x - 1
          BY <2>1, <4>2, <5>2
        <5>3. QED
          BY <4>2, <5>1, <5>2
      <4>7. QED
        BY <4>3, <4>5, <4>6
    <3>3. QED
      BY <3>1, <3>2
  <2>4. ASSUME NEW l \in 1 .. k
        PROVE  h[l - 1] <= h[l]
    <3>1. l = k \/ l \in 1 .. k - 1
      OBVIOUS
    <3>2. QED
      BY <2>1, <2>3, <3>1
  <2>5. k \in 0 .. len
    OBVIOUS
  <2>6. QED
    BY <2>4, <2>5
<1>6. len \in S
  <2>1. HIDE DEF S
  <2>2. len \in 0 .. len
    OBVIOUS
  <2>3. QED
    BY <1>4, <1>5, <2>2, UpToBound
<1>7. h[m - 1] <= h[m]
  BY <1>6
<1>8. QED
  BY <1>7 DEF h

LEMMA HalfHeights ==
  ASSUME NEW len \in Nat, NEW m \in 2 .. len
  PROVE  /\ Heights(len)[m] = 1 + Heights(len)[m - Half(m)]
         /\ Heights(len)[Half(m)] <= Heights(len)[m - Half(m)]
         /\ Heights(len)[m - Half(m)] \in Nat /\ Heights(len)[Half(m)] \in Nat
<1>1. DEFINE h == Heights(len)
             x == Half(m)
             y == m - x
<1>2. x \in 1 .. len /\ y \in 1 .. len /\ (y = x \/ x = y - 1)
  BY DEF Half
<1>3. h = [k \in 0 .. len |-> Level(h, k)] /\ \A k \in 0 .. len : h[k] \in Nat
  BY HeightsEq
<1>4. h[m] = 1 + h[y]
  <2>1. m \in 0 .. len /\ ~ (m <= 1)
    OBVIOUS
  <2>2. h[m] = Level(h, m)
    <3>1. HIDE DEF h
    <3>2. QED
      BY <1>3, <2>1
  <2>3. QED
    BY <2>1, <2>2 DEF Level, Half
<1>5. HIDE DEF h, x, y
<1>6. h[x] \in Nat /\ h[y] \in Nat
  BY <1>2, <1>3
<1>7. h[x] <= h[y]
  <2>1. CASE y = x
    BY <1>6, <2>1
  <2>2. CASE x = y - 1
    BY <1>2, <2>2, HeightsGrow DEF h
  <2>3. QED
    BY <1>2, <2>1, <2>2
<1>8. QED
  BY <1>4, <1>6, <1>7 DEF h, x, y

\* The changed leaves of nd.
Touched(nd) == {c \in MT!Changed : nd.lo <= c /\ c < nd.hi}

\* A bound for the calls of collect_diffs for nd and what is below it.
Cost(nd) == 1 + 2 * (Cardinality(Touched(nd)) * Heights(Len(a))[Size(nd)])

LEMMA TouchedFacts ==
  ASSUME Compared, NEW nd
  PROVE  /\ IsFiniteSet(MT!Changed) /\ IsFiniteSet(Touched(nd)) /\ Cardinality(Touched(nd)) \in Nat
         /\ Cardinality(Touched(nd)) = 0 <=> Untouched(nd)
<1>1. Len(a) \in Nat
  BY DEF Compared
<1>2. IsFiniteSet(0 .. Len(a) - 1)
  BY <1>1, FS_Interval
<1>3. IsFiniteSet(MT!Changed)
  <2>1. MT!Changed \subseteq 0 .. Len(a) - 1
    BY DEF MT!Changed
  <2>2. QED
    BY <1>2, <2>1, FS_Subset
<1>4. IsFiniteSet(Touched(nd))
  <2>1. Touched(nd) \subseteq MT!Changed
    BY DEF Touched
  <2>2. QED
    BY <1>3, <2>1, FS_Subset
<1>5. Cardinality(Touched(nd)) = 0 <=> Touched(nd) = {}
  BY <1>4, FS_EmptySet
<1>6. Touched(nd) = {} <=> Untouched(nd)
  BY DEF Touched, Untouched
<1>7. QED
  BY <1>3, <1>4, <1>5, <1>6, FS_CardinalityType

LEMMA CostType ==
  ASSUME Compared, NEW nd \in MT!Nodes(a)
  PROVE  Cost(nd) \in Nat /\ 1 <= Cost(nd)
<1>1. DEFINE x == Cardinality(Touched(nd))
             y == Heights(Len(a))[Size(nd)]
<1>2. Len(a) \in Nat
  BY DEF Compared
<1>3. Size(nd) \in 0 .. Len(a)
  BY <1>2, NodeFacts
<1>4. x \in Nat /\ y \in Nat
  BY <1>2, <1>3, TouchedFacts, HeightsEq
<1>5. Cost(nd) = 1 + 2 * (x * y)
  BY DEF Cost
<1>6. HIDE DEF x, y
<1>7. x * y \in Nat
  BY <1>4
<1>8. QED
  BY <1>5, <1>7

\* A node that has changed leaves pays for itself and for its halves.
LEMMA CostOfHalves ==
  ASSUME Compared, NEW nd \in MT!Nodes(a), ~ MT!is_leaf(nd), ~ Untouched(nd)
  PROVE  1 + Cost(MT!left(nd)) + Cost(MT!right(nd)) <= Cost(nd)
<1>1. DEFINE T == Touched(nd)
             TL == Touched(MT!left(nd))
             TR == Touched(MT!right(nd))
             m == Size(nd)
             h == Heights(Len(a))
             x == Cardinality(TL)
             y == Cardinality(TR)
             z == Cardinality(T)
             hx == h[Half(m)]
             hy == h[m - Half(m)]
             mid == nd.lo + Half(m)
<1>2. Len(a) \in Nat
  BY DEF Compared
<1>3. /\ MT!left(nd).lo = nd.lo /\ MT!left(nd).hi = mid
      /\ MT!right(nd).lo = mid /\ MT!right(nd).hi = nd.hi
      /\ Size(MT!left(nd)) = Half(m) /\ Size(MT!right(nd)) = m - Half(m)
      /\ Half(m) \in Nat /\ Half(m) < m
  BY <1>2, ChildFacts
<1>4. nd.lo \in Nat /\ nd.hi \in Nat /\ m \in 2 .. Len(a) /\ nd.hi = nd.lo + m
  BY <1>2, NodeFacts
<1>5. /\ IsFiniteSet(T) /\ IsFiniteSet(TL) /\ IsFiniteSet(TR)
      /\ x \in Nat /\ y \in Nat /\ z \in Nat /\ z # 0
  BY TouchedFacts
<1>6. \A c \in MT!Changed : c \in Nat
  BY ChangedFacts
<1>7. nd.lo <= mid /\ mid <= nd.hi /\ mid \in Nat
  <2>1. DEFINE k == Half(m)
  <2>2. k \in Nat /\ k < m /\ m \in Nat
    BY <1>3, <1>4
  <2>3. HIDE DEF k, m
  <2>4. nd.lo <= nd.lo + k /\ nd.lo + k <= nd.hi /\ nd.lo + k \in Nat
    BY <1>4, <2>2
  <2>5. QED
    BY <2>4 DEF k
<1>8. T = TL \cup TR /\ TL \cap TR = {}
  <2>1. HIDE DEF mid
  <2>2. \A c \in MT!Changed : (nd.lo <= c /\ c < nd.hi) <=> (nd.lo <= c /\ c < mid) \/ (mid <= c /\ c < nd.hi)
    BY <1>4, <1>6, <1>7
  <2>3. \A c \in MT!Changed : ~ (c < mid /\ mid <= c)
    BY <1>6, <1>7
  <2>4. TL = {c \in MT!Changed : nd.lo <= c /\ c < mid} /\ TR = {c \in MT!Changed : mid <= c /\ c < nd.hi}
    BY <1>3 DEF Touched
  <2>5. T = {c \in MT!Changed : nd.lo <= c /\ c < nd.hi}
    BY DEF Touched
  <2>6. QED
    BY <2>2, <2>3, <2>4, <2>5
<1>9. z = x + y
  <2>1. HIDE DEF T, TL, TR
  <2>2. Cardinality(TL \cup TR) = x + y - Cardinality(TL \cap TR)
    BY <1>5, FS_Union
  <2>3. Cardinality(TL \cap TR) = 0
    BY <1>8, FS_EmptySet
  <2>4. QED
    BY <1>5, <1>8, <2>2, <2>3
<1>10. hx \in Nat /\ hy \in Nat /\ hx <= hy /\ h[m] = 1 + hy
  <2>1. HIDE DEF m
  <2>2. QED
    BY <1>2, <1>4, HalfHeights
<1>11. /\ Cost(MT!left(nd)) = 1 + 2 * (x * hx) /\ Cost(MT!right(nd)) = 1 + 2 * (y * hy)
       /\ Cost(nd) = 1 + 2 * ((x + y) * (1 + hy))
  <2>1. Cost(nd) = 1 + 2 * (z * h[m])
    BY DEF Cost
  <2>2. Cost(MT!left(nd)) = 1 + 2 * (x * hx) /\ Cost(MT!right(nd)) = 1 + 2 * (y * hy)
    BY <1>3 DEF Cost
  <2>3. QED
    BY <1>9, <1>10, <2>1, <2>2
<1>12. 1 <= x + y
  BY <1>5, <1>9
<1>13. HIDE DEF T, TL, TR, m, h, x, y, z, hx, hy, mid
<1>14. DEFINE p == x * hx
              q == y * hy
              r == x * hy
<1>15. p \in Nat /\ q \in Nat /\ r \in Nat
  BY <1>5, <1>10
<1>16. (x + y) * (1 + hy) = x + y + r + q
  BY <1>5, <1>10
<1>17. p <= r
  <2>1. DEFINE d == hy - hx
  <2>2. d \in Nat /\ hy = hx + d
    BY <1>10
  <2>3. HIDE DEF d
  <2>4. x * hy = x * hx + x * d /\ x * d \in Nat
    BY <1>5, <1>10, <2>2
  <2>5. QED
    BY <1>15, <2>4
<1>18. HIDE DEF p, q, r
<1>19. 1 + (1 + 2 * p) + (1 + 2 * q) <= 1 + 2 * (x + y + r + q)
  BY <1>5, <1>12, <1>15, <1>17
<1>20. QED
  BY <1>11, <1>16, <1>19 DEF p, q, r

\* The calls on the stack s cost w in all.
SumsUp(s, f, w) ==
  /\ f \in [0 .. Len(s) -> Nat] /\ f[0] = 0 /\ f[Len(s)] = w
  /\ \A k \in 1 .. Len(s) : f[k] = f[k - 1] + Cost(s[k].a)

Weighed(s, w) == \E f : SumsUp(s, f, w)

LEMMA WeighedNone == Weighed(<<>>, 0)
<1>1. DEFINE f == [k \in 0 .. 0 |-> 0]
<1>2. SumsUp(<<>>, f, 0)
  BY DEF SumsUp
<1>3. HIDE DEF f
<1>4. QED
  BY <1>2 DEF Weighed

LEMMA WeighedType ==
  ASSUME NEW S, NEW s \in Seq(S), NEW w, Weighed(s, w)
  PROVE  w \in Nat
<1>1. PICK f : SumsUp(s, f, w)
  BY DEF Weighed
<1>2. Len(s) \in 0 .. Len(s)
  OBVIOUS
<1>3. QED
  BY <1>1, <1>2 DEF SumsUp

LEMMA WeighedLess ==
  ASSUME NEW S, NEW s \in Seq(S), s # <<>>, NEW w, Weighed(s, w), NEW nd, MT!Last(s) = Pair(nd)
  PROVE  \E v \in Nat : w = v + Cost(nd) /\ Weighed(MT!Front(s), v)
<1>1. PICK f : SumsUp(s, f, w)
  BY DEF Weighed
<1>2. DEFINE m == Len(s)
             t == MT!Front(s)
             g == [k \in 0 .. m - 1 |-> f[k]]
<1>3. m \in Nat /\ m # 0
  OBVIOUS
<1>4. f \in [0 .. m -> Nat] /\ f[0] = 0 /\ f[m] = w
  BY <1>1 DEF SumsUp
<1>5. \A k \in 1 .. m : f[k] = f[k - 1] + Cost(s[k].a)
  BY <1>1 DEF SumsUp
<1>6. s[m].a = nd
  BY DEF MT!Last, Pair
<1>7. t = SubSeq(s, 0 + 1, m - 1)
  BY DEF MT!Front
<1>8. HIDE DEF t
<1>9. Len(t) = m - 1 /\ \A k \in 1 .. m - 1 : t[k] = s[k]
  <2>1. HIDE DEF m
  <2>2. 0 <= m - 1 /\ m - 1 <= Len(s) /\ m - 1 \in Nat /\ (m - 1) - 0 = m - 1
    BY <1>3 DEF m
  <2>3. /\ Len(SubSeq(s, 0 + 1, m - 1)) = (m - 1) - 0
        /\ \A k \in 1 .. (m - 1) - 0 : SubSeq(s, 0 + 1, m - 1)[k] = s[0 + k]
    BY <2>2, PieceFacts
  <2>4. \A k \in 1 .. m - 1 : 0 + k = k
    BY <2>2
  <2>5. QED
    BY <1>7, <2>2, <2>3, <2>4
<1>10. HIDE DEF m
<1>11. SumsUp(t, g, f[m - 1])
  <2>1. g \in [0 .. m - 1 -> Nat] /\ g[0] = 0 /\ g[m - 1] = f[m - 1]
    BY <1>3, <1>4
  <2>2. ASSUME NEW k \in 1 .. m - 1
        PROVE  g[k] = g[k - 1] + Cost(t[k].a)
    <3>1. k \in 1 .. m /\ k \in 0 .. m - 1 /\ k - 1 \in 0 .. m - 1
      BY <1>3
    <3>2. g[k] = f[k] /\ g[k - 1] = f[k - 1] /\ t[k] = s[k]
      BY <1>9, <3>1
    <3>3. QED
      BY <1>5, <3>1, <3>2
  <2>3. HIDE DEF g
  <2>4. QED
    BY <1>9, <2>1, <2>2 DEF SumsUp
<1>12. f[m - 1] \in Nat /\ w = f[m - 1] + Cost(nd)
  <2>1. m \in 1 .. m /\ m - 1 \in 0 .. m
    BY <1>3
  <2>2. QED
    BY <1>4, <1>5, <1>6, <2>1
<1>13. HIDE DEF g
<1>14. QED
  BY <1>11, <1>12 DEF Weighed, t

LEMMA WeighedMore ==
  ASSUME NEW S, NEW s \in Seq(S), NEW w, Weighed(s, w), NEW nd, Cost(nd) \in Nat
  PROVE  Weighed(Append(s, Pair(nd)), w + Cost(nd))
<1>1. PICK f : SumsUp(s, f, w)
  BY DEF Weighed
<1>2. DEFINE m == Len(s)
             e == Pair(nd)
             t == Append(s, e)
             v == w + Cost(nd)
             g == [k \in 0 .. m + 1 |-> IF k = m + 1 THEN v ELSE f[k]]
<1>3. f \in [0 .. m -> Nat] /\ f[0] = 0 /\ f[m] = w
  BY <1>1 DEF SumsUp
<1>4. \A k \in 1 .. m : f[k] = f[k - 1] + Cost(s[k].a)
  BY <1>1 DEF SumsUp
<1>5. e.a = nd
  BY DEF Pair
<1>6. HIDE DEF e
<1>7. m \in Nat /\ Len(t) = m + 1 /\ t[m + 1] = e /\ \A k \in 1 .. m : t[k] = s[k]
  <2>1. DEFINE U == S \cup {e}
  <2>2. s \in Seq(U) /\ e \in U
    OBVIOUS
  <2>3. HIDE DEF U
  <2>4. QED
    BY <2>2, AppendedTo
<1>8. HIDE DEF m, t
<1>9. w \in Nat /\ v \in Nat
  BY <1>3, <1>7
<1>10. SumsUp(t, g, v)
  <2>1. g \in [0 .. m + 1 -> Nat] /\ g[0] = 0 /\ g[m + 1] = v
    BY <1>3, <1>7, <1>9
  <2>2. ASSUME NEW k \in 1 .. m + 1
        PROVE  g[k] = g[k - 1] + Cost(t[k].a)
    <3>1. CASE k = m + 1
      <4>1. k - 1 \in 0 .. m /\ k - 1 = m /\ m # m + 1 /\ m \in 0 .. m + 1
        BY <1>7, <3>1
      <4>2. g[k - 1] = w
        BY <1>3, <4>1
      <4>3. g[k] = v /\ t[k].a = nd
        BY <1>5, <1>7, <2>1, <3>1
      <4>4. QED
        BY <4>2, <4>3
    <3>2. CASE k # m + 1
      <4>1. k \in 1 .. m /\ k \in 0 .. m + 1 /\ k - 1 \in 0 .. m + 1 /\ k - 1 # m + 1
        BY <1>7, <3>2
      <4>2. g[k] = f[k] /\ g[k - 1] = f[k - 1] /\ t[k] = s[k]
        BY <1>7, <3>2, <4>1
      <4>3. QED
        BY <1>4, <4>1, <4>2
    <3>3. QED
      BY <3>1, <3>2
  <2>3. HIDE DEF g, v
  <2>4. QED
    BY <1>7, <2>1, <2>2 DEF SumsUp
<1>11. HIDE DEF g
<1>12. QED
  BY <1>10 DEF Weighed, t, e, v

\* What the whole walk may cost.
Budget == 1 + 2 * (Cardinality(MT!Changed) * Heights(Len(a))[Len(a)])

\* The calls made and those still on the stack stay within the budget.
WithinBudget == \E w \in Nat : Weighed(stack, w) /\ visited + w <= Budget

SparseInv ==
  phase = "diff" /\ Len(a) = Len(b) =>
    (visited = 0 /\ stack = MT!Calls(a, b)) \/ WithinBudget

LEMMA BudgetType ==
  ASSUME Compared
  PROVE  Budget \in Nat /\ 1 <= Budget
<1>1. DEFINE x == Cardinality(MT!Changed)
             y == Heights(Len(a))[Len(a)]
<1>2. Len(a) \in Nat /\ Len(a) \in 0 .. Len(a)
  BY DEF Compared
<1>3. x \in Nat /\ y \in Nat
  BY <1>2, TouchedFacts, HeightsEq, FS_CardinalityType
<1>4. Budget = 1 + 2 * (x * y)
  BY DEF Budget
<1>5. HIDE DEF x, y
<1>6. x * y \in Nat
  BY <1>3
<1>7. QED
  BY <1>4, <1>6

LEMMA SparseOn ==
  ASSUME Compared, DiffStep, NEW pos, Stacked(stack, MT!Nodes(a), Len(a), pos),
         visited \in Nat, NEW w \in Nat, Weighed(stack, w), visited + w <= Budget
  PROVE  \E v \in Nat : Weighed(stack', v) /\ visited' + v <= Budget
<1>1. stack # <<>>
  BY DEF DiffStep, MT!Skip, MT!Report, MT!Descend
<1>2. DEFINE N == MT!Nodes(a)
             S == {Pair(u) : u \in N}
             rest == MT!Front(stack)
<1>3. PICK nd \in N : /\ MT!Last(stack) = Pair(nd) /\ Stacked(rest, N, Len(a), nd.hi) /\ Called(nd)
  BY <1>1, CallFacts
<1>4. stack \in Seq(S) /\ rest \in Seq(S)
  BY <1>3 DEF Stacked
<1>5. PICK v \in Nat : w = v + Cost(nd) /\ Weighed(rest, v)
  BY <1>1, <1>3, <1>4, WeighedLess
<1>6. Cost(nd) \in Nat /\ 1 <= Cost(nd)
  BY CostType
<1>7. Budget \in Nat
  BY BudgetType
<1>8. visited' = visited + 1
  BY <1>3 DEF Called
<1>9. CASE stack' = rest
  <2>1. visited' + v <= Budget
    BY <1>5, <1>6, <1>7, <1>8
  <2>2. QED
    BY <1>5, <1>9, <2>1
<1>10. CASE /\ ~ Untouched(nd) /\ ~ MT!is_leaf(nd)
            /\ stack' = Append(Append(rest, Pair(MT!right(nd))), Pair(MT!left(nd)))
  <2>1. DEFINE l == MT!left(nd)
               r == MT!right(nd)
               t == Append(rest, Pair(r))
  <2>2. l \in N /\ r \in N
    <3>1. Len(a) \in Nat
      BY DEF Compared
    <3>2. QED
      BY <1>10, <3>1, ChildFacts
  <2>3. Cost(l) \in Nat /\ Cost(r) \in Nat
    BY <2>2, CostType
  <2>4. 1 + Cost(l) + Cost(r) <= Cost(nd)
    BY <1>10, CostOfHalves
  <2>5. HIDE DEF l, r
  <2>6. Weighed(t, v + Cost(r))
    BY <1>4, <1>5, <2>3, WeighedMore
  <2>7. t \in Seq(S)
    <3>1. Pair(r) \in S
      BY <2>2
    <3>2. HIDE DEF S, rest
    <3>3. QED
      BY <1>4, <3>1
  <2>8. Weighed(Append(t, Pair(l)), v + Cost(r) + Cost(l))
    <3>1. HIDE DEF t, S
    <3>2. QED
      BY <2>3, <2>6, <2>7, WeighedMore
  <2>9. stack' = Append(t, Pair(l))
    BY <1>10 DEF l, r
  <2>10. v + Cost(r) + Cost(l) \in Nat /\ visited' + (v + Cost(r) + Cost(l)) <= Budget
    <3>1. DEFINE x == Cost(l)
                 y == Cost(r)
                 z == Cost(nd)
    <3>2. /\ x \in Nat /\ y \in Nat /\ z \in Nat /\ 1 + x + y <= z /\ w = v + z /\ visited + w <= Budget
          /\ visited' = visited + 1
      BY <1>5, <1>6, <1>8, <2>3, <2>4
    <3>3. HIDE DEF x, y, z
    <3>4. v + y + x \in Nat /\ visited' + (v + y + x) <= Budget
      BY <1>7, <3>2
    <3>5. QED
      BY <3>4 DEF x, y
  <2>11. QED
    BY <2>8, <2>9, <2>10
<1>11. QED
  BY <1>3, <1>9, <1>10 DEF Called

LEMMA SparseBegins ==
  ASSUME Compared, visited = 0, stack = MT!Calls(a, b)
  PROVE  WithinBudget
<1>1. Budget \in Nat /\ 1 <= Budget
  BY BudgetType
<1>2. CASE stack = <<>>
  BY <1>1, <1>2, WeighedNone DEF WithinBudget
<1>3. CASE stack # <<>>
  <2>1. DEFINE nd == MT!Root(a)
  <2>2. Len(a) = Len(b) /\ Len(a) \in Nat
    BY DEF Compared
  <2>3. nd = [lo |-> 0, hi |-> Len(a)] /\ MT!Root(b) = nd
    BY <2>2 DEF MT!Root, MT!Node
  <2>4. stack = <<Pair(nd)>>
    BY <1>3, <2>3 DEF MT!Calls, Pair
  <2>5. HIDE DEF nd
  <2>6. Touched(nd) = MT!Changed
    <3>1. \A c \in MT!Changed : 0 <= c /\ c < Len(a)
      BY ChangedFacts
    <3>2. QED
      BY <2>3, <3>1 DEF Touched
  <2>7. Size(nd) = Len(a)
    BY <2>2, <2>3 DEF Size
  <2>8. Cost(nd) = Budget
    BY <2>6, <2>7 DEF Cost, Budget
  <2>9. Weighed(Append(<<>>, Pair(nd)), 0 + Cost(nd))
    <3>1. <<>> \in Seq({})
      OBVIOUS
    <3>2. QED
      BY <1>1, <2>8, <3>1, WeighedNone, WeighedMore
  <2>10. Append(<<>>, Pair(nd)) = <<Pair(nd)>> /\ 0 + Cost(nd) = Budget
    BY <1>1, <2>8
  <2>11. Weighed(stack, Budget)
    BY <2>4, <2>9, <2>10
  <2>12. QED
    BY <1>1, <2>11 DEF WithinBudget
<1>4. QED
  BY <1>2, <1>3

SInv == DInv /\ visited \in Nat /\ SparseInv

LEMMA SInvInit == IngestInit => SInv
  BY DInvInit DEF IngestInit, SInv, SparseInv

LEMMA SInvFacts ==
  ASSUME SInv, phase = "diff", Len(a) = Len(b)
  PROVE  Compared /\ WithinBudget
<1>1. Compared
  BY AllHashed DEF SInv, DInv, Compared
<1>2. QED
  BY <1>1, SparseBegins DEF SInv, SparseInv

LEMMA SInvStep == SInv /\ [IngestNext]_ingestVars => SInv'
<1>1. SUFFICES ASSUME SInv, [IngestNext]_ingestVars PROVE SInv'
  OBVIOUS
<1>2. DInv /\ DInv' /\ visited \in Nat
  BY <1>1, DInvStep DEF SInv
<1>3. CASE ChunkStep
  <2>1. phase # "diff"
    <3>1. i < n
      BY <1>3 DEF ChunkStep, Roll, Cut, CutAndGoOn, Finish
    <3>2. CInv
      BY <1>2 DEF DInv, VInv
    <3>3. i # n
      BY <3>1, <3>2 DEF CInv, IInv, Chunked, TypeOK, n
    <3>4. QED
      BY <1>2, <3>3 DEF DInv, VInv, Returned
  <2>2. UNCHANGED <<phase, visited>>
    BY <1>3 DEF ChunkStep, diffVars
  <2>3. QED
    BY <1>2, <2>1, <2>2 DEF SInv, SparseInv
<1>4. CASE AddAgain
  BY <1>2, <1>4 DEF SInv, SparseInv, AddAgain, diffVars
<1>5. CASE Compare
  <2>1. phase # "diff" /\ stack' = MT!Calls(a', b') /\ visited' = visited
    BY <1>5 DEF Compare
  <2>2. visited' = 0
    BY <1>2, <2>1 DEF DInv
  <2>3. QED
    BY <1>2, <2>1, <2>2 DEF SInv, SparseInv, MT!Calls
<1>6. CASE DiffStep
  <2>1. phase = "diff" /\ phase' = "diff" /\ UNCHANGED <<a, b>> /\ stack # <<>> /\ visited' = visited + 1
    BY <1>6 DEF DiffStep, MT!Skip, MT!Report, MT!Descend, MT!Push
  <2>2. Len(a) = Len(b)
    BY <1>2, <2>1 DEF DInv, WalkInv
  <2>3. Compared /\ WithinBudget
    BY <1>1, <2>1, <2>2, SInvFacts
  <2>4. PICK pos \in 0 .. Len(a) : Stacked(stack, MT!Nodes(a), Len(a), pos)
    BY <1>2, <2>1, <2>2 DEF DInv, WalkInv
  <2>5. PICK w \in Nat : Weighed(stack, w) /\ visited + w <= Budget
    BY <2>3 DEF WithinBudget
  <2>6. PICK v \in Nat : Weighed(stack', v) /\ visited' + v <= Budget
    BY <1>2, <1>6, <2>3, <2>4, <2>5, SparseOn
  <2>7. Budget' = Budget /\ \A nd : Cost(nd)' = Cost(nd)
    BY <2>1 DEF Budget, Cost, Touched, MT!Changed
  <2>8. Weighed(stack, v)'
    BY <2>6, <2>7 DEF Weighed, SumsUp
  <2>9. WithinBudget'
    BY <2>6, <2>7, <2>8 DEF WithinBudget
  <2>10. QED
    BY <1>2, <2>1, <2>9 DEF SInv, SparseInv
<1>7. CASE UNCHANGED ingestVars
  <2>1. UNCHANGED <<phase, a, b, stack, out, visited>>
    BY <1>7 DEF ingestVars, diffVars
  <2>2. Budget' = Budget /\ \A nd : Cost(nd)' = Cost(nd)
    BY <2>1 DEF Budget, Cost, Touched, MT!Changed
  <2>3. WithinBudget => WithinBudget'
    <3>1. \A w : Weighed(stack, w) => Weighed(stack, w)'
      BY <2>1, <2>2 DEF Weighed, SumsUp
    <3>2. QED
      BY <2>1, <2>2, <3>1 DEF WithinBudget
  <2>4. MT!Calls(a, b)' = MT!Calls(a, b)
    BY <2>1 DEF MT!Calls
  <2>5. QED
    BY <1>1, <1>2, <2>1, <2>3, <2>4 DEF SInv, SparseInv
<1>8. QED
  BY <1>1, <1>3, <1>4, <1>5, <1>6, <1>7 DEF IngestNext

LEMMA SInvSparse ==
  ASSUME SInv
  PROVE  WalkIsSparse
<1>1. SUFFICES ASSUME phase = "diff", Len(a) = Len(b)
               PROVE  visited <= 1 + 2 * Cardinality(MT!Changed) * MT!Height(Len(a))
  <2>1. MT!Cardinality(MT!Changed) = Cardinality(MT!Changed)
    BY DEF MT!Cardinality, Cardinality
  <2>2. QED
    BY <2>1 DEF WalkIsSparse, MT!WalkIsSparse
<1>2. Compared /\ WithinBudget /\ visited \in Nat
  BY <1>1, SInvFacts DEF SInv
<1>3. visited <= Budget
  BY <1>2, BudgetType DEF WithinBudget
<1>4. MT!Height(Len(a)) = Heights(Len(a))[Len(a)]
  BY DEF MT!Height, Heights, Level
<1>5. DEFINE x == Cardinality(MT!Changed)
             y == Heights(Len(a))[Len(a)]
<1>6. Len(a) \in Nat /\ Len(a) \in 0 .. Len(a)
  BY <1>2 DEF Compared
<1>7. x \in Nat /\ y \in Nat
  BY <1>2, <1>6, TouchedFacts, HeightsEq, FS_CardinalityType
<1>8. Budget = 1 + 2 * (x * y)
  BY DEF Budget
<1>9. HIDE DEF x, y
<1>10. 2 * (x * y) = 2 * x * y
  BY <1>7
<1>11. QED
  BY <1>3, <1>4, <1>8, <1>10 DEF x, y

\* The walk of diff_leaf_indices calls collect_diffs for the root and for at most
\* two nodes per level and changed leaf, for any two versions with equally many
\* chunks: it looks at the whole tree only if the whole file changed.
THEOREM WalkIsSparseHolds == IngestSpec => []WalkIsSparse
<1>1. SInv => WalkIsSparse
  BY SInvSparse
<1>2. QED
  BY <1>1, SInvInit, SInvStep, PTL DEF IngestSpec
=============================================================================
