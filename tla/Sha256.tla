------------------------------- MODULE Sha256 -------------------------------
(***************************************************************************)
(* sha256.cpp: how a message is cut into blocks and padded, and how digests *)
(* are combined.  The compression of a block into the state is left free:   *)
(* a state, and so a digest, is the sequence of the blocks it absorbed.     *)
(* Byte v is <<v>>, and <<d, k>> is the k-th byte of digest d: a byte like  *)
(* any other, which files may contain as well.                              *)
(***************************************************************************)
EXTENDS Naturals, Sequences

CONSTANTS BlockSize,          \* bytes of a block (64 in the code)
          LenSize,            \* bytes of the length at the end (8)
          ByteBits            \* bits of a byte (8)

Base == 2 ^ ByteBits
DigestLen == BlockSize \div 2

\* A new Sha256Ctx.
Ctx == [h |-> <<>>, buffer |-> <<>>, bit_len |-> 0]

\* process_block for every full block; the rest stays in the buffer.
update(ctx, data) ==
  LET all == ctx.buffer \o data
      full == Len(all) \div BlockSize
  IN [h       |-> ctx.h \o [k \in 1 .. full |->
                              SubSeq(all, (k - 1) * BlockSize + 1, k * BlockSize)],
      buffer  |-> SubSeq(all, full * BlockSize + 1, Len(all)),
      bit_len |-> ctx.bit_len + ByteBits * Len(data)]

\* v in LenSize bytes, high byte first.
len_bytes(v) == [k \in 1 .. LenSize |-> <<(v \div Base ^ (LenSize - k)) % Base>>]

\* How many zero bytes follow until LenSize bytes of the block are left.
Zeros(buf_len) == (2 * BlockSize - LenSize - buf_len) % BlockSize

\* Mutant: no 0x80 after the message.
FinishMutant(ctx) ==
  LET padded == update(ctx, [k \in 1 .. Zeros(Len(ctx.buffer)) |-> <<0>>])
  IN Append(padded.h, padded.buffer \o len_bytes(padded.bit_len))

\* 0x80, zeros, and the bits of all that went through update.
finish(ctx) ==
  LET marked == update(ctx, <<<<Base \div 2>>>>)
      padded == update(marked, [k \in 1 .. Zeros(Len(marked.buffer)) |-> <<0>>])
  IN Append(padded.h, padded.buffer \o len_bytes(padded.bit_len))

Sha(data) == finish(update(Ctx, data))

DigestBytes(d) == [k \in 1 .. DigestLen |-> <<d, k>>]

\* Mutant: the halves are swapped.
CombineMutant(l, r) == Sha(DigestBytes(r) \o DigestBytes(l))

combine(l, r) == Sha(DigestBytes(l) \o DigestBytes(r))

-----------------------------------------------------------------------------

\* FIPS 180-4: 1 bit, 0 bits, and the length of the message, in blocks.
SHA256(data) ==
  LET all == data \o <<<<Base \div 2>>>> \o [k \in 1 .. Zeros((Len(data) + 1) % BlockSize) |-> <<0>>]
                  \o len_bytes(ByteBits * Len(data))
  IN [k \in 1 .. Len(all) \div BlockSize |-> SubSeq(all, (k - 1) * BlockSize + 1, k * BlockSize)]
=============================================================================
