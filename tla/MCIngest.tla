------------------------------ MODULE MCIngest ------------------------------
(* Ingest of all files of at most MaxLen bytes, of some of more chunks, and  *)
(* of one that consists of digests.  The bytes are those that padding        *)
(* consists of, 0 and the one with only its high bit set, and those of the   *)
(* digests.                                                                 *)
EXTENDS Ingest

CONSTANT MaxLen               \* the bound of the model

Zero == <<0>>
High == <<8>>
Plain == UNION {[1 .. k -> {Zero, High}] : k \in 0 .. MaxLen}

\* A file of two chunks, which is cut at MaxSize, and the file that consists of
\* the digests of its chunks.
TwoChunks == <<High, High, High, High, Zero>>
Twin == SHA!DigestBytes(SHA!Sha(SubSeq(TwoChunks, 1, MaxSize))) \o
        SHA!DigestBytes(SHA!Sha(SubSeq(TwoChunks, MaxSize + 1, Len(TwoChunks))))

MCByte == {Zero, High} \cup ToSet(Twin)
MCGear == [v \in MCByte |-> IF v = Zero THEN 3 ELSE 2]

\* A file of five chunks, four of MinSize and a rest of one byte, and those with
\* one other byte.
FiveChunks == [k \in 1 .. 9 |-> IF k % 2 = 1 THEN Zero ELSE High]
Long == {[FiveChunks EXCEPT ![k] = v] : k \in DOMAIN FiveChunks, v \in {Zero, High}}

MCFiles == Plain \cup Long \cup {Twin}
=============================================================================
