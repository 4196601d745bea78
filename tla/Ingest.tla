------------------------------- MODULE Ingest -------------------------------
(***************************************************************************)
(* SyncEngine::ingest_file of a file and of any later version of it: both   *)
(* are chunked (Chunker), their chunks hashed (Sha256) and the change       *)
(* reported.  The trees over the hashes, which ingest_file only builds, are *)
(* then compared as test_merkle.cpp compares them (MerkleTree).             *)
(***************************************************************************)
EXTENDS Chunker, SequencesExt

CONSTANTS BlockSize, LenSize, ByteBits

\* The length fits into a block, and 0x80 is not 0.
ASSUME BlockAssumption ==
  /\ BlockSize \in Nat /\ LenSize \in Nat /\ LenSize < BlockSize /\ 2 <= BlockSize
  /\ 2 ^ ByteBits \in Nat /\ 2 <= 2 ^ ByteBits

VARIABLES phase,              \* "old", "new" or "diff"
          old,                \* the first version ...
          prev,               \* ... and its chunks
          a, b,               \* the chunk hashes of both
          report,             \* what ingest_file prints
          stack, out, visited \* collect_diffs

chunkerVars == <<data, start, i, j, hash, chunks>>
diffVars == <<stack, out, visited>>
ingestVars == <<chunkerVars, phase, old, prev, a, b, report, diffVars>>

SHA == INSTANCE Sha256
Combine(l, r) == SHA!combine(l, r)
MT == INSTANCE MerkleTree WITH combine <- Combine

\* The hashes that put_local records.
Hashes(cs) == [k \in DOMAIN cs |-> SHA!Sha(cs[k].data)]

-----------------------------------------------------------------------------

IngestInit ==
  /\ Init
  /\ phase = "old" /\ old = <<>> /\ prev = <<>> /\ a = <<>> /\ b = <<>>
  /\ report = [said |-> "nothing", changed |-> 0]
  /\ stack = <<>> /\ out = <<>> /\ visited = 0

\* Chunker::chunk goes on.
ChunkStep ==
  /\ Roll \/ Cut \/ Finish
  /\ UNCHANGED <<phase, old, prev, a, b, report, diffVars>>

\* The first version is recorded, and the file added again, with any content.
AddAgain ==
  /\ phase = "old" /\ Returned
  /\ old' = data /\ prev' = chunks /\ a' = Hashes(chunks)
  /\ data' \in Files
  /\ start' = 0 /\ i' = 0 /\ j' = 0 /\ hash' = 0 /\ chunks' = <<>>
  /\ phase' = "new"
  /\ UNCHANGED <<b, report, diffVars>>

\* Mutant: the sizes are not compared first.
ChangeMutant(x, y) ==
  [said    |-> IF x = <<>> THEN "new file" ELSE "changed",
   changed |-> Cardinality({k \in DOMAIN x \cap DOMAIN y : x[k] # y[k]})]

\* "new file", "chunk count changed", or how many chunks changed.
Change(x, y) ==
  [said    |-> IF x = <<>> THEN "new file"
               ELSE IF Len(x) # Len(y) THEN "count changed" ELSE "changed",
   changed |-> Cardinality({k \in DOMAIN x \cap DOMAIN y : x[k] # y[k]})]

\* The second version is compared with the first.
Compare ==
  /\ phase = "new" /\ Returned
  /\ b' = Hashes(chunks)
  /\ report' = Change(a, b')
  /\ stack' = MT!Calls(a, b')
  /\ phase' = "diff"
  /\ UNCHANGED <<chunkerVars, old, prev, a, out, visited>>

\* diff_leaf_indices goes on.
DiffStep ==
  /\ phase = "diff"
  /\ MT!Skip \/ MT!Report \/ MT!Descend
  /\ UNCHANGED <<chunkerVars, phase, old, prev, report>>

IngestNext == ChunkStep \/ AddAgain \/ Compare \/ DiffStep

\* Chunker::chunk runs on once it is called; whether the file is ever added again
\* is the user's choice.
IngestSpec == IngestInit /\ [][IngestNext]_ingestVars /\ WF_ingestVars(ChunkStep)

-----------------------------------------------------------------------------
(* Properties.                                                              *)

Done == phase = "diff" /\ stack = <<>>

\* Every call of Chunker::chunk returns, the one for the first version of a file
\* and the one for the next: the inner loop never runs out of bytes without the
\* outer one noticing.
ChunkingEnds == []<>Returned

\* Among trees of the same size the walk finds exactly the leaves that differ, in
\* file order, although it looks below no node with equal hashes (collect_diffs).
DiffExact == Done => MT!DiffExact

\* "Walking down only the subtrees whose hashes differ" (merkle_tree.hpp): the
\* walk makes no more calls of collect_diffs than one for the root and two for
\* every node on the way to a changed leaf.
WalkIsSparse == phase = "diff" => MT!WalkIsSparse

\* Among trees of the same size the roots match exactly for identical files, down
\* to the bytes (merkle_tree.hpp): chunking, the padding of every chunk's hash and
\* combine tell any two such files apart.
RootDecides == phase = "diff" /\ a # <<>> /\ Len(a) = Len(b) => (MT!SameRoot <=> old = data)

\* Between trees of different sizes they need not tell files apart, whatever
\* merkle_tree.hpp says ("identical, full stop"): combine hashes two digests like
\* the bytes of a chunk.  A file of one chunk has the root of a larger tree exactly
\* when it consists of the digests of the tree's two halves.
RootOfDigests ==
  phase = "diff" /\ Len(a) > 1 /\ Len(b) = 1 =>
    (MT!SameRoot <=> data = SHA!DigestBytes(MT!build(a)[MT!left(MT!Root(a))]) \o
                            SHA!DigestBytes(MT!build(a)[MT!right(MT!Root(a))]))

\* ingest_file reports no change exactly for the file it has; and where trees
\* have the same size its count is that of diff_leaf_indices, whose empty result
\* means no change only then.
ReportTellsChange ==
  Done /\ old # <<>> =>
    /\ (report.said = "changed" /\ report.changed = 0) <=> old = data
    /\ report.said = "changed" => report.changed = Len(out)

\* The bytes of the chunks of cs that follow the k-th.
Following(cs, k) == [m \in 1 .. Len(cs) - k |-> cs[k + m].data]

\* What two versions of a file have in common is cut alike (Chunker::chunk resets
\* the hash at every cut): the chunks that end before the first difference, and
\* all those behind a cut from which on both versions have the same bytes.  There
\* need not be such a cut, although chunker.hpp says that local edits do not change
\* "everything after": where chunks are cut at MaxSize, an insertion moves all cuts.
SharedCutResyncs ==
  phase = "diff" =>
    /\ \A k \in DOMAIN prev :
         LET end == EndOf(prev[k]) IN
         end < Len(old) /\ end <= n /\ SubSeq(old, 1, end) = SubSeq(data, 1, end)
           => k \in DOMAIN chunks /\ chunks[k] = prev[k]
    /\ \A k \in DOMAIN prev, l \in DOMAIN chunks :
         SubSeq(old, EndOf(prev[k]) + 1, Len(old)) = SubSeq(data, EndOf(chunks[l]) + 1, n)
           => Following(prev, k) = Following(chunks, l)

\* sha256.hpp says "SHA-256"; finish, however, reads bit_len after it has counted
\* the padding.  What is compressed is the message padded as SHA-256 pads it, in
\* as many blocks, up to the length, which is that of message and padding.
LengthCountsPadding ==
  LET h == SHA!Sha(data)
      standard == SHA!SHA256(data)
      rest == BlockSize - LenSize
  IN
  /\ Len(h) = Len(standard) /\ Front(h) = Front(standard)
  /\ Last(h) = SubSeq(Last(standard), 1, rest) \o SHA!len_bytes(ByteBits * (BlockSize * Len(h) - LenSize))
=============================================================================
