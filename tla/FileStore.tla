----------------------------- MODULE FileStore -----------------------------
(***************************************************************************)
(* file_store.{hpp,cpp}: the chunk files of one node, a map from hash to    *)
(* the bytes under that name.  The bytes that hash to h are written h, so   *)
(* an intact store maps every hash to itself; Torn stands for a chunk file  *)
(* cut short.  A materialized file is the sequence of the bytes it was      *)
(* assembled from.                                                          *)
(***************************************************************************)
EXTENDS Sequences

CONSTANT Torn

NoChunks == [h \in {} |-> h]

\* Mutant: every chunk gets the bytes of the first one.
WholeChunksMutant(hashes) == [h \in {hashes[i] : i \in DOMAIN hashes} |-> Head(hashes)]

\* The chunks of a list of hashes, as the chunker hands them to put_chunk.
WholeChunks(hashes) == [h \in {hashes[i] : i \in DOMAIN hashes} |-> h]

has_chunk(chunks, h) == h \in DOMAIN chunks

\* A chunk file that exists is never written again.
put_chunk(chunks, h, bytes) ==
  IF has_chunk(chunks, h)
  THEN chunks
  ELSE [x \in DOMAIN chunks \cup {h} |-> IF x = h THEN bytes ELSE chunks[x]]

\* get_chunk finds a file for every hash; otherwise reassemble throws.
CanReassemble(chunks, hashes) == \A i \in DOMAIN hashes : has_chunk(chunks, hashes[i])

reassemble(chunks, hashes) == [i \in DOMAIN hashes |-> chunks[hashes[i]]]

\* Mutant: a file that exists is taken to be up to date.
MaterializeMutant(dir, path, bytes) ==
  [p \in DOMAIN dir \cup {path} |-> IF p \in DOMAIN dir THEN dir[p] ELSE bytes]

\* The files under the materialized directory, after path was written out.
materialize(dir, path, bytes) ==
  [p \in DOMAIN dir \cup {path} |-> IF p = path THEN bytes ELSE dir[p]]

\* The answer to a CHUNK_REQUEST: hashes without a chunk file are skipped.
Serve(chunks, hashes) == [h \in {x \in hashes : has_chunk(chunks, x)} |-> chunks[h]]
=============================================================================
