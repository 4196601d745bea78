------------------------------ MODULE Payloads ------------------------------
(***************************************************************************)
(* One payload from the code that writes it to the code that reads it: the  *)
(* journal (save_journal, load_journal), MANIFEST, CHUNK_REQUEST and        *)
(* CHUNK_DATA.  A journal may be cut short, when the process that writes it *)
(* is killed; a frame arrives whole or not at all (Transport).              *)
(***************************************************************************)
EXTENDS EntryCodec, PathNames

CONSTANTS Origins,            \* sequences of [dir, stem, ext, forks]: the files of a store
          Details,            \* [deleted, size, ...]: the rest of an entry
          HashLists, ChunkLists,
          LenBytes,           \* bytes of a chunk's length (4 in the code)
          Base                \* values of a byte (256 in the code)

VARIABLES kind, origin,       \* what is written, and the files it is about
          content,            \* entries, hashes or chunks
          text,               \* the payload
          pos,                \* how much of it has been read
          result,             \* what was read
          status              \* "written", "reading", "failed" or "returned"

vars == <<kind, origin, content, text, pos, result, status>>

-----------------------------------------------------------------------------
(* Writing.                                                                 *)

Lines(entries) == FlattenSeq([k \in DOMAIN entries |-> entry_to_line(entries[k]) \o <<NL>>])

serialize_manifest(node_id, entries) == <<node_id, NL>> \o Lines(entries)

serialize_hash_list(hashes) == Join([k \in DOMAIN hashes |-> to_hex(hashes[k])], <<NL>>)

\* Mutant: low byte first.
LenBytesMutant(len) == [k \in 1 .. LenBytes |-> (len \div Base ^ (k - 1)) % Base]

\* len in LenBytes bytes, high byte first.
len_bytes(len) == [k \in 1 .. LenBytes |-> (len \div Base ^ (LenBytes - k)) % Base]

chunk_data_payload(chunks) ==
  FlattenSeq([k \in DOMAIN chunks |->
                chunks[k].hash \o len_bytes(Len(chunks[k].data)) \o chunks[k].data])

\* The name of a file after its forks.
BaseName(o) == o.dir \o <<o.stem>> \o (IF o.ext = <<>> THEN <<>> ELSE <<Dot>> \o o.ext)
Name(o) == FoldLeft(conflict_name, BaseName(o), o.forks)

Written(k, c) ==
  CASE k = "journal"  -> Lines(c)
    [] k = "manifest" -> serialize_manifest(NodeIds[1], c)
    [] k = "hashes"   -> serialize_hash_list(c)
    [] k = "chunks"   -> chunk_data_payload(c)

Init ==
  /\ \/ /\ kind \in {"journal", "manifest"}
        /\ origin \in Origins
        /\ \E d \in [DOMAIN origin -> Details] :
             content = [k \in DOMAIN origin |-> [path |-> Name(origin[k])] @@ d[k]]
     \/ kind = "hashes" /\ origin = <<>> /\ content \in HashLists
     \/ kind = "chunks" /\ origin = <<>> /\ content \in ChunkLists
  /\ text = Written(kind, content)
  /\ pos = 0 /\ result = <<>> /\ status = "written"

\* The process is killed while it saves: part of the text is in the file.
Kill ==
  /\ status = "written" /\ kind = "journal"
  /\ \E k \in 0 .. Len(text) - 1 : text' = SubSeq(text, 1, k)
  /\ status' = "reading"
  /\ UNCHANGED <<kind, origin, content, pos, result>>

-----------------------------------------------------------------------------
(* Reading.                                                                 *)

\* The line that begins after position p, and where the next one does.
LineAt(p) == LET k == SelectInSubSeq(text, p + 1, Len(text), LAMBDA t : t = NL) IN
             [line |-> SubSeq(text, p + 1, IF k = 0 THEN Len(text) ELSE k - 1),
              next |-> IF k = 0 THEN Len(text) ELSE k]

\* The first line of a manifest, the peer's node id, is not used.
Open ==
  /\ status = "written"
  /\ pos' = IF kind = "manifest" THEN LineAt(0).next ELSE 0
  /\ status' = "reading"
  /\ UNCHANGED <<kind, origin, content, text, result>>

\* One iteration of load_journal, parse_manifest or parse_hash_list.
ReadLine ==
  LET here == LineAt(pos)
      item == IF kind = "hashes" THEN hex_to_digest(here.line) ELSE line_to_entry(here.line)
  IN
  /\ status = "reading" /\ kind # "chunks"
  /\ pos < Len(text)
  /\ pos' = here.next
  /\ IF here.line = <<>> THEN UNCHANGED <<result, status>>
     ELSE IF item = {} THEN status' = "failed" /\ UNCHANGED result
     ELSE result' = Append(result, CHOOSE x \in item : TRUE) /\ UNCHANGED status
  /\ UNCHANGED <<kind, origin, content, text>>

HeaderLen == DigestLen + LenBytes

\* The condition of the loop over CHUNK_DATA.
More == pos + HeaderLen <= Len(text)

\* One chunk of CHUNK_DATA; bytes past the end of the payload are left out.
ReadChunk ==
  LET len == FoldLeft(LAMBDA v, b : Base * v + b, 0,
                      SubSeq(text, pos + DigestLen + 1, pos + HeaderLen))
  IN
  /\ status = "reading" /\ kind = "chunks"
  /\ More
  /\ result' = Append(result, [hash |-> SubSeq(text, pos + 1, pos + DigestLen),
                               data |-> SubSeq(text, pos + HeaderLen + 1,
                                               Min({pos + HeaderLen + len, Len(text)}))])
  /\ pos' = pos + HeaderLen + len
  /\ UNCHANGED <<kind, origin, content, text, status>>

Return ==
  /\ status = "reading"
  /\ IF kind = "chunks" THEN ~ More ELSE pos = Len(text)
  /\ status' = "returned"
  /\ UNCHANGED <<kind, origin, content, text, pos, result>>

Next == Kill \/ Open \/ ReadLine \/ ReadChunk \/ Return

Spec == Init /\ [][Next]_vars

-----------------------------------------------------------------------------
(* Properties.                                                              *)

\* The names of the files can be told from the separators of a line.
Clean == \A k \in DOMAIN origin : {TAB, NL} \cap ToSet(BaseName(origin[k])) = {}

Whole == text = Written(kind, content)

\* What is written is what is read: "what we'd save to disk" and "what we send
\* over the wire" (network.cpp), entry for entry, hash for hash and chunk for
\* chunk, and no entry of a store is lost unless a name holds a separator.
RoundTrip == status = "returned" /\ Whole => (result = content <=> Clean)

\* CHUNK_DATA is read to its end and not past it, although nothing compares the
\* length of a chunk with what is left of the payload (run_sync_session).
ReadsInBounds == pos <= Len(text) /\ (status = "returned" => pos = Len(text))

\* The digests of which the first bytes are those of d and the others 0.
CutShort(d) == {[k \in DOMAIN d |-> IF k <= b THEN d[k] ELSE 0] : b \in 0 .. Len(d)}

\* A part of the line of f is read as e: a name that may be shorter, and nothing
\* else; a version of f with less of its clock and no content; or f with the first
\* of its hashes, the last of which may have been cut.
PartOf(e, f) ==
  /\ e.size <= f.size /\ e.merkle_root \in CutShort(f.merkle_root)
  /\ \/ /\ IsPrefix(e.path, f.path) /\ ~ e.deleted
        /\ e.clock = <<>> /\ e.last_writer = <<>> /\ e.chunk_hashes = <<>>
     \/ /\ e.path = f.path /\ e.deleted = f.deleted
        /\ \A n \in DOMAIN e.clock : n \in DOMAIN f.clock /\ e.clock[n] <= f.clock[n]
        /\ e.last_writer = <<>> /\ e.chunk_hashes = <<>>
     \/ /\ e.path = f.path /\ e.deleted = f.deleted
        /\ e.clock = f.clock /\ e.last_writer = f.last_writer
        /\ \/ e.chunk_hashes = <<>>
           \/ \E k \in DOMAIN f.chunk_hashes : \E h \in CutShort(f.chunk_hashes[k]) :
                e.chunk_hashes = Append(SubSeq(f.chunk_hashes, 1, k - 1), h)

\* A journal that was cut short yields its complete lines and at most one more
\* entry, read from a part of a line (load_journal, line_to_entry).  That one may
\* be of a file, of a clock or with a hash that was never recorded, but only as
\* PartOf says: it never claims an edit that was not made, and its hashes are
\* recorded ones up to a last one of which the bytes behind the cut are 0.
CutYieldsPart ==
  kind = "journal" /\ Clean =>
    /\ \A k \in DOMAIN result :
         result[k] = content[k] \/ (k = Len(result) /\ ~ Whole /\ PartOf(result[k], content[k]))
    /\ status = "returned" => Len(result) >= Cardinality({k \in DOMAIN text : text[k] = NL})

\* load_journal throws, so that no command runs any more, only for a journal cut
\* directly after the colon of a counter.
FailsOnlyAtCounter == status = "failed" /\ Clean => Last(text) = ":"

\* Files that differ in name or in the writers they were forked for, in order,
\* never share a name: no conflict copy takes the place of another file or of a
\* copy for another writer (make_conflict_path).
NamesDistinct ==
  \A k, l \in DOMAIN origin : origin[k] # origin[l] => content[k].path # content[l].path

\* "notes.txt" -> "notes.conflict-nodeB.txt" (crdt_store.cpp): a conflict copy
\* is in the directory of its file and has its extension, unless the last dot
\* of the path is in the name of a directory.
CopyBesideOriginal ==
  \A k \in DOMAIN origin :
    LET o == origin[k] IN
    o.ext # <<>> \/ find_last_of(o.dir, Dot) = 0
      => content[k].path = o.dir \o Join([w \in DOMAIN Words(o.stem, o.forks, o.ext) |->
                                             <<Words(o.stem, o.forks, o.ext)[w]>>], <<Dot>>)
=============================================================================
