--------------------------- MODULE SyncNodeProofs ---------------------------
(***************************************************************************)
(* Proofs about SyncNode, for any number of nodes and processes, any files  *)
(* and any crashes.  First the disk: types, and that every journalled       *)
(* version has its chunks.  Then sessions: that what a process asks of its  *)
(* peer the peer has, and what it writes out it has itself.                 *)
(***************************************************************************)
EXTENDS SyncNode, CrdtStoreProofs

-----------------------------------------------------------------------------
(* Types as sets.                                                           *)

\* Entries of which a tombstone has no chunks, as delete_local makes them.
Good == {e \in FileEntry : e.deleted => e.chunk_hashes = <<>>}

Store == {es \in UNION {[S -> Good] : S \in SUBSET Path} :
            \A p \in DOMAIN es : es[p].path = p}

ChunkMap == {m \in UNION {[S -> Chunk \cup {Torn}] : S \in SUBSET Chunk} :
               \A h \in DOMAIN m : m[h] \in {h, Torn}}

Dir == UNION {[S -> Seq(Chunk \cup {Torn})] : S \in SUBSET Path}

Frame ==
  [type : {"MANIFEST"}, entries : SUBSET Good] \cup
  [type : {"CHUNK_REQUEST"}, hashes : SUBSET Chunk] \cup
  [type : {"CHUNK_DATA"}, chunks : ChunkMap] \cup
  [type : {"DONE"}]

ProcRec ==
  [pc : ProcState, mem : Store, adding : Seq(Chunk), todo : SUBSET Good,
   needed : SUBSET Chunk, incoming : ChunkMap, paths : Seq(Path)]

Typed ==
  /\ journal \in [Node -> Store]
  /\ blobs \in [Node -> ChunkMap]
  /\ files \in [Node -> Dir]
  /\ proc \in [Proc -> ProcRec]
  /\ link \in [Proc -> Proc \cup {NoPeer}]
  /\ chan \in [Proc -> Seq(Frame)]
  /\ edits \in [Node -> 0 .. MaxEdits]

LEMMA StoreIsStore ==
  ASSUME NEW es \in Store
  PROVE  /\ IsStore(es)
         /\ DOMAIN es \subseteq Path
         /\ \A p \in DOMAIN es : es[p] \in Good
         /\ all_entries(es) \subseteq Good
  BY DEF Store, Good, IsStore, all_entries

LEMMA StoreIntro ==
  ASSUME NEW es, IsStore(es), \A p \in DOMAIN es : es[p] \in Good
  PROVE  es \in Store
<1>1. DOMAIN es \subseteq Path
  BY DEF IsStore, FileEntry
<1>2. es \in [DOMAIN es -> Good]
  BY DEF IsStore
<1>3. QED
  BY <1>1, <1>2 DEF Store, IsStore

LEMMA EmptyStoreInStore == EmptyStore \in Store
  BY EmptyStoreType, StoreIntro

LEMMA LoadInStore ==
  ASSUME NEW es \in Store, NEW e \in Good
  PROVE  load_entry(es, e) \in Store
<1>1. IsStore(es) /\ e \in FileEntry /\ \A p \in DOMAIN es : es[p] \in Good
  BY StoreIsStore DEF Good
<1>2. LoadStep(es, load_entry(es, e), e)
  BY <1>1, LoadEntryFacts
<1>3. \A p \in DOMAIN load_entry(es, e) : load_entry(es, e)[p] \in Good
  BY <1>1, <1>2 DEF LoadStep
<1>4. QED
  BY <1>2, <1>3, StoreIntro DEF LoadStep

LEMMA PutInStore ==
  ASSUME NEW es \in Store, NEW n \in Node, NEW p \in Path, NEW chunks \in Seq(Chunk)
  PROVE  put_local(es, n, p, chunks) \in Store
<1>1. DEFINE es2 == put_local(es, n, p, chunks)
<1>2. IsStore(es) /\ \A q \in DOMAIN es : es[q] \in Good
  BY StoreIsStore
<1>3. LocalEdit(es, es2, n, p) /\ ~ es2[p].deleted
  BY <1>2, PutLocalFacts
<1>4. HIDE DEF es2
<1>5. IsStore(es2) /\ \A q \in DOMAIN es2 : q = p \/ (es2[q] = es[q] /\ q \in DOMAIN es)
  BY <1>3 DEF LocalEdit
<1>6. \A q \in DOMAIN es2 : es2[q] \in Good
  BY <1>2, <1>3, <1>5 DEF IsStore, Good
<1>7. es2 \in Store
  BY <1>5, <1>6, StoreIntro
<1>8. QED
  BY <1>7 DEF es2

LEMMA DeleteInStore ==
  ASSUME NEW es \in Store, NEW n \in Node, NEW p \in Path
  PROVE  delete_local(es, n, p) \in Store
<1>1. DEFINE es2 == delete_local(es, n, p)
<1>2. IsStore(es) /\ \A q \in DOMAIN es : es[q] \in Good
  BY StoreIsStore
<1>3. LocalEdit(es, es2, n, p) /\ es2[p].chunk_hashes = <<>>
  BY <1>2, DeleteLocalFacts
<1>4. HIDE DEF es2
<1>5. IsStore(es2) /\ \A q \in DOMAIN es2 : q = p \/ (es2[q] = es[q] /\ q \in DOMAIN es)
  BY <1>3 DEF LocalEdit
<1>6. \A q \in DOMAIN es2 : es2[q] \in Good
  BY <1>2, <1>3, <1>5 DEF IsStore, Good
<1>7. es2 \in Store
  BY <1>5, <1>6, StoreIntro
<1>8. QED
  BY <1>7 DEF es2

LEMMA MergeInStore ==
  ASSUME NEW es \in Store, NEW e \in Good
  PROVE  merge_remote(es, e) \in Store
<1>1. DEFINE es2 == merge_remote(es, e)
<1>2. IsStore(es) /\ e \in FileEntry /\ \A q \in DOMAIN es : es[q] \in Good
  BY StoreIsStore DEF Good
<1>3. MergeStep(es, es2, e)
  BY <1>2, MergeRemoteFacts
<1>4. HIDE DEF es2
<1>5. ASSUME NEW q \in DOMAIN es2
      PROVE  es2[q] \in Good
  <2>1. es2[q] \in FileEntry
    BY <1>3 DEF MergeStep, IsStore
  <2>2. CASE es2[q].chunk_hashes = e.chunk_hashes /\ es2[q].deleted = e.deleted
    BY <2>1, <2>2 DEF Good
  <2>3. CASE /\ q \in DOMAIN es
             /\ es2[q].chunk_hashes = es[q].chunk_hashes
             /\ es2[q].deleted = es[q].deleted
    BY <1>2, <2>1, <2>3 DEF Good
  <2>4. QED
    BY <1>3, <2>2, <2>3 DEF MergeStep
<1>6. es2 \in Store
  BY <1>3, <1>5, StoreIntro DEF MergeStep
<1>7. QED
  BY <1>6 DEF es2

LEMMA ClocksOfStore ==
  ASSUME NEW es \in Store
  PROVE  \A p \in DOMAIN es : es[p].clock \in Clock /\ es[p].path = p /\ ClockAt(es, p) = es[p].clock
  BY StoreIsStore DEF Good, FileEntry, IsStore, ClockAt

\* A conflict copy is not at a user's path.
LEMMA ConflictPathIsLong ==
  ASSUME NEW e \in FileEntry
  PROVE  Len(ConflictPath(e)) # 1
<1>1. /\ e.path \in Seq(BasePath \cup Node) /\ e.path # <<>>
      /\ e.last_writer \in BasePath \cup Node
  BY DEF FileEntry, Path
<1>2. Len(Append(e.path, e.last_writer)) = Len(e.path) + 1 /\ Len(e.path) > 0
  BY <1>1
<1>3. QED
  BY <1>1, <1>2 DEF ConflictPath, make_conflict_path

-----------------------------------------------------------------------------
(* The chunk files.                                                         *)

LEMMA NoChunksType == NoChunks \in ChunkMap /\ DOMAIN NoChunks = {}
<1>1. NoChunks \in [{} -> Chunk \cup {Torn}] /\ DOMAIN NoChunks = {}
  BY DEF NoChunks
<1>2. QED
  BY <1>1 DEF ChunkMap

LEMMA ChunkMapIntro ==
  ASSUME NEW m, NEW S \in SUBSET Chunk, m \in [S -> Chunk \cup {Torn}],
         \A h \in S : m[h] \in {h, Torn}
  PROVE  m \in ChunkMap
  BY DEF ChunkMap

LEMMA ChunkMapFacts ==
  ASSUME NEW m \in ChunkMap
  PROVE  /\ DOMAIN m \subseteq Chunk
         /\ m = [h \in DOMAIN m |-> m[h]]
         /\ \A h \in DOMAIN m : m[h] \in {h, Torn}
  BY DEF ChunkMap

LEMMA WholeChunksType ==
  ASSUME NEW hashes \in Seq(Chunk)
  PROVE  WholeChunks(hashes) \in ChunkMap
<1>1. DEFINE S == {hashes[i] : i \in DOMAIN hashes}
<1>2. S \subseteq Chunk
  OBVIOUS
<1>3. HIDE DEF S
<1>4. [h \in S |-> h] \in [S -> Chunk \cup {Torn}] /\ \A h \in S : [x \in S |-> x][h] \in {h, Torn}
  BY <1>2
<1>5. [h \in S |-> h] \in ChunkMap
  BY <1>2, <1>4, ChunkMapIntro
<1>6. QED
  BY <1>5 DEF WholeChunks, S

\* put_chunk adds at most the one chunk, and never takes one away.
LEMMA PutChunkFacts ==
  ASSUME NEW m \in ChunkMap, NEW h \in Chunk, NEW bytes \in {h, Torn}
  PROVE  /\ put_chunk(m, h, bytes) \in ChunkMap
         /\ DOMAIN put_chunk(m, h, bytes) = DOMAIN m \cup {h}
<1>1. CASE h \in DOMAIN m
  BY <1>1 DEF put_chunk, has_chunk
<1>2. CASE h \notin DOMAIN m
  <2>1. DEFINE S == DOMAIN m \cup {h}
               m2 == [x \in S |-> IF x = h THEN bytes ELSE m[x]]
  <2>2. put_chunk(m, h, bytes) = m2
    BY <1>2 DEF put_chunk, has_chunk
  <2>3. S \in SUBSET Chunk
    BY ChunkMapFacts
  <2>4. \A x \in S : m2[x] \in {x, Torn}
    BY ChunkMapFacts
  <2>5. m2 \in [S -> Chunk \cup {Torn}] /\ DOMAIN m2 = S
    BY <2>3, <2>4
  <2>6. m2 \in ChunkMap
    BY <2>3, <2>4, <2>5, ChunkMapIntro
  <2>7. QED
    BY <2>2, <2>5, <2>6
<1>3. QED
  BY <1>1, <1>2

LEMMA ServeType ==
  ASSUME NEW m \in ChunkMap, NEW hashes
  PROVE  Serve(m, hashes) \in ChunkMap
<1>1. DEFINE S == {x \in hashes : has_chunk(m, x)}
<1>2. S \in SUBSET Chunk /\ S \subseteq DOMAIN m
  BY ChunkMapFacts DEF has_chunk
<1>3. HIDE DEF S
<1>4. /\ [h \in S |-> m[h]] \in [S -> Chunk \cup {Torn}]
      /\ \A h \in S : [x \in S |-> m[x]][h] \in {h, Torn}
  BY <1>2, ChunkMapFacts
<1>5. [h \in S |-> m[h]] \in ChunkMap
  BY <1>2, <1>4, ChunkMapIntro
<1>6. QED
  BY <1>5 DEF Serve, S

\* What is left of the incoming chunks when h has been stored.
LEMMA RestOfChunks ==
  ASSUME NEW m \in ChunkMap, NEW h
  PROVE  [x \in DOMAIN m \ {h} |-> m[x]] \in ChunkMap
<1>1. DEFINE S == DOMAIN m \ {h}
<1>2. S \in SUBSET Chunk /\ S \subseteq DOMAIN m
  BY ChunkMapFacts
<1>3. HIDE DEF S
<1>4. /\ [x \in S |-> m[x]] \in [S -> Chunk \cup {Torn}]
      /\ \A y \in S : [x \in S |-> m[x]][y] \in {y, Torn}
  BY <1>2, ChunkMapFacts
<1>5. [x \in S |-> m[x]] \in ChunkMap
  BY <1>2, <1>4, ChunkMapIntro
<1>6. QED
  BY <1>5 DEF S

LEMMA MaterializeType ==
  ASSUME NEW dir \in Dir, NEW p \in Path, NEW m \in ChunkMap, NEW hashes \in Seq(Chunk),
         CanReassemble(m, hashes)
  PROVE  materialize(dir, p, reassemble(m, hashes)) \in Dir
<1>1. reassemble(m, hashes) \in Seq(Chunk \cup {Torn})
  <2>1. \A i \in 1 .. Len(hashes) : m[hashes[i]] \in Chunk \cup {Torn}
    BY ChunkMapFacts DEF CanReassemble, has_chunk
  <2>2. reassemble(m, hashes) = [i \in 1 .. Len(hashes) |-> m[hashes[i]]]
    BY DEF reassemble
  <2>3. QED
    BY <2>1, <2>2
<1>2. PICK S \in SUBSET Path : dir \in [S -> Seq(Chunk \cup {Torn})]
  BY DEF Dir
<1>3. DEFINE bytes == reassemble(m, hashes)
             dir2  == materialize(dir, p, bytes)
<1>4. dir2 = [q \in S \cup {p} |-> IF q = p THEN bytes ELSE dir[q]]
  BY <1>2 DEF materialize
<1>5. HIDE DEF bytes
<1>6. bytes \in Seq(Chunk \cup {Torn})
  BY <1>1 DEF bytes
<1>7. dir2 \in [S \cup {p} -> Seq(Chunk \cup {Torn})]
  BY <1>2, <1>4, <1>6
<1>8. dir2 \in Dir
  BY <1>2, <1>7 DEF Dir
<1>9. QED
  BY <1>8 DEF bytes

-----------------------------------------------------------------------------
(* Frames.                                                                  *)

LEMMA HomeType == \A pr \in Proc : Home(pr) \in Node
  BY SyncNodeAssumption DEF Home

LEMMA ExitedType == Exited \in ProcRec
  BY EmptyStoreInStore, NoChunksType DEF Exited, ProcRec, ProcState

LEMMA LoadedType ==
  ASSUME Typed, NEW pr \in Proc
  PROVE  Loaded(pr) \in ProcRec /\ Loaded(pr).mem = journal[Home(pr)]
  BY ExitedType, HomeType DEF Typed, Loaded, ProcRec

\* A frame in front of the queue carries what its type says.
LEMMA HeadFrame ==
  ASSUME Typed, NEW pr \in Proc, NEW state \in DOMAIN Expected, Arrived(pr, state)
  PROVE  /\ Received(pr) \in [Proc -> Seq(Frame)]
         /\ state = "recvManifest" => Head(chan[pr]).entries \in SUBSET Good
         /\ state = "recvRequest" => Head(chan[pr]).hashes \in SUBSET Chunk
         /\ state = "recvData" => Head(chan[pr]).chunks \in ChunkMap
<1>1. chan[pr] \in Seq(Frame) /\ chan[pr] # <<>>
  BY DEF Typed, Arrived
<1>2. Head(chan[pr]) \in Frame /\ Tail(chan[pr]) \in Seq(Frame)
  BY <1>1
<1>3. Received(pr) \in [Proc -> Seq(Frame)]
  BY <1>2 DEF Typed, Received
<1>4. Head(chan[pr]).type = Expected[state]
  BY DEF Arrived
<1>5. QED
  BY <1>2, <1>3, <1>4 DEF Frame, Expected

LEMMA SendFrameType ==
  ASSUME NEW ch \in [Proc -> Seq(Frame)], link \in [Proc -> Proc \cup {NoPeer}],
         NEW pr \in Proc, NEW f \in Frame
  PROVE  send_frame(ch, pr, f) \in [Proc -> Seq(Frame)]
  BY DEF send_frame, Connected

LEMMA CutType ==
  ASSUME Typed, NEW pr \in Proc, NEW ch \in Cut(pr)
  PROVE  ch \in [Proc -> Seq(Frame)]
<1>1. DEFINE kept == [chan EXCEPT ![pr] = <<>>]
<1>2. chan \in [Proc -> Seq(Frame)] /\ <<>> \in Seq(Frame)
  BY DEF Typed
<1>3. kept \in [Proc -> Seq(Frame)]
  BY <1>2
<1>4. [kept EXCEPT ![link[pr]] = <<>>] \in [Proc -> Seq(Frame)]
  BY <1>2, <1>3
<1>5. ch = kept \/ ch = [kept EXCEPT ![link[pr]] = <<>>]
  BY DEF Cut
<1>6. QED
  BY <1>3, <1>4, <1>5

-----------------------------------------------------------------------------
(* The inductive invariant.  A process that merges may hold versions whose  *)
(* chunks are still missing, but each of them is on its list of paths to    *)
(* write out, and writing out fails when a chunk is missing: what reaches   *)
(* save_journal has all its chunks.                                         *)

Unsettled == {"merging", "recvRequest", "recvData", "fetching", "materializing"}

Listed(paths, p) == \E i \in DOMAIN paths : paths[i] = p

\* have: the hashes that have a chunk file.
ProcOK(r, have) ==
  /\ r \in ProcRec
  /\ r.pc = "adding" => Len(r.paths) = 1
  /\ r.pc # "adding" => \A i \in DOMAIN r.paths : r.paths[i] \in DOMAIN r.mem
  /\ \A p \in DOMAIN r.mem :
        \/ WholeHashes(r.mem[p]) \subseteq have
        \/ r.pc \in Unsettled /\ Listed(r.paths, p)
  /\ r.pc = "writing" => \A e \in r.todo : WholeHashes(e) \subseteq have

IInv ==
  /\ Typed
  /\ EveryVersionBacked
  /\ \A pr \in Proc : ProcOK(proc[pr], DOMAIN blobs[Home(pr)])

LEMMA ProcOKMonotone ==
  ASSUME NEW r, NEW have, NEW more, have \subseteq more, ProcOK(r, have)
  PROVE  ProcOK(r, more)
  BY DEF ProcOK

LEMMA ExitedOK ==
  ASSUME NEW have
  PROVE  ProcOK(Exited, have)
<1>1. Exited.pc = "idle" /\ Exited.paths = <<>> /\ Exited.mem = EmptyStore
  BY DEF Exited
<1>2. QED
  BY <1>1, ExitedType, EmptyStoreType DEF ProcOK

LEMMA LoadedOK ==
  ASSUME IInv, NEW pr \in Proc
  PROVE  ProcOK(Loaded(pr), DOMAIN blobs[Home(pr)])
<1>1. Loaded(pr) \in ProcRec /\ Loaded(pr).mem = journal[Home(pr)]
  BY LoadedType DEF IInv
<1>2. Loaded(pr).pc = "idle" /\ Loaded(pr).paths = <<>>
  BY DEF Loaded, Exited
<1>3. \A e \in all_entries(journal[Home(pr)]) : WholeHashes(e) \subseteq DOMAIN blobs[Home(pr)]
  BY HomeType DEF IInv, EveryVersionBacked
<1>4. QED
  BY <1>1, <1>2, <1>3 DEF ProcOK, all_entries

\* A process moves on without touching its entries and its list of paths.
LEMMA MoveOK ==
  ASSUME NEW have, NEW r, ProcOK(r, have), NEW r2 \in ProcRec,
         r2.mem = r.mem, r2.paths = r.paths,
         r2.pc = "adding" <=> r.pc = "adding",
         r.pc \in Unsettled => r2.pc \in Unsettled,
         r2.pc # "writing"
  PROVE  ProcOK(r2, have)
  BY DEF ProcOK

\* What a step has to show: it types the rest of the state, keeps every chunk
\* file, leaves each process alone or in order, and each journal alone or backed.
LEMMA IInvIntro ==
  ASSUME IInv,
         journal' \in [Node -> Store],
         blobs' \in [Node -> ChunkMap],
         \A n \in Node : DOMAIN blobs[n] \subseteq DOMAIN blobs'[n],
         files' \in [Node -> Dir],
         proc' = [q \in Proc |-> proc'[q]],
         link' \in [Proc -> Proc \cup {NoPeer}],
         chan' \in [Proc -> Seq(Frame)],
         edits' \in [Node -> 0 .. MaxEdits],
         \A q \in Proc : proc'[q] = proc[q] \/ ProcOK(proc'[q], DOMAIN blobs'[Home(q)]),
         \A n \in Node : \A e \in all_entries(journal'[n]) :
            e \in all_entries(journal[n]) \/ WholeHashes(e) \subseteq DOMAIN blobs'[n]
  PROVE  IInv'
<1>1. ASSUME NEW q \in Proc
      PROVE  ProcOK(proc'[q], DOMAIN blobs'[Home(q)])
  <2>1. DOMAIN blobs[Home(q)] \subseteq DOMAIN blobs'[Home(q)]
    BY HomeType
  <2>2. ProcOK(proc[q], DOMAIN blobs[Home(q)])
    BY DEF IInv
  <2>3. ProcOK(proc[q], DOMAIN blobs'[Home(q)])
    BY <2>1, <2>2, ProcOKMonotone
  <2>4. QED
    BY <2>3
<1>2. proc' \in [Proc -> ProcRec]
  BY <1>1 DEF ProcOK
<1>3. Typed'
  BY <1>2 DEF Typed
<1>4. EveryVersionBacked'
  <2>1. \A n \in Node : \A e \in all_entries(journal[n]) : WholeHashes(e) \subseteq DOMAIN blobs[n]
    BY DEF IInv, EveryVersionBacked
  <2>2. \A n \in Node : \A e \in all_entries(journal'[n]) : WholeHashes(e) \subseteq DOMAIN blobs'[n]
    BY <2>1
  <2>3. QED
    BY <2>2 DEF EveryVersionBacked, all_entries
<1>5. \A q \in Proc : ProcOK(proc'[q], DOMAIN blobs'[HomeOf[q]])
  BY <1>1 DEF Home
<1>6. QED
  BY <1>3, <1>4, <1>5 DEF IInv, Home

\* The common case: process pr goes from r to r2 and the disk stays.
LEMMA IInvMove ==
  ASSUME IInv, NEW pr \in Proc, NEW r2, proc' = [proc EXCEPT ![pr] = r2],
         ProcOK(r2, DOMAIN blobs[Home(pr)]),
         UNCHANGED disk,
         link' \in [Proc -> Proc \cup {NoPeer}],
         chan' \in [Proc -> Seq(Frame)],
         edits' \in [Node -> 0 .. MaxEdits]
  PROVE  IInv'
<1>1. journal' = journal /\ blobs' = blobs /\ files' = files
  BY DEF disk
<1>2. proc \in [Proc -> ProcRec]
  BY DEF IInv, Typed
<1>3. \A q \in Proc : proc'[q] = IF q = pr THEN r2 ELSE proc[q]
  BY <1>2
<1>4. proc' = [q \in Proc |-> proc'[q]]
  BY <1>2
<1>5. /\ journal' \in [Node -> Store]
      /\ blobs' \in [Node -> ChunkMap]
      /\ \A n \in Node : DOMAIN blobs[n] \subseteq DOMAIN blobs'[n]
      /\ files' \in [Node -> Dir]
  BY <1>1 DEF IInv, Typed
<1>6. \A q \in Proc : proc'[q] = proc[q] \/ ProcOK(proc'[q], DOMAIN blobs'[Home(q)])
  BY <1>1, <1>3
<1>7. \A n \in Node : \A e \in all_entries(journal'[n]) : e \in all_entries(journal[n])
  BY <1>1
<1>8. QED
  BY <1>4, <1>5, <1>6, <1>7, IInvIntro

LEMMA ExitKeepsIInv ==
  ASSUME IInv, NEW pr \in Proc, Exit(pr), UNCHANGED <<disk, edits>>,
         chan' \in [Proc -> Seq(Frame)]
  PROVE  IInv'
<1>1. /\ proc' = [proc EXCEPT ![pr] = Exited]
      /\ link' \in [Proc -> Proc \cup {NoPeer}]
      /\ edits' \in [Node -> 0 .. MaxEdits]
      /\ UNCHANGED disk
  BY DEF Exit, IInv, Typed
<1>2. QED
  BY <1>1, ExitedOK, IInvMove

-----------------------------------------------------------------------------
(* Every action keeps the invariant.                                        *)

LEMMA SendManifestKeeps ==
  ASSUME IInv, NEW pr \in Proc, SendManifest(pr)
  PROVE  IInv'
<1>1. /\ proc[pr] \in ProcRec /\ ProcOK(proc[pr], DOMAIN blobs[Home(pr)])
      /\ Home(pr) \in Node
  BY HomeType DEF IInv, Typed
<1>2. [type |-> "MANIFEST", entries |-> serialize_manifest(pr)] \in Frame
  BY <1>1, StoreIsStore DEF serialize_manifest, Frame, ProcRec
<1>3. DEFINE r2 == [proc[pr] EXCEPT !.pc = "recvManifest"]
<1>4. r2 \in ProcRec /\ r2.mem = proc[pr].mem /\ r2.paths = proc[pr].paths
  BY <1>1, <1>2 DEF ProcRec, ProcState, InSession, Sending, Receiving
<1>5. r2.pc = "recvManifest" /\ proc[pr].pc = "sendManifest"
  BY <1>1 DEF SendManifest, Arrived, ProcRec
<1>6. proc' = [proc EXCEPT ![pr] = r2]
  BY DEF SendManifest, IInv, Typed
<1>7. HIDE DEF r2
<1>8. ProcOK(r2, DOMAIN blobs[Home(pr)])
  BY <1>1, <1>4, <1>5, MoveOK DEF Unsettled
<1>9. chan' \in [Proc -> Seq(Frame)]
  BY <1>2, SendFrameType DEF SendManifest, IInv, Typed
<1>10. /\ UNCHANGED disk /\ link' \in [Proc -> Proc \cup {NoPeer}]
      /\ edits' \in [Node -> 0 .. MaxEdits]
  BY DEF SendManifest, IInv, Typed
<1>11. QED
  BY <1>6, <1>8, <1>9, <1>10, IInvMove

LEMMA RecvManifestKeeps ==
  ASSUME IInv, NEW pr \in Proc, RecvManifest(pr)
  PROVE  IInv'
<1>1. /\ proc[pr] \in ProcRec /\ ProcOK(proc[pr], DOMAIN blobs[Home(pr)])
      /\ Home(pr) \in Node
  BY HomeType DEF IInv, Typed
<1>2. Head(chan[pr]).entries \in SUBSET Good /\ Received(pr) \in [Proc -> Seq(Frame)]
  BY HeadFrame DEF RecvManifest, IInv, Expected
<1>3. DEFINE r2 == [proc[pr] EXCEPT !.pc = "merging", !.todo = Head(chan[pr]).entries]
<1>4. r2 \in ProcRec /\ r2.mem = proc[pr].mem /\ r2.paths = proc[pr].paths
  BY <1>1, <1>2 DEF ProcRec, ProcState, InSession, Sending, Receiving
<1>5. r2.pc = "merging" /\ proc[pr].pc = "recvManifest"
  BY <1>1 DEF RecvManifest, Arrived, ProcRec
<1>6. proc' = [proc EXCEPT ![pr] = r2]
  BY DEF RecvManifest, IInv, Typed
<1>7. HIDE DEF r2
<1>8. ProcOK(r2, DOMAIN blobs[Home(pr)])
  BY <1>1, <1>4, <1>5, MoveOK DEF Unsettled
<1>9. chan' \in [Proc -> Seq(Frame)]
  BY <1>2 DEF RecvManifest
<1>10. /\ UNCHANGED disk /\ link' \in [Proc -> Proc \cup {NoPeer}]
      /\ edits' \in [Node -> 0 .. MaxEdits]
  BY DEF RecvManifest, IInv, Typed
<1>11. QED
  BY <1>6, <1>8, <1>9, <1>10, IInvMove

LEMMA SendRequestKeeps ==
  ASSUME IInv, NEW pr \in Proc, SendRequest(pr)
  PROVE  IInv'
<1>1. /\ proc[pr] \in ProcRec /\ ProcOK(proc[pr], DOMAIN blobs[Home(pr)])
      /\ Home(pr) \in Node
  BY HomeType DEF IInv, Typed
<1>2. [type |-> "CHUNK_REQUEST", hashes |-> proc[pr].needed] \in Frame
  BY <1>1 DEF Frame, ProcRec
<1>3. DEFINE r2 == [proc[pr] EXCEPT !.pc = "recvRequest"]
<1>4. r2 \in ProcRec /\ r2.mem = proc[pr].mem /\ r2.paths = proc[pr].paths
  BY <1>1, <1>2 DEF ProcRec, ProcState, InSession, Sending, Receiving
<1>5. r2.pc = "recvRequest" /\ proc[pr].pc = "merging"
  BY <1>1 DEF SendRequest, Arrived, ProcRec
<1>6. proc' = [proc EXCEPT ![pr] = r2]
  BY DEF SendRequest, IInv, Typed
<1>7. HIDE DEF r2
<1>8. ProcOK(r2, DOMAIN blobs[Home(pr)])
  BY <1>1, <1>4, <1>5, MoveOK DEF Unsettled
<1>9. chan' \in [Proc -> Seq(Frame)]
  BY <1>2, SendFrameType DEF SendRequest, IInv, Typed
<1>10. /\ UNCHANGED disk /\ link' \in [Proc -> Proc \cup {NoPeer}]
      /\ edits' \in [Node -> 0 .. MaxEdits]
  BY DEF SendRequest, IInv, Typed
<1>11. QED
  BY <1>6, <1>8, <1>9, <1>10, IInvMove

LEMMA ServeRequestKeeps ==
  ASSUME IInv, NEW pr \in Proc, ServeRequest(pr)
  PROVE  IInv'
<1>1. /\ proc[pr] \in ProcRec /\ ProcOK(proc[pr], DOMAIN blobs[Home(pr)])
      /\ Home(pr) \in Node
  BY HomeType DEF IInv, Typed
<1>2. Received(pr) \in [Proc -> Seq(Frame)] /\ Head(chan[pr]).hashes \in SUBSET Chunk
  BY HeadFrame DEF ServeRequest, IInv, Expected
<1>3. DEFINE r2 == [proc[pr] EXCEPT !.pc = "recvData"]
<1>4. r2 \in ProcRec /\ r2.mem = proc[pr].mem /\ r2.paths = proc[pr].paths
  BY <1>1, <1>2 DEF ProcRec, ProcState, InSession, Sending, Receiving
<1>5. r2.pc = "recvData" /\ proc[pr].pc = "recvRequest"
  BY <1>1 DEF ServeRequest, Arrived, ProcRec
<1>6. proc' = [proc EXCEPT ![pr] = r2]
  BY DEF ServeRequest, IInv, Typed
<1>7. HIDE DEF r2
<1>8. ProcOK(r2, DOMAIN blobs[Home(pr)])
  BY <1>1, <1>4, <1>5, MoveOK DEF Unsettled
<1>9. chan' \in [Proc -> Seq(Frame)]
  <2>1. Serve(blobs[Home(pr)], Head(chan[pr]).hashes) \in ChunkMap
    BY <1>1, ServeType DEF IInv, Typed
  <2>2. [type |-> "CHUNK_DATA",
         chunks |-> Serve(blobs[Home(pr)], Head(chan[pr]).hashes)] \in Frame
    BY <2>1 DEF Frame
  <2>3. QED
    BY <1>2, <2>2, SendFrameType DEF ServeRequest, IInv, Typed
<1>10. /\ UNCHANGED disk /\ link' \in [Proc -> Proc \cup {NoPeer}]
      /\ edits' \in [Node -> 0 .. MaxEdits]
  BY DEF ServeRequest, IInv, Typed
<1>11. QED
  BY <1>6, <1>8, <1>9, <1>10, IInvMove

LEMMA RecvDataKeeps ==
  ASSUME IInv, NEW pr \in Proc, RecvData(pr)
  PROVE  IInv'
<1>1. /\ proc[pr] \in ProcRec /\ ProcOK(proc[pr], DOMAIN blobs[Home(pr)])
      /\ Home(pr) \in Node
  BY HomeType DEF IInv, Typed
<1>2. Head(chan[pr]).chunks \in ChunkMap /\ Received(pr) \in [Proc -> Seq(Frame)]
  BY HeadFrame DEF RecvData, IInv, Expected
<1>3. DEFINE r2 == [proc[pr] EXCEPT !.pc = "fetching", !.incoming = Head(chan[pr]).chunks]
<1>4. r2 \in ProcRec /\ r2.mem = proc[pr].mem /\ r2.paths = proc[pr].paths
  BY <1>1, <1>2 DEF ProcRec, ProcState, InSession, Sending, Receiving
<1>5. r2.pc = "fetching" /\ proc[pr].pc = "recvData"
  BY <1>1 DEF RecvData, Arrived, ProcRec
<1>6. proc' = [proc EXCEPT ![pr] = r2]
  BY DEF RecvData, IInv, Typed
<1>7. HIDE DEF r2
<1>8. ProcOK(r2, DOMAIN blobs[Home(pr)])
  BY <1>1, <1>4, <1>5, MoveOK DEF Unsettled
<1>9. chan' \in [Proc -> Seq(Frame)]
  BY <1>2 DEF RecvData
<1>10. /\ UNCHANGED disk /\ link' \in [Proc -> Proc \cup {NoPeer}]
      /\ edits' \in [Node -> 0 .. MaxEdits]
  BY DEF RecvData, IInv, Typed
<1>11. QED
  BY <1>6, <1>8, <1>9, <1>10, IInvMove

LEMMA AllFetchedKeeps ==
  ASSUME IInv, NEW pr \in Proc, AllFetched(pr)
  PROVE  IInv'
<1>1. /\ proc[pr] \in ProcRec /\ ProcOK(proc[pr], DOMAIN blobs[Home(pr)])
      /\ Home(pr) \in Node
  BY HomeType DEF IInv, Typed
<1>2. DEFINE r2 == [proc[pr] EXCEPT !.pc = "materializing"]
<1>3. r2 \in ProcRec /\ r2.mem = proc[pr].mem /\ r2.paths = proc[pr].paths
  BY <1>1 DEF ProcRec, ProcState, InSession, Sending, Receiving
<1>4. r2.pc = "materializing" /\ proc[pr].pc = "fetching"
  BY <1>1 DEF AllFetched, Arrived, ProcRec
<1>5. proc' = [proc EXCEPT ![pr] = r2]
  BY DEF AllFetched, IInv, Typed
<1>6. HIDE DEF r2
<1>7. ProcOK(r2, DOMAIN blobs[Home(pr)])
  BY <1>1, <1>3, <1>4, MoveOK DEF Unsettled
<1>8. chan' \in [Proc -> Seq(Frame)]
  BY DEF AllFetched, IInv, Typed
<1>9. /\ UNCHANGED disk /\ link' \in [Proc -> Proc \cup {NoPeer}]
      /\ edits' \in [Node -> 0 .. MaxEdits]
  BY DEF AllFetched, IInv, Typed
<1>10. QED
  BY <1>5, <1>7, <1>8, <1>9, IInvMove

LEMMA SendDoneKeeps ==
  ASSUME IInv, NEW pr \in Proc, SendDone(pr)
  PROVE  IInv'
<1>1. /\ proc[pr] \in ProcRec /\ ProcOK(proc[pr], DOMAIN blobs[Home(pr)])
      /\ Home(pr) \in Node
  BY HomeType DEF IInv, Typed
<1>2. [type |-> "DONE"] \in Frame
  BY DEF Frame
<1>3. DEFINE r2 == [proc[pr] EXCEPT !.pc = "recvDone"]
<1>4. r2 \in ProcRec /\ r2.mem = proc[pr].mem /\ r2.paths = proc[pr].paths
  BY <1>1, <1>2 DEF ProcRec, ProcState, InSession, Sending, Receiving
<1>5. r2.pc = "recvDone" /\ proc[pr].pc = "sendDone"
  BY <1>1 DEF SendDone, Arrived, ProcRec
<1>6. proc' = [proc EXCEPT ![pr] = r2]
  BY DEF SendDone, IInv, Typed
<1>7. HIDE DEF r2
<1>8. ProcOK(r2, DOMAIN blobs[Home(pr)])
  BY <1>1, <1>4, <1>5, MoveOK DEF Unsettled
<1>9. chan' \in [Proc -> Seq(Frame)]
  BY <1>2, SendFrameType DEF SendDone, IInv, Typed
<1>10. /\ UNCHANGED disk /\ link' \in [Proc -> Proc \cup {NoPeer}]
      /\ edits' \in [Node -> 0 .. MaxEdits]
  BY DEF SendDone, IInv, Typed
<1>11. QED
  BY <1>6, <1>8, <1>9, <1>10, IInvMove


LEMMA StartAddKeeps ==
  ASSUME IInv, NEW pr \in Proc, NEW p \in UserPath, NEW f \in FileContent, StartAdd(pr, p, f)
  PROVE  IInv'
<1>1. DEFINE r2 == [Loaded(pr) EXCEPT !.pc = "adding", !.adding = f,
                                      !.incoming = WholeChunks(f), !.paths = <<p>>]
<1>2. f \in Seq(Chunk) /\ <<p>> \in Seq(Path) /\ WholeChunks(f) \in ChunkMap
  BY SyncNodeAssumption, WholeChunksType
<1>3. Loaded(pr) \in ProcRec /\ ProcOK(Loaded(pr), DOMAIN blobs[Home(pr)])
  BY LoadedType, LoadedOK DEF IInv
<1>4. /\ r2 \in ProcRec /\ r2.mem = Loaded(pr).mem
      /\ r2.pc = "adding" /\ r2.paths = <<p>>
  BY <1>2, <1>3 DEF ProcRec, ProcState
<1>5. Loaded(pr).pc = "idle"
  BY DEF Loaded, Exited
<1>6. HIDE DEF r2
<1>7. ProcOK(r2, DOMAIN blobs[Home(pr)])
  BY <1>3, <1>4, <1>5 DEF ProcOK, Unsettled
<1>8. proc' = [proc EXCEPT ![pr] = r2] /\ UNCHANGED disk
  BY DEF StartAdd, r2
<1>9. /\ link' \in [Proc -> Proc \cup {NoPeer}] /\ chan' \in [Proc -> Seq(Frame)]
      /\ edits' \in [Node -> 0 .. MaxEdits]
  BY HomeType, SyncNodeAssumption DEF StartAdd, IInv, Typed
<1>10. QED
  BY <1>7, <1>8, <1>9, IInvMove

LEMMA StartRmKeeps ==
  ASSUME IInv, NEW pr \in Proc, NEW p \in UserPath, StartRm(pr, p)
  PROVE  IInv'
<1>1. DEFINE es == Loaded(pr).mem
             r2 == [Loaded(pr) EXCEPT !.pc = "saving", !.mem = delete_local(@, Home(pr), p)]
<1>2. Loaded(pr) \in ProcRec /\ ProcOK(Loaded(pr), DOMAIN blobs[Home(pr)])
  BY LoadedType, LoadedOK DEF IInv
<1>3. Loaded(pr).pc = "idle" /\ Loaded(pr).paths = <<>>
  BY DEF Loaded, Exited
<1>4. es \in Store /\ IsStore(es) /\ p \in Path /\ Home(pr) \in Node
  BY <1>2, StoreIsStore, HomeType, SyncNodeAssumption DEF ProcRec
<1>5. delete_local(es, Home(pr), p) \in Store
  BY <1>4, DeleteInStore
<1>6. /\ LocalEdit(es, delete_local(es, Home(pr), p), Home(pr), p)
      /\ delete_local(es, Home(pr), p)[p].chunk_hashes = <<>>
  BY <1>4, DeleteLocalFacts
<1>7. /\ r2 \in ProcRec /\ r2.mem = delete_local(es, Home(pr), p)
      /\ r2.pc = "saving" /\ r2.paths = <<>>
  BY <1>2, <1>3, <1>5 DEF ProcRec, ProcState
<1>8. \A q \in DOMAIN es : WholeHashes(es[q]) \subseteq DOMAIN blobs[Home(pr)]
  BY <1>2, <1>3 DEF ProcOK, Unsettled
<1>9. HIDE DEF es, r2
<1>10. ASSUME NEW q \in DOMAIN r2.mem
       PROVE  WholeHashes(r2.mem[q]) \subseteq DOMAIN blobs[Home(pr)]
  <2>1. CASE q = p
    BY <1>6, <1>7, <2>1 DEF ChunksOf, WholeHashes
  <2>2. CASE q # p
    BY <1>6, <1>7, <1>8, <2>2 DEF LocalEdit
  <2>3. QED
    BY <2>1, <2>2
<1>11. ProcOK(r2, DOMAIN blobs[Home(pr)])
  BY <1>7, <1>10 DEF ProcOK
<1>12. proc' = [proc EXCEPT ![pr] = r2] /\ UNCHANGED disk
  BY DEF StartRm, r2
<1>13. /\ link' \in [Proc -> Proc \cup {NoPeer}] /\ chan' \in [Proc -> Seq(Frame)]
       /\ edits' \in [Node -> 0 .. MaxEdits]
  BY HomeType, SyncNodeAssumption DEF StartRm, IInv, Typed
<1>14. QED
  BY <1>11, <1>12, <1>13, IInvMove

\* A chunk file is added; nothing else on disk changes.
LEMMA BlobAdded ==
  ASSUME IInv, NEW pr \in Proc, NEW h \in Chunk, NEW bytes \in {h, Torn},
         blobs' = [blobs EXCEPT ![Home(pr)] = put_chunk(@, h, bytes)]
  PROVE  /\ blobs' \in [Node -> ChunkMap]
         /\ \A n \in Node : DOMAIN blobs[n] \subseteq DOMAIN blobs'[n]
<1>1. blobs \in [Node -> ChunkMap] /\ Home(pr) \in Node
  BY HomeType DEF IInv, Typed
<1>2. /\ put_chunk(blobs[Home(pr)], h, bytes) \in ChunkMap
      /\ DOMAIN put_chunk(blobs[Home(pr)], h, bytes) = DOMAIN blobs[Home(pr)] \cup {h}
  BY <1>1, PutChunkFacts
<1>3. QED
  BY <1>1, <1>2

LEMMA StoreChunkKeeps ==
  ASSUME IInv, NEW pr \in Proc, NEW h \in DOMAIN proc[pr].incoming, StoreChunk(pr, h)
  PROVE  IInv'
<1>1. /\ proc[pr] \in ProcRec /\ ProcOK(proc[pr], DOMAIN blobs[Home(pr)])
      /\ Home(pr) \in Node
  BY HomeType DEF IInv, Typed
<1>2. DEFINE r2 == [proc[pr] EXCEPT !.incoming = [x \in DOMAIN @ \ {h} |-> @[x]]]
<1>3. proc[pr].incoming \in ChunkMap
  BY <1>1 DEF ProcRec
<1>4. h \in Chunk /\ proc[pr].incoming[h] \in {h, Torn}
  BY <1>3, ChunkMapFacts
<1>5. [x \in DOMAIN proc[pr].incoming \ {h} |-> proc[pr].incoming[x]] \in ChunkMap
  BY <1>3, RestOfChunks
<1>6. /\ r2 \in ProcRec /\ r2.mem = proc[pr].mem /\ r2.paths = proc[pr].paths
      /\ r2.pc = proc[pr].pc
  BY <1>1, <1>5 DEF ProcRec
<1>7. proc[pr].pc # "writing"
  BY DEF StoreChunk
<1>8. proc' = [proc EXCEPT ![pr] = r2]
  BY DEF StoreChunk, IInv, Typed
<1>9. HIDE DEF r2
<1>10. ProcOK(r2, DOMAIN blobs[Home(pr)])
  BY <1>1, <1>6, <1>7, MoveOK
<1>11. /\ blobs' \in [Node -> ChunkMap]
       /\ \A n \in Node : DOMAIN blobs[n] \subseteq DOMAIN blobs'[n]
  BY <1>4, BlobAdded DEF StoreChunk
<1>12. ProcOK(r2, DOMAIN blobs'[Home(pr)])
  BY <1>1, <1>10, <1>11, ProcOKMonotone
<1>13. \A q \in Proc : proc'[q] = IF q = pr THEN r2 ELSE proc[q]
  BY <1>8 DEF IInv, Typed
<1>14. /\ journal' \in [Node -> Store]
       /\ files' \in [Node -> Dir]
       /\ proc' = [q \in Proc |-> proc'[q]]
       /\ link' \in [Proc -> Proc \cup {NoPeer}]
       /\ chan' \in [Proc -> Seq(Frame)]
       /\ edits' \in [Node -> 0 .. MaxEdits]
       /\ journal' = journal
  BY <1>8 DEF StoreChunk, IInv, Typed
<1>15. \A q \in Proc : proc'[q] = proc[q] \/ ProcOK(proc'[q], DOMAIN blobs'[Home(q)])
  BY <1>12, <1>13
<1>16. QED
  BY <1>11, <1>14, <1>15, IInvIntro

LEMMA PutLocalKeeps ==
  ASSUME IInv, NEW pr \in Proc, PutLocal(pr)
  PROVE  IInv'
<1>1. /\ proc[pr] \in ProcRec /\ ProcOK(proc[pr], DOMAIN blobs[Home(pr)])
      /\ Home(pr) \in Node
  BY HomeType DEF IInv, Typed
<1>2. DEFINE p  == Head(proc[pr].paths)
             es == proc[pr].mem
             es2 == put_local(es, Home(pr), p, proc[pr].adding)
             r2 == [proc[pr] EXCEPT !.pc = "materializing", !.mem = es2]
<1>3. proc[pr].pc = "adding" /\ Len(proc[pr].paths) = 1 /\ proc[pr].paths \in Seq(Path)
  BY <1>1 DEF PutLocal, ProcOK, ProcRec
<1>4. p \in Path /\ Listed(proc[pr].paths, p) /\ \A i \in DOMAIN proc[pr].paths : proc[pr].paths[i] = p
  BY <1>3 DEF Listed
<1>5. es \in Store /\ IsStore(es) /\ proc[pr].adding \in Seq(Chunk)
  BY <1>1, StoreIsStore DEF ProcRec
<1>6. es2 \in Store /\ LocalEdit(es, es2, Home(pr), p)
  BY <1>1, <1>4, <1>5, PutInStore, PutLocalFacts
<1>7. \A q \in DOMAIN es : WholeHashes(es[q]) \subseteq DOMAIN blobs[Home(pr)]
  BY <1>1, <1>3 DEF ProcOK, Unsettled
<1>8. proc' = [proc EXCEPT ![pr] = r2] /\ UNCHANGED disk
  BY DEF PutLocal, IInv, Typed
<1>9. HIDE DEF p, es2
<1>10. /\ r2 \in ProcRec /\ r2.mem = es2
       /\ r2.pc = "materializing" /\ r2.paths = proc[pr].paths
  BY <1>1, <1>6 DEF ProcRec, ProcState
<1>11. HIDE DEF es, r2
<1>12. ProcOK(r2, DOMAIN blobs[Home(pr)])
  BY <1>4, <1>6, <1>7, <1>10 DEF ProcOK, LocalEdit, Unsettled
<1>13. /\ link' \in [Proc -> Proc \cup {NoPeer}] /\ chan' \in [Proc -> Seq(Frame)]
       /\ edits' \in [Node -> 0 .. MaxEdits]
  BY DEF PutLocal, IInv, Typed
<1>14. QED
  BY <1>8, <1>12, <1>13, IInvMove

\* Either a version has no chunks or reassemble has found them all.
LEMMA WrittenOutIsBacked ==
  ASSUME NEW e \in Good, NEW m, ~ has_content(e) \/ CanReassemble(m, e.chunk_hashes)
  PROVE  WholeHashes(e) \subseteq DOMAIN m
<1>1. CASE e.chunk_hashes = <<>>
  BY <1>1 DEF ChunksOf, WholeHashes
<1>2. CASE e.chunk_hashes # <<>>
  <2>1. has_content(e)
    BY <1>2, Zenon DEF Good, has_content
  <2>2. CanReassemble(m, e.chunk_hashes)
    BY <2>1
  <2>3. QED
    BY <2>2 DEF CanReassemble, has_chunk, ChunksOf, WholeHashes
<1>3. QED
  BY <1>1, <1>2

\* The heart of the argument: a path leaves the list only when the version at
\* it has all its chunks.
LEMMA MaterializeKeeps ==
  ASSUME IInv, NEW pr \in Proc, Materialize(pr)
  PROVE  IInv'
<1>1. /\ proc[pr] \in ProcRec /\ ProcOK(proc[pr], DOMAIN blobs[Home(pr)])
      /\ Home(pr) \in Node
  BY HomeType DEF IInv, Typed
<1>2. DEFINE p == Head(proc[pr].paths)
             e == proc[pr].mem[p]
             r2 == [proc[pr] EXCEPT !.paths = Tail(@)]
<1>3. /\ proc[pr].pc = "materializing" /\ proc[pr].paths # <<>>
      /\ proc[pr].paths \in Seq(Path) /\ proc[pr].mem \in Store
  BY <1>1 DEF Materialize, ProcRec
<1>4. p \in Path /\ p \in DOMAIN proc[pr].mem
  BY <1>1, <1>3 DEF ProcOK
<1>5. e \in Good /\ e.chunk_hashes \in Seq(Chunk)
  BY <1>3, <1>4, StoreIsStore DEF Good, FileEntry
<1>6. /\ UNCHANGED <<journal, blobs, edits, chan>>
      /\ chan' \in [Proc -> Seq(Frame)]
      /\ edits' \in [Node -> 0 .. MaxEdits]
  BY DEF Materialize, IInv, Typed
<1>7. CASE has_content(e) /\ ~ CanReassemble(blobs[Home(pr)], e.chunk_hashes)
  <2>1. Exit(pr) /\ UNCHANGED files
    BY <1>7 DEF Materialize
  <2>2. QED
    BY <1>6, <2>1, ExitKeepsIInv DEF disk
<1>8. CASE ~ (has_content(e) /\ ~ CanReassemble(blobs[Home(pr)], e.chunk_hashes))
  <2>1. WholeHashes(e) \subseteq DOMAIN blobs[Home(pr)]
    BY <1>5, <1>8, WrittenOutIsBacked
  <2>2. proc' = [proc EXCEPT ![pr] = r2] /\ UNCHANGED link
    BY <1>8 DEF Materialize, IInv, Typed
  <2>3. files' \in [Node -> Dir]
    <3>1. CASE ~ has_content(e)
      BY <1>8, <3>1 DEF Materialize, IInv, Typed
    <3>2. CASE has_content(e)
      <4>1. files' = [files EXCEPT ![Home(pr)] =
                        materialize(@, p, reassemble(blobs[Home(pr)], e.chunk_hashes))]
        BY <1>8, <3>2 DEF Materialize
      <4>2. /\ files \in [Node -> Dir] /\ blobs[Home(pr)] \in ChunkMap
        BY <1>1 DEF IInv, Typed
      <4>3. materialize(files[Home(pr)], p, reassemble(blobs[Home(pr)], e.chunk_hashes)) \in Dir
        BY <1>1, <1>4, <1>5, <1>8, <3>2, <4>2, MaterializeType
      <4>4. QED
        BY <4>1, <4>2, <4>3
    <3>3. QED
      BY <3>1, <3>2
  <2>4. /\ Tail(proc[pr].paths) \in Seq(Path)
        /\ \A j \in DOMAIN Tail(proc[pr].paths) :
              /\ j + 1 \in DOMAIN proc[pr].paths
              /\ Tail(proc[pr].paths)[j] = proc[pr].paths[j + 1]
        /\ \A q : Listed(proc[pr].paths, q) /\ q # p => Listed(Tail(proc[pr].paths), q)
    <3>1. /\ Tail(proc[pr].paths) \in Seq(Path)
          /\ Len(Tail(proc[pr].paths)) = Len(proc[pr].paths) - 1
          /\ Len(proc[pr].paths) \in Nat \ {0}
          /\ p = proc[pr].paths[1]
          /\ \A j \in 1 .. Len(proc[pr].paths) - 1 :
                Tail(proc[pr].paths)[j] = proc[pr].paths[j + 1]
      BY <1>3
    <3>2. DOMAIN proc[pr].paths = 1 .. Len(proc[pr].paths)
          /\ DOMAIN Tail(proc[pr].paths) = 1 .. Len(proc[pr].paths) - 1
      BY <1>3, <3>1
    <3>3. ASSUME NEW q, Listed(proc[pr].paths, q), q # p
          PROVE  Listed(Tail(proc[pr].paths), q)
      <4>1. PICK k \in DOMAIN proc[pr].paths : proc[pr].paths[k] = q
        BY <3>3 DEF Listed
      <4>2. k # 1
        BY <3>1, <3>3, <4>1
      <4>3. k - 1 \in DOMAIN Tail(proc[pr].paths) /\ Tail(proc[pr].paths)[k - 1] = q
        BY <3>1, <3>2, <4>1, <4>2
      <4>4. QED
        BY <4>3 DEF Listed
    <3>4. QED
      BY <3>1, <3>2, <3>3
  <2>5. /\ r2 \in ProcRec /\ r2.mem = proc[pr].mem
        /\ r2.pc = "materializing" /\ r2.paths = Tail(proc[pr].paths)
    BY <1>1, <1>3, <2>4 DEF ProcRec
  <2>6. HIDE DEF p, e, r2
  <2>7. \A j \in DOMAIN r2.paths : r2.paths[j] \in DOMAIN r2.mem
    BY <1>1, <1>3, <2>4, <2>5 DEF ProcOK
  <2>8. \A q \in DOMAIN r2.mem : \/ WholeHashes(r2.mem[q]) \subseteq DOMAIN blobs[Home(pr)]
                                \/ Listed(r2.paths, q)
    BY <1>1, <2>1, <2>4, <2>5 DEF ProcOK, e
  <2>9. ProcOK(r2, DOMAIN blobs[Home(pr)])
    BY <2>5, <2>7, <2>8 DEF ProcOK, Unsettled
  <2>10. /\ journal' \in [Node -> Store] /\ journal' = journal
         /\ blobs' \in [Node -> ChunkMap] /\ blobs' = blobs
         /\ link' \in [Proc -> Proc \cup {NoPeer}]
         /\ proc' = [q \in Proc |-> proc'[q]]
    BY <1>6, <2>2 DEF IInv, Typed
  <2>11. \A q \in Proc : proc'[q] = IF q = pr THEN r2 ELSE proc[q]
    BY <2>2 DEF IInv, Typed
  <2>12. \A q \in Proc : proc'[q] = proc[q] \/ ProcOK(proc'[q], DOMAIN blobs'[Home(q)])
    BY <2>9, <2>10, <2>11
  <2>13. QED
    BY <1>6, <2>3, <2>10, <2>12, IInvIntro
<1>9. QED
  BY <1>7, <1>8

LEMMA AllMaterializedKeeps ==
  ASSUME IInv, NEW pr \in Proc, AllMaterialized(pr)
  PROVE  IInv'
<1>1. /\ proc[pr] \in ProcRec /\ ProcOK(proc[pr], DOMAIN blobs[Home(pr)])
      /\ Home(pr) \in Node
  BY HomeType DEF IInv, Typed
<1>2. DEFINE r2 == [proc[pr] EXCEPT !.pc = "saving"]
<1>3. /\ r2 \in ProcRec /\ r2.mem = proc[pr].mem /\ r2.pc = "saving"
      /\ r2.paths = <<>> /\ proc[pr].paths = <<>>
  BY <1>1 DEF AllMaterialized, ProcRec, ProcState
<1>4. proc' = [proc EXCEPT ![pr] = r2] /\ UNCHANGED disk
  BY DEF AllMaterialized, IInv, Typed
<1>5. HIDE DEF r2
<1>6. ProcOK(r2, DOMAIN blobs[Home(pr)])
  BY <1>1, <1>3 DEF ProcOK, Listed
<1>7. /\ link' \in [Proc -> Proc \cup {NoPeer}] /\ chan' \in [Proc -> Seq(Frame)]
      /\ edits' \in [Node -> 0 .. MaxEdits]
  BY DEF AllMaterialized, IInv, Typed
<1>8. QED
  BY <1>4, <1>6, <1>7, IInvMove

\* The journal of pr's node changes, to what has all its chunks.
LEMMA JournalStep ==
  ASSUME IInv, NEW pr \in Proc, NEW es \in Store, NEW r2,
         journal' = [journal EXCEPT ![Home(pr)] = es],
         \A e \in all_entries(es) :
            e \in all_entries(journal[Home(pr)]) \/ WholeHashes(e) \subseteq DOMAIN blobs[Home(pr)],
         proc' = [proc EXCEPT ![pr] = r2],
         ProcOK(r2, DOMAIN blobs[Home(pr)]),
         UNCHANGED <<blobs, files, link, chan, edits>>
  PROVE  IInv'
<1>1. Home(pr) \in Node
  BY HomeType
<1>2. /\ blobs' \in [Node -> ChunkMap] /\ blobs' = blobs
      /\ files' \in [Node -> Dir]
      /\ proc' = [q \in Proc |-> proc'[q]]
      /\ link' \in [Proc -> Proc \cup {NoPeer}]
      /\ chan' \in [Proc -> Seq(Frame)]
      /\ edits' \in [Node -> 0 .. MaxEdits]
  BY DEF IInv, Typed
<1>3. journal' \in [Node -> Store] /\ \A n \in Node : journal'[n] = IF n = Home(pr) THEN es ELSE journal[n]
  BY <1>1 DEF IInv, Typed
<1>4. \A q \in Proc : proc'[q] = IF q = pr THEN r2 ELSE proc[q]
  BY DEF IInv, Typed
<1>5. \A q \in Proc : proc'[q] = proc[q] \/ ProcOK(proc'[q], DOMAIN blobs'[Home(q)])
  BY <1>2, <1>4
<1>6. \A n \in Node : \A e \in all_entries(journal'[n]) :
        e \in all_entries(journal[n]) \/ WholeHashes(e) \subseteq DOMAIN blobs'[n]
  BY <1>2, <1>3
<1>7. QED
  BY <1>2, <1>3, <1>5, <1>6, IInvIntro

LEMMA OpenJournalKeeps ==
  ASSUME IInv, NEW pr \in Proc, OpenJournal(pr)
  PROVE  IInv'
<1>1. /\ proc[pr] \in ProcRec /\ ProcOK(proc[pr], DOMAIN blobs[Home(pr)])
      /\ Home(pr) \in Node
  BY HomeType DEF IInv, Typed
<1>2. DEFINE r2 == [proc[pr] EXCEPT !.pc = "writing", !.todo = all_entries(proc[pr].mem)]
<1>3. proc[pr].pc = "saving" /\ proc[pr].mem \in Store
  BY <1>1 DEF OpenJournal, ProcRec
<1>4. all_entries(proc[pr].mem) \subseteq Good
  BY <1>3, StoreIsStore
<1>5. \A e \in all_entries(proc[pr].mem) : WholeHashes(e) \subseteq DOMAIN blobs[Home(pr)]
  BY <1>1, <1>3 DEF ProcOK, Unsettled, all_entries
<1>6. /\ r2 \in ProcRec /\ r2.mem = proc[pr].mem /\ r2.paths = proc[pr].paths
      /\ r2.pc = "writing" /\ r2.todo = all_entries(proc[pr].mem)
  BY <1>1, <1>4 DEF ProcRec, ProcState
<1>7. proc' = [proc EXCEPT ![pr] = r2]
  BY DEF OpenJournal, IInv, Typed
<1>8. HIDE DEF r2
<1>9. ProcOK(r2, DOMAIN blobs[Home(pr)])
  BY <1>1, <1>3, <1>5, <1>6 DEF ProcOK, Unsettled
<1>10. EmptyStore \in Store /\ all_entries(EmptyStore) = {}
  BY EmptyStoreInStore, EmptyStoreType DEF all_entries
<1>11. /\ journal' = [journal EXCEPT ![Home(pr)] = EmptyStore]
       /\ UNCHANGED <<blobs, files, link, chan, edits>>
  BY DEF OpenJournal
<1>12. QED
  BY <1>7, <1>9, <1>10, <1>11, JournalStep

LEMMA WriteLineKeeps ==
  ASSUME IInv, NEW pr \in Proc, NEW e \in proc[pr].todo, WriteLine(pr, e)
  PROVE  IInv'
<1>1. /\ proc[pr] \in ProcRec /\ ProcOK(proc[pr], DOMAIN blobs[Home(pr)])
      /\ Home(pr) \in Node
  BY HomeType DEF IInv, Typed
<1>2. DEFINE r2 == [proc[pr] EXCEPT !.todo = @ \ {e}]
             es == load_entry(journal[Home(pr)], e)
<1>3. /\ r2 \in ProcRec /\ r2.mem = proc[pr].mem /\ r2.paths = proc[pr].paths
      /\ r2.pc = proc[pr].pc /\ r2.todo = proc[pr].todo \ {e}
  BY <1>1 DEF ProcRec
<1>4. proc[pr].pc = "writing" /\ e \in Good
  BY <1>1 DEF WriteLine, ProcRec
<1>5. WholeHashes(e) \subseteq DOMAIN blobs[Home(pr)]
  BY <1>1, <1>4 DEF ProcOK
<1>6. journal[Home(pr)] \in Store /\ IsStore(journal[Home(pr)]) /\ e \in FileEntry
  BY <1>1, <1>4, StoreIsStore DEF IInv, Typed, Good
<1>7. es \in Store /\ LoadStep(journal[Home(pr)], es, e)
  BY <1>4, <1>6, LoadInStore, LoadEntryFacts
<1>8. proc' = [proc EXCEPT ![pr] = r2]
  BY DEF WriteLine, IInv, Typed
<1>9. /\ journal' = [journal EXCEPT ![Home(pr)] = es]
      /\ UNCHANGED <<blobs, files, link, chan, edits>>
  BY DEF WriteLine
<1>10. HIDE DEF r2, es
<1>11. ProcOK(r2, DOMAIN blobs[Home(pr)])
  BY <1>1, <1>3, <1>4 DEF ProcOK
<1>12. \A f \in all_entries(es) :
         f \in all_entries(journal[Home(pr)]) \/ WholeHashes(f) \subseteq DOMAIN blobs[Home(pr)]
  BY <1>5, <1>7 DEF LoadStep
<1>13. QED
  BY <1>7, <1>8, <1>9, <1>11, <1>12, JournalStep

LEMMA CloseJournalKeeps ==
  ASSUME IInv, NEW pr \in Proc, CloseJournal(pr)
  PROVE  IInv'
<1>1. /\ proc[pr] \in ProcRec /\ ProcOK(proc[pr], DOMAIN blobs[Home(pr)])
      /\ Home(pr) \in Node
  BY HomeType DEF IInv, Typed
<1>2. /\ chan' \in [Proc -> Seq(Frame)] /\ edits' \in [Node -> 0 .. MaxEdits]
      /\ UNCHANGED <<disk, edits>>
  BY DEF CloseJournal, IInv, Typed
<1>3. CASE link[pr] = NoPeer
  BY <1>2, <1>3, ExitKeepsIInv DEF CloseJournal
<1>4. CASE link[pr] # NoPeer
  <2>1. DEFINE r2 == [proc[pr] EXCEPT !.pc = "sendDone"]
  <2>2. /\ r2 \in ProcRec /\ r2.mem = proc[pr].mem /\ r2.paths = proc[pr].paths
        /\ r2.pc = "sendDone" /\ proc[pr].pc = "writing"
    BY <1>1 DEF CloseJournal, ProcRec, ProcState, InSession, Sending
  <2>3. proc' = [proc EXCEPT ![pr] = r2] /\ link' \in [Proc -> Proc \cup {NoPeer}]
    BY <1>4 DEF CloseJournal, IInv, Typed
  <2>4. HIDE DEF r2
  <2>5. ProcOK(r2, DOMAIN blobs[Home(pr)])
    BY <1>1, <2>2, MoveOK DEF Unsettled
  <2>6. QED
    BY <1>2, <2>3, <2>5, IInvMove
<1>5. QED
  BY <1>3, <1>4

LEMMA StartListenKeeps ==
  ASSUME IInv, NEW pr \in Proc, StartListen(pr)
  PROVE  IInv'
<1>1. DEFINE r2 == [Loaded(pr) EXCEPT !.pc = "listening"]
<1>2. Loaded(pr) \in ProcRec /\ ProcOK(Loaded(pr), DOMAIN blobs[Home(pr)])
  BY LoadedType, LoadedOK DEF IInv
<1>3. /\ r2 \in ProcRec /\ r2.mem = Loaded(pr).mem /\ r2.paths = Loaded(pr).paths
      /\ r2.pc = "listening"
  BY <1>2 DEF ProcRec, ProcState
<1>4. Loaded(pr).pc = "idle"
  BY DEF Loaded, Exited
<1>5. HIDE DEF r2
<1>6. ProcOK(r2, DOMAIN blobs[Home(pr)])
  BY <1>2, <1>3, <1>4, MoveOK DEF Unsettled
<1>7. proc' = [proc EXCEPT ![pr] = r2] /\ UNCHANGED disk
  BY DEF StartListen, r2
<1>8. /\ link' \in [Proc -> Proc \cup {NoPeer}] /\ chan' \in [Proc -> Seq(Frame)]
      /\ edits' \in [Node -> 0 .. MaxEdits]
  BY DEF StartListen, IInv, Typed
<1>9. QED
  BY <1>6, <1>7, <1>8, IInvMove

LEMMA SyncWithKeeps ==
  ASSUME IInv, NEW pr \in Proc, NEW qr \in Proc, SyncWith(pr, qr)
  PROVE  IInv'
<1>1. DEFINE r2 == [Loaded(pr) EXCEPT !.pc = "sendManifest"]
             l2 == [proc[qr] EXCEPT !.pc = "sendManifest"]
<1>2. Loaded(pr) \in ProcRec /\ ProcOK(Loaded(pr), DOMAIN blobs[Home(pr)])
  BY LoadedType, LoadedOK DEF IInv
<1>3. proc[qr] \in ProcRec /\ ProcOK(proc[qr], DOMAIN blobs[Home(qr)])
  BY DEF IInv, Typed
<1>4. /\ r2 \in ProcRec /\ r2.mem = Loaded(pr).mem /\ r2.paths = Loaded(pr).paths
      /\ r2.pc = "sendManifest"
  BY <1>2 DEF ProcRec, ProcState, InSession, Sending
<1>5. /\ l2 \in ProcRec /\ l2.mem = proc[qr].mem /\ l2.paths = proc[qr].paths
      /\ l2.pc = "sendManifest"
  BY <1>3 DEF ProcRec, ProcState, InSession, Sending
<1>6. Loaded(pr).pc = "idle" /\ proc[qr].pc = "listening" /\ pr # qr
  BY DEF Loaded, Exited, SyncWith
<1>7. \A q \in Proc : proc'[q] = IF q = pr THEN r2 ELSE IF q = qr THEN l2 ELSE proc[q]
  BY <1>6 DEF SyncWith, IInv, Typed
<1>8. proc' = [q \in Proc |-> proc'[q]]
  BY DEF SyncWith, IInv, Typed
<1>9. HIDE DEF r2, l2
<1>10. ProcOK(r2, DOMAIN blobs[Home(pr)])
  BY <1>2, <1>4, <1>6, MoveOK DEF Unsettled
<1>11. ProcOK(l2, DOMAIN blobs[Home(qr)])
  BY <1>3, <1>5, <1>6, MoveOK DEF Unsettled
<1>12. journal' = journal /\ blobs' = blobs /\ files' = files
  BY DEF SyncWith, disk
<1>13. /\ journal' \in [Node -> Store]
       /\ blobs' \in [Node -> ChunkMap]
       /\ files' \in [Node -> Dir]
       /\ edits' \in [Node -> 0 .. MaxEdits]
  BY <1>12 DEF SyncWith, IInv, Typed
<1>14. link' \in [Proc -> Proc \cup {NoPeer}]
  BY DEF SyncWith, IInv, Typed
<1>15. chan' \in [Proc -> Seq(Frame)]
  <2>1. <<>> \in Seq(Frame) /\ chan \in [Proc -> Seq(Frame)]
    BY DEF IInv, Typed
  <2>2. QED
    BY <2>1 DEF SyncWith
<1>16. \A q \in Proc : proc'[q] = proc[q] \/ ProcOK(proc'[q], DOMAIN blobs'[Home(q)])
  BY <1>7, <1>10, <1>11, <1>12
<1>17. QED
  BY <1>8, <1>12, <1>13, <1>14, <1>15, <1>16, IInvIntro

\* A merge may bring in a version without its chunks, but then lists its path.
LEMMA MergeEntryKeeps ==
  ASSUME IInv, NEW pr \in Proc, NEW e \in proc[pr].todo, MergeEntry(pr, e)
  PROVE  IInv'
<1>1. /\ proc[pr] \in ProcRec /\ ProcOK(proc[pr], DOMAIN blobs[Home(pr)])
      /\ Home(pr) \in Node
  BY HomeType DEF IInv, Typed
<1>2. DEFINE es  == proc[pr].mem
             es2 == merge_remote(es, e)
             outcome == OutcomeOf(es, e)
             at == IF outcome = "CONFLICT_FORKED" THEN ConflictPath(e) ELSE e.path
             adopted == outcome \in {"APPLIED_REMOTE", "CONFLICT_FORKED"}
             needed2 == IF adopted THEN proc[pr].needed \cup Missing(pr, e) ELSE proc[pr].needed
             paths2 == IF adopted THEN Append(proc[pr].paths, at) ELSE proc[pr].paths
             r2 == [proc[pr] EXCEPT !.mem = es2, !.todo = @ \ {e},
                                    !.needed = needed2, !.paths = paths2]
<1>3. proc[pr].pc = "merging" /\ e \in Good /\ e \in FileEntry
  BY <1>1 DEF MergeEntry, ProcRec, Good
<1>4. es \in Store /\ IsStore(es) /\ proc[pr].paths \in Seq(Path) /\ proc[pr].needed \subseteq Chunk
  BY <1>1, StoreIsStore DEF ProcRec
<1>5. es2 \in Store /\ MergeStep(es, es2, e)
  BY <1>3, <1>4, MergeInStore, MergeRemoteFacts
<1>6. at \in Path
  BY <1>3, ConflictPathFacts DEF FileEntry
<1>7. Missing(pr, e) \subseteq Chunk
  <2>1. e.chunk_hashes \in Seq(Chunk)
    BY <1>3 DEF FileEntry
  <2>2. QED
    BY <2>1 DEF Missing, ChunksOf, WholeHashes
<1>8. proc' = [proc EXCEPT ![pr] = r2]
  BY DEF MergeEntry, IInv, Typed
<1>9. HIDE DEF es2, at, outcome
<1>10. paths2 \in Seq(Path) /\ needed2 \subseteq Chunk
  BY <1>4, <1>6, <1>7
<1>11. /\ \A q : Listed(proc[pr].paths, q) => Listed(paths2, q)
       /\ adopted => Listed(paths2, at)
       /\ \A i \in DOMAIN paths2 :
             \/ (i \in DOMAIN proc[pr].paths /\ paths2[i] = proc[pr].paths[i])
             \/ (adopted /\ paths2[i] = at)
  <2>1. CASE ~ adopted
    BY <2>1
  <2>2. CASE adopted
    <3>1. /\ Len(paths2) = Len(proc[pr].paths) + 1 /\ Len(proc[pr].paths) \in Nat
          /\ DOMAIN paths2 = 1 .. Len(proc[pr].paths) + 1
          /\ DOMAIN proc[pr].paths = 1 .. Len(proc[pr].paths)
          /\ paths2[Len(proc[pr].paths) + 1] = at
          /\ \A i \in 1 .. Len(proc[pr].paths) : paths2[i] = proc[pr].paths[i]
      BY <1>4, <1>6, <2>2
    <3>2. HIDE DEF paths2
    <3>3. QED
      BY <2>2, <3>1 DEF Listed
  <2>3. QED
    BY <2>1, <2>2
<1>12. HIDE DEF paths2, needed2
<1>13. /\ r2 \in ProcRec /\ r2.mem = es2 /\ r2.paths = paths2 /\ r2.pc = "merging"
  BY <1>1, <1>3, <1>5, <1>10 DEF ProcRec
<1>14. HIDE DEF r2
<1>15. DOMAIN es \subseteq DOMAIN es2 /\ e.path \in DOMAIN es2
  BY <1>5 DEF MergeStep
<1>16. adopted => at \in DOMAIN es2
  <2>1. CASE outcome = "APPLIED_REMOTE"
    BY <1>15, <2>1 DEF at
  <2>2. CASE outcome = "CONFLICT_FORKED"
    <3>1. es2 = ForkConflict(es, e)
      BY <2>2 DEF es2, outcome, merge_remote
    <3>2. ConflictPath(e) \in DOMAIN ForkConflict(es, e)
      BY ConflictPathFacts, <1>3 DEF ForkConflict, load_entry, FileEntry
    <3>3. QED
      BY <2>2, <3>1, <3>2 DEF at
  <2>3. QED
    BY <2>1, <2>2
<1>17. \A i \in DOMAIN r2.paths : r2.paths[i] \in DOMAIN r2.mem
  BY <1>1, <1>3, <1>11, <1>13, <1>15, <1>16 DEF ProcOK
<1>18. ASSUME NEW q \in DOMAIN es2
       PROVE  \/ WholeHashes(es2[q]) \subseteq DOMAIN blobs[Home(pr)]
              \/ Listed(paths2, q)
  <2>1. CASE /\ q \in DOMAIN es
             /\ es2[q].chunk_hashes = es[q].chunk_hashes
    <3>1. WholeHashes(es2[q]) = WholeHashes(es[q])
      BY <2>1 DEF ChunksOf, WholeHashes
    <3>2. QED
      BY <1>1, <1>11, <2>1, <3>1 DEF ProcOK
  <2>2. CASE \/ outcome = "APPLIED_REMOTE" /\ q = e.path
             \/ outcome = "CONFLICT_FORKED" /\ q = ConflictPath(e)
    BY <1>11, <2>2 DEF at
  <2>3. QED
    BY <1>5, <2>1, <2>2 DEF MergeStep, outcome
<1>19. ProcOK(r2, DOMAIN blobs[Home(pr)])
  BY <1>13, <1>17, <1>18 DEF ProcOK, Unsettled
<1>20. /\ link' \in [Proc -> Proc \cup {NoPeer}] /\ chan' \in [Proc -> Seq(Frame)]
       /\ edits' \in [Node -> 0 .. MaxEdits] /\ UNCHANGED disk
  BY DEF MergeEntry, IInv, Typed
<1>21. QED
  BY <1>8, <1>19, <1>20, IInvMove

LEMMA CrashInPutChunkKeeps ==
  ASSUME IInv, NEW pr \in Proc, NEW h \in DOMAIN proc[pr].incoming, CrashInPutChunk(pr, h)
  PROVE  IInv'
<1>1. h \in Chunk
  BY ChunkMapFacts DEF IInv, Typed, ProcRec
<1>2. /\ blobs' \in [Node -> ChunkMap]
      /\ \A n \in Node : DOMAIN blobs[n] \subseteq DOMAIN blobs'[n]
  BY <1>1, BlobAdded DEF CrashInPutChunk
<1>3. chan' \in [Proc -> Seq(Frame)]
  BY CutType DEF CrashInPutChunk, IInv
<1>4. /\ journal' \in [Node -> Store] /\ journal' = journal
      /\ files' \in [Node -> Dir]
      /\ proc' = [q \in Proc |-> proc'[q]]
      /\ link' \in [Proc -> Proc \cup {NoPeer}]
      /\ edits' \in [Node -> 0 .. MaxEdits]
  BY DEF CrashInPutChunk, Exit, IInv, Typed
<1>5. \A q \in Proc : proc'[q] = IF q = pr THEN Exited ELSE proc[q]
  BY DEF CrashInPutChunk, Exit, IInv, Typed
<1>6. \A q \in Proc : proc'[q] = proc[q] \/ ProcOK(proc'[q], DOMAIN blobs'[Home(q)])
  BY <1>5, ExitedOK
<1>7. QED
  BY <1>2, <1>3, <1>4, <1>6, IInvIntro

\* Part of a list of hashes has no others, but for one that is cut short.
LEMMA FirstHashesFacts ==
  ASSUME NEW hashes \in Seq(Chunk), NEW hs \in FirstHashes(hashes)
  PROVE  /\ hs \in Seq(Chunk)
         /\ \A i \in DOMAIN hs : hs[i] = PaddedHash \/ \E j \in DOMAIN hashes : hs[i] = hashes[j]
         /\ hashes = <<>> => hs = <<>>
<1>1. CASE \E k \in 0 .. Len(hashes) : hs = SubSeq(hashes, 1, k)
  <2>1. PICK k \in 0 .. Len(hashes) : hs = SubSeq(hashes, 1, k)
    BY <1>1
  <2>2. hs \in Seq(Chunk) /\ Len(hs) = k /\ \A i \in 1 .. k : hs[i] = hashes[i]
    BY <2>1
  <2>3. QED
    BY <2>2
<1>2. CASE \E k \in DOMAIN hashes : hs = Append(SubSeq(hashes, 1, k - 1), PaddedHash)
  <2>1. PICK k \in DOMAIN hashes : hs = Append(SubSeq(hashes, 1, k - 1), PaddedHash)
    BY <1>2
  <2>2. DEFINE front == SubSeq(hashes, 1, k - 1)
  <2>3. k \in 1 .. Len(hashes) /\ Len(hashes) \in Nat
    BY <2>1
  <2>4. front \in Seq(Chunk) /\ Len(front) = k - 1 /\ \A i \in 1 .. k - 1 : front[i] = hashes[i]
    BY <2>3
  <2>5. HIDE DEF front
  <2>6. hs = Append(front, PaddedHash)
    BY <2>1 DEF front
  <2>7. /\ hs \in Seq(Chunk) /\ DOMAIN hs = 1 .. k /\ hs[k] = PaddedHash
        /\ \A i \in 1 .. k - 1 : hs[i] = front[i]
    BY <2>3, <2>4, <2>6, CutAssumption
  <2>8. QED
    BY <2>3, <2>4, <2>7
<1>3. QED
  BY <1>1, <1>2 DEF FirstHashes

\* What is read from a part of a line is an entry, and names no chunk that the
\* whole line does not name, but for a hash that is cut short.
LEMMA FragmentFacts ==
  ASSUME NEW e \in Good, NEW f \in Fragments(e), "writing" \in CrashPoints
  PROVE  f \in Good /\ WholeHashes(f) \subseteq WholeHashes(e)
<1>1. /\ e \in FileEntry /\ e.chunk_hashes \in Seq(Chunk) /\ e.clock \in Clock
      /\ ZeroClock \in Clock /\ NoId \in Node /\ <<>> \in Seq(Chunk)
  BY CutAssumption DEF Good, FileEntry, ZeroClock, Clock
<1>2. DEFINE bare == [e EXCEPT !.chunk_hashes = <<>>, !.clock = ZeroClock, !.last_writer = NoId]
<1>3. bare \in FileEntry /\ bare.chunk_hashes = <<>>
  BY <1>1 DEF FileEntry
<1>4. HIDE DEF bare
<1>5. ASSUME NEW x \in FileEntry, x.chunk_hashes = <<>>
      PROVE  x \in Good /\ WholeHashes(x) \subseteq WholeHashes(e)
  BY <1>5 DEF Good, WholeHashes, ChunksOf
<1>6. CASE \E p \in {e.path} \cup (CutTo(e.path) \cap Path) :
             f = [bare EXCEPT !.path = p, !.deleted = FALSE]
  <2>1. PICK p \in {e.path} \cup (CutTo(e.path) \cap Path) :
               f = [bare EXCEPT !.path = p, !.deleted = FALSE]
    BY <1>6
  <2>2. p \in Path
    BY <1>1 DEF FileEntry
  <2>3. f \in FileEntry /\ f.chunk_hashes = <<>>
    BY <1>3, <2>1, <2>2 DEF FileEntry
  <2>4. QED
    BY <1>5, <2>3
<1>7. CASE f = bare
  BY <1>3, <1>5, <1>7
<1>8. CASE \E c \in CutClocks(e.clock) : f = [bare EXCEPT !.clock = c]
  <2>1. PICK c \in CutClocks(e.clock) : f = [bare EXCEPT !.clock = c]
    BY <1>8
  <2>2. PICK m \in Node : c \in {CutClock(e.clock, m, v) : v \in Shortened(e.clock[m])}
    BY <2>1 DEF CutClocks
  <2>3. PICK v \in Shortened(e.clock[m]) : c = CutClock(e.clock, m, v)
    BY <2>2
  <2>4. v \in Nat
    BY <1>1 DEF Shortened, Clock
  <2>5. c \in Clock
    BY <1>1, <2>3, <2>4 DEF CutClock, Clock
  <2>6. f \in FileEntry /\ f.chunk_hashes = <<>>
    BY <1>3, <2>1, <2>5 DEF FileEntry
  <2>7. QED
    BY <1>5, <2>6
<1>9. CASE \E hs \in FirstHashes(e.chunk_hashes) : f = [e EXCEPT !.chunk_hashes = hs]
  <2>1. PICK hs \in FirstHashes(e.chunk_hashes) : f = [e EXCEPT !.chunk_hashes = hs]
    BY <1>9
  <2>2. /\ hs \in Seq(Chunk)
        /\ \A i \in DOMAIN hs : hs[i] = PaddedHash
                                \/ \E j \in DOMAIN e.chunk_hashes : hs[i] = e.chunk_hashes[j]
        /\ e.chunk_hashes = <<>> => hs = <<>>
    BY <1>1, FirstHashesFacts
  <2>3. f \in FileEntry /\ f.chunk_hashes = hs /\ f.deleted = e.deleted
    BY <1>1, <2>1, <2>2 DEF FileEntry
  <2>4. f \in Good
    BY <2>2, <2>3 DEF Good
  <2>5. CutHashes = {PaddedHash}
    BY DEF CutHashes
  <2>6. QED
    BY <2>2, <2>3, <2>4, <2>5 DEF WholeHashes, ChunksOf
<1>10. QED
  BY <1>6, <1>7, <1>8, <1>9, Zenon DEF Fragments, bare

LEMMA CrashInLineKeeps ==
  ASSUME IInv, NEW pr \in Proc, NEW e \in proc[pr].todo, CrashInLine(pr, e)
  PROVE  IInv'
<1>1. /\ proc[pr] \in ProcRec /\ ProcOK(proc[pr], DOMAIN blobs[Home(pr)])
      /\ Home(pr) \in Node
  BY HomeType DEF IInv, Typed
<1>2. proc[pr].pc = "writing" /\ "writing" \in CrashPoints /\ e \in Good
  BY <1>1 DEF CrashInLine, ProcRec
<1>3. PICK f \in Fragments(e) :
             journal' = [journal EXCEPT ![Home(pr)] = load_entry(@, f)]
  BY DEF CrashInLine
<1>4. DEFINE es == load_entry(journal[Home(pr)], f)
<1>5. f \in Good /\ f \in FileEntry /\ WholeHashes(f) \subseteq DOMAIN blobs[Home(pr)]
  BY <1>1, <1>2, FragmentFacts DEF ProcOK, Good
<1>6. journal[Home(pr)] \in Store /\ IsStore(journal[Home(pr)])
  BY <1>1, StoreIsStore DEF IInv, Typed
<1>7. es \in Store /\ LoadStep(journal[Home(pr)], es, f)
  BY <1>5, <1>6, LoadInStore, LoadEntryFacts
<1>8. journal' = [journal EXCEPT ![Home(pr)] = es]
  BY <1>3
<1>9. HIDE DEF es
<1>10. /\ journal' \in [Node -> Store]
       /\ \A n \in Node : journal'[n] = IF n = Home(pr) THEN es ELSE journal[n]
  BY <1>1, <1>7, <1>8 DEF IInv, Typed
<1>11. chan' \in [Proc -> Seq(Frame)]
  BY CutType DEF CrashInLine, IInv
<1>12. /\ blobs' \in [Node -> ChunkMap] /\ blobs' = blobs
       /\ files' \in [Node -> Dir]
       /\ proc' = [q \in Proc |-> proc'[q]]
       /\ link' \in [Proc -> Proc \cup {NoPeer}]
       /\ edits' \in [Node -> 0 .. MaxEdits]
  BY DEF CrashInLine, Exit, IInv, Typed
<1>13. \A q \in Proc : proc'[q] = IF q = pr THEN Exited ELSE proc[q]
  BY DEF CrashInLine, Exit, IInv, Typed
<1>14. \A q \in Proc : proc'[q] = proc[q] \/ ProcOK(proc'[q], DOMAIN blobs'[Home(q)])
  BY <1>13, ExitedOK
<1>15. \A n \in Node : \A x \in all_entries(journal'[n]) :
         x \in all_entries(journal[n]) \/ WholeHashes(x) \subseteq DOMAIN blobs'[n]
  BY <1>5, <1>7, <1>10, <1>12 DEF LoadStep
<1>16. QED
  BY <1>10, <1>11, <1>12, <1>14, <1>15, IInvIntro

\* StopListening, RecvDone, Fail and Crash only end a process.
LEMMA EndKeeps ==
  ASSUME IInv, NEW pr \in Proc,
         StopListening(pr) \/ RecvDone(pr) \/ Fail(pr) \/ Crash(pr)
  PROVE  IInv'
<1>1. Exit(pr) /\ UNCHANGED <<disk, edits>>
  BY DEF StopListening, RecvDone, Fail, Crash
<1>2. chan' \in [Proc -> Seq(Frame)]
  <2>1. CASE StopListening(pr) \/ Fail(pr)
    BY <2>1 DEF StopListening, Fail, IInv, Typed
  <2>2. CASE RecvDone(pr)
    BY <2>2, HeadFrame DEF RecvDone, IInv, Expected
  <2>3. CASE Crash(pr)
    BY <2>3, CutType DEF Crash, IInv
  <2>4. QED
    BY <2>1, <2>2, <2>3
<1>3. QED
  BY <1>1, <1>2, ExitKeepsIInv

-----------------------------------------------------------------------------

LEMMA IInvInit == Init => IInv
<1>1. SUFFICES ASSUME Init PROVE IInv
  OBVIOUS
<1>2. [p \in {} |-> <<>>] \in Dir
  BY DEF Dir
<1>3. Typed
  BY <1>1, <1>2, EmptyStoreInStore, NoChunksType, ExitedType, SyncNodeAssumption DEF Init, Typed
<1>4. all_entries(EmptyStore) = {}
  BY EmptyStoreType DEF all_entries
<1>5. EveryVersionBacked
  BY <1>1, <1>4 DEF Init, EveryVersionBacked
<1>6. \A pr \in Proc : ProcOK(proc[pr], DOMAIN blobs[Home(pr)])
  BY <1>1, ExitedOK DEF Init
<1>7. QED
  BY <1>3, <1>5, <1>6 DEF IInv

LEMMA IInvStep ==
  ASSUME IInv, [Next]_vars
  PROVE  IInv'
<1>1. CASE UNCHANGED vars
  <2>1. Typed' /\ EveryVersionBacked'
    BY <1>1 DEF vars, IInv, Typed, EveryVersionBacked, all_entries
  <2>2. \A pr \in Proc : ProcOK(proc'[pr], DOMAIN blobs'[Home(pr)])
    BY <1>1 DEF vars, IInv
  <2>3. QED
    BY <2>1, <2>2 DEF IInv, Home
<1>2. ASSUME NEW pr \in Proc, Command(pr)
      PROVE  IInv'
  BY <1>2, StartAddKeeps, StartRmKeeps, StartListenKeeps, EndKeeps, SyncWithKeeps DEF Command
<1>3. ASSUME NEW pr \in Proc, Step(pr)
      PROVE  IInv'
  BY <1>3, StoreChunkKeeps, PutLocalKeeps, MaterializeKeeps, AllMaterializedKeeps,
     OpenJournalKeeps, WriteLineKeeps, CloseJournalKeeps, SendManifestKeeps,
     RecvManifestKeeps, MergeEntryKeeps, SendRequestKeeps, ServeRequestKeeps,
     RecvDataKeeps, AllFetchedKeeps, SendDoneKeeps, EndKeeps DEF Step
<1>4. ASSUME NEW pr \in Proc, Killed(pr)
      PROVE  IInv'
  BY <1>4, EndKeeps, CrashInPutChunkKeeps, CrashInLineKeeps DEF Killed
<1>5. QED
  BY <1>1, <1>2, <1>3, <1>4 DEF Next

LEMMA TypedIsTypeOK ==
  ASSUME Typed
  PROVE  TypeOK
<1>1. ASSUME NEW es \in Store
      PROVE  IsStore(es)
  BY StoreIsStore
<1>2. ASSUME NEW m \in ChunkMap
      PROVE  IsChunkMap(m)
  BY ChunkMapFacts DEF IsChunkMap
<1>3. ASSUME NEW f \in Frame
      PROVE  IsFrame(f)
  BY <1>2 DEF Frame, IsFrame, Good
<1>4. \A n \in Node : IsStore(journal[n]) /\ IsChunkMap(blobs[n])
  BY <1>1, <1>2 DEF Typed
<1>5. \A n \in Node : \A p \in DOMAIN files[n] : files[n][p] \in Seq(Chunk \cup {Torn})
  BY DEF Typed, Dir
<1>6. ASSUME NEW pr \in Proc
      PROVE  /\ proc[pr].pc \in ProcState
             /\ IsStore(proc[pr].mem)
             /\ proc[pr].adding \in Seq(Chunk)
             /\ \A e \in proc[pr].todo : e \in FileEntry
             /\ proc[pr].needed \subseteq Chunk
             /\ IsChunkMap(proc[pr].incoming)
             /\ \A i \in DOMAIN proc[pr].paths : proc[pr].paths[i] \in Path
             /\ \A i \in DOMAIN chan[pr] : IsFrame(chan[pr][i])
  <2>1. proc[pr] \in ProcRec /\ chan[pr] \in Seq(Frame)
    BY DEF Typed
  <2>2. \A i \in DOMAIN chan[pr] : chan[pr][i] \in Frame
    BY <2>1
  <2>3. QED
    BY <1>1, <1>2, <1>3, <2>1, <2>2 DEF ProcRec, Good
<1>7. QED
  BY <1>4, <1>5, <1>6 DEF Typed, TypeOK

\* Journals, chunk files, frames and the memory of every process are well
\* formed, whatever is killed when.
THEOREM TypeCorrect == Spec => []TypeOK
<1>1. Init => IInv
  BY IInvInit
<1>2. IInv /\ [Next]_vars => IInv'
  BY IInvStep
<1>3. IInv => TypeOK
  BY TypedIsTypeOK DEF IInv
<1>4. QED
  BY <1>1, <1>2, <1>3, PTL DEF Spec

\* Every chunk hash in a journal has a chunk file (ingest_file and
\* run_sync_session save last), whichever process is killed at whichever step, in
\* the middle of a line of the journal included, and whichever sessions overlap
\* on a node.  The one exception is a hash that such a line was cut in.
THEOREM EveryVersionBackedHolds == Spec => []EveryVersionBacked
<1>1. Init => IInv
  BY IInvInit
<1>2. IInv /\ [Next]_vars => IInv'
  BY IInvStep
<1>3. IInv => EveryVersionBacked
  BY DEF IInv
<1>4. QED
  BY <1>1, <1>2, <1>3, PTL DEF Spec

-----------------------------------------------------------------------------
(* The session invariant, for what one side asks of the other and what a   *)
(* process is about to write out.  The argument follows a chunk through a   *)
(* session.  A manifest is made from a store every version of which is      *)
(* backed; chunk files are never removed; so the peer of a merging process  *)
(* has every chunk that process will find missing.  The request is what is  *)
(* missing, the answer covers the request, and all of the answer is stored  *)
(* before anything is written out.                                          *)

\* Before the CHUNK_REQUEST of a session is sent.
Early == {"sendManifest", "recvManifest", "merging"}

\* The chunks a process still waits for, or has in memory and not on disk.
Pending(r) ==
  IF r.pc \in {"merging", "recvRequest", "recvData"} THEN r.needed
  ELSE IF r.pc \in {"adding", "fetching"} THEN DOMAIN r.incoming
  ELSE {}

\* Versions are backed or their chunks are pending; a listener has not asked
\* for anything.  have: the hashes that have a chunk file.
FetchOK(r, have) ==
  /\ r.pc = "listening" => r.needed = {}
  /\ \A p \in DOMAIN r.mem : WholeHashes(r.mem[p]) \subseteq have \cup Pending(r)
  /\ r.pc = "adding" => \A i \in DOMAIN r.adding : r.adding[i] \in have \cup Pending(r)

\* A manifest names chunks of the sender, a request chunks of the receiver.
Carries(f, sender, receiver) ==
  /\ f.type = "MANIFEST" => \A e \in f.entries : WholeHashes(e) \subseteq sender
  /\ f.type = "CHUNK_REQUEST" => f.hashes \ CutHashes \subseteq receiver

\* f, if it is CHUNK_DATA, has everything r has asked for.
Answers(f, r) ==
  f.type = "CHUNK_DATA" => r.needed \ CutHashes \subseteq DOMAIN f.chunks /\ r.pc \notin Early

\* f, if it is a request, is the one r sent.
AskedBy(f, r) == f.type = "CHUNK_REQUEST" => r.needed = f.hashes /\ r.pc \notin Early

SessionOK(pr) ==
  /\ proc[pr].pc \in {"idle", "listening"} => link[pr] = NoPeer
  /\ proc[pr].pc \in InSession => link[pr] # NoPeer
  /\ link[pr] # NoPeer =>
       /\ link[pr] # pr
       /\ proc[pr].needed \ CutHashes \subseteq DOMAIN blobs[Home(link[pr])]
       /\ proc[pr].pc = "merging" =>
            \A e \in proc[pr].todo : WholeHashes(e) \subseteq DOMAIN blobs[Home(link[pr])]
       /\ \A i \in DOMAIN chan[pr] :
            /\ Carries(chan[pr][i], DOMAIN blobs[Home(link[pr])], DOMAIN blobs[Home(pr)])
            /\ Answers(chan[pr][i], proc[pr])
            /\ link[link[pr]] = pr => AskedBy(chan[pr][i], proc[link[pr]])

SInv == \A pr \in Proc : SessionOK(pr) /\ FetchOK(proc[pr], DOMAIN blobs[Home(pr)])

LEMMA FetchOKMonotone ==
  ASSUME NEW r, NEW have, NEW more, have \subseteq more, FetchOK(r, have)
  PROVE  FetchOK(r, more)
  BY DEF FetchOK

LEMMA CarriesMonotone ==
  ASSUME NEW f, NEW s, NEW t, NEW s2, NEW t2, s \subseteq s2, t \subseteq t2, Carries(f, s, t)
  PROVE  Carries(f, s2, t2)
  BY DEF Carries

\* Process pr may become r2: what its peer relies on stays.
MayBecome(pr, r2) ==
  /\ r2.pc \in {"idle", "listening"} => link[pr] = NoPeer
  /\ r2.pc \in InSession => link[pr] # NoPeer
  /\ link[pr] # NoPeer =>
       /\ r2.needed \ CutHashes \subseteq DOMAIN blobs[Home(link[pr])]
       /\ r2.pc = "merging" =>
            \A e \in r2.todo : WholeHashes(e) \subseteq DOMAIN blobs[Home(link[pr])]
       /\ proc[pr].pc \notin Early => r2.pc \notin Early /\ r2.needed = proc[pr].needed

\* The frame f may be sent by pr, which becomes r2, to its peer.
MaySend(pr, r2, f) ==
  /\ Carries(f, DOMAIN blobs[Home(pr)], DOMAIN blobs[Home(link[pr])])
  /\ Answers(f, proc[link[pr]])
  /\ AskedBy(f, r2)

LEMMA SessionMove ==
  ASSUME IInv, SInv, NEW pr \in Proc, NEW r2, proc' = [proc EXCEPT ![pr] = r2],
         UNCHANGED link,
         \A n \in Node : DOMAIN blobs[n] \subseteq DOMAIN blobs'[n],
         MayBecome(pr, r2), FetchOK(r2, DOMAIN blobs'[Home(pr)]),
         \A q \in Proc : \A i \in DOMAIN chan'[q] :
            \/ \E j \in DOMAIN chan[q] : chan'[q][i] = chan[q][j]
            \/ q = link[pr] /\ link[q] = pr /\ MaySend(pr, r2, chan'[q][i])
  PROVE  SInv'
<1>1. /\ proc \in [Proc -> ProcRec] /\ link \in [Proc -> Proc \cup {NoPeer}]
      /\ NoPeer \notin Proc
  BY SyncNodeAssumption DEF IInv, Typed
<1>2. \A q \in Proc : proc'[q] = IF q = pr THEN r2 ELSE proc[q]
  BY <1>1
<1>3. \A q \in Proc : DOMAIN blobs[Home(q)] \subseteq DOMAIN blobs'[Home(q)]
  BY HomeType
<1>4. ASSUME NEW q \in Proc
      PROVE  FetchOK(proc'[q], DOMAIN blobs'[Home(q)])
  <2>1. FetchOK(proc[q], DOMAIN blobs'[Home(q)])
    BY <1>3, FetchOKMonotone DEF SInv
  <2>2. QED
    BY <1>2, <2>1
<1>5. ASSUME NEW q \in Proc
      PROVE  SessionOK(q)'
  <2>1. /\ proc'[q].pc \in {"idle", "listening"} => link[q] = NoPeer
        /\ proc'[q].pc \in InSession => link[q] # NoPeer
    BY <1>2 DEF SInv, SessionOK, MayBecome
  <2>2. ASSUME link[q] # NoPeer
        PROVE  /\ link[q] \in Proc /\ link[q] # q
               /\ proc'[q].needed \ CutHashes \subseteq DOMAIN blobs'[Home(link[q])]
               /\ proc'[q].pc = "merging" =>
                    \A e \in proc'[q].todo : WholeHashes(e) \subseteq DOMAIN blobs'[Home(link[q])]
    <3>1. link[q] \in Proc /\ link[q] # q
      BY <1>1, <2>2 DEF SInv, SessionOK
    <3>2. DOMAIN blobs[Home(link[q])] \subseteq DOMAIN blobs'[Home(link[q])]
      BY <1>3, <3>1
    <3>3. CASE q = pr
      BY <1>2, <2>2, <3>1, <3>2, <3>3 DEF MayBecome
    <3>4. CASE q # pr
      BY <1>2, <2>2, <3>1, <3>2, <3>4 DEF SInv, SessionOK
    <3>5. QED
      BY <3>3, <3>4
  <2>3. ASSUME link[q] # NoPeer, NEW i \in DOMAIN chan'[q]
        PROVE  /\ Carries(chan'[q][i], DOMAIN blobs'[Home(link[q])], DOMAIN blobs'[Home(q)])
               /\ Answers(chan'[q][i], proc'[q])
               /\ link[link[q]] = q => AskedBy(chan'[q][i], proc'[link[q]])
    <3>1. link[q] \in Proc /\ link[q] # q
      BY <2>2, <2>3
    <3>2. /\ DOMAIN blobs[Home(link[q])] \subseteq DOMAIN blobs'[Home(link[q])]
          /\ DOMAIN blobs[Home(q)] \subseteq DOMAIN blobs'[Home(q)]
      BY <1>3, <3>1
    <3>3. CASE \E j \in DOMAIN chan[q] : chan'[q][i] = chan[q][j]
      <4>1. PICK j \in DOMAIN chan[q] : chan'[q][i] = chan[q][j]
        BY <3>3
      <4>2. /\ Carries(chan[q][j], DOMAIN blobs[Home(link[q])], DOMAIN blobs[Home(q)])
            /\ Answers(chan[q][j], proc[q])
            /\ link[link[q]] = q => AskedBy(chan[q][j], proc[link[q]])
        BY <2>3 DEF SInv, SessionOK
      <4>3. Carries(chan[q][j], DOMAIN blobs'[Home(link[q])], DOMAIN blobs'[Home(q)])
        BY <3>2, <4>2, CarriesMonotone
      <4>4. Answers(chan[q][j], proc'[q])
        BY <1>2, <2>3, <4>2 DEF Answers, MayBecome
      <4>5. link[link[q]] = q => AskedBy(chan[q][j], proc'[link[q]])
        BY <1>1, <1>2, <3>1, <4>2 DEF AskedBy, MayBecome
      <4>6. QED
        BY <4>1, <4>3, <4>4, <4>5
    <3>4. CASE q = link[pr] /\ link[q] = pr /\ MaySend(pr, r2, chan'[q][i])
      <4>1. q # pr /\ proc'[q] = proc[q] /\ proc'[link[q]] = r2
        BY <1>2, <3>1, <3>4
      <4>2. Carries(chan'[q][i], DOMAIN blobs'[Home(link[q])], DOMAIN blobs'[Home(q)])
        BY <3>2, <3>4, CarriesMonotone DEF MaySend
      <4>3. QED
        BY <3>4, <4>1, <4>2 DEF MaySend
    <3>5. QED
      BY <3>3, <3>4
  <2>4. QED
    BY <2>1, <2>2, <2>3 DEF SessionOK, Home
<1>6. QED
  BY <1>4, <1>5 DEF SInv, Home

\* Process pr ends.  What it sent may still arrive, nothing else does.
LEMMA SessionExit ==
  ASSUME IInv, SInv, NEW pr \in Proc, Exit(pr),
         \A n \in Node : DOMAIN blobs[n] \subseteq DOMAIN blobs'[n],
         \A q \in Proc : \A i \in DOMAIN chan'[q] :
            \E j \in DOMAIN chan[q] : chan'[q][i] = chan[q][j]
  PROVE  SInv'
<1>1. /\ proc \in [Proc -> ProcRec] /\ link \in [Proc -> Proc \cup {NoPeer}]
      /\ NoPeer \notin Proc
  BY SyncNodeAssumption DEF IInv, Typed
<1>2. /\ \A q \in Proc : proc'[q] = IF q = pr THEN Exited ELSE proc[q]
      /\ \A q \in Proc : link'[q] = IF q = pr THEN NoPeer ELSE link[q]
  BY <1>1 DEF Exit
<1>3. \A q \in Proc : DOMAIN blobs[Home(q)] \subseteq DOMAIN blobs'[Home(q)]
  BY HomeType
<1>4. FetchOK(Exited, DOMAIN blobs'[Home(pr)]) /\ Exited.pc = "idle"
  BY EmptyStoreType DEF FetchOK, Exited
<1>5. ASSUME NEW q \in Proc
      PROVE  FetchOK(proc'[q], DOMAIN blobs'[Home(q)])
  <2>1. FetchOK(proc[q], DOMAIN blobs'[Home(q)])
    BY <1>3, FetchOKMonotone DEF SInv
  <2>2. QED
    BY <1>2, <1>4, <2>1
<1>6. ASSUME NEW q \in Proc
      PROVE  SessionOK(q)'
  <2>1. CASE q = pr
    BY <1>2, <1>4, <2>1 DEF SessionOK, InSession, Sending, Receiving
  <2>2. CASE q # pr
    <3>1. proc'[q] = proc[q] /\ link'[q] = link[q]
      BY <1>2, <2>2
    <3>2. ASSUME link[q] # NoPeer
          PROVE  /\ link[q] \in Proc /\ link[q] # q
                 /\ proc[q].needed \ CutHashes \subseteq DOMAIN blobs'[Home(link[q])]
                 /\ proc[q].pc = "merging" =>
                      \A e \in proc[q].todo : WholeHashes(e) \subseteq DOMAIN blobs'[Home(link[q])]
      <4>1. link[q] \in Proc /\ link[q] # q
        BY <1>1, <3>2 DEF SInv, SessionOK
      <4>2. DOMAIN blobs[Home(link[q])] \subseteq DOMAIN blobs'[Home(link[q])]
        BY <1>3, <4>1
      <4>3. QED
        BY <3>2, <4>1, <4>2 DEF SInv, SessionOK
    <3>3. ASSUME link[q] # NoPeer, NEW i \in DOMAIN chan'[q]
          PROVE  /\ Carries(chan'[q][i], DOMAIN blobs'[Home(link[q])], DOMAIN blobs'[Home(q)])
                 /\ Answers(chan'[q][i], proc[q])
                 /\ link'[link[q]] = q => AskedBy(chan'[q][i], proc'[link[q]])
      <4>1. link[q] \in Proc
        BY <3>2, <3>3
      <4>2. PICK j \in DOMAIN chan[q] : chan'[q][i] = chan[q][j]
        OBVIOUS
      <4>3. /\ Carries(chan[q][j], DOMAIN blobs[Home(link[q])], DOMAIN blobs[Home(q)])
            /\ Answers(chan[q][j], proc[q])
            /\ link[link[q]] = q => AskedBy(chan[q][j], proc[link[q]])
        BY <3>3 DEF SInv, SessionOK
      <4>4. Carries(chan[q][j], DOMAIN blobs'[Home(link[q])], DOMAIN blobs'[Home(q)])
        BY <1>3, <4>1, <4>3, CarriesMonotone
      <4>5. link'[link[q]] = q => link[link[q]] = q /\ proc'[link[q]] = proc[link[q]]
        BY <1>1, <1>2, <4>1
      <4>6. QED
        BY <4>2, <4>3, <4>4, <4>5
    <3>4. /\ proc[q].pc \in {"idle", "listening"} => link[q] = NoPeer
          /\ proc[q].pc \in InSession => link[q] # NoPeer
      BY DEF SInv, SessionOK
    <3>5. QED
      BY <3>1, <3>2, <3>3, <3>4 DEF SessionOK, Home
  <2>3. QED
    BY <2>1, <2>2
<1>7. QED
  BY <1>5, <1>6 DEF SInv, Home

\* The common case: nothing is sent or received.
LEMMA SessionLocal ==
  ASSUME IInv, SInv, NEW pr \in Proc, NEW r2, proc' = [proc EXCEPT ![pr] = r2],
         UNCHANGED <<link, chan>>,
         \A n \in Node : DOMAIN blobs[n] \subseteq DOMAIN blobs'[n],
         MayBecome(pr, r2), FetchOK(r2, DOMAIN blobs'[Home(pr)])
  PROVE  SInv'
<1>1. \A q \in Proc : \A i \in DOMAIN chan'[q] : \E j \in DOMAIN chan[q] : chan'[q][i] = chan[q][j]
  OBVIOUS
<1>2. QED
  BY <1>1, SessionMove

\* What is known of process pr before it takes a step.
LEMMA ProcFacts ==
  ASSUME IInv, SInv, NEW pr \in Proc
  PROVE  /\ proc[pr] \in ProcRec
         /\ Home(pr) \in Node
         /\ ProcOK(proc[pr], DOMAIN blobs[Home(pr)])
         /\ FetchOK(proc[pr], DOMAIN blobs[Home(pr)])
         /\ SessionOK(pr)
         /\ link[pr] # NoPeer => link[pr] \in Proc /\ Home(link[pr]) \in Node
  BY HomeType DEF IInv, Typed, SInv

LEMMA SettledIsBacked ==
  ASSUME NEW r, NEW have, ProcOK(r, have), r.pc \notin Unsettled
  PROVE  \A p \in DOMAIN r.mem : WholeHashes(r.mem[p]) \subseteq have
  BY DEF ProcOK

-----------------------------------------------------------------------------
(* Every action keeps the session invariant.                                *)

LEMMA StartAddSession ==
  ASSUME IInv, SInv, NEW pr \in Proc, NEW p \in UserPath, NEW f \in FileContent, StartAdd(pr, p, f)
  PROVE  SInv'
<1>1. DEFINE r2 == [Loaded(pr) EXCEPT !.pc = "adding", !.adding = f,
                                      !.incoming = WholeChunks(f), !.paths = <<p>>]
<1>2. Loaded(pr) \in ProcRec /\ ProcOK(Loaded(pr), DOMAIN blobs[Home(pr)]) /\ Loaded(pr).pc = "idle"
  BY LoadedType, LoadedOK DEF IInv, Loaded, Exited
<1>3. \A q \in DOMAIN Loaded(pr).mem : WholeHashes(Loaded(pr).mem[q]) \subseteq DOMAIN blobs[Home(pr)]
  BY <1>2, SettledIsBacked DEF Unsettled
<1>4. /\ r2.mem = Loaded(pr).mem /\ r2.pc = "adding" /\ r2.adding = f
      /\ DOMAIN r2.incoming = {f[i] : i \in DOMAIN f}
  BY <1>2 DEF ProcRec, WholeChunks
<1>5. proc[pr].pc = "idle" /\ link[pr] = NoPeer
  BY ProcFacts DEF StartAdd, SessionOK
<1>6. proc' = [proc EXCEPT ![pr] = r2] /\ UNCHANGED <<link, chan>> /\ blobs' = blobs
  BY DEF StartAdd, disk
<1>7. HIDE DEF r2
<1>8. MayBecome(pr, r2)
  BY <1>4, <1>5 DEF MayBecome, InSession, Sending, Receiving
<1>9. FetchOK(r2, DOMAIN blobs'[Home(pr)])
  BY <1>3, <1>4, <1>6 DEF FetchOK, Pending
<1>10. QED
  BY <1>6, <1>8, <1>9, SessionLocal

LEMMA StartRmSession ==
  ASSUME IInv, SInv, NEW pr \in Proc, NEW p \in UserPath, StartRm(pr, p)
  PROVE  SInv'
<1>1. DEFINE r2 == [Loaded(pr) EXCEPT !.pc = "saving", !.mem = delete_local(@, Home(pr), p)]
<1>2. IInv' /\ proc'[pr] = r2
  BY StartRmKeeps DEF StartRm, IInv, Typed
<1>3. Loaded(pr) \in ProcRec
  BY LoadedType DEF IInv
<1>4. r2.pc = "saving"
  BY <1>3 DEF ProcRec
<1>5. proc[pr].pc = "idle" /\ link[pr] = NoPeer
  BY ProcFacts DEF StartRm, SessionOK
<1>6. proc' = [proc EXCEPT ![pr] = r2] /\ UNCHANGED <<link, chan>> /\ blobs' = blobs
  BY DEF StartRm, disk
<1>7. HIDE DEF r2
<1>8. MayBecome(pr, r2)
  BY <1>4, <1>5 DEF MayBecome, InSession, Sending, Receiving
<1>9. ProcOK(r2, DOMAIN blobs'[Home(pr)])
  BY <1>2 DEF IInv, Home
<1>10. FetchOK(r2, DOMAIN blobs'[Home(pr)])
  BY <1>4, <1>9, SettledIsBacked DEF FetchOK, Pending, Unsettled
<1>11. QED
  BY <1>6, <1>8, <1>10, SessionLocal

LEMMA StartListenSession ==
  ASSUME IInv, SInv, NEW pr \in Proc, StartListen(pr)
  PROVE  SInv'
<1>1. DEFINE r2 == [Loaded(pr) EXCEPT !.pc = "listening"]
<1>2. IInv' /\ proc'[pr] = r2
  BY StartListenKeeps DEF StartListen, IInv, Typed
<1>3. Loaded(pr) \in ProcRec /\ Loaded(pr).needed = {}
  BY LoadedType DEF IInv, Loaded, Exited
<1>4. r2.pc = "listening" /\ r2.needed = {}
  BY <1>3 DEF ProcRec
<1>5. proc[pr].pc = "idle" /\ link[pr] = NoPeer
  BY ProcFacts DEF StartListen, SessionOK
<1>6. proc' = [proc EXCEPT ![pr] = r2] /\ UNCHANGED <<link, chan>> /\ blobs' = blobs
  BY DEF StartListen, disk
<1>7. HIDE DEF r2
<1>8. MayBecome(pr, r2)
  BY <1>4, <1>5 DEF MayBecome, InSession, Sending, Receiving
<1>9. ProcOK(r2, DOMAIN blobs'[Home(pr)])
  BY <1>2 DEF IInv, Home
<1>10. FetchOK(r2, DOMAIN blobs'[Home(pr)])
  BY <1>4, <1>9, SettledIsBacked DEF FetchOK, Pending, Unsettled
<1>11. QED
  BY <1>6, <1>8, <1>10, SessionLocal

\* A chunk that was in memory only is on disk now.
LEMMA StoreChunkSession ==
  ASSUME IInv, SInv, NEW pr \in Proc, NEW h \in DOMAIN proc[pr].incoming, StoreChunk(pr, h)
  PROVE  SInv'
<1>1. DEFINE rest == [x \in DOMAIN proc[pr].incoming \ {h} |-> proc[pr].incoming[x]]
             r2 == [proc[pr] EXCEPT !.incoming = rest]
<1>2. /\ proc[pr] \in ProcRec /\ FetchOK(proc[pr], DOMAIN blobs[Home(pr)]) /\ SessionOK(pr)
      /\ Home(pr) \in Node
  BY ProcFacts
<1>3. proc[pr].pc \in {"adding", "fetching"}
  BY DEF StoreChunk
<1>4. proc[pr].incoming \in ChunkMap
  BY <1>2 DEF ProcRec
<1>5. h \in Chunk /\ proc[pr].incoming[h] \in {h, Torn}
  BY <1>4, ChunkMapFacts
<1>6. blobs' = [blobs EXCEPT ![Home(pr)] = put_chunk(@, h, proc[pr].incoming[h])]
  BY DEF StoreChunk
<1>7. \A n \in Node : DOMAIN blobs[n] \subseteq DOMAIN blobs'[n]
  BY <1>5, <1>6, BlobAdded
<1>8. DOMAIN blobs'[Home(pr)] = DOMAIN blobs[Home(pr)] \cup {h}
  <2>1. blobs \in [Node -> ChunkMap]
    BY DEF IInv, Typed
  <2>2. DOMAIN put_chunk(blobs[Home(pr)], h, proc[pr].incoming[h]) = DOMAIN blobs[Home(pr)] \cup {h}
    BY <1>2, <1>5, <2>1, PutChunkFacts
  <2>3. QED
    BY <1>2, <1>6, <2>1, <2>2
<1>9. DOMAIN rest = DOMAIN proc[pr].incoming \ {h}
  OBVIOUS
<1>10. proc' = [proc EXCEPT ![pr] = r2] /\ UNCHANGED <<link, chan>>
  BY DEF StoreChunk, IInv, Typed
<1>11. HIDE DEF rest
<1>12. /\ r2.pc = proc[pr].pc /\ r2.mem = proc[pr].mem /\ r2.adding = proc[pr].adding
       /\ r2.needed = proc[pr].needed /\ r2.incoming = rest
  BY <1>2 DEF ProcRec
<1>13. HIDE DEF r2
<1>14. MayBecome(pr, r2)
  BY <1>2, <1>3, <1>12 DEF MayBecome, SessionOK, Early
<1>15. DOMAIN blobs[Home(pr)] \cup Pending(proc[pr]) \subseteq DOMAIN blobs'[Home(pr)] \cup Pending(r2)
  BY <1>3, <1>8, <1>9, <1>12 DEF Pending
<1>16. FetchOK(r2, DOMAIN blobs'[Home(pr)])
  BY <1>2, <1>3, <1>12, <1>15 DEF FetchOK
<1>17. QED
  BY <1>7, <1>10, <1>14, <1>16, SessionLocal

\* put_local comes when every chunk of the new version is on disk.
LEMMA PutLocalSession ==
  ASSUME IInv, SInv, NEW pr \in Proc, PutLocal(pr)
  PROVE  SInv'
<1>1. DEFINE p  == Head(proc[pr].paths)
             es == proc[pr].mem
             es2 == put_local(es, Home(pr), p, proc[pr].adding)
             r2 == [proc[pr] EXCEPT !.pc = "materializing", !.mem = es2]
<1>2. /\ proc[pr] \in ProcRec /\ ProcOK(proc[pr], DOMAIN blobs[Home(pr)])
      /\ FetchOK(proc[pr], DOMAIN blobs[Home(pr)]) /\ SessionOK(pr) /\ Home(pr) \in Node
  BY ProcFacts
<1>3. /\ proc[pr].pc = "adding" /\ Len(proc[pr].paths) = 1 /\ proc[pr].paths \in Seq(Path)
      /\ DOMAIN proc[pr].incoming = {}
  BY <1>2, NoChunksType DEF PutLocal, ProcOK, ProcRec
<1>4. p \in Path
  BY <1>3
<1>5. es \in Store /\ IsStore(es) /\ proc[pr].adding \in Seq(Chunk)
  BY <1>2, StoreIsStore DEF ProcRec
<1>6. LocalEdit(es, es2, Home(pr), p) /\ es2[p].chunk_hashes = proc[pr].adding
  BY <1>2, <1>4, <1>5, PutLocalFacts
<1>7. \A q \in DOMAIN es : WholeHashes(es[q]) \subseteq DOMAIN blobs[Home(pr)]
  BY <1>2, <1>3, SettledIsBacked DEF Unsettled
<1>8. \A i \in DOMAIN proc[pr].adding : proc[pr].adding[i] \in DOMAIN blobs[Home(pr)]
  BY <1>2, <1>3 DEF FetchOK, Pending
<1>9. proc' = [proc EXCEPT ![pr] = r2] /\ UNCHANGED <<link, chan>> /\ blobs' = blobs
  BY DEF PutLocal, disk, IInv, Typed
<1>10. HIDE DEF p, es2
<1>11. r2.mem = es2 /\ r2.pc = "materializing" /\ r2.needed = proc[pr].needed
  BY <1>2 DEF ProcRec
<1>12. HIDE DEF es, r2
<1>13. \A q \in DOMAIN es2 : WholeHashes(es2[q]) \subseteq DOMAIN blobs[Home(pr)]
  <2>1. WholeHashes(es2[p]) \subseteq DOMAIN blobs[Home(pr)]
    BY <1>6, <1>8 DEF ChunksOf, WholeHashes
  <2>2. QED
    BY <1>6, <1>7, <2>1 DEF LocalEdit
<1>14. FetchOK(r2, DOMAIN blobs'[Home(pr)])
  BY <1>9, <1>11, <1>13 DEF FetchOK
<1>15. MayBecome(pr, r2)
  BY <1>2, <1>3, <1>11 DEF MayBecome, SessionOK, InSession, Sending, Receiving, Early
<1>16. QED
  BY <1>9, <1>14, <1>15, SessionLocal

\* Process pr moves on in a command or behind its request; its entries and
\* what it needed stay.
LEMMA LateMove ==
  ASSUME IInv, SInv, NEW pr \in Proc, NEW r2,
         r2.mem = proc[pr].mem, r2.needed = proc[pr].needed,
         r2.pc \notin Early \cup {"idle", "listening"},
         r2.pc \in InSession => link[pr] # NoPeer
  PROVE  MayBecome(pr, r2)
  BY ProcFacts DEF MayBecome, SessionOK, Early

LEMMA MaterializeSession ==
  ASSUME IInv, SInv, NEW pr \in Proc, Materialize(pr)
  PROVE  SInv'
<1>1. DEFINE r2 == [proc[pr] EXCEPT !.paths = Tail(@)]
<1>2. proc[pr] \in ProcRec /\ FetchOK(proc[pr], DOMAIN blobs[Home(pr)])
  BY ProcFacts
<1>3. proc[pr].pc = "materializing" /\ blobs' = blobs /\ chan' = chan
  BY DEF Materialize
<1>4. Exit(pr) \/ (proc' = [proc EXCEPT ![pr] = r2] /\ UNCHANGED link)
  BY DEF Materialize, IInv, Typed
<1>5. CASE Exit(pr)
  BY <1>3, <1>5, SessionExit
<1>6. CASE proc' = [proc EXCEPT ![pr] = r2] /\ UNCHANGED link
  <2>1. r2.pc = "materializing" /\ r2.mem = proc[pr].mem /\ r2.needed = proc[pr].needed
    BY <1>2, <1>3 DEF ProcRec
  <2>2. HIDE DEF r2
  <2>3. MayBecome(pr, r2)
    BY <2>1, LateMove DEF Early, InSession, Sending, Receiving
  <2>4. FetchOK(r2, DOMAIN blobs'[Home(pr)])
    BY <1>2, <1>3, <2>1 DEF FetchOK, Pending
  <2>5. QED
    BY <1>3, <1>6, <2>3, <2>4, SessionLocal
<1>7. QED
  BY <1>4, <1>5, <1>6

LEMMA AllMaterializedSession ==
  ASSUME IInv, SInv, NEW pr \in Proc, AllMaterialized(pr)
  PROVE  SInv'
<1>1. DEFINE r2 == [proc[pr] EXCEPT !.pc = "saving"]
<1>2. proc[pr] \in ProcRec /\ FetchOK(proc[pr], DOMAIN blobs[Home(pr)])
  BY ProcFacts
<1>3. /\ proc[pr].pc = "materializing" /\ blobs' = blobs /\ UNCHANGED <<link, chan>>
      /\ proc' = [proc EXCEPT ![pr] = r2]
  BY DEF AllMaterialized, disk, IInv, Typed
<1>4. r2.pc = "saving" /\ r2.mem = proc[pr].mem /\ r2.needed = proc[pr].needed
  BY <1>2 DEF ProcRec
<1>5. HIDE DEF r2
<1>6. MayBecome(pr, r2)
  BY <1>4, LateMove DEF Early, InSession, Sending, Receiving
<1>7. FetchOK(r2, DOMAIN blobs'[Home(pr)])
  BY <1>2, <1>3, <1>4 DEF FetchOK, Pending
<1>8. QED
  BY <1>3, <1>6, <1>7, SessionLocal

LEMMA OpenJournalSession ==
  ASSUME IInv, SInv, NEW pr \in Proc, OpenJournal(pr)
  PROVE  SInv'
<1>1. DEFINE r2 == [proc[pr] EXCEPT !.pc = "writing", !.todo = all_entries(proc[pr].mem)]
<1>2. proc[pr] \in ProcRec /\ FetchOK(proc[pr], DOMAIN blobs[Home(pr)])
  BY ProcFacts
<1>3. /\ proc[pr].pc = "saving" /\ blobs' = blobs /\ UNCHANGED <<link, chan>>
      /\ proc' = [proc EXCEPT ![pr] = r2]
  BY DEF OpenJournal, IInv, Typed
<1>4. r2.pc = "writing" /\ r2.mem = proc[pr].mem /\ r2.needed = proc[pr].needed
  BY <1>2 DEF ProcRec
<1>5. HIDE DEF r2
<1>6. MayBecome(pr, r2)
  BY <1>4, LateMove DEF Early, InSession, Sending, Receiving
<1>7. FetchOK(r2, DOMAIN blobs'[Home(pr)])
  BY <1>2, <1>3, <1>4 DEF FetchOK, Pending
<1>8. QED
  BY <1>3, <1>6, <1>7, SessionLocal

LEMMA WriteLineSession ==
  ASSUME IInv, SInv, NEW pr \in Proc, NEW e \in proc[pr].todo, WriteLine(pr, e)
  PROVE  SInv'
<1>1. DEFINE r2 == [proc[pr] EXCEPT !.todo = @ \ {e}]
<1>2. proc[pr] \in ProcRec /\ FetchOK(proc[pr], DOMAIN blobs[Home(pr)])
  BY ProcFacts
<1>3. /\ proc[pr].pc = "writing" /\ blobs' = blobs /\ UNCHANGED <<link, chan>>
      /\ proc' = [proc EXCEPT ![pr] = r2]
  BY DEF WriteLine, IInv, Typed
<1>4. r2.pc = "writing" /\ r2.mem = proc[pr].mem /\ r2.needed = proc[pr].needed
  BY <1>2, <1>3 DEF ProcRec
<1>5. HIDE DEF r2
<1>6. MayBecome(pr, r2)
  BY <1>4, LateMove DEF Early, InSession, Sending, Receiving
<1>7. FetchOK(r2, DOMAIN blobs'[Home(pr)])
  BY <1>2, <1>3, <1>4 DEF FetchOK, Pending
<1>8. QED
  BY <1>3, <1>6, <1>7, SessionLocal

LEMMA CloseJournalSession ==
  ASSUME IInv, SInv, NEW pr \in Proc, CloseJournal(pr)
  PROVE  SInv'
<1>1. DEFINE r2 == [proc[pr] EXCEPT !.pc = "sendDone"]
<1>2. proc[pr] \in ProcRec /\ FetchOK(proc[pr], DOMAIN blobs[Home(pr)])
  BY ProcFacts
<1>3. proc[pr].pc = "writing" /\ blobs' = blobs /\ chan' = chan
  BY DEF CloseJournal, disk
<1>4. CASE link[pr] = NoPeer
  BY <1>3, <1>4, SessionExit DEF CloseJournal
<1>5. CASE link[pr] # NoPeer
  <2>1. proc' = [proc EXCEPT ![pr] = r2] /\ UNCHANGED link
    BY <1>5 DEF CloseJournal, IInv, Typed
  <2>2. r2.pc = "sendDone" /\ r2.mem = proc[pr].mem /\ r2.needed = proc[pr].needed
    BY <1>2 DEF ProcRec
  <2>3. HIDE DEF r2
  <2>4. MayBecome(pr, r2)
    BY <1>5, <2>2, LateMove DEF Early
  <2>5. FetchOK(r2, DOMAIN blobs'[Home(pr)])
    BY <1>2, <1>3, <2>2 DEF FetchOK, Pending
  <2>6. QED
    BY <1>3, <2>1, <2>4, <2>5, SessionLocal
<1>6. QED
  BY <1>4, <1>5

\* When the answer is stored, nothing a version needs is missing any more.
LEMMA AllFetchedSession ==
  ASSUME IInv, SInv, NEW pr \in Proc, AllFetched(pr)
  PROVE  SInv'
<1>1. DEFINE r2 == [proc[pr] EXCEPT !.pc = "materializing"]
<1>2. proc[pr] \in ProcRec /\ FetchOK(proc[pr], DOMAIN blobs[Home(pr)])
  BY ProcFacts
<1>3. /\ proc[pr].pc = "fetching" /\ blobs' = blobs /\ UNCHANGED <<link, chan>>
      /\ proc' = [proc EXCEPT ![pr] = r2] /\ DOMAIN proc[pr].incoming = {}
  BY NoChunksType DEF AllFetched, disk, IInv, Typed
<1>4. r2.pc = "materializing" /\ r2.mem = proc[pr].mem /\ r2.needed = proc[pr].needed
  BY <1>2 DEF ProcRec
<1>5. HIDE DEF r2
<1>6. MayBecome(pr, r2)
  BY <1>4, LateMove DEF Early, InSession, Sending, Receiving
<1>7. FetchOK(r2, DOMAIN blobs'[Home(pr)])
  BY <1>2, <1>3, <1>4 DEF FetchOK, Pending
<1>8. QED
  BY <1>3, <1>6, <1>7, SessionLocal

\* A version that is adopted has its chunks here, or they are asked for from a
\* peer that has them.
LEMMA MergeEntrySession ==
  ASSUME IInv, SInv, NEW pr \in Proc, NEW e \in proc[pr].todo, MergeEntry(pr, e)
  PROVE  SInv'
<1>1. DEFINE es  == proc[pr].mem
             es2 == merge_remote(es, e)
             outcome == OutcomeOf(es, e)
             at == IF outcome = "CONFLICT_FORKED" THEN ConflictPath(e) ELSE e.path
             adopted == outcome \in {"APPLIED_REMOTE", "CONFLICT_FORKED"}
             needed2 == IF adopted THEN proc[pr].needed \cup Missing(pr, e) ELSE proc[pr].needed
             paths2 == IF adopted THEN Append(proc[pr].paths, at) ELSE proc[pr].paths
             r2 == [proc[pr] EXCEPT !.mem = es2, !.todo = @ \ {e},
                                    !.needed = needed2, !.paths = paths2]
<1>2. /\ proc[pr] \in ProcRec /\ FetchOK(proc[pr], DOMAIN blobs[Home(pr)]) /\ SessionOK(pr)
      /\ Home(pr) \in Node
  BY ProcFacts
<1>3. proc[pr].pc = "merging" /\ e \in FileEntry
  BY <1>2 DEF MergeEntry, ProcRec, Good
<1>4. IsStore(es)
  BY <1>2, StoreIsStore DEF ProcRec
<1>5. MergeStep(es, es2, e)
  BY <1>3, <1>4, MergeRemoteFacts
<1>6. proc' = [proc EXCEPT ![pr] = r2] /\ UNCHANGED <<link, chan>> /\ blobs' = blobs
  BY DEF MergeEntry, disk, IInv, Typed
<1>7. link[pr] # NoPeer
  BY <1>2, <1>3 DEF SessionOK, InSession, Sending
<1>8. WholeHashes(e) \subseteq DOMAIN blobs[Home(link[pr])]
  BY <1>2, <1>3, <1>7 DEF SessionOK
<1>9. HIDE DEF es2, paths2, at, outcome
<1>10. /\ proc[pr].needed \subseteq needed2
       /\ needed2 \ CutHashes \subseteq DOMAIN blobs[Home(link[pr])]
       /\ adopted => WholeHashes(e) \subseteq DOMAIN blobs[Home(pr)] \cup needed2
  BY <1>2, <1>7, <1>8 DEF Missing, has_chunk, SessionOK, WholeHashes
<1>11. HIDE DEF needed2
<1>12. /\ r2.pc = "merging" /\ r2.mem = es2 /\ r2.needed = needed2 /\ r2.todo = proc[pr].todo \ {e}
  BY <1>2, <1>3 DEF ProcRec
<1>13. HIDE DEF r2
<1>14. MayBecome(pr, r2)
  BY <1>2, <1>3, <1>7, <1>10, <1>12 DEF MayBecome, SessionOK, Early
<1>15. ASSUME NEW q \in DOMAIN es2
       PROVE  WholeHashes(es2[q]) \subseteq DOMAIN blobs[Home(pr)] \cup needed2
  <2>1. CASE q \in DOMAIN es /\ es2[q].chunk_hashes = es[q].chunk_hashes
    <3>1. WholeHashes(es2[q]) = WholeHashes(es[q])
      BY <2>1 DEF ChunksOf, WholeHashes
    <3>2. WholeHashes(es[q]) \subseteq DOMAIN blobs[Home(pr)] \cup proc[pr].needed
      BY <1>2, <1>3, <2>1 DEF FetchOK, Pending
    <3>3. QED
      BY <1>10, <3>1, <3>2
  <2>2. CASE adopted /\ es2[q].chunk_hashes = e.chunk_hashes
    BY <1>10, <2>2 DEF ChunksOf, WholeHashes
  <2>3. QED
    BY <1>5, <2>1, <2>2 DEF MergeStep, outcome
<1>16. FetchOK(r2, DOMAIN blobs'[Home(pr)])
  BY <1>6, <1>12, <1>15 DEF FetchOK, Pending
<1>17. QED
  BY <1>6, <1>14, <1>16, SessionLocal

\* send_frame adds one frame, at a peer that still holds the connection.
LEMMA SentFrames ==
  ASSUME Typed, NEW ch \in [Proc -> Seq(Frame)], NEW pr \in Proc, NEW f \in Frame,
         NEW q \in Proc, NEW i \in DOMAIN send_frame(ch, pr, f)[q]
  PROVE  \/ i \in DOMAIN ch[q] /\ send_frame(ch, pr, f)[q][i] = ch[q][i]
         \/ q = link[pr] /\ link[q] = pr /\ send_frame(ch, pr, f)[q][i] = f
<1>1. CASE ~ Connected(pr) \/ q # link[pr]
  BY <1>1 DEF send_frame
<1>2. CASE Connected(pr) /\ q = link[pr]
  <2>1. send_frame(ch, pr, f)[q] = Append(ch[q], f)
    BY <1>2 DEF send_frame
  <2>2. ch[q] \in Seq(Frame)
    OBVIOUS
  <2>3. i \in 1 .. Len(ch[q]) + 1 /\ Len(ch[q]) \in Nat /\ DOMAIN ch[q] = 1 .. Len(ch[q])
    BY <2>1, <2>2
  <2>4. CASE i = Len(ch[q]) + 1
    BY <1>2, <2>1, <2>2, <2>4 DEF Connected
  <2>5. CASE i \in 1 .. Len(ch[q])
    BY <2>1, <2>2, <2>3, <2>5
  <2>6. QED
    BY <2>3, <2>4, <2>5
<1>3. QED
  BY <1>1, <1>2

\* Taking a frame off the queue leaves frames that were there.
LEMMA ReceivedFrames ==
  ASSUME Typed, NEW pr \in Proc, chan[pr] # <<>>, NEW q \in Proc, NEW i \in DOMAIN Received(pr)[q]
  PROVE  \E j \in DOMAIN chan[q] : Received(pr)[q][i] = chan[q][j]
<1>1. chan \in [Proc -> Seq(Frame)]
  BY DEF Typed
<1>2. CASE q # pr
  BY <1>1, <1>2 DEF Received
<1>3. CASE q = pr
  <2>1. Received(pr)[q] = Tail(chan[q]) /\ chan[q] \in Seq(Frame) /\ chan[q] # <<>>
    BY <1>1, <1>3 DEF Received
  <2>2. i + 1 \in DOMAIN chan[q] /\ Tail(chan[q])[i] = chan[q][i + 1]
    BY <2>1
  <2>3. QED
    BY <2>1, <2>2
<1>4. QED
  BY <1>2, <1>3

\* The first frame of a queue is one of its frames.
LEMMA FirstFrame ==
  ASSUME Typed, NEW pr \in Proc, chan[pr] # <<>>
  PROVE  \E j \in DOMAIN chan[pr] : Head(chan[pr]) = chan[pr][j]
<1>1. chan[pr] \in Seq(Frame)
  BY DEF Typed
<1>2. 1 \in DOMAIN chan[pr] /\ Head(chan[pr]) = chan[pr][1]
  BY <1>1
<1>3. QED
  BY <1>2

\* A manifest is made while every version in memory is backed.
LEMMA SendManifestSession ==
  ASSUME IInv, SInv, NEW pr \in Proc, SendManifest(pr)
  PROVE  SInv'
<1>1. DEFINE r2 == [proc[pr] EXCEPT !.pc = "recvManifest"]
             f  == [type |-> "MANIFEST", entries |-> serialize_manifest(pr)]
<1>2. /\ proc[pr] \in ProcRec /\ ProcOK(proc[pr], DOMAIN blobs[Home(pr)]) /\ SessionOK(pr)
      /\ FetchOK(proc[pr], DOMAIN blobs[Home(pr)])
  BY ProcFacts
<1>3. /\ proc[pr].pc = "sendManifest" /\ blobs' = blobs /\ UNCHANGED link
      /\ proc' = [proc EXCEPT ![pr] = r2] /\ chan' = send_frame(chan, pr, f)
  BY DEF SendManifest, disk, IInv, Typed
<1>4. link[pr] # NoPeer
  BY <1>2, <1>3 DEF SessionOK, InSession, Sending
<1>5. r2.pc = "recvManifest" /\ r2.mem = proc[pr].mem /\ r2.needed = proc[pr].needed
  BY <1>2 DEF ProcRec
<1>6. f \in Frame
  BY <1>2, StoreIsStore DEF serialize_manifest, Frame, ProcRec
<1>7. \A e \in f.entries : WholeHashes(e) \subseteq DOMAIN blobs[Home(pr)]
  BY <1>2, <1>3, SettledIsBacked DEF Unsettled, serialize_manifest, all_entries
<1>8. f.type = "MANIFEST"
  OBVIOUS
<1>9. HIDE DEF r2, f
<1>10. MaySend(pr, r2, f)
  BY <1>7, <1>8 DEF MaySend, Carries, Answers, AskedBy
<1>11. MayBecome(pr, r2)
  BY <1>2, <1>3, <1>4, <1>5 DEF MayBecome, SessionOK, Early
<1>12. FetchOK(r2, DOMAIN blobs'[Home(pr)])
  BY <1>2, <1>3, <1>5 DEF FetchOK, Pending
<1>13. ASSUME NEW q \in Proc, NEW i \in DOMAIN chan'[q]
       PROVE  \/ \E j \in DOMAIN chan[q] : chan'[q][i] = chan[q][j]
              \/ q = link[pr] /\ link[q] = pr /\ MaySend(pr, r2, chan'[q][i])
  <2>1. Typed /\ chan \in [Proc -> Seq(Frame)]
    BY DEF IInv, Typed
  <2>2. \/ i \in DOMAIN chan[q] /\ chan'[q][i] = chan[q][i]
        \/ q = link[pr] /\ link[q] = pr /\ chan'[q][i] = f
    BY <1>3, <1>6, <2>1, SentFrames
  <2>3. QED
    BY <1>10, <2>2
<1>14. QED
  BY <1>3, <1>11, <1>12, <1>13, SessionMove

LEMMA SendRequestSession ==
  ASSUME IInv, SInv, NEW pr \in Proc, SendRequest(pr)
  PROVE  SInv'
<1>1. DEFINE r2 == [proc[pr] EXCEPT !.pc = "recvRequest"]
             f  == [type |-> "CHUNK_REQUEST", hashes |-> proc[pr].needed]
<1>2. /\ proc[pr] \in ProcRec /\ SessionOK(pr) /\ FetchOK(proc[pr], DOMAIN blobs[Home(pr)])
  BY ProcFacts
<1>3. /\ proc[pr].pc = "merging" /\ blobs' = blobs /\ UNCHANGED link
      /\ proc' = [proc EXCEPT ![pr] = r2] /\ chan' = send_frame(chan, pr, f)
  BY DEF SendRequest, disk, IInv, Typed
<1>4. link[pr] # NoPeer
  BY <1>2, <1>3 DEF SessionOK, InSession, Sending
<1>5. r2.pc = "recvRequest" /\ r2.mem = proc[pr].mem /\ r2.needed = proc[pr].needed
  BY <1>2 DEF ProcRec
<1>6. f \in Frame
  BY <1>2 DEF Frame, ProcRec
<1>7. f.type = "CHUNK_REQUEST" /\ f.hashes = proc[pr].needed
  OBVIOUS
<1>8. HIDE DEF r2, f
<1>9. MaySend(pr, r2, f)
  BY <1>2, <1>4, <1>5, <1>7 DEF MaySend, Carries, Answers, AskedBy, SessionOK, Early
<1>10. MayBecome(pr, r2)
  BY <1>2, <1>3, <1>4, <1>5 DEF MayBecome, SessionOK, Early
<1>11. FetchOK(r2, DOMAIN blobs'[Home(pr)])
  BY <1>2, <1>3, <1>5 DEF FetchOK, Pending
<1>12. ASSUME NEW q \in Proc, NEW i \in DOMAIN chan'[q]
       PROVE  \/ \E j \in DOMAIN chan[q] : chan'[q][i] = chan[q][j]
              \/ q = link[pr] /\ link[q] = pr /\ MaySend(pr, r2, chan'[q][i])
  <2>1. Typed /\ chan \in [Proc -> Seq(Frame)]
    BY DEF IInv, Typed
  <2>2. \/ i \in DOMAIN chan[q] /\ chan'[q][i] = chan[q][i]
        \/ q = link[pr] /\ link[q] = pr /\ chan'[q][i] = f
    BY <1>3, <1>6, <2>1, SentFrames
  <2>3. QED
    BY <1>9, <2>2
<1>13. QED
  BY <1>3, <1>10, <1>11, <1>12, SessionMove

LEMMA SendDoneSession ==
  ASSUME IInv, SInv, NEW pr \in Proc, SendDone(pr)
  PROVE  SInv'
<1>1. DEFINE r2 == [proc[pr] EXCEPT !.pc = "recvDone"]
             f  == [type |-> "DONE"]
<1>2. /\ proc[pr] \in ProcRec /\ SessionOK(pr) /\ FetchOK(proc[pr], DOMAIN blobs[Home(pr)])
  BY ProcFacts
<1>3. /\ proc[pr].pc = "sendDone" /\ blobs' = blobs /\ UNCHANGED link
      /\ proc' = [proc EXCEPT ![pr] = r2] /\ chan' = send_frame(chan, pr, f)
  BY DEF SendDone, disk, IInv, Typed
<1>4. link[pr] # NoPeer
  BY <1>2, <1>3 DEF SessionOK, InSession, Sending
<1>5. r2.pc = "recvDone" /\ r2.mem = proc[pr].mem /\ r2.needed = proc[pr].needed
  BY <1>2 DEF ProcRec
<1>6. f \in Frame /\ f.type = "DONE"
  BY DEF Frame
<1>7. HIDE DEF r2, f
<1>8. MaySend(pr, r2, f)
  BY <1>6 DEF MaySend, Carries, Answers, AskedBy
<1>9. MayBecome(pr, r2)
  BY <1>4, <1>5, LateMove DEF Early
<1>10. FetchOK(r2, DOMAIN blobs'[Home(pr)])
  BY <1>2, <1>3, <1>5 DEF FetchOK, Pending
<1>11. ASSUME NEW q \in Proc, NEW i \in DOMAIN chan'[q]
       PROVE  \/ \E j \in DOMAIN chan[q] : chan'[q][i] = chan[q][j]
              \/ q = link[pr] /\ link[q] = pr /\ MaySend(pr, r2, chan'[q][i])
  <2>1. Typed /\ chan \in [Proc -> Seq(Frame)]
    BY DEF IInv, Typed
  <2>2. \/ i \in DOMAIN chan[q] /\ chan'[q][i] = chan[q][i]
        \/ q = link[pr] /\ link[q] = pr /\ chan'[q][i] = f
    BY <1>3, <1>6, <2>1, SentFrames
  <2>3. QED
    BY <1>8, <2>2
<1>12. QED
  BY <1>3, <1>9, <1>10, <1>11, SessionMove

LEMMA RecvManifestSession ==
  ASSUME IInv, SInv, NEW pr \in Proc, RecvManifest(pr)
  PROVE  SInv'
<1>1. DEFINE r2 == [proc[pr] EXCEPT !.pc = "merging", !.todo = Head(chan[pr]).entries]
<1>2. /\ proc[pr] \in ProcRec /\ SessionOK(pr) /\ ProcOK(proc[pr], DOMAIN blobs[Home(pr)])
  BY ProcFacts
<1>3. /\ proc[pr].pc = "recvManifest" /\ blobs' = blobs /\ UNCHANGED link
      /\ proc' = [proc EXCEPT ![pr] = r2] /\ chan' = Received(pr)
      /\ chan[pr] # <<>> /\ Head(chan[pr]).type = "MANIFEST"
  BY DEF RecvManifest, Arrived, Expected, disk, IInv, Typed
<1>4. link[pr] # NoPeer
  BY <1>2, <1>3 DEF SessionOK, InSession, Receiving
<1>5. \A e \in Head(chan[pr]).entries : WholeHashes(e) \subseteq DOMAIN blobs[Home(link[pr])]
  BY <1>2, <1>3, <1>4, FirstFrame DEF IInv, SessionOK, Carries
<1>6. /\ r2.pc = "merging" /\ r2.mem = proc[pr].mem /\ r2.needed = proc[pr].needed
      /\ r2.todo = Head(chan[pr]).entries
  BY <1>2 DEF ProcRec
<1>7. HIDE DEF r2
<1>8. MayBecome(pr, r2)
  BY <1>2, <1>3, <1>4, <1>5, <1>6 DEF MayBecome, SessionOK, Early
<1>9. FetchOK(r2, DOMAIN blobs'[Home(pr)])
  BY <1>2, <1>3, <1>6, SettledIsBacked DEF FetchOK, Unsettled
<1>10. ASSUME NEW q \in Proc, NEW i \in DOMAIN chan'[q]
       PROVE  \/ \E j \in DOMAIN chan[q] : chan'[q][i] = chan[q][j]
              \/ q = link[pr] /\ link[q] = pr /\ MaySend(pr, r2, chan'[q][i])
  BY <1>3, ReceivedFrames DEF IInv
<1>11. QED
  BY <1>3, <1>8, <1>9, <1>10, SessionMove

\* The chunks that arrive are at least those that were asked for.
LEMMA RecvDataSession ==
  ASSUME IInv, SInv, NEW pr \in Proc, RecvData(pr)
  PROVE  SInv'
<1>1. DEFINE r2 == [proc[pr] EXCEPT !.pc = "fetching", !.incoming = Head(chan[pr]).chunks]
<1>2. /\ proc[pr] \in ProcRec /\ SessionOK(pr) /\ FetchOK(proc[pr], DOMAIN blobs[Home(pr)])
  BY ProcFacts
<1>3. /\ proc[pr].pc = "recvData" /\ blobs' = blobs /\ UNCHANGED link
      /\ proc' = [proc EXCEPT ![pr] = r2] /\ chan' = Received(pr)
      /\ chan[pr] # <<>> /\ Head(chan[pr]).type = "CHUNK_DATA"
  BY DEF RecvData, Arrived, Expected, disk, IInv, Typed
<1>4. link[pr] # NoPeer
  BY <1>2, <1>3 DEF SessionOK, InSession, Receiving
<1>5. proc[pr].needed \ CutHashes \subseteq DOMAIN Head(chan[pr]).chunks
  BY <1>2, <1>3, <1>4, FirstFrame DEF IInv, SessionOK, Answers
<1>6. /\ r2.pc = "fetching" /\ r2.mem = proc[pr].mem /\ r2.needed = proc[pr].needed
      /\ r2.incoming = Head(chan[pr]).chunks
  BY <1>2 DEF ProcRec
<1>7. HIDE DEF r2
<1>8. MayBecome(pr, r2)
  BY <1>4, <1>6, LateMove DEF Early
<1>9. FetchOK(r2, DOMAIN blobs'[Home(pr)])
  BY <1>2, <1>3, <1>5, <1>6 DEF FetchOK, Pending, WholeHashes
<1>10. ASSUME NEW q \in Proc, NEW i \in DOMAIN chan'[q]
       PROVE  \/ \E j \in DOMAIN chan[q] : chan'[q][i] = chan[q][j]
              \/ q = link[pr] /\ link[q] = pr /\ MaySend(pr, r2, chan'[q][i])
  BY <1>3, ReceivedFrames DEF IInv
<1>11. QED
  BY <1>3, <1>8, <1>9, <1>10, SessionMove

\* "shouldn't happen; skip defensively": nothing is skipped, so the answer
\* covers the request, and the peer that gets it is still waiting for just that.
LEMMA ServeRequestSession ==
  ASSUME IInv, SInv, NEW pr \in Proc, ServeRequest(pr)
  PROVE  SInv'
<1>1. DEFINE asked == Head(chan[pr]).hashes
             r2 == [proc[pr] EXCEPT !.pc = "recvData"]
             f  == [type |-> "CHUNK_DATA", chunks |-> Serve(blobs[Home(pr)], asked)]
<1>2. /\ proc[pr] \in ProcRec /\ SessionOK(pr) /\ FetchOK(proc[pr], DOMAIN blobs[Home(pr)])
      /\ Home(pr) \in Node
  BY ProcFacts
<1>3. /\ proc[pr].pc = "recvRequest" /\ blobs' = blobs /\ UNCHANGED link
      /\ proc' = [proc EXCEPT ![pr] = r2] /\ chan' = send_frame(Received(pr), pr, f)
      /\ chan[pr] # <<>> /\ Head(chan[pr]).type = "CHUNK_REQUEST"
  BY DEF ServeRequest, Arrived, Expected, disk, IInv, Typed
<1>4. link[pr] # NoPeer
  BY <1>2, <1>3 DEF SessionOK, InSession, Receiving
<1>5. /\ asked \ CutHashes \subseteq DOMAIN blobs[Home(pr)]
      /\ link[link[pr]] = pr => proc[link[pr]].needed = asked /\ proc[link[pr]].pc \notin Early
  BY <1>2, <1>3, <1>4, FirstFrame DEF IInv, SessionOK, Carries, AskedBy
<1>6. r2.pc = "recvData" /\ r2.mem = proc[pr].mem /\ r2.needed = proc[pr].needed
  BY <1>2 DEF ProcRec
<1>7. f \in Frame
  <2>1. Serve(blobs[Home(pr)], asked) \in ChunkMap
    BY <1>2, ServeType DEF IInv, Typed
  <2>2. QED
    BY <2>1 DEF Frame
<1>8. f.type = "CHUNK_DATA" /\ asked \ CutHashes \subseteq DOMAIN f.chunks
  BY <1>5 DEF Serve, has_chunk
<1>9. HIDE DEF r2, f, asked
<1>10. link[link[pr]] = pr => MaySend(pr, r2, f)
  BY <1>5, <1>8 DEF MaySend, Carries, Answers, AskedBy
<1>11. MayBecome(pr, r2)
  BY <1>4, <1>6, LateMove DEF Early
<1>12. FetchOK(r2, DOMAIN blobs'[Home(pr)])
  BY <1>2, <1>3, <1>6 DEF FetchOK, Pending
<1>13. Received(pr) \in [Proc -> Seq(Frame)]
  BY HeadFrame DEF ServeRequest, IInv, Expected
<1>14. ASSUME NEW q \in Proc, NEW i \in DOMAIN chan'[q]
       PROVE  \/ \E j \in DOMAIN chan[q] : chan'[q][i] = chan[q][j]
              \/ q = link[pr] /\ link[q] = pr /\ MaySend(pr, r2, chan'[q][i])
  <2>1. \/ i \in DOMAIN Received(pr)[q] /\ chan'[q][i] = Received(pr)[q][i]
        \/ q = link[pr] /\ link[q] = pr /\ chan'[q][i] = f
    BY <1>3, <1>7, <1>13, SentFrames DEF IInv
  <2>2. CASE i \in DOMAIN Received(pr)[q] /\ chan'[q][i] = Received(pr)[q][i]
    BY <1>3, <2>2, ReceivedFrames DEF IInv
  <2>3. CASE q = link[pr] /\ link[q] = pr /\ chan'[q][i] = f
    BY <1>10, <2>3
  <2>4. QED
    BY <2>1, <2>2, <2>3
<1>15. QED
  BY <1>3, <1>11, <1>12, <1>14, SessionMove

\* A connection that ends takes frames away and brings none.
LEMMA CutFrames ==
  ASSUME Typed, NEW pr \in Proc, NEW ch \in Cut(pr), NEW q \in Proc, NEW i \in DOMAIN ch[q]
  PROVE  i \in DOMAIN chan[q] /\ ch[q][i] = chan[q][i]
<1>1. DEFINE kept == [chan EXCEPT ![pr] = <<>>]
<1>2. chan \in [Proc -> Seq(Frame)]
  BY DEF Typed
<1>3. kept[q] = IF q = pr THEN <<>> ELSE chan[q]
  BY <1>2
<1>4. ch = kept \/ ch = [kept EXCEPT ![link[pr]] = <<>>]
  BY DEF Cut
<1>5. ch[q] = <<>> \/ ch[q] = chan[q]
  BY <1>2, <1>3, <1>4
<1>6. ch[q] # <<>>
  OBVIOUS
<1>7. QED
  BY <1>5, <1>6

\* StopListening, RecvDone, Fail and Crash only end a process.
LEMMA EndSession ==
  ASSUME IInv, SInv, NEW pr \in Proc,
         StopListening(pr) \/ RecvDone(pr) \/ Fail(pr) \/ Crash(pr)
  PROVE  SInv'
<1>1. Exit(pr) /\ blobs' = blobs
  BY DEF StopListening, RecvDone, Fail, Crash, disk
<1>2. ASSUME NEW q \in Proc, NEW i \in DOMAIN chan'[q]
      PROVE  \E j \in DOMAIN chan[q] : chan'[q][i] = chan[q][j]
  <2>1. CASE StopListening(pr) \/ Fail(pr)
    BY <2>1 DEF StopListening, Fail
  <2>2. CASE RecvDone(pr)
    <3>1. chan' = Received(pr) /\ chan[pr] # <<>>
      BY <2>2 DEF RecvDone, Arrived
    <3>2. QED
      BY <3>1, ReceivedFrames DEF IInv
  <2>3. CASE Crash(pr)
    BY <2>3, CutFrames DEF Crash, IInv
  <2>4. QED
    BY <2>1, <2>2, <2>3
<1>3. QED
  BY <1>1, <1>2, SessionExit

LEMMA CrashInPutChunkSession ==
  ASSUME IInv, SInv, NEW pr \in Proc, NEW h \in DOMAIN proc[pr].incoming, CrashInPutChunk(pr, h)
  PROVE  SInv'
<1>1. h \in Chunk
  BY ChunkMapFacts DEF IInv, Typed, ProcRec
<1>2. \A n \in Node : DOMAIN blobs[n] \subseteq DOMAIN blobs'[n]
  BY <1>1, BlobAdded DEF CrashInPutChunk
<1>3. ASSUME NEW q \in Proc, NEW i \in DOMAIN chan'[q]
      PROVE  \E j \in DOMAIN chan[q] : chan'[q][i] = chan[q][j]
  BY CutFrames DEF CrashInPutChunk, IInv
<1>4. Exit(pr)
  BY DEF CrashInPutChunk
<1>5. QED
  BY <1>2, <1>3, <1>4, SessionExit

LEMMA CrashInLineSession ==
  ASSUME IInv, SInv, NEW pr \in Proc, NEW e \in proc[pr].todo, CrashInLine(pr, e)
  PROVE  SInv'
<1>1. Exit(pr) /\ blobs' = blobs
  BY DEF CrashInLine
<1>2. ASSUME NEW q \in Proc, NEW i \in DOMAIN chan'[q]
      PROVE  \E j \in DOMAIN chan[q] : chan'[q][i] = chan[q][j]
  BY CutFrames DEF CrashInLine, IInv
<1>3. QED
  BY <1>1, <1>2, SessionExit

\* A connection starts with no frame under way and nothing asked for.
LEMMA SyncWithSession ==
  ASSUME IInv, SInv, NEW pr \in Proc, NEW qr \in Proc, SyncWith(pr, qr)
  PROVE  SInv'
<1>1. DEFINE r2 == [Loaded(pr) EXCEPT !.pc = "sendManifest"]
             l2 == [proc[qr] EXCEPT !.pc = "sendManifest"]
<1>2. /\ Loaded(pr) \in ProcRec /\ ProcOK(Loaded(pr), DOMAIN blobs[Home(pr)])
      /\ Loaded(pr).needed = {} /\ Loaded(pr).pc = "idle"
  BY LoadedType, LoadedOK DEF IInv, Loaded, Exited
<1>3. /\ proc[qr] \in ProcRec /\ FetchOK(proc[qr], DOMAIN blobs[Home(qr)])
      /\ SessionOK(pr) /\ SessionOK(qr)
      /\ proc \in [Proc -> ProcRec] /\ link \in [Proc -> Proc \cup {NoPeer}]
      /\ chan \in [Proc -> Seq(Frame)] /\ NoPeer \notin Proc
  BY ProcFacts, SyncNodeAssumption DEF IInv, Typed
<1>4. proc[pr].pc = "idle" /\ proc[qr].pc = "listening" /\ pr # qr
  BY DEF SyncWith
<1>5. link[pr] = NoPeer /\ link[qr] = NoPeer
  BY <1>3, <1>4 DEF SessionOK
<1>6. \A q \in Proc : proc'[q] = IF q = pr THEN r2 ELSE IF q = qr THEN l2 ELSE proc[q]
  BY <1>3, <1>4 DEF SyncWith
<1>7. \A q \in Proc : link'[q] = IF q = pr THEN qr ELSE IF q = qr THEN pr ELSE link[q]
  BY <1>3, <1>4 DEF SyncWith
<1>8. \A q \in Proc : chan'[q] = IF q \in {pr, qr} THEN <<>> ELSE chan[q]
  <2>1. DEFINE kept == [chan EXCEPT ![pr] = <<>>]
  <2>2. chan' = [kept EXCEPT ![qr] = <<>>]
    BY DEF SyncWith
  <2>3. DOMAIN kept = Proc /\ \A q \in Proc : kept[q] = IF q = pr THEN <<>> ELSE chan[q]
    BY <1>3
  <2>4. HIDE DEF kept
  <2>5. QED
    BY <2>2, <2>3
<1>9. blobs' = blobs
  BY DEF SyncWith, disk
<1>10. r2.pc = "sendManifest" /\ r2.mem = Loaded(pr).mem /\ r2.needed = {}
  BY <1>2 DEF ProcRec
<1>11. l2.pc = "sendManifest" /\ l2.mem = proc[qr].mem /\ l2.needed = {}
  BY <1>3, <1>4 DEF ProcRec, FetchOK
<1>12. HIDE DEF r2, l2
<1>13. FetchOK(r2, DOMAIN blobs[Home(pr)])
  BY <1>2, <1>10, SettledIsBacked DEF FetchOK, Unsettled
<1>14. FetchOK(l2, DOMAIN blobs[Home(qr)])
  BY <1>3, <1>4, <1>11 DEF FetchOK, Pending
<1>15. ASSUME NEW q \in Proc
       PROVE  FetchOK(proc'[q], DOMAIN blobs'[Home(q)])
  BY <1>6, <1>9, <1>13, <1>14 DEF SInv
<1>16. ASSUME NEW q \in Proc
       PROVE  SessionOK(q)'
  <2>1. CASE q \in {pr, qr}
    <3>1. /\ proc'[q].pc = "sendManifest" /\ proc'[q].needed = {} /\ chan'[q] = <<>>
          /\ link'[q] # NoPeer /\ link'[q] # q
      BY <1>3, <1>4, <1>6, <1>7, <1>8, <1>10, <1>11, <2>1
    <3>2. QED
      BY <3>1 DEF SessionOK
  <2>2. CASE q \notin {pr, qr}
    <3>1. proc'[q] = proc[q] /\ link'[q] = link[q] /\ chan'[q] = chan[q]
      BY <1>6, <1>7, <1>8, <2>2
    <3>2. ASSUME link[q] # NoPeer, link'[link[q]] = q
          PROVE  link[link[q]] = q /\ proc'[link[q]] = proc[link[q]]
      BY <1>3, <1>6, <1>7, <2>2, <3>2
    <3>3. SessionOK(q)
      BY DEF SInv
    <3>4. QED
      BY <1>9, <3>1, <3>2, <3>3 DEF SessionOK, Home
  <2>3. QED
    BY <2>1, <2>2
<1>17. QED
  BY <1>15, <1>16 DEF SInv, Home

-----------------------------------------------------------------------------

LEMMA SInvInit == Init => SInv
<1>1. SUFFICES ASSUME Init, NEW pr \in Proc
               PROVE  SessionOK(pr) /\ FetchOK(proc[pr], DOMAIN blobs[Home(pr)])
  BY DEF SInv
<1>2. proc[pr] = Exited /\ link[pr] = NoPeer
  BY <1>1 DEF Init
<1>3. Exited.pc = "idle" /\ Exited.mem = EmptyStore
  BY DEF Exited
<1>4. SessionOK(pr)
  BY <1>2, <1>3 DEF SessionOK, InSession, Sending, Receiving
<1>5. FetchOK(proc[pr], DOMAIN blobs[Home(pr)])
  BY <1>2, <1>3, EmptyStoreType DEF FetchOK
<1>6. QED
  BY <1>4, <1>5

LEMMA SInvStep ==
  ASSUME IInv, SInv, [Next]_vars
  PROVE  SInv'
<1>1. CASE UNCHANGED vars
  BY <1>1 DEF vars, SInv, SessionOK, Home
<1>2. ASSUME NEW pr \in Proc, Command(pr)
      PROVE  SInv'
  BY <1>2, StartAddSession, StartRmSession, StartListenSession, EndSession, SyncWithSession
     DEF Command
<1>3. ASSUME NEW pr \in Proc, Step(pr)
      PROVE  SInv'
  BY <1>3, StoreChunkSession, PutLocalSession, MaterializeSession, AllMaterializedSession,
     OpenJournalSession, WriteLineSession, CloseJournalSession, SendManifestSession,
     RecvManifestSession, MergeEntrySession, SendRequestSession, ServeRequestSession,
     RecvDataSession, AllFetchedSession, SendDoneSession, EndSession DEF Step
<1>4. ASSUME NEW pr \in Proc, Killed(pr)
      PROVE  SInv'
  BY <1>4, EndSession, CrashInPutChunkSession, CrashInLineSession DEF Killed
<1>5. QED
  BY <1>1, <1>2, <1>3, <1>4 DEF Next

LEMMA SInvIsServable ==
  ASSUME IInv, SInv
  PROVE  RequestsServable
<1>1. SUFFICES ASSUME NEW pr \in Proc, proc[pr].pc = "recvRequest", Arrived(pr, "recvRequest")
               PROVE  Head(chan[pr]).hashes \ CutHashes \subseteq DOMAIN blobs[Home(pr)]
  BY DEF RequestsServable
<1>2. SessionOK(pr) /\ link[pr] # NoPeer
  BY <1>1, ProcFacts DEF SessionOK, InSession, Receiving
<1>3. chan[pr] # <<>> /\ Head(chan[pr]).type = "CHUNK_REQUEST"
  BY <1>1 DEF Arrived, Expected
<1>4. QED
  BY <1>2, <1>3, FirstFrame DEF IInv, SessionOK, Carries

LEMMA SInvHasChunks ==
  ASSUME IInv, SInv
  PROVE  NoMissingChunk
<1>1. SUFFICES ASSUME NEW pr \in Proc, proc[pr].pc = "materializing"
               PROVE  \A p \in DOMAIN proc[pr].mem :
                        WholeHashes(proc[pr].mem[p]) \subseteq DOMAIN blobs[Home(pr)]
  BY DEF NoMissingChunk
<1>2. QED
  BY <1>1, ProcFacts DEF FetchOK, Pending

\* The branch of run_sync_session that skips a chunk it does not have is taken
\* for no hash but one that was cut short in a journal, and for none at all when
\* no process is killed in save_journal: for any number of processes on any
\* number of nodes, killed anywhere and reconnected in any way.
THEOREM RequestsServableHolds == Spec => []RequestsServable
<1>1. Init => IInv /\ SInv
  BY IInvInit, SInvInit
<1>2. (IInv /\ SInv) /\ [Next]_vars => (IInv /\ SInv)'
  BY IInvStep, SInvStep
<1>3. IInv /\ SInv => RequestsServable
  BY SInvIsServable
<1>4. QED
  BY <1>1, <1>2, <1>3, PTL DEF Spec

\* reassemble throws its "missing chunk" in materialize, in an add command or at
\* the end of a session, for no hash but one that was cut short in a journal, and
\* for none at all when no process is killed in save_journal.
THEOREM NoMissingChunkHolds == Spec => []NoMissingChunk
<1>1. Init => IInv /\ SInv
  BY IInvInit, SInvInit
<1>2. (IInv /\ SInv) /\ [Next]_vars => (IInv /\ SInv)'
  BY IInvStep, SInvStep
<1>3. IInv /\ SInv => NoMissingChunk
  BY SInvHasChunks
<1>4. QED
  BY <1>1, <1>2, <1>3, PTL DEF Spec
=============================================================================
