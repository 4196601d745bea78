# A TLA+ model of p2p-sync-engine

The program keeps a set of files on several machines ("nodes") in step without
a server. Each invocation of `syncnode` loads the node's metadata from disk,
runs one command (`add`, `rm`, `list`, `listen`, `sync`) and exits; two
invocations that reach each other run one symmetric sync session.

## 1. The system

| Component | State | Operations | Talks to |
|---|---|---|---|
| `VectorClock` | a counter per node | `increment`, `merge`, `compare` | used by `CrdtStore` |
| `CrdtStore` | `entries_`: path -> `FileEntry` (chunk hashes, clock, last writer, tombstone) | `put_local`, `delete_local`, `merge_remote`, `load_entry`, `all_entries` | `SyncEngine`, sessions |
| `FileStore` | chunk files named by hash; materialized files | `put_chunk`, `has_chunk`, `get_chunk`, `reassemble`, `materialize` | disk, shared by all processes of a node |
| `SyncEngine` | a `CrdtStore`, the journal `store.meta` | `load_journal`, `save_journal`, `ingest_file`, `delete_file`, `materialize` | the above |
| session (`run_sync_session`) | entries to merge, chunks needed, paths to write out | manifests, merge, request, data, materialize, save, done | the peer, over TCP |
| `TcpSocket` | a connection | `connect_to`, `accept_once`, `send_frame`, `recv_frame` | the peer |
| `Node`, `main` | one `SyncEngine` | the commands | the user |
| `Chunker`, `RollingHash` | position and hash within a file | `chunk`, `roll` | `SyncEngine` |
| `MerkleTree` | a tree of digests | `build`, `diff_leaf_indices` | `SyncEngine` (the root only) |
| entry codec | none | entry <-> line of text | journal and manifest |
| `sha256` | none | digest, combine | everything |

What is hard here: entries travel along several peers and arrive late,
repeatedly and out of order, and every merge decides by vector clock alone
what to keep; a process can be killed between any two writes to disk, also in
the middle of a line, and the peer goes on; a listener holds state it loaded
long ago; several processes of one node share its directory without locks;
what one side records must be backed by chunks that arrive later in the same
session; sockets split and join frames as they like, and both sides send before
they receive; text formats have no escapes; padding, cuts and tree shapes have
their corner cases at the edges of blocks and sizes.

What makes it correct: clocks mean what they say (`NoPhantomEdits`,
`FreshEditIsNews`), merging never goes back and never loses
(`NoRollback`, `NoSilentLoss`, `QuiescentHoldAll`, `Converged`), it ends
(`SyncQuiesces`, `SessionEnds`), a session is atomic on each side
(`SessionsAtomic`) and leaves both having seen the same (`SeenAlike`,
`SessionAgreement`), a recorded version can be produced
(`EveryVersionBacked`, `NoMissingChunk`, `FilesMatchJournal`), what was recorded
stays (`PublishedIsDurable`, `JournalNeverForgets`), what is written is what is
read (`RoundTrip`, `FramesIntact`), and a journal cut short yields no more than
a part of it (`CutYieldsPart`), copies for different writers have different names
(`NamesDistinct`), files are cut into chunks that give back the file (`Tiling`),
versions of a file are cut alike from a cut they share (`SharedCutResyncs`), and
hashes, trees and the report tell changed files and chunks from unchanged ones
(`RootDecides`, `DiffExact`, `ReportTellsChange`).

## 2. Modules

    VectorClock <- CrdtStore <- Replicas <- MCReplicas
                       ^           ^-- ReplicasProofs
                       |-- CrdtStoreProofs
                       |-- ManifestMerge <- AtomicSync
                       |                        ^ (INSTANCE)
    FileStore <--- SyncNode <- SyncNodeRefinement <- MCSyncNode -> PathNames
                       |              ^-- SessionProofs                ^
                       |                      v                        |
                       ^-- SyncNodeProofs <- DurableProofs             |
                                        MCPayloads -> Payloads --------'
    Transport <- MCTransport                             '----> EntryCodec
        ^-- TransportProofs -> BoundedInduction
                                       ^
                 .-- IngestProofs -----'
                 v
    Chunker <- Ingest <- MCIngest        MerkleTree, Sha256 <- Ingest (INSTANCE)

* **VectorClock** - the class, as operators. A clock is a total function on
  `Node`; an absent key is 0, as `get` reads it. Counters are natural numbers:
  a 64-bit counter of edits does not overflow.
* **CrdtStore** - `entries_` and its operations as operators from a store to a
  store. A path is a sequence: the user's name followed by the nodes whose
  `.conflict-<node>` was inserted. `merkle_root` and `size` are left out, since
  nothing reads them back to decide anything.
* **Replicas** - stores of several nodes. `Put` and `Delete` are local edits,
  `Merge` is one call of `merge_remote` with any entry that any node ever held
  (`wire`). This covers every order, delay, duplication and loss of manifests,
  and every relay through third nodes. `written` and `superseded` are history
  variables: what users put in, and what users replaced or removed knowingly.
* **FileStore** - chunk files and materialized files of a node. A chunk's bytes
  are written as its hash; `Torn` is a chunk file cut short.
* **SyncNode** - processes, disks and connections. `proc[pr].pc` is the place in
  the code; the table gives the actions.

  | Action | Code |
  |---|---|
  | `StartAdd`, `StoreChunk`, `PutLocal` | `Node::add_file`, `SyncEngine::ingest_file` |
  | `StartRm` | `SyncEngine::delete_file` |
  | `Materialize`, `AllMaterialized` | `SyncEngine::materialize`, the loop over `materialize_paths` |
  | `OpenJournal`, `WriteLine`, `CloseJournal` | `save_journal`: truncate, write, close |
  | `StartListen`, `StopListening`, `SyncWith` | `listen_and_sync`, `sync_with`, `accept_once`, `connect_to` |
  | `SendManifest` ... `RecvDone` | `run_sync_session`, step by step |
  | `Fail` | exceptions of `send_frame` and `recv_frame`, an unexpected frame, a last `recv_frame` without DONE |
  | `Crash`, `CrashInPutChunk`, `CrashInLine` | the process is killed: between two steps, half-way through a chunk file, half-way through a line of the journal |

* **AtomicSync** - what sessions promise, without processes, frames or disks:
  `Edit` changes a node's store, `Meet` takes a snapshot of two stores, and each
  side then installs the merge of the snapshots (`Install`) or does not
  (`Abandon`). **ManifestMerge** has the merge loop of a session as one operation.
* **SyncNodeRefinement** - the mapping from SyncNode to AtomicSync. The store of a
  node is its journal or, while the journal is rewritten, the memory of the
  process that writes it; what a session will install is computed from its
  memory and the part of the manifest it has not merged yet, wherever that is:
  in the process, under way, or still with the peer.
* **PathNames** - names as tokens (dots, slashes, words, `conflict-<node>`):
  `make_conflict_path` on them, and `operator<`, from which MCSyncNode takes the
  order of a manifest.
* **EntryCodec** - `entry_codec.cpp` and `to_hex` on text as tokens. Numbers are
  written digit by digit, in base 2 instead of 10 and 16, so that a cut can leave
  a shorter number; a conversion that throws yields the empty set.
* **Payloads** - one payload from writer to reader: the journal (`Kill` cuts it at
  any token), MANIFEST, CHUNK_REQUEST and CHUNK_DATA, line by line and chunk by
  chunk as the loops read them.
* **Transport** - `send_frame` and `recv_frame` on bytes, over the four rounds of a
  session: partial sends and receives, buffers that hold `Capacity` bytes, a
  length field of `LenBytes` bytes that wraps, either side killed at any byte.
  Bytes sent to a peer that is gone are lost until the error is noticed.
* **Chunker** - `Chunker::chunk`, one byte per step, for any gear table and size
  limits, with the hash in `HashWidth` bits.
* **Sha256** - `Sha256Ctx` and `combine`: how messages become blocks. What
  `process_block` does to a block is left free: a digest is the sequence of blocks
  it absorbed. The bytes of a digest (`<<d, k>>`) are hashed like any others and may
  be in files. `SHA256` is the padding of FIPS 180-4, for comparison.
* **MerkleTree** - digests of all nodes of a tree, and `collect_diffs` with its
  call stack as a variable.
* **Ingest** - composes the three: a file is added, and added again with any
  content. Both versions go through the chunker and the hash, `Change` is the report
  of `ingest_file`, and the two trees are diffed as `test_merkle.cpp` does (the
  engine builds a tree for its root only).

Abstractions in SyncNode. Loading the journal and connecting are one step for
the connecting side (the listening side has the gap between the two). A node
does not sync with itself. `journal` is what `load_journal` reads from
`store.meta`: `WriteLine` adds a whole line, and `CrashInLine` what `line_to_entry`
makes of a part of it (`Fragments`: a shorter name, no clock, the clock up to a
counter with fewer digits, or the whole clock with the first of the hashes). A
hash of which digits are missing is filled up with zeros, and is `PaddedHash`, a
digest no file has; a node id cut short, or none, is `NoId`; `CutTo` gives the
names that a name begins with. A line cut behind a colon makes every later
command throw, which is a node on which nothing runs any more. Which texts are
read as what is checked token by token in Payloads. Two processes that write the
journal at the same time leave the lines of both. The order of a manifest
is `std::map`'s (`Before`); chunks of a file may be stored in any order, which
includes the code's. Connections carry whole frames, and never block in `send`:
`FramesIntact` and `BlockedOnlyByTwoLarge` of Transport say when that is what
sockets provide. An entry survives the codec unchanged, which is `RoundTrip`
for names without separators. Frames under way to the peer of a killed process
arrive or are lost. A materialized file is written in one step. Every process
that ends early, by an exception or killed, leaves its memory unsaved.

Abstractions elsewhere. Node ids have no dots, colons, commas, tabs or line
ends. Names that users choose in the form of a conflict copy are not considered.

## 3. Runs

| Run | Instance | Checks |
|---|---|---|
| `replicas_once` | 3 nodes, 1 edit each | `NoSilentLoss`, `QuiescentHoldAll` |
| `replicas_two` | 2 nodes, 2 edits each, of copies too | `TypeOK`, `NoPhantomEdits`, `NoRollback`, `FreshEditIsNews`, `SyncQuiesces` |
| `session_crash` | 2 nodes, files of 2 chunks, killed where a process stores chunks or saves, torn chunk files, lines of the journal cut | `TypeOK`, `EveryVersionBacked`, `RequestsServable`, `NoMissingChunk` |
| `session_durable` | 2 nodes, files of up to 2 chunks, killed anywhere before files are written out | `PublishedIsDurable`, `SeenAlike`, `SessionAgreement`, `FilesMatchJournal`, `JournalNeverForgets`, `SessionsAtomic`, `SessionEnds`, `EveryVersionBacked`, `NoMissingChunk` |
| `ingest` | all pairs of files: those of up to 7 bytes over the 2 values that padding consists of, 10 of 9 bytes, and one that consists of digests; sizes 2, 9, 4; 4-bit hash; blocks of 4 bytes | `Tiling`, `SizesBounded`, `ContentDefined`, `SharedCutResyncs`, `ChunkingEnds`, `RootDecides`, `RootOfDigests`, `LengthCountsPadding`, `DiffExact`, `WalkIsSparse`, `ReportTellsChange` |
| `payloads` | stores of 1 and 2 files, up to 3 forks, with and without extension and directory; up to 3 hashes; up to 2 chunks of 3 bytes | `RoundTrip`, `ReadsInBounds`, `CutYieldsPart`, `FailsOnlyAtCounter`, `NamesDistinct`, `CopyBesideOriginal` |
| `transport` | 4 rounds, payloads of 0, 1, 4 and 5 bytes, buffers of 3, lengths of 1 byte with 5 values | `FramesIntact`, `BlockedOnlyByTwoLarge`, `ExchangeEnds` |

Bounds. `MaxEdits` bounds the edits of a node, `MaxLen` and `MaxChunk` the
inputs. Two nodes with two edits each reach every outcome of `compare`,
conflicts of copies and tombstones against edits; three nodes reach the relay of
a conflict. Two nodes that add files of the same two chunks, one of which a
killed process has stored before, reach deduplication and partial requests; with
one edit per node the second one may
replace what a session brought, or be concurrent to it. `session_crash` has
every fragment of every line; once there is an entry read from one, nothing is
killed any more, and no line is cut once a chunk file is short (`OneCut`), so that
the run follows either through sessions and saves to the end. The theorems of
SyncNodeProofs cover any number and mixture of kills. It kills processes where they
write chunk files or the journal (`CrashAtWrites`): elsewhere a kill leaves both as
they are, and `session_durable`, with `EveryVersionBacked` and `NoMissingChunk`, has the kills at
the other points up to the writing of files. In the chunker,
`mask_bits` is 3, above `MinSize`, so that bytes before a cut would matter if the
hash were not reset; the longest files have a cut at `MaxSize` and one by content,
and the hash wraps. Blocks of 4 bytes with a length of 2 leave chunks with and without room
for the length in their last block. Files of up to seven bytes give
all pairs of trees of up to four leaves; some files of nine bytes give trees of
five, with halves of unequal size on two levels.
In `transport`, buffers are smaller than a frame of 4 bytes and larger than an
empty one, and a payload of 5 bytes does not fit the length. Numbers in `payloads` have
up to three digits. Node symmetry is used in `replicas_once` and `replicas_loss`,
where nothing orders nodes. Two processes on one node are checked in
`session_stale` only, and covered by the theorems of SyncNodeProofs and
SessionProofs, which hold for any number of them.

Runs that end in a counterexample state what the documentation says and the
code does not do:

| Run | Property | What happens |
|---|---|---|
| `replicas_converged` | `Converged` | both sides of a conflict keep their own version under equal clocks, for good |
| `replicas_loss` | `NoSilentLoss` | a second conflict with the same writer overwrites the first copy |
| `session_trunc` | `PublishedIsDurable` | killed after the truncation of the journal, a node forgets edits its peers have |
| `session_stale` | `JournalNeverForgets` | a listener saves what it loaded before an `add` |
| `session_cut` | `NothingSkipped` | killed in the middle of a chunk hash in the journal, a node publishes a version with a chunk nobody has; the peer asks for it, is not served and throws at every sync |

More has no run of its own. A chunk file cut short by a kill keeps its name, so
that no later `put_chunk` repairs it, and a file is then recorded and written out
with the short chunk (`CrashInPutChunk`; `FilesMatchJournal` is checked and proved
without it). A file that consists of the digests of another one's chunks has its
Merkle root (`RootOfDigests`), so that "if the roots match, the files are
identical, full stop" (`merkle_tree.hpp`) is true of trees of the same size only
(`RootDecides`). `SharedCutResyncs` is what remains of "inserting a byte near the
start of a file only shifts one chunk boundary" (`rolling_hash.hpp`, and to the same
effect `chunker.hpp` and the README): where chunks are cut at the maximum size,
all cuts behind an insertion move, and no cut need be shared again. The digest
is not that of SHA-256, because the length at its end counts the padding
(`LengthCountsPadding`); it still tells messages apart. `CutYieldsPart` leaves room for an entry with the
clock it had and only some of its chunks, which no later merge repairs, since
clocks are equal; `FailsOnlyAtCounter` for a journal that no command can load. A conflict copy inherits the
clock of the original, so `FreshEditIsNews` holds for the files users name and
not for copies, although users are meant to edit those. A version without
chunks is not written out, so an emptied file keeps its old bytes on disk, which
is why `FilesMatchJournal` speaks of versions with content.

`session_trunc` differs from `session_durable` in where a process may be killed:
the rewriting of the journal is the one window in which durability is lost. In
`session_durable` processes are not killed while they write files out either,
because files then are ahead of the journal and `FilesMatchJournal` is about
nodes at rest; as to the journal, a kill there is one just before.

Refinement. `SessionsAtomic` is `AtomicSync!Spec` under the mapping of
SyncNodeRefinement, for one process per node. It says that whatever the two
sides interleave and wherever one is killed before its save, a store changes by
a user's edit or from its snapshot to the merge of the two snapshots taken when
the connection was made, never by a part of it. With a second process on a node
it fails (`session_stale`), and with a kill during the save (`session_trunc`).

Fairness. `Replicas` assumes that a node that could still merge something does
so in the end (users keep running `sync`). `SyncNode` and `Transport` assume weak
fairness of each process's own steps: the operating system schedules a running
process, and a socket moves bytes it has or has room for; commands, crashes and
new connections are never assumed. `Ingest` assumes that the loops of
`Chunker::chunk` run on; whether a file is added again is up to the user.
Deadlock is not checked for `ingest`, `payloads` and `transport`, which end by
returning (what may block for good in `transport` is `Blocked`); in `Replicas`
and `SyncNode` a merge or a command is always possible.

Each property of a passing run has a mutant of the code in the module (the
definitions named `...Mutant`) under which TLC finds it violated.

## 4. Proofs

Checked by TLAPS for every value of the constants that satisfies the named
assumptions (`MaxEditsAssumption`, `SyncNodeAssumption`, `SizeAssumption`, ...).

* **CrdtStoreProofs** - `MergeIsLeastUpperBound`, `CompareDecidesCausality`, and
  `MergeRemoteFacts`: what `merge_remote` may change in a store (`MergeStep`).
  Lemmas of the same kind for `put_local` and `delete_local`.
* **ReplicasProofs** - `TypeCorrect`, `NoPhantomEditsHolds`, `NoRollbackHolds`,
  `FreshEditIsNewsHolds`. The inductive invariant is `TypeOK /\ NoPhantomEdits`:
  a merge preserves it because the entry merged came from `wire`, which the
  invariant speaks about as well. `FreshEditIsNews` follows because the editing
  node's own counter is the largest anywhere, and an edit exceeds it.
* **SyncNodeProofs** - `TypeCorrect` and `EveryVersionBackedHolds`, with lines of the
  journal cut anywhere. The one exception its statement makes is `PaddedHash`, and
  only when processes may be killed in the save (`CutHashes`); `session_cut` shows
  that it is needed there. Every other hash in a fragment is one of the line's.
  `EveryVersionBacked` speaks of journals only and is not inductive: the
  invariant adds what each process in each state knows of its memory, namely
  that the chunks of an entry are on disk, or the entry is one of the paths the
  process has still to write out; and that whoever reaches `save_journal`, or is
  writing, holds backed entries only. The step that matters is `Materialize`:
  writing a file out proves its chunks are there, since otherwise the exception
  ends the process before anything is saved. So the result does not depend on
  the peer serving what was requested, and holds for any number of processes.
  `RequestsServableHolds` and `NoMissingChunkHolds`, for any
  number of nodes and processes and wherever they are killed, with the same
  exception. The invariant
  follows a chunk through a session: a manifest is made from a store every
  version of which is backed, and chunk files are never removed, so that the
  peer of a process that merges has every chunk the process will find missing;
  the request is what is missing, the answer covers the request, and all of it is
  stored before anything is written out.
* **DurableProofs** - `JournalNeverForgetsHolds` and `PublishedIsDurableHolds`, with
  two hypotheses: a node runs one process at a time (`OneAtATime`), and none is
  killed in the save (`"writing" \notin CrashPoints`). `session_stale` and
  `session_trunc` show that neither can be dropped. Both properties break in the
  middle of a save, when the journal is truncated; the invariant says of a
  running process that its memory has seen all its node's journal had when it
  was loaded, and of one that writes that journal and unwritten lines together
  are its memory. Then a counter seen elsewhere is in the journal, or in the
  memory that is being written; nothing leaves a node before that.
  `FilesMatchJournalHolds` has the hypotheses of the run too: one process at a
  time, no kill from the first file written out to the end of the save, and no
  chunk file cut short. The invariant says that every version in memory is
  written out or among those the process has still to write.
* **SessionProofs** - `SeenAlikeHolds`, without hypotheses too. The invariant pairs the
  two ends of a connection: once a side has sent its manifest, each counter it
  has in memory is in the memory of the peer or in an entry the peer has yet to
  merge, and a side never merges a counter its peer lacks. Equality at the end is
  not inductive; these two inequalities are. They need of `merge_remote` that the
  result covers the entry merged, which `MergeRemoteFacts` states.
  `SessionsAtomicHolds`: SyncNode implements AtomicSync. Hypotheses: one process at
  a time on a node and no kill in the save, which `session_stale` and
  `session_trunc` show to be needed, and `PathOrder`: `Before` is a strict total
  order of paths, as `operator<` on their names is. `OpenJournal` is the `Edit` of
  a command and the `Install` of a session, `SyncWith` is `Meet`, and every other
  step changes no store and keeps what each session will install, or loses it
  (`Abandon`). The invariant (`RInv`, with those of SeenAlike and of
  DurableProofs) says that the first frame a process receives is a manifest, that
  it is there once the peer has sent it, and that the memory of a command at its
  save is one edit of the journal. What a session will install is a fold of
  `merge_remote` over the rest of a manifest, which the definition unfolds at the
  last entry and the loop at the first; `MergesExist` shows, by induction on the
  size of a manifest, that the fold exists, and `MergeFirst` that it may be
  unfolded at either end.
* **TransportProofs** - `FramesIntactHolds` and `BlockedOnlyByTwoLargeHolds`, for any
  payloads, buffers, number of rounds, base and width of the length field. The
  invariant (`TransportInv`) says there is one stream of all bytes a side has
  ever sent, in which its frames lie end to end, and that what the other side
  has of the current frame, what is under way and what is unsent are adjacent
  pieces of it, the first of which begins where a frame begins. That the length
  read from a header is the one written (`LengthIsSaid`) is the step that keeps
  the receiver at the boundaries of frames. If both sides block, neither can be
  a round ahead, so each has one frame between its peer's position and the end of
  its stream, and that frame exceeds the buffers. `PowerLaw` says what `^` is,
  of which the provers know nothing.
* **IngestProofs** - the safety properties of the run `ingest`, for any two contents,
  of any bytes, and any sizes, gear table and block size.
  Chunking: `TilingHolds`, `SizesBoundedHolds`. The invariant adds that
  the chunk under way starts where the last one ended and has fewer than
  `MaxSize` bytes. `ContentDefinedHolds`: the invariant (`CInv`) adds that the chunk
  under way has passed no place where it could end, and that its hash, modulo the
  mask, is `LowBits` of its bytes. The code shifts and adds in `HashWidth` bits;
  `LowBits` sums the last `mask_bits` bytes by weight. That rolling one byte in
  takes one sum to the next (`RollIsSum`) is where bytes further back drop out:
  they have been doubled into a multiple of the mask. `MaskAssumption` says the
  mask fits the hash, as it does for a `size_t` in 64 bits; `PowerLaw` is that of
  TransportProofs. `BothVersionsChunked` is the same for the two versions that
  Ingest chunks one after the other.
  `SharedCutResyncsHolds`: a chunk is determined by the bytes from its start
  (`NextChunk`), so two files have the same chunks up to the first byte that
  differs, and behind the last one from any cut they share (`SameChunks`, by
  induction on the number of chunks).
  `RootDecidesHolds`: `update` and `finalize` process blocks that hold the message
  in order (`Absorbed`), padded with one mark 0x80 and zeros, so that the blocks
  determine the message (`ShaInjective`). The proof does not need the length
  field: the last mark that is followed by zeros only tells where the message
  ends. Nodes with equal hashes over equally many leaves have the same leaves
  (`TreeDecides`, by induction on the number of leaves: such trees have the same
  shape). Between trees of different sizes it is not so: `RootOfDigestsHolds` says
  exactly when a file of one chunk has the root of a larger tree. All of it rests
  on what the model Sha256 says of `process_block`, that it has no collisions.
  `BlockAssumption` says that the length field fits in a block, that a block has
  at least two bytes, and that the mark is not the filler.
  `DiffExactHolds`: the invariant (`WalkInv`) says that every call on the stack
  compares the same node of both trees, that these nodes cover the leaves from
  a position to the end one after the other, and that `out` is the changed leaves
  before that position in their order. A subtree that is not entered has none, by
  `TreeDecides`. `ReportTellsChangeHolds` follows, `out` being as long as the set
  of changed leaves is large.
  `WalkIsSparseHolds`: the calls made and the cost of those on the stack together
  stay within the bound, where a node costs one call, and two per level and
  changed leaf beneath it; a node that differs pays for its two halves
  (`CostOfHalves`), because the height of a half is less.

Induction over data. The induction theorems of the library take the predicate as
an operator, which the provers cannot instantiate. Module BoundedInduction goes
around that for bounded ranges: well-foundedness of `<` and the existence of minimal
elements are stated without operators, and give induction up to a bound for a set
of numbers (`UpToBound`). A recursive function is then reasoned about by giving a
solution of its equation and showing that there is only one (`LengthIsSaid`), or by
showing that one exists (`SumsExist` for sums over a range, `BuildEq` for the trees
`build` makes, `HeightsEq` for their heights).

Only model-checked:

* liveness (`SyncQuiesces`, `SessionEnds`, `ExchangeEnds`, `ChunkingEnds`), which is
  out of the prover's reach;
* the properties of Payloads (EntryCodec uses a RECURSIVE operator);
* `LengthCountsPadding`;
* `NoSilentLoss`, `QuiescentHoldAll` and `SessionAgreement`, which are not true in
  general and hold within the bounds of their runs. A second conflict with the
  same writer breaks the first two (`replicas_loss`). `SessionAgreement` is about
  files that are edited once per node: if a user removes a conflict copy, the
  version in it is in place on the other side only, and since clocks are equal
  no session brings it back. Its half that is true in general is `SeenAlike`.

## 5. Not modelled

`process_block` of SHA-256 (a fixed function on 512 bits), the numbers of the gear
table, resolution of addresses and the set-up of sockets beyond their success,
argument parsing, printing and statistics, `list`, the tests and the build
files. Hash collisions, and disks that fail or are full, are not considered.

## 6. Plan

Every safety property that holds without a bound on edits is proved, except
`LengthCountsPadding` and those of Payloads: EntryCodec would have to be stated
without its RECURSIVE operator. Two
instances are left that TLC does not finish in reasonable time at present: three
nodes in SyncNode, relaying chunks, and two processes per node in more runs
than `session_stale`.
