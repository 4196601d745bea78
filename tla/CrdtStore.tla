----------------------------- MODULE CrdtStore -----------------------------
(***************************************************************************)
(* crdt_store.{hpp,cpp} and file_entry.hpp: the map from path to FileEntry  *)
(* that one node keeps, as operators from a store to a store.  The state    *)
(* machines that use them are Replicas and SyncNode.                        *)
(*                                                                          *)
(* A path is the sequence <<base, n1, ..., nk>>: the file name the user     *)
(* chose followed by the nodes whose ".conflict-<n>" was inserted into it.  *)
(* merkle_root and size are left out of FileEntry: nothing ever reads them  *)
(* back to decide anything.                                                 *)
(***************************************************************************)
EXTENDS VectorClock, Sequences, FiniteSets

CONSTANTS BasePath,           \* file names chosen by users
          Chunk               \* chunk hashes

Path == Seq(BasePath \cup Node) \ {<<>>}

FileEntry == [path         : Path,
              chunk_hashes : Seq(Chunk),
              clock        : Clock,
              last_writer  : Node,
              deleted      : BOOLEAN]

has_content(e) == ~ e.deleted /\ e.chunk_hashes # <<>>

\* The set of chunks a version is made of.
ChunksOf(e) == {e.chunk_hashes[i] : i \in DOMAIN e.chunk_hashes}

-----------------------------------------------------------------------------
(* The std::map entries_.                                                   *)

\* A store maps paths to entries that carry their own path.
IsStore(es) ==
  /\ es = [p \in DOMAIN es |-> es[p]]
  /\ \A p \in DOMAIN es : es[p] \in FileEntry /\ es[p].path = p

EmptyStore == [p \in {} |-> {}]

\* entries_[e.path] = e.
load_entry(es, e) ==
  [p \in DOMAIN es \cup {e.path} |-> IF p = e.path THEN e ELSE es[p]]

all_entries(es) == {es[p] : p \in DOMAIN es}

\* The clock a local edit of p starts from.
ClockAt(es, p) == IF p \in DOMAIN es THEN es[p].clock ELSE ZeroClock

-----------------------------------------------------------------------------
(* Local mutations by node n.                                               *)

\* Mutant: the clock of the version in place is not carried over.
PutLocalFreshClockMutant(es, n, p, chunks) ==
  load_entry(es, [path         |-> p,
                  chunk_hashes |-> chunks,
                  clock        |-> increment(ZeroClock, n),
                  last_writer  |-> n,
                  deleted      |-> FALSE])

put_local(es, n, p, chunks) ==
  load_entry(es, [path         |-> p,
                  chunk_hashes |-> chunks,
                  clock        |-> increment(ClockAt(es, p), n),
                  last_writer  |-> n,
                  deleted      |-> FALSE])

delete_local(es, n, p) ==
  load_entry(es, [path         |-> p,
                  chunk_hashes |-> <<>>,
                  clock        |-> increment(ClockAt(es, p), n),
                  last_writer  |-> n,
                  deleted      |-> TRUE])

-----------------------------------------------------------------------------
(* merge_remote.                                                            *)

MergeOutcome == {"APPLIED_REMOTE", "KEPT_LOCAL", "NO_CHANGE", "CONFLICT_FORKED"}

make_conflict_path(p, other_node) == Append(p, other_node)

ConflictPath(remote) == make_conflict_path(remote.path, remote.last_writer)

OutcomeOf(es, remote) ==
  LET order == compare(es[remote.path].clock, remote.clock) IN
  IF remote.path \notin DOMAIN es
  THEN "APPLIED_REMOTE"
  ELSE CASE order = "EQUAL"      -> "NO_CHANGE"
         [] order = "BEFORE"     -> "APPLIED_REMOTE"
         [] order = "AFTER"      -> "KEPT_LOCAL"
         [] order = "CONCURRENT" -> "CONFLICT_FORKED"

\* Mutant: the entry in place does not absorb remote's clock.
ForkWithoutMergeMutant(es, remote) ==
  load_entry(es, [remote EXCEPT !.path = ConflictPath(remote)])

\* Mutant: remote's clock is absorbed but its version is not kept.
ForkWithoutCopyMutant(es, remote) ==
  load_entry(es, [es[remote.path] EXCEPT !.clock = merge(@, remote.clock)])

\* Mutant: the copy keeps the path of the original.
ForkUnrenamedMutant(es, remote) ==
  LET copy == ConflictPath(remote) IN
  [p \in DOMAIN es \cup {copy} |->
     IF p = copy THEN remote
     ELSE IF p = remote.path THEN [es[p] EXCEPT !.clock = merge(@, remote.clock)]
     ELSE es[p]]

\* The CONCURRENT case: remote is written over whatever is at the conflict
\* path, and the entry in place absorbs remote's clock.
ForkConflict(es, remote) ==
  LET local == es[remote.path] IN
  load_entry(load_entry(es, [remote EXCEPT !.path = ConflictPath(remote)]),
             [local EXCEPT !.clock = merge(local.clock, remote.clock)])

\* Mutant: a peer's entry is installed like one of the journal.
MergeAlwaysAppliesMutant(es, remote) == load_entry(es, remote)

merge_remote(es, remote) ==
  LET outcome == OutcomeOf(es, remote) IN
  CASE outcome = "APPLIED_REMOTE"  -> load_entry(es, remote)
    [] outcome = "CONFLICT_FORKED" -> ForkConflict(es, remote)
    [] outcome \in {"KEPT_LOCAL", "NO_CHANGE"} -> es
=============================================================================
