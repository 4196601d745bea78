------------------------------ MODULE SyncNode ------------------------------
(***************************************************************************)
(* The running system: syncnode processes (main.cpp, node.cpp), each with a *)
(* SyncEngine in memory (sync_engine.cpp), the data directory of each node  *)
(* they share (journal, chunk files, materialized files), and the sessions  *)
(* between two processes (run_sync_session of network.cpp) over a           *)
(* connection that delivers frames in order until one side goes away.       *)
(*                                                                          *)
(* A process is one invocation of the program: it loads the journal, runs   *)
(* one command and exits.  An exception ends it like a crash does: nothing  *)
(* of what is in memory is saved.                                           *)
(***************************************************************************)
EXTENDS CrdtStore, FileStore

CONSTANTS Proc,               \* invocations that may run at the same time
          HomeOf,             \* HomeOf[pr]: the node whose --id and --data pr has
          NoPeer,             \* not a process
          UserPath,           \* the paths users name on the command line
          FileContent,        \* the files they add, as lists of chunk hashes
          Before(_, _),       \* std::string's < on the names of two paths
          IdBefore(_, _),     \* std::string's < on two node ids
          CutTo(_),           \* CutTo(p): the paths that p's name begins with
          NoId,               \* what a node id cut short is read as
          PaddedHash,         \* what a chunk hash cut short is read as
          MaxEdits,           \* add and rm commands per node: the bound of the model
          CrashPoints,        \* where a process may be killed
          TornWrites          \* may it be killed half-way through a chunk file?

ASSUME SyncNodeAssumption ==
  /\ HomeOf \in [Proc -> Node]
  /\ NoPeer \notin Proc
  /\ \A p \in UserPath : p \in Path
  /\ \A f \in FileContent : f \in Seq(Chunk)
  /\ Torn \notin Chunk
  /\ MaxEdits \in Nat
  /\ TornWrites \in BOOLEAN

\* No process has a part of an id for its own, and no chunk of a file has the
\* digest of another one with its last bytes set to 0.
ASSUME CutAssumption ==
  /\ NoId \in Node /\ \A pr \in Proc : HomeOf[pr] # NoId
  /\ PaddedHash \in Chunk /\ \A f \in FileContent : \A k \in DOMAIN f : f[k] # PaddedHash

VARIABLES journal,            \* journal[n]: what load_journal reads from store.meta
          blobs,              \* blobs[n]: the chunk files
          files,              \* files[n]: the materialized files, by path
          proc,               \* proc[pr]: what process pr has in memory
          link,               \* link[pr]: the peer of pr's connection, or NoPeer
          chan,               \* chan[pr]: the frames pr has not received yet
          edits               \* edits[n]: add and rm commands so far

disk == <<journal, blobs, files>>
vars == <<journal, blobs, files, proc, link, chan, edits>>

-----------------------------------------------------------------------------
(* Processes.                                                               *)

\* No process, or one that has exited.
Exited == [pc       |-> "idle",
           mem      |-> EmptyStore,   \* SyncEngine::store_
           adding   |-> <<>>,         \* chunk hashes of the file being added
           todo     |-> {},           \* entries still to be merged or written
           needed   |-> {},           \* needed_hex
           incoming |-> NoChunks,     \* chunks still to be put into the blob store
           paths    |-> <<>>]         \* materialize_paths

Sending   == {"sendManifest", "merging", "sendDone"}
Receiving == {"recvManifest", "recvRequest", "recvData", "recvDone"}
InSession == Sending \cup Receiving \cup {"fetching"}

\* Where a process is; "materializing", "saving" and "writing" belong to the
\* add and rm commands and to sessions.
ProcState == InSession \cup {"idle", "listening", "adding", "materializing", "saving", "writing"}

Home(pr) == HomeOf[pr]

\* The other end still holds the connection.
Connected(pr) == link[pr] # NoPeer /\ link[link[pr]] = pr

Expected == [recvManifest |-> "MANIFEST", recvRequest |-> "CHUNK_REQUEST",
             recvData |-> "CHUNK_DATA", recvDone |-> "DONE"]

\* send_frame: what is sent to a peer that is gone is lost.
send_frame(ch, pr, frame) ==
  IF Connected(pr) THEN [ch EXCEPT ![link[pr]] = Append(@, frame)] ELSE ch

Arrived(pr, state) ==
  /\ proc[pr].pc = state
  /\ chan[pr] # <<>>
  /\ Head(chan[pr]).type = Expected[state]

Received(pr) == [chan EXCEPT ![pr] = Tail(@)]

\* e comes first in the order of a std::map keyed by path.
IsFirst(e, es) == \A f \in es : f = e \/ Before(e.path, f.path)

\* ~Node and process exit.
Exit(pr) ==
  /\ proc' = [proc EXCEPT ![pr] = Exited]
  /\ link' = [link EXCEPT ![pr] = NoPeer]

Init ==
  /\ journal = [n \in Node |-> EmptyStore]
  /\ blobs = [n \in Node |-> NoChunks]
  /\ files = [n \in Node |-> [p \in {} |-> <<>>]]
  /\ proc = [pr \in Proc |-> Exited]
  /\ link = [pr \in Proc |-> NoPeer]
  /\ chan = [pr \in Proc |-> <<>>]
  /\ edits = [n \in Node |-> 0]

-----------------------------------------------------------------------------
(* The add and rm commands.                                                 *)

\* SyncEngine::SyncEngine: the store is what load_journal reads now, cut lines
\* (CrashInLine) included.
Loaded(pr) == [Exited EXCEPT !.mem = journal[Home(pr)]]

\* Node::add_file up to the loop over the chunks of ingest_file.
StartAdd(pr, p, chunks) ==
  /\ proc[pr].pc = "idle"
  /\ edits[Home(pr)] < MaxEdits
  /\ edits' = [edits EXCEPT ![Home(pr)] = @ + 1]
  /\ proc' = [proc EXCEPT ![pr] = [Loaded(pr) EXCEPT !.pc = "adding",
                                                     !.adding = chunks,
                                                     !.incoming = WholeChunks(chunks),
                                                     !.paths = <<p>>]]
  /\ UNCHANGED <<disk, link, chan>>

\* One put_chunk, of a file being added or of a CHUNK_DATA frame.
StoreChunk(pr, h) ==
  LET in == proc[pr].incoming IN
  /\ proc[pr].pc \in {"adding", "fetching"}
  /\ h \in DOMAIN in
  /\ blobs' = [blobs EXCEPT ![Home(pr)] = put_chunk(@, h, in[h])]
  /\ proc' = [proc EXCEPT ![pr].incoming = [x \in DOMAIN in \ {h} |-> in[x]]]
  /\ UNCHANGED <<journal, files, link, chan, edits>>

\* Mutant: the version is recorded and saved before its chunks are stored.
PutLocalEarlyMutant(pr) ==
  /\ proc[pr].pc = "adding"
  /\ proc' = [proc EXCEPT ![pr].pc = "saving",
                          ![pr].mem = put_local(@, Home(pr), Head(proc[pr].paths),
                                                proc[pr].adding)]
  /\ UNCHANGED <<disk, link, chan, edits>>

\* The call of put_local, once all chunks of the new version are stored.
PutLocal(pr) ==
  /\ proc[pr].pc = "adding"
  /\ proc[pr].incoming = NoChunks
  /\ proc' = [proc EXCEPT ![pr].pc = "materializing",
                          ![pr].mem = put_local(@, Home(pr), Head(proc[pr].paths),
                                                proc[pr].adding)]
  /\ UNCHANGED <<disk, link, chan, edits>>

\* Node::remove_file: the chunk files and the materialized file stay.
StartRm(pr, p) ==
  /\ proc[pr].pc = "idle"
  /\ edits[Home(pr)] < MaxEdits
  /\ edits' = [edits EXCEPT ![Home(pr)] = @ + 1]
  /\ proc' = [proc EXCEPT ![pr] = [Loaded(pr) EXCEPT !.pc = "saving",
                                                     !.mem = delete_local(@, Home(pr), p)]]
  /\ UNCHANGED <<disk, link, chan>>

-----------------------------------------------------------------------------
(* SyncEngine::materialize and save_journal, at the end of every command.   *)

\* Next path of materialize_paths: skipped when it has no content; a missing
\* chunk is an exception that ends the process.
Materialize(pr) ==
  LET p == Head(proc[pr].paths)
      e == proc[pr].mem[p]
      n == Home(pr)
  IN
  /\ proc[pr].pc = "materializing"
  /\ proc[pr].paths # <<>>
  /\ IF has_content(e) /\ ~ CanReassemble(blobs[n], e.chunk_hashes)
     THEN Exit(pr) /\ UNCHANGED files
     ELSE /\ files' = IF has_content(e)
                      THEN [files EXCEPT ![n] =
                              materialize(@, p, reassemble(blobs[n], e.chunk_hashes))]
                      ELSE files
          /\ proc' = [proc EXCEPT ![pr].paths = Tail(@)]
          /\ UNCHANGED link
  /\ UNCHANGED <<journal, blobs, chan, edits>>

AllMaterialized(pr) ==
  /\ proc[pr].pc = "materializing"
  /\ proc[pr].paths = <<>>
  /\ proc' = [proc EXCEPT ![pr].pc = "saving"]
  /\ UNCHANGED <<disk, link, chan, edits>>

\* Mutant: tombstones are not written to the journal.
OpenJournalMutant(pr) ==
  /\ proc[pr].pc = "saving"
  /\ journal' = [journal EXCEPT ![Home(pr)] = EmptyStore]
  /\ proc' = [proc EXCEPT ![pr].pc = "writing",
                          ![pr].todo = {e \in all_entries(proc[pr].mem) : ~ e.deleted}]
  /\ UNCHANGED <<blobs, files, link, chan, edits>>

\* save_journal opens store.meta with std::ios::trunc ...
OpenJournal(pr) ==
  /\ proc[pr].pc = "saving"
  /\ journal' = [journal EXCEPT ![Home(pr)] = EmptyStore]
  /\ proc' = [proc EXCEPT ![pr].pc = "writing", ![pr].todo = all_entries(proc[pr].mem)]
  /\ UNCHANGED <<blobs, files, link, chan, edits>>

\* ... writes one line per entry ...
WriteLine(pr, e) ==
  /\ proc[pr].pc = "writing"
  /\ e \in proc[pr].todo
  /\ IsFirst(e, proc[pr].todo)
  /\ journal' = [journal EXCEPT ![Home(pr)] = load_entry(@, e)]
  /\ proc' = [proc EXCEPT ![pr].todo = @ \ {e}]
  /\ UNCHANGED <<blobs, files, link, chan, edits>>

\* Mutant: the command ends before what it wrote is flushed.
CloseJournalMutant(pr) ==
  /\ proc[pr].pc = "writing"
  /\ IF link[pr] = NoPeer
     THEN Exit(pr)
     ELSE /\ proc' = [proc EXCEPT ![pr].pc = "sendDone", ![pr].todo = {}]
          /\ UNCHANGED link
  /\ UNCHANGED <<disk, chan, edits>>

\* ... and closes it.  The add and rm commands are over; a session goes on.
CloseJournal(pr) ==
  /\ proc[pr].pc = "writing"
  /\ proc[pr].todo = {}
  /\ IF link[pr] = NoPeer
     THEN Exit(pr)
     ELSE proc' = [proc EXCEPT ![pr].pc = "sendDone"] /\ UNCHANGED link
  /\ UNCHANGED <<disk, chan, edits>>

-----------------------------------------------------------------------------
(* Sessions: listen_and_sync, sync_with and run_sync_session.               *)

\* The listen command: the journal is loaded before accept_once blocks.
StartListen(pr) ==
  /\ proc[pr].pc = "idle"
  /\ proc' = [proc EXCEPT ![pr] = [Loaded(pr) EXCEPT !.pc = "listening"]]
  /\ UNCHANGED <<disk, link, chan, edits>>

\* accept_once has no timeout: a listener nobody connects to is interrupted.
StopListening(pr) ==
  /\ proc[pr].pc = "listening"
  /\ Exit(pr)
  /\ UNCHANGED <<disk, chan, edits>>

\* The sync command of pr reaches the listening process qr.
SyncWith(pr, qr) ==
  /\ proc[pr].pc = "idle"
  /\ proc[qr].pc = "listening"
  /\ Home(pr) # Home(qr)
  /\ proc' = [proc EXCEPT ![pr] = [Loaded(pr) EXCEPT !.pc = "sendManifest"],
                          ![qr].pc = "sendManifest"]
  /\ link' = [link EXCEPT ![pr] = qr, ![qr] = pr]
  /\ chan' = [chan EXCEPT ![pr] = <<>>, ![qr] = <<>>]
  /\ UNCHANGED <<disk, edits>>

\* Mutant: the manifest leaves tombstones out.
SerializeManifestMutant(pr) == {e \in all_entries(proc[pr].mem) : ~ e.deleted}

serialize_manifest(pr) == all_entries(proc[pr].mem)

SendManifest(pr) ==
  /\ proc[pr].pc = "sendManifest"
  /\ chan' = send_frame(chan, pr, [type |-> "MANIFEST", entries |-> serialize_manifest(pr)])
  /\ proc' = [proc EXCEPT ![pr].pc = "recvManifest"]
  /\ UNCHANGED <<disk, link, edits>>

RecvManifest(pr) ==
  /\ Arrived(pr, "recvManifest")
  /\ proc' = [proc EXCEPT ![pr].pc = "merging", ![pr].todo = Head(chan[pr]).entries]
  /\ chan' = Received(pr)
  /\ UNCHANGED <<disk, link, edits>>

\* Mutant: only the first chunk of a version is looked at.
MissingMutant(pr, e) ==
  {h \in {e.chunk_hashes[i] : i \in DOMAIN e.chunk_hashes \cap {1}} :
     ~ has_chunk(blobs[Home(pr)], h)}

\* What of a merged entry has to be fetched.
Missing(pr, e) == {h \in ChunksOf(e) : ~ has_chunk(blobs[Home(pr)], h)}

\* One iteration of the merge loop.
MergeEntry(pr, e) ==
  LET outcome == OutcomeOf(proc[pr].mem, e)
      written == IF outcome = "CONFLICT_FORKED" THEN ConflictPath(e) ELSE e.path
      adopted == outcome \in {"APPLIED_REMOTE", "CONFLICT_FORKED"}
  IN
  /\ proc[pr].pc = "merging"
  /\ e \in proc[pr].todo
  /\ IsFirst(e, proc[pr].todo)
  /\ proc' = [proc EXCEPT
       ![pr].mem    = merge_remote(@, e),
       ![pr].todo   = @ \ {e},
       ![pr].needed = IF adopted THEN @ \cup Missing(pr, e) ELSE @,
       ![pr].paths  = IF adopted THEN Append(@, written) ELSE @]
  /\ UNCHANGED <<disk, link, chan, edits>>

SendRequest(pr) ==
  /\ proc[pr].pc = "merging"
  /\ proc[pr].todo = {}
  /\ chan' = send_frame(chan, pr, [type |-> "CHUNK_REQUEST", hashes |-> proc[pr].needed])
  /\ proc' = [proc EXCEPT ![pr].pc = "recvRequest"]
  /\ UNCHANGED <<disk, link, edits>>

\* The peer's CHUNK_REQUEST is answered with CHUNK_DATA.
ServeRequest(pr) ==
  /\ Arrived(pr, "recvRequest")
  /\ chan' = send_frame(Received(pr), pr,
                        [type   |-> "CHUNK_DATA",
                         chunks |-> Serve(blobs[Home(pr)], Head(chan[pr]).hashes)])
  /\ proc' = [proc EXCEPT ![pr].pc = "recvData"]
  /\ UNCHANGED <<disk, link, edits>>

RecvData(pr) ==
  /\ Arrived(pr, "recvData")
  /\ proc' = [proc EXCEPT ![pr].pc = "fetching", ![pr].incoming = Head(chan[pr]).chunks]
  /\ chan' = Received(pr)
  /\ UNCHANGED <<disk, link, edits>>

AllFetched(pr) ==
  /\ proc[pr].pc = "fetching"
  /\ proc[pr].incoming = NoChunks
  /\ proc' = [proc EXCEPT ![pr].pc = "materializing"]
  /\ UNCHANGED <<disk, link, chan, edits>>

SendDone(pr) ==
  /\ proc[pr].pc = "sendDone"
  /\ chan' = send_frame(chan, pr, [type |-> "DONE"])
  /\ proc' = [proc EXCEPT ![pr].pc = "recvDone"]
  /\ UNCHANGED <<disk, link, edits>>

RecvDone(pr) ==
  /\ Arrived(pr, "recvDone")
  /\ chan' = Received(pr)
  /\ Exit(pr)
  /\ UNCHANGED <<disk, edits>>

-----------------------------------------------------------------------------
(* Failures.                                                                *)

\* Mutant: the end of the connection is not noticed.
UnexpectedMutant(pr) == chan[pr] # <<>> /\ Head(chan[pr]).type # Expected[proc[pr].pc]

\* recv_frame sees the end of the connection or another frame than expected.
Unexpected(pr) ==
  IF chan[pr] = <<>> THEN ~ Connected(pr)
  ELSE Head(chan[pr]).type # Expected[proc[pr].pc]

\* An exception out of send_frame or recv_frame, or the session's last
\* recv_frame returning without a DONE: the process exits.
Fail(pr) ==
  /\ \/ proc[pr].pc \in Receiving /\ Unexpected(pr)
     \/ proc[pr].pc \in Sending /\ proc[pr].todo = {} /\ ~ Connected(pr)
  /\ Exit(pr)
  /\ UNCHANGED <<disk, chan, edits>>

\* The frames for pr are lost with it; those it sent arrive or are lost too.
Cut(pr) ==
  LET kept == [chan EXCEPT ![pr] = <<>>] IN
  {kept} \cup (IF Connected(pr) THEN {[kept EXCEPT ![link[pr]] = <<>>]} ELSE {})

Crash(pr) ==
  /\ proc[pr].pc \in CrashPoints
  /\ chan' \in Cut(pr)
  /\ Exit(pr)
  /\ UNCHANGED <<disk, edits>>

\* Killed between the creation of a chunk file and the end of its write.
CrashInPutChunk(pr, h) ==
  /\ TornWrites
  /\ proc[pr].pc \in {"adding", "fetching"} \cap CrashPoints
  /\ h \in DOMAIN proc[pr].incoming
  /\ ~ has_chunk(blobs[Home(pr)], h)
  /\ blobs' = [blobs EXCEPT ![Home(pr)] = put_chunk(@, h, Torn)]
  /\ chan' \in Cut(pr)
  /\ Exit(pr)
  /\ UNCHANGED <<journal, files, edits>>

-----------------------------------------------------------------------------
(* Lines of the journal cut short.  The buffer of an std::ofstream is       *)
(* written when it is full, so a kill may leave any part of a line.         *)

\* A counter without its last digits.
Shortened(v) == {w \in 1 .. v : \E k \in 0 .. v : w = v \div 10 ^ k}

\* clock_from_wire of a clock cut in the counter of m, of which v is left.
CutClock(c, m, v) == [n \in Node |-> IF n = m THEN v ELSE IF IdBefore(n, m) THEN c[n] ELSE 0]

CutClocks(c) == UNION {{CutClock(c, m, v) : v \in Shortened(c[m])} : m \in Node}

\* Some of the first hashes; the last of them may lack digits, and hex_to_digest
\* takes those for 0.
FirstHashes(hashes) ==
  {SubSeq(hashes, 1, k) : k \in 0 .. Len(hashes)} \cup
  {Append(SubSeq(hashes, 1, k - 1), PaddedHash) : k \in DOMAIN hashes}

\* What line_to_entry reads from a part of the line of e: fields that are not
\* there are empty, and the clock is there before the chunk hashes are.
Fragments(e) ==
  LET bare == [e EXCEPT !.chunk_hashes = <<>>, !.clock = ZeroClock, !.last_writer = NoId] IN
  {[bare EXCEPT !.path = p, !.deleted = FALSE] : p \in {e.path} \cup (CutTo(e.path) \cap Path)}
    \cup {bare}
    \cup {[bare EXCEPT !.clock = c] : c \in CutClocks(e.clock)}
    \cup {[e EXCEPT !.chunk_hashes = hs] : hs \in FirstHashes(e.chunk_hashes)}

\* Killed half-way through a line of the journal, which load_journal reads last.
\* A line cut directly after a colon makes it throw, whatever the command: that
\* is a node on which nothing runs any more after the lines before (Crash).
CrashInLine(pr, e) ==
  /\ proc[pr].pc \in {"writing"} \cap CrashPoints
  /\ e \in proc[pr].todo
  /\ IsFirst(e, proc[pr].todo)
  /\ \E f \in Fragments(e) : journal' = [journal EXCEPT ![Home(pr)] = load_entry(@, f)]
  /\ chan' \in Cut(pr)
  /\ Exit(pr)
  /\ UNCHANGED <<blobs, files, edits>>

-----------------------------------------------------------------------------

Command(pr) ==
  \/ \E p \in UserPath, f \in FileContent : StartAdd(pr, p, f)
  \/ \E p \in UserPath : StartRm(pr, p)
  \/ StartListen(pr)
  \/ StopListening(pr)
  \/ \E qr \in Proc : SyncWith(pr, qr)

\* What a process does by itself once it runs.
Step(pr) ==
  \/ \E h \in DOMAIN proc[pr].incoming : StoreChunk(pr, h)
  \/ PutLocal(pr)
  \/ Materialize(pr)
  \/ AllMaterialized(pr)
  \/ OpenJournal(pr)
  \/ \E e \in proc[pr].todo : WriteLine(pr, e)
  \/ CloseJournal(pr)
  \/ SendManifest(pr)
  \/ RecvManifest(pr)
  \/ \E e \in proc[pr].todo : MergeEntry(pr, e)
  \/ SendRequest(pr)
  \/ ServeRequest(pr)
  \/ RecvData(pr)
  \/ AllFetched(pr)
  \/ SendDone(pr)
  \/ RecvDone(pr)
  \/ Fail(pr)

Killed(pr) ==
  \/ Crash(pr)
  \/ \E h \in DOMAIN proc[pr].incoming : CrashInPutChunk(pr, h)
  \/ \E e \in proc[pr].todo : CrashInLine(pr, e)

Next == \E pr \in Proc : Command(pr) \/ Step(pr) \/ Killed(pr)

Spec == Init /\ [][Next]_vars

\* A running process is scheduled.  Commands and crashes are never owed.
Fairness == \A pr \in Proc : WF_vars(Step(pr))

FairSpec == Spec /\ Fairness

-----------------------------------------------------------------------------
(* Properties.                                                              *)

IsChunkMap(chunks) == \A h \in DOMAIN chunks : h \in Chunk /\ chunks[h] \in {h, Torn}

IsFrame(f) ==
  \/ f.type = "MANIFEST" /\ \A e \in f.entries : e \in FileEntry
  \/ f.type = "CHUNK_REQUEST" /\ f.hashes \subseteq Chunk
  \/ f.type = "CHUNK_DATA" /\ IsChunkMap(f.chunks)
  \/ f.type = "DONE"

TypeOK ==
  /\ \A n \in Node : IsStore(journal[n]) /\ IsChunkMap(blobs[n])
  /\ \A n \in Node : \A p \in DOMAIN files[n] : files[n][p] \in Seq(Chunk \cup {Torn})
  /\ \A pr \in Proc :
        /\ proc[pr].pc \in ProcState
        /\ IsStore(proc[pr].mem)
        /\ proc[pr].adding \in Seq(Chunk)
        /\ \A e \in proc[pr].todo : e \in FileEntry
        /\ proc[pr].needed \subseteq Chunk
        /\ IsChunkMap(proc[pr].incoming)
        /\ \A i \in DOMAIN proc[pr].paths : proc[pr].paths[i] \in Path
        /\ \A i \in DOMAIN chan[pr] : IsFrame(chan[pr][i])
  /\ link \in [Proc -> Proc \cup {NoPeer}]
  /\ edits \in [Node -> 0 .. MaxEdits]

\* The digests that a journal may name although no chunk has them: none, unless
\* processes are killed while they write it.
CutHashes == IF "writing" \in CrashPoints THEN {PaddedHash} ELSE {}

\* The chunks of a version, apart from a hash that was cut short.
WholeHashes(e) == ChunksOf(e) \ CutHashes

\* Every chunk that a journal names has a chunk file, wherever a process is
\* killed and whichever sessions fail (ingest_file and run_sync_session save
\* last).  The file may be cut short; and a kill in save_journal may leave the
\* last hash of the journal cut short, which then has no file.
EveryVersionBacked ==
  \A n \in Node : \A e \in all_entries(journal[n]) : WholeHashes(e) \subseteq DOMAIN blobs[n]

\* What a peer asks for we have (run_sync_session), but for a hash that was cut
\* short in the journal of one of us.
RequestsServable ==
  \A pr \in Proc :
    proc[pr].pc = "recvRequest" /\ Arrived(pr, "recvRequest")
      => Head(chan[pr]).hashes \ CutHashes \subseteq DOMAIN blobs[Home(pr)]

\* "shouldn't happen; skip defensively" (run_sync_session): a peer never asks
\* for a chunk we do not have.
NothingSkipped ==
  \A pr \in Proc :
    Arrived(pr, "recvRequest") => Head(chan[pr]).hashes \subseteq DOMAIN blobs[Home(pr)]

\* FileStore::reassemble throws "missing chunk" for no hash but one that was cut
\* short: by the time a process writes files out, it has every other chunk they
\* consist of.
NoMissingChunk ==
  \A pr \in Proc : proc[pr].pc = "materializing" =>
    \A i \in DOMAIN proc[pr].paths :
      LET p == proc[pr].paths[i] IN
      p \in DOMAIN proc[pr].mem => WholeHashes(proc[pr].mem[p]) \subseteq DOMAIN blobs[Home(pr)]

\* The metadata n has on disk, counting a journal that is being rewritten.
Kept(n) ==
  {journal[n]} \cup {proc[pr].mem : pr \in {q \in Proc : Home(q) = n /\ proc[q].pc = "writing"}}

\* What runs on n knows about files, in memory, on disk and under way to it.
Known(n) ==
  all_entries(journal[n]) \cup
  UNION {all_entries(proc[pr].mem) \cup proc[pr].todo \cup
         UNION {chan[pr][i].entries : i \in {j \in DOMAIN chan[pr] : chan[pr][j].type = "MANIFEST"}}
         : pr \in {q \in Proc : Home(q) = n}}

\* An edit is on disk before anybody else hears of it: the counter of m that
\* another node has seen for a user's file is one m will remember after any
\* crash, and so never uses again for a different edit.
PublishedIsDurable ==
  \A m \in Node : \A n \in Node \ {m} : \A e \in Known(n) :
    Len(e.path) = 1 => \E es \in Kept(m) : e.clock[m] <= ClockAt(es, e.path)[m]

\* "Persists the current CRDT metadata state to disk so it survives process
\* restarts" (sync_engine.hpp): what a node has recorded of a user's file is
\* never forgotten.
JournalNeverForgets ==
  [][\A n \in Node, b \in BasePath : \A es \in Kept(n) : <<b>> \in DOMAIN es =>
        \E later \in Kept(n)' : /\ <<b>> \in DOMAIN later
                                /\ Leq(es[<<b>>].clock, later[<<b>>].clock)]_vars

\* pr and qr have both merged and saved what the session brought them.
SessionSaved(pr, qr) ==
  /\ link[pr] = qr /\ link[qr] = pr
  /\ {proc[pr].pc, proc[qr].pc} \subseteq {"sendDone", "recvDone"}

\* After a session the two sides have seen the same edits of every user's file,
\* whatever either had seen before and whatever else happens on other nodes.
SeenAlike ==
  \A pr, qr \in Proc : SessionSaved(pr, qr) =>
    \A b \in BasePath : ClockAt(proc[pr].mem, <<b>>) = ClockAt(proc[qr].mem, <<b>>)

\* After a session each side holds the version the other has in place, there or
\* in a conflict copy ("both nodes end up with notes.txt plus
\* notes.conflict-<other node>.txt", README).
SessionAgreement ==
  \A pr, qr \in Proc : SessionSaved(pr, qr) =>
    \A b \in BasePath : <<b>> \in DOMAIN proc[pr].mem =>
      LET e == proc[pr].mem[<<b>>] IN
      \E f \in all_entries(proc[qr].mem) :
        f.chunk_hashes = e.chunk_hashes /\ f.deleted = e.deleted

Quiet(n) == \A pr \in Proc : Home(pr) = n => proc[pr].pc = "idle"

\* Between commands, the file on disk of every version with content is that
\* version, byte for byte.
FilesMatchJournal ==
  \A n \in Node : Quiet(n) =>
    \A e \in all_entries(journal[n]) : has_content(e) =>
      e.path \in DOMAIN files[n] /\ files[n][e.path] = e.chunk_hashes

\* A session ends, for both sides, even when the other side is killed.
SessionEnds == \A pr \in Proc : proc[pr].pc \in InSession ~> proc[pr].pc = "idle"
=============================================================================
