---------------------------- MODULE DurableProofs ----------------------------
(***************************************************************************)
(* What a node has on disk survives, and what other nodes have heard of is  *)
(* on disk: proofs about SyncNode for any number of nodes, any files and    *)
(* any number of commands, under the two conditions the runs session_stale  *)
(* and session_trunc show to be necessary: a node runs one process at a     *)
(* time, and no process is killed while it rewrites the journal.  And the   *)
(* files of a node at rest are those its journal records, if processes are  *)
(* not killed once they have begun to write files out either.               *)
(***************************************************************************)
EXTENDS SyncNodeProofs

\* No two invocations share a data directory.
OneAtATime == \A pr, qr \in Proc : Home(pr) = Home(qr) => pr = qr

-----------------------------------------------------------------------------
(* Stores that have seen what other stores have seen of users' files.       *)

Covers(later, es) ==
  \A p \in DOMAIN es : Len(p) = 1 => p \in DOMAIN later /\ Leq(es[p].clock, later[p].clock)

LEMMA LeqTrans ==
  ASSUME NEW a \in Clock, NEW b \in Clock, NEW c \in Clock, Leq(a, b), Leq(b, c)
  PROVE  Leq(a, c)
<1>1. SUFFICES ASSUME NEW n \in Node
               PROVE  a[n] <= c[n]
  BY DEF Leq
<1>2. a[n] \in Nat /\ b[n] \in Nat /\ c[n] \in Nat
  BY DEF Clock
<1>3. a[n] <= b[n] /\ b[n] <= c[n]
  BY DEF Leq
<1>4. QED
  BY <1>2, <1>3

LEMMA CoversRefl ==
  ASSUME NEW es \in Store
  PROVE  Covers(es, es)
  BY ClocksOfStore, LeqRefl DEF Covers

LEMMA CoversTrans ==
  ASSUME NEW a \in Store, NEW b \in Store, NEW c \in Store, Covers(b, a), Covers(c, b)
  PROVE  Covers(c, a)
<1>1. SUFFICES ASSUME NEW p \in DOMAIN a, Len(p) = 1
               PROVE  p \in DOMAIN c /\ Leq(a[p].clock, c[p].clock)
  BY DEF Covers
<1>2. p \in DOMAIN b /\ Leq(a[p].clock, b[p].clock)
  BY <1>1 DEF Covers
<1>3. p \in DOMAIN c /\ Leq(b[p].clock, c[p].clock)
  BY <1>1, <1>2 DEF Covers
<1>4. a[p].clock \in Clock /\ b[p].clock \in Clock /\ c[p].clock \in Clock
  BY <1>1, <1>2, <1>3, ClocksOfStore
<1>5. QED
  BY <1>2, <1>3, <1>4, LeqTrans

\* A store covers another one whose entries are among its own.
LEMMA CoversSubset ==
  ASSUME NEW a \in Store, NEW b \in Store, all_entries(a) \subseteq all_entries(b)
  PROVE  Covers(b, a)
<1>1. SUFFICES ASSUME NEW p \in DOMAIN a
               PROVE  p \in DOMAIN b /\ Leq(a[p].clock, b[p].clock)
  BY DEF Covers
<1>2. a[p] \in all_entries(b) /\ a[p].path = p /\ a[p].clock \in Clock
  BY ClocksOfStore DEF all_entries
<1>3. IsStore(b)
  BY StoreIsStore
<1>4. p \in DOMAIN b /\ b[p] = a[p]
  BY <1>2, <1>3, StoreLookup
<1>5. QED
  BY <1>2, <1>4, LeqRefl

\* put_local and delete_local only move a clock forward.
LEMMA CoversEdit ==
  ASSUME NEW es \in Store, NEW es2 \in Store, NEW n \in Node, NEW p \in Path,
         LocalEdit(es, es2, n, p)
  PROVE  Covers(es2, es)
<1>1. SUFFICES ASSUME NEW q \in DOMAIN es
               PROVE  q \in DOMAIN es2 /\ Leq(es[q].clock, es2[q].clock)
  BY DEF Covers
<1>2. q \in DOMAIN es2 /\ es[q].clock \in Clock /\ ClockAt(es, q) = es[q].clock
      /\ ClockAt(es2, q) = es2[q].clock
  BY ClocksOfStore DEF LocalEdit
<1>3. CASE q = p
  <2>1. ClockAt(es2, q) = increment(ClockAt(es, q), n)
    BY <1>3 DEF LocalEdit
  <2>2. QED
    BY <1>2, <2>1, IncrementFacts
<1>4. CASE q # p
  <2>1. es2[q] = es[q]
    BY <1>4 DEF LocalEdit
  <2>2. QED
    BY <1>2, <2>1, LeqRefl
<1>5. QED
  BY <1>3, <1>4

\* Neither does merge_remote move the clock of a user's file back.
LEMMA CoversMerge ==
  ASSUME NEW es \in Store, NEW e \in Good
  PROVE  Covers(merge_remote(es, e), es)
<1>1. DEFINE es2 == merge_remote(es, e)
<1>2. IsStore(es) /\ e \in FileEntry /\ es2 \in Store
  BY StoreIsStore, MergeInStore DEF Good
<1>3. MergeStep(es, es2, e)
  BY <1>2, MergeRemoteFacts
<1>4. HIDE DEF es2
<1>5. ASSUME NEW p \in DOMAIN es, Len(p) = 1
      PROVE  p \in DOMAIN es2 /\ Leq(es[p].clock, es2[p].clock)
  <2>1. p \in DOMAIN es2
    BY <1>3 DEF MergeStep
  <2>2. /\ es[p].clock \in Clock /\ ClockAt(es, p) = es[p].clock
        /\ ClockAt(es2, p) = es2[p].clock
    BY <1>2, <2>1, ClocksOfStore
  <2>3. p # ConflictPath(e)
    BY <1>2, <1>5, ConflictPathIsLong
  <2>4. CASE p = e.path
    BY <1>3, <2>2, <2>4 DEF MergeStep
  <2>5. CASE p # e.path
    <3>1. ClockAt(es2, p) = ClockAt(es, p)
      BY <1>3, <2>3, <2>5 DEF MergeStep
    <3>2. es2[p].clock = es[p].clock
      BY <2>2, <3>1
    <3>3. QED
      BY <2>1, <2>2, <3>2, LeqRefl
  <2>6. QED
    BY <2>4, <2>5
<1>6. QED
  BY <1>5 DEF Covers, es2

-----------------------------------------------------------------------------
(* The journal and the process that will rewrite it.  What the process has  *)
(* in memory is the journal until it merges or edits, covers the journal    *)
(* until it is saved, and is what is in the journal plus the lines still to *)
(* be written while it is being saved.                                      *)

AsLoaded == {"listening", "adding", "sendManifest", "recvManifest"}
Unwritten == {"merging", "recvRequest", "recvData", "fetching", "materializing", "saving"}

JournalOK(r, j) ==
  /\ r.pc \in AsLoaded => r.mem = j
  /\ r.pc \in Unwritten => Covers(r.mem, j)
  /\ r.pc = "writing" => all_entries(r.mem) = all_entries(j) \cup r.todo

JInv == \A pr \in Proc : JournalOK(proc[pr], journal[Home(pr)])

LEMMA JournalMove ==
  ASSUME OneAtATime, IInv, JInv, NEW pr \in Proc, NEW r2, proc' = [proc EXCEPT ![pr] = r2],
         NEW j, journal' = journal \/ journal' = [journal EXCEPT ![Home(pr)] = j],
         JournalOK(r2, journal'[Home(pr)])
  PROVE  JInv'
<1>1. proc \in [Proc -> ProcRec] /\ journal \in [Node -> Store]
  BY DEF IInv, Typed
<1>2. \A q \in Proc : proc'[q] = IF q = pr THEN r2 ELSE proc[q]
  BY <1>1
<1>3. \A q \in Proc \ {pr} : Home(q) \in Node /\ Home(q) # Home(pr)
  BY HomeType DEF OneAtATime
<1>4. \A q \in Proc \ {pr} : journal'[Home(q)] = journal[Home(q)]
  BY <1>1, <1>3
<1>5. ASSUME NEW q \in Proc
      PROVE  JournalOK(proc'[q], journal'[Home(q)])
  BY <1>2, <1>4 DEF JInv
<1>6. QED
  BY <1>5 DEF JInv, Home

\* A process goes on with the same entries and the journal is left alone.
Advances(from, to) ==
  \/ to = from /\ from # "writing"
  \/ to = "recvManifest" /\ from = "sendManifest"
  \/ to = "merging" /\ from = "recvManifest"
  \/ to \in Unwritten /\ from \in Unwritten
  \/ to \in {"sendDone", "recvDone"}

Goes(pr) ==
  /\ proc' = [proc EXCEPT ![pr] = proc'[pr]]
  /\ proc'[pr].mem = proc[pr].mem
  /\ UNCHANGED journal
  /\ Advances(proc[pr].pc, proc'[pr].pc)
  /\ proc[pr].pc = "writing" => proc[pr].todo = {} /\ proc'[pr].pc = "sendDone"

Ends(pr) == Exit(pr) /\ UNCHANGED journal /\ (proc[pr].pc = "writing" => proc[pr].todo = {})

\* Most steps do one of the two; the others are told apart.
LEMMA StepKinds ==
  ASSUME IInv, NEW pr \in Proc, Step(pr)
  PROVE  \/ Goes(pr) \/ Ends(pr)
         \/ PutLocal(pr) \/ OpenJournal(pr)
         \/ \E e \in proc[pr].todo : WriteLine(pr, e) \/ MergeEntry(pr, e)
<1>1. proc \in [Proc -> ProcRec] /\ proc[pr] \in ProcRec
  BY DEF IInv, Typed
<1>2. ASSUME NEW h \in DOMAIN proc[pr].incoming, StoreChunk(pr, h)
      PROVE  Goes(pr)
  BY <1>1, <1>2 DEF StoreChunk, Goes, Advances, ProcRec
<1>3. ASSUME Materialize(pr)
      PROVE  Goes(pr) \/ Ends(pr)
  BY <1>1, <1>3 DEF Materialize, Goes, Ends, Advances, ProcRec
<1>4. ASSUME AllMaterialized(pr)
      PROVE  Goes(pr)
  BY <1>1, <1>4 DEF AllMaterialized, Goes, Advances, Unwritten, ProcRec, disk
<1>5. ASSUME CloseJournal(pr)
      PROVE  Goes(pr) \/ Ends(pr)
  BY <1>1, <1>5 DEF CloseJournal, Goes, Ends, Advances, ProcRec, disk
<1>6. ASSUME SendManifest(pr)
      PROVE  Goes(pr)
  BY <1>1, <1>6 DEF SendManifest, Goes, Advances, ProcRec, disk
<1>7. ASSUME RecvManifest(pr)
      PROVE  Goes(pr)
  BY <1>1, <1>7 DEF RecvManifest, Arrived, Goes, Advances, ProcRec, disk
<1>8. ASSUME SendRequest(pr)
      PROVE  Goes(pr)
  BY <1>1, <1>8 DEF SendRequest, Goes, Advances, Unwritten, ProcRec, disk
<1>9. ASSUME ServeRequest(pr)
      PROVE  Goes(pr)
  BY <1>1, <1>9 DEF ServeRequest, Arrived, Goes, Advances, Unwritten, ProcRec, disk
<1>10. ASSUME RecvData(pr)
       PROVE  Goes(pr)
  BY <1>1, <1>10 DEF RecvData, Arrived, Goes, Advances, Unwritten, ProcRec, disk
<1>11. ASSUME AllFetched(pr)
       PROVE  Goes(pr)
  BY <1>1, <1>11 DEF AllFetched, Goes, Advances, Unwritten, ProcRec, disk
<1>12. ASSUME SendDone(pr)
       PROVE  Goes(pr)
  BY <1>1, <1>12 DEF SendDone, Goes, Advances, ProcRec, disk
<1>13. ASSUME RecvDone(pr) \/ Fail(pr)
       PROVE  Ends(pr)
  BY <1>13 DEF RecvDone, Fail, Arrived, Ends, Sending, Receiving, disk
<1>14. QED
  BY <1>2, <1>3, <1>4, <1>5, <1>6, <1>7, <1>8, <1>9, <1>10, <1>11, <1>12, <1>13 DEF Step

LEMMA EndsJournal ==
  ASSUME OneAtATime, IInv, JInv, NEW pr \in Proc, Ends(pr)
  PROVE  JInv'
<1>1. Exited.pc = "idle"
  BY DEF Exited
<1>2. JournalOK(Exited, journal'[Home(pr)])
  BY <1>1 DEF JournalOK, AsLoaded, Unwritten
<1>3. proc' = [proc EXCEPT ![pr] = Exited] /\ journal' = journal
  BY DEF Ends, Exit
<1>4. QED
  BY <1>2, <1>3, JournalMove

LEMMA GoesJournal ==
  ASSUME OneAtATime, IInv, JInv, NEW pr \in Proc, Goes(pr)
  PROVE  JInv'
<1>1. journal[Home(pr)] \in Store /\ JournalOK(proc[pr], journal[Home(pr)])
  BY HomeType DEF IInv, Typed, JInv
<1>2. Covers(journal[Home(pr)], journal[Home(pr)])
  BY <1>1, CoversRefl
<1>3. /\ proc' = [proc EXCEPT ![pr] = proc'[pr]] /\ journal' = journal
      /\ proc'[pr].mem = proc[pr].mem
      /\ Advances(proc[pr].pc, proc'[pr].pc)
      /\ proc'[pr].pc # "writing"
  BY DEF Goes, Advances, Unwritten
<1>4. JournalOK(proc'[pr], journal'[Home(pr)])
  BY <1>1, <1>2, <1>3 DEF JournalOK, Advances, AsLoaded, Unwritten
<1>5. QED
  BY <1>3, <1>4, JournalMove

LEMMA PutLocalJournal ==
  ASSUME OneAtATime, IInv, JInv, NEW pr \in Proc, PutLocal(pr)
  PROVE  JInv'
<1>1. DEFINE p  == Head(proc[pr].paths)
             es == proc[pr].mem
             es2 == put_local(es, Home(pr), p, proc[pr].adding)
             r2 == [proc[pr] EXCEPT !.pc = "materializing", !.mem = es2]
<1>2. /\ proc[pr] \in ProcRec /\ ProcOK(proc[pr], DOMAIN blobs[Home(pr)])
      /\ Home(pr) \in Node /\ JournalOK(proc[pr], journal[Home(pr)])
  BY HomeType DEF IInv, Typed, JInv
<1>3. /\ proc[pr].pc = "adding" /\ Len(proc[pr].paths) = 1 /\ proc[pr].paths \in Seq(Path)
      /\ es \in Store /\ proc[pr].adding \in Seq(Chunk)
  BY <1>2 DEF PutLocal, ProcOK, ProcRec
<1>4. p \in Path /\ IsStore(es)
  BY <1>3, StoreIsStore
<1>5. es2 \in Store /\ LocalEdit(es, es2, Home(pr), p)
  BY <1>2, <1>3, <1>4, PutInStore, PutLocalFacts
<1>6. Covers(es2, es)
  BY <1>2, <1>3, <1>4, <1>5, CoversEdit
<1>7. proc' = [proc EXCEPT ![pr] = r2] /\ journal' = journal
  BY DEF PutLocal, disk, IInv, Typed
<1>8. HIDE DEF es2, p
<1>9. r2.pc = "materializing" /\ r2.mem = es2
  BY <1>2 DEF ProcRec
<1>10. HIDE DEF r2
<1>11. JournalOK(r2, journal'[Home(pr)])
  BY <1>2, <1>3, <1>6, <1>7, <1>9 DEF JournalOK, AsLoaded
<1>12. QED
  BY <1>7, <1>11, JournalMove

LEMMA MergeEntryJournal ==
  ASSUME OneAtATime, IInv, JInv, NEW pr \in Proc, NEW e \in proc[pr].todo, MergeEntry(pr, e)
  PROVE  JInv'
<1>1. DEFINE es == proc[pr].mem
             es2 == merge_remote(es, e)
<1>2. /\ proc[pr] \in ProcRec /\ Home(pr) \in Node /\ JournalOK(proc[pr], journal[Home(pr)])
      /\ journal[Home(pr)] \in Store
  BY HomeType DEF IInv, Typed, JInv
<1>3. proc[pr].pc = "merging" /\ es \in Store /\ e \in Good
  BY <1>2 DEF MergeEntry, ProcRec
<1>4. es2 \in Store /\ Covers(es2, es)
  BY <1>3, MergeInStore, CoversMerge
<1>5. Covers(es2, journal[Home(pr)])
  BY <1>2, <1>3, <1>4, CoversTrans DEF JournalOK, Unwritten
<1>6. /\ proc' = [proc EXCEPT ![pr] = proc'[pr]] /\ journal' = journal
      /\ proc'[pr].pc = "merging" /\ proc'[pr].mem = es2
  BY <1>2, <1>3 DEF MergeEntry, disk, IInv, Typed, ProcRec
<1>7. HIDE DEF es2
<1>8. JournalOK(proc'[pr], journal'[Home(pr)])
  BY <1>5, <1>6 DEF JournalOK, AsLoaded
<1>9. QED
  BY <1>6, <1>8, JournalMove

LEMMA OpenJournalJournal ==
  ASSUME OneAtATime, IInv, JInv, NEW pr \in Proc, OpenJournal(pr)
  PROVE  JInv'
<1>1. /\ proc[pr] \in ProcRec /\ Home(pr) \in Node
  BY HomeType DEF IInv, Typed
<1>2. /\ proc' = [proc EXCEPT ![pr] = proc'[pr]]
      /\ journal' = [journal EXCEPT ![Home(pr)] = EmptyStore]
      /\ proc'[pr].pc = "writing" /\ proc'[pr].mem = proc[pr].mem
      /\ proc'[pr].todo = all_entries(proc[pr].mem)
  BY <1>1 DEF OpenJournal, IInv, Typed, ProcRec
<1>3. journal'[Home(pr)] = EmptyStore /\ all_entries(EmptyStore) = {}
  BY <1>1, <1>2, EmptyStoreType DEF IInv, Typed, all_entries
<1>4. JournalOK(proc'[pr], journal'[Home(pr)])
  BY <1>2, <1>3 DEF JournalOK, AsLoaded, Unwritten
<1>5. QED
  BY <1>2, <1>4, JournalMove

\* A line that is written takes an entry from the list to the journal.
LEMMA WriteLineJournal ==
  ASSUME OneAtATime, IInv, JInv, NEW pr \in Proc, NEW e \in proc[pr].todo, WriteLine(pr, e)
  PROVE  JInv'
<1>1. DEFINE j  == journal[Home(pr)]
             j2 == load_entry(j, e)
             es == proc[pr].mem
<1>2. /\ proc[pr] \in ProcRec /\ Home(pr) \in Node /\ JournalOK(proc[pr], j) /\ j \in Store
  BY HomeType DEF IInv, Typed, JInv
<1>3. proc[pr].pc = "writing" /\ es \in Store /\ e \in Good /\ e \in FileEntry
  BY <1>2 DEF WriteLine, ProcRec, Good
<1>4. IsStore(j) /\ IsStore(es)
  BY <1>2, <1>3, StoreIsStore
<1>5. LoadStep(j, j2, e)
  BY <1>3, <1>4, LoadEntryFacts
<1>6. all_entries(es) = all_entries(j) \cup proc[pr].todo
  BY <1>2, <1>3 DEF JournalOK
<1>7. /\ proc' = [proc EXCEPT ![pr] = proc'[pr]]
      /\ journal' = [journal EXCEPT ![Home(pr)] = j2]
      /\ proc'[pr].pc = "writing" /\ proc'[pr].mem = es
      /\ proc'[pr].todo = proc[pr].todo \ {e}
  BY <1>2, <1>3 DEF WriteLine, IInv, Typed, ProcRec
<1>8. journal'[Home(pr)] = j2
  BY <1>2, <1>7 DEF IInv, Typed
<1>9. HIDE DEF j, j2, es
<1>10. all_entries(j2) = all_entries(j) \cup {e}
  <2>1. all_entries(j2) \subseteq all_entries(j) \cup {e} /\ e \in all_entries(j2)
    BY <1>5 DEF LoadStep, all_entries
  <2>2. ASSUME NEW f \in all_entries(j)
        PROVE  f \in all_entries(j2)
    <3>1. f.path \in DOMAIN j /\ j[f.path] = f
      BY <1>4, StoreLookup
    <3>2. CASE f.path = e.path
      <4>1. f \in all_entries(es) /\ e \in all_entries(es)
        BY <1>6
      <4>2. es[f.path] = f /\ es[e.path] = e
        BY <1>4, <4>1, StoreLookup
      <4>3. QED
        BY <2>1, <3>2, <4>2
    <3>3. CASE f.path # e.path
      BY <1>5, <3>1, <3>3 DEF LoadStep, all_entries
    <3>4. QED
      BY <3>2, <3>3
  <2>3. QED
    BY <2>1, <2>2
<1>11. all_entries(es) = all_entries(j2) \cup (proc[pr].todo \ {e})
  BY <1>6, <1>10
<1>12. JournalOK(proc'[pr], journal'[Home(pr)])
  BY <1>7, <1>8, <1>11 DEF JournalOK, AsLoaded, Unwritten
<1>13. QED
  BY <1>7, <1>12, JournalMove

LEMMA LoadsJournal ==
  ASSUME OneAtATime, IInv, JInv, NEW pr \in Proc,
         \/ StartListen(pr)
         \/ \E p \in UserPath, f \in FileContent : StartAdd(pr, p, f)
  PROVE  JInv'
<1>1. Loaded(pr) \in ProcRec /\ Loaded(pr).mem = journal[Home(pr)]
  BY LoadedType DEF IInv
<1>2. /\ proc' = [proc EXCEPT ![pr] = proc'[pr]] /\ journal' = journal
      /\ proc'[pr].pc \in {"listening", "adding"} /\ proc'[pr].mem = journal[Home(pr)]
  <2>1. CASE StartListen(pr)
    BY <1>1, <2>1 DEF StartListen, disk, IInv, Typed, ProcRec
  <2>2. CASE \E p \in UserPath, f \in FileContent : StartAdd(pr, p, f)
    <3>1. PICK p \in UserPath, f \in FileContent : StartAdd(pr, p, f)
      BY <2>2
    <3>2. DEFINE r2 == [Loaded(pr) EXCEPT !.pc = "adding", !.adding = f,
                                          !.incoming = WholeChunks(f), !.paths = <<p>>]
    <3>3. proc' = [proc EXCEPT ![pr] = r2] /\ journal' = journal
      BY <3>1 DEF StartAdd, disk
    <3>4. r2.pc = "adding" /\ r2.mem = journal[Home(pr)]
      BY <1>1 DEF ProcRec
    <3>5. HIDE DEF r2
    <3>6. proc'[pr] = r2
      BY <3>3 DEF IInv, Typed
    <3>7. QED
      BY <3>3, <3>4, <3>6
  <2>3. QED
    BY <2>1, <2>2
<1>3. JournalOK(proc'[pr], journal'[Home(pr)])
  BY <1>2 DEF JournalOK, Unwritten
<1>4. QED
  BY <1>2, <1>3, JournalMove

LEMMA StartRmJournal ==
  ASSUME OneAtATime, IInv, JInv, NEW pr \in Proc, NEW p \in UserPath, StartRm(pr, p)
  PROVE  JInv'
<1>1. DEFINE j == journal[Home(pr)]
             es2 == delete_local(j, Home(pr), p)
<1>2. Loaded(pr) \in ProcRec /\ Loaded(pr).mem = j /\ j \in Store
  BY LoadedType, HomeType DEF IInv, Typed
<1>3. IsStore(j) /\ p \in Path /\ Home(pr) \in Node
  BY <1>2, StoreIsStore, HomeType, SyncNodeAssumption
<1>4. es2 \in Store /\ LocalEdit(j, es2, Home(pr), p)
  BY <1>2, <1>3, DeleteInStore, DeleteLocalFacts
<1>5. Covers(es2, j)
  BY <1>2, <1>3, <1>4, CoversEdit
<1>6. /\ proc' = [proc EXCEPT ![pr] = proc'[pr]] /\ journal' = journal
      /\ proc'[pr].pc = "saving" /\ proc'[pr].mem = es2
  BY <1>2 DEF StartRm, disk, IInv, Typed, ProcRec
<1>7. HIDE DEF es2
<1>8. JournalOK(proc'[pr], journal'[Home(pr)])
  BY <1>5, <1>6 DEF JournalOK, AsLoaded
<1>9. QED
  BY <1>6, <1>8, JournalMove

LEMMA SyncWithJournal ==
  ASSUME OneAtATime, IInv, JInv, NEW pr \in Proc, NEW qr \in Proc, SyncWith(pr, qr)
  PROVE  JInv'
<1>1. DEFINE r2 == [Loaded(pr) EXCEPT !.pc = "sendManifest"]
             l2 == [proc[qr] EXCEPT !.pc = "sendManifest"]
<1>2. /\ Loaded(pr) \in ProcRec /\ Loaded(pr).mem = journal[Home(pr)]
      /\ proc[qr] \in ProcRec /\ proc \in [Proc -> ProcRec]
      /\ JournalOK(proc[qr], journal[Home(qr)])
  BY LoadedType DEF IInv, Typed, JInv
<1>3. proc[qr].pc = "listening" /\ pr # qr /\ journal' = journal
  BY DEF SyncWith, disk
<1>4. \A q \in Proc : proc'[q] = IF q = pr THEN r2 ELSE IF q = qr THEN l2 ELSE proc[q]
  BY <1>2, <1>3 DEF SyncWith
<1>5. /\ r2.pc = "sendManifest" /\ r2.mem = journal[Home(pr)]
      /\ l2.pc = "sendManifest" /\ l2.mem = journal[Home(qr)]
  BY <1>2, <1>3 DEF ProcRec, JournalOK, AsLoaded
<1>6. HIDE DEF r2, l2
<1>7. JournalOK(r2, journal[Home(pr)]) /\ JournalOK(l2, journal[Home(qr)])
  BY <1>5 DEF JournalOK, Unwritten
<1>8. ASSUME NEW q \in Proc
      PROVE  JournalOK(proc'[q], journal'[Home(q)])
  BY <1>3, <1>4, <1>7 DEF JInv
<1>9. QED
  BY <1>8 DEF JInv, Home

LEMMA JInvInit == Init => JInv
<1>1. Exited.pc = "idle"
  BY DEF Exited
<1>2. QED
  BY <1>1 DEF Init, JInv, JournalOK, AsLoaded, Unwritten

LEMMA KilledEnds ==
  ASSUME "writing" \notin CrashPoints, NEW pr \in Proc, Killed(pr) \/ StopListening(pr)
  PROVE  Ends(pr)
  BY DEF Killed, Crash, CrashInPutChunk, CrashInLine, StopListening, Ends, disk

LEMMA JInvStep ==
  ASSUME OneAtATime, "writing" \notin CrashPoints, IInv, JInv, [Next]_vars
  PROVE  JInv'
<1>1. CASE UNCHANGED vars
  BY <1>1 DEF vars, JInv, Home
<1>2. ASSUME NEW pr \in Proc, Command(pr)
      PROVE  JInv'
  BY <1>2, LoadsJournal, StartRmJournal, KilledEnds, EndsJournal, SyncWithJournal DEF Command
<1>3. ASSUME NEW pr \in Proc, Step(pr)
      PROVE  JInv'
  BY <1>3, StepKinds, GoesJournal, EndsJournal, PutLocalJournal, OpenJournalJournal,
     WriteLineJournal, MergeEntryJournal
<1>4. ASSUME NEW pr \in Proc, Killed(pr)
      PROVE  JInv'
  BY <1>4, KilledEnds, EndsJournal
<1>5. QED
  BY <1>1, <1>2, <1>3, <1>4 DEF Next

-----------------------------------------------------------------------------
(* What a node has recorded is never forgotten.                             *)

KeptGrows == \A n \in Node : \A es \in Kept(n) : \E later \in Kept(n)' : Covers(later, es)

LEMMA KeptInStore ==
  ASSUME IInv, NEW n \in Node, NEW es \in Kept(n)
  PROVE  es \in Store
  BY DEF Kept, IInv, Typed, ProcRec

\* A journal that nobody opens or writes to, and what is being written to it.
LEMMA KeptQuiet ==
  ASSUME IInv, JInv, journal' = journal,
         \A q \in Proc : proc[q].pc = "writing" =>
            \/ proc[q].todo = {}
            \/ proc'[q].pc = "writing" /\ proc'[q].mem = proc[q].mem
  PROVE  KeptGrows
<1>1. SUFFICES ASSUME NEW n \in Node, NEW es \in Kept(n)
               PROVE  \E later \in Kept(n)' : Covers(later, es)
  BY DEF KeptGrows
<1>2. es \in Store /\ journal[n] \in Store
  BY KeptInStore DEF IInv, Typed
<1>3. /\ journal[n] \in Kept(n)'
      /\ \A q \in Proc : Home(q) = n /\ proc'[q].pc = "writing" => proc'[q].mem \in Kept(n)'
  BY DEF Kept, Home
<1>4. CASE es \in Kept(n)'
  BY <1>2, <1>4, CoversRefl
<1>5. CASE es \notin Kept(n)'
  <2>1. PICK q \in Proc : Home(q) = n /\ proc[q].pc = "writing" /\ es = proc[q].mem
    BY <1>3, <1>5 DEF Kept
  <2>2. proc[q].todo = {}
    BY <1>3, <1>5, <2>1
  <2>3. all_entries(es) = all_entries(journal[n])
    BY <2>1, <2>2 DEF JInv, JournalOK
  <2>4. Covers(journal[n], es)
    BY <1>2, <2>3, CoversSubset
  <2>5. QED
    BY <1>3, <2>4
<1>6. QED
  BY <1>4, <1>5

\* A journal that is being rewritten from memory.
LEMMA KeptWriting ==
  ASSUME OneAtATime, IInv, JInv, NEW pr \in Proc,
         proc' = [proc EXCEPT ![pr] = proc'[pr]],
         NEW j, journal' = [journal EXCEPT ![Home(pr)] = j],
         proc'[pr].pc = "writing", proc'[pr].mem = proc[pr].mem,
         Covers(proc[pr].mem, journal[Home(pr)])
  PROVE  KeptGrows
<1>1. SUFFICES ASSUME NEW n \in Node, NEW es \in Kept(n)
               PROVE  \E later \in Kept(n)' : Covers(later, es)
  BY DEF KeptGrows
<1>2. es \in Store /\ proc \in [Proc -> ProcRec] /\ journal \in [Node -> Store]
  BY KeptInStore DEF IInv, Typed
<1>3. /\ journal'[n] \in Kept(n)'
      /\ \A q \in Proc : Home(q) = n /\ proc'[q].pc = "writing" => proc'[q].mem \in Kept(n)'
  BY DEF Kept, Home
<1>4. CASE n # Home(pr)
  <2>1. journal'[n] = journal[n] /\ \A q \in Proc : Home(q) = n => proc'[q] = proc[q]
    BY <1>2, <1>4
  <2>2. es \in Kept(n)'
    BY <1>3, <2>1 DEF Kept
  <2>3. QED
    BY <1>2, <2>2, CoversRefl
<1>5. CASE n = Home(pr)
  <2>1. proc[pr].mem \in Kept(n)' /\ proc[pr].mem \in Store
    BY <1>2, <1>3, <1>5 DEF ProcRec
  <2>2. es = journal[n] \/ es = proc[pr].mem
    BY <1>5 DEF Kept, OneAtATime
  <2>3. Covers(proc[pr].mem, es)
    BY <1>5, <2>1, <2>2, CoversRefl
  <2>4. QED
    BY <2>1, <2>3
<1>6. QED
  BY <1>4, <1>5

LEMMA KeptStep ==
  ASSUME OneAtATime, "writing" \notin CrashPoints, IInv, JInv, [Next]_vars
  PROVE  KeptGrows
<1>1. proc \in [Proc -> ProcRec]
  BY DEF IInv, Typed
<1>2. CASE UNCHANGED vars
  BY <1>2, KeptQuiet DEF vars
<1>3. ASSUME NEW pr \in Proc, Goes(pr) \/ Ends(pr)
      PROVE  KeptGrows
  <2>1. journal' = journal /\ \A q \in Proc \ {pr} : proc'[q] = proc[q]
    BY <1>1, <1>3 DEF Goes, Ends, Exit
  <2>2. proc[pr].pc = "writing" => proc[pr].todo = {}
    BY <1>3 DEF Goes, Ends
  <2>3. QED
    BY <2>1, <2>2, KeptQuiet
<1>4. ASSUME NEW pr \in Proc, PutLocal(pr)
      PROVE  KeptGrows
  <2>1. journal' = journal /\ proc[pr].pc = "adding" /\ \A q \in Proc \ {pr} : proc'[q] = proc[q]
    BY <1>1, <1>4 DEF PutLocal, disk
  <2>2. QED
    BY <2>1, KeptQuiet
<1>5. ASSUME NEW pr \in Proc, NEW e \in proc[pr].todo, MergeEntry(pr, e)
      PROVE  KeptGrows
  <2>1. journal' = journal /\ proc[pr].pc = "merging" /\ \A q \in Proc \ {pr} : proc'[q] = proc[q]
    BY <1>1, <1>5 DEF MergeEntry, disk
  <2>2. QED
    BY <2>1, KeptQuiet
<1>6. ASSUME NEW pr \in Proc, Command(pr)
      PROVE  KeptGrows
  <2>1. /\ journal' = journal
        /\ \A q \in Proc : proc[q].pc = "writing" => proc'[q] = proc[q]
    BY <1>1, <1>6 DEF Command, StartAdd, StartRm, StartListen, StopListening, SyncWith, Exit, disk
  <2>2. QED
    BY <2>1, KeptQuiet
<1>7. ASSUME NEW pr \in Proc, OpenJournal(pr)
      PROVE  KeptGrows
  <2>1. /\ proc' = [proc EXCEPT ![pr] = proc'[pr]]
        /\ journal' = [journal EXCEPT ![Home(pr)] = EmptyStore]
        /\ proc'[pr].pc = "writing" /\ proc'[pr].mem = proc[pr].mem /\ proc[pr].pc = "saving"
    BY <1>1, <1>7 DEF OpenJournal, ProcRec
  <2>2. Covers(proc[pr].mem, journal[Home(pr)])
    BY <2>1 DEF JInv, JournalOK, Unwritten
  <2>3. QED
    BY <2>1, <2>2, KeptWriting
<1>8. ASSUME NEW pr \in Proc, NEW e \in proc[pr].todo, WriteLine(pr, e)
      PROVE  KeptGrows
  <2>1. /\ proc' = [proc EXCEPT ![pr] = proc'[pr]]
        /\ journal' = [journal EXCEPT ![Home(pr)] = load_entry(journal[Home(pr)], e)]
        /\ proc'[pr].pc = "writing" /\ proc'[pr].mem = proc[pr].mem /\ proc[pr].pc = "writing"
    BY <1>1, <1>8 DEF WriteLine, ProcRec
  <2>2. all_entries(journal[Home(pr)]) \subseteq all_entries(proc[pr].mem)
    BY <2>1 DEF JInv, JournalOK
  <2>3. journal[Home(pr)] \in Store /\ proc[pr].mem \in Store
    BY <1>1, HomeType DEF IInv, Typed, ProcRec
  <2>4. Covers(proc[pr].mem, journal[Home(pr)])
    BY <2>2, <2>3, CoversSubset
  <2>5. QED
    BY <2>1, <2>4, KeptWriting
<1>9. QED
  BY <1>2, <1>3, <1>4, <1>5, <1>6, <1>7, <1>8, StepKinds, KilledEnds DEF Next

LEMMA GrowthForgetsNothing ==
  ASSUME KeptGrows, NEW n \in Node, NEW b \in BasePath, NEW es \in Kept(n), <<b>> \in DOMAIN es
  PROVE  \E later \in Kept(n)' : /\ <<b>> \in DOMAIN later
                                 /\ Leq(es[<<b>>].clock, later[<<b>>].clock)
<1>1. PICK later \in Kept(n)' : Covers(later, es)
  BY DEF KeptGrows
<1>2. Len(<<b>>) = 1
  OBVIOUS
<1>3. QED
  BY <1>1, <1>2 DEF Covers

\* save_journal truncates store.meta before it writes it again, yet no step
\* forgets what a node recorded of a user's file, as long as a node runs one
\* process at a time and none is killed while it writes.
THEOREM JournalNeverForgetsHolds ==
  ASSUME OneAtATime, "writing" \notin CrashPoints
  PROVE  Spec => JournalNeverForgets
<1>1. Init => IInv /\ JInv
  BY IInvInit, JInvInit
<1>2. (IInv /\ JInv) /\ [Next]_vars => (IInv /\ JInv)'
  BY IInvStep, JInvStep
<1>3. DEFINE Remembers ==
        \A n \in Node, b \in BasePath : \A es \in Kept(n) : <<b>> \in DOMAIN es =>
          \E later \in Kept(n)' : /\ <<b>> \in DOMAIN later
                                  /\ Leq(es[<<b>>].clock, later[<<b>>].clock)
<1>4. (IInv /\ JInv) /\ [Next]_vars => [Remembers]_vars
  BY KeptStep, GrowthForgetsNothing
<1>5. JournalNeverForgets <=> [][Remembers]_vars
  BY DEF JournalNeverForgets
<1>6. HIDE DEF Remembers
<1>7. QED
  BY <1>1, <1>2, <1>4, <1>5, PTL DEF Spec

-----------------------------------------------------------------------------
(* What other nodes have heard of is on disk.                               *)

\* kept, the metadata that m keeps, accounts for the counter of m in e.
Remembered(kept, m, e) ==
  Len(e.path) = 1 => \E es \in kept : e.clock[m] <= ClockAt(es, e.path)[m]

\* The entries in the memory and in the queue of a process.
Holds(r, c) ==
  all_entries(r.mem) \cup r.todo \cup
  UNION {c[i].entries : i \in {j \in DOMAIN c : c[j].type = "MANIFEST"}}

LEMMA KnownIs ==
  ASSUME NEW n, NEW e
  PROVE  e \in Known(n) <=> \/ e \in all_entries(journal[n])
                            \/ \E q \in Proc : Home(q) = n /\ e \in Holds(proc[q], chan[q])
  BY DEF Known, Holds

LEMMA KnownNext ==
  ASSUME NEW n, NEW e \in Known(n)'
  PROVE  \/ e \in all_entries(journal'[n])
         \/ \E q \in Proc : Home(q) = n /\ e \in Holds(proc'[q], chan'[q])
  BY DEF Known, Holds, Home, all_entries

LEMMA HeldIsGood ==
  ASSUME IInv
  PROVE  /\ \A q \in Proc : Holds(proc[q], chan[q]) \subseteq Good
         /\ \A n \in Node : Known(n) \subseteq Good
<1>1. ASSUME NEW q \in Proc
      PROVE  Holds(proc[q], chan[q]) \subseteq Good
  <2>1. proc[q] \in ProcRec /\ chan[q] \in Seq(Frame)
    BY DEF IInv, Typed
  <2>2. proc[q].todo \subseteq Good /\ all_entries(proc[q].mem) \subseteq Good
    BY <2>1, StoreIsStore DEF ProcRec
  <2>3. ASSUME NEW i \in DOMAIN chan[q], chan[q][i].type = "MANIFEST"
        PROVE  chan[q][i].entries \subseteq Good
    <3>1. chan[q][i] \in Frame
      BY <2>1
    <3>2. QED
      BY <2>3, <3>1 DEF Frame
  <2>4. QED
    BY <2>2, <2>3 DEF Holds
<1>2. \A n \in Node : all_entries(journal[n]) \subseteq Good
  BY StoreIsStore DEF IInv, Typed
<1>3. QED
  BY <1>1, <1>2, KnownIs

\* What a journal accounts for it still accounts for after any step.
LEMMA RememberedStays ==
  ASSUME KeptGrows, IInv, IInv', NEW m \in Node, NEW e \in Good, Remembered(Kept(m), m, e)
  PROVE  Remembered(Kept(m)', m, e)
<1>1. SUFFICES ASSUME Len(e.path) = 1
               PROVE  \E later \in Kept(m)' : e.clock[m] <= ClockAt(later, e.path)[m]
  BY DEF Remembered
<1>2. PICK es \in Kept(m) : e.clock[m] <= ClockAt(es, e.path)[m]
  BY <1>1 DEF Remembered
<1>3. PICK later \in Kept(m)' : Covers(later, es)
  BY DEF KeptGrows
<1>4. es \in Store /\ later \in Store
  <2>1. journal' \in [Node -> Store] /\ proc' \in [Proc -> ProcRec]
    BY DEF IInv, Typed
  <2>2. QED
    BY <2>1, KeptInStore DEF Kept, ProcRec
<1>5. ClockAt(es, e.path) \in Clock /\ ClockAt(later, e.path) \in Clock /\ e.clock \in Clock
  BY <1>4, StoreIsStore, ClockAtType DEF Good, FileEntry
<1>6. ClockAt(es, e.path)[m] <= ClockAt(later, e.path)[m]
  <2>1. CASE e.path \in DOMAIN es
    <3>1. e.path \in DOMAIN later /\ Leq(es[e.path].clock, later[e.path].clock)
      BY <1>1, <1>3, <2>1 DEF Covers
    <3>2. QED
      BY <2>1, <3>1 DEF ClockAt, Leq
  <2>2. CASE e.path \notin DOMAIN es
    BY <1>5, <2>2 DEF ClockAt, ZeroClock, Clock
  <2>3. QED
    BY <2>1, <2>2
<1>7. e.clock[m] \in Nat /\ ClockAt(es, e.path)[m] \in Nat /\ ClockAt(later, e.path)[m] \in Nat
  BY <1>5 DEF Clock
<1>8. e.clock[m] <= ClockAt(later, e.path)[m]
  BY <1>2, <1>6, <1>7
<1>9. QED
  BY <1>3, <1>8

LEMMA PublishedMove ==
  ASSUME KeptGrows, IInv, IInv', PublishedIsDurable,
         \A n \in Node : \A m \in Node \ {n} : \A e \in Known(n)' :
            e \in Known(n) \/ (e \in Good /\ Remembered(Kept(m), m, e))
  PROVE  PublishedIsDurable'
<1>1. SUFFICES ASSUME NEW m \in Node, NEW n \in Node \ {m}, NEW e \in Known(n)'
               PROVE  Remembered(Kept(m)', m, e)
  BY DEF PublishedIsDurable, Remembered
<1>2. e \in Good /\ Remembered(Kept(m), m, e)
  BY HeldIsGood DEF PublishedIsDurable, Remembered
<1>3. QED
  BY <1>2, RememberedStays

\* A step after which nobody knows anything new.
LEMMA PublishedQuiet ==
  ASSUME KeptGrows, IInv, IInv', PublishedIsDurable,
         \A n \in Node : all_entries(journal'[n]) \subseteq Known(n),
         \A q \in Proc : Holds(proc'[q], chan'[q]) \subseteq Known(Home(q))
  PROVE  PublishedIsDurable'
<1>1. ASSUME NEW n \in Node, NEW e \in Known(n)'
      PROVE  e \in Known(n)
  <2>1. CASE e \in all_entries(journal'[n])
    BY <2>1
  <2>2. CASE \E q \in Proc : Home(q) = n /\ e \in Holds(proc'[q], chan'[q])
    BY <2>2
  <2>3. QED
    BY <2>1, <2>2, KnownNext
<1>2. QED
  BY <1>1, PublishedMove

\* A step after which one process knows something new, of which every other
\* node has its part on disk.
LEMMA PublishedNews ==
  ASSUME KeptGrows, IInv, IInv', PublishedIsDurable, NEW pr \in Proc, journal' = journal,
         \A q \in Proc \ {pr} : Holds(proc'[q], chan'[q]) \subseteq Known(Home(q)),
         \A m \in Node \ {Home(pr)} : \A e \in Holds(proc'[pr], chan'[pr]) :
            e \in Known(Home(pr)) \/ (e \in Good /\ Remembered(Kept(m), m, e))
  PROVE  PublishedIsDurable'
<1>1. ASSUME NEW n \in Node, NEW m \in Node \ {n}, NEW e \in Known(n)'
      PROVE  e \in Known(n) \/ (e \in Good /\ Remembered(Kept(m), m, e))
  <2>1. CASE e \in all_entries(journal'[n])
    BY <2>1, KnownIs
  <2>2. CASE \E q \in Proc : Home(q) = n /\ e \in Holds(proc'[q], chan'[q])
    <3>1. PICK q \in Proc : Home(q) = n /\ e \in Holds(proc'[q], chan'[q])
      BY <2>2
    <3>2. QED
      BY <3>1
  <2>3. QED
    BY <2>1, <2>2, KnownNext
<1>2. QED
  BY <1>1, PublishedMove

LEMMA HeldIsKnown ==
  ASSUME NEW q \in Proc
  PROVE  /\ all_entries(journal[Home(q)]) \subseteq Known(Home(q))
         /\ all_entries(proc[q].mem) \subseteq Known(Home(q))
         /\ proc[q].todo \subseteq Known(Home(q))
         /\ \A i \in DOMAIN chan[q] :
               chan[q][i].type = "MANIFEST" => chan[q][i].entries \subseteq Known(Home(q))
  BY KnownIs DEF Holds

LEMMA HeldIntro ==
  ASSUME NEW K, NEW r, NEW c, all_entries(r.mem) \subseteq K, r.todo \subseteq K,
         \A i \in DOMAIN c : c[i].type = "MANIFEST" => c[i].entries \subseteq K
  PROVE  Holds(r, c) \subseteq K
  BY DEF Holds

LEMMA KeptIsStores ==
  ASSUME IInv, NEW m \in Node
  PROVE  Kept(m) \subseteq Store /\ Kept(m) # {}
  BY KeptInStore DEF Kept

\* The counter of m at a user's path of a store of remembered entries.
LEMMA RememberedAt ==
  ASSUME NEW kept \in SUBSET Store, kept # {}, NEW m \in Node, NEW es \in Store,
         \A f \in all_entries(es) : Remembered(kept, m, f),
         NEW p, Len(p) = 1
  PROVE  \E k \in kept : ClockAt(es, p)[m] <= ClockAt(k, p)[m]
<1>1. CASE p \in DOMAIN es
  <2>1. es[p] \in all_entries(es) /\ es[p].path = p /\ ClockAt(es, p) = es[p].clock
    BY <1>1, ClocksOfStore DEF all_entries
  <2>2. QED
    BY <2>1 DEF Remembered
<1>2. CASE p \notin DOMAIN es
  <2>1. PICK k \in kept : TRUE
    OBVIOUS
  <2>2. ClockAt(k, p) \in Clock /\ ClockAt(es, p)[m] = 0
    BY <1>2, StoreIsStore, ClockAtType DEF ClockAt, ZeroClock
  <2>3. ClockAt(es, p)[m] <= ClockAt(k, p)[m]
    BY <2>2 DEF Clock
  <2>4. QED
    BY <2>3
<1>3. QED
  BY <1>1, <1>2

\* An edit by node n moves no counter but its own.
LEMMA RememberedEdit ==
  ASSUME NEW kept \in SUBSET Store, kept # {}, NEW n \in Node, NEW m \in Node \ {n},
         NEW es \in Store, NEW es2 \in Store, NEW p \in Path, LocalEdit(es, es2, n, p),
         \A f \in all_entries(es) : Remembered(kept, m, f)
  PROVE  \A f \in all_entries(es2) : Remembered(kept, m, f)
<1>1. SUFFICES ASSUME NEW f \in all_entries(es2), Len(f.path) = 1
               PROVE  \E k \in kept : f.clock[m] <= ClockAt(k, f.path)[m]
  BY DEF Remembered
<1>2. f.path \in DOMAIN es2 /\ ClockAt(es2, f.path) = f.clock /\ es2[f.path] = f
  BY StoreIsStore, StoreLookup
<1>3. ClockAt(es, f.path) \in Clock
  BY StoreIsStore, ClockAtType
<1>4. f.clock[m] = ClockAt(es, f.path)[m]
  <2>1. CASE f.path = p
    <3>1. f.clock = increment(ClockAt(es, f.path), n)
      BY <1>2, <2>1 DEF LocalEdit
    <3>2. QED
      BY <1>3, <3>1, IncrementFacts
  <2>2. CASE f.path # p
    BY <1>2, <2>2 DEF LocalEdit
  <2>3. QED
    BY <2>1, <2>2
<1>5. QED
  BY <1>1, <1>4, RememberedAt

\* A merge gives a counter the value it had on one side or the other.
LEMMA RememberedMerge ==
  ASSUME NEW kept \in SUBSET Store, kept # {}, NEW m \in Node, NEW es \in Store, NEW e \in Good,
         \A f \in all_entries(es) : Remembered(kept, m, f), Remembered(kept, m, e)
  PROVE  \A f \in all_entries(merge_remote(es, e)) : Remembered(kept, m, f)
<1>1. DEFINE es2 == merge_remote(es, e)
<1>2. es2 \in Store /\ IsStore(es2) /\ IsStore(es) /\ e \in FileEntry
  BY MergeInStore, StoreIsStore DEF Good
<1>3. MergeStep(es, es2, e)
  BY <1>2, MergeRemoteFacts
<1>4. HIDE DEF es2
<1>5. ASSUME NEW f \in all_entries(es2), Len(f.path) = 1
      PROVE  \E k \in kept : f.clock[m] <= ClockAt(k, f.path)[m]
  <2>1. ClockAt(es2, f.path) = f.clock
    BY <1>2, StoreLookup
  <2>2. f.path # ConflictPath(e)
    BY <1>2, <1>5, ConflictPathIsLong
  <2>3. CASE f.path = e.path /\ f.clock[m] = e.clock[m]
    BY <1>5, <2>3 DEF Remembered
  <2>4. CASE f.clock[m] = ClockAt(es, f.path)[m]
    BY <1>5, <2>4, RememberedAt
  <2>5. QED
    BY <1>3, <2>1, <2>2, <2>3, <2>4 DEF MergeStep
<1>6. QED
  BY <1>5 DEF Remembered, es2

\* The frames under way after a step of process pr.
NewFrame(pr, f) ==
  \/ SendManifest(pr) /\ f = [type |-> "MANIFEST", entries |-> serialize_manifest(pr)]
  \/ SendRequest(pr) /\ f = [type |-> "CHUNK_REQUEST", hashes |-> proc[pr].needed]
  \/ /\ ServeRequest(pr)
     /\ f = [type |-> "CHUNK_DATA", chunks |-> Serve(blobs[Home(pr)], Head(chan[pr]).hashes)]
  \/ SendDone(pr) /\ f = [type |-> "DONE"]

LEMMA FrameSources ==
  ASSUME IInv, NEW pr \in Proc, Command(pr) \/ Step(pr) \/ Killed(pr),
         NEW q \in Proc, NEW i \in DOMAIN chan'[q]
  PROVE  \/ \E j \in DOMAIN chan[q] : chan'[q][i] = chan[q][j]
         \/ q = link[pr] /\ link[q] = pr /\ NewFrame(pr, chan'[q][i])
<1>1. /\ Typed /\ chan \in [Proc -> Seq(Frame)] /\ proc[pr] \in ProcRec
      /\ blobs[Home(pr)] \in ChunkMap
  BY HomeType DEF IInv, Typed
<1>2. CASE chan' = chan
  BY <1>2
<1>3. CASE chan' = Received(pr) /\ chan[pr] # <<>>
  BY <1>1, <1>3, ReceivedFrames
<1>4. CASE chan' \in Cut(pr)
  BY <1>1, <1>4, CutFrames
<1>5. CASE SendManifest(pr)
  <2>1. DEFINE f == [type |-> "MANIFEST", entries |-> serialize_manifest(pr)]
  <2>2. f \in Frame /\ chan' = send_frame(chan, pr, f)
    BY <1>1, <1>5, StoreIsStore DEF SendManifest, serialize_manifest, Frame, ProcRec
  <2>3. HIDE DEF f
  <2>4. \/ i \in DOMAIN chan[q] /\ chan'[q][i] = chan[q][i]
        \/ q = link[pr] /\ link[q] = pr /\ chan'[q][i] = f
    BY <1>1, <2>2, SentFrames
  <2>5. QED
    BY <1>5, <2>4 DEF NewFrame, f
<1>6. CASE SendRequest(pr)
  <2>1. DEFINE f == [type |-> "CHUNK_REQUEST", hashes |-> proc[pr].needed]
  <2>2. f \in Frame /\ chan' = send_frame(chan, pr, f)
    BY <1>1, <1>6 DEF SendRequest, Frame, ProcRec
  <2>3. HIDE DEF f
  <2>4. \/ i \in DOMAIN chan[q] /\ chan'[q][i] = chan[q][i]
        \/ q = link[pr] /\ link[q] = pr /\ chan'[q][i] = f
    BY <1>1, <2>2, SentFrames
  <2>5. QED
    BY <1>6, <2>4 DEF NewFrame, f
<1>7. CASE SendDone(pr)
  <2>1. DEFINE f == [type |-> "DONE"]
  <2>2. f \in Frame /\ chan' = send_frame(chan, pr, f)
    BY <1>7 DEF SendDone, Frame
  <2>3. HIDE DEF f
  <2>4. \/ i \in DOMAIN chan[q] /\ chan'[q][i] = chan[q][i]
        \/ q = link[pr] /\ link[q] = pr /\ chan'[q][i] = f
    BY <1>1, <2>2, SentFrames
  <2>5. QED
    BY <1>7, <2>4 DEF NewFrame, f
<1>8. CASE ServeRequest(pr)
  <2>1. DEFINE f == [type |-> "CHUNK_DATA", chunks |-> Serve(blobs[Home(pr)], Head(chan[pr]).hashes)]
  <2>2. /\ Received(pr) \in [Proc -> Seq(Frame)] /\ chan[pr] # <<>>
        /\ chan' = send_frame(Received(pr), pr, f)
    BY <1>1, <1>8, HeadFrame DEF ServeRequest, Arrived, Expected
  <2>3. f \in Frame
    <3>1. Serve(blobs[Home(pr)], Head(chan[pr]).hashes) \in ChunkMap
      BY <1>1, ServeType
    <3>2. QED
      BY <3>1 DEF Frame
  <2>4. HIDE DEF f
  <2>5. \/ i \in DOMAIN Received(pr)[q] /\ chan'[q][i] = Received(pr)[q][i]
        \/ q = link[pr] /\ link[q] = pr /\ chan'[q][i] = f
    <3>1. Typed /\ i \in DOMAIN send_frame(Received(pr), pr, f)[q]
      BY <1>1, <2>2
    <3>2. QED
      BY <2>2, <2>3, <3>1, SentFrames
  <2>6. CASE i \in DOMAIN Received(pr)[q] /\ chan'[q][i] = Received(pr)[q][i]
    BY <1>1, <2>2, <2>6, ReceivedFrames
  <2>7. QED
    BY <1>8, <2>5, <2>6 DEF NewFrame, f
<1>9. CASE \E qr \in Proc : SyncWith(pr, qr)
  <2>1. PICK qr \in Proc : SyncWith(pr, qr)
    BY <1>9
  <2>2. DEFINE ch == [chan EXCEPT ![pr] = <<>>]
  <2>3. chan' = [ch EXCEPT ![qr] = <<>>] /\ ch \in [Proc -> Seq(Frame)]
    BY <1>1, <2>1 DEF SyncWith
  <2>4. ch[q] = <<>> \/ ch[q] = chan[q]
    BY <1>1
  <2>5. HIDE DEF ch
  <2>6. chan'[q] = <<>> \/ chan'[q] = chan[q]
    BY <2>3, <2>4
  <2>7. QED
    BY <2>6
<1>10. CASE Command(pr) /\ ~ \E qr \in Proc : SyncWith(pr, qr)
  BY <1>2, <1>10 DEF Command, StartAdd, StartRm, StartListen, StopListening
<1>11. CASE Killed(pr)
  BY <1>4, <1>11 DEF Killed, Crash, CrashInPutChunk, CrashInLine
<1>12. CASE Step(pr)
  <2>1. ASSUME RecvManifest(pr) \/ RecvData(pr) \/ RecvDone(pr)
        PROVE  chan' = Received(pr) /\ chan[pr] # <<>>
    BY <2>1 DEF RecvManifest, RecvData, RecvDone, Arrived
  <2>2. ASSUME \/ \E h \in DOMAIN proc[pr].incoming : StoreChunk(pr, h)
               \/ PutLocal(pr) \/ Materialize(pr) \/ AllMaterialized(pr) \/ OpenJournal(pr)
               \/ \E e \in proc[pr].todo : WriteLine(pr, e) \/ MergeEntry(pr, e)
               \/ CloseJournal(pr) \/ AllFetched(pr) \/ Fail(pr)
        PROVE  chan' = chan
    BY <2>2 DEF StoreChunk, PutLocal, Materialize, AllMaterialized, OpenJournal, WriteLine,
                MergeEntry, CloseJournal, AllFetched, Fail
  <2>3. QED
    BY <1>2, <1>3, <1>5, <1>6, <1>7, <1>8, <1>12, <2>1, <2>2 DEF Step
<1>13. QED
  BY <1>9, <1>10, <1>11, <1>12

\* A step of pr that sends no manifest: what is new is in its own memory.
LEMMA HeldElsewhere ==
  ASSUME IInv, NEW pr \in Proc, Command(pr) \/ Step(pr) \/ Killed(pr), ~ SendManifest(pr),
         NEW q \in Proc
  PROVE  /\ \A i \in DOMAIN chan'[q] :
               chan'[q][i].type = "MANIFEST" => chan'[q][i].entries \subseteq Known(Home(q))
         /\ proc'[q] = proc[q] => Holds(proc'[q], chan'[q]) \subseteq Known(Home(q))
<1>1. ASSUME NEW i \in DOMAIN chan'[q], chan'[q][i].type = "MANIFEST"
      PROVE  chan'[q][i].entries \subseteq Known(Home(q))
  <2>1. ~ NewFrame(pr, chan'[q][i])
    BY <1>1 DEF NewFrame
  <2>2. PICK j \in DOMAIN chan[q] : chan'[q][i] = chan[q][j]
    BY <2>1, FrameSources
  <2>3. QED
    BY <1>1, <2>2, HeldIsKnown
<1>2. ASSUME proc'[q] = proc[q]
      PROVE  Holds(proc'[q], chan'[q]) \subseteq Known(Home(q))
  BY <1>1, <1>2, HeldIsKnown, HeldIntro
<1>3. QED
  BY <1>1, <1>2

\* Steps by which a process takes over what is on its disk, in its memory or
\* in its queue already.
Repeats(pr) ==
  /\ \A q \in Proc \ {pr} : proc'[q] = proc[q]
  /\ all_entries(proc'[pr].mem) \subseteq Known(Home(pr))
  /\ proc'[pr].todo \subseteq Known(Home(pr))
  /\ \A n \in Node : all_entries(journal'[n]) \subseteq Known(n)

LEMMA RepeatsPublishes ==
  ASSUME KeptGrows, IInv, IInv', PublishedIsDurable, NEW pr \in Proc,
         Command(pr) \/ Step(pr) \/ Killed(pr), ~ SendManifest(pr), Repeats(pr)
  PROVE  PublishedIsDurable'
<1>1. ASSUME NEW q \in Proc
      PROVE  Holds(proc'[q], chan'[q]) \subseteq Known(Home(q))
  <2>1. CASE q # pr
    BY <2>1, HeldElsewhere DEF Repeats
  <2>2. CASE q = pr
    BY <2>2, HeldElsewhere, HeldIntro DEF Repeats
  <2>3. QED
    BY <2>1, <2>2
<1>2. QED
  BY <1>1, PublishedQuiet DEF Repeats

LEMMA ExitRepeats ==
  ASSUME IInv, NEW pr \in Proc, Exit(pr), UNCHANGED journal
  PROVE  Repeats(pr)
<1>1. Exited.mem = EmptyStore /\ Exited.todo = {} /\ all_entries(EmptyStore) = {}
  BY EmptyStoreType DEF Exited, all_entries
<1>2. proc'[pr] = Exited /\ \A q \in Proc \ {pr} : proc'[q] = proc[q]
  BY DEF Exit, IInv, Typed
<1>3. QED
  BY <1>1, <1>2, KnownIs DEF Repeats

LEMMA StepRepeats ==
  ASSUME IInv, NEW pr \in Proc, Step(pr)
  PROVE  \/ Repeats(pr) \/ PutLocal(pr) \/ SendManifest(pr)
         \/ \E e \in proc[pr].todo : MergeEntry(pr, e)
<1>1. /\ proc \in [Proc -> ProcRec] /\ proc[pr] \in ProcRec /\ Typed
      /\ journal \in [Node -> Store] /\ Home(pr) \in Node
  BY HomeType DEF IInv, Typed
<1>2. /\ all_entries(proc[pr].mem) \subseteq Known(Home(pr))
      /\ proc[pr].todo \subseteq Known(Home(pr))
      /\ \A n \in Node : all_entries(journal[n]) \subseteq Known(n)
      /\ \A i \in DOMAIN chan[pr] :
            chan[pr][i].type = "MANIFEST" => chan[pr][i].entries \subseteq Known(Home(pr))
  BY HeldIsKnown, KnownIs
<1>3. ASSUME Exit(pr), UNCHANGED journal
      PROVE  Repeats(pr)
  BY <1>3, ExitRepeats
<1>4. ASSUME NEW r2, proc' = [proc EXCEPT ![pr] = r2], r2.mem = proc[pr].mem,
             r2.todo \subseteq Known(Home(pr)), UNCHANGED journal
      PROVE  Repeats(pr)
  BY <1>1, <1>2, <1>4 DEF Repeats
<1>5. ASSUME NEW h \in DOMAIN proc[pr].incoming, StoreChunk(pr, h)
      PROVE  Repeats(pr)
  BY <1>1, <1>2, <1>5 DEF StoreChunk, Repeats, ProcRec
<1>6. ASSUME Materialize(pr)
      PROVE  Repeats(pr)
  <2>1. CASE proc' = [proc EXCEPT ![pr].paths = Tail(@)]
    BY <1>1, <1>2, <1>6, <2>1 DEF Materialize, Repeats, ProcRec
  <2>2. QED
    BY <1>3, <1>6, <2>1 DEF Materialize
<1>7. ASSUME AllMaterialized(pr) \/ AllFetched(pr)
      PROVE  Repeats(pr)
  BY <1>1, <1>2, <1>7 DEF AllMaterialized, AllFetched, Repeats, ProcRec, disk
<1>8. ASSUME CloseJournal(pr)
      PROVE  Repeats(pr)
  BY <1>1, <1>2, <1>3, <1>8 DEF CloseJournal, Repeats, ProcRec, disk
<1>9. ASSUME SendRequest(pr) \/ ServeRequest(pr) \/ SendDone(pr) \/ RecvData(pr)
      PROVE  Repeats(pr)
  BY <1>1, <1>2, <1>9 DEF SendRequest, ServeRequest, SendDone, RecvData, Repeats, ProcRec, disk
<1>10. ASSUME RecvManifest(pr)
       PROVE  Repeats(pr)
  <2>1. /\ proc'[pr].mem = proc[pr].mem /\ proc'[pr].todo = Head(chan[pr]).entries
        /\ journal' = journal /\ \A q \in Proc \ {pr} : proc'[q] = proc[q]
        /\ chan[pr] # <<>> /\ Head(chan[pr]).type = "MANIFEST"
    BY <1>1, <1>10 DEF RecvManifest, Arrived, Expected, ProcRec, disk
  <2>2. Head(chan[pr]).entries \subseteq Known(Home(pr))
    BY <1>1, <1>2, <2>1, FirstFrame
  <2>3. QED
    BY <1>2, <2>1, <2>2 DEF Repeats
<1>11. ASSUME OpenJournal(pr)
       PROVE  Repeats(pr)
  <2>1. /\ proc'[pr].mem = proc[pr].mem /\ proc'[pr].todo = all_entries(proc[pr].mem)
        /\ \A q \in Proc \ {pr} : proc'[q] = proc[q]
        /\ \A n \in Node : journal'[n] = IF n = Home(pr) THEN EmptyStore ELSE journal[n]
    BY <1>1, <1>11 DEF OpenJournal, ProcRec
  <2>2. all_entries(EmptyStore) = {}
    BY EmptyStoreType DEF all_entries
  <2>3. QED
    BY <1>2, <2>1, <2>2 DEF Repeats
<1>12. ASSUME NEW e \in proc[pr].todo, WriteLine(pr, e)
       PROVE  Repeats(pr)
  <2>1. DEFINE j2 == load_entry(journal[Home(pr)], e)
  <2>2. /\ proc'[pr].mem = proc[pr].mem /\ proc'[pr].todo \subseteq proc[pr].todo
        /\ \A q \in Proc \ {pr} : proc'[q] = proc[q]
        /\ \A n \in Node : journal'[n] = IF n = Home(pr) THEN j2 ELSE journal[n]
    BY <1>1, <1>12 DEF WriteLine, ProcRec
  <2>3. IsStore(journal[Home(pr)]) /\ e \in FileEntry
    BY <1>1, StoreIsStore DEF ProcRec, Good
  <2>4. all_entries(j2) \subseteq all_entries(journal[Home(pr)]) \cup {e}
    BY <2>3, LoadEntryFacts DEF LoadStep
  <2>5. HIDE DEF j2
  <2>6. QED
    BY <1>1, <1>2, <2>2, <2>4 DEF Repeats
<1>13. ASSUME RecvDone(pr) \/ Fail(pr)
       PROVE  Repeats(pr)
  BY <1>3, <1>13 DEF RecvDone, Fail, disk
<1>14. QED
  BY <1>5, <1>6, <1>7, <1>8, <1>9, <1>10, <1>11, <1>12, <1>13 DEF Step

LEMMA CommandRepeats ==
  ASSUME IInv, NEW pr \in Proc, Command(pr)
  PROVE  \/ Repeats(pr)
         \/ \E p \in UserPath : StartRm(pr, p)
         \/ \E qr \in Proc : SyncWith(pr, qr)
<1>1. proc \in [Proc -> ProcRec] /\ Loaded(pr) \in ProcRec /\ Loaded(pr).mem = journal[Home(pr)]
  BY LoadedType DEF IInv, Typed
<1>2. /\ all_entries(journal[Home(pr)]) \subseteq Known(Home(pr))
      /\ \A n \in Node : all_entries(journal[n]) \subseteq Known(n)
  BY HeldIsKnown, KnownIs
<1>3. Loaded(pr).todo = {}
  BY DEF Loaded, Exited
<1>4. ASSUME StartListen(pr)
      PROVE  Repeats(pr)
  BY <1>1, <1>2, <1>3, <1>4 DEF StartListen, Repeats, ProcRec, disk
<1>5. ASSUME NEW p \in UserPath, NEW f \in FileContent, StartAdd(pr, p, f)
      PROVE  Repeats(pr)
  <2>1. DEFINE r2 == [Loaded(pr) EXCEPT !.pc = "adding", !.adding = f,
                                        !.incoming = WholeChunks(f), !.paths = <<p>>]
  <2>2. proc' = [proc EXCEPT ![pr] = r2] /\ journal' = journal
    BY <1>5 DEF StartAdd, disk
  <2>3. r2.mem = journal[Home(pr)] /\ r2.todo = {}
    BY <1>1, <1>3 DEF ProcRec
  <2>4. HIDE DEF r2
  <2>5. proc'[pr] = r2 /\ \A q \in Proc \ {pr} : proc'[q] = proc[q]
    BY <1>1, <2>2
  <2>6. QED
    BY <1>2, <2>2, <2>3, <2>5 DEF Repeats
<1>6. ASSUME StopListening(pr)
      PROVE  Repeats(pr)
  BY <1>6, ExitRepeats DEF StopListening, disk
<1>7. QED
  BY <1>4, <1>5, <1>6 DEF Command

\* The counters of other nodes in what a node knows.
LEMMA KnownIsRemembered ==
  ASSUME PublishedIsDurable, NEW n \in Node, NEW m \in Node \ {n}, NEW e \in Known(n)
  PROVE  Remembered(Kept(m), m, e)
  BY DEF PublishedIsDurable, Remembered

LEMMA PutLocalPublishes ==
  ASSUME KeptGrows, IInv, IInv', PublishedIsDurable, NEW pr \in Proc, PutLocal(pr)
  PROVE  PublishedIsDurable'
<1>1. DEFINE p  == Head(proc[pr].paths)
             es == proc[pr].mem
             es2 == put_local(es, Home(pr), p, proc[pr].adding)
<1>2. /\ proc \in [Proc -> ProcRec] /\ proc[pr] \in ProcRec
      /\ ProcOK(proc[pr], DOMAIN blobs[Home(pr)]) /\ Home(pr) \in Node
  BY HomeType DEF IInv, Typed
<1>3. /\ proc[pr].pc = "adding" /\ Len(proc[pr].paths) = 1 /\ proc[pr].paths \in Seq(Path)
      /\ es \in Store /\ proc[pr].adding \in Seq(Chunk)
  BY <1>2 DEF PutLocal, ProcOK, ProcRec
<1>4. p \in Path /\ IsStore(es)
  BY <1>3, StoreIsStore
<1>5. es2 \in Store /\ LocalEdit(es, es2, Home(pr), p)
  BY <1>2, <1>3, <1>4, PutInStore, PutLocalFacts
<1>6. /\ journal' = journal /\ proc'[pr].mem = es2 /\ proc'[pr].todo = proc[pr].todo
      /\ \A q \in Proc \ {pr} : proc'[q] = proc[q]
  BY <1>2 DEF PutLocal, disk, ProcRec
<1>7. HIDE DEF es2, p
<1>8. Step(pr) /\ ~ SendManifest(pr)
  BY <1>3 DEF Step, SendManifest
<1>9. ASSUME NEW m \in Node \ {Home(pr)}, NEW f \in all_entries(es2)
      PROVE  f \in Good /\ Remembered(Kept(m), m, f)
  <2>1. Kept(m) \in SUBSET Store /\ Kept(m) # {}
    BY KeptIsStores
  <2>2. \A g \in all_entries(es) : Remembered(Kept(m), m, g)
    BY <1>2, HeldIsKnown, KnownIsRemembered
  <2>3. QED
    BY <1>2, <1>3, <1>4, <1>5, <2>1, <2>2, RememberedEdit, StoreIsStore
<1>10. ASSUME NEW m \in Node \ {Home(pr)}, NEW f \in Holds(proc'[pr], chan'[pr])
       PROVE  f \in Known(Home(pr)) \/ (f \in Good /\ Remembered(Kept(m), m, f))
  <2>1. /\ \A i \in DOMAIN chan'[pr] : chan'[pr][i].type = "MANIFEST" =>
              chan'[pr][i].entries \subseteq Known(Home(pr)) \cup all_entries(es2)
        /\ proc[pr].todo \subseteq Known(Home(pr)) \cup all_entries(es2)
    BY <1>8, HeldElsewhere, HeldIsKnown
  <2>2. Holds(proc'[pr], chan'[pr]) \subseteq Known(Home(pr)) \cup all_entries(es2)
    BY <1>6, <2>1, HeldIntro
  <2>3. QED
    BY <1>9, <2>2
<1>11. \A q \in Proc \ {pr} : Holds(proc'[q], chan'[q]) \subseteq Known(Home(q))
  BY <1>6, <1>8, HeldElsewhere
<1>12. QED
  BY <1>6, <1>10, <1>11, PublishedNews

LEMMA StartRmPublishes ==
  ASSUME KeptGrows, IInv, IInv', PublishedIsDurable, NEW pr \in Proc, NEW p \in UserPath,
         StartRm(pr, p)
  PROVE  PublishedIsDurable'
<1>1. DEFINE es == journal[Home(pr)]
             es2 == delete_local(es, Home(pr), p)
<1>2. /\ proc \in [Proc -> ProcRec] /\ Home(pr) \in Node /\ es \in Store /\ p \in Path
      /\ Loaded(pr) \in ProcRec /\ Loaded(pr).mem = es /\ Loaded(pr).todo = {}
  BY HomeType, LoadedType, SyncNodeAssumption DEF IInv, Typed, Loaded, Exited
<1>3. IsStore(es)
  BY <1>2, StoreIsStore
<1>4. es2 \in Store /\ LocalEdit(es, es2, Home(pr), p)
  BY <1>2, <1>3, DeleteInStore, DeleteLocalFacts
<1>5. /\ journal' = journal /\ proc'[pr].mem = es2 /\ proc'[pr].todo = {}
      /\ \A q \in Proc \ {pr} : proc'[q] = proc[q]
  BY <1>2 DEF StartRm, disk, ProcRec
<1>6. HIDE DEF es2
<1>7. Command(pr) /\ ~ SendManifest(pr)
  BY DEF Command, StartRm, SendManifest
<1>8. ASSUME NEW m \in Node \ {Home(pr)}, NEW f \in all_entries(es2)
      PROVE  f \in Good /\ Remembered(Kept(m), m, f)
  <2>1. Kept(m) \in SUBSET Store /\ Kept(m) # {}
    BY KeptIsStores
  <2>2. \A g \in all_entries(es) : Remembered(Kept(m), m, g)
    BY <1>2, HeldIsKnown, KnownIsRemembered
  <2>3. QED
    BY <1>2, <1>4, <2>1, <2>2, RememberedEdit, StoreIsStore
<1>9. ASSUME NEW m \in Node \ {Home(pr)}, NEW f \in Holds(proc'[pr], chan'[pr])
      PROVE  f \in Known(Home(pr)) \/ (f \in Good /\ Remembered(Kept(m), m, f))
  <2>1. \A i \in DOMAIN chan'[pr] : chan'[pr][i].type = "MANIFEST" =>
           chan'[pr][i].entries \subseteq Known(Home(pr)) \cup all_entries(es2)
    BY <1>7, HeldElsewhere
  <2>2. Holds(proc'[pr], chan'[pr]) \subseteq Known(Home(pr)) \cup all_entries(es2)
    BY <1>5, <2>1, HeldIntro
  <2>3. QED
    BY <1>8, <2>2
<1>10. \A q \in Proc \ {pr} : Holds(proc'[q], chan'[q]) \subseteq Known(Home(q))
  BY <1>5, <1>7, HeldElsewhere
<1>11. QED
  BY <1>5, <1>9, <1>10, PublishedNews

LEMMA MergeEntryPublishes ==
  ASSUME KeptGrows, IInv, IInv', PublishedIsDurable, NEW pr \in Proc,
         NEW e \in proc[pr].todo, MergeEntry(pr, e)
  PROVE  PublishedIsDurable'
<1>1. DEFINE es == proc[pr].mem
             es2 == merge_remote(es, e)
<1>2. /\ proc \in [Proc -> ProcRec] /\ proc[pr] \in ProcRec /\ Home(pr) \in Node
  BY HomeType DEF IInv, Typed
<1>3. es \in Store /\ e \in Good /\ proc[pr].pc = "merging"
  BY <1>2 DEF ProcRec, MergeEntry
<1>4. es2 \in Store
  BY <1>3, MergeInStore
<1>5. /\ journal' = journal /\ proc'[pr].mem = es2 /\ proc'[pr].todo \subseteq proc[pr].todo
      /\ \A q \in Proc \ {pr} : proc'[q] = proc[q]
  BY <1>2 DEF MergeEntry, disk, ProcRec
<1>6. Step(pr) /\ ~ SendManifest(pr)
  BY <1>3 DEF Step, SendManifest
<1>7. ASSUME NEW m \in Node \ {Home(pr)}, NEW f \in all_entries(es2)
      PROVE  f \in Good /\ Remembered(Kept(m), m, f)
  <2>1. Kept(m) \in SUBSET Store /\ Kept(m) # {}
    BY KeptIsStores
  <2>2. (\A g \in all_entries(es) : Remembered(Kept(m), m, g)) /\ Remembered(Kept(m), m, e)
    BY <1>2, HeldIsKnown, KnownIsRemembered
  <2>3. Remembered(Kept(m), m, f)
    BY <1>3, <2>1, <2>2, RememberedMerge
  <2>4. QED
    BY <1>4, <2>3, StoreIsStore
<1>8. HIDE DEF es2
<1>9. ASSUME NEW m \in Node \ {Home(pr)}, NEW f \in Holds(proc'[pr], chan'[pr])
      PROVE  f \in Known(Home(pr)) \/ (f \in Good /\ Remembered(Kept(m), m, f))
  <2>1. /\ \A i \in DOMAIN chan'[pr] : chan'[pr][i].type = "MANIFEST" =>
              chan'[pr][i].entries \subseteq Known(Home(pr)) \cup all_entries(es2)
        /\ proc[pr].todo \subseteq Known(Home(pr)) \cup all_entries(es2)
    BY <1>6, HeldElsewhere, HeldIsKnown
  <2>2. Holds(proc'[pr], chan'[pr]) \subseteq Known(Home(pr)) \cup all_entries(es2)
    BY <1>5, <2>1, HeldIntro
  <2>3. QED
    BY <1>7, <2>2
<1>10. \A q \in Proc \ {pr} : Holds(proc'[q], chan'[q]) \subseteq Known(Home(q))
  BY <1>5, <1>6, HeldElsewhere
<1>11. QED
  BY <1>5, <1>9, <1>10, PublishedNews

\* A manifest is made from what is on disk: this is what publishes an edit, and
\* a process that has not merged anything yet sends its journal.
LEMMA SendManifestPublishes ==
  ASSUME KeptGrows, IInv, JInv, IInv', PublishedIsDurable, NEW pr \in Proc, SendManifest(pr)
  PROVE  PublishedIsDurable'
<1>1. DEFINE es == proc[pr].mem
<1>2. /\ proc \in [Proc -> ProcRec] /\ proc[pr] \in ProcRec /\ Home(pr) \in Node
      /\ es \in Store /\ all_entries(es) \subseteq Good
  BY HomeType, StoreIsStore DEF IInv, Typed, ProcRec
<1>3. es = journal[Home(pr)]
  BY DEF SendManifest, JInv, JournalOK, AsLoaded
<1>4. /\ journal' = journal /\ proc'[pr].mem = es /\ proc'[pr].todo = proc[pr].todo
      /\ \A q \in Proc \ {pr} : proc'[q] = proc[q]
  BY <1>2 DEF SendManifest, disk, ProcRec
<1>5. \A q \in Proc : proc'[q].mem = proc[q].mem /\ proc'[q].todo = proc[q].todo
  BY <1>4
<1>6. Step(pr)
  BY DEF Step
<1>7. ASSUME NEW m \in Node, NEW f \in all_entries(es)
      PROVE  Remembered(Kept(m), m, f)
  <2>1. CASE m = Home(pr)
    <3>1. ClockAt(es, f.path) = f.clock /\ f.clock \in Clock
      BY <1>2, StoreIsStore, StoreLookup DEF Good, FileEntry
    <3>2. f.clock[m] <= ClockAt(es, f.path)[m]
      BY <3>1 DEF Clock
    <3>3. es \in Kept(m)
      BY <1>3, <2>1 DEF Kept
    <3>4. QED
      BY <3>2, <3>3 DEF Remembered
  <2>2. CASE m # Home(pr)
    BY <1>2, <2>2, HeldIsKnown, KnownIsRemembered
  <2>3. QED
    BY <2>1, <2>2
<1>8. ASSUME NEW q \in Proc, NEW i \in DOMAIN chan'[q], chan'[q][i].type = "MANIFEST"
      PROVE  \/ chan'[q][i].entries \subseteq Known(Home(q))
             \/ q = link[pr] /\ chan'[q][i].entries = all_entries(es)
  <2>1. CASE \E j \in DOMAIN chan[q] : chan'[q][i] = chan[q][j]
    BY <1>8, <2>1, HeldIsKnown
  <2>2. CASE q = link[pr] /\ link[q] = pr /\ NewFrame(pr, chan'[q][i])
    BY <1>8, <2>2 DEF NewFrame, serialize_manifest
  <2>3. QED
    BY <1>6, <2>1, <2>2, FrameSources
<1>9. ASSUME NEW q \in Proc
      PROVE  /\ Holds(proc'[q], chan'[q]) \subseteq Known(Home(q)) \cup all_entries(es)
             /\ q # link[pr] => Holds(proc'[q], chan'[q]) \subseteq Known(Home(q))
  <2>1. /\ all_entries(proc'[q].mem) \subseteq Known(Home(q))
        /\ proc'[q].todo \subseteq Known(Home(q))
    BY <1>5, HeldIsKnown
  <2>2. \A i \in DOMAIN chan'[q] : chan'[q][i].type = "MANIFEST" =>
           chan'[q][i].entries \subseteq Known(Home(q)) \cup all_entries(es)
    BY <1>8
  <2>3. Holds(proc'[q], chan'[q]) \subseteq Known(Home(q)) \cup all_entries(es)
    BY <2>1, <2>2, HeldIntro
  <2>4. ASSUME q # link[pr]
        PROVE  Holds(proc'[q], chan'[q]) \subseteq Known(Home(q))
    BY <1>8, <2>1, <2>4, HeldIntro
  <2>5. QED
    BY <2>3, <2>4
<1>10. CASE link[pr] \in Proc
  <2>1. \A q \in Proc \ {link[pr]} : Holds(proc'[q], chan'[q]) \subseteq Known(Home(q))
    BY <1>9
  <2>2. \A m \in Node \ {Home(link[pr])} : \A f \in Holds(proc'[link[pr]], chan'[link[pr]]) :
           f \in Known(Home(link[pr])) \/ (f \in Good /\ Remembered(Kept(m), m, f))
    BY <1>2, <1>7, <1>9, <1>10
  <2>3. QED
    BY <1>4, <1>10, <2>1, <2>2, PublishedNews
<1>11. CASE link[pr] \notin Proc
  <2>1. \A q \in Proc : Holds(proc'[q], chan'[q]) \subseteq Known(Home(q))
    BY <1>9, <1>11
  <2>2. \A n \in Node : all_entries(journal'[n]) \subseteq Known(n)
    BY <1>4, KnownIs
  <2>3. QED
    BY <2>1, <2>2, PublishedQuiet
<1>12. QED
  BY <1>10, <1>11

LEMMA SyncWithPublishes ==
  ASSUME KeptGrows, IInv, IInv', PublishedIsDurable, NEW pr \in Proc, NEW qr \in Proc,
         SyncWith(pr, qr)
  PROVE  PublishedIsDurable'
<1>1. /\ proc \in [Proc -> ProcRec] /\ Loaded(pr) \in ProcRec
      /\ Loaded(pr).mem = journal[Home(pr)] /\ Loaded(pr).todo = {}
  BY LoadedType DEF IInv, Typed, Loaded, Exited
<1>2. DEFINE r2 == [Loaded(pr) EXCEPT !.pc = "sendManifest"]
             l2 == [proc[qr] EXCEPT !.pc = "sendManifest"]
<1>3. pr # qr /\ journal' = journal
  BY DEF SyncWith, disk
<1>4. \A q \in Proc : proc'[q] = IF q = pr THEN r2 ELSE IF q = qr THEN l2 ELSE proc[q]
  BY <1>1, <1>3 DEF SyncWith
<1>5. /\ r2.mem = journal[Home(pr)] /\ r2.todo = {}
      /\ l2.mem = proc[qr].mem /\ l2.todo = proc[qr].todo
  BY <1>1 DEF ProcRec
<1>6. HIDE DEF r2, l2
<1>7. Command(pr) /\ ~ SendManifest(pr)
  BY DEF Command, SyncWith, SendManifest
<1>8. ASSUME NEW q \in Proc
      PROVE  Holds(proc'[q], chan'[q]) \subseteq Known(Home(q))
  <2>1. /\ all_entries(proc'[q].mem) \subseteq Known(Home(q))
        /\ proc'[q].todo \subseteq Known(Home(q))
    BY <1>4, <1>5, HeldIsKnown DEF all_entries
  <2>2. \A i \in DOMAIN chan'[q] :
           chan'[q][i].type = "MANIFEST" => chan'[q][i].entries \subseteq Known(Home(q))
    BY <1>7, HeldElsewhere
  <2>3. QED
    BY <2>1, <2>2, HeldIntro
<1>9. \A n \in Node : all_entries(journal'[n]) \subseteq Known(n)
  BY <1>3, KnownIs
<1>10. QED
  BY <1>8, <1>9, PublishedQuiet

LEMMA PublishedInit == Init => PublishedIsDurable
<1>1. SUFFICES ASSUME Init, NEW n \in Node, NEW e \in Known(n)
               PROVE  FALSE
  BY DEF PublishedIsDurable
<1>2. /\ Exited.mem = EmptyStore /\ Exited.todo = {} /\ all_entries(EmptyStore) = {}
  BY EmptyStoreType DEF Exited, all_entries
<1>3. journal[n] = EmptyStore /\ \A q \in Proc : proc[q] = Exited /\ chan[q] = <<>>
  BY <1>1 DEF Init
<1>4. PICK q \in Proc : e \in Holds(proc[q], chan[q])
  BY <1>2, <1>3, KnownIs
<1>5. QED
  BY <1>2, <1>3, <1>4 DEF Holds

LEMMA PublishedStep ==
  ASSUME OneAtATime, "writing" \notin CrashPoints, IInv, JInv, IInv', PublishedIsDurable,
         [Next]_vars
  PROVE  PublishedIsDurable'
<1>1. KeptGrows
  BY KeptStep
<1>2. CASE UNCHANGED vars
  <2>1. (\A n \in Node : all_entries(journal'[n]) \subseteq Known(n))
        /\ \A q \in Proc : Holds(proc'[q], chan'[q]) \subseteq Known(Home(q))
    BY <1>2, KnownIs DEF vars
  <2>2. QED
    BY <1>1, <2>1, PublishedQuiet
<1>3. ASSUME NEW pr \in Proc, Command(pr)
      PROVE  PublishedIsDurable'
  <2>1. ~ SendManifest(pr)
    BY <1>3 DEF Command, StartAdd, StartRm, StartListen, StopListening, SyncWith, SendManifest
  <2>2. QED
    BY <1>1, <1>3, <2>1, CommandRepeats, RepeatsPublishes, StartRmPublishes, SyncWithPublishes
<1>4. ASSUME NEW pr \in Proc, Step(pr)
      PROVE  PublishedIsDurable'
  BY <1>1, <1>4, StepRepeats, RepeatsPublishes, PutLocalPublishes, MergeEntryPublishes,
     SendManifestPublishes
<1>5. ASSUME NEW pr \in Proc, Killed(pr)
      PROVE  PublishedIsDurable'
  <2>1. Exit(pr) /\ UNCHANGED journal
    BY <1>5 DEF Killed, Crash, CrashInPutChunk, CrashInLine, disk
  <2>2. CASE ~ SendManifest(pr)
    BY <1>1, <1>5, <2>1, <2>2, ExitRepeats, RepeatsPublishes
  <2>3. CASE SendManifest(pr)
    BY <1>1, <2>3, SendManifestPublishes
  <2>4. QED
    BY <2>2, <2>3
<1>6. QED
  BY <1>2, <1>3, <1>4, <1>5 DEF Next

\* Nobody hears of an edit that its node could forget: add, rm and sync may be
\* killed anywhere but in save_journal, and the counters other nodes have seen
\* of a node are on its disk.
THEOREM PublishedIsDurableHolds ==
  ASSUME OneAtATime, "writing" \notin CrashPoints
  PROVE  Spec => []PublishedIsDurable
<1>1. Init => IInv /\ JInv /\ PublishedIsDurable
  BY IInvInit, JInvInit, PublishedInit
<1>2. (IInv /\ JInv /\ PublishedIsDurable) /\ [Next]_vars => (IInv /\ JInv /\ PublishedIsDurable)'
  BY IInvStep, JInvStep, PublishedStep
<1>3. QED
  BY <1>1, <1>2, PTL DEF Spec

-----------------------------------------------------------------------------
(* What is written out is what is recorded.  Chunk files that are never cut *)
(* short hold the bytes of their hash, wherever the bytes came from.        *)

Whole(m) == \A h \in DOMAIN m : m[h] = h

WInv ==
  /\ \A n \in Node : Whole(blobs[n])
  /\ \A pr \in Proc : Whole(proc[pr].incoming)
  /\ \A pr \in Proc : \A i \in DOMAIN chan[pr] :
        chan[pr][i].type = "CHUNK_DATA" => Whole(chan[pr][i].chunks)

LEMMA NoChunksWhole == Whole(NoChunks)
  BY NoChunksType DEF Whole

LEMMA WholeChunksWhole ==
  ASSUME NEW hashes
  PROVE  Whole(WholeChunks(hashes))
  BY DEF Whole, WholeChunks

LEMMA PutChunkWhole ==
  ASSUME NEW m, NEW h, Whole(m)
  PROVE  Whole(put_chunk(m, h, h))
  BY DEF Whole, put_chunk

LEMMA ServeWhole ==
  ASSUME NEW m, NEW hashes, Whole(m)
  PROVE  Whole(Serve(m, hashes))
  BY DEF Whole, Serve, has_chunk

LEMMA WInvInit == Init => WInv
<1>1. Exited.incoming = NoChunks
  BY DEF Exited
<1>2. QED
  BY <1>1, NoChunksWhole DEF Init, WInv

\* No step but a kill in put_chunk makes a chunk file that is cut short.
LEMMA IncomingWhole ==
  ASSUME IInv, WInv, NEW pr \in Proc, Command(pr) \/ Step(pr) \/ Killed(pr), NEW q \in Proc
  PROVE  Whole(proc'[q].incoming)
<1>1. /\ proc \in [Proc -> ProcRec] /\ proc[pr] \in ProcRec /\ Typed
      /\ Loaded(pr) \in ProcRec /\ Loaded(pr).incoming = NoChunks /\ Exited.incoming = NoChunks
  BY LoadedType DEF IInv, Typed, Loaded, Exited
<1>2. CASE proc'[q].incoming = proc[q].incoming
  BY <1>2 DEF WInv
<1>3. CASE proc'[q].incoming = NoChunks
  BY <1>3, NoChunksWhole
<1>4. CASE Exit(pr)
  <2>1. proc'[q] = IF q = pr THEN Exited ELSE proc[q]
    BY <1>1, <1>4 DEF Exit
  <2>2. QED
    BY <1>1, <1>2, <1>3, <2>1
<1>5. ASSUME NEW p \in UserPath, NEW f \in FileContent, StartAdd(pr, p, f)
      PROVE  Whole(proc'[q].incoming)
  <2>1. DEFINE r2 == [Loaded(pr) EXCEPT !.pc = "adding", !.adding = f,
                                        !.incoming = WholeChunks(f), !.paths = <<p>>]
  <2>2. proc' = [proc EXCEPT ![pr] = r2]
    BY <1>5 DEF StartAdd
  <2>3. r2.incoming = WholeChunks(f)
    BY <1>1 DEF ProcRec
  <2>4. HIDE DEF r2
  <2>5. proc'[q] = IF q = pr THEN r2 ELSE proc[q]
    BY <1>1, <2>2
  <2>6. QED
    BY <1>2, <2>3, <2>5, WholeChunksWhole
<1>6. ASSUME NEW p \in UserPath, StartRm(pr, p)
      PROVE  Whole(proc'[q].incoming)
  <2>1. proc'[q].incoming \in {NoChunks, proc[q].incoming}
    BY <1>1, <1>6 DEF StartRm, ProcRec
  <2>2. QED
    BY <1>2, <1>3, <2>1
<1>7. ASSUME StartListen(pr)
      PROVE  Whole(proc'[q].incoming)
  <2>1. proc'[q].incoming \in {NoChunks, proc[q].incoming}
    BY <1>1, <1>7 DEF StartListen, ProcRec
  <2>2. QED
    BY <1>2, <1>3, <2>1
<1>8. ASSUME NEW qr \in Proc, SyncWith(pr, qr)
      PROVE  Whole(proc'[q].incoming)
  <2>1. DEFINE r2 == [Loaded(pr) EXCEPT !.pc = "sendManifest"]
               l2 == [proc[qr] EXCEPT !.pc = "sendManifest"]
  <2>2. pr # qr
    BY <1>8 DEF SyncWith
  <2>3. proc'[q] = IF q = pr THEN r2 ELSE IF q = qr THEN l2 ELSE proc[q]
    BY <1>1, <1>8, <2>2 DEF SyncWith
  <2>4. r2.incoming = NoChunks /\ l2.incoming = proc[qr].incoming
    BY <1>1 DEF ProcRec
  <2>5. HIDE DEF r2, l2
  <2>6. QED
    BY <1>2, <1>3, <2>3, <2>4
<1>9. ASSUME NEW h \in DOMAIN proc[pr].incoming, StoreChunk(pr, h)
      PROVE  Whole(proc'[q].incoming)
  <2>1. DEFINE rest == [x \in DOMAIN proc[pr].incoming \ {h} |-> proc[pr].incoming[x]]
  <2>2. Whole(rest)
    BY DEF WInv, Whole
  <2>3. proc' = [proc EXCEPT ![pr].incoming = rest]
    BY <1>9 DEF StoreChunk
  <2>4. HIDE DEF rest
  <2>5. proc'[q].incoming = IF q = pr THEN rest ELSE proc[q].incoming
    BY <1>1, <2>3 DEF ProcRec
  <2>6. QED
    BY <1>2, <2>2, <2>5
<1>10. ASSUME RecvData(pr)
       PROVE  Whole(proc'[q].incoming)
  <2>1. /\ proc'[q].incoming \in {Head(chan[pr]).chunks, proc[q].incoming}
        /\ chan[pr] # <<>> /\ Head(chan[pr]).type = "CHUNK_DATA"
    BY <1>1, <1>10 DEF RecvData, Arrived, Expected, ProcRec
  <2>2. Whole(Head(chan[pr]).chunks)
    BY <1>1, <2>1, FirstFrame DEF WInv
  <2>3. QED
    BY <1>2, <2>1, <2>2
<1>11. ASSUME \/ PutLocal(pr) \/ AllMaterialized(pr) \/ OpenJournal(pr)
              \/ SendManifest(pr) \/ RecvManifest(pr) \/ SendRequest(pr) \/ ServeRequest(pr)
              \/ AllFetched(pr) \/ SendDone(pr)
       PROVE  Whole(proc'[q].incoming)
  <2>1. proc'[q].incoming = proc[q].incoming
    <3>1. CASE PutLocal(pr)
      BY <1>1, <3>1 DEF PutLocal, ProcRec
    <3>2. CASE AllMaterialized(pr)
      BY <1>1, <3>2 DEF AllMaterialized, ProcRec
    <3>3. CASE OpenJournal(pr)
      BY <1>1, <3>3 DEF OpenJournal, ProcRec
    <3>4. CASE SendManifest(pr)
      BY <1>1, <3>4 DEF SendManifest, ProcRec
    <3>5. CASE RecvManifest(pr)
      BY <1>1, <3>5 DEF RecvManifest, ProcRec
    <3>6. CASE SendRequest(pr)
      BY <1>1, <3>6 DEF SendRequest, ProcRec
    <3>7. CASE ServeRequest(pr)
      BY <1>1, <3>7 DEF ServeRequest, ProcRec
    <3>8. CASE AllFetched(pr)
      BY <1>1, <3>8 DEF AllFetched, ProcRec
    <3>9. CASE SendDone(pr)
      BY <1>1, <3>9 DEF SendDone, ProcRec
    <3>10. QED
      BY <1>11, <3>1, <3>2, <3>3, <3>4, <3>5, <3>6, <3>7, <3>8, <3>9
  <2>2. QED
    BY <1>2, <2>1
<1>12. ASSUME NEW e \in proc[pr].todo, WriteLine(pr, e) \/ MergeEntry(pr, e)
       PROVE  Whole(proc'[q].incoming)
  <2>1. proc'[q].incoming = proc[q].incoming
    <3>1. CASE WriteLine(pr, e)
      BY <1>1, <3>1 DEF WriteLine, ProcRec
    <3>2. CASE MergeEntry(pr, e)
      BY <1>1, <3>2 DEF MergeEntry, ProcRec
    <3>3. QED
      BY <1>12, <3>1, <3>2
  <2>2. QED
    BY <1>2, <2>1
<1>13. ASSUME Materialize(pr) \/ CloseJournal(pr), ~ Exit(pr)
       PROVE  Whole(proc'[q].incoming)
  <2>1. proc'[q].incoming = proc[q].incoming
    <3>1. CASE Materialize(pr)
      <4>1. proc' = [proc EXCEPT ![pr].paths = Tail(@)]
        BY <1>13, <3>1 DEF Materialize
      <4>2. QED
        BY <1>1, <4>1 DEF ProcRec
    <3>2. CASE CloseJournal(pr)
      <4>1. proc' = [proc EXCEPT ![pr].pc = "sendDone"]
        BY <1>13, <3>2 DEF CloseJournal
      <4>2. QED
        BY <1>1, <4>1 DEF ProcRec
    <3>3. QED
      BY <1>13, <3>1, <3>2
  <2>2. QED
    BY <1>2, <2>1
<1>14. ASSUME RecvDone(pr) \/ Fail(pr) \/ Killed(pr) \/ StopListening(pr)
       PROVE  Exit(pr)
  BY <1>14 DEF RecvDone, Fail, Killed, Crash, CrashInPutChunk, CrashInLine, StopListening
<1>15. CASE Step(pr)
  BY <1>4, <1>9, <1>10, <1>11, <1>12, <1>13, <1>14, <1>15 DEF Step
<1>16. CASE Command(pr)
  BY <1>4, <1>5, <1>6, <1>7, <1>8, <1>14, <1>16 DEF Command
<1>17. QED
  BY <1>4, <1>14, <1>15, <1>16

LEMMA BlobsWhole ==
  ASSUME ~ TornWrites, IInv, WInv, NEW pr \in Proc, Command(pr) \/ Step(pr) \/ Killed(pr),
         NEW n \in Node
  PROVE  Whole(blobs'[n])
<1>1. blobs \in [Node -> ChunkMap] /\ Whole(blobs[n])
  BY DEF IInv, Typed, WInv
<1>2. CASE blobs' = blobs
  BY <1>1, <1>2
<1>3. ASSUME NEW h \in DOMAIN proc[pr].incoming, StoreChunk(pr, h)
      PROVE  Whole(blobs'[n])
  <2>1. proc[pr].incoming[h] = h
    BY DEF WInv, Whole
  <2>2. blobs'[n] \in {blobs[n], put_chunk(blobs[n], h, h)}
    BY <1>1, <1>3, <2>1 DEF StoreChunk
  <2>3. QED
    BY <1>1, <2>2, PutChunkWhole
<1>4. CASE Step(pr)
  BY <1>2, <1>3, <1>4 DEF Step, PutLocal, Materialize, AllMaterialized, OpenJournal, WriteLine,
     CloseJournal, SendManifest, RecvManifest, MergeEntry, SendRequest, ServeRequest, RecvData,
     AllFetched, SendDone, RecvDone, Fail, disk
<1>5. CASE Command(pr) \/ Killed(pr)
  BY <1>2, <1>5 DEF Command, StartAdd, StartRm, StartListen, StopListening, SyncWith, Killed,
     Crash, CrashInPutChunk, CrashInLine, disk
<1>6. QED
  BY <1>4, <1>5

LEMMA WInvStep ==
  ASSUME ~ TornWrites, IInv, WInv, [Next]_vars
  PROVE  WInv'
<1>1. CASE UNCHANGED vars
  BY <1>1 DEF vars, WInv
<1>2. ASSUME NEW pr \in Proc, Command(pr) \/ Step(pr) \/ Killed(pr)
      PROVE  WInv'
  <2>1. ASSUME NEW q \in Proc, NEW i \in DOMAIN chan'[q], chan'[q][i].type = "CHUNK_DATA"
        PROVE  Whole(chan'[q][i].chunks)
    <3>1. CASE \E j \in DOMAIN chan[q] : chan'[q][i] = chan[q][j]
      BY <2>1, <3>1 DEF WInv
    <3>2. CASE NewFrame(pr, chan'[q][i])
      <4>1. chan'[q][i].chunks = Serve(blobs[Home(pr)], Head(chan[pr]).hashes)
        BY <2>1, <3>2 DEF NewFrame
      <4>2. QED
        BY <4>1, HomeType, ServeWhole DEF WInv
    <3>3. QED
      BY <1>2, <3>1, <3>2, FrameSources
  <2>2. (\A q \in Proc : Whole(proc'[q].incoming)) /\ \A n \in Node : Whole(blobs'[n])
    BY <1>2, IncomingWhole, BlobsWhole
  <2>3. QED
    BY <2>1, <2>2 DEF WInv
<1>3. QED
  BY <1>1, <1>2 DEF Next

\* From the moment a process writes files out until it has saved the journal.
Touching == {"materializing", "saving", "writing"}

Shown(e, dir) == has_content(e) => e.path \in DOMAIN dir /\ dir[e.path] = e.chunk_hashes

AllShown(es, dir) == \A p \in DOMAIN es : Shown(es[p], dir)

\* A version in memory is on disk as a file or on the list of files to write.
MemShown(r, dir) ==
  \A p \in DOMAIN r.mem : Shown(r.mem[p], dir) \/ (r.pc \in Unsettled /\ Listed(r.paths, p))

Calm(n) == \A pr \in Proc : Home(pr) = n => proc[pr].pc \notin Touching

FInv ==
  /\ \A pr \in Proc : MemShown(proc[pr], files[Home(pr)])
  /\ \A n \in Node : Calm(n) => AllShown(journal[n], files[n])

LEMMA CalmAt ==
  ASSUME OneAtATime, FInv, NEW pr \in Proc, proc[pr].pc \notin Touching
  PROVE  AllShown(journal[Home(pr)], files[Home(pr)])
  BY HomeType DEF OneAtATime, FInv, Calm

LEMMA FilesMove ==
  ASSUME OneAtATime, IInv, FInv, NEW pr \in Proc, NEW r2, proc' = [proc EXCEPT ![pr] = r2],
         NEW j, journal' = journal \/ journal' = [journal EXCEPT ![Home(pr)] = j],
         NEW d, files' = files \/ files' = [files EXCEPT ![Home(pr)] = d],
         MemShown(r2, files'[Home(pr)]),
         r2.pc \notin Touching => AllShown(journal'[Home(pr)], files'[Home(pr)])
  PROVE  FInv'
<1>1. proc \in [Proc -> ProcRec] /\ journal \in [Node -> Store] /\ files \in [Node -> Dir]
  BY DEF IInv, Typed
<1>2. \A q \in Proc : proc'[q] = IF q = pr THEN r2 ELSE proc[q]
  BY <1>1
<1>3. \A n \in Node \ {Home(pr)} : journal'[n] = journal[n] /\ files'[n] = files[n]
  BY <1>1
<1>4. \A q \in Proc \ {pr} : Home(q) \in Node \ {Home(pr)}
  BY HomeType DEF OneAtATime
<1>5. ASSUME NEW q \in Proc
      PROVE  MemShown(proc'[q], files'[Home(q)])
  BY <1>2, <1>3, <1>4 DEF FInv
<1>6. ASSUME NEW n \in Node, \A q \in Proc : Home(q) = n => proc'[q].pc \notin Touching
      PROVE  AllShown(journal'[n], files'[n])
  <2>1. CASE n = Home(pr)
    BY <1>2, <1>6, <2>1
  <2>2. CASE n # Home(pr)
    <3>1. Calm(n)
      BY <1>2, <1>6, <2>2 DEF Calm
    <3>2. QED
      BY <1>3, <2>2, <3>1 DEF FInv
  <2>3. QED
    BY <2>1, <2>2
<1>7. (\A q \in Proc : MemShown(proc'[q], files'[HomeOf[q]])) /\
      \A n \in Node : (\A q \in Proc : HomeOf[q] = n => proc'[q].pc \notin Touching)
                        => AllShown(journal'[n], files'[n])
  BY <1>5, <1>6 DEF Home
<1>8. QED
  BY <1>7 DEF FInv, Calm, Home

\* A saved journal has the entries that were in memory.
LEMMA SavedIsShown ==
  ASSUME OneAtATime, IInv, JInv, FInv, NEW pr \in Proc,
         proc[pr].pc \notin Touching \/ (proc[pr].pc = "writing" /\ proc[pr].todo = {})
  PROVE  AllShown(journal[Home(pr)], files[Home(pr)])
<1>1. CASE proc[pr].pc \notin Touching
  BY <1>1, CalmAt
<1>2. CASE proc[pr].pc = "writing" /\ proc[pr].todo = {}
  <2>1. all_entries(proc[pr].mem) = all_entries(journal[Home(pr)])
    BY <1>2 DEF JInv, JournalOK
  <2>2. \A p \in DOMAIN proc[pr].mem : Shown(proc[pr].mem[p], files[Home(pr)])
    BY <1>2 DEF FInv, MemShown, Unsettled
  <2>3. \A e \in all_entries(proc[pr].mem) : Shown(e, files[Home(pr)])
    BY <2>2 DEF all_entries
  <2>4. \A p \in DOMAIN journal[Home(pr)] : journal[Home(pr)][p] \in all_entries(journal[Home(pr)])
    BY DEF all_entries
  <2>5. QED
    BY <2>1, <2>3, <2>4 DEF AllShown
<1>3. QED
  BY <1>1, <1>2

\* Steps that change neither the entries in memory nor the list of files.
Steady(pr) ==
  /\ proc' = [proc EXCEPT ![pr] = proc'[pr]]
  /\ proc'[pr].mem = proc[pr].mem /\ proc'[pr].paths = proc[pr].paths
  /\ UNCHANGED <<journal, files>>
  /\ proc[pr].pc \in Unsettled => proc'[pr].pc \in Unsettled
  /\ proc'[pr].pc \notin Touching =>
       proc[pr].pc \notin Touching \/ (proc[pr].pc = "writing" /\ proc[pr].todo = {})

SteadyEnd(pr) ==
  /\ Exit(pr)
  /\ UNCHANGED <<journal, files>>
  /\ proc[pr].pc \notin Touching \/ (proc[pr].pc = "writing" /\ proc[pr].todo = {})

LEMMA SteadyFiles ==
  ASSUME OneAtATime, IInv, JInv, FInv, NEW pr \in Proc, Steady(pr)
  PROVE  FInv'
<1>1. MemShown(proc'[pr], files'[Home(pr)])
  BY DEF Steady, FInv, MemShown
<1>2. proc'[pr].pc \notin Touching => AllShown(journal'[Home(pr)], files'[Home(pr)])
  BY SavedIsShown DEF Steady
<1>3. proc' = [proc EXCEPT ![pr] = proc'[pr]] /\ journal' = journal /\ files' = files
  BY DEF Steady
<1>4. QED
  BY <1>1, <1>2, <1>3, FilesMove

LEMMA SteadyEndFiles ==
  ASSUME OneAtATime, IInv, JInv, FInv, NEW pr \in Proc, SteadyEnd(pr)
  PROVE  FInv'
<1>1. Exited.mem = EmptyStore
  BY DEF Exited
<1>2. MemShown(Exited, files'[Home(pr)])
  BY <1>1, EmptyStoreType DEF MemShown
<1>3. AllShown(journal'[Home(pr)], files'[Home(pr)])
  BY SavedIsShown DEF SteadyEnd
<1>4. proc' = [proc EXCEPT ![pr] = Exited] /\ journal' = journal /\ files' = files
  BY DEF SteadyEnd, Exit
<1>5. QED
  BY <1>2, <1>3, <1>4, FilesMove

LEMMA StepIsSteady ==
  ASSUME IInv, NEW pr \in Proc, Step(pr)
  PROVE  \/ Steady(pr) \/ SteadyEnd(pr)
         \/ Materialize(pr) \/ AllMaterialized(pr) \/ PutLocal(pr) \/ OpenJournal(pr)
         \/ \E e \in proc[pr].todo : WriteLine(pr, e) \/ MergeEntry(pr, e)
<1>1. proc \in [Proc -> ProcRec] /\ proc[pr] \in ProcRec
  BY DEF IInv, Typed
<1>2. ASSUME NEW h \in DOMAIN proc[pr].incoming, StoreChunk(pr, h)
      PROVE  Steady(pr)
  <2>1. DEFINE rest == [x \in DOMAIN proc[pr].incoming \ {h} |-> proc[pr].incoming[x]]
  <2>2. proc' = [proc EXCEPT ![pr].incoming = rest]
    BY <1>2 DEF StoreChunk
  <2>3. HIDE DEF rest
  <2>4. QED
    BY <1>1, <1>2, <2>2 DEF StoreChunk, Steady, Touching, Unsettled, ProcRec
<1>3. ASSUME CloseJournal(pr)
      PROVE  Steady(pr) \/ SteadyEnd(pr)
  <2>1. proc[pr].pc = "writing" /\ proc[pr].todo = {} /\ UNCHANGED <<journal, files>>
    BY <1>3 DEF CloseJournal, disk
  <2>2. CASE Exit(pr)
    BY <2>1, <2>2 DEF SteadyEnd
  <2>3. CASE proc' = [proc EXCEPT ![pr].pc = "sendDone"]
    BY <1>1, <2>1, <2>3 DEF Steady, Unsettled, ProcRec
  <2>4. QED
    BY <1>3, <2>2, <2>3 DEF CloseJournal
<1>4. ASSUME SendManifest(pr)
      PROVE  Steady(pr)
  BY <1>1, <1>4 DEF SendManifest, Steady, Touching, Unsettled, ProcRec, disk
<1>5. ASSUME RecvManifest(pr)
      PROVE  Steady(pr)
  BY <1>1, <1>5 DEF RecvManifest, Arrived, Steady, Touching, Unsettled, ProcRec, disk
<1>6. ASSUME SendRequest(pr)
      PROVE  Steady(pr)
  BY <1>1, <1>6 DEF SendRequest, Steady, Touching, Unsettled, ProcRec, disk
<1>7. ASSUME ServeRequest(pr)
      PROVE  Steady(pr)
  BY <1>1, <1>7 DEF ServeRequest, Arrived, Steady, Touching, Unsettled, ProcRec, disk
<1>8. ASSUME RecvData(pr)
      PROVE  Steady(pr)
  BY <1>1, <1>8 DEF RecvData, Arrived, Steady, Touching, Unsettled, ProcRec, disk
<1>9. ASSUME AllFetched(pr)
      PROVE  Steady(pr)
  BY <1>1, <1>9 DEF AllFetched, Steady, Touching, Unsettled, ProcRec, disk
<1>10. ASSUME SendDone(pr)
       PROVE  Steady(pr)
  BY <1>1, <1>10 DEF SendDone, Steady, Touching, Unsettled, ProcRec, disk
<1>11. ASSUME RecvDone(pr) \/ Fail(pr)
       PROVE  SteadyEnd(pr)
  BY <1>11 DEF RecvDone, Fail, Arrived, SteadyEnd, Touching, Sending, Receiving, disk
<1>12. QED
  BY <1>2, <1>3, <1>4, <1>5, <1>6, <1>7, <1>8, <1>9, <1>10, <1>11 DEF Step

LEMMA ListedTail ==
  ASSUME NEW paths \in Seq(Path), paths # <<>>, NEW q, Listed(paths, q), q # Head(paths)
  PROVE  Listed(Tail(paths), q)
<1>1. PICK k \in DOMAIN paths : paths[k] = q
  BY DEF Listed
<1>2. k # 1
  BY <1>1
<1>3. k - 1 \in DOMAIN Tail(paths) /\ Tail(paths)[k - 1] = q
  BY <1>1, <1>2
<1>4. QED
  BY <1>3 DEF Listed

\* A file that is written out has the bytes the version is made of.
LEMMA ReassembledIsVersion ==
  ASSUME NEW m, Whole(m), NEW hashes \in Seq(Chunk), CanReassemble(m, hashes)
  PROVE  reassemble(m, hashes) = hashes
<1>1. \A i \in DOMAIN hashes : m[hashes[i]] = hashes[i]
  BY DEF Whole, CanReassemble, has_chunk
<1>2. reassemble(m, hashes) = [i \in DOMAIN hashes |-> hashes[i]]
  BY <1>1 DEF reassemble
<1>3. QED
  BY <1>2

LEMMA MaterializeFiles ==
  ASSUME OneAtATime, "writing" \notin CrashPoints, IInv, SInv, WInv, FInv,
         NEW pr \in Proc, Materialize(pr)
  PROVE  FInv'
<1>1. DEFINE p == Head(proc[pr].paths)
             e == proc[pr].mem[p]
             n == Home(pr)
             dir == files[n]
             r2 == [proc[pr] EXCEPT !.paths = Tail(@)]
<1>2. /\ proc[pr] \in ProcRec /\ ProcOK(proc[pr], DOMAIN blobs[n]) /\ n \in Node
      /\ FetchOK(proc[pr], DOMAIN blobs[n]) /\ files \in [Node -> Dir] /\ Whole(blobs[n])
      /\ MemShown(proc[pr], dir)
  BY ProcFacts DEF IInv, Typed, WInv, FInv
<1>3. /\ proc[pr].pc = "materializing" /\ proc[pr].paths # <<>>
      /\ proc[pr].paths \in Seq(Path) /\ proc[pr].mem \in Store
  BY <1>2 DEF Materialize, ProcRec
<1>4. p \in DOMAIN proc[pr].mem
  BY <1>2, <1>3 DEF ProcOK
<1>5. e \in Good /\ e.chunk_hashes \in Seq(Chunk) /\ e.path = p
  BY <1>3, <1>4, StoreIsStore DEF Good, FileEntry, IsStore
<1>6. ChunksOf(e) \subseteq DOMAIN blobs[n]
  BY <1>2, <1>3, <1>4 DEF FetchOK, Pending, WholeHashes, CutHashes
<1>7. CanReassemble(blobs[n], e.chunk_hashes)
  BY <1>6 DEF CanReassemble, has_chunk, ChunksOf
<1>8. proc' = [proc EXCEPT ![pr] = r2] /\ journal' = journal
  BY <1>7 DEF Materialize, IInv, Typed
<1>9. files' = IF has_content(e)
               THEN [files EXCEPT ![n] = materialize(dir, p, e.chunk_hashes)]
               ELSE files
  BY <1>2, <1>5, <1>7, ReassembledIsVersion DEF Materialize
<1>10. r2.pc = "materializing" /\ r2.mem = proc[pr].mem /\ r2.paths = Tail(proc[pr].paths)
  BY <1>2, <1>3 DEF ProcRec
<1>11. HIDE DEF r2
<1>12. ASSUME NEW q \in DOMAIN r2.mem
       PROVE  Shown(r2.mem[q], files'[n]) \/ Listed(r2.paths, q)
  <2>1. r2.mem[q].path = q
    BY <1>3, <1>10, ClocksOfStore
  <2>2. files'[n] = IF has_content(e) THEN materialize(dir, p, e.chunk_hashes) ELSE dir
    BY <1>2, <1>9
  <2>3. CASE q = p
    BY <1>5, <1>10, <2>2, <2>3 DEF Shown, materialize
  <2>4. CASE q # p
    <3>1. CASE Listed(proc[pr].paths, q)
      BY <1>3, <1>10, <2>4, <3>1, ListedTail
    <3>2. CASE Shown(proc[pr].mem[q], dir)
      BY <1>10, <2>1, <2>2, <2>4, <3>2 DEF Shown, materialize
    <3>3. QED
      BY <1>2, <1>10, <3>1, <3>2 DEF MemShown
  <2>5. QED
    BY <2>3, <2>4
<1>13. MemShown(r2, files'[n])
  BY <1>10, <1>12 DEF MemShown, Unsettled
<1>14. r2.pc \in Touching
  BY <1>10 DEF Touching
<1>15. files' = files \/ files' = [files EXCEPT ![Home(pr)] = materialize(dir, p, e.chunk_hashes)]
  BY <1>9
<1>16. QED
  BY <1>8, <1>13, <1>14, <1>15, FilesMove

LEMMA AllMaterializedFiles ==
  ASSUME OneAtATime, IInv, FInv, NEW pr \in Proc, AllMaterialized(pr)
  PROVE  FInv'
<1>1. proc \in [Proc -> ProcRec] /\ proc[pr] \in ProcRec /\ MemShown(proc[pr], files[Home(pr)])
  BY DEF IInv, Typed, FInv
<1>2. /\ proc' = [proc EXCEPT ![pr] = proc'[pr]] /\ journal' = journal /\ files' = files
      /\ proc'[pr].pc = "saving" /\ proc'[pr].mem = proc[pr].mem /\ proc[pr].paths = <<>>
  BY <1>1 DEF AllMaterialized, disk, ProcRec
<1>3. MemShown(proc'[pr], files'[Home(pr)])
  BY <1>1, <1>2 DEF MemShown, Listed
<1>4. QED
  BY <1>2, <1>3, FilesMove DEF Touching

LEMMA OpenJournalFiles ==
  ASSUME OneAtATime, IInv, FInv, NEW pr \in Proc, OpenJournal(pr)
  PROVE  FInv'
<1>1. proc \in [Proc -> ProcRec] /\ proc[pr] \in ProcRec /\ MemShown(proc[pr], files[Home(pr)])
  BY DEF IInv, Typed, FInv
<1>2. /\ proc' = [proc EXCEPT ![pr] = proc'[pr]] /\ files' = files
      /\ journal' = [journal EXCEPT ![Home(pr)] = EmptyStore]
      /\ proc[pr].pc = "saving" /\ proc'[pr].pc = "writing" /\ proc'[pr].mem = proc[pr].mem
  BY <1>1 DEF OpenJournal, ProcRec
<1>3. MemShown(proc'[pr], files'[Home(pr)])
  BY <1>1, <1>2 DEF MemShown, Unsettled
<1>4. QED
  BY <1>2, <1>3, FilesMove DEF Touching

LEMMA WriteLineFiles ==
  ASSUME OneAtATime, IInv, FInv, NEW pr \in Proc, NEW e \in proc[pr].todo, WriteLine(pr, e)
  PROVE  FInv'
<1>1. proc \in [Proc -> ProcRec] /\ proc[pr] \in ProcRec /\ MemShown(proc[pr], files[Home(pr)])
  BY DEF IInv, Typed, FInv
<1>2. /\ proc' = [proc EXCEPT ![pr] = proc'[pr]] /\ files' = files
      /\ journal' = [journal EXCEPT ![Home(pr)] = load_entry(journal[Home(pr)], e)]
      /\ proc[pr].pc = "writing" /\ proc'[pr].pc = "writing" /\ proc'[pr].mem = proc[pr].mem
  BY <1>1 DEF WriteLine, ProcRec
<1>3. MemShown(proc'[pr], files'[Home(pr)])
  BY <1>1, <1>2 DEF MemShown, Unsettled
<1>4. QED
  BY <1>2, <1>3, FilesMove DEF Touching

LEMMA PutLocalFiles ==
  ASSUME OneAtATime, IInv, FInv, NEW pr \in Proc, PutLocal(pr)
  PROVE  FInv'
<1>1. DEFINE p  == Head(proc[pr].paths)
             es == proc[pr].mem
             es2 == put_local(es, Home(pr), p, proc[pr].adding)
             r2 == [proc[pr] EXCEPT !.pc = "materializing", !.mem = es2]
<1>2. /\ proc[pr] \in ProcRec /\ ProcOK(proc[pr], DOMAIN blobs[Home(pr)]) /\ Home(pr) \in Node
      /\ MemShown(proc[pr], files[Home(pr)])
  BY HomeType DEF IInv, Typed, FInv
<1>3. /\ proc[pr].pc = "adding" /\ Len(proc[pr].paths) = 1 /\ proc[pr].paths \in Seq(Path)
      /\ es \in Store /\ proc[pr].adding \in Seq(Chunk)
  BY <1>2 DEF PutLocal, ProcOK, ProcRec
<1>4. p \in Path /\ IsStore(es) /\ Listed(proc[pr].paths, p)
  BY <1>3, StoreIsStore DEF Listed
<1>5. LocalEdit(es, es2, Home(pr), p)
  BY <1>2, <1>3, <1>4, PutLocalFacts
<1>6. proc' = [proc EXCEPT ![pr] = r2] /\ journal' = journal /\ files' = files
  BY DEF PutLocal, disk, IInv, Typed
<1>7. HIDE DEF es2, p
<1>8. r2.pc = "materializing" /\ r2.mem = es2 /\ r2.paths = proc[pr].paths
  BY <1>2 DEF ProcRec
<1>9. HIDE DEF r2
<1>10. \A q \in DOMAIN es : Shown(es[q], files[Home(pr)])
  BY <1>2, <1>3 DEF MemShown, Unsettled
<1>11. MemShown(r2, files'[Home(pr)])
  BY <1>4, <1>5, <1>6, <1>8, <1>10 DEF MemShown, LocalEdit, Unsettled
<1>12. QED
  BY <1>6, <1>8, <1>11, FilesMove DEF Touching

\* What a merge adopts goes on the list of files to write out.
LEMMA MergeEntryFiles ==
  ASSUME OneAtATime, IInv, FInv, NEW pr \in Proc, NEW e \in proc[pr].todo, MergeEntry(pr, e)
  PROVE  FInv'
<1>1. DEFINE es  == proc[pr].mem
             es2 == merge_remote(es, e)
             outcome == OutcomeOf(es, e)
             at == IF outcome = "CONFLICT_FORKED" THEN ConflictPath(e) ELSE e.path
             adopted == outcome \in {"APPLIED_REMOTE", "CONFLICT_FORKED"}
             paths2 == IF adopted THEN Append(proc[pr].paths, at) ELSE proc[pr].paths
<1>2. /\ proc \in [Proc -> ProcRec] /\ proc[pr] \in ProcRec /\ Home(pr) \in Node
      /\ MemShown(proc[pr], files[Home(pr)])
  BY HomeType DEF IInv, Typed, FInv
<1>3. /\ proc[pr].pc = "merging" /\ e \in Good /\ e \in FileEntry /\ es \in Store
      /\ proc[pr].paths \in Seq(Path)
  BY <1>2 DEF MergeEntry, ProcRec, Good
<1>4. IsStore(es) /\ es2 \in Store
  BY <1>3, StoreIsStore, MergeInStore
<1>5. MergeStep(es, es2, e)
  BY <1>3, <1>4, MergeRemoteFacts
<1>6. at \in Path
  BY <1>3, ConflictPathFacts DEF FileEntry
<1>7. /\ proc' = [proc EXCEPT ![pr] = proc'[pr]] /\ journal' = journal /\ files' = files
      /\ proc'[pr].pc = "merging" /\ proc'[pr].mem = es2 /\ proc'[pr].paths = paths2
  BY <1>2, <1>3 DEF MergeEntry, disk, ProcRec
<1>8. HIDE DEF es2, at, outcome
<1>9. /\ \A q : Listed(proc[pr].paths, q) => Listed(paths2, q)
      /\ adopted => Listed(paths2, at)
  <2>1. CASE ~ adopted
    BY <2>1
  <2>2. CASE adopted
    <3>1. /\ Len(proc[pr].paths) \in Nat
          /\ DOMAIN paths2 = 1 .. Len(proc[pr].paths) + 1
          /\ DOMAIN proc[pr].paths = 1 .. Len(proc[pr].paths)
          /\ paths2[Len(proc[pr].paths) + 1] = at
          /\ \A i \in 1 .. Len(proc[pr].paths) : paths2[i] = proc[pr].paths[i]
      BY <1>3, <1>6, <2>2
    <3>2. HIDE DEF paths2
    <3>3. QED
      BY <2>2, <3>1 DEF Listed
  <2>3. QED
    BY <2>1, <2>2
<1>10. HIDE DEF paths2
<1>11. ASSUME NEW q \in DOMAIN es2
       PROVE  Shown(es2[q], files[Home(pr)]) \/ Listed(paths2, q)
  <2>1. CASE /\ q \in DOMAIN es
             /\ es2[q].chunk_hashes = es[q].chunk_hashes
             /\ es2[q].deleted = es[q].deleted
    <3>1. es[q].path = q /\ es2[q].path = q
      BY <1>3, <1>4, <2>1, ClocksOfStore
    <3>2. Shown(es[q], files[Home(pr)]) => Shown(es2[q], files[Home(pr)])
      BY <2>1, <3>1 DEF Shown, has_content
    <3>3. QED
      BY <1>2, <1>9, <2>1, <3>2 DEF MemShown
  <2>2. CASE \/ outcome = "APPLIED_REMOTE" /\ q = e.path
             \/ outcome = "CONFLICT_FORKED" /\ q = ConflictPath(e)
    BY <1>9, <2>2 DEF at
  <2>3. QED
    BY <1>5, <2>1, <2>2 DEF MergeStep, outcome
<1>12. MemShown(proc'[pr], files'[Home(pr)])
  BY <1>7, <1>11 DEF MemShown, Unsettled
<1>13. AllShown(journal'[Home(pr)], files'[Home(pr)])
  BY <1>3, <1>7, CalmAt DEF Touching
<1>14. QED
  BY <1>7, <1>12, <1>13, FilesMove

\* add, listen and sync start from a journal all of which is shown.
LEMMA LoadsFiles ==
  ASSUME OneAtATime, IInv, FInv, NEW pr \in Proc,
         \/ StartListen(pr)
         \/ \E p \in UserPath, f \in FileContent : StartAdd(pr, p, f)
  PROVE  FInv'
<1>1. Loaded(pr) \in ProcRec /\ Loaded(pr).mem = journal[Home(pr)]
  BY LoadedType DEF IInv
<1>2. /\ proc' = [proc EXCEPT ![pr] = proc'[pr]] /\ journal' = journal /\ files' = files
      /\ proc'[pr].mem = journal[Home(pr)] /\ proc[pr].pc = "idle"
  <2>1. CASE StartListen(pr)
    BY <1>1, <2>1 DEF StartListen, disk, IInv, Typed, ProcRec
  <2>2. CASE \E p \in UserPath, f \in FileContent : StartAdd(pr, p, f)
    <3>1. PICK p \in UserPath, f \in FileContent : StartAdd(pr, p, f)
      BY <2>2
    <3>2. DEFINE r2 == [Loaded(pr) EXCEPT !.pc = "adding", !.adding = f,
                                          !.incoming = WholeChunks(f), !.paths = <<p>>]
    <3>3. proc' = [proc EXCEPT ![pr] = r2] /\ journal' = journal /\ files' = files
          /\ proc[pr].pc = "idle"
      BY <3>1 DEF StartAdd, disk
    <3>4. r2.mem = journal[Home(pr)]
      BY <1>1 DEF ProcRec
    <3>5. HIDE DEF r2
    <3>6. proc'[pr] = r2
      BY <3>3 DEF IInv, Typed
    <3>7. QED
      BY <3>3, <3>4, <3>6
  <2>3. QED
    BY <2>1, <2>2
<1>3. AllShown(journal[Home(pr)], files[Home(pr)])
  BY <1>2, CalmAt DEF Touching
<1>4. MemShown(proc'[pr], files'[Home(pr)])
  BY <1>2, <1>3 DEF MemShown, AllShown
<1>5. QED
  BY <1>2, <1>3, <1>4, FilesMove

LEMMA StartRmFiles ==
  ASSUME OneAtATime, IInv, FInv, NEW pr \in Proc, NEW p \in UserPath, StartRm(pr, p)
  PROVE  FInv'
<1>1. DEFINE j == journal[Home(pr)]
             es2 == delete_local(j, Home(pr), p)
<1>2. Loaded(pr) \in ProcRec /\ Loaded(pr).mem = j /\ j \in Store
  BY LoadedType, HomeType DEF IInv, Typed
<1>3. IsStore(j) /\ p \in Path /\ Home(pr) \in Node
  BY <1>2, StoreIsStore, HomeType, SyncNodeAssumption
<1>4. LocalEdit(j, es2, Home(pr), p) /\ es2[p].deleted
  BY <1>2, <1>3, DeleteLocalFacts
<1>5. /\ proc' = [proc EXCEPT ![pr] = proc'[pr]] /\ journal' = journal /\ files' = files
      /\ proc'[pr].pc = "saving" /\ proc'[pr].mem = es2 /\ proc[pr].pc = "idle"
  BY <1>2 DEF StartRm, disk, IInv, Typed, ProcRec
<1>6. HIDE DEF es2
<1>7. AllShown(j, files[Home(pr)])
  BY <1>5, CalmAt DEF Touching
<1>8. ASSUME NEW q \in DOMAIN es2
      PROVE  Shown(es2[q], files[Home(pr)])
  <2>1. CASE q = p
    BY <1>4, <2>1 DEF Shown, has_content
  <2>2. CASE q # p
    BY <1>4, <1>7, <2>2 DEF LocalEdit, AllShown
  <2>3. QED
    BY <2>1, <2>2
<1>9. MemShown(proc'[pr], files'[Home(pr)])
  BY <1>5, <1>8 DEF MemShown
<1>10. QED
  BY <1>5, <1>9, FilesMove DEF Touching

LEMMA SyncWithFiles ==
  ASSUME OneAtATime, IInv, FInv, NEW pr \in Proc, NEW qr \in Proc, SyncWith(pr, qr)
  PROVE  FInv'
<1>1. DEFINE r2 == [Loaded(pr) EXCEPT !.pc = "sendManifest"]
             l2 == [proc[qr] EXCEPT !.pc = "sendManifest"]
<1>2. /\ Loaded(pr) \in ProcRec /\ Loaded(pr).mem = journal[Home(pr)]
      /\ proc[qr] \in ProcRec /\ proc \in [Proc -> ProcRec]
      /\ MemShown(proc[qr], files[Home(qr)])
  BY LoadedType DEF IInv, Typed, FInv
<1>3. /\ proc[pr].pc = "idle" /\ proc[qr].pc = "listening" /\ pr # qr
      /\ journal' = journal /\ files' = files
  BY DEF SyncWith, disk
<1>4. \A q \in Proc : proc'[q] = IF q = pr THEN r2 ELSE IF q = qr THEN l2 ELSE proc[q]
  BY <1>2, <1>3 DEF SyncWith
<1>5. /\ r2.pc = "sendManifest" /\ r2.mem = journal[Home(pr)]
      /\ l2.pc = "sendManifest" /\ l2.mem = proc[qr].mem
  BY <1>2 DEF ProcRec
<1>6. HIDE DEF r2, l2
<1>7. AllShown(journal[Home(pr)], files[Home(pr)])
  BY <1>3, CalmAt DEF Touching
<1>8. MemShown(r2, files[Home(pr)]) /\ MemShown(l2, files[Home(qr)])
  BY <1>2, <1>3, <1>5, <1>7 DEF MemShown, AllShown, Unsettled
<1>9. \A q \in Proc : MemShown(proc'[q], files'[HomeOf[q]])
  BY <1>3, <1>4, <1>8 DEF FInv, Home
<1>10. ASSUME NEW n \in Node, \A q \in Proc : HomeOf[q] = n => proc'[q].pc \notin Touching
       PROVE  AllShown(journal'[n], files'[n])
  <2>1. \A q \in Proc : Home(q) = n => proc[q].pc \notin Touching
    BY <1>3, <1>4, <1>10 DEF Home, Touching
  <2>2. QED
    BY <1>3, <2>1 DEF FInv, Calm
<1>11. QED
  BY <1>9, <1>10 DEF FInv, Calm, Home

LEMMA FInvInit == Init => FInv
<1>1. Exited.mem = EmptyStore
  BY DEF Exited
<1>2. QED
  BY <1>1, EmptyStoreType DEF Init, FInv, MemShown, AllShown

LEMMA FInvStep ==
  ASSUME OneAtATime, CrashPoints \cap Touching = {}, IInv, SInv, JInv, WInv, FInv, [Next]_vars
  PROVE  FInv'
<1>1. CASE UNCHANGED vars
  BY <1>1 DEF vars, FInv, Calm, Home
<1>2. ASSUME NEW pr \in Proc, Killed(pr) \/ StopListening(pr)
      PROVE  FInv'
  <2>1. SteadyEnd(pr)
    BY <1>2 DEF Killed, Crash, CrashInPutChunk, CrashInLine, StopListening, SteadyEnd, Touching, disk
  <2>2. QED
    BY <2>1, SteadyEndFiles
<1>3. ASSUME NEW pr \in Proc, Command(pr)
      PROVE  FInv'
  BY <1>2, <1>3, LoadsFiles, StartRmFiles, SyncWithFiles DEF Command
<1>4. "writing" \notin CrashPoints
  BY DEF Touching
<1>5. ASSUME NEW pr \in Proc, Step(pr)
      PROVE  FInv'
  BY <1>4, <1>5, StepIsSteady, SteadyFiles, SteadyEndFiles, MaterializeFiles,
     AllMaterializedFiles, PutLocalFiles, OpenJournalFiles, WriteLineFiles, MergeEntryFiles
<1>6. QED
  BY <1>1, <1>2, <1>3, <1>5 DEF Next

LEMMA FInvMatches ==
  ASSUME FInv
  PROVE  FilesMatchJournal
<1>1. SUFFICES ASSUME NEW n \in Node, Quiet(n), NEW e \in all_entries(journal[n]), has_content(e)
               PROVE  e.path \in DOMAIN files[n] /\ files[n][e.path] = e.chunk_hashes
  BY DEF FilesMatchJournal
<1>2. AllShown(journal[n], files[n])
  BY <1>1 DEF FInv, Quiet, Calm, Touching
<1>3. QED
  BY <1>1, <1>2 DEF AllShown, Shown, all_entries

\* Between commands the file of every recorded version is that version, byte
\* for byte, when one process runs on a node at a time, no chunk file is cut
\* short and no process is killed between writing files out and saving.
THEOREM FilesMatchJournalHolds ==
  ASSUME OneAtATime, CrashPoints \cap Touching = {}, ~ TornWrites
  PROVE  Spec => []FilesMatchJournal
<1>1. "writing" \notin CrashPoints
  BY DEF Touching
<1>2. DEFINE Inv == IInv /\ SInv /\ JInv /\ WInv /\ FInv
<1>3. Init => Inv
  BY IInvInit, SInvInit, JInvInit, WInvInit, FInvInit
<1>4. Inv /\ [Next]_vars => Inv'
  BY <1>1, IInvStep, SInvStep, JInvStep, WInvStep, FInvStep
<1>5. Inv => FilesMatchJournal
  BY FInvMatches
<1>6. QED
  BY <1>3, <1>4, <1>5, PTL DEF Spec
=============================================================================
