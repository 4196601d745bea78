---------------------------- MODULE SessionProofs ----------------------------
(***************************************************************************)
(* Proofs about the two sides of a session of SyncNode.                     *)
(*                                                                          *)
(* After a session both sides have seen the same edits of every user's      *)
(* file.  The argument follows a counter from one side to the other.  Once  *)
(* a side has sent its manifest, each counter in its memory is in the       *)
(* memory of the peer, or in an entry the peer has yet to merge.  And what  *)
(* a side merges from the peer the peer has in memory, so that merging      *)
(* brings it no counter the peer lacks.                                     *)
(*                                                                          *)
(* And each side of a session is atomic: SyncNode implements AtomicSync.    *)
(* A process has a promise, the store it will install: the merge of its     *)
(* memory with what is left of the peer's manifest.  Merging one entry      *)
(* keeps it, since the fold MergeAll can be unfolded at its first entry as  *)
(* well as at its last; sending the manifest moves what the peer counts on  *)
(* into the peer's queue; opening the journal installs it.                  *)
(***************************************************************************)
EXTENDS DurableProofs, SyncNodeRefinement, BoundedInduction, FiniteSetTheorems

-----------------------------------------------------------------------------
(* The two sides of a session.                                              *)

\* Both ends hold the connection.
Mutual(pr, qr) == link[pr] = qr /\ link[qr] = pr

\* Before the peer's manifest is received.
Fresh == {"sendManifest", "recvManifest"}

\* The entries r, with the frames c in its queue, has yet to merge.
Underway(r, c) ==
  (IF r.pc = "merging" THEN r.todo ELSE {}) \cup
  UNION {c[i].entries : i \in {j \in DOMAIN c : c[j].type = "MANIFEST"}}

\* The counter x of m for path p is, or will be, known to r.
Reaches(x, p, m, r, c) ==
  \/ x <= ClockAt(r.mem, p)[m]
  \/ \E e \in Underway(r, c) : e.path = p /\ x <= e.clock[m]

\* From the sender s to the receiver r, which has the frames c in its queue.
PairOK(s, r, c) ==
  /\ s.pc # "adding"
  /\ s.pc = "sendManifest" => c = <<>> /\ r.pc \in Fresh
  /\ \A i \in DOMAIN c : c[i].type = "MANIFEST" => i = 1 /\ r.pc \in Fresh
  /\ \A e \in Underway(r, c) : Len(e.path) = 1 => Leq(e.clock, ClockAt(s.mem, e.path))
  /\ s.pc # "sendManifest" =>
       \A b \in BasePath, m \in Node : Reaches(ClockAt(s.mem, <<b>>)[m], <<b>>, m, r, c)

AInv == \A s, r \in Proc : Mutual(s, r) => PairOK(proc[s], proc[r], chan[r])

LEMMA UnderwayIs ==
  ASSUME NEW r, NEW c, NEW e
  PROVE  e \in Underway(r, c) <=> \/ r.pc = "merging" /\ e \in r.todo
                                  \/ \E i \in DOMAIN c : c[i].type = "MANIFEST" /\ e \in c[i].entries
  BY DEF Underway

-----------------------------------------------------------------------------
(* Moving from state to state.                                              *)

\* Process pr becomes r2; only the queues of pr and of its peer may change.
LEMMA PairMove ==
  ASSUME IInv, SInv, AInv, NEW pr \in Proc, NEW r2, proc' = [proc EXCEPT ![pr] = r2],
         UNCHANGED link,
         \A q \in Proc \ {pr} : ~ Mutual(pr, q) => chan'[q] = chan[q],
         \A q \in Proc \ {pr} : Mutual(pr, q) =>
            PairOK(r2, proc[q], chan'[q]) /\ PairOK(proc[q], r2, chan'[pr])
  PROVE  AInv'
<1>1. proc \in [Proc -> ProcRec]
  BY DEF IInv, Typed
<1>2. \A q \in Proc : proc'[q] = IF q = pr THEN r2 ELSE proc[q]
  BY <1>1
<1>3. ASSUME NEW s \in Proc, NEW r \in Proc, Mutual(s, r)
      PROVE  PairOK(proc'[s], proc'[r], chan'[r])
  <2>1. s # r
    BY <1>3, SyncNodeAssumption DEF Mutual, SInv, SessionOK
  <2>2. CASE s = pr
    BY <1>2, <1>3, <2>1, <2>2
  <2>3. CASE r = pr
    <3>1. Mutual(pr, s)
      BY <1>3, <2>3 DEF Mutual
    <3>2. QED
      BY <1>2, <2>1, <2>3, <3>1
  <2>4. CASE s # pr /\ r # pr
    <3>1. ~ Mutual(pr, r)
      BY <1>3, <2>4 DEF Mutual
    <3>2. QED
      BY <1>2, <1>3, <2>4, <3>1 DEF AInv
  <2>5. QED
    BY <2>2, <2>3, <2>4
<1>4. QED
  BY <1>3 DEF AInv, Mutual

\* A process that is in no session changes nothing for the others.
LEMMA PairAlone ==
  ASSUME IInv, SInv, AInv, NEW pr \in Proc, NEW r2, proc' = [proc EXCEPT ![pr] = r2],
         UNCHANGED <<link, chan>>, proc[pr].pc \in {"idle", "adding"}
  PROVE  AInv'
<1>1. ASSUME NEW q \in Proc, Mutual(pr, q)
      PROVE  FALSE
  <2>1. PairOK(proc[pr], proc[q], chan[q])
    BY <1>1 DEF AInv
  <2>2. proc[pr].pc = "idle"
    BY <2>1 DEF PairOK
  <2>3. link[pr] = NoPeer
    BY <2>2 DEF SInv, SessionOK
  <2>4. QED
    BY <1>1, <2>3, SyncNodeAssumption DEF Mutual
<1>2. QED
  BY <1>1, PairMove

\* The session of a process that ends is over.
LEMMA PairExit ==
  ASSUME IInv, SInv, AInv, NEW pr \in Proc, Exit(pr),
         \A q \in Proc \ {pr} : ~ Mutual(pr, q) => chan'[q] = chan[q]
  PROVE  AInv'
<1>1. /\ proc \in [Proc -> ProcRec] /\ link \in [Proc -> Proc \cup {NoPeer}]
      /\ NoPeer \notin Proc
  BY SyncNodeAssumption DEF IInv, Typed
<1>2. /\ \A q \in Proc : proc'[q] = IF q = pr THEN Exited ELSE proc[q]
      /\ \A q \in Proc : link'[q] = IF q = pr THEN NoPeer ELSE link[q]
  BY <1>1 DEF Exit
<1>3. ASSUME NEW s \in Proc, NEW r \in Proc, link'[s] = r, link'[r] = s
      PROVE  PairOK(proc'[s], proc'[r], chan'[r])
  <2>1. s # pr /\ r # pr
    BY <1>1, <1>2, <1>3
  <2>2. Mutual(s, r) /\ ~ Mutual(pr, r)
    BY <1>2, <1>3, <2>1 DEF Mutual
  <2>3. QED
    BY <1>2, <2>1, <2>2 DEF AInv
<1>4. QED
  BY <1>3 DEF AInv, Mutual

-----------------------------------------------------------------------------
(* Steps after the merge: the memory stays as it is, and no manifest is     *)
(* sent or received.                                                        *)

\* c2 has the manifests of c, at the same places.
SameManifests(c, c2) ==
  /\ \A i \in DOMAIN c : c[i].type = "MANIFEST" => i \in DOMAIN c2 /\ c2[i] = c[i]
  /\ \A i \in DOMAIN c2 : c2[i].type = "MANIFEST" => i \in DOMAIN c /\ c2[i] = c[i]

\* The sender goes on.
LEMMA SenderLate ==
  ASSUME NEW s, NEW s2, NEW r, NEW c, NEW c2, PairOK(s, r, c), s2.mem = s.mem,
         s.pc # "sendManifest", s2.pc \notin {"sendManifest", "adding"}, SameManifests(c, c2)
  PROVE  PairOK(s2, r, c2)
<1>1. Underway(r, c2) = Underway(r, c)
  <2>1. ASSUME NEW e
        PROVE  (\E i \in DOMAIN c2 : c2[i].type = "MANIFEST" /\ e \in c2[i].entries) <=>
               (\E i \in DOMAIN c : c[i].type = "MANIFEST" /\ e \in c[i].entries)
    BY DEF SameManifests
  <2>2. \A e : e \in Underway(r, c2) <=> e \in Underway(r, c)
    BY <2>1, UnderwayIs
  <2>3. QED
    BY <2>2
<1>2. \A i \in DOMAIN c2 : c2[i].type = "MANIFEST" => i = 1 /\ r.pc \in Fresh
  BY DEF PairOK, SameManifests
<1>3. QED
  BY <1>1, <1>2 DEF PairOK, Reaches

\* The receiver goes on: it has merged everything, and new frames in its queue,
\* if any, are no manifests.
LEMMA ReceiverLate ==
  ASSUME NEW s, NEW r, NEW r2, NEW c, NEW c2, PairOK(s, r, c), r2.mem = r.mem,
         r.pc \notin Fresh, r.pc = "merging" => r.todo = {}, r2.pc # "merging",
         \A i \in DOMAIN c2 : \E j \in DOMAIN c : c2[i] = c[j]
  PROVE  PairOK(s, r2, c2)
<1>1. \A i \in DOMAIN c : c[i].type # "MANIFEST"
  BY DEF PairOK
<1>2. \A i \in DOMAIN c2 : c2[i].type # "MANIFEST"
  BY <1>1
<1>3. Underway(r, c) = {} /\ Underway(r2, c2) = {}
  BY <1>1, <1>2, UnderwayIs
<1>4. s.pc # "sendManifest" /\ s.pc # "adding"
  BY DEF PairOK
<1>5. QED
  BY <1>2, <1>3, <1>4 DEF PairOK, Reaches

\* Where the entries in memory do not change any more.
Merged(r) == r.pc \notin Fresh /\ (r.pc = "merging" => r.todo = {})

LEMMA LateStep ==
  ASSUME IInv, SInv, AInv, NEW pr \in Proc, NEW r2, proc' = [proc EXCEPT ![pr] = r2],
         UNCHANGED link, r2.mem = proc[pr].mem, Merged(proc[pr]),
         r2.pc \notin Fresh \cup {"merging"}, r2.pc = "adding" => proc[pr].pc = "adding",
         \A q \in Proc \ {pr} : ~ Mutual(pr, q) => chan'[q] = chan[q],
         \A q \in Proc \ {pr} : SameManifests(chan[q], chan'[q]),
         \A i \in DOMAIN chan'[pr] : \E j \in DOMAIN chan[pr] : chan'[pr][i] = chan[pr][j]
  PROVE  AInv'
<1>1. ASSUME NEW q \in Proc \ {pr}, Mutual(pr, q)
      PROVE  PairOK(r2, proc[q], chan'[q]) /\ PairOK(proc[q], r2, chan'[pr])
  <2>1. PairOK(proc[pr], proc[q], chan[q]) /\ PairOK(proc[q], proc[pr], chan[pr])
    BY <1>1 DEF AInv, Mutual
  <2>2. proc[pr].pc # "adding" /\ proc[pr].pc # "sendManifest"
    BY <2>1 DEF PairOK, Merged, Fresh
  <2>3. PairOK(r2, proc[q], chan'[q])
    BY <2>1, <2>2, SenderLate DEF Fresh
  <2>4. PairOK(proc[q], r2, chan'[pr])
    BY <2>1, ReceiverLate DEF Merged
  <2>5. QED
    BY <2>3, <2>4
<1>2. QED
  BY <1>1, PairMove

\* Most steps leave the queues alone.
LEMMA LocalLate ==
  ASSUME IInv, SInv, AInv, NEW pr \in Proc,
         \/ \E h \in DOMAIN proc[pr].incoming : StoreChunk(pr, h)
         \/ AllMaterialized(pr) \/ OpenJournal(pr) \/ AllFetched(pr)
         \/ \E e \in proc[pr].todo : WriteLine(pr, e)
  PROVE  AInv'
<1>1. proc \in [Proc -> ProcRec] /\ proc[pr] \in ProcRec
  BY DEF IInv, Typed
<1>2. ASSUME NEW r2, proc' = [proc EXCEPT ![pr] = r2], UNCHANGED <<link, chan>>,
             r2.mem = proc[pr].mem, Merged(proc[pr]),
             r2.pc \notin Fresh \cup {"merging"}, r2.pc = "adding" => proc[pr].pc = "adding"
      PROVE  AInv'
  BY <1>2, LateStep DEF SameManifests
<1>3. ASSUME NEW h \in DOMAIN proc[pr].incoming, StoreChunk(pr, h)
      PROVE  AInv'
  <2>1. PICK in : proc' = [proc EXCEPT ![pr].incoming = in]
    BY <1>3 DEF StoreChunk
  <2>2. DEFINE r2 == [proc[pr] EXCEPT !.incoming = in]
  <2>3. proc' = [proc EXCEPT ![pr] = r2] /\ UNCHANGED <<link, chan>>
        /\ r2.mem = proc[pr].mem /\ r2.pc = proc[pr].pc /\ r2.pc \in {"adding", "fetching"}
    BY <1>1, <1>3, <2>1 DEF StoreChunk, ProcRec
  <2>4. HIDE DEF r2
  <2>5. QED
    BY <1>2, <2>3 DEF Merged, Fresh
<1>4. ASSUME AllMaterialized(pr)
      PROVE  AInv'
  <2>1. DEFINE r2 == [proc[pr] EXCEPT !.pc = "saving"]
  <2>2. proc' = [proc EXCEPT ![pr] = r2] /\ UNCHANGED <<link, chan>>
        /\ r2.mem = proc[pr].mem /\ r2.pc = "saving" /\ proc[pr].pc = "materializing"
    BY <1>1, <1>4 DEF AllMaterialized, ProcRec
  <2>3. HIDE DEF r2
  <2>4. QED
    BY <1>2, <2>2 DEF Merged, Fresh
<1>5. ASSUME OpenJournal(pr)
      PROVE  AInv'
  <2>1. DEFINE r2 == [proc[pr] EXCEPT !.pc = "writing", !.todo = all_entries(proc[pr].mem)]
  <2>2. proc' = [proc EXCEPT ![pr] = r2] /\ UNCHANGED <<link, chan>>
        /\ r2.mem = proc[pr].mem /\ r2.pc = "writing" /\ proc[pr].pc = "saving"
    BY <1>1, <1>5 DEF OpenJournal, ProcRec
  <2>3. HIDE DEF r2
  <2>4. QED
    BY <1>2, <2>2 DEF Merged, Fresh
<1>6. ASSUME NEW e \in proc[pr].todo, WriteLine(pr, e)
      PROVE  AInv'
  <2>1. DEFINE r2 == [proc[pr] EXCEPT !.todo = @ \ {e}]
  <2>2. proc' = [proc EXCEPT ![pr] = r2] /\ UNCHANGED <<link, chan>>
        /\ r2.mem = proc[pr].mem /\ r2.pc = "writing" /\ proc[pr].pc = "writing"
    BY <1>1, <1>6 DEF WriteLine, ProcRec
  <2>3. HIDE DEF r2
  <2>4. QED
    BY <1>2, <2>2 DEF Merged, Fresh
<1>7. ASSUME AllFetched(pr)
      PROVE  AInv'
  <2>1. DEFINE r2 == [proc[pr] EXCEPT !.pc = "materializing"]
  <2>2. proc' = [proc EXCEPT ![pr] = r2] /\ UNCHANGED <<link, chan>>
        /\ r2.mem = proc[pr].mem /\ r2.pc = "materializing" /\ proc[pr].pc = "fetching"
    BY <1>1, <1>7 DEF AllFetched, ProcRec
  <2>3. HIDE DEF r2
  <2>4. QED
    BY <1>2, <2>2 DEF Merged, Fresh
<1>8. QED
  BY <1>3, <1>4, <1>5, <1>6, <1>7

\* Materialize and CloseJournal go on or end the process.
LEMMA GoOnOrEnd ==
  ASSUME IInv, SInv, AInv, NEW pr \in Proc, Materialize(pr) \/ CloseJournal(pr)
  PROVE  AInv'
<1>1. proc \in [Proc -> ProcRec] /\ proc[pr] \in ProcRec
  BY DEF IInv, Typed
<1>2. chan' = chan
  BY DEF Materialize, CloseJournal
<1>3. CASE Exit(pr)
  BY <1>2, <1>3, PairExit
<1>4. CASE Materialize(pr) /\ ~ Exit(pr)
  <2>1. DEFINE r2 == [proc[pr] EXCEPT !.paths = Tail(@)]
  <2>2. proc' = [proc EXCEPT ![pr] = r2] /\ UNCHANGED link
        /\ r2.mem = proc[pr].mem /\ r2.pc = "materializing" /\ proc[pr].pc = "materializing"
    BY <1>1, <1>4 DEF Materialize, ProcRec
  <2>3. HIDE DEF r2
  <2>4. QED
    BY <1>2, <2>2, LateStep DEF Merged, Fresh, SameManifests
<1>5. CASE CloseJournal(pr) /\ ~ Exit(pr)
  <2>1. DEFINE r2 == [proc[pr] EXCEPT !.pc = "sendDone"]
  <2>2. proc' = [proc EXCEPT ![pr] = r2] /\ UNCHANGED link
        /\ r2.mem = proc[pr].mem /\ r2.pc = "sendDone" /\ proc[pr].pc = "writing"
    BY <1>1, <1>5 DEF CloseJournal, ProcRec
  <2>3. HIDE DEF r2
  <2>4. QED
    BY <1>2, <2>2, LateStep DEF Merged, Fresh, SameManifests
<1>6. QED
  BY <1>3, <1>4, <1>5

-----------------------------------------------------------------------------
(* Frames after the merge.                                                  *)

\* send_frame appends to the queue of the peer, if it is still there.
LEMMA SentTo ==
  ASSUME Typed, NEW ch \in [Proc -> Seq(Frame)], NEW pr \in Proc, NEW f, NEW q \in Proc
  PROVE  send_frame(ch, pr, f)[q] = IF Mutual(pr, q) THEN Append(ch[q], f) ELSE ch[q]
<1>1. link \in [Proc -> Proc \cup {NoPeer}] /\ NoPeer \notin Proc
  BY SyncNodeAssumption DEF Typed
<1>2. CASE Mutual(pr, q)
  <2>1. Connected(pr) /\ link[pr] = q
    BY <1>1, <1>2 DEF Mutual, Connected
  <2>2. QED
    BY <1>2, <2>1 DEF send_frame
<1>3. CASE ~ Mutual(pr, q)
  <2>1. ~ Connected(pr) \/ link[pr] # q
    BY <1>3 DEF Mutual, Connected
  <2>2. QED
    BY <1>3, <2>1 DEF send_frame
<1>4. QED
  BY <1>2, <1>3

\* A frame that is no manifest leaves the manifests where they are.
LEMMA AppendOther ==
  ASSUME NEW c \in Seq(Frame), NEW f, f.type # "MANIFEST"
  PROVE  SameManifests(c, Append(c, f))
<1>1. /\ DOMAIN c = 1 .. Len(c) /\ Len(c) \in Nat
      /\ DOMAIN Append(c, f) = 1 .. Len(c) + 1
      /\ Append(c, f)[Len(c) + 1] = f
      /\ \A i \in 1 .. Len(c) : Append(c, f)[i] = c[i]
  OBVIOUS
<1>2. \A i \in 1 .. Len(c) + 1 : i = Len(c) + 1 \/ i \in 1 .. Len(c)
  BY <1>1
<1>3. QED
  BY <1>1, <1>2 DEF SameManifests

\* A process sends a frame and waits for the next one.
LEMMA SendLate ==
  ASSUME IInv, SInv, AInv, NEW pr \in Proc, NEW r2, proc' = [proc EXCEPT ![pr] = r2],
         UNCHANGED link, r2.mem = proc[pr].mem, Merged(proc[pr]),
         r2.pc \in {"recvRequest", "recvData", "recvDone"},
         NEW ch \in [Proc -> Seq(Frame)], NEW f, f.type # "MANIFEST",
         chan' = send_frame(ch, pr, f),
         \A q \in Proc \ {pr} : ch[q] = chan[q],
         \A i \in DOMAIN ch[pr] : \E j \in DOMAIN chan[pr] : ch[pr][i] = chan[pr][j]
  PROVE  AInv'
<1>1. Typed
  BY DEF IInv
<1>2. \A q \in Proc : chan'[q] = IF Mutual(pr, q) THEN Append(ch[q], f) ELSE ch[q]
  BY <1>1, SentTo
<1>3. ~ Mutual(pr, pr)
  BY SyncNodeAssumption DEF Mutual, SInv, SessionOK
<1>4. ASSUME NEW q \in Proc \ {pr}
      PROVE  SameManifests(chan[q], chan'[q])
  <2>1. CASE Mutual(pr, q)
    BY <1>2, <2>1, AppendOther
  <2>2. CASE ~ Mutual(pr, q)
    BY <1>2, <2>2 DEF SameManifests
  <2>3. QED
    BY <2>1, <2>2
<1>5. \A i \in DOMAIN chan'[pr] : \E j \in DOMAIN chan[pr] : chan'[pr][i] = chan[pr][j]
  BY <1>2, <1>3
<1>6. \A q \in Proc \ {pr} : ~ Mutual(pr, q) => chan'[q] = chan[q]
  BY <1>2
<1>7. r2.pc \notin Fresh \cup {"merging"} /\ r2.pc # "adding"
  BY DEF Fresh
<1>8. QED
  BY <1>4, <1>5, <1>6, <1>7, LateStep

LEMMA SendRequestAgrees ==
  ASSUME IInv, SInv, AInv, NEW pr \in Proc, SendRequest(pr) \/ SendDone(pr)
  PROVE  AInv'
<1>1. proc \in [Proc -> ProcRec] /\ proc[pr] \in ProcRec /\ chan \in [Proc -> Seq(Frame)]
  BY DEF IInv, Typed
<1>2. CASE SendRequest(pr)
  <2>1. DEFINE r2 == [proc[pr] EXCEPT !.pc = "recvRequest"]
               f  == [type |-> "CHUNK_REQUEST", hashes |-> proc[pr].needed]
  <2>2. /\ proc' = [proc EXCEPT ![pr] = r2] /\ UNCHANGED link /\ chan' = send_frame(chan, pr, f)
        /\ r2.mem = proc[pr].mem /\ r2.pc = "recvRequest"
        /\ proc[pr].pc = "merging" /\ proc[pr].todo = {} /\ f.type # "MANIFEST"
    BY <1>1, <1>2 DEF SendRequest, ProcRec
  <2>3. HIDE DEF r2, f
  <2>4. QED
    BY <1>1, <2>2, SendLate DEF Merged, Fresh
<1>3. CASE SendDone(pr)
  <2>1. DEFINE r2 == [proc[pr] EXCEPT !.pc = "recvDone"]
               f  == [type |-> "DONE"]
  <2>2. /\ proc' = [proc EXCEPT ![pr] = r2] /\ UNCHANGED link /\ chan' = send_frame(chan, pr, f)
        /\ r2.mem = proc[pr].mem /\ r2.pc = "recvDone"
        /\ proc[pr].pc = "sendDone" /\ f.type # "MANIFEST"
    BY <1>1, <1>3 DEF SendDone, ProcRec
  <2>3. HIDE DEF r2, f
  <2>4. QED
    BY <1>1, <2>2, SendLate DEF Merged, Fresh
<1>4. QED
  BY <1>2, <1>3

LEMMA ReceivedQueues ==
  ASSUME Typed, NEW pr \in Proc, chan[pr] # <<>>
  PROVE  /\ Received(pr) \in [Proc -> Seq(Frame)]
         /\ \A q \in Proc \ {pr} : Received(pr)[q] = chan[q]
         /\ \A i \in DOMAIN Received(pr)[pr] : \E j \in DOMAIN chan[pr] : Received(pr)[pr][i] = chan[pr][j]
<1>1. chan \in [Proc -> Seq(Frame)]
  BY DEF Typed
<1>2. Tail(chan[pr]) \in Seq(Frame)
  BY <1>1
<1>3. QED
  BY <1>1, <1>2, ReceivedFrames DEF Received

LEMMA ServeRequestAgrees ==
  ASSUME IInv, SInv, AInv, NEW pr \in Proc, ServeRequest(pr)
  PROVE  AInv'
<1>1. proc \in [Proc -> ProcRec] /\ proc[pr] \in ProcRec /\ Typed
  BY DEF IInv, Typed
<1>2. DEFINE r2 == [proc[pr] EXCEPT !.pc = "recvData"]
             f  == [type |-> "CHUNK_DATA", chunks |-> Serve(blobs[Home(pr)], Head(chan[pr]).hashes)]
             ch == Received(pr)
<1>3. /\ proc' = [proc EXCEPT ![pr] = r2] /\ UNCHANGED link /\ chan' = send_frame(ch, pr, f)
      /\ r2.mem = proc[pr].mem /\ r2.pc = "recvData"
      /\ proc[pr].pc = "recvRequest" /\ f.type # "MANIFEST" /\ chan[pr] # <<>>
  BY <1>1 DEF ServeRequest, Arrived, ProcRec
<1>4. /\ ch \in [Proc -> Seq(Frame)]
      /\ \A q \in Proc \ {pr} : ch[q] = chan[q]
      /\ \A i \in DOMAIN ch[pr] : \E j \in DOMAIN chan[pr] : ch[pr][i] = chan[pr][j]
  BY <1>1, <1>3, ReceivedQueues
<1>5. HIDE DEF r2, f, ch
<1>6. QED
  BY <1>3, <1>4, SendLate DEF Merged, Fresh

LEMMA RecvDataAgrees ==
  ASSUME IInv, SInv, AInv, NEW pr \in Proc, RecvData(pr)
  PROVE  AInv'
<1>1. proc \in [Proc -> ProcRec] /\ proc[pr] \in ProcRec /\ Typed
  BY DEF IInv, Typed
<1>2. DEFINE r2 == [proc[pr] EXCEPT !.pc = "fetching", !.incoming = Head(chan[pr]).chunks]
<1>3. /\ proc' = [proc EXCEPT ![pr] = r2] /\ UNCHANGED link /\ chan' = Received(pr)
      /\ r2.mem = proc[pr].mem /\ r2.pc = "fetching"
      /\ proc[pr].pc = "recvData" /\ chan[pr] # <<>>
  BY <1>1 DEF RecvData, Arrived, ProcRec
<1>4. /\ \A q \in Proc \ {pr} : chan'[q] = chan[q]
      /\ \A i \in DOMAIN chan'[pr] : \E j \in DOMAIN chan[pr] : chan'[pr][i] = chan[pr][j]
  BY <1>1, <1>3, ReceivedQueues
<1>5. \A q \in Proc \ {pr} : SameManifests(chan[q], chan'[q])
  BY <1>4 DEF SameManifests
<1>6. HIDE DEF r2
<1>7. QED
  BY <1>3, <1>4, <1>5, LateStep DEF Merged, Fresh

-----------------------------------------------------------------------------
(* Manifests and the merge.                                                 *)

\* The clock at a user's path after a merge is the least one above what was
\* there and what was merged.
LEMMA MergeClocks ==
  ASSUME NEW es \in Store, NEW e \in Good, NEW p, Len(p) = 1, NEW m \in Node
  PROVE  LET es2 == merge_remote(es, e) IN
         /\ es2 \in Store
         /\ ClockAt(es, p) \in Clock /\ ClockAt(es2, p) \in Clock
         /\ ClockAt(es, p)[m] <= ClockAt(es2, p)[m]
         /\ e.path = p => e.clock[m] <= ClockAt(es2, p)[m]
         /\ \/ ClockAt(es2, p)[m] = ClockAt(es, p)[m]
            \/ e.path = p /\ ClockAt(es2, p)[m] = e.clock[m]
<1>1. DEFINE es2 == merge_remote(es, e)
<1>2. IsStore(es) /\ e \in FileEntry /\ es2 \in Store
  BY StoreIsStore, MergeInStore DEF Good
<1>3. MergeStep(es, es2, e)
  BY <1>2, MergeRemoteFacts
<1>4. HIDE DEF es2
<1>5. ClockAt(es, p) \in Clock /\ ClockAt(es2, p) \in Clock
  BY <1>2, StoreIsStore, ClockAtType
<1>6. ClockAt(es, p)[m] \in Nat /\ ClockAt(es2, p)[m] \in Nat
  BY <1>5 DEF Clock
<1>7. p # ConflictPath(e)
  BY <1>2, ConflictPathIsLong
<1>8. CASE e.path = p
  BY <1>2, <1>3, <1>5, <1>8 DEF MergeStep, Leq, es2
<1>9. CASE e.path # p
  <2>1. ClockAt(es2, p) = ClockAt(es, p)
    BY <1>3, <1>7, <1>9 DEF MergeStep
  <2>2. QED
    BY <1>2, <1>5, <1>6, <1>9, <2>1 DEF es2
<1>10. QED
  BY <1>8, <1>9

\* The sender merges: it learns nothing the receiver does not know.
LEMMA SenderMerges ==
  ASSUME NEW s \in ProcRec, NEW s2, NEW r \in ProcRec, NEW c, NEW e \in Good,
         PairOK(s, r, c), s.pc = "merging", s2.pc = "merging", s2.mem = merge_remote(s.mem, e),
         Len(e.path) = 1 => Leq(e.clock, ClockAt(r.mem, e.path)),
         \A x \in Underway(r, c) : x \in Good
  PROVE  PairOK(s2, r, c)
<1>1. s.mem \in Store /\ r.mem \in Store
  BY DEF ProcRec
<1>2. ASSUME NEW x \in Underway(r, c), Len(x.path) = 1
      PROVE  Leq(x.clock, ClockAt(s2.mem, x.path))
  <2>1. SUFFICES ASSUME NEW m \in Node
                 PROVE  x.clock[m] <= ClockAt(s2.mem, x.path)[m]
    BY DEF Leq
  <2>2. x.clock[m] <= ClockAt(s.mem, x.path)[m]
    BY <1>2 DEF PairOK, Leq
  <2>3. /\ ClockAt(s.mem, x.path) \in Clock /\ ClockAt(s2.mem, x.path) \in Clock
        /\ ClockAt(s.mem, x.path)[m] <= ClockAt(s2.mem, x.path)[m]
    BY <1>1, <1>2, MergeClocks
  <2>4. /\ x.clock[m] \in Nat /\ ClockAt(s.mem, x.path)[m] \in Nat
        /\ ClockAt(s2.mem, x.path)[m] \in Nat
    BY <2>3 DEF Good, FileEntry, Clock
  <2>5. QED
    BY <2>2, <2>3, <2>4
<1>3. ASSUME NEW b \in BasePath, NEW m \in Node
      PROVE  Reaches(ClockAt(s2.mem, <<b>>)[m], <<b>>, m, r, c)
  <2>1. Len(<<b>>) = 1
    OBVIOUS
  <2>2. \/ ClockAt(s2.mem, <<b>>)[m] = ClockAt(s.mem, <<b>>)[m]
        \/ e.path = <<b>> /\ ClockAt(s2.mem, <<b>>)[m] = e.clock[m]
    BY <1>1, <2>1, MergeClocks
  <2>3. CASE ClockAt(s2.mem, <<b>>)[m] = ClockAt(s.mem, <<b>>)[m]
    BY <2>3 DEF PairOK
  <2>4. CASE e.path = <<b>> /\ ClockAt(s2.mem, <<b>>)[m] = e.clock[m]
    BY <2>1, <2>4 DEF Reaches, Leq
  <2>5. QED
    BY <2>2, <2>3, <2>4
<1>4. QED
  BY <1>2, <1>3 DEF PairOK

\* The receiver merges e: what e brought is in its memory now.
LEMMA ReceiverMerges ==
  ASSUME NEW s \in ProcRec, NEW r \in ProcRec, NEW r2, NEW c, NEW e \in Good,
         PairOK(s, r, c), r.pc = "merging", r2.pc = "merging", r2.mem = merge_remote(r.mem, e),
         r2.todo = r.todo \ {e}, \A x \in Underway(r, c) : x \in Good
  PROVE  PairOK(s, r2, c)
<1>1. s.mem \in Store /\ r.mem \in Store
  BY DEF ProcRec
<1>2. Underway(r2, c) \subseteq Underway(r, c) /\ Underway(r, c) \subseteq Underway(r2, c) \cup {e}
  BY UnderwayIs
<1>3. s.pc # "sendManifest" /\ \A i \in DOMAIN c : c[i].type # "MANIFEST"
  BY DEF PairOK, Fresh
<1>4. ASSUME NEW b \in BasePath, NEW m \in Node
      PROVE  Reaches(ClockAt(s.mem, <<b>>)[m], <<b>>, m, r2, c)
  <2>1. DEFINE x == ClockAt(s.mem, <<b>>)[m]
  <2>2. Len(<<b>>) = 1
    OBVIOUS
  <2>3. x \in Nat
    BY <1>1, StoreIsStore, ClockAtType DEF Clock
  <2>4. /\ ClockAt(r.mem, <<b>>)[m] \in Nat /\ ClockAt(r2.mem, <<b>>)[m] \in Nat
        /\ ClockAt(r.mem, <<b>>)[m] <= ClockAt(r2.mem, <<b>>)[m]
        /\ e.path = <<b>> => e.clock[m] <= ClockAt(r2.mem, <<b>>)[m]
    BY <1>1, <2>2, MergeClocks DEF Clock
  <2>5. Reaches(x, <<b>>, m, r, c)
    BY <1>3 DEF PairOK
  <2>6. CASE x <= ClockAt(r.mem, <<b>>)[m]
    BY <2>3, <2>4, <2>6 DEF Reaches
  <2>7. CASE \E y \in Underway(r, c) : y.path = <<b>> /\ x <= y.clock[m]
    <3>1. PICK y \in Underway(r, c) : y.path = <<b>> /\ x <= y.clock[m]
      BY <2>7
    <3>2. y.clock[m] \in Nat
      BY DEF Good, FileEntry, Clock
    <3>3. CASE y = e
      BY <2>3, <2>4, <3>1, <3>2, <3>3 DEF Reaches
    <3>4. CASE y \in Underway(r2, c)
      BY <3>1, <3>4 DEF Reaches
    <3>5. QED
      BY <1>2, <3>3, <3>4
  <2>8. QED
    BY <2>5, <2>6, <2>7 DEF Reaches
<1>5. QED
  BY <1>2, <1>3, <1>4 DEF PairOK

\* What is under way are entries.
LEMMA UnderwayType ==
  ASSUME Typed, NEW q \in Proc
  PROVE  \A e \in Underway(proc[q], chan[q]) : e \in Good
<1>1. proc[q] \in ProcRec /\ chan[q] \in Seq(Frame)
  BY DEF Typed
<1>2. proc[q].todo \subseteq Good
  BY <1>1 DEF ProcRec
<1>3. ASSUME NEW i \in DOMAIN chan[q], chan[q][i].type = "MANIFEST"
      PROVE  chan[q][i].entries \subseteq Good
  <2>1. chan[q][i] \in Frame
    BY <1>1
  <2>2. QED
    BY <1>3, <2>1 DEF Frame
<1>4. QED
  BY <1>2, <1>3, UnderwayIs

LEMMA MergeEntryAgrees ==
  ASSUME IInv, SInv, AInv, NEW pr \in Proc, NEW e \in proc[pr].todo, MergeEntry(pr, e)
  PROVE  AInv'
<1>1. /\ proc \in [Proc -> ProcRec] /\ proc[pr] \in ProcRec /\ Typed /\ e \in Good
  BY DEF IInv, Typed, ProcRec
<1>2. PICK needed2, paths2 :
         proc' = [proc EXCEPT ![pr] = [proc[pr] EXCEPT !.mem = merge_remote(@, e), !.todo = @ \ {e},
                                                       !.needed = needed2, !.paths = paths2]]
  BY <1>1 DEF MergeEntry
<1>3. DEFINE r2 == [proc[pr] EXCEPT !.mem = merge_remote(@, e), !.todo = @ \ {e},
                                    !.needed = needed2, !.paths = paths2]
<1>4. /\ proc' = [proc EXCEPT ![pr] = r2] /\ UNCHANGED <<link, chan>>
      /\ r2.mem = merge_remote(proc[pr].mem, e) /\ r2.todo = proc[pr].todo \ {e}
      /\ r2.pc = "merging" /\ proc[pr].pc = "merging"
  BY <1>1, <1>2 DEF MergeEntry, ProcRec
<1>5. HIDE DEF r2
<1>6. ASSUME NEW q \in Proc \ {pr}, Mutual(pr, q)
      PROVE  PairOK(r2, proc[q], chan[q]) /\ PairOK(proc[q], r2, chan[pr])
  <2>1. PairOK(proc[pr], proc[q], chan[q]) /\ PairOK(proc[q], proc[pr], chan[pr])
    BY <1>6 DEF AInv, Mutual
  <2>2. proc[q] \in ProcRec
    BY <1>1
  <2>3. /\ \A x \in Underway(proc[q], chan[q]) : x \in Good
        /\ \A x \in Underway(proc[pr], chan[pr]) : x \in Good
    BY <1>1, UnderwayType
  <2>4. e \in Underway(proc[pr], chan[pr])
    BY <1>4, UnderwayIs
  <2>5. Len(e.path) = 1 => Leq(e.clock, ClockAt(proc[q].mem, e.path))
    BY <2>1, <2>4 DEF PairOK
  <2>6. PairOK(r2, proc[q], chan[q])
    BY <1>1, <1>4, <2>1, <2>2, <2>3, <2>5, SenderMerges
  <2>7. PairOK(proc[q], r2, chan[pr])
    BY <1>1, <1>4, <2>1, <2>2, <2>3, ReceiverMerges
  <2>8. QED
    BY <2>6, <2>7
<1>7. QED
  BY <1>4, <1>6, PairMove

\* The manifest carries every clock of the sender.
LEMMA ManifestSent ==
  ASSUME NEW s \in ProcRec, NEW s2, NEW r \in ProcRec, NEW c, PairOK(s, r, c),
         s.pc = "sendManifest", s2.pc = "recvManifest", s2.mem = s.mem,
         NEW f, f.type = "MANIFEST", f.entries = all_entries(s.mem)
  PROVE  PairOK(s2, r, Append(c, f))
<1>1. c = <<>> /\ r.pc \in Fresh
  BY DEF PairOK
<1>2. DEFINE c2 == <<f>>
<1>3. Append(c, f) = c2
  BY <1>1
<1>4. DOMAIN c2 = {1} /\ c2[1] = f
  OBVIOUS
<1>5. HIDE DEF c2
<1>6. \A e : e \in Underway(r, c2) <=> e \in all_entries(s.mem)
  BY <1>1, <1>4, UnderwayIs DEF Fresh
<1>7. s.mem \in Store /\ r.mem \in Store /\ IsStore(s.mem) /\ IsStore(r.mem)
  BY StoreIsStore DEF ProcRec
<1>8. ASSUME NEW e \in Underway(r, c2)
      PROVE  Leq(e.clock, ClockAt(s2.mem, e.path))
  <2>1. PICK p \in DOMAIN s.mem : e = s.mem[p]
    BY <1>6 DEF all_entries
  <2>2. e.path = p /\ e.clock \in Clock /\ ClockAt(s2.mem, e.path) = e.clock
    BY <1>7, <2>1, ClocksOfStore
  <2>3. QED
    BY <2>2, LeqRefl
<1>9. ASSUME NEW b \in BasePath, NEW m \in Node
      PROVE  Reaches(ClockAt(s2.mem, <<b>>)[m], <<b>>, m, r, c2)
  <2>1. ClockAt(r.mem, <<b>>)[m] \in Nat /\ ClockAt(s2.mem, <<b>>)[m] \in Nat
    BY <1>7, ClockAtType DEF Clock
  <2>2. CASE <<b>> \in DOMAIN s.mem
    <3>1. DEFINE e == s.mem[<<b>>]
    <3>2. e.path = <<b>> /\ e.clock = ClockAt(s2.mem, <<b>>)
      BY <1>7, <2>2, ClocksOfStore
    <3>3. e \in Underway(r, c2)
      BY <1>6, <2>2 DEF all_entries
    <3>4. HIDE DEF e
    <3>5. QED
      BY <2>1, <3>2, <3>3 DEF Reaches
  <2>3. CASE <<b>> \notin DOMAIN s.mem
    <3>1. ClockAt(s2.mem, <<b>>)[m] = 0
      BY <2>3 DEF ClockAt, ZeroClock
    <3>2. QED
      BY <2>1, <3>1 DEF Reaches
  <2>4. QED
    BY <2>2, <2>3
<1>10. QED
  BY <1>1, <1>3, <1>4, <1>8, <1>9 DEF PairOK

LEMMA SendManifestAgrees ==
  ASSUME IInv, SInv, AInv, NEW pr \in Proc, SendManifest(pr)
  PROVE  AInv'
<1>1. /\ proc \in [Proc -> ProcRec] /\ proc[pr] \in ProcRec /\ Typed
      /\ chan \in [Proc -> Seq(Frame)]
  BY DEF IInv, Typed
<1>2. DEFINE r2 == [proc[pr] EXCEPT !.pc = "recvManifest"]
             f  == [type |-> "MANIFEST", entries |-> serialize_manifest(pr)]
<1>3. /\ proc' = [proc EXCEPT ![pr] = r2] /\ UNCHANGED link /\ chan' = send_frame(chan, pr, f)
      /\ r2.mem = proc[pr].mem /\ r2.pc = "recvManifest" /\ proc[pr].pc = "sendManifest"
      /\ f.type = "MANIFEST" /\ f.entries = all_entries(proc[pr].mem)
  BY <1>1 DEF SendManifest, ProcRec, serialize_manifest
<1>4. HIDE DEF r2, f
<1>5. \A q \in Proc : chan'[q] = IF Mutual(pr, q) THEN Append(chan[q], f) ELSE chan[q]
  BY <1>1, <1>3, SentTo
<1>6. chan'[pr] = chan[pr]
  <2>1. ~ Mutual(pr, pr)
    BY SyncNodeAssumption DEF Mutual, SInv, SessionOK
  <2>2. QED
    BY <1>5, <2>1
<1>7. ASSUME NEW q \in Proc \ {pr}, Mutual(pr, q)
      PROVE  PairOK(r2, proc[q], chan'[q]) /\ PairOK(proc[q], r2, chan'[pr])
  <2>1. PairOK(proc[pr], proc[q], chan[q]) /\ PairOK(proc[q], proc[pr], chan[pr])
    BY <1>7 DEF AInv, Mutual
  <2>2. proc[q] \in ProcRec
    BY <1>1
  <2>3. PairOK(r2, proc[q], chan'[q])
    BY <1>1, <1>3, <1>5, <1>7, <2>1, <2>2, ManifestSent
  <2>4. Underway(r2, chan[pr]) = Underway(proc[pr], chan[pr])
    BY <1>3 DEF Underway
  <2>5. PairOK(proc[q], r2, chan[pr])
    BY <1>3, <2>1, <2>4 DEF PairOK, Reaches, Fresh
  <2>6. QED
    BY <1>6, <2>3, <2>5
<1>8. QED
  BY <1>3, <1>5, <1>7, PairMove

LEMMA RecvManifestAgrees ==
  ASSUME IInv, SInv, AInv, NEW pr \in Proc, RecvManifest(pr)
  PROVE  AInv'
<1>1. /\ proc \in [Proc -> ProcRec] /\ proc[pr] \in ProcRec /\ Typed
      /\ chan[pr] \in Seq(Frame)
  BY DEF IInv, Typed
<1>2. DEFINE r2 == [proc[pr] EXCEPT !.pc = "merging", !.todo = Head(chan[pr]).entries]
<1>3. /\ proc' = [proc EXCEPT ![pr] = r2] /\ UNCHANGED link /\ chan' = Received(pr)
      /\ r2.mem = proc[pr].mem /\ r2.pc = "merging" /\ proc[pr].pc = "recvManifest"
      /\ chan[pr] # <<>> /\ r2.todo = Head(chan[pr]).entries
      /\ Head(chan[pr]).type = "MANIFEST"
  BY <1>1 DEF RecvManifest, Arrived, Expected, ProcRec
<1>4. HIDE DEF r2
<1>5. \A q \in Proc \ {pr} : chan'[q] = chan[q]
  BY <1>1, <1>3, ReceivedQueues
<1>6. chan'[pr] = Tail(chan[pr])
  BY <1>3 DEF Received, IInv, Typed
<1>7. /\ 1 \in DOMAIN chan[pr] /\ chan[pr][1] = Head(chan[pr])
      /\ \A i \in DOMAIN chan'[pr] :
            i + 1 \in DOMAIN chan[pr] /\ i + 1 # 1 /\ chan'[pr][i] = chan[pr][i + 1]
  BY <1>1, <1>3, <1>6
<1>8. ASSUME NEW q \in Proc \ {pr}, Mutual(pr, q)
      PROVE  PairOK(r2, proc[q], chan'[q]) /\ PairOK(proc[q], r2, chan'[pr])
  <2>1. PairOK(proc[pr], proc[q], chan[q]) /\ PairOK(proc[q], proc[pr], chan[pr])
    BY <1>8 DEF AInv, Mutual
  <2>2. PairOK(r2, proc[q], chan'[q])
    <3>1. SameManifests(chan[q], chan'[q])
      BY <1>5 DEF SameManifests
    <3>2. QED
      BY <1>3, <2>1, <3>1, SenderLate
  <2>3. \A i \in DOMAIN chan'[pr] : chan'[pr][i].type # "MANIFEST"
    BY <1>7, <2>1 DEF PairOK
  <2>4. \A i \in DOMAIN chan[pr] : chan[pr][i].type = "MANIFEST" => i = 1
    BY <2>1 DEF PairOK
  <2>5. ASSUME NEW e
        PROVE  e \in Underway(r2, chan'[pr]) <=> e \in Underway(proc[pr], chan[pr])
    <3>1. e \in Underway(r2, chan'[pr]) <=> e \in Head(chan[pr]).entries
      BY <1>3, <2>3, UnderwayIs
    <3>2. e \in Underway(proc[pr], chan[pr]) <=> e \in Head(chan[pr]).entries
      BY <1>3, <1>7, <2>4, UnderwayIs
    <3>3. QED
      BY <3>1, <3>2
  <2>6. Underway(r2, chan'[pr]) = Underway(proc[pr], chan[pr])
    BY <2>5
  <2>7. proc[q].pc # "sendManifest"
    BY <1>3, <2>1 DEF PairOK
  <2>8. PairOK(proc[q], r2, chan'[pr])
    BY <1>3, <2>1, <2>3, <2>6, <2>7 DEF PairOK, Reaches
  <2>9. QED
    BY <2>2, <2>8
<1>9. QED
  BY <1>3, <1>5, <1>8, PairMove

-----------------------------------------------------------------------------
(* Sessions begin and end.                                                  *)

\* The two sides start with no frame under way.
LEMMA SyncWithAgrees ==
  ASSUME IInv, SInv, AInv, NEW pr \in Proc, NEW qr \in Proc, SyncWith(pr, qr)
  PROVE  AInv'
<1>1. /\ proc \in [Proc -> ProcRec] /\ link \in [Proc -> Proc \cup {NoPeer}]
      /\ chan \in [Proc -> Seq(Frame)] /\ NoPeer \notin Proc /\ Loaded(pr) \in ProcRec
  BY SyncNodeAssumption, LoadedType DEF IInv, Typed
<1>2. proc[pr].pc = "idle" /\ proc[qr].pc = "listening" /\ pr # qr
  BY DEF SyncWith
<1>3. link[pr] = NoPeer /\ link[qr] = NoPeer
  BY <1>2 DEF SInv, SessionOK
<1>4. /\ \A q \in Proc \ {pr, qr} : proc'[q] = proc[q]
      /\ proc'[pr].pc = "sendManifest" /\ proc'[qr].pc = "sendManifest"
  BY <1>1, <1>2 DEF SyncWith, ProcRec
<1>5. \A q \in Proc : link'[q] = IF q = pr THEN qr ELSE IF q = qr THEN pr ELSE link[q]
  BY <1>1, <1>2 DEF SyncWith
<1>6. \A q \in Proc : chan'[q] = IF q \in {pr, qr} THEN <<>> ELSE chan[q]
  <2>1. DEFINE kept == [chan EXCEPT ![pr] = <<>>]
  <2>2. chan' = [kept EXCEPT ![qr] = <<>>]
    BY DEF SyncWith
  <2>3. DOMAIN kept = Proc /\ \A q \in Proc : kept[q] = IF q = pr THEN <<>> ELSE chan[q]
    BY <1>1
  <2>4. HIDE DEF kept
  <2>5. QED
    BY <2>2, <2>3
<1>7. ASSUME NEW s \in Proc, NEW r \in Proc, link'[s] = r, link'[r] = s
      PROVE  PairOK(proc'[s], proc'[r], chan'[r])
  <2>1. CASE s \in {pr, qr} \/ r \in {pr, qr}
    <3>1. s \in {pr, qr} /\ r \in {pr, qr}
      BY <1>1, <1>3, <1>5, <1>7, <2>1
    <3>2. proc'[s].pc = "sendManifest" /\ proc'[r].pc = "sendManifest" /\ chan'[r] = <<>>
      BY <1>4, <1>6, <3>1
    <3>3. Underway(proc'[r], chan'[r]) = {}
      BY <3>2 DEF Underway
    <3>4. QED
      BY <3>2, <3>3 DEF PairOK, Fresh
  <2>2. CASE s \notin {pr, qr} /\ r \notin {pr, qr}
    BY <1>4, <1>5, <1>6, <1>7, <2>2 DEF AInv, Mutual
  <2>3. QED
    BY <2>1, <2>2
<1>8. QED
  BY <1>7 DEF AInv, Mutual

\* A process that ends takes its own frames along, and maybe those it sent.
LEMMA EndAgrees ==
  ASSUME IInv, SInv, AInv, NEW pr \in Proc,
         \/ StopListening(pr) \/ RecvDone(pr) \/ Fail(pr) \/ Crash(pr)
         \/ \E h \in DOMAIN proc[pr].incoming : CrashInPutChunk(pr, h)
         \/ \E e \in proc[pr].todo : CrashInLine(pr, e)
  PROVE  AInv'
<1>1. Exit(pr)
  BY DEF StopListening, RecvDone, Fail, Crash, CrashInPutChunk, CrashInLine
<1>2. Typed /\ chan \in [Proc -> Seq(Frame)] /\ link \in [Proc -> Proc \cup {NoPeer}]
  BY DEF IInv, Typed
<1>3. ASSUME NEW q \in Proc \ {pr}, ~ Mutual(pr, q)
      PROVE  chan'[q] = chan[q]
  <2>1. CASE StopListening(pr) \/ Fail(pr)
    BY <2>1 DEF StopListening, Fail
  <2>2. CASE RecvDone(pr)
    BY <1>2, <2>2, ReceivedQueues DEF RecvDone, Arrived
  <2>3. CASE chan' \in Cut(pr)
    <3>1. DEFINE kept == [chan EXCEPT ![pr] = <<>>]
    <3>2. kept \in [Proc -> Seq(Frame)] /\ kept[q] = chan[q]
      BY <1>2
    <3>3. chan' = kept \/ (Connected(pr) /\ chan' = [kept EXCEPT ![link[pr]] = <<>>])
      BY <2>3 DEF Cut
    <3>4. Connected(pr) => link[pr] # q
      BY <1>3 DEF Connected, Mutual
    <3>5. HIDE DEF kept
    <3>6. QED
      BY <3>2, <3>3, <3>4
  <2>4. QED
    BY <2>1, <2>2, <2>3 DEF Crash, CrashInPutChunk, CrashInLine
<1>4. QED
  BY <1>1, <1>3, PairExit

\* Commands other than sync, and the end of an add, are outside of sessions.
LEMMA AloneAgrees ==
  ASSUME IInv, SInv, AInv, NEW pr \in Proc,
         \/ \E p \in UserPath, f \in FileContent : StartAdd(pr, p, f)
         \/ \E p \in UserPath : StartRm(pr, p)
         \/ StartListen(pr) \/ PutLocal(pr)
  PROVE  AInv'
<1>1. proc \in [Proc -> ProcRec]
  BY DEF IInv, Typed
<1>2. /\ proc' = [proc EXCEPT ![pr] = proc'[pr]] /\ UNCHANGED <<link, chan>>
      /\ proc[pr].pc \in {"idle", "adding"}
  BY <1>1 DEF StartAdd, StartRm, StartListen, PutLocal
<1>3. QED
  BY <1>2, PairAlone

LEMMA AInvInit == Init => AInv
<1>1. SUFFICES ASSUME Init, NEW s \in Proc, NEW r \in Proc, Mutual(s, r)
               PROVE  FALSE
  BY DEF AInv
<1>2. link[s] = NoPeer
  BY <1>1 DEF Init
<1>3. QED
  BY <1>1, <1>2, SyncNodeAssumption DEF Mutual

LEMMA AInvStep ==
  ASSUME IInv, SInv, AInv, [Next]_vars
  PROVE  AInv'
<1>1. CASE UNCHANGED vars
  BY <1>1 DEF vars, AInv, Mutual
<1>2. ASSUME NEW pr \in Proc, Command(pr)
      PROVE  AInv'
  BY <1>2, AloneAgrees, EndAgrees, SyncWithAgrees DEF Command
<1>3. ASSUME NEW pr \in Proc, Step(pr)
      PROVE  AInv'
  BY <1>3, LocalLate, AloneAgrees, GoOnOrEnd, SendManifestAgrees, RecvManifestAgrees,
     MergeEntryAgrees, SendRequestAgrees, ServeRequestAgrees, RecvDataAgrees, EndAgrees DEF Step
<1>4. ASSUME NEW pr \in Proc, Killed(pr)
      PROVE  AInv'
  BY <1>4, EndAgrees DEF Killed
<1>5. QED
  BY <1>1, <1>2, <1>3, <1>4 DEF Next

\* Nothing is under way any more to a process that has saved.
LEMMA SavedHeardAll ==
  ASSUME NEW s, NEW r, NEW c, PairOK(s, r, c), r.pc \in {"sendDone", "recvDone"},
         NEW b \in BasePath, NEW m \in Node
  PROVE  ClockAt(s.mem, <<b>>)[m] <= ClockAt(r.mem, <<b>>)[m]
<1>1. r.pc \notin Fresh /\ r.pc # "merging"
  BY DEF Fresh
<1>2. \A i \in DOMAIN c : c[i].type # "MANIFEST"
  BY <1>1 DEF PairOK
<1>3. Underway(r, c) = {}
  BY <1>1, <1>2, UnderwayIs
<1>4. Reaches(ClockAt(s.mem, <<b>>)[m], <<b>>, m, r, c)
  BY <1>1 DEF PairOK
<1>5. QED
  BY <1>3, <1>4 DEF Reaches

LEMMA AInvSeenAlike ==
  ASSUME IInv, AInv
  PROVE  SeenAlike
<1>1. SUFFICES ASSUME NEW pr \in Proc, NEW qr \in Proc, SessionSaved(pr, qr), NEW b \in BasePath
               PROVE  ClockAt(proc[pr].mem, <<b>>) = ClockAt(proc[qr].mem, <<b>>)
  BY DEF SeenAlike
<1>2. PairOK(proc[pr], proc[qr], chan[qr]) /\ PairOK(proc[qr], proc[pr], chan[pr])
  BY <1>1 DEF AInv, Mutual, SessionSaved
<1>3. proc[pr].pc \in {"sendDone", "recvDone"} /\ proc[qr].pc \in {"sendDone", "recvDone"}
  BY <1>1 DEF SessionSaved
<1>4. ClockAt(proc[pr].mem, <<b>>) \in Clock /\ ClockAt(proc[qr].mem, <<b>>) \in Clock
  BY StoreIsStore, ClockAtType DEF IInv, Typed, ProcRec
<1>5. ASSUME NEW m \in Node
      PROVE  ClockAt(proc[pr].mem, <<b>>)[m] = ClockAt(proc[qr].mem, <<b>>)[m]
  <2>1. /\ ClockAt(proc[pr].mem, <<b>>)[m] <= ClockAt(proc[qr].mem, <<b>>)[m]
        /\ ClockAt(proc[qr].mem, <<b>>)[m] <= ClockAt(proc[pr].mem, <<b>>)[m]
    BY <1>2, <1>3, SavedHeardAll
  <2>2. ClockAt(proc[pr].mem, <<b>>)[m] \in Nat /\ ClockAt(proc[qr].mem, <<b>>)[m] \in Nat
    BY <1>4 DEF Clock
  <2>3. QED
    BY <2>1, <2>2
<1>6. QED
  BY <1>4, <1>5 DEF Clock

\* After a session the two sides have seen the same edits of every user's file
\* (run_sync_session), for any nodes, files, orders of manifests and crashes,
\* and however many processes share a data directory.
THEOREM SeenAlikeHolds == Spec => []SeenAlike
<1>1. Init => IInv /\ SInv /\ AInv
  BY IInvInit, SInvInit, AInvInit
<1>2. IInv /\ SInv /\ AInv /\ [Next]_vars => IInv' /\ SInv' /\ AInv'
  BY IInvStep, SInvStep, AInvStep
<1>3. IInv /\ SInv /\ AInv => SeenAlike
  BY AInvSeenAlike
<1>4. QED
  BY <1>1, <1>2, <1>3, PTL DEF Spec

-----------------------------------------------------------------------------
(* The merge of a manifest, entry by entry.                                 *)

\* std::string's < orders the names of different paths.
PathOrder ==
  /\ \A p \in Path : ~ Before(p, p)
  /\ \A p, q \in Path : p # q => Before(p, q) \/ Before(q, p)
  /\ \A p, q, r \in Path : Before(p, q) /\ Before(q, r) => Before(p, r)

\* Finitely many entries, of different paths.
IsManifest(S) ==
  /\ IsFiniteSet(S)
  /\ \A e \in S : e.path \in Path
  /\ \A e, f \in S : e.path = f.path => e = f

LastOf(S) == CHOOSE e \in S : \A f \in S : f = e \/ Before(f.path, e.path)

LEMMA PartOfManifest ==
  ASSUME NEW S, IsManifest(S), NEW T \in SUBSET S
  PROVE  IsManifest(T) /\ Cardinality(T) \in Nat /\ Cardinality(T) <= Cardinality(S)
<1>1. IsFiniteSet(S)
  BY DEF IsManifest
<1>2. IsFiniteSet(T) /\ Cardinality(T) <= Cardinality(S)
  BY <1>1, FS_Subset
<1>3. Cardinality(T) \in Nat
  BY <1>2, FS_CardinalityType
<1>4. QED
  BY <1>2, <1>3 DEF IsManifest

LEMMA WithoutOne ==
  ASSUME NEW S, IsManifest(S), NEW x \in S
  PROVE  Cardinality(S) \in Nat /\ Cardinality(S \ {x}) = Cardinality(S) - 1
<1>1. IsFiniteSet(S)
  BY DEF IsManifest
<1>2. QED
  BY <1>1, FS_RemoveElement, FS_CardinalityType

LEMMA NoneLeft ==
  ASSUME NEW S, IsManifest(S)
  PROVE  Cardinality(S) = 0 <=> S = {}
<1>1. IsFiniteSet(S)
  BY DEF IsManifest
<1>2. QED
  BY <1>1, FS_EmptySet

LEMMA HasLast ==
  ASSUME PathOrder, NEW S, IsManifest(S), S # {}
  PROVE  \E e \in S : \A f \in S : f = e \/ Before(f.path, e.path)
<1>1. DEFINE HasEnd(T) == \E e \in T : \A f \in T : f = e \/ Before(f.path, e.path)
             N == {k \in Nat : \A T \in SUBSET S : Cardinality(T) = k /\ T # {} => HasEnd(T)}
<1>2. 0 \in N
  BY PartOfManifest, NoneLeft
<1>3. ASSUME NEW k \in 1 .. Cardinality(S), k - 1 \in N
      PROVE  k \in N
  <2>1. SUFFICES ASSUME NEW T \in SUBSET S, Cardinality(T) = k, T # {}
                 PROVE  HasEnd(T)
    BY PartOfManifest
  <2>2. PICK x \in T : TRUE
    BY <2>1
  <2>3. IsManifest(T) /\ Cardinality(T \ {x}) = k - 1 /\ T \ {x} \in SUBSET S
    BY <2>1, PartOfManifest, WithoutOne
  <2>4. CASE T \ {x} = {}
    BY <2>4
  <2>5. CASE T \ {x} # {}
    <3>1. PICK y \in T \ {x} : \A f \in T \ {x} : f = y \/ Before(f.path, y.path)
      BY <1>3, <2>3, <2>5
    <3>2. x.path # y.path /\ x.path \in Path /\ y.path \in Path /\ \A f \in T : f.path \in Path
      BY <2>3, <3>1 DEF IsManifest
    <3>3. CASE Before(y.path, x.path)
      <4>1. \A f \in T : f = x \/ Before(f.path, x.path)
        BY <3>1, <3>2, <3>3 DEF PathOrder
      <4>2. QED
        BY <4>1
    <3>4. CASE Before(x.path, y.path)
      BY <3>1, <3>4
    <3>5. QED
      BY <3>2, <3>3, <3>4 DEF PathOrder
  <2>6. QED
    BY <2>4, <2>5
<1>4. Cardinality(S) \in Nat /\ Cardinality(S) \in 0 .. Cardinality(S)
  BY PartOfManifest
<1>5. Cardinality(S) \in N
  <2>1. HIDE DEF N
  <2>2. QED
    BY <1>2, <1>3, <1>4, UpToBound
<1>6. QED
  BY <1>5

LEMMA LastOfFacts ==
  ASSUME PathOrder, NEW S, IsManifest(S), S # {}
  PROVE  LastOf(S) \in S /\ \A f \in S : f = LastOf(S) \/ Before(f.path, LastOf(S).path)
  BY HasLast DEF LastOf

\* f gives what becomes of es when a part of the entries in S is merged into it.
MergesTo(f, es, S) ==
  f = [s \in SUBSET S |->
         IF s = {} THEN {es} ELSE {merge_remote(m, LastOf(s)) : m \in f[s \ {LastOf(s)}]}]

LEMMA MergesExist ==
  ASSUME PathOrder, NEW S, IsManifest(S), NEW es
  PROVE  \E f : MergesTo(f, es, S)
<1>1. DEFINE Small(k) == {s \in SUBSET S : Cardinality(s) <= k}
             Val(f, s) == IF s = {} THEN {es}
                          ELSE {merge_remote(m, LastOf(s)) : m \in f[s \ {LastOf(s)}]}
             UpTo(f, k) == f = [s \in Small(k) |-> Val(f, s)]
             N == {k \in Nat : \E f : UpTo(f, k)}
<1>2. \A s \in SUBSET S : IsManifest(s) /\ Cardinality(s) \in Nat /\ Cardinality(s) <= Cardinality(S)
  BY PartOfManifest
<1>3. ASSUME NEW s \in SUBSET S, s # {}
      PROVE  s \ {LastOf(s)} \in SUBSET S /\ Cardinality(s \ {LastOf(s)}) = Cardinality(s) - 1
  BY <1>2, <1>3, LastOfFacts, WithoutOne
<1>4. ASSUME NEW f, NEW g, NEW s \in SUBSET S, s # {} => f[s \ {LastOf(s)}] = g[s \ {LastOf(s)}]
      PROVE  Val(f, s) = Val(g, s)
  BY <1>4
<1>5. HIDE DEF Val
<1>6. 0 \in N
  <2>1. DEFINE f == [s \in Small(0) |-> Val({}, s)]
  <2>2. ASSUME NEW s \in Small(0)
        PROVE  s = {}
    BY <1>2, NoneLeft
  <2>3. \A s \in Small(0) : Val({}, s) = Val(f, s)
    BY <1>4, <2>2
  <2>4. f = [s \in Small(0) |-> Val(f, s)]
    BY <2>3
  <2>5. UpTo(f, 0)
    BY <2>4
  <2>6. HIDE DEF f, UpTo
  <2>7. QED
    BY <2>5
<1>7. ASSUME NEW k \in 1 .. Cardinality(S), k - 1 \in N
      PROVE  k \in N
  <2>1. PICK f : UpTo(f, k - 1)
    BY <1>7
  <2>2. DEFINE g == [s \in Small(k) |-> Val(f, s)]
  <2>3. ASSUME NEW s \in Small(k), s # {}
        PROVE  f[s \ {LastOf(s)}] = g[s \ {LastOf(s)}]
    <3>1. DEFINE t == s \ {LastOf(s)}
    <3>2. t \in SUBSET S /\ Cardinality(t) = Cardinality(s) - 1 /\ Cardinality(s) <= k
          /\ Cardinality(s) \in Nat /\ k \in Nat
      BY <1>2, <1>3, <2>3
    <3>3. HIDE DEF t
    <3>4. t \in Small(k - 1) /\ t \in Small(k)
      BY <3>2
    <3>5. HIDE DEF Small
    <3>6. f[t] = Val(f, t) /\ g[t] = Val(f, t)
      BY <2>1, <3>4
    <3>7. QED
      BY <3>6 DEF t
  <2>4. \A s \in Small(k) : Val(f, s) = Val(g, s)
    <3>1. HIDE DEF g
    <3>2. QED
      BY <1>4, <2>3
  <2>5. g = [s \in Small(k) |-> Val(g, s)]
    BY <2>4
  <2>6. UpTo(g, k)
    BY <2>5
  <2>7. k \in Nat
    BY <1>2
  <2>8. HIDE DEF g, UpTo
  <2>9. QED
    BY <2>6, <2>7
<1>8. Cardinality(S) \in Nat /\ Cardinality(S) \in 0 .. Cardinality(S)
  BY <1>2
<1>9. Cardinality(S) \in N
  <2>1. HIDE DEF N
  <2>2. QED
    BY <1>6, <1>7, <1>8, UpToBound
<1>10. PICK f : UpTo(f, Cardinality(S))
  BY <1>9
<1>11. Small(Cardinality(S)) = SUBSET S
  BY <1>2
<1>12. f = [s \in SUBSET S |-> Val(f, s)]
  <2>1. HIDE DEF Small
  <2>2. QED
    BY <1>10, <1>11
<1>13. QED
  BY <1>12 DEF MergesTo, Val

LEMMA MergeAllIs ==
  ASSUME PathOrder, NEW S, IsManifest(S), NEW es
  PROVE  \E f : MergesTo(f, es, S) /\ MergeAll(es, S, Before) = f[S]
<1>1. PICK g : MergesTo(g, es, S)
  BY MergesExist
<1>2. DEFINE f == CHOOSE h : MergesTo(h, es, S)
<1>3. MergesTo(f, es, S)
  BY <1>1
<1>4. MergeAll(es, S, Before) = f[S]
  BY Zenon DEF MergeAll, MapThenFoldSet, MergesTo, LastOf
<1>5. QED
  BY <1>3, <1>4

LEMMA MergeNothing ==
  ASSUME PathOrder, NEW es
  PROVE  MergeAll(es, {}, Before) = {es}
<1>1. IsManifest({})
  BY FS_EmptySet DEF IsManifest
<1>2. PICK f : MergesTo(f, es, {}) /\ MergeAll(es, {}, Before) = f[{}]
  BY <1>1, MergeAllIs
<1>3. QED
  BY <1>2 DEF MergesTo

\* Merging the first entry first and then the others is merging all of them.
LEMMA MergeFirst ==
  ASSUME PathOrder, NEW S, IsManifest(S), NEW e \in S, IsFirst(e, S), NEW es
  PROVE  MergeAll(es, S, Before) = MergeAll(merge_remote(es, e), S \ {e}, Before)
<1>1. DEFINE R == S \ {e}
             es2 == merge_remote(es, e)
<1>2. IsManifest(R)
  BY PartOfManifest
<1>3. PICK f : MergesTo(f, es, S) /\ MergeAll(es, S, Before) = f[S]
  BY MergeAllIs
<1>4. PICK g : MergesTo(g, es2, R) /\ MergeAll(es2, R, Before) = g[R]
  BY <1>2, MergeAllIs
<1>5. DEFINE N == {k \in Nat : \A T \in SUBSET R : Cardinality(T) = k => f[T \cup {e}] = g[T]}
<1>6. ASSUME NEW T \in SUBSET R, T = {}
      PROVE  f[T \cup {e}] = g[T]
  <2>1. {e} \in SUBSET S /\ {e} # {} /\ {} \in SUBSET S /\ {} \in SUBSET R
    OBVIOUS
  <2>2. LastOf({e}) = e
    BY DEF LastOf
  <2>3. {e} \ {LastOf({e})} = {}
    BY <2>2
  <2>4. f[{}] = {es} /\ g[{}] = {es2}
    BY <1>3, <1>4, <2>1 DEF MergesTo
  <2>5. f[{e}] = {merge_remote(m, LastOf({e})) : m \in f[{e} \ {LastOf({e})}]}
    BY <1>3, <2>1 DEF MergesTo
  <2>6. f[{e}] = {es2}
    BY <2>2, <2>3, <2>4, <2>5
  <2>7. T \cup {e} = {e}
    BY <1>6
  <2>8. QED
    BY <1>6, <2>4, <2>6, <2>7
<1>7. ASSUME NEW T \in SUBSET R, T # {}
      PROVE  /\ LastOf(T) \in T /\ Cardinality(T \ {LastOf(T)}) = Cardinality(T) - 1
             /\ LastOf(T \cup {e}) = LastOf(T)
  <2>1. IsManifest(T) /\ IsManifest(T \cup {e}) /\ T \cup {e} # {}
    BY PartOfManifest
  <2>2. LastOf(T) \in T /\ \A h \in T : h = LastOf(T) \/ Before(h.path, LastOf(T).path)
    BY <1>7, <2>1, LastOfFacts
  <2>3. Cardinality(T \ {LastOf(T)}) = Cardinality(T) - 1
    BY <2>1, <2>2, WithoutOne
  <2>4. DEFINE x == LastOf(T)
               y == LastOf(T \cup {e})
  <2>5. y \in T \cup {e} /\ \A h \in T \cup {e} : h = y \/ Before(h.path, y.path)
    BY <2>1, LastOfFacts
  <2>6. HIDE DEF x, y
  <2>7. x \in T /\ x \in S /\ x # e /\ y \in S /\ \A h \in T : h = x \/ Before(h.path, x.path)
    BY <2>2, <2>5 DEF x
  <2>8. x.path \in Path /\ y.path \in Path /\ e.path \in Path /\ Before(e.path, x.path)
    BY <2>7 DEF IsManifest, IsFirst
  <2>9. y # e
    BY <2>5, <2>7, <2>8 DEF PathOrder
  <2>10. y = x
    BY <2>5, <2>7, <2>8, <2>9 DEF PathOrder
  <2>11. QED
    BY <2>2, <2>3, <2>10 DEF x, y
<1>8. 0 \in N
  BY <1>2, <1>6, PartOfManifest, NoneLeft
<1>9. ASSUME NEW k \in 1 .. Cardinality(R), k - 1 \in N
      PROVE  k \in N
  <2>1. SUFFICES ASSUME NEW T \in SUBSET R, Cardinality(T) = k
                 PROVE  f[T \cup {e}] = g[T]
    BY <1>2, PartOfManifest
  <2>2. CASE T = {}
    BY <1>6, <2>2
  <2>3. CASE T # {}
    <3>1. DEFINE l == LastOf(T)
                 U == T \cup {e}
    <3>2. l \in T /\ Cardinality(T \ {l}) = k - 1 /\ LastOf(U) = l
      BY <1>7, <2>1, <2>3
    <3>3. U \in SUBSET S /\ U # {} /\ T \ {l} \in SUBSET R
      OBVIOUS
    <3>4. f[(T \ {l}) \cup {e}] = g[T \ {l}]
      BY <1>9, <3>2, <3>3
    <3>5. U \ {l} = (T \ {l}) \cup {e}
      BY <3>2
    <3>6. g[T] = {merge_remote(m, l) : m \in g[T \ {l}]}
      BY <1>4, <2>3 DEF MergesTo
    <3>7. HIDE DEF U
    <3>8. f[U] = {merge_remote(m, LastOf(U)) : m \in f[U \ {LastOf(U)}]}
      BY <1>3, <3>3 DEF MergesTo
    <3>9. f[U] = {merge_remote(m, l) : m \in f[U \ {l}]}
      BY <3>2, <3>8
    <3>10. f[U] = g[T]
      BY <3>4, <3>5, <3>6, <3>9
    <3>11. QED
      BY <3>10 DEF U
  <2>4. QED
    BY <2>2, <2>3
<1>10. Cardinality(R) \in Nat /\ Cardinality(R) \in 0 .. Cardinality(R)
  BY <1>2, PartOfManifest
<1>11. Cardinality(R) \in N
  <2>1. HIDE DEF N
  <2>2. QED
    BY <1>8, <1>9, <1>10, UpToBound
<1>12. R \cup {e} = S
  OBVIOUS
<1>13. f[S] = g[R]
  BY <1>11, <1>12
<1>14. QED
  BY <1>3, <1>4, <1>13

-----------------------------------------------------------------------------
(* What a session will install, process by process.                         *)

\* {what r, on connection l and with the frames c in its queue, will install},
\* or {}; coming: the manifests its peer is about to send.
WillOf(r, l, c, coming) ==
  IF l = NoPeer THEN {}
  ELSE IF r.pc \in Later THEN {r.mem}
  ELSE IF r.pc = "merging" THEN MergeAll(r.mem, r.todo, Before)
  ELSE IF r.pc \notin Fresh THEN {}
  ELSE IF c # <<>> THEN MergeAll(r.mem, Head(c).entries, Before)
  ELSE UNION {MergeAll(r.mem, es, Before) : es \in coming}

\* What the data directory will hold once a save that has begun is over.
DiskOf(r, j) == IF r.pc = "writing" THEN r.mem ELSE j

\* The union over the manifests still to be merged is what WillOf says.
LEMMA WillIs ==
  ASSUME PathOrder, NEW pr \in Proc,
         proc[pr].pc \in Unsaved, link[pr] # NoPeer
  PROVE  UNION {MergeAll(proc[pr].mem, es, Before) : es \in Manifests(pr)}
           = WillOf(proc[pr], link[pr], chan[pr], Coming(pr))
<1>1. DEFINE M(es) == MergeAll(proc[pr].mem, es, Before)
<1>2. M({}) = {proc[pr].mem}
  BY MergeNothing
<1>3. \A es : UNION {M(x) : x \in {es}} = M(es)
  OBVIOUS
<1>4. HIDE DEF M
<1>5. CASE proc[pr].pc \in Later
  <2>1. Manifests(pr) = {{}}
    BY <1>5 DEF Manifests, Later
  <2>2. QED
    BY <1>2, <1>3, <1>5, <2>1 DEF WillOf, M
<1>6. CASE proc[pr].pc = "merging"
  <2>1. Manifests(pr) = {proc[pr].todo} /\ proc[pr].pc \notin Later
    BY <1>6 DEF Manifests, Later
  <2>2. QED
    BY <1>3, <1>6, <2>1 DEF WillOf, M
<1>7. CASE proc[pr].pc \in Fresh /\ chan[pr] # <<>>
  <2>1. Manifests(pr) = {Head(chan[pr]).entries} /\ proc[pr].pc \notin Later
        /\ proc[pr].pc # "merging"
    BY <1>7 DEF Manifests, Fresh, Later
  <2>2. QED
    BY <1>3, <1>7, <2>1 DEF WillOf, M
<1>8. CASE proc[pr].pc \in Fresh /\ chan[pr] = <<>>
  <2>1. Manifests(pr) = Coming(pr) /\ proc[pr].pc \notin Later /\ proc[pr].pc # "merging"
    BY <1>8 DEF Manifests, Fresh, Later
  <2>2. QED
    BY <1>8, <2>1 DEF WillOf
<1>9. QED
  BY <1>5, <1>6, <1>7, <1>8 DEF Unsaved, Fresh

LEMMA WillIsNext ==
  ASSUME PathOrder, NEW pr \in Proc,
         proc'[pr].pc \in Unsaved, link'[pr] # NoPeer
  PROVE  UNION {MergeAll(proc'[pr].mem, es, Before) : es \in Manifests(pr)'}
           = WillOf(proc'[pr], link'[pr], chan'[pr], Coming(pr)')
<1>1. DEFINE M(es) == MergeAll(proc'[pr].mem, es, Before)
<1>2. M({}) = {proc'[pr].mem}
  BY MergeNothing
<1>3. \A es : UNION {M(x) : x \in {es}} = M(es)
  OBVIOUS
<1>4. HIDE DEF M
<1>5. CASE proc'[pr].pc \in Later
  <2>1. Manifests(pr)' = {{}}
    BY <1>5 DEF Manifests, Later
  <2>2. QED
    BY <1>2, <1>3, <1>5, <2>1 DEF WillOf, M
<1>6. CASE proc'[pr].pc = "merging"
  <2>1. Manifests(pr)' = {proc'[pr].todo} /\ proc'[pr].pc \notin Later
    BY <1>6 DEF Manifests, Later
  <2>2. QED
    BY <1>3, <1>6, <2>1 DEF WillOf, M
<1>7. CASE proc'[pr].pc \in Fresh /\ chan'[pr] # <<>>
  <2>1. Manifests(pr)' = {Head(chan'[pr]).entries} /\ proc'[pr].pc \notin Later
        /\ proc'[pr].pc # "merging"
    BY <1>7 DEF Manifests, Fresh, Later
  <2>2. QED
    BY <1>3, <1>7, <2>1 DEF WillOf, M
<1>8. CASE proc'[pr].pc \in Fresh /\ chan'[pr] = <<>>
  <2>1. Manifests(pr)' = Coming(pr)' /\ proc'[pr].pc \notin Later /\ proc'[pr].pc # "merging"
    BY <1>8 DEF Manifests, Fresh, Later
  <2>2. QED
    BY <1>8, <2>1 DEF WillOf
<1>9. QED
  BY <1>5, <1>6, <1>7, <1>8 DEF Unsaved, Fresh

\* What the node of pr has recorded, and what it will install.
Disk(pr) == DiskOf(proc[pr], journal[Home(pr)])
Will(pr) == WillOf(proc[pr], link[pr], chan[pr], Coming(pr))

LEMMA StoreAt ==
  ASSUME OneAtATime, NEW pr \in Proc
  PROVE  StoreOf(Home(pr)) = Disk(pr) /\ StoreOf(Home(pr))' = Disk(pr)'
<1>1. \A q \in Proc : Home(q) = Home(pr) <=> q = pr
  BY DEF OneAtATime
<1>2. StoreOf(Home(pr)) = Disk(pr)
  <2>1. CASE proc[pr].pc = "writing"
    <3>1. At(Home(pr), {"writing"}) = {pr}
      BY <1>1, <2>1 DEF At
    <3>2. QED
      BY <2>1, <3>1 DEF StoreOf, Disk, DiskOf
  <2>2. CASE proc[pr].pc # "writing"
    <3>1. At(Home(pr), {"writing"}) = {}
      BY <1>1, <2>2 DEF At
    <3>2. QED
      BY <2>2, <3>1 DEF StoreOf, Disk, DiskOf
  <2>3. QED
    BY <2>1, <2>2
<1>3. StoreOf(Home(pr))' = Disk(pr)'
  <2>1. CASE proc'[pr].pc = "writing"
    <3>1. At(Home(pr), {"writing"})' = {pr}
      BY <1>1, <2>1 DEF At, Home
    <3>2. QED
      BY <2>1, <3>1 DEF StoreOf, Disk, DiskOf, Home
  <2>2. CASE proc'[pr].pc # "writing"
    <3>1. At(Home(pr), {"writing"})' = {}
      BY <1>1, <2>2 DEF At, Home
    <3>2. QED
      BY <2>2, <3>1 DEF StoreOf, Disk, DiskOf, Home
  <2>3. QED
    BY <2>1, <2>2
<1>4. QED
  BY <1>2, <1>3

LEMMA NothingToInstall ==
  ASSUME NEW r, NEW l, NEW c, NEW coming, r.pc \notin Unsaved \/ l = NoPeer
  PROVE  WillOf(r, l, c, coming) = {}
  BY DEF WillOf, Unsaved, Fresh

LEMMA PendingAt ==
  ASSUME OneAtATime, PathOrder, NEW pr \in Proc
  PROVE  PendingOf(Home(pr)) = Will(pr) /\ PendingOf(Home(pr))' = Will(pr)'
<1>1. \A q \in Proc : Home(q) = Home(pr) <=> q = pr
  BY DEF OneAtATime
<1>2. PendingOf(Home(pr)) = Will(pr)
  <2>1. DEFINE S == {q \in At(Home(pr), Unsaved) : link[q] # NoPeer}
               I(q) == UNION {MergeAll(proc[q].mem, es, Before) : es \in Manifests(q)}
  <2>2. PendingOf(Home(pr)) = UNION {I(q) : q \in S}
    BY DEF PendingOf
  <2>3. CASE proc[pr].pc \in Unsaved /\ link[pr] # NoPeer
    <3>1. S = {pr}
      BY <1>1, <2>3 DEF At
    <3>2. I(pr) = Will(pr)
      BY <2>3, WillIs DEF Will
    <3>3. HIDE DEF S, I
    <3>4. QED
      BY <2>2, <3>1, <3>2
  <2>4. CASE ~ (proc[pr].pc \in Unsaved /\ link[pr] # NoPeer)
    <3>1. S = {}
      BY <1>1, <2>4 DEF At
    <3>2. Will(pr) = {}
      BY <2>4, NothingToInstall DEF Will
    <3>3. HIDE DEF S, I
    <3>4. QED
      BY <2>2, <3>1, <3>2
  <2>5. QED
    BY <2>3, <2>4
<1>3. PendingOf(Home(pr))' = Will(pr)'
  <2>1. DEFINE S == {q \in At(Home(pr), Unsaved)' : link'[q] # NoPeer}
               I(q) == UNION {MergeAll(proc'[q].mem, es, Before) : es \in Manifests(q)'}
  <2>2. PendingOf(Home(pr))' = UNION {I(q) : q \in S}
    BY DEF PendingOf
  <2>3. CASE proc'[pr].pc \in Unsaved /\ link'[pr] # NoPeer
    <3>1. S = {pr}
      BY <1>1, <2>3 DEF At, Home
    <3>2. I(pr) = Will(pr)'
      BY <2>3, WillIsNext DEF Will
    <3>3. HIDE DEF S, I
    <3>4. QED
      BY <2>2, <3>1, <3>2
  <2>4. CASE ~ (proc'[pr].pc \in Unsaved /\ link'[pr] # NoPeer)
    <3>1. S = {}
      BY <1>1, <2>4 DEF At, Home
    <3>2. Will(pr)' = {}
      BY <2>4, NothingToInstall DEF Will
    <3>3. HIDE DEF S, I
    <3>4. QED
      BY <2>2, <3>1, <3>2
  <2>5. QED
    BY <2>3, <2>4
<1>4. QED
  BY <1>2, <1>3

\* A node without processes.
LEMMA Vacant ==
  ASSUME NEW n, \A pr \in Proc : Home(pr) # n
  PROVE  /\ StoreOf(n) = journal[n] /\ PendingOf(n) = {}
         /\ StoreOf(n)' = journal'[n] /\ PendingOf(n)' = {}
<1>1. \A states : At(n, states) = {} /\ At(n, states)' = {}
  BY DEF At, Home
<1>2. QED
  BY <1>1 DEF StoreOf, PendingOf

\* A step that changes no store: sessions go on, or fail.
LEMMA QuietStep ==
  ASSUME OneAtATime, PathOrder,
         \A n \in Node : (\A q \in Proc : Home(q) # n) => journal'[n] = journal[n],
         \A q \in Proc : Disk(q)' = Disk(q),
         \A q \in Proc : Will(q)' = Will(q) \/ Will(q)' = {}
  PROVE  AS!Next
<1>1. ASSUME NEW n \in Node
      PROVE  StoreOf(n)' = StoreOf(n) /\ (PendingOf(n)' = PendingOf(n) \/ PendingOf(n)' = {})
  <2>1. CASE \A q \in Proc : Home(q) # n
    BY <2>1, Vacant
  <2>2. ASSUME NEW q \in Proc, Home(q) = n
        PROVE  StoreOf(n)' = StoreOf(n) /\ (PendingOf(n)' = PendingOf(n) \/ PendingOf(n)' = {})
    <3>1. /\ StoreOf(Home(q)) = Disk(q) /\ StoreOf(Home(q))' = Disk(q)'
          /\ PendingOf(Home(q)) = Will(q) /\ PendingOf(Home(q))' = Will(q)'
      BY StoreAt, PendingAt
    <3>2. QED
      BY <2>2, <3>1
  <2>3. QED
    BY <2>1, <2>2
<1>2. DEFINE ns == {n \in Node : PendingOf(n)' = {}}
<1>3. \A n \in Node : PendingOf(n)' = IF n \in ns THEN {} ELSE PendingOf(n)
  BY <1>1
<1>4. ns \in SUBSET Node
  OBVIOUS
<1>5. HIDE DEF ns
<1>6. AS!Abandon(ns)
  BY <1>1, <1>3, <1>4 DEF AS!Abandon
<1>7. QED
  BY <1>4, <1>6 DEF AS!Next

-----------------------------------------------------------------------------
(* The steps of AtomicSync.                                                 *)

\* AtomicSync edits and merges with the same operations.
LEMMA SameOperations ==
  /\ \A es, n, p, f : AS!put_local(es, n, p, f) = put_local(es, n, p, f)
  /\ \A es, n, p : AS!delete_local(es, n, p) = delete_local(es, n, p)
  /\ \A es : AS!all_entries(es) = all_entries(es)
  /\ \A es, S : AS!MergeAll(es, S, Before) = MergeAll(es, S, Before)
  /\ AS!EmptyStore = EmptyStore
<1>1. ASSUME NEW es, NEW n, NEW p, NEW f
      PROVE  AS!put_local(es, n, p, f) = put_local(es, n, p, f)
  BY DEF AS!put_local, put_local, AS!load_entry, load_entry, AS!increment, increment,
     AS!ClockAt, ClockAt, AS!ZeroClock, ZeroClock
<1>2. ASSUME NEW es, NEW n, NEW p
      PROVE  AS!delete_local(es, n, p) = delete_local(es, n, p)
  BY DEF AS!delete_local, delete_local, AS!load_entry, load_entry, AS!increment, increment,
     AS!ClockAt, ClockAt, AS!ZeroClock, ZeroClock
<1>3. \A es : AS!all_entries(es) = all_entries(es)
  BY DEF AS!all_entries, all_entries
<1>4. \A es, S : AS!MergeAll(es, S, Before) = MergeAll(es, S, Before)
  BY Zenon DEF AS!MergeAll, MergeAll, AS!MapThenFoldSet, MapThenFoldSet, AS!merge_remote,
     merge_remote, AS!OutcomeOf, OutcomeOf, AS!load_entry, load_entry, AS!ForkConflict, ForkConflict,
     AS!ConflictPath, ConflictPath, AS!make_conflict_path, make_conflict_path, AS!compare, compare,
     AS!merge, merge, AS!SomeLess, SomeLess
<1>5. AS!EmptyStore = EmptyStore
  BY DEF AS!EmptyStore, EmptyStore
<1>6. QED
  BY <1>1, <1>2, <1>3, <1>4, <1>5

\* Only the store and the session of pr's node change.
Elsewhere(pr) ==
  /\ \A n \in Node : (\A q \in Proc : Home(q) # n) => journal'[n] = journal[n]
  /\ \A q \in Proc \ {pr} : Disk(q)' = Disk(q) /\ Will(q)' = Will(q)

LEMMA OneNode ==
  ASSUME OneAtATime, PathOrder, NEW pr \in Proc, Elsewhere(pr), NEW n \in Node
  PROVE  /\ StoreOf(n)' = IF n = Home(pr) THEN Disk(pr)' ELSE StoreOf(n)
         /\ PendingOf(n)' = IF n = Home(pr) THEN Will(pr)' ELSE PendingOf(n)
<1>1. CASE \A q \in Proc : Home(q) # n
  BY <1>1, Vacant DEF Elsewhere
<1>2. ASSUME NEW q \in Proc, Home(q) = n
      PROVE  /\ StoreOf(n)' = IF n = Home(pr) THEN Disk(pr)' ELSE StoreOf(n)
             /\ PendingOf(n)' = IF n = Home(pr) THEN Will(pr)' ELSE PendingOf(n)
  <2>1. /\ StoreOf(Home(q)) = Disk(q) /\ StoreOf(Home(q))' = Disk(q)'
        /\ PendingOf(Home(q)) = Will(q) /\ PendingOf(Home(q))' = Will(q)'
    BY StoreAt, PendingAt
  <2>2. CASE q = pr
    BY <1>2, <2>1, <2>2
  <2>3. CASE q # pr
    <3>1. n # Home(pr)
      BY <1>2, <2>3 DEF OneAtATime
    <3>2. QED
      BY <1>2, <2>1, <2>3, <3>1 DEF Elsewhere
  <2>4. QED
    BY <2>2, <2>3
<1>3. QED
  BY <1>1, <1>2

\* es is what an add or rm command on n makes of j.
EditOf(es, j, n) ==
  \E p \in UserPath : \/ \E f \in FileContent : es = put_local(j, n, p, f)
                      \/ es = delete_local(j, n, p)

LEMMA EditStep ==
  ASSUME OneAtATime, PathOrder, NEW pr \in Proc, Elsewhere(pr),
         EditOf(Disk(pr)', Disk(pr), Home(pr)), Will(pr) = {}, Will(pr)' = {}
  PROVE  AS!Next
<1>1. DEFINE n == Home(pr)
             store == [m \in Node |-> StoreOf(m)]
             pending == [m \in Node |-> PendingOf(m)]
<1>2. n \in Node
  BY HomeType
<1>3. /\ \A m \in Node : StoreOf(m)' = IF m = n THEN Disk(pr)' ELSE StoreOf(m)
      /\ \A m \in Node : PendingOf(m)' = IF m = n THEN Will(pr)' ELSE PendingOf(m)
  BY OneNode
<1>4. StoreOf(n) = Disk(pr) /\ PendingOf(n) = {}
  BY StoreAt, PendingAt
<1>5. store' = [store EXCEPT ![n] = Disk(pr)'] /\ pending' = pending
  BY <1>3, <1>4
<1>6. store[n] = Disk(pr) /\ pending[n] = {}
  BY <1>2, <1>4
<1>7. HIDE DEF store, pending, n
<1>8. \E p \in UserPath :
        \/ \E f \in FileContent : store' = [store EXCEPT ![n] = put_local(@, n, p, f)]
        \/ store' = [store EXCEPT ![n] = delete_local(@, n, p)]
  BY <1>5, <1>6 DEF EditOf, n
<1>9. \E p \in UserPath :
        \/ \E f \in FileContent : store' = [store EXCEPT ![n] = AS!put_local(@, n, p, f)]
        \/ store' = [store EXCEPT ![n] = AS!delete_local(@, n, p)]
  BY <1>8, SameOperations
<1>10. AS!Edit(n)
  BY <1>5, <1>6, <1>9 DEF AS!Edit, store, pending
<1>11. QED
  BY <1>2, <1>10 DEF AS!Next

LEMMA InstallStep ==
  ASSUME OneAtATime, PathOrder, NEW pr \in Proc, Elsewhere(pr),
         Will(pr) = {Disk(pr)'}, Will(pr)' = {}
  PROVE  AS!Next
<1>1. DEFINE n == Home(pr)
             store == [m \in Node |-> StoreOf(m)]
             pending == [m \in Node |-> PendingOf(m)]
<1>2. n \in Node
  BY HomeType
<1>3. /\ \A m \in Node : StoreOf(m)' = IF m = n THEN Disk(pr)' ELSE StoreOf(m)
      /\ \A m \in Node : PendingOf(m)' = IF m = n THEN Will(pr)' ELSE PendingOf(m)
  BY OneNode
<1>4. PendingOf(n) = {Disk(pr)'}
  BY PendingAt
<1>5. store' = [store EXCEPT ![n] = Disk(pr)'] /\ pending' = [pending EXCEPT ![n] = {}]
  BY <1>3
<1>6. pending[n] = {Disk(pr)'}
  BY <1>2, <1>4
<1>7. HIDE DEF store, pending, n
<1>8. (CHOOSE es \in pending[n] : TRUE) = Disk(pr)' /\ pending[n] # {}
  BY <1>6
<1>9. AS!Install(n)
  BY <1>5, <1>8 DEF AS!Install, store, pending
<1>10. QED
  BY <1>2, <1>9 DEF AS!Next

LEMMA MeetStep ==
  ASSUME OneAtATime, PathOrder, NEW pr \in Proc, NEW qr \in Proc, Home(pr) # Home(qr),
         \A n \in Node : (\A q \in Proc : Home(q) # n) => journal'[n] = journal[n],
         \A q \in Proc : Disk(q)' = Disk(q),
         \A q \in Proc \ {pr, qr} : Will(q)' = Will(q),
         Will(pr) = {}, Will(pr)' = MergeAll(Disk(pr), all_entries(Disk(qr)), Before),
         Will(qr) = {}, Will(qr)' = MergeAll(Disk(qr), all_entries(Disk(pr)), Before)
  PROVE  AS!Next
<1>1. DEFINE n == Home(pr)
             m == Home(qr)
             store == [k \in Node |-> StoreOf(k)]
             pending == [k \in Node |-> PendingOf(k)]
<1>2. n \in Node /\ m \in Node \ {n}
  BY HomeType
<1>3. ASSUME NEW k \in Node
      PROVE  /\ StoreOf(k)' = StoreOf(k)
             /\ PendingOf(k)' = IF k = n THEN Will(pr)' ELSE IF k = m THEN Will(qr)' ELSE PendingOf(k)
  <2>1. CASE \A q \in Proc : Home(q) # k
    BY <2>1, Vacant
  <2>2. ASSUME NEW q \in Proc, Home(q) = k
        PROVE  /\ StoreOf(k)' = StoreOf(k)
               /\ PendingOf(k)' = IF k = n THEN Will(pr)'
                                  ELSE IF k = m THEN Will(qr)' ELSE PendingOf(k)
    <3>1. /\ StoreOf(Home(q)) = Disk(q) /\ StoreOf(Home(q))' = Disk(q)'
          /\ PendingOf(Home(q)) = Will(q) /\ PendingOf(Home(q))' = Will(q)'
      BY StoreAt, PendingAt
    <3>2. (k = n <=> q = pr) /\ (k = m <=> q = qr)
      BY <2>2 DEF OneAtATime
    <3>3. QED
      BY <2>2, <3>1, <3>2
  <2>3. QED
    BY <2>1, <2>2
<1>4. /\ StoreOf(n) = Disk(pr) /\ PendingOf(n) = {} /\ StoreOf(m) = Disk(qr) /\ PendingOf(m) = {}
  BY StoreAt, PendingAt
<1>5. store' = store /\ pending' = [[pending EXCEPT ![n] = Will(pr)'] EXCEPT ![m] = Will(qr)']
  BY <1>2, <1>3
<1>6. store[n] = Disk(pr) /\ store[m] = Disk(qr) /\ pending[n] = {} /\ pending[m] = {}
  BY <1>2, <1>4
<1>7. HIDE DEF store, pending, n, m
<1>8. /\ Will(pr)' = AS!MergeAll(store[n], AS!all_entries(store[m]), Before)
      /\ Will(qr)' = AS!MergeAll(store[m], AS!all_entries(store[n]), Before)
  BY <1>6, SameOperations
<1>9. AS!Meet(n, m)
  <2>1. pending' = [pending EXCEPT ![n] = AS!MergeAll(store[n], AS!all_entries(store[m]), Before),
                                   ![m] = AS!MergeAll(store[m], AS!all_entries(store[n]), Before)]
    BY <1>5, <1>8
  <2>2. QED
    BY <1>5, <1>6, <2>1 DEF AS!Meet, store, pending
<1>10. QED
  BY <1>2, <1>9 DEF AS!Next

-----------------------------------------------------------------------------
(* Stores are finite, and so are manifests.                                 *)

LEMMA LoadFinite ==
  ASSUME NEW es, IsFiniteSet(DOMAIN es), NEW e
  PROVE  IsFiniteSet(DOMAIN load_entry(es, e))
<1>1. DOMAIN load_entry(es, e) = DOMAIN es \cup {e.path}
  BY DEF load_entry
<1>2. QED
  BY <1>1, FS_AddElement

LEMMA EditFinite ==
  ASSUME NEW es, IsFiniteSet(DOMAIN es), NEW n, NEW p, NEW f
  PROVE  IsFiniteSet(DOMAIN put_local(es, n, p, f)) /\ IsFiniteSet(DOMAIN delete_local(es, n, p))
  BY LoadFinite DEF put_local, delete_local

LEMMA MergeFinite ==
  ASSUME NEW es \in Store, IsFiniteSet(DOMAIN es), NEW e \in Good
  PROVE  IsFiniteSet(DOMAIN merge_remote(es, e))
<1>1. IsStore(es) /\ e \in FileEntry
  BY StoreIsStore DEF Good
<1>2. MergeStep(es, merge_remote(es, e), e)
  BY <1>1, MergeRemoteFacts
<1>3. DEFINE D == DOMAIN es \cup {e.path}
<1>4. IsFiniteSet(D) /\ IsFiniteSet(D \cup {ConflictPath(e)})
  BY FS_AddElement
<1>5. D \cup {ConflictPath(e)} = DOMAIN es \cup {e.path, ConflictPath(e)}
  OBVIOUS
<1>6. QED
  BY <1>2, <1>4, <1>5 DEF MergeStep

\* What a store sends as its manifest.
LEMMA StoreManifest ==
  ASSUME NEW es \in Store, IsFiniteSet(DOMAIN es)
  PROVE  IsManifest(all_entries(es))
<1>1. es \in Surjection(DOMAIN es, all_entries(es))
  BY DEF Store, Surjection, all_entries
<1>2. IsFiniteSet(all_entries(es))
  BY <1>1, FS_Surjection
<1>3. \A e \in all_entries(es) : e.path \in Path /\ es[e.path] = e
  BY StoreIsStore DEF all_entries, IsStore, Good, FileEntry
<1>4. QED
  BY <1>2, <1>3 DEF IsManifest

-----------------------------------------------------------------------------
(* The invariant.  What a command has in memory is an edit of the journal;  *)
(* what comes first in the queue of a process that has not merged is the    *)
(* manifest of its peer, and it is there once the peer has sent it.         *)

\* r: a process of n on connection l, where the journal is j.
MemOK(r, l, j, n) ==
  /\ IsFiniteSet(DOMAIN r.mem)
  /\ r.pc = "merging" => IsManifest(r.todo)
  /\ r.pc = "adding" => l = NoPeer /\ Head(r.paths) \in UserPath /\ r.adding \in FileContent
  /\ r.pc \in {"materializing", "saving"} /\ l = NoPeer => EditOf(r.mem, j, n)

QueueOK(r, c, sent) ==
  r.pc \in Fresh => /\ c # <<>> => Head(c).type = "MANIFEST" /\ IsManifest(Head(c).entries)
                    /\ sent => c # <<>>

\* The peer of pr has sent its manifest.
Sent(pr) == \E q \in Proc : Mutual(pr, q) /\ proc[q].pc # "sendManifest"

RInv ==
  /\ \A n \in Node : IsFiniteSet(DOMAIN journal[n])
  /\ \A pr \in Proc : /\ MemOK(proc[pr], link[pr], journal[Home(pr)], Home(pr))
                      /\ QueueOK(proc[pr], chan[pr], Sent(pr))

LEMMA WillLate ==
  ASSUME NEW r, r.pc \notin Fresh, NEW l, NEW c, NEW coming, NEW c2, NEW coming2
  PROVE  WillOf(r, l, c2, coming2) = WillOf(r, l, c, coming)
  BY DEF WillOf

LEMMA WillOfHead ==
  ASSUME NEW r, NEW l, NEW c, NEW coming, NEW c2, NEW coming2,
         c # <<>>, c2 # <<>>, Head(c2) = Head(c)
  PROVE  WillOf(r, l, c2, coming2) = WillOf(r, l, c, coming)
  BY DEF WillOf

LEMMA WillLost ==
  ASSUME NEW r, NEW l, NEW c, NEW coming, NEW c2, c2 = c \/ c2 = <<>>
  PROVE  WillOf(r, l, c2, {}) = WillOf(r, l, c, coming) \/ WillOf(r, l, c2, {}) = {}
<1>1. CASE r.pc \notin Fresh
  BY <1>1, WillLate
<1>2. CASE r.pc \in Fresh /\ c2 # <<>>
  BY <1>2, WillOfHead
<1>3. CASE r.pc \in Fresh /\ c2 = <<>>
  <2>1. r.pc \notin Later /\ r.pc # "merging"
    BY <1>3 DEF Fresh, Later
  <2>2. WillOf(r, l, c2, {}) = {}
    BY <1>3, <2>1 DEF WillOf
  <2>3. QED
    BY <2>2
<1>4. QED
  BY <1>1, <1>2, <1>3

\* pr goes on; it may send a frame, but not its manifest.
Moves(pr) ==
  /\ proc' = [proc EXCEPT ![pr] = proc'[pr]]
  /\ UNCHANGED link
  /\ proc[pr].pc # "sendManifest" /\ proc'[pr].pc \notin Fresh
  /\ \A q \in Proc \ {pr} : \/ chan'[q] = chan[q]
                            \/ Mutual(pr, q) /\ \E f : chan'[q] = Append(chan[q], f)

LEMMA MovesOthers ==
  ASSUME IInv, RInv, NEW pr \in Proc, Moves(pr), NEW q \in Proc \ {pr}
  PROVE  /\ proc'[q] = proc[q] /\ link'[q] = link[q]
         /\ QueueOK(proc'[q], chan'[q], Sent(q)')
         /\ Will(q)' = Will(q)
<1>1. proc \in [Proc -> ProcRec] /\ chan[q] \in Seq(Frame)
  BY DEF IInv, Typed
<1>2. /\ \A s \in Proc \ {pr} : proc'[s] = proc[s]
      /\ proc[pr].pc # "sendManifest" /\ proc'[pr].pc # "sendManifest" /\ link' = link
  BY <1>1 DEF Moves, Fresh
<1>3. Coming(q)' = Coming(q)
  <2>1. {s \in Proc : link'[q] = s /\ link'[s] = q /\ proc'[s].pc = "sendManifest"}
          = {s \in Proc : link[q] = s /\ link[s] = q /\ proc[s].pc = "sendManifest"}
    BY <1>2
  <2>2. \A s \in {t \in Proc : link[q] = t /\ link[t] = q /\ proc[t].pc = "sendManifest"} :
          proc'[s] = proc[s]
    BY <1>2
  <2>3. QED
    BY <2>1, <2>2 DEF Coming
<1>4. Sent(q)' <=> Sent(q)
  BY <1>2 DEF Sent, Mutual
<1>5. QueueOK(proc[q], chan[q], Sent(q))
  BY DEF RInv
<1>6. CASE chan'[q] = chan[q]
  BY <1>2, <1>3, <1>4, <1>5, <1>6 DEF Will, QueueOK
<1>7. CASE proc[q].pc \notin Fresh
  BY <1>2, <1>7, WillLate DEF Will, QueueOK
<1>8. CASE /\ Mutual(pr, q) /\ \E f : chan'[q] = Append(chan[q], f)
           /\ proc[q].pc \in Fresh
  <2>1. PICK f : chan'[q] = Append(chan[q], f)
    BY <1>8
  <2>2. Sent(q)
    BY <1>2, <1>8 DEF Sent, Mutual
  <2>3. chan[q] # <<>>
    BY <1>5, <1>8, <2>2 DEF QueueOK
  <2>4. chan'[q] # <<>> /\ Head(chan'[q]) = Head(chan[q])
    <3>1. DEFINE c == chan[q]
    <3>2. c \in Seq(Frame) /\ c # <<>>
      BY <1>1, <2>3
    <3>3. HIDE DEF c
    <3>4. /\ Len(c) \in Nat /\ Len(c) > 0 /\ Len(Append(c, f)) = Len(c) + 1
          /\ Append(c, f)[1] = c[1]
      BY <3>2
    <3>5. Head(Append(c, f)) = Append(c, f)[1] /\ Head(c) = c[1] /\ Append(c, f) # <<>>
      BY <3>2, <3>4
    <3>6. QED
      BY <2>1, <3>4, <3>5 DEF c
  <2>5. QueueOK(proc'[q], chan'[q], Sent(q)')
    BY <1>2, <1>5, <2>3, <2>4 DEF QueueOK
  <2>6. Will(q)' = Will(q)
    BY <1>2, <2>3, <2>4, WillOfHead DEF Will
  <2>7. QED
    BY <1>2, <2>5, <2>6
<1>9. QED
  BY <1>6, <1>7, <1>8 DEF Moves

\* The invariant after such a step, from what it says of pr.
LEMMA MovesStep ==
  ASSUME OneAtATime, IInv, RInv, NEW pr \in Proc, Moves(pr),
         NEW j, journal' = journal \/ journal' = [journal EXCEPT ![Home(pr)] = j],
         IsFiniteSet(DOMAIN journal'[Home(pr)]),
         MemOK(proc'[pr], link[pr], journal'[Home(pr)], Home(pr))
  PROVE  RInv' /\ Elsewhere(pr)
<1>1. journal \in [Node -> Store] /\ \A q \in Proc : Home(q) \in Node
  BY HomeType DEF IInv, Typed
<1>2. \A q \in Proc \ {pr} : Home(q) # Home(pr)
  BY DEF OneAtATime
<1>3. \A n \in Node \ {Home(pr)} : journal'[n] = journal[n]
  BY <1>1
<1>4. \A n \in Node : IsFiniteSet(DOMAIN journal'[n])
  BY <1>3 DEF RInv
<1>5. link' = link
  BY DEF Moves
<1>6. ASSUME NEW q \in Proc \ {pr}
      PROVE  /\ MemOK(proc'[q], link'[q], journal'[Home(q)], Home(q))
             /\ QueueOK(proc'[q], chan'[q], Sent(q)')
             /\ Disk(q)' = Disk(q) /\ Will(q)' = Will(q)
  <2>1. /\ proc'[q] = proc[q] /\ QueueOK(proc'[q], chan'[q], Sent(q)') /\ Will(q)' = Will(q)
    BY MovesOthers
  <2>2. journal'[Home(q)] = journal[Home(q)]
    BY <1>1, <1>2, <1>3
  <2>3. MemOK(proc[q], link[q], journal[Home(q)], Home(q))
    BY DEF RInv
  <2>4. QED
    BY <1>5, <2>1, <2>2, <2>3 DEF Disk, Home
<1>7. /\ MemOK(proc'[pr], link'[pr], journal'[Home(pr)], Home(pr))
      /\ QueueOK(proc'[pr], chan'[pr], Sent(pr)')
  BY <1>5 DEF Moves, QueueOK
<1>8. RInv'
  BY <1>4, <1>6, <1>7 DEF RInv, Home
<1>9. Elsewhere(pr)
  BY <1>3, <1>6 DEF Elsewhere
<1>10. QED
  BY <1>8, <1>9

\* pr exits; the frames it sent arrive or are lost.
Leaves(pr) ==
  /\ Exit(pr)
  /\ \A q \in Proc \ {pr} : chan'[q] = chan[q] \/ (Mutual(pr, q) /\ chan'[q] = <<>>)

LEMMA LeavesOthers ==
  ASSUME IInv, RInv, NEW pr \in Proc, Leaves(pr), NEW q \in Proc \ {pr}
  PROVE  /\ proc'[q] = proc[q] /\ link'[q] = link[q]
         /\ QueueOK(proc'[q], chan'[q], Sent(q)')
         /\ Will(q)' = Will(q) \/ Will(q)' = {}
<1>1. /\ proc \in [Proc -> ProcRec] /\ link \in [Proc -> Proc \cup {NoPeer}] /\ NoPeer \notin Proc
  BY SyncNodeAssumption DEF IInv, Typed
<1>2. /\ \A s \in Proc \ {pr} : proc'[s] = proc[s] /\ link'[s] = link[s]
      /\ link'[pr] = NoPeer
  BY <1>1 DEF Leaves, Exit
<1>3. QueueOK(proc[q], chan[q], Sent(q))
  BY DEF RInv
<1>4. CASE Mutual(pr, q)
  <2>1. \A s \in Proc : ~ (link'[q] = s /\ link'[s] = q)
    BY <1>1, <1>2, <1>4 DEF Mutual
  <2>2. Coming(q)' = {} /\ ~ Sent(q)'
    BY <2>1 DEF Coming, Sent, Mutual
  <2>3. chan'[q] = chan[q] \/ chan'[q] = <<>>
    BY DEF Leaves
  <2>4. Will(q)' = Will(q) \/ Will(q)' = {}
    BY <1>2, <2>2, <2>3, WillLost DEF Will
  <2>5. QueueOK(proc'[q], chan'[q], Sent(q)')
    BY <1>2, <1>3, <2>2, <2>3 DEF QueueOK
  <2>6. QED
    BY <1>2, <2>4, <2>5
<1>5. CASE ~ Mutual(pr, q)
  <2>1. \A s \in Proc : (link'[q] = s /\ link'[s] = q) <=> (link[q] = s /\ link[s] = q)
    BY <1>1, <1>2, <1>5 DEF Mutual
  <2>2. \A s \in Proc : link[q] = s /\ link[s] = q => proc'[s] = proc[s]
    BY <1>2, <1>5 DEF Mutual
  <2>3. {s \in Proc : link'[q] = s /\ link'[s] = q /\ proc'[s].pc = "sendManifest"}
          = {s \in Proc : link[q] = s /\ link[s] = q /\ proc[s].pc = "sendManifest"}
    BY <2>1, <2>2
  <2>4. Coming(q)' = Coming(q)
    BY <2>2, <2>3 DEF Coming
  <2>5. Sent(q)' <=> Sent(q)
    BY <2>1, <2>2 DEF Sent, Mutual
  <2>6. chan'[q] = chan[q]
    BY <1>5 DEF Leaves
  <2>7. QED
    BY <1>2, <1>3, <2>4, <2>5, <2>6 DEF Will, QueueOK
<1>6. QED
  BY <1>4, <1>5

LEMMA LeavesStep ==
  ASSUME OneAtATime, PathOrder, IInv, RInv, NEW pr \in Proc, Leaves(pr), UNCHANGED journal,
         Disk(pr) = journal[Home(pr)]
  PROVE  RInv' /\ AS!Next
<1>1. /\ proc'[pr] = Exited /\ link'[pr] = NoPeer /\ journal' = journal
  BY DEF Leaves, Exit, IInv, Typed
<1>2. Exited.pc = "idle" /\ DOMAIN Exited.mem = {} /\ IsFiniteSet({})
  BY FS_EmptySet DEF Exited, EmptyStore
<1>3. /\ MemOK(proc'[pr], link'[pr], journal'[Home(pr)], Home(pr))
      /\ QueueOK(proc'[pr], chan'[pr], Sent(pr)')
  BY <1>1, <1>2 DEF MemOK, QueueOK, Fresh
<1>4. Disk(pr)' = Disk(pr) /\ Will(pr)' = {}
  BY <1>1, <1>2, NothingToInstall DEF Disk, DiskOf, Will, Home
<1>5. ASSUME NEW q \in Proc \ {pr}
      PROVE  /\ MemOK(proc'[q], link'[q], journal'[Home(q)], Home(q))
             /\ QueueOK(proc'[q], chan'[q], Sent(q)')
             /\ Disk(q)' = Disk(q) /\ (Will(q)' = Will(q) \/ Will(q)' = {})
  <2>1. /\ proc'[q] = proc[q] /\ link'[q] = link[q] /\ QueueOK(proc'[q], chan'[q], Sent(q)')
        /\ Will(q)' = Will(q) \/ Will(q)' = {}
    BY LeavesOthers
  <2>2. MemOK(proc[q], link[q], journal[Home(q)], Home(q))
    BY DEF RInv
  <2>3. QED
    BY <1>1, <2>1, <2>2 DEF Disk, Home
<1>6. RInv'
  BY <1>1, <1>3, <1>5 DEF RInv, Home
<1>7. /\ \A q \in Proc : Disk(q)' = Disk(q)
      /\ \A q \in Proc : Will(q)' = Will(q) \/ Will(q)' = {}
  BY <1>4, <1>5
<1>8. AS!Next
  BY <1>1, <1>7, QuietStep
<1>9. QED
  BY <1>6, <1>8

LEMMA QuietMove ==
  ASSUME OneAtATime, PathOrder, IInv, RInv, NEW pr \in Proc, Moves(pr),
         NEW j, journal' = journal \/ journal' = [journal EXCEPT ![Home(pr)] = j],
         IsFiniteSet(DOMAIN journal'[Home(pr)]),
         MemOK(proc'[pr], link[pr], journal'[Home(pr)], Home(pr)),
         Disk(pr)' = Disk(pr), Will(pr)' = Will(pr)
  PROVE  RInv' /\ AS!Next
<1>1. RInv' /\ Elsewhere(pr)
  BY MovesStep
<1>2. /\ \A q \in Proc : Disk(q)' = Disk(q)
      /\ \A q \in Proc : Will(q)' = Will(q) \/ Will(q)' = {}
  BY <1>1 DEF Elsewhere
<1>3. AS!Next
  BY <1>1, <1>2, QuietStep DEF Elsewhere
<1>4. QED
  BY <1>1, <1>3

-----------------------------------------------------------------------------
(* Steps outside of sessions.                                               *)

LEMMA ProcessNow ==
  ASSUME IInv, RInv, NEW pr \in Proc
  PROVE  /\ proc \in [Proc -> ProcRec] /\ proc[pr] \in ProcRec /\ proc[pr].mem \in Store
         /\ journal \in [Node -> Store] /\ Home(pr) \in Node /\ journal[Home(pr)] \in Store
         /\ IsFiniteSet(DOMAIN journal[Home(pr)])
         /\ IsFiniteSet(DOMAIN proc[pr].mem)
         /\ MemOK(proc[pr], link[pr], journal[Home(pr)], Home(pr))
<1>1. /\ proc \in [Proc -> ProcRec] /\ journal \in [Node -> Store] /\ Home(pr) \in Node
  BY HomeType DEF IInv, Typed
<1>2. MemOK(proc[pr], link[pr], journal[Home(pr)], Home(pr)) /\ IsFiniteSet(DOMAIN journal[Home(pr)])
  BY <1>1 DEF RInv
<1>3. QED
  BY <1>1, <1>2 DEF MemOK, ProcRec

\* A command begins.
LEMMA Starts ==
  ASSUME OneAtATime, PathOrder, IInv, SInv, RInv, NEW pr \in Proc,
         NEW r2, proc' = [proc EXCEPT ![pr] = r2], UNCHANGED <<journal, link, chan>>,
         proc[pr].pc = "idle", r2.pc \in {"adding", "saving", "listening"},
         MemOK(r2, NoPeer, journal[Home(pr)], Home(pr))
  PROVE  RInv' /\ AS!Next
<1>1. /\ proc \in [Proc -> ProcRec] /\ IsFiniteSet(DOMAIN journal[Home(pr)])
  BY ProcessNow
<1>2. proc'[pr] = r2 /\ link[pr] = NoPeer /\ journal' = journal /\ link' = link
  BY <1>1 DEF SInv, SessionOK
<1>3. Moves(pr)
  BY <1>2 DEF Moves, Fresh
<1>4. Disk(pr)' = Disk(pr)
  BY <1>2 DEF Disk, DiskOf, Home
<1>5. Will(pr) = {} /\ Will(pr)' = {}
  BY <1>2, NothingToInstall DEF Will
<1>6. QED
  BY <1>1, <1>2, <1>3, <1>4, <1>5, QuietMove

LEMMA StartListenAtomic ==
  ASSUME OneAtATime, PathOrder, IInv, SInv, RInv, NEW pr \in Proc, StartListen(pr)
  PROVE  RInv' /\ AS!Next
<1>1. DEFINE r2 == [Loaded(pr) EXCEPT !.pc = "listening"]
<1>2. Loaded(pr) \in ProcRec /\ Loaded(pr).mem = journal[Home(pr)]
  BY LoadedType DEF IInv
<1>3. r2.pc = "listening" /\ r2.mem = journal[Home(pr)]
  BY <1>2 DEF ProcRec
<1>4. /\ proc' = [proc EXCEPT ![pr] = r2] /\ UNCHANGED <<journal, link, chan>>
      /\ proc[pr].pc = "idle"
  BY DEF StartListen, disk
<1>5. HIDE DEF r2
<1>6. MemOK(r2, NoPeer, journal[Home(pr)], Home(pr))
  BY <1>3, ProcessNow DEF MemOK
<1>7. QED
  BY <1>3, <1>4, <1>6, Starts

LEMMA StartAddAtomic ==
  ASSUME OneAtATime, PathOrder, IInv, SInv, RInv, NEW pr \in Proc,
         NEW p \in UserPath, NEW f \in FileContent, StartAdd(pr, p, f)
  PROVE  RInv' /\ AS!Next
<1>1. DEFINE r2 == [Loaded(pr) EXCEPT !.pc = "adding", !.adding = f,
                                      !.incoming = WholeChunks(f), !.paths = <<p>>]
<1>2. Loaded(pr) \in ProcRec /\ Loaded(pr).mem = journal[Home(pr)]
  BY LoadedType DEF IInv
<1>3. /\ r2.pc = "adding" /\ r2.mem = journal[Home(pr)] /\ r2.paths = <<p>> /\ r2.adding = f
  BY <1>2 DEF ProcRec
<1>4. /\ proc' = [proc EXCEPT ![pr] = r2] /\ UNCHANGED <<journal, link, chan>>
      /\ proc[pr].pc = "idle"
  BY DEF StartAdd, disk
<1>5. HIDE DEF r2
<1>6. Head(r2.paths) = p
  BY <1>3
<1>7. MemOK(r2, NoPeer, journal[Home(pr)], Home(pr))
  BY <1>3, <1>6, ProcessNow DEF MemOK
<1>8. QED
  BY <1>3, <1>4, <1>7, Starts

LEMMA StartRmAtomic ==
  ASSUME OneAtATime, PathOrder, IInv, SInv, RInv, NEW pr \in Proc, NEW p \in UserPath, StartRm(pr, p)
  PROVE  RInv' /\ AS!Next
<1>1. DEFINE j == journal[Home(pr)]
             es2 == delete_local(j, Home(pr), p)
             r2 == [Loaded(pr) EXCEPT !.pc = "saving", !.mem = delete_local(@, Home(pr), p)]
<1>2. Loaded(pr) \in ProcRec /\ Loaded(pr).mem = j
  BY LoadedType DEF IInv
<1>3. r2.pc = "saving" /\ r2.mem = es2
  BY <1>2 DEF ProcRec
<1>4. /\ proc' = [proc EXCEPT ![pr] = r2] /\ UNCHANGED <<journal, link, chan>>
      /\ proc[pr].pc = "idle"
  BY DEF StartRm, disk
<1>5. IsFiniteSet(DOMAIN es2) /\ EditOf(es2, j, Home(pr))
  BY ProcessNow, EditFinite DEF EditOf
<1>6. HIDE DEF r2, es2
<1>7. MemOK(r2, NoPeer, j, Home(pr))
  BY <1>3, <1>5 DEF MemOK
<1>8. QED
  BY <1>3, <1>4, <1>7, Starts

\* The edit of an add command, in memory.
LEMMA PutLocalAtomic ==
  ASSUME OneAtATime, PathOrder, IInv, JInv, RInv, NEW pr \in Proc, PutLocal(pr)
  PROVE  RInv' /\ AS!Next
<1>1. DEFINE j == journal[Home(pr)]
             p == Head(proc[pr].paths)
             es2 == put_local(j, Home(pr), p, proc[pr].adding)
<1>2. /\ proc \in [Proc -> ProcRec] /\ proc[pr] \in ProcRec /\ IsFiniteSet(DOMAIN j)
      /\ MemOK(proc[pr], link[pr], j, Home(pr))
  BY ProcessNow
<1>3. proc[pr].pc = "adding" /\ proc[pr].mem = j
  BY DEF PutLocal, JInv, JournalOK, AsLoaded
<1>4. link[pr] = NoPeer /\ p \in UserPath /\ proc[pr].adding \in FileContent
  BY <1>2, <1>3 DEF MemOK
<1>5. /\ proc' = [proc EXCEPT ![pr] = proc'[pr]] /\ UNCHANGED <<journal, link, chan>>
      /\ proc'[pr].pc = "materializing" /\ proc'[pr].mem = es2
  BY <1>2, <1>3 DEF PutLocal, ProcRec, disk
<1>6. IsFiniteSet(DOMAIN es2) /\ EditOf(es2, j, Home(pr))
  BY <1>2, <1>4, EditFinite DEF EditOf
<1>7. HIDE DEF es2, p
<1>8. MemOK(proc'[pr], link[pr], journal'[Home(pr)], Home(pr))
  BY <1>5, <1>6 DEF MemOK
<1>9. Moves(pr)
  BY <1>3, <1>5 DEF Moves, Fresh
<1>10. Disk(pr)' = Disk(pr)
  BY <1>3, <1>5 DEF Disk, DiskOf, Home
<1>11. Will(pr) = {} /\ Will(pr)' = {}
  BY <1>4, <1>5, NothingToInstall DEF Will
<1>12. QED
  BY <1>2, <1>5, <1>8, <1>9, <1>10, <1>11, QuietMove

-----------------------------------------------------------------------------
(* Steps of sessions.                                                       *)

\* Chunks are fetched and files written out: the entries stay.
LEMMA LaterMove ==
  ASSUME OneAtATime, PathOrder, IInv, RInv, NEW pr \in Proc, Moves(pr), UNCHANGED journal,
         proc[pr].pc \in Later, proc'[pr].pc \in Later, proc'[pr].mem = proc[pr].mem,
         \/ link[pr] # NoPeer
         \/ proc'[pr].pc \in {"materializing", "saving"} /\ proc[pr].pc \in {"materializing", "saving"}
  PROVE  RInv' /\ AS!Next
<1>1. /\ IsFiniteSet(DOMAIN journal[Home(pr)])
      /\ MemOK(proc[pr], link[pr], journal[Home(pr)], Home(pr))
  BY ProcessNow
<1>2. /\ proc[pr].pc \notin {"writing", "merging", "adding"}
      /\ proc'[pr].pc \notin {"writing", "merging", "adding"} /\ link' = link /\ journal' = journal
  BY DEF Later, Moves
<1>3. MemOK(proc'[pr], link[pr], journal'[Home(pr)], Home(pr))
  BY <1>1, <1>2 DEF MemOK
<1>4. Disk(pr)' = Disk(pr)
  BY <1>2 DEF Disk, DiskOf, Home
<1>5. Will(pr)' = Will(pr)
  BY <1>2 DEF Will, WillOf
<1>6. QED
  BY <1>1, <1>2, <1>3, <1>4, <1>5, QuietMove

LEMMA LocalLater ==
  ASSUME OneAtATime, PathOrder, IInv, SInv, RInv, NEW pr \in Proc,
         AllMaterialized(pr) \/ AllFetched(pr) \/ Materialize(pr)
  PROVE  RInv' /\ AS!Next
<1>1. /\ proc \in [Proc -> ProcRec] /\ proc[pr] \in ProcRec
  BY ProcessNow
<1>2. Exited.pc = "idle"
  BY DEF Exited
<1>3. CASE AllMaterialized(pr)
  <2>1. /\ proc' = [proc EXCEPT ![pr] = proc'[pr]] /\ UNCHANGED <<journal, link, chan>>
        /\ proc[pr].pc = "materializing" /\ proc'[pr].pc = "saving"
        /\ proc'[pr].mem = proc[pr].mem
    BY <1>1, <1>3 DEF AllMaterialized, ProcRec, disk
  <2>2. Moves(pr)
    BY <2>1 DEF Moves, Fresh
  <2>3. QED
    BY <2>1, <2>2, LaterMove DEF Later
<1>4. CASE AllFetched(pr)
  <2>1. /\ proc' = [proc EXCEPT ![pr] = proc'[pr]] /\ UNCHANGED <<journal, link, chan>>
        /\ proc[pr].pc = "fetching" /\ proc'[pr].pc = "materializing"
        /\ proc'[pr].mem = proc[pr].mem
    BY <1>1, <1>4 DEF AllFetched, ProcRec, disk
  <2>2. Moves(pr)
    BY <2>1 DEF Moves, Fresh
  <2>3. link[pr] # NoPeer
    BY <2>1 DEF SInv, SessionOK, InSession
  <2>4. QED
    BY <2>1, <2>2, <2>3, LaterMove DEF Later
<1>5. CASE Materialize(pr)
  <2>1. proc[pr].pc = "materializing" /\ UNCHANGED <<journal, chan>>
    BY <1>5 DEF Materialize
  <2>2. CASE Exit(pr)
    <3>1. Leaves(pr)
      BY <2>1, <2>2 DEF Leaves
    <3>2. QED
      BY <2>1, <3>1, LeavesStep DEF Disk, DiskOf
  <2>3. CASE proc' = [proc EXCEPT ![pr].paths = Tail(@)] /\ UNCHANGED link
    <3>1. /\ proc' = [proc EXCEPT ![pr] = proc'[pr]] /\ UNCHANGED link
          /\ proc'[pr].pc = "materializing" /\ proc'[pr].mem = proc[pr].mem
      BY <1>1, <2>1, <2>3 DEF ProcRec
    <3>2. Moves(pr)
      BY <2>1, <3>1 DEF Moves, Fresh
    <3>3. QED
      BY <2>1, <3>1, <3>2, LaterMove DEF Later
  <2>4. QED
    BY <1>5, <2>2, <2>3 DEF Materialize
<1>6. QED
  BY <1>3, <1>4, <1>5

\* One chunk is stored, for an add command or for a session.
LEMMA StoreChunkAtomic ==
  ASSUME OneAtATime, PathOrder, IInv, RInv, NEW pr \in Proc, NEW h, StoreChunk(pr, h)
  PROVE  RInv' /\ AS!Next
<1>1. /\ proc \in [Proc -> ProcRec] /\ proc[pr] \in ProcRec
      /\ IsFiniteSet(DOMAIN journal[Home(pr)])
      /\ MemOK(proc[pr], link[pr], journal[Home(pr)], Home(pr))
  BY ProcessNow
<1>2. /\ proc' = [proc EXCEPT ![pr] = proc'[pr]] /\ UNCHANGED <<journal, link, chan>>
      /\ proc[pr].pc \in {"adding", "fetching"} /\ proc'[pr].pc = proc[pr].pc
      /\ proc'[pr].mem = proc[pr].mem /\ proc'[pr].paths = proc[pr].paths
      /\ proc'[pr].adding = proc[pr].adding /\ proc'[pr].todo = proc[pr].todo
  BY <1>1 DEF StoreChunk, ProcRec
<1>3. MemOK(proc'[pr], link[pr], journal'[Home(pr)], Home(pr))
  BY <1>1, <1>2 DEF MemOK
<1>4. Moves(pr)
  BY <1>2 DEF Moves, Fresh
<1>5. Disk(pr)' = Disk(pr)
  BY <1>2 DEF Disk, DiskOf, Home
<1>6. Will(pr)' = Will(pr)
  BY <1>2 DEF Will, WillOf, Fresh
<1>7. QED
  BY <1>1, <1>2, <1>3, <1>4, <1>5, <1>6, QuietMove

\* A frame is received, or sent, or both.
LEMMA FramesMove ==
  ASSUME IInv, NEW pr \in Proc, proc' = [proc EXCEPT ![pr] = proc'[pr]], UNCHANGED link,
         proc[pr].pc # "sendManifest", proc'[pr].pc \notin Fresh,
         NEW ch, ch = chan \/ (ch = Received(pr) /\ chan[pr] # <<>>),
         NEW f, chan' = ch \/ chan' = send_frame(ch, pr, f)
  PROVE  Moves(pr)
<1>1. Typed /\ chan \in [Proc -> Seq(Frame)]
  BY DEF IInv, Typed
<1>2. ch \in [Proc -> Seq(Frame)] /\ \A q \in Proc \ {pr} : ch[q] = chan[q]
  BY <1>1, ReceivedQueues
<1>3. ASSUME NEW q \in Proc \ {pr}
      PROVE  chan'[q] = chan[q] \/ (Mutual(pr, q) /\ \E g : chan'[q] = Append(chan[q], g))
  <2>1. CASE chan' = ch
    BY <1>2, <2>1
  <2>2. CASE chan' = send_frame(ch, pr, f)
    <3>1. chan'[q] = IF Mutual(pr, q) THEN Append(ch[q], f) ELSE ch[q]
      BY <1>1, <1>2, <2>2, SentTo
    <3>2. QED
      BY <1>2, <3>1
  <2>3. QED
    BY <2>1, <2>2
<1>4. QED
  BY <1>3 DEF Moves

LEMMA FramesLater ==
  ASSUME OneAtATime, PathOrder, IInv, SInv, RInv, NEW pr \in Proc, ServeRequest(pr) \/ RecvData(pr)
  PROVE  RInv' /\ AS!Next
<1>1. /\ proc \in [Proc -> ProcRec] /\ proc[pr] \in ProcRec
  BY ProcessNow
<1>2. CASE ServeRequest(pr)
  <2>1. /\ proc' = [proc EXCEPT ![pr] = proc'[pr]] /\ UNCHANGED <<journal, link>>
        /\ proc[pr].pc = "recvRequest" /\ proc'[pr].pc = "recvData"
        /\ proc'[pr].mem = proc[pr].mem /\ chan[pr] # <<>>
    BY <1>1, <1>2 DEF ServeRequest, Arrived, ProcRec, disk
  <2>2. DEFINE f == [type |-> "CHUNK_DATA", chunks |-> Serve(blobs[Home(pr)], Head(chan[pr]).hashes)]
  <2>3. chan' = send_frame(Received(pr), pr, f)
    BY <1>2 DEF ServeRequest
  <2>4. HIDE DEF f
  <2>5. Moves(pr)
    BY <2>1, <2>3, FramesMove DEF Fresh
  <2>6. link[pr] # NoPeer
    BY <2>1 DEF SInv, SessionOK, InSession, Receiving
  <2>7. QED
    BY <2>1, <2>5, <2>6, LaterMove DEF Later
<1>3. CASE RecvData(pr)
  <2>1. /\ proc' = [proc EXCEPT ![pr] = proc'[pr]] /\ UNCHANGED <<journal, link>>
        /\ proc[pr].pc = "recvData" /\ proc'[pr].pc = "fetching"
        /\ proc'[pr].mem = proc[pr].mem /\ chan[pr] # <<>> /\ chan' = Received(pr)
    BY <1>1, <1>3 DEF RecvData, Arrived, ProcRec, disk
  <2>2. Moves(pr)
    BY <2>1, FramesMove DEF Fresh
  <2>3. link[pr] # NoPeer
    BY <2>1 DEF SInv, SessionOK, InSession, Receiving
  <2>4. QED
    BY <2>1, <2>2, <2>3, LaterMove DEF Later
<1>4. QED
  BY <1>2, <1>3

\* The peer's manifest is taken from the queue.
LEMMA RecvManifestAtomic ==
  ASSUME OneAtATime, PathOrder, IInv, RInv, NEW pr \in Proc, RecvManifest(pr)
  PROVE  RInv' /\ AS!Next
<1>1. /\ proc \in [Proc -> ProcRec] /\ proc[pr] \in ProcRec
      /\ IsFiniteSet(DOMAIN journal[Home(pr)]) /\ IsFiniteSet(DOMAIN proc[pr].mem)
  BY ProcessNow
<1>2. /\ proc' = [proc EXCEPT ![pr] = proc'[pr]] /\ UNCHANGED <<journal, link>>
      /\ proc[pr].pc = "recvManifest" /\ proc'[pr].pc = "merging"
      /\ proc'[pr].mem = proc[pr].mem /\ proc'[pr].todo = Head(chan[pr]).entries
      /\ chan[pr] # <<>> /\ chan' = Received(pr)
  BY <1>1 DEF RecvManifest, Arrived, ProcRec, disk
<1>3. IsManifest(proc'[pr].todo)
  BY <1>2 DEF RInv, QueueOK, Fresh
<1>4. MemOK(proc'[pr], link[pr], journal'[Home(pr)], Home(pr))
  BY <1>1, <1>2, <1>3 DEF MemOK
<1>5. Moves(pr)
  BY <1>2, FramesMove DEF Fresh
<1>6. Disk(pr)' = Disk(pr)
  BY <1>2 DEF Disk, DiskOf, Home
<1>7. Will(pr)' = Will(pr)
  <2>1. proc[pr].pc \in Fresh /\ proc[pr].pc \notin Later \cup {"merging"} /\ proc'[pr].pc \notin Later
    BY <1>2 DEF Fresh, Later
  <2>2. QED
    BY <1>2, <2>1 DEF Will, WillOf
<1>8. QED
  BY <1>1, <1>2, <1>4, <1>5, <1>6, <1>7, QuietMove

\* One entry is merged: what will be installed stays the same.
LEMMA MergeEntryAtomic ==
  ASSUME OneAtATime, PathOrder, IInv, RInv, NEW pr \in Proc, NEW e \in proc[pr].todo, MergeEntry(pr, e)
  PROVE  RInv' /\ AS!Next
<1>1. DEFINE es2 == merge_remote(proc[pr].mem, e)
             rest == proc[pr].todo \ {e}
<1>2. /\ proc \in [Proc -> ProcRec] /\ proc[pr] \in ProcRec /\ proc[pr].mem \in Store
      /\ IsFiniteSet(DOMAIN journal[Home(pr)]) /\ IsFiniteSet(DOMAIN proc[pr].mem)
      /\ MemOK(proc[pr], link[pr], journal[Home(pr)], Home(pr))
  BY ProcessNow
<1>3. /\ proc' = [proc EXCEPT ![pr] = proc'[pr]] /\ UNCHANGED <<journal, link, chan>>
      /\ proc[pr].pc = "merging" /\ proc'[pr].pc = "merging"
      /\ proc'[pr].mem = es2 /\ proc'[pr].todo = rest /\ IsFirst(e, proc[pr].todo)
  BY <1>2 DEF MergeEntry, ProcRec, disk
<1>4. IsManifest(proc[pr].todo) /\ e \in Good
  BY <1>2, <1>3 DEF MemOK, ProcRec
<1>5. IsManifest(rest)
  BY <1>4, PartOfManifest
<1>6. IsFiniteSet(DOMAIN es2)
  BY <1>2, <1>4, MergeFinite
<1>7. MergeAll(proc[pr].mem, proc[pr].todo, Before) = MergeAll(es2, rest, Before)
  BY <1>3, <1>4, MergeFirst
<1>8. HIDE DEF es2, rest
<1>9. MemOK(proc'[pr], link[pr], journal'[Home(pr)], Home(pr))
  BY <1>3, <1>5, <1>6 DEF MemOK
<1>10. Moves(pr)
  BY <1>3 DEF Moves, Fresh
<1>11. Disk(pr)' = Disk(pr)
  BY <1>3 DEF Disk, DiskOf, Home
<1>12. Will(pr)' = Will(pr)
  <2>1. "merging" \notin Later
    BY DEF Later
  <2>2. QED
    BY <1>3, <1>7, <2>1 DEF Will, WillOf
<1>13. QED
  BY <1>2, <1>3, <1>9, <1>10, <1>11, <1>12, QuietMove

\* All is merged.
LEMMA SendRequestAtomic ==
  ASSUME OneAtATime, PathOrder, IInv, RInv, NEW pr \in Proc, SendRequest(pr)
  PROVE  RInv' /\ AS!Next
<1>1. /\ proc \in [Proc -> ProcRec] /\ proc[pr] \in ProcRec
      /\ IsFiniteSet(DOMAIN journal[Home(pr)]) /\ IsFiniteSet(DOMAIN proc[pr].mem)
  BY ProcessNow
<1>2. DEFINE f == [type |-> "CHUNK_REQUEST", hashes |-> proc[pr].needed]
<1>3. /\ proc' = [proc EXCEPT ![pr] = proc'[pr]] /\ UNCHANGED <<journal, link>>
      /\ proc[pr].pc = "merging" /\ proc'[pr].pc = "recvRequest"
      /\ proc'[pr].mem = proc[pr].mem /\ proc[pr].todo = {} /\ chan' = send_frame(chan, pr, f)
  BY <1>1 DEF SendRequest, ProcRec, disk
<1>4. HIDE DEF f
<1>5. Moves(pr)
  BY <1>3, FramesMove DEF Fresh
<1>6. MemOK(proc'[pr], link[pr], journal'[Home(pr)], Home(pr))
  BY <1>1, <1>3 DEF MemOK
<1>7. Disk(pr)' = Disk(pr)
  BY <1>3 DEF Disk, DiskOf, Home
<1>8. Will(pr)' = Will(pr)
  <2>1. "merging" \notin Later /\ "recvRequest" \in Later
    BY DEF Later
  <2>2. MergeAll(proc[pr].mem, proc[pr].todo, Before) = {proc[pr].mem}
    BY <1>3, MergeNothing
  <2>3. QED
    BY <1>3, <2>1, <2>2 DEF Will, WillOf
<1>9. QED
  BY <1>1, <1>3, <1>5, <1>6, <1>7, <1>8, QuietMove

\* The session is saved and says so.
LEMMA SendDoneAtomic ==
  ASSUME OneAtATime, PathOrder, IInv, RInv, NEW pr \in Proc, SendDone(pr)
  PROVE  RInv' /\ AS!Next
<1>1. /\ proc \in [Proc -> ProcRec] /\ proc[pr] \in ProcRec
      /\ IsFiniteSet(DOMAIN journal[Home(pr)]) /\ IsFiniteSet(DOMAIN proc[pr].mem)
  BY ProcessNow
<1>2. DEFINE f == [type |-> "DONE"]
<1>3. /\ proc' = [proc EXCEPT ![pr] = proc'[pr]] /\ UNCHANGED <<journal, link>>
      /\ proc[pr].pc = "sendDone" /\ proc'[pr].pc = "recvDone"
      /\ proc'[pr].mem = proc[pr].mem /\ chan' = send_frame(chan, pr, f)
  BY <1>1 DEF SendDone, ProcRec, disk
<1>4. HIDE DEF f
<1>5. Moves(pr)
  BY <1>3, FramesMove DEF Fresh
<1>6. MemOK(proc'[pr], link[pr], journal'[Home(pr)], Home(pr))
  BY <1>1, <1>3 DEF MemOK
<1>7. Disk(pr)' = Disk(pr)
  BY <1>3 DEF Disk, DiskOf, Home
<1>8. Will(pr) = {} /\ Will(pr)' = {}
  BY <1>3, NothingToInstall DEF Will, Unsaved, Later
<1>9. QED
  BY <1>1, <1>3, <1>5, <1>6, <1>7, <1>8, QuietMove

-----------------------------------------------------------------------------
(* The save.                                                                *)

\* The edit of a command, or the merge of a session, is recorded.
LEMMA OpenJournalAtomic ==
  ASSUME OneAtATime, PathOrder, IInv, RInv, NEW pr \in Proc, OpenJournal(pr)
  PROVE  RInv' /\ AS!Next
<1>1. /\ proc \in [Proc -> ProcRec] /\ proc[pr] \in ProcRec
      /\ journal \in [Node -> Store] /\ Home(pr) \in Node /\ IsFiniteSet(DOMAIN proc[pr].mem)
      /\ MemOK(proc[pr], link[pr], journal[Home(pr)], Home(pr))
  BY ProcessNow
<1>2. /\ proc' = [proc EXCEPT ![pr] = proc'[pr]] /\ UNCHANGED <<link, chan>>
      /\ journal' = [journal EXCEPT ![Home(pr)] = EmptyStore]
      /\ proc[pr].pc = "saving" /\ proc'[pr].pc = "writing" /\ proc'[pr].mem = proc[pr].mem
  BY <1>1 DEF OpenJournal, ProcRec
<1>3. journal'[Home(pr)] = EmptyStore /\ IsFiniteSet(DOMAIN EmptyStore)
  BY <1>1, <1>2, FS_EmptySet DEF EmptyStore
<1>4. MemOK(proc'[pr], link[pr], journal'[Home(pr)], Home(pr))
  BY <1>1, <1>2 DEF MemOK
<1>5. Moves(pr)
  BY <1>2 DEF Moves, Fresh
<1>6. RInv' /\ Elsewhere(pr)
  BY <1>2, <1>3, <1>4, <1>5, MovesStep
<1>7. Disk(pr)' = proc[pr].mem /\ Disk(pr) = journal[Home(pr)]
  BY <1>2 DEF Disk, DiskOf
<1>8. Will(pr)' = {}
  BY <1>2, NothingToInstall DEF Will, Unsaved, Later
<1>9. CASE link[pr] = NoPeer
  <2>1. EditOf(Disk(pr)', Disk(pr), Home(pr))
    BY <1>1, <1>2, <1>7, <1>9 DEF MemOK
  <2>2. Will(pr) = {}
    BY <1>9, NothingToInstall DEF Will
  <2>3. AS!Next
    BY <1>6, <1>8, <2>1, <2>2, EditStep
  <2>4. QED
    BY <1>6, <2>3
<1>10. CASE link[pr] # NoPeer
  <2>1. Will(pr) = {proc[pr].mem}
    BY <1>2, <1>10 DEF Will, WillOf, Later
  <2>2. AS!Next
    BY <1>6, <1>7, <1>8, <2>1, InstallStep
  <2>3. QED
    BY <1>6, <2>2
<1>11. QED
  BY <1>9, <1>10

LEMMA WriteLineAtomic ==
  ASSUME OneAtATime, PathOrder, IInv, RInv, NEW pr \in Proc, NEW e \in proc[pr].todo, WriteLine(pr, e)
  PROVE  RInv' /\ AS!Next
<1>1. DEFINE j2 == load_entry(journal[Home(pr)], e)
<1>2. /\ proc \in [Proc -> ProcRec] /\ proc[pr] \in ProcRec /\ IsFiniteSet(DOMAIN proc[pr].mem)
      /\ journal \in [Node -> Store] /\ Home(pr) \in Node /\ IsFiniteSet(DOMAIN journal[Home(pr)])
  BY ProcessNow
<1>3. /\ proc' = [proc EXCEPT ![pr] = proc'[pr]] /\ UNCHANGED <<link, chan>>
      /\ journal' = [journal EXCEPT ![Home(pr)] = j2]
      /\ proc[pr].pc = "writing" /\ proc'[pr].pc = "writing" /\ proc'[pr].mem = proc[pr].mem
  BY <1>2 DEF WriteLine, ProcRec
<1>4. journal'[Home(pr)] = j2 /\ IsFiniteSet(DOMAIN j2)
  BY <1>2, <1>3, LoadFinite
<1>5. HIDE DEF j2
<1>6. MemOK(proc'[pr], link[pr], journal'[Home(pr)], Home(pr))
  BY <1>2, <1>3 DEF MemOK
<1>7. Moves(pr)
  BY <1>3 DEF Moves, Fresh
<1>8. Disk(pr)' = Disk(pr)
  BY <1>3 DEF Disk, DiskOf
<1>9. Will(pr) = {} /\ Will(pr)' = {}
  BY <1>3, NothingToInstall DEF Will, Unsaved, Later
<1>10. QED
  BY <1>3, <1>4, <1>6, <1>7, <1>8, <1>9, QuietMove

LEMMA SameEntries ==
  ASSUME NEW es \in Store, NEW es2 \in Store, all_entries(es) = all_entries(es2)
  PROVE  es = es2
<1>1. IsStore(es) /\ IsStore(es2)
  BY StoreIsStore
<1>2. ASSUME NEW a, NEW b, IsStore(a), IsStore(b), all_entries(a) = all_entries(b), NEW p \in DOMAIN a
      PROVE  p \in DOMAIN b /\ b[p] = a[p]
  <2>1. a[p] \in all_entries(b) /\ a[p].path = p
    BY <1>2 DEF all_entries, IsStore
  <2>2. QED
    BY <1>2, <2>1, StoreLookup
<1>3. DOMAIN es = DOMAIN es2 /\ \A p \in DOMAIN es : es[p] = es2[p]
  BY <1>1, <1>2
<1>4. QED
  BY <1>1, <1>3 DEF IsStore

\* The journal has become what was in memory.
LEMMA CloseJournalAtomic ==
  ASSUME OneAtATime, PathOrder, IInv, JInv, RInv, NEW pr \in Proc, CloseJournal(pr)
  PROVE  RInv' /\ AS!Next
<1>1. /\ proc \in [Proc -> ProcRec] /\ proc[pr] \in ProcRec /\ proc[pr].mem \in Store
      /\ journal[Home(pr)] \in Store /\ IsFiniteSet(DOMAIN journal[Home(pr)])
      /\ IsFiniteSet(DOMAIN proc[pr].mem)
  BY ProcessNow
<1>2. proc[pr].pc = "writing" /\ proc[pr].todo = {} /\ UNCHANGED <<journal, chan>>
  BY DEF CloseJournal, disk
<1>3. all_entries(proc[pr].mem) = all_entries(journal[Home(pr)])
  BY <1>2 DEF JInv, JournalOK
<1>4. Disk(pr) = journal[Home(pr)]
  BY <1>1, <1>2, <1>3, SameEntries DEF Disk, DiskOf
<1>5. CASE Exit(pr)
  <2>1. Leaves(pr)
    BY <1>2, <1>5 DEF Leaves
  <2>2. QED
    BY <1>2, <1>4, <2>1, LeavesStep
<1>6. CASE proc' = [proc EXCEPT ![pr].pc = "sendDone"] /\ UNCHANGED link
  <2>1. /\ proc' = [proc EXCEPT ![pr] = proc'[pr]] /\ UNCHANGED link
        /\ proc'[pr].pc = "sendDone" /\ proc'[pr].mem = proc[pr].mem
    BY <1>1, <1>6 DEF ProcRec
  <2>2. Moves(pr)
    BY <1>2, <2>1 DEF Moves, Fresh
  <2>3. MemOK(proc'[pr], link[pr], journal'[Home(pr)], Home(pr))
    BY <1>1, <2>1 DEF MemOK
  <2>4. Disk(pr)' = Disk(pr)
    BY <1>2, <1>4, <2>1 DEF Disk, DiskOf, Home
  <2>5. Will(pr) = {} /\ Will(pr)' = {}
    BY <1>2, <2>1, NothingToInstall DEF Will, Unsaved, Later
  <2>6. QED
    BY <1>1, <1>2, <2>2, <2>3, <2>4, <2>5, QuietMove
<1>7. QED
  BY <1>5, <1>6 DEF CloseJournal

-----------------------------------------------------------------------------
(* Sessions begin and end.                                                  *)

LEMMA EndAtomic ==
  ASSUME OneAtATime, PathOrder, "writing" \notin CrashPoints, IInv, RInv, NEW pr \in Proc,
         \/ StopListening(pr) \/ RecvDone(pr) \/ Fail(pr) \/ Crash(pr)
         \/ \E h \in DOMAIN proc[pr].incoming : CrashInPutChunk(pr, h)
  PROVE  RInv' /\ AS!Next
<1>1. Exit(pr) /\ UNCHANGED journal
  BY DEF StopListening, RecvDone, Fail, Crash, CrashInPutChunk, disk
<1>2. proc[pr].pc # "writing"
  BY DEF StopListening, RecvDone, Arrived, Fail, Crash, CrashInPutChunk, Sending, Receiving
<1>3. Typed /\ chan \in [Proc -> Seq(Frame)] /\ link \in [Proc -> Proc \cup {NoPeer}]
  BY DEF IInv, Typed
<1>4. ASSUME NEW q \in Proc \ {pr}
      PROVE  chan'[q] = chan[q] \/ (Mutual(pr, q) /\ chan'[q] = <<>>)
  <2>1. CASE StopListening(pr) \/ Fail(pr)
    BY <2>1 DEF StopListening, Fail
  <2>2. CASE RecvDone(pr)
    BY <1>3, <2>2, ReceivedQueues DEF RecvDone, Arrived
  <2>3. CASE chan' \in Cut(pr)
    <3>1. DEFINE kept == [chan EXCEPT ![pr] = <<>>]
    <3>2. kept \in [Proc -> Seq(Frame)] /\ kept[q] = chan[q]
      BY <1>3
    <3>3. chan' = kept \/ (Connected(pr) /\ chan' = [kept EXCEPT ![link[pr]] = <<>>])
      BY <2>3 DEF Cut
    <3>4. Connected(pr) /\ link[pr] = q => Mutual(pr, q)
      BY DEF Connected, Mutual
    <3>5. HIDE DEF kept
    <3>6. QED
      BY <3>2, <3>3, <3>4
  <2>4. QED
    BY <2>1, <2>2, <2>3 DEF Crash, CrashInPutChunk
<1>5. Leaves(pr)
  BY <1>1, <1>4 DEF Leaves
<1>6. Disk(pr) = journal[Home(pr)]
  BY <1>2 DEF Disk, DiskOf
<1>7. QED
  BY <1>1, <1>5, <1>6, LeavesStep

LEMMA WillOfFresh ==
  ASSUME NEW r, NEW r2, NEW l, NEW c, NEW coming,
         r.pc \in Fresh, r2.pc \in Fresh, r2.mem = r.mem
  PROVE  WillOf(r2, l, c, coming) = WillOf(r, l, c, coming)
<1>1. \A x \in Fresh : x \notin Later /\ x # "merging"
  BY DEF Fresh, Later
<1>2. QED
  BY <1>1 DEF WillOf

LEMMA FirstOfOne ==
  ASSUME NEW e
  PROVE  Append(<<>>, e) # <<>> /\ Head(Append(<<>>, e)) = e
  OBVIOUS

\* The manifest the peer counts on is now in its queue.
LEMMA SendManifestAtomic ==
  ASSUME OneAtATime, PathOrder, IInv, SInv, AInv, RInv, NEW pr \in Proc, SendManifest(pr)
  PROVE  RInv' /\ AS!Next
<1>1. /\ proc \in [Proc -> ProcRec] /\ proc[pr] \in ProcRec /\ proc[pr].mem \in Store
      /\ IsFiniteSet(DOMAIN journal[Home(pr)]) /\ IsFiniteSet(DOMAIN proc[pr].mem)
  BY ProcessNow
<1>2. Typed /\ chan \in [Proc -> Seq(Frame)] /\ NoPeer \notin Proc
  BY SyncNodeAssumption DEF IInv, Typed
<1>3. DEFINE f == [type |-> "MANIFEST", entries |-> serialize_manifest(pr)]
<1>4. /\ chan' = send_frame(chan, pr, f) /\ UNCHANGED <<journal, link>>
      /\ proc[pr].pc = "sendManifest" /\ proc'[pr].pc = "recvManifest"
      /\ proc'[pr].mem = proc[pr].mem /\ \A s \in Proc \ {pr} : proc'[s] = proc[s]
      /\ f.type = "MANIFEST" /\ f.entries = all_entries(proc[pr].mem)
  BY <1>1 DEF SendManifest, ProcRec, disk, serialize_manifest
<1>5. HIDE DEF f
<1>6. \A q \in Proc : chan'[q] = IF Mutual(pr, q) THEN Append(chan[q], f) ELSE chan[q]
  BY <1>2, <1>4, SentTo
<1>7. link[pr] # pr
  BY <1>2 DEF SInv, SessionOK
<1>8. IsManifest(f.entries)
  BY <1>1, <1>4, StoreManifest
<1>9. ASSUME NEW q \in Proc, ~ Mutual(pr, q)
      PROVE  Coming(q)' = Coming(q) /\ (Sent(q)' <=> Sent(q)) /\ chan'[q] = chan[q]
  <2>1. \A s \in Proc : link[q] = s /\ link[s] = q => s # pr
    BY <1>9 DEF Mutual
  <2>2. {s \in Proc : link'[q] = s /\ link'[s] = q /\ proc'[s].pc = "sendManifest"}
          = {s \in Proc : link[q] = s /\ link[s] = q /\ proc[s].pc = "sendManifest"}
    BY <1>4, <2>1
  <2>3. \A s \in {t \in Proc : link[q] = t /\ link[t] = q /\ proc[t].pc = "sendManifest"} :
          proc'[s] = proc[s]
    BY <1>4, <2>1
  <2>4. Coming(q)' = Coming(q)
    BY <2>2, <2>3 DEF Coming
  <2>5. Sent(q)' <=> Sent(q)
    BY <1>4, <2>1 DEF Sent, Mutual
  <2>6. QED
    BY <1>6, <1>9, <2>4, <2>5
<1>10. ASSUME NEW q \in Proc \ {pr}, ~ Mutual(pr, q)
       PROVE  QueueOK(proc'[q], chan'[q], Sent(q)') /\ Will(q)' = Will(q)
  <2>1. QueueOK(proc[q], chan[q], Sent(q))
    BY DEF RInv
  <2>2. proc'[q] = proc[q] /\ link' = link
    BY <1>4
  <2>3. QED
    BY <1>9, <1>10, <2>1, <2>2 DEF QueueOK, Will
<1>11. QueueOK(proc'[pr], chan'[pr], Sent(pr)') /\ Will(pr)' = Will(pr)
  <2>1. ~ Mutual(pr, pr)
    BY <1>7 DEF Mutual
  <2>2. QueueOK(proc[pr], chan[pr], Sent(pr))
    BY DEF RInv
  <2>3. /\ proc[pr].pc \in Fresh /\ proc'[pr].pc \in Fresh
        /\ proc[pr].pc \notin Later \cup {"merging"} /\ proc'[pr].pc \notin Later \cup {"merging"}
    BY <1>4 DEF Fresh, Later
  <2>4. QueueOK(proc'[pr], chan'[pr], Sent(pr)')
    BY <1>9, <2>1, <2>2, <2>3 DEF QueueOK
  <2>5. Will(pr)' = Will(pr)
    <3>1. Will(pr)' = WillOf(proc'[pr], link'[pr], chan'[pr], Coming(pr)')
      BY DEF Will
    <3>2. link'[pr] = link[pr] /\ chan'[pr] = chan[pr] /\ Coming(pr)' = Coming(pr)
      BY <1>4, <1>9, <2>1
    <3>3. WillOf(proc'[pr], link[pr], chan[pr], Coming(pr)) = Will(pr)
      BY <1>4, <2>3, WillOfFresh DEF Will
    <3>4. QED
      BY <3>1, <3>2, <3>3
  <2>6. QED
    BY <2>4, <2>5
<1>12. ASSUME NEW q \in Proc \ {pr}, Mutual(pr, q)
       PROVE  QueueOK(proc'[q], chan'[q], Sent(q)') /\ Will(q)' = Will(q)
  <2>1. PairOK(proc[pr], proc[q], chan[q])
    BY <1>12 DEF AInv, Mutual
  <2>2. chan[q] = <<>> /\ proc[q].pc \in Fresh
    BY <1>4, <2>1 DEF PairOK
  <2>3. chan'[q] = Append(<<>>, f)
    BY <1>6, <1>12, <2>2
  <2>4. chan'[q] # <<>> /\ Head(chan'[q]) = f
    BY <2>3, FirstOfOne
  <2>5. QueueOK(proc'[q], chan'[q], Sent(q)')
    BY <1>4, <1>8, <2>4 DEF QueueOK
  <2>6. Coming(q) = {all_entries(proc[pr].mem)}
    <3>1. {s \in Proc : link[q] = s /\ link[s] = q /\ proc[s].pc = "sendManifest"} = {pr}
      BY <1>4, <1>12 DEF Mutual
    <3>2. QED
      BY <3>1 DEF Coming
  <2>7. proc'[q] = proc[q] /\ link'[q] = link[q] /\ link[q] # NoPeer
        /\ proc[q].pc \notin Later \cup {"merging"}
    BY <1>2, <1>4, <1>12, <2>2 DEF Mutual, Fresh, Later
  <2>8. DEFINE m == MergeAll(proc[q].mem, all_entries(proc[pr].mem), Before)
  <2>9. Will(q) = UNION {MergeAll(proc[q].mem, es, Before) : es \in Coming(q)}
    BY <2>2, <2>7 DEF Will, WillOf
  <2>10. Will(q) = m
    BY <2>6, <2>9
  <2>11. Will(q)' = m
    BY <1>4, <2>2, <2>4, <2>7 DEF Will, WillOf
  <2>12. QED
    BY <2>5, <2>10, <2>11
<1>13. ASSUME NEW q \in Proc
       PROVE  /\ MemOK(proc'[q], link'[q], journal'[Home(q)], Home(q))
              /\ Disk(q)' = Disk(q)
  <2>1. MemOK(proc[q], link[q], journal[Home(q)], Home(q))
    BY DEF RInv
  <2>2. CASE q = pr
    BY <1>1, <1>4, <2>2 DEF MemOK, Disk, DiskOf, Home
  <2>3. CASE q # pr
    BY <1>4, <2>1, <2>3 DEF Disk, Home
  <2>4. QED
    BY <2>2, <2>3
<1>14. \A q \in Proc : QueueOK(proc'[q], chan'[q], Sent(q)') /\ Will(q)' = Will(q)
  BY <1>10, <1>11, <1>12
<1>15. RInv'
  BY <1>4, <1>13, <1>14 DEF RInv, Home
<1>16. AS!Next
  BY <1>4, <1>13, <1>14, QuietStep
<1>17. QED
  BY <1>15, <1>16

\* Two nodes connect: both count on the other's journal.
LEMMA SyncWithAtomic ==
  ASSUME OneAtATime, PathOrder, IInv, SInv, JInv, RInv, NEW pr \in Proc, NEW qr \in Proc,
         SyncWith(pr, qr)
  PROVE  RInv' /\ AS!Next
<1>1. /\ proc \in [Proc -> ProcRec] /\ link \in [Proc -> Proc \cup {NoPeer}]
      /\ chan \in [Proc -> Seq(Frame)] /\ NoPeer \notin Proc
      /\ Loaded(pr) \in ProcRec /\ Loaded(pr).mem = journal[Home(pr)] /\ proc[qr] \in ProcRec
  BY SyncNodeAssumption, LoadedType DEF IInv, Typed
<1>2. /\ proc[pr].pc = "idle" /\ proc[qr].pc = "listening" /\ pr # qr /\ Home(pr) # Home(qr)
      /\ journal' = journal
  BY DEF SyncWith, disk
<1>3. link[pr] = NoPeer /\ link[qr] = NoPeer /\ proc[qr].mem = journal[Home(qr)]
  BY <1>2 DEF SInv, SessionOK, JInv, JournalOK, AsLoaded
<1>4. /\ \A q \in Proc \ {pr, qr} : proc'[q] = proc[q]
      /\ proc'[pr].pc = "sendManifest" /\ proc'[qr].pc = "sendManifest"
      /\ proc'[pr].mem = journal[Home(pr)] /\ proc'[qr].mem = journal[Home(qr)]
  BY <1>1, <1>2, <1>3 DEF SyncWith, ProcRec
<1>5. \A q \in Proc : link'[q] = IF q = pr THEN qr ELSE IF q = qr THEN pr ELSE link[q]
  BY <1>1, <1>2 DEF SyncWith
<1>6. \A q \in Proc : chan'[q] = IF q \in {pr, qr} THEN <<>> ELSE chan[q]
  <2>1. DEFINE kept == [chan EXCEPT ![pr] = <<>>]
  <2>2. chan' = [kept EXCEPT ![qr] = <<>>]
    BY DEF SyncWith
  <2>3. DOMAIN kept = Proc /\ \A q \in Proc : kept[q] = IF q = pr THEN <<>> ELSE chan[q]
    BY <1>1
  <2>4. HIDE DEF kept
  <2>5. QED
    BY <2>2, <2>3
<1>7. ASSUME NEW q \in Proc \ {pr, qr}
      PROVE  QueueOK(proc'[q], chan'[q], Sent(q)') /\ Will(q)' = Will(q)
  <2>1. \A s \in Proc : (link'[q] = s /\ link'[s] = q) <=> (link[q] = s /\ link[s] = q)
    BY <1>1, <1>3, <1>5
  <2>2. \A s \in Proc : link[q] = s /\ link[s] = q => proc'[s] = proc[s]
    BY <1>1, <1>3, <1>4
  <2>3. {s \in Proc : link'[q] = s /\ link'[s] = q /\ proc'[s].pc = "sendManifest"}
          = {s \in Proc : link[q] = s /\ link[s] = q /\ proc[s].pc = "sendManifest"}
    BY <2>1, <2>2
  <2>4. Coming(q)' = Coming(q)
    BY <2>2, <2>3 DEF Coming
  <2>5. Sent(q)' <=> Sent(q)
    BY <2>1, <2>2 DEF Sent, Mutual
  <2>6. QueueOK(proc[q], chan[q], Sent(q))
    BY DEF RInv
  <2>7. proc'[q] = proc[q] /\ link'[q] = link[q] /\ chan'[q] = chan[q]
    BY <1>4, <1>5, <1>6
  <2>8. QED
    BY <2>4, <2>5, <2>6, <2>7 DEF QueueOK, Will
<1>8. ASSUME NEW q \in {pr, qr}, NEW s \in {pr, qr}, s # q
      PROVE  /\ QueueOK(proc'[q], chan'[q], Sent(q)')
             /\ Will(q) = {} /\ Will(q)' = MergeAll(Disk(q), all_entries(Disk(s)), Before)
  <2>1. /\ link'[q] = s /\ link'[s] = q /\ chan'[q] = <<>> /\ s \in Proc /\ link'[q] # NoPeer
        /\ proc'[q].pc = "sendManifest" /\ proc'[s].pc = "sendManifest"
        /\ proc'[q].mem = journal[Home(q)] /\ proc'[s].mem = journal[Home(s)]
    BY <1>1, <1>4, <1>5, <1>6, <1>8
  <2>2. {t \in Proc : link'[q] = t /\ link'[t] = q /\ proc'[t].pc = "sendManifest"} = {s}
    BY <2>1
  <2>3. Coming(q)' = {all_entries(journal[Home(s)])}
    BY <2>1, <2>2 DEF Coming
  <2>4. ~ Sent(q)'
    BY <2>1 DEF Sent, Mutual
  <2>5. QueueOK(proc'[q], chan'[q], Sent(q)')
    BY <2>1, <2>4 DEF QueueOK
  <2>6. Disk(q) = journal[Home(q)] /\ Disk(s) = journal[Home(s)]
    BY <1>2, <1>8 DEF Disk, DiskOf
  <2>7. proc'[q].pc \in Fresh /\ proc'[q].pc \notin Later \cup {"merging"}
    BY <2>1 DEF Fresh, Later
  <2>8. Will(q)' = UNION {MergeAll(proc'[q].mem, es, Before) : es \in Coming(q)'}
    BY <2>1, <2>7 DEF Will, WillOf
  <2>9. DEFINE m == MergeAll(journal[Home(q)], all_entries(journal[Home(s)]), Before)
  <2>10. Will(q)' = m
    BY <2>1, <2>3, <2>8
  <2>11. Will(q) = {}
    BY <1>3, <1>8, NothingToInstall DEF Will
  <2>12. QED
    BY <2>5, <2>6, <2>10, <2>11
<1>9. ASSUME NEW q \in Proc
      PROVE  /\ MemOK(proc'[q], link'[q], journal'[Home(q)], Home(q))
             /\ Disk(q)' = Disk(q)
  <2>1. MemOK(proc[q], link[q], journal[Home(q)], Home(q)) /\ IsFiniteSet(DOMAIN journal[Home(q)])
    BY ProcessNow
  <2>2. CASE q \in {pr, qr}
    BY <1>2, <1>4, <2>1, <2>2 DEF MemOK, Disk, DiskOf, Home
  <2>3. CASE q \notin {pr, qr}
    BY <1>2, <1>4, <1>5, <2>1, <2>3 DEF Disk, Home
  <2>4. QED
    BY <2>2, <2>3
<1>10. \A q \in Proc : QueueOK(proc'[q], chan'[q], Sent(q)')
  BY <1>2, <1>7, <1>8
<1>11. RInv'
  BY <1>2, <1>9, <1>10 DEF RInv, Home
<1>12. AS!Next
  BY <1>2, <1>7, <1>8, <1>9, MeetStep
<1>13. QED
  BY <1>11, <1>12
-----------------------------------------------------------------------------
(* The implementation.                                                      *)

LEMMA RInvInit == Init => RInv
<1>1. SUFFICES ASSUME Init PROVE RInv
  OBVIOUS
<1>2. DOMAIN EmptyStore = {} /\ IsFiniteSet(DOMAIN EmptyStore)
  BY FS_EmptySet DEF EmptyStore
<1>3. Exited.pc = "idle" /\ Exited.mem = EmptyStore
  BY DEF Exited
<1>4. ASSUME NEW n \in Node
      PROVE  IsFiniteSet(DOMAIN journal[n])
  BY <1>1, <1>2 DEF Init
<1>5. ASSUME NEW pr \in Proc
      PROVE  /\ MemOK(proc[pr], link[pr], journal[Home(pr)], Home(pr))
             /\ QueueOK(proc[pr], chan[pr], Sent(pr))
  <2>1. proc[pr] = Exited
    BY <1>1 DEF Init
  <2>2. MemOK(proc[pr], link[pr], journal[Home(pr)], Home(pr))
    BY <1>2, <1>3, <2>1 DEF MemOK
  <2>3. QueueOK(proc[pr], chan[pr], Sent(pr))
    BY <1>3, <2>1 DEF QueueOK, Fresh
  <2>4. QED
    BY <2>2, <2>3
<1>6. QED
  BY <1>4, <1>5 DEF RInv

\* Nothing is recorded and no session is under way.
LEMMA AtomicInit ==
  ASSUME Init
  PROVE  AS!Init
<1>1. Exited.pc = "idle"
  BY DEF Exited
<1>2. ASSUME NEW n \in Node
      PROVE  StoreOf(n) = EmptyStore /\ PendingOf(n) = {}
  <2>1. At(n, {"writing"}) = {} /\ At(n, Unsaved) = {}
    BY <1>1 DEF Init, At, Unsaved, Later
  <2>2. journal[n] = EmptyStore
    BY DEF Init
  <2>3. QED
    BY <2>1, <2>2 DEF StoreOf, PendingOf
<1>3. AS!EmptyStore = EmptyStore
  BY SameOperations
<1>4. QED
  BY <1>2, <1>3 DEF AS!Init

\* One step of a process is one step of AtomicSync.
LEMMA AtomicStep ==
  ASSUME OneAtATime, "writing" \notin CrashPoints, PathOrder, IInv, SInv, AInv, JInv, RInv, Next
  PROVE  RInv' /\ AS!Next
<1>1. ASSUME NEW pr \in Proc, Command(pr)
      PROVE  RInv' /\ AS!Next
  BY <1>1, StartAddAtomic, StartRmAtomic, StartListenAtomic, EndAtomic, SyncWithAtomic DEF Command
<1>2. ASSUME NEW pr \in Proc, Step(pr)
      PROVE  RInv' /\ AS!Next
  BY <1>2, StoreChunkAtomic, PutLocalAtomic, LocalLater, OpenJournalAtomic, WriteLineAtomic,
     CloseJournalAtomic, SendManifestAtomic, RecvManifestAtomic, MergeEntryAtomic,
     SendRequestAtomic, FramesLater, SendDoneAtomic, EndAtomic DEF Step
<1>3. ASSUME NEW pr \in Proc, Killed(pr)
      PROVE  RInv' /\ AS!Next
  BY <1>3, EndAtomic DEF Killed, CrashInLine
<1>4. QED
  BY <1>1, <1>2, <1>3 DEF Next

LEMMA AtomicStutter ==
  ASSUME RInv, UNCHANGED vars
  PROVE  RInv' /\ UNCHANGED <<[n \in Node |-> StoreOf(n)], [n \in Node |-> PendingOf(n)]>>
<1>1. journal' = journal /\ proc' = proc /\ link' = link /\ chan' = chan
  BY DEF vars
<1>2. RInv'
  BY <1>1 DEF RInv, MemOK, QueueOK, Sent, Mutual, Home
<1>3. ASSUME NEW n \in Node
      PROVE  StoreOf(n)' = StoreOf(n) /\ PendingOf(n)' = PendingOf(n)
  BY <1>1 DEF StoreOf, PendingOf, At, Manifests, Coming, Home
<1>4. QED
  BY <1>2, <1>3

\* A session is atomic on each side: whatever the interleaving of the two
\* sides (run_sync_session) and wherever add, rm or sync is killed outside
\* save_journal, a node's store changes only by one edit of its user, or from
\* the snapshot its session started from to the merge of that snapshot with
\* the peer's.  One process runs on a node at a time, and the manifest is
\* merged in the order of its paths, a strict total order (std::map).
THEOREM SessionsAtomicHolds ==
  ASSUME OneAtATime, "writing" \notin CrashPoints, PathOrder
  PROVE  Spec => SessionsAtomic
<1>1. DEFINE Inv == IInv /\ SInv /\ AInv /\ JInv /\ RInv
             abstract == <<[n \in Node |-> StoreOf(n)], [n \in Node |-> PendingOf(n)]>>
<1>2. Init => Inv /\ AS!Init
  BY IInvInit, SInvInit, AInvInit, JInvInit, RInvInit, AtomicInit
<1>3. Inv /\ [Next]_vars => Inv' /\ [AS!Next]_abstract
  <2>1. SUFFICES ASSUME Inv, [Next]_vars
                 PROVE  Inv' /\ [AS!Next]_abstract
    OBVIOUS
  <2>2. IInv' /\ SInv' /\ AInv' /\ JInv'
    BY <2>1, IInvStep, SInvStep, AInvStep, JInvStep
  <2>3. CASE Next
    BY <2>1, <2>2, <2>3, AtomicStep
  <2>4. CASE UNCHANGED vars
    BY <2>1, <2>2, <2>4, AtomicStutter
  <2>5. QED
    BY <2>1, <2>3, <2>4
<1>4. QED
  BY <1>2, <1>3, PTL DEF Spec, SessionsAtomic, AS!Spec
=============================================================================
