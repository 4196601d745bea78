-------------------------- MODULE CrdtStoreProofs --------------------------
(***************************************************************************)
(* Facts about vector clocks and about the operations of CrdtStore, for any *)
(* set of nodes, file names and chunks.                                     *)
(***************************************************************************)
EXTENDS CrdtStore, TLAPS

-----------------------------------------------------------------------------
(* Clocks.                                                                  *)

\* VectorClock::increment moves a clock strictly forward, in one component.
LEMMA IncrementFacts ==
  ASSUME NEW c \in Clock, NEW n \in Node
  PROVE  /\ increment(c, n) \in Clock
         /\ Leq(c, increment(c, n))
         /\ increment(c, n)[n] = c[n] + 1
         /\ \A m \in Node \ {n} : increment(c, n)[m] = c[m]
  BY DEF Clock, increment, Leq

\* VectorClock::merge yields the least clock that has seen what both have seen.
THEOREM MergeIsLeastUpperBound ==
  ASSUME NEW a \in Clock, NEW b \in Clock
  PROVE  /\ merge(a, b) \in Clock
         /\ Leq(a, merge(a, b))
         /\ Leq(b, merge(a, b))
         /\ \A c \in Clock : Leq(a, c) /\ Leq(b, c) => Leq(merge(a, b), c)
  BY DEF Clock, merge, Leq

\* VectorClock::compare decides the causal order: EQUAL is equality, BEFORE and
\* AFTER are its strict order, CONCURRENT the absence of either.
THEOREM CompareDecidesCausality ==
  ASSUME NEW a \in Clock, NEW b \in Clock
  PROVE  /\ compare(a, b) \in ClockOrder
         /\ compare(a, b) = "EQUAL" <=> a = b
         /\ compare(a, b) = "BEFORE" <=> Leq(a, b) /\ a # b
         /\ compare(a, b) = "AFTER" <=> Leq(b, a) /\ a # b
         /\ compare(a, b) = "CONCURRENT" <=> ~ Leq(a, b) /\ ~ Leq(b, a)
<1>1. SomeLess(b, a) <=> ~ Leq(a, b)
  BY DEF SomeLess, Leq, Clock
<1>2. SomeLess(a, b) <=> ~ Leq(b, a)
  BY DEF SomeLess, Leq, Clock
<1>3. Leq(a, b) /\ Leq(b, a) <=> a = b
  <2>1. ASSUME Leq(a, b) /\ Leq(b, a), NEW n \in Node
        PROVE  a[n] = b[n]
    <3>1. a[n] \in Nat /\ b[n] \in Nat
      BY DEF Clock
    <3>2. a[n] <= b[n] /\ b[n] <= a[n]
      BY <2>1 DEF Leq
    <3>3. QED
      BY <3>1, <3>2
  <2>2. (\A n \in Node : a[n] = b[n]) => a = b
    BY DEF Clock
  <2>3. QED
    BY <2>1, <2>2 DEF Leq, Clock
<1>4. CASE Leq(a, b) /\ Leq(b, a)
  BY <1>1, <1>2, <1>3, <1>4 DEF compare, ClockOrder
<1>5. CASE Leq(a, b) /\ ~ Leq(b, a)
  BY <1>1, <1>2, <1>3, <1>5 DEF compare, ClockOrder
<1>6. CASE ~ Leq(a, b) /\ Leq(b, a)
  BY <1>1, <1>2, <1>3, <1>6 DEF compare, ClockOrder
<1>7. CASE ~ Leq(a, b) /\ ~ Leq(b, a)
  BY <1>1, <1>2, <1>3, <1>7 DEF compare, ClockOrder
<1>8. QED
  BY <1>4, <1>5, <1>6, <1>7

-----------------------------------------------------------------------------
(* Stores.                                                                  *)

LEMMA ZeroClockType == ZeroClock \in Clock
  BY DEF ZeroClock, Clock

LEMMA ClockAtType ==
  ASSUME NEW es, IsStore(es), NEW p
  PROVE  ClockAt(es, p) \in Clock
  BY ZeroClockType DEF ClockAt, IsStore, FileEntry

LEMMA EmptyStoreType == IsStore(EmptyStore) /\ DOMAIN EmptyStore = {}
  BY DEF IsStore, EmptyStore

\* es2 is es with e under its path, and nothing else changed.
LoadStep(es, es2, e) ==
  /\ IsStore(es2)
  /\ DOMAIN es2 = DOMAIN es \cup {e.path}
  /\ es2[e.path] = e
  /\ \A p \in DOMAIN es \ {e.path} : es2[p] = es[p]
  /\ ClockAt(es2, e.path) = e.clock
  /\ \A p : p # e.path => ClockAt(es2, p) = ClockAt(es, p)
  /\ all_entries(es2) \subseteq all_entries(es) \cup {e}

LEMMA LoadEntryFacts ==
  ASSUME NEW es, IsStore(es), NEW e \in FileEntry
  PROVE  LoadStep(es, load_entry(es, e), e)
  BY DEF LoadStep, load_entry, IsStore, ClockAt, all_entries

\* A conflict copy is never at a path a user could have chosen.
LEMMA ConflictPathFacts ==
  ASSUME NEW e \in FileEntry
  PROVE  /\ ConflictPath(e) \in Path
         /\ ConflictPath(e) # e.path
         /\ \A b : ConflictPath(e) # <<b>>
<1>1. /\ e.path \in Seq(BasePath \cup Node)
      /\ e.path # <<>>
      /\ e.last_writer \in BasePath \cup Node
  BY DEF FileEntry, Path
<1>2. DEFINE q == Append(e.path, e.last_writer)
<1>3. q \in Seq(BasePath \cup Node) /\ Len(q) = Len(e.path) + 1 /\ Len(e.path) > 0
  BY <1>1
<1>4. q # <<>> /\ q # e.path /\ \A b : q # <<b>>
  BY <1>3
<1>5. ConflictPath(e) = q
  BY DEF ConflictPath, make_conflict_path
<1>6. QED
  BY <1>3, <1>4, <1>5 DEF Path

\* An entry of a store is the one its path leads to.
LEMMA StoreLookup ==
  ASSUME NEW es, IsStore(es), NEW e \in all_entries(es)
  PROVE  /\ e \in FileEntry
         /\ e.path \in DOMAIN es
         /\ es[e.path] = e
         /\ ClockAt(es, e.path) = e.clock
  BY DEF IsStore, all_entries, ClockAt

\* What is common to put_local and delete_local, es2 being the store after one
\* of them.
LocalEdit(es, es2, n, p) ==
  /\ IsStore(es2)
  /\ DOMAIN es2 = DOMAIN es \cup {p}
  /\ ClockAt(es2, p) = increment(ClockAt(es, p), n)
  /\ es2[p].last_writer = n
  /\ \A q \in DOMAIN es \ {p} : es2[q] = es[q]
  /\ \A q : q # p => ClockAt(es2, q) = ClockAt(es, q)
  /\ all_entries(es2) \subseteq all_entries(es) \cup {es2[p]}

LEMMA LocalEditFacts ==
  ASSUME NEW es, IsStore(es), NEW n \in Node, NEW p \in Path, NEW e \in FileEntry,
         e.path = p, e.clock = increment(ClockAt(es, p), n), e.last_writer = n
  PROVE  /\ LocalEdit(es, load_entry(es, e), n, p)
         /\ load_entry(es, e)[p] = e
<1>1. LoadStep(es, load_entry(es, e), e)
  BY LoadEntryFacts
<1>2. QED
  BY <1>1 DEF LoadStep, LocalEdit

LEMMA PutLocalFacts ==
  ASSUME NEW es, IsStore(es), NEW n \in Node, NEW p \in Path, NEW chunks \in Seq(Chunk)
  PROVE  /\ LocalEdit(es, put_local(es, n, p, chunks), n, p)
         /\ put_local(es, n, p, chunks)[p].chunk_hashes = chunks
         /\ ~ put_local(es, n, p, chunks)[p].deleted
<1>1. DEFINE e == [path         |-> p,
                   chunk_hashes |-> chunks,
                   clock        |-> increment(ClockAt(es, p), n),
                   last_writer  |-> n,
                   deleted      |-> FALSE]
<1>2. put_local(es, n, p, chunks) = load_entry(es, e)
  BY DEF put_local
<1>3. increment(ClockAt(es, p), n) \in Clock
  BY ClockAtType, IncrementFacts
<1>4. e \in FileEntry
  BY <1>3 DEF FileEntry
<1>5. /\ e.path = p /\ e.clock = increment(ClockAt(es, p), n) /\ e.last_writer = n
      /\ e.chunk_hashes = chunks /\ ~ e.deleted
  OBVIOUS
<1>6. HIDE DEF e
<1>7. LocalEdit(es, load_entry(es, e), n, p) /\ load_entry(es, e)[p] = e
  BY <1>4, <1>5, LocalEditFacts
<1>8. QED
  BY <1>2, <1>5, <1>7

LEMMA DeleteLocalFacts ==
  ASSUME NEW es, IsStore(es), NEW n \in Node, NEW p \in Path
  PROVE  /\ LocalEdit(es, delete_local(es, n, p), n, p)
         /\ delete_local(es, n, p)[p].chunk_hashes = <<>>
         /\ delete_local(es, n, p)[p].deleted
<1>1. DEFINE e == [path         |-> p,
                   chunk_hashes |-> <<>>,
                   clock        |-> increment(ClockAt(es, p), n),
                   last_writer  |-> n,
                   deleted      |-> TRUE]
<1>2. delete_local(es, n, p) = load_entry(es, e)
  BY DEF delete_local
<1>3. increment(ClockAt(es, p), n) \in Clock
  BY ClockAtType, IncrementFacts
<1>4. e \in FileEntry
  BY <1>3 DEF FileEntry
<1>5. /\ e.path = p /\ e.clock = increment(ClockAt(es, p), n) /\ e.last_writer = n
      /\ e.chunk_hashes = <<>> /\ e.deleted
  OBVIOUS
<1>6. HIDE DEF e
<1>7. LocalEdit(es, load_entry(es, e), n, p) /\ load_entry(es, e)[p] = e
  BY <1>4, <1>5, LocalEditFacts
<1>8. QED
  BY <1>2, <1>5, <1>7

-----------------------------------------------------------------------------
(* merge_remote.                                                            *)

\* What a merge of e may do to a store: it touches e.path and, in a conflict,
\* the conflict path; the clock at e.path becomes the least one above e.clock
\* and the clock in place.
MergeStep(es, es2, e) ==
  /\ IsStore(es2)
  /\ DOMAIN es2 \in {DOMAIN es \cup {e.path}, DOMAIN es \cup {e.path, ConflictPath(e)}}
  /\ \A q : q \notin {e.path, ConflictPath(e)} => ClockAt(es2, q) = ClockAt(es, q)
  /\ Leq(ClockAt(es, e.path), ClockAt(es2, e.path)) /\ Leq(e.clock, ClockAt(es2, e.path))
  /\ \A m \in Node : ClockAt(es2, e.path)[m] \in {ClockAt(es, e.path)[m], e.clock[m]}
  /\ \A q \in DOMAIN es2 :
        \/ /\ es2[q].chunk_hashes = e.chunk_hashes
           /\ es2[q].deleted = e.deleted
           /\ \/ OutcomeOf(es, e) = "APPLIED_REMOTE" /\ q = e.path
              \/ OutcomeOf(es, e) = "CONFLICT_FORKED" /\ q = ConflictPath(e)
        \/ /\ q \in DOMAIN es
           /\ es2[q].chunk_hashes = es[q].chunk_hashes
           /\ es2[q].deleted = es[q].deleted

LEMMA LeqRefl ==
  ASSUME NEW c \in Clock
  PROVE  Leq(c, c)
  BY DEF Leq, Clock

\* The CONCURRENT case.
LEMMA ForkFacts ==
  ASSUME NEW es, IsStore(es), NEW e \in FileEntry,
         e.path \in DOMAIN es, OutcomeOf(es, e) = "CONFLICT_FORKED"
  PROVE  MergeStep(es, ForkConflict(es, e), e)
<1>1. DEFINE local  == es[e.path]
             copy   == [e EXCEPT !.path = ConflictPath(e)]
             seen   == merge(local.clock, e.clock)
             kept   == [local EXCEPT !.clock = seen]
             mid    == load_entry(es, copy)
             es2    == load_entry(mid, kept)
<1>2. local \in FileEntry /\ local.path = e.path /\ ClockAt(es, e.path) = local.clock
  BY DEF IsStore, ClockAt
<1>3. local.clock \in Clock /\ e.clock \in Clock
  BY <1>2 DEF FileEntry
<1>4. seen \in Clock /\ Leq(local.clock, seen) /\ Leq(e.clock, seen)
      /\ \A m \in Node : seen[m] \in {local.clock[m], e.clock[m]}
  BY <1>3, MergeIsLeastUpperBound DEF merge, Clock
<1>5. copy \in FileEntry /\ copy.path = ConflictPath(e)
      /\ copy.chunk_hashes = e.chunk_hashes /\ copy.deleted = e.deleted
  BY ConflictPathFacts DEF FileEntry
<1>6. kept \in FileEntry /\ kept.path = e.path /\ kept.clock = seen
      /\ kept.chunk_hashes = local.chunk_hashes /\ kept.deleted = local.deleted
  BY <1>2, <1>4 DEF FileEntry
<1>7. ConflictPath(e) # e.path
  BY ConflictPathFacts
<1>8. ForkConflict(es, e) = es2
  BY DEF ForkConflict
<1>9. HIDE DEF local, copy, seen, kept
<1>10. LoadStep(es, mid, copy)
  BY <1>5, LoadEntryFacts, Zenon
<1>11. HIDE DEF mid
<1>12. LoadStep(mid, es2, kept)
  BY <1>6, <1>10, LoadEntryFacts, Zenon DEF LoadStep
<1>13. HIDE DEF es2
<1>14. DOMAIN es2 = DOMAIN es \cup {e.path, ConflictPath(e)}
  BY <1>5, <1>6, <1>10, <1>12 DEF LoadStep
<1>15. ASSUME NEW q \in DOMAIN es2
       PROVE  \/ q = ConflictPath(e) /\ es2[q] = copy
              \/ q = e.path /\ es2[q] = kept
              \/ q \in DOMAIN es /\ es2[q] = es[q]
  BY <1>5, <1>6, <1>7, <1>10, <1>12 DEF LoadStep
<1>16. local = es[e.path]
  BY DEF local
<1>17. /\ \A q : q \notin {e.path, ConflictPath(e)} => ClockAt(es2, q) = ClockAt(es, q)
       /\ ClockAt(es2, e.path) = seen
       /\ IsStore(es2)
  BY <1>5, <1>6, <1>10, <1>12 DEF LoadStep
<1>18. Leq(ClockAt(es, e.path), seen) /\ Leq(e.clock, seen)
       /\ \A m \in Node : seen[m] \in {ClockAt(es, e.path)[m], e.clock[m]}
  BY <1>2, <1>4
<1>19. QED
  BY <1>5, <1>6, <1>8, <1>14, <1>15, <1>16, <1>17, <1>18 DEF MergeStep

\* Whatever the clocks, merge_remote changes a store by a MergeStep.
THEOREM MergeRemoteFacts ==
  ASSUME NEW es, IsStore(es), NEW e \in FileEntry
  PROVE  MergeStep(es, merge_remote(es, e), e)
<1>1. e.clock \in Clock
  BY DEF FileEntry
<1>2. CASE e.path \notin DOMAIN es
  <2>1. OutcomeOf(es, e) = "APPLIED_REMOTE"
    BY <1>2 DEF OutcomeOf
  <2>2. merge_remote(es, e) = load_entry(es, e)
    BY <2>1 DEF merge_remote
  <2>3. ClockAt(es, e.path) = ZeroClock
    BY <1>2 DEF ClockAt
  <2>4. Leq(ZeroClock, e.clock)
    BY <1>1 DEF Leq, ZeroClock, Clock
  <2>5. LoadStep(es, merge_remote(es, e), e)
    BY <2>2, LoadEntryFacts
  <2>6. QED
    BY <1>1, <1>2, <2>1, <2>3, <2>4, <2>5, LeqRefl DEF LoadStep, MergeStep
<1>3. CASE e.path \in DOMAIN es
  <2>1. DEFINE local == es[e.path]
  <2>2. local \in FileEntry /\ local.clock \in Clock /\ ClockAt(es, e.path) = local.clock
    BY <1>3 DEF IsStore, FileEntry, ClockAt
  <2>3. compare(local.clock, e.clock) \in ClockOrder
    BY <1>1, <2>2, CompareDecidesCausality
  <2>4. HIDE DEF local
  <2>5. local = es[e.path]
    BY DEF local
  <2>6. CASE compare(local.clock, e.clock) \in {"EQUAL", "AFTER"}
    <3>1. merge_remote(es, e) = es
      BY <1>3, <2>5, <2>6 DEF merge_remote, OutcomeOf
    <3>2. DOMAIN es = DOMAIN es \cup {e.path}
      BY <1>3
    <3>3. Leq(ClockAt(es, e.path), ClockAt(es, e.path)) /\ Leq(e.clock, ClockAt(es, e.path))
      BY <1>1, <2>2, <2>6, LeqRefl, CompareDecidesCausality
    <3>4. QED
      BY <3>1, <3>2, <3>3 DEF MergeStep
  <2>7. CASE compare(local.clock, e.clock) = "BEFORE"
    <3>1. OutcomeOf(es, e) = "APPLIED_REMOTE"
      BY <1>3, <2>5, <2>7 DEF OutcomeOf
    <3>2. merge_remote(es, e) = load_entry(es, e)
      BY <3>1 DEF merge_remote
    <3>3. Leq(local.clock, e.clock)
      BY <1>1, <2>2, <2>7, CompareDecidesCausality
    <3>4. LoadStep(es, merge_remote(es, e), e)
      BY <3>2, LoadEntryFacts
    <3>5. QED
      BY <1>1, <1>3, <2>2, <3>1, <3>3, <3>4, LeqRefl DEF LoadStep, MergeStep
  <2>8. CASE compare(local.clock, e.clock) = "CONCURRENT"
    <3>1. OutcomeOf(es, e) = "CONFLICT_FORKED"
      BY <1>3, <2>5, <2>8 DEF OutcomeOf
    <3>2. merge_remote(es, e) = ForkConflict(es, e)
      BY <3>1 DEF merge_remote
    <3>3. QED
      BY <1>3, <3>1, <3>2, ForkFacts
  <2>9. QED
    BY <2>3, <2>6, <2>7, <2>8 DEF ClockOrder
<1>4. QED
  BY <1>2, <1>3
=============================================================================
