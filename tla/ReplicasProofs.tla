--------------------------- MODULE ReplicasProofs ---------------------------
(***************************************************************************)
(* Proofs about Replicas, for any number of nodes, files and edits and any  *)
(* order of merges.                                                         *)
(*                                                                          *)
(* The argument rests on the counter that a node keeps of its own edits of  *)
(* a user's file: nobody is ahead of it (NoPhantomEdits).  With TypeOK this *)
(* is inductive.  An edit raises it, so that the new clock is not covered   *)
(* by any other; a merge can only raise it, because an entry is replaced    *)
(* only by one whose clock is at least as large; and conflict copies, whose *)
(* clocks break the rule, are never at a user's path.                       *)
(***************************************************************************)
EXTENDS Replicas, CrdtStoreProofs

LEMMA EditableIsPath ==
  ASSUME TypeOK, NEW n \in Node, NEW p \in Editable(n)
  PROVE  p \in Path
<1>1. \A b \in BasePath : <<b>> \in Path
  BY DEF Path
<1>2. ASSUME NEW q \in DOMAIN entries[n]
      PROVE  q \in Path
  BY DEF TypeOK, IsStore, FileEntry
<1>3. QED
  BY <1>1, <1>2 DEF Editable

\* What a step of node n does to the stores, for each of the three actions.
LEMMA PutStep ==
  ASSUME TypeOK, NEW n \in Node, NEW p \in Editable(n), Put(n, p)
  PROVE  /\ LocalEdit(entries[n], entries'[n], n, p)
         /\ \A m \in Node \ {n} : entries'[m] = entries[m]
         /\ wire' = wire \cup all_entries(entries'[n])
<1>1. DEFINE chunks == <<Content(n, edits[n] + 1)>>
<1>2. edits[n] + 1 \in 1 .. MaxEdits
  BY MaxEditsAssumption DEF TypeOK, Put
<1>3. Content(n, edits[n] + 1) \in Chunk
  BY <1>2, ContentAssumption
<1>4. chunks \in Seq(Chunk)
  BY <1>3
<1>5. p \in Path /\ IsStore(entries[n])
  BY EditableIsPath DEF TypeOK
<1>6. HIDE DEF chunks
<1>7. LocalEdit(entries[n], put_local(entries[n], n, p, chunks), n, p)
  BY <1>4, <1>5, PutLocalFacts
<1>8. Update(n, put_local(entries[n], n, p, chunks))
  BY DEF Put, chunks
<1>9. QED
  BY <1>7, <1>8 DEF Update, TypeOK

LEMMA DeleteStep ==
  ASSUME TypeOK, NEW n \in Node, NEW p \in Editable(n), Delete(n, p)
  PROVE  /\ LocalEdit(entries[n], entries'[n], n, p)
         /\ \A m \in Node \ {n} : entries'[m] = entries[m]
         /\ wire' = wire \cup all_entries(entries'[n])
<1>1. p \in Path /\ IsStore(entries[n])
  BY EditableIsPath DEF TypeOK
<1>2. LocalEdit(entries[n], delete_local(entries[n], n, p), n, p)
  BY <1>1, DeleteLocalFacts
<1>3. QED
  BY <1>2 DEF Delete, Update, TypeOK

LEMMA MergeIsStep ==
  ASSUME TypeOK, NEW n \in Node, NEW e \in wire, Merge(n, e)
  PROVE  /\ e \in FileEntry
         /\ MergeStep(entries[n], entries'[n], e)
         /\ \A m \in Node \ {n} : entries'[m] = entries[m]
         /\ wire' = wire \cup all_entries(entries'[n])
<1>1. e \in FileEntry /\ IsStore(entries[n])
  BY DEF TypeOK
<1>2. MergeStep(entries[n], merge_remote(entries[n], e), e)
  BY <1>1, MergeRemoteFacts
<1>3. QED
  BY <1>1, <1>2 DEF Merge, Update, TypeOK

-----------------------------------------------------------------------------

LEMMA TypeOKInit == Init => TypeOK
  BY EmptyStoreType, MaxEditsAssumption DEF Init, TypeOK

\* A store step of one node keeps the stores and the entries under way typed.
LEMMA UpdateTyped ==
  ASSUME TypeOK, NEW n \in Node, NEW es, IsStore(es), Update(n, es)
  PROVE  /\ entries' = [m \in Node |-> entries'[m]]
         /\ \A m \in Node : IsStore(entries'[m])
         /\ \A e \in wire' : e \in FileEntry
<1>1. entries' = [entries EXCEPT ![n] = es] /\ wire' = wire \cup all_entries(es)
  BY DEF Update
<1>2. \A e \in all_entries(es) : e \in FileEntry
  BY StoreLookup
<1>3. entries' = [m \in Node |-> IF m = n THEN es ELSE entries[m]]
  BY <1>1 DEF TypeOK
<1>4. QED
  BY <1>1, <1>2, <1>3 DEF TypeOK

LEMMA InPlaceType ==
  ASSUME TypeOK, NEW n \in Node, NEW p
  PROVE  \A c \in InPlace(n, p) : c \in Seq(Chunk)
  BY DEF TypeOK, IsStore, FileEntry, InPlace

LEMMA TypeOKStep ==
  ASSUME TypeOK, [Next]_vars
  PROVE  TypeOK'
<1>1. CASE UNCHANGED vars
  BY <1>1 DEF vars, TypeOK, IsStore
<1>2. ASSUME NEW n \in Node, NEW p \in Editable(n), Put(n, p)
      PROVE  TypeOK'
  <2>1. DEFINE chunks == <<Content(n, edits[n] + 1)>>
  <2>2. edits[n] + 1 \in 1 .. MaxEdits
    BY <1>2, MaxEditsAssumption DEF TypeOK, Put
  <2>3. chunks \in Seq(Chunk)
    BY <2>2, ContentAssumption
  <2>4. p \in Path /\ IsStore(entries[n])
    BY <1>2, EditableIsPath DEF TypeOK
  <2>5. Update(n, put_local(entries[n], n, p, chunks))
    BY <1>2 DEF Put
  <2>6. edits' = [edits EXCEPT ![n] = @ + 1] /\ edits[n] < MaxEdits
    BY <1>2 DEF Put
  <2>7. written' = written \cup {chunks} /\ superseded' = superseded \cup InPlace(n, p)
    BY <1>2 DEF Put
  <2>8. HIDE DEF chunks
  <2>9. IsStore(put_local(entries[n], n, p, chunks))
    BY <2>3, <2>4, PutLocalFacts DEF LocalEdit
  <2>10. /\ entries' = [m \in Node |-> entries'[m]]
         /\ \A m \in Node : IsStore(entries'[m])
         /\ \A e \in wire' : e \in FileEntry
    BY <2>5, <2>9, UpdateTyped
  <2>11. edits' \in [Node -> 0 .. MaxEdits]
    BY <2>2, <2>6 DEF TypeOK
  <2>12. \A c \in written' \cup superseded' : c \in Seq(Chunk)
    BY <2>3, <2>7, InPlaceType DEF TypeOK
  <2>13. QED
    BY <2>10, <2>11, <2>12 DEF TypeOK, IsStore
<1>3. ASSUME NEW n \in Node, NEW p \in Editable(n), Delete(n, p)
      PROVE  TypeOK'
  <2>1. p \in Path /\ IsStore(entries[n])
    BY <1>3, EditableIsPath DEF TypeOK
  <2>2. Update(n, delete_local(entries[n], n, p))
    BY <1>3 DEF Delete
  <2>3. IsStore(delete_local(entries[n], n, p))
    BY <2>1, DeleteLocalFacts DEF LocalEdit
  <2>4. /\ entries' = [m \in Node |-> entries'[m]]
        /\ \A m \in Node : IsStore(entries'[m])
        /\ \A e \in wire' : e \in FileEntry
    BY <2>2, <2>3, UpdateTyped
  <2>5. edits' \in [Node -> 0 .. MaxEdits]
    BY <1>3, MaxEditsAssumption DEF TypeOK, Delete
  <2>6. \A c \in written' \cup superseded' : c \in Seq(Chunk)
    BY <1>3, InPlaceType DEF TypeOK, Delete
  <2>7. QED
    BY <2>4, <2>5, <2>6 DEF TypeOK, IsStore
<1>4. ASSUME NEW n \in Node, NEW e \in wire, Merge(n, e)
      PROVE  TypeOK'
  <2>1. e \in FileEntry /\ IsStore(entries[n])
    BY DEF TypeOK
  <2>2. Update(n, merge_remote(entries[n], e)) /\ UNCHANGED <<edits, written, superseded>>
    BY <1>4 DEF Merge
  <2>3. IsStore(merge_remote(entries[n], e))
    BY <2>1, MergeRemoteFacts DEF MergeStep
  <2>4. /\ entries' = [m \in Node |-> entries'[m]]
        /\ \A m \in Node : IsStore(entries'[m])
        /\ \A f \in wire' : f \in FileEntry
    BY <2>2, <2>3, UpdateTyped
  <2>5. QED
    BY <2>2, <2>4 DEF TypeOK, IsStore
<1>5. QED
  BY <1>1, <1>2, <1>3, <1>4 DEF Next

\* Every entry a node ever holds or receives is well formed and filed under its
\* own path.
THEOREM TypeCorrect == Spec => []TypeOK
<1>1. Init => TypeOK
  BY TypeOKInit
<1>2. TypeOK /\ [Next]_vars => TypeOK'
  BY TypeOKStep
<1>3. QED
  BY <1>1, <1>2, PTL DEF Spec

-----------------------------------------------------------------------------
(* Nobody is ahead of a node in that node's own edits.                      *)

\* NoPhantomEdits for one file.
NoPhantomEditsOf(b) ==
  \A m \in Node :
    /\ \A n \in Node : ClockAt(entries[n], <<b>>)[m] <= OwnCount(m, <<b>>)
    /\ \A e \in wire : e.path = <<b>> => e.clock[m] <= OwnCount(m, <<b>>)

\* What a step of node n does to its clock of the file b, and to nothing else:
\* the clock grows, and in no other component than n's beyond the owner's count.
Advances(n, b) ==
  /\ Leq(ClockAt(entries[n], <<b>>), ClockAt(entries'[n], <<b>>))
  /\ \A m \in Node \ {n} : ClockAt(entries'[n], <<b>>)[m] <= OwnCount(m, <<b>>)
  /\ \A m \in Node \ {n} : entries'[m] = entries[m]
  /\ wire' = wire \cup all_entries(entries'[n])

LEMMA AdvancesKeepsCounts ==
  ASSUME TypeOK, TypeOK', NEW n \in Node, NEW b \in BasePath,
         NoPhantomEditsOf(b), Advances(n, b)
  PROVE  NoPhantomEditsOf(b)'
<1>1. \A k, m \in Node : /\ ClockAt(entries[k], <<b>>)[m] \in Nat
                         /\ ClockAt(entries'[k], <<b>>)[m] \in Nat
  <2>1. ASSUME NEW k \in Node
        PROVE  ClockAt(entries[k], <<b>>) \in Clock /\ ClockAt(entries'[k], <<b>>) \in Clock
    BY ClockAtType DEF TypeOK
  <2>2. QED
    BY <2>1 DEF Clock
<1>2. ASSUME NEW m \in Node
      PROVE  OwnCount(m, <<b>>) <= OwnCount(m, <<b>>)'
  BY <1>1 DEF Advances, OwnCount, Leq
<1>3. ASSUME NEW k \in Node, NEW m \in Node
      PROVE  ClockAt(entries'[k], <<b>>)[m] <= OwnCount(m, <<b>>)'
  <2>1. CASE k # n
    <3>1. ClockAt(entries'[k], <<b>>)[m] <= OwnCount(m, <<b>>)
      BY <2>1 DEF Advances, NoPhantomEditsOf
    <3>2. QED
      BY <1>1, <1>2, <3>1 DEF OwnCount
  <2>2. CASE k = n /\ m = n
    BY <1>1, <2>2 DEF OwnCount
  <2>3. CASE k = n /\ m # n
    BY <1>1, <1>2, <2>3 DEF Advances, OwnCount
  <2>4. QED
    BY <2>1, <2>2, <2>3
<1>4. ASSUME NEW e \in wire', e.path = <<b>>, NEW m \in Node
      PROVE  e.clock[m] <= OwnCount(m, <<b>>)'
  <2>1. CASE e \in wire
    <3>1. e.clock[m] <= OwnCount(m, <<b>>) /\ e.clock[m] \in Nat
      BY <1>4, <2>1 DEF NoPhantomEditsOf, TypeOK, FileEntry, Clock
    <3>2. QED
      BY <1>1, <1>2, <3>1 DEF OwnCount
  <2>2. CASE e \in all_entries(entries'[n])
    <3>1. IsStore(entries'[n])
      BY DEF TypeOK
    <3>2. ClockAt(entries'[n], e.path) = e.clock
      BY <2>2, <3>1, StoreLookup
    <3>3. QED
      BY <1>3, <1>4, <3>2
  <2>3. QED
    BY <2>1, <2>2 DEF Advances
<1>5. QED
  BY <1>3, <1>4 DEF NoPhantomEditsOf

LEMMA LeqTypes ==
  ASSUME TypeOK, NEW n \in Node, NEW p
  PROVE  ClockAt(entries[n], p) \in Clock
  BY ClockAtType DEF TypeOK

\* An edit by n counts one more edit of n, and is otherwise what n had seen.
LEMMA EditAdvances ==
  ASSUME TypeOK, NEW n \in Node, NEW b \in BasePath, NoPhantomEditsOf(b), NEW p,
         LocalEdit(entries[n], entries'[n], n, p),
         \A m \in Node \ {n} : entries'[m] = entries[m],
         wire' = wire \cup all_entries(entries'[n])
  PROVE  Advances(n, b)
<1>1. ClockAt(entries[n], <<b>>) \in Clock
  BY LeqTypes
<1>2. CASE p = <<b>>
  <2>1. ClockAt(entries'[n], <<b>>) = increment(ClockAt(entries[n], <<b>>), n)
    BY <1>2 DEF LocalEdit
  <2>2. QED
    BY <1>1, <2>1, IncrementFacts DEF Advances, NoPhantomEditsOf
<1>3. CASE p # <<b>>
  <2>1. ClockAt(entries'[n], <<b>>) = ClockAt(entries[n], <<b>>)
    BY <1>3 DEF LocalEdit
  <2>2. QED
    BY <1>1, <2>1, LeqRefl DEF Advances, NoPhantomEditsOf
<1>4. QED
  BY <1>2, <1>3

\* A merge by n adopts counts that somebody else has vouched for.
LEMMA MergeAdvances ==
  ASSUME TypeOK, NEW n \in Node, NEW b \in BasePath, NoPhantomEditsOf(b),
         NEW e \in wire, Merge(n, e)
  PROVE  Advances(n, b)
<1>1. /\ e \in FileEntry
      /\ MergeStep(entries[n], entries'[n], e)
      /\ \A m \in Node \ {n} : entries'[m] = entries[m]
      /\ wire' = wire \cup all_entries(entries'[n])
  BY MergeIsStep
<1>2. ClockAt(entries[n], <<b>>) \in Clock
  BY LeqTypes
<1>3. ConflictPath(e) # <<b>>
  BY <1>1, ConflictPathFacts
<1>4. CASE e.path = <<b>>
  <2>1. ASSUME NEW m \in Node \ {n}
        PROVE  ClockAt(entries'[n], <<b>>)[m] <= OwnCount(m, <<b>>)
    <3>1. ClockAt(entries'[n], <<b>>)[m] \in {ClockAt(entries[n], <<b>>)[m], e.clock[m]}
      BY <1>1, <1>4 DEF MergeStep
    <3>2. QED
      BY <1>4, <3>1 DEF NoPhantomEditsOf
  <2>2. Leq(ClockAt(entries[n], <<b>>), ClockAt(entries'[n], <<b>>))
    BY <1>1, <1>4 DEF MergeStep
  <2>3. QED
    BY <1>1, <2>1, <2>2 DEF Advances
<1>5. CASE e.path # <<b>>
  <2>1. ClockAt(entries'[n], <<b>>) = ClockAt(entries[n], <<b>>)
    BY <1>1, <1>3, <1>5 DEF MergeStep
  <2>2. QED
    BY <1>1, <1>2, <2>1, LeqRefl DEF Advances, NoPhantomEditsOf
<1>6. QED
  BY <1>4, <1>5

\* Every step of the system is one of these.
LEMMA StepAdvances ==
  ASSUME TypeOK, NEW b \in BasePath, NoPhantomEditsOf(b), Next
  PROVE  \E n \in Node : Advances(n, b)
<1>1. ASSUME NEW n \in Node, NEW p \in Editable(n), Put(n, p)
      PROVE  Advances(n, b)
  BY <1>1, PutStep, EditAdvances
<1>2. ASSUME NEW n \in Node, NEW p \in Editable(n), Delete(n, p)
      PROVE  Advances(n, b)
  BY <1>2, DeleteStep, EditAdvances
<1>3. ASSUME NEW n \in Node, NEW e \in wire, Merge(n, e)
      PROVE  Advances(n, b)
  BY <1>3, MergeAdvances
<1>4. QED
  BY <1>1, <1>2, <1>3 DEF Next

IInv == TypeOK /\ NoPhantomEdits

LEMMA IInvInit == Init => IInv
<1>1. SUFFICES ASSUME Init PROVE IInv
  OBVIOUS
<1>2. ASSUME NEW n \in Node, NEW b \in BasePath
      PROVE  ClockAt(entries[n], <<b>>) = ZeroClock
  BY <1>1, EmptyStoreType DEF Init, ClockAt
<1>3. \A m \in Node : ZeroClock[m] <= ZeroClock[m]
  BY DEF ZeroClock
<1>4. NoPhantomEdits
  <2>1. wire = {}
    BY <1>1 DEF Init
  <2>2. ASSUME NEW b \in BasePath, NEW m \in Node, NEW n \in Node
        PROVE  ClockAt(entries[n], <<b>>)[m] <= OwnCount(m, <<b>>)
    BY <1>2, <1>3 DEF OwnCount
  <2>3. QED
    BY <2>1, <2>2 DEF NoPhantomEdits
<1>5. QED
  BY <1>1, <1>4, TypeOKInit DEF IInv

LEMMA IInvStep ==
  ASSUME IInv, [Next]_vars
  PROVE  IInv'
<1>1. TypeOK /\ TypeOK'
  BY TypeOKStep DEF IInv
<1>2. ASSUME NEW b \in BasePath
      PROVE  NoPhantomEditsOf(b)'
  <2>1. NoPhantomEditsOf(b)
    BY DEF IInv, NoPhantomEdits, NoPhantomEditsOf
  <2>2. CASE UNCHANGED vars
    BY <2>1, <2>2 DEF vars, NoPhantomEditsOf, OwnCount, ClockAt
  <2>3. CASE Next
    BY <1>1, <2>1, <2>3, StepAdvances, AdvancesKeepsCounts
  <2>4. QED
    BY <2>2, <2>3
<1>3. NoPhantomEdits'
  BY <1>2 DEF NoPhantomEdits, NoPhantomEditsOf
<1>4. QED
  BY <1>1, <1>3 DEF IInv

\* No node ever claims, for a user's file, an edit that its author has not made.
THEOREM NoPhantomEditsHolds == Spec => []NoPhantomEdits
<1>1. Init => IInv
  BY IInvInit
<1>2. IInv /\ [Next]_vars => IInv'
  BY IInvStep
<1>3. IInv => NoPhantomEdits
  BY DEF IInv
<1>4. QED
  BY <1>1, <1>2, <1>3, PTL DEF Spec

-----------------------------------------------------------------------------
(* Action properties.                                                       *)

\* No merge, in whatever order entries arrive, takes a user's file back to a
\* version with a smaller clock.
THEOREM NoRollbackHolds == Spec => NoRollback
<1>1. Init => IInv
  BY IInvInit
<1>2. IInv /\ [Next]_vars => IInv'
  BY IInvStep
<1>3. ASSUME IInv, [Next]_vars, NEW k \in Node, NEW b \in BasePath
      PROVE  Leq(ClockAt(entries[k], <<b>>), ClockAt(entries'[k], <<b>>))
  <2>1. TypeOK /\ NoPhantomEditsOf(b)
    BY <1>3 DEF IInv, NoPhantomEdits, NoPhantomEditsOf
  <2>2. ClockAt(entries[k], <<b>>) \in Clock
    BY <2>1, LeqTypes
  <2>3. CASE UNCHANGED vars
    BY <2>2, <2>3, LeqRefl DEF vars
  <2>4. CASE Next
    <3>1. PICK n \in Node : Advances(n, b)
      BY <2>1, <2>4, StepAdvances
    <3>2. CASE k = n
      BY <3>1, <3>2 DEF Advances
    <3>3. CASE k # n
      BY <2>2, <3>1, <3>3, LeqRefl DEF Advances
    <3>4. QED
      BY <3>2, <3>3
  <2>5. QED
    BY <1>3, <2>3, <2>4
<1>4. IInv /\ [Next]_vars =>
        [\A n \in Node, b \in BasePath :
           Leq(ClockAt(entries[n], <<b>>), ClockAt(entries'[n], <<b>>))]_vars
  BY <1>3
<1>5. QED
  BY <1>1, <1>2, <1>4, PTL DEF Spec, NoRollback

\* An edit by n at p changes no other path, and no other node edits.
LEMMA EditIsNews ==
  ASSUME IInv, NEW n \in Node, NEW p,
         LocalEdit(entries[n], entries'[n], n, p),
         edits' = [edits EXCEPT ![n] = @ + 1],
         NEW k \in Node, NEW b \in BasePath, EditOf(k, <<b>>)
  PROVE  Unseen(<<b>>, entries'[k][<<b>>].clock)
<1>1. TypeOK /\ NoPhantomEditsOf(b)
  BY DEF IInv, NoPhantomEdits, NoPhantomEditsOf
<1>2. k = n
  BY <1>1 DEF EditOf, TypeOK
<1>3. p = <<b>>
  BY <1>2 DEF EditOf, LocalEdit
<1>4. ClockAt(entries[n], <<b>>) \in Clock
  BY <1>1, LeqTypes
<1>5. entries'[k][<<b>>].clock = increment(ClockAt(entries[n], <<b>>), n)
  BY <1>2, <1>3 DEF LocalEdit, ClockAt
<1>6. entries'[k][<<b>>].clock[n] = OwnCount(n, <<b>>) + 1 /\ OwnCount(n, <<b>>) \in Nat
  BY <1>4, <1>5, IncrementFacts DEF OwnCount, Clock
<1>7. ASSUME NEW e \in wire, e.path = <<b>>
      PROVE  ~ Leq(entries'[k][<<b>>].clock, e.clock)
  <2>1. e.clock[n] <= OwnCount(n, <<b>>) /\ e.clock[n] \in Nat
    BY <1>1, <1>7 DEF NoPhantomEditsOf, TypeOK, FileEntry, Clock
  <2>2. QED
    BY <1>6, <2>1 DEF Leq
<1>8. ASSUME NEW m \in Node
      PROVE  ~ Leq(entries'[k][<<b>>].clock, ClockAt(entries[m], <<b>>))
  <2>1. ClockAt(entries[m], <<b>>)[n] <= OwnCount(n, <<b>>)
    BY <1>1 DEF NoPhantomEditsOf
  <2>2. ClockAt(entries[m], <<b>>)[n] \in Nat
    BY <1>1, LeqTypes DEF Clock
  <2>3. QED
    BY <1>6, <2>1, <2>2 DEF Leq
<1>9. QED
  BY <1>7, <1>8 DEF Unseen

\* A new edit of a user's file is covered by no version of it that exists
\* anywhere: merge_remote cannot discard it as known or outdated.
THEOREM FreshEditIsNewsHolds == Spec => FreshEditIsNews
<1>1. Init => IInv
  BY IInvInit
<1>2. IInv /\ [Next]_vars => IInv'
  BY IInvStep
<1>3. ASSUME IInv, Next, NEW k \in Node, NEW b \in BasePath, EditOf(k, <<b>>)
      PROVE  Unseen(<<b>>, entries'[k][<<b>>].clock)
  <2>1. TypeOK
    BY <1>3 DEF IInv
  <2>2. ASSUME NEW n \in Node, NEW p \in Editable(n), Put(n, p)
        PROVE  Unseen(<<b>>, entries'[k][<<b>>].clock)
    <3>1. LocalEdit(entries[n], entries'[n], n, p)
      BY <2>1, <2>2, PutStep
    <3>2. edits' = [edits EXCEPT ![n] = @ + 1]
      BY <2>2 DEF Put
    <3>3. QED
      BY <1>3, <3>1, <3>2, EditIsNews
  <2>3. ASSUME NEW n \in Node, NEW p \in Editable(n), Delete(n, p)
        PROVE  Unseen(<<b>>, entries'[k][<<b>>].clock)
    <3>1. LocalEdit(entries[n], entries'[n], n, p)
      BY <2>1, <2>3, DeleteStep
    <3>2. edits' = [edits EXCEPT ![n] = @ + 1]
      BY <2>3 DEF Delete
    <3>3. QED
      BY <1>3, <3>1, <3>2, EditIsNews
  <2>4. ASSUME NEW n \in Node, NEW e \in wire, Merge(n, e)
        PROVE  FALSE
    <3>1. edits' = edits /\ edits[k] \in Nat
      BY <2>1, <2>4 DEF Merge, TypeOK
    <3>2. QED
      BY <1>3, <3>1 DEF EditOf
  <2>5. QED
    BY <1>3, <2>2, <2>3, <2>4 DEF Next
<1>4. IInv /\ [Next]_vars =>
        [\A n \in Node, b \in BasePath :
           EditOf(n, <<b>>) => Unseen(<<b>>, entries'[n][<<b>>].clock)]_vars
  BY <1>3
<1>5. QED
  BY <1>1, <1>2, <1>4, PTL DEF Spec, FreshEditIsNews
=============================================================================
