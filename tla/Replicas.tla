------------------------------ MODULE Replicas ------------------------------
(***************************************************************************)
(* Nodes that edit their CrdtStore and merge each other's entries, one      *)
(* merge_remote at a time.  wire holds every entry a node has ever had: any *)
(* of them may be in a manifest, which may be merged late, repeatedly, in   *)
(* any order, or never.  This is the setting in which crdt_store.hpp        *)
(* promises convergence; the sessions that carry manifests are in SyncNode. *)
(***************************************************************************)
EXTENDS CrdtStore

CONSTANTS MaxEdits,           \* edits a node may make: the bound of the model
          EditCopies,         \* may users edit conflict copies too?
          Content(_, _)       \* Content(n, k): the chunk the user of n puts
                              \* into a file at the k-th edit

ASSUME MaxEditsAssumption == MaxEdits \in Nat
ASSUME EditCopiesAssumption == EditCopies \in BOOLEAN

\* Contents are pairwise different, so that a lost one can be told.
ASSUME ContentAssumption ==
  \A n, m \in Node : \A i, j \in 1 .. MaxEdits :
    /\ Content(n, i) \in Chunk
    /\ Content(n, i) = Content(m, j) => n = m /\ i = j

VARIABLES entries,            \* entries[n] is the entries_ of node n
          wire,               \* every entry some node has ever had
          edits,              \* edits[n]: local edits node n has made
          written,            \* history: the contents users put into the system
          superseded          \* history: the contents a user replaced or removed

vars == <<entries, wire, edits, written, superseded>>

TypeOK ==
  /\ entries = [n \in Node |-> entries[n]]
  /\ \A n \in Node : IsStore(entries[n])
  /\ \A e \in wire : e \in FileEntry
  /\ edits \in [Node -> 0 .. MaxEdits]
  /\ \A c \in written \cup superseded : c \in Seq(Chunk)

Init ==
  /\ entries = [n \in Node |-> EmptyStore]
  /\ wire = {}
  /\ edits = [n \in Node |-> 0]
  /\ written = {}
  /\ superseded = {}

Editable(n) ==
  {<<b>> : b \in BasePath} \cup (IF EditCopies THEN DOMAIN entries[n] ELSE {})

\* What the user of n sees at p, and so replaces or removes by editing p.
InPlace(n, p) == IF p \in DOMAIN entries[n] THEN {entries[n][p].chunk_hashes} ELSE {}

\* The store of n becomes es; its entries go out with the next manifest.
Update(n, es) ==
  /\ entries' = [entries EXCEPT ![n] = es]
  /\ wire' = wire \cup all_entries(es)

Put(n, p) ==
  LET chunks == <<Content(n, edits[n] + 1)>> IN
  /\ edits[n] < MaxEdits
  /\ Update(n, put_local(entries[n], n, p, chunks))
  /\ edits' = [edits EXCEPT ![n] = @ + 1]
  /\ written' = written \cup {chunks}
  /\ superseded' = superseded \cup InPlace(n, p)

Delete(n, p) ==
  /\ edits[n] < MaxEdits
  /\ Update(n, delete_local(entries[n], n, p))
  /\ edits' = [edits EXCEPT ![n] = @ + 1]
  /\ superseded' = superseded \cup InPlace(n, p)
  /\ UNCHANGED written

Merge(n, e) ==
  /\ Update(n, merge_remote(entries[n], e))
  /\ UNCHANGED <<edits, written, superseded>>

Next ==
  \E n \in Node :
    \/ \E p \in Editable(n) : Put(n, p) \/ Delete(n, p)
    \/ \E e \in wire : Merge(n, e)

Spec == Init /\ [][Next]_vars

\* Every node keeps syncing, and so merges what it has not merged yet.
Fairness == \A n \in Node : WF_vars(\E e \in wire : Merge(n, e))

FairSpec == Spec /\ Fairness

-----------------------------------------------------------------------------
(* Properties.                                                              *)

\* m's own count of its edits of p.
OwnCount(m, p) == ClockAt(entries[m], p)[m]

\* Nobody claims to have seen more edits by m of a user's file than m has made
\* (put_local and delete_local increment only the editing node's counter, and
\* merge only copies counters): this is what makes BEFORE and AFTER of
\* VectorClock::compare mean "has seen".
NoPhantomEdits ==
  \A b \in BasePath, m \in Node :
    /\ \A n \in Node : ClockAt(entries[n], <<b>>)[m] <= OwnCount(m, <<b>>)
    /\ \A e \in wire : e.path = <<b>> => e.clock[m] <= OwnCount(m, <<b>>)

\* No merge takes a user's file back to an older version: what a node has seen
\* of it only grows, in whatever order entries arrive (merge_remote).
NoRollback ==
  [][\A n \in Node, b \in BasePath :
        Leq(ClockAt(entries[n], <<b>>), ClockAt(entries'[n], <<b>>))]_vars

\* Step: node n edits p.
EditOf(n, p) ==
  /\ edits'[n] = edits[n] + 1
  /\ p \in DOMAIN entries'[n]
  /\ p \in DOMAIN entries[n] => entries'[n][p] # entries[n][p]

\* No version that exists anywhere, or is under way, covers this clock of p.
Unseen(p, c) ==
  /\ \A e \in wire : e.path = p => ~ Leq(c, e.clock)
  /\ \A n \in Node : ~ Leq(c, ClockAt(entries[n], p))

\* A new edit of a user's file is news to everybody: no other version of the
\* file compares EQUAL to it or AFTER it, so that merge_remote can neither take
\* it for already known nor discard it as outdated.
FreshEditIsNews ==
  [][\A n \in Node, b \in BasePath :
        EditOf(n, <<b>>) => Unseen(<<b>>, entries'[n][<<b>>].clock)]_vars

\* n holds content c, at whatever path.
Holds(n, c) == \E p \in DOMAIN entries[n] : entries[n][p].chunk_hashes = c

\* "No data is ever silently lost": a content no user replaced or removed is
\* still in the store of some node.
NoSilentLoss == \A c \in written \ superseded : \E n \in Node : Holds(n, c)

\* n learns nothing from a further manifest of m.
UpToDate(n, m) ==
  \A e \in all_entries(entries[m]) : OutcomeOf(entries[n], e) \in {"NO_CHANGE", "KEPT_LOCAL"}

Quiescent == \A n, m \in Node : UpToDate(n, m)

\* Once the nodes have nothing left to tell each other, each of them holds every
\* content that is still current, in place or as a conflict copy.
QuiescentHoldAll ==
  Quiescent => \A c \in written \ superseded : \A n \in Node : Holds(n, c)

\* "Any two replicas that have observed the same set of updates converge to
\* identical state regardless of merge order" (README, crdt_store.hpp).
Converged == Quiescent => \A n, m \in Node : entries[n] = entries[m]

\* Syncing comes to an end: when the users stop editing, no merge forks or
\* replaces an entry forever.
SyncQuiesces == <>[]Quiescent
=============================================================================
