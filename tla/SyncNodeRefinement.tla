------------------------ MODULE SyncNodeRefinement ------------------------
(***************************************************************************)
(* SyncNode with one process per node implements AtomicSync.  A store is    *)
(* replaced when save_journal begins: the journal that is being written is  *)
(* the memory of the process that writes it.                                *)
(***************************************************************************)
EXTENDS SyncNode, ManifestMerge

\* The process of n that is in one of the states.
At(n, states) == {pr \in Proc : Home(pr) = n /\ proc[pr].pc \in states}

StoreOf(n) ==
  IF At(n, {"writing"}) = {} THEN journal[n]
  ELSE proc[CHOOSE pr \in At(n, {"writing"}) : TRUE].mem

\* A session between its merge and its save, and before its save.
Later   == {"recvRequest", "recvData", "fetching", "materializing", "saving"}
Unsaved == Later \cup {"sendManifest", "recvManifest", "merging"}

\* The manifest the peer of pr is about to send.
Coming(pr) ==
  {all_entries(proc[q].mem) : q \in {s \in Proc : /\ link[pr] = s /\ link[s] = pr
                                                 /\ proc[s].pc = "sendManifest"}}

\* The manifests that pr has still to merge: the one it is merging, the one
\* under way, or the one its peer is about to send; none if it is lost.
Manifests(pr) ==
  IF proc[pr].pc \in Later THEN {{}}
  ELSE IF proc[pr].pc = "merging" THEN {proc[pr].todo}
  ELSE IF chan[pr] # <<>> THEN {Head(chan[pr]).entries}
  ELSE Coming(pr)

\* {what the session of n will install}, or {} when there is none.
PendingOf(n) ==
  UNION {UNION {MergeAll(proc[pr].mem, es, Before) : es \in Manifests(pr)}
         : pr \in {q \in At(n, Unsaved) : link[q] # NoPeer}}

AS == INSTANCE AtomicSync WITH
        store   <- [n \in Node |-> StoreOf(n)],
        pending <- [n \in Node |-> PendingOf(n)]

\* Whatever the interleaving of the two sides and wherever a process is killed
\* outside the save, a session is atomic on each side: a node's store changes
\* only by a user's edit, or from its snapshot to the merge of its snapshot
\* with the peer's, taken when they connected (run_sync_session).
SessionsAtomic == AS!Spec
=============================================================================
