----------------------------- MODULE AtomicSync -----------------------------
(***************************************************************************)
(* What commands and sessions promise, without processes, frames or disks:  *)
(* a node has one store; an edit is one step; a session takes a snapshot of *)
(* the stores of both sides, and each side either installs the merge of the *)
(* two snapshots, whole and once, or keeps its store as it was ("two peers  *)
(* exchange their full CRDT manifests, merge remote entries locally",       *)
(* says the README of the network layer).                                   *)
(***************************************************************************)
EXTENDS ManifestMerge

CONSTANTS UserPath,           \* the paths users name on the command line
          FileContent,        \* the files they add, as lists of chunk hashes
          Before(_, _)        \* std::string's < on the names of two paths

VARIABLES store,              \* store[n]: what n has recorded
          pending             \* pending[n]: {}, or {what n's session will install}

Init == store = [n \in Node |-> EmptyStore] /\ pending = [n \in Node |-> {}]

\* The add and rm commands.
Edit(n) ==
  /\ pending[n] = {}
  /\ \E p \in UserPath :
       \/ \E f \in FileContent : store' = [store EXCEPT ![n] = put_local(@, n, p, f)]
       \/ store' = [store EXCEPT ![n] = delete_local(@, n, p)]
  /\ UNCHANGED pending

\* Two nodes connect.
Meet(n, m) ==
  /\ pending[n] = {} /\ pending[m] = {}
  /\ pending' = [pending EXCEPT ![n] = MergeAll(store[n], all_entries(store[m]), Before),
                                ![m] = MergeAll(store[m], all_entries(store[n]), Before)]
  /\ UNCHANGED store

Install(n) ==
  /\ pending[n] # {}
  /\ store' = [store EXCEPT ![n] = CHOOSE es \in pending[n] : TRUE]
  /\ pending' = [pending EXCEPT ![n] = {}]

\* The sessions of ns fail.
Abandon(ns) ==
  /\ pending' = [n \in Node |-> IF n \in ns THEN {} ELSE pending[n]]
  /\ UNCHANGED store

Next ==
  \/ \E n \in Node : Edit(n) \/ Install(n)
  \/ \E n \in Node : \E m \in Node \ {n} : Meet(n, m)
  \/ \E ns \in SUBSET Node : Abandon(ns)

Spec == Init /\ [][Next]_<<store, pending>>
=============================================================================
