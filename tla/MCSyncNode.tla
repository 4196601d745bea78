----------------------------- MODULE MCSyncNode -----------------------------
(* Finite instances of SyncNode.  Process <<n, i>> is the i-th invocation   *)
(* that runs on node n at the same time.  File names have an extension      *)
(* ("notes.txt") or not ("notes"): this decides where conflict copies are   *)
(* in the order of a manifest.  Users know one base name.                   *)
EXTENDS SyncNodeRefinement, PathNames, TLC

CONSTANTS CutName,            \* a part of a file name
          Shared,             \* the node that may run two processes at once
          HasExtension        \* do file names have an extension?

OnePerNode == {<<n, 1>> : n \in Node \ {NoId}}
TwoOnShared == OnePerNode \cup {<<Shared, 2>>}
MCHomeOf == [pr \in Proc |-> pr[1]]

NodeRank ==
  CHOOSE f \in [Node -> 1 .. Cardinality(Node)] : \A n, m \in Node : f[n] = f[m] => n = m

\* "conflict-<node>" comes before the extension "txt", and "no" before "notes".
Rank(t) ==
  IF t = CutName THEN 0 ELSE IF t \in Node THEN NodeRank[t] ELSE Cardinality(Node) + 1

MCWords(p) == Words(Head(p), Tail(p), IF HasExtension THEN <<"txt">> ELSE <<>>)
MCBefore(p, q) == SeqBefore(MCWords(p), MCWords(q), Rank)

UserFiles == {<<b>> : b \in BasePath \ {CutName}}

MCIdBefore(n, m) == NodeRank[n] < NodeRank[m]

\* A name cut short is one nobody chose, or that of another file, where no
\* extension follows what forks inserted.
MCCutTo(p) ==
  {<<CutName>>} \cup
  {q \in {<<Head(p)>> \o s : s \in BoundedSeq(Node, 1)} : IsStrictPrefix(MCWords(q), MCWords(p))}

OneFile == {<<"c1">>}
TwoChunks == {<<"c1", "c2">>}
UpToTwoChunks == {<<>>, <<"c1">>, <<"c1", "c2">>}

NoCrash == {}
CrashAnywhere == ProcState \ {"idle"}
CrashAtWrites == {"adding", "fetching", "writing"}
CrashInSave == {"writing"}
CrashBeforeFiles == ProcState \ {"idle", "materializing", "saving", "writing"}

\* The bound of the run with kills in the save: nothing is killed while there is
\* an entry from a line that was cut, nor in a line while a chunk file is short.
IsFragment(e) == e.last_writer = NoId \/ (~ e.deleted /\ e.chunk_hashes \notin FileContent)
Fragmented == \E n \in Node : \E e \in Known(n) : IsFragment(e)
HasTorn == \E n \in Node : Torn \in Range(blobs[n])
OneCut ==
  \A pr \in Proc :
    /\ Fragmented => ~ Killed(pr)
    /\ HasTorn => ~ \E e \in proc[pr].todo : CrashInLine(pr, e)
=============================================================================
