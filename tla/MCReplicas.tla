----------------------------- MODULE MCReplicas -----------------------------
(* Finite instances of Replicas.  The chunk that the user of n writes at    *)
(* edit k is the pair <<n, k>>; nodes are interchangeable.                  *)
EXTENDS Replicas, TLC

MCContent(n, k) == <<n, k>>
MCChunk == Node \X (1 .. MaxEdits)

NodeSymmetry == Permutations(Node)
=============================================================================
