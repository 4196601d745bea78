----------------------------- MODULE MerkleTree -----------------------------
(***************************************************************************)
(* merkle_tree.{hpp,cpp}: the tree over the chunk hashes of a file, and     *)
(* diff_leaf_indices as it walks down two such trees.  A node of a tree is  *)
(* the interval [lo, hi) of the leaves below it.                            *)
(***************************************************************************)
EXTENDS Integers, FiniteSets, SequencesExt

CONSTANT combine(_, _)        \* sha256::combine

VARIABLES a, b,               \* the chunk hashes of the two trees
          stack,              \* calls of collect_diffs still to be made, next last
          out,                \* the leaf indices reported so far
          visited             \* history: calls of collect_diffs made

-----------------------------------------------------------------------------
(* Building a tree.                                                         *)

Node(lo, hi) == [lo |-> lo, hi |-> hi]
is_leaf(nd) == nd.hi - nd.lo = 1
Mid(nd) == nd.lo + (nd.hi - nd.lo) \div 2
left(nd) == Node(nd.lo, Mid(nd))

right(nd) == Node(Mid(nd), nd.hi)

\* The nodes a tree over chunks may have.
Nodes(chunks) ==
  {nd \in [lo : 0 .. Len(chunks), hi : 0 .. Len(chunks)] : nd.lo < nd.hi}

\* build_recursive: the digest of every node of the tree over chunks.
build(chunks) ==
  LET digest[nd \in Nodes(chunks)] ==
        IF is_leaf(nd) THEN chunks[nd.lo + 1]
        ELSE combine(digest[left(nd)], digest[right(nd)])
  IN digest

Root(chunks) == Node(0, Len(chunks))

-----------------------------------------------------------------------------
(* diff_leaf_indices(a, b).                                                 *)

\* The first call of collect_diffs, if there is one.
Calls(x, y) ==
  IF x = <<>> \/ y = <<>> \/ Len(x) # Len(y) THEN <<>> ELSE <<[a |-> Root(x), b |-> Root(y)]>>

\* The pair of nodes the next call of collect_diffs compares.
Top == Last(stack)

SameHash == build(a)[Top.a] = build(b)[Top.b]

\* Identical subtrees: nothing changed beneath them.
Skip ==
  /\ stack # <<>>
  /\ SameHash
  /\ stack' = Front(stack)
  /\ visited' = visited + 1
  /\ UNCHANGED <<a, b, out>>

\* A leaf differs, or only one of the two nodes is a leaf.
Report ==
  /\ stack # <<>>
  /\ ~ SameHash
  /\ is_leaf(Top.a) \/ is_leaf(Top.b)
  /\ out' = Append(out, IF is_leaf(Top.a) THEN Top.a.lo ELSE Top.b.lo)
  /\ stack' = Front(stack)
  /\ visited' = visited + 1
  /\ UNCHANGED <<a, b>>

\* Both nodes have children: two more calls, the second one made first.
Push(second, first) ==
  /\ ~ is_leaf(Top.a) /\ ~ is_leaf(Top.b)
  /\ stack' = Front(stack) \o <<second, first>>
  /\ visited' = visited + 1
  /\ UNCHANGED <<a, b, out>>

Lefts == [a |-> left(Top.a), b |-> left(Top.b)]
Rights == [a |-> right(Top.a), b |-> right(Top.b)]

\* Mutant: the right halves are visited before the left ones.
DescendMutant == stack # <<>> /\ ~ SameHash /\ Push(Lefts, Rights)

\* Mutant: nodes without a changed leaf are walked through as well.
DescendAllMutant == stack # <<>> /\ Push(Rights, Lefts)

\* The left halves are compared first.
Descend == stack # <<>> /\ ~ SameHash /\ Push(Rights, Lefts)

-----------------------------------------------------------------------------
(* Properties.                                                              *)

\* The leaves at which the files differ, counted from 0.
Changed == {k \in 0 .. Len(a) - 1 : a[k + 1] # b[k + 1]}

\* Among trees of the same size, the walk finds exactly the leaves that differ,
\* in file order, although it looks below no node with equal hashes
\* (collect_diffs).
DiffExact ==
  stack = <<>> /\ Len(a) = Len(b) =>
    /\ Range(out) = Changed
    /\ \A k, l \in DOMAIN out : k < l => out[k] < out[l]

\* The roots are the same.
SameRoot == build(a)[Root(a)] = build(b)[Root(b)]

\* How often size can be halved, rounding up.
Height(size) ==
  LET h[m \in 0 .. size] == IF m <= 1 THEN 0 ELSE 1 + h[m - m \div 2]
  IN h[size]

\* "Walking down only the subtrees whose hashes differ" (merkle_tree.hpp): the
\* walk makes no more calls of collect_diffs than one for the root and two for
\* every node on the way to a changed leaf.
WalkIsSparse ==
  Len(a) = Len(b) => visited <= 1 + 2 * Cardinality(Changed) * Height(Len(a))
=============================================================================
