----------------------------- MODULE PathNames -----------------------------
(***************************************************************************)
(* The names of files as make_conflict_path (crdt_store.cpp) sees them: a   *)
(* sequence of tokens, each a dot, a slash, a word, or a node n, which      *)
(* stands for the word "conflict-n".  CrdtStore writes <<b, n1, ..., nk>>   *)
(* for the name that k forks give to the file b of a user.                  *)
(***************************************************************************)
EXTENDS Naturals, SequencesExt

Dot == "."
Slash == "/"

find_last_of(name, token) == SelectLastInSeq(name, LAMBDA t : t = token)

Insert(name, at, tokens) == SubSeq(name, 1, at - 1) \o tokens \o SubSeq(name, at, Len(name))

\* Mutant: the extension is replaced, not kept.
ForgetExtensionMutant(name, n) ==
  LET dot == find_last_of(name, Dot) IN
  (IF dot = 0 THEN name ELSE SubSeq(name, 1, dot - 1)) \o <<Dot, n>>

\* Mutant: the first dot is taken for the one of the extension.
FirstDotMutant(name, n) ==
  LET dot == SelectInSeq(name, LAMBDA t : t = Dot) IN
  Insert(name, IF dot = 0 THEN Len(name) + 1 ELSE dot, <<Dot, n>>)

\* make_conflict_path: before the last dot, or at the end.
conflict_name(name, n) ==
  LET dot == find_last_of(name, Dot) IN
  Insert(name, IF dot = 0 THEN Len(name) + 1 ELSE dot, <<Dot, n>>)

\* The words of a name between its dots, when forks were inserted one after the
\* other into stem.extension; without an extension the first one takes its place.
Words(stem, forks, extension) ==
  IF extension # <<>> \/ forks = <<>> THEN <<stem>> \o forks \o extension
  ELSE <<stem>> \o Tail(forks) \o <<Head(forks)>>

\* operator< of std::string on two sequences of words, ordered by rank.
SeqBefore(s, t, rank(_)) ==
  LET diff == {k \in DOMAIN s \cap DOMAIN t : s[k] # t[k]} IN
  IF diff = {} THEN Len(s) < Len(t)
  ELSE \E k \in diff : (\A l \in diff : k <= l) /\ rank(s[k]) < rank(t[k])
=============================================================================
