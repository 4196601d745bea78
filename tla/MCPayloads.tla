----------------------------- MODULE MCPayloads -----------------------------
(* Payloads over stores of one file with all details, and of two files.     *)
EXTENDS Payloads

CONSTANT MaxChunk             \* bytes of a chunk, at most: the bound of the model

MCNodeIds == <<"A", "B">>

File(dir, stem, ext, forks) == [dir |-> dir, stem |-> stem, ext |-> ext, forks |-> forks]

Forks == {<<>>, <<"A">>, <<"A", "B">>, <<"B", "A">>, <<"A", "B", "A">>}
OneDir == {File(<<>>, "notes", ext, f) : ext \in {<<>>, <<"txt">>, <<"md">>}, f \in Forks}
InDir == {File(<<"v1", Dot, "v2", Slash>>, "notes", ext, f) : ext \in {<<>>, <<"txt">>}, f \in Forks}
Unclean == {File(<<"new", sep>>, "notes", <<>>, <<>>) : sep \in {TAB, NL}}

Order == <<TAB, NL, Dot, Slash, "A", "B", "md", "new", "notes", "txt", "v1", "v2">>
Rank(t) == find(Order, t)

MCOrigins ==
  {<<o>> : o \in OneDir \cup InDir \cup Unclean} \cup
  {<<o, p>> : o, p \in OneDir} \cup {<<o, p>> : o, p \in InDir} \cup
  {<<o, p>> : o, p \in Unclean \cup {File(<<>>, "notes", <<>>, <<>>)}}

\* The stores in the order of their names; of equal names in any.
Sorted == {s \in MCOrigins : Len(s) = 2 => s[1] # s[2] /\ ~ SeqBefore(Name(s[2]), Name(s[1]), Rank)}

Digest(k) == <<k, 3 - k>>
Detail(deleted, clock, hashes) ==
  [deleted |-> deleted, size |-> 2 * Len(hashes), merkle_root |-> Digest(3), clock |-> clock,
   last_writer |-> <<"B">>, chunk_hashes |-> hashes]
MCDetails ==
  {Detail(FALSE, <<"A">> :> 2 @@ <<"B">> :> 5, <<Digest(1), Digest(2)>>),
   Detail(TRUE, <<"B">> :> 2, <<>>)}

MCHashLists == UNION {[1 .. k -> {Digest(0), Digest(2)}] : k \in 0 .. 3}
Datas == UNION {[1 .. k -> 0 .. 1] : k \in 1 .. MaxChunk}
MCChunkLists == UNION {[1 .. k -> [hash : {Digest(0), Digest(1)}, data : Datas]] : k \in 0 .. 2}
=============================================================================
