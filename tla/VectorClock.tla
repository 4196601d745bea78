---------------------------- MODULE VectorClock ----------------------------
(***************************************************************************)
(* vector_clock.{hpp,cpp}: one counter per node.  The code keeps a          *)
(* std::map from node id to counter and VectorClock::get reads a missing    *)
(* key as 0, so a clock is a total function here and an absent key is a     *)
(* counter of 0: no operation of the class tells the two apart.             *)
(***************************************************************************)
EXTENDS Integers

CONSTANT Node                 \* node ids (the --id of the command line)

Clock == [Node -> Nat]

\* A default-constructed VectorClock.
ZeroClock == [n \in Node |-> 0]

ClockOrder == {"EQUAL", "BEFORE", "AFTER", "CONCURRENT"}

increment(c, node_id) == [c EXCEPT ![node_id] = @ + 1]

\* Mutant: counters are added up instead of maximised.
MergeMutant(c, other) == [n \in Node |-> c[n] + other[n]]

\* Component-wise maximum.
merge(c, other) ==
  [n \in Node |-> IF c[n] < other[n] THEN other[n] ELSE c[n]]

\* "a has some component strictly less than b": a_less and b_less.
SomeLess(a, b) == \E n \in Node : a[n] < b[n]

\* Mutant: "b has some component less than a" is taken for "a is after b".
CompareMutant(a, b) ==
  IF SomeLess(b, a) THEN "AFTER" ELSE IF SomeLess(a, b) THEN "BEFORE" ELSE "EQUAL"

compare(a, b) ==
  LET a_less == SomeLess(a, b)
      b_less == SomeLess(b, a)
  IN  CASE ~ a_less /\ ~ b_less -> "EQUAL"
        []   a_less /\ ~ b_less -> "BEFORE"
        [] ~ a_less /\   b_less -> "AFTER"
        []   a_less /\   b_less -> "CONCURRENT"

\* The causal order that compare decides: b has seen everything a has.
Leq(a, b) == \A n \in Node : a[n] <= b[n]
=============================================================================
