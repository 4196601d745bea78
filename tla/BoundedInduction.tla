--------------------------- MODULE BoundedInduction ---------------------------
(***************************************************************************)
(* Induction up to a bound, for sets of numbers instead of predicates, and  *)
(* functions defined by recursion up to a bound.                            *)
(***************************************************************************)
EXTENDS Integers, WellFoundedInduction, TLAPS

\* Every set of naturals that is not empty has a least element.
LEMMA LeastNatural ==
  ASSUME NEW S, S \subseteq Nat, S # {}
  PROVE  \E x \in S : \A y \in S : x <= y
<1>1. DEFINE R == {ss \in Nat \X Nat : ss[1] < ss[2]}
<1>2. R = OpToRel(<, Nat)
  BY DEF OpToRel
<1>3. IsWellFoundedOn(R, Nat)
  BY <1>2, NatLessThanWellFounded
<1>4. PICK x \in S : \A y \in S : ~ (<<y, x>> \in R)
  BY <1>3, WFMin
<1>5. ASSUME NEW y \in S
      PROVE  x <= y
  <2>1. x \in Nat /\ y \in Nat
    OBVIOUS
  <2>2. ~ (y < x)
    BY <1>4, <2>1
  <2>3. QED
    BY <2>1, <2>2
<1>6. QED
  BY <1>5

\* So what holds at 0 and goes on to the next number holds up to any bound.
LEMMA UpToBound ==
  ASSUME NEW S, NEW b \in Nat, 0 \in S, \A k \in 1 .. b : k - 1 \in S => k \in S
  PROVE  \A k \in 0 .. b : k \in S
<1>1. SUFFICES ASSUME NEW z \in 0 .. b, z \notin S
               PROVE  FALSE
  OBVIOUS
<1>2. DEFINE Missing == {k \in 0 .. b : k \notin S}
<1>3. Missing \subseteq Nat /\ Missing # {}
  BY <1>1
<1>4. PICK x \in Missing : \A y \in Missing : x <= y
  BY <1>3, LeastNatural
<1>5. x \in 1 .. b /\ x \notin S
  BY <1>4
<1>6. x - 1 \notin Missing
  BY <1>4, <1>5
<1>7. x - 1 \in S
  BY <1>5, <1>6
<1>8. QED
  BY <1>5, <1>7

\* The sums of the first numbers of g exist as a function.
LEMMA SumsExist ==
  ASSUME NEW b \in Nat, NEW g, \A k \in 1 .. b : g[k] \in Nat
  PROVE  \E f \in [0 .. b -> Nat] : f[0] = 0 /\ \A k \in 1 .. b : f[k] = f[k - 1] + g[k]
<1>1. DEFINE Sums(f, c) == f[0] = 0 /\ \A k \in 1 .. c : f[k] = f[k - 1] + g[k]
             S == {c \in 0 .. b : \E f \in [0 .. c -> Nat] : Sums(f, c)}
<1>2. 0 \in S
  <2>1. DEFINE f == [k \in 0 .. 0 |-> 0]
  <2>2. f \in [0 .. 0 -> Nat] /\ Sums(f, 0)
    OBVIOUS
  <2>3. HIDE DEF f, Sums
  <2>4. QED
    BY <2>2
<1>3. ASSUME NEW c \in 1 .. b, c - 1 \in S
      PROVE  c \in S
  <2>1. PICK f \in [0 .. c - 1 -> Nat] : Sums(f, c - 1)
    BY <1>3
  <2>2. DEFINE h == [k \in 0 .. c |-> IF k = c THEN f[c - 1] + g[c] ELSE f[k]]
  <2>3. f[c - 1] \in Nat /\ g[c] \in Nat /\ f[c - 1] + g[c] \in Nat
    OBVIOUS
  <2>4. h \in [0 .. c -> Nat]
    BY <2>3
  <2>5. h[c] = f[c - 1] + g[c] /\ \A k \in 0 .. c - 1 : h[k] = f[k]
    OBVIOUS
  <2>6. HIDE DEF h
  <2>7. Sums(h, c)
    <3>1. h[0] = 0
      BY <2>1, <2>5
    <3>2. ASSUME NEW k \in 1 .. c
          PROVE  h[k] = h[k - 1] + g[k]
      <4>1. CASE k = c
        BY <2>5, <4>1
      <4>2. CASE k # c
        <5>1. k \in 1 .. c - 1 /\ k \in 0 .. c - 1 /\ k - 1 \in 0 .. c - 1
          BY <4>2
        <5>2. QED
          BY <2>1, <2>5, <5>1
      <4>3. QED
        BY <4>1, <4>2
    <3>3. QED
      BY <3>1, <3>2
  <2>8. HIDE DEF Sums
  <2>9. QED
    BY <2>4, <2>7
<1>4. b \in S
  <2>1. HIDE DEF S
  <2>2. b \in 0 .. b
    OBVIOUS
  <2>3. QED
    BY <1>2, <1>3, <2>2, UpToBound
<1>5. QED
  BY <1>4
=============================================================================
