---------------------------- MODULE DataInduction ----------------------------
(***************************************************************************)
(* Induction and recursion over the naturals in first-order form, for the  *)
(* recursive functions the models are built from: what is proved by        *)
(* induction is membership in a set, and a recursive definition is given   *)
(* by a function of the step and the value so far.                         *)
(***************************************************************************)
EXTENDS Naturals, WellFoundedInduction, TLAPS

\* A set of naturals that is not empty has a least element.
LEMMA LeastNatural ==
    ASSUME NEW T, T \subseteq Nat, T # {}
    PROVE  \E x \in T : \A y \in T : x <= y
<1> DEFINE R == OpToRel(<, Nat)
<1>1. IsWellFoundedOn(R, Nat)
  BY NatLessThanWellFounded
<1>2. \A a, b \in Nat : a < b => <<a, b>> \in R
  BY DEF OpToRel
<1> HIDE DEF R
<1>3. PICK x \in T : \A y \in T : ~ (<<y, x>> \in R)
  BY <1>1, WFMin, Zenon
<1>4. ASSUME NEW y \in T PROVE x <= y
  <2>1. x \in Nat /\ y \in Nat
    OBVIOUS
  <2>2. ~ (y < x)
    BY <1>2, <1>3, <2>1, Zenon
  <2> QED BY <2>1, <2>2
<1> QED BY <1>4

\* Course-of-values induction up to a bound: a set that holds k whenever it
\* holds everything below k holds all of 0..n.
LEMMA SetInduction ==
    ASSUME NEW n \in Nat, NEW T,
           \A k \in 0..n : (\A j \in 0..(k - 1) : j \in T) => k \in T
    PROVE  0..n \subseteq T
<1> DEFINE B == {k \in 0..n : k \notin T}
<1>1. CASE B = {}
  BY <1>1
<1>2. CASE B # {}
  <2>1. B \subseteq Nat
    OBVIOUS
  <2>2. PICK x \in B : \A y \in B : x <= y
    <3> HIDE DEF B
    <3> QED BY <1>2, <2>1, LeastNatural, Zenon
  <2>3. x \in 0..n /\ x \notin T
    OBVIOUS
  <2>4. ASSUME NEW j \in 0..(x - 1) PROVE j \in T
    <3>1. j \in 0..n /\ ~ (x <= j)
      BY <2>3
    <3> QED BY <3>1, <2>2
  <2> QED BY <2>3, <2>4
<1> QED BY <1>1, <1>2

\* The same one step at a time.
LEMMA StepInduction ==
    ASSUME NEW n \in Nat, NEW T, 0 \in T,
           \A k \in 1..n : k - 1 \in T => k \in T
    PROVE  0..n \subseteq T
<1>1. ASSUME NEW k \in 0..n, \A j \in 0..(k - 1) : j \in T
      PROVE  k \in T
  <2>1. CASE k = 0
    BY <2>1
  <2>2. CASE k # 0
    <3>1. k \in 1..n /\ k - 1 \in 0..(k - 1)
      BY <2>2
    <3> QED BY <3>1, <1>1
  <2> QED BY <2>1, <2>2
<1> QED BY <1>1, SetInduction, Zenon

\* f is the function on 0..n whose value at 0 is a and that goes from the
\* value at k - 1 to the value at k by step.
IsRecursive(f, n, V, a, step) ==
    /\ f \in [0..n -> V]
    /\ f[0] = a
    /\ \A k \in 1..n : f[k] = step[<<k, f[k - 1]>>]

\* A function defined by recursion on 0..n, from its value at 0 and a step,
\* exists.
LEMMA RecursionExists ==
    ASSUME NEW n \in Nat, NEW V, NEW a \in V, NEW step \in [(1..n) \X V -> V]
    PROVE  \E f : IsRecursive(f, n, V, a, step)
<1> DEFINE Solved(f, m) == /\ f[0] = a
                           /\ \A k \in 1..m : f[k] = step[<<k, f[k - 1]>>]
           T == {m \in 0..n : \E f \in [0..m -> V] : Solved(f, m)}
<1>1. 0 \in T
  <2>1. [k \in 0..0 |-> a] \in [0..0 -> V] /\ Solved([k \in 0..0 |-> a], 0)
    OBVIOUS
  <2>2. \E f \in [0..0 -> V] : Solved(f, 0)
    BY ONLY <2>1
  <2> QED BY <2>2
<1>2. ASSUME NEW m \in 1..n, m - 1 \in T PROVE m \in T
  <2>1. PICK f \in [0..(m - 1) -> V] : Solved(f, m - 1)
    BY <1>2
  <2> DEFINE g == [k \in 0..m |-> IF k < m THEN f[k] ELSE step[<<m, f[m - 1]>>]]
  <2>2. f[m - 1] \in V /\ step[<<m, f[m - 1]>>] \in V
    OBVIOUS
  <2>3. g \in [0..m -> V]
    BY <2>2
  <2>4. \A k \in 0..(m - 1) : g[k] = f[k]
    OBVIOUS
  <2>5. g[m] = step[<<m, f[m - 1]>>]
    OBVIOUS
  <2> HIDE DEF g
  <2>6. g[0] = a
    BY <2>1, <2>4
  <2>7. ASSUME NEW k \in 1..m PROVE g[k] = step[<<k, g[k - 1]>>]
    <3>1. CASE k = m
      BY <3>1, <2>4, <2>5
    <3>2. CASE k # m
      <4>1. k \in 1..(m - 1) /\ k \in 0..(m - 1) /\ k - 1 \in 0..(m - 1)
        BY <3>2
      <4> QED BY <4>1, <2>1, <2>4
    <3> QED BY <3>1, <3>2
  <2>8. Solved(g, m)
    BY <2>6, <2>7
  <2>9. \E h \in [0..m -> V] : Solved(h, m)
    BY <2>3, <2>8
  <2> QED BY <2>9
<1>3. 0..n \subseteq T
  <2> HIDE DEF T
  <2> QED BY <1>1, <1>2, StepInduction, Zenon
<1>4. n \in T
  BY <1>3
<1>5. PICK f \in [0..n -> V] : Solved(f, n)
  BY <1>4
<1>6. IsRecursive(f, n, V, a, step)
  BY <1>5 DEF IsRecursive
<1> QED BY <1>6
==============================================================================
