----------------------------- MODULE Induction ------------------------------
(***************************************************************************)
(* Induction over the natural numbers, stated about sets of numbers: what  *)
(* holds for every number is a set that contains 0 and, with each number,  *)
(* the next one.  Lists and sequences are reasoned about by their lengths  *)
(* and positions.                                                          *)
(***************************************************************************)
EXTENDS Integers, WellFoundedInduction, TLAPS

\* Every set of natural numbers that is not empty has a smallest element.
LEMMA Smallest ==
  ASSUME NEW T \in SUBSET Nat, T # {}
  PROVE  \E x \in T : \A y \in T : x <= y
<1> DEFINE R == OpToRel(<, Nat)
<1>1. IsWellFoundedOn(R, Nat)
  BY NatLessThanWellFounded, Zenon
<1>2. \A x, y \in Nat : x < y => <<x, y>> \in R
  BY DEF OpToRel
<1> HIDE DEF R
<1>3. PICK x \in T : \A y \in T : ~ (<<y, x>> \in R)
  BY <1>1, WFMin
<1>4. ASSUME NEW y \in T PROVE x <= y
  <2>1. x \in Nat /\ y \in Nat
    OBVIOUS
  <2>2. ~(y < x)
    BY <1>2, <1>3, <2>1
  <2> QED BY <2>1, <2>2
<1> QED BY <1>4

\* A set that contains 0 and, with each number, the next one contains all.
LEMMA Induct ==
  ASSUME NEW T \in SUBSET Nat, 0 \in T, \A n \in T : n + 1 \in T
  PROVE  T = Nat
<1> SUFFICES ASSUME NEW m \in Nat \ T PROVE FALSE
  OBVIOUS
<1>1. PICK x \in Nat \ T : \A y \in Nat \ T : x <= y
  BY Smallest
<1> QED BY <1>1, x - 1 \in Nat

\* The same between two bounds.
LEMMA InductBetween ==
  ASSUME NEW a \in Int, NEW b \in Int, NEW T, a \in T,
         \A n \in a..(b - 1) : n \in T => n + 1 \in T
  PROVE  a..b \subseteq T
<1> DEFINE U == {n \in Nat : a + n <= b => a + n \in T}
<1>1. 0 \in U
  OBVIOUS
<1>2. ASSUME NEW n \in U PROVE n + 1 \in U
  <2>1. CASE a + (n + 1) <= b
    <3>1. a + n \in a..(b - 1) /\ a + n \in T /\ (a + n) + 1 = a + (n + 1)
      BY <1>2, <2>1
    <3> QED BY <3>1
  <2>2. CASE ~(a + (n + 1) <= b)
    BY <1>2, <2>2
  <2> QED BY <2>1, <2>2
<1>3. U = Nat
  <2> HIDE DEF U
  <2>1. U \in SUBSET Nat
    BY DEF U
  <2> QED BY <1>1, <1>2, <2>1, Induct
<1> SUFFICES ASSUME NEW m \in a..b PROVE m \in T
  OBVIOUS
<1>4. m - a \in Nat /\ a + (m - a) = m /\ m <= b
  OBVIOUS
<1>5. m - a \in U
  BY <1>3, <1>4
<1> QED BY <1>4, <1>5

\* f is the function f[n \in Nat] == IF n = 0 THEN a ELSE G[n - 1][f[n - 1]].
Iterates(f, a, G) == f[0] = a /\ \A n \in Nat : f[n + 1] = G[n][f[n]]

\* What is defined by its first value and by how each value follows from the one
\* before exists.
LEMMA Recursion ==
  ASSUME NEW S, NEW a \in S, NEW G \in [Nat -> [S -> S]]
  PROVE  \E f \in [Nat -> S] : Iterates(f, a, G)
<1> DEFINE Begun(g, n) == g \in [0..n -> S] /\ g[0] = a /\ \A i \in 0..(n - 1) : g[i + 1] = G[i][g[i]]
<1>1. \A n \in Nat : \E g : Begun(g, n)
  <2> DEFINE T == {n \in Nat : \E g : Begun(g, n)}
  <2>1. 0 \in T
    <3>1. Begun([i \in 0..0 |-> a], 0)
      OBVIOUS
    <3> QED BY <3>1
  <2>2. ASSUME NEW n \in T PROVE n + 1 \in T
    <3>1. PICK g : Begun(g, n)
      OBVIOUS
    <3>2. PICK h : h = [i \in 0..(n + 1) |-> IF i = n + 1 THEN G[n][g[n]] ELSE g[i]]
      OBVIOUS
    <3>3. n \in Nat /\ n \in 0..n /\ g[n] \in S /\ G[n][g[n]] \in S
      BY <3>1
    <3>4. h \in [0..(n + 1) -> S]
      BY <3>1, <3>2, <3>3
    <3>5. \A i \in 0..n : h[i] = g[i]
      BY <3>2, <3>3
    <3>6. h[n + 1] = G[n][g[n]]
      BY <3>2, <3>3
    <3>7. \A i \in 0..((n + 1) - 1) : h[i + 1] = G[i][h[i]]
      <4> TAKE i \in 0..((n + 1) - 1)
      <4>1. CASE i = n
        BY <3>3, <3>5, <3>6, <4>1
      <4>2. CASE i # n
        <5>1. i \in 0..(n - 1) /\ i + 1 \in 0..n /\ i \in 0..n
          BY <3>3, <4>2
        <5> QED BY <3>1, <3>5, <5>1
      <4> QED BY <4>1, <4>2
    <3>8. h[0] = a
      BY <3>1, <3>3, <3>5
    <3>9. Begun(h, n + 1)
      BY <3>4, <3>7, <3>8
    <3> QED BY <3>3, <3>9
  <2> HIDE DEF Begun
  <2>3. T \in SUBSET Nat
    OBVIOUS
  <2> HIDE DEF T
  <2>4. T = Nat
    BY <2>1, <2>2, <2>3, Induct
  <2> QED BY <2>4 DEF T
<1>2. ASSUME NEW n \in Nat, NEW m \in Nat, n <= m, NEW g, NEW h, Begun(g, n), Begun(h, m)
      PROVE  g[n] = h[n]
  <2> DEFINE T == {i \in 0..n : g[i] = h[i]}
  <2>1. 0 \in T
    BY <1>2
  <2>2. \A i \in 0..(n - 1) : i \in T => i + 1 \in T
    BY <1>2
  <2> HIDE DEF T
  <2>3. 0..n \subseteq T
    BY <2>1, <2>2, InductBetween
  <2> QED BY <2>3 DEF T
<1> DEFINE First(n) == CHOOSE g : Begun(g, n)
           f == [n \in Nat |-> First(n)[n]]
<1>3. \A n \in Nat : Begun(First(n), n)
  <2> HIDE DEF Begun
  <2> QED BY <1>1
<1> HIDE DEF First
<1>4. f \in [Nat -> S]
  <2>1. ASSUME NEW n \in Nat PROVE First(n)[n] \in S
    <3>1. First(n) \in [0..n -> S] /\ n \in 0..n
      BY <1>3
    <3> QED BY <3>1
  <2> QED BY <2>1
<1>5. f[0] = a
  BY <1>3
<1>6. ASSUME NEW n \in Nat PROVE f[n + 1] = G[n][f[n]]
  <2>1. PICK g : Begun(g, n) /\ g = First(n)
    BY <1>3
  <2>2. PICK h : Begun(h, n + 1) /\ h = First(n + 1)
    BY <1>3, n + 1 \in Nat
  <2>3. f[n] = g[n] /\ f[n + 1] = h[n + 1]
    BY <2>1, <2>2
  <2>4. g[n] = h[n]
    <3>1. n + 1 \in Nat /\ n <= n + 1
      OBVIOUS
    <3> HIDE DEF Begun
    <3> QED BY <1>2, <2>1, <2>2, <3>1
  <2>5. h[n + 1] = G[n][h[n]]
    <3>1. n \in 0..((n + 1) - 1)
      OBVIOUS
    <3> QED BY <2>2, <3>1
  <2> QED BY <2>3, <2>4, <2>5
<1> HIDE DEF f
<1> QED BY <1>4, <1>5, <1>6 DEF Iterates
=============================================================================
