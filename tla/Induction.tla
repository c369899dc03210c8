------------------------------ MODULE Induction ------------------------------
(***************************************************************************)
(* Induction on the naturals, and finite images, stated of sets so that       *)
(* first-order provers can use them: recursive definitions are unfolded with  *)
(* the one, the sets a report is made of are shown finite with the other.     *)
(***************************************************************************)
EXTENDS Integers, FiniteSets, FiniteSetTheorems, TLAPS

\* A set with zero that is closed under the successor has every natural number:
\* otherwise the predecessor would map the finite set of those up to n that it
\* lacks, n among them, one to one into that set without n.
LEMMA SetInduction ==
    ASSUME NEW S, 0 \in S, \A n \in Nat : n \in S => n + 1 \in S
    PROVE  Nat \subseteq S
<1> SUFFICES ASSUME NEW n \in Nat, n \notin S PROVE FALSE
  OBVIOUS
<1> DEFINE lacking == {m \in 0 .. n : m \notin S}
           pred == [m \in lacking |-> m - 1]
<1>1. IsFiniteSet(lacking)
  <2>1. IsFiniteSet(0 .. n)
    BY FS_Interval
  <2> QED
    BY <2>1, FS_Subset, lacking \in SUBSET (0 .. n)
<1>2. IsFiniteSet(lacking \ {n}) /\ Cardinality(lacking \ {n}) < Cardinality(lacking)
  <2>1. Cardinality(lacking) \in Nat
    BY <1>1, FS_CardinalityType
  <2>2. IsFiniteSet(lacking \ {n}) /\ Cardinality(lacking \ {n}) = Cardinality(lacking) - 1
    BY <1>1, n \in lacking, FS_RemoveElement
  <2> QED
    BY <2>1, <2>2
<1>3. ASSUME NEW m \in lacking PROVE m - 1 \in lacking \ {n}
  <2>1. m \in Nat /\ m # 0 /\ m <= n
    OBVIOUS
  <2>2. m - 1 \in Nat /\ (m - 1) + 1 = m
    BY <2>1
  <2>3. m - 1 \notin S
    BY <2>2
  <2> QED
    BY <2>1, <2>2, <2>3
<1>4. pred \in [lacking -> lacking \ {n}]
  BY <1>3
<1>5. \E x, y \in lacking : x # y /\ pred[x] = pred[y]
  <2> HIDE DEF lacking, pred
  <2> QED
    BY <1>1, <1>2, <1>4, FS_PigeonHole
<1> QED
  BY <1>5

\* The image of a finite set is finite.
LEMMA FiniteImage ==
    ASSUME NEW S, IsFiniteSet(S), NEW f
    PROVE  IsFiniteSet({f[x] : x \in S})
<1> DEFINE T == {f[x] : x \in S}
           g == [x \in S |-> f[x]]
<1>1. g \in Surjection(S, T)
  BY DEF Surjection
<1> HIDE DEF g, T
<1>2. IsFiniteSet(T)
  BY <1>1, FS_Surjection
<1> QED
  BY <1>2 DEF T

\* The function g is a at zero, and at k what the step F[k] makes of its value
\* at k - 1.
Recurs(g, T, a, F, n) ==
    g \in [0 .. n -> T] /\ g[0] = a /\ \A k \in 1 .. n : g[k] = F[k][g[k - 1]]

\* Every recursion over a type defines a function.
LEMMA Recursion ==
    ASSUME NEW T, NEW a \in T, NEW F \in [Nat -> [T -> T]], NEW n \in Nat
    PROVE  \E g : Recurs(g, T, a, F, n)
<1> DEFINE Is(m, g) == g[0] = a /\ \A k \in 1 .. m : g[k] = F[k][g[k - 1]]
           Defined == {m \in Nat : \E g \in [0 .. m -> T] : Is(m, g)}
<1>1. 0 \in Defined
  <2> DEFINE g == [k \in 0 .. 0 |-> a]
  <2>1. g \in [0 .. 0 -> T] /\ Is(0, g)
    OBVIOUS
  <2> QED
    BY <2>1
<1>2. ASSUME NEW m \in Nat, m \in Defined PROVE m + 1 \in Defined
  <2> PICK g \in [0 .. m -> T] : Is(m, g)
    BY <1>2
  <2> DEFINE h == [k \in 0 .. m + 1 |-> IF k = m + 1 THEN F[k][g[m]] ELSE g[k]]
  <2>1. F[m + 1][g[m]] \in T
    OBVIOUS
  <2>2. h \in [0 .. m + 1 -> T]
    BY <2>1
  <2>3. h[0] = a
    OBVIOUS
  <2>4. ASSUME NEW k \in 1 .. m + 1 PROVE h[k] = F[k][h[k - 1]]
    <3>1. CASE k = m + 1
      BY <3>1
    <3>2. CASE k \in 1 .. m
      BY <3>2
    <3> QED
      BY <3>1, <3>2
  <2> HIDE DEF h
  <2>5. Is(m + 1, h)
    BY <2>3, <2>4
  <2> QED
    BY <2>2, <2>5
<1>3. Nat \subseteq Defined
  BY <1>1, <1>2, SetInduction
<1> QED
  BY <1>3 DEF Recurs
=============================================================================
