-------------------------------- MODULE Induction -------------------------------
(***************************************************************************)
(* Induction over the natural numbers, stated of sets: what a loop or a    *)
(* recursive function of the model does is proved by showing that the set  *)
(* of the rounds for which it holds is all of Nat.                         *)
(***************************************************************************)
EXTENDS Integers, Sequences, WellFoundedInduction, SequenceTheorems, TLAPS

\* A set of natural numbers has a least one: what a heap's top and a best edge are.
LEMMA Smallest ==
  ASSUME NEW T \in SUBSET Nat, T # {}
  PROVE  \E x \in T : \A y \in T : x <= y
<1> DEFINE R == {ss \in Nat \X Nat : ss[1] < ss[2]}
<1>1. IsWellFoundedOn(R, Nat)
  BY NatLessThanWellFounded DEF OpToRel
<1> HIDE DEF R
<1>2. PICK x \in T : \A y \in T : ~ (<<y, x>> \in R)
  BY <1>1, WFMin
<1>3. \A y \in T : x <= y
  <2> TAKE y \in T
  <2>1. <<y, x>> \in Nat \X Nat /\ ~(y < x)
    BY <1>2 DEF R
  <2> QED BY <2>1
<1> QED BY <1>3

\* A set that holds 0 and with n also n + 1 holds every number.
LEMMA Induct ==
  ASSUME NEW P, 0 \in P, \A n \in Nat : n \in P => n + 1 \in P
  PROVE  Nat \subseteq P
<1> SUFFICES ASSUME NEW n \in Nat \ P PROVE FALSE
  OBVIOUS
<1>1. PICK m \in Nat \ P : \A y \in Nat \ P : m <= y
  BY Smallest
<1>2. m # 0 /\ m - 1 \in Nat
  BY <1>1
<1>3. m - 1 \in P
  BY <1>1, <1>2
<1> QED BY <1>1, <1>2, <1>3

\* The same for the rounds up to N of a loop.
LEMMA InductUpTo ==
  ASSUME NEW N \in Nat, NEW P, 0 \in P, \A n \in 0..(N - 1) : n \in P => n + 1 \in P
  PROVE  0..N \subseteq P
<1> DEFINE Q == {n \in Nat : n <= N => n \in P}
<1>1. 0 \in Q
  OBVIOUS
<1>2. ASSUME NEW n \in Nat, n \in Q PROVE n + 1 \in Q
  BY <1>2
<1>3. Nat \subseteq Q
  <2> HIDE DEF Q
  <2> QED BY <1>1, <1>2, Induct
<1> QED BY <1>3

\* f runs from a on, each value made by F from its argument and the value before.
Recursion(f, N, S, a, F) ==
  f \in [0..N -> S] /\ f[0] = a /\ \A n \in 1..N : f[n] = F[<<n, f[n - 1]>>]

\* A function that is defined by a first value and a step exists.
LEMMA RecursiveFunction ==
  ASSUME NEW N \in Nat, NEW S, NEW a \in S, NEW F \in [(1..N) \X S -> S]
  PROVE  \E f : Recursion(f, N, S, a, F)
<1> DEFINE Up(m, f) == f[0] = a /\ \A n \in 1..m : f[n] = F[<<n, f[n - 1]>>]
           P == {m \in Nat : \E f \in [0..m -> S] : Up(m, f)}
<1>1. 0 \in P
  <2>1. Up(0, [n \in 0..0 |-> a]) /\ [n \in 0..0 |-> a] \in [0..0 -> S]
    OBVIOUS
  <2> QED BY <2>1
<1>2. ASSUME NEW m \in 0..(N - 1), m \in P PROVE m + 1 \in P
  <2>1. PICK f \in [0..m -> S] : Up(m, f)
    BY <1>2
  <2> DEFINE z == F[<<m + 1, f[m]>>]
             h == [n \in 0..(m + 1) |-> IF n <= m THEN f[n] ELSE z]
  <2>2. z \in S /\ m + 1 \in Nat /\ m \in Nat
    <3>1. m \in 0..m /\ m + 1 \in 1..N /\ m \in Nat
      OBVIOUS
    <3>2. <<m + 1, f[m]>> \in (1..N) \X S
      BY <3>1
    <3>3. F[<<m + 1, f[m]>>] \in S
      BY <3>2
    <3> QED BY <3>1, <3>3
  <2> HIDE DEF z
  <2>3. h \in [0..(m + 1) -> S]
    BY <2>2
  <2>4. h[0] = a
    <3>1. h[0] = f[0]
      BY <2>2
    <3> QED BY <2>1, <3>1
  <2>5. ASSUME NEW n \in 1..(m + 1) PROVE h[n] = F[<<n, h[n - 1]>>]
    <3>1. CASE n <= m
      <4>1. n \in 1..m /\ n \in 0..(m + 1) /\ n - 1 \in 0..(m + 1) /\ n - 1 <= m
        BY <3>1
      <4>2. h[n] = f[n] /\ h[n - 1] = f[n - 1]
        BY <3>1, <4>1
      <4>3. f[n] = F[<<n, f[n - 1]>>]
        BY <2>1, <4>1
      <4> QED BY <4>2, <4>3
    <3>2. CASE n = m + 1
      <4>1. h[n] = z /\ h[n - 1] = f[m]
        BY <2>2, <3>2
      <4> QED BY <3>2, <4>1 DEF z
    <3>3. n <= m \/ n = m + 1
      BY <2>2
    <3> HIDE DEF h
    <3> QED BY <3>1, <3>2, <3>3
  <2>6. Up(m + 1, h)
    BY <2>4, <2>5
  <2> HIDE DEF h, Up
  <2> QED BY <2>2, <2>3, <2>6
<1>3. 0..N \subseteq P
  <2> HIDE DEF P
  <2> QED BY <1>1, <1>2, InductUpTo
<1>4. N \in P
  <2> HIDE DEF P
  <2> QED BY <1>3
<1>5. PICK f \in [0..N -> S] : Up(N, f)
  BY <1>4
<1> QED BY <1>5 DEF Recursion
================================================================================
