----------------------------- MODULE Induction -----------------------------
(***************************************************************************)
(* Induction over the natural numbers, stated about sets of numbers: the   *)
(* provers can instantiate a set, but not the operator parameter of the    *)
(* library's induction theorems.  A proof by induction defines the set of  *)
(* numbers for which its claim holds.                                      *)
(***************************************************************************)
EXTENDS Integers, WellFoundedInduction, TLAPS

\* Every set of natural numbers that is not empty has a least element.
LEMMA LeastElement ==
    ASSUME NEW T, T \subseteq Nat, T # {}
    PROVE  \E x \in T : \A y \in T : x <= y
  <1>1. PICK x \in T : \A y \in T : ~ (<<y, x>> \in OpToRel(<, Nat))
    BY NatLessThanWellFounded, WFMin, Zenon
  <1>2. ASSUME NEW y \in T
        PROVE  x <= y
    <2>1. <<y, x>> \in Nat \X Nat
      OBVIOUS
    <2>2. ~ (y < x)
      BY <1>1, <2>1 DEF OpToRel
    <2>. QED
      BY <2>2
  <1>. QED
    BY <1>2

\* A set that contains each number of which it contains all smaller ones.
LEMMA StrongInduction ==
    ASSUME NEW T,
           \A n \in Nat : (\A m \in Nat : m < n => m \in T) => n \in T
    PROVE  \A n \in Nat : n \in T
  <1>1. SUFFICES ASSUME Nat \ T # {}
                 PROVE  FALSE
    OBVIOUS
  <1>2. PICK x \in Nat \ T : \A y \in Nat \ T : x <= y
    BY <1>1, LeastElement
  <1>3. \A m \in Nat : m < x => m \in T
    BY <1>2
  <1>. QED
    BY <1>2, <1>3

\* A set that contains 0 and the successors of its numbers.
LEMMA SimpleInduction ==
    ASSUME NEW T, 0 \in T, \A n \in Nat : n \in T => n + 1 \in T
    PROVE  \A n \in Nat : n \in T
  <1>1. ASSUME NEW n \in Nat, \A m \in Nat : m < n => m \in T
        PROVE  n \in T
    <2>1. CASE n = 0
      BY <2>1
    <2>2. CASE n # 0
      BY <1>1, <2>2, n - 1 \in Nat, (n - 1) + 1 = n
    <2>. QED
      BY <2>1, <2>2
  <1>. QED
    BY <1>1, StrongInduction

\* The same up to a bound.
LEMMA BoundedInduction ==
    ASSUME NEW n \in Nat, NEW T, 0 \in T,
           \A i \in 1 .. n : i - 1 \in T => i \in T
    PROVE  \A i \in 0 .. n : i \in T
  <1> DEFINE R == {i \in Nat : i <= n => i \in T}
  <1>1. 0 \in R
    OBVIOUS
  <1>2. ASSUME NEW i \in Nat, i \in R
        PROVE  i + 1 \in R
    <2>1. SUFFICES ASSUME i + 1 <= n
                   PROVE  i + 1 \in T
      OBVIOUS
    <2>2. i + 1 \in 1 .. n /\ (i + 1) - 1 = i /\ i <= n
      BY <2>1
    <2>. QED
      BY <1>2, <2>2
  <1> HIDE DEF R
  <1>3. \A i \in Nat : i \in R
    BY <1>1, <1>2, SimpleInduction
  <1>. QED
    BY <1>3 DEF R

\* A value for each number up to n, each computed from the one before it.
LEMMA PrimitiveRecursion ==
    ASSUME NEW S, NEW c \in S, NEW n \in Nat, NEW Step \in [1 .. n -> [S -> S]]
    PROVE  \E f \in [0 .. n -> S] :
               /\ f[0] = c
               /\ \A i \in 1 .. n : f[i] = Step[i][f[i - 1]]
  <1> DEFINE Solves(f, m) == /\ f[0] = c
                             /\ \A i \in 1 .. m : f[i] = Step[i][f[i - 1]]
             T == {m \in Nat : \E f \in [0 .. m -> S] : Solves(f, m)}
  <1>1. 0 \in T
    <2>1. [i \in 0 .. 0 |-> c] \in [0 .. 0 -> S]
      OBVIOUS
    <2>2. Solves([i \in 0 .. 0 |-> c], 0)
      OBVIOUS
    <2>. QED
      BY <2>1, <2>2
  <1>2. ASSUME NEW m \in 1 .. n, m - 1 \in T
        PROVE  m \in T
    <2>1. PICK f \in [0 .. (m - 1) -> S] : Solves(f, m - 1)
      BY <1>2
    <2> DEFINE g == [i \in 0 .. m |-> IF i = m THEN Step[m][f[m - 1]] ELSE f[i]]
    <2>2. Step[m][f[m - 1]] \in S
      BY <2>1, m - 1 \in 0 .. (m - 1)
    <2>3. g \in [0 .. m -> S]
      BY <2>1, <2>2
    <2>4. /\ \A i \in 0 .. (m - 1) : g[i] = f[i]
          /\ g[m] = Step[m][f[m - 1]]
      OBVIOUS
    <2> HIDE DEF g
    <2>5. g[0] = c
      BY <2>1, <2>4
    <2>6. ASSUME NEW i \in 1 .. m
          PROVE  g[i] = Step[i][g[i - 1]]
      <3>1. g[i - 1] = f[i - 1]
        BY <2>4, i - 1 \in 0 .. (m - 1)
      <3>2. CASE i = m
        BY <2>4, <3>1, <3>2
      <3>3. CASE i # m
        BY <2>1, <2>4, <3>1, <3>3, i \in 1 .. (m - 1)
      <3>. QED
        BY <3>2, <3>3
    <2>. QED
      BY <2>3, <2>5, <2>6
  <1>3. \A m \in 0 .. n : m \in T
    <2> HIDE DEF T
    <2>. QED
      BY <1>1, <1>2, BoundedInduction
  <1>. QED
    BY <1>3

=============================================================================
