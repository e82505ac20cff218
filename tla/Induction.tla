----------------------------- MODULE Induction -----------------------------
(***************************************************************************)
(* Induction over the natural numbers and functions defined by recursion,  *)
(* for proofs about data.  The predicate of an induction is the set of the *)
(* numbers that satisfy it and a step is a function, so that the lemmas    *)
(* can be used without an operator as a parameter.                         *)
(***************************************************************************)
EXTENDS Integers, WellFoundedInduction, TLAPS

Less == {ss \in Nat \X Nat : ss[1] < ss[2]}

\* A set of natural numbers that has an element has a smallest one.
LEMMA LeastNumber ==
  ASSUME NEW T \in SUBSET Nat, T # {}
  PROVE  \E x \in T : \A y \in T : x =< y
<1>1. IsWellFoundedOn(Less, Nat)
  BY NatLessThanWellFounded DEF OpToRel, Less
<1>2. PICK x \in T : \A y \in T : ~ (<<y, x>> \in Less)
  BY <1>1, WFMin
<1>3. ASSUME NEW y \in T PROVE x =< y
  <2>1. <<y, x>> \in Nat \X Nat /\ <<y, x>>[1] = y /\ <<y, x>>[2] = x
    OBVIOUS
  <2>2. ~ (y < x)
    BY <1>2, <2>1 DEF Less
  <2>3. QED
    BY <2>2
<1>4. QED
  BY <1>3

\* Induction: a set that has 0, and n + 1 if it has n, has every number.
LEMMA SetInduction ==
  ASSUME NEW S, 0 \in S, \A n \in Nat : n \in S => n + 1 \in S
  PROVE  Nat \subseteq S
<1> SUFFICES ASSUME Nat \ S # {} PROVE FALSE
  OBVIOUS
<1>1. PICK x \in Nat \ S : \A y \in Nat \ S : x =< y
  BY LeastNumber
<1>2. QED
  BY <1>1

StaysIn(S, N, step) == \A n \in 1..N : \A v \in S : step[n][v] \in S

Iterates(f, base, N, step) == f[0] = base /\ \A n \in 1..N : f[n] = step[n][f[n - 1]]

\* A function on 0..N may be defined by its value at 0 and the step from one
\* value to the next.
LEMMA RecursionExists ==
  ASSUME NEW S, NEW base \in S, NEW N \in Nat, NEW step,
         StaysIn(S, N, step)
  PROVE  \E f \in [0..N -> S] : Iterates(f, base, N, step)
<1> USE DEF StaysIn
<1> DEFINE Good(f, k) == Iterates(f, base, k, step)
           K == {k \in Nat : k =< N => \E f \in [0..k -> S] : Good(f, k)}
<1> USE DEF Iterates
<1>1. 0 \in K
  <2>1. [n \in 0..0 |-> base] \in [0..0 -> S] /\ Good([n \in 0..0 |-> base], 0)
    OBVIOUS
  <2>2. QED
    BY <2>1
<1>2. ASSUME NEW k \in Nat, k \in K PROVE k + 1 \in K
  <2> SUFFICES ASSUME k + 1 =< N PROVE \E f \in [0..(k + 1) -> S] : Good(f, k + 1)
    OBVIOUS
  <2>1. PICK f \in [0..k -> S] : Good(f, k)
    BY <1>2
  <2> DEFINE g == [n \in 0..(k + 1) |-> IF n =< k THEN f[n] ELSE step[k + 1][f[k]]]
  <2>2. g \in [0..(k + 1) -> S]
    <3>1. step[k + 1][f[k]] \in S
      OBVIOUS
    <3>2. QED
      BY <3>1
  <2>3. g[0] = base
    BY <2>1
  <2>4. ASSUME NEW n \in 1..(k + 1) PROVE g[n] = step[n][g[n - 1]]
    <3>1. CASE n =< k
      BY <2>1, <3>1
    <3>2. CASE n = k + 1
      BY <3>2
    <3>3. QED
      BY <3>1, <3>2
  <2>5. QED
    <3> HIDE DEF g
    <3>1. QED BY <2>2, <2>3, <2>4
<1>3. N \in K
  <2> HIDE DEF K
  <2>1. QED BY <1>1, <1>2, SetInduction
<1>4. QED
  BY <1>3
=============================================================================
