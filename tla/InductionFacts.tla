---------------------------- MODULE InductionFacts ----------------------------
(***************************************************************************)
(* Induction in first-order form, on sets of numbers rather than on        *)
(* predicates, and what follows from it for intervals and for functions    *)
(* defined by recursion on an initial segment of the numbers.              *)
(***************************************************************************)
EXTENDS WellFoundedInduction, TLAPS

\* A set of numbers that is not empty has a least one.
LEMMA NatOrder ==
  ASSUME NEW T \in SUBSET Nat, T # {}
  PROVE  \E x \in T : \A y \in T : x <= y
<1> DEFINE R == OpToRel(<, Nat)
<1>1. IsWellFoundedOn(R, Nat) BY NatLessThanWellFounded
<1>2. \A x, y \in Nat : x < y => <<x, y>> \in R BY DEF OpToRel
<1> HIDE DEF R
<1>3. PICK x \in T : \A y \in T : <<y, x>> \notin R BY <1>1, WFMin
<1>4. ASSUME NEW y \in T PROVE x <= y
  <2>1. x \in Nat /\ y \in Nat OBVIOUS
  <2>2. ~(y < x) BY <1>2, <1>3, <2>1
  <2> QED BY <2>1, <2>2
<1> QED BY <1>3, <1>4

\* A set that holds 0 and with each number the next one holds all numbers.
LEMMA SetInduction ==
  ASSUME NEW S, 0 \in S, \A n \in Nat : n \in S => n + 1 \in S
  PROVE  Nat \subseteq S
<1> DEFINE T == Nat \ S
<1> SUFFICES ASSUME T # {} PROVE FALSE OBVIOUS
<1>1. PICK x \in T : \A y \in T : x <= y BY NatOrder
<1>2. x # 0 OBVIOUS
<1>3. x - 1 \in Nat /\ x - 1 \notin T BY <1>1, <1>2
<1>4. x - 1 \in S BY <1>3
<1>5. (x - 1) + 1 = x BY <1>1
<1> QED BY <1>3, <1>4, <1>5

\* The same up to a bound.
LEMMA IntervalInduction ==
  ASSUME NEW m \in Nat, NEW S, 0 \in S, \A n \in 0..m : n < m /\ n \in S => n + 1 \in S
  PROVE  0..m \subseteq S
<1> DEFINE T == {n \in Nat : n <= m => n \in S}
<1>1. 0 \in T OBVIOUS
<1>2. \A n \in Nat : n \in T => n + 1 \in T OBVIOUS
<1> HIDE DEF T
<1>3. Nat \subseteq T BY <1>1, <1>2, SetInduction
<1> QED BY <1>3 DEF T

\* A set of numbers up to a bound that is not empty has a greatest one.
LEMMA GreatestBelow ==
  ASSUME NEW m \in Nat, NEW T \in SUBSET (0..m), T # {}
  PROVE  \E x \in T : \A y \in T : y <= x
<1> DEFINE U == {m - x : x \in T}
<1>1. U \in SUBSET Nat
  <2> SUFFICES ASSUME NEW x \in T PROVE m - x \in Nat OBVIOUS
  <2>1. x \in 0..m OBVIOUS
  <2> QED BY <2>1
<1>2. U # {} OBVIOUS
<1>3. PICK u \in U : \A y \in U : u <= y BY <1>1, <1>2, NatOrder
<1>4. PICK x \in T : u = m - x OBVIOUS
<1>5. \A y \in T : m - x <= m - y BY <1>3, <1>4
<1>6. \A y \in T : y \in 0..m OBVIOUS
<1>7. x \in 0..m OBVIOUS
<1> QED BY <1>5, <1>6, <1>7

\* The value at 0 is b, and step gives each next one from the one before.
IsRecursion(f, m, X, b, step) ==
  /\ f \in [0..m -> X]
  /\ f[0] = b
  /\ \A n \in 1..m : f[n] = step[n][f[n - 1]]

\* What is defined by recursion over an interval, each value from the one before
\* by a function, exists, and its values are of the function's range.
LEMMA Recursion ==
  ASSUME NEW m \in Nat, NEW X, NEW b \in X, NEW step,
         \A n \in 1..m : \A x \in X : step[n][x] \in X
  PROVE  \E f : IsRecursion(f, m, X, b, step)
<1> DEFINE Sat(f, k) == /\ f \in [0..k -> X]
                        /\ f[0] = b
                        /\ \A n \in 1..k : f[n] = step[n][f[n - 1]]
           S == {k \in 0..m : \E f : Sat(f, k)}
<1>1. 0 \in S
  <2>1. Sat([n \in 0..0 |-> b], 0) OBVIOUS
  <2>2. \E f : Sat(f, 0) BY <2>1
  <2> HIDE DEF Sat
  <2> QED BY <2>2
<1>2. \A k \in 0..m : k < m /\ k \in S => k + 1 \in S
  <2> SUFFICES ASSUME NEW k \in 0..m, k < m, k \in S PROVE k + 1 \in S OBVIOUS
  <2>1. PICK f : Sat(f, k) OBVIOUS
  <2> DEFINE g == [n \in 0..(k + 1) |-> IF n = k + 1 THEN step[k + 1][f[k]] ELSE f[n]]
  <2>2. k + 1 \in 1..m /\ f[k] \in X BY <2>1
  <2>3. step[k + 1][f[k]] \in X BY <2>2
  <2>4. g \in [0..(k + 1) -> X] BY <2>1, <2>3
  <2>5. \A n \in 0..k : g[n] = f[n] OBVIOUS
  <2>6. g[k + 1] = step[k + 1][g[k]]
    <3>1. k \in 0..k /\ k + 1 \in 0..(k + 1) OBVIOUS
    <3>2. g[k + 1] = step[k + 1][f[k]] BY <3>1
    <3>3. g[k] = f[k] BY <2>5, <3>1
    <3> HIDE DEF g
    <3> QED BY <3>2, <3>3
  <2>7. \A n \in 1..k : g[n] = step[n][g[n - 1]]
    <3> SUFFICES ASSUME NEW n \in 1..k PROVE g[n] = step[n][g[n - 1]] OBVIOUS
    <3>1. n \in 0..k /\ n - 1 \in 0..k OBVIOUS
    <3>2. f[n] = step[n][f[n - 1]] BY <2>1
    <3> HIDE DEF g
    <3> QED BY <2>5, <3>1, <3>2
  <2>8. \A n \in 1..(k + 1) : n = k + 1 \/ n \in 1..k OBVIOUS
  <2>9. g[0] = b BY <2>1, <2>5
  <2> HIDE DEF g
  <2>10. k + 1 - 1 = k OBVIOUS
  <2>11. \A n \in 1..(k + 1) : g[n] = step[n][g[n - 1]]
    <3> SUFFICES ASSUME NEW n \in 1..(k + 1) PROVE g[n] = step[n][g[n - 1]] OBVIOUS
    <3>1. CASE n = k + 1 BY <2>6, <2>10, <3>1
    <3>2. CASE n \in 1..k BY <2>7, <3>2
    <3> QED BY <2>8, <3>1, <3>2
  <2>12. Sat(g, k + 1) BY <2>4, <2>9, <2>11
  <2>13. \E h : Sat(h, k + 1) BY <2>12
  <2> HIDE DEF Sat
  <2> QED BY <2>2, <2>13
<1> HIDE DEF S
<1>3. 0..m \subseteq S BY <1>1, <1>2, IntervalInduction
<1>4. m \in S BY <1>3
<1>5. PICK f : Sat(f, m) BY <1>4 DEF S
<1> QED BY <1>5 DEF IsRecursion
===============================================================================
