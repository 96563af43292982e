--------------------------- MODULE LeastElements ---------------------------
(* What the proofs need of the order of the natural numbers: least and     *)
(* greatest elements, and induction.  The induction theorems of the        *)
(* library take the predicate as a parameter, which the provers cannot     *)
(* instantiate; here it is a set, and the set of the numbers that are      *)
(* missing from it would have a least element.                             *)
EXTENDS Integers, WellFoundedInduction, TLAPS

NatLess == {p \in Nat \X Nat : p[1] < p[2]}

LEMMA NatLessWF == IsWellFoundedOn(NatLess, Nat)
<1>1. OpToRel(<, Nat) = NatLess
  BY DEF OpToRel, NatLess
<1> QED
  BY <1>1, NatLessThanWellFounded

(* A set of natural numbers that is not empty has a least element.         *)
LEMMA LeastOf ==
  ASSUME NEW T, T \subseteq Nat, T # {}
  PROVE  \E x \in T : \A y \in T : x <= y
<1>1. PICK x \in T : \A y \in T : <<y, x>> \notin NatLess
  BY NatLessWF, WFMin
<1>2. ASSUME NEW y \in T PROVE x <= y
  <2>1. ~(y < x)
    <3>1. <<y, x>> \notin NatLess
      BY <1>1
    <3>2. <<y, x>> \in Nat \X Nat
      OBVIOUS
    <3> QED
      BY <3>1, <3>2 DEF NatLess
  <2> QED
    BY <2>1
<1> QED
  BY <1>2

(* Induction, over a set in place of a predicate.                          *)
LEMMA ReachesAll ==
  ASSUME NEW S, 0 \in S, \A n \in Nat : n \in S => n + 1 \in S
  PROVE  \A n \in Nat : n \in S
<1> DEFINE T == Nat \ S
<1> SUFFICES ASSUME T # {} PROVE FALSE
  OBVIOUS
<1>1. PICK x \in T : \A y \in T : x <= y
  BY LeastOf
<1>2. x - 1 \in Nat
  BY <1>1
<1>3. x - 1 \notin T
  BY <1>1, <1>2
<1> QED
  BY <1>1, <1>2, <1>3

(* A set of natural numbers with a bound has a greatest element.           *)
LEMMA GreatestOf ==
  ASSUME NEW T, T \subseteq Nat, T # {}, NEW m \in Nat, \A x \in T : x <= m
  PROVE  \E x \in T : \A y \in T : y <= x
<1> DEFINE D == {m - x : x \in T}
<1>1. D \subseteq Nat /\ D # {}
  <2>1. \A x \in T : x \in Nat /\ m - x \in Nat
    OBVIOUS
  <2> QED
    BY <2>1
<1>2. PICK d \in D : \A e \in D : d <= e
  <2> HIDE DEF D
  <2> QED
    BY <1>1, LeastOf
<1>3. PICK x \in T : d = m - x
  OBVIOUS
<1>4. ASSUME NEW y \in T PROVE y <= x
  <2>1. m - x <= m - y
    BY <1>2, <1>3
  <2>2. x \in Nat /\ y \in Nat
    OBVIOUS
  <2> QED
    BY <2>1, <2>2
<1> QED
  BY <1>4

(* The values of a function on an interval have a bound.                   *)
LEMMA BoundOf ==
  ASSUME NEW last \in Nat, NEW f \in [0 .. last -> Nat]
  PROVE  \E m \in Nat : \A a \in 0 .. last : f[a] <= m
<1> DEFINE S == {n \in Nat : n <= last =>
                   \E m \in Nat : \A a \in 0 .. last : a <= n => f[a] <= m}
<1>1. 0 \in S
  <2>1. 0 \in 0 .. last /\ f[0] \in Nat
    OBVIOUS
  <2>2. ASSUME NEW a \in 0 .. last, a <= 0 PROVE f[a] <= f[0]
    <3>1. a = 0
      BY <2>2
    <3> QED
      BY <2>1, <3>1
  <2> QED
    BY <2>1, <2>2
<1>2. ASSUME NEW n \in Nat, n \in S PROVE n + 1 \in S
  <2> SUFFICES ASSUME n + 1 <= last
               PROVE  \E m \in Nat : \A a \in 0 .. last : a <= n + 1 => f[a] <= m
    OBVIOUS
  <2>1. PICK m \in Nat : \A a \in 0 .. last : a <= n => f[a] <= m
    BY <1>2
  <2>2. n + 1 \in 0 .. last
    OBVIOUS
  <2>3. f[n + 1] \in Nat /\ m + f[n + 1] \in Nat
    BY <2>2
  <2>4. ASSUME NEW a \in 0 .. last, a <= n + 1 PROVE f[a] <= m + f[n + 1]
    <3>1. f[a] \in Nat
      OBVIOUS
    <3>2. CASE a = n + 1
      BY <2>3, <3>1, <3>2
    <3>3. CASE a <= n
      BY <2>1, <2>3, <3>1, <3>3
    <3> QED
      BY <2>4, <3>2, <3>3
  <2> QED
    BY <2>3, <2>4
<1>3. last \in S
  <2> HIDE DEF S
  <2> QED
    BY <1>1, <1>2, ReachesAll
<1>4. PICK m \in Nat : \A a \in 0 .. last : a <= last => f[a] <= m
  BY <1>3
<1>5. \A a \in 0 .. last : a <= last
  OBVIOUS
<1> QED
  BY <1>4, <1>5

(* A function on the numbers up to n that is defined by recursion exists:  *)
(* at each number it is what F makes of its value at the one before.       *)
Iterates(f, n, v, F) == \A i \in 0 .. n : f[i] = IF i = 0 THEN v ELSE F[i][f[i - 1]]

LEMMA Recursion ==
  ASSUME NEW n \in Nat, NEW V, NEW v \in V, NEW F \in [1 .. n -> [V -> V]]
  PROVE  \E f \in [0 .. n -> V] : Iterates(f, n, v, F)
<1> USE DEF Iterates
<1> DEFINE Solves(f, k) == Iterates(f, k, v, F)
           S == {k \in Nat : k <= n => \E f \in [0 .. k -> V] : Solves(f, k)}
<1>1. 0 \in S
  <2> DEFINE f == [i \in 0 .. 0 |-> v]
  <2>1. f \in [0 .. 0 -> V]
    OBVIOUS
  <2>2. Solves(f, 0)
    OBVIOUS
  <2> HIDE DEF Solves, f
  <2> QED
    BY <2>1, <2>2
<1>2. ASSUME NEW k \in Nat, k \in S PROVE k + 1 \in S
  <2> SUFFICES ASSUME k + 1 <= n PROVE \E f \in [0 .. k + 1 -> V] : Solves(f, k + 1)
    <3> HIDE DEF Solves
    <3> QED
      OBVIOUS
  <2>1. PICK f \in [0 .. k -> V] : Solves(f, k)
    <3> HIDE DEF Solves
    <3> QED
      BY <1>2
  <2> DEFINE next == F[k + 1][f[k]]
             g == [i \in 0 .. k + 1 |-> IF i = k + 1 THEN next ELSE f[i]]
  <2>2. next \in V
    <3>1. k + 1 \in 1 .. n /\ f[k] \in V
      OBVIOUS
    <3> QED
      BY <3>1
  <2> HIDE DEF next
  <2>3. g \in [0 .. k + 1 -> V]
    BY <2>2
  <2>4. ASSUME NEW i \in 0 .. k + 1
        PROVE  g[i] = IF i = 0 THEN v ELSE F[i][g[i - 1]]
    <3>1. CASE i = k + 1
      <4>1. k \in 0 .. k + 1 /\ k # k + 1 /\ i - 1 = k /\ i # 0
        BY <3>1
      <4>2. g[k] = f[k] /\ g[k + 1] = next
        BY <4>1
      <4> QED
        BY <3>1, <4>1, <4>2 DEF next
    <3>2. CASE i # k + 1
      <4>1. i \in 0 .. k /\ g[i] = f[i]
        BY <3>2
      <4>2. f[i] = IF i = 0 THEN v ELSE F[i][f[i - 1]]
        BY <2>1, <4>1
      <4>3. i # 0 => i - 1 \in 0 .. k + 1 /\ i - 1 # k + 1 /\ g[i - 1] = f[i - 1]
        BY <4>1
      <4> QED
        BY <4>1, <4>2, <4>3
    <3> QED
      BY <3>1, <3>2
  <2>5. Solves(g, k + 1)
    BY <2>4
  <2> HIDE DEF Solves, g
  <2> QED
    BY <2>3, <2>5
<1>3. n \in S
  <2> HIDE DEF S
  <2> QED
    BY <1>1, <1>2, ReachesAll
<1>4. \E f \in [0 .. n -> V] : Solves(f, n)
  <2> HIDE DEF Solves
  <2> QED
    BY <1>3
<1> QED
  BY <1>4
=============================================================================
