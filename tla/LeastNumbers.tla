----------------------------- MODULE LeastNumbers -----------------------------
(***************************************************************************)
(* Least and greatest numbers and induction, for the proofs about lists    *)
(* that are walked and paths that are read name by name.  The statements   *)
(* are about sets, not predicates, so that a proof can cite them by name:  *)
(* what is to hold of every n is put as membership of n in a set.          *)
(***************************************************************************)
EXTENDS Integers, WellFoundedInduction, TLAPS

\* A set of numbers that is not empty has a least one.
LEMMA Least ==
    ASSUME NEW S, S \subseteq Nat, S # {}
    PROVE  \E e \in S : \A f \in S : e <= f
<1> DEFINE R == {p \in Nat \X Nat : p[1] < p[2]}
<1>1. OpToRel(<, Nat) = R
  BY DEF OpToRel
<1>2. IsWellFoundedOn(R, Nat)
  BY <1>1, NatLessThanWellFounded
<1>3. PICK e \in S : \A f \in S : ~ (<<f, e>> \in R)
  <2> HIDE DEF R
  <2> QED BY <1>2, WFMin
<1>4. ASSUME NEW f \in S PROVE e <= f
  <2>1. ~ (f < e)
    BY <1>3
  <2> QED BY <2>1
<1> QED BY <1>4

\* A set of numbers that is bounded and not empty has a greatest one.
LEMMA Greatest ==
    ASSUME NEW S, S \subseteq Nat, S # {}, NEW k \in Nat, \A f \in S : f <= k
    PROVE  \E e \in S : \A f \in S : f <= e
<1> DEFINE D == {d \in Nat : \E f \in S : d = k - f}
<1>1. ASSUME NEW f \in S PROVE k - f \in D /\ f \in Nat
  <2>1. f \in Nat /\ f <= k
    BY <1>1
  <2> QED BY <1>1, <2>1
<1>2. D # {} /\ D \subseteq Nat
  BY <1>1
<1>3. PICK d \in D : \A e \in D : d <= e
  <2> HIDE DEF D
  <2> QED BY <1>2, Least
<1>4. PICK e \in S : d = k - e
  OBVIOUS
<1>5. ASSUME NEW f \in S PROVE f <= e
  <2> HIDE DEF D
  <2>1. k - f \in D /\ f \in Nat /\ e \in Nat
    BY <1>1
  <2>2. d <= k - f
    BY <1>3, <2>1
  <2> QED BY <1>4, <2>1, <2>2
<1> QED BY <1>5

\* What zero has, and with each number also the next, every number has.
LEMMA Induction ==
    ASSUME NEW S, 0 \in S, \A n \in Nat : n \in S => n + 1 \in S
    PROVE  Nat \subseteq S
<1> SUFFICES ASSUME Nat \ S # {} PROVE FALSE
  OBVIOUS
<1>1. PICK n \in Nat \ S : \A m \in Nat \ S : n <= m
  BY Least
<1>2. n - 1 \in Nat /\ n - 1 \in S
  BY <1>1
<1> QED BY <1>1, <1>2

=============================================================================
