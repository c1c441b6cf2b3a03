---------------------------- MODULE SequenceLemmas ----------------------------
(***************************************************************************)
(* Induction over the natural numbers in a form the provers can use, and   *)
(* what follows from it about sequences.                                   *)
(***************************************************************************)
EXTENDS Integers, Sequences, WellFoundedInduction, TLAPS

\* A nonempty set of natural numbers has a least element.
LEMMA LeastNumber ==
  ASSUME NEW T, T \subseteq Nat, T # {}
  PROVE  \E m \in T : \A k \in T : m <= k
<1> DEFINE R == OpToRel(<, Nat)
<1>1. IsWellFoundedOn(R, Nat)  BY NatLessThanWellFounded
<1>2. \A x, y \in Nat : y < x => <<y, x>> \in R  BY DEF OpToRel
<1> HIDE DEF R
<1>3. \E x \in T : \A y \in T : ~(<<y, x>> \in R)  BY <1>1, WFMin, Zenon
<1>4. PICK x \in T : \A y \in T : ~(<<y, x>> \in R)  BY <1>3
<1>5. \A y \in T : ~(y < x)  BY <1>2, <1>4
<1>6. x \in Nat /\ \A y \in T : y \in Nat  OBVIOUS
<1> QED  BY <1>5, <1>6

\* A set that has 0 and the successor of each of its numbers has all of them:
\* a least number outside it cannot exist.  (The library's NatInduction is
\* about a predicate, which the SMT solver and Zenon cannot instantiate.)
LEMMA SetInduction ==
  ASSUME NEW S, 0 \in S, \A n \in Nat : n \in S => n + 1 \in S
  PROVE  Nat \subseteq S
<1> SUFFICES ASSUME Nat \ S # {} PROVE FALSE  OBVIOUS
<1>1. PICK x \in Nat \ S : \A y \in Nat \ S : x <= y  BY LeastNumber
<1>2. x # 0  OBVIOUS
<1>3. x - 1 \in Nat /\ ~(x <= x - 1)  BY <1>2
<1>4. x - 1 \in S  BY <1>1, <1>3
<1> QED  BY <1>3, <1>4

\* What is left of a sequence without its first n elements.
LEMMA WithoutFirst ==
  ASSUME NEW S, NEW s \in Seq(S), NEW n \in 0..Len(s)
  PROVE  /\ SubSeq(s, n + 1, Len(s)) \in Seq(S)
         /\ Len(SubSeq(s, n + 1, Len(s))) = Len(s) - n
         /\ \A i \in 1..(Len(s) - n) : SubSeq(s, n + 1, Len(s))[i] = s[n + i]
OBVIOUS

\* A sequence has a longest prefix whose elements are all equal to e.
LEMMA LongestPrefix ==
  ASSUME NEW S, NEW s \in Seq(S), NEW e
  PROVE  \E n \in 0..Len(s) : /\ \A i \in 1..n : s[i] = e
                              /\ n < Len(s) => s[n + 1] # e
<1> DEFINE T == {i \in 1..Len(s) : s[i] # e}
<1>1. CASE T = {}
  <2>1. Len(s) \in 0..Len(s)  OBVIOUS
  <2> QED  BY <1>1, <2>1
<1>2. CASE T # {}
  <2>0. T \subseteq Nat  OBVIOUS
  <2>1. PICK m \in T : \A k \in T : m <= k
    <3> HIDE DEF T
    <3> QED  BY <1>2, <2>0, LeastNumber
  <2>2. m - 1 \in 0..Len(s) /\ (m - 1) + 1 = m  BY <2>1
  <2>3. \A i \in 1..(m - 1) : s[i] = e
    <3> SUFFICES ASSUME NEW i \in 1..(m - 1), s[i] # e PROVE FALSE  OBVIOUS
    <3>1. i \in T /\ ~(m <= i)  BY <2>1
    <3> QED  BY <2>1, <3>1
  <2> QED  BY <2>1, <2>2, <2>3
<1> QED  BY <1>1, <1>2
=============================================================================
