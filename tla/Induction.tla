------------------------------ MODULE Induction ------------------------------
(***************************************************************************)
(* Induction over the natural numbers, stated with a set instead of a      *)
(* predicate: the set of the numbers for which a claim holds contains all  *)
(* of them if it contains 0 and, with any number, the next one.            *)
(***************************************************************************)
EXTENDS Integers, WellFoundedInduction, TLAPS

(***************************************************************************)
(* The argument is that of the least counterexample: Nat is well-founded.  *)
(***************************************************************************)
LEMMA SetInduction ==
    ASSUME NEW S, 0 \in S, \A n \in Nat : n \in S => n + 1 \in S
    PROVE  Nat \subseteq S
  <1> DEFINE R == {p \in Nat \X Nat : p[1] < p[2]}
             T == Nat \ S
  <1>1. IsWellFoundedOn(R, Nat)
    BY NatLessThanWellFounded DEF OpToRel
  <1>2. SUFFICES ASSUME T # {} PROVE FALSE
    OBVIOUS
  <1>3. T \subseteq Nat
    OBVIOUS
  <1> HIDE DEF R, T
  <1>4. PICK x \in T : \A y \in T : <<y, x>> \notin R
    BY <1>1, <1>2, <1>3, WFMin
  <1>5. x \in Nat /\ x \notin S /\ x # 0
    BY <1>4 DEF T
  <1>6. x - 1 \in Nat /\ x = (x - 1) + 1
    BY <1>5
  <1>7. x - 1 \in T
    BY <1>5, <1>6 DEF T
  <1>8. <<x - 1, x>> \in R
    BY <1>5, <1>6 DEF R
  <1> QED BY <1>4, <1>7, <1>8
=============================================================================
