------------------------------- MODULE Induction -------------------------------
(***************************************************************************)
(* The least number principle, which stands for induction in the proofs of *)
(* the other modules: that there is no least number without a property     *)
(* shows that all have it.  It follows from the well-foundedness of < on   *)
(* the natural numbers.                                                    *)
(***************************************************************************)
EXTENDS Integers, WellFoundedInduction, TLAPS

(* A set of natural numbers that is not empty has a least element. *)
LEMMA LeastNumber ==
  ASSUME NEW T, T \subseteq Nat, T # {}
  PROVE  \E m \in T : \A n \in T : m <= n
<1> DEFINE Less == OpToRel(<, Nat)
<1>1. IsWellFoundedOn(Less, Nat)
  BY NatLessThanWellFounded
<1>2. ASSUME NEW x \in Nat, NEW y \in Nat, x < y
      PROVE  <<x, y>> \in Less
  BY <1>2 DEF OpToRel
<1> HIDE DEF Less
<1>3. PICK m \in T : \A n \in T : ~ (<<n, m>> \in Less)
  BY <1>1, WFMin
<1>4. ASSUME NEW n \in T PROVE m <= n
  <2>1. m \in Nat /\ n \in Nat
    OBVIOUS
  <2>2. ~ (n < m)
    <3> SUFFICES ASSUME n < m PROVE FALSE
      OBVIOUS
    <3>1. <<n, m>> \in Less
      BY <2>1, <1>2
    <3> QED BY <3>1, <1>3
  <2> QED BY <2>1, <2>2
<1> QED BY <1>4

(* One that is bounded has a greatest. *)
LEMMA GreatestNumber ==
  ASSUME NEW b \in Nat, NEW T, T \subseteq 0 .. b, T # {}
  PROVE  \E m \in T : \A n \in T : n <= m
<1> DEFINE Gaps == {b - n : n \in T}
<1>1. Gaps \subseteq Nat
  OBVIOUS
<1>2. Gaps # {}
  <2>1. PICK n \in T : TRUE
    OBVIOUS
  <2>2. b - n \in Gaps
    BY <2>1
  <2> QED BY <2>2
<1>3. PICK g \in Gaps : \A h \in Gaps : g <= h
  BY <1>1, <1>2, LeastNumber
<1>4. PICK m \in T : g = b - m
  BY <1>3
<1>5. ASSUME NEW n \in T PROVE n <= m
  <2>1. b - n \in Gaps /\ n \in 0 .. b /\ m \in 0 .. b
    OBVIOUS
  <2>2. b - m <= b - n
    BY <1>3, <1>4, <2>1
  <2> QED BY <2>1, <2>2
<1> QED BY <1>5

=============================================================================
