---------------------------- MODULE LeastNumbers ----------------------------
(***************************************************************************)
(* A set of natural numbers has a least member: what the proofs about      *)
(* indices and loops use where they argue by the first that goes wrong.    *)
(***************************************************************************)
EXTENDS Integers, FiniteSetsExt, NaturalsInduction, WellFoundedInduction, TLAPS

LEMMA LeastMember ==
  ASSUME NEW I \in SUBSET Nat, I # {}
  PROVE  Min(I) \in I /\ \A i \in I : Min(I) <= i
<1>. DEFINE Less == {ss \in Nat \X Nat : ss[1] < ss[2]}
<1>1. IsWellFoundedOn(Less, Nat)
  BY NatLessThanWellFounded DEF OpToRel
<1>. HIDE DEF Less
<1>2. PICK x \in I : \A y \in I : ~ (<<y, x>> \in Less)
  BY <1>1, WFMin
<1>3. \A y \in I : x <= y
  <2>. TAKE y \in I
  <2>1. x \in Nat /\ y \in Nat  OBVIOUS
  <2>2. y < x => <<y, x>> \in Less  BY <2>1 DEF Less
  <2>. QED BY <1>2, <2>1, <2>2
<1>. QED BY <1>3 DEF Min

=============================================================================
