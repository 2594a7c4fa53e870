------------------------------ MODULE Extremes ------------------------------
(***************************************************************************)
(* That Min and Max of FiniteSetsExt are the least and the greatest member *)
(* of the sets the caches take them of: facts about numbers alone.         *)
(***************************************************************************)
EXTENDS Naturals, FiniteSetsExt, WellFoundedInduction, TLAPS

(* Non-empty sets of numbers have a least element.                         *)
LEMMA LeastOf ==
  ASSUME NEW S \in SUBSET Nat, S # {}
  PROVE  /\ Min(S) \in S
         /\ \A y \in S : Min(S) =< y
<1>. DEFINE R == OpToRel(<, Nat)
<1>1. IsWellFoundedOn(R, Nat)
  BY NatLessThanWellFounded, Zenon
<1>2. \A x, y \in Nat : x < y => <<x, y>> \in R
  BY DEF OpToRel
<1>. HIDE DEF R
<1>3. PICK x \in S : \A y \in S : ~(<<y, x>> \in R)
  BY <1>1, WFMin, Zenon
<1>4. \A y \in S : ~(y < x) /\ y \in Nat /\ x \in Nat
  BY <1>2, <1>3
<1>5. \A y \in S : x =< y
  BY <1>4
<1>. QED BY <1>5 DEF Min

(* Non-empty sets of numbers up to a bound have a greatest element.        *)
LEMMA GreatestOf ==
  ASSUME NEW n \in Nat, NEW S \in SUBSET (0 .. n), S # {}
  PROVE  /\ Max(S) \in S
         /\ \A y \in S : y =< Max(S)
<1>. DEFINE T == {n - x : x \in S}
<1>1. T \in SUBSET Nat
  <2>1. \A x \in S : n - x \in Nat
    OBVIOUS
  <2>. QED BY <2>1
<1>2. T # {}
  <2>1. PICK x \in S : TRUE
    OBVIOUS
  <2>2. n - x \in T
    BY <2>1
  <2>. QED BY <2>2
<1>. HIDE DEF T
<1>3. Min(T) \in T /\ \A t \in T : Min(T) =< t
  BY <1>1, <1>2, LeastOf
<1>4. PICK x \in S : \A y \in S : n - x =< n - y
  BY <1>3 DEF T
<1>5. \A y \in S : x >= y
  BY <1>4
<1>. QED BY <1>5 DEF Max

(* The later of two times.                                                 *)
LEMMA LaterOf ==
  ASSUME NEW a \in Nat, NEW b \in Nat
  PROVE  Max({a, b}) \in Nat /\ Max({a, b}) \in {a, b} /\ Max({a, b}) >= a /\ Max({a, b}) >= b
<1>1. \E x \in {a, b} : \A y \in {a, b} : x >= y
  OBVIOUS
<1>2. Max({a, b}) \in {a, b} /\ \A y \in {a, b} : Max({a, b}) >= y
  BY <1>1 DEF Max
<1>. QED BY <1>2

(* The earlier.                                                            *)
LEMMA EarlierOf ==
  ASSUME NEW a \in Nat, NEW b \in Nat
  PROVE  Min({a, b}) \in Nat /\ Min({a, b}) \in {a, b} /\ Min({a, b}) =< a /\ Min({a, b}) =< b
BY LeastOf
=============================================================================
