--------------------------- MODULE NumberInduction ---------------------------
(***************************************************************************)
(* Induction over the places of a sequence or the turns of a loop, for the *)
(* proofs about recursive functions.  It is stated with a set where an     *)
(* induction principle has a predicate: the set is a constant the provers  *)
(* can instantiate.                                                        *)
(***************************************************************************)
EXTENDS Integers, WellFoundedInduction, TLAPS

(* A set of natural numbers that is not empty has a least element.         *)
LEMMA LeastElement ==
  ASSUME NEW S \in SUBSET Nat, S # {}
  PROVE  \E i \in S : \A j \in S : i <= j
<1> DEFINE Less == {pair \in Nat \X Nat : pair[1] < pair[2]}
<1>1. IsWellFoundedOn(Less, Nat)
  BY NatLessThanWellFounded, Zenon DEF OpToRel
<1> HIDE DEF Less
<1>2. PICK i \in S : \A j \in S : <<j, i>> \notin Less
  BY <1>1, WFMin
<1>3. ASSUME NEW j \in S PROVE i <= j
  <2>1. i \in Nat /\ j \in Nat /\ <<j, i>> \notin Less
    BY <1>2
  <2>2. ~(j < i)
    BY <2>1, Zenon DEF Less
  <2> QED
    BY <2>1, <2>2
<1> QED
  BY <1>3

(* A set that has 0, and the successor of each of its elements up to n,    *)
(* has every number up to n.                                               *)
LEMMA InductionUpTo ==
  ASSUME NEW n \in Nat, NEW S, 0 \in S,
         \A k \in 0 .. n - 1 : k \in S => k + 1 \in S
  PROVE  \A k \in 0 .. n : k \in S
<1> SUFFICES ASSUME NEW k \in 0 .. n, k \notin S PROVE FALSE
  OBVIOUS
<1> DEFINE Missing == {j \in 0 .. n : j \notin S}
<1>1. Missing \in SUBSET Nat /\ Missing # {}
  OBVIOUS
<1>2. PICK i \in Missing : \A j \in Missing : i <= j
  BY <1>1, LeastElement
<1>3. i \in 0 .. n /\ i \notin S /\ i # 0
  BY <1>2
<1>4. i - 1 \in 0 .. n - 1 /\ i - 1 \notin Missing
  BY <1>2, <1>3
<1> QED
  BY <1>3, <1>4

(* A bounded set of natural numbers that is not empty has a greatest       *)
(* element.                                                                *)
LEMMA GreatestElement ==
  ASSUME NEW S \in SUBSET Nat, S # {}, NEW b \in Nat, \A i \in S : i <= b
  PROVE  \E i \in S : \A j \in S : j <= i
<1> DEFINE Below == {b - i : i \in S}
<1>1. Below \in SUBSET Nat /\ Below # {}
  <2>1. \A i \in S : b - i \in Nat
    OBVIOUS
  <2> QED
    BY <2>1
<1>2. PICK d \in Below : \A e \in Below : d <= e
  BY <1>1, LeastElement
<1>3. PICK i \in S : d = b - i
  BY <1>2
<1>4. ASSUME NEW j \in S PROVE j <= i
  <2>1. d <= b - j
    BY <1>2
  <2> QED
    BY <1>3, <2>1
<1> QED
  BY <1>4

(* The numbers at places low .. high have a greatest one.                  *)
LEMMA GreatestValue ==
  ASSUME NEW low \in Int, NEW high \in Int, low <= high,
         NEW f, \A k \in low .. high : f[k] \in Nat
  PROVE  \E k \in low .. high : \A l \in low .. high : f[l] <= f[k]
<1> DEFINE Reached == {n \in Nat : \E k \in low .. low + n : \A l \in low .. low + n :
                                     low + n <= high => f[l] <= f[k]}
           n == high - low
<1>1. 0 \in Reached
  <2>1. \A l \in low .. low + 0 : l = low
    OBVIOUS
  <2>2. low \in low .. low + 0 /\ low \in low .. high
    OBVIOUS
  <2>3. f[low] <= f[low]
    BY <2>2
  <2> QED
    BY <2>1, <2>2, <2>3
<1>2. ASSUME NEW j \in 0 .. n - 1, j \in Reached PROVE j + 1 \in Reached
  <2>1. PICK k \in low .. low + j : \A l \in low .. low + j : f[l] <= f[k]
    BY <1>2
  <2> DEFINE next == low + (j + 1)
  <2>2. next \in low .. high /\ k \in low .. high /\ f[next] \in Nat /\ f[k] \in Nat
    BY <1>2
  <2>3. \A l \in low .. next : l \in low .. low + j \/ l = next
    OBVIOUS
  <2>4. \E m \in low .. next : \A l \in low .. next : f[l] <= f[m]
    <3>1. CASE f[next] <= f[k]
      BY <2>1, <2>2, <2>3, <3>1
    <3>2. CASE f[k] <= f[next]
      <4>1. ASSUME NEW l \in low .. next PROVE f[l] <= f[next]
        <5>1. CASE l = next
          BY <2>2, <5>1
        <5>2. CASE l \in low .. low + j
          <6>1. f[l] \in Nat /\ f[l] <= f[k]
            BY <1>2, <2>1, <5>2
          <6> QED
            BY <2>2, <3>2, <6>1
        <5> QED
          BY <2>3, <5>1, <5>2
      <4> QED
        BY <2>2, <4>1
    <3> QED
      BY <2>2, <3>1, <3>2
  <2> QED
    BY <2>4
<1>3. n \in Nat
  OBVIOUS
<1> HIDE DEF Reached
<1>4. n \in Reached
  BY <1>1, <1>2, <1>3, InductionUpTo
<1> QED
  BY <1>4 DEF Reached
=============================================================================
