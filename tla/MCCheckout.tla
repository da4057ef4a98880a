----------------------------- MODULE MCCheckout -----------------------------
(* Instances of Checkout for TLC. *)
EXTENDS Checkout, TLC

CONSTANTS c1, c2, p1, p2, r1, r2

TwoUnits == [p \in Products |-> 2]
ThreeUnits == [p \in Products |-> 3]
PriceOne == [p \in Products |-> 1]

RequestSymmetry == Permutations(Requests)
ProductSymmetry == Permutations(Products)
ShopSymmetry    == Permutations(Requests) \cup Permutations(Products)
=============================================================================
