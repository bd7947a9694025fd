----------------------------- MODULE MCCheckout -----------------------------
(* An instance of Checkout for TLC: ann buys, sam sells pens and buys tea,  *)
(* bob sells tea and buys pens; sam issues a coupon.                        *)
EXTENDS Checkout, TLC

CONSTANTS ann, bob, sam, pen, tea

MCSellerOf == [p \in Products |-> IF p = pen THEN sam ELSE bob]
MCStock    == [p \in Products |-> IF p = pen THEN 2 ELSE 1]
MCCouponBy == [c \in Coupons |-> sam]

Symmetry ==
  Permutations(OrderIds) \cup Permutations(LineIds) \cup Permutations(Tills)
=============================================================================
