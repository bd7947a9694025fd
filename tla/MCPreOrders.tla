----------------------------- MODULE MCPreOrders -----------------------------
(* A small instance of PreOrders for TLC.                                  *)
EXTENDS PreOrders, TLC

CONSTANTS ann, sam, cake, w1, w2, p1, p2, s1, s2, nothing

MCSellerOf == [p \in {cake} |-> sam]

\* The seller takes three prepaid, or any number to be paid later, or none.
MCOffers == [p \in {cake} |->
  {[open |-> TRUE,  limit |-> 3, terms |-> "prepaid"],
   [open |-> FALSE, limit |-> 0, terms |-> "default"]}]

\* Pre-orders are opened and closed, or their limit and terms changed.
MCSent == {{"open"}, {"limit", "terms"}}

Symmetric ==
  Permutations({p1, p2}) \cup Permutations({s1, s2}) \cup Permutations({w1, w2})
=============================================================================
