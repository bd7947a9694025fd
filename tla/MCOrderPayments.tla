--------------------------- MODULE MCOrderPayments ---------------------------
(* Instances of OrderPayments for TLC.                                      *)
EXTENDS OrderPayments, TLC

CONSTANTS ann, sam, root

MCUsers  == {ann, sam, root}
MCAdmins == {root}
MCSellerOf == [p \in Products |-> sam]
MCStock == [p \in Products |-> 2]

OneUnit == {[total |-> [p \in Products |-> 1], most |-> [p \in Products |-> 1]]}

AllGoals   == OrderStatus \ {"pending"}
FewGoals   == {"confirmed", "cancelled"}

Symmetry ==
  Permutations(OrderIds) \cup Permutations(Requests) \cup
  Permutations(ProofIds) \cup Permutations(Clerks) \cup Permutations(Keys)
=============================================================================
