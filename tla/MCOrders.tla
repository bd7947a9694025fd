------------------------------ MODULE MCOrders ------------------------------
(* Instances of Orders for TLC: one seller, one buyer, an admin, two pens.  *)
EXTENDS Orders, TLC

CONSTANTS ann, sam, root, pen

MCUsers  == {ann, sam, root}
MCAdmins == {root}
MCSellerOf == [p \in Products |-> sam]
MCStock == [p \in Products |-> 2]

Basket(total, most) ==
  [total |-> [p \in Products |-> total], most |-> [p \in Products |-> most]]

\* One pen, or a pen on each of two lines: the stock cannot serve both.
OnePen == {Basket(1, 1), Basket(2, 1)}

\* Two lines that together ask for what there is, or for more: each line alone
\* passes the check made while reading.
TwoLines == {Basket(2, 1), Basket(3, 2)}

AllGoals == OrderStatus \ {"pending"}

Symmetry == Permutations(OrderIds) \cup Permutations(Requests)
=============================================================================
