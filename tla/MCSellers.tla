------------------------------ MODULE MCSellers ------------------------------
(* A small instance of Sellers for TLC.                                    *)
EXTENDS Sellers, TLC

CONSTANTS ann, bob, clerk, a1, a2, food, w1, w2, nothing

Symmetric == Permutations({a1, a2}) \cup Permutations({ann, bob})
  \cup Permutations({w1, w2})
=============================================================================
