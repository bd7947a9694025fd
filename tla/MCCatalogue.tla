----------------------------- MODULE MCCatalogue -----------------------------
(* A small instance of Catalogue for TLC.                                  *)
EXTENDS Catalogue, TLC

CONSTANTS food, books, inn, shop, tea, m1, w1, w2, nothing

Symmetric == Permutations({food, books}) \cup Permutations({inn, shop})
  \cup Permutations({w1, w2})
=============================================================================
