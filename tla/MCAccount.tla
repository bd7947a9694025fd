------------------------------ MODULE MCAccount ------------------------------
(* A small instance of Account for TLC: two requests and two codes.         *)
EXTENDS Account, TLC

Symmetric == Permutations(Codes) \cup Permutations(Requests)
=============================================================================
