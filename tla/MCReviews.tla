------------------------------ MODULE MCReviews ------------------------------
(* A small instance of Reviews for TLC: tea and cups of one store, books of  *)
(* another; ann has bought tea and a cup, bob tea, and eve a book.           *)
EXTENDS Reviews, TLC

CONSTANTS ann, bob, eve, tea, cup, book, inn, shop, o1, o2, o3, x1, x2,
          w1, w2, nothing

StoreOfEach == [p \in {tea, cup, book} |-> IF p = book THEN shop ELSE inn]
BuyerOfEach == (o1 :> ann) @@ (o2 :> bob) @@ (o3 :> eve)
ItemsOfEach == (o1 :> {tea, cup}) @@ (o2 :> {tea}) @@ (o3 :> {book})
StoreOfEachOrder == (o1 :> inn) @@ (o2 :> inn) @@ (o3 :> shop)

Symmetric == Permutations({x1, x2}) \cup Permutations({w1, w2})
=============================================================================
