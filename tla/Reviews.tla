------------------------------- MODULE Reviews -------------------------------
(***************************************************************************)
(* Reviews of delivered orders, the figures that products and stores keep  *)
(* of them, and helpful marks: src/reviews.                                *)
(*                                                                         *)
(* Both writes are $transactions that compute what they write from what    *)
(* they have read, so here a transaction is two steps: it opens on a       *)
(* snapshot, and it commits if nothing it writes was written since.        *)
(***************************************************************************)
EXTENDS Integers, FiniteSets

CONSTANTS
  Users,      \* accounts
  Products,   \* rows of Product
  Stores,     \* rows of Store
  Orders,     \* delivered orders
  Reviews,    \* ids for rows of Review (bounds how many are written)
  Requests,   \* requests served at a time
  StoreOf,    \* Product.storeId, never changed
  Buyer,      \* Order.buyerId
  Items,      \* the products of an order
  StoreOfOrder,  \* Order.storeId; a store has one seller
  Nothing     \* a row that does not exist

Review == [order : Orders, product : Products, replied : BOOLEAN,
           helpful : SUBSET Users, helpfulCount : Int]

ASSUME ReviewsAssumption ==
  /\ StoreOf \in [Products -> Stores]
  /\ Buyer \in [Orders -> Users]
  /\ Items \in [Orders -> SUBSET Products]
  /\ StoreOfOrder \in [Orders -> Stores]
  /\ Nothing \notin Review
  /\ Products \cap Stores = {}
  /\ Products \cap Reviews = {}
  /\ Stores \cap Reviews = {}

Idle == [at |-> "idle"]
Transaction ==
       [at : {"create"}, order : Orders, product : Products,
        ofProduct : SUBSET Reviews, ofStore : SUBSET Reviews,
        stale : BOOLEAN]
  \cup [at : {"toggle"}, review : Reviews, user : Users,
        helpful : SUBSET Users, stale : BOOLEAN]
Request == {Idle} \cup Transaction \cup [at : {"tell"}, review : Reviews]

VARIABLES
  review,     \* rows of Review
  ofProduct,  \* the reviews that Product.ratingAvg and ratingCount are of
  ofStore,    \* the reviews that Store.ratingAvg and ratingCount are of
  inbox,      \* the reviews whose seller has been told
  req         \* the requests in progress

vars == <<review, ofProduct, ofStore, inbox, req>>

Init ==
  /\ review    = [x \in Reviews |-> Nothing]
  /\ ofProduct = [p \in Products |-> {}]
  /\ ofStore   = [s \in Stores |-> {}]
  /\ inbox     = {}
  /\ req       = [r \in Requests |-> Idle]

ReviewsOf(p) == {x \in Reviews : review[x] # Nothing /\ review[x].product = p}
ReviewsIn(s) ==
  {x \in Reviews : review[x] # Nothing /\ StoreOf[review[x].product] = s}

\* Mutants of Writes: no transaction at all; the store's figures outside it.
WritesUnseen(q) == {}
WritesButStore(q) == IF q.at = "create" THEN {q.product}
                     ELSE IF q.at = "toggle" THEN {q.review} ELSE {}
\* The existing rows that the transaction of a request writes.
Writes(q) == CASE q.at = "create" -> {q.product, StoreOf[q.product]}
               [] q.at = "toggle" -> {q.review}
               [] OTHER           -> {}

\* The database aborts a transaction that writes what another has written since
\* its snapshot.
Notified(q, W) == IF Writes(q) \cap W = {} THEN q ELSE [q EXCEPT !.stale = TRUE]

\* Request r commits a write of W and goes on with x.
Commit(r, x, W) ==
  req' = [t \in Requests |-> IF t = r THEN x ELSE Notified(req[t], W)]

Go(r, x) == req' = [req EXCEPT ![r] = x]

-----------------------------------------------------------------------------

\* The order is the user's and delivered, the product was part of it, they have no
\* review yet, and they are of one store and seller.  The aggregates will be of
\* this snapshot.
CreateOpen(r, o, p) ==
  /\ req[r] = Idle
  /\ p \in Items[o]
  /\ \A x \in Reviews : review[x] # Nothing =>
       ~(review[x].order = o /\ review[x].product = p)
  /\ StoreOf[p] = StoreOfOrder[o]
  /\ Go(r, [at |-> "create", order |-> o, product |-> p,
            ofProduct |-> ReviewsOf(p), ofStore |-> ReviewsIn(StoreOf[p]),
            stale |-> FALSE])
  /\ UNCHANGED <<review, ofProduct, ofStore, inbox>>

\* Insert under the unique index on order and product, then recomputeProductRating
\* and recomputeStoreRating: the snapshot's reviews and the one just written.
CreateCommit(r, x) ==
  /\ req[r].at = "create" /\ ~req[r].stale
  /\ LET q == req[r]
         s == StoreOf[q.product] IN
       /\ review[x] = Nothing
       /\ \A y \in Reviews : review[y] # Nothing =>
            ~(review[y].order = q.order /\ review[y].product = q.product)
       /\ review' = [review EXCEPT ![x] =
            [order |-> q.order, product |-> q.product, replied |-> FALSE,
             helpful |-> {}, helpfulCount |-> 0]]
       /\ ofProduct' = [ofProduct EXCEPT ![q.product] = q.ofProduct \cup {x}]
       /\ ofStore'   = [ofStore EXCEPT ![s] = q.ofStore \cup {x}]
       /\ Commit(r, [at |-> "tell", review |-> x], {q.product, s, x})
  /\ UNCHANGED inbox

TellSeller(r) ==
  /\ req[r].at = "tell"
  /\ inbox' = inbox \cup {req[r].review}
  /\ Go(r, Idle)
  /\ UNCHANGED <<review, ofProduct, ofStore>>

\* Nobody marks a review of their own.
ToggleOpen(r, u, x) ==
  /\ req[r] = Idle
  /\ review[x] # Nothing
  /\ Buyer[review[x].order] # u
  /\ Go(r, [at |-> "toggle", review |-> x, user |-> u,
            helpful |-> review[x].helpful, stale |-> FALSE])
  /\ UNCHANGED <<review, ofProduct, ofStore, inbox>>

\* A mark is pushed onto the row's list; to take it back, the list that was read
\* is written without it.
ToggleCommit(r) ==
  /\ req[r].at = "toggle" /\ ~req[r].stale
  /\ LET q == req[r]
         x == q.review
         marked == q.user \in q.helpful IN
       /\ (q.user \in review[x].helpful) = marked
       /\ review' = [review EXCEPT
            ![x].helpful = IF marked THEN q.helpful \ {q.user} ELSE @ \cup {q.user},
            ![x].helpfulCount = IF marked THEN @ - 1 ELSE @ + 1]
       /\ Commit(r, Idle, {x})
  /\ UNCHANGED <<ofProduct, ofStore, inbox>>

\* The store's owner answers.  Neither the review's store nor its owner changes,
\* so the reads before the write are part of it.
Reply(x) ==
  /\ review[x] # Nothing
  /\ review' = [review EXCEPT ![x].replied = TRUE]
  /\ req' = [t \in Requests |-> Notified(req[t], {x})]
  /\ UNCHANGED <<ofProduct, ofStore, inbox>>

\* A refusal (an image that the reviewer has not uploaded), an abort or the end of
\* the process.
Fail(r) ==
  /\ req[r] # Idle
  /\ Go(r, Idle)
  /\ UNCHANGED <<review, ofProduct, ofStore, inbox>>

Step(r) ==
  \/ \E o \in Orders, p \in Products : CreateOpen(r, o, p)
  \/ \E x \in Reviews : CreateCommit(r, x)
  \/ TellSeller(r)
  \/ \E u \in Users, x \in Reviews : ToggleOpen(r, u, x)
  \/ ToggleCommit(r)
  \/ Fail(r)

Next ==
  \/ \E r \in Requests : Step(r)
  \/ \E x \in Reviews : Reply(x)

Spec == Init /\ [][Next]_vars

-----------------------------------------------------------------------------
(* Properties.                                                             *)

TypeOK ==
  /\ review    \in [Reviews -> Review \cup {Nothing}]
  /\ ofProduct \in [Products -> SUBSET Reviews]
  /\ ofStore   \in [Stores -> SUBSET Reviews]
  /\ inbox     \in SUBSET Reviews
  /\ req       \in [Requests -> Request]

\* The figures of a product and of a store are of exactly their reviews, also
\* when reviews of several products of one store overlap.
FiguresAgree ==
  /\ \A p \in Products : ofProduct[p] = ReviewsOf(p)
  /\ \A s \in Stores : ofStore[s] = ReviewsIn(s)

\* The count shown on a review is the number of users who marked it.
HelpfulAgrees ==
  \A x \in Reviews : review[x] # Nothing =>
    review[x].helpfulCount = Cardinality(review[x].helpful)

\* Every figure that is kept of reviews and marks is exact.
FiguresExact == FiguresAgree /\ HelpfulAgrees

\* A step changes the mark of one user at most: taking one's own mark back takes
\* no other away.
OnlyOwnMark ==
  [][\A x \in Reviews, u, v \in Users :
       /\ review[x] # Nothing
       /\ (u \in review'[x].helpful) # (u \in review[x].helpful)
       /\ (v \in review'[x].helpful) # (v \in review[x].helpful)
       => u = v]_vars
=============================================================================
