------------------------------- MODULE Orders -------------------------------
(***************************************************************************)
(* The order book of the shop: src/orders/orders.service.ts over the      *)
(* tables Product, Order and OrderStatusHistory of prisma/schema.prisma.  *)
(*                                                                         *)
(* Each HTTP request is a small process.  It first READS rows and checks   *)
(* them (outside any transaction), later COMMITS one `$transaction` on the *)
(* strength of what it read, and finally writes notifications.  Between    *)
(* two steps of a request any step of another may happen, and a request    *)
(* may end early at every step (Fail).  A `$transaction` is one atomic     *)
(* step: MongoDB runs it on a snapshot and aborts it on a write conflict,  *)
(* so a transaction that commits behaves as if it ran alone.               *)
(***************************************************************************)
EXTENDS Naturals, Sequences, FiniteSets, FiniteSetsExt

CONSTANTS
  Users,          \* accounts
  Admins,         \* the accounts whose role is admin
  Products,       \* rows of Product
  SellerOf,       \* Product.sellerId: the account that sells each product
  Baskets,        \* the item lists a buyer may send, see IsBasket
  InitialStock,   \* Product.stock when the model starts
  Goals,          \* the statuses sellers and admins ask for in `dto.status`
  OrderIds,       \* ids for rows of Order (bounds the orders ever placed)
  Requests,       \* requests the server handles at a time
  NoTerms         \* contents of an order row that does not exist yet

\* `dto.items` may name a product on several lines.  `total` is the number of
\* units of a product over all lines, `most` the largest single line: the
\* checks made while reading look at each line alone.
IsBasket(b) ==
  /\ b \in [total : [Products -> Nat], most : [Products -> Nat]]
  /\ \A p \in Products : b.most[p] <= b.total[p]

ASSUME OrdersAssumption ==
  /\ Admins \subseteq Users
  /\ SellerOf \in [Products -> Users]
  /\ \A b \in Baskets : IsBasket(b)
  /\ InitialStock \in [Products -> Nat]
  /\ Goals \subseteq
       {"confirmed", "processing", "ready", "delivered", "cancelled"}
  /\ NoTerms \notin [buyer : Users, seller : Users, items : [Products -> Nat]]

-----------------------------------------------------------------------------

OrderStatus ==
  {"pending", "confirmed", "processing", "ready", "delivered", "cancelled"}
PaymentStatus == {"unpaid", "pending_verification", "paid", "rejected"}

\* ORDER_TRANSITIONS as the set of its <<from, to>> pairs.
ORDER_TRANSITIONS ==
  { <<"pending", "confirmed">>,    <<"pending", "cancelled">>,
    <<"confirmed", "processing">>, <<"confirmed", "cancelled">>,
    <<"processing", "ready">>,     <<"processing", "cancelled">>,
    <<"ready", "delivered">>,      <<"ready", "cancelled">> }

\* The columns of an order that are written once, by the insert.
Terms == [buyer : Users, seller : Users, items : [Products -> Nat]]

\* The columns that change, as one request read them.
Row == [status : OrderStatus, payment : PaymentStatus, restored : BOOLEAN]

\* A row of Notification: who is told, of which order, and what.
Notice == [to : Users, order : OrderIds, about : OrderStatus]

Idle == [at |-> "idle"]
Request ==
       {Idle}
  \cup [at : {"reserve"}, terms : Terms]
  \cup [at : {"recheck"}, order : OrderIds]
  \cup [at : {"commit"}, order : OrderIds, goal : OrderStatus, seen : Row,
        byBuyer : BOOLEAN]
  \cup [at : {"notify"}, left : Seq(Notice)]

VARIABLES
  stock,      \* Product.stock
  totalSold,  \* Product.totalSold
  active,     \* Product.isActive
  status,     \* Order.status; "none" while the row does not exist
  payment,    \* Order.paymentStatus
  restored,   \* Order.inventoryRestored
  terms,      \* the other columns of Order
  history,    \* the statuses OrderStatusHistory has an entry for
  inbox,      \* rows of Notification
  req         \* the requests in progress

goods == <<stock, totalSold, active>>
rows  == <<status, payment, restored, terms, history>>
vars  == <<goods, rows, inbox, req>>

RowOf(o) ==
  [status |-> status[o], payment |-> payment[o], restored |-> restored[o]]

Named(b) == {p \in Products : b.total[p] > 0}

Init ==
  /\ stock     = InitialStock
  /\ totalSold = [p \in Products |-> 0]
  /\ active    = [p \in Products |-> TRUE]
  /\ status    = [o \in OrderIds |-> "none"]
  /\ payment   = [o \in OrderIds |-> "unpaid"]
  /\ restored  = [o \in OrderIds |-> FALSE]
  /\ terms     = [o \in OrderIds |-> NoTerms]
  /\ history   = [o \in OrderIds |-> {}]
  /\ inbox     = {}
  /\ req       = [r \in Requests |-> Idle]

-----------------------------------------------------------------------------
(* create: place an order directly from a list of items.                   *)

\* The reads and checks before the transaction.  The checks on the store, its
\* opening hours and its menus only refuse, so they are a Fail of the request.
CreateRead(r, u, b) ==
  /\ req[r] = Idle
  /\ u \in Users \ Admins
  /\ Named(b) # {}
  /\ \A p \in Named(b) :
        /\ active[p]
        /\ SellerOf[p] # u
        /\ stock[p] >= b.most[p]
  /\ \E s \in Users :
        /\ \A p \in Named(b) : SellerOf[p] = s
        /\ req' = [req EXCEPT ![r] =
             [at    |-> "reserve",
              terms |-> [buyer |-> u, seller |-> s, items |-> b.total]]]
  /\ UNCHANGED <<goods, rows, inbox>>

\* The transaction takes every unit of t or none.
CanReserve(t) ==
  \A p \in Products : t.items[p] > 0 => active[p] /\ stock[p] >= t.items[p]

\* Insert the row, with its first history entry.
Open(o, t) ==
  /\ status[o] = "none"
  /\ status'  = [status EXCEPT ![o] = "pending"]
  /\ terms'   = [terms EXCEPT ![o] = t]
  /\ history' = [history EXCEPT ![o] = {"pending"}]
  /\ UNCHANGED <<payment, restored>>

CreateCommit(r, o) ==
  /\ req[r].at = "reserve"
  /\ LET t == req[r].terms IN
       /\ CanReserve(t)
       /\ stock' = [p \in Products |-> stock[p] - t.items[p]]
       /\ Open(o, t)
       /\ req' = [req EXCEPT ![r] =
            [at   |-> "notify",
             left |-> <<[to |-> t.seller, order |-> o, about |-> "pending"]>>]]
  /\ UNCHANGED <<totalSold, active, inbox>>

-----------------------------------------------------------------------------
(* updateStatus: the seller or an admin moves an order.                    *)

\* Mutant of MayMove: without the payment check.
MayMoveUnderReview(o, goal) == <<status[o], goal>> \in ORDER_TRANSITIONS

\* The checks updateStatus makes on the row it reads.
MayMove(o, goal) ==
  /\ <<status[o], goal>> \in ORDER_TRANSITIONS
  /\ ~(goal = "cancelled" /\ payment[o] = "pending_verification")

Committing(o, goal, byBuyer) ==
  [at |-> "commit", order |-> o, goal |-> goal, seen |-> RowOf(o),
   byBuyer |-> byBuyer]

UpdateStatusRead(r, u, o, goal) ==
  /\ req[r] = Idle
  /\ status[o] # "none"
  /\ u \in Admins \/ u = terms[o].seller
  /\ MayMove(o, goal)
  /\ req' = [req EXCEPT ![r] = Committing(o, goal, FALSE)]
  /\ UNCHANGED <<goods, rows, inbox>>

\* The notification that order q.order has become q.goal.
Telling(u, q) == [to |-> u, order |-> q.order, about |-> q.goal]

\* Mutants of the definitions below: the flag is read the wrong way round;
\* only paid orders count as sold; a buyer's own cancellation is not confirmed
\* to the buyer.
ReturnsAgain(q) == q.goal = "cancelled" /\ q.seen.restored
SellsPaid(q) == q.goal = "delivered" /\ q.seen.payment = "paid"
NoticesToOther(q) ==
  <<Telling(IF q.byBuyer THEN terms[q.order].seller ELSE terms[q.order].buyer, q)>>

\* Whether the transaction of request q returns the units of its order: it
\* consults the flag read before the transaction.
Returns(q) == q.goal = "cancelled" /\ ~q.seen.restored

\* Whether it counts them as sold.
Sells(q) == q.goal = "delivered"

\* The flag it writes.
RestoredAfter(q) == q.goal = "cancelled" \/ q.seen.restored

\* orderStatusHistory.create
Record(o, s) == history' = [history EXCEPT ![o] = @ \cup {s}]

\* Who is told of it afterwards, in this order: updateStatus tells the buyer,
\* cancelByBuyer then tells the seller.
NoticesOf(q) ==
  IF q.byBuyer
  THEN <<Telling(terms[q.order].buyer, q), Telling(terms[q.order].seller, q)>>
  ELSE <<Telling(terms[q.order].buyer, q)>>

\* The transaction.  It writes the row without looking at it again.
UpdateStatusCommit(r) ==
  /\ req[r].at = "commit"
  /\ LET q == req[r]
         units == terms[q.order].items
     IN
       /\ stock' = [p \in Products |->
                      IF Returns(q) THEN stock[p] + units[p] ELSE stock[p]]
       /\ totalSold' = [p \in Products |->
                          IF Sells(q) THEN totalSold[p] + units[p]
                          ELSE totalSold[p]]
       /\ status'   = [status EXCEPT ![q.order] = q.goal]
       /\ restored' = [restored EXCEPT ![q.order] = RestoredAfter(q)]
       /\ Record(q.order, q.goal)
       /\ req' = [req EXCEPT ![r] = [at |-> "notify", left |-> NoticesOf(q)]]
  /\ UNCHANGED <<active, payment, terms, inbox>>

-----------------------------------------------------------------------------
(* cancelByBuyer: its own read and checks, then a call of updateStatus.    *)

CancelByBuyerRead(r, u, o) ==
  /\ req[r] = Idle
  /\ status[o] = "pending"
  /\ u = terms[o].buyer
  /\ payment[o] \notin {"pending_verification", "paid"}
  /\ req' = [req EXCEPT ![r] = [at |-> "recheck", order |-> o]]
  /\ UNCHANGED <<goods, rows, inbox>>

\* updateStatus(id, cancelled, buyer, isAdmin = true) reads the row again.
CancelByBuyerRecheck(r) ==
  /\ req[r].at = "recheck"
  /\ LET o == req[r].order IN
       /\ MayMove(o, "cancelled")
       /\ req' = [req EXCEPT ![r] = Committing(o, "cancelled", TRUE)]
  /\ UNCHANGED <<goods, rows, inbox>>

-----------------------------------------------------------------------------

\* notifications.create, one row at a time, after the commit.
Notify(r) ==
  /\ req[r].at = "notify"
  /\ LET left == req[r].left IN
       /\ inbox' = inbox \cup {Head(left)}
       /\ req' = [req EXCEPT ![r] =
            IF Len(left) = 1 THEN Idle
            ELSE [at |-> "notify", left |-> Tail(left)]]
  /\ UNCHANGED <<goods, rows>>

\* Mutants of Fail: the buyer is told although the transaction aborted; the first
\* product of an order that could not be placed stays reserved.
FailButTell(r) ==
  /\ req[r] # Idle
  /\ req' = [req EXCEPT ![r] =
       IF @.at = "commit" THEN [at |-> "notify", left |-> NoticesOf(@)]
       ELSE Idle]
  /\ UNCHANGED <<goods, rows, inbox>>
FailHalfReserved(r) ==
  /\ req[r].at = "reserve"
  /\ req' = [req EXCEPT ![r] = Idle]
  /\ \E p \in Products :
       /\ req[r].terms.items[p] \in 1 .. stock[p]
       /\ stock' = [stock EXCEPT ![p] = @ - req[r].terms.items[p]]
  /\ UNCHANGED <<totalSold, active, rows, inbox>>

\* A request ends early: a check refuses (also isItemAvailableNow, which reads
\* the clock), the transaction aborts, the database or the process fails.  What
\* it committed before stays, the rest is lost.
Fail(r) ==
  /\ req[r] # Idle
  /\ req' = [req EXCEPT ![r] = Idle]
  /\ UNCHANGED <<goods, rows, inbox>>

\* ProductsService.remove and setActiveByAdmin: products are hidden, never
\* deleted.
SetActive(p) ==
  /\ active' = [active EXCEPT ![p] = ~@]
  /\ UNCHANGED <<stock, totalSold, rows, inbox, req>>

\* The next step of the request r, once it has begun.
Step(r) ==
  \/ \E o \in OrderIds : CreateCommit(r, o)
  \/ CancelByBuyerRecheck(r)
  \/ UpdateStatusCommit(r)
  \/ Notify(r)

Begin(r) ==
  \/ \E u \in Users, b \in Baskets : CreateRead(r, u, b)
  \/ \E u \in Users, o \in OrderIds, goal \in Goals :
        UpdateStatusRead(r, u, o, goal)
  \/ \E u \in Users, o \in OrderIds : CancelByBuyerRead(r, u, o)

Work ==
  \/ \E r \in Requests : Begin(r) \/ Step(r)
  \/ \E p \in Products : SetActive(p)

Next == Work \/ \E r \in Requests : Fail(r)

Spec == Init /\ [][Next]_vars

-----------------------------------------------------------------------------
(* Requests on one order one at a time.  Nothing in the code enforces this; *)
(* it is what its checks take for granted, so what holds of SerialSpec and  *)
(* not of Spec is what an overlap can break.                                *)

Holds(r, o) == req[r].at \in {"recheck", "commit"} /\ req[r].order = o

OneAtATime ==
  \A r1, r2 \in Requests, o \in OrderIds :
    Holds(r1, o) /\ Holds(r2, o) => r1 = r2

SerialSpec == Init /\ [][Next /\ OneAtATime']_vars

(* A request may still fail before it commits, but no notification fails,  *)
(* and the server goes on with every request it began: the event loop of   *)
(* Node resumes a handler when its database call returns.                  *)
HealthySpec ==
  /\ Init
  /\ [][\/ Work
        \/ \E r \in Requests : Fail(r) /\ req[r].at # "notify"]_vars
  /\ \A r \in Requests : WF_vars(Step(r))

-----------------------------------------------------------------------------
(* The order book these tables stand for.                                  *)

Wanted == {b.total : b \in Baskets}
Asked  == [o \in OrderIds |->
             IF status[o] = "none" THEN [p \in Products |-> 0]
             ELSE terms[o].items]

Book == INSTANCE OrderBook WITH
          shelf <- stock, sold <- totalSold, state <- status, units <- Asked,
          Moves <- ORDER_TRANSITIONS, Wants <- Wanted

-----------------------------------------------------------------------------
(* Properties.                                                             *)

\* Every column keeps its type: in particular the stock of a product is never
\* negative, whatever requests overlap.
TypeOK ==
  /\ stock     \in [Products -> Nat]
  /\ totalSold \in [Products -> Nat]
  /\ active    \in [Products -> BOOLEAN]
  /\ status    \in [OrderIds -> OrderStatus \cup {"none"}]
  /\ payment   \in [OrderIds -> PaymentStatus]
  /\ restored  \in [OrderIds -> BOOLEAN]
  /\ terms     \in [OrderIds -> Terms \cup {NoTerms}]
  /\ history   \in [OrderIds -> SUBSET OrderStatus]
  /\ inbox     \in SUBSET Notice
  /\ req       \in [Requests -> Request]

Terminal == {"delivered", "cancelled"}

\* The units of p in the orders S, and the orders whose units are off the shelf.
Units(p, S) == MapThenSumSet(LAMBDA o : terms[o].items[p], S)
Live == {o \in OrderIds : status[o] \notin {"none", "cancelled"}}
Delivered == {o \in OrderIds : status[o] = "delivered"}

\* No unit is lost: what is on the shelf and what live orders hold is at least
\* what there was.  A cancellation that commits has returned its units, however
\* the requests overlap and wherever they fail.
NoUnitLost ==
  \A p \in Products : stock[p] + Units(p, Live) >= InitialStock[p]

\* No unit is sold twice: shelf and live orders hold at most what there was.
NoUnitInvented ==
  \A p \in Products : stock[p] + Units(p, Live) <= InitialStock[p]

\* Every delivered order is counted in the sales figure of its products.
SalesCounted ==
  \A p \in Products : totalSold[p] >= Units(p, Delivered)

\* A cancelled row carries the flag that keeps a later cancellation from
\* returning its units again.
CancelledIsRestored ==
  \A o \in OrderIds : status[o] = "cancelled" => restored[o]

\* The status of an order has its entry in the order's history.
StatusIsRecorded ==
  \A o \in OrderIds : status[o] # "none" => status[o] \in history[o]

\* The buyer and the seller are told only of statuses the order has really had:
\* a request whose transaction aborts tells nobody.
NoticesAreTrue ==
  \A n \in inbox : n.about \in history[n.order]

\* The statuses an order has passed when it reaches s without being cancelled.
Passed(s) ==
  CASE s = "confirmed"  -> {"pending", "confirmed"}
    [] s = "processing" -> {"pending", "confirmed", "processing"}
    [] s = "ready"      -> {"pending", "confirmed", "processing", "ready"}
    [] s = "delivered"  -> OrderStatus \ {"cancelled"}
    [] OTHER            -> {"pending"}

\* An order goes through the stages of ORDER_TRANSITIONS one by one and, once
\* delivered, was never cancelled.
HistoryIsAPath ==
  \A o \in OrderIds :
    status[o] \notin {"none", "cancelled"} => history[o] = Passed(status[o])

\* A delivered or cancelled order never moves again.
TerminalIsFinal ==
  [][\A o \in OrderIds : status[o] \in Terminal => status'[o] = status[o]]_vars

\* Every status an order takes is announced to its buyer; a new order is
\* announced to its seller.  (Of HealthySpec.)
Announced ==
  \A o \in OrderIds, s \in OrderStatus :
    (s \in history[o]) ~>
       \E n \in inbox :
         /\ n.order = o
         /\ n.about = s
         /\ n.to = IF s = "pending" THEN terms[o].seller ELSE terms[o].buyer

\* Served one at a time, the requests on an order implement the order book:
\* units are taken, returned and counted exactly once, along ORDER_TRANSITIONS.
ImplementsBook == Book!BookSpec
=============================================================================
