------------------------------ MODULE PreOrders ------------------------------
(***************************************************************************)
(* Reservations of products that are not in stock yet:                     *)
(* src/pre-orders/pre-orders.service.ts, with the pre-order branches of    *)
(* payment-submissions.service.ts, the pre-order columns of a product that *)
(* products.service.ts writes, and the settings row that the deposit of a  *)
(* reservation is taken from (platform-settings.service.ts).               *)
(*                                                                         *)
(* A buyer reserves, within the limit of the product.  A prepaid           *)
(* reservation is paid by a deposit proof that the seller reviews.  Except *)
(* for the submission of a proof nothing is a transaction: every write is  *)
(* a step of its own, on the strength of rows read before.                 *)
(***************************************************************************)
EXTENDS Naturals, FiniteSets, FiniteSetsExt

CONSTANTS
  Users, Admins,
  Products,     \* pre-order products
  SellerOf,     \* Product.sellerId
  Offers,       \* the offers that sellers ask for, per product
  Sent,         \* the columns of an offer that sellers send together
  Quantities,   \* the quantities buyers ask for
  Goals,        \* the statuses sellers and admins ask for
  PreOrderIds,  \* ids for rows of PreOrder (bounds the reservations)
  ProofIds,     \* ids for rows of PaymentSubmission (bounds the proofs)
  Requests,     \* requests the server handles at a time
  MaxDeaths,    \* how many requests may die between two of their writes
  Nothing       \* contents of a row that does not exist yet

\* The pre-order columns of a product.  open: isPreOrder.  limit: preOrderLimit, 0
\* for none.  terms: a deposit paid in advance, or a percentage paid later that
\* the product states or leaves to its store and the platform.
Offer == [open : BOOLEAN, limit : Nat, terms : {"prepaid", "stated", "default"}]
NotOffered == [open |-> FALSE, limit |-> 0, terms |-> "default"]
Column == {"open", "limit", "terms"}

Deal  == [buyer : Users, product : Products, quantity : Nat, prepaid : BOOLEAN]
Proof == [preOrder : PreOrderIds, status : {"pending", "verified", "rejected"}]

\* What the pairs of PRE_ORDER_TRANSITIONS lead to.
Goal == {"confirmed", "fulfilled", "cancelled"}

ASSUME PreOrdersAssumption ==
  /\ Admins \subseteq Users
  /\ SellerOf \in [Products -> Users]
  /\ Offers \in [Products -> SUBSET Offer]
  /\ Sent \subseteq SUBSET Column
  /\ Quantities \subseteq Nat \ {0}
  /\ Goals \subseteq Goal
  /\ MaxDeaths \in Nat
  /\ Nothing \notin Deal \cup Proof

PreOrderStatus ==
  {"pending", "awaiting_payment", "confirmed", "fulfilled", "cancelled"}
Verdict == {"verified", "rejected"}

\* Mutants of PRE_ORDER_TRANSITIONS: a pre-order whose deposit is under review
\* may be cancelled; a cancelled one may be confirmed.
TransitionsUnderReview ==
  { <<"pending", "confirmed">>,   <<"pending", "cancelled">>,
    <<"confirmed", "fulfilled">>, <<"awaiting_payment", "cancelled">> }
TransitionsReopening ==
  { <<"pending", "confirmed">>,   <<"pending", "cancelled">>,
    <<"confirmed", "fulfilled">>, <<"cancelled", "confirmed">> }

PRE_ORDER_TRANSITIONS ==
  { <<"pending", "confirmed">>,   <<"pending", "cancelled">>,
    <<"confirmed", "fulfilled">>, <<"confirmed", "cancelled">> }

\* A row of Notification about a pre-order.  "submitted", "verified" and
\* "rejected" are about a deposit proof, the rest are statuses.
About  == PreOrderStatus \cup Verdict \cup {"submitted"}
Notice == [to : Users, preOrder : PreOrderIds, about : About]

Idle == [at |-> "idle"]
Request ==
       {Idle}
  \cup [at : {"offer"}, product : Products, next : Offer, columns : SUBSET Column]
  \cup [at : {"percent", "seed", "limit", "insert"}, deal : Deal, limit : Nat]
  \cup [at : {"first"}]
  \cup [at : {"write"}, preOrder : PreOrderIds, goal : Goal, to : Users]
  \cup [at : {"count"}, preOrder : PreOrderIds, to : Users]
  \cup [at : {"open", "claim"}, preOrder : PreOrderIds]
  \cup [at : {"read"}, preOrder : PreOrderIds, proof : ProofIds, verdict : Verdict]
  \cup [at : {"settle", "close"}, preOrder : PreOrderIds, proof : ProofIds,
        verdict : Verdict]
  \cup [at : {"tell"}, notice : Notice]

VARIABLES
  offer,      \* the pre-order columns of Product
  settings,   \* how many rows PlatformSettings has
  status,     \* PreOrder.status; "none" while the row does not exist
  deal,       \* the columns of PreOrder written once
  totalSold,  \* Product.totalSold
  proof,      \* rows of PaymentSubmission for pre-orders
  inbox,      \* rows of Notification
  req,        \* the requests in progress
  deaths      \* how many died between two writes so far

shop == <<offer, settings>>
vars == <<shop, status, deal, totalSold, proof, inbox, req, deaths>>

Init ==
  /\ offer     = [p \in Products |-> NotOffered]
  /\ settings  = 0
  /\ status    = [o \in PreOrderIds |-> "none"]
  /\ deal      = [o \in PreOrderIds |-> Nothing]
  /\ totalSold = [p \in Products |-> 0]
  /\ proof     = [s \in ProofIds |-> Nothing]
  /\ inbox     = {}
  /\ req       = [r \in Requests |-> Idle]
  /\ deaths    = 0

Go(r, x) == req' = [req EXCEPT ![r] = x]
Tell(to, o, about) ==
  [at |-> "tell", notice |-> [to |-> to, preOrder |-> o, about |-> about]]

Seller(o) == SellerOf[deal[o].product]
Pending(s) == proof[s] # Nothing /\ proof[s].status = "pending"
ProofsOf(o) == {s \in ProofIds : proof[s] # Nothing /\ proof[s].preOrder = o}

-----------------------------------------------------------------------------
(* What a product offers: products update, as far as these columns go.     *)

\* normalizePreOrderSettings: without pre-orders the columns are cleared.
Normalized(x) == IF x.open THEN x ELSE NotOffered

\* The row that was read, with the columns that are sent.
Merged(x, sent, columns) ==
  [open  |-> IF "open"  \in columns THEN sent.open  ELSE x.open,
   limit |-> IF "limit" \in columns THEN sent.limit ELSE x.limit,
   terms |-> IF "terms" \in columns THEN sent.terms ELSE x.terms]

\* A deposit that is missing, or larger than the price, only refuses (GiveUp).
UpdateOfferRead(r, p, sent, columns) ==
  /\ req[r] = Idle
  /\ Go(r, [at |-> "offer", product |-> p, columns |-> columns,
            next |-> Merged(offer[p], sent, columns)])
  /\ UNCHANGED <<shop, status, deal, totalSold, proof, inbox, deaths>>

\* isPreOrder is written when it is sent, the other columns always.
UpdateOfferWrite(r) ==
  /\ req[r].at = "offer"
  /\ LET q == req[r]
         x == Normalized(q.next) IN
       offer' = [offer EXCEPT ![q.product] =
                   [x EXCEPT !.open = IF "open" \in q.columns THEN x.open
                                      ELSE offer[q.product].open]]
  /\ Go(r, Idle)
  /\ UNCHANGED <<settings, status, deal, totalSold, proof, inbox, deaths>>

-----------------------------------------------------------------------------
(* PlatformSettings: getSettings inserts the row that it does not find.    *)

\* By whom it is asked for otherwise; updateSettings also writes the row.
SettingsRead(r) ==
  /\ req[r] = Idle /\ settings = 0
  /\ Go(r, [at |-> "first"])
  /\ UNCHANGED <<shop, status, deal, totalSold, proof, inbox, deaths>>

SettingsInsert(r) ==
  /\ req[r].at = "first"
  /\ settings' = settings + 1
  /\ Go(r, Idle)
  /\ UNCHANGED <<offer, status, deal, totalSold, proof, inbox, deaths>>

-----------------------------------------------------------------------------
(* create                                                                  *)

\* The pre-orders that take up the limit of p, and the units they ask for.
Reserved(p) ==
  {o \in PreOrderIds : status[o] \notin {"none", "cancelled"}
                       /\ deal[o].product = p}
Units(S) == MapThenSumSet(LAMBDA o : deal[o].quantity, S)

\* Mutant of Fits: the units asked for now are left out.
FitsReserved(d, limit) == limit # 0 => Units(Reserved(d.product)) < limit
Fits(d, limit) == limit # 0 => Units(Reserved(d.product)) + d.quantity <= limit

\* The product is read once, with its limit.  An inactive product, a passed
\* deadline or a missing deposit amount only refuse (GiveUp).
CreateRead(r, u, p, n) ==
  /\ req[r] = Idle
  /\ offer[p].open /\ SellerOf[p] # u
  /\ Go(r, [at |-> IF offer[p].terms = "default" THEN "percent" ELSE "limit",
            deal |-> [buyer |-> u, product |-> p, quantity |-> n,
                      prepaid |-> offer[p].terms = "prepaid"],
            limit |-> offer[p].limit])
  /\ UNCHANGED <<shop, status, deal, totalSold, proof, inbox, deaths>>

\* resolvePostpaidDepositPercent: the store states a percentage, or the settings
\* do, which may have to be inserted first.
FindPercent(r) ==
  /\ req[r].at = "percent"
  /\ \E next \in {"limit", "seed"} :
       /\ next = "seed" => settings = 0
       /\ Go(r, [req[r] EXCEPT !.at = next])
  /\ UNCHANGED <<shop, status, deal, totalSold, proof, inbox, deaths>>

SeedPercent(r) ==
  /\ req[r].at = "seed"
  /\ settings' = settings + 1
  /\ Go(r, [req[r] EXCEPT !.at = "limit"])
  /\ UNCHANGED <<offer, status, deal, totalSold, proof, inbox, deaths>>

\* The limit is compared with a sum read before the insert.
CheckLimit(r) ==
  /\ req[r].at = "limit"
  /\ Fits(req[r].deal, req[r].limit)
  /\ Go(r, [req[r] EXCEPT !.at = "insert"])
  /\ UNCHANGED <<shop, status, deal, totalSold, proof, inbox, deaths>>

CreateInsert(r, o) ==
  /\ req[r].at = "insert"
  /\ status[o] = "none"
  /\ status' = [status EXCEPT ![o] = "pending"]
  /\ deal'   = [deal EXCEPT ![o] = req[r].deal]
  /\ Go(r, Tell(SellerOf[req[r].deal.product], o, "pending"))
  /\ UNCHANGED <<shop, totalSold, proof, inbox, deaths>>

-----------------------------------------------------------------------------
(* updateStatus and cancelByBuyer                                          *)

UpdateStatusRead(r, u, o, goal) ==
  /\ req[r] = Idle
  /\ status[o] # "none"
  /\ u \in Admins \/ u = Seller(o)
  /\ <<status[o], goal>> \in PRE_ORDER_TRANSITIONS
  /\ Go(r, [at |-> "write", preOrder |-> o, goal |-> goal, to |-> deal[o].buyer])
  /\ UNCHANGED <<shop, status, deal, totalSold, proof, inbox, deaths>>

\* Mutant of CancelByBuyerRead: any pre-order that is not over.
CancelByBuyerReadAny(r, u, o) ==
  /\ req[r] = Idle
  /\ status[o] \notin {"none", "fulfilled", "cancelled"}
  /\ u = deal[o].buyer
  /\ Go(r, [at |-> "write", preOrder |-> o, goal |-> "cancelled", to |-> Seller(o)])
  /\ UNCHANGED <<shop, status, deal, totalSold, proof, inbox, deaths>>

CancelByBuyerRead(r, u, o) ==
  /\ req[r] = Idle
  /\ status[o] = "pending"
  /\ u = deal[o].buyer
  /\ Go(r, [at |-> "write", preOrder |-> o, goal |-> "cancelled", to |-> Seller(o)])
  /\ UNCHANGED <<shop, status, deal, totalSold, proof, inbox, deaths>>

\* The write does not look at the row again.
Write(r) ==
  /\ req[r].at = "write"
  /\ LET q == req[r] IN
       /\ status' = [status EXCEPT ![q.preOrder] = q.goal]
       /\ IF q.goal = "fulfilled"
          THEN Go(r, [at |-> "count", preOrder |-> q.preOrder, to |-> q.to])
          ELSE Go(r, Tell(q.to, q.preOrder, q.goal))
  /\ UNCHANGED <<shop, deal, totalSold, proof, inbox, deaths>>

\* Mutant of Sold: one sale for each pre-order, whatever its quantity.
SoldOnce(o) == 1
Sold(o) == deal[o].quantity

Count(r) ==
  /\ req[r].at = "count"
  /\ LET o == req[r].preOrder IN
       /\ totalSold' = [totalSold EXCEPT ![deal[o].product] = @ + Sold(o)]
       /\ Go(r, Tell(req[r].to, o, "fulfilled"))
  /\ UNCHANGED <<shop, status, deal, proof, inbox, deaths>>

-----------------------------------------------------------------------------
(* The deposit: payment-submissions create and verify, for a pre-order.    *)

\* The checks on the method, the amount, the date and the transaction key only
\* refuse (GiveUp).
SubmitRead(r, u, o) ==
  /\ req[r] = Idle
  /\ status[o] = "pending" /\ deal[o].prepaid
  /\ u = deal[o].buyer
  /\ Go(r, [at |-> "open", preOrder |-> o])
  /\ UNCHANGED <<shop, status, deal, totalSold, proof, inbox, deaths>>

\* findFirst({ status: 'pending', preOrderId })
SubmitCheckOpen(r) ==
  /\ req[r].at = "open"
  /\ \A s \in ProofsOf(req[r].preOrder) : ~Pending(s)
  /\ Go(r, [req[r] EXCEPT !.at = "claim"])
  /\ UNCHANGED <<shop, status, deal, totalSold, proof, inbox, deaths>>

\* The transaction claims the pre-order under a condition and inserts the proof.
SubmitCommit(r, s) ==
  /\ req[r].at = "claim"
  /\ proof[s] = Nothing
  /\ LET o == req[r].preOrder IN
       /\ status[o] = "pending" /\ deal[o].prepaid
       /\ status' = [status EXCEPT ![o] = "awaiting_payment"]
       /\ proof'  = [proof EXCEPT ![s] = [preOrder |-> o, status |-> "pending"]]
       /\ Go(r, Tell(Seller(o), o, "submitted"))
  /\ UNCHANGED <<shop, deal, totalSold, inbox, deaths>>

VerifyRead(r, s, verdict) ==
  /\ req[r] = Idle
  /\ Pending(s)
  /\ Go(r, [at |-> "read", preOrder |-> proof[s].preOrder, proof |-> s,
            verdict |-> verdict])
  /\ UNCHANGED <<shop, status, deal, totalSold, proof, inbox, deaths>>

\* Mutant of VerifyReadPreOrder: the pre-order is written only when the deposit
\* is accepted.
VerifyReadPreOrderAccepted(r, u) ==
  /\ req[r].at = "read"
  /\ LET o == req[r].preOrder IN
       /\ u \in Admins \/ u = Seller(o)
       /\ Go(r, [req[r] EXCEPT !.at =
            IF status[o] = "awaiting_payment" /\ req[r].verdict = "verified"
            THEN "settle" ELSE "close"])
  /\ UNCHANGED <<shop, status, deal, totalSold, proof, inbox, deaths>>

\* A pre-order that does not await this deposit is left alone.
VerifyReadPreOrder(r, u) ==
  /\ req[r].at = "read"
  /\ LET o == req[r].preOrder IN
       /\ u \in Admins \/ u = Seller(o)
       /\ Go(r, [req[r] EXCEPT !.at =
            IF status[o] = "awaiting_payment" THEN "settle" ELSE "close"])
  /\ UNCHANGED <<shop, status, deal, totalSold, proof, inbox, deaths>>

Settled(verdict) == IF verdict = "verified" THEN "confirmed" ELSE "pending"

VerifySettle(r) ==
  /\ req[r].at = "settle"
  /\ status' = [status EXCEPT ![req[r].preOrder] = Settled(req[r].verdict)]
  /\ Go(r, [req[r] EXCEPT !.at = "close"])
  /\ UNCHANGED <<shop, deal, totalSold, proof, inbox, deaths>>

VerifyClose(r) ==
  /\ req[r].at = "close"
  /\ LET q == req[r] IN
       /\ proof' = [proof EXCEPT ![q.proof].status = q.verdict]
       /\ Go(r, Tell(deal[q.preOrder].buyer, q.preOrder, q.verdict))
  /\ UNCHANGED <<shop, status, deal, totalSold, inbox, deaths>>

-----------------------------------------------------------------------------

\* The last step of every request: notifications.create.
TellStep(r) ==
  /\ req[r].at = "tell"
  /\ inbox' = inbox \cup {req[r].notice}
  /\ Go(r, Idle)
  /\ UNCHANGED <<shop, status, deal, totalSold, proof, deaths>>

\* A request ends before it has written anything.
GiveUp(r) ==
  /\ req[r].at \in {"offer", "first", "percent", "seed", "limit", "insert",
                   "write", "open", "claim", "read", "settle"}
  /\ Go(r, Idle)
  /\ UNCHANGED <<shop, status, deal, totalSold, proof, inbox, deaths>>

\* A request dies between two of its writes: what it wrote stays.
Die(r) ==
  /\ req[r].at \in {"count", "close", "tell"}
  /\ deaths < MaxDeaths
  /\ deaths' = deaths + 1
  /\ Go(r, Idle)
  /\ UNCHANGED <<shop, status, deal, totalSold, proof, inbox>>

Begin(r) ==
  \/ \E p \in Products, columns \in Sent :
       \E sent \in Offers[p] : UpdateOfferRead(r, p, sent, columns)
  \/ SettingsRead(r)
  \/ \E u \in Users, p \in Products, n \in Quantities : CreateRead(r, u, p, n)
  \/ \E u \in Users, o \in PreOrderIds :
       \/ \E goal \in Goals : UpdateStatusRead(r, u, o, goal)
       \/ CancelByBuyerRead(r, u, o)
       \/ SubmitRead(r, u, o)
  \/ \E s \in ProofIds, v \in Verdict : VerifyRead(r, s, v)

Step(r) ==
  \/ UpdateOfferWrite(r) \/ SettingsInsert(r)
  \/ FindPercent(r) \/ SeedPercent(r) \/ CheckLimit(r)
  \/ \E o \in PreOrderIds : CreateInsert(r, o)
  \/ Write(r) \/ Count(r)
  \/ SubmitCheckOpen(r)
  \/ \E s \in ProofIds : SubmitCommit(r, s)
  \/ \E u \in Users : VerifyReadPreOrder(r, u)
  \/ VerifySettle(r) \/ VerifyClose(r)
  \/ TellStep(r)

Next == \E r \in Requests : Begin(r) \/ Step(r) \/ GiveUp(r) \/ Die(r)

Spec == Init /\ [][Next]_vars

-----------------------------------------------------------------------------
(* The same, with the requests on one pre-order, the reservations and      *)
(* updates of one product, and the insertions of settings, one at a time.  *)

Holds(r, o) ==
  /\ req[r].at \in {"write", "count", "open", "claim", "read", "settle", "close"}
  /\ req[r].preOrder = o

Concerns(r, p) ==
  \/ /\ req[r].at \in {"percent", "seed", "limit", "insert"}
     /\ req[r].deal.product = p
  \/ req[r].at = "offer" /\ req[r].product = p

Seeds(r) == req[r].at \in {"first", "seed"}

OneAtATime ==
  \A r, t \in Requests : r # t =>
    /\ \A o \in PreOrderIds : ~(Holds(r, o) /\ Holds(t, o))
    /\ \A p \in Products : ~(Concerns(r, p) /\ Concerns(t, p))
    /\ ~(Seeds(r) /\ Seeds(t))

SerialSpec == Init /\ [][Next /\ OneAtATime']_vars

-----------------------------------------------------------------------------
(* Properties.                                                             *)

TypeOK ==
  /\ offer     \in [Products -> Offer]
  /\ settings  \in Nat
  /\ status    \in [PreOrderIds -> PreOrderStatus \cup {"none"}]
  /\ deal      \in [PreOrderIds -> Deal \cup {Nothing}]
  /\ totalSold \in [Products -> Nat]
  /\ proof     \in [ProofIds -> Proof \cup {Nothing}]
  /\ inbox     \in SUBSET Notice
  /\ req       \in [Requests -> Request]
  /\ deaths    \in Nat

\* A pre-order that awaits the review of its deposit has a proof that can still
\* be reviewed.  PRE_ORDER_TRANSITIONS has no way out of awaiting_payment, so
\* without one it would stay there for ever.
AwaitingHasProof ==
  \A o \in PreOrderIds :
    status[o] = "awaiting_payment" => \E s \in ProofsOf(o) : Pending(s)

\* When a reservation is inserted its product is open for pre-orders, on the terms
\* that the reservation has, and its units are within the limit of that moment,
\* although create reads all of these before, and sellers change them.
ReservedAsOffered ==
  [][\A r \in Requests, o \in PreOrderIds, p \in Products :
       CreateInsert(r, o) /\ req[r].deal.product = p =>
         /\ offer[p].open
         /\ deal'[o].prepaid = (offer[p].terms = "prepaid")
         /\ offer[p].limit # 0 => Units(Reserved(p))' <= offer[p].limit]_vars

\* Units of fulfilled pre-orders of p, and those updateStatus has yet to count.
Fulfilled(p) == Units({o \in PreOrderIds : status[o] = "fulfilled"
                                           /\ deal[o].product = p})
Uncounted(p) ==
  Units({o \in PreOrderIds : /\ status[o] # "none" /\ deal[o].product = p
                             /\ \E r \in Requests : req[r].at = "count"
                                                    /\ req[r].preOrder = o})

\* The sales figure of a product is the units of its fulfilled pre-orders: none
\* is counted twice or too early, and only a dead request leaves one out.
SalesExact ==
  \A p \in Products :
    /\ totalSold[p] + Uncounted(p) <= Fulfilled(p)
    /\ deaths = 0 => totalSold[p] + Uncounted(p) = Fulfilled(p)

\* The deposit and the reservation agree unless a review died between its two
\* writes: an accepted deposit has confirmed its pre-order, and no pre-order is
\* cancelled or fulfilled while its deposit is under review.
DepositDecides ==
  deaths = 0 =>
    \A s \in ProofIds : proof[s] # Nothing =>
      /\ proof[s].status = "verified"
           => status[proof[s].preOrder] \in {"confirmed", "fulfilled", "cancelled"}
      /\ Pending(s) => \/ status[proof[s].preOrder] = "awaiting_payment"
                       \/ \E r \in Requests : req[r].at = "close"
                                              /\ req[r].proof = s

\* A pre-order that is fulfilled or cancelled stays so.
OverIsOver ==
  [][\A o \in PreOrderIds :
       status[o] \in {"fulfilled", "cancelled"} => status'[o] = status[o]]_vars
=============================================================================
