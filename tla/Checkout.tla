------------------------------ MODULE Checkout ------------------------------
(***************************************************************************)
(* Carts, coupons and checkout: src/cart/cart.service.ts and              *)
(* src/coupons/coupons.service.ts, composed with the requests of Orders,   *)
(* which take units from the same shelves.                                 *)
(*                                                                         *)
(* A checkout reads the cart, the products and perhaps a coupon, then one  *)
(* `$transaction` reserves everything, redeems the coupon, opens one order *)
(* per seller and empties the cart.  The code groups the cart by seller    *)
(* and takes the store of a group's first line, so a group of the checkout *)
(* and the coupons of its store are named by the seller here.              *)
(***************************************************************************)
EXTENDS Orders

CONSTANTS
  LineIds,      \* ids for rows of CartItem (bounds the lines at a time)
  Quantities,   \* the quantities a buyer may ask for
  Coupons,      \* ids for rows of Coupon
  CouponBy,     \* the seller whose store issues each coupon
  Limits,       \* the values sellers give maxRedemptions
  Unlimited,    \* maxRedemptions = null
  Tills,        \* cart requests the server handles at a time
  NoLine, NoCoupon

ASSUME CheckoutAssumption ==
  /\ Quantities \subseteq Nat \ {0}
  /\ CouponBy \in [Coupons -> Users]
  /\ Limits \subseteq (Nat \ {0}) \cup {Unlimited}
  /\ Unlimited \notin Nat
  /\ NoCoupon \notin Coupons
  /\ NoLine \notin [user : Users, product : Products, quantity : Nat]
  /\ NoLine \notin LineIds

Line   == [user : Users, product : Products, quantity : Nat]
Coupon == [state : {"absent", "issued", "removed"}, isActive : BOOLEAN,
           redemptions : Nat, max : Nat \cup {Unlimited}]

Till ==
       {Idle}
  \cup [at : {"put"}, user : Users, product : Products, quantity : Nat,
        line : LineIds \cup {NoLine}]
  \cup [at : {"change"}, line : LineIds, quantity : Nat]
  \cup [at : {"goods", "pay"}, user : Users, basket : [Products -> Nat],
        coupon : Coupons \cup {NoCoupon}]
  \cup [at : {"tell"}, left : SUBSET Notice]

VARIABLES
  line,     \* rows of CartItem.  The row of Cart holds nothing but its user
            \* and is created on first use, so a cart is named by its user
  coupon,   \* rows of Coupon
  code,     \* Order.couponCode
  till      \* the cart requests in progress

shopVars == <<line, coupon, code, till>>
shop     == <<vars, shopVars>>

ShopInit ==
  /\ Init
  /\ line   = [l \in LineIds |-> NoLine]
  /\ coupon = [c \in Coupons |->
       [state |-> "absent", isActive |-> TRUE, redemptions |-> 0,
        max |-> Unlimited]]
  /\ code   = [o \in OrderIds |-> NoCoupon]
  /\ till   = [t \in Tills |-> Idle]

\* The lines in the cart of u, and those of product p among them.
Cart(u)      == {l \in LineIds : line[l] # NoLine /\ line[l].user = u}
LinesOf(u, p) == {l \in Cart(u) : line[l].product = p}

Serve(t, x) == till' = [till EXCEPT ![t] = x]

-----------------------------------------------------------------------------
(* The lines of a cart.                                                    *)

\* Mutant of AddRead: it does not look for a line of the product.
AddReadBlind(t, u, p, n) ==
  /\ till[t] = Idle
  /\ active[p] /\ SellerOf[p] # u
  /\ n <= stock[p]
  /\ Serve(t, [at |-> "put", user |-> u, product |-> p, quantity |-> n,
               line |-> NoLine])
  /\ UNCHANGED <<vars, line, coupon, code>>

\* addItem reads the product, the cart and the line the product already has.
\* Sold-out marks, pre-order products and menus only refuse (Leave).
AddRead(t, u, p, n) ==
  /\ till[t] = Idle
  /\ active[p] /\ SellerOf[p] # u
  /\ \E l \in IF LinesOf(u, p) = {} THEN {NoLine} ELSE LinesOf(u, p) :
       LET next == IF l = NoLine THEN n ELSE line[l].quantity + n IN
         /\ next <= stock[p]
         /\ Serve(t, [at |-> "put", user |-> u, product |-> p,
                      quantity |-> next, line |-> l])
  /\ UNCHANGED <<vars, line, coupon, code>>

\* An id for a new row: none that a request still remembers.
Unused(l) ==
  /\ line[l] = NoLine
  /\ \A t \in Tills : till[t].at \in {"put", "change"} => till[t].line # l

\* ... and updates that line, if it is still there, or creates one.
AddWrite(t) ==
  /\ till[t].at = "put"
  /\ LET k == till[t] IN
       \/ /\ k.line # NoLine /\ line[k.line] # NoLine
          /\ line' = [line EXCEPT ![k.line].quantity = k.quantity]
       \/ /\ k.line = NoLine
          /\ \E l \in LineIds :
               /\ Unused(l)
               /\ line' = [line EXCEPT ![l] =
                    [user |-> k.user, product |-> k.product,
                     quantity |-> k.quantity]]
  /\ Serve(t, Idle)
  /\ UNCHANGED <<vars, coupon, code>>

\* updateItem
ChangeRead(t, l, n) ==
  /\ till[t] = Idle
  /\ line[l] # NoLine
  /\ active[line[l].product] /\ n <= stock[line[l].product]
  /\ Serve(t, [at |-> "change", line |-> l, quantity |-> n])
  /\ UNCHANGED <<vars, line, coupon, code>>

ChangeWrite(t) ==
  /\ till[t].at = "change"
  /\ line[till[t].line] # NoLine
  /\ line' = [line EXCEPT ![till[t].line].quantity = till[t].quantity]
  /\ Serve(t, Idle)
  /\ UNCHANGED <<vars, coupon, code>>

\* removeItem: the owner of a line never changes, so its check and the delete
\* are one step.
RemoveItem(l) ==
  /\ line[l] # NoLine
  /\ line' = [line EXCEPT ![l] = NoLine]
  /\ UNCHANGED <<vars, coupon, code, till>>

\* The cart after all its lines are deleted.
Emptied(u) == [l \in LineIds |-> IF l \in Cart(u) THEN NoLine ELSE line[l]]

Clear(u) ==
  /\ line' = Emptied(u)
  /\ UNCHANGED <<vars, coupon, code, till>>

-----------------------------------------------------------------------------
(* Coupons, as their seller manages them.                                  *)

CreateCoupon(c, m) ==
  /\ coupon[c].state = "absent"
  /\ coupon' = [coupon EXCEPT ![c].state = "issued", ![c].max = m]
  /\ UNCHANGED <<vars, line, code, till>>

\* A limit may be set below what was redeemed already, or taken away.
UpdateCoupon(c, m, on) ==
  /\ coupon[c].state = "issued"
  /\ coupon' = [coupon EXCEPT ![c].max = m, ![c].isActive = on]
  /\ UNCHANGED <<vars, line, code, till>>

RemoveCoupon(c) ==
  /\ coupon[c].state = "issued"
  /\ coupon' = [coupon EXCEPT ![c].state = "removed"]
  /\ UNCHANGED <<vars, line, code, till>>

-----------------------------------------------------------------------------
(* checkout.                                                               *)

\* Mutant of BasketOf: every line counts as one unit.
BasketOfOnes(u) == [p \in Products |-> Cardinality(LinesOf(u, p))]

\* What the lines of u ask for, when there is one line per product.
BasketOf(u) ==
  [p \in Products |->
     IF LinesOf(u, p) = {} THEN 0
     ELSE line[CHOOSE l \in LinesOf(u, p) : TRUE].quantity]

\* checkout reads the lines.  It refuses when there are fewer products than lines.
CheckoutRead(t, u) ==
  /\ till[t] = Idle
  /\ Cart(u) # {}
  /\ \A p \in Products : Cardinality(LinesOf(u, p)) <= 1
  /\ Serve(t, [at |-> "goods", user |-> u, basket |-> BasketOf(u),
               coupon |-> NoCoupon])
  /\ UNCHANGED <<vars, line, coupon, code>>

\* The products a checkout names, and their sellers.
InBasket(k) == {p \in Products : k.basket[p] > 0}
Groups(k)   == {SellerOf[p] : p \in InBasket(k)}

\* ... and then their products.  Stores, hours and menus only refuse (Leave).
CheckoutGoods(t) ==
  /\ till[t].at = "goods"
  /\ \A p \in InBasket(till[t]) :
       /\ active[p] /\ SellerOf[p] # till[t].user
       /\ till[t].basket[p] <= stock[p]
  /\ Serve(t, [till[t] EXCEPT !.at = "pay"])
  /\ UNCHANGED <<vars, line, coupon, code>>

BelowLimit(c) ==
  coupon[c].max # Unlimited => coupon[c].redemptions < coupon[c].max

\* findRedeemable; its dates and its minimum only refuse.
Redeemable(c) ==
  coupon[c].state = "issued" /\ coupon[c].isActive /\ BelowLimit(c)

\* The coupon whose code the buyer sent.
FindCoupon(t, c) ==
  /\ till[t].at = "pay" /\ till[t].coupon = NoCoupon
  /\ CouponBy[c] \in Groups(till[t])
  /\ Redeemable(c)
  /\ Serve(t, [till[t] EXCEPT !.coupon = c])
  /\ UNCHANGED <<vars, line, coupon, code>>

\* Mutant of Redeem: every group of the checkout redeems the coupon.
RedeemPerGroup(k) ==
  IF k.coupon = NoCoupon THEN UNCHANGED coupon
  ELSE /\ coupon[k.coupon].state = "issued" /\ BelowLimit(k.coupon)
       /\ coupon' = [coupon EXCEPT ![k.coupon].redemptions =
                        @ + Cardinality(Groups(k))]

\* The transaction reads the limit of the coupon again, and only that.
Redeem(k) ==
  IF k.coupon = NoCoupon THEN UNCHANGED coupon
  ELSE /\ coupon[k.coupon].state = "issued" /\ BelowLimit(k.coupon)
       /\ coupon' = [coupon EXCEPT ![k.coupon].redemptions = @ + 1]

\* The order of one seller's group.
TermsFor(k, s) ==
  [buyer |-> k.user, seller |-> s,
   items |-> [p \in Products |-> IF SellerOf[p] = s THEN k.basket[p] ELSE 0]]

\* One order for each group: g names the seller of each new order.
OpenAll(O, g, k) ==
  /\ status'  = [o \in OrderIds |-> IF o \in O THEN "pending" ELSE status[o]]
  /\ terms'   = [o \in OrderIds |->
                   IF o \in O THEN TermsFor(k, g[o]) ELSE terms[o]]
  /\ history' = [o \in OrderIds |-> IF o \in O THEN {"pending"} ELSE history[o]]
  /\ code'    = [o \in OrderIds |->
                   IF o \in O /\ k.coupon # NoCoupon /\ CouponBy[k.coupon] = g[o]
                   THEN k.coupon ELSE code[o]]
  /\ UNCHANGED <<payment, restored>>

\* The transaction: all of it or nothing.  It deletes every line the cart has by
\* now.
CheckoutCommit(t) ==
  /\ till[t].at = "pay"
  /\ LET k == till[t] IN
       /\ CanReserve([items |-> k.basket])
       /\ stock' = [p \in Products |-> stock[p] - k.basket[p]]
       /\ Redeem(k)
       /\ line' = Emptied(k.user)
       /\ \E O \in SUBSET {o \in OrderIds : status[o] = "none"} :
          \E g \in Bijection(O, Groups(k)) :
            /\ OpenAll(O, g, k)
            /\ Serve(t, [at |-> "tell", left |->
                 {[to |-> g[o], order |-> o, about |-> "pending"] : o \in O}])
  /\ UNCHANGED <<totalSold, active, inbox, req>>

TellSeller(t) ==
  /\ till[t].at = "tell"
  /\ \E n \in till[t].left :
       /\ inbox' = inbox \cup {n}
       /\ Serve(t, IF till[t].left = {n} THEN Idle
                   ELSE [till[t] EXCEPT !.left = @ \ {n}])
  /\ UNCHANGED <<goods, rows, req, line, coupon, code>>

\* Mutant of Leave: the units of the first group stay reserved when the order of
\* a later group cannot be placed.
LeaveHalf(t) ==
  /\ till[t].at = "pay"
  /\ Serve(t, Idle)
  /\ \E s \in Groups(till[t]) :
       LET items == TermsFor(till[t], s).items IN
         /\ CanReserve([items |-> items])
         /\ stock' = [p \in Products |-> stock[p] - items[p]]
  /\ UNCHANGED <<totalSold, active, rows, inbox, req, line, coupon, code>>

\* A cart request ends early: refused (a menu that is not served now), aborted or
\* dead.
Leave(t) ==
  /\ till[t] # Idle
  /\ Serve(t, Idle)
  /\ UNCHANGED <<vars, line, coupon, code>>

TillNext(t) ==
  \/ \E u \in Users \ Admins :
       \/ \E p \in Products, n \in Quantities : AddRead(t, u, p, n)
       \/ CheckoutRead(t, u)
  \/ \E l \in LineIds, n \in Quantities : ChangeRead(t, l, n)
  \/ AddWrite(t) \/ ChangeWrite(t) \/ CheckoutGoods(t)
  \/ \E c \in Coupons : FindCoupon(t, c)
  \/ CheckoutCommit(t) \/ TellSeller(t) \/ Leave(t)

ShopNext ==
  \/ Next /\ UNCHANGED shopVars
  \/ \E t \in Tills : TillNext(t)
  \/ \E l \in LineIds : RemoveItem(l)
  \/ \E u \in Users \ Admins : Clear(u)
  \/ \E c \in Coupons, m \in Limits :
       CreateCoupon(c, m) \/ \E on \in BOOLEAN : UpdateCoupon(c, m, on)
  \/ \E c \in Coupons : RemoveCoupon(c)

ShopSpec == ShopInit /\ [][ShopNext]_shop

-----------------------------------------------------------------------------
(* One request on a cart at a time: what a buyer with one window does, and  *)
(* what the code takes for granted.                                        *)

\* Whose cart request t works on.
Holder(t) ==
  IF till[t].at = "change"
  THEN {u \in Users : line[till[t].line] # NoLine /\ line[till[t].line].user = u}
  ELSE IF till[t].at \in {"put", "goods", "pay"} THEN {till[t].user} ELSE {}

OneCartRequest ==
  \A t1, t2 \in Tills : t1 # t2 => Holder(t1) \cap Holder(t2) = {}

\* Lines come and go only by the request that holds their cart, or by one that
\* finds nobody holding it.
CartsInTurn ==
  /\ OneCartRequest'
  /\ \A l \in LineIds : line[l] # NoLine /\ line'[l] # line[l] =>
       \A t \in Tills : line[l].user \in Holder(t) => till'[t] # till[t]

ShopSerialSpec == ShopInit /\ [][ShopNext /\ CartsInTurn]_shop

-----------------------------------------------------------------------------
(* Properties.                                                             *)

ShopTypeOK ==
  /\ TypeOK
  /\ line   \in [LineIds -> Line \cup {NoLine}]
  /\ coupon \in [Coupons -> Coupon]
  /\ code   \in [OrderIds -> Coupons \cup {NoCoupon}]
  /\ till   \in [Tills -> Till]

\* A cart has one line for each product: with two, checkout refuses the cart
\* for ever.
OneLinePerProduct ==
  \A u \in Users, p \in Products : Cardinality(LinesOf(u, p)) <= 1

UnitsInCart(u, p) == MapThenSumSet(LAMBDA l : line[l].quantity, LinesOf(u, p))

\* What a checkout orders is what it takes out of the cart: no line is deleted
\* without having been ordered, none is ordered in another quantity.
CartIsOrdered ==
  [][\A t \in Tills : CheckoutCommit(t) =>
       \A p \in Products :
         till[t].basket[p] = UnitsInCart(till[t].user, p)]_shop

\* A redemption is counted for every order that carries the coupon, and for
\* nothing else, however checkouts overlap and fail.
RedemptionsAreOrders ==
  \A c \in Coupons :
    coupon[c].redemptions = Cardinality({o \in OrderIds : code[o] = c})
=============================================================================
