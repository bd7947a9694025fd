----------------------------- MODULE ShopProofs -----------------------------
(***************************************************************************)
(* What the order book (Orders) and the two compositions over it promise,  *)
(* the one with carts and coupons (Checkout) and the one with payment      *)
(* proofs (OrderPayments), whatever the users, products, baskets, orders   *)
(* and requests are: first however requests overlap, then when those on    *)
(* one order or one cart are served one at a time.  The theorems of a part *)
(* say nothing of the variables of the other parts.                        *)
(***************************************************************************)
EXTENDS Checkout, OrderPayments, SequenceTheorems, Sums

(***************************************************************************)
(* Part 1.  Orders.                                                        *)
(***************************************************************************)

-----------------------------------------------------------------------------
(* Type correctness.  TypeOK is not inductive: a commit reads the terms of *)
(* its order, so the order must exist; Notify reads the head of what is    *)
(* left to tell, so something must be left.                                *)

RowsExist ==
  /\ \A o \in OrderIds : status[o] # "none" => terms[o] \in Terms
  /\ \A r \in Requests :
       req[r].at \in {"recheck", "commit"} => status[req[r].order] # "none"
  /\ \A r \in Requests : req[r].at = "notify" => Len(req[r].left) > 0

Typed == TypeOK /\ RowsExist

\* A request in a given stage has the fields of that stage.
LEMMA StageType ==
  ASSUME TypeOK, NEW r \in Requests
  PROVE  /\ req[r].at = "reserve" => req[r] \in [at : {"reserve"}, terms : Terms]
         /\ req[r].at = "recheck" => req[r] \in [at : {"recheck"}, order : OrderIds]
         /\ req[r].at = "commit" =>
              req[r] \in [at : {"commit"}, order : OrderIds, goal : OrderStatus,
                          seen : Row, byBuyer : BOOLEAN]
         /\ req[r].at = "notify" => req[r] \in [at : {"notify"}, left : Seq(Notice)]
  BY DEF TypeOK, Request, Idle

LEMMA NoticesOfType ==
  ASSUME NEW q, q.order \in OrderIds, q.goal \in OrderStatus,
         terms[q.order] \in Terms
  PROVE  NoticesOf(q) \in Seq(Notice) /\ Len(NoticesOf(q)) > 0
<1> DEFINE b == Telling(terms[q.order].buyer, q)
           s == Telling(terms[q.order].seller, q)
<1>1. b \in Notice /\ s \in Notice
  BY DEF Telling, Notice, Terms
<1>2. <<b, s>> \in Seq(Notice) /\ <<b>> \in Seq(Notice)
  BY <1>1
<1>3. Len(<<b, s>>) > 0 /\ Len(<<b>>) > 0
  OBVIOUS
<1> QED
  BY <1>2, <1>3 DEF NoticesOf

LEMMA TypedInit == Init => Typed
  BY OrdersAssumption DEF Init, Typed, TypeOK, RowsExist, Request, Idle,
     OrderStatus, PaymentStatus, Terms

LEMMA TypedCreateRead ==
  ASSUME Typed, NEW r \in Requests, NEW u \in Users, NEW b \in Baskets,
         CreateRead(r, u, b)
  PROVE  Typed'
<1>1. b.total \in [Products -> Nat]
  BY OrdersAssumption DEF IsBasket
<1>2. PICK t \in Terms : req' = [req EXCEPT ![r] = [at |-> "reserve", terms |-> t]]
  BY <1>1 DEF CreateRead, Terms
<1>3. req' \in [Requests -> Request]
  BY <1>2 DEF Typed, TypeOK, Request
<1>4. UNCHANGED <<goods, rows, inbox>>
  BY DEF CreateRead
<1> QED
  BY <1>2, <1>3, <1>4 DEF Typed, TypeOK, RowsExist, goods, rows

LEMMA TypedCreateCommit ==
  ASSUME Typed, NEW r \in Requests, NEW o \in OrderIds, CreateCommit(r, o)
  PROVE  Typed'
<1> DEFINE t == req[r].terms
<1>1. t \in Terms
  BY StageType DEF CreateCommit, Typed
<1>2. stock' \in [Products -> Nat]
  BY <1>1 DEF CreateCommit, CanReserve, Terms, Typed, TypeOK
<1> DEFINE n == [to |-> t.seller, order |-> o, about |-> "pending"]
           x == [at |-> "notify", left |-> <<n>>]
<1>n. n \in Notice
  BY <1>1 DEF Notice, Terms, OrderStatus
<1>x. x \in Request /\ x.at = "notify" /\ Len(x.left) > 0
  BY <1>n DEF Request
<1> HIDE DEF n
<1>r. req' = [req EXCEPT ![r] = x]
  BY DEF CreateCommit, n
<1> HIDE DEF x
<1>3. req' \in [Requests -> Request] /\ Len(req'[r].left) > 0
  BY <1>x, <1>r DEF Typed, TypeOK
<1>4. status' \in [OrderIds -> OrderStatus \cup {"none"}]
      /\ terms' \in [OrderIds -> Terms \cup {NoTerms}]
      /\ history' \in [OrderIds -> SUBSET OrderStatus]
  BY <1>1 DEF CreateCommit, Open, Typed, TypeOK, OrderStatus
<1>5. TypeOK'
  BY <1>2, <1>3, <1>4 DEF CreateCommit, Open, Typed, TypeOK
<1>6. RowsExist'
  <2>1. \A p \in OrderIds : status'[p] # "none" => terms'[p] \in Terms
    BY <1>1 DEF CreateCommit, Open, Typed, TypeOK, RowsExist
  <2>2. \A p \in OrderIds : status'[p] = "none" => status[p] = "none"
    BY DEF CreateCommit, Open, Typed, TypeOK
  <2>3. \A k \in Requests :
         req'[k].at \in {"recheck", "commit"} => status'[req'[k].order] # "none"
    BY <1>x, <1>r, <2>2, StageType DEF Typed, TypeOK, RowsExist
  <2>4. \A k \in Requests : req'[k].at = "notify" => Len(req'[k].left) > 0
    BY <1>x, <1>r DEF Typed, TypeOK, RowsExist
  <2> QED
    BY <2>1, <2>3, <2>4 DEF RowsExist
<1> QED
  BY <1>5, <1>6 DEF Typed

\* What the checks and the choice of the user leave to the next step.
LEMMA TypedCommitting ==
  ASSUME Typed, NEW o \in OrderIds, status[o] # "none",
         NEW goal \in OrderStatus, NEW byBuyer \in BOOLEAN
  PROVE  Committing(o, goal, byBuyer) \in Request
  BY DEF Committing, RowOf, Row, Request, Typed, TypeOK

LEMMA TypedReads ==
  ASSUME Typed, NEW r \in Requests, NEW x \in Request,
         x.at \in {"recheck", "commit"} => status[x.order] # "none",
         x.at = "notify" => Len(x.left) > 0,
         req' = [req EXCEPT ![r] = x], UNCHANGED <<goods, rows>>,
         inbox' \in SUBSET Notice
  PROVE  Typed'
<1>1. TypeOK'
  BY DEF Typed, TypeOK, goods, rows
<1>2. RowsExist'
  BY DEF Typed, TypeOK, RowsExist, goods, rows
<1> QED
  BY <1>1, <1>2 DEF Typed

LEMMA TypedUpdateStatusRead ==
  ASSUME Typed, NEW r \in Requests, NEW u \in Users, NEW o \in OrderIds,
         NEW goal \in Goals, UpdateStatusRead(r, u, o, goal)
  PROVE  Typed'
<1>1. goal \in OrderStatus
  BY OrdersAssumption DEF OrderStatus
<1>2. Committing(o, goal, FALSE) \in Request
  BY <1>1, TypedCommitting DEF UpdateStatusRead
<1>3. inbox' \in SUBSET Notice
  BY DEF UpdateStatusRead, Typed, TypeOK
<1>4. /\ Committing(o, goal, FALSE).at = "commit"
      /\ Committing(o, goal, FALSE).order = o
  BY DEF Committing
<1> QED
  BY <1>2, <1>3, <1>4, TypedReads DEF UpdateStatusRead

LEMMA TypedCancelByBuyerRead ==
  ASSUME Typed, NEW r \in Requests, NEW u \in Users, NEW o \in OrderIds,
         CancelByBuyerRead(r, u, o)
  PROVE  Typed'
<1> DEFINE x == [at |-> "recheck", order |-> o]
<1>1. x \in Request
  BY DEF Request
<1>2. inbox' \in SUBSET Notice
  BY DEF CancelByBuyerRead, Typed, TypeOK
<1> QED
  BY <1>1, <1>2, TypedReads DEF CancelByBuyerRead

LEMMA TypedCancelByBuyerRecheck ==
  ASSUME Typed, NEW r \in Requests, CancelByBuyerRecheck(r)
  PROVE  Typed'
<1> DEFINE o == req[r].order
           x == Committing(o, "cancelled", TRUE)
<1>1. o \in OrderIds
  BY StageType DEF CancelByBuyerRecheck, Typed
<1>2. status[o] # "none"
  BY DEF CancelByBuyerRecheck, Typed, RowsExist
<1>3. x \in Request
  BY <1>1, <1>2, TypedCommitting DEF OrderStatus
<1>4. x.at = "commit" /\ x.order = o
  BY DEF Committing
<1>5. inbox' \in SUBSET Notice
  BY DEF CancelByBuyerRecheck, Typed, TypeOK
<1> QED
  BY <1>2, <1>3, <1>4, <1>5, TypedReads DEF CancelByBuyerRecheck

LEMMA TypedUpdateStatusCommit ==
  ASSUME Typed, NEW r \in Requests, UpdateStatusCommit(r)
  PROVE  Typed'
<1> DEFINE q == req[r]
           units == terms[q.order].items
<1>1. q \in [at : {"commit"}, order : OrderIds, goal : OrderStatus,
             seen : Row, byBuyer : BOOLEAN]
  BY StageType DEF UpdateStatusCommit, Typed
<1>2. terms[q.order] \in Terms
  BY <1>1 DEF UpdateStatusCommit, Typed, RowsExist
<1>3. units \in [Products -> Nat]
  BY <1>2 DEF Terms
<1>4. stock' \in [Products -> Nat] /\ totalSold' \in [Products -> Nat]
  BY <1>3 DEF UpdateStatusCommit, Typed, TypeOK
<1>5. /\ status' = [status EXCEPT ![q.order] = q.goal]
      /\ restored' = [restored EXCEPT ![q.order] = RestoredAfter(q)]
      /\ history' = [history EXCEPT ![q.order] = @ \cup {q.goal}]
      /\ UNCHANGED <<active, payment, terms, inbox>>
  BY DEF UpdateStatusCommit, Record
<1>6. RestoredAfter(q) \in BOOLEAN
  BY <1>1 DEF RestoredAfter, Row
<1> DEFINE x == [at |-> "notify", left |-> NoticesOf(q)]
<1>7. NoticesOf(q) \in Seq(Notice) /\ Len(NoticesOf(q)) > 0
  BY <1>1, <1>2, NoticesOfType
<1>8. x \in Request /\ x.at = "notify" /\ Len(x.left) > 0
  BY <1>7 DEF Request
<1>9. req' = [req EXCEPT ![r] = x]
  BY DEF UpdateStatusCommit
<1> HIDE DEF x
<1>10. TypeOK'
  BY <1>1, <1>4, <1>5, <1>6, <1>8, <1>9 DEF Typed, TypeOK
<1>11. \A p \in OrderIds : status'[p] = "none" => status[p] = "none"
  BY <1>1, <1>5 DEF Typed, TypeOK, OrderStatus
<1>12. RowsExist'
  <2>1. \A p \in OrderIds : status'[p] # "none" => terms'[p] \in Terms
    BY <1>1, <1>2, <1>5 DEF Typed, TypeOK, RowsExist
  <2>2. \A k \in Requests :
         req'[k].at \in {"recheck", "commit"} => status'[req'[k].order] # "none"
    BY <1>8, <1>9, <1>11, StageType DEF Typed, TypeOK, RowsExist
  <2>3. \A k \in Requests : req'[k].at = "notify" => Len(req'[k].left) > 0
    BY <1>8, <1>9 DEF Typed, TypeOK, RowsExist
  <2> QED
    BY <2>1, <2>2, <2>3 DEF RowsExist
<1> QED
  BY <1>10, <1>12 DEF Typed

LEMMA TypedNotify ==
  ASSUME Typed, NEW r \in Requests, Notify(r)
  PROVE  Typed'
<1> DEFINE l == req[r].left
           y == [at |-> "notify", left |-> Tail(l)]
           x == IF Len(l) = 1 THEN Idle ELSE y
<1>1. l \in Seq(Notice) /\ Len(l) > 0
  BY StageType DEF Notify, Typed, RowsExist
<1>2. Head(l) \in Notice /\ Tail(l) \in Seq(Notice)
  BY <1>1
<1>3. Len(l) # 1 => Len(Tail(l)) > 0
  <2> DEFINE n == Len(l)
             k == Len(Tail(l))
  <2>1. n \in Nat /\ n > 0
    BY <1>1, LenProperties
  <2>2. l # <<>>
    BY <1>1, EmptySeq
  <2>3. k = n - 1
    BY <1>1, <2>2, HeadTailProperties
  <2> HIDE DEF n, k
  <2>4. n # 1 => k > 0
    BY <2>1, <2>3
  <2> QED
    BY <2>4 DEF n, k
<1>4. y \in Request
  BY <1>2 DEF Request
<1>5. x \in Request /\ x.at \in {"idle", "notify"}
      /\ (x.at = "notify" => Len(x.left) > 0)
  BY <1>3, <1>4 DEF Request, Idle
<1>6. req' = [req EXCEPT ![r] = x]
  BY DEF Notify, Typed, TypeOK
<1>7. inbox' \in SUBSET Notice /\ UNCHANGED <<goods, rows>>
  BY <1>2 DEF Notify, Typed, TypeOK
<1> HIDE DEF x
<1> QED
  BY <1>5, <1>6, <1>7, TypedReads

LEMMA TypedFail ==
  ASSUME Typed, NEW r \in Requests, Fail(r)
  PROVE  Typed'
<1>1. inbox' \in SUBSET Notice
  BY DEF Fail, Typed, TypeOK
<1>2. Idle \in Request /\ Idle.at = "idle"
  BY DEF Request, Idle
<1> QED
  BY <1>1, <1>2, TypedReads DEF Fail

LEMMA TypedSetActive ==
  ASSUME Typed, NEW p \in Products, SetActive(p)
  PROVE  Typed'
<1>1. active' \in [Products -> BOOLEAN]
  BY DEF SetActive, Typed, TypeOK
<1> QED
  BY <1>1 DEF SetActive, Typed, TypeOK, RowsExist, rows

LEMMA TypedStep == Typed /\ [Next]_vars => Typed'
<1> SUFFICES ASSUME Typed, [Next]_vars PROVE Typed'
  OBVIOUS
<1>1. CASE UNCHANGED vars
  BY <1>1 DEF Typed, TypeOK, RowsExist, vars, goods, rows
<1>2. ASSUME NEW r \in Requests, Begin(r)  PROVE Typed'
  BY <1>2, TypedCreateRead, TypedUpdateStatusRead, TypedCancelByBuyerRead
     DEF Begin
<1>3. ASSUME NEW r \in Requests, Step(r)  PROVE Typed'
  BY <1>3, TypedCreateCommit, TypedCancelByBuyerRecheck,
     TypedUpdateStatusCommit, TypedNotify DEF Step
<1> QED
  BY <1>1, <1>2, <1>3, TypedFail, TypedSetActive DEF Next, Work

\* The requests of Orders never touch Order.paymentStatus, and delete no order.
LEMMA OrdersKeep ==
  ASSUME Typed, Next
  PROVE  /\ payment' = payment
         /\ \A o \in OrderIds : status[o] # "none" => status'[o] # "none"
<1>1. ASSUME NEW r \in Requests, Begin(r) \/ Fail(r)
      PROVE  UNCHANGED <<payment, status>>
  BY <1>1 DEF Begin, CreateRead, UpdateStatusRead, CancelByBuyerRead, Fail, rows
<1>2. ASSUME NEW p \in Products, SetActive(p)
      PROVE  UNCHANGED <<payment, status>>
  BY <1>2 DEF SetActive, rows
<1>3. ASSUME NEW r \in Requests, NEW o \in OrderIds, CreateCommit(r, o)
      PROVE  payment' = payment /\ status' = [status EXCEPT ![o] = "pending"]
  BY <1>3 DEF CreateCommit, Open
<1>4. ASSUME NEW r \in Requests, CancelByBuyerRecheck(r) \/ Notify(r)
      PROVE  UNCHANGED <<payment, status>>
  BY <1>4 DEF CancelByBuyerRecheck, Notify, rows
<1>5. ASSUME NEW r \in Requests, UpdateStatusCommit(r)
      PROVE  /\ payment' = payment
             /\ status' = [status EXCEPT ![req[r].order] = req[r].goal]
             /\ req[r].goal \in OrderStatus
  BY <1>5, StageType DEF UpdateStatusCommit, Typed
<1>6. "none" \notin OrderStatus /\ status \in [OrderIds -> OrderStatus \cup {"none"}]
  BY DEF OrderStatus, Typed, TypeOK
<1>7. ASSUME NEW r \in Requests, Step(r)
      PROVE  /\ payment' = payment
             /\ \A o \in OrderIds : status[o] # "none" => status'[o] # "none"
  BY <1>3, <1>4, <1>5, <1>6, <1>7 DEF Step
<1> QED
  BY <1>1, <1>2, <1>7 DEF Next, Work

\* Whatever requests overlap, every column keeps its type: stock is never
\* negative, and every request acts on an order that exists.
THEOREM TypeCorrect == Spec => []TypeOK
<1>1. Typed => TypeOK
  BY DEF Typed
<1> QED
  BY <1>1, TypedInit, TypedStep, PTL DEF Spec

-----------------------------------------------------------------------------
(* The flag, the history and the notifications.  The notices still to be   *)
(* written must be true as well, and an order without a row has no history *)
(* that its insert could replace.                                          *)

NoticesLeftAreTrue ==
  \A r \in Requests : req[r].at = "notify" =>
    \A i \in 1 .. Len(req[r].left) :
      req[r].left[i].about \in history[req[r].left[i].order]

NoRowNoHistory ==
  \A o \in OrderIds : status[o] = "none" => history[o] = {}

Recorded ==
  /\ Typed
  /\ CancelledIsRestored
  /\ StatusIsRecorded
  /\ NoRowNoHistory
  /\ NoticesLeftAreTrue
  /\ NoticesAreTrue

LEMMA RecordedInit == Init => Recorded
  BY TypedInit DEF Init, Recorded, CancelledIsRestored, StatusIsRecorded,
     NoRowNoHistory, NoticesLeftAreTrue, NoticesAreTrue, Idle

\* A step that only begins, goes on with or ends a request.
LEMMA RecordedReads ==
  ASSUME Recorded, Typed', NEW r \in Requests, NEW x, x.at # "notify",
         req' = [req EXCEPT ![r] = x], UNCHANGED <<goods, rows, inbox>>
  PROVE  Recorded'
<1>1. NoticesLeftAreTrue'
  BY DEF Recorded, NoticesLeftAreTrue, rows, Typed, TypeOK
<1> QED
  BY <1>1 DEF Recorded, CancelledIsRestored, StatusIsRecorded, NoRowNoHistory,
     NoticesAreTrue, rows

\* The histories only grow, and what a commit tells is in them.
LEMMA RecordedCommits ==
  ASSUME Recorded, Typed', NEW r \in Requests, NEW x,
         req' = [req EXCEPT ![r] = x],
         \A o \in OrderIds : history[o] \subseteq history'[o],
         \A i \in 1 .. Len(x.left) : x.left[i].about \in history'[x.left[i].order],
         CancelledIsRestored', StatusIsRecorded', NoRowNoHistory',
         UNCHANGED inbox
  PROVE  Recorded'
<1>1. NoticesAreTrue'
  BY DEF Recorded, NoticesAreTrue, Typed, TypeOK, Notice
<1>2. ASSUME NEW k \in Requests, req'[k].at = "notify",
             NEW i \in 1 .. Len(req'[k].left)
      PROVE  req'[k].left[i].about \in history'[req'[k].left[i].order]
  <2>1. CASE k = r
    BY <1>2, <2>1 DEF Recorded, Typed, TypeOK
  <2>2. CASE k # r
    <3>1. req'[k] = req[k]
      BY <2>2 DEF Recorded, Typed, TypeOK
    <3>2. req[k].left \in Seq(Notice)
      BY <1>2, <3>1, StageType DEF Recorded, Typed
    <3>3. req[k].left[i] \in Notice
      BY <1>2, <3>1, <3>2
    <3> QED
      BY <1>2, <3>1, <3>3 DEF Recorded, NoticesLeftAreTrue, Notice
  <2> QED
    BY <2>1, <2>2
<1>3. NoticesLeftAreTrue'
  BY <1>2 DEF NoticesLeftAreTrue
<1> QED
  BY <1>1, <1>3 DEF Recorded

LEMMA RecordedCreateCommit ==
  ASSUME Recorded, Typed', NEW r \in Requests, NEW o \in OrderIds,
         CreateCommit(r, o)
  PROVE  Recorded'
<1> DEFINE n == [to |-> req[r].terms.seller, order |-> o, about |-> "pending"]
           x == [at |-> "notify", left |-> <<n>>]
<1>1. /\ status[o] = "none" /\ history[o] = {}
      /\ status' = [status EXCEPT ![o] = "pending"]
      /\ history' = [history EXCEPT ![o] = {"pending"}]
      /\ UNCHANGED <<restored, inbox>>
      /\ req' = [req EXCEPT ![r] = x]
  BY DEF CreateCommit, Open, Recorded, NoRowNoHistory
<1>2. \A p \in OrderIds : history[p] \subseteq history'[p]
  BY <1>1 DEF Recorded, Typed, TypeOK
<1>3. \A i \in 1 .. Len(x.left) : x.left[i].about \in history'[x.left[i].order]
  <2>1. n.about \in history'[n.order]
    BY <1>1 DEF Recorded, Typed, TypeOK
  <2> HIDE DEF n
  <2>2. Len(x.left) = 1 /\ x.left[1] = n
    OBVIOUS
  <2> QED
    BY <2>1, <2>2
<1>4. CancelledIsRestored' /\ StatusIsRecorded' /\ NoRowNoHistory'
  BY <1>1 DEF Recorded, Typed, TypeOK, CancelledIsRestored, StatusIsRecorded,
     NoRowNoHistory
<1> HIDE DEF x
<1> QED
  BY <1>1, <1>2, <1>3, <1>4, RecordedCommits

LEMMA RecordedUpdateStatusCommit ==
  ASSUME Recorded, Typed', NEW r \in Requests, UpdateStatusCommit(r)
  PROVE  Recorded'
<1> DEFINE q == req[r]
           x == [at |-> "notify", left |-> NoticesOf(q)]
<1>1. q \in [at : {"commit"}, order : OrderIds, goal : OrderStatus,
             seen : Row, byBuyer : BOOLEAN]
  BY StageType DEF UpdateStatusCommit, Recorded, Typed
<1>2. /\ status' = [status EXCEPT ![q.order] = q.goal]
      /\ restored' = [restored EXCEPT ![q.order] = RestoredAfter(q)]
      /\ history' = [history EXCEPT ![q.order] = @ \cup {q.goal}]
      /\ req' = [req EXCEPT ![r] = x]
      /\ UNCHANGED inbox
  BY DEF UpdateStatusCommit, Record
<1>3. q.goal = "cancelled" => RestoredAfter(q)
  BY DEF RestoredAfter
<1>4. \A p \in OrderIds : history[p] \subseteq history'[p]
  BY <1>1, <1>2 DEF Recorded, Typed, TypeOK
<1>5. CancelledIsRestored' /\ StatusIsRecorded' /\ NoRowNoHistory'
  BY <1>1, <1>2, <1>3 DEF Recorded, Typed, TypeOK, CancelledIsRestored,
     StatusIsRecorded, NoRowNoHistory, OrderStatus
<1>6. \A i \in 1 .. Len(x.left) : x.left[i].about \in history'[x.left[i].order]
  <2> DEFINE b == Telling(terms[q.order].buyer, q)
             s == Telling(terms[q.order].seller, q)
  <2>1. /\ b.about \in history'[b.order]
        /\ s.about \in history'[s.order]
    BY <1>1, <1>2 DEF Telling, Recorded, Typed, TypeOK
  <2>2. NoticesOf(q) = <<b, s>> \/ NoticesOf(q) = <<b>>
    BY DEF NoticesOf
  <2> HIDE DEF b, s, q
  <2>3. ASSUME NEW i \in 1 .. Len(NoticesOf(q))
        PROVE  NoticesOf(q)[i] = b \/ NoticesOf(q)[i] = s
    BY <2>2, <2>3
  <2> QED
    BY <2>1, <2>3
<1> HIDE DEF x
<1> QED
  BY <1>2, <1>4, <1>5, <1>6, RecordedCommits

LEMMA RecordedNotify ==
  ASSUME Recorded, Typed', NEW r \in Requests, Notify(r)
  PROVE  Recorded'
<1> DEFINE l == req[r].left
           t == Tail(l)
           y == [at |-> "notify", left |-> t]
           x == IF Len(l) = 1 THEN Idle ELSE y
<1>1. l \in Seq(Notice) /\ Len(l) > 0
  BY StageType DEF Notify, Recorded, Typed, RowsExist
<1>2. l # <<>>
  BY <1>1, EmptySeq
<1>3. \A i \in 1 .. Len(l) : l[i].about \in history[l[i].order]
  BY DEF Notify, Recorded, NoticesLeftAreTrue
<1>4. Head(l).about \in history[Head(l).order]
  <2>1. Head(l) = l[1] /\ 1 \in 1 .. Len(l)
    BY <1>1, <1>2, LenProperties
  <2> QED
    BY <1>3, <2>1
<1>5. \A i \in 1 .. Len(t) : t[i].about \in history[t[i].order]
  <2>1. /\ Len(l) \in Nat
        /\ Len(Tail(l)) = Len(l) - 1
        /\ \A i \in 1 .. Len(Tail(l)) : Tail(l)[i] = l[i + 1]
    BY <1>1, <1>2, LenProperties, HeadTailProperties
  <2>2. ASSUME NEW i \in 1 .. Len(Tail(l))
        PROVE  i + 1 \in 1 .. Len(l) /\ Tail(l)[i] = l[i + 1]
    BY <2>1
  <2> QED
    BY <1>3, <2>2
<1>6. /\ req' = [req EXCEPT ![r] = x]
      /\ inbox' = inbox \cup {Head(l)}
      /\ UNCHANGED <<status, restored, history>>
  BY DEF Notify, rows
<1>7. NoticesAreTrue'
  BY <1>4, <1>6 DEF Recorded, NoticesAreTrue
<1> HIDE DEF t
<1>8. x.at = "notify" => x.left = t
  BY DEF Idle
<1>9. NoticesLeftAreTrue'
  <2> HIDE DEF x
  <2>1. ASSUME NEW k \in Requests, req'[k].at = "notify",
               NEW i \in 1 .. Len(req'[k].left)
        PROVE  req'[k].left[i].about \in history[req'[k].left[i].order]
    <3>1. CASE k = r
      <4>1. req'[k] = x
        BY <1>6, <3>1 DEF Recorded, Typed, TypeOK
      <4> QED
        BY <1>5, <1>8, <2>1, <4>1
    <3>2. CASE k # r
      <4>1. req'[k] = req[k]
        BY <1>6, <3>2 DEF Recorded, Typed, TypeOK
      <4> QED
        BY <2>1, <4>1 DEF Recorded, NoticesLeftAreTrue
    <3> QED
      BY <3>1, <3>2
  <2> QED
    BY <1>6, <2>1 DEF NoticesLeftAreTrue
<1> QED
  BY <1>6, <1>7, <1>9 DEF Recorded, CancelledIsRestored, StatusIsRecorded,
     NoRowNoHistory

LEMMA RecordedBegin ==
  ASSUME Recorded, Typed', NEW r \in Requests, Begin(r)
  PROVE  Recorded'
<1>1. ASSUME NEW u \in Users, NEW b \in Baskets, CreateRead(r, u, b)
      PROVE  Recorded'
  <2>1. PICK s \in Users : req' = [req EXCEPT ![r] =
             [at    |-> "reserve",
              terms |-> [buyer |-> u, seller |-> s, items |-> b.total]]]
    BY <1>1 DEF CreateRead
  <2> QED
    BY <1>1, <2>1, RecordedReads DEF CreateRead
<1>2. ASSUME NEW u \in Users, NEW o \in OrderIds, NEW goal \in Goals,
             UpdateStatusRead(r, u, o, goal)
      PROVE  Recorded'
  BY <1>2, RecordedReads DEF UpdateStatusRead, Committing
<1>3. ASSUME NEW u \in Users, NEW o \in OrderIds, CancelByBuyerRead(r, u, o)
      PROVE  Recorded'
  BY <1>3, RecordedReads DEF CancelByBuyerRead
<1> QED
  BY <1>1, <1>2, <1>3 DEF Begin

LEMMA RecordedStep == Recorded /\ [Next]_vars => Recorded'
<1> SUFFICES ASSUME Recorded, [Next]_vars PROVE Recorded'
  OBVIOUS
<1>1. Typed'
  BY TypedStep DEF Recorded
<1>2. CASE UNCHANGED vars
  BY <1>1, <1>2 DEF Recorded, CancelledIsRestored, StatusIsRecorded,
     NoRowNoHistory, NoticesLeftAreTrue, NoticesAreTrue, vars, goods, rows
<1>3. ASSUME NEW r \in Requests, Step(r)  PROVE Recorded'
  <2>1. CASE CancelByBuyerRecheck(r)
    BY <1>1, <2>1, RecordedReads DEF CancelByBuyerRecheck, Committing
  <2> QED
    BY <1>1, <1>3, <2>1, RecordedCreateCommit, RecordedUpdateStatusCommit,
       RecordedNotify DEF Step
<1>4. ASSUME NEW r \in Requests, Fail(r)  PROVE Recorded'
  BY <1>1, <1>4, RecordedReads DEF Fail, Idle
<1>5. ASSUME NEW p \in Products, SetActive(p)  PROVE Recorded'
  BY <1>1, <1>5 DEF SetActive, Recorded, CancelledIsRestored, StatusIsRecorded,
     NoRowNoHistory, NoticesLeftAreTrue, NoticesAreTrue, rows
<1> QED
  BY <1>1, <1>2, <1>3, <1>4, <1>5, RecordedBegin DEF Next, Work

\* However requests overlap and wherever they fail, a cancelled row carries the
\* flag that keeps its units from being returned again.
THEOREM CancellationFlagged == Spec => []CancelledIsRestored
<1>1. Recorded => CancelledIsRestored
  BY DEF Recorded
<1> QED
  BY <1>1, RecordedInit, RecordedStep, PTL DEF Spec

\* The status of an order is in its history, whatever updates overlap.
THEOREM HistoryComplete == Spec => []StatusIsRecorded
<1>1. Recorded => StatusIsRecorded
  BY DEF Recorded
<1> QED
  BY <1>1, RecordedInit, RecordedStep, PTL DEF Spec

\* Nobody was told of a status an order never had.
THEOREM NoticesTrue == Spec => []NoticesAreTrue
<1>1. Recorded => NoticesAreTrue
  BY DEF Recorded
<1> QED
  BY <1>1, RecordedInit, RecordedStep, PTL DEF Spec

-----------------------------------------------------------------------------
(* The units that orders hold.  Units are summed over finitely many orders: *)
(* those that have been placed so far.                                     *)

Placed == {o \in OrderIds : status[o] # "none"}

\* The column that is summed: what the orders of table c ask for of p.
ItemsOf(c, p) == [o \in OrderIds |-> c[o].items[p]]
HeldBy(p, S) == SumOf(ItemsOf(terms, p), S)

\* A row flagged as restored is a cancelled one, and no request remembers the
\* flag set: it reads rows that it can still move.
OnlyCancelledRestored ==
  \A o \in OrderIds : restored[o] => status[o] = "cancelled"
SeenUnrestored ==
  \A r \in Requests : req[r].at = "commit" => ~req[r].seen.restored

Accounted ==
  /\ Typed
  /\ OnlyCancelledRestored
  /\ SeenUnrestored
  /\ IsFiniteSet(Placed)
  /\ \A p \in Products : stock[p] + HeldBy(p, Live) >= InitialStock[p]
  /\ \A p \in Products : totalSold[p] >= HeldBy(p, Delivered)

\* MapThenSumSet over the rows of a table is the sum of their column.
LEMMA FoldIsSum ==
  ASSUME NEW c, NEW p, NEW S \in SUBSET OrderIds, IsFiniteSet(S)
  PROVE  MapThenSumSet(LAMBDA o : c[o].items[p], S) = SumOf(ItemsOf(c, p), S)
<1> DEFINE f == ItemsOf(c, p)
           Fold(g) == g = [s \in SUBSET S |->
             IF s = {} THEN 0 ELSE c[First(s)].items[p] + g[s \ {First(s)}]]
<1>1. ASSUME NEW g  PROVE Fold(g) <=> Adds(g, f, S)
  <2>1. \A s \in SUBSET S : s # {} => f[First(s)] = c[First(s)].items[p]
    BY FirstIsIn DEF ItemsOf
  <2> QED
    BY <2>1 DEF Adds
<1>2. PICK g : Adds(g, f, S) /\ SumOf(f, S) = g[S]
  BY SumIsFold
<1>3. Fold(CHOOSE h : Fold(h))
  BY <1>1, <1>2
<1>4. MapThenSumSet(LAMBDA o : c[o].items[p], S) = (CHOOSE h : Fold(h))[S]
  BY DEF MapThenSumSet, MapThenFoldSet, First
<1>5. Adds(CHOOSE h : Fold(h), f, S)
  BY <1>1, <1>3
<1> HIDE DEF Fold
<1>6. g[S] = (CHOOSE h : Fold(h))[S]
  BY <1>2, <1>5, AddsUnique
<1> QED
  BY <1>2, <1>4, <1>6

LEMMA UnitsHeld ==
  ASSUME NEW p, NEW S \in SUBSET OrderIds, IsFiniteSet(S)
  PROVE  Units(p, S) = HeldBy(p, S)
  BY FoldIsSum DEF Units, HeldBy

LEMMA ItemsType ==
  ASSUME Typed, NEW p \in Products, NEW o \in Placed
  PROVE  ItemsOf(terms, p)[o] \in Nat /\ ItemsOf(terms, p)[o] = terms[o].items[p]
  BY DEF Placed, ItemsOf, Typed, RowsExist, Terms

LEMMA AccountedInit == Init => Accounted
<1> SUFFICES ASSUME Init PROVE Accounted
  OBVIOUS
<1>1. Placed = {} /\ Live = {} /\ Delivered = {}
  BY DEF Init, Placed, Live, Delivered
<1>2. \A p \in Products : HeldBy(p, {}) = 0
  BY SumEmpty DEF HeldBy
<1>3. \A p \in Products : stock[p] \in Nat /\ totalSold[p] = 0
  BY OrdersAssumption DEF Init
<1>4. \A p \in Products : stock[p] = InitialStock[p]
  BY DEF Init
<1>5. OnlyCancelledRestored /\ SeenUnrestored
  BY DEF Init, OnlyCancelledRestored, SeenUnrestored, Idle
<1> QED
  BY <1>1, <1>2, <1>3, <1>4, <1>5, TypedInit, FS_EmptySet DEF Accounted

\* A new order takes what it then holds; the others hold what they held.
LEMMA PlacingSum ==
  ASSUME Typed, Typed', IsFiniteSet(Placed), NEW r \in Requests,
         NEW o \in OrderIds, CreateCommit(r, o), NEW p \in Products,
         NEW S \in SUBSET Placed
  PROVE  LET n == req[r].terms.items[p]
             f == ItemsOf(terms, p)
             h == ItemsOf(terms', p)
         IN  /\ n \in Nat /\ SumOf(f, S) \in Nat
             /\ stock[p] \in Nat /\ stock'[p] \in Nat
             /\ stock'[p] = stock[p] - n
             /\ SumOf(h, S) = SumOf(f, S)
             /\ SumOf(h, S \cup {o}) = SumOf(f, S) + n
<1> DEFINE t == req[r].terms
           f == ItemsOf(terms, p)
           h == ItemsOf(terms', p)
<1>1. t \in Terms /\ t.items[p] \in Nat
  BY StageType DEF CreateCommit, Typed, Terms
<1>2. /\ status[o] = "none"
      /\ terms'  = [terms EXCEPT ![o] = t]
      /\ stock'[p] = stock[p] - t.items[p]
      /\ stock[p] \in Nat /\ stock'[p] \in Nat
  BY DEF CreateCommit, Open, Typed, TypeOK
<1>3. o \notin S /\ \A x \in S : x \in OrderIds /\ x # o /\ x \in Placed
  BY <1>2 DEF Placed
<1>4. \A x \in OrderIds : x # o => h[x] = f[x]
  BY <1>2 DEF ItemsOf, Typed, TypeOK
<1>5. h[o] = t.items[p]
  BY <1>2 DEF ItemsOf, Typed, TypeOK
<1>6. IsFiniteSet(S)
  BY FS_Subset
<1>7. \A x \in Placed : f[x] \in Nat
  BY ItemsType
<1> HIDE DEF f, h, t
<1>8. SumOf(h, S) = SumOf(f, S)
  <2>1. \A x \in S : h[x] = f[x]
    BY <1>3, <1>4
  <2> QED
    BY <1>6, <2>1, SumSame
<1>9. \A x \in S \cup {o} : h[x] \in Nat
  BY <1>1, <1>3, <1>4, <1>5, <1>7
<1>10. SumOf(h, S \cup {o}) = SumOf(h, S) + h[o] /\ SumOf(h, S) \in Nat
  BY <1>3, <1>6, <1>9, SumAdd, SumTake
<1> QED
  BY <1>1, <1>2, <1>5, <1>8, <1>10 DEF f, h, t

LEMMA PlacingHolds ==
  ASSUME Typed, Typed', IsFiniteSet(Placed), NEW r \in Requests,
         NEW o \in OrderIds, CreateCommit(r, o), NEW p \in Products
  PROVE  /\ stock'[p] + HeldBy(p, Live)' = stock[p] + HeldBy(p, Live)
         /\ HeldBy(p, Delivered)' = HeldBy(p, Delivered)
         /\ IsFiniteSet(Placed')
<1> DEFINE n == req[r].terms.items[p]
           f == ItemsOf(terms, p)
           h == ItemsOf(terms', p)
<1>1. /\ Live' = Live \cup {o} /\ Delivered' = Delivered
      /\ Placed' = Placed \cup {o}
  BY DEF CreateCommit, Open, Live, Delivered, Placed, Typed, TypeOK
<1>2. Live \in SUBSET Placed /\ Delivered \in SUBSET Placed
  BY DEF Live, Delivered, Placed
<1>3. IsFiniteSet(Placed')
  BY <1>1, FS_AddElement
<1>4. /\ HeldBy(p, Live)' = SumOf(h, Live')
      /\ HeldBy(p, Delivered)' = SumOf(h, Delivered')
      /\ HeldBy(p, Live) = SumOf(f, Live)
      /\ HeldBy(p, Delivered) = SumOf(f, Delivered)
  BY DEF HeldBy
<1>5. /\ n \in Nat /\ SumOf(f, Live) \in Nat /\ stock[p] \in Nat
      /\ stock'[p] = stock[p] - n
      /\ SumOf(h, Live \cup {o}) = SumOf(f, Live) + n
      /\ SumOf(h, Delivered) = SumOf(f, Delivered)
  BY <1>2, PlacingSum
<1> HIDE DEF n, f, h
<1>6. stock'[p] + SumOf(h, Live \cup {o}) = stock[p] + SumOf(f, Live)
  BY <1>5
<1> QED
  BY <1>1, <1>3, <1>4, <1>5, <1>6

\* What an update does to what orders hold, and to the figures.
LEMMA MovingHolds ==
  ASSUME Typed, SeenUnrestored, IsFiniteSet(Placed), NEW r \in Requests,
         UpdateStatusCommit(r), NEW p \in Products
  PROVE  LET o == req[r].order
             n == terms[o].items[p]
             goal == req[r].goal
         IN  /\ n \in Nat /\ HeldBy(p, Live)' \in Nat /\ HeldBy(p, Delivered)' \in Nat
             /\ HeldBy(p, Live) \in Nat /\ HeldBy(p, Delivered) \in Nat
             /\ Placed' = Placed
             /\ goal = "cancelled" =>
                  /\ stock'[p] = stock[p] + n
                  /\ o \in Live => HeldBy(p, Live) = HeldBy(p, Live)' + n
                  /\ o \notin Live => HeldBy(p, Live) = HeldBy(p, Live)'
             /\ goal # "cancelled" =>
                  /\ stock'[p] = stock[p]
                  /\ o \in Live => HeldBy(p, Live)' = HeldBy(p, Live)
                  /\ o \notin Live => HeldBy(p, Live)' = HeldBy(p, Live) + n
             /\ goal = "delivered" =>
                  /\ totalSold'[p] = totalSold[p] + n
                  /\ o \in Delivered =>
                       HeldBy(p, Delivered)' = HeldBy(p, Delivered)
                  /\ o \notin Delivered =>
                       HeldBy(p, Delivered)' = HeldBy(p, Delivered) + n
             /\ goal # "delivered" =>
                  /\ totalSold'[p] = totalSold[p]
                  /\ o \in Delivered =>
                       HeldBy(p, Delivered) = HeldBy(p, Delivered)' + n
                  /\ o \notin Delivered =>
                       HeldBy(p, Delivered) = HeldBy(p, Delivered)'
<1> DEFINE q == req[r]
           o == q.order
           n == terms[o].items[p]
           f == ItemsOf(terms, p)
<1>1. /\ q.at = "commit" /\ o \in OrderIds /\ q.goal \in OrderStatus
      /\ ~q.seen.restored /\ status[o] # "none"
  BY StageType DEF UpdateStatusCommit, Typed, RowsExist, SeenUnrestored
<1>2. /\ status' = [status EXCEPT ![o] = q.goal]
      /\ terms' = terms
      /\ stock'[p] = IF q.goal = "cancelled" THEN stock[p] + n ELSE stock[p]
      /\ totalSold'[p] = IF q.goal = "delivered" THEN totalSold[p] + n
                         ELSE totalSold[p]
  BY <1>1 DEF UpdateStatusCommit, Returns, Sells
<1>3. /\ Live' = IF q.goal = "cancelled" THEN Live \ {o} ELSE Live \cup {o}
      /\ Delivered' = IF q.goal = "delivered" THEN Delivered \cup {o}
                      ELSE Delivered \ {o}
      /\ Placed' = Placed /\ o \in Placed
  BY <1>1, <1>2 DEF Live, Delivered, Placed, OrderStatus, Typed, TypeOK
<1>4. Live \subseteq Placed /\ Delivered \subseteq Placed
  BY DEF Live, Delivered, Placed
<1>5. (\A x \in Placed : f[x] \in Nat) /\ f[o] = n
  BY <1>3, ItemsType
<1>6. /\ HeldBy(p, Live)' = SumOf(f, Live')
      /\ HeldBy(p, Delivered)' = SumOf(f, Delivered')
      /\ HeldBy(p, Live) = SumOf(f, Live)
      /\ HeldBy(p, Delivered) = SumOf(f, Delivered)
  BY <1>2 DEF HeldBy
<1> HIDE DEF f, n, o
<1>7. ASSUME NEW S, S \subseteq Placed
      PROVE  /\ SumOf(f, S) \in Nat
             /\ SumOf(f, S \cup {o}) \in Nat
             /\ SumOf(f, S \ {o}) \in Nat
             /\ o \in S => /\ SumOf(f, S \cup {o}) = SumOf(f, S)
                           /\ SumOf(f, S) = SumOf(f, S \ {o}) + f[o]
             /\ o \notin S => /\ SumOf(f, S \cup {o}) = SumOf(f, S) + f[o]
                              /\ SumOf(f, S) = SumOf(f, S \ {o})
  <2>1. IsFiniteSet(Placed) /\ o \in Placed
    BY <1>3
  <2>2. \A x \in Placed : f[x] \in Nat
    BY <1>5
  <2>3. S \subseteq Placed
    BY <1>7
  <2> QED
    BY <2>1, <2>2, <2>3, SumMoves
<1>8. n \in Nat
  BY <1>3, <1>5
<1>9. CASE q.goal = "cancelled"
  BY <1>2, <1>3, <1>4, <1>5, <1>6, <1>7, <1>8, <1>9 DEF n, o
<1>10. CASE q.goal = "delivered"
  BY <1>2, <1>3, <1>4, <1>5, <1>6, <1>7, <1>8, <1>10 DEF n, o
<1>11. CASE q.goal \notin {"cancelled", "delivered"}
  BY <1>2, <1>3, <1>4, <1>5, <1>6, <1>7, <1>8, <1>11 DEF n, o
<1> QED
  BY <1>9, <1>10, <1>11, Zenon

\* The flags: a commit writes the flag for cancellations only.
LEMMA FlagsStep ==
  ASSUME Typed, OnlyCancelledRestored, SeenUnrestored, [Next]_vars
  PROVE  OnlyCancelledRestored' /\ SeenUnrestored'
<1>1. ASSUME UNCHANGED vars  PROVE OnlyCancelledRestored' /\ SeenUnrestored'
  BY <1>1 DEF OnlyCancelledRestored, SeenUnrestored, vars, rows
<1>2. ASSUME NEW r \in Requests, NEW x, req' = [req EXCEPT ![r] = x],
             x.at = "commit" => ~x.seen.restored
      PROVE  SeenUnrestored'
  BY <1>2 DEF SeenUnrestored, Typed, TypeOK
<1>3. ASSUME NEW r \in Requests, NEW u \in Users, NEW b \in Baskets,
             CreateRead(r, u, b)
      PROVE  OnlyCancelledRestored' /\ SeenUnrestored'
  <2>1. PICK s \in Users : req' = [req EXCEPT ![r] =
             [at    |-> "reserve",
              terms |-> [buyer |-> u, seller |-> s, items |-> b.total]]]
    BY <1>3 DEF CreateRead
  <2>2. SeenUnrestored'
    BY <1>2, <2>1
  <2> QED
    BY <1>3, <2>2 DEF CreateRead, OnlyCancelledRestored, rows
<1>4. ASSUME NEW r \in Requests, NEW o \in OrderIds, NEW goal, NEW byBuyer,
             MayMove(o, goal), req' = [req EXCEPT ![r] = Committing(o, goal, byBuyer)],
             UNCHANGED rows
      PROVE  OnlyCancelledRestored' /\ SeenUnrestored'
  <2>1. ~restored[o]
    BY <1>4 DEF MayMove, ORDER_TRANSITIONS, OnlyCancelledRestored
  <2>2. ~Committing(o, goal, byBuyer).seen.restored
    BY <2>1 DEF Committing, RowOf
  <2>3. SeenUnrestored'
    BY <1>2, <1>4, <2>2
  <2> QED
    BY <1>4, <2>3 DEF OnlyCancelledRestored, rows
<1>5. ASSUME NEW r \in Requests, Begin(r)
      PROVE  OnlyCancelledRestored' /\ SeenUnrestored'
  <2>1. ASSUME NEW u \in Users, NEW o \in OrderIds, CancelByBuyerRead(r, u, o)
        PROVE  OnlyCancelledRestored' /\ SeenUnrestored'
    BY <1>2, <2>1 DEF CancelByBuyerRead, OnlyCancelledRestored, rows
  <2>2. ASSUME NEW u \in Users, NEW o \in OrderIds, NEW goal \in Goals,
               UpdateStatusRead(r, u, o, goal)
        PROVE  OnlyCancelledRestored' /\ SeenUnrestored'
    BY <1>4, <2>2 DEF UpdateStatusRead
  <2> QED
    BY <1>3, <1>5, <2>1, <2>2 DEF Begin
<1>6. ASSUME NEW r \in Requests, NEW o \in OrderIds, CreateCommit(r, o)
      PROVE  OnlyCancelledRestored' /\ SeenUnrestored'
  <2>1. SeenUnrestored'
    BY <1>2, <1>6 DEF CreateCommit
  <2> QED
    BY <1>6, <2>1 DEF CreateCommit, Open, OnlyCancelledRestored, Typed, TypeOK
<1>7. ASSUME NEW r \in Requests, CancelByBuyerRecheck(r)
      PROVE  OnlyCancelledRestored' /\ SeenUnrestored'
  BY <1>4, <1>7, StageType DEF CancelByBuyerRecheck, Typed
<1>8. ASSUME NEW r \in Requests, UpdateStatusCommit(r)
      PROVE  OnlyCancelledRestored' /\ SeenUnrestored'
  <2>1. /\ req[r].order \in OrderIds
        /\ RestoredAfter(req[r]) => req[r].goal = "cancelled"
    BY <1>8, StageType DEF UpdateStatusCommit, RestoredAfter, SeenUnrestored, Typed
  <2>2. OnlyCancelledRestored'
    BY <1>8, <2>1 DEF UpdateStatusCommit, OnlyCancelledRestored, Typed, TypeOK
  <2>3. SeenUnrestored'
    BY <1>2, <1>8 DEF UpdateStatusCommit
  <2> QED
    BY <2>2, <2>3
<1>9. ASSUME NEW r \in Requests, Notify(r)
      PROVE  OnlyCancelledRestored' /\ SeenUnrestored'
  <2> DEFINE t == Tail(req[r].left)
             x == IF Len(req[r].left) = 1 THEN Idle
                  ELSE [at |-> "notify", left |-> t]
  <2>1. req' = [req EXCEPT ![r] = x]
    BY <1>9 DEF Notify
  <2> HIDE DEF t
  <2>3. x.at # "commit"
    BY DEF Idle
  <2> HIDE DEF x
  <2>2. SeenUnrestored'
    BY <1>2, <2>1, <2>3
  <2> QED
    BY <1>9, <2>2 DEF Notify, OnlyCancelledRestored, rows
<1>10. ASSUME NEW r \in Requests, Fail(r)
       PROVE  OnlyCancelledRestored' /\ SeenUnrestored'
  BY <1>2, <1>10 DEF Fail, OnlyCancelledRestored, rows, Idle
<1>11. ASSUME NEW p \in Products, SetActive(p)
       PROVE  OnlyCancelledRestored' /\ SeenUnrestored'
  BY <1>11 DEF SetActive, OnlyCancelledRestored, SeenUnrestored, rows
<1> QED
  BY <1>1, <1>5, <1>6, <1>7, <1>8, <1>9, <1>10, <1>11 DEF Next, Work, Step

\* Every other step leaves the products and the contents of orders alone.
LEMMA QuietStep ==
  ASSUME [Next]_vars
  PROVE  \/ UNCHANGED <<stock, totalSold, status, terms>>
         \/ \E r \in Requests, o \in OrderIds : CreateCommit(r, o)
         \/ \E r \in Requests : UpdateStatusCommit(r)
  BY DEF Next, Work, Begin, Step, vars, goods, rows, CreateRead,
     UpdateStatusRead, CancelByBuyerRead, CancelByBuyerRecheck, Notify, Fail,
     SetActive

LEMMA QuietHolds ==
  ASSUME UNCHANGED <<stock, totalSold, status, terms>>
  PROVE  /\ Placed' = Placed
         /\ \A p \in Products : /\ HeldBy(p, Live)' = HeldBy(p, Live)
                                /\ HeldBy(p, Delivered)' = HeldBy(p, Delivered)
  BY DEF Placed, HeldBy, Live, Delivered

LEMMA AccountedStep == Accounted /\ [Next]_vars => Accounted'
<1> SUFFICES ASSUME Accounted, [Next]_vars PROVE Accounted'
  OBVIOUS
<1>1. Typed'
  BY TypedStep DEF Accounted
<1>2. OnlyCancelledRestored' /\ SeenUnrestored'
  BY FlagsStep DEF Accounted
<1>3. \A p \in Products : /\ stock[p] \in Nat /\ stock'[p] \in Nat
                          /\ totalSold[p] \in Nat /\ totalSold'[p] \in Nat
                          /\ InitialStock[p] \in Nat
  BY <1>1, OrdersAssumption DEF Accounted, Typed, TypeOK
<1> DEFINE Balance ==
             /\ IsFiniteSet(Placed')
             /\ \A p \in Products :
                  stock'[p] + HeldBy(p, Live)' >= InitialStock[p]
             /\ \A p \in Products : totalSold'[p] >= HeldBy(p, Delivered)'
<1>4. CASE UNCHANGED <<stock, totalSold, status, terms>>
  <2>1. Balance
    BY <1>4, QuietHolds DEF Accounted
  <2> QED
    BY <1>1, <1>2, <2>1 DEF Accounted
<1>5. ASSUME NEW r \in Requests, NEW o \in OrderIds, CreateCommit(r, o)
      PROVE  Accounted'
  <2>1. \A p \in Products :
          /\ stock'[p] + HeldBy(p, Live)' = stock[p] + HeldBy(p, Live)
          /\ HeldBy(p, Delivered)' = HeldBy(p, Delivered)
    BY <1>1, <1>5, PlacingHolds DEF Accounted
  <2>2. totalSold' = totalSold
    BY <1>5 DEF CreateCommit
  <2>3. IsFiniteSet(Placed')
    <3>1. Placed' = Placed \cup {o}
      BY <1>5 DEF CreateCommit, Open, Placed, Accounted, Typed, TypeOK
    <3> QED
      BY <3>1, FS_AddElement DEF Accounted
  <2>4. Balance
    BY <2>1, <2>2, <2>3 DEF Accounted
  <2> QED
    BY <1>1, <1>2, <2>4 DEF Accounted
<1>6. ASSUME NEW r \in Requests, UpdateStatusCommit(r)
      PROVE  Accounted'
  <2>1. ASSUME NEW p \in Products
        PROVE  /\ stock'[p] + HeldBy(p, Live)' >= InitialStock[p]
               /\ totalSold'[p] >= HeldBy(p, Delivered)'
    <3> DEFINE n == terms[req[r].order].items[p]
               a == HeldBy(p, Live)
               b == HeldBy(p, Live)'
               c == HeldBy(p, Delivered)
               d == HeldBy(p, Delivered)'
    <3>1. /\ n \in Nat /\ a \in Nat /\ b \in Nat /\ c \in Nat /\ d \in Nat
          /\ \/ stock'[p] = stock[p] + n /\ (a = b \/ a = b + n)
             \/ stock'[p] = stock[p] /\ (b = a \/ b = a + n)
          /\ \/ totalSold'[p] = totalSold[p] + n /\ (d = c \/ d = c + n)
             \/ totalSold'[p] = totalSold[p] /\ (c = d \/ c = d + n)
      BY <1>6, MovingHolds DEF Accounted
    <3>2. stock[p] + a >= InitialStock[p] /\ totalSold[p] >= c
      BY DEF Accounted
    <3> HIDE DEF a, b, c, d, n
    <3>3. stock'[p] + b >= InitialStock[p] /\ totalSold'[p] >= d
      BY <1>3, <3>1, <3>2
    <3> QED
      BY <3>3 DEF b, d
  <2>2. Placed' = Placed
    <3>1. /\ req[r].order \in OrderIds /\ req[r].goal \in OrderStatus
          /\ status[req[r].order] # "none"
      BY <1>6, StageType DEF UpdateStatusCommit, Accounted, Typed, RowsExist
    <3> QED
      BY <1>6, <3>1
         DEF UpdateStatusCommit, Placed, OrderStatus, Accounted, Typed, TypeOK
  <2> QED
    BY <1>1, <1>2, <2>1, <2>2 DEF Accounted
<1> QED
  BY <1>4, <1>5, <1>6, QuietStep

LEMMA AccountsBalance ==
  ASSUME Accounted
  PROVE  NoUnitLost /\ SalesCounted
<1>1. Live \subseteq Placed /\ Delivered \subseteq Placed /\ Placed \subseteq OrderIds
  BY DEF Live, Delivered, Placed
<1>2. IsFiniteSet(Live) /\ IsFiniteSet(Delivered)
  BY <1>1, FS_Subset DEF Accounted
<1>3. \A p \in Products : /\ Units(p, Live) = HeldBy(p, Live)
                          /\ Units(p, Delivered) = HeldBy(p, Delivered)
  BY <1>1, <1>2, UnitsHeld
<1> QED
  BY <1>3 DEF Accounted, NoUnitLost, SalesCounted

\* However requests overlap and wherever they fail, no unit is lost: the shelf
\* and the live orders hold at least what there was.
THEOREM UnitsStay == Spec => []NoUnitLost
<1>1. Accounted => NoUnitLost
  BY AccountsBalance
<1> QED
  BY <1>1, AccountedInit, AccountedStep, PTL DEF Spec

\* Every delivered order is in the sales figures, whatever updates overlap.
THEOREM DeliveriesCounted == Spec => []SalesCounted
<1>1. Accounted => SalesCounted
  BY AccountsBalance
<1> QED
  BY <1>1, AccountedInit, AccountedStep, PTL DEF Spec

-----------------------------------------------------------------------------
(* What Orders promises when the requests on one order are served one at a *)
(* time: it implements OrderBook.                                          *)

(* The strengthening: what a request has read of an order is still so when *)
(* it acts on it, because nobody else holds the order in between.          *)

WhatWasRead ==
  /\ \A r \in Requests : req[r].at = "recheck" => status[req[r].order] = "pending"
  /\ \A r \in Requests : req[r].at = "commit" =>
       /\ req[r].seen = RowOf(req[r].order)
       /\ <<status[req[r].order], req[r].goal>> \in ORDER_TRANSITIONS
       /\ req[r].byBuyer => status[req[r].order] = "pending"

AskedIsWanted ==
  /\ \A r \in Requests : req[r].at = "reserve" => req[r].terms.items \in Wanted
  /\ \A o \in OrderIds : status[o] # "none" => terms[o].items \in Wanted

Fresh ==
  /\ Typed
  /\ OneAtATime
  /\ WhatWasRead
  /\ OnlyCancelledRestored
  /\ AskedIsWanted

LEMMA FreshInit == Init => Fresh
  BY TypedInit DEF Init, Fresh, OneAtATime, Holds, WhatWasRead,
     OnlyCancelledRestored, AskedIsWanted, Idle

\* Reads, notifications and failures leave the rows as they are.
LEMMA FreshQuiet ==
  ASSUME Fresh, Typed', OneAtATime', NEW r \in Requests, NEW x,
         req' = [req EXCEPT ![r] = x], UNCHANGED rows,
         x.at = "recheck" => status[x.order] = "pending",
         x.at = "commit" => /\ x.seen = RowOf(x.order)
                            /\ <<status[x.order], x.goal>> \in ORDER_TRANSITIONS
                            /\ x.byBuyer => status[x.order] = "pending",
         x.at = "reserve" => x.terms.items \in Wanted
  PROVE  Fresh'
<1>1. \A k \in Requests : req'[k] = IF k = r THEN x ELSE req[k]
  BY DEF Fresh, Typed, TypeOK
<1>2. WhatWasRead'
  BY <1>1 DEF Fresh, WhatWasRead, RowOf, rows
<1>3. AskedIsWanted'
  BY <1>1 DEF Fresh, AskedIsWanted, rows
<1>4. OnlyCancelledRestored'
  BY DEF Fresh, OnlyCancelledRestored, rows
<1> QED
  BY <1>2, <1>3, <1>4 DEF Fresh

LEMMA FreshBegin ==
  ASSUME Fresh, Typed', OneAtATime', NEW r \in Requests, Begin(r)
  PROVE  Fresh'
<1>1. ASSUME NEW u \in Users, NEW b \in Baskets, CreateRead(r, u, b)
      PROVE  Fresh'
  <2>1. PICK s \in Users : req' = [req EXCEPT ![r] =
             [at    |-> "reserve",
              terms |-> [buyer |-> u, seller |-> s, items |-> b.total]]]
    BY <1>1 DEF CreateRead
  <2>2. UNCHANGED rows /\ b.total \in Wanted
    BY <1>1 DEF CreateRead, Wanted
  <2> QED
    BY <2>1, <2>2, FreshQuiet
<1>2. ASSUME NEW u \in Users, NEW o \in OrderIds, NEW goal \in Goals,
             UpdateStatusRead(r, u, o, goal)
      PROVE  Fresh'
  BY <1>2, FreshQuiet DEF UpdateStatusRead, Committing, MayMove
<1>3. ASSUME NEW u \in Users, NEW o \in OrderIds, CancelByBuyerRead(r, u, o)
      PROVE  Fresh'
  BY <1>3, FreshQuiet DEF CancelByBuyerRead
<1> QED
  BY <1>1, <1>2, <1>3 DEF Begin

LEMMA FreshCreateCommit ==
  ASSUME Fresh, Typed', OneAtATime', NEW r \in Requests, NEW o \in OrderIds,
         CreateCommit(r, o)
  PROVE  Fresh'
<1> DEFINE t == req[r].terms
<1>1. t \in Terms /\ t.items \in Wanted
  BY StageType DEF CreateCommit, Fresh, Typed, AskedIsWanted
<1>2. /\ status[o] = "none"
      /\ status'  = [status EXCEPT ![o] = "pending"]
      /\ terms'   = [terms EXCEPT ![o] = t]
      /\ history' = [history EXCEPT ![o] = {"pending"}]
      /\ UNCHANGED <<payment, restored>>
  BY DEF CreateCommit, Open
<1>3. \A k \in Requests : req'[k].at = "notify" \/ req'[k] = req[k]
  BY DEF CreateCommit, Fresh, Typed, TypeOK
<1>4. \A k \in Requests : req[k].at \in {"recheck", "commit"} =>
        req[k].order \in OrderIds /\ req[k].order # o
  BY <1>2, StageType DEF Fresh, Typed, RowsExist
<1>5. WhatWasRead'
  <2>1. \A k \in Requests : req[k].at \in {"recheck", "commit"} =>
          status'[req[k].order] = status[req[k].order]
    BY <1>2, <1>4 DEF Fresh, Typed, TypeOK
  <2> QED
    BY <1>2, <1>3, <2>1 DEF Fresh, WhatWasRead, RowOf
<1>6. AskedIsWanted'
  BY <1>1, <1>2, <1>3 DEF Fresh, AskedIsWanted, Typed, TypeOK
<1>7. OnlyCancelledRestored'
  BY <1>2 DEF Fresh, OnlyCancelledRestored, Typed, TypeOK
<1> QED
  BY <1>5, <1>6, <1>7 DEF Fresh

LEMMA FreshUpdateStatusCommit ==
  ASSUME Fresh, Typed', OneAtATime', NEW r \in Requests, UpdateStatusCommit(r)
  PROVE  Fresh'
<1> DEFINE q == req[r]
           o == req[r].order
<1>1. /\ q.at = "commit" /\ o \in OrderIds
      /\ q.goal \in OrderStatus /\ q.seen \in Row
  BY StageType DEF UpdateStatusCommit, Fresh, Typed
<1>2. /\ q.seen = RowOf(o)
      /\ <<status[o], q.goal>> \in ORDER_TRANSITIONS
  BY <1>1 DEF Fresh, WhatWasRead
<1>3. /\ status' = [status EXCEPT ![o] = q.goal]
      /\ restored' = [restored EXCEPT ![o] = RestoredAfter(q)]
      /\ history' = [history EXCEPT ![o] = @ \cup {q.goal}]
      /\ UNCHANGED <<payment, terms>>
  BY DEF UpdateStatusCommit, Record
<1>4. \A k \in Requests : req'[k].at = "notify" \/ (req'[k] = req[k] /\ k # r)
  BY DEF UpdateStatusCommit, Fresh, Typed, TypeOK
<1>5. \A k \in Requests : k # r /\ req[k].at \in {"recheck", "commit"} =>
        req[k].order \in OrderIds /\ req[k].order # o
  BY <1>1, StageType DEF Fresh, OneAtATime, Holds, Typed
<1>6. WhatWasRead'
  <2>1. \A k \in Requests : k # r /\ req[k].at \in {"recheck", "commit"} =>
          /\ status'[req[k].order] = status[req[k].order]
          /\ restored'[req[k].order] = restored[req[k].order]
    BY <1>1, <1>3, <1>5 DEF Fresh, Typed, TypeOK
  <2> QED
    BY <1>3, <1>4, <2>1 DEF Fresh, WhatWasRead, RowOf
<1>7. AskedIsWanted'
  <2>1. status[o] # "none"
    BY <1>2 DEF ORDER_TRANSITIONS
  <2> QED
    BY <1>1, <1>3, <1>4, <2>1 DEF Fresh, AskedIsWanted, Typed, TypeOK
<1>8. OnlyCancelledRestored'
  <2>1. ~restored[o]
    BY <1>1, <1>2 DEF Fresh, OnlyCancelledRestored, ORDER_TRANSITIONS
  <2>2. RestoredAfter(q) <=> q.goal = "cancelled"
    BY <1>2, <2>1 DEF RestoredAfter, RowOf
  <2> QED
    BY <1>1, <1>3, <2>2 DEF Fresh, OnlyCancelledRestored, Typed, TypeOK
<1> QED
  BY <1>6, <1>7, <1>8 DEF Fresh

LEMMA FreshStep == Fresh /\ [Next /\ OneAtATime']_vars => Fresh'
<1> SUFFICES ASSUME Fresh, [Next /\ OneAtATime']_vars PROVE Fresh'
  OBVIOUS
<1>1. Typed'
  BY TypedStep DEF Fresh
<1>2. CASE UNCHANGED vars
  BY <1>1, <1>2 DEF Fresh, OneAtATime, Holds, WhatWasRead, RowOf,
     OnlyCancelledRestored, AskedIsWanted, vars, rows
<1>3. CASE Next /\ OneAtATime'
  <2>1. ASSUME NEW r \in Requests, Step(r)  PROVE Fresh'
    <3>1. CASE CancelByBuyerRecheck(r)
      <4> DEFINE o == req[r].order
      <4>1. status[o] = "pending"
        BY <3>1 DEF CancelByBuyerRecheck, Fresh, WhatWasRead
      <4> QED
        BY <1>1, <1>3, <3>1, <4>1, FreshQuiet
           DEF CancelByBuyerRecheck, Committing, MayMove
    <3>2. CASE Notify(r)
      <4> DEFINE l == req[r].left
                 t == Tail(l)
                 x == IF Len(l) = 1 THEN Idle ELSE [at |-> "notify", left |-> t]
      <4>1. req' = [req EXCEPT ![r] = x] /\ UNCHANGED rows
        BY <3>2 DEF Notify
      <4> HIDE DEF t, l
      <4>2. x.at \in {"idle", "notify"}
        BY DEF Idle
      <4> HIDE DEF x
      <4> QED
        BY <1>1, <1>3, <4>1, <4>2, FreshQuiet
    <3> QED
      BY <1>1, <1>3, <2>1, <3>1, <3>2, FreshCreateCommit,
         FreshUpdateStatusCommit DEF Step
  <2>2. ASSUME NEW r \in Requests, Fail(r)  PROVE Fresh'
    BY <1>1, <1>3, <2>2, FreshQuiet DEF Fail, Idle
  <2>3. ASSUME NEW p \in Products, SetActive(p)  PROVE Fresh'
    BY <1>1, <1>3, <2>3 DEF SetActive, Fresh, WhatWasRead, RowOf,
       OnlyCancelledRestored, AskedIsWanted, rows
  <2> QED
    BY <1>1, <1>3, <2>1, <2>2, <2>3, FreshBegin DEF Next, Work
<1> QED
  BY <1>2, <1>3

\* A commit moves an order that is still where it was read.
LEMMA CommitMoves ==
  ASSUME Fresh, NEW r \in Requests, UpdateStatusCommit(r)
  PROVE  /\ req[r].order \in OrderIds
         /\ <<status[req[r].order], req[r].goal>> \in ORDER_TRANSITIONS
         /\ req[r].byBuyer => status[req[r].order] = "pending"
         /\ ~restored[req[r].order]
         /\ ~req[r].seen.restored
<1>1. req[r].at = "commit" /\ req[r].order \in OrderIds
  BY StageType DEF UpdateStatusCommit, Fresh, Typed
<1>2. /\ <<status[req[r].order], req[r].goal>> \in ORDER_TRANSITIONS
      /\ req[r].byBuyer => status[req[r].order] = "pending"
      /\ req[r].seen = RowOf(req[r].order)
  BY <1>1, Zenon DEF Fresh, WhatWasRead
<1>3. ~restored[req[r].order]
  BY <1>1, <1>2 DEF Fresh, OnlyCancelledRestored, ORDER_TRANSITIONS
<1>4. ~req[r].seen.restored
  BY <1>2, <1>3 DEF RowOf
<1> QED
  BY <1>1, <1>2, <1>3, <1>4, Zenon

\* Which steps change a status, or a history, at all.
LEMMA StatusSteps ==
  ASSUME [Next]_vars
  PROVE  \/ UNCHANGED <<status, history>>
         \/ \E r \in Requests, o \in OrderIds : CreateCommit(r, o)
         \/ \E r \in Requests : UpdateStatusCommit(r)
  BY DEF Next, Work, Begin, Step, vars, rows, CreateRead, UpdateStatusRead,
     CancelByBuyerRead, CancelByBuyerRecheck, Notify, Fail, SetActive

LEMMA PathStep == Fresh /\ HistoryIsAPath /\ [Next]_vars => HistoryIsAPath'
<1> SUFFICES ASSUME Fresh, HistoryIsAPath, [Next]_vars PROVE HistoryIsAPath'
  OBVIOUS
<1>1. CASE UNCHANGED <<status, history>>
  BY <1>1 DEF HistoryIsAPath
<1>2. ASSUME NEW r \in Requests, NEW o \in OrderIds, CreateCommit(r, o)
      PROVE  HistoryIsAPath'
  BY <1>2 DEF CreateCommit, Open, HistoryIsAPath, Passed, Fresh, Typed, TypeOK
<1>3. ASSUME NEW r \in Requests, UpdateStatusCommit(r)
      PROVE  HistoryIsAPath'
  <2> DEFINE o == req[r].order
             goal == req[r].goal
  <2>1. /\ o \in OrderIds
        /\ <<status[o], goal>> \in ORDER_TRANSITIONS
        /\ status' = [status EXCEPT ![o] = goal]
        /\ history' = [history EXCEPT ![o] = @ \cup {goal}]
    BY <1>3, CommitMoves DEF UpdateStatusCommit, Record
  <2>2. goal # "cancelled" => Passed(status[o]) \cup {goal} = Passed(goal)
    BY <2>1 DEF ORDER_TRANSITIONS, Passed, OrderStatus
  <2>3. history[o] = Passed(status[o])
    BY <2>1 DEF HistoryIsAPath, ORDER_TRANSITIONS
  <2> HIDE DEF o, goal
  <2>4. ASSUME NEW p \in OrderIds, status'[p] \notin {"none", "cancelled"}
        PROVE  history'[p] = Passed(status'[p])
    <3>1. CASE p = o
      BY <2>1, <2>2, <2>3, <2>4, <3>1 DEF Fresh, Typed, TypeOK
    <3>2. CASE p # o
      BY <2>1, <2>4, <3>2 DEF Fresh, HistoryIsAPath, Typed, TypeOK
    <3> QED
      BY <3>1, <3>2
  <2> QED
    BY <2>4 DEF HistoryIsAPath
<1> QED
  BY <1>1, <1>2, <1>3, StatusSteps

\* The history of an order is the path ORDER_TRANSITIONS describes.
THEOREM SerialHistory == SerialSpec => []HistoryIsAPath
<1>1. Init => HistoryIsAPath
  BY DEF Init, HistoryIsAPath
<1>2. /\ Fresh /\ HistoryIsAPath /\ [Next /\ OneAtATime']_vars
      => HistoryIsAPath'
  BY PathStep
<1> QED
  BY <1>1, <1>2, FreshInit, FreshStep, PTL DEF SerialSpec

\* An order that was delivered or cancelled never moves again.
THEOREM SerialTerminal == SerialSpec => TerminalIsFinal
<1>1. ASSUME Fresh, [Next /\ OneAtATime']_vars
      PROVE  [\A o \in OrderIds :
                status[o] \in Terminal => status'[o] = status[o]]_vars
  <2>1. CASE UNCHANGED <<status, history>>
    BY <2>1
  <2>2. ASSUME NEW r \in Requests, NEW o \in OrderIds, CreateCommit(r, o)
        PROVE  \A p \in OrderIds : status[p] \in Terminal => status'[p] = status[p]
    BY <1>1, <2>2 DEF CreateCommit, Open, Terminal, Fresh, Typed, TypeOK
  <2>3. ASSUME NEW r \in Requests, UpdateStatusCommit(r)
        PROVE  \A p \in OrderIds : status[p] \in Terminal => status'[p] = status[p]
    <3>1. status[req[r].order] \notin Terminal
      BY <1>1, <2>3, CommitMoves DEF Terminal, ORDER_TRANSITIONS
    <3> QED
      BY <1>1, <2>3, <3>1 DEF UpdateStatusCommit, Fresh, Typed, TypeOK
  <2> QED
    BY <1>1, <2>1, <2>2, <2>3, StatusSteps
<1> QED
  BY <1>1, FreshInit, FreshStep, PTL DEF SerialSpec, TerminalIsFinal

-----------------------------------------------------------------------------
(* The refinement.                                                         *)

LEMMA BookStart == Init => Book!BookInit
  BY DEF Init, Book!BookInit, Book!None, Asked

LEMMA BookCreate ==
  ASSUME Fresh, NEW r \in Requests, NEW o \in OrderIds, CreateCommit(r, o)
  PROVE  \E u \in Wanted : Book!Place(o, u)
<1> DEFINE t == req[r].terms
<1>1. t \in Terms /\ t.items \in Wanted
  BY StageType DEF CreateCommit, Fresh, Typed, AskedIsWanted
<1>2. /\ status[o] = "none"
      /\ status' = [status EXCEPT ![o] = "pending"]
      /\ terms'  = [terms EXCEPT ![o] = t]
      /\ stock'  = [p \in Products |-> stock[p] - t.items[p]]
      /\ UNCHANGED totalSold
  BY DEF CreateCommit, Open
<1>3. \A p \in Products : t.items[p] <= stock[p]
  BY <1>1 DEF CreateCommit, CanReserve, Terms, Fresh, Typed, TypeOK
<1>4. Asked' = [Asked EXCEPT ![o] = t.items]
  BY <1>1, <1>2 DEF Asked, Fresh, Typed, TypeOK
<1>5. Book!Place(o, t.items)
  BY <1>2, <1>3, <1>4 DEF Book!Place
<1> QED
  BY <1>1, <1>5

LEMMA BookMove ==
  ASSUME Fresh, NEW r \in Requests, UpdateStatusCommit(r)
  PROVE  LET o == req[r].order IN
           \/ \E to \in {m[2] : m \in ORDER_TRANSITIONS} : Book!Advance(o, to)
           \/ Book!Deliver(o)
           \/ Book!Cancel(o)
<1> DEFINE q == req[r]
           o == req[r].order
<1>1. /\ o \in OrderIds
      /\ <<status[o], q.goal>> \in ORDER_TRANSITIONS
      /\ ~q.seen.restored
  BY CommitMoves
<1>2. status[o] # "none" /\ Asked[o] = terms[o].items
  BY <1>1 DEF ORDER_TRANSITIONS, Asked
<1>3. /\ status' = [status EXCEPT ![o] = q.goal]
      /\ UNCHANGED terms
      /\ stock' = [p \in Products |->
            IF q.goal = "cancelled" THEN stock[p] + Asked[o][p] ELSE stock[p]]
      /\ totalSold' = [p \in Products |->
            IF q.goal = "delivered" THEN totalSold[p] + Asked[o][p]
            ELSE totalSold[p]]
  BY <1>1, <1>2 DEF UpdateStatusCommit, Returns, Sells
<1>4. UNCHANGED Asked
  BY <1>1, <1>2, <1>3 DEF Asked, ORDER_TRANSITIONS, Fresh, Typed, TypeOK
<1>5. CASE q.goal = "cancelled"
  <2>1. UNCHANGED totalSold
    BY <1>3, <1>5 DEF Fresh, Typed, TypeOK
  <2> QED
    BY <1>1, <1>3, <1>4, <1>5, <2>1 DEF Book!Cancel
<1>6. CASE q.goal = "delivered"
  <2>1. UNCHANGED stock
    BY <1>3, <1>6 DEF Fresh, Typed, TypeOK
  <2> QED
    BY <1>1, <1>3, <1>4, <1>6, <2>1 DEF Book!Deliver
<1>7. CASE q.goal \notin {"cancelled", "delivered"}
  <2>1. UNCHANGED <<stock, totalSold>>
    BY <1>3, <1>7 DEF Fresh, Typed, TypeOK
  <2>2. q.goal \in {m[2] : m \in ORDER_TRANSITIONS}
    BY <1>1
  <2>3. Book!Advance(o, q.goal)
    BY <1>1, <1>3, <1>4, <1>7, <2>1 DEF Book!Advance
  <2> QED
    BY <2>2, <2>3
<1> QED
  BY <1>5, <1>6, <1>7

LEMMA BookStep ==
  Fresh /\ [Next /\ OneAtATime']_vars => [Book!BookNext]_(Book!bookVars)
<1> SUFFICES ASSUME Fresh, [Next]_vars
             PROVE  [Book!BookNext]_(Book!bookVars)
  OBVIOUS
<1>1. CASE UNCHANGED <<stock, totalSold, status, terms>>
  BY <1>1 DEF Book!bookVars, Asked
<1>2. ASSUME NEW r \in Requests, NEW o \in OrderIds, CreateCommit(r, o)
      PROVE  Book!BookNext
  BY <1>2, BookCreate DEF Book!BookNext
<1>3. ASSUME NEW r \in Requests, UpdateStatusCommit(r)
      PROVE  Book!BookNext
  BY <1>3, BookMove, CommitMoves DEF Book!BookNext
<1> QED
  BY <1>1, <1>2, <1>3, QuietStep

\* Served one at a time, the requests on an order implement the order book:
\* whatever the baskets, the stock is taken, returned and counted exactly once.
THEOREM SerialImplementsBook == SerialSpec => ImplementsBook
  BY BookStart, BookStep, FreshInit, FreshStep, PTL
     DEF SerialSpec, ImplementsBook, Book!BookSpec

-----------------------------------------------------------------------------
(* Conservation.  When a commit acts on what is still so, its order is live *)
(* and undelivered, so the accounts of Accounted balance exactly.          *)

Balanced ==
  /\ Fresh
  /\ SeenUnrestored
  /\ IsFiniteSet(Placed)
  /\ \A p \in Products : stock[p] + HeldBy(p, Live) = InitialStock[p]
  /\ \A p \in Products : totalSold[p] = HeldBy(p, Delivered)

LEMMA BalancedInit == Init => Balanced
<1> SUFFICES ASSUME Init PROVE Balanced
  OBVIOUS
<1>1. Placed = {} /\ Live = {} /\ Delivered = {}
  BY DEF Init, Placed, Live, Delivered
<1>2. \A p \in Products : HeldBy(p, {}) = 0
  BY SumEmpty DEF HeldBy
<1>3. \A p \in Products : stock[p] \in Nat /\ stock[p] = InitialStock[p]
                          /\ totalSold[p] = 0
  BY OrdersAssumption DEF Init
<1>4. SeenUnrestored
  BY AccountedInit DEF Accounted
<1> QED
  BY <1>1, <1>2, <1>3, <1>4, FreshInit, FS_EmptySet DEF Balanced

LEMMA BalancedStep == Balanced /\ [Next /\ OneAtATime']_vars => Balanced'
<1> SUFFICES ASSUME Balanced, [Next /\ OneAtATime']_vars PROVE Balanced'
  OBVIOUS
<1>1. Fresh' /\ Typed /\ Typed'
  BY FreshStep DEF Balanced, Fresh
<1>2. SeenUnrestored'
  BY <1>1, FlagsStep DEF Balanced, Fresh
<1>3. \A p \in Products : /\ stock[p] \in Nat /\ stock'[p] \in Nat
                          /\ totalSold[p] \in Nat /\ totalSold'[p] \in Nat
                          /\ InitialStock[p] \in Nat
  BY <1>1, OrdersAssumption DEF Typed, TypeOK
<1>4. CASE UNCHANGED <<stock, totalSold, status, terms>>
  <2>1. /\ IsFiniteSet(Placed')
        /\ \A p \in Products : stock'[p] + HeldBy(p, Live)' = InitialStock[p]
        /\ \A p \in Products : totalSold'[p] = HeldBy(p, Delivered)'
    BY <1>4, QuietHolds DEF Balanced
  <2> QED
    BY <1>1, <1>2, <2>1 DEF Balanced
<1>5. ASSUME NEW r \in Requests, NEW o \in OrderIds, CreateCommit(r, o)
      PROVE  Balanced'
  <2>1. \A p \in Products :
          /\ stock'[p] + HeldBy(p, Live)' = stock[p] + HeldBy(p, Live)
          /\ HeldBy(p, Delivered)' = HeldBy(p, Delivered)
    BY <1>1, <1>5, PlacingHolds DEF Balanced
  <2>2. totalSold' = totalSold
    BY <1>5 DEF CreateCommit
  <2>3. IsFiniteSet(Placed')
    <3>1. Placed' = Placed \cup {o}
      BY <1>1, <1>5 DEF CreateCommit, Open, Placed, Typed, TypeOK
    <3> QED
      BY <3>1, FS_AddElement DEF Balanced
  <2>4. /\ \A p \in Products : stock'[p] + HeldBy(p, Live)' = InitialStock[p]
        /\ \A p \in Products : totalSold'[p] = HeldBy(p, Delivered)'
    BY <2>1, <2>2 DEF Balanced
  <2> QED
    BY <1>1, <1>2, <2>3, <2>4 DEF Balanced
<1>6. ASSUME NEW r \in Requests, UpdateStatusCommit(r)
      PROVE  Balanced'
  <2>0. req[r].order \in Live /\ req[r].order \notin Delivered
    BY <1>6, CommitMoves DEF Balanced, Live, Delivered, ORDER_TRANSITIONS
  <2>1. ASSUME NEW p \in Products
        PROVE  /\ stock'[p] + HeldBy(p, Live)' = InitialStock[p]
               /\ totalSold'[p] = HeldBy(p, Delivered)'
    <3> DEFINE n == terms[req[r].order].items[p]
               a == HeldBy(p, Live)
               b == HeldBy(p, Live)'
               c == HeldBy(p, Delivered)
               d == HeldBy(p, Delivered)'
    <3>1. /\ n \in Nat /\ a \in Nat /\ b \in Nat /\ c \in Nat /\ d \in Nat
          /\ \/ stock'[p] = stock[p] + n /\ a = b + n
             \/ stock'[p] = stock[p] /\ b = a
          /\ \/ totalSold'[p] = totalSold[p] + n /\ d = c + n
             \/ totalSold'[p] = totalSold[p] /\ c = d
      BY <1>1, <1>6, <2>0, MovingHolds DEF Balanced
    <3>2. stock[p] + a = InitialStock[p] /\ totalSold[p] = c
      BY DEF Balanced
    <3> HIDE DEF a, b, c, d, n
    <3>3. stock'[p] + b = InitialStock[p] /\ totalSold'[p] = d
      BY <1>3, <3>1, <3>2
    <3> QED
      BY <3>3 DEF b, d
  <2>2. Placed' = Placed
    BY <1>1, <1>6, <2>0, CommitMoves
       DEF UpdateStatusCommit, Placed, ORDER_TRANSITIONS, Balanced, Typed, TypeOK
  <2> QED
    BY <1>1, <1>2, <2>1, <2>2 DEF Balanced
<1> QED
  BY <1>4, <1>5, <1>6, QuietStep

LEMMA BalancedAddsUp ==
  Balanced => NoUnitInvented /\ \A p \in Products :
                                  totalSold[p] = Units(p, Delivered)
<1> SUFFICES ASSUME Balanced
             PROVE  NoUnitInvented /\ \A p \in Products :
                                        totalSold[p] = Units(p, Delivered)
  OBVIOUS
<1>1. Live \subseteq Placed /\ Delivered \subseteq Placed /\ Placed \subseteq OrderIds
  BY DEF Live, Delivered, Placed
<1>2. IsFiniteSet(Live) /\ IsFiniteSet(Delivered)
  BY <1>1, FS_Subset DEF Balanced
<1>3. \A p \in Products : /\ Units(p, Live) = HeldBy(p, Live)
                          /\ Units(p, Delivered) = HeldBy(p, Delivered)
  BY <1>1, <1>2, UnitsHeld
<1>4. \A p \in Products : InitialStock[p] \in Nat
  BY OrdersAssumption
<1> QED
  BY <1>3, <1>4 DEF Balanced, NoUnitInvented

\* Served one at a time, no unit is sold twice: the shelf and the live orders hold
\* at most what there was, and the sales figures count every delivered order once.
THEOREM SerialConserves ==
  SerialSpec => [](NoUnitInvented /\ \A p \in Products :
                                       totalSold[p] = Units(p, Delivered))
  BY BalancedInit, BalancedStep, BalancedAddsUp, PTL DEF SerialSpec

(***************************************************************************)
(* Part 2.  Carts and coupons.                                             *)
(***************************************************************************)

ShopTables ==
  /\ line   \in [LineIds -> Line \cup {NoLine}]
  /\ coupon \in [Coupons -> Coupon]
  /\ code   \in [OrderIds -> Coupons \cup {NoCoupon}]
  /\ till   \in [Tills -> Till]

\* An order without a row carries no code, and a checkout that found a coupon
\* has a group of the store that issued it.
Coded ==
  /\ \A o \in OrderIds : status[o] = "none" => code[o] = NoCoupon
  /\ \A t \in Tills :
       till[t].at \in {"goods", "pay"} /\ till[t].coupon # NoCoupon
         => CouponBy[till[t].coupon] \in Groups(till[t])

\* The orders that carry coupon c.
Carriers(c) == {o \in OrderIds : code[o] = c}

Counted ==
  \A c \in Coupons :
    /\ IsFiniteSet(Carriers(c))
    /\ coupon[c].redemptions = Cardinality(Carriers(c))

ShopInv == Typed /\ ShopTables /\ Coded /\ Counted

\* A cart request in a given stage has the fields of that stage.
LEMMA TillType ==
  ASSUME ShopTables, NEW t \in Tills
  PROVE  /\ till[t].at = "put" =>
              till[t] \in [at : {"put"}, user : Users, product : Products,
                           quantity : Nat, line : LineIds \cup {NoLine}]
         /\ till[t].at = "change" =>
              till[t] \in [at : {"change"}, line : LineIds, quantity : Nat]
         /\ till[t].at \in {"goods", "pay"} =>
              till[t] \in [at : {"goods", "pay"}, user : Users,
                           basket : [Products -> Nat],
                           coupon : Coupons \cup {NoCoupon}]
         /\ till[t].at = "tell" =>
              till[t] \in [at : {"tell"}, left : SUBSET Notice]
  BY DEF ShopTables, Till, Idle

LEMMA ShopInvInit == ShopInit => ShopInv
<1> SUFFICES ASSUME ShopInit PROVE ShopInv
  OBVIOUS
<1>1. Typed
  BY TypedInit DEF ShopInit
<1>2. ShopTables
  BY DEF ShopInit, ShopTables, Coupon, Till
<1>3. Coded
  BY DEF ShopInit, Coded, Idle
<1>4. ASSUME NEW c \in Coupons PROVE Carriers(c) = {}
  BY CheckoutAssumption DEF ShopInit, Carriers
<1>5. Counted
  BY <1>4, FS_EmptySet DEF ShopInit, Counted
<1> QED
  BY <1>1, <1>2, <1>3, <1>5 DEF ShopInv

-----------------------------------------------------------------------------
(* Steps that touch neither orders nor what coupons have counted.          *)

LEMMA ShopKeeps ==
  ASSUME ShopInv, UNCHANGED <<goods, rows, req, code>>, inbox' \in SUBSET Notice,
         line' \in [LineIds -> Line \cup {NoLine}],
         coupon' \in [Coupons -> Coupon],
         \A c \in Coupons : coupon'[c].redemptions = coupon[c].redemptions,
         till' \in [Tills -> Till],
         \A t \in Tills :
           till'[t].at \in {"goods", "pay"} /\ till'[t].coupon # NoCoupon
             => CouponBy[till'[t].coupon] \in Groups(till'[t])
  PROVE  ShopInv'
<1>1. Typed'
  BY DEF ShopInv, Typed, TypeOK, RowsExist, goods, rows
<1>2. ShopTables'
  BY DEF ShopInv, ShopTables
<1>3. status' = status
  BY DEF rows
<1>4. Coded'
  BY <1>3 DEF ShopInv, Coded, Groups, InBasket
<1>5. Counted'
  BY DEF ShopInv, Counted, Carriers
<1> QED
  BY <1>1, <1>2, <1>4, <1>5 DEF ShopInv

\* A request that moves on to x, perhaps with a new table of lines.
LEMMA ShopMoves ==
  ASSUME ShopInv, NEW t \in Tills, NEW x \in Till, Serve(t, x),
         x.at \in {"goods", "pay"} /\ x.coupon # NoCoupon
           => CouponBy[x.coupon] \in Groups(x),
         UNCHANGED <<goods, rows, req, coupon, code>>, inbox' \in SUBSET Notice,
         line' \in [LineIds -> Line \cup {NoLine}]
  PROVE  ShopInv'
<1>1. till' \in [Tills -> Till]
  BY DEF ShopInv, ShopTables, Serve
<1>2. \A k \in Tills :
        till'[k].at \in {"goods", "pay"} /\ till'[k].coupon # NoCoupon
          => CouponBy[till'[k].coupon] \in Groups(till'[k])
  BY DEF ShopInv, ShopTables, Coded, Serve
<1>3. coupon' \in [Coupons -> Coupon]
  BY DEF ShopInv, ShopTables
<1> QED
  BY <1>1, <1>2, <1>3, ShopKeeps

LEMMA ShopInvAddRead ==
  ASSUME ShopInv, NEW t \in Tills, NEW u \in Users, NEW p \in Products,
         NEW n \in Quantities, AddRead(t, u, p, n)
  PROVE  ShopInv'
<1>1. PICK l \in LineIds \cup {NoLine}, next \in Nat :
         Serve(t, [at |-> "put", user |-> u, product |-> p,
                   quantity |-> next, line |-> l])
  <2>1. PICK l \in IF LinesOf(u, p) = {} THEN {NoLine} ELSE LinesOf(u, p) :
           Serve(t, [at |-> "put", user |-> u, product |-> p,
                     quantity |-> IF l = NoLine THEN n ELSE line[l].quantity + n,
                     line |-> l])
    BY DEF AddRead
  <2>2. l \in LineIds \cup {NoLine}
    BY DEF LinesOf, Cart
  <2>3. l = NoLine \/ (l \in LineIds /\ line[l] # NoLine)
    BY DEF LinesOf, Cart
  <2>4. n \in Nat
    BY CheckoutAssumption
  <2>5. l # NoLine => line[l].quantity \in Nat
    BY <2>3 DEF ShopInv, ShopTables, Line
  <2>6. (IF l = NoLine THEN n ELSE line[l].quantity + n) \in Nat
    BY <2>4, <2>5
  <2> QED
    BY <2>1, <2>2, <2>6
<1> DEFINE x == [at |-> "put", user |-> u, product |-> p, quantity |-> next,
                 line |-> l]
<1>2. x \in Till /\ x.at \notin {"goods", "pay"}
  BY DEF Till
<1>3. UNCHANGED <<goods, rows, req, coupon, code, inbox, line>>
  BY DEF AddRead, vars
<1> QED
  BY <1>1, <1>2, <1>3, ShopMoves DEF ShopInv, ShopTables, Typed, TypeOK

LEMMA ShopInvAddWrite ==
  ASSUME ShopInv, NEW t \in Tills, AddWrite(t)
  PROVE  ShopInv'
<1> DEFINE k == till[t]
<1>1. k \in [at : {"put"}, user : Users, product : Products, quantity : Nat,
             line : LineIds \cup {NoLine}]
  BY TillType DEF AddWrite, ShopInv
<1>2. Idle \in Till /\ Idle.at \notin {"goods", "pay"}
  BY DEF Idle, Till
<1>3. UNCHANGED <<goods, rows, req, coupon, code, inbox>> /\ Serve(t, Idle)
  BY DEF AddWrite, vars
<1>4. line' \in [LineIds -> Line \cup {NoLine}] => ShopInv'
  BY <1>2, <1>3, ShopMoves DEF ShopInv, Typed, TypeOK
<1>5. line' \in [LineIds -> Line \cup {NoLine}]
  <2>1. \/ /\ k.line # NoLine /\ line[k.line] # NoLine
           /\ line' = [line EXCEPT ![k.line].quantity = k.quantity]
        \/ \E l \in LineIds :
             line' = [line EXCEPT ![l] =
               [user |-> k.user, product |-> k.product, quantity |-> k.quantity]]
    BY DEF AddWrite
  <2>2. ASSUME k.line # NoLine, line[k.line] # NoLine,
               line' = [line EXCEPT ![k.line].quantity = k.quantity]
        PROVE  line' \in [LineIds -> Line \cup {NoLine}]
    BY <1>1, <2>2 DEF ShopInv, ShopTables, Line
  <2>3. ASSUME NEW l \in LineIds,
               line' = [line EXCEPT ![l] =
                 [user |-> k.user, product |-> k.product, quantity |-> k.quantity]]
        PROVE  line' \in [LineIds -> Line \cup {NoLine}]
    BY <1>1, <2>3 DEF ShopInv, ShopTables, Line
  <2> QED
    BY <2>1, <2>2, <2>3
<1> QED
  BY <1>4, <1>5

LEMMA ShopInvChange ==
  ASSUME ShopInv, NEW t \in Tills
  PROVE  /\ \A l \in LineIds, n \in Quantities : ChangeRead(t, l, n) => ShopInv'
         /\ ChangeWrite(t) => ShopInv'
<1>1. ASSUME NEW l \in LineIds, NEW n \in Quantities, ChangeRead(t, l, n)
      PROVE  ShopInv'
  <2> DEFINE x == [at |-> "change", line |-> l, quantity |-> n]
  <2>1. x \in Till /\ x.at \notin {"goods", "pay"}
    BY CheckoutAssumption DEF Till
  <2>2. UNCHANGED <<goods, rows, req, coupon, code, inbox, line>>
        /\ Serve(t, x)
    BY <1>1 DEF ChangeRead, vars
  <2> QED
    BY <2>1, <2>2, ShopMoves DEF ShopInv, ShopTables, Typed, TypeOK
<1>2. ASSUME ChangeWrite(t) PROVE ShopInv'
  <2> DEFINE l == till[t].line
             n == till[t].quantity
  <2>1. l \in LineIds /\ n \in Nat
    BY <1>2, TillType DEF ChangeWrite, ShopInv
  <2>2. line[l] \in Line /\ line' = [line EXCEPT ![l].quantity = n]
    BY <1>2, <2>1 DEF ChangeWrite, ShopInv, ShopTables
  <2>3. line' \in [LineIds -> Line \cup {NoLine}]
    BY <2>1, <2>2 DEF ShopInv, ShopTables, Line
  <2>4. Idle \in Till /\ Idle.at \notin {"goods", "pay"}
    BY DEF Idle, Till
  <2>5. UNCHANGED <<goods, rows, req, coupon, code, inbox>> /\ Serve(t, Idle)
    BY <1>2 DEF ChangeWrite, vars
  <2> QED
    BY <2>3, <2>4, <2>5, ShopMoves DEF ShopInv, Typed, TypeOK
<1> QED
  BY <1>1, <1>2

LEMMA EmptiedType ==
  ASSUME ShopTables, NEW u
  PROVE  Emptied(u) \in [LineIds -> Line \cup {NoLine}]
  BY DEF ShopTables, Emptied

LEMMA ShopInvLeaves ==
  ASSUME ShopInv
  PROVE  /\ \A l \in LineIds : RemoveItem(l) => ShopInv'
         /\ \A u \in Users : Clear(u) => ShopInv'
         /\ \A t \in Tills : Leave(t) => ShopInv'
<1>1. ASSUME NEW t \in Tills, Leave(t) PROVE ShopInv'
  <2>1. Idle \in Till /\ Idle.at \notin {"goods", "pay"}
    BY DEF Idle, Till
  <2>2. UNCHANGED <<goods, rows, req, coupon, code, inbox, line>> /\ Serve(t, Idle)
    BY <1>1 DEF Leave, vars
  <2> QED
    BY <2>1, <2>2, ShopMoves DEF ShopInv, ShopTables, Typed, TypeOK
<1>2. ASSUME UNCHANGED <<vars, coupon, code, till>>,
             line' \in [LineIds -> Line \cup {NoLine}]
      PROVE  ShopInv'
  BY <1>2, ShopKeeps DEF ShopInv, ShopTables, Coded, Typed, TypeOK, vars
<1>3. ASSUME NEW l \in LineIds, RemoveItem(l) PROVE ShopInv'
  BY <1>2, <1>3 DEF RemoveItem, ShopInv, ShopTables
<1>4. ASSUME NEW u \in Users, Clear(u) PROVE ShopInv'
  BY <1>2, <1>4, EmptiedType DEF Clear, ShopInv
<1> QED
  BY <1>1, <1>3, <1>4

\* What sellers do to a coupon leaves its redemptions alone.
LEMMA SellersKeepCount ==
  ASSUME ShopTables, NEW c \in Coupons,
         \/ \E m \in Limits : CreateCoupon(c, m)
         \/ \E m \in Limits, on \in BOOLEAN : UpdateCoupon(c, m, on)
         \/ RemoveCoupon(c)
  PROVE  /\ coupon' \in [Coupons -> Coupon]
         /\ \A d \in Coupons : coupon'[d].redemptions = coupon[d].redemptions
<1>1. Limits \subseteq Nat \cup {Unlimited}
  BY CheckoutAssumption
<1>2. PICK d : /\ d \in Coupon
               /\ d.redemptions = coupon[c].redemptions
               /\ coupon' = [coupon EXCEPT ![c] = d]
  <2> DEFINE old == coupon[c]
  <2>1. old \in Coupon
    BY DEF ShopTables
  <2>2. ASSUME NEW m \in Limits, CreateCoupon(c, m)
        PROVE  \E d : /\ d \in Coupon
                      /\ d.redemptions = old.redemptions
                      /\ coupon' = [coupon EXCEPT ![c] = d]
    <3> DEFINE d == [old EXCEPT !.state = "issued", !.max = m]
    <3>1. d \in Coupon /\ d.redemptions = old.redemptions
      BY <1>1, <2>1 DEF Coupon
    <3>2. coupon' = [coupon EXCEPT ![c] = d]
      BY <2>2 DEF CreateCoupon, ShopTables
    <3> QED
      BY <3>1, <3>2
  <2>3. ASSUME NEW m \in Limits, NEW on \in BOOLEAN, UpdateCoupon(c, m, on)
        PROVE  \E d : /\ d \in Coupon
                      /\ d.redemptions = old.redemptions
                      /\ coupon' = [coupon EXCEPT ![c] = d]
    <3> DEFINE d == [old EXCEPT !.max = m, !.isActive = on]
    <3>1. d \in Coupon /\ d.redemptions = old.redemptions
      BY <1>1, <2>1 DEF Coupon
    <3>2. coupon' = [coupon EXCEPT ![c] = d]
      BY <2>3 DEF UpdateCoupon, ShopTables
    <3> QED
      BY <3>1, <3>2
  <2>4. ASSUME RemoveCoupon(c)
        PROVE  \E d : /\ d \in Coupon
                      /\ d.redemptions = old.redemptions
                      /\ coupon' = [coupon EXCEPT ![c] = d]
    <3> DEFINE d == [old EXCEPT !.state = "removed"]
    <3>1. d \in Coupon /\ d.redemptions = old.redemptions
      BY <2>1 DEF Coupon
    <3>2. coupon' = [coupon EXCEPT ![c] = d]
      BY <2>4 DEF RemoveCoupon, ShopTables
    <3> QED
      BY <3>1, <3>2
  <2> QED
    BY <2>2, <2>3, <2>4
<1> QED
  BY <1>2 DEF ShopTables

LEMMA ShopInvSellers ==
  ASSUME ShopInv, NEW c \in Coupons,
         \/ \E m \in Limits : CreateCoupon(c, m)
         \/ \E m \in Limits, on \in BOOLEAN : UpdateCoupon(c, m, on)
         \/ RemoveCoupon(c)
  PROVE  ShopInv'
<1>1. UNCHANGED <<goods, rows, req, inbox, line, code, till>>
  BY DEF CreateCoupon, UpdateCoupon, RemoveCoupon, vars
<1> QED
  BY <1>1, SellersKeepCount, ShopKeeps
     DEF ShopInv, ShopTables, Coded, Typed, TypeOK

-----------------------------------------------------------------------------
(* checkout.                                                               *)

LEMMA ShopInvCheckoutRead ==
  ASSUME ShopInv, NEW t \in Tills, NEW u \in Users, CheckoutRead(t, u)
  PROVE  ShopInv'
<1> DEFINE x == [at |-> "goods", user |-> u, basket |-> BasketOf(u),
                 coupon |-> NoCoupon]
<1>1. ASSUME NEW p \in Products, LinesOf(u, p) # {}
      PROVE  line[CHOOSE l \in LinesOf(u, p) : TRUE].quantity \in Nat
  <2>1. (CHOOSE l \in LinesOf(u, p) : TRUE) \in LinesOf(u, p)
    BY <1>1
  <2>2. \A l \in LinesOf(u, p) : line[l] \in Line
    BY DEF LinesOf, Cart, ShopInv, ShopTables
  <2> QED
    BY <2>1, <2>2 DEF Line
<1>2. BasketOf(u) \in [Products -> Nat]
  BY <1>1 DEF BasketOf
<1>3. x \in Till
  BY <1>2 DEF Till
<1>4. UNCHANGED <<goods, rows, req, coupon, code, inbox, line>> /\ Serve(t, x)
  BY DEF CheckoutRead, vars
<1> QED
  BY <1>3, <1>4, ShopMoves DEF ShopInv, ShopTables, Typed, TypeOK

LEMMA ShopInvCheckoutGoods ==
  ASSUME ShopInv, NEW t \in Tills, CheckoutGoods(t)
  PROVE  ShopInv'
<1> DEFINE k == till[t]
           x == [k EXCEPT !.at = "pay"]
<1>1. k \in [at : {"goods", "pay"}, user : Users, basket : [Products -> Nat],
             coupon : Coupons \cup {NoCoupon}]
  BY TillType DEF CheckoutGoods, ShopInv
<1>2. x \in [at : {"goods", "pay"}, user : Users, basket : [Products -> Nat],
             coupon : Coupons \cup {NoCoupon}]
      /\ x.coupon = k.coupon /\ x.basket = k.basket
  BY <1>1
<1>3. UNCHANGED <<goods, rows, req, coupon, code, inbox, line>> /\ Serve(t, x)
  BY DEF CheckoutGoods, vars
<1>4. k.coupon # NoCoupon => CouponBy[k.coupon] \in Groups(k)
  BY <1>1 DEF ShopInv, Coded
<1> HIDE DEF x
<1>5. x \in Till
  BY <1>2 DEF Till
<1>6. x.coupon # NoCoupon => CouponBy[x.coupon] \in Groups(x)
  BY <1>2, <1>4 DEF Groups, InBasket
<1> QED
  BY <1>3, <1>5, <1>6, ShopMoves DEF ShopInv, ShopTables, Typed, TypeOK

LEMMA ShopInvFindCoupon ==
  ASSUME ShopInv, NEW t \in Tills, NEW c \in Coupons, FindCoupon(t, c)
  PROVE  ShopInv'
<1> DEFINE k == till[t]
           x == [k EXCEPT !.coupon = c]
<1>1. k \in [at : {"goods", "pay"}, user : Users, basket : [Products -> Nat],
             coupon : Coupons \cup {NoCoupon}]
  BY TillType DEF FindCoupon, ShopInv
<1>2. x \in [at : {"goods", "pay"}, user : Users, basket : [Products -> Nat],
             coupon : Coupons \cup {NoCoupon}]
      /\ x.coupon = c /\ x.basket = k.basket
  BY <1>1
<1>3. UNCHANGED <<goods, rows, req, coupon, code, inbox, line>> /\ Serve(t, x)
      /\ CouponBy[c] \in Groups(k)
  BY DEF FindCoupon, vars
<1> HIDE DEF x
<1>4. x \in Till
  BY <1>2 DEF Till
<1>5. CouponBy[x.coupon] \in Groups(x)
  BY <1>2, <1>3 DEF Groups, InBasket
<1> QED
  BY <1>3, <1>4, <1>5, ShopMoves DEF ShopInv, ShopTables, Typed, TypeOK

LEMMA ShopInvTellSeller ==
  ASSUME ShopInv, NEW t \in Tills, TellSeller(t)
  PROVE  ShopInv'
<1> DEFINE k == till[t]
<1>1. k \in [at : {"tell"}, left : SUBSET Notice]
  BY TillType DEF TellSeller, ShopInv
<1>2. PICK n \in k.left :
         /\ inbox' = inbox \cup {n}
         /\ Serve(t, IF k.left = {n} THEN Idle ELSE [k EXCEPT !.left = @ \ {n}])
  BY DEF TellSeller
<1> DEFINE y == [k EXCEPT !.left = @ \ {n}]
           x == IF k.left = {n} THEN Idle ELSE y
<1>3. y \in [at : {"tell"}, left : SUBSET Notice]
  BY <1>1
<1>4. y \in Till /\ y.at = "tell"
  BY <1>3 DEF Till
<1> HIDE DEF y
<1>5. x \in Till /\ x.at \notin {"goods", "pay"}
  BY <1>4 DEF Till, Idle
<1>6. inbox' \in SUBSET Notice
  BY <1>1, <1>2 DEF ShopInv, Typed, TypeOK
<1>7. Serve(t, x)
  BY <1>2 DEF y
<1>8. UNCHANGED <<goods, rows, req, coupon, code, line>>
  BY DEF TellSeller
<1> HIDE DEF x
<1> QED
  BY <1>5, <1>6, <1>7, <1>8, ShopMoves DEF ShopInv, ShopTables

\* What the transaction of a checkout does to the table of orders.
LEMMA OpenAllTyped ==
  ASSUME Typed, NEW k, k.user \in Users, k.basket \in [Products -> Nat],
         NEW O \in SUBSET OrderIds, NEW g \in [O -> Users],
         OpenAll(O, g, k), stock' \in [Products -> Nat],
         UNCHANGED <<totalSold, active, inbox, req>>
  PROVE  Typed'
<1>1. ASSUME NEW s \in Users PROVE TermsFor(k, s) \in Terms
  <2>1. [p \in Products |-> IF SellerOf[p] = s THEN k.basket[p] ELSE 0]
          \in [Products -> Nat]
    OBVIOUS
  <2> QED
    BY <2>1 DEF TermsFor, Terms
<1>2. terms' \in [OrderIds -> Terms \cup {NoTerms}]
  BY <1>1 DEF OpenAll, Typed, TypeOK
<1>3. status' \in [OrderIds -> OrderStatus \cup {"none"}]
      /\ history' \in [OrderIds -> SUBSET OrderStatus]
  BY DEF OpenAll, Typed, TypeOK, OrderStatus
<1>4. TypeOK'
  BY <1>2, <1>3 DEF OpenAll, Typed, TypeOK
<1>5. RowsExist'
  <2>1. \A o \in OrderIds : status'[o] # "none" => terms'[o] \in Terms
    BY <1>1 DEF OpenAll, Typed, TypeOK, RowsExist
  <2>2. \A o \in OrderIds : status'[o] = "none" => status[o] = "none"
    BY DEF OpenAll
  <2>3. \A r \in Requests :
          req'[r].at \in {"recheck", "commit"} => status'[req'[r].order] # "none"
    BY <2>2, StageType DEF Typed, RowsExist
  <2> QED
    BY <2>1, <2>3 DEF Typed, RowsExist
<1> QED
  BY <1>4, <1>5 DEF Typed

LEMMA ShopInvCheckoutCommit ==
  ASSUME ShopInv, NEW t \in Tills, CheckoutCommit(t)
  PROVE  ShopInv'
<1> DEFINE k == till[t]
           s == CouponBy[k.coupon]
<1>1. k \in [at : {"goods", "pay"}, user : Users, basket : [Products -> Nat],
             coupon : Coupons \cup {NoCoupon}]
  BY TillType DEF CheckoutCommit, ShopInv
<1>2. PICK O \in SUBSET {o \in OrderIds : status[o] = "none"} :
      \E g \in Bijection(O, Groups(k)) :
        /\ OpenAll(O, g, k)
        /\ Serve(t, [at |-> "tell", left |->
             {[to |-> g[o], order |-> o, about |-> "pending"] : o \in O}])
  BY DEF CheckoutCommit
<1>3. PICK g \in Bijection(O, Groups(k)) :
        /\ OpenAll(O, g, k)
        /\ Serve(t, [at |-> "tell", left |->
             {[to |-> g[o], order |-> o, about |-> "pending"] : o \in O}])
  BY <1>2
<1>4. /\ CanReserve([items |-> k.basket])
      /\ stock' = [p \in Products |-> stock[p] - k.basket[p]]
      /\ Redeem(k)
      /\ line' = Emptied(k.user)
      /\ UNCHANGED <<totalSold, active, inbox, req>>
  BY DEF CheckoutCommit
<1>5. /\ g \in [O -> Groups(k)]
      /\ \A a, b \in O : g[a] = g[b] => a = b
      /\ \A v \in Groups(k) : \E a \in O : g[a] = v
  BY DEF Bijection, Injection, Surjection, IsInjective
<1>6. Groups(k) \subseteq Users
  BY OrdersAssumption DEF Groups, InBasket
<1>7. g \in [O -> Users]
  BY <1>5, <1>6
<1> DEFINE N == {[to |-> g[o], order |-> o, about |-> "pending"] : o \in O}
           x == [at |-> "tell", left |-> N]
<1>8. N \in SUBSET Notice
  BY <1>7 DEF Notice, OrderStatus
<1> HIDE DEF N
<1>9. x \in Till /\ x.at = "tell"
  BY <1>8 DEF Till
<1>10. till' = [till EXCEPT ![t] = x]
  BY <1>3 DEF Serve, N
<1>11. /\ \A o \in OrderIds : status[o] = "none" => code[o] = NoCoupon
       /\ k.coupon # NoCoupon => s \in Groups(k)
  BY <1>1 DEF ShopInv, Coded
<1> HIDE DEF x, k
<1>12. stock' \in [Products -> Nat]
  BY <1>1, <1>4 DEF CanReserve, ShopInv, Typed, TypeOK
<1>13. Typed'
  BY <1>1, <1>3, <1>4, <1>7, <1>12, OpenAllTyped DEF ShopInv
<1>14. /\ \A o \in OrderIds \ O : code'[o] = code[o] /\ status'[o] = status[o]
       /\ \A o \in O : status'[o] = "pending"
       /\ \A o \in O : code'[o] = IF k.coupon # NoCoupon /\ s = g[o]
                                  THEN k.coupon ELSE NoCoupon
       /\ code' \in [OrderIds -> Coupons \cup {NoCoupon}]
  BY <1>1, <1>3, <1>11 DEF OpenAll, ShopInv, ShopTables
<1>15. coupon' \in [Coupons -> Coupon]
       /\ \A c \in Coupons : coupon'[c].redemptions =
            IF c = k.coupon THEN coupon[c].redemptions + 1
            ELSE coupon[c].redemptions
  <2>1. CASE k.coupon = NoCoupon
    BY <1>4, <2>1, CheckoutAssumption DEF Redeem, ShopInv, ShopTables
  <2>2. CASE k.coupon # NoCoupon
    <3> DEFINE n == [coupon[k.coupon] EXCEPT !.redemptions = @ + 1]
    <3>1. k.coupon \in Coupons /\ coupon[k.coupon] \in Coupon
      BY <1>1, <2>2 DEF ShopInv, ShopTables
    <3>2. n \in Coupon /\ n.redemptions = coupon[k.coupon].redemptions + 1
      BY <3>1 DEF Coupon
    <3>3. coupon' = [coupon EXCEPT ![k.coupon] = n]
      BY <1>4, <2>2, <3>1 DEF Redeem, ShopInv, ShopTables
    <3> QED
      BY <3>1, <3>2, <3>3 DEF ShopInv, ShopTables
  <2> QED
    BY <2>1, <2>2
<1>16. ShopTables'
  BY <1>4, <1>9, <1>10, <1>14, <1>15, EmptiedType DEF ShopInv, ShopTables
<1>17. Coded'
  <2>1. \A o \in OrderIds : status'[o] = "none" => code'[o] = NoCoupon
    BY <1>11, <1>14
  <2>2. ASSUME NEW a \in Tills, till'[a].at \in {"goods", "pay"},
               till'[a].coupon # NoCoupon
        PROVE  CouponBy[till'[a].coupon] \in Groups(till'[a])
    BY <1>9, <1>10, <2>2 DEF ShopInv, ShopTables, Coded
  <2> QED
    BY <2>1, <2>2 DEF Coded, Groups, InBasket
<1>18. Counted'
  <2> SUFFICES ASSUME NEW c \in Coupons
               PROVE  /\ IsFiniteSet(Carriers(c)')
                      /\ coupon'[c].redemptions = Cardinality(Carriers(c)')
    BY DEF Counted
  <2>1. c # NoCoupon /\ \A o \in O : code[o] = NoCoupon
    BY <1>11, CheckoutAssumption
  <2>2. CASE c # k.coupon
    <3>1. Carriers(c)' = Carriers(c)
      BY <1>14, <2>1, <2>2 DEF Carriers
    <3> QED
      BY <1>15, <2>2, <3>1 DEF ShopInv, Counted
  <2>3. CASE c = k.coupon
    <3>1. PICK a \in O : g[a] = s
      BY <1>5, <1>11, <2>1, <2>3
    <3>2. \A o \in O : g[o] = s <=> o = a
      BY <1>5, <3>1
    <3>3. Carriers(c)' = Carriers(c) \cup {a}
      BY <1>14, <2>1, <2>3, <3>2 DEF Carriers
    <3>4. a \notin Carriers(c)
      BY <2>1 DEF Carriers
    <3>5. /\ IsFiniteSet(Carriers(c))
          /\ coupon[c].redemptions = Cardinality(Carriers(c))
      BY DEF ShopInv, Counted
    <3>6. /\ IsFiniteSet(Carriers(c) \cup {a})
          /\ Cardinality(Carriers(c) \cup {a}) = Cardinality(Carriers(c)) + 1
      BY <3>4, <3>5, FS_AddElement
    <3> QED
      BY <1>15, <2>3, <3>3, <3>5, <3>6
  <2> QED
    BY <2>2, <2>3
<1> QED
  BY <1>13, <1>16, <1>17, <1>18 DEF ShopInv

LEMMA ShopInvOrders ==
  ASSUME ShopInv, Next, UNCHANGED shopVars
  PROVE  ShopInv'
<1>1. Typed'
  BY TypedStep DEF ShopInv
<1>2. \A o \in OrderIds : status[o] # "none" => status'[o] # "none"
  BY OrdersKeep DEF ShopInv
<1> QED
  BY <1>1, <1>2 DEF ShopInv, ShopTables, Coded, Groups, InBasket, Counted,
     Carriers, shopVars

LEMMA ShopInvNext == ShopInv /\ [ShopNext]_shop => ShopInv'
<1> SUFFICES ASSUME ShopInv, [ShopNext]_shop PROVE ShopInv'
  OBVIOUS
<1>1. CASE UNCHANGED shop
  BY <1>1, ShopKeeps DEF shop, vars, shopVars, ShopInv, ShopTables, Coded,
     Typed, TypeOK
<1>2. ASSUME NEW t \in Tills, TillNext(t) PROVE ShopInv'
  BY <1>2, ShopInvAddRead, ShopInvCheckoutRead, ShopInvChange, ShopInvAddWrite,
     ShopInvCheckoutGoods, ShopInvFindCoupon, ShopInvCheckoutCommit,
     ShopInvTellSeller, ShopInvLeaves DEF TillNext
<1> QED
  BY <1>1, <1>2, ShopInvOrders, ShopInvLeaves, ShopInvSellers DEF ShopNext

LEMMA ShopInvariant == ShopSpec => []ShopInv
<1>1. ShopInit => ShopInv
  BY ShopInvInit
<1>2. ShopInv /\ [ShopNext]_shop => ShopInv'
  BY ShopInvNext
<1> QED
  BY <1>1, <1>2, PTL DEF ShopSpec

-----------------------------------------------------------------------------

\* However carts, orders and coupons are worked on at the same time, every
\* table keeps its type: a checkout never takes stock below zero.
THEOREM ShopTypeCorrect == ShopSpec => []ShopTypeOK
<1>1. ShopInv => ShopTypeOK
  BY DEF ShopInv, Typed, ShopTables, ShopTypeOK
<1> QED
  BY <1>1, ShopInvariant, PTL

\* Coupon.redemptionCount is the number of orders with the coupon's code: the
\* loop over the sellers of a checkout redeems it once, and one that aborts
\* not at all.
THEOREM CouponsCountOrders == ShopSpec => []RedemptionsAreOrders
<1>1. ShopInv => RedemptionsAreOrders
  BY DEF ShopInv, Counted, Carriers, RedemptionsAreOrders
<1> QED
  BY <1>1, ShopInvariant, PTL

-----------------------------------------------------------------------------
(* Carts, when the requests on a cart are served one at a time.            *)

\* A cart has no two lines of one product, and a request that is about to insert
\* one adds the first.
OneLineEach ==
  /\ \A l, m \in LineIds :
       /\ line[l] # NoLine /\ line[m] # NoLine
       /\ line[l].user = line[m].user /\ line[l].product = line[m].product
       => l = m
  /\ \A t \in Tills :
       till[t].at = "put" /\ till[t].line = NoLine
         => LinesOf(till[t].user, till[t].product) = {}

\* A line stays what it is a line of, or goes.
Stays(l) ==
  \/ line'[l] = NoLine
  \/ /\ line[l] # NoLine
     /\ line'[l].user = line[l].user /\ line'[l].product = line[l].product

LEMMA OneLineInit == ShopInit => OneLineEach /\ OneCartRequest
  BY DEF ShopInit, OneLineEach, OneCartRequest, Holder, Idle

\* Steps that insert no line.
LEMMA OneLineKeeps ==
  ASSUME OneLineEach, \A l \in LineIds : Stays(l),
         \A t \in Tills :
           \/ till'[t] = till[t]
           \/ till'[t].at # "put"
           \/ till'[t].line # NoLine
           \/ LinesOf(till'[t].user, till'[t].product) = {}
  PROVE  OneLineEach'
<1>1. \A l, m \in LineIds :
        /\ line'[l] # NoLine /\ line'[m] # NoLine
        /\ line'[l].user = line'[m].user /\ line'[l].product = line'[m].product
        => l = m
  BY DEF OneLineEach, Stays
<1>2. ASSUME NEW t \in Tills, till'[t].at = "put", till'[t].line = NoLine
      PROVE  LinesOf(till[t].user, till[t].product)' = {}
  <2>1. LinesOf(till'[t].user, till'[t].product) = {}
    BY <1>2 DEF OneLineEach
  <2> QED
    BY <2>1 DEF LinesOf, Cart, Stays
<1> QED
  BY <1>1, <1>2 DEF OneLineEach

LEMMA OneLineStays ==
  ASSUME ShopInv, OneLineEach, line' = line, NEW t \in Tills, NEW x,
         Serve(t, x), x.at # "put"
  PROVE  OneLineEach'
<1>1. \A l \in LineIds : Stays(l)
  BY DEF Stays
<1>2. \A i \in Tills : till'[i] = till[i] \/ till'[i].at # "put"
  BY DEF Serve, ShopInv, ShopTables
<1> QED
  BY <1>1, <1>2, OneLineKeeps

LEMMA OneLineAddRead ==
  ASSUME ShopInv, OneLineEach, NEW t \in Tills, NEW u \in Users,
         NEW p \in Products, NEW n \in Quantities, AddRead(t, u, p, n)
  PROVE  OneLineEach'
<1> DEFINE Q(l) == IF l = NoLine THEN n ELSE line[l].quantity + n
           X(l) == [at |-> "put", user |-> u, product |-> p,
                    quantity |-> Q(l), line |-> l]
<1>1. PICK l \in IF LinesOf(u, p) = {} THEN {NoLine} ELSE LinesOf(u, p) :
         till' = [till EXCEPT ![t] = X(l)]
  BY DEF AddRead, Serve
<1> HIDE DEF Q
<1>2. l = NoLine => LinesOf(u, p) = {}
  BY CheckoutAssumption DEF LinesOf, Cart
<1>3. \A k \in Tills :
        \/ till'[k] = till[k]
        \/ till'[k].line # NoLine
        \/ LinesOf(till'[k].user, till'[k].product) = {}
  BY <1>1, <1>2 DEF ShopInv, ShopTables
<1>4. \A m \in LineIds : Stays(m)
  BY DEF AddRead, Stays
<1> QED
  BY <1>3, <1>4, OneLineKeeps

\* The request that inserts a line holds the cart, so nobody else is about to.
LEMMA OneLineAddWrite ==
  ASSUME ShopInv, OneLineEach, OneCartRequest, NEW t \in Tills, AddWrite(t)
  PROVE  OneLineEach'
<1> DEFINE k == till[t]
           n == [user |-> k.user, product |-> k.product, quantity |-> k.quantity]
<1>1. k \in [at : {"put"}, user : Users, product : Products, quantity : Nat,
             line : LineIds \cup {NoLine}]
  BY TillType DEF AddWrite, ShopInv
<1>2. /\ till'[t] = Idle
      /\ \A i \in Tills : i # t => till'[i] = till[i]
  BY DEF AddWrite, Serve, ShopInv, ShopTables
<1>3. CASE /\ k.line # NoLine /\ line[k.line] # NoLine
           /\ line' = [line EXCEPT ![k.line].quantity = k.quantity]
  <2>1. \A m \in LineIds : Stays(m)
    BY <1>1, <1>3 DEF Stays, ShopInv, ShopTables, Line
  <2>2. \A i \in Tills : till'[i] = till[i] \/ till'[i].at # "put"
    BY <1>2 DEF Idle
  <2> QED
    BY <2>1, <2>2, OneLineKeeps
<1>4. ASSUME k.line = NoLine, NEW l \in LineIds, Unused(l),
             line' = [line EXCEPT ![l] = n]
      PROVE  OneLineEach'
  <2>1. LinesOf(k.user, k.product) = {}
    BY <1>1, <1>4 DEF OneLineEach
  <2>2. /\ line'[l] = n /\ n.user = k.user /\ n.product = k.product
        /\ \A m \in LineIds : m # l => line'[m] = line[m]
        /\ line[l] = NoLine
    BY <1>4 DEF ShopInv, ShopTables, Unused
  <2> HIDE DEF n, k
  <2>3. ASSUME NEW a \in LineIds, NEW b \in LineIds,
               line'[a] # NoLine, line'[b] # NoLine,
               line'[a].user = line'[b].user, line'[a].product = line'[b].product
        PROVE  a = b
    <3>1. CASE a # l /\ b # l
      BY <2>2, <2>3, <3>1 DEF OneLineEach
    <3>2. CASE a = l /\ b # l
      BY <2>1, <2>2, <2>3, <3>2 DEF LinesOf, Cart
    <3>3. CASE a # l /\ b = l
      BY <2>1, <2>2, <2>3, <3>3 DEF LinesOf, Cart
    <3> QED
      BY <3>1, <3>2, <3>3
  <2>4. ASSUME NEW i \in Tills, till'[i].at = "put", till'[i].line = NoLine
        PROVE  LinesOf(till[i].user, till[i].product)' = {}
    <3>1. i # t /\ till'[i] = till[i]
      BY <1>2, <2>4 DEF Idle
    <3>2. LinesOf(till[i].user, till[i].product) = {}
      BY <2>4, <3>1 DEF OneLineEach
    <3>3. Holder(i) = {till[i].user} /\ Holder(t) = {k.user}
      BY <1>1, <2>4, <3>1 DEF Holder, k
    <3>4. till[i].user # k.user
      BY <3>1, <3>3 DEF OneCartRequest
    <3> QED
      BY <2>2, <3>1, <3>2, <3>4 DEF LinesOf, Cart
  <2> QED
    BY <2>3, <2>4 DEF OneLineEach
<1> QED
  BY <1>3, <1>4 DEF AddWrite

LEMMA OneLineChangeWrite ==
  ASSUME ShopInv, OneLineEach, NEW t \in Tills, ChangeWrite(t)
  PROVE  OneLineEach'
<1>1. till[t].line \in LineIds
  BY TillType DEF ChangeWrite, ShopInv
<1>2. \A l \in LineIds : Stays(l)
  BY <1>1 DEF ChangeWrite, Stays, ShopInv, ShopTables, Line
<1>3. \A i \in Tills : till'[i] = till[i] \/ till'[i].at # "put"
  BY DEF ChangeWrite, Serve, Idle, ShopInv, ShopTables
<1> QED
  BY <1>2, <1>3, OneLineKeeps

LEMMA OneLineRemoves ==
  ASSUME ShopInv, OneLineEach
  PROVE  /\ \A l \in LineIds : RemoveItem(l) => OneLineEach'
         /\ \A u \in Users : Clear(u) => OneLineEach'
         /\ \A t \in Tills : CheckoutCommit(t) => OneLineEach'
<1>1. ASSUME NEW l \in LineIds, RemoveItem(l) PROVE OneLineEach'
  BY <1>1, OneLineKeeps DEF RemoveItem, Stays, ShopInv, ShopTables
<1>2. ASSUME NEW u, line' = Emptied(u) PROVE \A l \in LineIds : Stays(l)
  BY <1>2 DEF Emptied, Stays
<1>3. ASSUME NEW u \in Users, Clear(u) PROVE OneLineEach'
  BY <1>2, <1>3, OneLineKeeps DEF Clear
<1>4. ASSUME NEW t \in Tills, CheckoutCommit(t) PROVE OneLineEach'
  <2>1. \A i \in Tills : till'[i] = till[i] \/ till'[i].at # "put"
    BY <1>4 DEF CheckoutCommit, Serve, ShopInv, ShopTables
  <2>2. line' = Emptied(till[t].user)
    BY <1>4 DEF CheckoutCommit
  <2> QED
    BY <1>2, <2>1, <2>2, OneLineKeeps
<1> QED
  BY <1>1, <1>3, <1>4

LEMMA OneLineNext ==
  ShopInv /\ OneLineEach /\ OneCartRequest /\ [ShopNext /\ CartsInTurn]_shop
    => OneLineEach' /\ OneCartRequest'
<1> SUFFICES ASSUME ShopInv, OneLineEach, OneCartRequest,
                    [ShopNext /\ CartsInTurn]_shop
             PROVE  OneLineEach' /\ OneCartRequest'
  OBVIOUS
<1>1. CASE UNCHANGED shop
  BY <1>1 DEF shop, shopVars, OneLineEach, LinesOf, Cart, OneCartRequest, Holder
<1>2. CASE ShopNext /\ CartsInTurn
  <2>1. ASSUME NEW t \in Tills, TillNext(t) PROVE OneLineEach'
    <3>1. ASSUME NEW u \in Users \ Admins, CheckoutRead(t, u) PROVE OneLineEach'
      BY <3>1, OneLineStays DEF CheckoutRead
    <3>2. ASSUME NEW l \in LineIds, NEW n \in Quantities, ChangeRead(t, l, n)
          PROVE  OneLineEach'
      BY <3>2, OneLineStays DEF ChangeRead
    <3>3. ASSUME NEW c \in Coupons, FindCoupon(t, c) PROVE OneLineEach'
      <4> DEFINE x == [till[t] EXCEPT !.coupon = c]
      <4>1. x.at # "put"
        BY <3>3, TillType DEF FindCoupon, ShopInv
      <4>2. line' = line /\ Serve(t, x)
        BY <3>3 DEF FindCoupon
      <4> HIDE DEF x
      <4> QED
        BY <4>1, <4>2, OneLineStays
    <3>4. ASSUME TellSeller(t) PROVE OneLineEach'
      <4>1. PICK n \in till[t].left :
              Serve(t, IF till[t].left = {n} THEN Idle
                       ELSE [till[t] EXCEPT !.left = @ \ {n}])
        BY <3>4 DEF TellSeller
      <4> DEFINE x == IF till[t].left = {n} THEN Idle
                      ELSE [till[t] EXCEPT !.left = @ \ {n}]
      <4>2. x.at # "put"
        BY <3>4, TillType DEF TellSeller, ShopInv, Idle
      <4>3. line' = line /\ Serve(t, x)
        BY <3>4, <4>1 DEF TellSeller
      <4> HIDE DEF x
      <4> QED
        BY <4>2, <4>3, OneLineStays
    <3>5. ASSUME Leave(t) PROVE OneLineEach'
      BY <3>5, OneLineStays DEF Leave, Idle
    <3>6. ASSUME CheckoutGoods(t) PROVE OneLineEach'
      <4> DEFINE x == [till[t] EXCEPT !.at = "pay"]
      <4>1. x.at # "put"
        BY <3>6, TillType DEF CheckoutGoods, ShopInv
      <4>2. line' = line /\ Serve(t, x)
        BY <3>6 DEF CheckoutGoods
      <4> HIDE DEF x
      <4> QED
        BY <4>1, <4>2, OneLineStays
    <3> QED
      BY <2>1, <3>1, <3>2, <3>3, <3>4, <3>5, <3>6, OneLineAddRead, OneLineAddWrite,
         OneLineChangeWrite, OneLineRemoves DEF TillNext
  <2>2. ASSUME UNCHANGED <<line, till>> PROVE OneLineEach'
    BY <2>2 DEF OneLineEach, LinesOf, Cart
  <2>3. OneCartRequest'
    BY <1>2 DEF CartsInTurn
  <2> QED
    BY <1>2, <2>1, <2>2, <2>3, OneLineRemoves
       DEF ShopNext, shopVars, CreateCoupon, UpdateCoupon, RemoveCoupon
<1> QED
  BY <1>1, <1>2

\* Served one at a time, the requests on a cart never make two lines of one
\* product, although no index forbids it: with two, checkout refuses the cart.
THEOREM CartsStayUsable == ShopSerialSpec => []OneLinePerProduct
<1>1. ShopInit => ShopInv /\ OneLineEach /\ OneCartRequest
  BY ShopInvInit, OneLineInit
<1>2. ShopInv /\ OneLineEach /\ OneCartRequest /\ [ShopNext /\ CartsInTurn]_shop
      => (ShopInv /\ OneLineEach /\ OneCartRequest)'
  BY ShopInvNext, OneLineNext
<1>3. OneLineEach => OneLinePerProduct
  <2> SUFFICES ASSUME OneLineEach, NEW u \in Users, NEW p \in Products
               PROVE  Cardinality(LinesOf(u, p)) <= 1
    BY DEF OneLinePerProduct
  <2>1. CASE LinesOf(u, p) = {}
    BY <2>1, FS_EmptySet
  <2>2. ASSUME NEW l \in LinesOf(u, p) PROVE Cardinality(LinesOf(u, p)) <= 1
    <3>1. LinesOf(u, p) = {l}
      BY <2>2 DEF OneLineEach, LinesOf, Cart
    <3> QED
      BY <3>1, FS_Singleton
  <2> QED
    BY <2>1, <2>2
<1> QED
  BY <1>1, <1>2, <1>3, PTL DEF ShopSerialSpec

-----------------------------------------------------------------------------
(* What a checkout has read of its cart is still so when it commits.  The  *)
(* first lemma says who changes the lines of a cart.                       *)

BasketCurrent ==
  \A t \in Tills, u \in Users :
    till[t].at \in {"goods", "pay"} /\ till[t].user = u
      => till[t].basket = BasketOf(u)

CartsRead == ShopInv /\ OneLineEach /\ OneCartRequest /\ BasketCurrent

LEMMA LinesComeByAdding ==
  ASSUME ShopInv, [ShopNext]_shop, NEW l \in LineIds
  PROVE  \/ Stays(l)
         \/ \E t \in Tills : till[t].at = "put" /\ line'[l].user = till[t].user
<1>1. CASE line' = line
  BY <1>1 DEF Stays
<1>2. ASSUME NEW u, line' = Emptied(u) PROVE Stays(l)
  BY <1>2 DEF Emptied, Stays
<1>3. ASSUME NEW t \in Tills, ChangeWrite(t) PROVE Stays(l)
  BY <1>3, TillType DEF ChangeWrite, Stays, ShopInv, ShopTables, Line
<1>4. ASSUME NEW t \in Tills, AddWrite(t)
      PROVE  Stays(l) \/ (till[t].at = "put" /\ line'[l].user = till[t].user)
  <2> DEFINE k == till[t]
             n == [user |-> k.user, product |-> k.product, quantity |-> k.quantity]
  <2>1. k \in [at : {"put"}, user : Users, product : Products, quantity : Nat,
               line : LineIds \cup {NoLine}]
    BY <1>4, TillType DEF AddWrite, ShopInv
  <2>2. CASE /\ k.line # NoLine /\ line[k.line] # NoLine
             /\ line' = [line EXCEPT ![k.line].quantity = k.quantity]
    BY <2>1, <2>2 DEF Stays, ShopInv, ShopTables, Line
  <2>3. ASSUME NEW m \in LineIds, line' = [line EXCEPT ![m] = n]
        PROVE  Stays(l) \/ (k.at = "put" /\ line'[l].user = k.user)
    BY <1>4, <2>3 DEF AddWrite, Stays, ShopInv, ShopTables
  <2> QED
    BY <1>4, <2>2, <2>3 DEF AddWrite
<1>5. ASSUME NEW m \in LineIds, RemoveItem(m) PROVE Stays(l)
  BY <1>5 DEF RemoveItem, Stays, ShopInv, ShopTables
<1> QED
  BY <1>1, <1>2, <1>3, <1>4, <1>5
     DEF ShopNext, TillNext, shop, shopVars, Clear, CheckoutCommit, AddRead,
     CheckoutRead, CheckoutGoods, ChangeRead, FindCoupon, TellSeller, Leave,
     CreateCoupon, UpdateCoupon, RemoveCoupon

\* The cart of a checkout that stays where it is stays what it is.
LEMMA CartStands ==
  ASSUME CartsRead, ShopNext, CartsInTurn, NEW t \in Tills, NEW u \in Users,
         till[t].at \in {"goods", "pay"}, till[t].user = u, till'[t] = till[t]
  PROVE  BasketOf(u)' = BasketOf(u)
<1>1. Holder(t) = {u}
  BY DEF Holder
<1>2. ASSUME NEW l \in LineIds, line[l] # NoLine, line[l].user = u
      PROVE  line'[l] = line[l]
  BY <1>1, <1>2 DEF CartsInTurn
<1>3. ASSUME NEW l \in LineIds, line'[l] # NoLine, line'[l].user = u
      PROVE  line[l] # NoLine /\ line[l].user = u
  <2>1. CASE Stays(l)
    BY <1>3, <2>1 DEF Stays
  <2>2. ASSUME NEW a \in Tills, till[a].at = "put", line'[l].user = till[a].user
        PROVE  FALSE
    <3>1. Holder(a) = {u} /\ a # t
      BY <1>3, <2>2 DEF Holder
    <3> QED
      BY <1>1, <3>1 DEF CartsRead, OneCartRequest
  <2> QED
    BY <2>1, <2>2, LinesComeByAdding DEF CartsRead
<1>4. ASSUME NEW p \in Products
      PROVE  /\ LinesOf(u, p)' = LinesOf(u, p)
             /\ \A l \in LinesOf(u, p) : line'[l] = line[l]
  BY <1>2, <1>3 DEF LinesOf, Cart
<1>5. ASSUME NEW p \in Products
      PROVE  BasketOf(u)'[p] = BasketOf(u)[p]
  <2> DEFINE m == CHOOSE l \in LinesOf(u, p) : TRUE
  <2>1. LinesOf(u, p) # {} => line'[m] = line[m]
    BY <1>4
  <2>2. BasketOf(u)'[p] = IF LinesOf(u, p)' = {} THEN 0
                          ELSE line'[CHOOSE l \in LinesOf(u, p)' : TRUE].quantity
    BY DEF BasketOf
  <2>3. BasketOf(u)[p] = IF LinesOf(u, p) = {} THEN 0 ELSE line[m].quantity
    BY DEF BasketOf
  <2> QED
    BY <1>4, <2>1, <2>2, <2>3
<1> QED
  BY <1>5 DEF BasketOf

LEMMA BasketCurrentNext ==
  ASSUME CartsRead, [ShopNext /\ CartsInTurn]_shop
  PROVE  BasketCurrent'
<1>1. CASE UNCHANGED shop
  BY <1>1 DEF shop, shopVars, CartsRead, BasketCurrent, BasketOf, LinesOf, Cart
<1>2. CASE ShopNext /\ CartsInTurn
  <2> SUFFICES ASSUME NEW t \in Tills, NEW u \in Users,
                      till'[t].at \in {"goods", "pay"}, till'[t].user = u
               PROVE  till'[t].basket = BasketOf(u)'
    BY DEF BasketCurrent
  <2>1. CASE till'[t] = till[t]
    <3>1. till[t].basket = BasketOf(u)
      BY <2>1 DEF CartsRead, BasketCurrent
    <3>2. BasketOf(u)' = BasketOf(u)
      BY <1>2, <2>1, CartStands
    <3> QED
      BY <2>1, <3>1, <3>2
  <2>2. CASE till'[t] # till[t]
    <3>1. ASSUME NEW a \in Tills, NEW x, Serve(a, x)
          PROVE  a = t /\ till'[t] = x
      BY <2>2, <3>1 DEF Serve, CartsRead, ShopInv, ShopTables
    <3>2. PICK a \in Tills : TillNext(a)
      BY <1>2, <2>2 DEF ShopNext, shopVars, RemoveItem, Clear, CreateCoupon,
         UpdateCoupon, RemoveCoupon
    <3>3. \/ \E v \in Users \ Admins : CheckoutRead(t, v)
          \/ CheckoutGoods(t)
          \/ \E c \in Coupons : FindCoupon(t, c)
      <4>1. ~AddWrite(a) /\ ~ChangeWrite(a) /\ ~Leave(a)
        BY <3>1 DEF AddWrite, ChangeWrite, Leave, Idle
      <4>2. ~CheckoutCommit(a)
        <5>1. CheckoutCommit(a) => \E x : Serve(a, x) /\ x.at = "tell"
          BY DEF CheckoutCommit
        <5> QED
          BY <3>1, <5>1
      <4>3. \A l \in LineIds, n \in Quantities : ~ChangeRead(a, l, n)
        BY <3>1 DEF ChangeRead
      <4>4. ASSUME NEW v, NEW p, NEW n, AddRead(a, v, p, n) PROVE FALSE
        <5>1. PICK x : Serve(a, x) /\ x.at = "put"
          BY <4>4 DEF AddRead
        <5> QED
          BY <3>1, <5>1
      <4>5. ~TellSeller(a)
        <5> SUFFICES ASSUME TellSeller(a) PROVE FALSE
          OBVIOUS
        <5>1. PICK n \in till[a].left :
                Serve(a, IF till[a].left = {n} THEN Idle
                         ELSE [till[a] EXCEPT !.left = @ \ {n}])
          BY DEF TellSeller
        <5> DEFINE x == IF till[a].left = {n} THEN Idle
                        ELSE [till[a] EXCEPT !.left = @ \ {n}]
        <5>2. x.at \notin {"goods", "pay"}
          BY TillType DEF TellSeller, CartsRead, ShopInv, Idle
        <5>3. Serve(a, x)
          BY <5>1
        <5> HIDE DEF x
        <5> QED
          BY <3>1, <5>2, <5>3
      <4>6. a = t
        <5>1. CASE \E v \in Users : CheckoutRead(a, v)
          BY <3>1, <5>1 DEF CheckoutRead
        <5>2. CASE \E c \in Coupons : FindCoupon(a, c)
          BY <3>1, <5>2 DEF FindCoupon
        <5>3. CASE CheckoutGoods(a)
          BY <3>1, <5>3 DEF CheckoutGoods
        <5> QED
          BY <3>2, <4>1, <4>2, <4>3, <4>4, <4>5, <5>1, <5>2, <5>3 DEF TillNext
      <4> QED
        BY <3>2, <4>1, <4>2, <4>3, <4>4, <4>5, <4>6 DEF TillNext
    <3>4. ASSUME NEW v \in Users \ Admins, CheckoutRead(t, v)
          PROVE  till'[t].basket = BasketOf(u)'
      <4>1. till'[t].basket = BasketOf(v) /\ till'[t].user = v /\ line' = line
        BY <3>1, <3>4 DEF CheckoutRead
      <4>2. BasketOf(u)' = BasketOf(u)
        BY <4>1 DEF BasketOf, LinesOf, Cart
      <4> QED
        BY <4>1, <4>2
    <3>5. ASSUME NEW c \in Coupons, FindCoupon(t, c)
          PROVE  till'[t].basket = BasketOf(u)'
      <4> DEFINE x == [till[t] EXCEPT !.coupon = c]
      <4>1. till[t].at \in {"goods", "pay"} /\ line' = line /\ till'[t] = x
        BY <3>1, <3>5 DEF FindCoupon
      <4>2. x.basket = till[t].basket /\ x.user = till[t].user
        BY <4>1, TillType DEF CartsRead, ShopInv
      <4>3. till[t].basket = BasketOf(u)
        BY <4>1, <4>2 DEF CartsRead, BasketCurrent
      <4>4. BasketOf(u)' = BasketOf(u)
        BY <4>1 DEF BasketOf, LinesOf, Cart
      <4> HIDE DEF x
      <4> QED
        BY <4>1, <4>2, <4>3, <4>4
    <3>6. ASSUME CheckoutGoods(t) PROVE till'[t].basket = BasketOf(u)'
      <4> DEFINE x == [till[t] EXCEPT !.at = "pay"]
      <4>1. till[t].at \in {"goods", "pay"} /\ line' = line /\ till'[t] = x
        BY <3>1, <3>6 DEF CheckoutGoods
      <4>2. x.basket = till[t].basket /\ x.user = till[t].user
        BY <4>1, TillType DEF CartsRead, ShopInv
      <4>3. till[t].basket = BasketOf(u)
        BY <4>1, <4>2 DEF CartsRead, BasketCurrent
      <4>4. BasketOf(u)' = BasketOf(u)
        BY <4>1 DEF BasketOf, LinesOf, Cart
      <4> HIDE DEF x
      <4> QED
        BY <4>1, <4>2, <4>3, <4>4
    <3> QED
      BY <3>3, <3>4, <3>5, <3>6
  <2> QED
    BY <2>1, <2>2
<1> QED
  BY <1>1, <1>2

\* With one line for each product, the basket is what the cart adds up to.
LEMMA BasketAddsUp ==
  ASSUME ShopInv, OneLineEach, NEW u, NEW p \in Products
  PROVE  BasketOf(u)[p] = UnitsInCart(u, p)
<1> DEFINE f == [l \in LineIds |-> line[l].quantity]
<1>1. LinesOf(u, p) \subseteq LineIds
  BY DEF LinesOf, Cart
<1>2. CASE LinesOf(u, p) = {}
  <2>1. UnitsInCart(u, p) = SumOf(f, {})
    BY <1>2, FS_EmptySet, QuantitySum DEF UnitsInCart
  <2> QED
    BY <1>2, <2>1, SumEmpty DEF BasketOf
<1>3. ASSUME NEW l \in LinesOf(u, p)
      PROVE  BasketOf(u)[p] = UnitsInCart(u, p)
  <2>1. LinesOf(u, p) = {l}
    BY <1>3 DEF OneLineEach, LinesOf, Cart
  <2>2. IsFiniteSet(LinesOf(u, p))
    BY <2>1, FS_Singleton
  <2>3. UnitsInCart(u, p) = SumOf(f, LinesOf(u, p))
    BY <1>1, <2>2, QuantitySum DEF UnitsInCart
  <2>4. UnitsInCart(u, p) = SumOf(f, {l})
    BY <2>1, <2>3
  <2>5. f[l] = line[l].quantity /\ f[l] \in Nat
    BY <1>3 DEF LinesOf, Cart, ShopInv, ShopTables, Line
  <2> HIDE DEF f
  <2>6. UnitsInCart(u, p) = line[l].quantity
    BY <2>4, <2>5, SumOne
  <2>7. (CHOOSE m \in {l} : TRUE) = l
    OBVIOUS
  <2> QED
    BY <2>1, <2>6, <2>7 DEF BasketOf
<1> QED
  BY <1>2, <1>3

\* Served one at a time, a checkout orders exactly what it takes out of the cart.
THEOREM CheckoutOrdersCart == ShopSerialSpec => CartIsOrdered
<1>1. ShopInit => CartsRead
  BY ShopInvInit, OneLineInit DEF CartsRead, BasketCurrent, ShopInit, Idle
<1>2. CartsRead /\ [ShopNext /\ CartsInTurn]_shop => CartsRead'
  BY ShopInvNext, OneLineNext, BasketCurrentNext DEF CartsRead
<1>3. ASSUME CartsRead, NEW t \in Tills, CheckoutCommit(t), NEW p \in Products
      PROVE  till[t].basket[p] = UnitsInCart(till[t].user, p)
  <2>1. till[t].basket = BasketOf(till[t].user)
    BY <1>3, TillType DEF CheckoutCommit, CartsRead, BasketCurrent, ShopInv
  <2> QED
    BY <1>3, <2>1, BasketAddsUp DEF CartsRead
<1>4. CartsRead => [\A t \in Tills : CheckoutCommit(t) =>
         \A p \in Products :
           till[t].basket[p] = UnitsInCart(till[t].user, p)]_shop
  BY <1>3
<1> QED
  BY <1>1, <1>2, <1>4, PTL DEF ShopSerialSpec, CartIsOrdered

-----------------------------------------------------------------------------
(* The units of the shop.  A checkout opens several orders at once, which   *)
(* together take what its basket names: each product is in the order of    *)
(* its seller and in no other.  There are finitely many of them because a  *)
(* cart has finitely many lines.                                           *)

Lines == {l \in LineIds : line[l] # NoLine}

FewLines ==
  /\ IsFiniteSet(Lines)
  /\ \A t \in Tills :
       till[t].at \in {"goods", "pay"} => IsFiniteSet(InBasket(till[t]))

ShopAccounted == ShopInv /\ Accounted /\ FewLines

LEMMA BasketIsFinite ==
  ASSUME IsFiniteSet(Lines), NEW u, NEW k, k.basket = BasketOf(u)
  PROVE  IsFiniteSet(InBasket(k))
<1> DEFINE f == [l \in LineIds |-> line[l].product]
           T == {f[l] : l \in Lines}
<1>1. IsFiniteSet(T)
  BY FiniteImage
<1>2. InBasket(k) \subseteq T
  <2> SUFFICES ASSUME NEW p \in InBasket(k) PROVE p \in T
    OBVIOUS
  <2>1. p \in Products /\ k.basket[p] > 0
    BY DEF InBasket
  <2>2. LinesOf(u, p) # {}
    BY <2>1 DEF BasketOf
  <2>3. PICK l \in LinesOf(u, p) : TRUE
    BY <2>2
  <2>4. l \in Lines /\ f[l] = p
    BY <2>3 DEF LinesOf, Cart, Lines
  <2> QED
    BY <2>4
<1> QED
  BY <1>1, <1>2, FS_Subset

LEMMA FewLinesNext ==
  ASSUME ShopInv, FewLines, [ShopNext]_shop
  PROVE  FewLines'
<1>1. ASSUME line' = line, NEW t \in Tills, NEW x, Serve(t, x),
             x.at \in {"goods", "pay"} => IsFiniteSet(InBasket(x))
      PROVE  FewLines'
  BY <1>1 DEF FewLines, Lines, InBasket, Serve, ShopInv, ShopTables
<1>2. ASSUME Lines' \subseteq Lines, \A t \in Tills :
               till'[t] = till[t] \/ till'[t].at \notin {"goods", "pay"}
      PROVE  FewLines'
  <2>1. IsFiniteSet(Lines')
    BY <1>2, FS_Subset DEF FewLines
  <2> QED
    BY <1>2, <2>1 DEF FewLines, InBasket
<1>3. CASE UNCHANGED <<line, till>>
  BY <1>3 DEF FewLines, Lines, InBasket
<1>4. ASSUME NEW t \in Tills, TillNext(t) PROVE FewLines'
  <2>1. ASSUME NEW u \in Users \ Admins, NEW p \in Products, NEW n \in Quantities,
               AddRead(t, u, p, n)
        PROVE  FewLines'
    <3>1. PICK x : Serve(t, x) /\ x.at = "put"
      BY <2>1 DEF AddRead
    <3>2. line' = line
      BY <2>1 DEF AddRead
    <3> QED
      BY <1>1, <3>1, <3>2
  <2>2. ASSUME NEW u \in Users \ Admins, CheckoutRead(t, u) PROVE FewLines'
    <3> DEFINE x == [at |-> "goods", user |-> u, basket |-> BasketOf(u),
                     coupon |-> NoCoupon]
    <3>1. Serve(t, x) /\ line' = line /\ x.basket = BasketOf(u)
      BY <2>2 DEF CheckoutRead
    <3> HIDE DEF x
    <3>2. IsFiniteSet(InBasket(x))
      BY <3>1, BasketIsFinite DEF FewLines
    <3> QED
      BY <1>1, <3>1, <3>2
  <2>3. ASSUME NEW l \in LineIds, NEW n \in Quantities, ChangeRead(t, l, n)
        PROVE  FewLines'
    BY <1>1, <2>3 DEF ChangeRead
  <2>4. ASSUME NEW c \in Coupons, FindCoupon(t, c) PROVE FewLines'
    <3> DEFINE x == [till[t] EXCEPT !.coupon = c]
    <3>1. till[t].at \in {"goods", "pay"} /\ Serve(t, x) /\ line' = line
      BY <2>4 DEF FindCoupon
    <3>2. x.basket = till[t].basket
      BY <3>1, TillType DEF ShopInv
    <3> HIDE DEF x
    <3>3. IsFiniteSet(InBasket(x))
      BY <3>1, <3>2 DEF FewLines, InBasket
    <3> QED
      BY <1>1, <3>1, <3>3
  <2>5. ASSUME NEW x, Serve(t, x), x.at \notin {"goods", "pay"}
        PROVE  \A i \in Tills :
                 till'[i] = till[i] \/ till'[i].at \notin {"goods", "pay"}
    BY <2>5 DEF Serve, ShopInv, ShopTables
  <2>6. CASE AddWrite(t)
    <3>1. \A i \in Tills :
            till'[i] = till[i] \/ till'[i].at \notin {"goods", "pay"}
      BY <2>5, <2>6 DEF AddWrite, Idle
    <3>2. \E l \in LineIds : Lines' \subseteq Lines \cup {l}
      BY <2>6, TillType DEF AddWrite, Lines, ShopInv, ShopTables
    <3>3. IsFiniteSet(Lines')
      BY <3>2, FS_AddElement, FS_Subset DEF FewLines
    <3> QED
      BY <3>1, <3>3 DEF FewLines, InBasket
  <2>7. CASE ChangeWrite(t)
    <3>1. \A i \in Tills :
            till'[i] = till[i] \/ till'[i].at \notin {"goods", "pay"}
      BY <2>5, <2>7 DEF ChangeWrite, Idle
    <3>2. Lines' \subseteq Lines
      BY <2>7, TillType DEF ChangeWrite, Lines, ShopInv, ShopTables
    <3> QED
      BY <1>2, <3>1, <3>2
  <2>8. CASE CheckoutCommit(t)
    <3>1. \A i \in Tills :
            till'[i] = till[i] \/ till'[i].at \notin {"goods", "pay"}
      BY <2>5, <2>8 DEF CheckoutCommit
    <3>2. Lines' \subseteq Lines
      BY <2>8 DEF CheckoutCommit, Emptied, Lines
    <3> QED
      BY <1>2, <3>1, <3>2
  <2>9. CASE TellSeller(t)
    <3>1. PICK n \in till[t].left :
            Serve(t, IF till[t].left = {n} THEN Idle
                     ELSE [till[t] EXCEPT !.left = @ \ {n}])
      BY <2>9 DEF TellSeller
    <3> DEFINE x == IF till[t].left = {n} THEN Idle
                    ELSE [till[t] EXCEPT !.left = @ \ {n}]
    <3>2. x.at \notin {"goods", "pay"}
      BY <2>9, TillType DEF TellSeller, ShopInv, Idle
    <3>3. line' = line /\ Serve(t, x)
      BY <2>9, <3>1 DEF TellSeller
    <3> HIDE DEF x
    <3> QED
      BY <1>1, <3>2, <3>3
  <2>10. CASE Leave(t)
    BY <1>1, <2>10 DEF Leave, Idle
  <2>11. CASE CheckoutGoods(t)
    <3> DEFINE x == [till[t] EXCEPT !.at = "pay"]
    <3>1. till[t].at \in {"goods", "pay"} /\ Serve(t, x) /\ line' = line
      BY <2>11 DEF CheckoutGoods
    <3>2. x.basket = till[t].basket
      BY <3>1, TillType DEF ShopInv
    <3> HIDE DEF x
    <3>3. IsFiniteSet(InBasket(x))
      BY <3>1, <3>2 DEF FewLines, InBasket
    <3> QED
      BY <1>1, <3>1, <3>3
  <2> QED
    BY <1>4, <2>1, <2>2, <2>3, <2>4, <2>6, <2>7, <2>8, <2>9, <2>10, <2>11
       DEF TillNext
<1>5. ASSUME till' = till, Lines' \subseteq Lines PROVE FewLines'
  BY <1>2, <1>5
<1>6. ASSUME NEW l \in LineIds, RemoveItem(l) PROVE FewLines'
  BY <1>5, <1>6 DEF RemoveItem, Lines, ShopInv, ShopTables
<1>7. ASSUME NEW u \in Users \ Admins, Clear(u) PROVE FewLines'
  BY <1>5, <1>7 DEF Clear, Emptied, Lines
<1> QED
  BY <1>3, <1>4, <1>6, <1>7
     DEF ShopNext, shop, shopVars, CreateCoupon, UpdateCoupon, RemoveCoupon

\* The orders O of a checkout together take what its basket names.
LEMMA OpeningHolds ==
  ASSUME Typed, IsFiniteSet(Placed), NEW k, k.basket \in [Products -> Nat],
         NEW O \in SUBSET {o \in OrderIds : status[o] = "none"}, IsFiniteSet(O),
         NEW g, \A a \in O, b \in O : g[a] = g[b] => a = b,
         \A s \in Groups(k) : \E a \in O : g[a] = s,
         OpenAll(O, g, k), NEW p \in Products, CanReserve([items |-> k.basket]),
         stock' = [i \in Products |-> stock[i] - k.basket[i]]
  PROVE  /\ stock'[p] + HeldBy(p, Live)' = stock[p] + HeldBy(p, Live)
         /\ HeldBy(p, Delivered)' = HeldBy(p, Delivered)
<1> DEFINE n == k.basket[p]
           f == ItemsOf(terms, p)
           h == ItemsOf(terms', p)
<1>1. /\ stock[p] \in Nat /\ n \in Nat /\ stock[p] >= n
      /\ stock'[p] = stock[p] - n
  BY DEF Typed, TypeOK, CanReserve
<1>2. /\ Live' = Live \cup O /\ Live \cap O = {}
      /\ Delivered' = Delivered /\ Delivered \cap O = {}
  BY DEF OpenAll, Live, Delivered
<1>3. Live \subseteq Placed /\ Delivered \subseteq Placed
  BY DEF Live, Delivered, Placed
<1>4. IsFiniteSet(Live) /\ IsFiniteSet(Delivered) /\ IsFiniteSet(Live \cup O)
  BY <1>3, FS_Subset, FS_Union
<1>5. \A x \in Placed : f[x] \in Nat
  BY ItemsType
<1>6. \A x \in OrderIds : x \notin O => h[x] = f[x]
  BY DEF OpenAll, ItemsOf
<1>7. \A x \in O : h[x] = IF SellerOf[p] = g[x] THEN n ELSE 0
  BY DEF OpenAll, ItemsOf, TermsFor
<1>8. n > 0 => \E a \in O : g[a] = SellerOf[p]
  BY DEF Groups, InBasket
<1>9. /\ HeldBy(p, Live)' = SumOf(h, Live \cup O)
      /\ HeldBy(p, Delivered)' = SumOf(h, Delivered)
      /\ HeldBy(p, Live) = SumOf(f, Live)
      /\ HeldBy(p, Delivered) = SumOf(f, Delivered)
  BY <1>2 DEF HeldBy
<1>10. Live \subseteq OrderIds /\ Delivered \subseteq OrderIds
  BY DEF Live, Delivered
<1> HIDE DEF f, h, n
<1>11. (\A x \in Live : h[x] = f[x]) /\ (\A x \in Delivered : h[x] = f[x])
  BY <1>2, <1>6, <1>10
<1>12. SumOf(h, Live) = SumOf(f, Live) /\ SumOf(h, Delivered) = SumOf(f, Delivered)
  BY <1>4, <1>11, SumSame
<1>13. \A x \in Live \cup O : h[x] \in Nat
  BY <1>1, <1>3, <1>5, <1>7, <1>11
<1>14. SumOf(h, Live) \in Nat
  BY <1>4, <1>13, SumTake
<1>15. SumOf(h, Live \cup O) = SumOf(h, Live) + n
  <2>1. CASE n = 0
    <3>1. \A x \in (Live \cup O) \ Live : h[x] = 0
      BY <1>7, <2>1
    <3>2. SumOf(h, Live) = SumOf(h, Live \cup O)
      BY <1>4, <1>13, <3>1, SumPart
    <3> QED
      BY <1>14, <2>1, <3>2
  <2>2. CASE n # 0
    <3>1. PICK a \in O : g[a] = SellerOf[p]
      BY <1>1, <1>8, <2>2
    <3>2. h[a] = n /\ \A x \in O : x # a => h[x] = 0
      BY <1>7, <3>1
    <3>3. a \notin Live /\ Live \cup {a} \subseteq Live \cup O
      BY <1>2, <3>1
    <3>4. \A x \in (Live \cup O) \ (Live \cup {a}) : h[x] = 0
      BY <3>2
    <3>5. SumOf(h, Live \cup {a}) = SumOf(h, Live \cup O)
      BY <1>4, <1>13, <3>3, <3>4, SumPart
    <3>6. SumOf(h, Live \cup {a}) = SumOf(h, Live) + h[a]
      BY <1>4, <1>13, <3>3, SumAdd
    <3> QED
      BY <3>2, <3>5, <3>6
  <2> QED
    BY <2>1, <2>2
<1> QED
  BY <1>1, <1>9, <1>12, <1>14, <1>15

LEMMA AccountedCheckout ==
  ASSUME ShopAccounted, NEW t \in Tills, CheckoutCommit(t)
  PROVE  Accounted'
<1> DEFINE k == till[t]
<1>1. k.basket \in [Products -> Nat] /\ IsFiniteSet(InBasket(k))
  BY TillType DEF CheckoutCommit, ShopAccounted, ShopInv, FewLines
<1>2. PICK O \in SUBSET {o \in OrderIds : status[o] = "none"} :
      \E g \in Bijection(O, Groups(k)) : OpenAll(O, g, k)
  BY DEF CheckoutCommit
<1>3. PICK g \in Bijection(O, Groups(k)) : OpenAll(O, g, k)
  BY <1>2
<1>4. /\ CanReserve([items |-> k.basket])
      /\ stock' = [p \in Products |-> stock[p] - k.basket[p]]
      /\ UNCHANGED <<totalSold, active, inbox, req>>
  BY DEF CheckoutCommit
<1>5. IsFiniteSet(Groups(k))
  BY <1>1, FiniteImage DEF Groups
<1>6. /\ g \in Injection(O, Groups(k))
      /\ \A a \in O, b \in O : g[a] = g[b] => a = b
      /\ \A s \in Groups(k) : \E a \in O : g[a] = s
  BY DEF Bijection, Injection, Surjection, IsInjective
<1>7. IsFiniteSet(O)
  BY <1>5, <1>6, FS_Injection
<1>8. Typed /\ Typed' /\ IsFiniteSet(Placed)
  BY ShopInvCheckoutCommit DEF ShopAccounted, ShopInv, Accounted
<1> HIDE DEF k
<1>9. \A p \in Products :
        /\ stock'[p] + HeldBy(p, Live)' = stock[p] + HeldBy(p, Live)
        /\ HeldBy(p, Delivered)' = HeldBy(p, Delivered)
  BY <1>1, <1>3, <1>4, <1>6, <1>7, <1>8, OpeningHolds
<1>10. Placed' = Placed \cup O
  BY <1>3 DEF OpenAll, Placed
<1>11. IsFiniteSet(Placed')
  BY <1>7, <1>8, <1>10, FS_Union
<1>12. OnlyCancelledRestored'
  BY <1>3 DEF OpenAll, OnlyCancelledRestored, ShopAccounted, Accounted
<1>13. SeenUnrestored'
  BY <1>4 DEF SeenUnrestored, ShopAccounted, Accounted
<1> QED
  BY <1>4, <1>8, <1>9, <1>11, <1>12, <1>13 DEF ShopAccounted, Accounted

LEMMA ShopAccountedStep == ShopAccounted /\ [ShopNext]_shop => ShopAccounted'
<1> SUFFICES ASSUME ShopAccounted, [ShopNext]_shop PROVE ShopAccounted'
  OBVIOUS
<1>1. ShopInv' /\ FewLines'
  BY ShopInvNext, FewLinesNext DEF ShopAccounted
<1>2. CASE [Next]_vars
  BY <1>1, <1>2, AccountedStep DEF ShopAccounted
<1>3. ASSUME UNCHANGED <<goods, rows, req>> PROVE ShopAccounted'
  <2>1. Typed'
    BY <1>1 DEF ShopInv
  <2>2. OnlyCancelledRestored' /\ SeenUnrestored'
    BY <1>3 DEF ShopAccounted, Accounted, OnlyCancelledRestored, SeenUnrestored, rows
  <2>3. UNCHANGED <<stock, totalSold, status, terms>>
    BY <1>3 DEF goods, rows
  <2>4. Accounted'
    BY <2>1, <2>2, <2>3, QuietHolds DEF ShopAccounted, Accounted
  <2> QED
    BY <1>1, <2>4 DEF ShopAccounted
<1>4. ASSUME NEW t \in Tills, TillNext(t) PROVE ShopAccounted'
  <2>1. CASE CheckoutCommit(t)
    BY <1>1, <2>1, AccountedCheckout DEF ShopAccounted
  <2>2. CASE ~CheckoutCommit(t)
    <3>1. UNCHANGED <<goods, rows, req>>
      BY <1>4, <2>2 DEF TillNext, AddRead, CheckoutRead, CheckoutGoods, ChangeRead,
         AddWrite, ChangeWrite, FindCoupon, TellSeller, Leave, vars
    <3> QED
      BY <1>3, <3>1
  <2> QED
    BY <2>1, <2>2
<1> QED
  BY <1>2, <1>4 DEF ShopNext, shop, RemoveItem, Clear, CreateCoupon,
     UpdateCoupon, RemoveCoupon

\* However carts, orders and coupons are worked on at the same time, a checkout
\* that commits has taken what its orders hold, and one that does not, nothing.
THEOREM ShopKeepsUnits == ShopSpec => [](NoUnitLost /\ SalesCounted)
<1>1. ShopInit => ShopAccounted
  <2>1. ASSUME ShopInit PROVE FewLines
    <3>1. Lines = {}
      BY <2>1 DEF ShopInit, Lines
    <3> QED
      BY <2>1, <3>1, FS_EmptySet DEF FewLines, ShopInit, Idle
  <2> QED
    BY <2>1, ShopInvInit, AccountedInit DEF ShopInit, ShopAccounted
<1>2. ShopAccounted => NoUnitLost /\ SalesCounted
  BY AccountsBalance DEF ShopAccounted
<1> QED
  BY <1>1, <1>2, ShopAccountedStep, PTL DEF ShopSpec

(***************************************************************************)
(* Part 3.  Payment proofs, however payment requests and order requests    *)
(* overlap and wherever they die.                                          *)
(***************************************************************************)

Reviewing == {"order", "settle", "log", "close"}

\* The rows a payment request works on exist and belong together.
Sound(x) ==
  x.at \in Reviewing => /\ proof[x.proof] # NoProof
                        /\ proof[x.proof].order = x.order

ProofRows ==
  /\ \A s \in ProofIds : proof[s] # NoProof => status[proof[s].order] # "none"
  /\ \A c \in Clerks : Sound(desk[c])

\* A proof that is about to be closed may be the only one of an order that is
\* settled already; an order still under review has another.
Closing(s) == \E c \in Clerks : desk[c].at \in {"log", "close"} /\ desk[c].proof = s

Reviewable(o) ==
  \E s \in ProofIds : /\ proof[s] # NoProof
                      /\ proof[s].order = o
                      /\ proof[s].status = "pending"
                      /\ ~Closing(s)

UnderReview ==
  \A o \in OrderIds : payment[o] = "pending_verification" => Reviewable(o)

PayTables ==
  /\ proof    \in [ProofIds -> Proof \cup {NoProof}]
  /\ slips    \in SUBSET Slip
  /\ desk     \in [Clerks -> Duty]
  /\ failures \in Nat

PayInv == Typed /\ PayTables /\ ProofRows /\ UnderReview

\* A payment request in a given stage has the fields of that stage.
LEMMA DutyType ==
  ASSUME PayTables, NEW c \in Clerks
  PROVE  /\ desk[c].at \in {"key", "open", "claim"} =>
              desk[c] \in [at : {"key", "open", "claim"}, order : OrderIds,
                           key : Keys]
         /\ desk[c].at = "order" =>
              desk[c] \in [at : {"order"}, proof : ProofIds, order : OrderIds,
                           verdict : Verdict]
         /\ desk[c].at \in {"settle", "log", "close"} =>
              desk[c] \in [at : {"settle", "log", "close"}, proof : ProofIds,
                           order : OrderIds, verdict : Verdict,
                           next : OrderStatus]
         /\ desk[c].at = "tell" => desk[c] \in [at : {"tell"}, slip : Slip]
  BY DEF PayTables, Duty, Idle

LEMMA ReviewType ==
  ASSUME PayTables, NEW c \in Clerks, desk[c].at \in Reviewing
  PROVE  desk[c].proof \in ProofIds /\ desk[c].order \in OrderIds
  BY DutyType DEF Reviewing

LEMMA PayInvInit == PayInit => PayInv
  BY TypedInit, OrderPaymentsAssumption
     DEF PayInit, Init, PayInv, PayTables, ProofRows, Sound, UnderReview,
         Duty, Idle, Reviewing

-----------------------------------------------------------------------------
(* A step of Orders, which leaves proofs alone.                            *)

LEMMA PayInvOrders ==
  ASSUME PayInv, Next, UNCHANGED payVars
  PROVE  PayInv'
<1>1. Typed'
  BY TypedStep DEF PayInv
<1>2. PayTables'
  BY DEF PayInv, PayTables, payVars
<1>3. /\ payment' = payment
      /\ \A o \in OrderIds : status[o] # "none" => status'[o] # "none"
  BY OrdersKeep DEF PayInv
<1>4. ProofRows'
  BY <1>3 DEF PayInv, PayTables, Proof, ProofRows, Sound, payVars
<1>5. UnderReview'
  BY <1>3 DEF PayInv, UnderReview, Reviewable, Closing, payVars
<1> QED
  BY <1>1, <1>2, <1>4, <1>5 DEF PayInv

-----------------------------------------------------------------------------
(* Steps of a payment request that write no order and no proof.            *)

LEMMA PayMoves ==
  ASSUME PayInv, NEW c \in Clerks, NEW x \in Duty, Become(c, x), Sound(x),
         x.at \notin {"log", "close"},
         UNCHANGED <<vars, proof>>, slips' \in SUBSET Slip, failures' \in Nat
  PROVE  PayInv'
<1>1. Typed'
  BY DEF PayInv, Typed, TypeOK, RowsExist, vars, goods, rows
<1>2. PayTables'
  BY DEF PayInv, PayTables, Become
<1>3. status' = status /\ payment' = payment
  BY DEF vars, rows
<1>4. ProofRows'
  BY <1>3 DEF PayInv, PayTables, ProofRows, Sound, Become
<1>5. \A s \in ProofIds : Closing(s)' => Closing(s)
  BY DEF PayInv, PayTables, Closing, Become
<1>6. UnderReview'
  BY <1>3, <1>5 DEF PayInv, UnderReview, Reviewable
<1> QED
  BY <1>1, <1>2, <1>4, <1>6 DEF PayInv

LEMMA PayInvSubmitRead ==
  ASSUME PayInv, NEW c \in Clerks, NEW u \in Users, NEW o \in OrderIds,
         NEW k \in Keys, SubmitRead(c, u, o, k)
  PROVE  PayInv'
<1> DEFINE x == [at |-> "key", order |-> o, key |-> k]
<1>1. x \in Duty /\ Sound(x)
  BY DEF Duty, Sound, Reviewing
<1> QED
  BY <1>1, PayMoves DEF SubmitRead, PayInv, PayTables

LEMMA PayInvChecks ==
  ASSUME PayInv, NEW c \in Clerks, SubmitCheckKey(c) \/ SubmitCheckOpen(c)
  PROVE  PayInv'
<1> DEFINE K == [at : {"key", "open", "claim"}, order : OrderIds, key : Keys]
<1>1. PICK stage \in {"open", "claim"} :
         Become(c, [desk[c] EXCEPT !.at = stage])
  BY DEF SubmitCheckKey, SubmitCheckOpen
<1> DEFINE x == [desk[c] EXCEPT !.at = stage]
<1>2. desk[c] \in K
  BY DutyType DEF PayInv, SubmitCheckKey, SubmitCheckOpen
<1>3. x \in K /\ x.at = stage
  BY <1>2
<1> HIDE DEF x
<1>4. x \in Duty /\ Sound(x) /\ x.at \notin {"log", "close"}
  BY <1>3 DEF Duty, Sound, Reviewing
<1>5. UNCHANGED <<vars, proof, slips, failures>>
  BY DEF SubmitCheckKey, SubmitCheckOpen
<1> QED
  BY <1>1, <1>4, <1>5, PayMoves DEF PayInv, PayTables, x

LEMMA PayInvVerifyRead ==
  ASSUME PayInv, NEW c \in Clerks, NEW s \in ProofIds, NEW v \in Verdict,
         VerifyRead(c, s, v)
  PROVE  PayInv'
<1> DEFINE x == [at |-> "order", proof |-> s, order |-> proof[s].order,
                 verdict |-> v]
<1>1. proof[s] # NoProof /\ proof[s].order \in OrderIds
  BY DEF VerifyRead, Pending, PayInv, PayTables, Proof
<1>2. x \in Duty /\ Sound(x)
  BY <1>1 DEF Duty, Sound
<1> QED
  BY <1>2, PayMoves DEF VerifyRead, PayInv, PayTables

LEMMA PayInvVerifyReadOrder ==
  ASSUME PayInv, NEW c \in Clerks, NEW u \in Users, VerifyReadOrder(c, u)
  PROVE  PayInv'
<1> DEFINE d == desk[c]
           x == [at |-> "settle", proof |-> d.proof, order |-> d.order,
                 verdict |-> d.verdict, next |-> NextStatus(d.order)]
<1>1. d \in [at : {"order"}, proof : ProofIds, order : OrderIds,
             verdict : Verdict]
  BY DutyType DEF VerifyReadOrder, PayInv
<1>2. proof[d.proof] # NoProof /\ proof[d.proof].order = d.order
  BY DEF VerifyReadOrder, PayInv, ProofRows, Sound, Reviewing
<1>3. status[d.order] # "none"
  BY <1>1, <1>2 DEF PayInv, ProofRows
<1>4. NextStatus(d.order) \in OrderStatus
  BY <1>1, <1>3 DEF NextStatus, OrderStatus, PayInv, Typed, TypeOK
<1>5. x \in Duty
  BY <1>1, <1>4 DEF Duty
<1>6. Sound(x)
  BY <1>2 DEF Sound
<1> QED
  BY <1>5, <1>6, PayMoves DEF VerifyReadOrder, PayInv, PayTables

LEMMA PayInvTell ==
  ASSUME PayInv, NEW c \in Clerks, Tell(c)
  PROVE  PayInv'
<1>1. Idle \in Duty /\ Sound(Idle) /\ Idle.at \notin {"log", "close"}
  BY DEF Idle, Duty, Sound, Reviewing
<1>2. slips' \in SUBSET Slip
  BY DutyType DEF Tell, PayInv, PayTables
<1> QED
  BY <1>1, <1>2, PayMoves DEF Tell, PayInv, PayTables

LEMMA PayInvEnds ==
  ASSUME PayInv, NEW c \in Clerks, GiveUp(c) \/ Die(c)
  PROVE  PayInv'
<1>1. Idle \in Duty /\ Sound(Idle) /\ Idle.at \notin {"log", "close"}
  BY DEF Idle, Duty, Sound, Reviewing
<1>2. failures' \in Nat /\ Become(c, Idle) /\ UNCHANGED <<vars, proof, slips>>
  BY DEF GiveUp, Die, PayInv, PayTables
<1> QED
  BY <1>1, <1>2, PayMoves DEF PayInv, PayTables

-----------------------------------------------------------------------------
(* The steps that write.                                                   *)

\* A commit changes no proof but adds one: it is fresh, so nobody closes it.
LEMMA PayInvSubmitCommit ==
  ASSUME PayInv, NEW c \in Clerks, NEW s \in ProofIds, SubmitCommit(c, s)
  PROVE  PayInv'
<1> DEFINE o == desk[c].order
           n == [order |-> o, key |-> desk[c].key, status |-> "pending"]
           p == [proof |-> s, about |-> "pending"]
           x == [at |-> "tell", slip |-> p]
<1>1. o \in OrderIds /\ desk[c].key \in Keys
  BY DutyType DEF SubmitCommit, PayInv
<1>2. p \in Slip
  BY DEF Slip
<1>3. x \in Duty /\ x.at = "tell"
  BY <1>2 DEF Duty
<1>4. n \in Proof /\ n # NoProof /\ n.order = o /\ n.status = "pending"
  BY <1>1, OrderPaymentsAssumption DEF Proof
<1>5. /\ proof[s] = NoProof
      /\ status[o] # "none"
      /\ payment' = [payment EXCEPT ![o] = "pending_verification"]
      /\ proof' = [proof EXCEPT ![s] = n]
      /\ desk' = [desk EXCEPT ![c] = x]
      /\ UNCHANGED <<goods, status, restored, terms, history, inbox, req,
                     slips, failures>>
  BY DEF SubmitCommit, Become, Accepting
<1> HIDE DEF o, n, p, x
<1>6. Typed'
  BY <1>1, <1>5 DEF PayInv, Typed, TypeOK, RowsExist, goods, PaymentStatus
<1>7. PayTables'
  BY <1>3, <1>4, <1>5 DEF PayInv, PayTables
<1>8. ASSUME NEW k \in Clerks, desk[k].at \in Reviewing
      PROVE  desk[k].proof # s /\ desk[k].proof \in ProofIds
  BY <1>5, <1>8, ReviewType DEF PayInv, ProofRows, Sound
<1>9. ProofRows'
  <2>1. \A t \in ProofIds :
          proof'[t] # NoProof => status'[proof'[t].order] # "none"
    BY <1>4, <1>5 DEF PayInv, PayTables, ProofRows
  <2>2. ASSUME NEW k \in Clerks PROVE Sound(desk[k])'
    BY <1>3, <1>5, <1>8 DEF PayInv, PayTables, ProofRows, Sound, Reviewing
  <2> QED
    BY <2>1, <2>2 DEF ProofRows
<1>10. \A t \in ProofIds : Closing(t)' => Closing(t)
  BY <1>3, <1>5 DEF PayInv, PayTables, Closing
<1>11. UnderReview'
  <2> SUFFICES ASSUME NEW q \in OrderIds, payment'[q] = "pending_verification"
               PROVE  Reviewable(q)'
    BY DEF UnderReview
  <2>1. CASE q = o
    <3>1. proof'[s] = n
      BY <1>5 DEF PayInv, PayTables
    <3>2. ~Closing(s)
      BY <1>8 DEF Closing, Reviewing
    <3> QED
      BY <1>4, <1>10, <2>1, <3>1, <3>2 DEF Reviewable
  <2>2. CASE q # o
    <3>1. Reviewable(q)
      BY <1>5, <2>2 DEF PayInv, Typed, TypeOK, UnderReview
    <3> QED
      BY <1>5, <1>10, <3>1 DEF Reviewable, PayInv, PayTables
  <2> QED
    BY <2>1, <2>2
<1> QED
  BY <1>6, <1>7, <1>9, <1>11 DEF PayInv

\* The writes of verify to the order: the order is not under review afterwards,
\* so its proof may be closed.
LEMMA PayInvSettles ==
  ASSUME PayInv, NEW c \in Clerks, VerifyAccept(c) \/ VerifyReject(c)
  PROVE  PayInv'
<1> DEFINE d == desk[c]
           o == d.order
<1>1. d \in [at : {"settle", "log", "close"}, proof : ProofIds, order : OrderIds,
             verdict : Verdict, next : OrderStatus]
  BY DutyType DEF VerifyAccept, VerifyReject, PayInv
<1>2. PICK stage \in {"log", "close"}, result \in {"paid", "rejected"} :
         /\ Become(c, [d EXCEPT !.at = stage])
         /\ payment' = [payment EXCEPT ![o] = result]
  BY DEF VerifyAccept, VerifyReject
<1> DEFINE x == [d EXCEPT !.at = stage]
<1>3. x \in [at : {"settle", "log", "close"}, proof : ProofIds, order : OrderIds,
             verdict : Verdict, next : OrderStatus]
      /\ x.at = stage /\ x.proof = d.proof /\ x.order = o
  BY <1>1
<1>4. /\ status' = status \/ status' = [status EXCEPT ![o] = d.next]
      /\ UNCHANGED <<goods, restored, terms, history, inbox, req, proof, slips,
                     failures>>
      /\ desk' = [desk EXCEPT ![c] = x]
      /\ d.at = "settle"
  BY <1>2 DEF VerifyAccept, VerifyReject, Become
<1>5. proof[d.proof] # NoProof /\ proof[d.proof].order = o
  BY <1>4 DEF PayInv, ProofRows, Sound, Reviewing
<1>6. status[o] # "none" /\ o \in OrderIds /\ d.next \in OrderStatus
  BY <1>1, <1>5 DEF PayInv, ProofRows
<1> HIDE DEF x, d, o
<1>7. \A q \in OrderIds : /\ status'[q] = "none" => status[q] = "none"
                          /\ status[q] = "none" => status'[q] = "none"
  BY <1>4, <1>6 DEF PayInv, Typed, TypeOK, OrderStatus
<1>8. Typed'
  <2>1. TypeOK'
    BY <1>2, <1>4, <1>6 DEF PayInv, Typed, TypeOK, goods, PaymentStatus
  <2>2. RowsExist'
    BY <1>4, <1>7, StageType DEF PayInv, Typed, TypeOK, RowsExist
  <2> QED
    BY <2>1, <2>2 DEF Typed
<1>9. PayTables'
  BY <1>3, <1>4 DEF PayInv, PayTables, Duty
<1>10. ProofRows'
  <2>1. \A t \in ProofIds :
          proof'[t] # NoProof => status'[proof'[t].order] # "none"
    BY <1>4, <1>7 DEF PayInv, PayTables, Proof, ProofRows
  <2>2. \A k \in Clerks : Sound(desk[k])'
    BY <1>3, <1>4, <1>5 DEF PayInv, PayTables, ProofRows, Sound
  <2> QED
    BY <2>1, <2>2 DEF ProofRows
<1>11. UnderReview'
  <2> SUFFICES ASSUME NEW q \in OrderIds, payment'[q] = "pending_verification"
               PROVE  Reviewable(q)'
    BY DEF UnderReview
  <2>1. q # o /\ payment[q] = "pending_verification"
    BY <1>2 DEF PayInv, Typed, TypeOK
  <2>2. PICK s \in ProofIds : /\ proof[s] # NoProof
                              /\ proof[s].order = q
                              /\ proof[s].status = "pending"
                              /\ ~Closing(s)
    BY <2>1 DEF PayInv, UnderReview, Reviewable
  <2>3. s # x.proof
    BY <1>3, <1>5, <2>1, <2>2
  <2>4. ~Closing(s)'
    BY <1>4, <2>2, <2>3 DEF PayInv, PayTables, Closing
  <2> QED
    BY <1>4, <2>2, <2>4 DEF Reviewable
<1> QED
  BY <1>8, <1>9, <1>10, <1>11 DEF PayInv

LEMMA PayInvVerifyLog ==
  ASSUME PayInv, NEW c \in Clerks, VerifyLog(c)
  PROVE  PayInv'
<1> DEFINE d == desk[c]
           x == [d EXCEPT !.at = "close"]
<1>1. d \in [at : {"settle", "log", "close"}, proof : ProofIds, order : OrderIds,
             verdict : Verdict, next : OrderStatus]
  BY DutyType DEF VerifyLog, PayInv
<1>2. x \in [at : {"settle", "log", "close"}, proof : ProofIds, order : OrderIds,
             verdict : Verdict, next : OrderStatus]
      /\ x.at = "close" /\ x.proof = d.proof /\ x.order = d.order
  BY <1>1
<1>3. /\ d.at = "log"
      /\ history' = [history EXCEPT ![d.order] = @ \cup {d.next}]
      /\ desk' = [desk EXCEPT ![c] = x]
      /\ UNCHANGED <<goods, status, payment, restored, terms, inbox, req,
                     proof, slips, failures>>
  BY DEF VerifyLog, Become
<1>4. d.order \in OrderIds /\ d.next \in OrderStatus
  BY <1>1
<1>5. Sound(d)
  BY DEF PayInv, ProofRows
<1> HIDE DEF d, x
<1>6. Typed'
  BY <1>3, <1>4 DEF PayInv, Typed, TypeOK, RowsExist, goods
<1>7. PayTables'
  BY <1>2, <1>3 DEF PayInv, PayTables, Duty
<1>8. ProofRows'
  BY <1>2, <1>3, <1>5 DEF PayInv, PayTables, ProofRows, Sound, Reviewing
<1>9. \A s \in ProofIds : Closing(s)' => Closing(s)
  BY <1>2, <1>3 DEF PayInv, PayTables, Closing, d
<1>10. UnderReview'
  BY <1>3, <1>9 DEF PayInv, UnderReview, Reviewable
<1> QED
  BY <1>6, <1>7, <1>8, <1>10 DEF PayInv

\* The proof that gets its verdict is being closed, so no order under review
\* relies on it.
LEMMA PayInvVerifyClose ==
  ASSUME PayInv, NEW c \in Clerks, VerifyClose(c)
  PROVE  PayInv'
<1> DEFINE d == desk[c]
           s == d.proof
           n == [proof[s] EXCEPT !.status = d.verdict]
           p == [proof |-> s, about |-> d.verdict]
           x == [at |-> "tell", slip |-> p]
<1>1. d.at = "close" /\ s \in ProofIds /\ d.verdict \in Verdict
  BY DutyType DEF VerifyClose, PayInv
<1>2. /\ proof' = [proof EXCEPT ![s] = n]
      /\ desk' = [desk EXCEPT ![c] = x]
      /\ UNCHANGED <<vars, slips, failures>>
  BY DEF VerifyClose, Become
<1>3. proof[s] # NoProof /\ proof[s] \in Proof
  BY <1>1 DEF PayInv, PayTables, ProofRows, Sound, Reviewing
<1>4. p \in Slip
  BY <1>1 DEF Slip
<1>5. x \in Duty /\ x.at = "tell"
  BY <1>4 DEF Duty
<1>6. n \in Proof /\ n.order = proof[s].order
  BY <1>1, <1>3 DEF Proof, Verdict
<1>7. Closing(s)
  BY <1>1 DEF Closing
<1> HIDE DEF d, s, n, p, x
<1>8. n # NoProof
  BY <1>6, OrderPaymentsAssumption DEF Proof, Verdict
<1>9. Typed'
  BY <1>2 DEF PayInv, Typed, TypeOK, RowsExist, vars, goods, rows
<1>10. PayTables'
  BY <1>1, <1>2, <1>5, <1>6 DEF PayInv, PayTables
<1>11. status' = status /\ payment' = payment
  BY <1>2 DEF vars, rows
<1>12. ProofRows'
  <2>1. \A t \in ProofIds :
          proof'[t] # NoProof => status'[proof'[t].order] # "none"
    BY <1>2, <1>3, <1>6, <1>11 DEF PayInv, PayTables, ProofRows
  <2>2. \A k \in Clerks : Sound(desk[k])'
    BY <1>2, <1>3, <1>5, <1>6, <1>8 DEF PayInv, PayTables, ProofRows, Sound, Reviewing
  <2> QED
    BY <2>1, <2>2 DEF ProofRows
<1>13. \A t \in ProofIds : Closing(t)' => Closing(t)
  BY <1>2, <1>5 DEF PayInv, PayTables, Closing
<1>14. UnderReview'
  BY <1>2, <1>7, <1>11, <1>13 DEF PayInv, PayTables, UnderReview, Reviewable
<1> QED
  BY <1>9, <1>10, <1>12, <1>14 DEF PayInv

LEMMA PayInvNext == PayInv /\ [PayNext]_allVars => PayInv'
<1> SUFFICES ASSUME PayInv, [PayNext]_allVars PROVE PayInv'
  OBVIOUS
<1>1. CASE UNCHANGED allVars
  BY <1>1 DEF allVars, vars, payVars, goods, rows, PayInv, Typed, TypeOK,
     RowsExist, PayTables, ProofRows, Sound, UnderReview, Reviewable, Closing
<1>2. ASSUME NEW c \in Clerks, PayBegin(c) PROVE PayInv'
  BY <1>2, PayInvSubmitRead, PayInvVerifyRead DEF PayBegin
<1>3. ASSUME NEW c \in Clerks, PayStep(c) PROVE PayInv'
  BY <1>3, PayInvChecks, PayInvSubmitCommit, PayInvVerifyReadOrder,
     PayInvSettles, PayInvVerifyLog, PayInvVerifyClose, PayInvTell DEF PayStep
<1> QED
  BY <1>1, <1>2, <1>3, PayInvOrders, PayInvEnds DEF PayNext

LEMMA PayInvariant == PaySpec => []PayInv
<1>1. PayInit => PayInv
  BY PayInvInit
<1>2. PayInv /\ [PayNext]_allVars => PayInv'
  BY PayInvNext
<1> QED
  BY <1>1, <1>2, PTL DEF PaySpec

-----------------------------------------------------------------------------

\* Orders, proofs and requests keep their types when both kinds of requests
\* overlap: verify writes a status into no order that does not exist.
THEOREM PayTypeCorrect == PaySpec => []PayTypeOK
<1>1. PayInv => PayTypeOK
  BY DEF PayInv, Typed, PayTables, PayTypeOK
<1> QED
  BY <1>1, PayInvariant, PTL

\* However submissions, reviews and order requests overlap, and wherever one
\* dies, an order in pending_verification, which nobody may cancel, has a proof
\* that can still be reviewed.
THEOREM ReviewNeverStuck == PaySpec => []UnderReviewHasProof
<1>1. PayInv => UnderReviewHasProof
  BY DEF PayInv, UnderReview, Reviewable, UnderReviewHasProof, ProofsOf, Pending
<1> QED
  BY <1>1, PayInvariant, PTL

-----------------------------------------------------------------------------
(* Verdicts and their notices.                                             *)

\* What a slip says of a verdict has happened, and nothing undoes it.
Decided(n) ==
  n.about \in Verdict => proof[n.proof] # NoProof /\ proof[n.proof].status # "pending"

SlipsDecided ==
  /\ \A n \in slips : Decided(n)
  /\ \A c \in Clerks : desk[c].at = "tell" => Decided(desk[c].slip)

LEMMA DecidedStays ==
  ASSUME PayInv, [PayNext]_allVars, NEW n \in Slip, Decided(n)
  PROVE  Decided(n)'
<1> SUFFICES ASSUME n.about \in Verdict
             PROVE  proof'[n.proof] # NoProof /\ proof'[n.proof].status # "pending"
  BY DEF Decided
<1>1. /\ n.proof \in ProofIds /\ proof[n.proof] # NoProof
      /\ proof[n.proof].status # "pending"
  BY DEF Decided, Slip
<1>2. ASSUME NEW c \in Clerks, NEW s \in ProofIds, SubmitCommit(c, s)
      PROVE  proof'[n.proof] = proof[n.proof]
  BY <1>1, <1>2 DEF SubmitCommit, PayInv, PayTables
<1>3. ASSUME NEW c \in Clerks, VerifyClose(c)
      PROVE  proof'[n.proof] # NoProof /\ proof'[n.proof].status # "pending"
  <2> DEFINE v == desk[c].verdict
             m == [proof[n.proof] EXCEPT !.status = v]
  <2>1. v \in Verdict
    BY <1>3, DutyType DEF VerifyClose, PayInv
  <2>2. proof[n.proof] \in Proof
    BY <1>1 DEF PayInv, PayTables
  <2>3. m \in Proof /\ m.status = v
    BY <2>1, <2>2 DEF Proof
  <2>4. m # NoProof /\ v # "pending"
    BY <2>1, <2>3, OrderPaymentsAssumption DEF Proof, Verdict
  <2>5. proof'[n.proof] = proof[n.proof] \/ proof'[n.proof] = m
    BY <1>3 DEF VerifyClose, PayInv, PayTables
  <2> QED
    BY <1>1, <2>3, <2>4, <2>5
<1>4. ASSUME NEW c \in Clerks, PayBegin(c) \/ GiveUp(c) \/ Die(c)
      PROVE  UNCHANGED proof
  BY <1>4 DEF PayBegin, SubmitRead, VerifyRead, GiveUp, Die
<1>5. ASSUME NEW c \in Clerks, PayStep(c)
      PROVE  (\E s \in ProofIds : SubmitCommit(c, s)) \/ VerifyClose(c) \/ UNCHANGED proof
  BY <1>5 DEF PayStep, SubmitCheckKey, SubmitCheckOpen, VerifyReadOrder,
              VerifyAccept, VerifyLog, VerifyReject, Tell
<1> QED
  BY <1>1, <1>2, <1>3, <1>4, <1>5 DEF PayNext, payVars, allVars

LEMMA SlipsNext == PayInv /\ SlipsDecided /\ [PayNext]_allVars => SlipsDecided'
<1> SUFFICES ASSUME PayInv, SlipsDecided, [PayNext]_allVars
             PROVE  SlipsDecided'
  OBVIOUS
<1>1. \A n \in Slip : Decided(n) => Decided(n)'
  BY DecidedStays
<1>2. PayTables'
  BY PayInvNext DEF PayInv
<1>3. \A c \in Clerks : desk[c].at = "tell" => desk[c].slip \in Slip
  BY DutyType DEF PayInv
<1>4. \A n \in slips' : n \in slips \/ \E c \in Clerks : desk[c].at = "tell"
                                                        /\ n = desk[c].slip
  <2>1. ASSUME NEW c \in Clerks, PayBegin(c) \/ GiveUp(c) \/ Die(c)
        PROVE  UNCHANGED slips
    BY <2>1 DEF PayBegin, SubmitRead, VerifyRead, GiveUp, Die
  <2>2. ASSUME NEW c \in Clerks, PayStep(c)
        PROVE  Tell(c) \/ UNCHANGED slips
    BY <2>2 DEF PayStep, SubmitCheckKey, SubmitCheckOpen, SubmitCommit,
                VerifyReadOrder, VerifyAccept, VerifyLog, VerifyReject, VerifyClose
  <2> QED
    BY <2>1, <2>2 DEF PayNext, payVars, allVars, Tell
<1>5. \A n \in slips' : Decided(n)'
  <2>1. \A n \in slips : n \in Slip /\ Decided(n)
    BY DEF SlipsDecided, PayInv, PayTables
  <2>2. \A c \in Clerks : desk[c].at = "tell" => Decided(desk[c].slip)
    BY DEF SlipsDecided
  <2> QED
    BY <1>1, <1>3, <1>4, <2>1, <2>2
<1>6. ASSUME NEW c \in Clerks, NEW n, desk'[c].at = "tell", n = desk'[c].slip
      PROVE  Decided(n)'
  <2>1. n \in Slip
    BY <1>2, <1>6 DEF PayTables, Duty, Idle
  <2>2. CASE desk'[c] = desk[c]
    <3>1. Decided(n)
      BY <1>6, <2>2 DEF SlipsDecided
    <3> QED
      BY <1>1, <2>1, <3>1
  <2>3. ASSUME n.about \notin Verdict
        PROVE  Decided(n)'
    BY <2>3 DEF Decided
  <2>4. ASSUME NEW b \in Clerks, PayBegin(b) \/ GiveUp(b) \/ Die(b)
        PROVE  desk'[c] = desk[c]
    BY <1>6, <2>4
    DEF PayBegin, SubmitRead, VerifyRead, GiveUp, Die, Become, Idle, PayInv, PayTables
  <2>5. ASSUME NEW b \in Clerks, PayStep(b), ~VerifyClose(b)
        PROVE  desk'[c] = desk[c] \/ n.about \notin Verdict
    <3>1. \/ \E x : Become(b, x) /\ x.at # "tell"
          \/ \E x : Become(b, x) /\ x.slip.about = "pending"
      <4>1. ASSUME SubmitCheckKey(b) \/ SubmitCheckOpen(b) \/ VerifyAccept(b)
                   \/ VerifyLog(b) \/ VerifyReject(b)
            PROVE  \E y \in {"open", "claim", "log", "close"} :
                     Become(b, [desk[b] EXCEPT !.at = y])
        BY <4>1 DEF SubmitCheckKey, SubmitCheckOpen, VerifyAccept, VerifyLog,
                    VerifyReject
      <4>2. \A y \in {"open", "claim", "log", "close"} :
              desk[b].at # "idle" => [desk[b] EXCEPT !.at = y].at = y
        BY DutyType DEF PayInv, PayTables, Duty, Idle
      <4>3. SubmitCheckKey(b) \/ SubmitCheckOpen(b) \/ VerifyAccept(b)
            \/ VerifyLog(b) \/ VerifyReject(b) => desk[b].at # "idle"
        BY DEF SubmitCheckKey, SubmitCheckOpen, VerifyAccept, VerifyLog, VerifyReject
      <4>4. ASSUME NEW s \in ProofIds, SubmitCommit(b, s)
            PROVE  \E x : Become(b, x) /\ x.slip.about = "pending"
        BY <4>4 DEF SubmitCommit
      <4>5. ASSUME NEW u \in Users, VerifyReadOrder(b, u)
            PROVE  \E x : Become(b, x) /\ x.at # "tell"
        BY <4>5 DEF VerifyReadOrder
      <4>6. Tell(b) => \E x : Become(b, x) /\ x.at # "tell"
        BY DEF Tell, Idle
      <4> QED
        BY <2>5, <4>1, <4>2, <4>3, <4>4, <4>5, <4>6 DEF PayStep
    <3> QED
      BY <1>6, <3>1 DEF Become, PayInv, PayTables, Verdict
  <2>6. ASSUME NEW b \in Clerks, VerifyClose(b)
        PROVE  desk'[c] = desk[c] \/ Decided(n)'
    <3>1. CASE c # b
      BY <2>6, <3>1 DEF VerifyClose, Become, PayInv, PayTables
    <3>2. CASE c = b
      <4> DEFINE s == desk[c].proof
                 m == [proof[s] EXCEPT !.status = desk[c].verdict]
      <4>1. s \in ProofIds /\ desk[c].verdict \in Verdict
            /\ proof[s] # NoProof /\ proof[s] \in Proof
        BY <2>6, <3>2, DutyType
        DEF VerifyClose, PayInv, PayTables, ProofRows, Sound, Reviewing
      <4>2. m \in Proof /\ m.status = desk[c].verdict
        BY <4>1 DEF Proof
      <4>3. m # NoProof
        BY <4>1, <4>2, OrderPaymentsAssumption DEF Proof, Verdict
      <4> HIDE DEF m
      <4>4. proof'[s] = m /\ n.proof = s
        BY <1>6, <2>6, <3>2, <4>1 DEF VerifyClose, Become, PayInv, PayTables, m
      <4> QED
        BY <4>1, <4>2, <4>3, <4>4 DEF Decided, Verdict
    <3> QED
      BY <3>1, <3>2
  <2> QED
    BY <2>2, <2>3, <2>4, <2>5, <2>6 DEF PayNext, payVars, allVars
<1>7. \A c \in Clerks : (desk[c].at = "tell" => Decided(desk[c].slip))'
  BY <1>6
<1> QED
  BY <1>5, <1>7 DEF SlipsDecided

\* Nobody is told of a verdict before it is written on the proof, and the proof
\* never goes back to be reviewed, whatever requests overlap or die.
THEOREM VerdictsAreWritten == PaySpec => []SlipsFollowReview
<1>1. PayInit => SlipsDecided
  BY DEF PayInit, SlipsDecided, Idle
<1>2. SlipsDecided => SlipsFollowReview
  BY DEF SlipsDecided, SlipsFollowReview, Decided, Pending
<1> QED
  BY <1>1, <1>2, SlipsNext, PayInvariant, PTL DEF PaySpec
-----------------------------------------------------------------------------
(* Payment proofs, when the requests on an order are served one at a time. *)

\* While a proof waits for review, the others of its order are rejected; the
\* verdicts of an order's proofs and the order agree.
ProofsAgree ==
  /\ \A s, t \in ProofIds :
       Pending(s) /\ t \in ProofsOf(proof[s].order)
         => t = s \/ proof[t].status = "rejected"
  /\ \A s \in ProofIds :
       proof[s] # NoProof /\ proof[s].status = "verified"
         => payment[proof[s].order] = "paid"
  /\ \A o \in OrderIds :
       payment[o] = "paid" => \E s \in ProofsOf(o) : proof[s].status # "rejected"

\* What a verdict makes of the payment of an order.
Outcome(verdict) == IF verdict = "verified" THEN "paid" ELSE "rejected"

\* What a payment request relies on is true.
Relies(x) ==
  /\ x.at = "claim" => \A s \in ProofsOf(x.order) : ~Pending(s)
  /\ x.at \in Reviewing => Pending(x.proof)
  /\ x.at = "log" => x.verdict = "verified"
  /\ x.at \in {"log", "close"} => payment[x.order] = Outcome(x.verdict)

\* No order under review is being cancelled.
NotCancelling(q) ==
  q.at = "commit" /\ q.goal = "cancelled" => payment[q.order] # "pending_verification"

Agreed ==
  /\ ProofsAgree
  /\ \A c \in Clerks : Relies(desk[c])
  /\ \A r \in Requests : NotCancelling(req[r])
  /\ CancelledNotUnderReview

LEMMA AgreedInit == PayInit => Agreed /\ AloneAtDesk
  BY DEF PayInit, Init, Agreed, ProofsAgree, Relies, NotCancelling, AloneAtDesk,
         CancelledNotUnderReview, ProofsOf, Pending, Serves, Idle, Reviewing

\* Orders and their requests touch neither proofs nor payments; they check that
\* what they cancel is not under review.
LEMMA AgreedOrders ==
  ASSUME PayInv, Agreed, Next, UNCHANGED payVars
  PROVE  Agreed'
<1>1. payment' = payment
  BY OrdersKeep DEF PayInv
<1>2. UNCHANGED <<proof, desk>>
  BY DEF payVars
<1>3. ProofsAgree'
  BY <1>1, <1>2 DEF Agreed, ProofsAgree, Pending, ProofsOf
<1>4. \A c \in Clerks : Relies(desk[c])'
  BY <1>1, <1>2 DEF Agreed, Relies, Pending, ProofsOf
<1>5. ASSUME NEW r \in Requests, NEW x \in Request, NotCancelling(x),
             req' = [req EXCEPT ![r] = x], status' = status
      PROVE  Agreed'
  <2>1. \A q \in Requests : NotCancelling(req[q])'
    BY <1>1, <1>5 DEF PayInv, Typed, TypeOK, Agreed, NotCancelling
  <2> QED
    BY <1>1, <1>3, <1>4, <1>5, <2>1 DEF Agreed, CancelledNotUnderReview
<1>6. ASSUME NEW r \in Requests, Begin(r) PROVE Agreed'
  <2>1. PICK x \in Request :
          /\ req' = [req EXCEPT ![r] = x] /\ NotCancelling(x) /\ status' = status
    <3>1. ASSUME NEW u \in Users, NEW b \in Baskets, CreateRead(r, u, b)
          PROVE  \E x \in Request :
            /\ req' = [req EXCEPT ![r] = x] /\ NotCancelling(x) /\ status' = status
      <4>1. b.total \in [Products -> Nat]
        BY OrdersAssumption DEF IsBasket
      <4>2. PICK t \in Terms : req' = [req EXCEPT ![r] = [at |-> "reserve", terms |-> t]]
        BY <3>1, <4>1 DEF CreateRead, Terms
      <4> QED
        BY <3>1, <4>2 DEF CreateRead, rows, Request, NotCancelling
    <3>2. ASSUME NEW u \in Users, NEW o \in OrderIds, NEW goal \in Goals,
                 UpdateStatusRead(r, u, o, goal)
          PROVE  \E x \in Request :
            /\ req' = [req EXCEPT ![r] = x] /\ NotCancelling(x) /\ status' = status
      <4>1. goal \in OrderStatus /\ status[o] # "none"
        BY <3>2, OrdersAssumption DEF OrderStatus, UpdateStatusRead
      <4>2. Committing(o, goal, FALSE) \in Request
        BY <4>1, TypedCommitting DEF PayInv
      <4> QED
        BY <3>2, <4>2 DEF UpdateStatusRead, MayMove, Committing, NotCancelling, rows
    <3>3. ASSUME NEW u \in Users, NEW o \in OrderIds, CancelByBuyerRead(r, u, o)
          PROVE  \E x \in Request :
            /\ req' = [req EXCEPT ![r] = x] /\ NotCancelling(x) /\ status' = status
      BY <3>3 DEF CancelByBuyerRead, rows, Request, NotCancelling
    <3> QED
      BY <1>6, <3>1, <3>2, <3>3 DEF Begin
  <2> QED
    BY <1>5, <2>1
<1>7. ASSUME NEW r \in Requests, NEW o \in OrderIds, CreateCommit(r, o)
      PROVE  Agreed'
  <2>1. /\ req[r].at = "reserve"
        /\ \E l : req' = [req EXCEPT ![r] = [at |-> "notify", left |-> l]]
        /\ status' = [status EXCEPT ![o] = "pending"]
    BY <1>7 DEF CreateCommit, Open
  <2>2. \A q \in Requests : NotCancelling(req[q])'
    BY <1>1, <2>1 DEF PayInv, Typed, TypeOK, Agreed, NotCancelling
  <2>3. CancelledNotUnderReview'
    BY <1>1, <2>1 DEF PayInv, Typed, TypeOK, Agreed, CancelledNotUnderReview
  <2> QED
    BY <1>3, <1>4, <2>2, <2>3 DEF Agreed
<1>8. ASSUME NEW r \in Requests, CancelByBuyerRecheck(r) PROVE Agreed'
  <2> DEFINE o == req[r].order
  <2>1. o \in OrderIds /\ status[o] # "none"
    BY <1>8, StageType DEF CancelByBuyerRecheck, PayInv, Typed, RowsExist
  <2>2. Committing(o, "cancelled", TRUE) \in Request
    BY <2>1, TypedCommitting DEF PayInv, OrderStatus
  <2>3. NotCancelling(Committing(o, "cancelled", TRUE))
    BY <1>8 DEF CancelByBuyerRecheck, MayMove, Committing, NotCancelling
  <2> QED
    BY <1>5, <1>8, <2>2, <2>3 DEF CancelByBuyerRecheck, rows
<1>9. ASSUME NEW r \in Requests, UpdateStatusCommit(r) PROVE Agreed'
  <2> DEFINE q == req[r]
  <2>1. /\ q.at = "commit"
        /\ \E l : req' = [req EXCEPT ![r] = [at |-> "notify", left |-> l]]
        /\ status' = [status EXCEPT ![q.order] = q.goal]
    BY <1>9 DEF UpdateStatusCommit
  <2>2. NotCancelling(q)
    BY DEF Agreed
  <2>3. \A k \in Requests : NotCancelling(req[k])'
    BY <1>1, <2>1 DEF PayInv, Typed, TypeOK, Agreed, NotCancelling
  <2>4. CancelledNotUnderReview'
    BY <1>1, <2>1, <2>2
       DEF PayInv, Typed, TypeOK, Agreed, CancelledNotUnderReview, NotCancelling
  <2> QED
    BY <1>3, <1>4, <2>3, <2>4 DEF Agreed
<1>10. ASSUME NEW r \in Requests, Notify(r) PROVE Agreed'
  <2> DEFINE y == [at |-> "notify", left |-> Tail(req[r].left)]
             x == IF Len(req[r].left) = 1 THEN Idle ELSE y
  <2>0. x.at \in {"idle", "notify"}
    BY DEF Idle
  <2>1. status' = status /\ req' = [req EXCEPT ![r] = x]
    BY <1>10 DEF Notify, rows
  <2> HIDE DEF x
  <2>2. \A k \in Requests : NotCancelling(req[k])'
    BY <1>1, <2>0, <2>1 DEF PayInv, Typed, TypeOK, Agreed, NotCancelling
  <2> QED
    BY <1>1, <1>3, <1>4, <2>1, <2>2 DEF Agreed, CancelledNotUnderReview
<1>11. ASSUME NEW r \in Requests, Fail(r) PROVE Agreed'
  <2>1. Idle \in Request /\ NotCancelling(Idle)
    BY DEF Request, Idle, NotCancelling
  <2> QED
    BY <1>5, <1>11, <2>1 DEF Fail, rows
<1>12. ASSUME NEW p \in Products, SetActive(p) PROVE Agreed'
  BY <1>1, <1>3, <1>4, <1>12
     DEF SetActive, rows, Agreed, CancelledNotUnderReview, NotCancelling
<1> QED
  BY <1>6, <1>7, <1>8, <1>9, <1>10, <1>11, <1>12 DEF Next, Work, Step

\* A step of a payment request that writes no order and no proof.
LEMMA AgreedMoves ==
  ASSUME PayInv, Agreed, NEW c \in Clerks, NEW x \in Duty, Become(c, x),
         Relies(x), UNCHANGED <<vars, proof>>
  PROVE  Agreed'
<1>1. UNCHANGED <<payment, status, req>>
  BY DEF vars, rows
<1>2. ProofsAgree'
  BY <1>1 DEF Agreed, ProofsAgree, Pending, ProofsOf
<1>3. \A k \in Clerks : Relies(desk[k])'
  BY <1>1 DEF PayInv, PayTables, Agreed, Relies, Pending, ProofsOf, Become
<1>4. CancelledNotUnderReview' /\ \A r \in Requests : NotCancelling(req[r])'
  BY <1>1 DEF Agreed, CancelledNotUnderReview, NotCancelling
<1> QED
  BY <1>2, <1>3, <1>4 DEF Agreed

LEMMA AgreedReads ==
  ASSUME PayInv, Agreed, NEW c \in Clerks,
         \/ PayBegin(c) \/ SubmitCheckKey(c) \/ SubmitCheckOpen(c)
         \/ \E u \in Users : VerifyReadOrder(c, u)
  PROVE  Agreed'
<1>1. UNCHANGED <<vars, proof>>
  BY DEF PayBegin, SubmitRead, VerifyRead, SubmitCheckKey, SubmitCheckOpen,
         VerifyReadOrder
<1>2. ASSUME NEW u \in Users, NEW o \in OrderIds, NEW k \in Keys,
             SubmitRead(c, u, o, k)
      PROVE  \E x \in Duty : Become(c, x) /\ Relies(x)
  BY <1>2 DEF SubmitRead, Duty, Relies, Reviewing
<1>3. ASSUME NEW s \in ProofIds, NEW v \in Verdict, VerifyRead(c, s, v)
      PROVE  \E x \in Duty : Become(c, x) /\ Relies(x)
  <2>1. proof[s].order \in OrderIds
    BY <1>3 DEF VerifyRead, Pending, PayInv, PayTables, Proof
  <2> QED
    BY <1>3, <2>1 DEF VerifyRead, Duty, Relies, Reviewing
<1>4. ASSUME SubmitCheckKey(c) \/ SubmitCheckOpen(c)
      PROVE  \E x \in Duty : Become(c, x) /\ Relies(x)
  <2> DEFINE d == desk[c]
  <2>1. d \in [at : {"key", "open", "claim"}, order : OrderIds, key : Keys]
    BY <1>4, DutyType DEF SubmitCheckKey, SubmitCheckOpen, PayInv
  <2>2. PICK stage \in {"open", "claim"} :
          /\ Become(c, [d EXCEPT !.at = stage])
          /\ stage = "claim" => \A s \in ProofsOf(d.order) : ~Pending(s)
    BY <1>4 DEF SubmitCheckKey, SubmitCheckOpen
  <2> DEFINE x == [d EXCEPT !.at = stage]
  <2>3. x \in Duty /\ x.at = stage /\ x.order = d.order
    BY <2>1 DEF Duty
  <2> HIDE DEF x
  <2> QED
    BY <2>2, <2>3 DEF Relies, Reviewing, x
<1>5. ASSUME NEW u \in Users, VerifyReadOrder(c, u)
      PROVE  \E x \in Duty : Become(c, x) /\ Relies(x)
  <2> DEFINE d == desk[c]
             x == [at |-> "settle", proof |-> d.proof, order |-> d.order,
                   verdict |-> d.verdict, next |-> NextStatus(d.order)]
  <2>1. d \in [at : {"order"}, proof : ProofIds, order : OrderIds, verdict : Verdict]
    BY <1>5, DutyType DEF VerifyReadOrder, PayInv
  <2>2. status[d.order] # "none"
    BY <2>1 DEF PayInv, ProofRows, Sound, Reviewing
  <2>3. NextStatus(d.order) \in OrderStatus
    BY <2>1, <2>2 DEF NextStatus, OrderStatus, PayInv, Typed, TypeOK
  <2>4. x \in Duty
    BY <2>1, <2>3 DEF Duty
  <2>5. Pending(d.proof)
    BY <2>1 DEF Agreed, Relies, Reviewing
  <2> QED
    BY <1>5, <2>4, <2>5 DEF VerifyReadOrder, Relies, Reviewing
<1> QED
  BY <1>1, <1>2, <1>3, <1>4, <1>5, AgreedMoves DEF PayBegin

LEMMA AgreedEnds ==
  ASSUME PayInv, Agreed, NEW c \in Clerks, Tell(c) \/ GiveUp(c) \/ Die(c)
  PROVE  Agreed'
<1>1. Idle \in Duty /\ Relies(Idle)
  BY DEF Idle, Duty, Relies, Reviewing
<1> QED
  BY <1>1, AgreedMoves DEF Tell, GiveUp, Die

\* An order has one proof under review, because the one who claims it has found
\* none, and an order whose proof is verified cannot be claimed.
LEMMA AgreedSubmitCommit ==
  ASSUME PayInv, Agreed, AloneAtDesk, NEW c \in Clerks, NEW s \in ProofIds,
         SubmitCommit(c, s)
  PROVE  Agreed'
<1> DEFINE o == desk[c].order
           n == [order |-> o, key |-> desk[c].key, status |-> "pending"]
           x == [at |-> "tell", slip |-> [proof |-> s, about |-> "pending"]]
<1>1. o \in OrderIds /\ desk[c].key \in Keys
  BY DutyType DEF SubmitCommit, PayInv
<1>2. n # NoProof /\ n.order = o /\ n.status = "pending" /\ x.at = "tell"
  BY <1>1, OrderPaymentsAssumption DEF Proof
<1>3. /\ proof[s] = NoProof
      /\ status[o] # "cancelled" /\ payment[o] # "paid"
      /\ payment' = [payment EXCEPT ![o] = "pending_verification"]
      /\ proof' = [proof EXCEPT ![s] = n]
      /\ desk' = [desk EXCEPT ![c] = x]
      /\ UNCHANGED <<status, req>>
  BY DEF SubmitCommit, Become, Accepting
<1>4. Serves(c, o) /\ \A t \in ProofsOf(o) : ~Pending(t)
  BY DEF SubmitCommit, Serves, Agreed, Relies
<1>5. \A t \in ProofsOf(o) : proof[t].status = "rejected"
  BY <1>1, <1>3, <1>4 DEF ProofsOf, Pending, Agreed, ProofsAgree, PayInv, PayTables,
     Proof, Verdict
<1> HIDE DEF o, n, x
<1>6. /\ payment'[o] = "pending_verification"
      /\ \A q \in OrderIds : q # o => payment'[q] = payment[q]
      /\ proof'[s] = n
      /\ \A t \in ProofIds : t # s => proof'[t] = proof[t]
      /\ desk'[c] = x
      /\ \A k \in Clerks : k # c => desk'[k] = desk[k]
  BY <1>1, <1>3 DEF PayInv, Typed, TypeOK, PayTables
<1>7. ProofsAgree'
  <2>1. ASSUME NEW t \in ProofIds, NEW u \in ProofIds, Pending(t)',
               (u \in ProofsOf(proof[t].order))'
        PROVE  u = t \/ proof'[u].status = "rejected"
    <3>1. CASE t = s
      BY <1>2, <1>5, <1>6, <2>1, <3>1 DEF ProofsOf
    <3>2. CASE t # s /\ u = s
      BY <1>2, <1>4, <1>6, <2>1, <3>2 DEF ProofsOf, Pending
    <3>3. CASE t # s /\ u # s
      BY <1>6, <2>1, <3>3 DEF ProofsOf, Pending, Agreed, ProofsAgree
    <3> QED
      BY <3>1, <3>2, <3>3
  <2>2. ASSUME NEW t \in ProofIds, proof'[t] # NoProof, proof'[t].status = "verified"
        PROVE  payment'[proof'[t].order] = "paid"
    <3>1. t # s /\ payment[proof[t].order] = "paid" /\ proof[t].order \in OrderIds
      BY <1>2, <1>6, <2>2 DEF Agreed, ProofsAgree, PayInv, PayTables, Proof
    <3> QED
      BY <1>3, <1>6, <3>1
  <2>3. ASSUME NEW q \in OrderIds, payment'[q] = "paid"
        PROVE  \E t \in ProofsOf(q)' : proof'[t].status # "rejected"
    <3>1. q # o /\ payment[q] = "paid"
      BY <1>6, <2>3
    <3>2. PICK t \in ProofsOf(q) : proof[t].status # "rejected"
      BY <3>1 DEF Agreed, ProofsAgree
    <3>3. t # s
      BY <1>3, <3>2 DEF ProofsOf
    <3> QED
      BY <1>6, <3>2, <3>3 DEF ProofsOf
  <2> QED
    BY <2>1, <2>2, <2>3 DEF ProofsAgree
<1>8. ASSUME NEW k \in Clerks PROVE Relies(desk[k])'
  <2>1. CASE k = c
    BY <1>2, <1>6, <2>1 DEF Relies, Reviewing
  <2>2. CASE k # c
    <3>1. desk'[k] = desk[k] /\ Relies(desk[k]) /\ Sound(desk[k]) /\ ~Serves(k, o)
      BY <1>1, <1>4, <1>6, <2>2 DEF Agreed, AloneAtDesk, PayInv, ProofRows
    <3>2. desk[k].at = "claim" => \A t \in ProofsOf(desk[k].order)' : ~Pending(t)'
      <4> SUFFICES ASSUME desk[k].at = "claim", NEW t \in ProofsOf(desk[k].order)'
                   PROVE  ~Pending(t)'
        OBVIOUS
      <4>1. desk[k].order # o
        BY <3>1 DEF Serves
      <4>2. t \in ProofIds /\ proof'[t] # NoProof /\ proof'[t].order = desk[k].order
        BY <3>1 DEF ProofsOf
      <4>3. t # s
        BY <1>2, <1>6, <4>1, <4>2
      <4>4. proof'[t] = proof[t] /\ t \in ProofsOf(desk[k].order)
        BY <1>6, <4>2, <4>3 DEF ProofsOf
      <4> QED
        BY <3>1, <4>4 DEF Relies, Pending
    <3>3. desk[k].at \in Reviewing => Pending(desk[k].proof)'
      <4> SUFFICES ASSUME desk[k].at \in Reviewing PROVE Pending(desk[k].proof)'
        OBVIOUS
      <4>1. desk[k].proof \in ProofIds /\ desk[k].proof # s
        BY <1>3, <3>1, ReviewType DEF Sound, PayInv
      <4> QED
        BY <1>6, <3>1, <4>1 DEF Relies, Pending
    <3>4. desk[k].at \in {"log", "close"} => payment'[desk[k].order] = payment[desk[k].order]
      BY <1>6, <3>1, ReviewType DEF Serves, PayInv, Reviewing
    <3> QED
      BY <3>1, <3>2, <3>3, <3>4 DEF Relies
  <2> QED
    BY <2>1, <2>2
<1>9. ASSUME NEW r \in Requests PROVE NotCancelling(req[r])'
  <2>1. ~Holds(r, o)
    BY <1>1, <1>4 DEF AloneAtDesk
  <2>2. req[r].at = "commit" => req[r].order \in OrderIds /\ req[r].order # o
    BY <2>1, StageType DEF Holds, PayInv, Typed
  <2> QED
    BY <1>3, <1>6, <2>2 DEF Agreed, NotCancelling
<1>10. CancelledNotUnderReview'
  BY <1>3, <1>6 DEF Agreed, CancelledNotUnderReview
<1> QED
  BY <1>7, <1>8, <1>9, <1>10 DEF Agreed

\* A verdict is written to an order whose only proof that is not rejected is the
\* one under review.
LEMMA AgreedSettles ==
  ASSUME PayInv, Agreed, AloneAtDesk, NEW c \in Clerks,
         VerifyAccept(c) \/ VerifyReject(c)
  PROVE  Agreed'
<1> DEFINE d == desk[c]
           o == d.order
<1>1. d \in [at : {"settle", "log", "close"}, proof : ProofIds, order : OrderIds,
             verdict : Verdict, next : OrderStatus]
  BY DutyType DEF VerifyAccept, VerifyReject, PayInv
<1>2. PICK stage \in {"log", "close"} :
         /\ Become(c, [d EXCEPT !.at = stage])
         /\ stage = "log" => d.verdict = "verified"
         /\ payment' = [payment EXCEPT ![o] = Outcome(d.verdict)]
  BY DEF VerifyAccept, VerifyReject, Outcome
<1> DEFINE x == [d EXCEPT !.at = stage]
<1>3. x.at = stage /\ x.proof = d.proof /\ x.order = o /\ x.verdict = d.verdict
  BY <1>1
<1>4. /\ \A q \in OrderIds : q # o => status'[q] = status[q]
      /\ UNCHANGED <<req, proof>>
      /\ d.at = "settle"
  BY DEF VerifyAccept, VerifyReject, PayInv, Typed, TypeOK
<1>5. /\ Pending(d.proof) /\ proof[d.proof].order = o
      /\ Serves(c, o) /\ o \in OrderIds /\ d.proof \in ProofIds
  BY <1>1, <1>4 DEF PayInv, ProofRows, Sound, Reviewing, Agreed, Relies, Serves
<1>6. d.verdict \in Verdict /\ Outcome(d.verdict) \in {"paid", "rejected"}
      /\ (Outcome(d.verdict) = "paid" <=> d.verdict = "verified")
  BY <1>1 DEF Outcome
<1>7. /\ payment'[o] = Outcome(d.verdict)
      /\ \A q \in OrderIds : q # o => payment'[q] = payment[q]
      /\ desk'[c] = x
      /\ \A k \in Clerks : k # c => desk'[k] = desk[k]
  BY <1>2, <1>5 DEF PayInv, Typed, TypeOK, PayTables, Become
<1> HIDE DEF x, d, o
<1>8. ProofsAgree'
  <2>1. ASSUME NEW t \in ProofIds, proof[t] # NoProof, proof[t].status = "verified"
        PROVE  payment'[proof[t].order] = "paid"
    <3>1. proof[t].order # o
      BY <1>5, <2>1 DEF Agreed, ProofsAgree, ProofsOf, Pending
    <3> QED
      BY <1>7, <2>1, <3>1 DEF Agreed, ProofsAgree, PayInv, PayTables, Proof
  <2>2. ASSUME NEW q \in OrderIds, payment'[q] = "paid"
        PROVE  \E t \in ProofsOf(q) : proof[t].status # "rejected"
    <3>1. CASE q = o
      BY <1>5, <3>1 DEF ProofsOf, Pending
    <3>2. CASE q # o
      BY <1>7, <2>2, <3>2 DEF Agreed, ProofsAgree
    <3> QED
      BY <3>1, <3>2
  <2> QED
    BY <1>4, <2>1, <2>2 DEF Agreed, ProofsAgree, ProofsOf, Pending
<1>9. ASSUME NEW k \in Clerks PROVE Relies(desk[k])'
  <2>1. CASE k = c
    BY <1>2, <1>3, <1>4, <1>5, <1>7, <2>1 DEF Relies, Pending
  <2>2. CASE k # c
    <3>1. desk'[k] = desk[k] /\ Relies(desk[k]) /\ ~Serves(k, o)
      BY <1>5, <1>7, <2>2 DEF Agreed, AloneAtDesk
    <3>2. desk[k].at \in {"log", "close"} => payment'[desk[k].order] = payment[desk[k].order]
      BY <1>7, <3>1, ReviewType DEF Serves, PayInv, Reviewing
    <3> QED
      BY <1>4, <3>1, <3>2 DEF Relies, ProofsOf, Pending
  <2> QED
    BY <2>1, <2>2
<1>10. \A r \in Requests : NotCancelling(req[r])'
  BY <1>4, <1>6, <1>7, StageType DEF Agreed, NotCancelling, PayInv, Typed
<1>11. CancelledNotUnderReview'
  BY <1>4, <1>6, <1>7 DEF Agreed, CancelledNotUnderReview
<1> QED
  BY <1>8, <1>9, <1>10, <1>11 DEF Agreed

LEMMA AgreedVerifyLog ==
  ASSUME PayInv, Agreed, NEW c \in Clerks, VerifyLog(c)
  PROVE  Agreed'
<1> DEFINE d == desk[c]
           x == [d EXCEPT !.at = "close"]
<1>1. d \in [at : {"settle", "log", "close"}, proof : ProofIds, order : OrderIds,
             verdict : Verdict, next : OrderStatus]
  BY DutyType DEF VerifyLog, PayInv
<1>2. x.at = "close" /\ x.proof = d.proof /\ x.order = d.order /\ x.verdict = d.verdict
  BY <1>1
<1>3. /\ d.at = "log" /\ Relies(d)
      /\ desk' = [desk EXCEPT ![c] = x]
      /\ UNCHANGED <<status, payment, req, proof>>
  BY DEF VerifyLog, Become, Agreed
<1> HIDE DEF d, x
<1>4. Relies(x)
  BY <1>2, <1>3 DEF Relies, Reviewing
<1>5. \A k \in Clerks : Relies(desk[k])'
  BY <1>3, <1>4 DEF PayInv, PayTables, Agreed, Relies, ProofsOf, Pending
<1> QED
  BY <1>3, <1>5 DEF Agreed, ProofsAgree, ProofsOf, Pending, NotCancelling,
     CancelledNotUnderReview

\* The proof gets the verdict that its order has already.
LEMMA AgreedVerifyClose ==
  ASSUME PayInv, Agreed, AloneAtDesk, NEW c \in Clerks, VerifyClose(c)
  PROVE  Agreed'
<1> DEFINE d == desk[c]
           s == d.proof
           o == d.order
           n == [proof[s] EXCEPT !.status = d.verdict]
           x == [at |-> "tell", slip |-> [proof |-> s, about |-> d.verdict]]
<1>1. d.at = "close" /\ s \in ProofIds /\ o \in OrderIds /\ d.verdict \in Verdict
  BY DutyType DEF VerifyClose, PayInv
<1>2. /\ proof' = [proof EXCEPT ![s] = n]
      /\ desk' = [desk EXCEPT ![c] = x]
      /\ UNCHANGED vars
  BY DEF VerifyClose, Become
<1>3. /\ Pending(s) /\ proof[s] \in Proof /\ proof[s].order = o
      /\ payment[o] = Outcome(d.verdict) /\ Serves(c, o)
  BY <1>1 DEF PayInv, PayTables, ProofRows, Sound, Reviewing, Agreed, Relies,
     Serves, Pending
<1>4. n \in Proof /\ n.order = o /\ n.status = d.verdict
  BY <1>1, <1>3 DEF Proof
<1>5. n # NoProof /\ x.at = "tell"
  BY <1>4, OrderPaymentsAssumption DEF Proof, Verdict
<1> HIDE DEF d, s, o, n, x
<1>6. /\ proof'[s] = n
      /\ \A t \in ProofIds : t # s => proof'[t] = proof[t]
      /\ desk'[c] = x
      /\ \A k \in Clerks : k # c => desk'[k] = desk[k]
      /\ UNCHANGED <<payment, status, req>>
  BY <1>1, <1>2 DEF PayInv, PayTables, vars, rows
<1>7. \A t \in ProofsOf(o) : t = s \/ proof[t].status = "rejected"
  BY <1>1, <1>3 DEF Agreed, ProofsAgree, ProofsOf
<1>8. \A q \in OrderIds : ProofsOf(q)' = ProofsOf(q)
  BY <1>3, <1>4, <1>5, <1>6 DEF ProofsOf, Pending
<1>9. \A t \in ProofIds : Pending(t)' => Pending(t) /\ t # s
  BY <1>1, <1>4, <1>6 DEF Pending, Verdict
<1>10. ProofsAgree'
  <2>1. ASSUME NEW t \in ProofIds, NEW u \in ProofIds, Pending(t)',
               (u \in ProofsOf(proof[t].order))'
        PROVE  u = t \/ proof'[u].status = "rejected"
    <3>1. Pending(t) /\ t # s /\ proof'[t] = proof[t] /\ proof[t].order \in OrderIds
      BY <1>6, <1>9, <2>1 DEF Pending, PayInv, PayTables, Proof
    <3>2. proof[t].order # o
      BY <1>7, <3>1 DEF ProofsOf, Pending
    <3>3. u \in ProofsOf(proof[t].order)
      BY <1>8, <2>1, <3>1
    <3>4. u # s
      BY <1>3, <3>2, <3>3 DEF ProofsOf
    <3> QED
      BY <1>6, <3>1, <3>3, <3>4 DEF Agreed, ProofsAgree
  <2>2. ASSUME NEW t \in ProofIds, proof'[t] # NoProof, proof'[t].status = "verified"
        PROVE  payment'[proof'[t].order] = "paid"
    BY <1>3, <1>4, <1>6, <2>2 DEF Agreed, ProofsAgree, Outcome
  <2>3. ASSUME NEW q \in OrderIds, payment'[q] = "paid"
        PROVE  \E t \in ProofsOf(q)' : proof'[t].status # "rejected"
    <3>1. PICK t \in ProofsOf(q) : proof[t].status # "rejected"
      BY <1>6, <2>3 DEF Agreed, ProofsAgree
    <3>2. CASE t = s
      <4>1. q = o
        BY <1>3, <3>1, <3>2 DEF ProofsOf
      <4>2. d.verdict = "verified"
        BY <1>3, <1>6, <2>3, <4>1 DEF Outcome
      <4> QED
        BY <1>4, <1>6, <1>8, <3>1, <3>2, <4>2
    <3>3. CASE t # s
      BY <1>6, <1>8, <3>1, <3>3 DEF ProofsOf
    <3> QED
      BY <3>2, <3>3
  <2> QED
    BY <2>1, <2>2, <2>3 DEF ProofsAgree
<1>11. ASSUME NEW k \in Clerks PROVE Relies(desk[k])'
  <2>1. CASE k = c
    BY <1>5, <1>6, <2>1 DEF Relies, Reviewing
  <2>2. CASE k # c
    <3>1. desk'[k] = desk[k] /\ Relies(desk[k]) /\ Sound(desk[k]) /\ ~Serves(k, o)
      BY <1>1, <1>3, <1>6, <2>2 DEF Agreed, AloneAtDesk, PayInv, ProofRows
    <3>2. desk[k].at \in Reviewing => Pending(desk[k].proof)'
      <4> SUFFICES ASSUME desk[k].at \in Reviewing PROVE Pending(desk[k].proof)'
        OBVIOUS
      <4>1. desk[k].proof # s
        BY <1>3, <3>1 DEF Sound, Serves, Reviewing
      <4> QED
        BY <1>6, <3>1, <4>1, ReviewType DEF Relies, Pending, PayInv
    <3>3. desk[k].at = "claim" => \A t \in ProofsOf(desk[k].order)' : ~Pending(t)'
      <4>1. desk[k].at = "claim" => desk[k].order \in OrderIds
        BY DutyType DEF PayInv
      <4> QED
        BY <1>8, <1>9, <3>1, <4>1 DEF Relies, ProofsOf
    <3> QED
      BY <1>6, <3>1, <3>2, <3>3 DEF Relies
  <2> QED
    BY <2>1, <2>2
<1> QED
  BY <1>6, <1>10, <1>11 DEF Agreed, NotCancelling, CancelledNotUnderReview

LEMMA AgreedNext ==
  PayInv /\ Agreed /\ AloneAtDesk /\ [PayNext /\ AloneAtDesk']_allVars
    => Agreed' /\ AloneAtDesk'
<1> SUFFICES ASSUME PayInv, Agreed, AloneAtDesk, [PayNext /\ AloneAtDesk']_allVars
             PROVE  Agreed' /\ AloneAtDesk'
  OBVIOUS
<1>1. CASE UNCHANGED allVars
  <2>1. UNCHANGED <<status, payment, req, proof, desk>>
    BY <1>1 DEF allVars, vars, payVars, rows
  <2> QED
    BY <2>1 DEF Agreed, ProofsAgree, Relies, NotCancelling, CancelledNotUnderReview,
       ProofsOf, Pending, AloneAtDesk, Serves, Holds
<1>2. CASE PayNext /\ AloneAtDesk'
  <2>1. ASSUME NEW c \in Clerks, PayBegin(c) \/ PayStep(c) PROVE Agreed'
    BY <2>1, AgreedReads, AgreedSubmitCommit, AgreedSettles, AgreedVerifyLog,
       AgreedVerifyClose, AgreedEnds DEF PayStep
  <2> QED
    BY <1>2, <2>1, AgreedOrders, AgreedEnds DEF PayNext
<1> QED
  BY <1>1, <1>2

LEMMA AgreedInvariant == PaySerialSpec => [](PayInv /\ Agreed)
<1>1. PayInit => PayInv /\ Agreed /\ AloneAtDesk
  BY PayInvInit, AgreedInit
<1>2. /\ PayInv /\ Agreed /\ AloneAtDesk
      /\ [PayNext /\ OneAtATime' /\ AloneAtDesk']_allVars
      => PayInv' /\ Agreed' /\ AloneAtDesk'
  BY PayInvNext, AgreedNext
<1> QED
  BY <1>1, <1>2, PTL DEF PaySerialSpec

\* Served one at a time, an order never has two proofs waiting for review,
\* although the claim of the second looks only at the order.
THEOREM OneProofAtATime == PaySerialSpec => []OnePendingProof
<1>1. Agreed => OnePendingProof
  <2> SUFFICES ASSUME Agreed, NEW o \in OrderIds
               PROVE  Cardinality({s \in ProofsOf(o) : Pending(s)}) <= 1
    BY DEF OnePendingProof
  <2> DEFINE open == {s \in ProofsOf(o) : Pending(s)}
  <2>1. CASE open = {}
    BY <2>1, FS_EmptySet
  <2>2. ASSUME NEW s \in open PROVE Cardinality(open) <= 1
    <3>1. open = {s}
      BY <2>2 DEF Agreed, ProofsAgree, ProofsOf, Pending
    <3> QED
      BY <3>1, FS_Singleton
  <2> QED
    BY <2>1, <2>2
<1> QED
  BY <1>1, AgreedInvariant, PTL

\* Served one at a time, and wherever a review dies, orders and proofs agree: a
\* verified proof has paid, and a paid order has a proof that is not rejected.
THEOREM VerifiedHasPaid == PaySerialSpec => []VerifiedIffPaid
<1>1. PayInv /\ Agreed => VerifiedIffPaid
  BY DEF PayInv, PayTables, Proof, Verdict, Agreed, ProofsAgree, VerifiedIffPaid,
     ProofsOf
<1> QED
  BY <1>1, AgreedInvariant, PTL

\* Served one at a time, a cancelled order is not under review.
THEOREM CancelledIsSettled == PaySerialSpec => []CancelledNotUnderReview
<1>1. Agreed => CancelledNotUnderReview
  BY DEF Agreed
<1> QED
  BY <1>1, AgreedInvariant, PTL

-----------------------------------------------------------------------------
(* With payments, the tables still are an order book: a verdict moves a    *)
(* pending order to confirmed or leaves its status alone, and what order   *)
(* requests have read stays so, because no clerk serves their order.       *)

\* The status that verify has fixed for its order is still the right one.
SettleCurrent ==
  \A c \in Clerks, o \in OrderIds :
    desk[c].at = "settle" /\ desk[c].order = o => desk[c].next = NextStatus(o)

PayFresh == PayInv /\ AloneAtDesk /\ Fresh /\ SettleCurrent

LEMMA PayFreshInit == PayInit => PayFresh
  BY PayInvInit, AgreedInit, FreshInit
     DEF PayInit, PayFresh, SettleCurrent, Idle

ClerkStep(c) == PayBegin(c) \/ PayStep(c) \/ GiveUp(c) \/ Die(c)

\* What clerk c does to the order o that it serves.
Writes(c, o) ==
  /\ Serves(c, o)
  /\ status[o] # "none"
  /\ \/ status' = status
     \/ status[o] = "pending" /\ status' = [status EXCEPT ![o] = "confirmed"]
  /\ \A q \in OrderIds : q # o => payment'[q] = payment[q]
  /\ UNCHANGED <<goods, restored, terms, inbox, req>>

LEMMA ClerkWrites ==
  ASSUME PayFresh, NEW c \in Clerks, ClerkStep(c)
  PROVE  UNCHANGED vars \/ \E o \in OrderIds : Writes(c, o)
<1> DEFINE o == desk[c].order
<1>1. ASSUME NEW s \in ProofIds, SubmitCommit(c, s) PROVE o \in OrderIds /\ Writes(c, o)
  <2>1. o \in OrderIds
    BY <1>1, DutyType DEF SubmitCommit, PayFresh, PayInv
  <2> QED
    BY <1>1, <2>1 DEF SubmitCommit, Accepting, Writes, Serves, PayFresh, PayInv,
       Typed, TypeOK
<1>2. ASSUME VerifyAccept(c) \/ VerifyReject(c) \/ VerifyLog(c)
      PROVE  o \in OrderIds /\ Writes(c, o)
  <2>1. desk[c].at \in {"settle", "log"} /\ o \in OrderIds
    BY <1>2, DutyType DEF VerifyAccept, VerifyReject, VerifyLog, PayFresh, PayInv
  <2>2. Serves(c, o) /\ status[o] # "none"
    <3>1. /\ desk[c].proof \in ProofIds /\ proof[desk[c].proof] # NoProof
          /\ proof[desk[c].proof].order = o
      BY <2>1, ReviewType DEF PayFresh, PayInv, ProofRows, Sound, Reviewing
    <3> QED
      BY <2>1, <3>1 DEF Serves, PayFresh, PayInv, ProofRows
  <2>3. CASE VerifyAccept(c)
    <3>1. /\ status'  = [status EXCEPT ![o] = NextStatus(o)]
          /\ payment' = [payment EXCEPT ![o] = "paid"]
          /\ UNCHANGED <<goods, restored, terms, inbox, req>>
      BY <2>1, <2>3 DEF VerifyAccept, PayFresh, SettleCurrent
    <3>2. /\ status \in [OrderIds -> OrderStatus \cup {"none"}]
          /\ payment \in [OrderIds -> PaymentStatus]
      BY DEF PayFresh, PayInv, Typed, TypeOK
    <3> HIDE DEF o
    <3>3. \/ status' = status
          \/ status[o] = "pending" /\ status' = [status EXCEPT ![o] = "confirmed"]
      BY <2>1, <3>1, <3>2 DEF NextStatus
    <3> QED
      BY <2>1, <2>2, <3>1, <3>2, <3>3 DEF Writes
  <2>4. CASE VerifyReject(c) \/ VerifyLog(c)
    BY <2>1, <2>2, <2>4
       DEF VerifyReject, VerifyLog, Writes, PayFresh, PayInv, Typed, TypeOK
  <2> QED
    BY <1>2, <2>3, <2>4
<1>3. ASSUME \/ PayBegin(c) \/ SubmitCheckKey(c) \/ SubmitCheckOpen(c)
             \/ \E u \in Users : VerifyReadOrder(c, u)
             \/ VerifyClose(c) \/ Tell(c) \/ GiveUp(c) \/ Die(c)
      PROVE  UNCHANGED vars
  BY <1>3 DEF PayBegin, SubmitRead, VerifyRead, SubmitCheckKey, SubmitCheckOpen,
     VerifyReadOrder, VerifyClose, Tell, GiveUp, Die
<1> QED
  BY <1>1, <1>2, <1>3 DEF ClerkStep, PayStep

\* A clerk that writes an order disturbs no order request.
LEMMA FreshClerk ==
  ASSUME PayFresh, PayInv', NEW c \in Clerks, NEW o \in OrderIds, Writes(c, o)
  PROVE  Fresh'
<1>1. Typed /\ Typed'
  BY DEF PayFresh, PayInv
<1>2. \A r \in Requests : req[r].at \in {"recheck", "commit"} =>
        req[r].order \in OrderIds /\ req[r].order # o
  BY <1>1, StageType DEF PayFresh, AloneAtDesk, Writes, Holds, Typed
<1>3. \A q \in OrderIds : q # o => /\ status'[q] = status[q]
                                   /\ payment'[q] = payment[q]
                                   /\ restored'[q] = restored[q]
  BY <1>1 DEF Writes, Typed, TypeOK
<1>4. WhatWasRead'
  BY <1>2, <1>3 DEF Writes, PayFresh, Fresh, WhatWasRead, RowOf
<1>5. \A q \in OrderIds : /\ status'[q] = "none" <=> status[q] = "none"
                          /\ status[q] = "cancelled" => status'[q] = "cancelled"
  BY <1>1 DEF Writes, Typed, TypeOK
<1>6. AskedIsWanted' /\ OnlyCancelledRestored'
  BY <1>5 DEF Writes, PayFresh, Fresh, AskedIsWanted, OnlyCancelledRestored
<1>7. OneAtATime'
  BY DEF Writes, PayFresh, Fresh, OneAtATime, Holds
<1> QED
  BY <1>1, <1>4, <1>6, <1>7 DEF Fresh

LEMMA BookClerk ==
  ASSUME PayFresh, NEW c \in Clerks, ClerkStep(c)
  PROVE  [Book!BookNext]_(Book!bookVars)
<1>1. CASE UNCHANGED <<stock, totalSold, status, terms>>
  BY <1>1 DEF Book!bookVars, Asked
<1>2. ASSUME NEW o \in OrderIds, Writes(c, o), status[o] = "pending",
             status' = [status EXCEPT ![o] = "confirmed"]
      PROVE  Book!BookNext
  <2>1. UNCHANGED <<stock, totalSold, terms>>
    BY <1>2 DEF Writes, goods
  <2>2. UNCHANGED Asked
    BY <1>2, <2>1 DEF Asked, PayFresh, PayInv, Typed, TypeOK
  <2>3. Book!Advance(o, "confirmed")
    BY <1>2, <2>1, <2>2 DEF Book!Advance, ORDER_TRANSITIONS
  <2>4. "confirmed" \in {m[2] : m \in ORDER_TRANSITIONS}
    BY DEF ORDER_TRANSITIONS
  <2> QED
    BY <2>3, <2>4 DEF Book!BookNext
<1> QED
  BY <1>1, <1>2, ClerkWrites DEF Writes, vars, goods, rows

\* An order that a clerk serves is written by nobody else.
LEMMA ServedStands ==
  ASSUME PayFresh, NEW k \in Clerks, NEW o \in OrderIds, Serves(k, o),
         status[o] # "none",
         \/ Next
         \/ \E c \in Clerks : c # k /\ ClerkStep(c)
  PROVE  status'[o] = status[o]
<1>1. status \in [OrderIds -> OrderStatus \cup {"none"}]
  BY DEF PayFresh, PayInv, Typed, TypeOK
<1>2. ASSUME NEW r \in Requests, NEW q \in OrderIds, CreateCommit(r, q)
      PROVE  status'[o] = status[o]
  BY <1>1, <1>2 DEF CreateCommit, Open
<1>3. ASSUME NEW r \in Requests, UpdateStatusCommit(r)
      PROVE  status'[o] = status[o]
  <2>1. req[r].order # o
    BY <1>3 DEF UpdateStatusCommit, PayFresh, AloneAtDesk, Holds
  <2> QED
    BY <1>1, <1>3, <2>1 DEF UpdateStatusCommit
<1>4. ASSUME NEW c \in Clerks, c # k, ClerkStep(c)
      PROVE  status'[o] = status[o]
  <2>1. ASSUME NEW q \in OrderIds, Writes(c, q) PROVE status'[o] = status[o]
    <3>1. q # o
      BY <1>4, <2>1 DEF Writes, PayFresh, AloneAtDesk
    <3> QED
      BY <1>1, <2>1, <3>1 DEF Writes
  <2> QED
    BY <1>4, <2>1, ClerkWrites DEF vars, rows
<1> QED
  BY <1>2, <1>3, <1>4, QuietStep

\* Only reading the order leads a review to its first write.
LEMMA SettleAfterRead ==
  ASSUME PayInv, NEW c \in Clerks, ClerkStep(c), desk'[c].at = "settle"
  PROVE  \E u \in Users : VerifyReadOrder(c, u)
<1>1. ASSUME NEW x, Become(c, x) PROVE x.at = "settle"
  BY <1>1 DEF Become, PayInv, PayTables
<1>2. ~Tell(c) /\ ~GiveUp(c) /\ ~Die(c)
  BY <1>1 DEF Tell, GiveUp, Die, Idle
<1>3. ~VerifyClose(c)
  BY <1>1 DEF VerifyClose
<1>4. ASSUME VerifyAccept(c) \/ VerifyReject(c) \/ VerifyLog(c) PROVE FALSE
  <2>1. PICK stage \in {"log", "close"} : Become(c, [desk[c] EXCEPT !.at = stage])
    BY <1>4 DEF VerifyAccept, VerifyReject, VerifyLog
  <2> DEFINE x == [desk[c] EXCEPT !.at = stage]
  <2>2. x.at = stage
    BY <1>4, DutyType
       DEF VerifyAccept, VerifyReject, VerifyLog, PayInv
  <2> HIDE DEF x
  <2> QED
    BY <1>1, <2>1, <2>2 DEF x
<1>5. ASSUME SubmitCheckKey(c) \/ SubmitCheckOpen(c) PROVE FALSE
  <2>1. PICK stage \in {"open", "claim"} : Become(c, [desk[c] EXCEPT !.at = stage])
    BY <1>5 DEF SubmitCheckKey, SubmitCheckOpen
  <2> DEFINE x == [desk[c] EXCEPT !.at = stage]
  <2>2. x.at = stage
    BY <1>5, DutyType DEF SubmitCheckKey, SubmitCheckOpen, PayInv
  <2> HIDE DEF x
  <2> QED
    BY <1>1, <2>1, <2>2 DEF x
<1>6. ASSUME NEW s \in ProofIds, SubmitCommit(c, s) PROVE FALSE
  BY <1>1, <1>6 DEF SubmitCommit
<1>7. ~PayBegin(c)
  <2>1. ASSUME NEW u \in Users, NEW o \in OrderIds, NEW k \in Keys,
               SubmitRead(c, u, o, k)
        PROVE  FALSE
    BY <1>1, <2>1 DEF SubmitRead
  <2>2. ASSUME NEW s \in ProofIds, NEW v \in Verdict, VerifyRead(c, s, v)
        PROVE  FALSE
    BY <1>1, <2>2 DEF VerifyRead
  <2> QED
    BY <2>1, <2>2 DEF PayBegin
<1> QED
  BY <1>2, <1>3, <1>4, <1>5, <1>6, <1>7 DEF ClerkStep, PayStep

LEMMA SettleCurrentStep ==
  ASSUME PayFresh, [PayNext]_allVars
  PROVE  SettleCurrent'
<1> SUFFICES ASSUME NEW k \in Clerks, NEW o \in OrderIds,
                    desk'[k].at = "settle", desk'[k].order = o
             PROVE  desk'[k].next = NextStatus(o)'
  BY DEF SettleCurrent
<1>1. ASSUME ClerkStep(k)
      PROVE  desk'[k].next = NextStatus(o)'
  <2>1. PICK u \in Users : VerifyReadOrder(k, u)
    BY <1>1, SettleAfterRead DEF PayFresh
  <2>2. desk'[k].next = NextStatus(desk'[k].order) /\ status' = status
    BY <2>1 DEF VerifyReadOrder, Become, PayFresh, PayInv, PayTables, vars, rows
  <2> QED
    BY <2>2 DEF NextStatus
<1>2. ASSUME desk'[k] = desk[k],
             \/ UNCHANGED vars
             \/ Next
             \/ \E c \in Clerks : c # k /\ ClerkStep(c)
      PROVE  desk'[k].next = NextStatus(o)'
  <2>1. desk[k].at = "settle" /\ desk[k].order = o
    BY <1>2
  <2>2. /\ desk[k].proof \in ProofIds /\ proof[desk[k].proof] # NoProof
        /\ proof[desk[k].proof].order = o
    BY <2>1, ReviewType DEF PayFresh, PayInv, ProofRows, Sound, Reviewing
  <2>3. Serves(k, o) /\ status[o] # "none"
    BY <2>1, <2>2 DEF Serves, PayFresh, PayInv, ProofRows
  <2>4. status'[o] = status[o]
    BY <1>2, <2>3, ServedStands DEF vars, rows
  <2>5. desk[k].next = NextStatus(o)
    BY <2>1 DEF PayFresh, SettleCurrent
  <2> QED
    BY <1>2, <2>4, <2>5 DEF NextStatus
<1>3. CASE UNCHANGED allVars \/ (Next /\ UNCHANGED payVars)
  BY <1>2, <1>3 DEF allVars, payVars
<1>4. ASSUME NEW c \in Clerks, c # k, ClerkStep(c)
      PROVE  desk'[k].next = NextStatus(o)'
  <2>1. \E x : Become(c, x)
    BY <1>4 DEF ClerkStep, PayBegin, PayStep, SubmitRead, VerifyRead,
       SubmitCheckKey, SubmitCheckOpen, SubmitCommit, VerifyReadOrder,
       VerifyAccept, VerifyReject, VerifyLog, VerifyClose, Tell, GiveUp, Die
  <2>2. desk'[k] = desk[k]
    BY <1>4, <2>1 DEF Become
  <2> QED
    BY <1>2, <1>4, <2>2
<1> QED
  BY <1>1, <1>3, <1>4 DEF PayNext, ClerkStep

LEMMA PayFreshStep ==
  PayFresh /\ [PayNext /\ OneAtATime' /\ AloneAtDesk']_allVars => PayFresh'
<1> SUFFICES ASSUME PayFresh, [PayNext /\ OneAtATime' /\ AloneAtDesk']_allVars
             PROVE  PayFresh'
  OBVIOUS
<1>1. PayInv'
  BY PayInvNext DEF PayFresh
<1>2. SettleCurrent'
  BY SettleCurrentStep
<1>3. AloneAtDesk'
  BY DEF allVars, vars, payVars, PayFresh, AloneAtDesk, Serves, Holds
<1>4. CASE [Next /\ OneAtATime']_vars
  BY <1>1, <1>2, <1>3, <1>4, FreshStep DEF PayFresh
<1>5. ASSUME NEW c \in Clerks, ClerkStep(c) PROVE PayFresh'
  <2>1. ASSUME NEW o \in OrderIds, Writes(c, o) PROVE Fresh'
    BY <1>1, <2>1, FreshClerk
  <2>2. ASSUME UNCHANGED vars PROVE Fresh'
    BY <2>2, FreshStep DEF PayFresh
  <2> QED
    BY <1>1, <1>2, <1>3, <1>5, <2>1, <2>2, ClerkWrites DEF PayFresh
<1> QED
  BY <1>4, <1>5 DEF PayNext, ClerkStep, allVars

\* Served one at a time, orders whose payments are reviewed still implement the
\* order book: a verdict confirms a pending order and moves no other, so it
\* neither revives a cancelled order nor touches a unit.
THEOREM PaymentsImplementBook == PaySerialSpec => ImplementsBook
<1>1. PayInit => Book!BookInit
  BY BookStart DEF PayInit
<1>2. ASSUME PayFresh, [PayNext /\ OneAtATime' /\ AloneAtDesk']_allVars
      PROVE  [Book!BookNext]_(Book!bookVars)
  <2>1. CASE [Next /\ OneAtATime']_vars
    BY <1>2, <2>1, BookStep DEF PayFresh
  <2> QED
    BY <1>2, <2>1, BookClerk DEF PayNext, ClerkStep, allVars
<1> QED
  BY <1>1, <1>2, PayFreshInit, PayFreshStep, PTL
     DEF PaySerialSpec, ImplementsBook, Book!BookSpec

\* A verdict moves no unit: it takes no order from the live or the delivered ones.
LEMMA BalancedClerk ==
  ASSUME PayFresh, Balanced, PayFresh', NEW c \in Clerks, ClerkStep(c)
  PROVE  Balanced'
<1>1. Fresh'
  BY DEF PayFresh
<1>2. CASE UNCHANGED vars
  BY <1>2, BalancedStep
<1>3. ASSUME NEW o \in OrderIds, Writes(c, o) PROVE Balanced'
  <2>1. UNCHANGED <<stock, totalSold, terms, req>>
    BY <1>3 DEF Writes, goods
  <2>2. Live' = Live /\ Delivered' = Delivered /\ Placed' = Placed
    <3>1. CASE status' = status
      BY <3>1 DEF Live, Delivered, Placed
    <3>2. CASE /\ status[o] = "pending"
               /\ status' = [status EXCEPT ![o] = "confirmed"]
      BY <3>2 DEF Live, Delivered, Placed, PayFresh, PayInv, Typed, TypeOK
    <3> QED
      BY <1>3, <3>1, <3>2 DEF Writes
  <2>3. \A p \in Products : /\ HeldBy(p, Live)' = HeldBy(p, Live)
                            /\ HeldBy(p, Delivered)' = HeldBy(p, Delivered)
    BY <2>1, <2>2 DEF HeldBy, ItemsOf
  <2>4. SeenUnrestored'
    BY <2>1 DEF Balanced, SeenUnrestored
  <2> QED
    BY <1>1, <2>1, <2>2, <2>3, <2>4 DEF Balanced
<1> QED
  BY <1>2, <1>3, ClerkWrites

\* Nor do payments, served one at a time, cost or create a unit, wherever a
\* review dies: shelf and live orders still hold what there was, and the sales
\* figures count every delivered order once.
THEOREM PaymentsConserve ==
  PaySerialSpec => [](NoUnitInvented /\ \A p \in Products :
                                          totalSold[p] = Units(p, Delivered))
<1>1. PayInit => PayFresh /\ Balanced
  BY PayFreshInit, BalancedInit DEF PayInit
<1>2. ASSUME PayFresh, Balanced,
             [PayNext /\ OneAtATime' /\ AloneAtDesk']_allVars
      PROVE  (PayFresh /\ Balanced)'
  <2>1. PayFresh'
    BY <1>2, PayFreshStep
  <2>2. CASE [Next /\ OneAtATime']_vars
    BY <1>2, <2>1, <2>2, BalancedStep
  <2>3. ASSUME NEW c \in Clerks, ClerkStep(c) PROVE Balanced'
    BY <1>2, <2>1, <2>3, BalancedClerk
  <2> QED
    BY <1>2, <2>1, <2>2, <2>3 DEF PayNext, ClerkStep, allVars
<1> QED
  BY <1>1, <1>2, BalancedAddsUp, PTL DEF PaySerialSpec

-----------------------------------------------------------------------------
(* Units and sales, however payment requests and order requests overlap.   *)
(* A verdict may write "confirmed" over a cancellation, and the order may  *)
(* then be cancelled again; its flag, or a trace of the status it had, says *)
(* that its units are back already.                                        *)

Returned(o) ==
  \/ status[o] = "cancelled"
  \/ restored[o]
  \/ \E r \in Requests : /\ req[r].at = "commit" /\ req[r].order = o
                         /\ req[r].seen.restored
  \/ \E c \in Clerks : /\ desk[c].at = "settle" /\ desk[c].order = o
                       /\ desk[c].next = "cancelled"

Unreturned == {o \in Placed : ~Returned(o)}

\* The orders that were delivered, or that a verdict will make so again.
Ended ==
  {o \in Placed : \/ status[o] = "delivered"
                  \/ \E c \in Clerks : /\ desk[c].at = "settle"
                                       /\ desk[c].order = o
                                       /\ desk[c].next = "delivered"}

UnitsKept ==
  /\ PayInv
  /\ IsFiniteSet(Placed)
  /\ \A o \in OrderIds : restored[o] => o \in Placed
  /\ \A p \in Products : stock[p] + HeldBy(p, Unreturned) >= InitialStock[p]
  /\ \A p \in Products : totalSold[p] >= HeldBy(p, Ended)

LEMMA UnitsKeptInit == PayInit => UnitsKept
<1> SUFFICES ASSUME PayInit PROVE UnitsKept
  OBVIOUS
<1>1. Placed = {} /\ Unreturned = {} /\ Ended = {}
  BY DEF PayInit, Init, Placed, Unreturned, Ended
<1>2. \A p \in Products : HeldBy(p, {}) = 0
  BY SumEmpty DEF HeldBy
<1>3. \A p \in Products : stock[p] \in Nat /\ totalSold[p] = 0
  BY OrdersAssumption DEF PayInit, Init
<1>4. /\ \A p \in Products : stock[p] = InitialStock[p]
      /\ \A o \in OrderIds : ~restored[o]
  BY DEF PayInit, Init
<1> QED
  BY <1>1, <1>2, <1>3, <1>4, PayInvInit, FS_EmptySet DEF UnitsKept

\* More orders hold more units.
LEMMA HoldsMore ==
  ASSUME Typed, IsFiniteSet(Placed), NEW p \in Products,
         NEW S \in SUBSET Placed, NEW T \in SUBSET S
  PROVE  /\ HeldBy(p, T) \in Nat /\ HeldBy(p, S) \in Nat
         /\ HeldBy(p, T) <= HeldBy(p, S)
<1> DEFINE f == ItemsOf(terms, p)
<1>1. \A x \in Placed : f[x] \in Nat
  BY ItemsType
<1>2. IsFiniteSet(S) /\ IsFiniteSet(T)
  BY FS_Subset
<1> HIDE DEF f
<1>3. \A x \in S : f[x] \in Nat
  BY <1>1
<1>4. SumOf(f, T) \in Nat /\ SumOf(f, S) \in Nat /\ SumOf(f, T) <= SumOf(f, S)
  BY <1>2, <1>3, SumTake, SumPart
<1> QED
  BY <1>4 DEF HeldBy, f

\* What one order more or less makes of a sum.
Moves(f, S, o) ==
  /\ SumOf(f, S) \in Nat /\ SumOf(f, S \cup {o}) \in Nat /\ SumOf(f, S \ {o}) \in Nat
  /\ o \in S => /\ SumOf(f, S \cup {o}) = SumOf(f, S)
                /\ SumOf(f, S) = SumOf(f, S \ {o}) + f[o]
  /\ o \notin S => /\ SumOf(f, S \cup {o}) = SumOf(f, S) + f[o]
                   /\ SumOf(f, S) = SumOf(f, S \ {o})

LEMMA HoldsMoves ==
  ASSUME Typed, IsFiniteSet(Placed), NEW p \in Products, NEW o \in Placed,
         NEW S \in SUBSET Placed
  PROVE  Moves(ItemsOf(terms, p), S, o)
<1> DEFINE f == ItemsOf(terms, p)
<1>1. \A x \in Placed : f[x] \in Nat
  BY ItemsType
<1> HIDE DEF f
<1>2. S \subseteq Placed /\ o \in Placed
  OBVIOUS
<1>3. /\ SumOf(f, S) \in Nat /\ SumOf(f, S \cup {o}) \in Nat
      /\ SumOf(f, S \ {o}) \in Nat
  BY <1>1, <1>2, SumMoves
<1>4. o \in S => /\ SumOf(f, S \cup {o}) = SumOf(f, S)
                 /\ SumOf(f, S) = SumOf(f, S \ {o}) + f[o]
  <2>1. o \in S => S \cup {o} = S
    OBVIOUS
  <2>2. ASSUME o \in S PROVE SumOf(f, S) = SumOf(f, S \ {o}) + f[o]
    <3> DEFINE a == SumOf(f, S)
               b == SumOf(f, S \ {o})
               n == f[o]
    <3>1. IsFiniteSet(S) /\ \A x \in S : f[x] \in Nat
      BY <1>1, <1>2, FS_Subset
    <3>2. a = n + b
      BY <2>2, <3>1, SumTake
    <3>3. n \in Nat /\ b \in Nat
      BY <1>1, <1>2, <1>3
    <3> HIDE DEF a, b, n
    <3>4. a = b + n
      BY <3>2, <3>3
    <3> QED
      BY <3>4 DEF a, b, n
  <2> QED
    BY <2>1, <2>2, Zenon
<1>5. o \notin S => /\ SumOf(f, S \cup {o}) = SumOf(f, S) + f[o]
                    /\ SumOf(f, S) = SumOf(f, S \ {o})
  BY <1>1, <1>2, SumMoves
<1>6. Moves(f, S, o)
  BY <1>3, <1>4, <1>5, Zenon DEF Moves
<1> QED
  BY <1>6 DEF f

\* A step that touches no unit, takes no order for returned and ends none.
LEMMA UnitsKeptQuiet ==
  ASSUME UnitsKept, PayInv', UNCHANGED <<stock, totalSold, terms, restored>>,
         Placed' = Placed, Unreturned \subseteq Unreturned', Ended' \subseteq Ended
  PROVE  UnitsKept'
<1>1. Typed /\ IsFiniteSet(Placed) /\ Unreturned' \subseteq Placed
      /\ Ended \subseteq Placed
  BY DEF UnitsKept, PayInv, Unreturned, Ended
<1>2. ASSUME NEW p \in Products
      PROVE  /\ stock'[p] + HeldBy(p, Unreturned)' >= InitialStock[p]
             /\ totalSold'[p] >= HeldBy(p, Ended)'
  <2> DEFINE a == HeldBy(p, Unreturned)
             b == HeldBy(p, Unreturned)'
             c == HeldBy(p, Ended)
             d == HeldBy(p, Ended)'
  <2>1. b = HeldBy(p, Unreturned') /\ d = HeldBy(p, Ended')
    BY DEF HeldBy, ItemsOf
  <2>2. a \in Nat /\ b \in Nat /\ c \in Nat /\ d \in Nat /\ a <= b /\ d <= c
    BY <1>1, <2>1, HoldsMore
  <2>3. /\ stock'[p] = stock[p] /\ totalSold'[p] = totalSold[p]
        /\ stock[p] \in Nat /\ totalSold[p] \in Nat /\ InitialStock[p] \in Nat
        /\ stock[p] + a >= InitialStock[p] /\ totalSold[p] >= c
    BY <1>1, OrdersAssumption DEF UnitsKept, Typed, TypeOK
  <2> HIDE DEF a, b, c, d
  <2>4. stock'[p] + b >= InitialStock[p] /\ totalSold'[p] >= d
    BY <2>2, <2>3
  <2> QED
    BY <2>4 DEF b, d
<1> QED
  BY <1>1, <1>2 DEF UnitsKept

\* A request about to commit has the flag it has just read, or had it before.
LEMMA FlagIsRead ==
  ASSUME Typed, [Next]_vars, NEW k \in Requests, req'[k].at = "commit"
  PROVE  \/ req'[k] = req[k]
         \/ req'[k].seen.restored = restored[req'[k].order]
<1> DEFINE Goal == \/ req'[k] = req[k]
                   \/ req'[k].seen.restored = restored[req'[k].order]
<1>1. ASSUME NEW r \in Requests, NEW x, req' = [req EXCEPT ![r] = x],
             x.at = "commit" => x.seen.restored = restored[x.order]
      PROVE  Goal
  BY <1>1 DEF Typed, TypeOK
<1>2. ASSUME NEW r \in Requests, NEW u \in Users, NEW b \in Baskets,
             CreateRead(r, u, b)
      PROVE  Goal
  <2>1. PICK s \in Users : req' = [req EXCEPT ![r] =
             [at    |-> "reserve",
              terms |-> [buyer |-> u, seller |-> s, items |-> b.total]]]
    BY <1>2 DEF CreateRead
  <2> QED
    BY <1>1, <2>1
<1>3. ASSUME NEW r \in Requests, NEW o, NEW goal, NEW byBuyer,
             req' = [req EXCEPT ![r] = Committing(o, goal, byBuyer)]
      PROVE  Goal
  <2>1. LET x == Committing(o, goal, byBuyer)
        IN  x.seen.restored = restored[x.order]
    BY DEF Committing, RowOf
  <2> QED
    BY <1>1, <1>3, <2>1
<1>4. ASSUME NEW r \in Requests, Begin(r)
      PROVE  Goal
  <2>1. ASSUME NEW u \in Users, NEW o \in OrderIds, CancelByBuyerRead(r, u, o)
        PROVE  Goal
    BY <1>1, <2>1 DEF CancelByBuyerRead
  <2>2. ASSUME NEW u \in Users, NEW o \in OrderIds, NEW goal \in Goals,
               UpdateStatusRead(r, u, o, goal)
        PROVE  Goal
    BY <1>3, <2>2 DEF UpdateStatusRead
  <2> QED
    BY <1>2, <1>4, <2>1, <2>2 DEF Begin
<1>5. ASSUME NEW r \in Requests, NEW o \in OrderIds, CreateCommit(r, o)
      PROVE  Goal
  BY <1>1, <1>5 DEF CreateCommit
<1>6. ASSUME NEW r \in Requests, CancelByBuyerRecheck(r)
      PROVE  Goal
  BY <1>3, <1>6 DEF CancelByBuyerRecheck
<1>7. ASSUME NEW r \in Requests, UpdateStatusCommit(r)
      PROVE  Goal
  BY <1>1, <1>7 DEF UpdateStatusCommit
<1>8. ASSUME NEW r \in Requests, Notify(r)
      PROVE  Goal
  <2> DEFINE t == Tail(req[r].left)
             x == IF Len(req[r].left) = 1 THEN Idle
                  ELSE [at |-> "notify", left |-> t]
  <2>1. req' = [req EXCEPT ![r] = x]
    BY <1>8 DEF Notify
  <2> HIDE DEF t
  <2>2. x.at # "commit"
    BY DEF Idle
  <2> HIDE DEF x
  <2> QED
    BY <1>1, <2>1, <2>2
<1>9. ASSUME NEW r \in Requests, Fail(r)
      PROVE  Goal
  BY <1>1, <1>9 DEF Fail, Idle
<1>10. CASE UNCHANGED req
  BY <1>10
<1> QED
  BY <1>4, <1>5, <1>6, <1>7, <1>8, <1>9, <1>10
     DEF Next, Work, Step, SetActive, vars

\* An order that is inserted takes its units; no trace of it is older.
LEMMA UnitsKeptCreate ==
  ASSUME UnitsKept, PayInv', NEW r \in Requests, NEW o \in OrderIds,
         CreateCommit(r, o), UNCHANGED payVars
  PROVE  UnitsKept'
<1>1. Typed /\ Typed' /\ IsFiniteSet(Placed)
  BY DEF UnitsKept, PayInv
<1>2. /\ status[o] = "none" /\ o \notin Placed
      /\ status' = [status EXCEPT ![o] = "pending"]
      /\ restored' = restored /\ desk' = desk /\ totalSold' = totalSold
  BY DEF CreateCommit, Open, Placed, payVars
<1>3. Placed' = Placed \cup {o}
  BY <1>1, <1>2 DEF Placed, Typed, TypeOK
<1>4. \A k \in Requests : req'[k].at = "commit" =>
        req'[k] = req[k] /\ req[k].order \in OrderIds /\ req[k].order # o
  BY <1>1, <1>2, StageType DEF CreateCommit, Typed, TypeOK, RowsExist
<1>5. \A c \in Clerks : desk[c].at = "settle" => desk[c].order # o
  BY <1>2, ReviewType DEF UnitsKept, PayInv, ProofRows, Sound, Reviewing
<1>6. \A x \in OrderIds : x # o => status'[x] = status[x]
  BY <1>1, <1>2 DEF Typed, TypeOK
<1>7. \A x \in OrderIds : x # o => (Returned(x)' <=> Returned(x))
  <2>1. \A k \in Requests : req[k].at = "commit" => req'[k] = req[k]
    BY <1>1 DEF CreateCommit, Typed, TypeOK
  <2> QED
    BY <1>2, <1>4, <1>6, <2>1 DEF Returned
<1>8. ~Returned(o)' /\ status'[o] = "pending"
  BY <1>1, <1>2, <1>4, <1>5 DEF Returned, UnitsKept, Typed, TypeOK
<1>9. Unreturned' = Unreturned \cup {o}
  BY <1>3, <1>7, <1>8 DEF Unreturned, Placed
<1>10. Ended' = Ended
  BY <1>2, <1>3, <1>5, <1>6, <1>8 DEF Ended, Placed
<1>11. Unreturned \in SUBSET Placed /\ Ended \in SUBSET Placed
  BY DEF Unreturned, Ended
<1>12. ASSUME NEW p \in Products
       PROVE  /\ stock'[p] + HeldBy(p, Unreturned)' >= InitialStock[p]
              /\ totalSold'[p] >= HeldBy(p, Ended)'
  <2> DEFINE n == req[r].terms.items[p]
             f == ItemsOf(terms, p)
             h == ItemsOf(terms', p)
  <2>1. /\ HeldBy(p, Unreturned)' = SumOf(h, Unreturned')
        /\ HeldBy(p, Ended)' = SumOf(h, Ended')
        /\ HeldBy(p, Unreturned) = SumOf(f, Unreturned)
        /\ HeldBy(p, Ended) = SumOf(f, Ended)
    BY DEF HeldBy
  <2>2. /\ n \in Nat /\ SumOf(f, Unreturned) \in Nat /\ stock[p] \in Nat
        /\ stock'[p] = stock[p] - n
        /\ SumOf(h, Unreturned \cup {o}) = SumOf(f, Unreturned) + n
        /\ SumOf(h, Ended) = SumOf(f, Ended)
    BY <1>1, <1>11, PlacingSum
  <2>3. /\ stock[p] + SumOf(f, Unreturned) >= InitialStock[p]
        /\ totalSold[p] >= SumOf(f, Ended)
    BY <2>1 DEF UnitsKept
  <2>4. InitialStock[p] \in Nat
    BY OrdersAssumption
  <2> HIDE DEF n, f, h
  <2>5. stock'[p] + SumOf(h, Unreturned \cup {o}) >= InitialStock[p]
    BY <2>2, <2>3, <2>4
  <2> QED
    BY <1>2, <1>9, <1>10, <2>1, <2>2, <2>3, <2>5
<1>13. IsFiniteSet(Placed')
  BY <1>1, <1>3, FS_AddElement
<1> QED
  BY <1>2, <1>3, <1>12, <1>13 DEF UnitsKept

\* A cancellation returns the units of its order unless they are back already.
LEMMA UnitsKeptUpdate ==
  ASSUME UnitsKept, PayInv', NEW r \in Requests, UpdateStatusCommit(r),
         UNCHANGED payVars, NEW q, q = req[r], NEW o, o = q.order
  PROVE  UnitsKept'
<1> DEFINE U == Unreturned
           E == Ended
<1>1. Typed /\ Typed' /\ IsFiniteSet(Placed)
  BY DEF UnitsKept, PayInv
<1>2. /\ q.at = "commit" /\ o \in OrderIds /\ q.goal \in OrderStatus
      /\ status[o] # "none" /\ o \in Placed
  BY <1>1, StageType DEF UpdateStatusCommit, Typed, RowsExist, Placed
<1>3. /\ status' = [status EXCEPT ![o] = q.goal]
      /\ restored' = [restored EXCEPT ![o] = RestoredAfter(q)]
      /\ terms' = terms /\ desk' = desk
  BY DEF UpdateStatusCommit, payVars
<1>4. Placed' = Placed
  BY <1>1, <1>2, <1>3 DEF Placed, OrderStatus, Typed, TypeOK
<1>5. \A k \in Requests : k # r => req'[k] = req[k]
  BY <1>1 DEF UpdateStatusCommit, Typed, TypeOK
<1>6. req'[r].at # "commit"
  BY <1>1 DEF UpdateStatusCommit, Typed, TypeOK
<1>7. \A x \in OrderIds : x # o =>
        status'[x] = status[x] /\ restored'[x] = restored[x]
  BY <1>1, <1>2, <1>3 DEF Typed, TypeOK
<1>8. status'[o] = q.goal /\ restored'[o] = RestoredAfter(q)
  BY <1>1, <1>2, <1>3 DEF Typed, TypeOK
<1>9. \A x \in OrderIds : x # o => (Returned(x)' <=> Returned(x))
  BY <1>3, <1>5, <1>6, <1>7 DEF Returned
<1>10. U \in SUBSET Placed /\ E \in SUBSET Placed
  BY DEF Unreturned, Ended
<1>11. q.goal = "cancelled" => Unreturned' = U \ {o}
  BY <1>2, <1>4, <1>8, <1>9 DEF Returned, Unreturned, Placed
<1>12. q.seen.restored => o \notin U
  BY <1>2 DEF Returned, Unreturned
<1>13. q.goal # "cancelled" => Unreturned' = U \/ Unreturned' = U \cup {o}
  <2>1. ASSUME q.goal # "cancelled", Returned(o)' PROVE Returned(o)
    BY <1>2, <1>3, <1>5, <1>6, <1>8, <2>1 DEF Returned, RestoredAfter
  <2> QED
    BY <1>2, <1>4, <1>9, <2>1 DEF Unreturned, Placed
<1>14. \A x \in OrderIds : x # o => (x \in Ended' <=> x \in E)
  BY <1>3, <1>4, <1>7 DEF Ended
<1>15. q.goal = "delivered" => Ended' = E \cup {o}
  BY <1>2, <1>4, <1>8, <1>14 DEF Ended, Placed
<1>16. q.goal # "delivered" => Ended' = E \/ Ended' = E \ {o}
  <2>1. ASSUME q.goal # "delivered", o \in Ended' PROVE o \in E
    BY <1>3, <1>4, <1>8, <2>1 DEF Ended
  <2> QED
    BY <1>4, <1>10, <1>14, <2>1 DEF Ended, Placed
<1>17. ASSUME NEW p \in Products
       PROVE  /\ stock'[p] + HeldBy(p, Unreturned)' >= InitialStock[p]
              /\ totalSold'[p] >= HeldBy(p, Ended)'
  <2> DEFINE f == ItemsOf(terms, p)
             n == f[o]
             a == SumOf(f, U)
             b == SumOf(f, Unreturned')
             c == SumOf(f, E)
             d == SumOf(f, Ended')
  <2>1. /\ stock'[p] = IF Returns(q) THEN stock[p] + terms[o].items[p] ELSE stock[p]
        /\ totalSold'[p] = IF Sells(q) THEN totalSold[p] + terms[o].items[p]
                           ELSE totalSold[p]
    BY DEF UpdateStatusCommit
  <2>2. /\ HeldBy(p, Unreturned)' = b /\ HeldBy(p, Ended)' = d
        /\ stock[p] + a >= InitialStock[p] /\ totalSold[p] >= c
    BY <1>3 DEF UnitsKept, HeldBy
  <2>3. (\A x \in Placed : f[x] \in Nat) /\ n = terms[o].items[p]
    BY <1>1, <1>2, ItemsType
  <2>4. stock[p] \in Nat /\ totalSold[p] \in Nat /\ InitialStock[p] \in Nat
    BY <1>1, OrdersAssumption DEF Typed, TypeOK
  <2> HIDE DEF U, E, f
  <2>5. \A S \in SUBSET Placed : Moves(f, S, o)
    BY <1>1, <1>2, HoldsMoves DEF f
  <2>6. /\ n \in Nat /\ a \in Nat /\ b \in Nat
        /\ q.goal = "cancelled" => \/ a = b + n
                                   \/ a = b
        /\ q.goal = "cancelled" /\ q.seen.restored => a = b
        /\ q.goal # "cancelled" => \/ b = a
                                   \/ b = a + n
    BY <1>2, <1>10, <1>11, <1>12, <1>13, <2>3, <2>5 DEF Moves
  <2>7. /\ c \in Nat /\ d \in Nat
        /\ q.goal = "delivered" => \/ d = c
                                   \/ d = c + n
        /\ q.goal # "delivered" => \/ c = d
                                   \/ c = d + n
    BY <1>2, <1>10, <1>15, <1>16, <2>3, <2>5 DEF Moves
  <2> HIDE DEF n, a, b, c, d
  <2>8. stock'[p] + b >= InitialStock[p]
    <3>1. CASE Returns(q)
      BY <2>1, <2>2, <2>3, <2>4, <2>6, <3>1 DEF Returns
    <3>2. CASE ~Returns(q)
      BY <2>1, <2>2, <2>3, <2>4, <2>6, <3>2 DEF Returns
    <3> QED
      BY <3>1, <3>2
  <2>9. totalSold'[p] >= d
    <3>1. CASE Sells(q)
      BY <2>1, <2>2, <2>3, <2>4, <2>6, <2>7, <3>1 DEF Sells
    <3>2. CASE ~Sells(q)
      BY <2>1, <2>2, <2>3, <2>4, <2>6, <2>7, <3>2 DEF Sells
    <3> QED
      BY <3>1, <3>2
  <2> QED
    BY <2>2, <2>8, <2>9
<1>18. \A x \in OrderIds : restored'[x] => x \in Placed'
  BY <1>2, <1>4, <1>7 DEF UnitsKept
<1> QED
  BY <1>1, <1>4, <1>17, <1>18 DEF UnitsKept

\* A clerk leaves flags, units and requests alone; what it writes to an order is
\* the status it has read.
LEMMA UnitsKeptClerk ==
  ASSUME UnitsKept, PayInv', NEW c \in Clerks, ClerkStep(c)
  PROVE  UnitsKept'
<1>1. Typed /\ PayTables /\ PayInv
  BY DEF UnitsKept, PayInv
<1>2. UNCHANGED <<stock, totalSold, terms, restored, req>>
  BY DEF ClerkStep, PayBegin, PayStep, SubmitRead, VerifyRead, SubmitCheckKey,
     SubmitCheckOpen, SubmitCommit, VerifyReadOrder, VerifyAccept, VerifyReject,
     VerifyLog, VerifyClose, Tell, GiveUp, Die, vars, goods, rows
<1>3. PICK y : Become(c, y)
  BY DEF ClerkStep, PayBegin, PayStep, SubmitRead, VerifyRead, SubmitCheckKey,
     SubmitCheckOpen, SubmitCommit, VerifyReadOrder, VerifyAccept, VerifyReject,
     VerifyLog, VerifyClose, Tell, GiveUp, Die
<1>4. \A k \in Clerks : k # c => desk'[k] = desk[k]
  BY <1>3 DEF Become
<1>5. ASSUME status' = status, \/ desk'[c].at # "settle"
                               \/ desk'[c].next = NextStatus(desk'[c].order)
      PROVE  UnitsKept'
  <2>1. Placed' = Placed
    BY <1>5 DEF Placed
  <2>2. \A k \in Clerks : desk'[k].at = "settle" =>
          \/ desk'[k] = desk[k]
          \/ desk'[k].next = NextStatus(desk'[k].order)
    BY <1>4, <1>5
  <2>3. \A x \in OrderIds : Returned(x)' => Returned(x)
    BY <1>2, <1>5, <2>2 DEF Returned, NextStatus
  <2>4. Ended' \subseteq Ended
    BY <1>5, <2>1, <2>2 DEF Ended, NextStatus
  <2>5. Unreturned \subseteq Unreturned'
    BY <2>1, <2>3 DEF Unreturned, Placed
  <2> QED
    BY <1>2, <2>1, <2>4, <2>5, UnitsKeptQuiet
<1>6. CASE VerifyAccept(c)
  <2> DEFINE o == desk[c].order
             s == desk[c].next
  <2>1. /\ desk[c].at = "settle" /\ o \in OrderIds /\ s \in OrderStatus
        /\ status' = [status EXCEPT ![o] = s]
        /\ Become(c, [desk[c] EXCEPT !.at = "log"])
    BY <1>1, <1>6, DutyType DEF VerifyAccept
  <2>2. desk'[c].at = "log"
    BY <1>1, <2>1, DutyType DEF Become, PayTables
  <2>3. o \in Placed
    BY <1>1, <2>1, ReviewType DEF PayInv, ProofRows, Sound, Reviewing, Placed
  <2>4. status'[o] = s /\ \A x \in OrderIds : x # o => status'[x] = status[x]
    BY <1>1, <2>1 DEF Typed, TypeOK
  <2>5. Placed' = Placed
    BY <2>1, <2>3, <2>4 DEF Placed, OrderStatus
  <2>6. \A k \in Clerks : desk'[k].at = "settle" => desk'[k] = desk[k]
    BY <1>4, <2>2
  <2>7. \A x \in OrderIds : Returned(x)' => Returned(x)
    BY <1>2, <2>1, <2>4, <2>6 DEF Returned
  <2>8. Ended' \subseteq Ended
    BY <2>1, <2>4, <2>5, <2>6 DEF Ended, Placed
  <2>9. Unreturned \subseteq Unreturned'
    BY <2>5, <2>7 DEF Unreturned, Placed
  <2> QED
    BY <1>2, <2>5, <2>8, <2>9, UnitsKeptQuiet
<1>7. ~VerifyAccept(c) => status' = status
  BY DEF ClerkStep, PayBegin, PayStep, SubmitRead, VerifyRead, SubmitCheckKey,
     SubmitCheckOpen, SubmitCommit, VerifyReadOrder, VerifyReject,
     VerifyLog, VerifyClose, Tell, GiveUp, Die, vars, rows
<1>8. ASSUME desk'[c].at = "settle"
      PROVE  desk'[c].next = NextStatus(desk'[c].order)
  <2>1. PICK u \in Users : VerifyReadOrder(c, u)
    BY <1>1, <1>8, SettleAfterRead
  <2> QED
    BY <1>1, <2>1 DEF VerifyReadOrder, Become, PayTables
<1> QED
  BY <1>5, <1>6, <1>7, <1>8

LEMMA UnitsKeptStep == UnitsKept /\ [PayNext]_allVars => UnitsKept'
<1> SUFFICES ASSUME UnitsKept, [PayNext]_allVars PROVE UnitsKept'
  OBVIOUS
<1>1. PayInv' /\ Typed
  BY PayInvNext DEF UnitsKept, PayInv
<1>2. ASSUME [Next]_vars, UNCHANGED payVars,
             UNCHANGED <<stock, totalSold, status, terms>>, restored' = restored
      PROVE  UnitsKept'
  <2>1. Placed' = Placed /\ desk' = desk
    BY <1>2 DEF Placed, payVars
  <2>2. \A x \in OrderIds : Returned(x)' => Returned(x)
    <3>1. \A k \in Requests : req'[k].at = "commit" =>
            req'[k] = req[k] \/ req'[k].seen.restored = restored[req'[k].order]
      BY <1>1, <1>2, FlagIsRead
    <3> QED
      BY <1>2, <2>1, <3>1 DEF Returned
  <2>3. Ended' = Ended
    BY <1>2, <2>1 DEF Ended
  <2>4. Unreturned \subseteq Unreturned'
    BY <2>1, <2>2 DEF Unreturned, Placed
  <2> QED
    BY <1>1, <1>2, <2>1, <2>3, <2>4, UnitsKeptQuiet
<1>3. CASE UNCHANGED allVars
  BY <1>2, <1>3 DEF allVars, vars, goods, rows
<1>4. CASE Next /\ UNCHANGED payVars
  <2>1. \/ UNCHANGED <<stock, totalSold, status, terms, restored>>
        \/ \E r \in Requests, o \in OrderIds : CreateCommit(r, o)
        \/ \E r \in Requests : UpdateStatusCommit(r)
    BY <1>4 DEF Next, Work, Begin, Step, goods, rows, CreateRead,
       UpdateStatusRead, CancelByBuyerRead, CancelByBuyerRecheck, Notify, Fail,
       SetActive
  <2>2. ASSUME NEW r \in Requests, UpdateStatusCommit(r) PROVE UnitsKept'
    BY <1>1, <1>4, <2>2, UnitsKeptUpdate
  <2> QED
    BY <1>1, <1>2, <1>4, <2>1, <2>2, UnitsKeptCreate
<1>5. ASSUME NEW c \in Clerks, ClerkStep(c) PROVE UnitsKept'
  BY <1>1, <1>5, UnitsKeptClerk
<1> QED
  BY <1>3, <1>4, <1>5 DEF PayNext, ClerkStep

\* However payment requests and order requests overlap, and wherever a review
\* dies, no unit is lost and no delivered order is missing in the sales figures,
\* although a late verdict may undo a cancellation or a delivery.
THEOREM PaymentsKeepUnits == PaySpec => [](NoUnitLost /\ SalesCounted)
<1>1. ASSUME UnitsKept PROVE NoUnitLost /\ SalesCounted
  <2>1. /\ Typed /\ IsFiniteSet(Placed)
        /\ Live \in SUBSET Placed /\ Unreturned \in SUBSET Live
        /\ Ended \in SUBSET Placed /\ Delivered \in SUBSET Ended
        /\ Live \in SUBSET OrderIds /\ Delivered \in SUBSET OrderIds
    BY <1>1 DEF UnitsKept, PayInv, Live, Delivered, Placed, Unreturned, Ended,
       Returned
  <2>2. IsFiniteSet(Live) /\ IsFiniteSet(Delivered)
    BY <2>1, FS_Subset
  <2>3. ASSUME NEW p \in Products
        PROVE  /\ stock[p] + Units(p, Live) >= InitialStock[p]
               /\ totalSold[p] >= Units(p, Delivered)
    <3> DEFINE a == HeldBy(p, Unreturned)
               b == HeldBy(p, Live)
               c == HeldBy(p, Ended)
               d == HeldBy(p, Delivered)
    <3>1. /\ a \in Nat /\ b \in Nat /\ a <= b
          /\ c \in Nat /\ d \in Nat /\ d <= c
      BY <2>1, HoldsMore
    <3>2. Units(p, Live) = b /\ Units(p, Delivered) = d
      BY <2>1, <2>2, UnitsHeld
    <3>3. /\ stock[p] + a >= InitialStock[p] /\ totalSold[p] >= c
          /\ stock[p] \in Nat /\ totalSold[p] \in Nat /\ InitialStock[p] \in Nat
      BY <1>1, <2>1, OrdersAssumption DEF UnitsKept, Typed, TypeOK
    <3> HIDE DEF a, b, c, d
    <3> QED
      BY <3>1, <3>2, <3>3
  <2> QED
    BY <2>3 DEF NoUnitLost, SalesCounted
<1> QED
  BY <1>1, UnitsKeptInit, UnitsKeptStep, PTL DEF PaySpec
=============================================================================
