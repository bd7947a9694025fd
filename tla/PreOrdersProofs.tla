--------------------------- MODULE PreOrdersProofs ---------------------------
(***************************************************************************)
(* What PreOrders promises whatever the users, products and requests are,  *)
(* and however the requests overlap; and, at the end, what it promises     *)
(* when the requests on one pre-order are served one at a time.            *)
(***************************************************************************)
EXTENDS PreOrders, Sums

Holding == {"write", "count", "open", "claim", "read", "settle", "close"}
Reviewing == {"read", "settle", "close"}
Reserving == {"percent", "seed", "limit", "insert"}

\* The rows a request works on exist and belong together.
Sound(x) ==
  /\ x.at \in Holding => status[x.preOrder] # "none"
  /\ x.at \in Reviewing =>
       /\ proof[x.proof] # Nothing
       /\ proof[x.proof].preOrder = x.preOrder

RowsExist ==
  /\ \A o \in PreOrderIds : status[o] # "none" => deal[o] \in Deal
  /\ \A s \in ProofIds : proof[s] # Nothing => status[proof[s].preOrder] # "none"
  /\ \A r \in Requests : Sound(req[r])

\* A proof that is about to be closed may be the only one left of a pre-order
\* that has been settled; a pre-order that awaits a review has another.
Closing(s) == \E r \in Requests : req[r].at = "close" /\ req[r].proof = s

Awaited ==
  \A o \in PreOrderIds :
    status[o] = "awaiting_payment" =>
      \E s \in ProofIds : /\ proof[s] # Nothing
                          /\ proof[s].preOrder = o
                          /\ proof[s].status = "pending"
                          /\ ~Closing(s)

IInv == TypeOK /\ RowsExist /\ Awaited

\* A request in a given stage has the fields of that stage.
LEMMA StageType ==
  ASSUME TypeOK, NEW r \in Requests
  PROVE  /\ req[r].at = "offer" =>
              req[r] \in [at : {"offer"}, product : Products, next : Offer,
                          columns : SUBSET Column]
         /\ req[r].at \in Reserving =>
              req[r] \in [at : Reserving, deal : Deal, limit : Nat]
         /\ req[r].at = "write" =>
              req[r] \in [at : {"write"}, preOrder : PreOrderIds, goal : Goal,
                          to : Users]
         /\ req[r].at = "count" =>
              req[r] \in [at : {"count"}, preOrder : PreOrderIds, to : Users]
         /\ req[r].at \in {"open", "claim"} =>
              req[r] \in [at : {"open", "claim"}, preOrder : PreOrderIds]
         /\ req[r].at \in Reviewing =>
              req[r] \in [at : Reviewing, preOrder : PreOrderIds,
                          proof : ProofIds, verdict : Verdict]
         /\ req[r].at = "tell" => req[r] \in [at : {"tell"}, notice : Notice]
  BY DEF TypeOK, shop, Request, Idle, Reviewing, Reserving

LEMMA Holder ==
  ASSUME TypeOK, NEW r \in Requests, req[r].at \in Holding
  PROVE  req[r].preOrder \in PreOrderIds
  BY StageType DEF Holding, Reviewing

LEMMA TellType ==
  ASSUME NEW to \in Users, NEW o \in PreOrderIds, NEW about \in About
  PROVE  Tell(to, o, about) \in Request /\ Tell(to, o, about).at = "tell"
<1> DEFINE n == [to |-> to, preOrder |-> o, about |-> about]
<1>1. n \in Notice
  BY DEF Notice
<1> HIDE DEF n
<1>2. [at |-> "tell", notice |-> n] \in [at : {"tell"}, notice : Notice]
  BY <1>1
<1> QED
  BY <1>2 DEF Tell, Request, n

LEMMA InvInit == Init => IInv
  BY PreOrdersAssumption
     DEF Init, IInv, TypeOK, shop, RowsExist, Sound, Awaited, Request, Idle,
         Holding, Reviewing, Offer, NotOffered

\* A step that changes one request, and perhaps the inbox, what a product offers
\* or the settings, disturbs nothing,
\* unless it decides to close the proof an awaiting pre-order relies on.
LEMMA Moves ==
  ASSUME IInv, NEW r \in Requests, NEW x \in Request, Go(r, x),
         Sound(x),
         x.at = "close" => status[x.preOrder] # "awaiting_payment",
         UNCHANGED <<status, deal, totalSold, proof>>,
         offer' \in [Products -> Offer], settings' \in Nat,
         inbox' \in SUBSET Notice, deaths' \in Nat
  PROVE  IInv'
<1>1. TypeOK'
  BY DEF IInv, TypeOK, shop, Go
<1>2. RowsExist'
  BY DEF IInv, TypeOK, shop, RowsExist, Sound, Go
<1>3. Awaited'
  <2> SUFFICES ASSUME NEW o \in PreOrderIds, status[o] = "awaiting_payment"
               PROVE  \E s \in ProofIds : /\ proof[s] # Nothing
                                          /\ proof[s].preOrder = o
                                          /\ proof[s].status = "pending"
                                          /\ ~Closing(s)'
    BY DEF Awaited
  <2>1. PICK s \in ProofIds : /\ proof[s] # Nothing
                              /\ proof[s].preOrder = o
                              /\ proof[s].status = "pending"
                              /\ ~Closing(s)
    BY DEF IInv, Awaited
  <2>2. ~(x.at = "close" /\ x.proof = s)
    BY <2>1 DEF Sound, Reviewing
  <2>3. ~Closing(s)'
    BY <2>1, <2>2 DEF Closing, Go, IInv, TypeOK, shop
  <2> QED
    BY <2>1, <2>3
<1> QED
  BY <1>1, <1>2, <1>3 DEF IInv

LEMMA InvUpdateOfferRead ==
  ASSUME IInv, NEW r \in Requests, NEW p \in Products, NEW sent \in Offers[p],
         NEW columns \in Sent, UpdateOfferRead(r, p, sent, columns)
  PROVE  IInv'
<1> DEFINE n == Merged(offer[p], sent, columns)
           x == [at |-> "offer", product |-> p, columns |-> columns, next |-> n]
<1>1. sent \in Offer /\ offer[p] \in Offer /\ columns \in SUBSET Column
  BY PreOrdersAssumption DEF IInv, TypeOK
<1>2. n \in Offer
  BY <1>1 DEF Merged, Offer
<1>3. Go(r, x) /\ UNCHANGED <<shop, status, deal, totalSold, proof, inbox, deaths>>
  BY DEF UpdateOfferRead
<1> HIDE DEF n
<1>4. x \in [at : {"offer"}, product : Products, next : Offer,
             columns : SUBSET Column]
  BY <1>1, <1>2
<1>5. x \in Request /\ x.at = "offer"
  BY <1>4 DEF Request
<1> HIDE DEF x
<1>6. Sound(x)
  BY <1>5 DEF Sound, Holding, Reviewing
<1> QED
  BY <1>3, <1>5, <1>6, Moves DEF IInv, TypeOK, shop

LEMMA InvUpdateOfferWrite ==
  ASSUME IInv, NEW r \in Requests, UpdateOfferWrite(r)
  PROVE  IInv'
<1> DEFINE q == req[r]
           n == Normalized(q.next)
           x == [n EXCEPT !.open = IF "open" \in q.columns THEN n.open
                                   ELSE offer[q.product].open]
<1>1. q.next \in Offer /\ q.product \in Products
  BY StageType DEF UpdateOfferWrite, IInv
<1>2. n \in Offer /\ offer[q.product] \in Offer
  BY <1>1 DEF Normalized, NotOffered, Offer, IInv, TypeOK
<1>3. /\ offer' = [offer EXCEPT ![q.product] = x]
      /\ Go(r, Idle)
      /\ UNCHANGED <<settings, status, deal, totalSold, proof, inbox, deaths>>
  BY DEF UpdateOfferWrite
<1> HIDE DEF n
<1>4. x \in Offer
  BY <1>2 DEF Offer
<1> HIDE DEF x
<1>5. offer' \in [Products -> Offer]
  BY <1>1, <1>3, <1>4 DEF IInv, TypeOK
<1>6. Idle \in Request /\ Sound(Idle) /\ Idle.at = "idle"
  BY DEF Idle, Request, Sound, Holding, Reviewing
<1> QED
  BY <1>3, <1>5, <1>6, Moves DEF IInv, TypeOK

LEMMA InvSettings ==
  ASSUME IInv, NEW r \in Requests, SettingsRead(r) \/ SettingsInsert(r)
  PROVE  IInv'
<1> DEFINE x == [at |-> "first"]
<1>1. /\ x \in Request /\ Sound(x) /\ x.at = "first"
      /\ Idle \in Request /\ Sound(Idle) /\ Idle.at = "idle"
  BY DEF Idle, Request, Sound, Holding, Reviewing
<1>2. /\ Go(r, x) \/ Go(r, Idle)
      /\ settings' \in Nat
      /\ UNCHANGED <<offer, status, deal, totalSold, proof, inbox, deaths>>
  BY DEF SettingsRead, SettingsInsert, shop, IInv, TypeOK
<1> QED
  BY <1>1, <1>2, Moves DEF IInv, TypeOK

LEMMA InvCreateRead ==
  ASSUME IInv, NEW r \in Requests, NEW u \in Users, NEW p \in Products,
         NEW n \in Quantities, CreateRead(r, u, p, n)
  PROVE  IInv'
<1> DEFINE d == [buyer |-> u, product |-> p, quantity |-> n,
                 prepaid |-> offer[p].terms = "prepaid"]
           s == IF offer[p].terms = "default" THEN "percent" ELSE "limit"
           l == offer[p].limit
           x == [at |-> s, deal |-> d, limit |-> l]
<1>1. n \in Nat
  BY PreOrdersAssumption
<1>2. (offer[p].terms = "prepaid") \in BOOLEAN
  OBVIOUS
<1>3. d \in Deal
  BY <1>1, <1>2, Zenon DEF Deal
<1>4. s \in {"percent", "limit"} /\ l \in Nat
  BY DEF IInv, TypeOK, Offer
<1>5. Go(r, x) /\ UNCHANGED <<shop, status, deal, totalSold, proof, inbox, deaths>>
  BY DEF CreateRead
<1> HIDE DEF d, s, l
<1>6. x \in Request /\ x.at \in {"percent", "limit"}
  BY <1>3, <1>4 DEF Request
<1> HIDE DEF x
<1>7. Sound(x)
  BY <1>6 DEF Sound, Holding, Reviewing
<1> QED
  BY <1>5, <1>6, <1>7, Moves DEF IInv, TypeOK, shop

\* Looking for the default deposit, inserting it and checking the limit.
LEMMA InvReserving ==
  ASSUME IInv, NEW r \in Requests,
         FindPercent(r) \/ SeedPercent(r) \/ CheckLimit(r)
  PROVE  IInv'
<1> SUFFICES ASSUME NEW s \in {"seed", "limit", "insert"},
                    req[r].at \in Reserving,
                    Go(r, [req[r] EXCEPT !.at = s]),
                    settings' \in Nat,
                    UNCHANGED <<offer, status, deal, totalSold, proof, inbox, deaths>>
             PROVE  IInv'
  BY DEF FindPercent, SeedPercent, CheckLimit, Reserving, shop, IInv, TypeOK
<1> DEFINE x == [req[r] EXCEPT !.at = s]
<1>1. req[r] \in [at : Reserving, deal : Deal, limit : Nat]
  BY StageType DEF IInv
<1>2. x \in [at : Reserving, deal : Deal, limit : Nat] /\ x.at = s
  BY <1>1 DEF Reserving
<1> HIDE DEF x
<1>3. x \in Request
  BY <1>2 DEF Request, Reserving
<1>4. Sound(x)
  BY <1>2 DEF Sound, Holding, Reviewing
<1>5. Go(r, x)
  BY DEF x
<1> QED
  BY <1>2, <1>3, <1>4, <1>5, Moves DEF IInv, TypeOK

LEMMA InvUpdateStatusRead ==
  ASSUME IInv, NEW r \in Requests, NEW u \in Users, NEW o \in PreOrderIds,
         NEW goal \in Goals, UpdateStatusRead(r, u, o, goal)
  PROVE  IInv'
<1> DEFINE x == [at |-> "write", preOrder |-> o, goal |-> goal,
                 to |-> deal[o].buyer]
<1>1. deal[o].buyer \in Users
  BY DEF UpdateStatusRead, IInv, RowsExist, Deal
<1>2. x \in Request
  BY <1>1, PreOrdersAssumption DEF Request
<1>3. Sound(x)
  BY DEF Sound, Reviewing, UpdateStatusRead
<1> QED
  BY <1>2, <1>3, Moves DEF UpdateStatusRead, IInv, TypeOK, shop

LEMMA InvCancelByBuyerRead ==
  ASSUME IInv, NEW r \in Requests, NEW u \in Users, NEW o \in PreOrderIds,
         CancelByBuyerRead(r, u, o)
  PROVE  IInv'
<1> DEFINE x == [at |-> "write", preOrder |-> o, goal |-> "cancelled",
                 to |-> Seller(o)]
<1>1. Seller(o) \in Users
  BY PreOrdersAssumption DEF CancelByBuyerRead, IInv, RowsExist, Deal, Seller
<1>2. x \in Request
  BY <1>1 DEF Request, Goal
<1>3. Sound(x)
  BY DEF Sound, Reviewing, CancelByBuyerRead
<1> QED
  BY <1>2, <1>3, Moves DEF CancelByBuyerRead, IInv, TypeOK, shop

LEMMA InvSubmitRead ==
  ASSUME IInv, NEW r \in Requests, NEW u \in Users, NEW o \in PreOrderIds,
         SubmitRead(r, u, o)
  PROVE  IInv'
<1> DEFINE x == [at |-> "open", preOrder |-> o]
<1>1. x \in Request
  BY DEF Request
<1>2. Sound(x)
  BY DEF Sound, Reviewing, SubmitRead
<1> QED
  BY <1>1, <1>2, Moves DEF SubmitRead, IInv, TypeOK, shop

LEMMA InvVerifyRead ==
  ASSUME IInv, NEW r \in Requests, NEW s \in ProofIds, NEW v \in Verdict,
         VerifyRead(r, s, v)
  PROVE  IInv'
<1> DEFINE x == [at |-> "read", preOrder |-> proof[s].preOrder, proof |-> s,
                 verdict |-> v]
<1>1. proof[s] # Nothing /\ proof[s].preOrder \in PreOrderIds
  BY DEF VerifyRead, Pending, IInv, TypeOK, shop, Proof
<1>2. x \in Request
  BY <1>1 DEF Request
<1>3. Sound(x)
  BY <1>1 DEF Sound, IInv, RowsExist
<1> QED
  BY <1>2, <1>3, Moves DEF VerifyRead, IInv, TypeOK, shop

LEMMA InvSubmitCheckOpen ==
  ASSUME IInv, NEW r \in Requests, SubmitCheckOpen(r)
  PROVE  IInv'
<1> DEFINE x == [req[r] EXCEPT !.at = "claim"]
<1>1. req[r] \in [at : {"open", "claim"}, preOrder : PreOrderIds]
  BY StageType DEF SubmitCheckOpen, IInv
<1>2. x \in [at : {"open", "claim"}, preOrder : PreOrderIds] /\ x.at = "claim"
      /\ x.preOrder = req[r].preOrder
  BY <1>1
<1>3. Go(r, x) /\ UNCHANGED <<shop, status, deal, totalSold, proof, inbox, deaths>>
      /\ req[r].at = "open"
  BY DEF SubmitCheckOpen
<1> HIDE DEF x
<1>4. x \in Request
  BY <1>2 DEF Request
<1>5. Sound(x)
  BY <1>2, <1>3 DEF Sound, IInv, RowsExist, Holding, Reviewing
<1> QED
  BY <1>2, <1>3, <1>4, <1>5, Moves DEF IInv, TypeOK, shop

LEMMA InvVerifyReadPreOrder ==
  ASSUME IInv, NEW r \in Requests, NEW u \in Users, VerifyReadPreOrder(r, u)
  PROVE  IInv'
<1> DEFINE next == IF status[req[r].preOrder] = "awaiting_payment"
                   THEN "settle" ELSE "close"
           x == [req[r] EXCEPT !.at = next]
<1>1. req[r] \in [at : Reviewing, preOrder : PreOrderIds, proof : ProofIds,
                  verdict : Verdict]
  BY StageType DEF VerifyReadPreOrder, IInv, Reviewing
<1>2. next \in {"settle", "close"}
      /\ (next = "close" => status[req[r].preOrder] # "awaiting_payment")
  OBVIOUS
<1>3. Go(r, x) /\ UNCHANGED <<shop, status, deal, totalSold, proof, inbox, deaths>>
      /\ req[r].at = "read"
  BY DEF VerifyReadPreOrder
<1> HIDE DEF next
<1>4. x \in [at : {"settle", "close"}, preOrder : PreOrderIds, proof : ProofIds,
             verdict : Verdict]
      /\ x.at = next /\ x.preOrder = req[r].preOrder /\ x.proof = req[r].proof
  BY <1>1, <1>2
<1> HIDE DEF x
<1>5. x \in Request
  BY <1>4 DEF Request
<1>6. Sound(x)
  BY <1>2, <1>3, <1>4 DEF Sound, IInv, RowsExist, Holding, Reviewing
<1> QED
  BY <1>2, <1>3, <1>4, <1>5, <1>6, Moves DEF IInv, TypeOK, shop

LEMMA InvTellStep ==
  ASSUME IInv, NEW r \in Requests, TellStep(r)
  PROVE  IInv'
<1>1. Idle \in Request /\ Sound(Idle) /\ Idle.at = "idle"
  BY DEF Idle, Request, Sound, Holding, Reviewing
<1>2. inbox' \in SUBSET Notice
  BY StageType DEF TellStep, IInv, TypeOK, shop
<1> QED
  BY <1>1, <1>2, Moves DEF TellStep, IInv, TypeOK, shop

LEMMA InvEnds ==
  ASSUME IInv, NEW r \in Requests, GiveUp(r) \/ Die(r)
  PROVE  IInv'
<1>1. Idle \in Request /\ Sound(Idle) /\ Idle.at = "idle"
  BY DEF Idle, Request, Sound, Holding, Reviewing
<1>2. deaths' \in Nat /\ Go(r, Idle)
      /\ UNCHANGED <<shop, status, deal, totalSold, proof, inbox>>
  BY DEF GiveUp, Die, IInv, TypeOK, shop
<1> QED
  BY <1>1, <1>2, Moves DEF IInv, TypeOK, shop

-----------------------------------------------------------------------------
(* The steps that write.                                                   *)

LEMMA InvCreateInsert ==
  ASSUME IInv, NEW r \in Requests, NEW o \in PreOrderIds, CreateInsert(r, o)
  PROVE  IInv'
<1> DEFINE d == req[r].deal
           x == Tell(SellerOf[d.product], o, "pending")
<1>1. d \in Deal
  BY StageType DEF CreateInsert, IInv, Reserving
<1>2. SellerOf[d.product] \in Users
  BY <1>1, PreOrdersAssumption DEF Deal
<1>3. x \in Request /\ x.at = "tell"
  BY <1>2, TellType DEF About, PreOrderStatus
<1>4. /\ status[o] = "none"
      /\ status' = [status EXCEPT ![o] = "pending"]
      /\ deal' = [deal EXCEPT ![o] = d]
      /\ req' = [req EXCEPT ![r] = x]
      /\ UNCHANGED <<shop, totalSold, proof, inbox, deaths>>
  BY DEF CreateInsert, Go
<1> HIDE DEF x, d
<1>5. TypeOK'
  BY <1>1, <1>3, <1>4 DEF IInv, TypeOK, shop, PreOrderStatus
<1>6. \A p \in PreOrderIds : status'[p] = "none" => status[p] = "none"
  BY <1>4 DEF IInv, TypeOK, shop
<1>7. RowsExist'
  <2>1. \A p \in PreOrderIds : status'[p] # "none" => deal'[p] \in Deal
    BY <1>1, <1>4 DEF IInv, TypeOK, shop, RowsExist
  <2>2. \A s \in ProofIds :
          proof'[s] # Nothing => status'[proof'[s].preOrder] # "none"
    BY <1>4, <1>6 DEF IInv, TypeOK, shop, RowsExist, Proof
  <2>3. \A k \in Requests : Sound(req[k])'
    BY <1>3, <1>4, <1>6, Holder DEF IInv, TypeOK, shop, RowsExist, Sound, Holding, Reviewing
  <2> QED
    BY <2>1, <2>2, <2>3 DEF RowsExist
<1>8. Awaited'
  BY <1>3, <1>4 DEF IInv, TypeOK, shop, Awaited, Closing
<1> QED
  BY <1>5, <1>7, <1>8 DEF IInv

\* A write of the status alone, which leaves no pre-order waiting for a review.
LEMMA Overwrites ==
  ASSUME IInv, NEW r \in Requests, NEW o \in PreOrderIds,
         NEW goal \in PreOrderStatus \ {"awaiting_payment"},
         status' = [status EXCEPT ![o] = goal],
         NEW x \in Request, Go(r, x), status[o] # "none",
         x.at \in Holding => x.preOrder = o,
         x.at \in Reviewing => Sound(x),
         UNCHANGED <<shop, deal, totalSold, proof, inbox, deaths>>
  PROVE  IInv'
<1>1. goal # "none"
  BY DEF PreOrderStatus
<1>2. TypeOK'
  BY DEF IInv, TypeOK, shop, Go
<1>3. \A p \in PreOrderIds : status'[p] = "none" => status[p] = "none"
  BY <1>1 DEF IInv, TypeOK, shop
<1>4. RowsExist'
  <2>1. \A p \in PreOrderIds : status'[p] # "none" => deal'[p] \in Deal
    BY DEF IInv, TypeOK, shop, RowsExist
  <2>2. \A s \in ProofIds :
          proof'[s] # Nothing => status'[proof'[s].preOrder] # "none"
    BY <1>3 DEF IInv, TypeOK, shop, RowsExist, Proof
  <2>3. ASSUME NEW k \in Requests PROVE Sound(req[k])'
    <3>1. CASE k = r
      BY <1>1, <3>1 DEF Go, IInv, TypeOK, shop, Sound
    <3>2. CASE k # r
      BY <1>3, <3>2, Holder DEF Go, IInv, TypeOK, shop, RowsExist, Sound
    <3> QED
      BY <3>1, <3>2
  <2> QED
    BY <2>1, <2>2, <2>3 DEF RowsExist
<1>5. Awaited'
  <2> SUFFICES ASSUME NEW p \in PreOrderIds, status'[p] = "awaiting_payment"
               PROVE  \E s \in ProofIds : /\ proof[s] # Nothing
                                          /\ proof[s].preOrder = p
                                          /\ proof[s].status = "pending"
                                          /\ ~Closing(s)'
    BY DEF Awaited
  <2>1. p # o /\ status[p] = "awaiting_payment"
    BY DEF IInv, TypeOK, shop
  <2>2. PICK s \in ProofIds : /\ proof[s] # Nothing
                              /\ proof[s].preOrder = p
                              /\ proof[s].status = "pending"
                              /\ ~Closing(s)
    BY <2>1 DEF IInv, Awaited
  <2>3. ~(x.at = "close" /\ x.proof = s)
    BY <2>1, <2>2 DEF Sound, Reviewing, Holding
  <2>4. ~Closing(s)'
    BY <2>2, <2>3 DEF Closing, Go, IInv, TypeOK, shop
  <2> QED
    BY <2>2, <2>4
<1> QED
  BY <1>2, <1>4, <1>5 DEF IInv

LEMMA InvWrite ==
  ASSUME IInv, NEW r \in Requests, Write(r)
  PROVE  IInv'
<1> DEFINE q == req[r]
           c == [at |-> "count", preOrder |-> q.preOrder, to |-> q.to]
           t == Tell(q.to, q.preOrder, q.goal)
<1>1. q \in [at : {"write"}, preOrder : PreOrderIds, goal : Goal, to : Users]
  BY StageType DEF Write, IInv
<1>2. c \in Request /\ c.at = "count" /\ c.preOrder = q.preOrder
  BY <1>1 DEF Request
<1>3. q.goal \in PreOrderStatus \ {"awaiting_payment"}
  BY <1>1 DEF Goal, PreOrderStatus
<1>4. t \in Request /\ t.at = "tell"
  BY <1>1, <1>3, TellType DEF About
<1>5. status[q.preOrder] # "none"
  BY DEF Write, IInv, RowsExist, Sound, Holding
<1>6. /\ Go(r, c) \/ Go(r, t)
      /\ status' = [status EXCEPT ![q.preOrder] = q.goal]
      /\ UNCHANGED <<shop, deal, totalSold, proof, inbox, deaths>>
  BY DEF Write
<1>7. q.preOrder \in PreOrderIds
  BY <1>1
<1> HIDE DEF q, c, t
<1>8. c.at \notin Reviewing /\ t.at \notin Holding /\ t.at \notin Reviewing
  BY <1>2, <1>4 DEF Holding, Reviewing
<1> QED
  BY <1>2, <1>3, <1>4, <1>5, <1>6, <1>7, <1>8, Overwrites

LEMMA InvVerifySettle ==
  ASSUME IInv, NEW r \in Requests, VerifySettle(r)
  PROVE  IInv'
<1> DEFINE o == req[r].preOrder
           x == [req[r] EXCEPT !.at = "close"]
<1>1. req[r] \in [at : Reviewing, preOrder : PreOrderIds, proof : ProofIds,
                  verdict : Verdict]
  BY StageType DEF VerifySettle, IInv, Reviewing
<1>2. Settled(req[r].verdict) \in PreOrderStatus \ {"awaiting_payment"}
  BY DEF Settled, PreOrderStatus
<1>3. x \in [at : {"close"}, preOrder : PreOrderIds, proof : ProofIds,
             verdict : Verdict]
      /\ x.preOrder = o /\ x.proof = req[r].proof
  BY <1>1
<1>4. Go(r, x) /\ status' = [status EXCEPT ![o] = Settled(req[r].verdict)]
      /\ UNCHANGED <<shop, deal, totalSold, proof, inbox, deaths>>
      /\ req[r].at = "settle"
  BY DEF VerifySettle
<1>5. status[o] # "none" /\ o \in PreOrderIds
  BY <1>1, <1>4 DEF IInv, RowsExist, Sound, Holding
<1>6. proof[req[r].proof] # Nothing /\ proof[req[r].proof].preOrder = o
  BY <1>4 DEF IInv, RowsExist, Sound, Reviewing
<1> HIDE DEF x, o
<1>7. x \in Request /\ Sound(x)
  BY <1>3, <1>5, <1>6 DEF Request, Sound
<1> QED
  BY <1>2, <1>3, <1>4, <1>5, <1>7, Overwrites

LEMMA InvCount ==
  ASSUME IInv, NEW r \in Requests, Count(r)
  PROVE  IInv'
<1> DEFINE q == req[r]
           d == deal[q.preOrder]
           x == Tell(q.to, q.preOrder, "fulfilled")
<1>1. q \in [at : {"count"}, preOrder : PreOrderIds, to : Users]
  BY StageType DEF Count, IInv
<1>2. d \in Deal
  BY <1>1 DEF Count, IInv, RowsExist, Sound, Holding
<1>3. d.quantity \in Nat /\ d.product \in Products
  BY <1>2 DEF Deal
<1>4. totalSold' = [totalSold EXCEPT ![d.product] = @ + d.quantity]
      /\ Go(r, x) /\ UNCHANGED <<shop, status, deal, proof, inbox, deaths>>
  BY DEF Count, Sold
<1>5. x \in Request /\ x.at = "tell"
  BY <1>1, TellType DEF About, PreOrderStatus
<1> HIDE DEF x, d, q
<1>6. totalSold' \in [Products -> Nat]
  BY <1>3, <1>4 DEF IInv, TypeOK, shop
<1>7. TypeOK'
  BY <1>4, <1>5, <1>6 DEF IInv, TypeOK, shop, Go
<1>8. RowsExist'
  BY <1>4, <1>5 DEF IInv, TypeOK, shop, RowsExist, Sound, Go, Holding, Reviewing
<1>9. Awaited'
  BY <1>4, <1>5 DEF IInv, TypeOK, shop, Awaited, Closing, Go
<1> QED
  BY <1>7, <1>8, <1>9 DEF IInv

\* The new proof is one no request is about to close.
LEMMA InvSubmitCommit ==
  ASSUME IInv, NEW r \in Requests, NEW s \in ProofIds, SubmitCommit(r, s)
  PROVE  IInv'
<1> DEFINE o == req[r].preOrder
           n == [preOrder |-> o, status |-> "pending"]
           x == Tell(Seller(o), o, "submitted")
<1>1. o \in PreOrderIds
  BY Holder DEF SubmitCommit, IInv, Holding
<1>2. /\ proof[s] = Nothing
      /\ status[o] = "pending"
      /\ status' = [status EXCEPT ![o] = "awaiting_payment"]
      /\ proof' = [proof EXCEPT ![s] = n]
      /\ req' = [req EXCEPT ![r] = x]
      /\ UNCHANGED <<shop, deal, totalSold, inbox, deaths>>
  BY DEF SubmitCommit, Go
<1>3. Seller(o) \in Users
  BY <1>1, <1>2, PreOrdersAssumption DEF Seller, IInv, RowsExist, Deal
<1>4. x \in Request /\ x.at = "tell"
  BY <1>1, <1>3, TellType DEF About
<1>5. n \in Proof /\ n.preOrder = o /\ n.status = "pending" /\ n # Nothing
  BY <1>1, PreOrdersAssumption DEF Proof
<1> HIDE DEF o, n, x
<1>6. TypeOK'
  BY <1>1, <1>2, <1>4, <1>5 DEF IInv, TypeOK, shop, PreOrderStatus
<1>7. \A p \in PreOrderIds : status'[p] = "none" => status[p] = "none"
  BY <1>2 DEF IInv, TypeOK, shop
<1>8. ASSUME NEW k \in Requests, k # r, req[k].at \in Reviewing
      PROVE  req[k].proof # s /\ req[k].proof \in ProofIds
  BY <1>2, <1>8, StageType DEF IInv, RowsExist, Sound
<1>9. RowsExist'
  <2>1. \A p \in PreOrderIds : status'[p] # "none" => deal'[p] \in Deal
    BY <1>2 DEF IInv, TypeOK, shop, RowsExist
  <2>2. \A t \in ProofIds :
          proof'[t] # Nothing => status'[proof'[t].preOrder] # "none"
    BY <1>1, <1>2, <1>5, <1>7 DEF IInv, TypeOK, shop, RowsExist, Proof
  <2>3. ASSUME NEW k \in Requests PROVE Sound(req[k])'
    <3>1. CASE k = r
      BY <1>2, <1>4, <3>1 DEF IInv, TypeOK, shop, Sound, Holding, Reviewing
    <3>2. CASE k # r
      BY <1>2, <1>7, <1>8, <3>2, Holder DEF IInv, TypeOK, shop, RowsExist, Sound
    <3> QED
      BY <3>1, <3>2
  <2> QED
    BY <2>1, <2>2, <2>3 DEF RowsExist
<1>10. Awaited'
  <2> SUFFICES ASSUME NEW p \in PreOrderIds, status'[p] = "awaiting_payment"
               PROVE  \E t \in ProofIds : /\ proof'[t] # Nothing
                                          /\ proof'[t].preOrder = p
                                          /\ proof'[t].status = "pending"
                                          /\ ~Closing(t)'
    BY DEF Awaited
  <2>1. CASE p = o
    <3>1. proof'[s] = n
      BY <1>2 DEF IInv, TypeOK, shop
    <3>2. ~Closing(s)'
      BY <1>2, <1>4, <1>8 DEF Closing, IInv, TypeOK, shop, Reviewing
    <3> QED
      BY <1>5, <2>1, <3>1, <3>2
  <2>2. CASE p # o
    <3>1. PICK t \in ProofIds : /\ proof[t] # Nothing
                                /\ proof[t].preOrder = p
                                /\ proof[t].status = "pending"
                                /\ ~Closing(t)
      BY <1>2, <2>2 DEF IInv, TypeOK, shop, Awaited
    <3>2. proof'[t] = proof[t]
      BY <1>2, <3>1 DEF IInv, TypeOK, shop
    <3>3. ~Closing(t)'
      BY <1>2, <1>4, <3>1 DEF Closing, IInv, TypeOK, shop
    <3> QED
      BY <3>1, <3>2, <3>3
  <2> QED
    BY <2>1, <2>2
<1> QED
  BY <1>6, <1>9, <1>10 DEF IInv

LEMMA InvVerifyClose ==
  ASSUME IInv, NEW r \in Requests, VerifyClose(r)
  PROVE  IInv'
<1> DEFINE q == req[r]
           s == q.proof
           n == [proof[s] EXCEPT !.status = q.verdict]
           x == Tell(deal[q.preOrder].buyer, q.preOrder, q.verdict)
<1>1. q.at = "close" /\ q.preOrder \in PreOrderIds /\ s \in ProofIds
      /\ q.verdict \in Verdict
  BY StageType DEF VerifyClose, IInv, Reviewing
<1>2. /\ proof' = [proof EXCEPT ![s] = n]
      /\ req' = [req EXCEPT ![r] = x]
      /\ UNCHANGED <<shop, status, deal, totalSold, inbox, deaths>>
  BY DEF VerifyClose, Go
<1>3. /\ status[q.preOrder] # "none"
      /\ proof[s] \in Proof
      /\ proof[s].preOrder = q.preOrder
  BY <1>1 DEF IInv, TypeOK, shop, RowsExist, Sound, Holding, Reviewing
<1>4. deal[q.preOrder].buyer \in Users
  BY <1>1, <1>3 DEF IInv, RowsExist, Deal
<1>5. x \in Request /\ x.at = "tell"
  BY <1>1, <1>4, TellType DEF About
<1>6. n \in Proof /\ n.preOrder = q.preOrder
  BY <1>1, <1>3 DEF Proof, Verdict
<1>7. Closing(s)
  BY <1>1 DEF Closing
<1> HIDE DEF q, s, n, x
<1>8. TypeOK'
  BY <1>1, <1>2, <1>5, <1>6 DEF IInv, TypeOK, shop
<1>9. n # Nothing
  BY <1>6, PreOrdersAssumption
<1>10. RowsExist'
  <2>1. \A p \in PreOrderIds : status'[p] # "none" => deal'[p] \in Deal
    BY <1>2 DEF IInv, RowsExist
  <2>2. \A t \in ProofIds :
          proof'[t] # Nothing => status'[proof'[t].preOrder] # "none"
    BY <1>2, <1>3, <1>6 DEF IInv, TypeOK, shop, RowsExist
  <2>3. ASSUME NEW k \in Requests PROVE Sound(req[k])'
    <3>1. CASE k = r
      BY <1>2, <1>5, <3>1 DEF IInv, TypeOK, shop, Sound, Holding, Reviewing
    <3>2. CASE k # r
      BY <1>2, <1>3, <1>6, <1>9, <3>2 DEF IInv, TypeOK, shop, RowsExist, Sound
    <3> QED
      BY <3>1, <3>2
  <2> QED
    BY <2>1, <2>2, <2>3 DEF RowsExist
<1>11. Awaited'
  <2> SUFFICES ASSUME NEW p \in PreOrderIds, status[p] = "awaiting_payment"
               PROVE  \E t \in ProofIds : /\ proof'[t] # Nothing
                                          /\ proof'[t].preOrder = p
                                          /\ proof'[t].status = "pending"
                                          /\ ~Closing(t)'
    BY <1>2 DEF Awaited
  <2>1. PICK t \in ProofIds : /\ proof[t] # Nothing
                              /\ proof[t].preOrder = p
                              /\ proof[t].status = "pending"
                              /\ ~Closing(t)
    BY DEF IInv, Awaited
  <2>2. t # s
    BY <1>7, <2>1
  <2>3. proof'[t] = proof[t]
    BY <1>2, <2>1, <2>2 DEF IInv, TypeOK, shop
  <2>4. ~Closing(t)'
    BY <1>2, <1>5, <2>1 DEF Closing, IInv, TypeOK, shop
  <2> QED
    BY <2>1, <2>3, <2>4
<1> QED
  BY <1>8, <1>10, <1>11 DEF IInv

LEMMA InvNext == IInv /\ [Next]_vars => IInv'
<1> SUFFICES ASSUME IInv, [Next]_vars PROVE IInv'
  OBVIOUS
<1>1. CASE UNCHANGED vars
  BY <1>1 DEF vars, IInv, TypeOK, shop, RowsExist, Sound, Awaited, Closing
<1>2. ASSUME NEW r \in Requests, Begin(r) PROVE IInv'
  BY <1>2, InvUpdateOfferRead, InvSettings, InvCreateRead, InvUpdateStatusRead,
     InvCancelByBuyerRead, InvSubmitRead, InvVerifyRead DEF Begin
<1>3. ASSUME NEW r \in Requests, Step(r) PROVE IInv'
  BY <1>3, InvUpdateOfferWrite, InvSettings, InvReserving, InvCreateInsert,
     InvWrite, InvCount, InvSubmitCheckOpen,
     InvSubmitCommit, InvVerifyReadPreOrder, InvVerifySettle, InvVerifyClose,
     InvTellStep DEF Step
<1> QED
  BY <1>1, <1>2, <1>3, InvEnds DEF Next

LEMMA Inv == Spec => []IInv
<1>1. Init => IInv
  BY InvInit
<1>2. IInv /\ [Next]_vars => IInv'
  BY InvNext
<1> QED
  BY <1>1, <1>2, PTL DEF Spec

-----------------------------------------------------------------------------

\* Every row and every request keeps its type, whatever requests overlap: no
\* step reads a row that does not exist.
THEOREM TypeCorrect == Spec => []TypeOK
<1>1. IInv => TypeOK
  BY DEF IInv
<1> QED
  BY <1>1, Inv, PTL

\* However the submissions, reviews, status changes and cancellations of
\* pre-orders overlap, and wherever one dies, a pre-order in awaiting_payment
\* has a proof that can still be reviewed: it is never stuck there.
THEOREM NeverStuck == Spec => []AwaitingHasProof
<1>1. IInv => AwaitingHasProof
  BY DEF IInv, Awaited, AwaitingHasProof, ProofsOf, Pending
<1> QED
  BY <1>1, Inv, PTL

\* The same for the requests served one at a time.
COROLLARY SerialNeverStuck == SerialSpec => []AwaitingHasProof
<1>1. SerialSpec => Spec
  <2>1. [Next /\ OneAtATime']_vars => [Next]_vars
    OBVIOUS
  <2> QED
    BY <2>1, PTL DEF SerialSpec, Spec
<1> QED
  BY <1>1, NeverStuck, PTL
-----------------------------------------------------------------------------
(* The deposit, with the requests on one pre-order one at a time.          *)

\* What a request has read is still so.
Right(x) ==
  /\ x.at = "write"  => <<status[x.preOrder], x.goal>> \in PRE_ORDER_TRANSITIONS
  /\ x.at = "settle" => status[x.preOrder] = "awaiting_payment"
  /\ x.at \in Reviewing => proof[x.proof].status = "pending"

AloneOnPreOrder ==
  \A r, t \in Requests : r # t =>
    \A o \in PreOrderIds : ~(Holds(r, o) /\ Holds(t, o))

\* One review is open, and one that is accepted has confirmed its pre-order.
OneReview ==
  deaths = 0 =>
    /\ \A s, t \in ProofIds :
         Pending(s) /\ Pending(t) /\ proof[s].preOrder = proof[t].preOrder => s = t
    /\ \A r \in Requests :
         req[r].at = "close" /\ req[r].verdict = "verified" =>
           status[req[r].preOrder] \in Goal

Agreed ==
  /\ AloneOnPreOrder /\ OneReview /\ DepositDecides
  /\ \A r \in Requests : Right(req[r])

\* The rest of the requests stay where they are.
OthersStay(r) == \A t \in Requests \ {r} : req'[t] = req[t]

LEMMA GoLeavesOthers ==
  ASSUME TypeOK, NEW r \in Requests, NEW x, Go(r, x)
  PROVE  OthersStay(r) /\ req'[r] = x
  BY DEF TypeOK, Go, OthersStay

LEMMA AloneNext == OneAtATime' => AloneOnPreOrder'
  BY DEF OneAtATime, AloneOnPreOrder

LEMMA HoldsItself ==
  ASSUME IInv, NEW r \in Requests, req[r].at \in Holding
  PROVE  req[r].preOrder \in PreOrderIds /\ Holds(r, req[r].preOrder)
  BY Holder DEF IInv, Holds, Holding

\* Whoever works on a pre-order that awaits no review, but to close one, finds no
\* open proof of it.
LEMMA NoneOpen ==
  ASSUME IInv, Agreed, deaths = 0, NEW r \in Requests, NEW o \in PreOrderIds,
         Holds(r, o), req[r].at # "close", status[o] # "awaiting_payment",
         NEW s \in ProofIds, Pending(s), proof[s].preOrder = o
  PROVE  FALSE
<1>1. PICK t \in Requests : req[t].at = "close" /\ req[t].proof = s
  BY DEF Agreed, DepositDecides, Pending
<1>2. req[t].preOrder = o
  BY <1>1 DEF IInv, RowsExist, Sound, Reviewing
<1>3. Holds(t, o)
  BY <1>1, <1>2 DEF Holds
<1> QED
  BY <1>1, <1>3 DEF Agreed, AloneOnPreOrder

\* A step that writes neither a status nor a proof, and closes none.
LEMMA AgreedMoves ==
  ASSUME IInv, Agreed, AloneOnPreOrder', NEW r \in Requests, OthersStay(r),
         Right(req[r])', UNCHANGED <<status, proof>>,
         deaths' = 0 =>
           /\ deaths = 0
           /\ req[r].at # "close"
           /\ (req[r].at = "close" /\ req[r].verdict = "verified")'
                => status[req'[r].preOrder] \in Goal
  PROVE  Agreed'
<1>1. \A t \in Requests : Right(req[t])'
  BY DEF Agreed, Right, OthersStay
<1>2. OneReview'
  BY DEF Agreed, OneReview, OthersStay, Pending
<1>3. DepositDecides'
  <2> SUFFICES ASSUME deaths' = 0, NEW s \in ProofIds, proof[s] # Nothing
      PROVE /\ proof[s].status = "verified"
                 => status[proof[s].preOrder] \in {"confirmed", "fulfilled", "cancelled"}
            /\ Pending(s) => \/ status[proof[s].preOrder] = "awaiting_payment"
                             \/ \E t \in Requests : req'[t].at = "close"
                                                    /\ req'[t].proof = s
    BY DEF DepositDecides, Pending
  <2>1. \A t \in Requests : req[t].at = "close" => req'[t] = req[t]
    BY DEF OthersStay
  <2> QED
    BY <2>1 DEF Agreed, DepositDecides
<1> QED
  BY <1>1, <1>2, <1>3 DEF Agreed

\* The holder of a pre-order, or its creator, writes its status.
LEMMA AgreedStatus ==
  ASSUME IInv, Agreed, AloneOnPreOrder', NEW r \in Requests, OthersStay(r),
         NEW o \in PreOrderIds, Holds(r, o) \/ status[o] = "none",
         req[r].at # "close",
         NEW g \in PreOrderStatus, status' = [status EXCEPT ![o] = g],
         UNCHANGED <<proof, deaths>>,
         Right(req[r])',
         req'[r].at = "close" => req'[r].preOrder = o,
         deaths = 0 =>
           /\ req'[r].at = "close" /\ req'[r].verdict = "verified" => g \in Goal
           /\ \A s \in ProofsOf(o) :
                /\ proof[s].status = "verified" => g \in Goal
                /\ Pending(s) => req'[r].at = "close" /\ req'[r].proof = s
  PROVE  Agreed'
<1>1. status \in [PreOrderIds -> PreOrderStatus \cup {"none"}]
  BY DEF IInv, TypeOK
<1>2. ASSUME NEW t \in Requests \ {r}, req[t].at \in Holding
      PROVE  req[t].preOrder # o /\ req[t].preOrder \in PreOrderIds
  <2>1. req[t].preOrder \in PreOrderIds /\ Holds(t, req[t].preOrder)
    BY <1>2, HoldsItself
  <2>2. CASE Holds(r, o)
    BY <2>1, <2>2 DEF Agreed, AloneOnPreOrder
  <2>3. CASE status[o] = "none"
    BY <1>2, <2>1, <2>3 DEF IInv, RowsExist, Sound
  <2> QED
    BY <2>1, <2>2, <2>3
<1>3. \A t \in Requests : Right(req[t])'
  <2>1. ASSUME NEW t \in Requests \ {r}  PROVE Right(req[t])'
    BY <1>1, <1>2, <2>1 DEF Agreed, Right, OthersStay, Holding, Reviewing
  <2> QED
    BY <2>1
<1>4. status'[o] = g /\ \A p \in PreOrderIds \ {o} : status'[p] = status[p]
  BY <1>1
<1>5. OneReview'
  <2>1. ASSUME deaths = 0, NEW t \in Requests,
               req'[t].at = "close", req'[t].verdict = "verified"
        PROVE  status'[req'[t].preOrder] \in Goal
    <3>1. CASE t = r
      BY <1>4, <2>1, <3>1
    <3>2. CASE t # r
      BY <1>2, <1>4, <2>1, <3>2 DEF Agreed, OneReview, OthersStay, Holding
    <3> QED
      BY <3>1, <3>2
  <2> QED
    BY <2>1 DEF Agreed, OneReview, Pending
<1>6. DepositDecides'
  <2> SUFFICES ASSUME deaths = 0, NEW s \in ProofIds, proof[s] # Nothing
      PROVE /\ proof[s].status = "verified"
                 => status'[proof[s].preOrder] \in {"confirmed", "fulfilled", "cancelled"}
            /\ Pending(s) => \/ status'[proof[s].preOrder] = "awaiting_payment"
                             \/ \E t \in Requests : req'[t].at = "close"
                                                    /\ req'[t].proof = s
    BY DEF DepositDecides, Pending
  <2>1. CASE proof[s].preOrder = o
    BY <1>4, <2>1 DEF ProofsOf, Goal
  <2>2. CASE proof[s].preOrder # o
    <3>1. proof[s].preOrder \in PreOrderIds
      BY DEF IInv, TypeOK, Proof
    <3>2. \A t \in Requests : req[t].at = "close" => req'[t] = req[t]
      BY DEF OthersStay
    <3> QED
      BY <1>4, <2>2, <3>1, <3>2 DEF Agreed, DepositDecides
  <2> QED
    BY <2>1, <2>2
<1> QED
  BY <1>3, <1>5, <1>6 DEF Agreed
\* ... and leaves a request that has read nothing it will go by.
LEMMA AgreedLight ==
  ASSUME IInv, Agreed, AloneOnPreOrder', NEW r \in Requests, NEW x, Go(r, x),
         x.at \notin {"write", "read", "settle", "close"},
         UNCHANGED <<status, proof>>,
         deaths' = 0 => deaths = 0 /\ req[r].at # "close"
  PROVE  Agreed'
<1>1. OthersStay(r) /\ req'[r] = x
  BY GoLeavesOthers DEF IInv
<1>2. Right(req[r])'
  BY <1>1 DEF Right, Reviewing
<1> QED
  BY <1>1, <1>2, AgreedMoves

\* The pre-order, or the proof, is as it is read.
LEMMA AgreedBegin ==
  ASSUME IInv, Agreed, AloneOnPreOrder', NEW r \in Requests, Begin(r)
  PROVE  Agreed'
<1>1. UNCHANGED <<status, proof, deaths>> /\ req[r].at = "idle"
  <2>1. UNCHANGED <<shop, status, deal, totalSold, proof, inbox, deaths>>
    BY DEF Begin, UpdateOfferRead, SettingsRead, CreateRead, UpdateStatusRead,
       CancelByBuyerRead, SubmitRead, VerifyRead
  <2>2. req[r] = Idle
    BY Zenon DEF Begin, UpdateOfferRead, SettingsRead, CreateRead,
       UpdateStatusRead, CancelByBuyerRead, SubmitRead, VerifyRead
  <2> QED
    BY <2>1, <2>2 DEF Idle
<1>2. ASSUME NEW x, Go(r, x),
             \/ /\ x.at = "write"
                /\ <<status[x.preOrder], x.goal>> \in PRE_ORDER_TRANSITIONS
             \/ x.at = "read" /\ proof[x.proof].status = "pending"
             \/ x.at \in {"offer", "first", "percent", "limit", "open"}
      PROVE  Agreed'
  <2>1. OthersStay(r) /\ req'[r] = x
    BY <1>2, GoLeavesOthers DEF IInv
  <2>2. Right(req[r])'
    BY <1>1, <1>2, <2>1 DEF Right, Reviewing
  <2> QED
    BY <1>1, <1>2, <2>1, <2>2, AgreedMoves
<1>3. ASSUME NEW u \in Users, NEW o \in PreOrderIds, NEW goal \in Goals,
             UpdateStatusRead(r, u, o, goal)
      PROVE  Agreed'
  BY <1>2, <1>3 DEF UpdateStatusRead
<1>4. ASSUME NEW u \in Users, NEW o \in PreOrderIds, CancelByBuyerRead(r, u, o)
      PROVE  Agreed'
  <2>1. <<status[o], "cancelled">> \in PRE_ORDER_TRANSITIONS
    BY <1>4 DEF CancelByBuyerRead, PRE_ORDER_TRANSITIONS
  <2> QED
    BY <1>2, <1>4, <2>1 DEF CancelByBuyerRead
<1>5. ASSUME NEW u \in Users, NEW o \in PreOrderIds, SubmitRead(r, u, o)
      PROVE  Agreed'
  BY <1>2, <1>5 DEF SubmitRead
<1>6. ASSUME NEW s \in ProofIds, NEW v \in Verdict, VerifyRead(r, s, v)
      PROVE  Agreed'
  BY <1>2, <1>6 DEF VerifyRead, Pending
<1>7. ASSUME NEW u \in Users, NEW p \in Products, NEW n \in Quantities,
             CreateRead(r, u, p, n)
      PROVE  Agreed'
  <2>1. PICK x : Go(r, x) /\ x.at \in {"percent", "limit"}
    BY <1>7 DEF CreateRead
  <2> QED
    BY <1>2, <2>1
<1>8. ASSUME NEW p \in Products, NEW columns \in Sent, NEW sent \in Offers[p],
             UpdateOfferRead(r, p, sent, columns)
      PROVE  Agreed'
  <2>1. PICK x : Go(r, x) /\ x.at = "offer"
    BY <1>8 DEF UpdateOfferRead
  <2> QED
    BY <1>2, <2>1
<1>9. CASE SettingsRead(r)
  BY <1>2, <1>9 DEF SettingsRead
<1> QED
  BY <1>3, <1>4, <1>5, <1>6, <1>7, <1>8, <1>9 DEF Begin

LEMMA AgreedOther ==
  ASSUME IInv, Agreed, AloneOnPreOrder', NEW r \in Requests,
         \/ UpdateOfferWrite(r) \/ SettingsInsert(r) \/ FindPercent(r)
         \/ SeedPercent(r) \/ CheckLimit(r) \/ Count(r) \/ SubmitCheckOpen(r)
         \/ TellStep(r) \/ GiveUp(r) \/ Die(r)
  PROVE  Agreed'
<1>1. CASE FindPercent(r) \/ SeedPercent(r) \/ CheckLimit(r)
  <2>1. req[r].at \in Reserving
    BY <1>1 DEF FindPercent, SeedPercent, CheckLimit, Reserving
  <2>2. req[r] \in [at : Reserving, deal : Deal, limit : Nat]
    BY <2>1, StageType DEF IInv
  <2>3. PICK a \in {"limit", "seed", "insert"} : Go(r, [req[r] EXCEPT !.at = a])
    BY <1>1 DEF FindPercent, SeedPercent, CheckLimit
  <2>4. PICK x : Go(r, x) /\ x.at \in {"limit", "seed", "insert"}
    BY <2>2, <2>3
  <2>5. UNCHANGED <<status, proof, deaths>>
    BY <1>1 DEF FindPercent, SeedPercent, CheckLimit
  <2> QED
    BY <2>1, <2>4, <2>5, AgreedLight DEF Reserving
<1>2. CASE SubmitCheckOpen(r)
  <2>1. req[r] \in [at : {"open", "claim"}, preOrder : PreOrderIds]
    BY <1>2, StageType DEF IInv, SubmitCheckOpen
  <2>2. [req[r] EXCEPT !.at = "claim"].at = "claim"
    BY <2>1
  <2> QED
    BY <1>2, <2>2, AgreedLight DEF SubmitCheckOpen
<1>3. CASE Count(r)
  BY <1>3, AgreedLight DEF Count, Tell
<1>4. CASE UpdateOfferWrite(r) \/ SettingsInsert(r) \/ TellStep(r) \/ GiveUp(r)
  BY <1>4, AgreedLight
     DEF UpdateOfferWrite, SettingsInsert, TellStep, GiveUp, Idle
<1>5. CASE Die(r)
  <2>1. deaths' # 0
    BY <1>5 DEF Die, IInv, TypeOK
  <2> QED
    BY <1>5, <2>1, AgreedLight DEF Die, Idle
<1> QED
  BY <1>1, <1>2, <1>3, <1>4, <1>5

\* The verdict is left to be closed.
LEMMA AgreedReadPreOrder ==
  ASSUME IInv, Agreed, AloneOnPreOrder', NEW r \in Requests, NEW u \in Users,
         VerifyReadPreOrder(r, u)
  PROVE  Agreed'
<1>1. PICK o \in PreOrderIds, s \in ProofIds :
        o = req[r].preOrder /\ s = req[r].proof
  BY StageType DEF VerifyReadPreOrder, IInv, Reviewing
<1>2. PICK a \in {"settle", "close"} :
        /\ a = IF status[o] = "awaiting_payment" THEN "settle" ELSE "close"
        /\ Go(r, [req[r] EXCEPT !.at = a])
  BY <1>1 DEF VerifyReadPreOrder
<1>3. req[r] \in [at : Reviewing, preOrder : PreOrderIds, proof : ProofIds,
                  verdict : Verdict]
  BY StageType DEF VerifyReadPreOrder, IInv, Reviewing
<1>4. /\ OthersStay(r) /\ req'[r].at = a /\ req'[r].preOrder = o
      /\ req'[r].proof = s
  BY <1>1, <1>2, <1>3, GoLeavesOthers DEF IInv
<1>5. /\ req[r].at = "read" /\ UNCHANGED <<status, proof, deaths>>
      /\ proof[s].status = "pending" /\ proof[s].preOrder = o /\ proof[s] # Nothing
  BY <1>1 DEF VerifyReadPreOrder, Agreed, Right, IInv, RowsExist, Sound, Reviewing
<1>6. Right(req[r])'
  BY <1>2, <1>4, <1>5 DEF Right, Reviewing
<1>7. deaths = 0 => a = "settle"
  BY <1>1, <1>2, <1>5, NoneOpen DEF Holds, Pending
<1> QED
  BY <1>4, <1>5, <1>6, <1>7, AgreedMoves

\* A pre-order is inserted, and no proof is of it yet.
LEMMA AgreedInsert ==
  ASSUME IInv, Agreed, AloneOnPreOrder', NEW r \in Requests, NEW o \in PreOrderIds,
         CreateInsert(r, o)
  PROVE  Agreed'
<1>1. /\ OthersStay(r) /\ req'[r].at = "tell"
      /\ status[o] = "none" /\ req[r].at = "insert"
      /\ status' = [status EXCEPT ![o] = "pending"] /\ UNCHANGED <<proof, deaths>>
  BY GoLeavesOthers DEF CreateInsert, Tell, IInv
<1>2. ProofsOf(o) = {}
  BY <1>1 DEF ProofsOf, IInv, RowsExist
<1>3. Right(req[r])'
  BY <1>1 DEF Right, Reviewing
<1> QED
  BY <1>1, <1>2, <1>3, AgreedStatus DEF PreOrderStatus

LEMMA AgreedWrite ==
  ASSUME IInv, Agreed, AloneOnPreOrder', NEW r \in Requests, Write(r)
  PROVE  Agreed'
<1>1. PICK o \in PreOrderIds, g \in Goal : o = req[r].preOrder /\ g = req[r].goal
  BY StageType DEF Write, IInv
<1>2. /\ OthersStay(r) /\ req'[r].at \in {"tell", "count"}
      /\ status' = [status EXCEPT ![o] = g] /\ UNCHANGED <<proof, deaths>>
      /\ req[r].at = "write" /\ Holds(r, o)
  BY <1>1, GoLeavesOthers DEF Write, Tell, IInv, Holds
<1>3. status[o] # "awaiting_payment"
  BY <1>1, <1>2 DEF Agreed, Right, PRE_ORDER_TRANSITIONS
<1>4. Right(req[r])'
  BY <1>2 DEF Right, Reviewing
<1>5. deaths = 0 => \A s \in ProofsOf(o) : ~Pending(s)
  BY <1>2, <1>3, NoneOpen DEF ProofsOf
<1> QED
  BY <1>2, <1>4, <1>5, AgreedStatus DEF PreOrderStatus, Goal

LEMMA AgreedSettle ==
  ASSUME IInv, Agreed, AloneOnPreOrder', NEW r \in Requests, VerifySettle(r)
  PROVE  Agreed'
<1>1. PICK o \in PreOrderIds, s \in ProofIds, v \in Verdict :
        o = req[r].preOrder /\ s = req[r].proof /\ v = req[r].verdict
  BY StageType DEF VerifySettle, IInv, Reviewing
<1>2. req[r] \in [at : Reviewing, preOrder : PreOrderIds, proof : ProofIds,
                  verdict : Verdict]
  BY StageType DEF VerifySettle, IInv, Reviewing
<1>3. /\ OthersStay(r) /\ req'[r].at = "close" /\ req'[r].preOrder = o
      /\ req'[r].proof = s /\ req'[r].verdict = v
  BY <1>1, <1>2, GoLeavesOthers DEF VerifySettle, IInv
<1>4. /\ status' = [status EXCEPT ![o] = Settled(v)] /\ UNCHANGED <<proof, deaths>>
      /\ req[r].at = "settle" /\ Holds(r, o)
  BY <1>1 DEF VerifySettle, Holds
<1>5. /\ status[o] = "awaiting_payment" /\ Pending(s) /\ proof[s].preOrder = o
  BY <1>1, <1>4 DEF Agreed, Right, Reviewing, Pending, IInv, RowsExist, Sound
<1>6. Right(req[r])'
  BY <1>3, <1>4, <1>5 DEF Right, Reviewing, Pending
<1>7. ASSUME deaths = 0, NEW t \in ProofsOf(o)
      PROVE  proof[t].status # "verified" /\ (Pending(t) => t = s)
  BY <1>5, <1>7 DEF ProofsOf, Agreed, DepositDecides, OneReview
<1>8. Settled(v) \in PreOrderStatus /\ (v = "verified" => Settled(v) \in Goal)
  BY DEF Settled, PreOrderStatus, Goal
<1> QED
  BY <1>3, <1>4, <1>6, <1>7, <1>8, AgreedStatus

\* A request that works on another pre-order has what it read before.
LEMMA RightElsewhere ==
  ASSUME IInv, Agreed, NEW r \in Requests, NEW o \in PreOrderIds, Holds(r, o),
         OthersStay(r),
         \A p \in PreOrderIds \ {o} : status'[p] = status[p],
         \A s \in ProofIds : proof[s] # Nothing /\ proof[s].preOrder # o
                               => proof'[s] = proof[s],
         Right(req[r])'
  PROVE  \A t \in Requests : Right(req[t])'
<1>1. ASSUME NEW t \in Requests \ {r}  PROVE Right(req[t])'
  <2>1. CASE req[t].at \in Holding
    <3>1. req[t].preOrder \in PreOrderIds \ {o}
      BY <2>1, HoldsItself DEF Agreed, AloneOnPreOrder
    <3>2. req[t].at \in Reviewing =>
            /\ req[t].proof \in ProofIds /\ proof[req[t].proof] # Nothing
            /\ proof[req[t].proof].preOrder # o
      BY <3>1, StageType DEF IInv, RowsExist, Sound
    <3> QED
      BY <3>1, <3>2 DEF Agreed, Right, OthersStay
  <2>2. CASE req[t].at \notin Holding
    BY <2>2 DEF Right, OthersStay, Holding, Reviewing
  <2> QED
    BY <2>1, <2>2
<1> QED
  BY <1>1

LEMMA AgreedCommit ==
  ASSUME IInv, Agreed, AloneOnPreOrder', NEW r \in Requests, NEW s \in ProofIds,
         SubmitCommit(r, s)
  PROVE  Agreed'
<1>1. PICK o \in PreOrderIds : o = req[r].preOrder
  BY Holder DEF SubmitCommit, IInv, Holding
<1> DEFINE n == [preOrder |-> o, status |-> "pending"]
<1>2. n # Nothing
  BY PreOrdersAssumption DEF Proof
<1>3. /\ OthersStay(r) /\ req'[r].at = "tell" /\ req[r].at = "claim" /\ Holds(r, o)
      /\ proof[s] = Nothing /\ status[o] = "pending"
      /\ status' = [status EXCEPT ![o] = "awaiting_payment"]
      /\ proof' = [proof EXCEPT ![s] = n] /\ deaths' = deaths
  BY <1>1, GoLeavesOthers DEF SubmitCommit, Tell, IInv, Holds
<1>4. /\ status'[o] = "awaiting_payment" /\ proof'[s] = n
      /\ \A p \in PreOrderIds \ {o} : status'[p] = status[p]
      /\ \A t \in ProofIds \ {s} : proof'[t] = proof[t]
  BY <1>3 DEF IInv, TypeOK
<1>5. Right(req[r])'
  BY <1>3 DEF Right, Reviewing
<1>6. \A t \in Requests : Right(req[t])'
  BY <1>3, <1>4, <1>5, RightElsewhere
<1>7. ASSUME deaths = 0, NEW t \in ProofIds, proof[t] # Nothing, proof[t].preOrder = o
      PROVE  ~Pending(t) /\ proof[t].status # "verified"
  BY <1>3, <1>7, NoneOpen DEF Agreed, DepositDecides
<1>8. OneReview'
  <2>1. ASSUME deaths = 0, NEW t \in ProofIds, NEW v \in ProofIds,
               Pending(t)', Pending(v)', proof'[t].preOrder = proof'[v].preOrder
        PROVE  t = v
    BY <1>3, <1>4, <1>7, <2>1 DEF Pending, Agreed, OneReview
  <2>2. ASSUME deaths = 0, NEW t \in Requests,
               req'[t].at = "close", req'[t].verdict = "verified"
        PROVE  status'[req'[t].preOrder] \in Goal
    <3>1. t # r /\ req'[t] = req[t]
      BY <1>3, <2>2 DEF OthersStay
    <3>2. req[t].preOrder \in PreOrderIds \ {o}
      BY <1>3, <2>2, <3>1, HoldsItself DEF Agreed, AloneOnPreOrder, Holding
    <3> QED
      BY <1>4, <2>2, <3>1, <3>2 DEF Agreed, OneReview
  <2> QED
    BY <1>3, <2>1, <2>2 DEF OneReview
<1>9. DepositDecides'
  <2> SUFFICES ASSUME deaths = 0, NEW t \in ProofIds, proof'[t] # Nothing
      PROVE /\ proof'[t].status = "verified"
                 => status'[proof'[t].preOrder] \in {"confirmed", "fulfilled", "cancelled"}
            /\ Pending(t)' => \/ status'[proof'[t].preOrder] = "awaiting_payment"
                              \/ \E w \in Requests : req'[w].at = "close"
                                                     /\ req'[w].proof = t
    BY <1>3 DEF DepositDecides
  <2>1. CASE t = s
    BY <1>4, <2>1
  <2>2. CASE t # s /\ proof[t].preOrder = o
    BY <1>4, <1>7, <2>2 DEF Pending
  <2>3. CASE t # s /\ proof[t].preOrder # o
    <3>1. /\ proof'[t] = proof[t] /\ proof[t].preOrder \in PreOrderIds \ {o}
      BY <1>4, <2>3 DEF IInv, TypeOK, Proof
    <3>2. \A w \in Requests : req[w].at = "close" => req'[w] = req[w]
      BY <1>3 DEF OthersStay
    <3> QED
      BY <1>4, <3>1, <3>2 DEF Agreed, DepositDecides, Pending
  <2> QED
    BY <2>1, <2>2, <2>3
<1> QED
  BY <1>6, <1>8, <1>9 DEF Agreed

LEMMA AgreedClose ==
  ASSUME IInv, Agreed, AloneOnPreOrder', NEW r \in Requests, VerifyClose(r)
  PROVE  Agreed'
<1>1. PICK o \in PreOrderIds, s \in ProofIds, v \in Verdict :
        o = req[r].preOrder /\ s = req[r].proof /\ v = req[r].verdict
  BY StageType DEF VerifyClose, IInv, Reviewing
<1>2. /\ OthersStay(r) /\ req'[r].at = "tell" /\ req[r].at = "close" /\ Holds(r, o)
      /\ UNCHANGED <<status, deaths>>
      /\ proof' = [proof EXCEPT ![s].status = v]
  BY <1>1, GoLeavesOthers DEF VerifyClose, Tell, IInv, Holds
<1>3. proof[s] # Nothing /\ proof[s].preOrder = o
  BY <1>1, <1>2 DEF IInv, RowsExist, Sound, Reviewing
<1>4. /\ proof'[s].status = v /\ proof'[s].preOrder = o /\ v # "pending"
      /\ \A t \in ProofIds \ {s} : proof'[t] = proof[t]
  BY <1>2, <1>3 DEF IInv, TypeOK, Proof, Verdict
<1>5. Right(req[r])'
  BY <1>2 DEF Right, Reviewing
<1>6. \A t \in Requests : Right(req[t])'
  BY <1>2, <1>3, <1>4, <1>5, RightElsewhere
<1>7. OneReview'
  <2>1. \A t \in ProofIds : Pending(t)' => t # s /\ Pending(t)
    BY <1>4 DEF Pending
  <2>2. \A t \in Requests : req'[t].at = "close" => req'[t] = req[t]
    BY <1>2 DEF OthersStay
  <2> QED
    BY <1>2, <1>4, <2>1, <2>2 DEF Agreed, OneReview
<1>8. DepositDecides'
  <2> SUFFICES ASSUME deaths = 0, NEW t \in ProofIds, proof'[t] # Nothing
      PROVE /\ proof'[t].status = "verified"
                 => status[proof'[t].preOrder] \in {"confirmed", "fulfilled", "cancelled"}
            /\ Pending(t)' => \/ status[proof'[t].preOrder] = "awaiting_payment"
                              \/ \E w \in Requests : req'[w].at = "close"
                                                     /\ req'[w].proof = t
    BY <1>2 DEF DepositDecides
  <2>1. CASE t = s
    BY <1>1, <1>2, <1>4, <2>1 DEF Agreed, OneReview, Goal, Pending
  <2>2. CASE t # s
    <3>1. \A w \in Requests : req[w].at = "close" /\ req[w].proof = t => req'[w] = req[w]
      BY <1>1, <2>2, <1>2 DEF OthersStay
    <3> QED
      BY <1>4, <2>2, <3>1 DEF Agreed, DepositDecides, Pending
  <2> QED
    BY <2>1, <2>2
<1> QED
  BY <1>6, <1>7, <1>8 DEF Agreed

LEMMA AgreedStep ==
  ASSUME IInv, Agreed, Next, OneAtATime'
  PROVE  Agreed'
<1>1. AloneOnPreOrder'
  BY AloneNext
<1>2. PICK r \in Requests : Begin(r) \/ Step(r) \/ GiveUp(r) \/ Die(r)
  BY DEF Next
<1>3. CASE Step(r)
  BY <1>1, <1>3, AgreedOther, AgreedReadPreOrder, AgreedInsert, AgreedWrite,
     AgreedSettle, AgreedCommit, AgreedClose DEF Step
<1> QED
  BY <1>1, <1>2, <1>3, AgreedBegin, AgreedOther

\* Nobody writes a pre-order that is over.
LEMMA OverStays ==
  ASSUME IInv, Agreed, Next, NEW o \in PreOrderIds,
         status[o] \in {"fulfilled", "cancelled"}
  PROVE  status'[o] = status[o]
<1>1. PICK r \in Requests : Begin(r) \/ Step(r) \/ GiveUp(r) \/ Die(r)
  BY DEF Next
<1>2. Right(req[r]) /\ status \in [PreOrderIds -> PreOrderStatus \cup {"none"}]
  BY DEF Agreed, IInv, TypeOK
<1>3. CASE Write(r)
  BY <1>2, <1>3 DEF Write, Right, PRE_ORDER_TRANSITIONS
<1>4. CASE VerifySettle(r)
  BY <1>2, <1>4 DEF VerifySettle, Right
<1>5. CASE \E s \in ProofIds : SubmitCommit(r, s)
  BY <1>2, <1>5 DEF SubmitCommit
<1>6. CASE \E p \in PreOrderIds : CreateInsert(r, p)
  BY <1>2, <1>6 DEF CreateInsert
<1>7. ASSUME UNCHANGED status  PROVE status'[o] = status[o]
  BY <1>7
<1>8. CASE Begin(r) \/ GiveUp(r) \/ Die(r)
  BY <1>7, <1>8 DEF Begin, UpdateOfferRead, SettingsRead, CreateRead,
     UpdateStatusRead, CancelByBuyerRead, SubmitRead, VerifyRead, GiveUp, Die
<1> QED
  BY <1>1, <1>3, <1>4, <1>5, <1>6, <1>7, <1>8
     DEF Step, UpdateOfferWrite, SettingsInsert, FindPercent, SeedPercent,
         CheckLimit, Count, SubmitCheckOpen, VerifyReadPreOrder, VerifyClose, TellStep

LEMMA SerialInv == IInv /\ Agreed /\ [Next /\ OneAtATime']_vars => IInv' /\ Agreed'
<1> SUFFICES ASSUME IInv, Agreed, [Next /\ OneAtATime']_vars
             PROVE  IInv' /\ Agreed'
  OBVIOUS
<1>1. IInv'
  BY InvNext
<1>2. CASE UNCHANGED vars
  BY <1>1, <1>2 DEF vars, Agreed, AloneOnPreOrder, OneReview, DepositDecides, Right,
     Holds, Pending
<1> QED
  BY <1>1, <1>2, AgreedStep

LEMMA AgreedInit == Init => Agreed
<1> SUFFICES ASSUME Init  PROVE Agreed
  OBVIOUS
<1>1. \A r \in Requests : req[r].at = "idle"
  BY DEF Init, Idle
<1>2. \A s \in ProofIds : proof[s] = Nothing
  BY DEF Init
<1> QED
  BY <1>1, <1>2 DEF Agreed, AloneOnPreOrder, OneReview, DepositDecides, Right,
     Reviewing, Holds, Pending

\* With one request per pre-order at a time, and no review that dies between its
\* writes, the verdict on a deposit and the status of the pre-order agree.
THEOREM DepositsDecide == SerialSpec => []DepositDecides
<1>1. Agreed => DepositDecides
  BY DEF Agreed
<1> QED
  BY <1>1, InvInit, AgreedInit, SerialInv, PTL DEF SerialSpec

\* With one request per pre-order at a time, what is fulfilled or cancelled stays
\* so, wherever requests die.
THEOREM OverStaysOver == SerialSpec => OverIsOver
<1>1. IInv /\ Agreed /\ [Next /\ OneAtATime']_vars =>
        [\A o \in PreOrderIds :
           status[o] \in {"fulfilled", "cancelled"} => status'[o] = status[o]]_vars
  BY OverStays
<1> QED
  BY <1>1, InvInit, AgreedInit, SerialInv, PTL DEF SerialSpec, OverIsOver

-----------------------------------------------------------------------------
(* The units of pre-orders: sums over rows that exist.                     *)

Placed == {o \in PreOrderIds : status[o] # "none"}

\* The units that the rows c of S ask for.
Total(c, S) == SumOf([o \in PreOrderIds |-> c[o].quantity], S)

LEMMA TotalIs ==
  ASSUME NEW c, NEW S \in SUBSET PreOrderIds, IsFiniteSet(S),
         \A o \in S : c[o] \in Deal
  PROVE  /\ Total(c, S) \in Nat
         /\ \A T \in SUBSET S : Total(c, T) <= Total(c, S)
<1> DEFINE f == [o \in PreOrderIds |-> c[o].quantity]
<1>1. \A o \in S : f[o] \in Nat
  BY DEF Deal
<1> HIDE DEF f
<1> QED
  BY <1>1, SumTake, SumPart DEF Total, f

\* Rows that are the same ask for as much.
LEMMA TotalSame ==
  ASSUME NEW c, NEW d, NEW S \in SUBSET PreOrderIds, IsFiniteSet(S),
         \A o \in S : c[o] = d[o]
  PROVE  Total(c, S) = Total(d, S)
<1> DEFINE f == [o \in PreOrderIds |-> c[o].quantity]
           g == [o \in PreOrderIds |-> d[o].quantity]
<1>1. \A o \in S : f[o] = g[o]
  OBVIOUS
<1> HIDE DEF f, g
<1> QED
  BY <1>1, SumSame DEF Total, f, g

\* Another row adds what it asks for.
LEMMA TotalAdd ==
  ASSUME NEW c, NEW S \in SUBSET PreOrderIds, IsFiniteSet(S),
         NEW q \in PreOrderIds, q \notin S, \A o \in S \cup {q} : c[o] \in Deal
  PROVE  Total(c, S \cup {q}) = Total(c, S) + c[q].quantity
<1> DEFINE f == [o \in PreOrderIds |-> c[o].quantity]
<1>1. \A o \in S \cup {q} : f[o] \in Nat
  BY DEF Deal
<1>2. f[q] = c[q].quantity
  OBVIOUS
<1> HIDE DEF f
<1> QED
  BY <1>1, <1>2, SumAdd DEF Total, f

\* They are the units that the model adds up.
LEMMA UnitsTotal ==
  ASSUME NEW S \in SUBSET PreOrderIds, IsFiniteSet(S)
  PROVE  Units(S) = Total(deal, S)
  BY QuantitySum DEF Units, Total

\* A step keeps every row that exists, and inserts at most one.
LEMMA RowsStay ==
  ASSUME IInv, Next
  PROVE  /\ \A o \in Placed : status'[o] # "none" /\ deal'[o] = deal[o]
         /\ \E q : Placed' \subseteq Placed \cup {q}
<1>1. PICK r \in Requests : Begin(r) \/ Step(r) \/ GiveUp(r) \/ Die(r)
  BY DEF Next
<1>2. /\ status \in [PreOrderIds -> PreOrderStatus \cup {"none"}]
      /\ deal \in [PreOrderIds -> Deal \cup {Nothing}]
  BY DEF IInv, TypeOK
<1>3. ASSUME NEW q \in PreOrderIds, CreateInsert(r, q)
      PROVE  /\ \A o \in Placed : status'[o] # "none" /\ deal'[o] = deal[o]
             /\ Placed' \subseteq Placed \cup {q}
  BY <1>2, <1>3 DEF CreateInsert, Placed
<1>4. ASSUME NEW q \in Placed, NEW g \in PreOrderStatus,
             status' = [status EXCEPT ![q] = g], deal' = deal
      PROVE  /\ \A o \in Placed : status'[o] # "none" /\ deal'[o] = deal[o]
             /\ Placed' \subseteq Placed \cup {q}
  BY <1>2, <1>4 DEF Placed, PreOrderStatus
<1>5. CASE Write(r)
  <2>1. req[r].preOrder \in Placed /\ req[r].goal \in PreOrderStatus
    BY <1>5, StageType
       DEF Write, IInv, RowsExist, Sound, Holding, Placed, Goal, PreOrderStatus
  <2> QED
    BY <1>4, <1>5, <2>1 DEF Write
<1>6. CASE VerifySettle(r)
  <2>1. /\ req[r].preOrder \in Placed
        /\ Settled(req[r].verdict) \in PreOrderStatus
    BY <1>6, Holder DEF VerifySettle, IInv, RowsExist, Sound, Holding, Placed,
       Settled, PreOrderStatus
  <2> QED
    BY <1>4, <1>6, <2>1 DEF VerifySettle
<1>7. CASE \E s \in ProofIds : SubmitCommit(r, s)
  <2>1. req[r].preOrder \in Placed
    BY <1>7, Holder DEF SubmitCommit, IInv, Holding, Placed
  <2> QED
    BY <1>4, <1>7, <2>1 DEF SubmitCommit, PreOrderStatus
<1>8. ASSUME UNCHANGED <<status, deal>>
      PROVE  /\ \A o \in Placed : status'[o] # "none" /\ deal'[o] = deal[o]
             /\ Placed' \subseteq Placed \cup {Nothing}
  BY <1>8 DEF Placed
<1>9. CASE Begin(r) \/ GiveUp(r) \/ Die(r)
  BY <1>8, <1>9 DEF Begin, UpdateOfferRead, SettingsRead, CreateRead,
     UpdateStatusRead, CancelByBuyerRead, SubmitRead, VerifyRead, GiveUp, Die
<1> QED
  BY <1>1, <1>3, <1>5, <1>6, <1>7, <1>8, <1>9
     DEF Step, UpdateOfferWrite, SettingsInsert, FindPercent, SeedPercent,
         CheckLimit, Count, SubmitCheckOpen, VerifyReadPreOrder, VerifyClose, TellStep

LEMMA PlacedFinite ==
  ASSUME IInv, Next, IsFiniteSet(Placed)
  PROVE  IsFiniteSet(Placed')
<1>1. PICK q : Placed' \subseteq Placed \cup {q}
  BY RowsStay
<1>2. IsFiniteSet(Placed \cup {q})
  BY FS_AddElement
<1> QED
  BY <1>1, <1>2, FS_Subset

-----------------------------------------------------------------------------
(* The sales figures, with the requests on one pre-order one at a time.    *)

DoneOf(p) == {o \in PreOrderIds : status[o] = "fulfilled" /\ deal[o].product = p}
Counting(o) == \E r \in Requests : req[r].at = "count" /\ req[r].preOrder = o
LeftOf(p) ==
  {o \in PreOrderIds : /\ status[o] # "none" /\ deal[o].product = p
                       /\ Counting(o)}

\* What is left to be counted has been fulfilled.
CountsFulfilled ==
  \A r \in Requests :
    req[r].at = "count" => status[req[r].preOrder] = "fulfilled"

SoldRight == IsFiniteSet(Placed) /\ CountsFulfilled /\ SalesExact

LEMMA SalesSumsNow ==
  IsFiniteSet(Placed) =>
    \A p \in Products : /\ Fulfilled(p) = Total(deal, DoneOf(p))
                        /\ Uncounted(p) = Total(deal, LeftOf(p))
<1> SUFFICES ASSUME IsFiniteSet(Placed), NEW p \in Products
             PROVE  /\ Fulfilled(p) = Total(deal, DoneOf(p))
                    /\ Uncounted(p) = Total(deal, LeftOf(p))
  OBVIOUS
<1>1. DoneOf(p) \in SUBSET Placed /\ LeftOf(p) \in SUBSET Placed
  BY DEF DoneOf, LeftOf, Placed
<1>2. /\ DoneOf(p) \in SUBSET PreOrderIds /\ IsFiniteSet(DoneOf(p))
      /\ LeftOf(p) \in SUBSET PreOrderIds /\ IsFiniteSet(LeftOf(p))
  BY <1>1, FS_Subset DEF Placed
<1>3. Fulfilled(p) = Units(DoneOf(p)) /\ Uncounted(p) = Units(LeftOf(p))
  BY DEF Fulfilled, Uncounted, DoneOf, LeftOf, Counting
<1> QED
  BY <1>2, <1>3, UnitsTotal

LEMMA SalesSumsNext ==
  IsFiniteSet(Placed') =>
    \A p \in Products : /\ Fulfilled(p)' = Total(deal', DoneOf(p)')
                        /\ Uncounted(p)' = Total(deal', LeftOf(p)')
<1>1. (IsFiniteSet(Placed) =>
         \A p \in Products : /\ Fulfilled(p) = Total(deal, DoneOf(p))
                             /\ Uncounted(p) = Total(deal, LeftOf(p)))'
  BY SalesSumsNow, PTL
<1> QED
  BY <1>1

LEMMA SalesSums ==
  ASSUME NEW p \in Products
  PROVE  /\ IsFiniteSet(Placed) => /\ Fulfilled(p) = Total(deal, DoneOf(p))
                                   /\ Uncounted(p) = Total(deal, LeftOf(p))
         /\ IsFiniteSet(Placed') => /\ Fulfilled(p)' = Total(deal', DoneOf(p)')
                                    /\ Uncounted(p)' = Total(deal', LeftOf(p)')
  BY SalesSumsNow, SalesSumsNext

\* Both sums are over finite sets of rows that exist.
LEMMA SalesRows ==
  ASSUME IInv, IsFiniteSet(Placed), NEW p \in Products
  PROVE  /\ DoneOf(p) \in SUBSET PreOrderIds /\ IsFiniteSet(DoneOf(p))
         /\ LeftOf(p) \in SUBSET PreOrderIds /\ IsFiniteSet(LeftOf(p))
         /\ \A o \in DoneOf(p) \cup LeftOf(p) :
              o \in Placed /\ deal[o] \in Deal
         /\ Total(deal, DoneOf(p)) \in Nat
         /\ Total(deal, LeftOf(p)) \in Nat
         /\ totalSold[p] \in Nat
<1>1. DoneOf(p) \in SUBSET Placed /\ LeftOf(p) \in SUBSET Placed
  BY DEF DoneOf, LeftOf, Placed
<1>2. \A o \in Placed : o \in PreOrderIds /\ deal[o] \in Deal
  BY DEF Placed, IInv, RowsExist
<1>3. IsFiniteSet(DoneOf(p)) /\ IsFiniteSet(LeftOf(p))
  BY <1>1, FS_Subset
<1> QED
  BY <1>1, <1>2, <1>3, TotalIs DEF IInv, TypeOK

\* A step that neither fulfils a pre-order nor counts one.
LEMMA SoldStays ==
  ASSUME IInv, SoldRight, IsFiniteSet(Placed'), NEW r \in Requests, OthersStay(r),
         req[r].at # "count", req'[r].at # "count", totalSold' = totalSold,
         deaths' = 0 => deaths = 0,
         \A o \in PreOrderIds : status'[o] = "fulfilled" <=> status[o] = "fulfilled",
         \A o \in Placed : status'[o] # "none" /\ deal'[o] = deal[o]
  PROVE  SoldRight'
<1>1. \A t \in Requests :
        /\ req'[t].at = "count" <=> req[t].at = "count"
        /\ req[t].at = "count" =>
             /\ req'[t] = req[t] /\ req[t].preOrder \in PreOrderIds
             /\ status[req[t].preOrder] = "fulfilled"
  BY HoldsItself DEF OthersStay, SoldRight, CountsFulfilled, Holding
<1>2. CountsFulfilled'
  BY <1>1 DEF CountsFulfilled
<1>3. ASSUME NEW p \in Products
      PROVE  /\ totalSold'[p] + Uncounted(p)' <= Fulfilled(p)'
             /\ deaths' = 0 => totalSold'[p] + Uncounted(p)' = Fulfilled(p)'
  <2>1. DoneOf(p)' = DoneOf(p)
    BY DEF DoneOf, Placed
  <2>2. \A o \in PreOrderIds : Counting(o)' <=> Counting(o)
    BY <1>1 DEF Counting
  <2>3. \A o \in PreOrderIds : Counting(o) => o \in Placed
    BY <1>1 DEF Counting, Placed
  <2>4. LeftOf(p)' = LeftOf(p)
    BY <2>2, <2>3 DEF LeftOf, Placed
  <2>5. /\ Total(deal', DoneOf(p)) = Total(deal, DoneOf(p))
        /\ Total(deal', LeftOf(p)) = Total(deal, LeftOf(p))
    BY SalesRows, TotalSame DEF SoldRight
  <2> QED
    BY <2>1, <2>4, <2>5, SalesSums DEF SoldRight, SalesExact
<1> QED
  BY <1>2, <1>3 DEF SoldRight, SalesExact

\* What is fulfilled is left to be counted: it was neither before.
LEMMA SoldWrite ==
  ASSUME IInv, Agreed, SoldRight, IsFiniteSet(Placed'), NEW r \in Requests, Write(r)
  PROVE  SoldRight'
<1>1. PICK o \in PreOrderIds, g \in Goal : o = req[r].preOrder /\ g = req[r].goal
  BY StageType DEF Write, IInv
<1>2. /\ OthersStay(r) /\ req[r].at = "write" /\ UNCHANGED <<totalSold, deaths, deal>>
      /\ status' = [status EXCEPT ![o] = g]
  BY <1>1, GoLeavesOthers DEF Write, IInv
<1>3. status[o] \notin {"none", "fulfilled", g} /\ deal[o] \in Deal /\ o \in Placed
  BY <1>1, <1>2 DEF Agreed, Right, PRE_ORDER_TRANSITIONS, IInv, RowsExist, Placed
<1>4. status'[o] = g /\ \A p \in PreOrderIds \ {o} : status'[p] = status[p]
  BY <1>2 DEF IInv, TypeOK
<1>5. \A p \in Placed : status'[p] # "none" /\ deal'[p] = deal[p]
  BY <1>2, <1>4 DEF Placed, Goal
<1>6. CASE g # "fulfilled"
  <2>1. req'[r].at = "tell"
    BY <1>1, <1>6, GoLeavesOthers DEF Write, Tell, IInv
  <2> QED
    BY <1>2, <1>3, <1>4, <1>5, <1>6, <2>1, SoldStays
<1>7. CASE g = "fulfilled"
  <2>1. req'[r].at = "count" /\ req'[r].preOrder = o
    BY <1>1, <1>7, GoLeavesOthers DEF Write, IInv
  <2>2. \A t \in Requests \ {r} :
          /\ req'[t] = req[t]
          /\ req[t].at = "count" => /\ req[t].preOrder \in PreOrderIds \ {o}
                                    /\ status[req[t].preOrder] = "fulfilled"
    BY <1>2, <1>3, HoldsItself DEF OthersStay, SoldRight, CountsFulfilled, Holding
  <2>3. CountsFulfilled'
    BY <1>4, <1>7, <2>1, <2>2 DEF CountsFulfilled
  <2>4. ASSUME NEW p \in Products
        PROVE  /\ totalSold'[p] + Uncounted(p)' <= Fulfilled(p)'
               /\ deaths' = 0 => totalSold'[p] + Uncounted(p)' = Fulfilled(p)'
    <3> DEFINE D == DoneOf(p)
               L == LeftOf(p)
    <3>1. /\ D \in SUBSET PreOrderIds /\ IsFiniteSet(D) /\ Total(deal, D) \in Nat
          /\ L \in SUBSET PreOrderIds /\ IsFiniteSet(L) /\ Total(deal, L) \in Nat
          /\ totalSold[p] \in Nat /\ \A q \in D \cup L : deal[q] \in Deal
      BY SalesRows DEF SoldRight
    <3>2. ~Counting(o)
      BY <1>2, <2>2 DEF Counting
    <3>3. o \notin D /\ o \notin L
      BY <1>3, <3>2 DEF DoneOf, LeftOf
    <3>4. \A q \in PreOrderIds : Counting(q)' <=> Counting(q) \/ q = o
      BY <1>2, <2>1, <2>2 DEF Counting
    <3>5. totalSold[p] + Total(deal, L) <= Total(deal, D)
          /\ (deaths = 0 => totalSold[p] + Total(deal, L) = Total(deal, D))
      BY SalesSums DEF SoldRight, SalesExact
    <3>6. CASE deal[o].product # p
      <4>1. DoneOf(p)' = D
        BY <1>2, <1>4, <3>6 DEF DoneOf
      <4>2. LeftOf(p)' = L
        BY <1>2, <1>4, <3>4, <3>6 DEF LeftOf
      <4> QED
        BY <1>2, <3>5, <4>1, <4>2, SalesSums
    <3>7. CASE deal[o].product = p
      <4>1. DoneOf(p)' = D \cup {o}
        BY <1>2, <1>4, <1>7, <3>7 DEF DoneOf
      <4>2. LeftOf(p)' = L \cup {o}
        BY <1>2, <1>3, <1>4, <1>7, <3>4, <3>7 DEF LeftOf
      <4> DEFINE n == deal[o].quantity
                 a == Total(deal, D)
                 b == Total(deal, L)
                 a1 == Total(deal, D \cup {o})
                 b1 == Total(deal, L \cup {o})
      <4>3. n \in Nat
        BY <1>3 DEF Deal
      <4>4. a1 = a + n /\ b1 = b + n
        BY <1>3, <3>1, <3>3, TotalAdd
      <4>5. Fulfilled(p)' = a1 /\ Uncounted(p)' = b1
        BY <1>2, <4>1, <4>2, SalesSums
      <4>6. a \in Nat /\ b \in Nat /\ totalSold[p] \in Nat /\ totalSold'[p] = totalSold[p]
            /\ totalSold[p] + b <= a /\ (deaths = 0 => totalSold[p] + b = a)
        BY <1>2, <3>1, <3>5
      <4> HIDE DEF n, a, b, a1, b1
      <4> QED
        BY <1>2, <4>3, <4>4, <4>5, <4>6
    <3> QED
      BY <3>6, <3>7
  <2> QED
    BY <2>3, <2>4 DEF SoldRight, SalesExact
<1> QED
  BY <1>6, <1>7

\* What is counted is left out no longer: nobody else counts it.
LEMMA SoldCount ==
  ASSUME IInv, Agreed, SoldRight, IsFiniteSet(Placed'), NEW r \in Requests, Count(r)
  PROVE  SoldRight'
<1>1. PICK o \in PreOrderIds : o = req[r].preOrder /\ Holds(r, o)
  BY HoldsItself DEF Count, IInv, Holding
<1>2. /\ OthersStay(r) /\ req'[r].at = "tell" /\ req[r].at = "count"
      /\ UNCHANGED <<status, deal, deaths>>
      /\ totalSold' = [totalSold EXCEPT ![deal[o].product] = @ + deal[o].quantity]
  BY <1>1, GoLeavesOthers DEF Count, Tell, Sold, IInv
<1>3. status[o] = "fulfilled" /\ deal[o] \in Deal /\ Counting(o)
  BY <1>1, <1>2 DEF SoldRight, CountsFulfilled, IInv, RowsExist, Counting
<1>4. \A t \in Requests : req'[t].at = "count" =>
        t # r /\ req'[t] = req[t] /\ req[t].preOrder # o
  BY <1>1, <1>2 DEF OthersStay, Agreed, AloneOnPreOrder, Holds
<1>5. CountsFulfilled'
  BY <1>2, <1>4 DEF SoldRight, CountsFulfilled
<1>6. \A q \in PreOrderIds : Counting(q)' <=> Counting(q) /\ q # o
  BY <1>1, <1>2, <1>4 DEF Counting, OthersStay
<1>7. ASSUME NEW p \in Products
      PROVE  /\ totalSold'[p] + Uncounted(p)' <= Fulfilled(p)'
             /\ deaths' = 0 => totalSold'[p] + Uncounted(p)' = Fulfilled(p)'
  <2> DEFINE D == DoneOf(p)
             L == LeftOf(p)
             K == LeftOf(p)'
  <2>1. /\ Total(deal, D) \in Nat /\ Total(deal, L) \in Nat /\ totalSold[p] \in Nat
        /\ L \in SUBSET PreOrderIds /\ IsFiniteSet(L) /\ \A q \in L : deal[q] \in Deal
    BY SalesRows DEF SoldRight
  <2>2. DoneOf(p)' = D
    BY <1>2 DEF DoneOf
  <2>3. totalSold[p] + Total(deal, L) <= Total(deal, D)
        /\ (deaths = 0 => totalSold[p] + Total(deal, L) = Total(deal, D))
    BY SalesSums DEF SoldRight, SalesExact
  <2>4. CASE deal[o].product # p
    <3>1. K = L
      BY <1>2, <1>6, <2>4 DEF LeftOf
    <3>2. totalSold'[p] = totalSold[p]
      BY <1>2, <2>4 DEF IInv, TypeOK
    <3> QED
      BY <1>2, <2>2, <2>3, <3>1, <3>2, SalesSums
  <2>5. CASE deal[o].product = p
    <3>1. L = K \cup {o} /\ o \notin K
      BY <1>2, <1>3, <1>6, <2>5 DEF LeftOf
    <3>2. K \in SUBSET PreOrderIds /\ IsFiniteSet(K)
      BY <2>1, <3>1, FS_Subset
    <3> DEFINE n == deal[o].quantity
               a == Total(deal, D)
               b == Total(deal, L)
               c == Total(deal, K)
    <3>3. n \in Nat /\ totalSold'[p] = totalSold[p] + n
      BY <1>2, <1>3, <2>5 DEF Deal, IInv, TypeOK
    <3>4. c \in Nat
      BY <2>1, <3>1, <3>2, TotalIs
    <3>5. b = c + n
      BY <2>1, <3>1, <3>2, TotalAdd
    <3>6. Fulfilled(p)' = a /\ Uncounted(p)' = c
      BY <1>2, <2>2, SalesSums
    <3>7. a \in Nat /\ b \in Nat /\ totalSold[p] \in Nat
          /\ totalSold[p] + b <= a /\ (deaths = 0 => totalSold[p] + b = a)
      BY <2>1, <2>3
    <3> HIDE DEF n, a, b, c
    <3> QED
      BY <1>2, <3>3, <3>4, <3>5, <3>6, <3>7
  <2> QED
    BY <2>4, <2>5
<1> QED
  BY <1>5, <1>7 DEF SoldRight, SalesExact

\* A request that dies leaves at most one pre-order uncounted.
LEMMA SoldDie ==
  ASSUME IInv, SoldRight, IsFiniteSet(Placed'), NEW r \in Requests, Die(r)
  PROVE  SoldRight'
<1>1. /\ OthersStay(r) /\ req'[r].at = "idle" /\ deaths' # 0
      /\ UNCHANGED <<status, deal, totalSold>>
  BY GoLeavesOthers DEF Die, Idle, IInv, TypeOK
<1>2. CountsFulfilled'
  BY <1>1 DEF SoldRight, CountsFulfilled, OthersStay
<1>3. ASSUME NEW p \in Products
      PROVE  totalSold'[p] + Uncounted(p)' <= Fulfilled(p)'
  <2> DEFINE a == Total(deal, DoneOf(p))
             b == Total(deal, LeftOf(p))
             K == LeftOf(p)'
             c == Total(deal, K)
  <2>1. /\ a \in Nat /\ b \in Nat /\ totalSold[p] \in Nat
        /\ LeftOf(p) \in SUBSET PreOrderIds /\ IsFiniteSet(LeftOf(p))
        /\ \A q \in LeftOf(p) : deal[q] \in Deal
    BY SalesRows DEF SoldRight
  <2>2. DoneOf(p)' = DoneOf(p)
    BY <1>1 DEF DoneOf
  <2>3. K \in SUBSET LeftOf(p)
    BY <1>1 DEF LeftOf, Counting, OthersStay
  <2>4. K \in SUBSET PreOrderIds /\ IsFiniteSet(K) /\ \A q \in K : deal[q] \in Deal
    BY <2>1, <2>3, FS_Subset
  <2>5. c \in Nat
    BY <2>4, TotalIs
  <2>6. c <= b
    BY <2>1, <2>3, TotalIs
  <2>7. totalSold[p] + b <= a
    BY SalesSums DEF SoldRight, SalesExact
  <2>8. Fulfilled(p)' = a /\ Uncounted(p)' = c
    BY <1>1, <2>2, SalesSums
  <2> HIDE DEF a, b, c
  <2> QED
    BY <1>1, <2>1, <2>5, <2>6, <2>7, <2>8
<1> QED
  BY <1>1, <1>2, <1>3 DEF SoldRight, SalesExact

LEMMA SoldStep ==
  ASSUME IInv, Agreed, SoldRight, Next
  PROVE  SoldRight'
<1>1. IsFiniteSet(Placed')
  BY PlacedFinite DEF SoldRight
<1>2. \A o \in Placed : status'[o] # "none" /\ deal'[o] = deal[o]
  BY RowsStay
<1>3. PICK r \in Requests : Begin(r) \/ Step(r) \/ GiveUp(r) \/ Die(r)
  BY DEF Next
<1>4. status \in [PreOrderIds -> PreOrderStatus \cup {"none"}]
  BY DEF IInv, TypeOK
<1>5. ASSUME NEW x, Go(r, x), x.at # "count", req[r].at # "count",
             UNCHANGED <<totalSold, deaths>>,
             \A o \in PreOrderIds :
               status'[o] = "fulfilled" <=> status[o] = "fulfilled"
      PROVE  SoldRight'
  <2>1. OthersStay(r) /\ req'[r] = x
    BY <1>5, GoLeavesOthers DEF IInv
  <2> QED
    BY <1>1, <1>2, <1>5, <2>1, SoldStays
<1>6. CASE Begin(r)
  <2>1. UNCHANGED <<status, totalSold, deaths>> /\ req[r].at = "idle"
    <3>1. UNCHANGED <<shop, status, deal, totalSold, proof, inbox, deaths>>
      BY <1>6 DEF Begin, UpdateOfferRead, SettingsRead, CreateRead,
         UpdateStatusRead, CancelByBuyerRead, SubmitRead, VerifyRead
    <3>2. req[r] = Idle
      BY <1>6, Zenon DEF Begin, UpdateOfferRead, SettingsRead, CreateRead,
         UpdateStatusRead, CancelByBuyerRead, SubmitRead, VerifyRead
    <3> QED
      BY <3>1, <3>2 DEF Idle
  <2>2. PICK x : Go(r, x) /\ x.at # "count"
    <3>1. ASSUME NEW u \in Users, NEW p \in Products, NEW n \in Quantities,
                 CreateRead(r, u, p, n)
          PROVE  \E x : Go(r, x) /\ x.at # "count"
      <4>1. PICK x : Go(r, x) /\ x.at \in {"percent", "limit"}
        BY <3>1 DEF CreateRead
      <4> QED
        BY <4>1
    <3>2. ASSUME NEW s \in ProofIds, NEW v \in Verdict, VerifyRead(r, s, v)
          PROVE  \E x : Go(r, x) /\ x.at # "count"
      BY <3>2 DEF VerifyRead
    <3>3. ASSUME NEW p \in Products, NEW columns \in Sent, NEW sent \in Offers[p],
                 UpdateOfferRead(r, p, sent, columns)
          PROVE  \E x : Go(r, x) /\ x.at # "count"
      BY <3>3 DEF UpdateOfferRead
    <3>4. CASE SettingsRead(r)
      BY <3>4 DEF SettingsRead
    <3>5. ASSUME NEW u \in Users, NEW o \in PreOrderIds, NEW goal \in Goals,
                 UpdateStatusRead(r, u, o, goal)
          PROVE  \E x : Go(r, x) /\ x.at # "count"
      BY <3>5 DEF UpdateStatusRead
    <3>6. ASSUME NEW u \in Users, NEW o \in PreOrderIds,
                 CancelByBuyerRead(r, u, o) \/ SubmitRead(r, u, o)
          PROVE  \E x : Go(r, x) /\ x.at # "count"
      BY <3>6 DEF CancelByBuyerRead, SubmitRead
    <3> QED
      BY <1>6, <3>1, <3>2, <3>3, <3>4, <3>5, <3>6 DEF Begin
  <2> QED
    BY <1>5, <2>1, <2>2
<1>7. CASE FindPercent(r) \/ SeedPercent(r) \/ CheckLimit(r)
  <2>1. req[r].at \in Reserving
    BY <1>7 DEF FindPercent, SeedPercent, CheckLimit, Reserving
  <2>2. req[r] \in [at : Reserving, deal : Deal, limit : Nat]
    BY <2>1, StageType DEF IInv
  <2>3. PICK a \in {"limit", "seed", "insert"} : Go(r, [req[r] EXCEPT !.at = a])
    BY <1>7 DEF FindPercent, SeedPercent, CheckLimit
  <2>4. [req[r] EXCEPT !.at = a].at = a
    BY <2>2
  <2>5. UNCHANGED <<status, totalSold, deaths>>
    BY <1>7 DEF FindPercent, SeedPercent, CheckLimit
  <2> QED
    BY <1>5, <2>1, <2>3, <2>4, <2>5 DEF Reserving
<1>8. CASE SubmitCheckOpen(r)
  <2>1. req[r] \in [at : {"open", "claim"}, preOrder : PreOrderIds]
    BY <1>8, StageType DEF IInv, SubmitCheckOpen
  <2>2. [req[r] EXCEPT !.at = "claim"].at = "claim"
    BY <2>1
  <2> QED
    BY <1>5, <1>8, <2>2 DEF SubmitCheckOpen
<1>9. ASSUME NEW u \in Users, VerifyReadPreOrder(r, u) PROVE SoldRight'
  <2>1. req[r] \in [at : Reviewing, preOrder : PreOrderIds, proof : ProofIds,
                    verdict : Verdict]
    BY <1>9, StageType DEF VerifyReadPreOrder, IInv, Reviewing
  <2>2. PICK a \in {"settle", "close"} : Go(r, [req[r] EXCEPT !.at = a])
    BY <1>9 DEF VerifyReadPreOrder
  <2>3. [req[r] EXCEPT !.at = a].at = a
    BY <2>1
  <2> QED
    BY <1>5, <1>9, <2>2, <2>3 DEF VerifyReadPreOrder
<1>10. CASE VerifySettle(r)
  <2>1. PICK o \in PreOrderIds, v \in Verdict :
          o = req[r].preOrder /\ v = req[r].verdict
    BY <1>10, StageType DEF VerifySettle, IInv, Reviewing
  <2>2. req[r] \in [at : Reviewing, preOrder : PreOrderIds, proof : ProofIds,
                    verdict : Verdict]
    BY <1>10, StageType DEF VerifySettle, IInv, Reviewing
  <2>3. [req[r] EXCEPT !.at = "close"].at = "close"
    BY <2>2
  <2>4. status[o] = "awaiting_payment" /\ status' = [status EXCEPT ![o] = Settled(v)]
        /\ Settled(v) # "fulfilled"
    BY <1>10, <2>1 DEF VerifySettle, Agreed, Right, Settled
  <2> QED
    BY <1>4, <1>5, <1>10, <2>3, <2>4 DEF VerifySettle
<1>11. ASSUME NEW s \in ProofIds, SubmitCommit(r, s) PROVE SoldRight'
  <2>1. \A o \in PreOrderIds : status'[o] = "fulfilled" <=> status[o] = "fulfilled"
    BY <1>4, <1>11 DEF SubmitCommit
  <2> QED
    BY <1>5, <1>11, <2>1 DEF SubmitCommit, Tell
<1>12. ASSUME NEW o \in PreOrderIds, CreateInsert(r, o) PROVE SoldRight'
  <2>1. \A q \in PreOrderIds : status'[q] = "fulfilled" <=> status[q] = "fulfilled"
    BY <1>4, <1>12 DEF CreateInsert
  <2> QED
    BY <1>5, <1>12, <2>1 DEF CreateInsert, Tell
<1>13. CASE UpdateOfferWrite(r) \/ SettingsInsert(r) \/ TellStep(r) \/ GiveUp(r)
  BY <1>5, <1>13 DEF UpdateOfferWrite, SettingsInsert, TellStep, GiveUp, Idle
<1>14. CASE VerifyClose(r)
  BY <1>5, <1>14 DEF VerifyClose, Tell
<1> QED
  BY <1>1, <1>3, <1>6, <1>7, <1>8, <1>9, <1>10, <1>11, <1>12, <1>13, <1>14,
     SoldWrite, SoldCount, SoldDie DEF Step

LEMMA SoldInit == Init => SoldRight
<1> SUFFICES ASSUME Init  PROVE SoldRight
  OBVIOUS
<1>1. Placed = {}
  BY DEF Init, Placed
<1>2. CountsFulfilled
  BY DEF Init, Idle, CountsFulfilled
<1>3. ASSUME NEW p \in Products
      PROVE  totalSold[p] + Uncounted(p) = Fulfilled(p) /\ Fulfilled(p) \in Nat
  <2>1. DoneOf(p) = {} /\ LeftOf(p) = {}
    BY <1>1 DEF DoneOf, LeftOf, Placed
  <2>2. Total(deal, {}) = 0
    BY SumEmpty DEF Total
  <2>3. IsFiniteSet(Placed)
    BY <1>1, FS_EmptySet
  <2>4. Fulfilled(p) = 0 /\ Uncounted(p) = 0
    BY <2>1, <2>2, <2>3, SalesSums
  <2> QED
    BY <2>4 DEF Init
<1> QED
  BY <1>1, <1>2, <1>3, FS_EmptySet DEF SoldRight, SalesExact

\* With one request per pre-order at a time, a product's sales figure and the
\* units that updateStatus has yet to count are the units of its fulfilled
\* pre-orders, and never more, wherever a request dies between its two writes.
THEOREM SalesAreExact == SerialSpec => []SalesExact
<1>1. IInv /\ Agreed /\ SoldRight /\ [Next /\ OneAtATime']_vars => SoldRight'
  <2>1. ASSUME SoldRight, UNCHANGED vars PROVE SoldRight'
    <3>1. UNCHANGED <<status, deal, totalSold, req, deaths>>
      BY <2>1 DEF vars
    <3>2. Placed' = Placed
      BY <3>1 DEF Placed
    <3>3. CountsFulfilled'
      BY <2>1, <3>1 DEF SoldRight, CountsFulfilled
    <3>4. \A p \in Products : DoneOf(p)' = DoneOf(p) /\ LeftOf(p)' = LeftOf(p)
      BY <3>1 DEF DoneOf, LeftOf, Counting
    <3>5. SalesExact'
      BY <2>1, <3>1, <3>2, <3>4, SalesSums DEF SoldRight, SalesExact
    <3> QED
      BY <2>1, <3>2, <3>3, <3>5 DEF SoldRight
  <2> QED
    BY <2>1, SoldStep
<1>2. SoldRight => SalesExact
  BY DEF SoldRight
<1> QED
  BY <1>1, <1>2, InvInit, AgreedInit, SoldInit, SerialInv, PTL DEF SerialSpec

-----------------------------------------------------------------------------
(* Reservations, with those and the updates of one product one at a time.  *)

AloneOnProduct ==
  \A r, t \in Requests : r # t =>
    \A p \in Products : ~(Concerns(r, p) /\ Concerns(t, p))

\* What a reservation read of its product still holds, the room it found too.
AsOffered ==
  \A r \in Requests, p \in Products :
    req[r].at \in Reserving /\ req[r].deal.product = p =>
      /\ offer[p].open
      /\ req[r].deal.prepaid = (offer[p].terms = "prepaid")
      /\ req[r].limit = offer[p].limit
      /\ req[r].at = "insert" /\ offer[p].limit # 0 =>
           Total(deal, Reserved(p)) + req[r].deal.quantity <= offer[p].limit

OfferStands == IsFiniteSet(Placed) /\ AloneOnProduct /\ AsOffered

LEMMA ReservedRows ==
  ASSUME IInv, IsFiniteSet(Placed), NEW p \in Products
  PROVE  /\ Reserved(p) \in SUBSET PreOrderIds /\ IsFiniteSet(Reserved(p))
         /\ \A o \in Reserved(p) : deal[o] \in Deal
         /\ Total(deal, Reserved(p)) \in Nat
         /\ Units(Reserved(p)) = Total(deal, Reserved(p))
<1>1. Reserved(p) \in SUBSET Placed
  BY DEF Reserved, Placed
<1>2. \A o \in Placed : o \in PreOrderIds /\ deal[o] \in Deal
  BY DEF Placed, IInv, RowsExist
<1>3. Reserved(p) \in SUBSET PreOrderIds /\ IsFiniteSet(Reserved(p))
  BY <1>1, <1>2, FS_Subset
<1> QED
  BY <1>1, <1>2, <1>3, TotalIs, UnitsTotal

LEMMA ReservedTotalNow ==
  IInv /\ IsFiniteSet(Placed) =>
    \A p \in Products : Units(Reserved(p)) = Total(deal, Reserved(p))
  BY ReservedRows

LEMMA ReservedTotalNext ==
  IInv' /\ IsFiniteSet(Placed') =>
    \A p \in Products : Units(Reserved(p))' = Total(deal', Reserved(p)')
<1>1. (IInv /\ IsFiniteSet(Placed) =>
         \A p \in Products : Units(Reserved(p)) = Total(deal, Reserved(p)))'
  BY ReservedTotalNow, PTL
<1> QED
  BY <1>1

\* Unless one is inserted, the units reserved of a product do not grow: what is
\* cancelled stays so.
LEMMA ReservedFalls ==
  ASSUME IInv, Agreed, IsFiniteSet(Placed), Next, NEW p \in Products,
         \A o \in Placed' : o \notin Placed => deal'[o].product # p
  PROVE  Total(deal', Reserved(p)') <= Total(deal, Reserved(p))
<1> DEFINE R == Reserved(p)
           S == Reserved(p)'
<1>1. /\ R \in SUBSET PreOrderIds /\ IsFiniteSet(R)
      /\ \A o \in R : deal[o] \in Deal
  BY ReservedRows
<1>2. \A o \in Placed : status'[o] # "none" /\ deal'[o] = deal[o]
  BY RowsStay
<1>3. ASSUME NEW o \in S
      PROVE  o \in R /\ deal'[o] = deal[o]
  <2>1. /\ o \in PreOrderIds /\ status'[o] \notin {"none", "cancelled"}
        /\ deal'[o].product = p
    BY <1>3 DEF Reserved
  <2>2. o \in Placed
    BY <2>1 DEF Placed
  <2>3. deal'[o] = deal[o]
    BY <1>2, <2>2
  <2>4. status[o] # "cancelled"
    BY <2>1, OverStays
  <2> QED
    BY <2>1, <2>2, <2>3, <2>4 DEF Reserved, Placed
<1>4. S \in SUBSET R
  BY <1>3
<1>5. S \in SUBSET PreOrderIds /\ IsFiniteSet(S)
  BY <1>1, <1>4, FS_Subset
<1>6. Total(deal', S) = Total(deal, S)
  BY <1>3, <1>5, TotalSame
<1>7. Total(deal, S) <= Total(deal, R)
  BY <1>1, <1>4, TotalIs
<1> QED
  BY <1>6, <1>7

\* Only create inserts.
LEMMA InsertedBy ==
  ASSUME IInv, NEW r \in Requests, Begin(r) \/ Step(r) \/ GiveUp(r) \/ Die(r),
         NEW o \in PreOrderIds, status[o] = "none", status'[o] # "none"
  PROVE  CreateInsert(r, o)
<1>1. status \in [PreOrderIds -> PreOrderStatus \cup {"none"}]
  BY DEF IInv, TypeOK
<1>2. ~Write(r)
  BY <1>1 DEF Write, IInv, RowsExist, Sound, Holding
<1>3. ~VerifySettle(r)
  BY <1>1 DEF VerifySettle, IInv, RowsExist, Sound, Holding
<1>4. ASSUME NEW s \in ProofIds, SubmitCommit(r, s)  PROVE FALSE
  BY <1>1, <1>4 DEF SubmitCommit
<1>5. ASSUME NEW q \in PreOrderIds, CreateInsert(r, q)  PROVE q = o
  BY <1>1, <1>5 DEF CreateInsert
<1>6. CASE Begin(r) \/ GiveUp(r) \/ Die(r)
  BY <1>6 DEF Begin, UpdateOfferRead, SettingsRead, CreateRead,
     UpdateStatusRead, CancelByBuyerRead, SubmitRead, VerifyRead, GiveUp, Die
<1>7. CASE Step(r)
  BY <1>2, <1>3, <1>4, <1>5, <1>7
     DEF Step, UpdateOfferWrite, SettingsInsert, FindPercent, SeedPercent,
         CheckLimit, Count, SubmitCheckOpen, VerifyReadPreOrder, VerifyClose, TellStep
<1> QED
  BY <1>6, <1>7

\* Another request leaves alone what a reservation of p goes by.
LEMMA OfferStays ==
  ASSUME IInv, Agreed, OfferStands, Next,
         NEW r \in Requests, Begin(r) \/ Step(r) \/ GiveUp(r) \/ Die(r),
         NEW k \in Requests, k # r, NEW p \in Products, Concerns(k, p)
  PROVE  /\ offer'[p] = offer[p]
         /\ Total(deal', Reserved(p)') <= Total(deal, Reserved(p))
<1>1. ~Concerns(r, p)
  BY DEF OfferStands, AloneOnProduct
<1>2. ASSUME UpdateOfferWrite(r)  PROVE offer'[p] = offer[p]
  BY <1>1, <1>2 DEF UpdateOfferWrite, Concerns, IInv, TypeOK
<1>3. ASSUME ~UpdateOfferWrite(r)  PROVE offer' = offer
  <2>1. CASE Begin(r) \/ GiveUp(r) \/ Die(r)
    BY <2>1 DEF Begin, UpdateOfferRead, SettingsRead, CreateRead,
       UpdateStatusRead, CancelByBuyerRead, SubmitRead, VerifyRead, GiveUp, Die,
       shop
  <2>2. CASE Step(r)
    BY <1>3, <2>2 DEF Step, SettingsInsert, FindPercent, SeedPercent, CheckLimit,
       CreateInsert, Write, Count, SubmitCheckOpen, SubmitCommit,
       VerifyReadPreOrder, VerifySettle, VerifyClose, TellStep, shop
  <2> QED
    BY <2>1, <2>2
<1>4. ASSUME NEW o \in Placed', o \notin Placed  PROVE deal'[o].product # p
  <2>1. o \in PreOrderIds /\ status[o] = "none" /\ status'[o] # "none"
    BY <1>4 DEF Placed
  <2>2. CreateInsert(r, o)
    BY <2>1, InsertedBy
  <2>3. deal'[o] = req[r].deal /\ req[r].at = "insert"
    BY <2>1, <2>2 DEF CreateInsert, IInv, TypeOK
  <2> QED
    BY <1>1, <2>3 DEF Concerns
<1>5. Total(deal', Reserved(p)') <= Total(deal, Reserved(p))
  BY <1>4, ReservedFalls DEF OfferStands
<1> QED
  BY <1>2, <1>3, <1>5

\* The steps of the reservation itself.
LEMMA OfferRead ==
  ASSUME IInv, OfferStands, NEW k \in Requests, Begin(k), NEW p \in Products,
         req'[k].at \in Reserving, req'[k].deal.product = p
  PROVE  /\ offer'[p].open
         /\ req'[k].deal.prepaid = (offer'[p].terms = "prepaid")
         /\ req'[k].limit = offer'[p].limit
         /\ req'[k].at # "insert"
<1>1. ASSUME NEW x, Go(k, x)  PROVE x.at \in Reserving
  BY <1>1, GoLeavesOthers DEF IInv
<1>2. PICK u \in Users, q \in Products, n \in Quantities : CreateRead(k, u, q, n)
  <2>1. ASSUME NEW q \in Products, NEW columns \in Sent, NEW sent \in Offers[q]
        PROVE  ~UpdateOfferRead(k, q, sent, columns)
    BY <1>1, <2>1 DEF UpdateOfferRead, Reserving
  <2>2. ~SettingsRead(k)
    BY <1>1 DEF SettingsRead, Reserving
  <2>3. ASSUME NEW u \in Users, NEW o \in PreOrderIds, NEW goal \in Goals
        PROVE  ~UpdateStatusRead(k, u, o, goal)
    BY <1>1, <2>3 DEF UpdateStatusRead, Reserving
  <2>4. ASSUME NEW u \in Users, NEW o \in PreOrderIds
        PROVE  ~CancelByBuyerRead(k, u, o) /\ ~SubmitRead(k, u, o)
    BY <1>1, <2>4 DEF CancelByBuyerRead, SubmitRead, Reserving
  <2>5. ASSUME NEW s \in ProofIds, NEW v \in Verdict  PROVE ~VerifyRead(k, s, v)
    BY <1>1, <2>5 DEF VerifyRead, Reserving
  <2> QED
    BY <2>1, <2>2, <2>3, <2>4, <2>5 DEF Begin
<1> DEFINE d == [buyer |-> u, product |-> q, quantity |-> n,
                 prepaid |-> offer[q].terms = "prepaid"]
           s == IF offer[q].terms = "default" THEN "percent" ELSE "limit"
           x == [at |-> s, deal |-> d, limit |-> offer[q].limit]
<1>3. offer[q].open /\ offer' = offer /\ req'[k] = x
  BY <1>2, GoLeavesOthers DEF CreateRead, IInv, shop
<1>4. d.product = q /\ d.prepaid = (offer[q].terms = "prepaid")
  OBVIOUS
<1>5. s # "insert"
  OBVIOUS
<1> HIDE DEF d, s
<1>6. x.at = s /\ x.deal = d /\ x.limit = offer[q].limit
  OBVIOUS
<1> HIDE DEF x
<1> QED
  BY <1>3, <1>4, <1>5, <1>6

LEMMA OfferKept ==
  ASSUME IInv, OfferStands, NEW k \in Requests,
         FindPercent(k) \/ SeedPercent(k) \/ CheckLimit(k), NEW p \in Products,
         req'[k].at \in Reserving, req'[k].deal.product = p
  PROVE  /\ offer'[p].open
         /\ req'[k].deal.prepaid = (offer'[p].terms = "prepaid")
         /\ req'[k].limit = offer'[p].limit
         /\ req'[k].at = "insert" /\ offer'[p].limit # 0 =>
              Total(deal', Reserved(p)') + req'[k].deal.quantity <= offer'[p].limit
<1>1. req[k].at \in Reserving
  BY DEF FindPercent, SeedPercent, CheckLimit, Reserving
<1>2. req[k] \in [at : Reserving, deal : Deal, limit : Nat]
  BY <1>1, StageType DEF IInv
<1>3. PICK a \in {"limit", "seed", "insert"} :
        /\ Go(k, [req[k] EXCEPT !.at = a])
        /\ a = "insert" => CheckLimit(k)
  BY DEF FindPercent, SeedPercent, CheckLimit
<1>4. /\ req'[k].at = a /\ req'[k].deal = req[k].deal /\ req'[k].limit = req[k].limit
  BY <1>2, <1>3, GoLeavesOthers DEF IInv
<1>5. UNCHANGED <<offer, status, deal>>
  BY DEF FindPercent, SeedPercent, CheckLimit, shop
<1>6. /\ offer[p].open
      /\ req[k].deal.prepaid = (offer[p].terms = "prepaid")
      /\ req[k].limit = offer[p].limit
  BY <1>1, <1>4 DEF OfferStands, AsOffered
<1>7. ASSUME a = "insert", offer[p].limit # 0
      PROVE  Total(deal, Reserved(p)) + req[k].deal.quantity <= offer[p].limit
  <2>1. Units(Reserved(p)) + req[k].deal.quantity <= offer[p].limit
    BY <1>3, <1>4, <1>6, <1>7 DEF CheckLimit, Fits
  <2> QED
    BY <2>1, ReservedRows DEF OfferStands
<1>8. Reserved(p)' = Reserved(p)
  BY <1>5 DEF Reserved
<1> QED
  BY <1>4, <1>5, <1>6, <1>7, <1>8

\* Each step moves one request.
LEMMA ActsAlone ==
  ASSUME IInv, NEW r \in Requests, Begin(r) \/ Step(r) \/ GiveUp(r) \/ Die(r)
  PROVE  \E x : Go(r, x)
<1>1. ASSUME Begin(r)  PROVE \E x : Go(r, x)
  BY <1>1, Zenon DEF Begin, UpdateOfferRead, SettingsRead, CreateRead,
     UpdateStatusRead, CancelByBuyerRead, SubmitRead, VerifyRead
<1>2. ASSUME Write(r)  PROVE \E x : Go(r, x)
  BY <1>2 DEF Write
<1>3. ASSUME FindPercent(r) \/ VerifySettle(r) \/ VerifyClose(r)
             \/ \E u \in Users : VerifyReadPreOrder(r, u)
      PROVE  \E x : Go(r, x)
  BY <1>3, Zenon DEF FindPercent, VerifySettle, VerifyClose, VerifyReadPreOrder
<1>4. ASSUME \/ UpdateOfferWrite(r) \/ SettingsInsert(r) \/ SeedPercent(r)
             \/ CheckLimit(r) \/ SubmitCheckOpen(r) \/ TellStep(r) \/ Count(r)
             \/ \E o \in PreOrderIds : CreateInsert(r, o)
             \/ \E s \in ProofIds : SubmitCommit(r, s)
             \/ GiveUp(r) \/ Die(r)
      PROVE  \E x : Go(r, x)
  BY <1>4, Zenon DEF UpdateOfferWrite, SettingsInsert, SeedPercent, CheckLimit,
     SubmitCheckOpen, TellStep, Count, CreateInsert, SubmitCommit, GiveUp, Die
<1> QED
  BY <1>1, <1>2, <1>3, <1>4 DEF Step

\* A reservation goes on in no other step than those above.
LEMMA OtherEnds ==
  ASSUME IInv, NEW r \in Requests, Begin(r) \/ Step(r) \/ GiveUp(r) \/ Die(r),
         ~(Begin(r) \/ FindPercent(r) \/ SeedPercent(r) \/ CheckLimit(r))
  PROVE  req'[r].at \notin Reserving
<1>1. ASSUME NEW x, Go(r, x)  PROVE req'[r] = x
  BY <1>1, GoLeavesOthers DEF IInv
<1>2. ASSUME NEW u \in Users, VerifyReadPreOrder(r, u)
      PROVE  req'[r].at \notin Reserving
  <2>1. req[r] \in [at : Reviewing, preOrder : PreOrderIds, proof : ProofIds,
                    verdict : Verdict]
    BY <1>2, StageType DEF VerifyReadPreOrder, IInv, Reviewing
  <2>2. PICK a \in {"settle", "close"} : Go(r, [req[r] EXCEPT !.at = a])
    BY <1>2 DEF VerifyReadPreOrder
  <2>3. [req[r] EXCEPT !.at = a].at = a
    BY <2>1
  <2> QED
    BY <1>1, <2>2, <2>3 DEF Reserving
<1>3. ASSUME VerifySettle(r)  PROVE req'[r].at \notin Reserving
  <2>1. req[r] \in [at : Reviewing, preOrder : PreOrderIds, proof : ProofIds,
                    verdict : Verdict]
    BY <1>3, StageType DEF VerifySettle, IInv, Reviewing
  <2>2. [req[r] EXCEPT !.at = "close"].at = "close"
    BY <2>1
  <2> QED
    BY <1>1, <1>3, <2>2 DEF VerifySettle, Reserving
<1>4. ASSUME SubmitCheckOpen(r)  PROVE req'[r].at \notin Reserving
  <2>1. req[r] \in [at : {"open", "claim"}, preOrder : PreOrderIds]
    BY <1>4, StageType DEF IInv, SubmitCheckOpen
  <2>2. [req[r] EXCEPT !.at = "claim"].at = "claim"
    BY <2>1
  <2> QED
    BY <1>1, <1>4, <2>2 DEF SubmitCheckOpen, Reserving
<1>5. ASSUME Write(r)  PROVE req'[r].at \notin Reserving
  BY <1>1, <1>5 DEF Write, Tell, Reserving
<1>6. ASSUME \/ UpdateOfferWrite(r) \/ SettingsInsert(r) \/ TellStep(r)
             \/ GiveUp(r) \/ Die(r)
      PROVE  req'[r].at \notin Reserving
  <2>1. Go(r, Idle)
    BY <1>6, Zenon DEF UpdateOfferWrite, SettingsInsert, TellStep, GiveUp, Die
  <2> QED
    BY <1>1, <2>1 DEF Idle, Reserving
<1>7. ASSUME \/ Count(r) \/ VerifyClose(r)
             \/ \E o \in PreOrderIds : CreateInsert(r, o)
             \/ \E s \in ProofIds : SubmitCommit(r, s)
      PROVE  req'[r].at \notin Reserving
  <2>1. CASE Count(r)
    BY <1>1, <2>1 DEF Count, Tell, Reserving
  <2>2. CASE VerifyClose(r)
    BY <1>1, <2>2 DEF VerifyClose, Tell, Reserving
  <2>3. ASSUME NEW o \in PreOrderIds, CreateInsert(r, o)
        PROVE  req'[r].at \notin Reserving
    BY <1>1, <2>3 DEF CreateInsert, Tell, Reserving
  <2>4. ASSUME NEW s \in ProofIds, SubmitCommit(r, s)
        PROVE  req'[r].at \notin Reserving
    BY <1>1, <2>4 DEF SubmitCommit, Tell, Reserving
  <2> QED
    BY <1>7, <2>1, <2>2, <2>3, <2>4
<1> QED
  BY <1>2, <1>3, <1>4, <1>5, <1>6, <1>7 DEF Step

LEMMA ReservedNatNow ==
  IInv /\ IsFiniteSet(Placed) =>
    \A p \in Products : Total(deal, Reserved(p)) \in Nat
  BY ReservedRows

LEMMA ReservedNat ==
  IInv' /\ IsFiniteSet(Placed') =>
    \A p \in Products : Total(deal', Reserved(p)') \in Nat
<1>1. (IInv /\ IsFiniteSet(Placed) =>
         \A p \in Products : Total(deal, Reserved(p)) \in Nat)'
  BY ReservedNatNow, PTL
<1> QED
  BY <1>1

LEMMA OfferStandsStep ==
  ASSUME IInv, IInv', Agreed, OfferStands, Next, OneAtATime'
  PROVE  OfferStands'
<1>1. IsFiniteSet(Placed')
  BY PlacedFinite DEF OfferStands
<1>2. AloneOnProduct'
  BY DEF OneAtATime, AloneOnProduct
<1>3. PICK r \in Requests : Begin(r) \/ Step(r) \/ GiveUp(r) \/ Die(r)
  BY DEF Next
<1>4. \E x : Go(r, x)
  BY <1>3, ActsAlone
<1>5. OthersStay(r)
  BY <1>4, GoLeavesOthers DEF IInv
<1>6. ASSUME NEW k \in Requests, NEW p \in Products,
             req'[k].at \in Reserving, req'[k].deal.product = p
      PROVE  /\ offer'[p].open
             /\ req'[k].deal.prepaid = (offer'[p].terms = "prepaid")
             /\ req'[k].limit = offer'[p].limit
             /\ req'[k].at = "insert" /\ offer'[p].limit # 0 =>
                  Total(deal', Reserved(p)') + req'[k].deal.quantity
                    <= offer'[p].limit
  <2>1. CASE k # r
    <3>1. req'[k] = req[k]
      BY <1>5, <2>1 DEF OthersStay
    <3>2. Concerns(k, p)
      BY <1>6, <3>1 DEF Concerns, Reserving
    <3>3. /\ offer'[p] = offer[p]
          /\ Total(deal', Reserved(p)') <= Total(deal, Reserved(p))
      BY <1>3, <2>1, <3>2, OfferStays
    <3>4. /\ offer[p].open
          /\ req[k].deal.prepaid = (offer[p].terms = "prepaid")
          /\ req[k].limit = offer[p].limit
          /\ req[k].at = "insert" /\ offer[p].limit # 0 =>
               Total(deal, Reserved(p)) + req[k].deal.quantity <= offer[p].limit
      BY <1>6, <3>1 DEF OfferStands, AsOffered
    <3>5. req[k].deal.quantity \in Nat /\ offer[p].limit \in Nat
      BY <1>6, <3>1, StageType DEF IInv, TypeOK, Deal, Offer
    <3> DEFINE a == Total(deal, Reserved(p))
               b == Total(deal', Reserved(p)')
               n == req[k].deal.quantity
    <3>6. a \in Nat
      BY ReservedRows DEF OfferStands
    <3>7. b \in Nat
      BY <1>1, ReservedNat
    <3>8. b <= a /\ n \in Nat /\ offer[p].limit \in Nat
          /\ (req[k].at = "insert" /\ offer[p].limit # 0 => a + n <= offer[p].limit)
      BY <3>3, <3>4, <3>5
    <3>9. req[k].at = "insert" /\ offer[p].limit # 0 => b + n <= offer[p].limit
      <4> HIDE DEF a, b, n
      <4> QED
        BY <3>6, <3>7, <3>8
    <3> QED
      BY <3>1, <3>3, <3>4, <3>9
  <2>2. CASE k = r
    <3>1. CASE Begin(r)
      BY <1>6, <2>2, <3>1, OfferRead
    <3>2. CASE FindPercent(r) \/ SeedPercent(r) \/ CheckLimit(r)
      BY <1>6, <2>2, <3>2, OfferKept
    <3>3. ~(Begin(r) \/ FindPercent(r) \/ SeedPercent(r) \/ CheckLimit(r))
          => req'[r].at \notin Reserving
      BY <1>3, OtherEnds
    <3> QED
      BY <1>6, <2>2, <3>1, <3>2, <3>3
  <2> QED
    BY <2>1, <2>2
<1> QED
  BY <1>1, <1>2, <1>6 DEF OfferStands, AsOffered

LEMMA OfferStandsInit == Init => OfferStands
<1> SUFFICES ASSUME Init  PROVE OfferStands
  OBVIOUS
<1>1. Placed = {}
  BY DEF Init, Placed
<1>2. \A r \in Requests : req[r].at = "idle"
  BY DEF Init, Idle
<1> QED
  BY <1>1, <1>2, FS_EmptySet
     DEF OfferStands, AloneOnProduct, Concerns, AsOffered, Reserving

LEMMA OfferStandsStutter ==
  ASSUME OfferStands, UNCHANGED vars
  PROVE  OfferStands'
<1>1. UNCHANGED <<offer, status, deal, req>>
  BY DEF vars, shop
<1>2. Placed' = Placed /\ \A p \in Products : Reserved(p)' = Reserved(p)
  BY <1>1 DEF Placed, Reserved
<1> QED
  BY <1>1, <1>2 DEF OfferStands, AloneOnProduct, Concerns, AsOffered

\* What is inserted is within the limit, with the others of its product.
LEMMA InsertFits ==
  ASSUME IInv, IInv', OfferStands, Next,
         NEW r \in Requests, NEW o \in PreOrderIds, NEW p \in Products,
         CreateInsert(r, o), req[r].deal.product = p
  PROVE  /\ offer[p].open
         /\ deal'[o].prepaid = (offer[p].terms = "prepaid")
         /\ offer[p].limit # 0 => Units(Reserved(p))' <= offer[p].limit
<1> DEFINE d == req[r].deal
           R == Reserved(p)
           S == Reserved(p)'
<1>1. /\ status[o] = "none" /\ req[r].at = "insert"
      /\ status' = [status EXCEPT ![o] = "pending"] /\ deal' = [deal EXCEPT ![o] = d]
  BY DEF CreateInsert
<1>2. /\ offer[p].open
      /\ d.prepaid = (offer[p].terms = "prepaid")
      /\ offer[p].limit # 0 => Total(deal, R) + d.quantity <= offer[p].limit
  BY <1>1 DEF OfferStands, AsOffered, Reserving
<1>3. d \in Deal
  BY <1>1, StageType DEF IInv, Reserving
<1>4. /\ deal'[o] = d /\ status'[o] = "pending"
      /\ \A q \in PreOrderIds \ {o} : status'[q] = status[q] /\ deal'[q] = deal[q]
  BY <1>1 DEF IInv, TypeOK
<1>5. /\ R \in SUBSET PreOrderIds /\ IsFiniteSet(R) /\ \A q \in R : deal[q] \in Deal
      /\ o \notin R
  BY <1>1, ReservedRows DEF OfferStands, Reserved
<1>6. S = R \cup {o}
  BY <1>1, <1>4 DEF Reserved
<1>7. Total(deal', R) = Total(deal, R)
  BY <1>4, <1>5, TotalSame
<1>8. \A q \in R \cup {o} : deal'[q] \in Deal
  BY <1>3, <1>4, <1>5
<1>9. Total(deal', R \cup {o}) = Total(deal', R) + deal'[o].quantity
  BY <1>5, <1>8, TotalAdd
<1>10. IsFiniteSet(Placed')
  BY PlacedFinite DEF OfferStands
<1>11. Units(Reserved(p))' = Total(deal', S)
  BY <1>10, ReservedTotalNext
<1> HIDE DEF d
<1> QED
  BY <1>2, <1>4, <1>6, <1>7, <1>9, <1>11

\* With the requests on one product at a time, a reservation is inserted on the
\* terms of that moment, and within its limit, although create reads the product
\* and adds up the others before, and sellers change the one and buyers cancel
\* the others.
THEOREM ReservesAsOffered == SerialSpec => ReservedAsOffered
<1>1. IInv /\ Agreed /\ OfferStands /\ [Next /\ OneAtATime']_vars => OfferStands'
  BY InvNext, OfferStandsStep, OfferStandsStutter
<1>2. IInv /\ Agreed /\ OfferStands /\ [Next /\ OneAtATime']_vars =>
        [\A r \in Requests, o \in PreOrderIds, p \in Products :
           CreateInsert(r, o) /\ req[r].deal.product = p =>
             /\ offer[p].open
             /\ deal'[o].prepaid = (offer[p].terms = "prepaid")
             /\ offer[p].limit # 0 => Units(Reserved(p))' <= offer[p].limit]_vars
  BY InvNext, InsertFits
<1> QED
  BY <1>1, <1>2, InvInit, AgreedInit, OfferStandsInit, SerialInv, PTL
     DEF SerialSpec, ReservedAsOffered
=============================================================================
