---------------------------- MODULE ReviewsProofs ----------------------------
(***************************************************************************)
(* What Reviews promises whatever the products, users and requests are: the*)
(* figures and the helpful counts of overlapping requests are exact.       *)
(***************************************************************************)
EXTENDS Reviews, FiniteSetTheorems, TLAPS

\* What a transaction that can still commit has read is what is there now.
SeesAll(q) ==
  q.at = "create" /\ ~q.stale =>
    /\ q.ofProduct = ReviewsOf(q.product)
    /\ q.ofStore = ReviewsIn(StoreOf[q.product])
SeesMarks(q) ==
  q.at = "toggle" /\ ~q.stale =>
    /\ review[q.review] # Nothing
    /\ q.helpful = review[q.review].helpful

Snapshots ==
  /\ \A r \in Requests : SeesAll(req[r])
  /\ \A r \in Requests : SeesMarks(req[r])

\* Only finitely many users have marked a review.
FewMarks ==
  \A x \in Reviews : review[x] # Nothing => IsFiniteSet(review[x].helpful)

Typed == TypeOK /\ Snapshots

-----------------------------------------------------------------------------
(* Types.                                                                  *)

\* A request in a given stage has the fields of that stage.
LEMMA StageType ==
  ASSUME NEW q \in Request
  PROVE  /\ q.at = "create" =>
              q \in [at : {"create"}, order : Orders, product : Products,
                     ofProduct : SUBSET Reviews, ofStore : SUBSET Reviews,
                     stale : BOOLEAN]
         /\ q.at = "toggle" =>
              q \in [at : {"toggle"}, review : Reviews, user : Users,
                     helpful : SUBSET Users, stale : BOOLEAN]
         /\ q.at = "tell" => q \in [at : {"tell"}, review : Reviews]
  BY DEF Request, Transaction, Idle

\* A commit of another request leaves a request alone or makes it stale.
LEMMA NotifiedType ==
  ASSUME NEW q \in Request, NEW W
  PROVE  Notified(q, W) \in Request
<1>1. CASE q.at = "create"
  BY <1>1, StageType DEF Notified, Request, Transaction
<1>2. CASE q.at = "toggle"
  BY <1>2, StageType DEF Notified, Request, Transaction
<1>3. CASE q.at \notin {"create", "toggle"}
  BY <1>3 DEF Notified, Writes
<1> QED
  BY <1>1, <1>2, <1>3

\* A request that is not stale after a commit of W was not stale before, was left
\* alone, and writes nothing of W.
LEMMA NotStale ==
  ASSUME NEW q \in Request, NEW W,
         Notified(q, W).at \in {"create", "toggle"}, ~Notified(q, W).stale
  PROVE  /\ Notified(q, W) = q
         /\ q.at \in {"create", "toggle"} /\ ~q.stale
         /\ Writes(q) \cap W = {}
<1>1. CASE Writes(q) \cap W = {}
  BY <1>1 DEF Notified
<1>2. CASE Writes(q) \cap W # {}
  <2>1. q.at \in {"create", "toggle"}
    BY <1>2 DEF Writes
  <2>2. [q EXCEPT !.stale = TRUE].stale = TRUE
    BY <2>1, StageType
  <2> QED
    BY <1>2, <2>2 DEF Notified
<1> QED
  BY <1>1, <1>2

LEMMA CommitType ==
  ASSUME TypeOK, NEW r \in Requests, NEW x \in Request, NEW W, Commit(r, x, W)
  PROVE  req' \in [Requests -> Request]
  BY NotifiedType DEF TypeOK, Commit

LEMMA RowType ==
  ASSUME TypeOK, NEW x \in Reviews, review[x] # Nothing
  PROVE  review[x] \in Review
  BY DEF TypeOK

\* The marks and the count that the commit of a mark by u leaves on v.
MarksAfter(v, u) == IF u \in v.helpful THEN v.helpful \ {u} ELSE v.helpful \cup {u}
CountAfter(v, u) == IF u \in v.helpful THEN v.helpfulCount - 1 ELSE v.helpfulCount + 1

\* The commit of a mark that is not stale changes this user's mark on the row
\* that is there now, and nothing else.
LEMMA Mark ==
  ASSUME Typed, NEW r \in Requests, ToggleCommit(r)
  PROVE  LET x == req[r].review
             u == req[r].user IN
         /\ x \in Reviews /\ u \in Users
         /\ review[x] # Nothing /\ review[x] \in Review
         /\ review' = [review EXCEPT ![x] = [review[x] EXCEPT
                         !.helpful = MarksAfter(review[x], u),
                         !.helpfulCount = CountAfter(review[x], u)]]
<1> DEFINE q == req[r]
           x == q.review
<1>1. q.at = "toggle" /\ ~q.stale
  BY DEF ToggleCommit
<1>2. x \in Reviews /\ q.user \in Users
  BY <1>1, StageType DEF Typed, TypeOK
<1>3. review[x] # Nothing /\ review[x] \in Review /\ q.helpful = review[x].helpful
  BY <1>1, <1>2, RowType DEF Typed, Snapshots, SeesMarks
<1>4. review' = [review EXCEPT ![x] = [review[x] EXCEPT
                   !.helpful = MarksAfter(review[x], q.user),
                   !.helpfulCount = CountAfter(review[x], q.user)]]
  BY <1>2, <1>3 DEF ToggleCommit, Typed, TypeOK, MarksAfter, CountAfter
<1> QED
  BY <1>2, <1>3, <1>4

LEMMA Marked ==
  ASSUME Typed, NEW r \in Requests, ToggleCommit(r)
  PROVE  LET x == req[r].review
             u == req[r].user IN
         /\ x \in Reviews /\ u \in Users
         /\ review[x] # Nothing /\ review[x] \in Review
         /\ review'[x] \in Review
         /\ review'[x].product = review[x].product
         /\ review'[x].helpful = MarksAfter(review[x], u)
         /\ review'[x].helpfulCount = CountAfter(review[x], u)
         /\ \A y \in Reviews : y # x => review'[y] = review[y]
<1> DEFINE x == req[r].review
           u == req[r].user
           H == MarksAfter(review[x], u)
           n == CountAfter(review[x], u)
           row == [review[x] EXCEPT !.helpful = H, !.helpfulCount = n]
<1>1. x \in Reviews /\ u \in Users /\ review[x] # Nothing /\ review[x] \in Review
  BY Mark
<1>2. H \in SUBSET Users /\ n \in Int
  BY <1>1 DEF MarksAfter, CountAfter, Review
<1>3. review' = [review EXCEPT ![x] = row]
  BY Mark
<1> HIDE DEF H, n, x
<1>4. /\ row \in Review /\ row.product = review[x].product
      /\ row.helpful = H /\ row.helpfulCount = n
  <2>1. PICK v \in Review : v = review[x]
    BY <1>1
  <2>2. PICK w : w = row
    OBVIOUS
  <2>3. w = [v EXCEPT !.helpful = H, !.helpfulCount = n]
    BY <2>1, <2>2
  <2>4. w \in Review /\ w.helpful = H /\ w.helpfulCount = n /\ w.product = v.product
    BY <1>2, <2>3 DEF Review
  <2> QED
    BY <2>1, <2>2, <2>4
<1> HIDE DEF row
<1>5. review'[x] = row /\ \A y \in Reviews : y # x => review'[y] = review[y]
  BY <1>1, <1>3 DEF Typed, TypeOK
<1> QED
  BY <1>1, <1>4, <1>5 DEF H, n, x

\* Every step keeps the types: the row a mark is written to exists, as it did in
\* the snapshot.
LEMMA TypeStep ==
  ASSUME Typed, [Next]_vars
  PROVE  TypeOK'
<1> USE ReviewsAssumption DEF Typed
<1>1. ASSUME NEW r \in Requests, NEW o \in Orders, NEW p \in Products,
             CreateOpen(r, o, p)
      PROVE  TypeOK'
  <2>1. [at |-> "create", order |-> o, product |-> p, ofProduct |-> ReviewsOf(p),
         ofStore |-> ReviewsIn(StoreOf[p]), stale |-> FALSE] \in Request
    BY DEF Request, Transaction, ReviewsOf, ReviewsIn
  <2> QED
    BY <1>1, <2>1 DEF TypeOK, CreateOpen, Go
<1>2. ASSUME NEW r \in Requests, NEW x \in Reviews, CreateCommit(r, x)
      PROVE  TypeOK'
  <2> DEFINE q == req[r]
  <2>1. /\ q.order \in Orders /\ q.product \in Products
        /\ q.ofProduct \in SUBSET Reviews /\ q.ofStore \in SUBSET Reviews
    BY <1>2, StageType DEF CreateCommit, TypeOK
  <2>2. [order |-> q.order, product |-> q.product, replied |-> FALSE,
         helpful |-> {}, helpfulCount |-> 0] \in Review
    BY <2>1 DEF Review
  <2>3. review' \in [Reviews -> Review \cup {Nothing}]
    BY <1>2, <2>2 DEF CreateCommit, TypeOK
  <2>4. ofProduct' \in [Products -> SUBSET Reviews]
    BY <1>2, <2>1 DEF CreateCommit, TypeOK
  <2>5. ofStore' \in [Stores -> SUBSET Reviews]
    BY <1>2, <2>1 DEF CreateCommit, TypeOK
  <2>6. [at |-> "tell", review |-> x] \in Request
    BY DEF Request
  <2>7. req' \in [Requests -> Request]
    BY <1>2, <2>6, CommitType DEF CreateCommit
  <2> QED
    BY <1>2, <2>3, <2>4, <2>5, <2>7 DEF CreateCommit, TypeOK
<1>3. ASSUME NEW r \in Requests, TellSeller(r)
      PROVE  TypeOK'
  <2>1. req[r].review \in Reviews
    BY <1>3, StageType DEF TellSeller, TypeOK
  <2> QED
    BY <1>3, <2>1 DEF TellSeller, Go, TypeOK, Request
<1>4. ASSUME NEW r \in Requests, NEW u \in Users, NEW x \in Reviews, ToggleOpen(r, u, x)
      PROVE  TypeOK'
  <2>1. review[x].helpful \in SUBSET Users
    BY <1>4, RowType DEF ToggleOpen, Review
  <2>2. [at |-> "toggle", review |-> x, user |-> u, helpful |-> review[x].helpful,
         stale |-> FALSE] \in Request
    BY <2>1 DEF Request, Transaction
  <2> QED
    BY <1>4, <2>2 DEF ToggleOpen, Go, TypeOK
<1>5. ASSUME NEW r \in Requests, ToggleCommit(r)
      PROVE  TypeOK'
  <2>1. review' \in [Reviews -> Review \cup {Nothing}]
    <3>1. \A y \in Reviews : review'[y] \in Review \cup {Nothing}
      BY <1>5, Marked DEF TypeOK
    <3>2. \E row : review' = [review EXCEPT ![req[r].review] = row]
      BY <1>5, Mark
    <3> QED
      BY <3>1, <3>2 DEF TypeOK
  <2>2. req' \in [Requests -> Request]
    <3>1. Idle \in Request
      BY DEF Request
    <3> QED
      BY <1>5, <3>1, CommitType DEF ToggleCommit
  <2> QED
    BY <1>5, <2>1, <2>2 DEF ToggleCommit, TypeOK
<1>6. ASSUME NEW r \in Requests, Fail(r)
      PROVE  TypeOK'
  BY <1>6 DEF Fail, Go, TypeOK, Request
<1>7. ASSUME NEW x \in Reviews, Reply(x)
      PROVE  TypeOK'
  <2>1. [review[x] EXCEPT !.replied = TRUE] \in Review
    BY <1>7, RowType DEF Reply, Review
  <2>2. req' \in [Requests -> Request]
    BY <1>7, NotifiedType DEF Reply, TypeOK
  <2> QED
    BY <1>7, <2>1, <2>2 DEF Reply, TypeOK
<1>8. CASE UNCHANGED vars
  BY <1>8 DEF vars, TypeOK
<1> QED
  BY <1>1, <1>2, <1>3, <1>4, <1>5, <1>6, <1>7, <1>8 DEF Next, Step

-----------------------------------------------------------------------------
(* What a transaction that can commit has read is still there.             *)

\* A step that leaves the products and the marks of the reviews alone leaves
\* what every request sees alone.
LEMMA SeesOn ==
  ASSUME Typed, NEW q \in Request, SeesAll(q), SeesMarks(q),
         \A x \in Reviews : (review'[x] = Nothing) <=> (review[x] = Nothing),
         \A x \in Reviews : review[x] # Nothing =>
           review'[x].product = review[x].product,
         q.at = "toggle" /\ ~q.stale =>
           review'[q.review].helpful = review[q.review].helpful
  PROVE  SeesAll(q)' /\ SeesMarks(q)'
<1>1. ASSUME NEW p
      PROVE  ReviewsOf(p)' = ReviewsOf(p)
  BY <1>1 DEF ReviewsOf
<1>2. ASSUME NEW s
      PROVE  ReviewsIn(s)' = ReviewsIn(s)
  BY <1>2 DEF ReviewsIn
<1>3. SeesAll(q)'
  BY <1>1, <1>2 DEF SeesAll
<1>4. q.at = "toggle" => q.review \in Reviews
  BY StageType
<1>5. SeesMarks(q)'
  BY <1>4 DEF SeesMarks
<1> QED
  BY <1>3, <1>5

\* The same of a request that is left alone.
LEMMA Kept ==
  ASSUME Typed, NEW t \in Requests, req'[t] = req[t],
         \A x \in Reviews : (review'[x] = Nothing) <=> (review[x] = Nothing),
         \A x \in Reviews : review[x] # Nothing =>
           review'[x].product = review[x].product,
         req[t].at = "toggle" /\ ~req[t].stale =>
           review'[req[t].review].helpful = review[req[t].review].helpful
  PROVE  (SeesAll(req[t]) /\ SeesMarks(req[t]))'
<1>1. PICK q : q = req[t]
  OBVIOUS
<1>2. q \in Request /\ SeesAll(q) /\ SeesMarks(q)
  BY <1>1 DEF Typed, TypeOK, Snapshots
<1>3. SeesAll(q)' /\ SeesMarks(q)'
  BY <1>1, <1>2, SeesOn
<1> QED
  BY <1>1, <1>3 DEF SeesAll, SeesMarks, ReviewsOf, ReviewsIn

\* A request that is stale, or no transaction, sees nothing.
LEMMA Blind ==
  ASSUME NEW t \in Requests,
         req'[t].at \in {"create", "toggle"} => req'[t].stale
  PROVE  (SeesAll(req[t]) /\ SeesMarks(req[t]))'
  BY DEF SeesAll, SeesMarks

\* The row of a review that is committed is new, and every other row is kept.
LEMMA NewRow ==
  ASSUME TypeOK, NEW r \in Requests, NEW x \in Reviews, CreateCommit(r, x)
  PROVE  /\ req[r] \in [at : {"create"}, order : Orders, product : Products,
                        ofProduct : SUBSET Reviews, ofStore : SUBSET Reviews,
                        stale : BOOLEAN]
         /\ review[x] = Nothing /\ review'[x] # Nothing
         /\ review'[x].product = req[r].product
         /\ review'[x].helpful = {} /\ review'[x].helpfulCount = 0
         /\ \A y \in Reviews : y # x => review'[y] = review[y]
<1>1. req[r] \in [at : {"create"}, order : Orders, product : Products,
                  ofProduct : SUBSET Reviews, ofStore : SUBSET Reviews,
                  stale : BOOLEAN]
  BY StageType DEF CreateCommit, TypeOK
<1>2. [order |-> req[r].order, product |-> req[r].product, replied |-> FALSE,
       helpful |-> {}, helpfulCount |-> 0] \in Review
  BY <1>1 DEF Review
<1> QED
  BY <1>1, <1>2, ReviewsAssumption DEF CreateCommit, TypeOK

\* The reviews of products and stores after the new one.
LEMMA NewReviews ==
  ASSUME TypeOK, NEW r \in Requests, NEW x \in Reviews, CreateCommit(r, x)
  PROVE  /\ \A p \in Products : ReviewsOf(p)' =
              IF p = req[r].product THEN ReviewsOf(p) \cup {x} ELSE ReviewsOf(p)
         /\ \A s \in Stores : ReviewsIn(s)' =
              IF s = StoreOf[req[r].product] THEN ReviewsIn(s) \cup {x}
              ELSE ReviewsIn(s)
<1>1. ASSUME NEW p \in Products
      PROVE  ReviewsOf(p)' = IF p = req[r].product THEN ReviewsOf(p) \cup {x}
                             ELSE ReviewsOf(p)
  BY NewRow DEF ReviewsOf
<1>2. ASSUME NEW s \in Stores
      PROVE  ReviewsIn(s)' = IF s = StoreOf[req[r].product] THEN ReviewsIn(s) \cup {x}
                             ELSE ReviewsIn(s)
  BY NewRow DEF ReviewsIn
<1> QED
  BY <1>1, <1>2

LEMMA SnapshotStep ==
  ASSUME Typed, [Next]_vars
  PROVE  Snapshots'
<1> SUFFICES ASSUME NEW t \in Requests
             PROVE  (SeesAll(req[t]) /\ SeesMarks(req[t]))'
  BY DEF Snapshots
<1> USE DEF Typed
<1>0. req[t] \in Request
  BY DEF TypeOK
<1>1. ASSUME NEW r \in Requests, NEW o \in Orders, NEW p \in Products,
             CreateOpen(r, o, p)
      PROVE  (SeesAll(req[t]) /\ SeesMarks(req[t]))'
  <2>1. CASE t = r
    <3>1. req'[t] = [at |-> "create", order |-> o, product |-> p,
                     ofProduct |-> ReviewsOf(p), ofStore |-> ReviewsIn(StoreOf[p]),
                     stale |-> FALSE]
      BY <1>1, <2>1 DEF CreateOpen, Go, TypeOK
    <3>2. ReviewsOf(p)' = ReviewsOf(p) /\ ReviewsIn(StoreOf[p])' = ReviewsIn(StoreOf[p])
      BY <1>1 DEF CreateOpen, ReviewsOf, ReviewsIn
    <3> QED
      BY <3>1, <3>2 DEF SeesAll, SeesMarks
  <2>2. CASE t # r
    BY <1>1, <2>2, Kept DEF CreateOpen, Go, TypeOK
  <2> QED
    BY <2>1, <2>2
<1>2. ASSUME NEW r \in Requests, NEW x \in Reviews, CreateCommit(r, x)
      PROVE  (SeesAll(req[t]) /\ SeesMarks(req[t]))'
  <2> DEFINE q == req[r]
             W == {q.product, StoreOf[q.product], x}
  <2>1. req'[t] = IF t = r THEN [at |-> "tell", review |-> x] ELSE Notified(req[t], W)
    BY <1>2 DEF CreateCommit, Commit
  <2>2. CASE t = r
    BY <2>1, <2>2, Blind
  <2>3. CASE req'[t].at \in {"create", "toggle"} => req'[t].stale
    BY <2>3, Blind
  <2>4. CASE t # r /\ req'[t].at = "create" /\ ~req'[t].stale
    <3>1. req'[t] = req[t] /\ req[t].at = "create" /\ ~req[t].stale
          /\ Writes(req[t]) \cap W = {}
      BY <1>0, <2>1, <2>4, NotStale
    <3>2. req[t].product \in Products /\ q.product \in Products
      BY <1>0, <1>2, <3>1, StageType, NewRow
    <3>3. req[t].product # q.product /\ StoreOf[req[t].product] # StoreOf[q.product]
      BY <3>1 DEF Writes
    <3>4. StoreOf[req[t].product] \in Stores
      BY <3>2, ReviewsAssumption
    <3>5. PICK p \in Products : p = req[t].product
      BY <3>2
    <3>6. ReviewsOf(p)' = ReviewsOf(p) /\ ReviewsIn(StoreOf[p])' = ReviewsIn(StoreOf[p])
      BY <1>2, <3>3, <3>4, <3>5, NewReviews
    <3>7. req[t].ofProduct = ReviewsOf(p) /\ req[t].ofStore = ReviewsIn(StoreOf[p])
      BY <3>1, <3>5 DEF Snapshots, SeesAll
    <3> QED
      BY <3>1, <3>5, <3>6, <3>7 DEF SeesAll, SeesMarks, ReviewsOf, ReviewsIn
  <2>5. CASE t # r /\ req'[t].at = "toggle" /\ ~req'[t].stale
    <3>1. req'[t] = req[t] /\ req[t].at = "toggle" /\ ~req[t].stale
      BY <1>0, <2>1, <2>5, NotStale
    <3>2. req[t].review \in Reviews
      BY <1>0, <3>1, StageType
    <3>3. review[req[t].review] # Nothing
          /\ req[t].helpful = review[req[t].review].helpful
      BY <3>1 DEF Snapshots, SeesMarks
    <3>4. review'[req[t].review] = review[req[t].review]
      BY <1>2, <3>2, <3>3, NewRow
    <3> QED
      BY <3>1, <3>3, <3>4 DEF SeesAll, SeesMarks
  <2> QED
    BY <2>2, <2>3, <2>4, <2>5
<1>3. ASSUME NEW r \in Requests, TellSeller(r)
      PROVE  (SeesAll(req[t]) /\ SeesMarks(req[t]))'
  BY <1>3, Blind, Kept DEF TellSeller, Go, TypeOK, Idle
<1>4. ASSUME NEW r \in Requests, NEW u \in Users, NEW x \in Reviews, ToggleOpen(r, u, x)
      PROVE  (SeesAll(req[t]) /\ SeesMarks(req[t]))'
  <2>1. CASE t = r
    <3>1. req'[t] = [at |-> "toggle", review |-> x, user |-> u,
                     helpful |-> review[x].helpful, stale |-> FALSE]
      BY <1>4, <2>1 DEF ToggleOpen, Go, TypeOK
    <3> QED
      BY <1>4, <3>1 DEF ToggleOpen, SeesAll, SeesMarks
  <2>2. CASE t # r
    BY <1>4, <2>2, Kept DEF ToggleOpen, Go, TypeOK
  <2> QED
    BY <2>1, <2>2
<1>5. ASSUME NEW r \in Requests, ToggleCommit(r)
      PROVE  (SeesAll(req[t]) /\ SeesMarks(req[t]))'
  <2> DEFINE x == req[r].review
             u == req[r].user
  <2>1. req'[t] = IF t = r THEN Idle ELSE Notified(req[t], {x})
    BY <1>5 DEF ToggleCommit, Commit
  <2>2. CASE req'[t].at \in {"create", "toggle"} => req'[t].stale
    BY <2>2, Blind
  <2>3. CASE t # r /\ req'[t].at \in {"create", "toggle"} /\ ~req'[t].stale
    <3>1. req'[t] = req[t] /\ ~req[t].stale /\ Writes(req[t]) \cap {x} = {}
      <4> HIDE DEF x, Typed
      <4> QED
        BY <1>0, <2>1, <2>3, NotStale
    <3>2. /\ x \in Reviews /\ review[x] # Nothing
          /\ review'[x] # Nothing /\ review'[x].product = review[x].product
          /\ \A y \in Reviews : y # x => review'[y] = review[y]
      BY <1>5, Marked, ReviewsAssumption
    <3>3. req[t].at = "toggle" => req[t].review \in Reviews /\ req[t].review # x
      BY <1>0, <3>1, StageType DEF Writes
    <3> HIDE DEF x
    <3> QED
      BY <3>1, <3>2, <3>3, Kept
  <2>4. CASE t = r
    BY <2>1, <2>2, <2>4 DEF Idle
  <2> QED
    BY <2>2, <2>3, <2>4
<1>6. ASSUME NEW r \in Requests, Fail(r)
      PROVE  (SeesAll(req[t]) /\ SeesMarks(req[t]))'
  BY <1>6, Blind, Kept DEF Fail, Go, TypeOK, Idle
<1>7. ASSUME NEW x \in Reviews, Reply(x)
      PROVE  (SeesAll(req[t]) /\ SeesMarks(req[t]))'
  <2>1. req'[t] = Notified(req[t], {x})
    BY <1>7 DEF Reply
  <2>2. CASE req'[t].at \in {"create", "toggle"} => req'[t].stale
    BY <2>2, Blind
  <2>3. CASE req'[t].at \in {"create", "toggle"} /\ ~req'[t].stale
    <3>1. req'[t] = req[t]
      BY <1>0, <2>1, <2>3, NotStale
    <3>2. review[x] \in Review /\ review[x] # Nothing
      BY <1>7, RowType DEF Reply
    <3> DEFINE row == [review[x] EXCEPT !.replied = TRUE]
    <3>3. row \in Review /\ row.product = review[x].product
          /\ row.helpful = review[x].helpful
      BY <3>2 DEF Review
    <3>4. review' = [review EXCEPT ![x] = row]
      BY <1>7 DEF Reply
    <3> HIDE DEF row
    <3>5. \A y \in Reviews : y # x => review'[y] = review[y]
      BY <3>4 DEF TypeOK
    <3>6. review'[x] = row /\ row # Nothing
      BY <3>3, <3>4, ReviewsAssumption DEF TypeOK
    <3>7. req[t].at = "toggle" => req[t].review \in Reviews
      BY <1>0, StageType
    <3> QED
      BY <3>1, <3>2, <3>3, <3>5, <3>6, <3>7, Kept
  <2> QED
    BY <2>2, <2>3
<1>8. CASE UNCHANGED vars
  BY <1>8, Kept DEF vars
<1> QED
  BY <1>1, <1>2, <1>3, <1>4, <1>5, <1>6, <1>7, <1>8 DEF Next, Step

-----------------------------------------------------------------------------
(* The inductive invariant and what follows from it.                       *)

IInv == Typed /\ FewMarks /\ FiguresAgree /\ HelpfulAgrees

LEMMA InitIInv == Init => IInv
  BY DEF Init, IInv, Typed, TypeOK, Snapshots, SeesAll, SeesMarks, FewMarks,
         FiguresAgree, HelpfulAgrees, ReviewsOf, ReviewsIn, Request, Idle

\* A new review joins the reviews and the figures of its product and its store; no
\* other step touches either.
LEMMA FiguresStep ==
  ASSUME IInv, [Next]_vars
  PROVE  FiguresAgree'
<1> USE DEF IInv, Typed
<1>1. ASSUME NEW r \in Requests, NEW x \in Reviews, CreateCommit(r, x)
      PROVE  FiguresAgree'
  <2> DEFINE q == req[r]
  <2>1. q.product \in Products /\ StoreOf[q.product] \in Stores
    BY <1>1, NewRow, ReviewsAssumption
  <2>2. q.ofProduct = ReviewsOf(q.product) /\ q.ofStore = ReviewsIn(StoreOf[q.product])
    BY <1>1 DEF CreateCommit, Snapshots, SeesAll
  <2>3. \A p \in Products : ofProduct'[p] =
          IF p = q.product THEN ReviewsOf(p) \cup {x} ELSE ReviewsOf(p)
    BY <1>1, <2>1, <2>2 DEF CreateCommit, TypeOK, FiguresAgree
  <2>4. \A s \in Stores : ofStore'[s] =
          IF s = StoreOf[q.product] THEN ReviewsIn(s) \cup {x} ELSE ReviewsIn(s)
    BY <1>1, <2>1, <2>2 DEF CreateCommit, TypeOK, FiguresAgree
  <2>5. \A p \in Products : ReviewsOf(p)' = ofProduct'[p]
    BY <1>1, <2>3, NewReviews
  <2>6. \A s \in Stores : ReviewsIn(s)' = ofStore'[s]
    BY <1>1, <2>4, NewReviews
  <2> QED
    BY <2>5, <2>6 DEF FiguresAgree
<1>2. ASSUME ofProduct' = ofProduct, ofStore' = ofStore,
             \A x \in Reviews : (review'[x] = Nothing) <=> (review[x] = Nothing),
             \A x \in Reviews : review[x] # Nothing =>
               review'[x].product = review[x].product
      PROVE  FiguresAgree'
  <2>1. \A p \in Products : ReviewsOf(p)' = ReviewsOf(p)
    BY <1>2 DEF ReviewsOf
  <2>2. \A s \in Stores : ReviewsIn(s)' = ReviewsIn(s)
    BY <1>2 DEF ReviewsIn
  <2> QED
    BY <1>2, <2>1, <2>2 DEF FiguresAgree
<1>3. ASSUME NEW r \in Requests, ToggleCommit(r)
      PROVE  FiguresAgree'
  <2>1. /\ \A x \in Reviews : (review'[x] = Nothing) <=> (review[x] = Nothing)
        /\ \A x \in Reviews : review[x] # Nothing =>
             review'[x].product = review[x].product
    BY <1>3, Marked, ReviewsAssumption
  <2> QED
    BY <1>2, <1>3, <2>1 DEF ToggleCommit
<1>4. ASSUME NEW x \in Reviews, Reply(x)
      PROVE  FiguresAgree'
  <2>1. review[x] \in Review
    BY <1>4, RowType DEF Reply
  <2>2. [review[x] EXCEPT !.replied = TRUE] \in Review
        /\ [review[x] EXCEPT !.replied = TRUE].product = review[x].product
    BY <2>1 DEF Review
  <2>3. /\ \A y \in Reviews : (review'[y] = Nothing) <=> (review[y] = Nothing)
        /\ \A y \in Reviews : review[y] # Nothing =>
             review'[y].product = review[y].product
    BY <1>4, <2>2, ReviewsAssumption DEF Reply, TypeOK
  <2> QED
    BY <1>2, <1>4, <2>3 DEF Reply
<1>5. CASE UNCHANGED <<review, ofProduct, ofStore>>
  BY <1>2, <1>5
<1> QED
  BY <1>1, <1>3, <1>4, <1>5 DEF Next, Step, vars, CreateOpen, TellSeller,
     ToggleOpen, Fail

\* Each commit of a mark moves list and count together.
LEMMA HelpfulStep ==
  ASSUME IInv, [Next]_vars
  PROVE  FewMarks' /\ HelpfulAgrees'
<1> USE DEF IInv, Typed
<1> DEFINE Exact(v) == IsFiniteSet(v.helpful) /\ v.helpfulCount = Cardinality(v.helpful)
<1>0. \A y \in Reviews : review[y] # Nothing => Exact(review[y])
  BY DEF FewMarks, HelpfulAgrees
<1> SUFFICES ASSUME NEW y \in Reviews, review'[y] # Nothing
             PROVE  Exact(review'[y])
  BY DEF FewMarks, HelpfulAgrees
<1>1. ASSUME NEW r \in Requests, NEW x \in Reviews, CreateCommit(r, x)
      PROVE  Exact(review'[y])
  <2>1. CASE y = x
    BY <1>1, <2>1, NewRow, FS_EmptySet
  <2>2. CASE y # x
    BY <1>0, <1>1, <2>2, NewRow
  <2> QED
    BY <2>1, <2>2
<1>2. ASSUME NEW r \in Requests, ToggleCommit(r)
      PROVE  Exact(review'[y])
  <2>1. PICK x \in Reviews, u \in Users :
           /\ review[x] # Nothing /\ review[x] \in Review
           /\ review'[x].helpful = MarksAfter(review[x], u)
           /\ review'[x].helpfulCount = CountAfter(review[x], u)
           /\ \A z \in Reviews : z # x => review'[z] = review[z]
    BY <1>2, Marked
  <2>2. CASE y = x
    <3> DEFINE H == review[x].helpful
    <3>1. IsFiniteSet(H) /\ review[x].helpfulCount = Cardinality(H)
      BY <1>0, <2>1
    <3>2. CASE u \in H
      <4>1. IsFiniteSet(H \ {u}) /\ Cardinality(H \ {u}) = Cardinality(H) - 1
        BY <3>1, <3>2, FS_RemoveElement
      <4> QED
        BY <2>1, <2>2, <3>1, <3>2, <4>1 DEF MarksAfter, CountAfter
    <3>3. CASE u \notin H
      <4>1. IsFiniteSet(H \cup {u}) /\ Cardinality(H \cup {u}) = Cardinality(H) + 1
        BY <3>1, <3>3, FS_AddElement
      <4> QED
        BY <2>1, <2>2, <3>1, <3>3, <4>1 DEF MarksAfter, CountAfter
    <3> QED
      BY <3>2, <3>3
  <2>3. CASE y # x
    BY <1>0, <2>1, <2>3
  <2> QED
    BY <2>2, <2>3
<1>3. ASSUME NEW x \in Reviews, Reply(x)
      PROVE  Exact(review'[y])
  <2>1. review[x] \in Review /\ review[x] # Nothing
    BY <1>3, RowType DEF Reply
  <2>2. LET row == [review[x] EXCEPT !.replied = TRUE] IN
        row.helpful = review[x].helpful /\ row.helpfulCount = review[x].helpfulCount
    BY <2>1 DEF Review
  <2>3. CASE y = x
    BY <1>0, <1>3, <2>1, <2>2, <2>3 DEF Reply, TypeOK
  <2>4. CASE y # x
    BY <1>0, <1>3, <2>4 DEF Reply, TypeOK
  <2> QED
    BY <2>3, <2>4
<1>4. CASE UNCHANGED review
  BY <1>0, <1>4
<1> QED
  BY <1>1, <1>2, <1>3, <1>4 DEF Next, Step, vars, CreateOpen, TellSeller,
     ToggleOpen, Fail

LEMMA NextIInv ==
  ASSUME IInv, [Next]_vars
  PROVE  IInv'
<1>1. Typed
  BY DEF IInv
<1> QED
  BY <1>1, TypeStep, SnapshotStep, FiguresStep, HelpfulStep DEF IInv, Typed

\* The invariant holds in every behaviour.
THEOREM Invariance == Spec => []IInv
<1>1. Init => IInv
  BY InitIInv
<1>2. IInv /\ [Next]_vars => IInv'
  BY NextIInv
<1> QED
  BY <1>1, <1>2, PTL DEF Spec

\* Reviews, figures and requests keep their types.
THEOREM TypeCorrect == Spec => []TypeOK
<1>1. IInv => TypeOK
  BY DEF IInv, Typed
<1> QED
  BY <1>1, Invariance, PTL

\* However reviews overlap, the figures of every product and of every store are of
\* exactly the reviews that are theirs.
THEOREM FiguresAreExact == Spec => []FiguresExact
<1>1. IInv => FiguresExact
  BY DEF IInv, FiguresExact
<1> QED
  BY <1>1, Invariance, PTL

LEMMA OwnMarkStep ==
  ASSUME IInv, [Next]_vars
  PROVE  \A x \in Reviews, u, v \in Users :
           /\ review[x] # Nothing
           /\ (u \in review'[x].helpful) # (u \in review[x].helpful)
           /\ (v \in review'[x].helpful) # (v \in review[x].helpful)
           => u = v
<1> USE DEF IInv, Typed
<1>1. ASSUME NEW r \in Requests, NEW y \in Reviews, CreateCommit(r, y)
      PROVE  \A x \in Reviews : review[x] # Nothing => review'[x] = review[x]
  BY <1>1, NewRow
<1>2. ASSUME NEW r \in Requests, ToggleCommit(r)
      PROVE  \E who \in Users : \A x \in Reviews, u \in Users :
               (u \in review'[x].helpful) # (u \in review[x].helpful) => u = who
  <2>1. PICK x \in Reviews, who \in Users :
           /\ review'[x].helpful = MarksAfter(review[x], who)
           /\ \A z \in Reviews : z # x => review'[z] = review[z]
    BY <1>2, Marked
  <2>2. \A u \in Users : (u \in review'[x].helpful) # (u \in review[x].helpful)
                         => u = who
    BY <2>1 DEF MarksAfter
  <2> QED
    BY <2>1, <2>2
<1>3. ASSUME NEW y \in Reviews, Reply(y)
      PROVE  \A x \in Reviews : review[x] # Nothing =>
               review'[x].helpful = review[x].helpful
  <2>1. review[y] \in Review
    BY <1>3, RowType DEF Reply
  <2>2. [review[y] EXCEPT !.replied = TRUE].helpful = review[y].helpful
    BY <2>1 DEF Review
  <2> QED
    BY <1>3, <2>2 DEF Reply, TypeOK
<1>4. CASE UNCHANGED review
  BY <1>4
<1> QED
  BY <1>1, <1>2, <1>3, <1>4 DEF Next, Step, vars, CreateOpen, TellSeller,
     ToggleOpen, Fail

\* No step changes the marks of two users: the list that is written back when a
\* mark is taken away is never an old one.
THEOREM MarksAreKept == Spec => OnlyOwnMark
<1>1. IInv /\ [Next]_vars =>
        [\A x \in Reviews, u, v \in Users :
           /\ review[x] # Nothing
           /\ (u \in review'[x].helpful) # (u \in review[x].helpful)
           /\ (v \in review'[x].helpful) # (v \in review[x].helpful)
           => u = v]_vars
  BY OwnMarkStep
<1> QED
  BY <1>1, Invariance, PTL DEF Spec, OnlyOwnMark
=============================================================================
