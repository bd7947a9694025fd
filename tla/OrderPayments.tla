---------------------------- MODULE OrderPayments ----------------------------
(***************************************************************************)
(* Payment proofs for orders: the order branches of                        *)
(* src/payment-submissions/payment-submissions.service.ts, composed with   *)
(* the requests of Orders, which work on the same rows.                    *)
(*                                                                         *)
(* A buyer pays outside the system and submits a proof; the submission     *)
(* claims the order in one transaction.  A seller or an admin then gives a *)
(* verdict.  verify is NOT a transaction: it writes the order, the history *)
(* and the proof one after the other, each on rows read before.            *)
(***************************************************************************)
EXTENDS Orders

CONSTANTS
  ProofIds,     \* ids for rows of PaymentSubmission (bounds the proofs)
  Keys,         \* PaymentSubmission.transactionKey: method and transaction id
  Clerks,       \* payment requests the server handles at a time
  MaxFailures,  \* how many of them may die between two of their writes
  NoProof       \* a row that does not exist yet

ASSUME OrderPaymentsAssumption ==
  /\ MaxFailures \in Nat
  /\ NoProof \notin [order : OrderIds, key : Keys,
                     status : {"pending", "verified", "rejected"}]

Verdict == {"verified", "rejected"}
Proof == [order : OrderIds, key : Keys, status : {"pending"} \cup Verdict]

\* A notification about a proof: its submission, or the verdict on it.
Slip == [proof : ProofIds, about : {"pending"} \cup Verdict]

Duty ==
       {Idle}
  \cup [at : {"key", "open", "claim"}, order : OrderIds, key : Keys]
  \cup [at : {"order"}, proof : ProofIds, order : OrderIds, verdict : Verdict]
  \cup [at : {"settle", "log", "close"}, proof : ProofIds, order : OrderIds,
        verdict : Verdict, next : OrderStatus]
  \cup [at : {"tell"}, slip : Slip]

VARIABLES
  proof,     \* rows of PaymentSubmission
  slips,     \* rows of Notification about proofs
  desk,      \* the payment requests in progress
  failures   \* how many died between two writes so far

payVars == <<proof, slips, desk, failures>>
allVars == <<vars, payVars>>

PayInit ==
  /\ Init
  /\ proof    = [s \in ProofIds |-> NoProof]
  /\ slips    = {}
  /\ desk     = [c \in Clerks |-> Idle]
  /\ failures = 0

ProofsOf(o) == {s \in ProofIds : proof[s] # NoProof /\ proof[s].order = o}
Pending(s)  == proof[s] # NoProof /\ proof[s].status = "pending"

Accepting(o) ==
  /\ status[o] \notin {"none", "cancelled", "delivered"}
  /\ payment[o] \in {"unpaid", "rejected"}

Become(c, duty) == desk' = [desk EXCEPT ![c] = duty]

-----------------------------------------------------------------------------
(* create, for an order.                                                   *)

\* Read the order.  The checks on the payment method, the amount and the date
\* only refuse (GiveUp).
SubmitRead(c, u, o, k) ==
  /\ desk[c] = Idle
  /\ Accepting(o)
  /\ u = terms[o].buyer
  /\ Become(c, [at |-> "key", order |-> o, key |-> k])
  /\ UNCHANGED <<vars, proof, slips, failures>>

\* Mutant of SubmitCheckOpen: it finds nothing.
SubmitSkipOpen(c) ==
  /\ desk[c].at = "open"
  /\ Become(c, [desk[c] EXCEPT !.at = "claim"])
  /\ UNCHANGED <<vars, proof, slips, failures>>

\* findFirst({ transactionKey }): the index on the column is not unique.
SubmitCheckKey(c) ==
  /\ desk[c].at = "key"
  /\ \A s \in ProofIds : proof[s] # NoProof => proof[s].key # desk[c].key
  /\ Become(c, [desk[c] EXCEPT !.at = "open"])
  /\ UNCHANGED <<vars, proof, slips, failures>>

\* findFirst({ status: 'pending', orderId })
SubmitCheckOpen(c) ==
  /\ desk[c].at = "open"
  /\ \A s \in ProofsOf(desk[c].order) : ~Pending(s)
  /\ Become(c, [desk[c] EXCEPT !.at = "claim"])
  /\ UNCHANGED <<vars, proof, slips, failures>>

\* The transaction claims the order under a condition and inserts the proof.
SubmitCommit(c, s) ==
  /\ desk[c].at = "claim"
  /\ proof[s] = NoProof
  /\ LET o == desk[c].order IN
       /\ Accepting(o)
       /\ payment' = [payment EXCEPT ![o] = "pending_verification"]
       /\ proof' = [proof EXCEPT ![s] =
            [order |-> o, key |-> desk[c].key, status |-> "pending"]]
  /\ Become(c, [at |-> "tell", slip |-> [proof |-> s, about |-> "pending"]])
  /\ UNCHANGED <<goods, status, restored, terms, history, inbox, req,
                 slips, failures>>

-----------------------------------------------------------------------------
(* verify, for an order.                                                   *)

\* Mutant of VerifyRead: a reviewed proof may be reviewed again.
VerifyReadAny(c, s, verdict) ==
  /\ desk[c] = Idle
  /\ proof[s] # NoProof
  /\ Become(c, [at |-> "order", proof |-> s, order |-> proof[s].order,
                verdict |-> verdict])
  /\ UNCHANGED <<vars, proof, slips, failures>>

VerifyRead(c, s, verdict) ==
  /\ desk[c] = Idle
  /\ Pending(s)
  /\ Become(c, [at |-> "order", proof |-> s, order |-> proof[s].order,
                verdict |-> verdict])
  /\ UNCHANGED <<vars, proof, slips, failures>>

\* The status a verified payment gives the order.
NextStatus(o) == IF status[o] = "pending" THEN "confirmed" ELSE status[o]

\* Read the order and fix that status.
VerifyReadOrder(c, u) ==
  /\ desk[c].at = "order"
  /\ LET o == desk[c].order IN
       /\ u \in Admins \/ u = terms[o].seller
       /\ Become(c, [at |-> "settle", proof |-> desk[c].proof, order |-> o,
                     verdict |-> desk[c].verdict,
                     next |-> NextStatus(o)])
  /\ UNCHANGED <<vars, proof, slips, failures>>

VerifyAccept(c) ==
  /\ desk[c].at = "settle"
  /\ desk[c].verdict = "verified"
  /\ payment' = [payment EXCEPT ![desk[c].order] = "paid"]
  /\ status'  = [status EXCEPT ![desk[c].order] = desk[c].next]
  /\ Become(c, [desk[c] EXCEPT !.at = "log"])
  /\ UNCHANGED <<goods, restored, terms, history, inbox, req,
                 proof, slips, failures>>

VerifyLog(c) ==
  /\ desk[c].at = "log"
  /\ history' = [history EXCEPT ![desk[c].order] = @ \cup {desk[c].next}]
  /\ Become(c, [desk[c] EXCEPT !.at = "close"])
  /\ UNCHANGED <<goods, status, payment, restored, terms, inbox, req,
                 proof, slips, failures>>

\* Mutant of VerifyReject: the order is left as it is.
VerifyRejectProofOnly(c) ==
  /\ desk[c].at = "settle"
  /\ desk[c].verdict = "rejected"
  /\ Become(c, [desk[c] EXCEPT !.at = "close"])
  /\ UNCHANGED <<vars, proof, slips, failures>>

VerifyReject(c) ==
  /\ desk[c].at = "settle"
  /\ desk[c].verdict = "rejected"
  /\ payment' = [payment EXCEPT ![desk[c].order] = "rejected"]
  /\ Become(c, [desk[c] EXCEPT !.at = "close"])
  /\ UNCHANGED <<goods, status, restored, terms, history, inbox, req,
                 proof, slips, failures>>

\* The proof is written last, without looking at its status again.
VerifyClose(c) ==
  /\ desk[c].at = "close"
  /\ LET s == desk[c].proof IN
       /\ proof' = [proof EXCEPT ![s].status = desk[c].verdict]
       /\ Become(c, [at |-> "tell",
                     slip |-> [proof |-> s, about |-> desk[c].verdict]])
  /\ UNCHANGED <<vars, slips, failures>>

Tell(c) ==
  /\ desk[c].at = "tell"
  /\ slips' = slips \cup {desk[c].slip}
  /\ Become(c, Idle)
  /\ UNCHANGED <<vars, proof, failures>>

\* A payment request ends before it has written anything.
GiveUp(c) ==
  /\ desk[c].at \in {"key", "open", "claim", "order", "settle"}
  /\ Become(c, Idle)
  /\ UNCHANGED <<vars, proof, slips, failures>>

\* A payment request dies between two of its writes: what it wrote stays.
Die(c) ==
  /\ desk[c].at \in {"log", "close", "tell"}
  /\ failures < MaxFailures
  /\ failures' = failures + 1
  /\ Become(c, Idle)
  /\ UNCHANGED <<vars, proof, slips>>

PayStep(c) ==
  \/ SubmitCheckKey(c)
  \/ SubmitCheckOpen(c)
  \/ \E s \in ProofIds : SubmitCommit(c, s)
  \/ \E u \in Users : VerifyReadOrder(c, u)
  \/ VerifyAccept(c) \/ VerifyLog(c) \/ VerifyReject(c) \/ VerifyClose(c)
  \/ Tell(c)

PayBegin(c) ==
  \/ \E u \in Users, o \in OrderIds, k \in Keys : SubmitRead(c, u, o, k)
  \/ \E s \in ProofIds, v \in Verdict : VerifyRead(c, s, v)

PayNext ==
  \/ Next /\ UNCHANGED payVars
  \/ \E c \in Clerks : PayBegin(c) \/ PayStep(c) \/ GiveUp(c) \/ Die(c)

PaySpec == PayInit /\ [][PayNext]_allVars

-----------------------------------------------------------------------------
(* The same, with the requests on one order served one at a time.          *)

Serves(c, o) ==
  /\ desk[c].at \notin {"idle", "tell"}
  /\ desk[c].order = o

AloneAtDesk ==
  \A c \in Clerks, o \in OrderIds :
    Serves(c, o) =>
      /\ \A d \in Clerks : Serves(d, o) => d = c
      /\ \A r \in Requests : ~Holds(r, o)

PaySerialSpec ==
  PayInit /\ [][PayNext /\ OneAtATime' /\ AloneAtDesk']_allVars

-----------------------------------------------------------------------------
(* Properties.                                                             *)

PayTypeOK ==
  /\ TypeOK
  /\ proof    \in [ProofIds -> Proof \cup {NoProof}]
  /\ slips    \in SUBSET Slip
  /\ desk     \in [Clerks -> Duty]
  /\ failures \in Nat

\* An order under review, which nobody can cancel, always has a proof that can
\* still be reviewed: no order is stuck in pending_verification, whatever
\* requests overlap and wherever they die.
UnderReviewHasProof ==
  \A o \in OrderIds :
    payment[o] = "pending_verification" => \E s \in ProofsOf(o) : Pending(s)

\* Nobody is told a verdict that was never given: a slip about a verdict is of
\* a proof that has been reviewed.
SlipsFollowReview ==
  \A n \in slips : n.about \in Verdict => ~Pending(n.proof)

\* An order has at most one proof waiting for review.
OnePendingProof ==
  \A o \in OrderIds : Cardinality({s \in ProofsOf(o) : Pending(s)}) <= 1

\* A verified proof has paid for its order, and a paid order has a proof that
\* was verified (or is still open because its review died half-way).
VerifiedIffPaid ==
  /\ \A s \in ProofIds :
       proof[s] # NoProof /\ proof[s].status = "verified"
         => payment[proof[s].order] = "paid"
  /\ \A o \in OrderIds :
       payment[o] = "paid" =>
         \E s \in ProofsOf(o) : proof[s].status \in {"pending", "verified"}

\* A cancelled order has no proof under review.
CancelledNotUnderReview ==
  \A o \in OrderIds :
    status[o] = "cancelled" => payment[o] # "pending_verification"

\* No transaction of a payment method is used for two proofs.
KeyUsedOnce ==
  \A s, t \in ProofIds :
    /\ proof[s] # NoProof /\ proof[t] # NoProof
    /\ proof[s].key = proof[t].key
    => s = t
=============================================================================
