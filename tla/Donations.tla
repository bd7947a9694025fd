------------------------------ MODULE Donations ------------------------------
(***************************************************************************)
(* Donations to the platform and the proofs of their payment:              *)
(* src/donations, src/platform-payment-methods and the donation branches   *)
(* of src/payment-submissions/payment-submissions.service.ts.              *)
(*                                                                         *)
(* Unlike the proof of an order, that of a donation claims nothing: the    *)
(* donation is not read again, and a donation that is verified accepts     *)
(* another proof.  A verdict is written to the donation and then to the    *)
(* proof, in no transaction.                                               *)
(***************************************************************************)
EXTENDS Uploads, FiniteSets

CONSTANTS
  DonationIds,  \* ids for rows of Donation (bounds how many exist)
  ProofIds,     \* ids for rows of PaymentSubmission (bounds how many exist)
  Methods,      \* ids for rows of PlatformPaymentMethod
  TxIds,        \* transaction ids
  Donors        \* the users who donate

Verdict == {"verified", "rejected"}
SubmissionStatus == {"pending"} \cup Verdict

VARIABLES
  method,    \* PlatformPaymentMethod.isActive
  donation,  \* rows of Donation
  proof      \* rows of PaymentSubmission with a donationId

donationVars == <<method, donation, proof>>

\* Some donations may have been made, whose proofs are still to come.
DonationsInit ==
  /\ method   = [m \in Methods |-> TRUE]
  /\ donation \in [DonationIds ->
       {Nothing} \cup [donor : Donors, status : {"pending"}]]
  /\ proof    = [p \in ProofIds |-> Nothing]

Donation == [donor : Users, status : SubmissionStatus]
Proof == [donation : DonationIds, method : Methods, tx : TxIds,
          status : SubmissionStatus]

\* The route is for buyers and sellers.
ASSUME DonationsAssumption ==
  Donors \subseteq Users \ Admins /\ Nothing \notin Donation \cup Proof

ProofsOf(d) == {p \in ProofIds : proof[p] # Nothing /\ proof[p].donation = d}
Pending(p)  == proof[p] # Nothing /\ proof[p].status = "pending"

\* transactionKey joins the method and the transaction id.
Used(m, t) ==
  \E p \in ProofIds : proof[p] # Nothing /\ proof[p].method = m /\ proof[p].tx = t

Donate(u, d) ==
  /\ Spend
  /\ donation[d] = Nothing
  /\ donation' = [donation EXCEPT ![d] = [donor |-> u, status |-> "pending"]]
  /\ UNCHANGED <<req, inboxVars, cut, uploadVars, method, proof>>

\* An admin changes a payment method (update), or removes it for good.
SetMethod(m, active) ==
  /\ Spend
  /\ method[m] \notin {Nothing, active}
  /\ method' = [method EXCEPT ![m] = active]
  /\ UNCHANGED <<req, inboxVars, cut, uploadVars, donation, proof>>

-----------------------------------------------------------------------------
(* create, for a donation.                                                 *)

\* The donation and the method are read; the checks on the amount and the date
\* only refuse.
SubmitRead(r, u, d, m, t) ==
  /\ donation[d] # Nothing
  /\ donation[d].donor = u
  /\ method[m] = TRUE
  /\ Begin(r, [at |-> "key", donation |-> d, method |-> m, tx |-> t])
  /\ UNCHANGED <<inboxVars, cut, uploadVars, donationVars>>

SubmitCheckKey(r) ==
  /\ req[r].at = "key"
  /\ ~Used(req[r].method, req[r].tx)
  /\ Go(r, [req[r] EXCEPT !.at = "open"])
  /\ UNCHANGED <<left, inboxVars, cut, uploadVars, donationVars>>

SubmitCheckOpen(r) ==
  /\ req[r].at = "open"
  /\ \A p \in ProofsOf(req[r].donation) : ~Pending(p)
  /\ Go(r, [req[r] EXCEPT !.at = "insert"])
  /\ UNCHANGED <<left, inboxVars, cut, uploadVars, donationVars>>

\* The transaction has only the insert in it.
SubmitInsert(r, p) ==
  /\ req[r].at = "insert"
  /\ proof[p] = Nothing
  /\ proof' = [proof EXCEPT ![p] =
       [donation |-> req[r].donation, method |-> req[r].method,
        tx |-> req[r].tx, status |-> "pending"]]
  /\ Go(r, Telling(<<"proof", p>>, Admins, {}))
  /\ UNCHANGED <<left, inboxVars, cut, uploadVars, method, donation>>

-----------------------------------------------------------------------------
(* verify, for a donation, by an admin.                                    *)

VerifyRead(r, p, verdict) ==
  /\ \E u \in Admins : Allowed(u, "finance.manage")
  /\ Pending(p)
  /\ Begin(r, [at |-> "judge", proof |-> p, verdict |-> verdict])
  /\ UNCHANGED <<inboxVars, cut, uploadVars, donationVars>>

\* Mutant of VerifyDonation: a rejection leaves the donation as it is.
VerifyDonationIfPaid(r) ==
  /\ req[r].at = "judge"
  /\ donation' = IF req[r].verdict = "verified"
                 THEN [donation EXCEPT ![proof[req[r].proof].donation].status = "verified"]
                 ELSE donation
  /\ Go(r, [req[r] EXCEPT !.at = "close"])
  /\ UNCHANGED <<left, inboxVars, cut, uploadVars, method, proof>>

VerifyDonation(r) ==
  /\ req[r].at = "judge"
  /\ donation' = [donation EXCEPT ![proof[req[r].proof].donation].status =
                    req[r].verdict]
  /\ Go(r, [req[r] EXCEPT !.at = "close"])
  /\ UNCHANGED <<left, inboxVars, cut, uploadVars, method, proof>>

VerifyProof(r) ==
  /\ req[r].at = "close"
  /\ LET p == req[r].proof IN
       /\ proof' = [proof EXCEPT ![p].status = req[r].verdict]
       /\ Go(r, Telling(<<"verdict", p>>, {donation[proof[p].donation].donor}, {}))
  /\ UNCHANGED <<left, inboxVars, cut, uploadVars, method, donation>>

\* The request dies with the verdict on the donation and the proof still open.
VerifyDies(r) ==
  /\ req[r].at = "close"
  /\ Go(r, Idle)
  /\ UNCHANGED <<left, inboxVars, cut, uploadVars, donationVars>>

DonationsNext ==
  \/ \E u \in Donors, d \in DonationIds :
       \/ Donate(u, d)
       \/ \E r \in Requests, m \in Methods, t \in TxIds : SubmitRead(r, u, d, m, t)
  \/ \E m \in Methods, active \in BOOLEAN \cup {Nothing} : SetMethod(m, active)
  \/ \E r \in Requests :
       \/ SubmitCheckKey(r) \/ SubmitCheckOpen(r)
       \/ \E p \in ProofIds :
            \/ SubmitInsert(r, p)
            \/ \E verdict \in Verdict : VerifyRead(r, p, verdict)
       \/ VerifyDonation(r) \/ VerifyProof(r) \/ VerifyDies(r)

DonationsTypeOK ==
  /\ method   \in [Methods -> BOOLEAN \cup {Nothing}]
  /\ donation \in [DonationIds -> Donation \cup {Nothing}]
  /\ proof    \in [ProofIds -> Proof \cup {Nothing}]

\* The admins are told of a proof, and the donor of the verdict on it.
ProofsTold ==
  \A p \in ProofIds : proof[p] # Nothing =>
    /\ \A u \in Admins : ToldOrLost(u, <<"proof", p>>)
    /\ proof[p].status # "pending" =>
         ToldOrLost(donation[proof[p].donation].donor, <<"verdict", p>>)

\* A donation has one proof under review at a time; where its proofs are all
\* reviewed, the donation has the verdict of one of them, and without a proof it
\* is pending.
DonationDecided ==
  \A d \in DonationIds : LET open == {p \in ProofsOf(d) : Pending(p)} IN
    /\ Cardinality(open) <= 1
    /\ donation[d] # Nothing /\ open = {} =>
         \/ ProofsOf(d) = {} /\ donation[d].status = "pending"
         \/ \E p \in ProofsOf(d) : proof[p].status = donation[d].status
=============================================================================
