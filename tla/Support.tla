------------------------------- MODULE Support -------------------------------
(***************************************************************************)
(* Messaging, complaints, uploads, feedback and donations, served by one   *)
(* process and writing to one table of notifications.                      *)
(***************************************************************************)
EXTENDS Messaging, Complaints, Feedback, Donations

vars == <<req, left, cut, inboxVars, messagingVars, complaintVars,
          uploadVars, feedbackVars, donationVars>>

Init ==
  /\ InboxInit /\ MessagingInit /\ ComplaintsInit
  /\ UploadsInit /\ FeedbackInit /\ DonationsInit

\* The stages of a request before it has written a row.
Reading == {"converse", "respond", "row", "feedback", "key", "open", "insert",
            "judge"}

\* A request is refused, or dies before it has written anything (those that
\* have written have an action of their own for it).
GiveUp(r) ==
  /\ req[r].at \in Reading
  /\ Go(r, Idle)
  /\ UNCHANGED <<left, cut, inboxVars, messagingVars, complaintVars,
                 uploadVars, feedbackVars, donationVars>>

Next ==
  \/ /\ InboxNext
     /\ UNCHANGED <<messagingVars, complaintVars, uploadVars, feedbackVars, donationVars>>
  \/ MessagingNext  /\ UNCHANGED <<complaintVars, uploadVars, feedbackVars, donationVars>>
  \/ ComplaintsNext /\ UNCHANGED <<messagingVars, uploadVars, feedbackVars, donationVars>>
  \/ UploadsNext    /\ UNCHANGED <<messagingVars, complaintVars, feedbackVars, donationVars>>
  \/ FeedbackNext   /\ UNCHANGED <<messagingVars, complaintVars, donationVars>>
  \/ DonationsNext  /\ UNCHANGED <<messagingVars, complaintVars, feedbackVars>>
  \/ \E r \in Requests : GiveUp(r)

Spec == Init /\ [][Next]_vars

-----------------------------------------------------------------------------
(* The same, when what a request has read stays true until it is done, and *)
(* a proof is reviewed by one admin at a time.                             *)

Fresh ==
  \A r \in Requests : LET q == req[r] IN
    /\ q.at \in {"open", "insert"} => ~Used(q.method, q.tx)
    /\ q.at = "insert" => \A p \in ProofsOf(q.donation) : ~Pending(p)
    /\ q.at \in {"judge", "close"} =>
         /\ Pending(q.proof)
         /\ \A s \in Requests :
              req[s].at \in {"judge", "close"} /\ req[s].proof = q.proof => s = r
    /\ q.at = "respond" => complaint[q.complaint].status \notin Closed
    /\ q.at = "inform" => complaint[q.complaint].status = q.status

SerialSpec == Init /\ [][Next /\ Fresh']_vars

-----------------------------------------------------------------------------
(* Properties.                                                             *)

Topic ==
       ({"message"} \X MessageIds) \cup ({"filed", "answer"} \X ComplaintIds)
  \cup ({"status"} \X ComplaintIds \X ComplaintStatus)
  \cup ({"feedback", "thanks", "ended"} \X FeedbackIds)
  \cup ({"proof", "verdict"} \X ProofIds)

Request ==
       {Idle}
  \cup [at : {"tell"}, about : Topic, todo : SUBSET Users, after : SUBSET Users]
  \cup [at : {"converse"}, chat : Conversation]
  \cup [at : {"inform"}, complaint : ComplaintIds, status : ComplaintStatus,
        todo : SUBSET Users]
  \cup [at : {"respond"}, complaint : ComplaintIds]
  \cup [at : {"row"}, owner : Users, purpose : Purpose, file : Files]
  \cup [at : {"feedback"}, email : BOOLEAN, key : Files \cup {Nothing}]
  \cup [at : {"report"}, feedback : FeedbackIds, todo : SUBSET Users]
  \cup [at : {"thank", "mark"}, feedback : FeedbackIds]
  \cup [at : {"key", "open", "insert"}, donation : DonationIds,
        method : Methods, tx : TxIds]
  \cup [at : {"judge", "close"}, proof : ProofIds, verdict : Verdict]

TypeOK ==
  /\ req     \in [Requests -> Request]
  /\ left    \in Nat
  /\ notices \in SUBSET [to : Users, about : Topic]
  /\ seen    \in SUBSET notices
  /\ cut     \in SUBSET Topic
  /\ MessagingTypeOK /\ ComplaintsTypeOK /\ UploadsTypeOK
  /\ FeedbackTypeOK /\ DonationsTypeOK

\* Whoever has to hear of a message, a complaint, an answer, feedback, a proof
\* or a verdict has been told, is about to be, or the request that had to tell
\* them has failed after its row was written.
NobodyForgotten ==
  MessagesTold /\ ComplaintsTold /\ FeedbackTold /\ ProofsTold

\* Every file that an upload or feedback names is stored, and an admin who is
\* to decide on what it is evidence for may open it.
FilesOpen ==
  /\ \A i \in UploadIds : upload[i] # Nothing =>
       /\ upload[i].file \in files
       /\ \A u \in Admins : MayJudge(u, i) => AdminCanRead(u, i)
  /\ \A f \in FeedbackIds :
       feedback[f] # Nothing => feedback[f].key \in files \cup {Nothing}
=============================================================================
