------------------------------ MODULE Feedback ------------------------------
(***************************************************************************)
(* Feedback from anybody: src/feedback/feedback.controller.ts and          *)
(* feedback.service.ts.                                                    *)
(*                                                                         *)
(* An attachment is stored, the row is inserted, the admins are told, a    *)
(* mail of thanks is sent and that it was sent is written to the row: five *)
(* effects one after the other, of which the third and the fourth may fail *)
(* and the request goes on.  The process may end between any two of them.  *)
(***************************************************************************)
EXTENDS Uploads

CONSTANTS
  FeedbackIds   \* ids for rows of Feedback (bounds how many exist)

FeedbackStatus == {"new", "in_review", "resolved", "archived"}

VARIABLES
  feedback,  \* rows of Feedback
  mailed     \* the feedback whose sender was sent thanks (outside the database)

feedbackVars == <<feedback, mailed>>

FeedbackInit ==
  /\ feedback = [f \in FeedbackIds |-> Nothing]
  /\ mailed   = {}

\* email says whether there is an address, key names the attachment, thanked
\* says whether acknowledgementSentAt is set.
FeedbackRow == [email : BOOLEAN, key : Files \cup {Nothing},
                status : FeedbackStatus, isRead : BOOLEAN, thanked : BOOLEAN]

ASSUME FeedbackAssumption == Nothing \notin FeedbackRow

\* The controller stores the attachment, before the service looks at the text.
Attach(r, email, key) ==
  /\ IF key = Nothing THEN UNCHANGED files ELSE Stored(key)
  /\ Begin(r, [at |-> "feedback", email |-> email, key |-> key])
  /\ UNCHANGED <<inboxVars, cut, upload, grants, feedbackVars>>

\* What is left to do once the admins are told.
Thanks(f) ==
  IF feedback'[f].email THEN [at |-> "thank", feedback |-> f] ELSE Idle

Reporting(f, todo) ==
  IF todo = {} THEN Thanks(f) ELSE [at |-> "report", feedback |-> f, todo |-> todo]

FeedbackInsert(r, f) ==
  /\ req[r].at = "feedback"
  /\ feedback[f] = Nothing
  /\ feedback' = [feedback EXCEPT ![f] =
       [email |-> req[r].email, key |-> req[r].key,
        status |-> "new", isRead |-> FALSE, thanked |-> FALSE]]
  /\ Go(r, Reporting(f, Admins))
  /\ UNCHANGED <<left, inboxVars, cut, uploadVars, mailed>>

Report(r, u) ==
  /\ req[r].at = "report"
  /\ u \in req[r].todo
  /\ Write(Notice(u, <<"feedback", req[r].feedback>>))
  /\ UNCHANGED <<left, cut, uploadVars, feedbackVars>>
  /\ Go(r, Reporting(req[r].feedback, req[r].todo \ {u}))

\* Mutant of ReportFails: the error is not caught.
ReportThrows(r) ==
  /\ req[r].at = "report"
  /\ cut' = cut \cup {<<"feedback", req[r].feedback>>}
  /\ UNCHANGED <<left, inboxVars, uploadVars, feedbackVars>>
  /\ Go(r, Idle)

\* The error is caught: the sender is thanked all the same.
ReportFails(r) ==
  /\ req[r].at = "report"
  /\ cut' = cut \cup {<<"feedback", req[r].feedback>>}
  /\ UNCHANGED <<left, inboxVars, uploadVars, feedbackVars>>
  /\ Go(r, Thanks(req[r].feedback))

\* The process ends before the admins are told, or the sender is thanked.
ReportDies(r) ==
  /\ req[r].at = "report"
  /\ cut' = cut \cup {<<"feedback", req[r].feedback>>, <<"ended", req[r].feedback>>}
  /\ UNCHANGED <<left, inboxVars, uploadVars, feedbackVars>>
  /\ Go(r, Idle)

\* sendAcknowledgement
Thank(r) ==
  /\ req[r].at = "thank"
  /\ mailed' = mailed \cup {req[r].feedback}
  /\ Go(r, [at |-> "mark", feedback |-> req[r].feedback])
  /\ UNCHANGED <<left, inboxVars, cut, uploadVars, feedback>>

\* No mail server is configured, or it refuses, or the settings cannot be read:
\* the row is not marked.  The process ends here to the same effect.
ThankFails(r) ==
  /\ req[r].at = "thank"
  /\ cut' = cut \cup {<<"thanks", req[r].feedback>>}
  /\ Go(r, Idle)
  /\ UNCHANGED <<left, inboxVars, uploadVars, feedbackVars>>

MarkThanked(r) ==
  /\ req[r].at = "mark"
  /\ feedback' = [feedback EXCEPT ![req[r].feedback].thanked = TRUE]
  /\ Go(r, Idle)
  /\ UNCHANGED <<left, inboxVars, cut, uploadVars, mailed>>

\* The process ends, or the update fails, with the mail sent and the row not
\* marked.
MarkDies(r) ==
  /\ req[r].at = "mark"
  /\ cut' = cut \cup {<<"ended", req[r].feedback>>}
  /\ Go(r, Idle)
  /\ UNCHANGED <<left, inboxVars, uploadVars, feedbackVars>>

\* update and markRead, of an admin.
Triage(f, s) ==
  /\ Spend
  /\ feedback[f] # Nothing
  /\ feedback[f].status # s
  /\ feedback' = [feedback EXCEPT ![f].status = s]
  /\ UNCHANGED <<req, inboxVars, cut, uploadVars, mailed>>

MarkFeedbackRead(f) ==
  /\ Spend
  /\ feedback[f] # Nothing
  /\ ~feedback[f].isRead
  /\ feedback' = [feedback EXCEPT ![f].isRead = TRUE]
  /\ UNCHANGED <<req, inboxVars, cut, uploadVars, mailed>>

FeedbackNext ==
  \/ \E r \in Requests :
       \/ \E email \in BOOLEAN, key \in Files \cup {Nothing} : Attach(r, email, key)
       \/ \E f \in FeedbackIds : FeedbackInsert(r, f)
       \/ \E u \in Users : Report(r, u)
       \/ ReportFails(r) \/ ReportDies(r)
       \/ Thank(r) \/ ThankFails(r) \/ MarkThanked(r) \/ MarkDies(r)
  \/ \E f \in FeedbackIds :
       \/ \E s \in FeedbackStatus : Triage(f, s)
       \/ MarkFeedbackRead(f)

FeedbackTypeOK ==
  /\ feedback \in [FeedbackIds -> FeedbackRow \cup {Nothing}]
  /\ mailed   \in SUBSET FeedbackIds

\* The admins are told of feedback.
FeedbackTold ==
  \A f \in FeedbackIds : feedback[f] # Nothing =>
    \A u \in Admins :
      \/ ToldOrLost(u, <<"feedback", f>>)
      \/ \E r \in Requests : /\ req[r].at = "report"
                             /\ req[r].feedback = f /\ u \in req[r].todo

\* Whoever left an address is sent thanks, or the request that has to is on its
\* way there, or mailing itself failed, or the process ended: that the admins
\* could not be told is no reason.  A row is marked when, and only when, the mail
\* was sent, but for a request that ended between the two.
Acknowledged ==
  \A f \in FeedbackIds : feedback[f] # Nothing =>
    /\ feedback[f].thanked => f \in mailed
    /\ f \in mailed => \/ feedback[f].thanked
                       \/ <<"ended", f>> \in cut
                       \/ \E r \in Requests : req[r].at = "mark" /\ req[r].feedback = f
    /\ feedback[f].email =>
         \/ f \in mailed
         \/ <<"thanks", f>> \in cut \/ <<"ended", f>> \in cut
         \/ \E r \in Requests : /\ req[r].at \in {"report", "thank"}
                                /\ req[r].feedback = f
=============================================================================
