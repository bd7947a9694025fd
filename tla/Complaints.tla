----------------------------- MODULE Complaints -----------------------------
(***************************************************************************)
(* Complaints and what becomes of them:                                    *)
(* src/complaints/complaints.service.ts.                                   *)
(*                                                                         *)
(* An admin may give a complaint any status at any time; the accused may   *)
(* answer until it is closed.  Neither write has a condition.  resolvedBy, *)
(* resolvedAt and the resolution are written with the status and left out. *)
(***************************************************************************)
EXTENDS Inbox

CONSTANTS
  ComplaintIds,  \* ids for rows of Complaint (bounds how many exist)
  Targets        \* what can be complained of

ComplaintStatus == {"open", "investigating", "resolved", "dismissed"}
Closed == {"resolved", "dismissed"}

Target ==
       [type : {"order"}, buyer : Users, seller : Users]
  \cup [type : {"product", "store", "user"}, owner : Users]

VARIABLES
  complaint,  \* rows of Complaint
  word        \* the status in a user's newest notification about a complaint

complaintVars == <<complaint, word>>

ComplaintsInit ==
  /\ complaint = [c \in ComplaintIds |-> Nothing]
  /\ word      = [c \in ComplaintIds |-> [u \in Users |-> Nothing]]

Complaint == [by : Users, against : Users, status : ComplaintStatus,
              answered : BOOLEAN]

ASSUME ComplaintsAssumption ==
  Targets \subseteq Target /\ Nothing \notin Complaint

Parties(c) == {complaint[c].by, complaint[c].against}

\* resolveAgainstUserId: nobody, if the order is not the complainant's.
Accused(u, t) ==
  IF t.type # "order" THEN {t.owner}
  ELSE IF u = t.buyer THEN {t.seller}
  ELSE IF u = t.seller THEN {t.buyer}
  ELSE {}

\* Mutant of File: the admins are not told.
FileQuietly(r, u, t, c) ==
  /\ complaint[c] = Nothing
  /\ \E v \in Accused(u, t) \ {u} :
       /\ complaint' = [complaint EXCEPT ![c] =
            [by |-> u, against |-> v, status |-> "open", answered |-> FALSE]]
       /\ Begin(r, Telling(<<"filed", c>>, {v}, {}))
  /\ UNCHANGED <<inboxVars, cut, word>>

\* create: the accused is told, and then the admins.
File(r, u, t, c) ==
  /\ complaint[c] = Nothing
  /\ \E v \in Accused(u, t) \ {u} :
       /\ complaint' = [complaint EXCEPT ![c] =
            [by |-> u, against |-> v, status |-> "open", answered |-> FALSE]]
       /\ Begin(r, Telling(<<"filed", c>>, {v}, Admins))
  /\ UNCHANGED <<inboxVars, cut, word>>

Informing(c, s, todo) ==
  IF todo = {} THEN Idle
  ELSE [at |-> "inform", complaint |-> c, status |-> s, todo |-> todo]

\* updateStatus
UpdateStatus(r, c, s) ==
  /\ complaint[c] # Nothing
  /\ complaint' = [complaint EXCEPT ![c].status = s]
  /\ Begin(r, Informing(c, s, Parties(c)))
  /\ UNCHANGED <<inboxVars, cut, word>>

\* Mutant of Inform: whoever is told first is the only one.
InformOne(r, u) ==
  /\ req[r].at = "inform"
  /\ u \in req[r].todo
  /\ LET c == req[r].complaint
         s == req[r].status IN
       /\ Write(Notice(u, <<"status", c, s>>))
       /\ word' = [word EXCEPT ![c][u] = s]
       /\ Go(r, Idle)
  /\ UNCHANGED <<left, cut, complaint>>

Inform(r, u) ==
  /\ req[r].at = "inform"
  /\ u \in req[r].todo
  /\ LET c == req[r].complaint
         s == req[r].status IN
       /\ Write(Notice(u, <<"status", c, s>>))
       /\ word' = [word EXCEPT ![c][u] = s]
       /\ Go(r, Informing(c, s, req[r].todo \ {u}))
  /\ UNCHANGED <<left, cut, complaint>>

InformDies(r) ==
  /\ req[r].at = "inform"
  /\ cut' = cut \cup {<<"status", req[r].complaint, req[r].status>>}
  /\ Go(r, Idle)
  /\ UNCHANGED <<left, inboxVars, complaintVars>>

\* respond
RespondRead(r, u, c) ==
  /\ complaint[c] # Nothing
  /\ complaint[c].against = u
  /\ complaint[c].status \notin Closed
  /\ Begin(r, [at |-> "respond", complaint |-> c])
  /\ UNCHANGED <<inboxVars, cut, complaintVars>>

RespondWrite(r) ==
  /\ req[r].at = "respond"
  /\ complaint' = [complaint EXCEPT ![req[r].complaint].answered = TRUE]
  /\ Go(r, Telling(<<"answer", req[r].complaint>>, Admins, {}))
  /\ UNCHANGED <<left, inboxVars, cut, word>>

ComplaintsNext ==
  \E r \in Requests :
    \/ \E c \in ComplaintIds :
         \/ \E u \in Users : RespondRead(r, u, c) \/ \E t \in Targets : File(r, u, t, c)
         \/ \E s \in ComplaintStatus : UpdateStatus(r, c, s)
    \/ \E u \in Users : Inform(r, u)
    \/ InformDies(r) \/ RespondWrite(r)

ComplaintsTypeOK ==
  /\ complaint \in [ComplaintIds -> Complaint \cup {Nothing}]
  /\ word \in [ComplaintIds -> [Users -> ComplaintStatus \cup {Nothing}]]

\* The accused and the admins are told of a complaint, the admins of an answer.
ComplaintsTold ==
  \A c \in ComplaintIds : complaint[c] # Nothing =>
    /\ \A u \in {complaint[c].against} \cup Admins : ToldOrLost(u, <<"filed", c>>)
    /\ complaint[c].answered => \A u \in Admins : ToldOrLost(u, <<"answer", c>>)

\* What the two parties were told last is the complaint's status, unless they
\* are being told of it or the request that had to tell them has failed.
LastWordTold ==
  \A c \in ComplaintIds : complaint[c] # Nothing =>
    LET s == complaint[c].status IN
    \A u \in Parties(c) :
      \/ word[c][u] = s
      \/ word[c][u] = Nothing /\ s = "open"
      \/ <<"status", c, s>> \in cut
      \/ \E r \in Requests : /\ req[r].at = "inform"
                             /\ req[r].complaint = c /\ u \in req[r].todo
=============================================================================
