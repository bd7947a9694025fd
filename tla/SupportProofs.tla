---------------------------- MODULE SupportProofs ----------------------------
(***************************************************************************)
(* What Support promises whatever the users, ids and requests are, however *)
(* requests overlap and wherever they die.                                 *)
(***************************************************************************)
EXTENDS Support, FiniteSetTheorems, TLAPS

-----------------------------------------------------------------------------
(* Type correctness.  TypeOK is not inductive: most requests change a row  *)
(* they have found before, so that row must exist, and no row may refer to *)
(* one that does not.                                                      *)

MessagingRows ==
  \A m \in MessageIds :
    message[m] # Nothing => conversation[message[m].in] # Nothing

ComplaintRows ==
  \A r \in Requests :
    req[r].at \in {"inform", "respond"} => complaint[req[r].complaint] # Nothing

FeedbackRows ==
  \A r \in Requests :
    req[r].at \in {"report", "thank", "mark"} => feedback[req[r].feedback] # Nothing

DonationRows ==
  /\ \A p \in ProofIds :
       proof[p] # Nothing => donation[proof[p].donation] # Nothing
  /\ \A r \in Requests : LET q == req[r] IN
       /\ q.at \in {"key", "open", "insert"} => donation[q.donation] # Nothing
       /\ q.at \in {"judge", "close"} => proof[q.proof] # Nothing

Typed ==
  TypeOK /\ MessagingRows /\ ComplaintRows /\ FeedbackRows /\ DonationRows

InboxTypeOK ==
  /\ left    \in Nat
  /\ notices \in SUBSET [to : Users, about : Topic]
  /\ seen    \in SUBSET notices
  /\ cut     \in SUBSET Topic

\* A request in a given stage has the fields of that stage.
LEMMA StageType ==
  ASSUME TypeOK, NEW r \in Requests
  PROVE  /\ req[r].at = "tell" =>
              req[r] \in [at : {"tell"}, about : Topic, todo : SUBSET Users,
                          after : SUBSET Users]
         /\ req[r].at = "converse" =>
              req[r] \in [at : {"converse"}, chat : Conversation]
         /\ req[r].at = "inform" =>
              req[r] \in [at : {"inform"}, complaint : ComplaintIds,
                          status : ComplaintStatus, todo : SUBSET Users]
         /\ req[r].at = "respond" =>
              req[r] \in [at : {"respond"}, complaint : ComplaintIds]
         /\ req[r].at = "row" =>
              req[r] \in [at : {"row"}, owner : Users, purpose : Purpose, file : Files]
         /\ req[r].at = "feedback" =>
              req[r] \in [at : {"feedback"}, email : BOOLEAN, key : Files \cup {Nothing}]
         /\ req[r].at = "report" =>
              req[r] \in [at : {"report"}, feedback : FeedbackIds, todo : SUBSET Users]
         /\ req[r].at \in {"thank", "mark"} =>
              req[r] \in [at : {"thank", "mark"}, feedback : FeedbackIds]
         /\ req[r].at \in {"key", "open", "insert"} =>
              req[r] \in [at : {"key", "open", "insert"}, donation : DonationIds,
                          method : Methods, tx : TxIds]
         /\ req[r].at \in {"judge", "close"} =>
              req[r] \in [at : {"judge", "close"}, proof : ProofIds, verdict : Verdict]
<1>1. req[r] \in Request
  BY DEF TypeOK
<1> QED
  BY <1>1 DEF Request, Idle

\* What a request goes on to is the only thing that changes in req.
LEMMA GoType ==
  ASSUME req \in [Requests -> Request], NEW r \in Requests,
         NEW x \in Request, Go(r, x)
  PROVE  /\ req' \in [Requests -> Request]
         /\ req'[r] = x
         /\ \A s \in Requests \ {r} : req'[s] = req[s]
  BY DEF Go

\* An idle request is a request.
LEMMA IdleType == Idle \in Request /\ Idle.at = "idle"
  BY DEF Request, Idle

\* Whoever begins was idle, and one request fewer may begin.
LEMMA BeginsIdle ==
  ASSUME req \in [Requests -> Request], NEW r \in Requests, NEW x, Begin(r, x)
  PROVE  req[r].at = "idle" /\ Go(r, x) /\ left > 0 /\ left' = left - 1
  BY IdleType DEF Begin, Spend

\* The count of requests that may still begin stays a number.
LEMMA SpendType == InboxTypeOK /\ left > 0 /\ left' = left - 1 => left' \in Nat
  BY DEF InboxTypeOK

\* The rest of a request tells exactly those it is given, or is over.
LEMMA TellingType ==
  ASSUME NEW t \in Topic, NEW todo \in SUBSET Users, NEW after \in SUBSET Users
  PROVE  /\ Telling(t, todo, after) \in Request
         /\ Telling(t, todo, after).at \in {"idle", "tell"}
         /\ \A u \in todo \cup after :
              /\ Telling(t, todo, after).at = "tell"
              /\ Telling(t, todo, after).about = t
              /\ u \in Telling(t, todo, after).todo \cup Telling(t, todo, after).after
  BY IdleType DEF Telling, Request

\* A notification that is written is in the table, and nothing leaves it.
LEMMA WriteType ==
  ASSUME InboxTypeOK, NEW u \in Users, NEW t \in Topic, Write(Notice(u, t))
  PROVE  /\ notices' \in SUBSET [to : Users, about : Topic]
         /\ seen' \in SUBSET notices'
         /\ notices \subseteq notices'
         /\ Notice(u, t) \in notices'
  BY DEF InboxTypeOK, Write, Notice

\* A topic of each kind.
LEMMA Topics ==
  /\ \A m \in MessageIds : <<"message", m>> \in Topic
  /\ \A c \in ComplaintIds : <<"filed", c>> \in Topic /\ <<"answer", c>> \in Topic
  /\ \A c \in ComplaintIds, s \in ComplaintStatus : <<"status", c, s>> \in Topic
  /\ \A f \in FeedbackIds : {<<"feedback", f>>, <<"thanks", f>>, <<"ended", f>>} \subseteq Topic
  /\ \A p \in ProofIds : <<"proof", p>> \in Topic /\ <<"verdict", p>> \in Topic
  BY DEF Topic

-----------------------------------------------------------------------------
(* What a step of one component does to requests and notifications: it     *)
(* moves its own requests, or ends them by telling somebody.               *)

Moves(stages) ==
  \A r \in Requests :
    \/ req'[r] = req[r]
    \/ req[r].at \in stages /\ req'[r].at \in stages \cup {"idle", "tell"}

\* Nothing that was told, or lost, is forgotten.
Grows == notices \subseteq notices' /\ cut \subseteq cut'

\* The type of what all components share.
Shared == req \in [Requests -> Request] /\ InboxTypeOK

\* Telling and reading notifications: only requests that tell move.
LEMMA InboxStep ==
  ASSUME Typed, InboxNext
  PROVE  Shared' /\ Moves({"tell"}) /\ Grows
<1> USE DEF Shared
<1>0. req \in [Requests -> Request] /\ InboxTypeOK
  BY DEF Typed, TypeOK, InboxTypeOK
<1>1. ASSUME NEW r \in Requests, TellDies(r) PROVE Shared' /\ Moves({"tell"}) /\ Grows
  <2>1. req[r] \in [at : {"tell"}, about : Topic, todo : SUBSET Users,
                    after : SUBSET Users]
    BY <1>1, StageType DEF TellDies, Typed
  <2>2. InboxTypeOK' /\ Grows
    BY <1>0, <1>1, <2>1 DEF TellDies, inboxVars, InboxTypeOK, Grows
  <2> QED
    BY <1>0, <1>1, <2>2, IdleType, GoType DEF TellDies, Moves
<1>2. ASSUME NEW r \in Requests, NEW u \in Users, Tell(r, u)
      PROVE Shared' /\ Moves({"tell"}) /\ Grows
  <2>1. req[r] \in [at : {"tell"}, about : Topic, todo : SUBSET Users,
                    after : SUBSET Users]
    BY <1>2, StageType DEF Tell, Typed
  <2>2. InboxTypeOK' /\ Grows
    BY <1>0, <1>2, <2>1, WriteType DEF Tell, InboxTypeOK, Grows
  <2> DEFINE x == Telling(req[r].about, req[r].todo \ {u}, req[r].after)
  <2>3. x \in Request /\ x.at \in {"idle", "tell"}
    BY <2>1, TellingType
  <2> QED
    BY <1>0, <1>2, <2>2, <2>3, GoType DEF Tell, Moves
<1>3. ASSUME NEW n \in notices, MarkRead(n) PROVE Shared' /\ Moves({"tell"}) /\ Grows
  BY <1>0, <1>3 DEF MarkRead, Spend, InboxTypeOK, Moves, Grows
<1>4. ASSUME NEW u \in Users, MarkAllRead(u) PROVE Shared' /\ Moves({"tell"}) /\ Grows
  BY <1>0, <1>4 DEF MarkAllRead, Spend, InboxTypeOK, Moves, Grows
<1> QED
  BY <1>1, <1>2, <1>3, <1>4 DEF InboxNext

\* A step of messaging keeps its types, and moves only its own requests.
LEMMA MessagingStep ==
  ASSUME Typed, MessagingNext
  PROVE  Shared' /\ Moves({"idle", "converse"}) /\ Grows /\ MessagingTypeOK' /\ MessagingRows'
<1> DEFINE Good == /\ Shared' /\ Moves({"idle", "converse"}) /\ Grows
                   /\ MessagingTypeOK' /\ MessagingRows'
<1>0. Shared /\ MessagingTypeOK /\ MessagingRows
  BY DEF Typed, TypeOK, Shared, InboxTypeOK
<1>1. ASSUME NEW r \in Requests, NEW u \in Talkers, NEW v \in Talkers,
             NEW x \in Contexts, ConverseRead(r, u, v, x)
      PROVE  Good
  <2> DEFINE q == [at |-> "converse", chat |-> Chat(u, v, x)]
  <2>1. q \in Request /\ q.at = "converse"
    BY MessagingAssumption DEF Request, Chat, Conversation
  <2>2. req[r].at = "idle" /\ Go(r, q) /\ left > 0 /\ left' = left - 1
    BY <1>0, <1>1, <2>1, BeginsIdle DEF ConverseRead, Shared
  <2>3. Shared' /\ Moves({"idle", "converse"}) /\ Grows
    BY <1>0, <1>1, <2>1, <2>2, GoType, SpendType
    DEF ConverseRead, inboxVars, Shared, InboxTypeOK, Moves, Grows
  <2> QED
    BY <1>0, <1>1, <2>3 DEF ConverseRead, messagingVars, MessagingTypeOK, MessagingRows
<1>2. ASSUME NEW r \in Requests, NEW c \in ConversationIds, ConverseInsert(r, c)
      PROVE  Good
  <2>1. req[r] \in [at : {"converse"}, chat : Conversation]
    BY <1>2, StageType DEF ConverseInsert, Typed
  <2>2. req[r].chat \in Conversation
    BY <2>1
  <2>3. Shared' /\ Moves({"idle", "converse"}) /\ Grows
    BY <1>0, <1>2, IdleType, GoType
    DEF ConverseInsert, inboxVars, Shared, InboxTypeOK, Moves, Grows
  <2> QED
    BY <1>0, <1>2, <2>2, <2>3, MessagingAssumption
    DEF ConverseInsert, MessagingTypeOK, MessagingRows, Message
<1>3. ASSUME NEW r \in Requests, NEW c \in ConversationIds, NEW u \in Talkers,
             NEW m \in MessageIds, Send(r, u, c, m)
      PROVE  Good
  <2>1. conversation[c] \in Conversation
    BY <1>0, <1>3 DEF Send, MessagingTypeOK
  <2> DEFINE q == Telling(<<"message", m>>, Participants(c) \ {u}, {})
  <2>2. q \in Request /\ q.at \in {"idle", "tell"}
    BY <2>1, Topics, TellingType DEF Conversation, Participants
  <2>3. req[r].at = "idle" /\ Go(r, q) /\ left > 0 /\ left' = left - 1
    BY <1>0, <1>3, <2>2, BeginsIdle DEF Send, Shared
  <2>4. Shared' /\ Moves({"idle", "converse"}) /\ Grows
    BY <1>0, <1>3, <2>2, <2>3, GoType, SpendType
    DEF Send, inboxVars, Shared, InboxTypeOK, Moves, Grows
  <2>5. [in |-> c, from |-> u, read |-> FALSE] \in Message
    BY MessagingAssumption DEF Message
  <2> QED
    BY <1>0, <1>3, <2>4, <2>5, MessagingAssumption
    DEF Send, MessagingTypeOK, MessagingRows
<1>4. ASSUME NEW u \in Talkers, NEW c \in ConversationIds, ReadMessages(u, c)
      PROVE  Good
  <2>1. Shared' /\ Moves({"idle", "converse"}) /\ Grows
    BY <1>0, <1>4, SpendType
    DEF ReadMessages, Spend, inboxVars, Shared, InboxTypeOK, Moves, Grows
  <2>2. ASSUME NEW m \in MessageIds
        PROVE  /\ message'[m] \in Message \cup {Nothing}
               /\ message'[m] # Nothing =>
                    message[m] # Nothing /\ message'[m].in = message[m].in
    BY <1>0, <1>4, MessagingAssumption
    DEF ReadMessages, Unread, MessagingTypeOK, Message
  <2> QED
    BY <1>0, <1>4, <2>1, <2>2 DEF ReadMessages, MessagingTypeOK, MessagingRows
<1> QED
  BY <1>1, <1>2, <1>3, <1>4 DEF MessagingNext

\* A request informs exactly those it is given, of what it is given.
LEMMA InformingType ==
  ASSUME NEW c \in ComplaintIds, NEW s \in ComplaintStatus, NEW todo \in SUBSET Users
  PROVE  /\ Informing(c, s, todo) \in Request
         /\ Informing(c, s, todo).at \in {"idle", "inform"}
         /\ Informing(c, s, todo).at = "inform" =>
              /\ Informing(c, s, todo).complaint = c
              /\ Informing(c, s, todo).status = s
              /\ Informing(c, s, todo).todo = todo
         /\ todo # {} => Informing(c, s, todo).at = "inform"
  BY IdleType DEF Informing, Request

\* The same for complaints.
LEMMA ComplaintsStep ==
  ASSUME Typed, ComplaintsNext
  PROVE  /\ Shared' /\ Moves({"idle", "inform", "respond"}) /\ Grows
         /\ ComplaintsTypeOK' /\ ComplaintRows'
<1> DEFINE S == {"idle", "inform", "respond"}
           Good == /\ Shared' /\ Moves(S) /\ Grows /\ ComplaintsTypeOK' /\ ComplaintRows'
<1>0. Shared /\ ComplaintsTypeOK /\ ComplaintRows
  BY DEF Typed, TypeOK, Shared, InboxTypeOK
<1>a. ASSUME NEW c \in ComplaintIds, complaint[c] # Nothing
      PROVE  complaint[c] \in Complaint /\ Parties(c) \in SUBSET Users
  BY <1>0, <1>a DEF ComplaintsTypeOK, Parties, Complaint
<1>1. ASSUME NEW r \in Requests, NEW u \in Users, NEW t \in Targets,
             NEW c \in ComplaintIds, File(r, u, t, c)
      PROVE  Good
  <2>1. PICK v \in Accused(u, t) \ {u} :
          /\ complaint' = [complaint EXCEPT ![c] =
               [by |-> u, against |-> v, status |-> "open", answered |-> FALSE]]
          /\ Begin(r, Telling(<<"filed", c>>, {v}, Admins))
    BY <1>1 DEF File
  <2>2. v \in Users
    BY ComplaintsAssumption DEF Accused, Target
  <2> DEFINE q == Telling(<<"filed", c>>, {v}, Admins)
  <2>3. q \in Request /\ q.at \in {"idle", "tell"}
    BY <2>2, Topics, TellingType, InboxAssumption
  <2>4. req[r].at = "idle" /\ Go(r, q) /\ left > 0 /\ left' = left - 1
    BY <1>0, <2>1, <2>3, BeginsIdle DEF Shared
  <2>5. Shared' /\ Moves(S) /\ Grows
    BY <1>0, <1>1, <2>3, <2>4, GoType, SpendType
    DEF File, inboxVars, Shared, InboxTypeOK, Moves, Grows
  <2>6. [by |-> u, against |-> v, status |-> "open", answered |-> FALSE] \in Complaint
    BY <2>2 DEF Complaint, ComplaintStatus
  <2>7. \A s \in Requests : req'[s].at \in {"inform", "respond"} => req'[s] = req[s]
    BY <1>0, <2>3, <2>4, GoType DEF Shared
  <2>8. /\ ComplaintsTypeOK'
        /\ \A d \in ComplaintIds : complaint[d] # Nothing => complaint'[d] # Nothing
    BY <1>0, <1>1, <2>1, <2>6, ComplaintsAssumption DEF File, ComplaintsTypeOK
  <2>9. \A x \in Requests : req[x].at \in {"inform", "respond"} => req[x].complaint \in ComplaintIds
    BY StageType DEF Typed
  <2>10. ComplaintRows'
    BY <1>0, <2>7, <2>8, <2>9 DEF ComplaintRows
  <2> QED
    BY <2>5, <2>8, <2>10
<1>2. ASSUME NEW r \in Requests, NEW c \in ComplaintIds, NEW s \in ComplaintStatus,
             UpdateStatus(r, c, s)
      PROVE  Good
  <2> DEFINE q == Informing(c, s, Parties(c))
  <2>1. complaint[c] \in Complaint /\ Parties(c) \in SUBSET Users
    BY <1>2, <1>a DEF UpdateStatus
  <2>2. /\ q \in Request /\ q.at \in {"idle", "inform"}
        /\ q.at = "inform" => q.complaint = c
    BY <2>1, InformingType
  <2>3. req[r].at = "idle" /\ Go(r, q) /\ left > 0 /\ left' = left - 1
    BY <1>0, <1>2, <2>2, BeginsIdle DEF UpdateStatus, Shared
  <2>4. Shared' /\ Moves(S) /\ Grows
    BY <1>0, <1>2, <2>2, <2>3, GoType, SpendType
    DEF UpdateStatus, inboxVars, Shared, InboxTypeOK, Moves, Grows
  <2>5. [complaint[c] EXCEPT !.status = s] \in Complaint
    BY <2>1 DEF Complaint
  <2>6. /\ complaint' = [complaint EXCEPT ![c] = [complaint[c] EXCEPT !.status = s]]
        /\ word' = word
    BY <1>2 DEF UpdateStatus
  <2>7. /\ ComplaintsTypeOK'
        /\ \A d \in ComplaintIds : complaint[d] # Nothing => complaint'[d] # Nothing
    BY <1>0, <2>5, <2>6, ComplaintsAssumption DEF ComplaintsTypeOK
  <2>8. ComplaintRows'
    <3> SUFFICES ASSUME NEW x \in Requests, req'[x].at \in {"inform", "respond"}
                 PROVE  complaint'[req'[x].complaint] # Nothing
      BY DEF ComplaintRows
    <3>1. CASE x = r
      BY <1>0, <3>1, <2>2, <2>3, <2>5, <2>6, GoType, ComplaintsAssumption
      DEF Shared, ComplaintsTypeOK
    <3>2. CASE x # r
      <4>1. req'[x] = req[x]
        BY <1>0, <3>2, <2>2, <2>3, GoType DEF Shared
      <4>2. req[x].complaint \in ComplaintIds
        BY <4>1, StageType DEF Typed
      <4> QED
        BY <1>0, <4>1, <4>2, <2>7 DEF ComplaintRows
    <3> QED
      BY <3>1, <3>2
  <2> QED
    BY <2>4, <2>7, <2>8
<1>3. ASSUME NEW r \in Requests, NEW u \in Users, Inform(r, u)
      PROVE  Good
  <2>1. req[r] \in [at : {"inform"}, complaint : ComplaintIds,
                    status : ComplaintStatus, todo : SUBSET Users]
    BY <1>3, StageType DEF Inform, Typed
  <2> DEFINE c == req[r].complaint
             s == req[r].status
             q == Informing(c, s, req[r].todo \ {u})
  <2>2. /\ q \in Request /\ q.at \in {"idle", "inform"}
        /\ q.at = "inform" => q.complaint = c
    BY <2>1, InformingType
  <2>3. Go(r, q) /\ Write(Notice(u, <<"status", c, s>>)) /\ complaint' = complaint
        /\ word' = [word EXCEPT ![c][u] = s] /\ UNCHANGED <<left, cut>>
    BY <1>3 DEF Inform
  <2>4. InboxTypeOK' /\ Grows
    BY <1>0, <2>1, <2>3, WriteType, Topics DEF Shared, InboxTypeOK, Grows
  <2>5. Shared' /\ Moves(S)
    BY <1>0, <1>3, <2>2, <2>3, <2>4, GoType DEF Inform, Shared, Moves
  <2>6. ComplaintsTypeOK'
    BY <1>0, <2>1, <2>3 DEF ComplaintsTypeOK
  <2>7. ComplaintRows'
    BY <1>0, <1>3, <2>2, <2>3, GoType DEF Inform, Shared, ComplaintRows
  <2> QED
    BY <2>4, <2>5, <2>6, <2>7
<1>4. ASSUME NEW r \in Requests, InformDies(r)
      PROVE  Good
  <2>1. req[r] \in [at : {"inform"}, complaint : ComplaintIds,
                    status : ComplaintStatus, todo : SUBSET Users]
    BY <1>4, StageType DEF InformDies, Typed
  <2>2. InboxTypeOK' /\ Grows
    BY <1>0, <1>4, <2>1, Topics DEF InformDies, inboxVars, Shared, InboxTypeOK, Grows
  <2>3. Go(r, Idle) /\ UNCHANGED complaintVars /\ req[r].at = "inform"
    BY <1>4 DEF InformDies
  <2>4. Shared' /\ Moves(S)
    BY <1>0, <2>2, <2>3, IdleType, GoType DEF Shared, Moves
  <2>5. ComplaintRows' /\ ComplaintsTypeOK'
    BY <1>0, <2>3, IdleType, GoType
    DEF Shared, complaintVars, ComplaintRows, ComplaintsTypeOK
  <2> QED
    BY <2>2, <2>4, <2>5
<1>5. ASSUME NEW r \in Requests, NEW u \in Users, NEW c \in ComplaintIds,
             RespondRead(r, u, c)
      PROVE  Good
  <2> DEFINE q == [at |-> "respond", complaint |-> c]
  <2>1. q \in Request /\ q.at = "respond"
    BY DEF Request
  <2>2. req[r].at = "idle" /\ Go(r, q) /\ left > 0 /\ left' = left - 1
    BY <1>0, <1>5, <2>1, BeginsIdle DEF RespondRead, Shared
  <2>3. Shared' /\ Moves(S) /\ Grows
    BY <1>0, <1>5, <2>1, <2>2, GoType, SpendType
    DEF RespondRead, inboxVars, Shared, InboxTypeOK, Moves, Grows
  <2>4. ComplaintRows' /\ ComplaintsTypeOK'
    BY <1>0, <1>5, <2>1, <2>2, GoType
    DEF RespondRead, Shared, complaintVars, ComplaintRows, ComplaintsTypeOK
  <2> QED
    BY <2>3, <2>4
<1>6. ASSUME NEW r \in Requests, RespondWrite(r)
      PROVE  Good
  <2> DEFINE c == req[r].complaint
             q == Telling(<<"answer", c>>, Admins, {})
  <2>1. c \in ComplaintIds /\ complaint[c] # Nothing
    BY <1>0, <1>6, StageType DEF RespondWrite, Typed, ComplaintRows
  <2>2. q \in Request /\ q.at \in {"idle", "tell"}
    BY <2>1, Topics, TellingType, InboxAssumption
  <2>3. /\ complaint' = [complaint EXCEPT ![c] = [complaint[c] EXCEPT !.answered = TRUE]]
        /\ Go(r, q) /\ UNCHANGED <<left, inboxVars, cut, word>> /\ req[r].at = "respond"
    BY <1>6 DEF RespondWrite
  <2>4. [complaint[c] EXCEPT !.answered = TRUE] \in Complaint
    BY <2>1, <1>a DEF Complaint
  <2>5. Shared' /\ Moves(S) /\ Grows
    BY <1>0, <2>2, <2>3, GoType DEF inboxVars, Shared, InboxTypeOK, Moves, Grows
  <2>6. /\ ComplaintsTypeOK'
        /\ \A d \in ComplaintIds : complaint[d] # Nothing => complaint'[d] # Nothing
    BY <1>0, <2>1, <2>3, <2>4, ComplaintsAssumption DEF ComplaintsTypeOK
  <2>7. \A x \in Requests : req'[x].at \in {"inform", "respond"} => req'[x] = req[x]
    BY <1>0, <2>2, <2>3, GoType DEF Shared
  <2>8. \A x \in Requests : req[x].at \in {"inform", "respond"} => req[x].complaint \in ComplaintIds
    BY StageType DEF Typed
  <2> QED
    BY <1>0, <2>5, <2>6, <2>7, <2>8 DEF ComplaintRows
<1> QED
  BY <1>1, <1>2, <1>3, <1>4, <1>5, <1>6 DEF ComplaintsNext

\* The same for uploads.
LEMMA UploadsStep ==
  ASSUME Typed, UploadsNext
  PROVE  Shared' /\ Moves({"idle", "row"}) /\ Grows /\ UploadsTypeOK'
<1> DEFINE S == {"idle", "row"}
           Good == Shared' /\ Moves(S) /\ Grows /\ UploadsTypeOK'
<1>0. Shared /\ UploadsTypeOK
  BY DEF Typed, TypeOK, Shared, InboxTypeOK
<1>1. ASSUME NEW r \in Requests, NEW u \in Owners, NEW purpose \in Purpose,
             NEW key \in Files, Save(r, u, purpose, key)
      PROVE  Good
  <2> DEFINE q == [at |-> "row", owner |-> u, purpose |-> purpose, file |-> key]
  <2>1. q \in Request /\ q.at = "row"
    BY UploadsAssumption DEF Request
  <2>2. req[r].at = "idle" /\ Go(r, q) /\ left > 0 /\ left' = left - 1
    BY <1>0, <1>1, <2>1, BeginsIdle DEF Save, Shared
  <2>3. Shared' /\ Moves(S) /\ Grows
    BY <1>0, <1>1, <2>1, <2>2, GoType, SpendType
    DEF Save, inboxVars, Shared, InboxTypeOK, Moves, Grows
  <2> QED
    BY <1>0, <1>1, <2>3 DEF Save, Stored, UploadsTypeOK
<1>2. ASSUME NEW r \in Requests, NEW i \in UploadIds, UploadInsert(r, i)
      PROVE  Good
  <2>1. req[r] \in [at : {"row"}, owner : Users, purpose : Purpose, file : Files]
    BY <1>2, StageType DEF UploadInsert, Typed
  <2>2. Shared' /\ Moves(S) /\ Grows
    BY <1>0, <1>2, IdleType, GoType
    DEF UploadInsert, inboxVars, Shared, InboxTypeOK, Moves, Grows
  <2> QED
    BY <1>0, <1>2, <2>1, <2>2 DEF UploadInsert, UploadsTypeOK, UploadRow
<1>3. ASSUME NEW u \in Admins, NEW picked \in Picks, SetGrants(u, picked)
      PROVE  Good
  <2>1. Shared' /\ Moves(S) /\ Grows
    BY <1>0, <1>3, SpendType
    DEF SetGrants, Spend, inboxVars, Shared, InboxTypeOK, Moves, Grows
  <2>2. Normalised(picked) \in SUBSET Permission
    <3>1. \A p \in Implied : p[2] \in Permission
      BY DEF Implied, Permission
    <3>2. picked \in SUBSET Permission
      BY UploadsAssumption
    <3> QED
      BY <3>1, <3>2 DEF Normalised
  <2> QED
    BY <1>0, <1>3, <2>1, <2>2 DEF SetGrants, UploadsTypeOK
<1> QED
  BY <1>1, <1>2, <1>3 DEF UploadsNext

\* What is left to do for feedback that exists.
LEMMA ReportingType ==
  ASSUME FeedbackTypeOK', NEW f \in FeedbackIds, feedback'[f] # Nothing,
         NEW todo \in SUBSET Users
  PROVE  /\ Thanks(f) \in Request
         /\ Thanks(f).at \in {"idle", "thank"}
         /\ Thanks(f).at = "thank" => Thanks(f).feedback = f
         /\ feedback'[f].email => Thanks(f).at = "thank"
         /\ Reporting(f, todo) \in Request
         /\ Reporting(f, todo).at \in {"idle", "thank", "report"}
         /\ Reporting(f, todo).at \in {"thank", "report"} =>
              Reporting(f, todo).feedback = f
         /\ Reporting(f, todo).at = "report" => Reporting(f, todo).todo = todo
         /\ todo # {} => Reporting(f, todo).at = "report"
         /\ feedback'[f].email => Reporting(f, todo).at \in {"thank", "report"}
  BY IdleType DEF Thanks, Reporting, Request, FeedbackTypeOK, FeedbackRow

\* The same for feedback, which also stores files.
LEMMA FeedbackStep ==
  ASSUME Typed, FeedbackNext
  PROVE  /\ Shared' /\ Moves({"idle", "feedback", "report", "thank", "mark"}) /\ Grows
         /\ UploadsTypeOK' /\ FeedbackTypeOK' /\ FeedbackRows'
<1> DEFINE S == {"idle", "feedback", "report", "thank", "mark"}
           Good == /\ Shared' /\ Moves(S) /\ Grows
                   /\ UploadsTypeOK' /\ FeedbackTypeOK' /\ FeedbackRows'
           W == {"report", "thank", "mark"}
<1>0. Shared /\ UploadsTypeOK /\ FeedbackTypeOK /\ FeedbackRows
  BY DEF Typed, TypeOK, Shared, InboxTypeOK
\* A step that leaves the requests' feedback, or goes on with it.
<1>a. ASSUME NEW r \in Requests, NEW q \in Request, Go(r, q), Shared', Grows,
             req[r].at \in S, q.at \in S,
             \/ UNCHANGED feedback
             \/ \A f \in FeedbackIds : feedback[f] # Nothing => feedback'[f] # Nothing,
             FeedbackTypeOK', UploadsTypeOK',
             q.at \in W => feedback'[q.feedback] # Nothing
      PROVE  Good
  <2>1. \A x \in Requests : req[x].at \in W => req[x].feedback \in FeedbackIds
    BY StageType DEF Typed
  <2>2. FeedbackRows'
    BY <1>0, <1>a, <2>1, GoType DEF Shared, FeedbackRows
  <2>3. Moves(S)
    BY <1>0, <1>a, GoType DEF Shared, Moves
  <2> QED
    BY <1>a, <2>2, <2>3
<1>b. ASSUME NEW r \in Requests, req[r].at \in W
      PROVE  /\ req[r].feedback \in FeedbackIds
             /\ feedback[req[r].feedback] \in FeedbackRow
  BY <1>0, <1>b, StageType DEF Typed, FeedbackRows, FeedbackTypeOK
<1>c. ASSUME UNCHANGED uploadVars PROVE UploadsTypeOK'
  BY <1>0, <1>c DEF uploadVars, UploadsTypeOK
<1>1. ASSUME NEW r \in Requests, NEW email \in BOOLEAN, NEW key \in Files \cup {Nothing},
             Attach(r, email, key)
      PROVE  Good
  <2> DEFINE q == [at |-> "feedback", email |-> email, key |-> key]
  <2>1. q \in Request /\ q.at = "feedback"
    BY DEF Request
  <2>2. req[r].at = "idle" /\ Go(r, q) /\ left > 0 /\ left' = left - 1
    BY <1>0, <1>1, <2>1, BeginsIdle DEF Attach, Shared
  <2>3. Shared' /\ Grows
    BY <1>0, <1>1, <2>1, <2>2, GoType, SpendType
    DEF Attach, inboxVars, Shared, InboxTypeOK, Grows
  <2>4. UploadsTypeOK'
    BY <1>0, <1>1 DEF Attach, Stored, UploadsTypeOK
  <2>5. UNCHANGED feedback /\ FeedbackTypeOK'
    BY <1>0, <1>1 DEF Attach, feedbackVars, FeedbackTypeOK
  <2> QED
    BY <1>a, <2>1, <2>2, <2>3, <2>4, <2>5
<1>2. ASSUME NEW r \in Requests, NEW f \in FeedbackIds, FeedbackInsert(r, f)
      PROVE  Good
  <2> DEFINE row == [email |-> req[r].email, key |-> req[r].key,
                     status |-> "new", isRead |-> FALSE, thanked |-> FALSE]
             q == Reporting(f, Admins)
  <2>1. req[r] \in [at : {"feedback"}, email : BOOLEAN, key : Files \cup {Nothing}]
    BY <1>2, StageType DEF FeedbackInsert, Typed
  <2>2. row \in FeedbackRow
    BY <2>1 DEF FeedbackRow, FeedbackStatus
  <2>3. /\ feedback' = [feedback EXCEPT ![f] = row]
        /\ Go(r, q) /\ UNCHANGED <<left, inboxVars, cut, uploadVars, mailed>>
    BY <1>2 DEF FeedbackInsert
  <2>4. FeedbackTypeOK' /\ feedback'[f] = row
    BY <1>0, <2>2, <2>3 DEF FeedbackTypeOK
  <2>5. /\ q \in Request /\ q.at \in {"idle", "thank", "report"}
        /\ q.at \in W => q.feedback = f
    BY <2>2, <2>4, ReportingType, InboxAssumption, FeedbackAssumption
  <2>6. Shared' /\ Grows
    BY <1>0, <2>3, <2>5, GoType DEF inboxVars, Shared, InboxTypeOK, Grows
  <2>7. \A g \in FeedbackIds : feedback[g] # Nothing => feedback'[g] # Nothing
    BY <1>0, <2>2, <2>3, FeedbackAssumption DEF FeedbackTypeOK
  <2>8. q.at \in W => feedback'[q.feedback] # Nothing
    BY <2>2, <2>4, <2>5, FeedbackAssumption
  <2> HIDE DEF q, row
  <2> QED
    BY <1>a, <1>c, <2>1, <2>3, <2>4, <2>5, <2>6, <2>7, <2>8
<1>3. ASSUME NEW r \in Requests, NEW u \in Users, Report(r, u)
      PROVE  Good
  <2> DEFINE f == req[r].feedback
             q == Reporting(f, req[r].todo \ {u})
  <2>1. /\ req[r] \in [at : {"report"}, feedback : FeedbackIds, todo : SUBSET Users]
        /\ feedback[f] \in FeedbackRow
    BY <1>3, <1>b, StageType DEF Report, Typed
  <2>2. /\ Write(Notice(u, <<"feedback", f>>)) /\ Go(r, q)
        /\ UNCHANGED <<left, cut, uploadVars, feedbackVars>>
    BY <1>3 DEF Report
  <2>3. FeedbackTypeOK' /\ UNCHANGED feedback
    BY <1>0, <2>2 DEF feedbackVars, FeedbackTypeOK
  <2>4. /\ q \in Request /\ q.at \in {"idle", "thank", "report"}
        /\ q.at \in W => q.feedback = f
    BY <2>1, <2>3, ReportingType, FeedbackAssumption
  <2>5. InboxTypeOK' /\ Grows
    BY <1>0, <2>1, <2>2, WriteType, Topics DEF Shared, InboxTypeOK, Grows
  <2>6. Shared'
    BY <1>0, <2>2, <2>4, <2>5, GoType DEF Shared
  <2>7. q.at \in W => feedback'[q.feedback] # Nothing
    BY <2>1, <2>3, <2>4, FeedbackAssumption
  <2> HIDE DEF q
  <2> QED
    BY <1>a, <1>c, <2>1, <2>2, <2>3, <2>4, <2>5, <2>6, <2>7
<1>4. ASSUME NEW r \in Requests,
             \/ ReportFails(r) \/ ReportDies(r)
             \/ Thank(r) \/ ThankFails(r) \/ MarkThanked(r) \/ MarkDies(r)
      PROVE  Good
  <2> DEFINE f == req[r].feedback
  <2>1. req[r].at \in W
    BY <1>4 DEF ReportFails, ReportDies, Thank, ThankFails, MarkThanked, MarkDies
  <2>2. f \in FeedbackIds /\ feedback[f] \in FeedbackRow
    BY <1>b, <2>1
  <2>3. /\ UNCHANGED <<left, inboxVars, uploadVars>>
        /\ cut' \in {cut, cut \cup {<<"feedback", f>>}, cut \cup {<<"thanks", f>>},
                     cut \cup {<<"ended", f>>}, cut \cup {<<"feedback", f>>, <<"ended", f>>}}
    BY <1>4 DEF ReportFails, ReportDies, Thank, ThankFails, MarkThanked, MarkDies
  <2>4. InboxTypeOK' /\ Grows
    BY <1>0, <2>2, <2>3, Topics DEF inboxVars, Shared, InboxTypeOK, Grows
  <2>5. [feedback[f] EXCEPT !.thanked = TRUE] \in FeedbackRow
    BY <2>2 DEF FeedbackRow
  <2>6. /\ feedback' \in {feedback,
             [feedback EXCEPT ![f] = [feedback[f] EXCEPT !.thanked = TRUE]]}
        /\ mailed' \in {mailed, mailed \cup {f}}
    BY <1>4 DEF ReportFails, ReportDies, Thank, ThankFails, MarkThanked, MarkDies, feedbackVars
  <2>7. /\ FeedbackTypeOK'
        /\ \A g \in FeedbackIds : feedback[g] # Nothing => feedback'[g] # Nothing
    BY <1>0, <2>2, <2>5, <2>6, FeedbackAssumption DEF FeedbackTypeOK
  <2>8. \E q \in {Thanks(f), Idle, [at |-> "mark", feedback |-> f]} : Go(r, q)
    BY <1>4 DEF ReportFails, ReportDies, Thank, ThankFails, MarkThanked, MarkDies
  <2>9. feedback'[f] # Nothing
    BY <2>2, <2>7, FeedbackAssumption
  <2>10. ASSUME NEW q \in {Thanks(f), Idle, [at |-> "mark", feedback |-> f]}
         PROVE  /\ q \in Request /\ q.at \in {"idle", "thank", "mark"}
                /\ q.at \in W => q.feedback = f
    <3>1. CASE q = Thanks(f)
      <4>1. {} \in SUBSET Users
        OBVIOUS
      <4>2. /\ Thanks(f) \in Request /\ Thanks(f).at \in {"idle", "thank"}
            /\ Thanks(f).at = "thank" => Thanks(f).feedback = f
        BY <2>2, <2>7, <2>9, <4>1, ReportingType
      <4> QED
        BY <3>1, <4>2
    <3>2. CASE q = Idle
      BY <3>2, IdleType
    <3>3. CASE q = [at |-> "mark", feedback |-> f]
      BY <2>2, <3>3 DEF Request
    <3> QED
      BY <2>10, <3>1, <3>2, <3>3
  <2>11. PICK q \in {Thanks(f), Idle, [at |-> "mark", feedback |-> f]} : Go(r, q)
    BY <2>8
  <2>12. /\ q \in Request /\ q.at \in {"idle", "thank", "mark"}
         /\ q.at \in W => q.feedback = f
    BY <2>10
  <2>13. Shared'
    BY <1>0, <2>4, <2>11, <2>12, GoType DEF Shared
  <2>14. UploadsTypeOK'
    BY <1>c, <2>3
  <2> QED
    BY <1>a, <2>1, <2>4, <2>7, <2>9, <2>11, <2>12, <2>13, <2>14
<1>5. ASSUME NEW f \in FeedbackIds, NEW s \in FeedbackStatus,
             Triage(f, s) \/ MarkFeedbackRead(f)
      PROVE  Good
  <2>1. feedback[f] \in FeedbackRow
    BY <1>0, <1>5 DEF Triage, MarkFeedbackRead, FeedbackTypeOK
  <2>2. /\ [feedback[f] EXCEPT !.status = s] \in FeedbackRow
        /\ [feedback[f] EXCEPT !.isRead = TRUE] \in FeedbackRow
    BY <2>1 DEF FeedbackRow
  <2>3. /\ UNCHANGED <<req, inboxVars, cut, uploadVars, mailed>> /\ Spend
        /\ feedback' \in {[feedback EXCEPT ![f] = [feedback[f] EXCEPT !.status = s]],
                          [feedback EXCEPT ![f] = [feedback[f] EXCEPT !.isRead = TRUE]]}
    BY <1>5 DEF Triage, MarkFeedbackRead
  <2>4. /\ FeedbackTypeOK'
        /\ \A g \in FeedbackIds : feedback[g] # Nothing => feedback'[g] # Nothing
    BY <1>0, <2>1, <2>2, <2>3, FeedbackAssumption DEF FeedbackTypeOK
  <2>5. Shared' /\ Moves(S) /\ Grows
    BY <1>0, <2>3, SpendType DEF Spend, inboxVars, Shared, InboxTypeOK, Moves, Grows
  <2>6. \A x \in Requests : req[x].at \in W => req[x].feedback \in FeedbackIds
    BY StageType DEF Typed
  <2>7. FeedbackRows'
    BY <1>0, <2>3, <2>4, <2>6 DEF FeedbackRows
  <2> QED
    BY <1>c, <2>3, <2>4, <2>5, <2>7
<1>6. FeedbackStatus # {}
  BY DEF FeedbackStatus
<1> QED
  BY <1>1, <1>2, <1>3, <1>4, <1>5, <1>6 DEF FeedbackNext

\* The same for donations and their proofs.
LEMMA DonationsStep ==
  ASSUME Typed, DonationsNext
  PROVE  /\ Shared' /\ Grows
         /\ Moves({"idle", "key", "open", "insert", "judge", "close"})
         /\ UploadsTypeOK' /\ DonationsTypeOK' /\ DonationRows'
<1> DEFINE S == {"idle", "key", "open", "insert", "judge", "close"}
           Good == /\ Shared' /\ Grows /\ Moves(S)
                   /\ UploadsTypeOK' /\ DonationsTypeOK' /\ DonationRows'
           \* What a request that goes on to q counts on.
           Known(q) == /\ q.at \in {"key", "open", "insert"} => donation'[q.donation] # Nothing
                       /\ q.at \in {"judge", "close"} => proof'[q.proof] # Nothing
           Kept == /\ \A d \in DonationIds : donation[d] # Nothing => donation'[d] # Nothing
                   /\ \A p \in ProofIds : proof[p] # Nothing => proof'[p] # Nothing
           Refers == \A p \in ProofIds :
                       proof'[p] # Nothing => donation'[proof'[p].donation] # Nothing
<1>0. Shared /\ UploadsTypeOK /\ DonationsTypeOK /\ DonationRows
  BY DEF Typed, TypeOK, Shared, InboxTypeOK
<1>k. \A x \in Requests :
        /\ req[x].at \in {"key", "open", "insert"} => req[x].donation \in DonationIds
        /\ req[x].at \in {"judge", "close"} => req[x].proof \in ProofIds
  BY StageType DEF Typed
<1>a. ASSUME NEW r \in Requests, NEW q \in Request, Go(r, q), Shared', Grows,
             req[r].at \in S, q.at \in S \cup {"tell"}, Known(q), Kept, Refers,
             UNCHANGED uploadVars, DonationsTypeOK'
      PROVE  Good
  <2>1. req' \in [Requests -> Request] /\ req'[r] = q
        /\ \A x \in Requests \ {r} : req'[x] = req[x]
    BY <1>0, <1>a, GoType DEF Shared
  <2>2. DonationRows'
    <3>1. ASSUME NEW x \in Requests
          PROVE  Known(req'[x])
      <4>1. CASE x = r
        BY <1>a, <2>1, <4>1
      <4>2. CASE x # r
        BY <1>0, <1>k, <1>a, <2>1, <4>2 DEF DonationRows
      <4> QED
        BY <4>1, <4>2
    <3> QED
      BY <1>a, <3>1 DEF DonationRows
  <2>3. Moves(S)
    BY <1>a, <2>1 DEF Moves
  <2>4. UploadsTypeOK'
    BY <1>0, <1>a DEF uploadVars, UploadsTypeOK
  <2> QED
    BY <1>a, <2>2, <2>3, <2>4
\* A step of no request.
<1>b. ASSUME Spend, UNCHANGED <<req, inboxVars, cut, uploadVars, proof>>,
             \A d \in DonationIds : donation[d] # Nothing => donation'[d] # Nothing,
             DonationsTypeOK'
      PROVE  Good
  <2>1. Shared' /\ Moves(S) /\ Grows
    BY <1>0, <1>b, SpendType DEF Spend, inboxVars, Shared, InboxTypeOK, Moves, Grows
  <2>2. \A p \in ProofIds : proof[p] # Nothing => proof[p].donation \in DonationIds
    BY <1>0 DEF DonationsTypeOK, Proof
  <2>3. DonationRows'
    BY <1>0, <1>k, <1>b, <2>2 DEF DonationRows
  <2>4. UploadsTypeOK'
    BY <1>0, <1>b DEF uploadVars, UploadsTypeOK
  <2> QED
    BY <1>b, <2>1, <2>3, <2>4
<1>1. ASSUME NEW u \in Donors, NEW d \in DonationIds, Donate(u, d)
      PROVE  Good
  <2>1. [donor |-> u, status |-> "pending"] \in Donation
    BY DonationsAssumption DEF Donation, SubmissionStatus
  <2>2. DonationsTypeOK' /\ \A e \in DonationIds : donation[e] # Nothing => donation'[e] # Nothing
    BY <1>0, <1>1, <2>1, DonationsAssumption DEF Donate, DonationsTypeOK
  <2> QED
    BY <1>1, <1>b, <2>2 DEF Donate
<1>2. ASSUME NEW m \in Methods, NEW active \in BOOLEAN \cup {Nothing},
             SetMethod(m, active)
      PROVE  Good
  <2>1. DonationsTypeOK' /\ donation' = donation
    BY <1>0, <1>2 DEF SetMethod, DonationsTypeOK
  <2> QED
    BY <1>2, <1>b, <2>1 DEF SetMethod
<1>3. ASSUME NEW u \in Donors, NEW d \in DonationIds, NEW r \in Requests,
             NEW m \in Methods, NEW t \in TxIds, SubmitRead(r, u, d, m, t)
      PROVE  Good
  <2> DEFINE q == [at |-> "key", donation |-> d, method |-> m, tx |-> t]
  <2>1. q \in Request /\ q.at = "key" /\ q.donation = d
    BY DEF Request
  <2>2. req[r].at = "idle" /\ Go(r, q) /\ left > 0 /\ left' = left - 1
    BY <1>0, <1>3, <2>1, BeginsIdle DEF SubmitRead, Shared
  <2>3. Shared' /\ Grows
    BY <1>0, <1>3, <2>1, <2>2, GoType, SpendType
    DEF SubmitRead, inboxVars, Shared, InboxTypeOK, Grows
  <2>4. donation[d] # Nothing /\ UNCHANGED <<uploadVars, donationVars>>
    BY <1>3 DEF SubmitRead
  <2>5. DonationsTypeOK' /\ Known(q) /\ Kept /\ Refers
    BY <1>0, <2>1, <2>4 DEF donationVars, DonationsTypeOK, DonationRows
  <2> HIDE DEF q
  <2> QED
    BY <1>a, <2>1, <2>2, <2>3, <2>4, <2>5
<1>4. ASSUME NEW r \in Requests, SubmitCheckKey(r) \/ SubmitCheckOpen(r)
      PROVE  Good
  <2>1. req[r] \in [at : {"key", "open", "insert"}, donation : DonationIds,
                    method : Methods, tx : TxIds]
    BY <1>4, StageType DEF SubmitCheckKey, SubmitCheckOpen, Typed
  <2>2. PICK s \in {"open", "insert"} : Go(r, [req[r] EXCEPT !.at = s])
    BY <1>4 DEF SubmitCheckKey, SubmitCheckOpen
  <2>3. UNCHANGED <<left, inboxVars, cut, uploadVars, donationVars>>
    BY <1>4 DEF SubmitCheckKey, SubmitCheckOpen
  <2> DEFINE q == [req[r] EXCEPT !.at = s]
  <2>4. q \in Request /\ q.at = s /\ q.donation = req[r].donation
    BY <2>1 DEF Request
  <2>5. Shared' /\ Grows
    BY <1>0, <2>2, <2>3, <2>4, GoType DEF inboxVars, Shared, InboxTypeOK, Grows
  <2>6. DonationsTypeOK' /\ Known(q) /\ Kept /\ Refers
    BY <1>0, <2>1, <2>3, <2>4 DEF donationVars, DonationsTypeOK, DonationRows
  <2> HIDE DEF q
  <2>7. Go(r, q)
    BY <2>2 DEF q
  <2> QED
    BY <1>a, <2>1, <2>3, <2>4, <2>5, <2>6, <2>7
<1>5. ASSUME NEW r \in Requests, NEW p \in ProofIds, SubmitInsert(r, p)
      PROVE  Good
  <2> DEFINE q == Telling(<<"proof", p>>, Admins, {})
             row == [donation |-> req[r].donation, method |-> req[r].method,
                     tx |-> req[r].tx, status |-> "pending"]
  <2>1. req[r] \in [at : {"insert"}, donation : DonationIds,
                    method : Methods, tx : TxIds]
    BY <1>5, StageType DEF SubmitInsert, Typed
  <2>2. q \in Request /\ q.at \in {"idle", "tell"}
    BY Topics, TellingType, InboxAssumption
  <2>3. row \in Proof /\ row.donation = req[r].donation
    BY <2>1 DEF Proof, SubmissionStatus
  <2>4. /\ proof' = [proof EXCEPT ![p] = row] /\ proof[p] = Nothing
        /\ Go(r, q)
        /\ UNCHANGED <<left, inboxVars, cut, uploadVars, method, donation>>
    BY <1>5 DEF SubmitInsert
  <2>5. Shared' /\ Grows
    BY <1>0, <2>2, <2>4, GoType DEF inboxVars, Shared, InboxTypeOK, Grows
  <2>6. donation[row.donation] # Nothing
    BY <1>0, <2>1, <2>3 DEF DonationRows
  <2> HIDE DEF q, row
  <2>7. DonationsTypeOK' /\ Known(q) /\ Kept
    BY <1>0, <2>2, <2>3, <2>4, DonationsAssumption DEF DonationsTypeOK
  <2>8. Refers
    BY <1>0, <2>4, <2>6 DEF DonationsTypeOK, DonationRows
  <2> QED
    BY <1>a, <2>1, <2>2, <2>4, <2>5, <2>7, <2>8
<1>6. ASSUME NEW r \in Requests, NEW p \in ProofIds, NEW verdict \in Verdict,
             VerifyRead(r, p, verdict)
      PROVE  Good
  <2> DEFINE q == [at |-> "judge", proof |-> p, verdict |-> verdict]
  <2>1. q \in Request /\ q.at = "judge" /\ q.proof = p
    BY DEF Request
  <2>2. req[r].at = "idle" /\ Go(r, q) /\ left > 0 /\ left' = left - 1
    BY <1>0, <1>6, <2>1, BeginsIdle DEF VerifyRead, Shared
  <2>3. Shared' /\ Grows
    BY <1>0, <1>6, <2>1, <2>2, GoType, SpendType
    DEF VerifyRead, inboxVars, Shared, InboxTypeOK, Grows
  <2>4. proof[p] # Nothing /\ UNCHANGED <<uploadVars, donationVars>>
    BY <1>6 DEF VerifyRead, Pending
  <2>5. DonationsTypeOK' /\ Known(q) /\ Kept /\ Refers
    BY <1>0, <2>1, <2>4 DEF donationVars, DonationsTypeOK, DonationRows
  <2> HIDE DEF q
  <2> QED
    BY <1>a, <2>1, <2>2, <2>3, <2>4, <2>5
<1>7. ASSUME NEW r \in Requests, VerifyDonation(r)
      PROVE  Good
  <2> DEFINE q == [req[r] EXCEPT !.at = "close"]
  <2>1. req[r] \in [at : {"judge"}, proof : ProofIds, verdict : Verdict]
    BY <1>7, StageType DEF VerifyDonation, Typed
  <2>2. PICK p \in ProofIds : p = req[r].proof
    BY <2>1
  <2>3. proof[p] \in Proof
    BY <1>0, <2>1, <2>2 DEF DonationRows, DonationsTypeOK
  <2>4. PICK d \in DonationIds : d = proof[p].donation
    BY <2>3 DEF Proof
  <2>5. donation[d] \in Donation
    BY <1>0, <2>3, <2>4, DonationsAssumption DEF DonationRows, DonationsTypeOK
  <2>6. [donation[d] EXCEPT !.status = req[r].verdict] \in Donation
    BY <2>1, <2>5 DEF Donation, SubmissionStatus
  <2>7. /\ donation' = [donation EXCEPT ![d] =
                          [donation[d] EXCEPT !.status = req[r].verdict]]
        /\ Go(r, q)
        /\ UNCHANGED <<left, inboxVars, cut, uploadVars, method, proof>>
    BY <1>7, <2>2, <2>4 DEF VerifyDonation
  <2>8. q \in Request /\ q.at = "close" /\ q.proof = req[r].proof
    BY <2>1 DEF Request
  <2>9. Shared' /\ Grows
    BY <1>0, <2>7, <2>8, GoType DEF inboxVars, Shared, InboxTypeOK, Grows
  <2>10. DonationsTypeOK' /\ Kept
    BY <1>0, <2>6, <2>7, DonationsAssumption DEF DonationsTypeOK
  <2>11. \A x \in ProofIds : proof[x] # Nothing => proof[x].donation \in DonationIds
    BY <1>0 DEF DonationsTypeOK, Proof
  <2>12. Known(q) /\ Refers
    BY <1>0, <2>1, <2>7, <2>8, <2>10, <2>11 DEF DonationRows
  <2> HIDE DEF q
  <2> QED
    BY <1>a, <2>1, <2>7, <2>8, <2>9, <2>10, <2>12
<1>8. ASSUME NEW r \in Requests, VerifyProof(r)
      PROVE  Good
  <2>1. req[r] \in [at : {"close"}, proof : ProofIds, verdict : Verdict]
    BY <1>8, StageType DEF VerifyProof, Typed
  <2>2. PICK p \in ProofIds : p = req[r].proof
    BY <2>1
  <2>3. proof[p] \in Proof
    BY <1>0, <2>1, <2>2 DEF DonationRows, DonationsTypeOK
  <2>4. PICK d \in DonationIds : d = proof[p].donation
    BY <2>3 DEF Proof
  <2>5. donation[d] \in Donation
    BY <1>0, <2>3, <2>4, DonationsAssumption DEF DonationRows, DonationsTypeOK
  <2> DEFINE q == Telling(<<"verdict", p>>, {donation[d].donor}, {})
             row == [proof[p] EXCEPT !.status = req[r].verdict]
  <2>6. row \in Proof /\ row.donation = d
    BY <2>1, <2>3, <2>4 DEF Proof, SubmissionStatus
  <2>7. /\ proof' = [proof EXCEPT ![p] = row] /\ Go(r, q)
        /\ UNCHANGED <<left, inboxVars, cut, uploadVars, method, donation>>
    BY <1>8, <2>2, <2>4 DEF VerifyProof
  <2>8. q \in Request /\ q.at \in {"idle", "tell"}
    BY <2>5, Topics, TellingType DEF Donation
  <2>9. Shared' /\ Grows
    BY <1>0, <2>7, <2>8, GoType DEF inboxVars, Shared, InboxTypeOK, Grows
  <2> HIDE DEF q, row
  <2>10. DonationsTypeOK' /\ Known(q) /\ Kept
    BY <1>0, <2>6, <2>7, <2>8, DonationsAssumption DEF DonationsTypeOK
  <2>11. Refers
    BY <1>0, <2>3, <2>4, <2>5, <2>6, <2>7, DonationsAssumption
    DEF DonationsTypeOK, DonationRows
  <2> QED
    BY <1>a, <2>1, <2>7, <2>8, <2>9, <2>10, <2>11
<1>9. ASSUME NEW r \in Requests, VerifyDies(r)
      PROVE  Good
  <2>1. Go(r, Idle) /\ UNCHANGED <<left, inboxVars, cut, uploadVars, donationVars>>
        /\ req[r].at = "close"
    BY <1>9 DEF VerifyDies
  <2>2. Shared' /\ Grows
    BY <1>0, <2>1, IdleType, GoType DEF inboxVars, Shared, InboxTypeOK, Grows
  <2>3. DonationsTypeOK' /\ Known(Idle) /\ Kept /\ Refers
    BY <1>0, <2>1, IdleType DEF donationVars, DonationsTypeOK, DonationRows
  <2> QED
    BY <1>a, <2>1, <2>2, <2>3, IdleType
<1> QED
  BY <1>1, <1>2, <1>3, <1>4, <1>5, <1>6, <1>7, <1>8, <1>9 DEF DonationsNext

\* A request that is refused was reading, and ends.
LEMMA GiveUpStep ==
  ASSUME Typed, NEW r \in Requests, GiveUp(r)
  PROVE  Shared' /\ Moves(Reading) /\ Grows
<1>1. Go(r, Idle) /\ req[r].at \in Reading /\ UNCHANGED <<left, inboxVars, cut>>
  BY DEF GiveUp
<1> QED
  BY <1>1, IdleType, GoType
  DEF Typed, TypeOK, inboxVars, Shared, InboxTypeOK, Moves, Grows

-----------------------------------------------------------------------------
(* A step of one component leaves what the others know of their requests.  *)

\* A request in a stage that is not moved stays as it is.
LEMMA Others ==
  ASSUME NEW S, Moves(S), NEW r \in Requests,
         req'[r].at \notin S \cup {"idle", "tell"} \/ req[r].at \notin S
  PROVE  req'[r] = req[r]
  BY DEF Moves

\* A step that leaves messaging alone keeps what is known of it.
LEMMA MessagingFrame ==
  ASSUME Typed, UNCHANGED messagingVars
  PROVE  MessagingTypeOK' /\ MessagingRows'
  BY DEF Typed, TypeOK, messagingVars, MessagingTypeOK, MessagingRows

\* The same for complaints, when no request at a complaint moves.
LEMMA ComplaintsFrame ==
  ASSUME Typed, UNCHANGED complaintVars, NEW S, Moves(S),
         {"inform", "respond"} \cap S = {}
  PROVE  ComplaintsTypeOK' /\ ComplaintRows'
<1>1. ASSUME NEW r \in Requests, req'[r].at \in {"inform", "respond"}
      PROVE  req'[r] = req[r]
  BY <1>1, Others
<1> QED
  BY <1>1 DEF Typed, TypeOK, complaintVars, ComplaintsTypeOK, ComplaintRows

\* The same for feedback.
LEMMA FeedbackFrame ==
  ASSUME Typed, UNCHANGED feedbackVars, NEW S, Moves(S),
         {"report", "thank", "mark"} \cap S = {}
  PROVE  FeedbackTypeOK' /\ FeedbackRows'
<1>1. ASSUME NEW r \in Requests, req'[r].at \in {"report", "thank", "mark"}
      PROVE  req'[r] = req[r]
  BY <1>1, Others
<1> QED
  BY <1>1 DEF Typed, TypeOK, feedbackVars, FeedbackTypeOK, FeedbackRows

\* The same for donations.
LEMMA DonationsFrame ==
  ASSUME Typed, UNCHANGED donationVars, NEW S, Moves(S),
         {"key", "open", "insert", "judge", "close"} \cap S = {}
  PROVE  DonationsTypeOK' /\ DonationRows'
<1>1. ASSUME NEW r \in Requests,
             req'[r].at \in {"key", "open", "insert", "judge", "close"}
      PROVE  req'[r] = req[r]
  BY <1>1, Others
<1> QED
  BY <1>1 DEF Typed, TypeOK, donationVars, DonationsTypeOK, DonationRows

\* The types hold at the start.
LEMMA TypedInit == Init => Typed
<1> SUFFICES ASSUME Init PROVE Typed
  OBVIOUS
<1>1. req = [r \in Requests |-> Idle] /\ \A r \in Requests : req[r].at = "idle"
  BY IdleType DEF Init, InboxInit
<1>2. InboxTypeOK /\ req \in [Requests -> Request]
  BY <1>1, IdleType, InboxAssumption DEF Init, InboxInit, InboxTypeOK
<1>3. MessagingTypeOK /\ MessagingRows
  BY DEF Init, MessagingInit, MessagingTypeOK, MessagingRows
<1>4. ComplaintsTypeOK /\ ComplaintRows
  BY <1>1 DEF Init, ComplaintsInit, ComplaintsTypeOK, ComplaintRows
<1>5. UploadsTypeOK
  BY DEF Init, UploadsInit, UploadsTypeOK, Permission
<1>6. FeedbackTypeOK /\ FeedbackRows
  BY <1>1 DEF Init, FeedbackInit, FeedbackTypeOK, FeedbackRows
<1>7. DonationsTypeOK /\ DonationRows
  <2>1. [donor : Donors, status : {"pending"}] \subseteq Donation
    BY DonationsAssumption DEF Donation, SubmissionStatus
  <2> QED
    BY <1>1, <2>1 DEF Init, DonationsInit, DonationsTypeOK, DonationRows
<1> QED
  BY <1>2, <1>3, <1>4, <1>5, <1>6, <1>7 DEF Typed, TypeOK, InboxTypeOK

\* Every step moves the requests of one component at most, and forgets nothing.
LEMMA TypedStep ==
  ASSUME Typed, [Next]_vars
  PROVE  Typed'
<1> USE DEF Typed, TypeOK, Shared, InboxTypeOK
<1>1. CASE InboxNext /\ UNCHANGED <<messagingVars, complaintVars, uploadVars,
                                    feedbackVars, donationVars>>
  BY <1>1, InboxStep, MessagingFrame, ComplaintsFrame, FeedbackFrame, DonationsFrame
  DEF uploadVars, UploadsTypeOK
<1>2. CASE MessagingNext /\ UNCHANGED <<complaintVars, uploadVars, feedbackVars, donationVars>>
  BY <1>2, MessagingStep, ComplaintsFrame, FeedbackFrame, DonationsFrame
  DEF uploadVars, UploadsTypeOK
<1>3. CASE ComplaintsNext /\ UNCHANGED <<messagingVars, uploadVars, feedbackVars, donationVars>>
  BY <1>3, ComplaintsStep, MessagingFrame, FeedbackFrame, DonationsFrame
  DEF uploadVars, UploadsTypeOK
<1>4. CASE UploadsNext /\ UNCHANGED <<messagingVars, complaintVars, feedbackVars, donationVars>>
  BY <1>4, UploadsStep, MessagingFrame, ComplaintsFrame, FeedbackFrame, DonationsFrame
<1>5. CASE FeedbackNext /\ UNCHANGED <<messagingVars, complaintVars, donationVars>>
  BY <1>5, FeedbackStep, MessagingFrame, ComplaintsFrame, DonationsFrame
<1>6. CASE DonationsNext /\ UNCHANGED <<messagingVars, complaintVars, feedbackVars>>
  BY <1>6, DonationsStep, MessagingFrame, ComplaintsFrame, FeedbackFrame
<1>7. ASSUME NEW r \in Requests, GiveUp(r) PROVE Typed'
  <2>1. req' \in [Requests -> Request] /\ req'[r] = Idle /\ Shared'
        /\ \A x \in Requests \ {r} : req'[x] = req[x]
    BY <1>7, GiveUpStep, IdleType, GoType DEF GiveUp
  <2>2. UNCHANGED <<messagingVars, complaintVars, uploadVars, feedbackVars, donationVars>>
    BY <1>7 DEF GiveUp
  <2>3. \A x \in Requests : req'[x] = req[x] \/ req'[x].at = "idle"
    BY <2>1, IdleType
  <2>4. ComplaintsTypeOK' /\ ComplaintRows'
    BY <2>2, <2>3 DEF complaintVars, ComplaintsTypeOK, ComplaintRows
  <2>5. FeedbackTypeOK' /\ FeedbackRows'
    BY <2>2, <2>3 DEF feedbackVars, FeedbackTypeOK, FeedbackRows
  <2>6. DonationsTypeOK' /\ DonationRows'
    BY <2>2, <2>3 DEF donationVars, DonationsTypeOK, DonationRows
  <2> QED
    BY <2>1, <2>2, <2>4, <2>5, <2>6, MessagingFrame DEF uploadVars, UploadsTypeOK
<1>8. CASE UNCHANGED vars
  <2>1. Moves({}) /\ UNCHANGED <<req, inboxVars, left, cut, messagingVars, complaintVars,
                                 uploadVars, feedbackVars, donationVars>>
    BY <1>8 DEF vars, Moves
  <2> QED
    BY <2>1, MessagingFrame, ComplaintsFrame, FeedbackFrame, DonationsFrame
    DEF inboxVars, uploadVars, UploadsTypeOK
<1> QED
  BY <1>1, <1>2, <1>3, <1>4, <1>5, <1>6, <1>7, <1>8 DEF Next

\* Variables hold what they are declared to hold, and every request in
\* progress knows only rows that exist.
THEOREM TypeCorrect == Spec => []TypeOK
<1>1. Typed => TypeOK
  BY DEF Typed
<1> QED
  BY <1>1, TypedInit, TypedStep, PTL DEF Spec

-----------------------------------------------------------------------------
(* Nobody is forgotten.                                                    *)

\* The steps of other components than Inbox, as far as telling goes: they end
\* nobody's telling.
Leaves(S) == Moves(S) /\ Grows /\ "tell" \notin S

\* A step that ends nobody's telling forgets nobody.
LEMMA LeavesTold ==
  ASSUME NEW S, Leaves(S), NEW u, NEW t, ToldOrLost(u, t)
  PROVE  ToldOrLost(u, t)'
<1>1. \A r \in Requests : req[r].at = "tell" => req'[r] = req[r]
  BY Others DEF Leaves
<1> QED
  BY <1>1 DEF Leaves, Grows, ToldOrLost

\* Nor does the telling itself: who was to be told is told, or lost with it.
LEMMA InboxTold ==
  ASSUME Typed, InboxNext, NEW u \in Users, NEW t \in Topic, ToldOrLost(u, t)
  PROVE  ToldOrLost(u, t)'
<1>0. req \in [Requests -> Request] /\ InboxTypeOK /\ Grows
  BY InboxStep DEF Typed, TypeOK, InboxTypeOK
<1>1. CASE Notice(u, t) \in notices \/ t \in cut
  BY <1>0, <1>1 DEF Grows, ToldOrLost
<1>2. ASSUME NEW x \in Requests, req[x].at = "tell", req[x].about = t,
             u \in req[x].todo \cup req[x].after
      PROVE  ToldOrLost(u, t)'
  <2>1. ASSUME NEW r \in Requests, TellDies(r) PROVE ToldOrLost(u, t)'
    BY <1>0, <1>2, <2>1, IdleType, GoType DEF TellDies, ToldOrLost
  <2>2. ASSUME NEW r \in Requests, NEW v \in Users, Tell(r, v)
        PROVE  ToldOrLost(u, t)'
    <3>1. CASE r # x
      <4>1. req[r] \in [at : {"tell"}, about : Topic, todo : SUBSET Users,
                        after : SUBSET Users]
        BY <2>2, StageType DEF Tell, Typed
      <4>2. Telling(req[r].about, req[r].todo \ {v}, req[r].after) \in Request
        BY <4>1, TellingType
      <4>3. req'[x] = req[x]
        BY <1>0, <2>2, <3>1, <4>2, GoType DEF Tell
      <4> QED
        BY <1>2, <4>3 DEF ToldOrLost
    <3>2. CASE r = x
      <4>1. /\ req[x] \in [at : {"tell"}, about : Topic, todo : SUBSET Users,
                           after : SUBSET Users]
            /\ Write(Notice(v, t))
            /\ Go(x, Telling(t, req[x].todo \ {v}, req[x].after))
        BY <1>2, <2>2, <3>2, StageType DEF Tell, Typed
      <4> DEFINE q == Telling(t, req[x].todo \ {v}, req[x].after)
      <4>2. /\ q \in Request
            /\ \A w \in (req[x].todo \ {v}) \cup req[x].after :
                 q.at = "tell" /\ q.about = t /\ w \in q.todo \cup q.after
        <5>1. /\ req[x].todo \ {v} \in SUBSET Users /\ req[x].after \in SUBSET Users
          BY <4>1
        <5> QED
          BY <5>1, TellingType
      <4>3. req'[x] = q
        BY <1>0, <4>1, <4>2, GoType
      <4>4. u = v => Notice(u, t) \in notices'
        BY <1>0, <4>1, WriteType
      <4> HIDE DEF q
      <4> QED
        BY <1>2, <4>2, <4>3, <4>4 DEF ToldOrLost
    <3> QED
      BY <3>1, <3>2
  <2>3. ASSUME NEW n \in notices, MarkRead(n) PROVE ToldOrLost(u, t)'
    BY <1>2, <2>3 DEF MarkRead, ToldOrLost
  <2>4. ASSUME NEW v \in Users, MarkAllRead(v) PROVE ToldOrLost(u, t)'
    BY <1>2, <2>4 DEF MarkAllRead, ToldOrLost
  <2> QED
    BY <2>1, <2>2, <2>3, <2>4 DEF InboxNext
<1> QED
  BY <1>1, <1>2 DEF ToldOrLost

\* Once somebody has to be told, no step forgets it.
LEMMA ToldKept ==
  ASSUME Typed, [Next]_vars, NEW u \in Users, NEW t \in Topic, ToldOrLost(u, t)
  PROVE  ToldOrLost(u, t)'
<1>1. CASE InboxNext
  BY <1>1, InboxTold
<1>2. CASE MessagingNext
  BY <1>2, MessagingStep, LeavesTold DEF Leaves
<1>3. CASE ComplaintsNext
  BY <1>3, ComplaintsStep, LeavesTold DEF Leaves
<1>4. CASE UploadsNext
  BY <1>4, UploadsStep, LeavesTold DEF Leaves
<1>5. CASE FeedbackNext
  BY <1>5, FeedbackStep, LeavesTold DEF Leaves
<1>6. CASE DonationsNext
  BY <1>6, DonationsStep, LeavesTold DEF Leaves
<1>7. ASSUME NEW r \in Requests, GiveUp(r) PROVE ToldOrLost(u, t)'
  BY <1>7, GiveUpStep, LeavesTold DEF Leaves, Reading
<1>8. CASE UNCHANGED vars
  BY <1>8 DEF vars, inboxVars, ToldOrLost
<1> QED
  BY <1>1, <1>2, <1>3, <1>4, <1>5, <1>6, <1>7, <1>8 DEF Next

\* A request that goes on to tell somebody has not forgotten them.
LEMMA TellingTold ==
  ASSUME req \in [Requests -> Request], NEW r \in Requests, NEW t \in Topic,
         NEW todo \in SUBSET Users, NEW after \in SUBSET Users,
         Go(r, Telling(t, todo, after)), NEW u \in todo \cup after
  PROVE  ToldOrLost(u, t)'
<1> DEFINE q == Telling(t, todo, after)
<1>1. q \in Request /\ q.at = "tell" /\ q.about = t /\ u \in q.todo \cup q.after
  BY TellingType
<1>2. req'[r] = q
  BY <1>1, GoType
<1> HIDE DEF q
<1> QED
  BY <1>1, <1>2 DEF ToldOrLost

\* Whoever a message is for stays told of it, or hears of a new one.
LEMMA MessagesKept ==
  ASSUME Typed, [Next]_vars, MessagesTold
  PROVE  MessagesTold'
<1>0. req \in [Requests -> Request] /\ MessagingTypeOK /\ MessagingRows
  BY DEF Typed, TypeOK
<1>a. ASSUME NEW m \in MessageIds, message[m] # Nothing
      PROVE  /\ message[m] \in Message /\ message[m].in \in ConversationIds
             /\ conversation[message[m].in] \in Conversation
             /\ Participants(message[m].in) \in SUBSET Users
  BY <1>0, <1>a DEF MessagingTypeOK, MessagingRows, Message, Conversation, Participants
\* It is enough that a message in the table was there before, in the same
\* conversation, or is being told.
<1>b. ASSUME NEW m \in MessageIds, message'[m] # Nothing, message[m] # Nothing,
             message'[m].in = message[m].in, message'[m].from = message[m].from,
             conversation'[message[m].in] = conversation[message[m].in],
             NEW u \in Participants(message[m].in)' \ {message[m].from}
      PROVE  ToldOrLost(u, <<"message", m>>)'
  <2>1. ToldOrLost(u, <<"message", m>>) /\ u \in Users
    BY <1>a, <1>b DEF MessagesTold, Participants
  <2> QED
    BY <2>1, ToldKept, Topics
<1>1. CASE UNCHANGED messagingVars
  BY <1>1, <1>b DEF messagingVars, MessagesTold
<1>2. ASSUME NEW r \in Requests, NEW c \in ConversationIds, ConverseInsert(r, c)
      PROVE  MessagesTold'
  <2>1. message' = message /\ \A d \in ConversationIds :
          conversation[d] # Nothing => conversation'[d] = conversation[d]
    BY <1>0, <1>2 DEF ConverseInsert, MessagingTypeOK
  <2> QED
    BY <1>0, <1>a, <1>b, <2>1 DEF MessagesTold, MessagingRows
<1>3. ASSUME NEW r \in Requests, NEW u \in Talkers, NEW c \in ConversationIds,
             NEW m \in MessageIds, Send(r, u, c, m)
      PROVE  MessagesTold'
  <2>1. /\ conversation' = conversation
        /\ message' = [message EXCEPT ![m] = [in |-> c, from |-> u, read |-> FALSE]]
        /\ Go(r, Telling(<<"message", m>>, Participants(c) \ {u}, {}))
    BY <1>3 DEF Send, Begin
  <2>2. Participants(c) \in SUBSET Users
    BY <1>0, <1>3 DEF Send, MessagingTypeOK, Conversation, Participants
  <2>3. \A v \in Participants(c) \ {u} : ToldOrLost(v, <<"message", m>>)'
    <3>1. PICK others \in SUBSET Users : others = Participants(c) \ {u}
      BY <2>2
    <3>2. <<"message", m>> \in Topic /\ {} \in SUBSET Users
      BY Topics
    <3>3. \A v \in others \cup {} : ToldOrLost(v, <<"message", m>>)'
      BY <1>0, <2>1, <3>1, <3>2, TellingTold
    <3> QED
      BY <3>1, <3>3
  <2>4. message'[m].in = c /\ message'[m].from = u
    BY <1>0, <2>1 DEF MessagingTypeOK
  <2>5. \A n \in MessageIds \ {m} : message'[n] = message[n]
    BY <1>0, <2>1 DEF MessagingTypeOK
  <2>6. ASSUME NEW n \in MessageIds, message'[n] # Nothing,
               NEW v \in (Participants(message[n].in) \ {message[n].from})'
        PROVE  ToldOrLost(v, <<"message", n>>)'
    <3>1. CASE n = m
      BY <2>1, <2>3, <2>4, <2>6, <3>1 DEF Participants
    <3>2. CASE n # m
      BY <1>b, <2>1, <2>5, <2>6, <3>2
    <3> QED
      BY <3>1, <3>2
  <2> QED
    BY <2>6 DEF MessagesTold
<1>4. ASSUME NEW u \in Talkers, NEW c \in ConversationIds, ReadMessages(u, c)
      PROVE  MessagesTold'
  <2>1. conversation' = conversation
    BY <1>4 DEF ReadMessages
  <2>2. ASSUME NEW m \in MessageIds, message'[m] # Nothing
        PROVE  /\ message[m] # Nothing
               /\ message'[m].in = message[m].in /\ message'[m].from = message[m].from
    BY <1>0, <1>4, <2>2 DEF ReadMessages, Unread, MessagingTypeOK, Message
  <2> QED
    BY <1>b, <2>1, <2>2 DEF MessagesTold
<1>5. ASSUME NEW r \in Requests, NEW u \in Talkers, NEW v \in Talkers,
             NEW x \in Contexts, ConverseRead(r, u, v, x)
      PROVE  UNCHANGED messagingVars
  BY <1>5 DEF ConverseRead
<1>6. UNCHANGED messagingVars \/ MessagingNext
  BY DEF Next, vars, GiveUp
<1> QED
  BY <1>1, <1>2, <1>3, <1>4, <1>5, <1>6 DEF MessagingNext

\* The accused and the admins stay told of complaints and of answers.
LEMMA ComplaintsKept ==
  ASSUME Typed, [Next]_vars, ComplaintsTold
  PROVE  ComplaintsTold'
<1> DEFINE Told(c) ==
             /\ \A u \in {complaint[c].against} \cup Admins : ToldOrLost(u, <<"filed", c>>)
             /\ complaint[c].answered => \A u \in Admins : ToldOrLost(u, <<"answer", c>>)
<1>0. req \in [Requests -> Request] /\ ComplaintsTypeOK /\ ComplaintRows
  BY DEF Typed, TypeOK
<1>a. ASSUME NEW c \in ComplaintIds, complaint[c] # Nothing, complaint'[c] # Nothing,
             complaint'[c].against = complaint[c].against,
             \/ complaint'[c].answered = complaint[c].answered
             \/ \A u \in Admins : ToldOrLost(u, <<"answer", c>>)'
      PROVE  Told(c)'
  <2>1. Told(c) /\ complaint[c].against \in Users
    BY <1>0, <1>a DEF ComplaintsTold, ComplaintsTypeOK, Complaint
  <2>2. \A u \in {complaint[c].against} \cup Admins : ToldOrLost(u, <<"filed", c>>)'
    BY <2>1, ToldKept, Topics, InboxAssumption
  <2>3. complaint[c].answered => \A u \in Admins : ToldOrLost(u, <<"answer", c>>)'
    BY <2>1, ToldKept, Topics, InboxAssumption
  <2> QED
    BY <1>a, <2>2, <2>3
<1>1. CASE UNCHANGED complaint
  BY <1>1, <1>a DEF ComplaintsTold
<1>2. ASSUME NEW r \in Requests, NEW u \in Users, NEW t \in Targets,
             NEW c \in ComplaintIds, File(r, u, t, c)
      PROVE  ComplaintsTold'
  <2>1. PICK v \in Accused(u, t) \ {u} :
          /\ complaint' = [complaint EXCEPT ![c] =
               [by |-> u, against |-> v, status |-> "open", answered |-> FALSE]]
          /\ Go(r, Telling(<<"filed", c>>, {v}, Admins))
    BY <1>2 DEF File, Begin
  <2>2. v \in Users
    BY ComplaintsAssumption DEF Accused, Target
  <2>3. \A w \in {v} \cup Admins : ToldOrLost(w, <<"filed", c>>)'
    BY <1>0, <2>1, <2>2, TellingTold, Topics, InboxAssumption
  <2>4. /\ complaint'[c].against = v /\ complaint'[c].answered = FALSE
        /\ \A d \in ComplaintIds \ {c} : complaint'[d] = complaint[d]
    BY <1>0, <2>1 DEF ComplaintsTypeOK
  <2>5. Told(c)'
    BY <2>3, <2>4
  <2>6. \A d \in ComplaintIds \ {c} : complaint'[d] # Nothing => Told(d)'
    BY <1>a, <2>4
  <2> QED
    BY <2>5, <2>6 DEF ComplaintsTold
<1>3. ASSUME NEW r \in Requests, NEW c \in ComplaintIds, NEW s \in ComplaintStatus,
             UpdateStatus(r, c, s)
      PROVE  ComplaintsTold'
  <2>1. /\ complaint[c] \in Complaint
        /\ complaint' = [complaint EXCEPT ![c] = [complaint[c] EXCEPT !.status = s]]
    BY <1>0, <1>3 DEF UpdateStatus, ComplaintsTypeOK
  <2>2. \A d \in ComplaintIds : complaint'[d] # Nothing =>
          /\ complaint[d] # Nothing /\ complaint'[d].against = complaint[d].against
          /\ complaint'[d].answered = complaint[d].answered
    BY <1>0, <1>3, <2>1 DEF UpdateStatus, ComplaintsTypeOK, Complaint
  <2> QED
    BY <1>a, <2>2 DEF ComplaintsTold
<1>4. ASSUME NEW r \in Requests, RespondWrite(r)
      PROVE  ComplaintsTold'
  <2>1. PICK c \in ComplaintIds : c = req[r].complaint
    BY <1>4, StageType DEF RespondWrite, Typed
  <2>2. complaint[c] # Nothing /\ complaint[c] \in Complaint
    BY <1>0, <1>4, <2>1 DEF RespondWrite, ComplaintRows, ComplaintsTypeOK
  <2>3. /\ complaint' = [complaint EXCEPT ![c] = [complaint[c] EXCEPT !.answered = TRUE]]
        /\ Go(r, Telling(<<"answer", c>>, Admins, {}))
    BY <1>4, <2>1 DEF RespondWrite
  <2>4. \A u \in Admins : ToldOrLost(u, <<"answer", c>>)'
    <3>1. <<"answer", c>> \in Topic /\ {} \in SUBSET Users /\ Admins \in SUBSET Users
      BY Topics, InboxAssumption
    <3> QED
      BY <1>0, <2>3, <3>1, TellingTold
  <2>5. ASSUME NEW d \in ComplaintIds, complaint'[d] # Nothing
        PROVE  Told(d)'
    <3>1. complaint[d] # Nothing /\ complaint'[d].against = complaint[d].against
      BY <1>0, <2>2, <2>3, <2>5 DEF ComplaintsTypeOK, Complaint
    <3>2. CASE d = c
      BY <1>a, <2>4, <2>5, <3>1, <3>2
    <3>3. CASE d # c
      <4>1. complaint'[d] = complaint[d]
        BY <1>0, <2>3, <3>3 DEF ComplaintsTypeOK
      <4> QED
        BY <1>a, <2>5, <3>1, <4>1
    <3> QED
      BY <3>2, <3>3
  <2> QED
    BY <2>5 DEF ComplaintsTold
<1>5. \/ UNCHANGED complaint
      \/ \E r \in Requests, u \in Users, t \in Targets, c \in ComplaintIds : File(r, u, t, c)
      \/ \E r \in Requests, c \in ComplaintIds, s \in ComplaintStatus : UpdateStatus(r, c, s)
      \/ \E r \in Requests : RespondWrite(r)
  BY DEF Next, vars, complaintVars, GiveUp, ComplaintsNext, RespondRead, Inform, InformDies
<1> QED
  BY <1>1, <1>2, <1>3, <1>4, <1>5

\* The admins are being told of feedback, by the request that inserted it.
LEMMA ReportingKept ==
  ASSUME Typed, [Next]_vars, FeedbackTold
  PROVE  FeedbackTold'
<1> DEFINE Coming(u, f) == \E r \in Requests :
             req[r].at = "report" /\ req[r].feedback = f /\ u \in req[r].todo
<1>0. req \in [Requests -> Request] /\ FeedbackTypeOK /\ FeedbackRows /\ InboxTypeOK
  BY DEF Typed, TypeOK, InboxTypeOK
<1>t. \A u \in Admins, f \in FeedbackIds :
        ToldOrLost(u, <<"feedback", f>>) => ToldOrLost(u, <<"feedback", f>>)'
  BY ToldKept, Topics, InboxAssumption
\* It is enough that a request which was telling somebody goes on, or has.
<1>a. ASSUME \A f \in FeedbackIds : feedback'[f] # Nothing => feedback[f] # Nothing,
             \A u \in Admins, f \in FeedbackIds :
               Coming(u, f) => ToldOrLost(u, <<"feedback", f>>)' \/ Coming(u, f)'
      PROVE  FeedbackTold'
  BY <1>a, <1>t DEF FeedbackTold
<1>b. ASSUME NEW r \in Requests, NEW q \in Request, Go(r, q), req[r].at # "report"
      PROVE  \A u \in Admins, f \in FeedbackIds : Coming(u, f) => Coming(u, f)'
  BY <1>0, <1>b, GoType
<1>1. CASE UNCHANGED feedbackVars /\ ~FeedbackNext
  <2>1. \A r \in Requests : req[r].at = "report" => req'[r] = req[r]
    <3>1. CASE InboxNext
      BY <3>1, InboxStep, Others
    <3>2. CASE MessagingNext
      BY <3>2, MessagingStep, Others
    <3>3. CASE ComplaintsNext
      BY <3>3, ComplaintsStep, Others
    <3>4. CASE UploadsNext
      BY <3>4, UploadsStep, Others
    <3>5. CASE DonationsNext
      BY <3>5, DonationsStep, Others
    <3>6. CASE \E r \in Requests : GiveUp(r)
      BY <3>6, GiveUpStep, Others DEF Reading
    <3>7. CASE UNCHANGED vars
      BY <3>7 DEF vars
    <3> QED
      BY <1>1, <3>1, <3>2, <3>3, <3>4, <3>5, <3>6, <3>7 DEF Next
  <2> QED
    BY <1>1, <1>a, <2>1 DEF feedbackVars
<1>2. ASSUME NEW r \in Requests, NEW email \in BOOLEAN, NEW key \in Files \cup {Nothing},
             Attach(r, email, key)
      PROVE  FeedbackTold'
  <2> DEFINE q == [at |-> "feedback", email |-> email, key |-> key]
  <2>1. q \in Request
    BY DEF Request
  <2>2. req[r].at = "idle" /\ Go(r, q) /\ UNCHANGED feedback
    BY <1>0, <1>2, BeginsIdle DEF Attach, feedbackVars
  <2> QED
    BY <1>a, <1>b, <2>1, <2>2
<1>3. ASSUME NEW r \in Requests, NEW f \in FeedbackIds, FeedbackInsert(r, f)
      PROVE  FeedbackTold'
  <2>1. /\ req[r].at = "feedback" /\ Go(r, Reporting(f, Admins))
        /\ \A g \in FeedbackIds \ {f} : feedback'[g] = feedback[g]
        /\ FeedbackTypeOK' /\ feedback'[f] # Nothing
    <3>1. FeedbackTypeOK'
      BY <1>3, FeedbackStep DEF FeedbackNext
    <3>2. feedback'[f] = [email |-> req[r].email, key |-> req[r].key,
                          status |-> "new", isRead |-> FALSE, thanked |-> FALSE]
      <4>1. feedback' = [feedback EXCEPT ![f] =
              [email |-> req[r].email, key |-> req[r].key,
               status |-> "new", isRead |-> FALSE, thanked |-> FALSE]]
        BY <1>3 DEF FeedbackInsert
      <4> QED
        BY <1>0, <4>1 DEF FeedbackTypeOK
    <3>3. feedback'[f] # Nothing
      <4>1. req[r] \in [at : {"feedback"}, email : BOOLEAN, key : Files \cup {Nothing}]
        BY <1>3, StageType DEF FeedbackInsert, Typed
      <4>2. feedback'[f] \in FeedbackRow
        BY <3>2, <4>1 DEF FeedbackRow, FeedbackStatus
      <4> QED
        BY <4>2, FeedbackAssumption
    <3> QED
      BY <1>0, <1>3, <3>1, <3>3 DEF FeedbackInsert, FeedbackTypeOK
  <2> DEFINE q == Reporting(f, Admins)
  <2>2. /\ q \in Request
        /\ Admins # {} => q.at = "report" /\ q.feedback = f /\ q.todo = Admins
    BY <2>1, ReportingType, InboxAssumption
  <2>3. req'[r] = q
    BY <1>0, <2>1, <2>2, GoType
  <2> HIDE DEF q
  <2>4. \A u \in Admins : Coming(u, f)'
    BY <2>2, <2>3
  <2>5. \A u \in Admins, g \in FeedbackIds : Coming(u, g) => Coming(u, g)'
    BY <1>b, <2>1, <2>2 DEF q
  <2> QED
    BY <1>t, <2>1, <2>4, <2>5 DEF FeedbackTold
<1>4. ASSUME NEW r \in Requests, NEW v \in Users, Report(r, v)
      PROVE  FeedbackTold'
  <2>1. req[r] \in [at : {"report"}, feedback : FeedbackIds, todo : SUBSET Users]
    BY <1>4, StageType DEF Report, Typed
  <2>2. PICK f \in FeedbackIds, todo \in SUBSET Users :
          f = req[r].feedback /\ todo = req[r].todo
    BY <2>1
  <2>3. /\ Write(Notice(v, <<"feedback", f>>)) /\ Go(r, Reporting(f, todo \ {v}))
        /\ UNCHANGED feedbackVars /\ feedback[f] # Nothing
    BY <1>0, <1>4, <2>1, <2>2 DEF Report, FeedbackRows
  <2>4. FeedbackTypeOK' /\ UNCHANGED feedback
    BY <1>0, <2>3 DEF feedbackVars, FeedbackTypeOK
  <2> DEFINE q == Reporting(f, todo \ {v})
  <2>5. /\ q \in Request
        /\ todo \ {v} # {} => q.at = "report" /\ q.feedback = f /\ q.todo = todo \ {v}
    <3>1. todo \ {v} \in SUBSET Users /\ feedback'[f] # Nothing
      BY <2>3, <2>4
    <3> QED
      BY <2>4, <3>1, ReportingType
  <2>6. req'[r] = q /\ \A x \in Requests \ {r} : req'[x] = req[x]
    BY <1>0, <2>3, <2>5, GoType
  <2>7. ToldOrLost(v, <<"feedback", f>>)'
    <3>1. Notice(v, <<"feedback", f>>) \in notices'
      BY <2>3 DEF Write
    <3> QED
      BY <3>1 DEF ToldOrLost, Notice
  <2> HIDE DEF q
  <2>8. \A u \in todo \ {v} : Coming(u, f)'
    BY <2>5, <2>6
  <2>9. ASSUME NEW u \in Admins, NEW g \in FeedbackIds, Coming(u, g)
        PROVE  ToldOrLost(u, <<"feedback", g>>)' \/ Coming(u, g)'
    <3>1. PICK x \in Requests :
            req[x].at = "report" /\ req[x].feedback = g /\ u \in req[x].todo
      BY <2>9
    <3>2. CASE x # r
      BY <2>6, <3>1, <3>2
    <3>3. CASE x = r
      <4>1. g = f /\ u \in todo
        BY <2>2, <3>1, <3>3
      <4>2. CASE u = v
        BY <2>7, <4>1, <4>2
      <4>3. CASE u # v
        BY <2>8, <4>1, <4>3
      <4> QED
        BY <4>2, <4>3
    <3> QED
      BY <3>2, <3>3
  <2> QED
    BY <1>a, <2>4, <2>9
<1>5. ASSUME NEW r \in Requests, ReportFails(r)
      PROVE  FeedbackTold'
  <2>1. PICK f \in FeedbackIds : f = req[r].feedback
    BY <1>5, StageType DEF ReportFails, Typed
  <2>2. /\ feedback[f] # Nothing /\ UNCHANGED feedbackVars
        /\ cut' = cut \cup {<<"feedback", f>>} /\ Go(r, Thanks(f))
    BY <1>0, <1>5, <2>1 DEF ReportFails, FeedbackRows
  <2>3. FeedbackTypeOK' /\ feedback'[f] # Nothing /\ {} \in SUBSET Users
    BY <1>0, <2>2 DEF feedbackVars, FeedbackTypeOK
  <2>4. Thanks(f) \in Request
    BY <2>3, ReportingType
  <2>5. \A x \in Requests \ {r} : req'[x] = req[x]
    BY <1>0, <2>2, <2>4, GoType
  <2>6. \A u \in Admins : ToldOrLost(u, <<"feedback", f>>)'
    BY <2>2 DEF ToldOrLost
  <2>7. \A u \in Admins, g \in FeedbackIds :
          Coming(u, g) => ToldOrLost(u, <<"feedback", g>>)' \/ Coming(u, g)'
    BY <2>1, <2>5, <2>6
  <2> QED
    BY <1>a, <2>2, <2>7 DEF feedbackVars
<1>10. ASSUME NEW r \in Requests, ReportDies(r)
      PROVE  FeedbackTold'
  <2>1. PICK f \in FeedbackIds : f = req[r].feedback
    BY <1>10, StageType DEF ReportDies, Typed
  <2>2. /\ UNCHANGED feedbackVars /\ <<"feedback", f>> \in cut' /\ Go(r, Idle)
    BY <1>10, <2>1 DEF ReportDies
  <2>3. \A x \in Requests \ {r} : req'[x] = req[x]
    BY <1>0, <2>2, IdleType, GoType
  <2>4. \A u \in Admins : ToldOrLost(u, <<"feedback", f>>)'
    BY <2>2 DEF ToldOrLost
  <2>5. \A u \in Admins, g \in FeedbackIds :
          Coming(u, g) => ToldOrLost(u, <<"feedback", g>>)' \/ Coming(u, g)'
    BY <2>1, <2>3, <2>4
  <2> QED
    BY <1>a, <2>2, <2>5 DEF feedbackVars
<1>6. ASSUME NEW r \in Requests, Thank(r) \/ ThankFails(r) \/ MarkThanked(r) \/ MarkDies(r)
      PROVE  FeedbackTold'
  <2>1. PICK q \in {Idle, [at |-> "mark", feedback |-> req[r].feedback]} : Go(r, q)
    BY <1>6 DEF Thank, ThankFails, MarkThanked, MarkDies
  <2>2. req[r].at \in {"thank", "mark"}
    BY <1>6 DEF Thank, ThankFails, MarkThanked, MarkDies
  <2>3. req[r].feedback \in FeedbackIds
    BY <2>2, StageType DEF Typed
  <2>4. q \in Request
    BY <2>1, <2>3, IdleType DEF Request
  <2>5. \A g \in FeedbackIds : feedback'[g] # Nothing => feedback[g] # Nothing
    BY <1>0, <1>6, <2>2 DEF Thank, ThankFails, MarkThanked, MarkDies, feedbackVars,
                            FeedbackTypeOK, FeedbackRows
  <2> QED
    BY <1>a, <1>b, <2>1, <2>2, <2>4, <2>5
<1>7. ASSUME NEW f \in FeedbackIds, NEW s \in FeedbackStatus,
             Triage(f, s) \/ MarkFeedbackRead(f)
      PROVE  FeedbackTold'
  <2>1. /\ UNCHANGED req
        /\ \A g \in FeedbackIds : feedback'[g] # Nothing => feedback[g] # Nothing
    BY <1>0, <1>7 DEF Triage, MarkFeedbackRead, FeedbackTypeOK
  <2> QED
    BY <1>a, <2>1
<1>8. UNCHANGED feedbackVars \/ FeedbackNext
  BY DEF Next, vars, GiveUp
<1>9. FeedbackStatus # {}
  BY DEF FeedbackStatus
<1> QED
  BY <1>1, <1>2, <1>3, <1>4, <1>5, <1>6, <1>7, <1>8, <1>9, <1>10 DEF FeedbackNext

\* The admins are being told of a proof, and its donor of a verdict.
LEMMA ProofsKept ==
  ASSUME Typed, [Next]_vars, ProofsTold
  PROVE  ProofsTold'
<1> DEFINE Told(p) ==
             /\ \A u \in Admins : ToldOrLost(u, <<"proof", p>>)
             /\ proof[p].status # "pending" =>
                  ToldOrLost(donation[proof[p].donation].donor, <<"verdict", p>>)
<1>0. req \in [Requests -> Request] /\ DonationsTypeOK /\ DonationRows
  BY DEF Typed, TypeOK
<1>a. ASSUME NEW p \in ProofIds, proof[p] # Nothing
      PROVE  /\ proof[p] \in Proof /\ proof[p].donation \in DonationIds
             /\ donation[proof[p].donation] \in Donation
             /\ donation[proof[p].donation].donor \in Users
  BY <1>0, <1>a DEF DonationRows, DonationsTypeOK, Proof, Donation
\* It is enough that the proof was there, and has not just been decided.
<1>b. ASSUME NEW p \in ProofIds, proof[p] # Nothing, proof'[p] = proof[p],
             donation'[proof[p].donation].donor = donation[proof[p].donation].donor
      PROVE  Told(p)'
  <2>1. Told(p)
    BY <1>b DEF ProofsTold
  <2>2. \A u \in Admins : ToldOrLost(u, <<"proof", p>>)'
    BY <2>1, ToldKept, Topics, InboxAssumption
  <2>3. PICK w \in Users : w = donation[proof[p].donation].donor
    BY <1>a, <1>b
  <2>4. proof[p].status # "pending" => ToldOrLost(w, <<"verdict", p>>)
    BY <2>1, <2>3
  <2>5. proof[p].status # "pending" => ToldOrLost(w, <<"verdict", p>>)'
    BY <2>4, ToldKept, Topics
  <2>6. w = donation'[proof'[p].donation].donor
    BY <1>b, <2>3
  <2> QED
    BY <1>b, <2>2, <2>5, <2>6
<1>1. CASE UNCHANGED <<donation, proof>>
  BY <1>1, <1>b DEF ProofsTold
<1>2. ASSUME NEW u \in Donors, NEW d \in DonationIds, Donate(u, d)
      PROVE  ProofsTold'
  <2>1. proof' = proof /\ \A e \in DonationIds :
          donation[e] # Nothing => donation'[e] = donation[e]
    BY <1>0, <1>2 DEF Donate, DonationsTypeOK
  <2>2. \A p \in ProofIds : proof[p] # Nothing =>
          donation'[proof[p].donation] = donation[proof[p].donation]
    BY <1>0, <1>a, <2>1 DEF DonationRows
  <2> QED
    BY <1>b, <2>1, <2>2 DEF ProofsTold
<1>3. ASSUME NEW r \in Requests, NEW p \in ProofIds, SubmitInsert(r, p)
      PROVE  ProofsTold'
  <2>1. /\ \A x \in ProofIds \ {p} : proof'[x] = proof[x]
        /\ proof'[p].status = "pending"
        /\ donation' = donation
        /\ Go(r, Telling(<<"proof", p>>, Admins, {}))
    BY <1>0, <1>3 DEF SubmitInsert, DonationsTypeOK
  <2>2. <<"proof", p>> \in Topic /\ {} \in SUBSET Users /\ Admins \in SUBSET Users
    BY Topics, InboxAssumption
  <2>3. \A u \in Admins : ToldOrLost(u, <<"proof", p>>)'
    BY <1>0, <2>1, <2>2, TellingTold
  <2>4. Told(p)'
    BY <2>1, <2>3
  <2>5. \A x \in ProofIds \ {p} : proof'[x] # Nothing => Told(x)'
    BY <1>b, <2>1
  <2> QED
    BY <2>4, <2>5 DEF ProofsTold
<1>4. ASSUME NEW r \in Requests, VerifyDonation(r)
      PROVE  ProofsTold'
  <2>1. PICK p \in ProofIds : p = req[r].proof /\ proof[p] # Nothing
    BY <1>0, <1>4, StageType DEF VerifyDonation, Typed, DonationRows
  <2>2. PICK d \in DonationIds : d = proof[p].donation /\ donation[d] \in Donation
    BY <1>a, <2>1
  <2>3. /\ donation' = [donation EXCEPT ![d] =
                          [donation[d] EXCEPT !.status = req[r].verdict]]
        /\ proof' = proof
    BY <1>4, <2>1, <2>2 DEF VerifyDonation
  <2>4. \A e \in DonationIds : donation'[e].donor = donation[e].donor
    BY <1>0, <2>2, <2>3 DEF DonationsTypeOK, Donation
  <2>5. \A x \in ProofIds : proof[x] # Nothing => proof[x].donation \in DonationIds
    BY <1>a
  <2> QED
    BY <1>b, <2>3, <2>4, <2>5 DEF ProofsTold
<1>5. ASSUME NEW r \in Requests, VerifyProof(r)
      PROVE  ProofsTold'
  <2>1. PICK p \in ProofIds : p = req[r].proof /\ proof[p] # Nothing
    BY <1>0, <1>5, StageType DEF VerifyProof, Typed, DonationRows
  <2>2. PICK w \in Users : w = donation[proof[p].donation].donor
    BY <1>a, <2>1
  <2>3. /\ proof' = [proof EXCEPT ![p] = [proof[p] EXCEPT !.status = req[r].verdict]]
        /\ donation' = donation
        /\ Go(r, Telling(<<"verdict", p>>, {w}, {}))
    BY <1>5, <2>1, <2>2 DEF VerifyProof
  <2>4. <<"verdict", p>> \in Topic /\ {} \in SUBSET Users /\ {w} \in SUBSET Users
    BY <2>2, Topics
  <2>5. ToldOrLost(w, <<"verdict", p>>)'
    BY <1>0, <2>3, <2>4, TellingTold
  <2>6. \A u \in Admins : ToldOrLost(u, <<"proof", p>>)'
    BY <2>1, ToldKept, Topics, InboxAssumption DEF ProofsTold
  <2>7. w = donation'[proof'[p].donation].donor
    BY <1>0, <1>a, <2>1, <2>2, <2>3 DEF DonationsTypeOK, Proof
  <2>8. Told(p)'
    BY <2>5, <2>6, <2>7
  <2>9. \A x \in ProofIds \ {p} : proof'[x] = proof[x]
    BY <1>0, <2>3 DEF DonationsTypeOK
  <2>10. \A x \in ProofIds \ {p} : proof'[x] # Nothing => Told(x)'
    BY <1>b, <2>3, <2>9
  <2> QED
    BY <2>8, <2>10 DEF ProofsTold
<1>6. \/ UNCHANGED <<donation, proof>>
      \/ \E u \in Donors, d \in DonationIds : Donate(u, d)
      \/ \E r \in Requests, p \in ProofIds : SubmitInsert(r, p)
      \/ \E r \in Requests : VerifyDonation(r) \/ VerifyProof(r)
  BY DEF Next, vars, donationVars, GiveUp, DonationsNext, SetMethod, SubmitRead,
         SubmitCheckKey, SubmitCheckOpen, VerifyRead, VerifyDies
<1> QED
  BY <1>1, <1>2, <1>3, <1>4, <1>5, <1>6

\* Whatever row has to be told of to somebody, they have been told, are about
\* to be, or the request that had to tell them failed after it wrote the row:
\* no other path through the notifications forgets anybody.
THEOREM NotForgotten == Spec => []NobodyForgotten
<1>1. Init => NobodyForgotten
  <2> SUFFICES ASSUME Init PROVE NobodyForgotten
    OBVIOUS
  <2>1. /\ \A m \in MessageIds : message[m] = Nothing
        /\ \A c \in ComplaintIds : complaint[c] = Nothing
        /\ \A f \in FeedbackIds : feedback[f] = Nothing
        /\ \A p \in ProofIds : proof[p] = Nothing
    BY DEF Init, MessagingInit, ComplaintsInit, FeedbackInit, DonationsInit
  <2> QED
    BY <2>1 DEF NobodyForgotten, MessagesTold, ComplaintsTold, FeedbackTold, ProofsTold
<1>2. Typed /\ NobodyForgotten /\ [Next]_vars => (Typed /\ NobodyForgotten)'
  BY TypedStep, MessagesKept, ComplaintsKept, ReportingKept, ProofsKept DEF NobodyForgotten
<1> QED
  BY <1>1, <1>2, TypedInit, PTL DEF Spec

-----------------------------------------------------------------------------
(* One conversation.                                                       *)

\* OneConversation is inductive with this: the ids of a row are sorted, of one
\* that is about to be inserted too, and no two rows are equal.
Sorted(chat) == Rank[chat.userAId] < Rank[chat.userBId]
Chats ==
  /\ \A r \in Requests : req[r].at = "converse" => Sorted(req[r].chat)
  /\ \A c \in ConversationIds : conversation[c] # Nothing => Sorted(conversation[c])
  /\ \A c, d \in ConversationIds :
       conversation[c] # Nothing /\ conversation[c] = conversation[d] => c = d

\* Two sorted rows of the same participants and context are the same row.
LEMMA SortedAreOne ==
  ASSUME MessagingTypeOK, Chats
  PROVE  OneConversation
<1> SUFFICES ASSUME NEW c \in ConversationIds, NEW d \in ConversationIds,
                    conversation[c] # Nothing, conversation[d] # Nothing,
                    Participants(c) = Participants(d),
                    conversation[c].context = conversation[d].context
             PROVE  c = d
  BY DEF OneConversation
<1>1. conversation[c] \in Conversation /\ conversation[d] \in Conversation
  BY DEF MessagingTypeOK
<1>2. /\ conversation[c].userAId = conversation[d].userAId
      /\ conversation[c].userBId = conversation[d].userBId
  <2>1. /\ Sorted(conversation[c]) /\ Sorted(conversation[d])
        /\ {conversation[c].userAId, conversation[c].userBId} \subseteq Users
        /\ {conversation[d].userAId, conversation[d].userBId} \subseteq Users
    BY <1>1 DEF Chats, Conversation
  <2> QED
    BY <2>1, MessagingAssumption DEF Sorted, Participants
<1>3. conversation[c] = conversation[d]
  BY <1>1, <1>2 DEF Conversation
<1> QED
  BY <1>3 DEF Chats

\* Every step keeps the ids sorted, and the rows apart.
LEMMA ChatsStep ==
  ASSUME Typed, Chats, [Next]_vars
  PROVE  Chats'
<1>0. req \in [Requests -> Request] /\ MessagingTypeOK
  BY DEF Typed, TypeOK
<1>1. CASE UNCHANGED conversation /\ \A r \in Requests :
                                      req'[r].at = "converse" => req'[r] = req[r]
  BY <1>1 DEF Chats, Sorted
<1>2. ASSUME NEW r \in Requests, NEW u \in Talkers, NEW v \in Talkers,
             NEW x \in Contexts, ConverseRead(r, u, v, x)
      PROVE  Chats'
  <2> DEFINE q == [at |-> "converse", chat |-> Chat(u, v, x)]
  <2>1. q \in Request
    BY MessagingAssumption DEF Request, Chat, Conversation
  <2>2. Sorted(Chat(u, v, x))
    <3>1. Rank[u] \in Nat /\ Rank[v] \in Nat /\ Rank[u] # Rank[v]
      BY <1>2, MessagingAssumption DEF ConverseRead
    <3>2. CASE Rank[u] < Rank[v]
      BY <3>2 DEF Chat, Sorted
    <3>3. CASE Rank[v] < Rank[u]
      BY <3>1, <3>3 DEF Chat, Sorted
    <3> QED
      BY <3>1, <3>2, <3>3
  <2>3. Go(r, q) /\ UNCHANGED conversation
    BY <1>2 DEF ConverseRead, Begin, messagingVars
  <2>4. q.chat = Chat(u, v, x)
    OBVIOUS
  <2> HIDE DEF q
  <2>5. req'[r] = q /\ \A y \in Requests \ {r} : req'[y] = req[y]
    BY <1>0, <2>1, <2>3, GoType
  <2> QED
    BY <2>2, <2>3, <2>4, <2>5 DEF Chats, Sorted
<1>3. ASSUME NEW r \in Requests, NEW c \in ConversationIds, ConverseInsert(r, c)
      PROVE  Chats'
  <2>1. /\ req[r].at = "converse" /\ Go(r, Idle)
        /\ conversation' = [conversation EXCEPT ![c] = req[r].chat]
        /\ \A d \in ConversationIds : conversation[d] # req[r].chat
    BY <1>3 DEF ConverseInsert, Existing
  <2>2. /\ conversation'[c] = req[r].chat
        /\ \A d \in ConversationIds \ {c} : conversation'[d] = conversation[d]
    BY <1>0, <2>1 DEF MessagingTypeOK
  <2>3. \A y \in Requests : req'[y].at = "converse" => req'[y] = req[y]
    BY <1>0, <2>1, IdleType, GoType
  <2> QED
    BY <2>1, <2>2, <2>3 DEF Chats, Sorted
<1>4. ASSUME NEW r \in Requests, NEW u \in Talkers, NEW c \in ConversationIds,
             NEW m \in MessageIds, Send(r, u, c, m)
      PROVE  Chats'
  <2> DEFINE q == Telling(<<"message", m>>, Participants(c) \ {u}, {})
  <2>1. conversation[c] \in Conversation
    BY <1>0, <1>4 DEF Send, MessagingTypeOK
  <2>2. q \in Request /\ q.at \in {"idle", "tell"}
    BY <2>1, Topics, TellingType DEF Conversation, Participants
  <2>3. Go(r, q) /\ UNCHANGED conversation
    BY <1>4 DEF Send, Begin
  <2> HIDE DEF q
  <2>4. \A y \in Requests : req'[y].at = "converse" => req'[y] = req[y]
    BY <1>0, <2>2, <2>3, GoType
  <2> QED
    BY <1>1, <2>3, <2>4
<1>5. ASSUME NEW u \in Talkers, NEW c \in ConversationIds, ReadMessages(u, c)
      PROVE  Chats'
  BY <1>1, <1>5 DEF ReadMessages
<1>6. CASE InboxNext /\ UNCHANGED messagingVars
  BY <1>1, <1>6, InboxStep, Others DEF messagingVars
<1>7. CASE ComplaintsNext /\ UNCHANGED messagingVars
  BY <1>1, <1>7, ComplaintsStep, Others DEF messagingVars
<1>8. CASE UploadsNext /\ UNCHANGED messagingVars
  BY <1>1, <1>8, UploadsStep, Others DEF messagingVars
<1>9. CASE FeedbackNext /\ UNCHANGED messagingVars
  BY <1>1, <1>9, FeedbackStep, Others DEF messagingVars
<1>10. CASE DonationsNext /\ UNCHANGED messagingVars
  BY <1>1, <1>10, DonationsStep, Others DEF messagingVars
<1>11. ASSUME NEW x \in Requests, GiveUp(x) PROVE Chats'
  <2>1. \A r \in Requests : req'[r].at = "converse" => req'[r] = req[r]
    BY <1>0, <1>11, IdleType, GoType DEF GiveUp
  <2> QED
    BY <1>1, <1>11, <2>1 DEF GiveUp, messagingVars
<1>12. CASE UNCHANGED vars
  BY <1>1, <1>12 DEF vars, messagingVars
<1>13. CASE MessagingNext
  BY <1>2, <1>3, <1>4, <1>5, <1>13 DEF MessagingNext
<1> QED
  BY <1>6, <1>7, <1>8, <1>9, <1>10, <1>11, <1>12, <1>13 DEF Next

\* Two users never have two conversations in the same context, whoever opens it,
\* and however their requests overlap: the ids are sorted before the row is
\* looked for, and the unique index settles the rest.
THEOREM ConversationsAreOne == Spec => []OneConversation
<1>1. Init => Chats
  BY IdleType DEF Init, InboxInit, MessagingInit, Chats
<1>2. Typed /\ Chats /\ [Next]_vars => (Typed /\ Chats)'
  BY TypedStep, ChatsStep
<1>3. Typed /\ Chats => OneConversation
  BY SortedAreOne DEF Typed, TypeOK
<1> QED
  BY <1>1, <1>2, <1>3, TypedInit, PTL DEF Spec

-----------------------------------------------------------------------------
(* Feedback is acknowledged.                                               *)

\* Acknowledged is inductive with this: a row is marked once the mail is out,
\* and no mail goes out before the row is inserted.
Posted ==
  /\ \A r \in Requests : req[r].at = "mark" => req[r].feedback \in mailed
  /\ \A f \in FeedbackIds : f \in mailed => feedback[f] # Nothing

\* A request that still has to thank for the feedback f; one that has to mark it.
Due(f) == \E r \in Requests :
  req[r].at \in {"report", "thank"} /\ req[r].feedback = f
Marks(f) == \E r \in Requests : req[r].at = "mark" /\ req[r].feedback = f

\* Acknowledged, of one row.
Fine(f) ==
  /\ feedback[f].thanked => f \in mailed
  /\ f \in mailed => feedback[f].thanked \/ <<"ended", f>> \in cut \/ Marks(f)
  /\ feedback[f].email =>
       \/ f \in mailed
       \/ <<"thanks", f>> \in cut \/ <<"ended", f>> \in cut
       \/ Due(f)

LEMMA FineOfEach ==
  Acknowledged <=> \A f \in FeedbackIds : feedback[f] # Nothing => Fine(f)
BY DEF Acknowledged, Fine, Due, Marks

\* Every step keeps what is promised to those who leave feedback.
LEMMA AcknowledgedStep ==
  ASSUME Typed, Posted, \A f \in FeedbackIds : feedback[f] # Nothing => Fine(f), [Next]_vars
  PROVE  Posted' /\ \A f \in FeedbackIds : feedback'[f] # Nothing => Fine(f)'
<1> DEFINE W == {"report", "thank", "mark"}
           Good == Posted' /\ \A f \in FeedbackIds : feedback'[f] # Nothing => Fine(f)'
<1>0. /\ req \in [Requests -> Request] /\ FeedbackTypeOK /\ FeedbackRows
      /\ req' \in [Requests -> Request] /\ FeedbackTypeOK'
  BY TypedStep DEF Typed, TypeOK
<1>c. /\ cut \subseteq cut'
      /\ \/ FeedbackNext
         \/ \A r \in Requests : req[r].at \in W \/ req'[r].at \in W => req'[r] = req[r]
  <2>1. CASE InboxNext
    BY <2>1, InboxStep, Others DEF Grows
  <2>2. CASE MessagingNext
    BY <2>2, MessagingStep, Others DEF Grows
  <2>3. CASE ComplaintsNext
    BY <2>3, ComplaintsStep, Others DEF Grows
  <2>4. CASE UploadsNext
    BY <2>4, UploadsStep, Others DEF Grows
  <2>5. CASE FeedbackNext
    BY <2>5, FeedbackStep DEF Grows
  <2>6. CASE DonationsNext
    BY <2>6, DonationsStep, Others DEF Grows
  <2>7. ASSUME NEW x \in Requests, GiveUp(x)
        PROVE  /\ cut' = cut
               /\ \A r \in Requests :
                    req[r].at \in W \/ req'[r].at \in W => req'[r] = req[r]
    BY <1>0, <2>7, IdleType, GoType DEF GiveUp, Reading
  <2>8. CASE UNCHANGED vars
    BY <2>8 DEF vars
  <2> QED
    BY <2>1, <2>2, <2>3, <2>4, <2>5, <2>6, <2>7, <2>8 DEF Next
\* A row that is not touched stays fine, as long as the requests at it stay.
<1>a. ASSUME NEW f \in FeedbackIds, feedback[f] # Nothing,
             feedback'[f].email = feedback[f].email,
             feedback'[f].thanked = feedback[f].thanked,
             f \in mailed' <=> f \in mailed,
             Due(f) => Due(f)', Marks(f) => Marks(f)'
      PROVE  Fine(f)'
  <2>1. Fine(f)
    BY <1>a
  <2> QED
    BY <1>a, <1>c, <2>1 DEF Fine
\* A step that leaves all of them as they are, and that nobody reaches the mark by.
<1>b. ASSUME mailed' = mailed,
             \A f \in FeedbackIds :
               /\ feedback'[f] # Nothing =>
                    /\ feedback[f] # Nothing
                    /\ feedback'[f].email = feedback[f].email
                    /\ feedback'[f].thanked = feedback[f].thanked
               /\ feedback[f] # Nothing => feedback'[f] # Nothing
               /\ Due(f) => Due(f)'
               /\ Marks(f) => Marks(f)',
             \A r \in Requests : req'[r].at = "mark" => req'[r] = req[r]
      PROVE  Good
  <2>1. ASSUME NEW f \in FeedbackIds, feedback'[f] # Nothing PROVE Fine(f)'
    <3>1. /\ feedback[f] # Nothing
          /\ feedback'[f].email = feedback[f].email
          /\ feedback'[f].thanked = feedback[f].thanked
      BY <1>b, <2>1
    <3>2. Due(f) => Due(f)'
      BY <1>b
    <3>3. Marks(f) => Marks(f)'
      BY <1>b
    <3>4. f \in mailed' <=> f \in mailed
      BY <1>b
    <3> QED
      BY <1>a, <3>1, <3>2, <3>3, <3>4
  <2>2. Posted'
    BY <1>b DEF Posted
  <2> QED
    BY <2>1, <2>2
<1>1. CASE UNCHANGED feedbackVars /\ ~FeedbackNext
  <2>1. \A f \in FeedbackIds : (Due(f) => Due(f)') /\ (Marks(f) => Marks(f)')
    BY <1>1, <1>c DEF Due, Marks
  <2> QED
    BY <1>1, <1>b, <1>c, <2>1 DEF feedbackVars
\* A step of the request r, which goes on to q.
<1>d. ASSUME NEW r \in Requests, NEW q \in Request, Go(r, q), req[r].at \notin W
      PROVE  \A f \in FeedbackIds : (Due(f) => Due(f)') /\ (Marks(f) => Marks(f)')
  BY <1>0, <1>d, GoType DEF Due, Marks
\* A step of the request r, which is at the feedback f and goes on to q.
<1>e. ASSUME NEW r \in Requests, NEW q \in Request, Go(r, q), NEW f \in FeedbackIds,
             req[r].feedback = f, feedback[f] # Nothing,
             q.at = "mark" => q.feedback = f /\ f \in mailed',
             \A g \in FeedbackIds \ {f} : feedback'[g] = feedback[g],
             feedback'[f] # Nothing, mailed' \in {mailed, mailed \cup {f}}, Fine(f)'
      PROVE  Good
  <2>1. req'[r] = q /\ \A x \in Requests \ {r} : req'[x] = req[x]
    BY <1>0, <1>e, GoType
  <2>2. \A g \in FeedbackIds \ {f} : (Due(g) => Due(g)') /\ (Marks(g) => Marks(g)')
    BY <1>e, <2>1 DEF Due, Marks
  <2>3. \A g \in FeedbackIds \ {f} : feedback'[g] # Nothing => Fine(g)'
    BY <1>a, <1>e, <2>2
  <2>4. Posted'
    BY <1>e, <2>1 DEF Posted
  <2> QED
    BY <1>e, <2>3, <2>4
<1>2. ASSUME NEW r \in Requests, NEW email \in BOOLEAN, NEW key \in Files \cup {Nothing},
             Attach(r, email, key)
      PROVE  Good
  <2> DEFINE q == [at |-> "feedback", email |-> email, key |-> key]
  <2>1. q \in Request /\ q.at = "feedback"
    BY DEF Request
  <2>2. req[r].at = "idle" /\ Go(r, q) /\ UNCHANGED feedbackVars
    BY <1>0, <1>2, BeginsIdle DEF Attach
  <2> HIDE DEF q
  <2>3. \A f \in FeedbackIds : (Due(f) => Due(f)') /\ (Marks(f) => Marks(f)')
    BY <1>d, <2>1, <2>2
  <2>4. \A x \in Requests : req'[x].at = "mark" => req'[x] = req[x]
    BY <1>0, <2>1, <2>2, GoType
  <2> QED
    BY <1>b, <2>2, <2>3, <2>4 DEF feedbackVars
<1>3. ASSUME NEW r \in Requests, NEW f \in FeedbackIds, FeedbackInsert(r, f)
      PROVE  Good
  <2> DEFINE q == Reporting(f, Admins)
  <2>1. /\ req[r] \in [at : {"feedback"}, email : BOOLEAN, key : Files \cup {Nothing}]
        /\ Go(r, q) /\ UNCHANGED mailed /\ feedback[f] = Nothing
    BY <1>3, StageType DEF FeedbackInsert, Typed
  <2>2. PICK row \in FeedbackRow :
          feedback' = [feedback EXCEPT ![f] = row] /\ row.thanked = FALSE
    <3> DEFINE row == [email |-> req[r].email, key |-> req[r].key,
                       status |-> "new", isRead |-> FALSE, thanked |-> FALSE]
    <3>1. row \in FeedbackRow /\ row.thanked = FALSE
      BY <2>1 DEF FeedbackRow, FeedbackStatus
    <3>2. feedback' = [feedback EXCEPT ![f] = row]
      BY <1>3 DEF FeedbackInsert
    <3> QED
      BY <3>1, <3>2
  <2>3. /\ feedback'[f] = row /\ feedback'[f] # Nothing
        /\ \A g \in FeedbackIds \ {f} : feedback'[g] = feedback[g]
    BY <1>0, <2>2, FeedbackAssumption DEF FeedbackTypeOK
  <2>4. /\ q \in Request /\ q.at # "mark"
        /\ feedback'[f].email => q.at \in W /\ q.feedback = f
    BY <1>0, <2>3, ReportingType, InboxAssumption
  <2> HIDE DEF q
  <2>5. req'[r] = q /\ \A x \in Requests \ {r} : req'[x] = req[x]
    BY <1>0, <2>1, <2>4, GoType
  <2>6. feedback'[f].email => Due(f)'
    BY <2>4, <2>5 DEF Due
  <2>7. f \notin mailed'
    BY <2>1 DEF Posted
  <2>8. Fine(f)'
    BY <2>2, <2>3, <2>6, <2>7 DEF Fine
  <2>9. \A g \in FeedbackIds : (Due(g) => Due(g)') /\ (Marks(g) => Marks(g)')
    BY <1>d, <2>1, <2>4
  <2>10. \A g \in FeedbackIds \ {f} : feedback'[g] # Nothing => Fine(g)'
    BY <1>a, <2>1, <2>3, <2>9
  <2>11. Posted'
    BY <2>1, <2>3, <2>4, <2>5 DEF Posted
  <2> QED
    BY <2>8, <2>10, <2>11
<1>4. ASSUME NEW r \in Requests, NEW v \in Users, Report(r, v)
      PROVE  Good
  <2>1. req[r] \in [at : {"report"}, feedback : FeedbackIds, todo : SUBSET Users]
    BY <1>4, StageType DEF Report, Typed
  <2>2. PICK f \in FeedbackIds, todo \in SUBSET Users :
          f = req[r].feedback /\ todo = req[r].todo \ {v}
    BY <2>1
  <2> DEFINE q == Reporting(f, todo)
  <2>3. Go(r, q) /\ UNCHANGED feedbackVars /\ feedback[f] # Nothing
    BY <1>0, <1>4, <2>1, <2>2 DEF Report, FeedbackRows
  <2>4. /\ q \in Request /\ q.at # "mark"
        /\ feedback'[f].email => q.at \in W /\ q.feedback = f
    BY <1>0, <2>3, ReportingType DEF feedbackVars
  <2> HIDE DEF q
  <2>5. req'[r] = q /\ \A x \in Requests \ {r} : req'[x] = req[x]
    BY <1>0, <2>3, <2>4, GoType
  <2>6. feedback'[f].email => Due(f)'
    BY <2>4, <2>5 DEF Due
  <2>7. Marks(f) => Marks(f)'
    BY <2>1, <2>5 DEF Marks
  <2>8. Fine(f) /\ Fine(f)'
    BY <1>c, <2>3, <2>6, <2>7 DEF Fine, feedbackVars
  <2> QED
    BY <1>e, <2>2, <2>3, <2>4, <2>8 DEF feedbackVars
<1>5. ASSUME NEW r \in Requests, ReportFails(r)
      PROVE  Good
  <2>1. PICK f \in FeedbackIds : f = req[r].feedback /\ req[r].at = "report"
    BY <1>5, StageType DEF ReportFails, Typed
  <2> DEFINE q == Thanks(f)
  <2>2. UNCHANGED feedbackVars /\ feedback[f] # Nothing /\ Go(r, q)
    BY <1>0, <1>5, <2>1 DEF ReportFails, FeedbackRows
  <2>3. {} \in SUBSET Users
    OBVIOUS
  <2>4. /\ q \in Request /\ q.at # "mark"
        /\ feedback'[f].email => q.at \in W
        /\ q.at \in W => q.feedback = f
    BY <1>0, <2>2, <2>3, ReportingType DEF feedbackVars
  <2>5. req'[r] = q /\ \A x \in Requests \ {r} : req'[x] = req[x]
    BY <1>0, <2>2, <2>4, GoType
  <2> HIDE DEF q
  <2>6. feedback'[f].email => Due(f)'
    BY <2>4, <2>5 DEF Due
  <2>7. Marks(f) => Marks(f)'
    BY <2>1, <2>5 DEF Marks
  <2>8. Fine(f) /\ Fine(f)'
    BY <1>c, <2>2, <2>6, <2>7 DEF Fine, feedbackVars
  <2> QED
    BY <1>e, <2>1, <2>2, <2>4, <2>8 DEF feedbackVars
<1>6. ASSUME NEW r \in Requests, Thank(r)
      PROVE  Good
  <2>1. PICK f \in FeedbackIds : f = req[r].feedback
    BY <1>6, StageType DEF Thank, Typed
  <2> DEFINE q == [at |-> "mark", feedback |-> f]
  <2>2. /\ UNCHANGED feedback /\ mailed' = mailed \cup {f} /\ Go(r, q)
        /\ feedback[f] # Nothing
    BY <1>0, <1>6, <2>1 DEF Thank, FeedbackRows
  <2>3. q \in Request /\ q.at = "mark" /\ q.feedback = f
    BY DEF Request
  <2> HIDE DEF q
  <2>4. req'[r] = q
    BY <1>0, <2>2, <2>3, GoType
  <2>5. Fine(f)'
    BY <2>2, <2>3, <2>4 DEF Fine, Marks
  <2> QED
    BY <1>e, <2>1, <2>2, <2>3, <2>5
<1>7. ASSUME NEW r \in Requests, ReportDies(r) \/ ThankFails(r) \/ MarkDies(r)
      PROVE  Good
  <2>1. PICK f \in FeedbackIds : f = req[r].feedback
    BY <1>7, StageType DEF ReportDies, ThankFails, MarkDies, Typed
  <2>2. /\ UNCHANGED feedbackVars /\ Go(r, Idle) /\ feedback[f] # Nothing
        /\ \/ <<"ended", f>> \in cut'
           \/ <<"thanks", f>> \in cut' /\ req[r].at = "thank"
    BY <1>0, <1>7, <2>1 DEF ReportDies, ThankFails, MarkDies, FeedbackRows
  <2>3. \A x \in Requests \ {r} : req'[x] = req[x]
    BY <1>0, <2>2, IdleType, GoType
  <2>4. req[r].at = "thank" => (Marks(f) => Marks(f)')
    BY <2>3 DEF Marks
  <2>5. Fine(f)'
    BY <1>c, <2>2, <2>4 DEF Fine, feedbackVars
  <2> QED
    BY <1>e, <2>1, <2>2, <2>5, IdleType DEF feedbackVars
<1>8. ASSUME NEW r \in Requests, MarkThanked(r)
      PROVE  Good
  <2>1. PICK f \in FeedbackIds : f = req[r].feedback /\ req[r].at = "mark"
    BY <1>8, StageType DEF MarkThanked, Typed
  <2>2. /\ feedback[f] \in FeedbackRow /\ f \in mailed /\ UNCHANGED mailed
        /\ feedback' = [feedback EXCEPT ![f] = [feedback[f] EXCEPT !.thanked = TRUE]]
        /\ Go(r, Idle) /\ feedback[f] # Nothing
    BY <1>0, <1>8, <2>1 DEF MarkThanked, FeedbackRows, FeedbackTypeOK, Posted
  <2>3. /\ feedback'[f].thanked = TRUE /\ feedback'[f] \in FeedbackRow
        /\ \A g \in FeedbackIds \ {f} : feedback'[g] = feedback[g]
    BY <1>0, <2>2 DEF FeedbackTypeOK, FeedbackRow
  <2>4. Fine(f)' /\ feedback'[f] # Nothing
    BY <2>2, <2>3, FeedbackAssumption DEF Fine
  <2> QED
    BY <1>e, <2>1, <2>2, <2>3, <2>4, IdleType
<1>9. ASSUME NEW f \in FeedbackIds, NEW s \in FeedbackStatus,
             Triage(f, s) \/ MarkFeedbackRead(f)
      PROVE  Good
  <2>1. /\ UNCHANGED <<req, mailed>>
        /\ feedback[f] \in FeedbackRow
        /\ feedback' \in {[feedback EXCEPT ![f] = [feedback[f] EXCEPT !.status = s]],
                          [feedback EXCEPT ![f] = [feedback[f] EXCEPT !.isRead = TRUE]]}
    BY <1>0, <1>9 DEF Triage, MarkFeedbackRead, FeedbackTypeOK
  <2>4. /\ [feedback[f] EXCEPT !.status = s] \in FeedbackRow
        /\ [feedback[f] EXCEPT !.isRead = TRUE] \in FeedbackRow
    BY <2>1 DEF FeedbackRow
  <2>2. \A g \in FeedbackIds :
          /\ feedback'[g] # Nothing =>
               /\ feedback[g] # Nothing /\ feedback'[g].email = feedback[g].email
               /\ feedback'[g].thanked = feedback[g].thanked
          /\ feedback[g] # Nothing => feedback'[g] # Nothing
    BY <1>0, <1>9, <2>1, <2>4, FeedbackAssumption
    DEF Triage, MarkFeedbackRead, FeedbackTypeOK, FeedbackRow
  <2>3. \A g \in FeedbackIds : (Due(g) => Due(g)') /\ (Marks(g) => Marks(g)')
    BY <2>1 DEF Due, Marks
  <2> QED
    BY <1>b, <2>1, <2>2, <2>3
<1>10. UNCHANGED feedbackVars \/ FeedbackNext
  BY DEF Next, vars, GiveUp
<1>11. FeedbackStatus # {}
  BY DEF FeedbackStatus
<1> QED
  BY <1>1, <1>2, <1>3, <1>4, <1>5, <1>6, <1>7, <1>8, <1>9, <1>10, <1>11 DEF FeedbackNext

\* Whoever left an address with feedback is sent thanks, is about to be, or the
\* mail failed or the process ended; and a row is marked once, and only when, the
\* mail was sent, but for a request that ended between the two.
THEOREM FeedbackAcknowledged == Spec => []Acknowledged
<1> DEFINE AllFine == \A f \in FeedbackIds : feedback[f] # Nothing => Fine(f)
<1>1. Init => Posted /\ AllFine
  BY IdleType DEF Init, InboxInit, FeedbackInit, Posted
<1>2. Typed /\ Posted /\ AllFine /\ [Next]_vars => (Typed /\ Posted /\ AllFine)'
  BY TypedStep, AcknowledgedStep
<1>3. AllFine => Acknowledged
  BY FineOfEach
<1> HIDE DEF AllFine
<1> QED
  BY <1>1, <1>2, <1>3, TypedInit, PTL DEF Spec

-----------------------------------------------------------------------------
(* Files can be opened.                                                    *)

\* A request that is about to name a file has stored it, and who may change
\* may read.
Kept ==
  /\ \A r \in Requests :
       /\ req[r].at = "row" => req[r].file \in files
       /\ req[r].at = "feedback" => req[r].key \in files \cup {Nothing}
  /\ \A u \in Admins, p \in Implied : p[1] \in grants[u] => p[2] \in grants[u]

\* Normalising a set of permissions closes it under what they imply.
LEMMA NormalisedClosed ==
  ASSUME NEW picked \in SUBSET Permission, NEW p \in Implied,
         p[1] \in Normalised(picked)
  PROVE  p[2] \in Normalised(picked)
<1>1. \A q \in Implied : q[2] # p[1]
  BY DEF Implied
<1>2. p[1] \in picked
  BY <1>1 DEF Normalised
<1> QED
  BY <1>2 DEF Normalised

\* Every step keeps files stored, and permissions closed.
LEMMA FilesStep ==
  ASSUME Typed, Kept, FilesOpen, [Next]_vars
  PROVE  Kept' /\ FilesOpen'
<1> DEFINE Named == /\ \A i \in UploadIds : upload[i] # Nothing => upload[i].file \in files
                    /\ \A f \in FeedbackIds :
                         feedback[f] # Nothing => feedback[f].key \in files \cup {Nothing}
           Coming(q) == /\ q.at = "row" => q.file \in files'
                        /\ q.at = "feedback" => q.key \in files' \cup {Nothing}
           Closure == \A u \in Admins, p \in Implied : p[1] \in grants[u] => p[2] \in grants[u]
<1>0. /\ req \in [Requests -> Request] /\ UploadsTypeOK /\ FeedbackTypeOK
      /\ req' \in [Requests -> Request] /\ UploadsTypeOK' /\ FeedbackTypeOK'
      /\ Named /\ Closure
  BY TypedStep DEF Typed, TypeOK, FilesOpen, Kept
<1>a. ASSUME Kept', Named' PROVE Kept' /\ FilesOpen'
  <2>1. \A i \in UploadIds, u \in Admins : MayJudge(u, i)' => AdminCanRead(u, i)'
    <3>1. ASSUME NEW i \in UploadIds, NEW u \in Admins, MayJudge(u, i)'
          PROVE  AdminCanRead(u, i)'
      <4>1. /\ "finance.manage" \in grants'[u] => "finance.read" \in grants'[u]
            /\ "seller_applications.review" \in grants'[u] =>
                 "seller_applications.read" \in grants'[u]
        <5>1. /\ <<"finance.manage", "finance.read">> \in Implied
              /\ <<"seller_applications.review", "seller_applications.read">> \in Implied
          BY DEF Implied
        <5>2. \A p \in Implied : p[1] \in grants'[u] => p[2] \in grants'[u]
          BY <1>a DEF Kept
        <5> QED
          BY <5>1, <5>2
      <4> QED
        BY <3>1, <4>1 DEF MayJudge, AdminCanRead, Allowed
    <3> QED
      BY <3>1
  <2> QED
    BY <1>a, <2>1 DEF FilesOpen
<1>b. files \subseteq files'
  BY DEF Next, vars, uploadVars, GiveUp, UploadsNext, Save, Stored, UploadInsert, SetGrants,
         FeedbackNext, Attach, FeedbackInsert, Report, ReportFails, ReportDies, Thank, ThankFails,
         MarkThanked, MarkDies, Triage, MarkFeedbackRead,
         DonationsNext, Donate, SetMethod, SubmitRead, SubmitCheckKey, SubmitCheckOpen,
         SubmitInsert, VerifyRead, VerifyDonation, VerifyProof, VerifyDies
\* A step that names no file, of a request that goes on to something else.
<1>c. ASSUME UNCHANGED <<upload, grants>>,
             \A f \in FeedbackIds : feedback'[f] # Nothing =>
               feedback[f] # Nothing /\ feedback'[f].key = feedback[f].key,
             \A r \in Requests :
               req'[r].at \in {"row", "feedback"} => req'[r] = req[r] \/ Coming(req'[r])
      PROVE  Kept' /\ FilesOpen'
  <2>1. Named'
    BY <1>0, <1>b, <1>c
  <2>2. Kept'
    BY <1>0, <1>b, <1>c DEF Kept
  <2> QED
    BY <1>a, <2>1, <2>2
<1>1. CASE UNCHANGED <<uploadVars, feedbackVars>> /\ ~UploadsNext /\ ~FeedbackNext
  <2>1. \A r \in Requests : req'[r].at \in {"row", "feedback"} => req'[r] = req[r]
    <3>1. CASE InboxNext
      BY <3>1, InboxStep, Others
    <3>2. CASE MessagingNext
      BY <3>2, MessagingStep, Others
    <3>3. CASE ComplaintsNext
      BY <3>3, ComplaintsStep, Others
    <3>4. CASE DonationsNext
      BY <3>4, DonationsStep, Others
    <3>5. ASSUME NEW x \in Requests, GiveUp(x)
          PROVE  \A r \in Requests : req'[r].at \in {"row", "feedback"} => req'[r] = req[r]
      BY <1>0, <3>5, IdleType, GoType DEF GiveUp
    <3>6. CASE UNCHANGED vars
      BY <3>6 DEF vars
    <3> QED
      BY <1>1, <3>1, <3>2, <3>3, <3>4, <3>5, <3>6 DEF Next
  <2> QED
    BY <1>1, <1>c, <2>1 DEF uploadVars, feedbackVars
<1>2. ASSUME NEW r \in Requests, NEW u \in Owners, NEW purpose \in Purpose,
             NEW key \in Files, Save(r, u, purpose, key), UNCHANGED feedbackVars
      PROVE  Kept' /\ FilesOpen'
  <2> DEFINE q == [at |-> "row", owner |-> u, purpose |-> purpose, file |-> key]
  <2>1. q \in Request /\ q.at = "row" /\ q.file = key
    BY UploadsAssumption DEF Request
  <2>2. Go(r, q) /\ UNCHANGED <<upload, grants>> /\ key \in files'
    BY <1>0, <1>2 DEF Save, Stored, Begin
  <2> HIDE DEF q
  <2>3. \A x \in Requests : req'[x] = req[x] \/ Coming(req'[x])
    BY <1>0, <2>1, <2>2, GoType
  <2> QED
    BY <1>2, <1>c, <2>2, <2>3 DEF feedbackVars
<1>3. ASSUME NEW r \in Requests, NEW i \in UploadIds, UploadInsert(r, i),
             UNCHANGED feedbackVars
      PROVE  Kept' /\ FilesOpen'
  <2>1. /\ req[r] \in [at : {"row"}, owner : Users, purpose : Purpose, file : Files]
        /\ req[r].file \in files
    BY <1>3, StageType DEF UploadInsert, Typed, Kept
  <2>2. Go(r, Idle) /\ UNCHANGED <<files, grants>> /\ feedback' = feedback
        /\ upload' = [upload EXCEPT ![i] = [owner |-> req[r].owner,
             purpose |-> req[r].purpose, file |-> req[r].file]]
    BY <1>3 DEF UploadInsert, feedbackVars
  <2>3. Named'
    BY <1>0, <2>1, <2>2 DEF UploadsTypeOK
  <2>4. \A x \in Requests : req'[x] = req[x] \/ req'[x].at = "idle"
    BY <1>0, <2>2, IdleType, GoType
  <2>5. Kept'
    BY <1>0, <2>2, <2>4 DEF Kept
  <2> QED
    BY <1>a, <2>3, <2>5
<1>4. ASSUME NEW u \in Admins, NEW picked \in Picks, SetGrants(u, picked),
             UNCHANGED feedbackVars
      PROVE  Kept' /\ FilesOpen'
  <2>1. /\ grants' = [grants EXCEPT ![u] = Normalised(picked)]
        /\ UNCHANGED <<req, files, upload>> /\ feedback' = feedback
    BY <1>4 DEF SetGrants, feedbackVars
  <2>2. picked \in SUBSET Permission
    BY UploadsAssumption
  <2>3. ASSUME NEW v \in Admins, NEW p \in Implied, p[1] \in grants'[v]
        PROVE  p[2] \in grants'[v]
    <3>1. CASE v = u
      BY <1>0, <2>1, <2>2, <2>3, <3>1, NormalisedClosed DEF UploadsTypeOK
    <3>2. CASE v # u
      BY <1>0, <2>1, <2>3, <3>2 DEF UploadsTypeOK
    <3> QED
      BY <3>1, <3>2
  <2>4. Kept'
    BY <2>1, <2>3 DEF Kept
  <2>5. Named'
    BY <1>0, <2>1
  <2> QED
    BY <1>a, <2>4, <2>5
<1>5. ASSUME NEW r \in Requests, NEW email \in BOOLEAN, NEW key \in Files \cup {Nothing},
             Attach(r, email, key)
      PROVE  Kept' /\ FilesOpen'
  <2> DEFINE q == [at |-> "feedback", email |-> email, key |-> key]
  <2>1. q \in Request /\ q.at = "feedback" /\ q.key = key
    BY DEF Request
  <2>2. /\ Go(r, q) /\ UNCHANGED <<upload, grants>> /\ feedback' = feedback
        /\ key \in files' \cup {Nothing}
    BY <1>0, <1>5 DEF Attach, Stored, Begin, feedbackVars
  <2> HIDE DEF q
  <2>3. \A x \in Requests : req'[x] = req[x] \/ Coming(req'[x])
    BY <1>0, <2>1, <2>2, GoType
  <2> QED
    BY <1>c, <2>2, <2>3
<1>6. ASSUME NEW r \in Requests, NEW f \in FeedbackIds, FeedbackInsert(r, f)
      PROVE  Kept' /\ FilesOpen'
  <2> DEFINE row == [email |-> req[r].email, key |-> req[r].key,
                     status |-> "new", isRead |-> FALSE, thanked |-> FALSE]
             q == Reporting(f, Admins)
  <2>1. /\ req[r] \in [at : {"feedback"}, email : BOOLEAN, key : Files \cup {Nothing}]
        /\ req[r].key \in files \cup {Nothing}
    BY <1>6, StageType DEF FeedbackInsert, Typed, Kept
  <2>2. feedback' = [feedback EXCEPT ![f] = row] /\ Go(r, q) /\ UNCHANGED uploadVars
    BY <1>6 DEF FeedbackInsert
  <2>3. row \in FeedbackRow /\ row.key = req[r].key
    BY <2>1 DEF FeedbackRow, FeedbackStatus
  <2> HIDE DEF row
  <2>4. feedback'[f] # Nothing
    BY <1>0, <2>2, <2>3, FeedbackAssumption DEF FeedbackTypeOK
  <2>5. q \in Request /\ q.at \in {"idle", "thank", "report"}
    BY <1>0, <2>4, ReportingType, InboxAssumption
  <2>6. Named'
    BY <1>0, <2>1, <2>2, <2>3 DEF FeedbackTypeOK, uploadVars
  <2> HIDE DEF q
  <2>7. \A x \in Requests : req'[x] = req[x] \/ req'[x].at \notin {"row", "feedback"}
    BY <1>0, <2>2, <2>5, GoType
  <2>8. Kept'
    BY <2>2, <2>7 DEF Kept, uploadVars
  <2> QED
    BY <1>a, <2>6, <2>8
<1>7. ASSUME NEW r \in Requests, FeedbackNext,
             \/ \E u \in Users : Report(r, u)
             \/ ReportFails(r) \/ ReportDies(r)
             \/ Thank(r) \/ ThankFails(r) \/ MarkThanked(r) \/ MarkDies(r)
      PROVE  Kept' /\ FilesOpen'
  <2>1. /\ req[r].at \in {"report", "thank", "mark"} /\ UNCHANGED uploadVars
        /\ \E x : Go(r, x)
    BY <1>7 DEF Report, ReportFails, ReportDies, Thank, ThankFails, MarkThanked, MarkDies
  <2>2. \A x \in Requests \ {r} : req'[x] = req[x]
    BY <1>0, <2>1 DEF Go
  <2>3. req'[r].at \notin {"row", "feedback"}
    <3> DEFINE f == req[r].feedback
    <3>1. ASSUME NEW x, x \in {Idle, Thanks(f), [at |-> "mark", feedback |-> f]}
          PROVE  x.at \notin {"row", "feedback"}
      BY <3>1 DEF Idle, Thanks
    <3>2. ASSUME NEW u, NEW x, x = Reporting(f, req[r].todo \ {u})
          PROVE  x.at \notin {"row", "feedback"}
      BY <3>2 DEF Idle, Thanks, Reporting
    <3>3. \/ \E u \in Users : Go(r, Reporting(f, req[r].todo \ {u}))
          \/ \E x \in {Idle, Thanks(f), [at |-> "mark", feedback |-> f]} : Go(r, x)
      BY <1>7 DEF Report, ReportFails, ReportDies, Thank, ThankFails, MarkThanked, MarkDies
    <3> HIDE DEF f
    <3>4. \A x : Go(r, x) => req'[r] = x
      BY <1>0 DEF Go
    <3> QED
      BY <3>1, <3>2, <3>3, <3>4
  <2>4. req[r].feedback \in FeedbackIds
    BY <2>1, StageType DEF Typed
  <2>5. feedback[req[r].feedback] \in FeedbackRow
    BY <1>0, <2>1, <2>4 DEF Typed, FeedbackRows, FeedbackTypeOK
  <2>6. feedback' \in {feedback, [feedback EXCEPT ![req[r].feedback] =
                                    [feedback[req[r].feedback] EXCEPT !.thanked = TRUE]]}
    BY <1>7 DEF Report, ReportFails, ReportDies, Thank, ThankFails, MarkThanked, MarkDies, feedbackVars
  <2>7. \A f \in FeedbackIds : feedback'[f] # Nothing =>
          feedback[f] # Nothing /\ feedback'[f].key = feedback[f].key
    BY <1>0, <2>4, <2>5, <2>6, FeedbackAssumption DEF FeedbackTypeOK, FeedbackRow
  <2> QED
    BY <1>c, <2>1, <2>2, <2>3, <2>7 DEF uploadVars
<1>8. ASSUME NEW f \in FeedbackIds, NEW s \in FeedbackStatus,
             Triage(f, s) \/ MarkFeedbackRead(f)
      PROVE  Kept' /\ FilesOpen'
  <2>1. /\ UNCHANGED <<req, uploadVars>>
        /\ feedback[f] \in FeedbackRow
        /\ feedback' \in {[feedback EXCEPT ![f] = [feedback[f] EXCEPT !.status = s]],
                          [feedback EXCEPT ![f] = [feedback[f] EXCEPT !.isRead = TRUE]]}
    BY <1>0, <1>8 DEF Triage, MarkFeedbackRead, FeedbackTypeOK
  <2>2. \A g \in FeedbackIds : feedback'[g] # Nothing =>
          feedback[g] # Nothing /\ feedback'[g].key = feedback[g].key
    BY <1>0, <2>1, FeedbackAssumption DEF FeedbackTypeOK, FeedbackRow
  <2> QED
    BY <1>c, <2>1, <2>2 DEF uploadVars
<1>9. FeedbackStatus # {}
  BY DEF FeedbackStatus
<1>10. \/ UNCHANGED <<uploadVars, feedbackVars>> /\ ~UploadsNext /\ ~FeedbackNext
       \/ UploadsNext /\ UNCHANGED feedbackVars
       \/ FeedbackNext
  <2>1. ASSUME DonationsNext PROVE UNCHANGED uploadVars
    BY <2>1 DEF DonationsNext, Donate, SetMethod, SubmitRead, SubmitCheckKey,
         SubmitCheckOpen, SubmitInsert, VerifyRead, VerifyDonation, VerifyProof, VerifyDies
  <2>2. UNCHANGED vars => UNCHANGED <<uploadVars, feedbackVars>>
    BY DEF vars
  <2>3. \A r \in Requests : GiveUp(r) => UNCHANGED <<uploadVars, feedbackVars>>
    BY DEF GiveUp
  <2>4. UNCHANGED <<uploadVars, feedbackVars>> /\ UploadsNext =>
          UploadsNext /\ UNCHANGED feedbackVars
    OBVIOUS
  <2> QED
    BY <2>1, <2>2, <2>3, <2>4 DEF Next
<1>11. CASE UploadsNext /\ UNCHANGED feedbackVars
  BY <1>2, <1>3, <1>4, <1>11 DEF UploadsNext
<1>12. CASE FeedbackNext
  BY <1>5, <1>6, <1>7, <1>8, <1>9, <1>12 DEF FeedbackNext
<1> QED
  BY <1>1, <1>10, <1>11, <1>12

\* Every private file that a row names is stored, and whoever is to decide on
\* what it is evidence for may open it, whatever permissions are picked.
THEOREM EvidenceOpens == Spec => []FilesOpen
<1>1. Init => Kept /\ FilesOpen
  <2> SUFFICES ASSUME Init PROVE Kept /\ FilesOpen
    OBVIOUS
  <2>1. /\ \A r \in Requests : req[r].at = "idle"
        /\ \A i \in UploadIds : upload[i] = Nothing
        /\ \A f \in FeedbackIds : feedback[f] = Nothing
        /\ \A u \in Admins : grants[u] = {"*"}
    BY IdleType DEF Init, InboxInit, UploadsInit, FeedbackInit
  <2> QED
    BY <2>1 DEF Kept, Implied, FilesOpen
<1>2. Typed /\ Kept /\ FilesOpen /\ [Next]_vars => (Typed /\ Kept /\ FilesOpen)'
  BY TypedStep, FilesStep
<1> QED
  BY <1>1, <1>2, TypedInit, PTL DEF Spec

-----------------------------------------------------------------------------
(* The last word, when what a request has read stays true until it is done *)

\* Nobody is told of the status of a complaint that is not filed.
Unsaid ==
  \A c \in ComplaintIds :
    complaint[c] = Nothing => word[c] = [u \in Users |-> Nothing]

\* Somebody is about to be told the status of the complaint c.
Informed(c, u) ==
  \E r \in Requests :
    req[r].at = "inform" /\ req[r].complaint = c /\ u \in req[r].todo

\* Every step keeps the last word true, if the requests are fresh.
LEMMA LastWordStep ==
  ASSUME Typed, Fresh, Unsaid, LastWordTold, [Next]_vars
  PROVE  Unsaid' /\ LastWordTold'
<1> DEFINE Said(c) ==
             LET s == complaint[c].status IN
             \A u \in Parties(c) :
               \/ word[c][u] = s
               \/ word[c][u] = Nothing /\ s = "open"
               \/ <<"status", c, s>> \in cut
               \/ Informed(c, u)
           Good == Unsaid' /\ LastWordTold'
<1>0. /\ req \in [Requests -> Request] /\ ComplaintsTypeOK /\ ComplaintRows
      /\ req' \in [Requests -> Request] /\ ComplaintsTypeOK'
  BY TypedStep DEF Typed, TypeOK
<1>1. /\ cut \subseteq cut'
      /\ ComplaintsNext \/ \A r \in Requests : req[r].at = "inform" => req'[r] = req[r]
  <2>1. CASE InboxNext
    BY <2>1, InboxStep, Others DEF Grows
  <2>2. CASE MessagingNext
    BY <2>2, MessagingStep, Others DEF Grows
  <2>3. CASE ComplaintsNext
    BY <2>3, ComplaintsStep DEF Grows
  <2>4. CASE UploadsNext
    BY <2>4, UploadsStep, Others DEF Grows
  <2>5. CASE FeedbackNext
    BY <2>5, FeedbackStep, Others DEF Grows
  <2>6. CASE DonationsNext
    BY <2>6, DonationsStep, Others DEF Grows
  <2>7. ASSUME NEW x \in Requests, GiveUp(x)
        PROVE  cut' = cut /\ \A r \in Requests : req[r].at = "inform" => req'[r] = req[r]
    BY <1>0, <2>7, IdleType, GoType DEF GiveUp, Reading
  <2>8. CASE UNCHANGED vars
    BY <2>8 DEF vars
  <2> QED
    BY <2>1, <2>2, <2>3, <2>4, <2>5, <2>6, <2>7, <2>8 DEF Next
<1>2. ASSUME NEW c \in ComplaintIds, complaint[c] # Nothing
      PROVE  Said(c) /\ Parties(c) \in SUBSET Users /\ complaint[c] \in Complaint
  BY <1>0, <1>2 DEF LastWordTold, Informed, Parties, ComplaintsTypeOK, Complaint
\* It is enough that nothing new is said of a complaint whose status and
\* parties stay, and that those who were to be informed still are.
<1>3. ASSUME NEW c \in ComplaintIds, complaint[c] # Nothing,
             complaint'[c].status = complaint[c].status,
             Parties(c)' = Parties(c), word'[c] = word[c],
             \A u \in Users : Informed(c, u) => Informed(c, u)'
      PROVE  Said(c)'
  BY <1>1, <1>2, <1>3
<1>4. CASE UNCHANGED complaintVars /\ ~ComplaintsNext
  <2>1. \A c \in ComplaintIds, u \in Users : Informed(c, u) => Informed(c, u)'
    BY <1>1, <1>4 DEF Informed
  <2>2. \A c \in ComplaintIds : complaint'[c] # Nothing => Said(c)'
    BY <1>3, <1>4, <2>1 DEF complaintVars, Parties
  <2> QED
    BY <1>4, <2>2 DEF complaintVars, Unsaid, LastWordTold, Informed
\* A request that was not informing anybody goes on.
<1>5. ASSUME NEW r \in Requests, NEW q \in Request, Go(r, q), req[r].at # "inform"
      PROVE  \A c \in ComplaintIds, u \in Users : Informed(c, u) => Informed(c, u)'
  BY <1>0, <1>5, GoType DEF Informed
<1>6. ASSUME NEW r \in Requests, NEW u \in Users, NEW t \in Targets,
             NEW c \in ComplaintIds, File(r, u, t, c)
      PROVE  Good
  <2>1. PICK v \in Accused(u, t) \ {u} :
          complaint' = [complaint EXCEPT ![c] =
            [by |-> u, against |-> v, status |-> "open", answered |-> FALSE]]
    BY <1>6 DEF File
  <2>2. /\ complaint'[c] = [by |-> u, against |-> v, status |-> "open", answered |-> FALSE]
        /\ \A d \in ComplaintIds \ {c} : complaint'[d] = complaint[d]
        /\ word' = word /\ word[c] = [w \in Users |-> Nothing]
    BY <1>0, <1>6, <2>1 DEF File, ComplaintsTypeOK, Unsaid
  <2>3. PICK w \in Accused(u, t) : Begin(r, Telling(<<"filed", c>>, {w}, Admins))
    BY <1>6 DEF File
  <2>4. w \in Users /\ v \in Users
    BY ComplaintsAssumption DEF Accused, Target
  <2>5. Telling(<<"filed", c>>, {w}, Admins) \in Request
    BY <2>4, Topics, TellingType, InboxAssumption
  <2>6. \A d \in ComplaintIds, x \in Users : Informed(d, x) => Informed(d, x)'
    BY <1>0, <1>5, <2>3, <2>5, BeginsIdle
  <2>7. Said(c)'
    BY <2>2, <2>4 DEF Parties
  <2>8. \A d \in ComplaintIds \ {c} : complaint'[d] # Nothing => Said(d)'
    BY <1>3, <2>2, <2>6 DEF Parties
  <2>9. \A d \in ComplaintIds : complaint'[d] # Nothing => Said(d)'
    BY <2>7, <2>8
  <2>10. [by |-> u, against |-> v, status |-> "open", answered |-> FALSE] \in Complaint
    BY <2>4 DEF Complaint, ComplaintStatus
  <2>11. Unsaid'
    BY <2>2, <2>10, ComplaintsAssumption DEF Unsaid
  <2> QED
    BY <2>9, <2>11 DEF LastWordTold, Informed
<1>7. ASSUME NEW r \in Requests, NEW c \in ComplaintIds, NEW s \in ComplaintStatus,
             UpdateStatus(r, c, s)
      PROVE  Good
  <2>1. /\ complaint' = [complaint EXCEPT ![c] = [complaint[c] EXCEPT !.status = s]]
        /\ word' = word /\ complaint[c] # Nothing
        /\ Begin(r, Informing(c, s, Parties(c)))
    BY <1>7 DEF UpdateStatus
  <2>2. PICK todo \in SUBSET Users : todo = Parties(c)
    BY <1>2, <2>1
  <2> DEFINE q == Informing(c, s, todo)
  <2>3. /\ q \in Request
        /\ todo # {} => q.at = "inform" /\ q.complaint = c /\ q.todo = todo
    BY InformingType
  <2> HIDE DEF q
  <2>4. req[r].at = "idle" /\ Go(r, q)
    BY <1>0, <2>1, <2>2, BeginsIdle DEF q
  <2>5. req'[r] = q
    BY <1>0, <2>3, <2>4, GoType
  <2>6. complaint[c] \in Complaint
    BY <1>2, <2>1
  <2>7. /\ Parties(c)' = todo
        /\ \A d \in ComplaintIds \ {c} : complaint'[d] = complaint[d]
    BY <1>0, <2>1, <2>2, <2>6 DEF Parties, ComplaintsTypeOK, Complaint
  <2>8. \A u \in todo : Informed(c, u)'
    BY <2>3, <2>5 DEF Informed
  <2>9. Said(c)'
    BY <2>7, <2>8
  <2>10. \A d \in ComplaintIds, u \in Users : Informed(d, u) => Informed(d, u)'
    BY <1>5, <2>3, <2>4
  <2>11. \A d \in ComplaintIds \ {c} : complaint'[d] # Nothing => Said(d)'
    BY <1>3, <2>1, <2>7, <2>10 DEF Parties
  <2>12. \A d \in ComplaintIds : complaint'[d] # Nothing => Said(d)'
    BY <2>9, <2>11
  <2>13. Unsaid'
    <3>1. \A d \in ComplaintIds : complaint'[d] = Nothing => complaint[d] = Nothing
      <4>1. [complaint[c] EXCEPT !.status = s] \in Complaint
        BY <2>6 DEF Complaint
      <4> QED
        BY <1>0, <2>1, <2>7, <4>1, ComplaintsAssumption DEF ComplaintsTypeOK
    <3> QED
      BY <2>1, <3>1 DEF Unsaid
  <2> QED
    BY <2>12, <2>13 DEF LastWordTold, Informed
<1>8. ASSUME NEW r \in Requests, NEW v \in Users, Inform(r, v)
      PROVE  Good
  <2>1. req[r] \in [at : {"inform"}, complaint : ComplaintIds,
                    status : ComplaintStatus, todo : SUBSET Users]
    BY <1>8, StageType DEF Inform, Typed
  <2>2. PICK c \in ComplaintIds, s \in ComplaintStatus, todo \in SUBSET Users :
          c = req[r].complaint /\ s = req[r].status /\ todo = req[r].todo \ {v}
    BY <2>1
  <2>3. /\ complaint' = complaint /\ complaint[c] # Nothing
        /\ complaint[c].status = s
        /\ word' = [word EXCEPT ![c][v] = s] /\ Go(r, Informing(c, s, todo))
    BY <1>0, <1>8, <2>1, <2>2 DEF Inform, ComplaintRows, Fresh
  <2> DEFINE q == Informing(c, s, todo)
  <2>4. /\ q \in Request
        /\ todo # {} => q.at = "inform" /\ q.complaint = c /\ q.todo = todo
    BY InformingType
  <2> HIDE DEF q
  <2>5. req'[r] = q /\ \A x \in Requests \ {r} : req'[x] = req[x]
    BY <1>0, <2>3, <2>4, GoType DEF q
  <2>6. \A d \in ComplaintIds, u \in Users :
          Informed(d, u) => Informed(d, u)' \/ (d = c /\ u = v)
    BY <2>2, <2>4, <2>5 DEF Informed
  <2>7. /\ word'[c][v] = s /\ \A u \in Users \ {v} : word'[c][u] = word[c][u]
        /\ \A d \in ComplaintIds \ {c} : word'[d] = word[d]
    BY <1>0, <1>8, <2>3 DEF ComplaintsTypeOK
  <2>8. Said(c)'
    BY <1>1, <1>2, <2>3, <2>6, <2>7 DEF Parties
  <2>9. \A d \in ComplaintIds \ {c} : complaint'[d] # Nothing => Said(d)'
    BY <1>3, <2>3, <2>6, <2>7 DEF Parties
  <2>10. \A d \in ComplaintIds : complaint'[d] # Nothing => Said(d)'
    BY <2>8, <2>9
  <2>11. Unsaid'
    BY <2>3, <2>7 DEF Unsaid
  <2> QED
    BY <2>10, <2>11 DEF LastWordTold, Informed
<1>9. ASSUME NEW r \in Requests, InformDies(r)
      PROVE  Good
  <2>1. PICK c \in ComplaintIds : c = req[r].complaint
    BY <1>9, StageType DEF InformDies, Typed
  <2>2. /\ UNCHANGED <<complaint, word>> /\ complaint[c] # Nothing
        /\ cut' = cut \cup {<<"status", c, complaint[c].status>>}
        /\ Go(r, Idle)
    BY <1>0, <1>9, <2>1 DEF InformDies, complaintVars, ComplaintRows, Fresh
  <2>3. \A x \in Requests \ {r} : req'[x] = req[x]
    BY <1>0, <2>2, IdleType, GoType
  <2>4. Said(c)'
    BY <2>2
  <2>5. \A d \in ComplaintIds, u \in Users : d # c /\ Informed(d, u) => Informed(d, u)'
    BY <2>1, <2>3 DEF Informed
  <2>6. \A d \in ComplaintIds \ {c} : complaint'[d] # Nothing => Said(d)'
    BY <1>3, <2>2, <2>5 DEF Parties
  <2>7. \A d \in ComplaintIds : complaint'[d] # Nothing => Said(d)'
    BY <2>4, <2>6
  <2>8. Unsaid'
    BY <2>2 DEF Unsaid
  <2> QED
    BY <2>7, <2>8 DEF LastWordTold, Informed
<1>10. ASSUME NEW r \in Requests, NEW u \in Users, NEW c \in ComplaintIds,
              RespondRead(r, u, c)
       PROVE  Good
  <2> DEFINE q == [at |-> "respond", complaint |-> c]
  <2>1. q \in Request
    BY DEF Request
  <2>2. req[r].at = "idle" /\ Go(r, q) /\ UNCHANGED <<complaint, word>>
    BY <1>0, <1>10, BeginsIdle DEF RespondRead, complaintVars
  <2>3. \A d \in ComplaintIds, x \in Users : Informed(d, x) => Informed(d, x)'
    BY <1>5, <2>1, <2>2
  <2>4. \A d \in ComplaintIds : complaint'[d] # Nothing => Said(d)'
    BY <1>3, <2>2, <2>3 DEF Parties
  <2>5. Unsaid'
    BY <2>2 DEF Unsaid
  <2> QED
    BY <2>4, <2>5 DEF LastWordTold, Informed
<1>11. ASSUME NEW r \in Requests, RespondWrite(r)
       PROVE  Good
  <2>1. PICK c \in ComplaintIds : c = req[r].complaint
    BY <1>11, StageType DEF RespondWrite, Typed
  <2>2. /\ complaint[c] # Nothing
        /\ complaint' = [complaint EXCEPT ![c] = [complaint[c] EXCEPT !.answered = TRUE]]
        /\ word' = word /\ Go(r, Telling(<<"answer", c>>, Admins, {}))
        /\ req[r].at = "respond"
    BY <1>0, <1>11, <2>1 DEF RespondWrite, ComplaintRows
  <2>3. /\ Admins \in SUBSET Users /\ {} \in SUBSET Users /\ <<"answer", c>> \in Topic
    BY Topics, InboxAssumption
  <2>4. Telling(<<"answer", c>>, Admins, {}) \in Request
    BY <2>3, TellingType
  <2>5. \A d \in ComplaintIds, u \in Users : Informed(d, u) => Informed(d, u)'
    BY <1>5, <2>2, <2>4
  <2>6. complaint[c] \in Complaint
    BY <1>2, <2>2
  <2>7. \A d \in ComplaintIds : complaint[d] # Nothing \/ complaint'[d] # Nothing =>
          /\ complaint[d] # Nothing
          /\ complaint'[d].status = complaint[d].status
          /\ Parties(d)' = Parties(d)
    BY <1>0, <2>2, <2>6 DEF ComplaintsTypeOK, Complaint, Parties
  <2>8. \A d \in ComplaintIds : complaint'[d] # Nothing => Said(d)'
    BY <1>3, <2>2, <2>5, <2>7
  <2>9. \A d \in ComplaintIds \ {c} : complaint'[d] = complaint[d]
    BY <1>0, <2>2 DEF ComplaintsTypeOK
  <2>10. [complaint[c] EXCEPT !.answered = TRUE] # Nothing
    <3>1. [complaint[c] EXCEPT !.answered = TRUE] \in Complaint
      BY <2>6 DEF Complaint
    <3> QED
      BY <3>1, ComplaintsAssumption
  <2>11. complaint'[c] # Nothing
    BY <1>0, <2>2, <2>10 DEF ComplaintsTypeOK
  <2>12. Unsaid'
    BY <2>2, <2>9, <2>11 DEF Unsaid
  <2> QED
    BY <2>8, <2>12 DEF LastWordTold, Informed
<1>12. (UNCHANGED complaintVars /\ ~ComplaintsNext) \/ ComplaintsNext
  BY DEF Next, vars, GiveUp
<1> QED
  BY <1>4, <1>6, <1>7, <1>8, <1>9, <1>10, <1>11, <1>12 DEF ComplaintsNext

\* At the start nothing has been read.
LEMMA FreshInit == Init => Fresh
  BY IdleType DEF Init, InboxInit, Fresh

\* A serial step keeps the requests fresh, by definition.
LEMMA FreshStep == ASSUME Fresh, [Next /\ Fresh']_vars PROVE Fresh'
<1>1. CASE UNCHANGED vars
  BY <1>1 DEF vars, donationVars, complaintVars, Fresh, Used, ProofsOf, Pending
<1> QED
  BY <1>1

\* What the two parties of a complaint were told last is its status, unless
\* they are being told of it or the request that had to tell them has failed.
THEOREM LastWord == SerialSpec => []LastWordTold
<1>1. Init => Unsaid /\ LastWordTold
  BY DEF Init, ComplaintsInit, Unsaid, LastWordTold
<1>2. Typed /\ Fresh /\ Unsaid /\ LastWordTold /\ [Next /\ Fresh']_vars =>
        (Typed /\ Fresh /\ Unsaid /\ LastWordTold)'
  BY TypedStep, FreshStep, LastWordStep
<1> QED
  BY <1>1, <1>2, TypedInit, FreshInit, PTL DEF SerialSpec

-----------------------------------------------------------------------------
(* Donations are decided, when what a request has read stays true and a    *)
(* proof is reviewed by one admin at a time.                               *)

\* A donation has one proof under review.
OneOpen ==
  \A p, s \in ProofIds :
    Pending(p) /\ Pending(s) /\ proof[p].donation = proof[s].donation => p = s

\* Where no proof is under review, the donation has the verdict of one.
Settled(d) ==
  (donation[d] # Nothing /\ \A p \in ProofsOf(d) : ~Pending(p)) =>
    \/ ProofsOf(d) = {} /\ donation[d].status = "pending"
    \/ \E p \in ProofsOf(d) : proof[p].status = donation[d].status

\* A verdict on a proof is first written to its donation.
Halfway ==
  \A r \in Requests : req[r].at = "close" =>
    donation[proof[req[r].proof].donation].status = req[r].verdict

Deciding ==
  OneOpen /\ Halfway /\ \A d \in DonationIds : Settled(d)

\* In short, that is what DonationDecided says.
LEMMA DecidedFrom == Deciding => DonationDecided
<1> SUFFICES ASSUME Deciding, NEW d \in DonationIds
             PROVE  LET open == {p \in ProofsOf(d) : Pending(p)} IN
                    /\ Cardinality(open) <= 1
                    /\ donation[d] # Nothing /\ open = {} =>
                         \/ ProofsOf(d) = {} /\ donation[d].status = "pending"
                         \/ \E p \in ProofsOf(d) : proof[p].status = donation[d].status
  BY DEF DonationDecided
<1> DEFINE open == {p \in ProofsOf(d) : Pending(p)}
<1>1. Cardinality(open) <= 1
  <2>1. CASE open = {}
    BY <2>1, FS_EmptySet
  <2>2. ASSUME NEW p \in open PROVE Cardinality(open) <= 1
    <3>1. open = {p}
      BY <2>2 DEF Deciding, OneOpen, ProofsOf
    <3>2. Cardinality({p}) = 1
      BY FS_Singleton
    <3> QED
      BY <3>1, <3>2
  <2> QED
    BY <2>1, <2>2
<1>2. donation[d] # Nothing /\ open = {} =>
        \/ ProofsOf(d) = {} /\ donation[d].status = "pending"
        \/ \E p \in ProofsOf(d) : proof[p].status = donation[d].status
  <2>1. Settled(d)
    BY DEF Deciding
  <2> QED
    BY <2>1 DEF Settled
<1> QED
  BY <1>1, <1>2

\* Every step keeps donations decided, if the requests are fresh.
LEMMA DecidedStep ==
  ASSUME Typed, Fresh, Deciding, [Next]_vars
  PROVE  Deciding'
<1>0. /\ req \in [Requests -> Request] /\ DonationsTypeOK /\ DonationRows
      /\ req' \in [Requests -> Request] /\ DonationsTypeOK'
  BY TypedStep DEF Typed, TypeOK
<1>a. ASSUME NEW p \in ProofIds, proof[p] # Nothing
      PROVE  /\ proof[p] \in Proof /\ proof[p].donation \in DonationIds
             /\ donation[proof[p].donation] \in Donation
             /\ donation[proof[p].donation] # Nothing
  BY <1>0, <1>a DEF DonationRows, DonationsTypeOK, Proof
<1>k. \A r \in Requests : req[r].at \in {"judge", "close"} =>
        req[r].proof \in ProofIds /\ Pending(req[r].proof)
  BY <1>0, StageType DEF Typed, Fresh
\* A step that leaves the rows alone, of a request that does not go on to close.
<1>b. ASSUME UNCHANGED <<donation, proof>>,
             \A r \in Requests : req'[r].at = "close" => req'[r] = req[r]
      PROVE  Deciding'
  BY <1>b DEF Deciding, OneOpen, Halfway, Settled, ProofsOf, Pending
<1>1. CASE UNCHANGED donationVars /\ ~DonationsNext
  <2>1. \A r \in Requests : req'[r].at = "close" => req'[r] = req[r]
    <3>1. CASE InboxNext
      BY <3>1, InboxStep, Others
    <3>2. CASE MessagingNext
      BY <3>2, MessagingStep, Others
    <3>3. CASE ComplaintsNext
      BY <3>3, ComplaintsStep, Others
    <3>4. CASE UploadsNext
      BY <3>4, UploadsStep, Others
    <3>5. CASE FeedbackNext
      BY <3>5, FeedbackStep, Others
    <3>6. ASSUME NEW x \in Requests, GiveUp(x)
          PROVE  \A r \in Requests : req'[r].at = "close" => req'[r] = req[r]
      BY <1>0, <3>6, IdleType, GoType DEF GiveUp
    <3>7. CASE UNCHANGED vars
      BY <3>7 DEF vars
    <3> QED
      BY <1>1, <3>1, <3>2, <3>3, <3>4, <3>5, <3>6, <3>7 DEF Next
  <2> QED
    BY <1>1, <1>b, <2>1 DEF donationVars
<1>2. ASSUME NEW u \in Donors, NEW d \in DonationIds, Donate(u, d)
      PROVE  Deciding'
  <2>1. /\ proof' = proof /\ req' = req /\ donation[d] = Nothing
        /\ donation'[d] = [donor |-> u, status |-> "pending"]
        /\ \A e \in DonationIds \ {d} : donation'[e] = donation[e]
    BY <1>0, <1>2 DEF Donate, DonationsTypeOK
  <2>2. ProofsOf(d) = {} /\ \A e \in DonationIds : ProofsOf(e)' = ProofsOf(e)
    BY <1>a, <2>1 DEF ProofsOf
  <2>3. OneOpen'
    BY <2>1 DEF Deciding, OneOpen, Pending
  <2>4. Halfway'
    BY <1>a, <1>k, <2>1 DEF Deciding, Halfway, Pending
  <2>5. ASSUME NEW e \in DonationIds PROVE Settled(e)'
    <3>1. CASE e = d
      BY <2>1, <2>2, <3>1 DEF Settled
    <3>2. CASE e # d
      BY <2>1, <2>2, <3>2 DEF Deciding, Settled, Pending, ProofsOf
    <3> QED
      BY <3>1, <3>2
  <2> QED
    BY <2>3, <2>4, <2>5 DEF Deciding
<1>3. ASSUME NEW r \in Requests, NEW p \in ProofIds, SubmitInsert(r, p)
      PROVE  Deciding'
  <2>1. PICK d \in DonationIds : d = req[r].donation
    BY <1>3, StageType DEF SubmitInsert, Typed
  <2>2. /\ proof'[p].donation = d /\ proof'[p].status = "pending"
        /\ \A x \in ProofIds \ {p} : proof'[x] = proof[x]
        /\ donation' = donation /\ proof[p] = Nothing
        /\ \A x \in ProofsOf(d) : ~Pending(x)
    <3>1. proof' = [proof EXCEPT ![p] = [donation |-> d, method |-> req[r].method,
                                         tx |-> req[r].tx, status |-> "pending"]]
      BY <1>3, <2>1 DEF SubmitInsert
    <3>2. donation' = donation /\ proof[p] = Nothing /\ req[r].at = "insert"
      BY <1>3 DEF SubmitInsert
    <3>3. \A x \in ProofsOf(d) : ~Pending(x)
      BY <2>1, <3>2 DEF Fresh
    <3>4. /\ proof'[p].donation = d /\ proof'[p].status = "pending"
          /\ \A x \in ProofIds \ {p} : proof'[x] = proof[x]
      BY <1>0, <3>1 DEF DonationsTypeOK
    <3> QED
      BY <3>2, <3>3, <3>4
  <2>3. proof'[p] # Nothing
    <3>1. proof' = [proof EXCEPT ![p] = [donation |-> req[r].donation,
                      method |-> req[r].method, tx |-> req[r].tx, status |-> "pending"]]
      BY <1>3 DEF SubmitInsert
    <3>2. req[r] \in [at : {"insert"}, donation : DonationIds, method : Methods, tx : TxIds]
      BY <1>3, StageType DEF SubmitInsert, Typed
    <3>3. [donation |-> req[r].donation, method |-> req[r].method, tx |-> req[r].tx,
           status |-> "pending"] \in Proof
      BY <3>2 DEF Proof, SubmissionStatus
    <3> QED
      BY <1>0, <3>1, <3>3, DonationsAssumption DEF DonationsTypeOK
  <2>4. OneOpen'
    BY <2>2 DEF Deciding, OneOpen, Pending, ProofsOf
  <2>5. Halfway'
    <3>1. ASSUME NEW x \in Requests, req'[x].at = "close"
          PROVE  req'[x] = req[x] /\ req[x].proof # p
      <4>1. /\ Go(r, Telling(<<"proof", p>>, Admins, {}))
            /\ <<"proof", p>> \in Topic /\ {} \in SUBSET Users /\ Admins \in SUBSET Users
        BY <1>3, Topics, InboxAssumption DEF SubmitInsert
      <4>2. /\ Telling(<<"proof", p>>, Admins, {}) \in Request
            /\ Telling(<<"proof", p>>, Admins, {}).at # "close"
        BY <4>1, TellingType
      <4>3. req'[x] = req[x]
        BY <1>0, <3>1, <4>1, <4>2, GoType
      <4> QED
        BY <1>k, <2>2, <3>1, <4>3 DEF Pending
    <3> QED
      BY <1>k, <2>2, <3>1 DEF Deciding, Halfway
  <2>6. ASSUME NEW e \in DonationIds PROVE Settled(e)'
    <3>1. CASE e = d
      <4>1. p \in ProofsOf(e)' /\ Pending(p)'
        BY <2>2, <2>3, <3>1 DEF ProofsOf, Pending
      <4> QED
        BY <4>1 DEF Settled
    <3>2. CASE e # d
      <4>1. ProofsOf(e)' = ProofsOf(e) /\ p \notin ProofsOf(e)
        BY <2>2, <2>3, <3>2 DEF ProofsOf
      <4>2. Settled(e)
        BY DEF Deciding
      <4> QED
        BY <2>2, <4>1, <4>2 DEF Settled, Pending, ProofsOf
    <3> QED
      BY <3>1, <3>2
  <2> QED
    BY <2>4, <2>5, <2>6 DEF Deciding
<1>4. ASSUME NEW r \in Requests, VerifyDonation(r)
      PROVE  Deciding'
  <2>1. PICK p \in ProofIds : p = req[r].proof
    BY <1>4, StageType DEF VerifyDonation, Typed
  <2>2. req[r].at = "judge" /\ Pending(p)
    BY <1>4, <1>k, <2>1 DEF VerifyDonation
  <2>3. PICK d \in DonationIds : d = proof[p].donation /\ donation[d] \in Donation
    BY <1>a, <2>2 DEF Pending
  <2>4. /\ donation' = [donation EXCEPT ![d] =
                          [donation[d] EXCEPT !.status = req[r].verdict]]
        /\ proof' = proof /\ Go(r, [req[r] EXCEPT !.at = "close"])
    BY <1>4, <2>1, <2>3 DEF VerifyDonation
  <2>5. /\ donation'[d].status = req[r].verdict
        /\ \A e \in DonationIds \ {d} : donation'[e] = donation[e]
    BY <1>0, <2>3, <2>4 DEF DonationsTypeOK, Donation
  <2>6. req[r] \in [at : {"judge"}, proof : ProofIds, verdict : Verdict]
    BY <2>2, StageType DEF Typed
  <2>7. req'[r].proof = p /\ req'[r].verdict = req[r].verdict
        /\ \A x \in Requests \ {r} : req'[x] = req[x]
    BY <1>0, <2>1, <2>4, <2>6 DEF Go
  <2>8. OneOpen'
    BY <2>4 DEF Deciding, OneOpen, Pending
  <2>9. ASSUME NEW x \in Requests, req'[x].at = "close"
        PROVE  donation'[proof'[req'[x].proof].donation].status = req'[x].verdict
    <3>1. CASE x = r
      BY <2>3, <2>4, <2>5, <2>7, <3>1
    <3>2. CASE x # r
      <4>1. /\ req'[x] = req[x] /\ req[x].proof \in ProofIds /\ Pending(req[x].proof)
            /\ req[x].proof # p
        BY <1>k, <2>1, <2>2, <2>7, <2>9, <3>2 DEF Fresh
      <4>2. proof[req[x].proof].donation \in DonationIds \ {d}
        BY <1>a, <2>2, <2>3, <4>1 DEF Deciding, OneOpen, Pending
      <4> QED
        BY <2>4, <2>5, <2>9, <4>1, <4>2 DEF Deciding, Halfway
    <3> QED
      BY <3>1, <3>2
  <2>10. ASSUME NEW e \in DonationIds PROVE Settled(e)'
    <3>1. ProofsOf(e)' = ProofsOf(e) /\ \A x \in ProofIds : Pending(x)' = Pending(x)
      BY <2>4 DEF ProofsOf, Pending
    <3>2. CASE e = d
      <4>1. p \in ProofsOf(e)' /\ Pending(p)'
        BY <2>2, <2>3, <3>1, <3>2 DEF ProofsOf, Pending
      <4> QED
        BY <4>1 DEF Settled
    <3>3. CASE e # d
      <4>1. Settled(e)
        BY DEF Deciding
      <4> QED
        BY <2>4, <2>5, <3>1, <3>3, <4>1 DEF Settled, ProofsOf
    <3> QED
      BY <3>2, <3>3
  <2> QED
    BY <2>8, <2>9, <2>10 DEF Deciding, Halfway
<1>5. ASSUME NEW r \in Requests, VerifyProof(r)
      PROVE  Deciding'
  <2>1. PICK p \in ProofIds : p = req[r].proof
    BY <1>5, StageType DEF VerifyProof, Typed
  <2>2. req[r].at = "close" /\ Pending(p)
    BY <1>5, <1>k, <2>1 DEF VerifyProof
  <2>3. req[r] \in [at : {"close"}, proof : ProofIds, verdict : Verdict]
    BY <2>2, StageType DEF Typed
  <2>4. PICK d \in DonationIds : d = proof[p].donation /\ donation[d] \in Donation
    BY <1>a, <2>2 DEF Pending
  <2>5. /\ proof' = [proof EXCEPT ![p] = [proof[p] EXCEPT !.status = req[r].verdict]]
        /\ donation' = donation
    BY <1>5, <2>1 DEF VerifyProof
  <2>6. proof[p] \in Proof
    BY <1>a, <2>2 DEF Pending
  <2>7. /\ proof'[p].donation = d /\ proof'[p].status = req[r].verdict
        /\ \A x \in ProofIds \ {p} : proof'[x] = proof[x]
        /\ req[r].verdict # "pending"
    BY <1>0, <2>3, <2>4, <2>5, <2>6 DEF DonationsTypeOK, Proof, Verdict
  <2>8. proof'[p] # Nothing
    <3>1. [proof[p] EXCEPT !.status = req[r].verdict] \in Proof
      BY <2>3, <2>6 DEF Proof, SubmissionStatus
    <3> QED
      BY <1>0, <2>5, <3>1, DonationsAssumption DEF DonationsTypeOK
  <2>9. OneOpen'
    BY <2>7 DEF Deciding, OneOpen, Pending
  <2>10. Halfway'
    <3>1. ASSUME NEW x \in Requests, req'[x].at = "close"
          PROVE  req'[x] = req[x] /\ req[x].proof # p
      <4>1. PICK w \in Users : w = donation[d].donor
        BY <2>4 DEF Donation
      <4> DEFINE q == Telling(<<"verdict", p>>, {w}, {})
      <4>2. Go(r, q)
        BY <1>5, <2>1, <2>4, <4>1 DEF VerifyProof
      <4>3. <<"verdict", p>> \in Topic /\ {} \in SUBSET Users /\ {w} \in SUBSET Users
        BY Topics
      <4>4. q \in Request /\ q.at # "close"
        BY <4>3, TellingType
      <4>5. req'[x] = req[x] /\ x # r
        BY <1>0, <3>1, <4>2, <4>4, GoType
      <4> QED
        BY <2>1, <2>2, <3>1, <4>5 DEF Fresh
    <3> QED
      BY <1>k, <2>5, <2>7, <3>1 DEF Deciding, Halfway
  <2>11. ASSUME NEW e \in DonationIds PROVE Settled(e)'
    <3>1. CASE e = d
      <4>1. p \in ProofsOf(e)' /\ proof'[p].status = donation'[e].status
        <5>1. donation[d].status = req[r].verdict
          BY <2>1, <2>2, <2>4 DEF Deciding, Halfway
        <5> QED
          BY <2>5, <2>7, <2>8, <3>1, <5>1 DEF ProofsOf
      <4> QED
        BY <4>1 DEF Settled
    <3>2. CASE e # d
      <4>1. ProofsOf(e)' = ProofsOf(e) /\ p \notin ProofsOf(e)
        BY <2>4, <2>7, <2>8, <3>2 DEF ProofsOf
      <4>2. Settled(e)
        BY DEF Deciding
      <4> QED
        BY <2>5, <2>7, <4>1, <4>2 DEF Settled, Pending, ProofsOf
    <3> QED
      BY <3>1, <3>2
  <2> QED
    BY <2>9, <2>10, <2>11 DEF Deciding
<1>6. ASSUME UNCHANGED <<donation, proof>>, DonationsNext,
             ~\E r \in Requests : VerifyDonation(r)
      PROVE  \A r \in Requests : req'[r].at = "close" => req'[r] = req[r]
  <2>1. ASSUME NEW r \in Requests, NEW q \in Request, Go(r, q), q.at # "close"
        PROVE  \A x \in Requests : req'[x].at = "close" => req'[x] = req[x]
    BY <1>0, <2>1, GoType
  <2>2. ASSUME NEW m \in Methods, NEW active \in BOOLEAN \cup {Nothing}, SetMethod(m, active)
        PROVE  req' = req
    BY <2>2 DEF SetMethod
  <2>3. ASSUME NEW u \in Donors, NEW d \in DonationIds, NEW r \in Requests,
               NEW m \in Methods, NEW t \in TxIds, SubmitRead(r, u, d, m, t)
        PROVE  \A x \in Requests : req'[x].at = "close" => req'[x] = req[x]
    <3> DEFINE q == [at |-> "key", donation |-> d, method |-> m, tx |-> t]
    <3>1. q \in Request /\ q.at # "close"
      BY DEF Request
    <3>2. Go(r, q)
      BY <2>3 DEF SubmitRead, Begin
    <3> HIDE DEF q
    <3> QED
      BY <2>1, <3>1, <3>2
  <2>4. ASSUME NEW r \in Requests, SubmitCheckKey(r) \/ SubmitCheckOpen(r)
        PROVE  \A x \in Requests : req'[x].at = "close" => req'[x] = req[x]
    <3>1. req[r] \in [at : {"key", "open", "insert"}, donation : DonationIds,
                      method : Methods, tx : TxIds]
      BY <2>4, StageType DEF SubmitCheckKey, SubmitCheckOpen, Typed
    <3>2. PICK s \in {"open", "insert"} : Go(r, [req[r] EXCEPT !.at = s])
      BY <2>4 DEF SubmitCheckKey, SubmitCheckOpen
    <3> DEFINE q == [req[r] EXCEPT !.at = s]
    <3>3. q \in Request /\ q.at # "close"
      BY <3>1 DEF Request
    <3>4. Go(r, q)
      BY <3>2
    <3> HIDE DEF q
    <3> QED
      BY <2>1, <3>3, <3>4
  <2>5. ASSUME NEW r \in Requests, NEW p \in ProofIds, NEW verdict \in Verdict,
               VerifyRead(r, p, verdict)
        PROVE  \A x \in Requests : req'[x].at = "close" => req'[x] = req[x]
    <3> DEFINE q == [at |-> "judge", proof |-> p, verdict |-> verdict]
    <3>1. q \in Request /\ q.at # "close"
      BY DEF Request
    <3>2. Go(r, q)
      BY <2>5 DEF VerifyRead, Begin
    <3> HIDE DEF q
    <3> QED
      BY <2>1, <3>1, <3>2
  <2>6. ASSUME NEW r \in Requests, VerifyDies(r)
        PROVE  \A x \in Requests : req'[x].at = "close" => req'[x] = req[x]
    BY <2>1, <2>6, IdleType DEF VerifyDies
  <2>7. ASSUME NEW u \in Donors, NEW d \in DonationIds, Donate(u, d)
        PROVE  req' = req
    BY <2>7 DEF Donate
  <2>8. ASSUME NEW r \in Requests, NEW p \in ProofIds, SubmitInsert(r, p)
        PROVE  \A x \in Requests : req'[x].at = "close" => req'[x] = req[x]
    <3>1. /\ Go(r, Telling(<<"proof", p>>, Admins, {}))
          /\ <<"proof", p>> \in Topic /\ {} \in SUBSET Users /\ Admins \in SUBSET Users
      BY <2>8, Topics, InboxAssumption DEF SubmitInsert
    <3>2. /\ Telling(<<"proof", p>>, Admins, {}) \in Request
          /\ Telling(<<"proof", p>>, Admins, {}).at # "close"
      BY <3>1, TellingType
    <3> QED
      BY <2>1, <3>1, <3>2
  <2>9. ASSUME NEW r \in Requests, VerifyProof(r)
        PROVE  \A x \in Requests : req'[x].at = "close" => req'[x] = req[x]
    <3>1. PICK p \in ProofIds : p = req[r].proof /\ proof[p] # Nothing
      BY <1>k, <2>9 DEF VerifyProof, Pending
    <3>2. PICK w \in Users : w = donation[proof[p].donation].donor
      BY <1>a, <3>1 DEF Donation
    <3>3. /\ Go(r, Telling(<<"verdict", p>>, {w}, {}))
          /\ <<"verdict", p>> \in Topic /\ {} \in SUBSET Users /\ {w} \in SUBSET Users
      BY <2>9, <3>1, <3>2, Topics DEF VerifyProof
    <3>4. /\ Telling(<<"verdict", p>>, {w}, {}) \in Request
          /\ Telling(<<"verdict", p>>, {w}, {}).at # "close"
      BY <3>3, TellingType
    <3> QED
      BY <2>1, <3>3, <3>4
  <2> QED
    BY <1>6, <2>2, <2>3, <2>4, <2>5, <2>6, <2>7, <2>8, <2>9 DEF DonationsNext
<1>7. \/ UNCHANGED donationVars /\ ~DonationsNext
      \/ DonationsNext
  BY DEF Next, vars, GiveUp
<1>8. DonationsNext =>
        \/ \E u \in Donors, d \in DonationIds : Donate(u, d)
        \/ \E r \in Requests, p \in ProofIds : SubmitInsert(r, p)
        \/ \E r \in Requests : VerifyDonation(r) \/ VerifyProof(r)
        \/ UNCHANGED <<donation, proof>> /\ ~\E r \in Requests : VerifyDonation(r)
  BY DEF DonationsNext, SetMethod, SubmitRead, SubmitCheckKey, SubmitCheckOpen,
         VerifyRead, VerifyDies, donationVars
<1> QED
  BY <1>1, <1>2, <1>3, <1>4, <1>5, <1>6, <1>7, <1>8, <1>b

\* A donation has one proof under review at a time; where none is, the donation
\* has the verdict of one of its proofs, or is pending and has none.
THEOREM DonationsAreDecided == SerialSpec => []DonationDecided
<1>1. Init => Deciding
  <2> SUFFICES ASSUME Init PROVE Deciding
    OBVIOUS
  <2>1. /\ \A p \in ProofIds : proof[p] = Nothing
        /\ \A r \in Requests : req[r].at = "idle"
        /\ \A d \in DonationIds : donation[d] # Nothing => donation[d].status = "pending"
    BY IdleType DEF Init, InboxInit, DonationsInit
  <2>2. \A d \in DonationIds : ProofsOf(d) = {}
    BY <2>1 DEF ProofsOf
  <2> QED
    BY <2>1, <2>2 DEF Deciding, OneOpen, Halfway, Settled, Pending
<1>2. Typed /\ Fresh /\ Deciding /\ [Next /\ Fresh']_vars => (Typed /\ Fresh /\ Deciding)'
  BY TypedStep, FreshStep, DecidedStep
<1> QED
  BY <1>1, <1>2, TypedInit, FreshInit, DecidedFrom, PTL DEF SerialSpec

=============================================================================
