-------------------------------- MODULE Inbox --------------------------------
(***************************************************************************)
(* Requests in progress and the notifications they write:                  *)
(* src/notifications/notifications.service.ts.                             *)
(*                                                                         *)
(* Messaging, Complaints, Feedback and Donations extend this module: each  *)
(* of them ends its requests with notifications, which are written one by  *)
(* one after the row they are about, in no transaction with it.            *)
(***************************************************************************)
EXTENDS Naturals

CONSTANTS
  Users,        \* accounts
  Admins,       \* those with the role admin
  Requests,     \* requests served at a time
  MaxRequests,  \* how many are served at all (bounds the behaviours)
  Nothing       \* null, and a row that does not exist

ASSUME InboxAssumption ==
  /\ Admins \subseteq Users
  /\ MaxRequests \in Nat
  /\ Nothing \notin Users

Idle == [at |-> "idle"]

VARIABLES
  req,      \* the requests in progress
  left,     \* how many may still begin
  notices,  \* rows of Notification: whom they are for, what they are about
  seen,     \* those of them that are read, the newest where there are several
  cut       \* what a failed request has left untold

inboxVars == <<notices, seen>>

InboxInit ==
  /\ req     = [r \in Requests |-> Idle]
  /\ left    = MaxRequests
  /\ notices = {}
  /\ seen    = {}
  /\ cut     = {}

Go(r, x) == req' = [req EXCEPT ![r] = x]

\* A request is served: it begins at r, or is done at once.  Requests that
\* would change nothing are not counted, and are left out.
Spend == left > 0 /\ left' = left - 1
Begin(r, x) == req[r] = Idle /\ Spend /\ Go(r, x)

Notice(u, topic) == [to |-> u, about |-> topic]

\* The rest of a request that tells the users todo, and then the users after,
\* about a topic.
Telling(topic, todo, after) ==
  IF todo # {} THEN [at |-> "tell", about |-> topic, todo |-> todo, after |-> after]
  ELSE IF after # {} THEN [at |-> "tell", about |-> topic, todo |-> after, after |-> {}]
  ELSE Idle

\* create: a new row is unread.
Write(n) ==
  /\ notices' = notices \cup {n}
  /\ seen'    = seen \ {n}

\* create and createForMany, whose rows are inserted in no particular order.
Tell(r, u) ==
  /\ req[r].at = "tell"
  /\ u \in req[r].todo
  /\ Write(Notice(u, req[r].about))
  /\ Go(r, Telling(req[r].about, req[r].todo \ {u}, req[r].after))
  /\ UNCHANGED <<left, cut>>

\* markRead finds the row by its id and its owner.
MarkRead(n) ==
  /\ Spend
  /\ n \in notices \ seen
  /\ seen' = seen \cup {n}
  /\ UNCHANGED <<req, notices, cut>>

MarkAllRead(u) ==
  /\ Spend
  /\ \E n \in notices \ seen : n.to = u
  /\ seen' = seen \cup {n \in notices : n.to = u}
  /\ UNCHANGED <<req, notices, cut>>

\* What a request that dies while telling leaves untold.
TellDies(r) ==
  /\ req[r].at = "tell"
  /\ cut' = cut \cup {req[r].about}
  /\ Go(r, Idle)
  /\ UNCHANGED <<left, inboxVars>>

InboxNext ==
  \/ \E r \in Requests : TellDies(r) \/ \E u \in Users : Tell(r, u)
  \/ \E n \in notices : MarkRead(n)
  \/ \E u \in Users : MarkAllRead(u)

\* What u is told about a topic has been written, is about to be, or was lost
\* with the request that had to write it.
ToldOrLost(u, topic) ==
  \/ Notice(u, topic) \in notices
  \/ topic \in cut
  \/ \E r \in Requests : /\ req[r].at = "tell" /\ req[r].about = topic
                         /\ u \in req[r].todo \cup req[r].after
=============================================================================
