------------------------------ MODULE Presence ------------------------------
(***************************************************************************)
(* Who is on the site: the sockets of the events gateway, src/events.      *)
(*                                                                         *)
(* Node runs a handler until it awaits.  Nest calls handleConnection and   *)
(* handleDisconnect from socket.io's events and waits for neither, so a    *)
(* disconnect can be handled while handleConnection awaits the database.   *)
(***************************************************************************)
EXTENDS Integers, FiniteSets, Functions

CONSTANTS
  Sockets,    \* socket ids, each used once
  Visitors,   \* visitor ids that browsers send in their handshake
  Users,      \* accounts
  Nobody      \* no entry, or no account

VARIABLES
  conn,       \* socket.io: a socket is "new", then "open", then "closed"
  handshake,  \* what a socket said of itself: visitor id, account of its token
  awaiting,   \* sockets whose handleConnection awaits the user's row
  presence,   \* socket id -> visitor id, kept in memory
  room,       \* the account whose private room a socket has joined
  shown       \* the last presence:count broadcast

vars == <<conn, handshake, awaiting, presence, room, shown>>

Init ==
  /\ conn      = [s \in Sockets |-> "new"]
  /\ handshake = [s \in Sockets |-> [visitor |-> s, account |-> Nobody]]
  /\ awaiting  = {}
  /\ presence  = [s \in Sockets |-> Nobody]
  /\ room      = [s \in Sockets |-> Nobody]
  /\ shown     = 0

OnlineCount(p) == Cardinality(Range(p) \ {Nobody})

Broadcast == shown' = OnlineCount(presence')

\* Register a socket and tell everybody.
Appear(s, visitor) ==
  /\ presence' = [presence EXCEPT ![s] = visitor]
  /\ Broadcast

-----------------------------------------------------------------------------

\* handleConnection of a guest, or with a token that does not verify: there is
\* nothing to await.
ConnectGuest(s, visitor) ==
  /\ conn[s] = "new"
  /\ conn' = [conn EXCEPT ![s] = "open"]
  /\ handshake' = [handshake EXCEPT ![s] = [visitor |-> visitor, account |-> Nobody]]
  /\ Appear(s, visitor)
  /\ UNCHANGED <<awaiting, room>>

\* handleConnection with a good token, up to the look-up of its user.
ConnectUser(s, visitor, u) ==
  /\ conn[s] = "new"
  /\ conn' = [conn EXCEPT ![s] = "open"]
  /\ handshake' = [handshake EXCEPT ![s] = [visitor |-> visitor, account |-> u]]
  /\ awaiting' = awaiting \cup {s}
  /\ UNCHANGED <<presence, room, shown>>

\* The look-up answers: the socket joins the user's room unless the user is gone or
\* suspended, or the look-up failed, and is registered in any case.
LookupAnswers(s, welcome) ==
  /\ s \in awaiting
  /\ awaiting' = awaiting \ {s}
  /\ room' = IF welcome THEN [room EXCEPT ![s] = handshake[s].account] ELSE room
  /\ Appear(s, handshake[s].visitor)
  /\ UNCHANGED <<conn, handshake>>

\* The browser goes: socket.io empties the socket's rooms, handleDisconnect.
Disconnect(s) ==
  /\ conn[s] = "open"
  /\ conn' = [conn EXCEPT ![s] = "closed"]
  /\ room' = [room EXCEPT ![s] = Nobody]
  /\ presence' = [presence EXCEPT ![s] = Nobody]
  /\ Broadcast
  /\ UNCHANGED <<handshake, awaiting>>

\* The process restarts: sockets close, the map starts empty.
Restart ==
  /\ conn' = [s \in Sockets |-> IF conn[s] = "open" THEN "closed" ELSE conn[s]]
  /\ awaiting' = {}
  /\ presence' = [s \in Sockets |-> Nobody]
  /\ room' = [s \in Sockets |-> Nobody]
  /\ shown' = 0
  /\ UNCHANGED handshake

Next ==
  \/ \E s \in Sockets, v \in Visitors : ConnectGuest(s, v)
  \/ \E s \in Sockets : ConnectGuest(s, s)
  \/ \E s \in Sockets, v \in Visitors, u \in Users : ConnectUser(s, v, u)
  \/ \E s \in Sockets, u \in Users : ConnectUser(s, s, u)
  \/ \E s \in Sockets, welcome \in BOOLEAN : LookupAnswers(s, welcome)
  \/ \E s \in Sockets : Disconnect(s)
  \/ Restart

Spec == Init /\ [][Next]_vars

-----------------------------------------------------------------------------
(* What the map promises.                                                  *)

\* Who is counted as on the site is on the site: a registered socket is connected.
OnlineIsLive ==
  \A s \in Sockets : presence[s] # Nobody => conn[s] = "open"
=============================================================================
