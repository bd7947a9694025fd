------------------------------ MODULE Messaging ------------------------------
(***************************************************************************)
(* Conversations of two users: src/messaging/messaging.service.ts.         *)
(*                                                                         *)
(* Rows of Conversation are never changed but for lastMessageAt, which     *)
(* only orders the list of a user's conversations and is left out.         *)
(***************************************************************************)
EXTENDS Inbox

CONSTANTS
  ConversationIds,  \* ids for rows of Conversation (bounds how many exist)
  MessageIds,       \* ids for rows of Message (bounds how many exist)
  Talkers,          \* the users who write to each other
  Contexts,         \* contextType and contextId; Nothing is explicit null
  Rank              \* where a user's id stands in the order of ids

VARIABLES
  conversation,  \* rows of Conversation
  message        \* rows of Message

messagingVars == <<conversation, message>>

MessagingInit ==
  /\ conversation = [c \in ConversationIds |-> Nothing]
  /\ message      = [m \in MessageIds |-> Nothing]

Conversation == [userAId : Users, userBId : Users, context : Contexts]
Message == [in : ConversationIds, from : Users, read : BOOLEAN]

ASSUME MessagingAssumption ==
  /\ Talkers \subseteq Users
  /\ Nothing \notin Conversation \cup Message
  /\ Rank \in [Users -> Nat]
  /\ \A u, v \in Users : Rank[u] = Rank[v] => u = v

\* Mutant of Chat: the ids as they come, the caller's first.
ChatAsAsked(u, v, x) == [userAId |-> u, userBId |-> v, context |-> x]

\* The columns getOrCreate looks for and inserts: the two ids, sorted.
Chat(u, v, x) ==
  IF Rank[u] < Rank[v] THEN [userAId |-> u, userBId |-> v, context |-> x]
  ELSE [userAId |-> v, userBId |-> u, context |-> x]

Existing(chat) == {c \in ConversationIds : conversation[c] = chat}

Participants(c) == {conversation[c].userAId, conversation[c].userBId}

\* u opens a conversation with v.  With an administrator (getOrCreateWithAdmin)
\* it is the first that is found.
ConverseRead(r, u, v, x) ==
  /\ u # v
  /\ Existing(Chat(u, v, x)) = {}
  /\ Begin(r, [at |-> "converse", chat |-> Chat(u, v, x)])
  /\ UNCHANGED <<inboxVars, cut, messagingVars>>

\* The unique index on the columns refuses a second row that is equal in all.
ConverseInsert(r, c) ==
  /\ req[r].at = "converse"
  /\ conversation[c] = Nothing
  /\ Existing(req[r].chat) = {}
  /\ conversation' = [conversation EXCEPT ![c] = req[r].chat]
  /\ Go(r, Idle)
  /\ UNCHANGED <<left, inboxVars, cut, message>>

\* A participant writes; the other one is told.
Send(r, u, c, m) ==
  /\ conversation[c] # Nothing
  /\ u \in Participants(c)
  /\ message[m] = Nothing
  /\ message' = [message EXCEPT ![m] = [in |-> c, from |-> u, read |-> FALSE]]
  /\ Begin(r, Telling(<<"message", m>>, Participants(c) \ {u}, {}))
  /\ UNCHANGED <<inboxVars, cut, conversation>>

\* What u has to read in a conversation.
Unread(u, c) ==
  {m \in MessageIds : message[m] # Nothing /\ message[m].in = c
                      /\ message[m].from # u /\ ~message[m].read}

\* markRead: the messages the other participant has written by now.
ReadMessages(u, c) ==
  /\ Spend
  /\ conversation[c] # Nothing
  /\ u \in Participants(c)
  /\ Unread(u, c) # {}
  /\ message' = [m \in MessageIds |->
       IF m \in Unread(u, c) THEN [message[m] EXCEPT !.read = TRUE] ELSE message[m]]
  /\ UNCHANGED <<req, inboxVars, cut, conversation>>

MessagingNext ==
  \/ \E r \in Requests :
       \/ \E u, v \in Talkers, x \in Contexts : ConverseRead(r, u, v, x)
       \/ \E c \in ConversationIds :
            \/ ConverseInsert(r, c)
            \/ \E u \in Talkers, m \in MessageIds : Send(r, u, c, m)
  \/ \E u \in Talkers, c \in ConversationIds : ReadMessages(u, c)

MessagingTypeOK ==
  /\ conversation \in [ConversationIds -> Conversation \cup {Nothing}]
  /\ message      \in [MessageIds -> Message \cup {Nothing}]

\* Two users have one conversation in a context, in which both find all their
\* messages, however often and from whichever side it was opened at the same
\* time.
OneConversation ==
  \A c, d \in ConversationIds :
    /\ conversation[c] # Nothing /\ conversation[d] # Nothing
    /\ Participants(c) = Participants(d)
    /\ conversation[c].context = conversation[d].context
    => c = d

\* Whoever a message is for is told of it.
MessagesTold ==
  \A m \in MessageIds : message[m] # Nothing =>
    \A u \in Participants(message[m].in) \ {message[m].from} :
      ToldOrLost(u, <<"message", m>>)
=============================================================================
