------------------------------- MODULE Sellers -------------------------------
(***************************************************************************)
(* How accounts get their role, their access role and their store:         *)
(* src/seller-applications, src/access-control, and the account            *)
(* administration of src/admin.                                            *)
(*                                                                         *)
(* A review is a transaction conditional on the status it has read;        *)
(* everything else checks rows and writes later, without a condition.      *)
(***************************************************************************)
CONSTANTS
  Users,        \* e-mail addresses, each of one account at most
  CustomRoles,  \* ids for access roles that admins create
  Applications, \* ids for rows of SellerApplication (bounds how many exist)
  Categories,   \* active categories
  Requests,     \* requests served at a time
  Nothing       \* null, and a row that does not exist

Account == {"buyer", "seller", "admin"}              \* UserRole
Open    == {"pending", "more_info_requested"}
Verdict == {"approved", "rejected"}
Status  == Open \cup Verdict                         \* ApplicationStatus

\* The system role of each kind of account is named by it.
Access == Account \cup CustomRoles

Application == [user : Users, status : Status, category : Categories]
Notice      == [to : Users \cup {"admins"}, about : Status]

ASSUME SellersAssumption ==
  /\ Nothing \notin Account \cup CustomRoles \cup Application \cup Categories
  /\ Account \cap CustomRoles = {}
  /\ "admins" \notin Users

Idle == [at |-> "idle"]
Request ==
       {Idle}
  \cup [at : {"apply"}, user : Users]
  \cup [at : {"review"}, application : Applications, was : Open,
        verdict : Verdict, category : Categories]
  \cup [at : {"ask"}, application : Applications]
  \cup [at : {"resubmit"}, application : Applications, category : Categories]
  \cup [at : {"enrol"}, user : Users, role : Account, access : Access,
        category : Categories]
  \cup [at : {"assign"}, user : Users, access : Access]
  \cup [at : {"drop"}, access : CustomRoles]
  \cup [at : {"tell"}, notice : Notice]

VARIABLES
  role,         \* User.role
  access,       \* User.accessRoleId
  custom,       \* AccessRole.accountType of the custom roles
  application,  \* rows of SellerApplication
  store,        \* the category in which a user's store was opened
  inbox,        \* rows of Notification
  req           \* the requests in progress

vars == <<role, access, custom, application, store, inbox, req>>

Init ==
  /\ role        = [u \in Users |-> Nothing]
  /\ access      = [u \in Users |-> Nothing]
  /\ custom      = [x \in CustomRoles |-> Nothing]
  /\ application = [a \in Applications |-> Nothing]
  /\ store       = [u \in Users |-> Nothing]
  /\ inbox       = {}
  /\ req         = [r \in Requests |-> Idle]

Go(r, x) == req' = [req EXCEPT ![r] = x]
Tell(to, about) == [at |-> "tell", notice |-> [to |-> to, about |-> about]]

\* The kind of account that an access role is for; Nothing if it does not exist.
KindOf(x) == IF x \in Account THEN x ELSE custom[x]

\* The store a user has, or a new one (createForOwner).
Opened(u, c) == [store EXCEPT ![u] = IF @ = Nothing THEN c ELSE @]

-----------------------------------------------------------------------------
(* Accounts                                                                *)

\* The e-mail index is unique and system roles are never removed, so the reads
\* before the insert change nothing.
Register(u) ==
  /\ role[u] = Nothing
  /\ role'   = [role EXCEPT ![u] = "buyer"]
  /\ access' = [access EXCEPT ![u] = "buyer"]
  /\ UNCHANGED <<custom, application, store, inbox, req>>

CreateUserRead(r, u, kind, x, c) ==
  /\ req[r] = Idle
  /\ role[u] = Nothing
  /\ KindOf(x) = kind
  /\ Go(r, [at |-> "enrol", user |-> u, role |-> kind, access |-> x,
            category |-> c])
  /\ UNCHANGED <<role, access, custom, application, store, inbox>>

CreateUserCommit(r) ==
  /\ req[r].at = "enrol"
  /\ LET q == req[r] IN
       /\ role[q.user] = Nothing
       /\ role'   = [role EXCEPT ![q.user] = q.role]
       /\ access' = [access EXCEPT ![q.user] = q.access]
       /\ store'  = IF q.role = "seller" THEN Opened(q.user, q.category) ELSE store
  /\ Go(r, Idle)
  /\ UNCHANGED <<custom, application, inbox>>

\* assignAccessRole.  That an admin keeps their own full access only refuses.
AssignRead(r, u, x) ==
  /\ req[r] = Idle
  /\ role[u] # Nothing
  /\ KindOf(x) = role[u]
  /\ access[u] # x
  /\ Go(r, [at |-> "assign", user |-> u, access |-> x])
  /\ UNCHANGED <<role, access, custom, application, store, inbox>>

AssignWrite(r) ==
  /\ req[r].at = "assign"
  /\ access' = [access EXCEPT ![req[r].user] = req[r].access]
  /\ Go(r, Idle)
  /\ UNCHANGED <<role, custom, application, store, inbox>>

CreateRole(x, kind) ==
  /\ custom[x] = Nothing
  /\ custom' = [custom EXCEPT ![x] = kind]
  /\ UNCHANGED <<role, access, application, store, inbox, req>>

Holders(x) == {u \in Users : access[u] = x}

RemoveRoleRead(r, x) ==
  /\ req[r] = Idle
  /\ custom[x] # Nothing
  /\ Holders(x) = {}
  /\ Go(r, [at |-> "drop", access |-> x])
  /\ UNCHANGED <<role, access, custom, application, store, inbox>>

\* Deleting the row sets accessRoleId to null where it refers to it.
RemoveRoleDelete(r) ==
  /\ req[r].at = "drop"
  /\ LET x == req[r].access IN
       /\ custom[x] # Nothing
       /\ custom' = [custom EXCEPT ![x] = Nothing]
       /\ access' = [u \in Users |-> IF u \in Holders(x) THEN Nothing ELSE access[u]]
  /\ Go(r, Idle)
  /\ UNCHANGED <<role, application, store, inbox>>

-----------------------------------------------------------------------------
(* Applications                                                            *)

\* Mutant of Unresolved: only a pending application stands in the way.
UnresolvedPending(u) ==
  {a \in Applications : /\ application[a] # Nothing
                        /\ application[a].user = u
                        /\ application[a].status = "pending"}

\* What stands in the way of a new application of u.
Unresolved(u) ==
  {a \in Applications : /\ application[a] # Nothing
                        /\ application[a].user = u
                        /\ application[a].status \in Open \cup {"approved"}}

ApplyRead(r, u) ==
  /\ req[r] = Idle
  /\ role[u] \in Account \ {"admin"}
  /\ Unresolved(u) = {}
  /\ Go(r, [at |-> "apply", user |-> u])
  /\ UNCHANGED <<role, access, custom, application, store, inbox>>

ApplyInsert(r, a, c) ==
  /\ req[r].at = "apply"
  /\ application[a] = Nothing
  /\ application' = [application EXCEPT ![a] =
       [user |-> req[r].user, status |-> "pending", category |-> c]]
  /\ Go(r, Tell("admins", "pending"))
  /\ UNCHANGED <<role, access, custom, store, inbox>>

\* Mutant of ReviewRead: what was approved may still be rejected.
ReviewReadApproved(r, a, verdict) ==
  /\ req[r] = Idle
  /\ application[a] # Nothing
  /\ LET row == application[a] IN
       /\ row.status \in IF verdict = "approved" THEN {"pending"} ELSE Open \cup {"approved"}
       /\ Go(r, [at |-> "review", application |-> a, was |-> row.status,
                 verdict |-> verdict, category |-> row.category])
  /\ UNCHANGED <<role, access, custom, application, store, inbox>>

\* An application whose information was asked for may be rejected, not approved.
\* Documents and verification checks only refuse.
ReviewRead(r, a, verdict) ==
  /\ req[r] = Idle
  /\ application[a] # Nothing
  /\ LET row == application[a] IN
       /\ row.status \in IF verdict = "approved" THEN {"pending"} ELSE Open
       /\ Go(r, [at |-> "review", application |-> a, was |-> row.status,
                 verdict |-> verdict, category |-> row.category])
  /\ UNCHANGED <<role, access, custom, application, store, inbox>>

\* Mutant of Grant: the role without the store.
GrantRole(u, c) ==
  /\ role'   = [role EXCEPT ![u] = "seller"]
  /\ access' = [access EXCEPT ![u] = "seller"]
  /\ UNCHANGED store
\* Mutant of Grant: the access role stays as it is.
GrantStore(u, c) ==
  /\ role'  = [role EXCEPT ![u] = "seller"]
  /\ store' = Opened(u, c)
  /\ UNCHANGED access
Grant(u, c) ==
  /\ role'   = [role EXCEPT ![u] = "seller"]
  /\ access' = [access EXCEPT ![u] = "seller"]
  /\ store'  = Opened(u, c)

ReviewCommit(r) ==
  /\ req[r].at = "review"
  /\ LET q == req[r]
         u == application[q.application].user IN
       /\ application[q.application].status = q.was
       /\ application' = [application EXCEPT ![q.application].status = q.verdict]
       /\ IF q.verdict = "approved" THEN Grant(u, q.category)
          ELSE UNCHANGED <<role, access, store>>
       /\ Go(r, Tell(u, q.verdict))
  /\ UNCHANGED <<custom, inbox>>

RequestInfoRead(r, a) ==
  /\ req[r] = Idle
  /\ application[a] # Nothing /\ application[a].status = "pending"
  /\ Go(r, [at |-> "ask", application |-> a])
  /\ UNCHANGED <<role, access, custom, application, store, inbox>>

\* Written without looking at the status again.
RequestInfoWrite(r) ==
  /\ req[r].at = "ask"
  /\ LET a == req[r].application IN
       /\ application' = [application EXCEPT ![a].status = "more_info_requested"]
       /\ Go(r, Tell(application[a].user, "more_info_requested"))
  /\ UNCHANGED <<role, access, custom, store, inbox>>

ResubmitRead(r, a, c) ==
  /\ req[r] = Idle
  /\ application[a] # Nothing /\ application[a].status = "more_info_requested"
  /\ Go(r, [at |-> "resubmit", application |-> a, category |-> c])
  /\ UNCHANGED <<role, access, custom, application, store, inbox>>

ResubmitWrite(r) ==
  /\ req[r].at = "resubmit"
  /\ application' = [application EXCEPT
       ![req[r].application].status = "pending",
       ![req[r].application].category = req[r].category]
  /\ Go(r, Tell("admins", "pending"))
  /\ UNCHANGED <<role, access, custom, store, inbox>>

-----------------------------------------------------------------------------

\* The last step of a request about an application: notifications.create, or
\* notifyAdmins, which is taken to reach all admins or none.
TellStep(r) ==
  /\ req[r].at = "tell"
  /\ inbox' = inbox \cup {req[r].notice}
  /\ Go(r, Idle)
  /\ UNCHANGED <<role, access, custom, application, store>>

\* A request ends where it is; what it wrote stays.  This is also how it is
\* refused: for its category, or for documents that are not the applicant's.
Fail(r) ==
  /\ req[r] # Idle
  /\ Go(r, Idle)
  /\ UNCHANGED <<role, access, custom, application, store, inbox>>

\* UsersService.onModuleInit: without an admin, the one of the configuration is
\* inserted, if there is one and its address is not taken.
Founded ==
  {role} \cup {[role EXCEPT ![u] = "admin"] :
                u \in {v \in Users : /\ role[v] = Nothing
                                     /\ \A w \in Users : role[w] # "admin"}}

\* The process restarts: requests are gone, and ensureSystemRoles gives accounts
\* without an access role the system role of their kind.
Restart ==
  /\ req'    = [r \in Requests |-> Idle]
  /\ role'   \in Founded
  /\ access' = [u \in Users |-> IF role'[u] # Nothing
                                   /\ Nothing \in {role[u], access[u]}
                                THEN role'[u] ELSE access[u]]
  /\ UNCHANGED <<custom, application, store, inbox>>

Begin(r) ==
  \/ \E u \in Users :
       \/ ApplyRead(r, u)
       \/ \E x \in Access :
            \/ AssignRead(r, u, x)
            \/ \E kind \in Account, c \in Categories : CreateUserRead(r, u, kind, x, c)
  \/ \E x \in CustomRoles : RemoveRoleRead(r, x)
  \/ \E a \in Applications :
       \/ \E verdict \in Verdict : ReviewRead(r, a, verdict)
       \/ RequestInfoRead(r, a)
       \/ \E c \in Categories : ResubmitRead(r, a, c)

Step(r) ==
  \/ CreateUserCommit(r) \/ AssignWrite(r) \/ RemoveRoleDelete(r)
  \/ \E a \in Applications, c \in Categories : ApplyInsert(r, a, c)
  \/ ReviewCommit(r) \/ RequestInfoWrite(r) \/ ResubmitWrite(r)
  \/ TellStep(r)

AtOnce ==
  \/ \E u \in Users : Register(u)
  \/ \E x \in CustomRoles, kind \in Account : CreateRole(x, kind)
  \/ Restart

Next == AtOnce \/ \E r \in Requests : Begin(r) \/ Step(r) \/ Fail(r)

Spec == Init /\ [][Next]_vars

-----------------------------------------------------------------------------
(* The same, when what a request has read stays true until it is done.     *)

Fresh ==
  \A r \in Requests : LET q == req[r] IN
    /\ q.at = "apply"    => Unresolved(q.user) = {}
    /\ q.at = "review"   => /\ application[q.application].status = q.was
                            /\ application[q.application].category = q.category
    /\ q.at = "ask"      => application[q.application].status = "pending"
    /\ q.at = "resubmit" =>
         application[q.application].status = "more_info_requested"
    /\ q.at = "enrol"    => KindOf(q.access) = q.role
    /\ q.at = "assign"   => KindOf(q.access) = role[q.user]
    /\ q.at = "drop"     => Holders(q.access) = {}

SerialSpec == Init /\ [][Next /\ Fresh']_vars

-----------------------------------------------------------------------------
(* Properties.                                                             *)

TypeOK ==
  /\ role        \in [Users -> Account \cup {Nothing}]
  /\ access      \in [Users -> Access \cup {Nothing}]
  /\ custom      \in [CustomRoles -> Account \cup {Nothing}]
  /\ application \in [Applications -> Application \cup {Nothing}]
  /\ store       \in [Users -> Categories \cup {Nothing}]
  /\ inbox       \in SUBSET Notice
  /\ req         \in [Requests -> Request]

\* Whoever is a seller has a store to sell in, and a store opened for a user is
\* a seller's: role and store come together, whatever overlaps or fails.
SellersHaveStores ==
  \A u \in Users : role[u] = "seller" <=> store[u] # Nothing

\* A user has at most one application that is open or approved, so nobody is
\* approved twice or rejected after an approval.
OneApplication ==
  \A a, b \in Applications :
    /\ application[a] # Nothing /\ application[a].status # "rejected"
    /\ application[b] # Nothing /\ application[b].status # "rejected"
    /\ application[a].user = application[b].user
    => a = b

\* Every account has an access role that exists and is of its kind, through
\* approvals, assignments, removals of roles and restarts.
AccessRoleFits ==
  \A u \in Users : role[u] # Nothing => /\ access[u] # Nothing
                                        /\ KindOf(access[u]) = role[u]

\* What an applicant was told of the verdict stays true.
ToldIsTrue ==
  \A n \in inbox : n.about \in Verdict =>
    /\ \E a \in Applications : /\ application[a] # Nothing
                               /\ application[a].user = n.to
                               /\ application[a].status = n.about
    /\ n.about = "approved" => role[n.to] = "seller"
=============================================================================
