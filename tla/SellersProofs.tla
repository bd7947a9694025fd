---------------------------- MODULE SellersProofs ----------------------------
(***************************************************************************)
(* What Sellers promises whatever the users, applications and requests are.*)
(***************************************************************************)
EXTENDS Sellers, TLAPS

\* Applications are never deleted: one that a request works on exists.
Sound(x) ==
  x.at \in {"review", "ask", "resubmit"} => application[x.application] # Nothing

RowsExist == \A r \in Requests : Sound(req[r])

Typed == TypeOK /\ RowsExist

\* A request in a given stage has the fields of that stage.
LEMMA StageType ==
  ASSUME TypeOK, NEW r \in Requests
  PROVE  /\ req[r].at = "apply" => req[r] \in [at : {"apply"}, user : Users]
         /\ req[r].at = "review" =>
              req[r] \in [at : {"review"}, application : Applications, was : Open,
                          verdict : Verdict, category : Categories]
         /\ req[r].at = "ask" =>
              req[r] \in [at : {"ask"}, application : Applications]
         /\ req[r].at = "resubmit" =>
              req[r] \in [at : {"resubmit"}, application : Applications,
                          category : Categories]
         /\ req[r].at = "enrol" =>
              req[r] \in [at : {"enrol"}, user : Users, role : Account,
                          access : Access, category : Categories]
         /\ req[r].at = "assign" =>
              req[r] \in [at : {"assign"}, user : Users, access : Access]
         /\ req[r].at = "drop" => req[r] \in [at : {"drop"}, access : CustomRoles]
         /\ req[r].at = "tell" => req[r] \in [at : {"tell"}, notice : Notice]
  BY DEF TypeOK, Request, Idle

LEMMA RowFields ==
  ASSUME TypeOK
  PROVE  /\ \A a \in Applications : application[a] # Nothing =>
              application[a] \in Application
         /\ \A u \in Users : store[u] # Nothing => store[u] \in Categories
  BY DEF TypeOK

LEMMA TellType ==
  ASSUME NEW to \in Users \cup {"admins"}, NEW about \in Status
  PROVE  Tell(to, about) \in Request /\ Sound(Tell(to, about))
<1>1. [to |-> to, about |-> about] \in Notice
  BY DEF Notice
<1> QED
  BY <1>1 DEF Tell, Request, Sound

LEMMA IdleType == Idle \in Request /\ Sound(Idle)
  BY DEF Request, Idle, Sound

\* A step that changes one request, and deletes no application.
LEMMA Moves ==
  ASSUME Typed, NEW r \in Requests, NEW x \in Request, Go(r, x), Sound(x),
         role' \in [Users -> Account \cup {Nothing}],
         access' \in [Users -> Access \cup {Nothing}],
         custom' \in [CustomRoles -> Account \cup {Nothing}],
         application' \in [Applications -> Application \cup {Nothing}],
         store' \in [Users -> Categories \cup {Nothing}],
         inbox' \in SUBSET Notice,
         \A a \in Applications : application[a] # Nothing => application'[a] # Nothing
  PROVE  Typed'
<1>1. req' \in [Requests -> Request]
  BY DEF Typed, TypeOK, Go
<1>2. TypeOK'
  BY <1>1 DEF TypeOK
<1>3. \A t \in Requests : Sound(req'[t])
  BY DEF Typed, TypeOK, RowsExist, Go
<1>4. \A t \in Requests : req'[t].at \in {"review", "ask", "resubmit"} =>
                          req'[t].application \in Applications
  BY <1>1 DEF Request, Idle
<1>5. RowsExist'
  BY <1>3, <1>4 DEF RowsExist, Sound
<1> QED
  BY <1>2, <1>5 DEF Typed

LEMMA MovesOnly ==
  ASSUME Typed, NEW r \in Requests, NEW x \in Request, Go(r, x), Sound(x),
         UNCHANGED <<role, access, custom, application, store, inbox>>
  PROVE  Typed'
  BY Moves DEF Typed, TypeOK

LEMMA TypedBegin ==
  ASSUME Typed, NEW r \in Requests, Begin(r)
  PROVE  Typed'
<1>1. ASSUME NEW u \in Users, ApplyRead(r, u)
      PROVE  Typed'
  <2>1. LET x == [at |-> "apply", user |-> u] IN x \in Request /\ Sound(x)
    BY DEF Request, Sound
  <2> QED
    BY <1>1, <2>1, MovesOnly DEF ApplyRead
<1>2. ASSUME NEW u \in Users, NEW y \in Access, AssignRead(r, u, y)
      PROVE  Typed'
  <2>1. LET x == [at |-> "assign", user |-> u, access |-> y] IN x \in Request /\ Sound(x)
    BY DEF Request, Sound
  <2> QED
    BY <1>2, <2>1, MovesOnly DEF AssignRead
<1>3. ASSUME NEW u \in Users, NEW y \in Access, NEW kind \in Account,
             NEW c \in Categories, CreateUserRead(r, u, kind, y, c)
      PROVE  Typed'
  <2>1. LET x == [at |-> "enrol", user |-> u, role |-> kind, access |-> y,
                  category |-> c] IN x \in Request /\ Sound(x)
    BY DEF Request, Sound
  <2> QED
    BY <1>3, <2>1, MovesOnly DEF CreateUserRead
<1>4. ASSUME NEW y \in CustomRoles, RemoveRoleRead(r, y)
      PROVE  Typed'
  <2>1. LET x == [at |-> "drop", access |-> y] IN x \in Request /\ Sound(x)
    BY DEF Request, Sound
  <2> QED
    BY <1>4, <2>1, MovesOnly DEF RemoveRoleRead
<1>5. ASSUME NEW a \in Applications, NEW verdict \in Verdict, ReviewRead(r, a, verdict)
      PROVE  Typed'
  <2>1. application[a] # Nothing /\ application[a] \in Application
    BY <1>5, RowFields DEF ReviewRead, Typed
  <2>2. application[a].status \in Open /\ application[a].category \in Categories
    BY <1>5, <2>1 DEF ReviewRead, Application, Open
  <2>3. LET x == [at |-> "review", application |-> a, was |-> application[a].status,
                  verdict |-> verdict, category |-> application[a].category]
        IN  x \in Request /\ Sound(x)
    BY <2>1, <2>2 DEF Request, Sound
  <2> QED
    BY <1>5, <2>3, MovesOnly DEF ReviewRead
<1>6. ASSUME NEW a \in Applications, RequestInfoRead(r, a)
      PROVE  Typed'
  <2>1. LET x == [at |-> "ask", application |-> a] IN x \in Request /\ Sound(x)
    BY <1>6 DEF Request, Sound, RequestInfoRead
  <2> QED
    BY <1>6, <2>1, MovesOnly DEF RequestInfoRead
<1>7. ASSUME NEW a \in Applications, NEW c \in Categories, ResubmitRead(r, a, c)
      PROVE  Typed'
  <2>1. LET x == [at |-> "resubmit", application |-> a, category |-> c]
        IN  x \in Request /\ Sound(x)
    BY <1>7 DEF Request, Sound, ResubmitRead
  <2> QED
    BY <1>7, <2>1, MovesOnly DEF ResubmitRead
<1> QED
  BY <1>1, <1>2, <1>3, <1>4, <1>5, <1>6, <1>7 DEF Begin

LEMMA OpenedType ==
  ASSUME TypeOK, NEW u \in Users, NEW c \in Categories
  PROVE  /\ Opened(u, c) \in [Users -> Categories \cup {Nothing}]
         /\ Opened(u, c)[u] # Nothing
         /\ \A v \in Users \ {u} : Opened(u, c)[v] = store[v]
  BY SellersAssumption DEF TypeOK, Opened

LEMMA TypedStep ==
  ASSUME Typed, NEW r \in Requests, Step(r)
  PROVE  Typed'
<1> USE DEF Typed
<1>1. ASSUME CreateUserCommit(r)
      PROVE  Typed'
  <2>1. /\ req[r].user \in Users /\ req[r].role \in Account
        /\ req[r].access \in Access /\ req[r].category \in Categories
    BY <1>1, StageType DEF CreateUserCommit
  <2>2. store' \in [Users -> Categories \cup {Nothing}]
    BY <1>1, <2>1, OpenedType DEF CreateUserCommit, TypeOK
  <2>3. /\ role' \in [Users -> Account \cup {Nothing}]
        /\ access' \in [Users -> Access \cup {Nothing}]
    BY <1>1, <2>1 DEF CreateUserCommit, TypeOK
  <2> QED
    BY <1>1, <2>2, <2>3, IdleType, Moves DEF CreateUserCommit, TypeOK
<1>2. ASSUME AssignWrite(r)
      PROVE  Typed'
  <2>1. req[r].user \in Users /\ req[r].access \in Access
    BY <1>2, StageType DEF AssignWrite
  <2>2. access' \in [Users -> Access \cup {Nothing}]
    BY <1>2, <2>1 DEF AssignWrite, TypeOK
  <2> QED
    BY <1>2, <2>2, IdleType, Moves DEF AssignWrite, TypeOK
<1>3. ASSUME RemoveRoleDelete(r)
      PROVE  Typed'
  <2>1. req[r].access \in CustomRoles
    BY <1>3, StageType DEF RemoveRoleDelete
  <2>2. /\ custom' \in [CustomRoles -> Account \cup {Nothing}]
        /\ access' \in [Users -> Access \cup {Nothing}]
    BY <1>3, <2>1 DEF RemoveRoleDelete, TypeOK
  <2> QED
    BY <1>3, <2>2, IdleType, Moves DEF RemoveRoleDelete, TypeOK
<1>4. ASSUME NEW a \in Applications, NEW c \in Categories, ApplyInsert(r, a, c)
      PROVE  Typed'
  <2> DEFINE row == [user |-> req[r].user, status |-> "pending", category |-> c]
  <2>1. row \in Application
    BY <1>4, StageType DEF ApplyInsert, Application, Status, Open
  <2>2. application' \in [Applications -> Application \cup {Nothing}]
    BY <1>4, <2>1 DEF ApplyInsert, TypeOK
  <2>3. \A b \in Applications : application[b] # Nothing => application'[b] # Nothing
    BY <1>4 DEF ApplyInsert, TypeOK
  <2>4. Tell("admins", "pending") \in Request /\ Sound(Tell("admins", "pending"))
    BY TellType DEF Status, Open
  <2> QED
    BY <1>4, <2>2, <2>3, <2>4, Moves DEF ApplyInsert, TypeOK
<1>5. ASSUME ReviewCommit(r)
      PROVE  Typed'
  <2> DEFINE q == req[r]
             a == q.application
             u == application[a].user
  <2>1. /\ a \in Applications /\ q.verdict \in Verdict /\ q.category \in Categories
        /\ application[a] \in Application
    BY <1>5, StageType, RowFields DEF ReviewCommit, RowsExist, Sound
  <2>2. u \in Users
    BY <2>1 DEF Application
  <2>3. [application[a] EXCEPT !.status = q.verdict] \in Application
    BY <2>1 DEF Application, Status
  <2>4. application' = [application EXCEPT ![a] = [@ EXCEPT !.status = q.verdict]]
    BY <1>5 DEF ReviewCommit
  <2>5. application' \in [Applications -> Application \cup {Nothing}]
    BY <2>1, <2>3, <2>4 DEF TypeOK
  <2>6. \A b \in Applications : application[b] # Nothing => application'[b] # Nothing
    BY <2>1, <2>3, <2>4, SellersAssumption DEF TypeOK
  <2>7. Tell(u, q.verdict) \in Request /\ Sound(Tell(u, q.verdict))
    BY <2>1, <2>2, TellType DEF Status
  <2>8. \/ Grant(u, q.category)
        \/ UNCHANGED <<role, access, store>>
    BY <1>5 DEF ReviewCommit
  <2>9. Opened(u, q.category) \in [Users -> Categories \cup {Nothing}]
    BY <2>1, <2>2, OpenedType
  <2>10. /\ role' \in [Users -> Account \cup {Nothing}]
         /\ access' \in [Users -> Access \cup {Nothing}]
         /\ store' \in [Users -> Categories \cup {Nothing}]
    BY <2>8, <2>9 DEF Grant, TypeOK, Account, Access
  <2> QED
    BY <1>5, <2>5, <2>6, <2>7, <2>10, Moves DEF ReviewCommit, TypeOK
<1>6. ASSUME RequestInfoWrite(r)
      PROVE  Typed'
  <2> DEFINE a == req[r].application
             row == [application[a] EXCEPT !.status = "more_info_requested"]
             x == Tell(application[a].user, "more_info_requested")
  <2>1. a \in Applications /\ application[a] \in Application
    BY <1>6, StageType, RowFields DEF RequestInfoWrite, RowsExist, Sound
  <2>2. row \in Application /\ x \in Request /\ Sound(x)
    BY <2>1, TellType DEF Application, Status, Open
  <2>3. application' = [application EXCEPT ![a] = row]
    BY <1>6 DEF RequestInfoWrite
  <2>4. application' \in [Applications -> Application \cup {Nothing}]
    BY <2>1, <2>2, <2>3 DEF TypeOK
  <2>5. \A b \in Applications : application[b] # Nothing => application'[b] # Nothing
    BY <2>1, <2>2, <2>3, SellersAssumption DEF TypeOK
  <2> QED
    BY <1>6, <2>2, <2>4, <2>5, Moves DEF RequestInfoWrite, TypeOK
<1>7. ASSUME ResubmitWrite(r)
      PROVE  Typed'
  <2> DEFINE a == req[r].application
             row == [application[a] EXCEPT !.status = "pending",
                                           !.category = req[r].category]
             x == Tell("admins", "pending")
  <2>1. a \in Applications /\ req[r].category \in Categories
        /\ application[a] \in Application
    BY <1>7, StageType, RowFields DEF ResubmitWrite, RowsExist, Sound
  <2>2. row \in Application /\ x \in Request /\ Sound(x)
    BY <2>1, TellType DEF Application, Status, Open
  <2>3. application' = [application EXCEPT ![a] = row]
    BY <1>7, <2>1 DEF ResubmitWrite, TypeOK
  <2>4. application' \in [Applications -> Application \cup {Nothing}]
    BY <2>1, <2>2, <2>3 DEF TypeOK
  <2>5. \A b \in Applications : application[b] # Nothing => application'[b] # Nothing
    BY <2>1, <2>2, <2>3, SellersAssumption DEF TypeOK
  <2> QED
    BY <1>7, <2>2, <2>4, <2>5, Moves DEF ResubmitWrite, TypeOK
<1>8. ASSUME TellStep(r)
      PROVE  Typed'
  <2>1. req[r].notice \in Notice
    BY <1>8, StageType DEF TellStep
  <2> QED
    BY <1>8, <2>1, IdleType, Moves DEF TellStep, TypeOK
<1> QED
  BY <1>1, <1>2, <1>3, <1>4, <1>5, <1>6, <1>7, <1>8 DEF Step

\* A restart may make an admin of an account that does not exist yet, no more.
LEMMA FoundedRoles ==
  ASSUME TypeOK, Restart
  PROVE  /\ role' \in [Users -> Account \cup {Nothing}]
         /\ \A u \in Users : \/ role'[u] = role[u]
                             \/ role[u] = Nothing /\ role'[u] = "admin"
  BY DEF Restart, Founded, TypeOK, Account

LEMMA TypedAtOnce ==
  ASSUME Typed, AtOnce
  PROVE  Typed'
<1>1. ASSUME NEW u \in Users, Register(u)
      PROVE  Typed'
  BY <1>1 DEF Register, Typed, TypeOK, RowsExist, Sound, Account, Access
<1>2. ASSUME NEW x \in CustomRoles, NEW kind \in Account, CreateRole(x, kind)
      PROVE  Typed'
  BY <1>2 DEF CreateRole, Typed, TypeOK, RowsExist, Sound
<1>3. ASSUME Restart
      PROVE  Typed'
  <2>1. \A t \in Requests : req'[t] = Idle
    BY <1>3 DEF Restart
  <2>2. access' \in [Users -> Access \cup {Nothing}]
    BY <1>3, FoundedRoles DEF Restart, Typed, TypeOK, Access
  <2>3. TypeOK'
    BY <1>3, <2>2, IdleType, FoundedRoles DEF Restart, Typed, TypeOK
  <2>4. RowsExist'
    BY <2>1 DEF RowsExist, Sound, Idle
  <2> QED
    BY <2>3, <2>4 DEF Typed
<1> QED
  BY <1>1, <1>2, <1>3 DEF AtOnce

LEMMA TypedInit == Init => Typed
<1> SUFFICES ASSUME Init PROVE Typed
  OBVIOUS
<1>1. \A r \in Requests : req[r] = Idle
  BY DEF Init
<1>2. TypeOK
  BY IdleType DEF Init, TypeOK
<1>3. RowsExist
  BY <1>1 DEF RowsExist, Sound, Idle
<1> QED
  BY <1>2, <1>3 DEF Typed

LEMMA TypedNext == Typed /\ [Next]_vars => Typed'
<1> SUFFICES ASSUME Typed, [Next]_vars PROVE Typed'
  OBVIOUS
<1>1. ASSUME NEW r \in Requests, Fail(r)
      PROVE  Typed'
  BY <1>1, IdleType, MovesOnly DEF Fail
<1>2. CASE UNCHANGED vars
  BY <1>2 DEF vars, Typed, TypeOK, RowsExist, Sound
<1> QED
  BY <1>1, <1>2, TypedBegin, TypedStep, TypedAtOnce DEF Next

\* Rows keep their types and the applications that requests work on exist.
THEOREM TypeCorrect == Spec => []TypeOK
<1>1. Typed => TypeOK
  BY DEF Typed
<1> QED
  BY <1>1, TypedInit, TypedNext, PTL DEF Spec

-----------------------------------------------------------------------------
(* Sellers and their stores, whatever overlaps or fails.                   *)

LEMMA ReviewTypes ==
  ASSUME Typed, NEW r \in Requests, ReviewCommit(r)
  PROVE  LET q == req[r]
             u == application[q.application].user
         IN  /\ q.application \in Applications /\ q.category \in Categories
             /\ q.was \in Open /\ q.verdict \in Verdict
             /\ application[q.application] \in Application
             /\ application[q.application].status = q.was
             /\ u \in Users
             /\ application' = [application EXCEPT
                  ![q.application] = [@ EXCEPT !.status = q.verdict]]
             /\ \/ q.verdict = "approved" /\ Grant(u, q.category)
                \/ q.verdict # "approved" /\ UNCHANGED <<role, access, store>>
             /\ Go(r, Tell(u, q.verdict))
<1>1. /\ req[r].application \in Applications /\ req[r].category \in Categories
      /\ req[r].was \in Open /\ req[r].verdict \in Verdict
      /\ application[req[r].application] \in Application
  BY StageType, RowFields DEF ReviewCommit, Typed, RowsExist, Sound
<1>2. application[req[r].application].user \in Users
  BY <1>1 DEF Application
<1> QED
  BY <1>1, <1>2 DEF ReviewCommit

LEMMA StoresStep ==
  Typed /\ SellersHaveStores /\ [Next]_vars => SellersHaveStores'
<1> SUFFICES ASSUME Typed, SellersHaveStores, [Next]_vars
             PROVE  SellersHaveStores'
  OBVIOUS
<1>1. CASE UNCHANGED <<role, store>>
  BY <1>1 DEF SellersHaveStores
<1>2. ASSUME NEW u \in Users, Register(u)
      PROVE  SellersHaveStores'
  BY <1>2, SellersAssumption DEF Register, SellersHaveStores, Typed, TypeOK, Account
<1>3. ASSUME NEW r \in Requests, CreateUserCommit(r)
      PROVE  SellersHaveStores'
  <2> DEFINE q == req[r]
  <2>1. q.user \in Users /\ q.category \in Categories /\ role[q.user] = Nothing
    BY <1>3, StageType DEF CreateUserCommit, Typed
  <2>2. \A v \in Users : role'[v] = IF v = q.user THEN q.role ELSE role[v]
    BY <1>3 DEF CreateUserCommit, Typed, TypeOK
  <2>3. store[q.user] = Nothing
    BY <2>1, SellersAssumption DEF SellersHaveStores, Account
  <2>4. CASE q.role = "seller"
    <3>1. store' = Opened(q.user, q.category)
      BY <1>3, <2>4 DEF CreateUserCommit
    <3>2. store'[q.user] # Nothing /\ \A v \in Users \ {q.user} : store'[v] = store[v]
      BY <2>1, <3>1, OpenedType DEF Typed
    <3> QED
      BY <2>2, <2>4, <3>2 DEF SellersHaveStores
  <2>5. CASE q.role # "seller"
    BY <1>3, <2>2, <2>3, <2>5 DEF CreateUserCommit, SellersHaveStores
  <2> QED
    BY <2>4, <2>5
<1>4. ASSUME NEW r \in Requests, ReviewCommit(r)
      PROVE  SellersHaveStores'
  <2> DEFINE q == req[r]
             u == application[q.application].user
  <2>1. u \in Users /\ q.category \in Categories
        /\ (Grant(u, q.category) \/ UNCHANGED <<role, access, store>>)
    BY <1>4, ReviewTypes
  <2>2. CASE Grant(u, q.category)
    <3>1. \A v \in Users : role'[v] = IF v = u THEN "seller" ELSE role[v]
      BY <2>1, <2>2 DEF Grant, Typed, TypeOK
    <3>2. /\ store'[u] # Nothing
          /\ \A v \in Users \ {u} : store'[v] = store[v]
      BY <2>1, <2>2, OpenedType DEF Grant, Typed
    <3> QED
      BY <3>1, <3>2 DEF SellersHaveStores
  <2> QED
    BY <1>1, <2>1, <2>2
<1>5. ASSUME NEW r \in Requests, Begin(r)
      PROVE  UNCHANGED <<role, store>>
  BY <1>5 DEF Begin, ApplyRead, AssignRead, CreateUserRead, RemoveRoleRead,
              ReviewRead, RequestInfoRead, ResubmitRead
<1>6. ASSUME NEW r \in Requests, Step(r)
      PROVE  \/ CreateUserCommit(r) \/ ReviewCommit(r) \/ UNCHANGED <<role, store>>
  BY <1>6 DEF Step, AssignWrite, RemoveRoleDelete, ApplyInsert,
              RequestInfoWrite, ResubmitWrite, TellStep
<1>7. ASSUME AtOnce
      PROVE  \/ \E u \in Users : Register(u)
             \/ UNCHANGED <<role, store>>
             \/ Restart
  BY <1>7 DEF AtOnce, CreateRole
<1>8. ASSUME NEW r \in Requests, Fail(r)
      PROVE  UNCHANGED <<role, store>>
  BY <1>8 DEF Fail
<1>9. CASE UNCHANGED vars
  BY <1>1, <1>9 DEF vars
<1>10. CASE Restart
  <2>1. \A u \in Users : role'[u] = "seller" <=> role[u] = "seller"
    BY <1>10, FoundedRoles, SellersAssumption DEF Typed, Account
  <2> QED
    BY <1>10, <2>1 DEF Restart, SellersHaveStores
<1> QED
  BY <1>1, <1>2, <1>3, <1>4, <1>5, <1>6, <1>7, <1>8, <1>9, <1>10 DEF Next

\* Whoever is a seller has a store, and only sellers have one opened for them,
\* whatever requests overlap or fail: review and createUser commit both at once.
THEOREM SellersGetStores == Spec => []SellersHaveStores
<1>1. Init => SellersHaveStores
  BY SellersAssumption DEF Init, SellersHaveStores, Account
<1> QED
  BY <1>1, TypedInit, TypedNext, StoresStep, PTL DEF Spec

-----------------------------------------------------------------------------
(* What holds when the reads of a request stay true.                       *)

ToldBy(n) ==
  n.about \in Verdict =>
    /\ \E a \in Applications : /\ application[a] # Nothing
                               /\ application[a].user = n.to
                               /\ application[a].status = n.about
    /\ n.about = "approved" => role[n.to] = "seller"

\* What is about to be told is true already.
AboutToTell == \A r \in Requests : req[r].at = "tell" => ToldBy(req[r].notice)

SInv == Typed /\ Fresh /\ OneApplication /\ AccessRoleFits /\ ToldIsTrue /\ AboutToTell

LEMMA FreshInit == Init => Fresh
  BY DEF Init, Fresh, Idle

\* Only the writes of the application's requests change an application, none
\* that is decided, and none's applicant.
LEMMA ApplicationSteps ==
  ASSUME Typed, Fresh, [Next]_vars
  PROVE  \/ UNCHANGED application
         \/ \E r \in Requests, a \in Applications, c \in Categories :
              ApplyInsert(r, a, c)
         \/ \E a \in Applications :
              /\ application[a] \in Application /\ application[a].status \in Open
              /\ application'[a] \in Application
              /\ application'[a].user = application[a].user
              /\ \A b \in Applications \ {a} : application'[b] = application[b]
<1> DEFINE Goal ==
      \E a \in Applications :
        /\ application[a] \in Application /\ application[a].status \in Open
        /\ application'[a] \in Application
        /\ application'[a].user = application[a].user
        /\ \A b \in Applications \ {a} : application'[b] = application[b]
<1>1. ASSUME NEW r \in Requests, ReviewCommit(r)
      PROVE  Goal
  <2> DEFINE a == req[r].application
             row == [application[a] EXCEPT !.status = req[r].verdict]
  <2>1. /\ a \in Applications /\ req[r].verdict \in Verdict
        /\ application[a] \in Application /\ application[a].status \in Open
        /\ application' = [application EXCEPT ![a] = row]
    BY <1>1, ReviewTypes
  <2>2. row \in Application /\ row.user = application[a].user
    BY <2>1 DEF Application, Status
  <2> HIDE DEF row
  <2>3. application'[a] = row /\ \A b \in Applications \ {a} : application'[b] = application[b]
    BY <2>1 DEF Typed, TypeOK
  <2> QED
    BY <2>1, <2>2, <2>3
<1>2. ASSUME NEW r \in Requests, RequestInfoWrite(r)
      PROVE  Goal
  <2> DEFINE a == req[r].application
             row == [application[a] EXCEPT !.status = "more_info_requested"]
  <2>1. /\ a \in Applications
        /\ application[a] \in Application /\ application[a].status \in Open
        /\ application' = [application EXCEPT ![a] = row]
    BY <1>2, StageType, RowFields DEF RequestInfoWrite, Typed, RowsExist, Sound, Fresh, Open
  <2>2. row \in Application /\ row.user = application[a].user
    BY <2>1 DEF Application, Status, Open
  <2> HIDE DEF row
  <2>3. application'[a] = row /\ \A b \in Applications \ {a} : application'[b] = application[b]
    BY <2>1 DEF Typed, TypeOK
  <2> QED
    BY <2>1, <2>2, <2>3
<1>3. ASSUME NEW r \in Requests, ResubmitWrite(r)
      PROVE  Goal
  <2> DEFINE a == req[r].application
             row == [application[a] EXCEPT !.status = "pending",
                                           !.category = req[r].category]
  <2>1. /\ a \in Applications /\ req[r].category \in Categories
        /\ application[a] \in Application /\ application[a].status \in Open
    BY <1>3, StageType, RowFields DEF ResubmitWrite, Typed, RowsExist, Sound, Fresh, Open
  <2>2. application' = [application EXCEPT ![a] = row]
    BY <1>3, <2>1 DEF ResubmitWrite, Typed, TypeOK
  <2>3. row \in Application /\ row.user = application[a].user
    BY <2>1 DEF Application, Status, Open
  <2> HIDE DEF row
  <2>4. application'[a] = row /\ \A b \in Applications \ {a} : application'[b] = application[b]
    BY <2>1, <2>2 DEF Typed, TypeOK
  <2> QED
    BY <2>1, <2>3, <2>4
<1> HIDE DEF Goal
<1>4. ASSUME NEW r \in Requests, Begin(r)
      PROVE  UNCHANGED application
  BY <1>4 DEF Begin, ApplyRead, AssignRead, CreateUserRead, RemoveRoleRead,
              ReviewRead, RequestInfoRead, ResubmitRead
<1>5. ASSUME NEW r \in Requests, Step(r)
      PROVE  \/ Goal \/ UNCHANGED application
             \/ \E a \in Applications, c \in Categories : ApplyInsert(r, a, c)
  BY <1>1, <1>2, <1>3, <1>5
  DEF Step, AssignWrite, RemoveRoleDelete, CreateUserCommit, TellStep
<1>6. AtOnce \/ (\E r \in Requests : Fail(r)) \/ UNCHANGED vars
        => UNCHANGED application
  BY DEF AtOnce, Register, CreateRole, Restart, Fail, vars
<1> QED
  BY <1>4, <1>5, <1>6 DEF Next, Goal

LEMMA OneStep ==
  ASSUME Typed, Fresh, OneApplication, [Next]_vars
  PROVE  OneApplication'
<1>1. CASE UNCHANGED application
  BY <1>1 DEF OneApplication
<1>2. ASSUME NEW r \in Requests, NEW a \in Applications, NEW c \in Categories,
             ApplyInsert(r, a, c)
      PROVE  OneApplication'
  <2> DEFINE u == req[r].user
  <2>1. \A b \in Applications : application[b] # Nothing /\ application[b].user = u
          => application[b].status = "rejected"
    <3>1. Unresolved(u) = {}
      BY <1>2 DEF ApplyInsert, Fresh
    <3>2. \A b \in Applications : application[b] # Nothing =>
            application[b].status \in Status
      BY RowFields DEF Typed, Application
    <3> QED
      BY <3>1, <3>2 DEF Unresolved, Status, Verdict
  <2>2. /\ application'[a].user = u
        /\ \A b \in Applications \ {a} : application'[b] = application[b]
    BY <1>2 DEF ApplyInsert, Typed, TypeOK
  <2> QED
    BY <2>1, <2>2 DEF OneApplication
<1>3. ASSUME NEW a \in Applications,
             application[a] \in Application, application[a].status \in Open,
             application'[a].user = application[a].user,
             \A b \in Applications \ {a} : application'[b] = application[b]
      PROVE  OneApplication'
  <2>1. application[a] # Nothing /\ application[a].status # "rejected"
    BY <1>3, SellersAssumption DEF Open
  <2> QED
    BY <1>3, <2>1 DEF OneApplication
<1> QED
  BY <1>1, <1>2, <1>3, ApplicationSteps

\* Access roles: what a role is for does not change while somebody holds it.
LEMMA AccessStep ==
  ASSUME Typed, Fresh, AccessRoleFits, [Next]_vars
  PROVE  AccessRoleFits'
<1>1. CASE UNCHANGED <<role, access, custom>>
  BY <1>1 DEF AccessRoleFits, KindOf
<1>2. ASSUME NEW u \in Users, Register(u)
      PROVE  AccessRoleFits'
  BY <1>2, SellersAssumption
  DEF Register, AccessRoleFits, KindOf, Typed, TypeOK, Account
<1>3. ASSUME NEW x \in CustomRoles, NEW kind \in Account, CreateRole(x, kind)
      PROVE  AccessRoleFits'
  <2>1. \A y \in Access : KindOf(y) # Nothing => KindOf(y)' = KindOf(y)
    BY <1>3 DEF CreateRole, KindOf, Typed, TypeOK, Access
  <2>2. \A u \in Users : role[u] # Nothing => access[u] \in Access
    BY DEF AccessRoleFits, Typed, TypeOK
  <2> QED
    BY <1>3, <2>1, <2>2 DEF CreateRole, AccessRoleFits, KindOf
<1>4. ASSUME Restart
      PROVE  AccessRoleFits'
  <2>1. \A u \in Users : role'[u] # Nothing /\ role[u] # Nothing
          => role'[u] = role[u] /\ access'[u] = access[u]
    BY <1>4, FoundedRoles DEF Restart, AccessRoleFits, Typed
  <2>2. \A u \in Users : role'[u] # Nothing /\ role[u] = Nothing
          => role'[u] = "admin" /\ access'[u] = "admin"
    BY <1>4, FoundedRoles DEF Restart, Typed
  <2> QED
    BY <1>4, <2>1, <2>2, SellersAssumption DEF Restart, AccessRoleFits, KindOf, Account
<1>5. ASSUME NEW r \in Requests, CreateUserCommit(r)
      PROVE  AccessRoleFits'
  <2> DEFINE q == req[r]
  <2>1. /\ q.user \in Users /\ q.role \in Account /\ q.access \in Access
        /\ KindOf(q.access) = q.role
    BY <1>5, StageType DEF CreateUserCommit, Fresh, Typed
  <2>2. \A v \in Users : /\ role'[v] = IF v = q.user THEN q.role ELSE role[v]
                         /\ access'[v] = IF v = q.user THEN q.access ELSE access[v]
    BY <1>5 DEF CreateUserCommit, Typed, TypeOK
  <2>3. q.access # Nothing
    BY <2>1, SellersAssumption DEF Access
  <2>4. custom' = custom
    BY <1>5 DEF CreateUserCommit
  <2> QED
    BY <2>1, <2>2, <2>3, <2>4 DEF AccessRoleFits, KindOf
<1>6. ASSUME NEW r \in Requests, AssignWrite(r)
      PROVE  AccessRoleFits'
  <2> DEFINE q == req[r]
  <2>1. /\ q.user \in Users /\ q.access \in Access
        /\ KindOf(q.access) = role[q.user]
    BY <1>6, StageType DEF AssignWrite, Fresh, Typed
  <2>2. \A v \in Users : access'[v] = IF v = q.user THEN q.access ELSE access[v]
    BY <1>6 DEF AssignWrite, Typed, TypeOK
  <2>3. q.access # Nothing
    BY <2>1, SellersAssumption DEF Access
  <2>4. custom' = custom /\ role' = role
    BY <1>6 DEF AssignWrite
  <2> QED
    BY <2>1, <2>2, <2>3, <2>4 DEF AccessRoleFits, KindOf
<1>7. ASSUME NEW r \in Requests, RemoveRoleDelete(r)
      PROVE  AccessRoleFits'
  <2> DEFINE x == req[r].access
  <2>1. x \in CustomRoles /\ Holders(x) = {}
    BY <1>7, StageType DEF RemoveRoleDelete, Fresh, Typed
  <2>2. \A u \in Users : access'[u] = access[u] /\ access[u] # x
    BY <1>7, <2>1 DEF RemoveRoleDelete, Holders
  <2>3. \A y \in CustomRoles \ {x} : custom'[y] = custom[y]
    BY <1>7, <2>1 DEF RemoveRoleDelete, Typed, TypeOK
  <2>4. role' = role /\ \A u \in Users : access[u] \in Access \cup {Nothing}
    BY <1>7 DEF RemoveRoleDelete, Typed, TypeOK
  <2> QED
    BY <2>2, <2>3, <2>4 DEF AccessRoleFits, KindOf, Access
<1>8. ASSUME NEW r \in Requests, ReviewCommit(r)
      PROVE  AccessRoleFits'
  <2> DEFINE u == application[req[r].application].user
             c == req[r].category
  <2>1. u \in Users /\ (Grant(u, c) \/ UNCHANGED <<role, access>>)
    BY <1>8, ReviewTypes
  <2>2. custom' = custom
    BY <1>8 DEF ReviewCommit
  <2>3. CASE Grant(u, c)
    <3>1. \A v \in Users : /\ role'[v] = IF v = u THEN "seller" ELSE role[v]
                           /\ access'[v] = IF v = u THEN "seller" ELSE access[v]
      BY <2>1, <2>3 DEF Grant, Typed, TypeOK
    <3>2. "seller" \in Account /\ "seller" # Nothing
      BY SellersAssumption DEF Account
    <3> QED
      BY <2>2, <3>1, <3>2 DEF AccessRoleFits, KindOf
  <2> QED
    BY <1>1, <2>1, <2>2, <2>3
<1>9. ASSUME NEW r \in Requests, Begin(r) \/ Fail(r)
      PROVE  UNCHANGED <<role, access, custom>>
  BY <1>9 DEF Begin, ApplyRead, AssignRead, CreateUserRead, RemoveRoleRead,
              ReviewRead, RequestInfoRead, ResubmitRead, Fail
<1>10. ASSUME NEW r \in Requests, Step(r)
       PROVE  \/ CreateUserCommit(r) \/ AssignWrite(r) \/ RemoveRoleDelete(r)
              \/ ReviewCommit(r) \/ UNCHANGED <<role, access, custom>>
  BY <1>10 DEF Step, ApplyInsert, RequestInfoWrite, ResubmitWrite, TellStep
<1>11. CASE UNCHANGED vars
  BY <1>1, <1>11 DEF vars
<1> QED
  BY <1>1, <1>2, <1>3, <1>4, <1>5, <1>6, <1>7, <1>8, <1>9, <1>10, <1>11
  DEF Next, AtOnce

\* A verdict is final, and so is what it made of the applicant.
LEMMA ToldStays ==
  ASSUME Typed, Fresh, [Next]_vars, NEW n \in Notice, ToldBy(n)
  PROVE  ToldBy(n)'
<1> SUFFICES ASSUME n.about \in Verdict
             PROVE  ToldBy(n)'
  BY DEF ToldBy
<1>1. PICK a \in Applications : /\ application[a] # Nothing
                                /\ application[a].user = n.to
                                /\ application[a].status = n.about
  BY DEF ToldBy
<1>2. application'[a] = application[a]
  <2>1. application[a].status \notin Open
    BY <1>1 DEF Open, Verdict
  <2>2. ASSUME NEW r \in Requests, NEW b \in Applications, NEW c \in Categories,
               ApplyInsert(r, b, c)
        PROVE  application'[a] = application[a]
    BY <1>1, <2>2 DEF ApplyInsert, Typed, TypeOK
  <2> QED
    BY <2>1, <2>2, ApplicationSteps
<1>3. ASSUME n.about = "approved"
      PROVE  role'[n.to] = "seller"
  <2> DEFINE u == n.to
  <2>1. u \in Users /\ role[u] = "seller"
    BY <1>1, <1>3, RowFields DEF ToldBy, Typed, Application
  <2>2. ASSUME NEW v \in Users, Register(v)
        PROVE  role'[u] = role[u]
    BY <2>1, <2>2, SellersAssumption DEF Register, Typed, TypeOK, Account
  <2>3. ASSUME NEW r \in Requests, CreateUserCommit(r)
        PROVE  role'[u] = role[u]
    BY <2>1, <2>3, SellersAssumption DEF CreateUserCommit, Typed, TypeOK, Account
  <2>4. ASSUME NEW r \in Requests, ReviewCommit(r)
        PROVE  role'[u] = "seller"
    <3>1. \/ UNCHANGED role
          \/ \E v \in Users : role' = [role EXCEPT ![v] = "seller"]
      BY <2>4, ReviewTypes DEF Grant
    <3> QED
      BY <2>1, <3>1 DEF Typed, TypeOK
  <2>5. ASSUME NEW r \in Requests, Begin(r) \/ Fail(r)
        PROVE  UNCHANGED role
    BY <2>5 DEF Begin, ApplyRead, AssignRead, CreateUserRead, RemoveRoleRead,
                ReviewRead, RequestInfoRead, ResubmitRead, Fail
  <2>6. ASSUME NEW r \in Requests, Step(r)
        PROVE  CreateUserCommit(r) \/ ReviewCommit(r) \/ UNCHANGED role
    BY <2>6 DEF Step, AssignWrite, RemoveRoleDelete, ApplyInsert,
                RequestInfoWrite, ResubmitWrite, TellStep
  <2>7. AtOnce => (\E v \in Users : Register(v)) \/ UNCHANGED role \/ Restart
    BY DEF AtOnce, CreateRole
  <2>8. Restart => role'[u] = "seller"
    BY <2>1, FoundedRoles, SellersAssumption DEF Typed, Account
  <2> QED
    BY <2>1, <2>2, <2>3, <2>4, <2>5, <2>6, <2>7, <2>8 DEF Next, vars
<1> QED
  BY <1>1, <1>2, <1>3 DEF ToldBy

\* What a review is about to tell is true from the moment it commits.
LEMMA ReviewTells ==
  ASSUME Typed, NEW r \in Requests, ReviewCommit(r), NEW n \in Notice,
         req'[r].notice = n
  PROVE  ToldBy(n)'
<1> DEFINE q == req[r]
           a == q.application
           u == application[a].user
           row == [application[a] EXCEPT !.status = q.verdict]
<1>1. /\ a \in Applications /\ application[a] \in Application /\ u \in Users
      /\ q.verdict \in Verdict
      /\ application' = [application EXCEPT ![a] = row]
      /\ q.verdict = "approved" => Grant(u, q.category)
      /\ Go(r, Tell(u, q.verdict))
  BY ReviewTypes
<1>2. n = [to |-> u, about |-> q.verdict]
  BY <1>1 DEF Go, Tell, Typed, TypeOK
<1>3. row \in Application /\ row.user = u /\ row.status = q.verdict
  BY <1>1 DEF Application, Status
<1> HIDE DEF row
<1>4. application'[a] = row /\ row # Nothing
  BY <1>1, <1>3, SellersAssumption DEF Typed, TypeOK
<1>5. q.verdict = "approved" => role'[u] = "seller"
  BY <1>1 DEF Grant, Typed, TypeOK
<1> QED
  BY <1>1, <1>2, <1>3, <1>4, <1>5 DEF ToldBy

LEMMA ToldStep ==
  ASSUME Typed, Fresh, ToldIsTrue, AboutToTell, [Next]_vars
  PROVE  ToldIsTrue' /\ AboutToTell'
<1>1. \A n \in Notice : ToldBy(n) => ToldBy(n)'
  BY ToldStays
<1>2. Typed'
  BY TypedNext
<1>3. \A n \in inbox' : n \in inbox \/ \E r \in Requests : req[r].at = "tell"
                                                       /\ n = req[r].notice
  <2>1. ASSUME NEW r \in Requests, Begin(r) \/ Fail(r)
        PROVE  UNCHANGED inbox
    BY <2>1 DEF Begin, ApplyRead, AssignRead, CreateUserRead, RemoveRoleRead,
                ReviewRead, RequestInfoRead, ResubmitRead, Fail
  <2>2. ASSUME NEW r \in Requests, Step(r)
        PROVE  TellStep(r) \/ UNCHANGED inbox
    BY <2>2 DEF Step, CreateUserCommit, AssignWrite, RemoveRoleDelete, ApplyInsert,
                ReviewCommit, RequestInfoWrite, ResubmitWrite
  <2>3. AtOnce => UNCHANGED inbox
    BY DEF AtOnce, Register, CreateRole, Restart
  <2> QED
    BY <2>1, <2>2, <2>3 DEF Next, vars, TellStep
<1>4. \A n \in inbox' : n \in Notice /\ ToldBy(n)'
  <2>1. \A n \in inbox : ToldBy(n)
    BY DEF ToldIsTrue, ToldBy
  <2>2. \A r \in Requests : req[r].at = "tell" => ToldBy(req[r].notice)
    BY DEF AboutToTell
  <2>3. inbox' \subseteq Notice
    BY <1>2 DEF Typed, TypeOK
  <2> QED
    BY <1>1, <1>3, <2>1, <2>2, <2>3
<1>5. ToldIsTrue'
  BY <1>4 DEF ToldIsTrue, ToldBy
<1>6. ASSUME NEW t \in Requests, NEW n, req'[t].at = "tell", n = req'[t].notice
      PROVE  ToldBy(n)'
  <2>1. n \in Notice
    BY <1>2, <1>6 DEF Typed, TypeOK, Request, Idle
  <2>2. CASE req'[t] = req[t]
    <3>1. ToldBy(n)
      BY <1>6, <2>2 DEF AboutToTell
    <3> QED
      BY <1>1, <2>1, <3>1
  <2>3. ASSUME n.about \notin Verdict
        PROVE  ToldBy(n)'
    BY <2>3 DEF ToldBy
  <2>4. ASSUME NEW r \in Requests, Begin(r) \/ Fail(r)
        PROVE  req'[t] = req[t]
    BY <1>6, <2>4
    DEF Begin, ApplyRead, AssignRead, CreateUserRead, RemoveRoleRead, ReviewRead,
        RequestInfoRead, ResubmitRead, Fail, Go, Idle, Typed, TypeOK
  <2>5. ASSUME NEW r \in Requests, Step(r), ~ReviewCommit(r)
        PROVE  req'[t] = req[t] \/ n.about \notin Verdict
    <3>1. \/ Go(r, Idle) \/ Go(r, Tell("admins", "pending"))
          \/ \E to : Go(r, Tell(to, "more_info_requested"))
      BY <2>5 DEF Step, CreateUserCommit, AssignWrite, RemoveRoleDelete,
                  ApplyInsert, RequestInfoWrite, ResubmitWrite, TellStep
    <3> QED
      BY <1>6, <3>1 DEF Go, Tell, Idle, Typed, TypeOK, Verdict
  <2>6. ASSUME NEW r \in Requests, ReviewCommit(r)
        PROVE  req'[t] = req[t] \/ ToldBy(n)'
    <3>1. CASE t = r
      BY <1>6, <2>1, <2>6, <3>1, ReviewTells
    <3>2. CASE t # r
      BY <2>6, <3>2, ReviewTypes DEF Go, Typed, TypeOK
    <3> QED
      BY <3>1, <3>2
  <2>7. AtOnce => req'[t] = req[t]
    BY <1>6 DEF AtOnce, Register, CreateRole, Restart, Idle
  <2> QED
    BY <2>2, <2>3, <2>4, <2>5, <2>6, <2>7 DEF Next, vars
<1>7. AboutToTell'
  BY <1>6 DEF AboutToTell
<1> QED
  BY <1>5, <1>7

LEMMA SerialInit == Init => SInv
<1> SUFFICES ASSUME Init PROVE SInv
  OBVIOUS
<1>1. OneApplication /\ AccessRoleFits /\ ToldIsTrue
  BY DEF Init, OneApplication, AccessRoleFits, ToldIsTrue
<1>2. AboutToTell
  BY DEF Init, AboutToTell, Idle
<1> QED
  BY <1>1, <1>2, TypedInit, FreshInit DEF SInv

LEMMA SerialNext == SInv /\ [Next /\ Fresh']_vars => SInv'
<1> SUFFICES ASSUME SInv, [Next /\ Fresh']_vars PROVE SInv'
  OBVIOUS
<1>1. Typed /\ Fresh /\ OneApplication /\ AccessRoleFits /\ ToldIsTrue /\ AboutToTell
  BY DEF SInv
<1>2. [Next]_vars
  OBVIOUS
<1>3. Fresh'
  <2>1. CASE UNCHANGED vars
    BY <1>1, <2>1 DEF vars, Fresh, Unresolved, KindOf, Holders
  <2> QED
    BY <2>1
<1> QED
  BY <1>1, <1>2, <1>3, TypedNext, OneStep, AccessStep, ToldStep DEF SInv

LEMMA Serial == SerialSpec => []SInv
  BY SerialInit, SerialNext, PTL DEF SerialSpec

\* Where the check of create still holds at its insert, a user has one
\* application at most that is open or approved.
THEOREM OneAtATime == SerialSpec => []OneApplication
<1>1. SInv => OneApplication
  BY DEF SInv
<1> QED
  BY <1>1, Serial, PTL

\* Every account keeps an access role that exists and is of its kind, where a
\* role is not assigned while it is removed.
THEOREM AccessFits == SerialSpec => []AccessRoleFits
<1>1. SInv => AccessRoleFits
  BY DEF SInv
<1> QED
  BY <1>1, Serial, PTL

\* A verdict an applicant was told of is the verdict on the row for good.
THEOREM VerdictsStand == SerialSpec => []ToldIsTrue
<1>1. SInv => ToldIsTrue
  BY DEF SInv
<1> QED
  BY <1>1, Serial, PTL
=============================================================================
