---------------------------- MODULE AccountProofs ----------------------------
(***************************************************************************)
(* What Account promises however many requests overlap, and what it        *)
(* promises when what requests have read is still so when they write.      *)
(***************************************************************************)
EXTENDS Account, TLAPS

-----------------------------------------------------------------------------
(* Type correctness.  A request past its start has found a row.            *)

RowExists == \A w \in Requests : req[w] # Idle => user # Nothing

Typed == TypeOK /\ RowExists

\* ... and leaves one.
TypedRow == Typed /\ user # Nothing

LEMMA TypedInit == Init => Typed
  BY DEF Init, Typed, TypeOK, RowExists, Request, Settled, Idle

\* The forms a row takes.
LEMMA OtpType ==
  /\ NoOtp \in Otp
  /\ \A c \in Codes : NewOtp(c) \in Otp
  BY DEF NoOtp, NewOtp, Otp

LEMMA UserType == NewUser \in User
  BY OtpType DEF NewUser, User

LEMMA WithOtpType ==
  ASSUME NEW u \in User, NEW k \in Kinds, NEW o \in Otp
  PROVE  [u EXCEPT !.otp[k] = o] \in User
<1>1. [u.otp EXCEPT ![k] = o] \in [Kinds -> Otp]
  BY DEF User
<1> QED
  BY <1>1 DEF User

LEMMA WithoutType ==
  ASSUME NEW u \in User, NEW k \in Kinds
  PROVE  Without(u, k) \in User
  BY WithOtpType, OtpType DEF Without

LEMMA StruckType ==
  ASSUME NEW u \in User, NEW failed \in Nat
  PROVE  Struck(u, failed) \in User
<1> DEFINE n == IF failed + 1 >= MaxFailed THEN 0 ELSE failed + 1
            l == IF failed + 1 >= MaxFailed THEN "held" ELSE "none"
<1>1. n \in Nat /\ l \in {"none", "held", "past"}
  OBVIOUS
<1>2. Struck(u, failed) = [u EXCEPT !.failed = n, !.lock = l]
  BY DEF Struck
<1> HIDE DEF n, l
<1> QED
  BY <1>1, <1>2 DEF User

LEMMA NewPasswordType ==
  ASSUME NEW u \in User
  PROVE  WithNewPassword(u) \in User
<1> DEFINE v == Without(u, "reset")
           x == [v EXCEPT !.failed = 0, !.lock = "none"]
           y == [x EXCEPT !.password = x.password + 1]
<1>1. v \in User
  BY WithoutType DEF Kinds
<1>2. x \in User
  BY <1>1 DEF User
<1> HIDE DEF x
<1>3. y \in User
  BY <1>2 DEF User
<1>4. WithNewPassword(u) = [y EXCEPT !.version = y.version + 1]
  BY <1>1 DEF WithNewPassword, User, x
<1> HIDE DEF y
<1> QED
  BY <1>3, <1>4 DEF User

LEMMA SessionOfType ==
  ASSUME NEW u \in User
  PROVE  SessionOf(u) \in Session
  BY DEF SessionOf, Session, User

LEMMA AfterLoginType ==
  ASSUME NEW u \in User
  PROVE  AfterLogin(u) \in Settled
  BY DEF AfterLogin, Settled, Session, SessionOf, Issuing, Kinds, User, Otp

\* A request that only reads.
LEMMA TypedRead ==
  ASSUME Typed, NEW w \in Requests, NEW x \in Request, Receive(w, x),
         UNCHANGED <<user, sessions, codeVars, strikes, lastReset>>
  PROVE  TypedRow'
  BY DEF TypedRow, Typed, TypeOK, RowExists, Receive, Go, codeVars

\* A request that has begun and writes.
LEMMA TypedWrite ==
  ASSUME Typed, NEW w \in Requests, NEW x \in Request, Go(w, x),
         req[w] # Idle, user \in User => user' \in User,
         UNCHANGED <<sessions, issued>>,
         mailed' \in SUBSET Codes,
         missed' \in [Codes -> Nat], redeemed' \in [Codes -> Nat],
         strikes' \in Nat, lastReset' \in Nat
  PROVE  TypedRow'
<1>1. user \in User
  BY DEF Typed, RowExists, TypeOK
<1>2. user' \in User /\ user' # Nothing
  BY <1>1, AccountAssumption
<1> QED
  BY <1>2 DEF TypedRow, Typed, TypeOK, RowExists, Go

LEMMA TypedReads ==
  ASSUME Typed, NEW w \in Requests,
         \/ ResendRead(w) \/ ForgotRead(w) \/ VerifyAgain(w)
         \/ \E k \in Kinds, right \in BOOLEAN : GuessRead(w, k, right)
         \/ LoginRight(w) \/ LoginWrong(w) \/ ChangeRead(w)
  PROVE  TypedRow'
<1>1. user # Nothing => user \in User
  BY DEF Typed, TypeOK
<1>2. CASE ResendRead(w) \/ ForgotRead(w)
  <2>1. user \in User
    BY <1>1, <1>2 DEF ResendRead, ForgotRead, Receive
  <2>2. \A k \in Kinds : Issuing(user, k) \in Request
    BY <2>1 DEF Issuing, Request, Settled, User, Otp
  <2> QED
    BY <1>2, <2>2, TypedRead DEF ResendRead, ForgotRead, Kinds
<1>3. CASE VerifyAgain(w)
  <2>1. user \in User
    BY <1>1, <1>3 DEF VerifyAgain, Receive
  <2>2. [at |-> "enter", session |-> SessionOf(user)] \in Request
    BY <2>1 DEF SessionOf, Session, User, Request, Settled
  <2> QED
    BY <1>3, <2>2, TypedRead DEF VerifyAgain
<1>4. ASSUME NEW k \in Kinds, NEW right \in BOOLEAN, GuessRead(w, k, right)
      PROVE  TypedRow'
  <2>1. user.otp[k].code \in Codes /\ user.otp[k].attempts \in Nat
    BY <1>1, <1>4 DEF GuessRead, MayGuess, Receive, User, Otp
  <2>2. [at |-> IF right THEN "redeem" ELSE "miss", kind |-> k,
         code |-> user.otp[k].code, attempts |-> user.otp[k].attempts] \in Request
    BY <2>1 DEF Request
  <2> QED
    BY <1>4, <2>2, TypedRead DEF GuessRead
<1>5. CASE LoginRight(w)
  <2>1. AfterLogin(user) \in Settled
    BY <1>1, <1>5, AfterLoginType DEF LoginRight, Receive
  <2>2. (IF user.failed > 0 \/ user.lock # "none"
         THEN [at |-> "clear", then |-> AfterLogin(user)]
         ELSE AfterLogin(user)) \in Request
    BY <2>1 DEF Request
  <2> QED
    BY <1>5, <2>2, TypedRead DEF LoginRight
<1>6. CASE LoginWrong(w)
  <2>1. [at |-> "wrong", failed |-> user.failed] \in Request
    BY <1>1, <1>6 DEF LoginWrong, Receive, User, Request
  <2> QED
    BY <1>6, <2>1, TypedRead DEF LoginWrong
<1>7. CASE ChangeRead(w)
  <2>1. [at |-> "change"] \in Request
    BY DEF Request
  <2> QED
    BY <1>7, <2>1, TypedRead DEF ChangeRead
<1> QED
  BY <1>2, <1>3, <1>4, <1>5, <1>6, <1>7

LEMMA TypedWrites ==
  ASSUME Typed, NEW w \in Requests,
         \/ Post(w) \/ PostFails(w) \/ GuessMissed(w) \/ VerifyWrite(w)
         \/ ResetWrite(w) \/ LoginClear(w) \/ LoginStrike(w)
         \/ ChangeWrite(w) \/ Fail(w)
  PROVE  TypedRow'
<1> USE DEF codeVars
<1>1. /\ req[w] \in Request /\ Idle \in Request
      /\ mailed \in SUBSET Codes /\ issued \in SUBSET Codes
      /\ missed \in [Codes -> Nat] /\ redeemed \in [Codes -> Nat]
      /\ strikes \in Nat /\ lastReset \in Nat
      /\ MaxAttempts \in Nat /\ MaxFailed \in Nat
  BY AccountAssumption DEF Typed, TypeOK, Request, Settled
<1>2. CASE PostFails(w)
  <2>1. user \in User => user' \in User
    BY <1>2, WithoutType DEF PostFails, Kinds
  <2> QED
    BY <1>1, <1>2, <2>1, TypedWrite DEF PostFails, Idle
<1>3. CASE GuessMissed(w)
  <2>1. req[w].kind \in Kinds /\ req[w].code \in Codes
    BY <1>1, <1>3 DEF GuessMissed, Request, Settled, Idle
  <2>2. ASSUME user \in User  PROVE user' \in User
    <3>1. user.otp[req[w].kind] \in Otp
      BY <2>1, <2>2 DEF User
    <3>2. [user.otp[req[w].kind] EXCEPT !.attempts = @ + 1] \in Otp
      BY <3>1 DEF Otp
    <3>3. user' = [user EXCEPT !.otp[req[w].kind] =
                     [user.otp[req[w].kind] EXCEPT !.attempts = @ + 1]]
      BY <1>3, <2>1, <2>2 DEF GuessMissed, User
    <3> QED
      BY <2>1, <2>2, <3>2, <3>3, WithOtpType
  <2>3. missed' \in [Codes -> Nat]
    BY <1>1, <1>3, <2>1 DEF GuessMissed
  <2> QED
    BY <1>1, <1>3, <2>2, <2>3, TypedWrite DEF GuessMissed, Idle
<1>4. CASE VerifyWrite(w)
  <2> DEFINE u == [Without(user, "verify") EXCEPT !.verified = TRUE]
  <2>1. req[w].code \in Codes
    BY <1>1, <1>4 DEF VerifyWrite, Request, Settled, Idle
  <2>2. u \in User
    <3>1. user \in User
      BY <1>4 DEF VerifyWrite, Typed, RowExists, TypeOK, Idle
    <3>2. Without(user, "verify") \in User
      BY <3>1, WithoutType DEF Kinds
    <3> QED
      BY <3>2 DEF User
  <2>3. redeemed' \in [Codes -> Nat]
    BY <1>1, <1>4, <2>1 DEF VerifyWrite
  <2>4. user' = u /\ Go(w, [at |-> "enter", session |-> SessionOf(u)])
    BY <1>4 DEF VerifyWrite
  <2> HIDE DEF u
  <2>5. [at |-> "enter", session |-> SessionOf(u)] \in Request
    BY <2>2, SessionOfType DEF Request, Settled
  <2> QED
    <3>1. UNCHANGED <<sessions, issued, mailed, missed, strikes, lastReset>>
      BY <1>4 DEF VerifyWrite
    <3>2. req[w] # Idle
      BY <1>4 DEF VerifyWrite, Idle
    <3> QED
      BY <1>1, <2>2, <2>3, <2>4, <2>5, <3>1, <3>2, TypedWrite
<1>5. CASE ResetWrite(w)
  <2>1. req[w].code \in Codes
    BY <1>1, <1>5 DEF ResetWrite, Request, Settled, Idle
  <2>2. user \in User
    BY <1>5 DEF ResetWrite, Typed, RowExists, TypeOK, Idle
  <2>3. user' \in User
    BY <1>5, <2>2, NewPasswordType DEF ResetWrite
  <2>4. redeemed' \in [Codes -> Nat] /\ lastReset' \in Nat
    BY <1>1, <1>5, <2>1, <2>2 DEF ResetWrite, User
  <2> QED
    BY <1>1, <1>5, <2>3, <2>4, TypedWrite DEF ResetWrite, Idle
<1>6. CASE LoginClear(w)
  <2>1. req[w].then \in Request
    BY <1>1, <1>6 DEF LoginClear, Request, Settled, Idle
  <2>2. user \in User => user' \in User
    BY <1>6 DEF LoginClear, User
  <2> QED
    BY <1>1, <1>6, <2>1, <2>2, TypedWrite DEF LoginClear, Idle
<1>7. CASE LoginStrike(w)
  <2>1. req[w].failed \in Nat
    BY <1>1, <1>7 DEF LoginStrike, Request, Settled, Idle
  <2>2. user \in User => user' \in User
    BY <1>7, <2>1, StruckType DEF LoginStrike
  <2> QED
    BY <1>1, <1>7, <2>2, TypedWrite DEF LoginStrike, Idle
<1>8. CASE ChangeWrite(w)
  <2>1. user \in User => user' \in User
    BY <1>8 DEF ChangeWrite, User
  <2> QED
    BY <1>1, <1>8, <2>1, TypedWrite DEF ChangeWrite, Idle
<1>9. CASE Fail(w)
  BY <1>1, <1>9, TypedWrite DEF Fail
<1>10. CASE Post(w)
  <2>1. req[w].code \in Codes
    BY <1>1, <1>10 DEF Post, Request, Settled, Idle
  <2>2. mailed' \in SUBSET Codes
    BY <1>1, <1>10, <2>1 DEF Post
  <2> QED
    BY <1>1, <1>10, <2>2, TypedWrite DEF Post, Idle
<1> QED
  BY <1>2, <1>3, <1>4, <1>5, <1>6, <1>7, <1>8, <1>9, <1>10

LEMMA TypedOutside ==
  ASSUME Typed,
         \/ SetSuspended \/ AssignAccessRole \/ Unlock
         \/ \E k \in Kinds : Age(k)
  PROVE  TypedRow'
<1> USE DEF codeVars
<1>1. user \in User
  BY DEF SetSuspended, AssignAccessRole, Unlock, Age, Typed, TypeOK
<1>2. ASSUME NEW k \in Kinds, Age(k)  PROVE user' \in User
  <2> DEFINE a == IF user.otp[k].age = "fresh" THEN "live" ELSE "expired"
  <2>1. user.otp[k] \in Otp
    BY <1>1 DEF User
  <2>2. [user.otp[k] EXCEPT !.age = a] \in Otp
    BY <2>1 DEF Otp
  <2>3. user' = [user EXCEPT !.otp[k] = [user.otp[k] EXCEPT !.age = a]]
    BY <1>1, <1>2 DEF Age, User
  <2> QED
    BY <1>1, <2>2, <2>3, WithOtpType
<1>3. user' \in User
  <2>1. CASE SetSuspended
    BY <1>1, <2>1 DEF SetSuspended, User
  <2>2. CASE AssignAccessRole
    BY <1>1, <2>2 DEF AssignAccessRole, User
  <2>3. CASE Unlock
    BY <1>1, <2>3 DEF Unlock, User
  <2> QED
    BY <1>2, <2>1, <2>2, <2>3
<1>4. strikes' \in Nat
  BY DEF SetSuspended, AssignAccessRole, Unlock, Age, Typed, TypeOK
<1> QED
  BY <1>3, <1>4, AccountAssumption
  DEF SetSuspended, AssignAccessRole, Unlock, Age, TypedRow, Typed, TypeOK, RowExists

LEMMA TypedRest ==
  ASSUME Typed,
         \/ \E w \in Requests, c \in Codes : Register(w, c) \/ IssueWrite(w, c)
         \/ \E w \in Requests : Enter(w)
         \/ CreateUser \/ Refresh
  PROVE  Typed'
<1> USE DEF codeVars
<1>1. user # Nothing => user \in User
  BY DEF Typed, TypeOK
<1>2. ASSUME NEW w \in Requests, NEW c \in Codes, Register(w, c)  PROVE Typed'
  <2>1. user' \in User
    <3>1. NewUser \in User /\ NewOtp(c) \in Otp /\ "verify" \in Kinds
      BY UserType, OtpType DEF Kinds
    <3> QED
      BY <1>2, <3>1, WithOtpType DEF Register
  <2>2. user' # Nothing
    BY <2>1, AccountAssumption
  <2>3. [at |-> "post", kind |-> "verify", code |-> c] \in Request
    BY DEF Request, Kinds
  <2> QED
    BY <1>2, <2>1, <2>2, <2>3 DEF Register, Go, Typed, TypeOK, RowExists
<1>3. ASSUME NEW w \in Requests, NEW c \in Codes, IssueWrite(w, c)  PROVE Typed'
  <2>1. user \in User /\ req[w] \in Request
    BY <1>1, <1>3 DEF IssueWrite, Typed, TypeOK, RowExists, Idle
  <2>2. req[w].kind \in Kinds
    BY <1>3, <2>1 DEF IssueWrite, Request, Settled, Idle
  <2>3. user' \in User
    BY <1>3, <2>1, <2>2, WithOtpType, OtpType DEF IssueWrite
  <2>4. user' # Nothing
    BY <2>3, AccountAssumption
  <2>5. [at |-> "post", kind |-> req[w].kind, code |-> c] \in Request
    BY <2>2 DEF Request
  <2> QED
    BY <1>3, <2>3, <2>4, <2>5 DEF IssueWrite, Go, Typed, TypeOK, RowExists
<1>4. ASSUME NEW w \in Requests, Enter(w)  PROVE Typed'
  <2>1. req[w] \in Request /\ user # Nothing
    BY <1>4 DEF Enter, Typed, TypeOK, RowExists, Idle
  <2>2. req[w].session \in Session
    BY <1>4, <2>1 DEF Enter, Request, Settled, Idle
  <2>3. Idle \in Request
    BY DEF Request, Settled
  <2> QED
    BY <1>4, <2>1, <2>2, <2>3 DEF Enter, Go, Typed, TypeOK, RowExists
<1>5. CASE CreateUser
  <2>1. user' \in User
    BY <1>5, UserType DEF CreateUser, User
  <2> QED
    BY <1>5, <2>1, AccountAssumption DEF CreateUser, Typed, TypeOK, RowExists
<1>6. CASE Refresh
  <2>1. sessions' \in SUBSET Session
    BY <1>1, <1>6 DEF Refresh, Accepted, Session, User, Typed, TypeOK
  <2> QED
    BY <1>6, <2>1 DEF Refresh, Typed, TypeOK, RowExists
<1> QED
  BY <1>2, <1>3, <1>4, <1>5, <1>6

LEMMA TypedStep == Typed /\ [Next]_vars => Typed'
<1> SUFFICES ASSUME Typed, [Next]_vars  PROVE Typed'
  OBVIOUS
<1>1. CASE UNCHANGED vars
  BY <1>1 DEF vars, codeVars, Typed, TypeOK, RowExists
<1>2. ASSUME NEW w \in Requests, Step(w)  PROVE Typed'
  BY <1>2, TypedReads, TypedWrites, TypedRest DEF Step, TypedRow
<1> QED
  BY <1>1, <1>2, TypedRest, TypedOutside DEF Next, TypedRow

\* The account, its codes, its sessions and the requests keep their types.
THEOREM TypeCorrect == Spec => []TypeOK
<1>1. Typed => TypeOK
  BY DEF Typed
<1> QED
  BY <1>1, TypedInit, TypedStep, PTL DEF Spec

-----------------------------------------------------------------------------
(* Sessions and resets.  SessionsEndWithReset is not inductive: a login    *)
(* carries the session it will give from the row it has read, so sessions  *)
(* still under way must be as good as those given, and none may run ahead  *)
(* of the row's version.                                                   *)

Good(s) == /\ s.version <= user.version
           /\ s.version = user.version => s.password >= lastReset

Carries(q, s) == \/ q.at = "enter" /\ s = q.session
                 \/ q.at = "clear" /\ q.then.at = "enter" /\ s = q.then.session

SessionInv ==
  /\ Typed
  /\ user = Nothing => sessions = {} /\ lastReset = 0
  /\ user # Nothing => user.password >= lastReset
  /\ \A s \in sessions : Good(s)
  /\ \A w \in Requests, s \in Session : Carries(req[w], s) => Good(s)

LEMMA SessionInit == Init => SessionInv
  BY TypedInit DEF Init, SessionInv, Carries, Idle

\* A row that keeps its version, whose password and last reset stay in order.
LEMMA GoodStays ==
  ASSUME SessionInv, user # Nothing, Typed', user' # Nothing,
         user'.version = user.version, lastReset' = lastReset,
         user'.password >= user.password,
         \A s \in sessions' : s \in sessions \/ Good(s),
         \A w \in Requests, s \in Session :
           Carries(req'[w], s) => Carries(req[w], s) \/ Good(s)
  PROVE  SessionInv'
<1>1. user \in User /\ user' \in User /\ lastReset \in Nat
  BY DEF SessionInv, Typed, TypeOK
<1>2. user'.password >= lastReset'
  BY <1>1 DEF SessionInv, User
<1>3. \A s : Good(s) => Good(s)'
  BY DEF Good
<1> QED
  BY <1>2, <1>3 DEF SessionInv

\* A row that goes on to the next version, in order.
LEMMA GoodAfterBump ==
  ASSUME SessionInv, user # Nothing, Typed', user' # Nothing,
         user'.version = user.version + 1,
         user'.password >= lastReset',
         sessions' = sessions,
         \A w \in Requests, s \in Session :
           Carries(req'[w], s) => Carries(req[w], s)
  PROVE  SessionInv'
<1>1. user \in User /\ user' \in User /\ lastReset \in Nat
  BY DEF SessionInv, Typed, TypeOK
<1>2. \A s \in Session : Good(s) => Good(s)'
  BY <1>1 DEF Good, User, Session
<1>3. sessions \subseteq Session
  BY DEF SessionInv, Typed, TypeOK
<1> QED
  BY <1>2, <1>3 DEF SessionInv

\* A session made from the row as it is.
LEMMA NewIsGood ==
  ASSUME SessionInv, user # Nothing
  PROVE  Good(SessionOf(user))
  BY DEF SessionInv, Typed, TypeOK, User, Good, SessionOf

LEMMA SessionReads ==
  ASSUME SessionInv, Typed', NEW w \in Requests,
         \/ ResendRead(w) \/ ForgotRead(w) \/ VerifyAgain(w)
         \/ \E k \in Kinds, right \in BOOLEAN : GuessRead(w, k, right)
         \/ LoginRight(w) \/ LoginWrong(w) \/ ChangeRead(w)
  PROVE  SessionInv'
<1>1. /\ user # Nothing /\ UNCHANGED <<user, sessions, lastReset>>
      /\ \A v \in Requests : v # w => req'[v] = req[v]
  <2>1. req \in [Requests -> Request]
    BY DEF SessionInv, Typed, TypeOK
  <2>2. CASE ResendRead(w) \/ ForgotRead(w) \/ VerifyAgain(w) \/ ChangeRead(w)
    BY <2>1, <2>2 DEF ResendRead, ForgotRead, VerifyAgain, ChangeRead, Receive, Go
  <2>3. CASE LoginRight(w) \/ LoginWrong(w)
    BY <2>1, <2>3 DEF LoginRight, LoginWrong, Receive, Go
  <2>4. CASE \E k \in Kinds, right \in BOOLEAN : GuessRead(w, k, right)
    BY <2>1, <2>4 DEF GuessRead, Receive, Go
  <2> QED
    BY <2>2, <2>3, <2>4
<1>2. req \in [Requests -> Request] /\ user \in User
  BY <1>1 DEF SessionInv, Typed, TypeOK
<1>3. \A s : Carries(req'[w], s) => s = SessionOf(user)
  <2>1. CASE ResendRead(w) \/ ForgotRead(w)
    BY <1>2, <2>1 DEF ResendRead, ForgotRead, Receive, Go, Issuing, Carries
  <2>2. CASE VerifyAgain(w)
    BY <1>2, <2>2 DEF VerifyAgain, Receive, Go, Carries
  <2>3. ASSUME NEW k \in Kinds, NEW right \in BOOLEAN, GuessRead(w, k, right)
        PROVE  \A s : Carries(req'[w], s) => s = SessionOf(user)
    BY <1>2, <2>3 DEF GuessRead, Receive, Go, Carries
  <2>4. CASE LoginRight(w)
    <3>1. \A s : Carries(AfterLogin(user), s) => s = SessionOf(user)
      BY DEF AfterLogin, Carries, Issuing, Idle
    <3>2. \/ req'[w] = AfterLogin(user)
          \/ req'[w] = [at |-> "clear", then |-> AfterLogin(user)]
      BY <1>2, <2>4 DEF LoginRight, Receive, Go
    <3>3. \A s : /\ req'[w] = [at |-> "clear", then |-> AfterLogin(user)]
                /\ Carries(req'[w], s)
                => s = SessionOf(user)
      BY DEF AfterLogin, Carries, Issuing, Idle
    <3> QED
      BY <3>1, <3>2, <3>3
  <2>5. CASE LoginWrong(w) \/ ChangeRead(w)
    BY <1>2, <2>5 DEF LoginWrong, ChangeRead, Receive, Go, Carries
  <2> QED
    BY <2>1, <2>2, <2>3, <2>4, <2>5
<1> QED
  BY <1>1, <1>2, <1>3, NewIsGood, GoodStays DEF User

LEMMA SessionWrites ==
  ASSUME SessionInv, Typed', NEW w \in Requests,
         \/ Post(w) \/ PostFails(w) \/ GuessMissed(w) \/ VerifyWrite(w)
         \/ LoginClear(w) \/ LoginStrike(w) \/ ChangeWrite(w) \/ Fail(w)
         \/ Enter(w) \/ \E c \in Codes : IssueWrite(w, c)
  PROVE  SessionInv'
<1>1. user # Nothing /\ user \in User /\ req \in [Requests -> Request]
  <2>1. CASE PostFails(w) \/ GuessMissed(w) \/ VerifyWrite(w) \/ LoginClear(w)
    BY <2>1 DEF PostFails, GuessMissed, VerifyWrite, LoginClear, Idle,
                SessionInv, Typed, TypeOK, RowExists
  <2>2. CASE LoginStrike(w) \/ ChangeWrite(w) \/ Post(w) \/ Fail(w) \/ Enter(w)
    BY <2>2 DEF LoginStrike, ChangeWrite, Post, Fail, Enter, Idle,
                SessionInv, Typed, TypeOK, RowExists
  <2>3. CASE \E c \in Codes : IssueWrite(w, c)
    BY <2>3 DEF IssueWrite, Idle, SessionInv, Typed, TypeOK, RowExists
  <2> QED
    BY <2>1, <2>2, <2>3
<1>2. user' # Nothing
  <2>1. CASE Enter(w) \/ \E c \in Codes : IssueWrite(w, c)
    <3>1. CASE Enter(w)
      BY <1>1, <3>1 DEF Enter
    <3>2. ASSUME NEW c \in Codes, IssueWrite(w, c)  PROVE user' # Nothing
      <4>1. req'[w] # Idle
        BY <1>1, <3>2 DEF IssueWrite, Go, Idle
      <4> QED
        BY <4>1 DEF Typed, RowExists
    <3> QED
      BY <2>1, <3>1, <3>2
  <2> QED
    BY <2>1, TypedWrites DEF TypedRow, SessionInv
<1>3. lastReset' = lastReset /\ \A v \in Requests : v # w => req'[v] = req[v]
  <2>1. CASE PostFails(w) \/ GuessMissed(w) \/ VerifyWrite(w) \/ LoginClear(w)
    BY <1>1, <2>1 DEF PostFails, GuessMissed, VerifyWrite, LoginClear, Go
  <2>2. CASE LoginStrike(w) \/ ChangeWrite(w) \/ Post(w) \/ Fail(w) \/ Enter(w)
    BY <1>1, <2>2 DEF LoginStrike, ChangeWrite, Post, Fail, Enter, Go
  <2>3. CASE \E c \in Codes : IssueWrite(w, c)
    BY <1>1, <2>3 DEF IssueWrite, Go
  <2> QED
    BY <2>1, <2>2, <2>3
<1>4. user'.version = user.version /\ user'.password >= user.password
  <2> USE <1>1 DEF User
  <2>1. CASE PostFails(w)
    BY <2>1 DEF PostFails, Without
  <2>2. CASE GuessMissed(w)
    BY <2>2 DEF GuessMissed
  <2>3. CASE VerifyWrite(w)
    BY <2>3 DEF VerifyWrite, Without
  <2>4. CASE LoginClear(w)
    BY <2>4 DEF LoginClear
  <2>5. CASE LoginStrike(w)
    BY <2>5 DEF LoginStrike, Struck
  <2>6. CASE ChangeWrite(w)
    BY <2>6 DEF ChangeWrite
  <2>7. CASE \E c \in Codes : IssueWrite(w, c)
    BY <2>7 DEF IssueWrite
  <2>8. CASE Post(w) \/ Fail(w) \/ Enter(w)
    BY <2>8 DEF Post, Fail, Enter
  <2> QED
    BY <2>1, <2>2, <2>3, <2>4, <2>5, <2>6, <2>7, <2>8
<1>5. \A s \in sessions' : s \in sessions \/ Good(s)
  <2>1. CASE Enter(w)
    <3>1. req[w].session \in Session
      BY <1>1, <2>1 DEF Enter, Request, Settled, Idle
    <3>2. Good(req[w].session)
      BY <2>1, <3>1 DEF Enter, SessionInv, Carries
    <3> QED
      BY <2>1, <3>2 DEF Enter
  <2>2. CASE ~Enter(w)
    BY <2>2 DEF Post, PostFails, GuessMissed, VerifyWrite, LoginClear,
                LoginStrike, ChangeWrite, Fail, IssueWrite
  <2> QED
    BY <2>1, <2>2
<1>6. \A s \in Session : Carries(req'[w], s) => Carries(req[w], s) \/ Good(s)
  <2>1. CASE LoginClear(w)
    <3>1. req[w].then \in Settled
      BY <1>1, <2>1 DEF LoginClear, Request, Settled, Idle
    <3>2. req'[w] = req[w].then /\ req[w].at = "clear"
      BY <1>1, <2>1 DEF LoginClear, Go
    <3> QED
      BY <3>1, <3>2 DEF Carries, Settled, Idle
  <2>2. CASE VerifyWrite(w)
    <3> DEFINE u == [Without(user, "verify") EXCEPT !.verified = TRUE]
    <3>1. SessionOf(u) = SessionOf(user)
      BY <1>1 DEF SessionOf, Without, User
    <3>2. req'[w] = [at |-> "enter", session |-> SessionOf(u)]
      BY <1>1, <2>2 DEF VerifyWrite, Go
    <3> QED
      BY <1>1, <3>1, <3>2, NewIsGood DEF Carries
  <2>3. CASE \/ Post(w) \/ PostFails(w) \/ GuessMissed(w) \/ LoginStrike(w)
             \/ ChangeWrite(w) \/ Fail(w) \/ Enter(w)
    <3>1. req'[w] = Idle
      BY <1>1, <2>3 DEF Go, Post, PostFails, GuessMissed, LoginStrike,
                        ChangeWrite, Fail, Enter
    <3> QED
      BY <3>1 DEF Carries, Idle
  <2>4. ASSUME NEW c \in Codes, IssueWrite(w, c)
        PROVE  req'[w].at = "post"
    BY <1>1, <2>4 DEF IssueWrite, Go
  <2>5. CASE \E c \in Codes : IssueWrite(w, c)
    BY <2>4, <2>5 DEF Carries
  <2> QED
    BY <2>1, <2>2, <2>3, <2>5
<1> QED
  BY <1>1, <1>2, <1>3, <1>4, <1>5, <1>6, GoodStays

\* A reset: every session there is falls behind the row's version.
LEMMA SessionReset ==
  ASSUME SessionInv, Typed', NEW w \in Requests, ResetWrite(w)
  PROVE  SessionInv'
<1>1. user # Nothing /\ user \in User /\ req \in [Requests -> Request]
  BY DEF ResetWrite, Idle, SessionInv, Typed, TypeOK, RowExists
<1>2. user' # Nothing
  BY TypedWrites DEF SessionInv, TypedRow
<1>3. user'.version = user.version + 1 /\ user'.password >= lastReset'
  BY <1>1 DEF ResetWrite, WithNewPassword, Without, User
<1>4. /\ sessions' = sessions
      /\ \A v \in Requests, s \in Session : Carries(req'[v], s) => Carries(req[v], s)
  BY <1>1 DEF ResetWrite, Go, Carries, Idle
<1> QED
  BY <1>1, <1>2, <1>3, <1>4, GoodAfterBump

LEMMA SessionOutside ==
  ASSUME SessionInv, Typed',
         \/ SetSuspended \/ AssignAccessRole \/ Unlock
         \/ \E k \in Kinds : Age(k)
  PROVE  SessionInv'
<1>1. /\ user # Nothing /\ user \in User
      /\ UNCHANGED <<sessions, lastReset, req>>
  BY DEF SetSuspended, AssignAccessRole, Unlock, Age, SessionInv, Typed, TypeOK
<1>2. user' # Nothing
  BY TypedOutside DEF SessionInv, TypedRow
<1>3. CASE AssignAccessRole
  <2>1. user'.version = user.version + 1 /\ user'.password >= lastReset'
    BY <1>1, <1>3 DEF AssignAccessRole, User, SessionInv
  <2> QED
    BY <1>1, <1>2, <2>1, GoodAfterBump
<1>4. CASE SetSuspended \/ Unlock \/ \E k \in Kinds : Age(k)
  <2>1. user'.version = user.version /\ user'.password >= user.password
    BY <1>1, <1>4 DEF SetSuspended, Unlock, Age, User
  <2> QED
    BY <1>1, <1>2, <2>1, GoodStays
<1> QED
  BY <1>3, <1>4

\* An account begins without sessions.
LEMMA SessionBegin ==
  ASSUME SessionInv, Typed', CreateUser \/ \E w \in Requests, c \in Codes : Register(w, c)
  PROVE  SessionInv'
<1>1. /\ user = Nothing /\ sessions' = {} /\ lastReset' = 0
      /\ \A w \in Requests : req[w] = Idle
  BY DEF CreateUser, Register, SessionInv, Typed, RowExists
<1>2. user' # Nothing => user'.password >= 0
  BY DEF Typed, TypeOK, User
<1>3. \A w \in Requests, s \in Session : ~Carries(req'[w], s)
  <2>1. req \in [Requests -> Request]
    BY DEF SessionInv, Typed, TypeOK
  <2>2. CASE CreateUser
    BY <1>1, <2>2 DEF CreateUser, Carries, Idle
  <2>3. ASSUME NEW v \in Requests, NEW c \in Codes, Register(v, c)
        PROVE  \A w \in Requests, s \in Session : ~Carries(req'[w], s)
    BY <1>1, <2>1, <2>3 DEF Register, Go, Carries, Idle
  <2> QED
    BY <2>2, <2>3
<1> QED
  BY <1>1, <1>2, <1>3 DEF SessionInv

LEMMA SessionRefresh ==
  ASSUME SessionInv, Typed', Refresh
  PROVE  SessionInv'
<1>1. /\ user # Nothing /\ user \in User
      /\ UNCHANGED <<user, lastReset, req>>
  BY DEF Refresh, Accepted, SessionInv, Typed, TypeOK
<1>2. \A s \in sessions' : s \in sessions \/ Good(s)
  <2>1. PICK s \in sessions : /\ Accepted(s)
                             /\ sessions' = sessions \cup {[s EXCEPT !.version = user.version]}
    BY DEF Refresh
  <2>2. s \in Session
    BY DEF SessionInv, Typed, TypeOK
  <2>3. [s EXCEPT !.version = user.version] = s
    BY <2>1, <2>2 DEF Accepted, Session
  <2> QED
    BY <2>1, <2>3
<1> QED
  BY <1>1, <1>2, GoodStays DEF User

LEMMA SessionStep == SessionInv /\ [Next]_vars => SessionInv'
<1> SUFFICES ASSUME SessionInv, [Next]_vars  PROVE SessionInv'
  OBVIOUS
<1>1. Typed'
  BY TypedStep DEF SessionInv
<1>2. CASE UNCHANGED vars
  BY <1>1, <1>2 DEF vars, SessionInv, Good
<1>3. ASSUME NEW w \in Requests, Step(w)  PROVE SessionInv'
  BY <1>1, <1>3, SessionReads, SessionWrites, SessionReset, SessionBegin DEF Step
<1> QED
  BY <1>1, <1>2, <1>3, SessionOutside, SessionBegin, SessionRefresh DEF Next

\* However logins, refreshes, resets and role changes overlap, no session that
\* was given before the last reset is accepted after it.
THEOREM ResetsEndSessions == Spec => []SessionsEndWithReset
<1>1. SessionInv => SessionsEndWithReset
  BY DEF SessionInv, SessionsEndWithReset, Good, Accepted
<1> QED
  BY <1>1, SessionInit, SessionStep, PTL DEF Spec
-----------------------------------------------------------------------------
(* The lockout, when what requests have read is still so when they write.  *)

\* The counter of the row is of the wrong passwords since the last lock.
StrikesCount ==
  /\ user = Nothing => strikes = 0
  /\ user # Nothing =>
       IF user.lock = "held" THEN strikes = MaxFailed /\ user.failed = 0
       ELSE strikes = user.failed /\ user.failed < MaxFailed

LEMMA FreshInit == Init => Fresh
<1> SUFFICES ASSUME Init, NEW w \in Requests  PROVE FreshRequest(req[w])
  BY DEF Fresh
<1>1. req[w].at = "idle"
  BY DEF Init, Idle
<1> QED
  BY <1>1 DEF FreshRequest

\* A row of which another column is written.
LEMMA StrikesKept ==
  ASSUME StrikesCount, user # Nothing, user' # Nothing,
         user'.failed = user.failed, user'.lock = user.lock, strikes' = strikes
  PROVE  StrikesCount'
  BY DEF StrikesCount

LEMMA StrikesStep ==
  ASSUME Typed, Typed', Fresh, StrikesCount, Next
  PROVE  StrikesCount'
<1>1. /\ MaxFailed \in Nat \ {0}
      /\ user = Nothing \/ user \in User
      /\ \A w \in Requests : req[w].at # "idle" => user # Nothing
  BY AccountAssumption DEF Typed, TypeOK, RowExists, Idle
<1>2. ASSUME UNCHANGED <<user, strikes>> PROVE StrikesCount'
  BY <1>2 DEF StrikesCount
<1>3. ASSUME user = Nothing, user' # Nothing, user'.failed = 0,
             user'.lock = "none", strikes' = strikes
      PROVE  StrikesCount'
  BY <1>1, <1>3 DEF StrikesCount
<1>4. ASSUME user # Nothing, user' # Nothing, user'.failed = 0,
             user'.lock # "held", strikes' = 0
      PROVE  StrikesCount'
  BY <1>1, <1>4 DEF StrikesCount
<1>5. ASSUME NEW w \in Requests, NEW c \in Codes, Register(w, c)
      PROVE  StrikesCount'
  <2>1. user' \in User /\ user' # Nothing
    <3>1. user' \in User
      BY <1>5, UserType, OtpType, WithOtpType DEF Register, Kinds
    <3> QED
      BY <3>1, AccountAssumption
  <2> QED
    BY <1>3, <1>5, <2>1 DEF Register, NewUser
<1>6. CASE CreateUser
  <2>1. user' \in User /\ user' # Nothing
    BY <1>6, UserType, AccountAssumption DEF CreateUser, User
  <2> QED
    BY <1>3, <1>6, <2>1 DEF CreateUser, NewUser
<1>7. ASSUME NEW w \in Requests, NEW c \in Codes, IssueWrite(w, c)
      PROVE  StrikesCount'
  <2>1. user # Nothing /\ user \in User
    BY <1>1, <1>7 DEF IssueWrite
  <2>2. user' # Nothing
    BY <1>7, TypedRest, AccountAssumption, <2>1 DEF IssueWrite, Typed, RowExists, Go, TypeOK, Idle
  <2> QED
    BY <1>7, <2>1, <2>2, StrikesKept DEF IssueWrite, User
<1>8. ASSUME NEW w \in Requests, PostFails(w) \/ GuessMissed(w) \/ VerifyWrite(w)
                                 \/ ChangeWrite(w)
      PROVE  StrikesCount'
  <2>1. user # Nothing /\ user \in User
    BY <1>1, <1>8 DEF PostFails, GuessMissed, VerifyWrite, ChangeWrite
  <2>2. user' # Nothing
    BY <1>8, TypedWrites DEF TypedRow
  <2>3. user'.failed = user.failed /\ user'.lock = user.lock /\ strikes' = strikes
    BY <1>8, <2>1
       DEF PostFails, GuessMissed, VerifyWrite, ChangeWrite, Without, User
  <2> QED
    BY <2>1, <2>2, <2>3, StrikesKept
<1>9. ASSUME NEW w \in Requests, ResetWrite(w) \/ LoginClear(w)
      PROVE  StrikesCount'
  <2>1. user # Nothing /\ user \in User
    BY <1>1, <1>9 DEF ResetWrite, LoginClear
  <2>2. user' # Nothing
    BY <1>9, TypedWrites DEF TypedRow
  <2>3. user'.failed = 0 /\ user'.lock = "none" /\ strikes' = 0
    BY <1>9, <2>1 DEF ResetWrite, LoginClear, WithNewPassword, Without, User
  <2> QED
    BY <1>4, <2>1, <2>2, <2>3
<1>10. ASSUME NEW w \in Requests, LoginStrike(w) PROVE StrikesCount'
  <2>1. user # Nothing /\ user \in User
    BY <1>1, <1>10 DEF LoginStrike
  <2>2. user' # Nothing
    BY <1>10, TypedWrites DEF TypedRow
  <2>3. user.failed = req[w].failed /\ user.lock # "held"
    BY <1>10 DEF LoginStrike, Fresh, FreshRequest
  <2>4. strikes = user.failed /\ user.failed < MaxFailed /\ user.failed \in Nat
    BY <2>1, <2>3 DEF StrikesCount, User
  <2>5. /\ user'.failed = IF user.failed + 1 >= MaxFailed THEN 0 ELSE user.failed + 1
        /\ user'.lock = IF user.failed + 1 >= MaxFailed THEN "held" ELSE "none"
        /\ strikes' = strikes + 1
    BY <1>10, <2>1, <2>3 DEF LoginStrike, Struck, User
  <2> QED
    BY <1>1, <2>2, <2>4, <2>5 DEF StrikesCount
<1>11. CASE SetSuspended \/ AssignAccessRole \/ \E k \in Kinds : Age(k)
  <2>1. user # Nothing /\ user \in User
    BY <1>1, <1>11 DEF SetSuspended, AssignAccessRole, Age
  <2>2. user' # Nothing
    BY <1>11, TypedOutside DEF TypedRow
  <2>3. user'.failed = user.failed /\ user'.lock = user.lock /\ strikes' = strikes
    BY <1>11, <2>1 DEF SetSuspended, AssignAccessRole, Age, User
  <2> QED
    BY <2>1, <2>2, <2>3, StrikesKept
<1>12. CASE Unlock
  <2>1. user # Nothing /\ user \in User /\ user.lock = "held"
    BY <1>1, <1>12 DEF Unlock
  <2>2. user' # Nothing
    BY <1>12, TypedOutside DEF TypedRow
  <2>3. user'.failed = 0 /\ user'.lock = "past" /\ strikes' = 0
    BY <1>12, <2>1 DEF Unlock, User, StrikesCount
  <2> QED
    BY <1>4, <2>1, <2>2, <2>3
<1>13. ASSUME NEW w \in Requests,
              \/ ResendRead(w) \/ ForgotRead(w) \/ Post(w) \/ VerifyAgain(w)
              \/ \E k \in Kinds, right \in BOOLEAN : GuessRead(w, k, right)
              \/ LoginRight(w) \/ LoginWrong(w) \/ Enter(w) \/ ChangeRead(w)
              \/ Fail(w)
       PROVE  StrikesCount'
  BY <1>2, <1>13 DEF ResendRead, ForgotRead, Post, VerifyAgain, GuessRead,
     LoginRight, LoginWrong, Enter, ChangeRead, Fail
<1>14. CASE Refresh
  BY <1>2, <1>14 DEF Refresh
<1> QED
  BY <1>5, <1>6, <1>7, <1>8, <1>9, <1>10, <1>11, <1>12, <1>13, <1>14 DEF Next, Step

LEMMA SerialStrikes ==
  Typed /\ Fresh /\ StrikesCount /\ [Next /\ Fresh']_vars
    => Typed' /\ Fresh' /\ StrikesCount'
<1> SUFFICES ASSUME Typed, Fresh, StrikesCount, [Next /\ Fresh']_vars
             PROVE  Typed' /\ Fresh' /\ StrikesCount'
  OBVIOUS
<1>1. Typed'
  BY TypedStep
<1>2. CASE UNCHANGED vars
  BY <1>1, <1>2 DEF vars, StrikesCount, Fresh, FreshRequest
<1> QED
  BY <1>1, <1>2, StrikesStep

\* If no request writes a counter that has moved on, the account is locked after
\* exactly the wrong passwords the code allows, and none is tried while it is.
THEOREM LocksExactly == SerialSpec => []LockoutIsExact
<1>1. Init => Typed /\ Fresh /\ StrikesCount
  BY TypedInit, FreshInit, AccountAssumption DEF Init, StrikesCount
<1>2. Typed /\ StrikesCount => LockoutIsExact
  BY AccountAssumption DEF Typed, TypeOK, User, StrikesCount, LockoutIsExact
<1> QED
  BY <1>1, <1>2, SerialStrikes, PTL DEF SerialSpec
-----------------------------------------------------------------------------
(* The codes, when what requests have read is still so when they write.    *)

\* Who is about to count a wrong code has read fewer than the code allows.
GuessesLeft ==
  \A w \in Requests : req[w].at = "miss" => req[w].attempts < MaxAttempts

\* A stored code is not redeemed, and its counter is of what was compared with it.
Unspent(o) == o.code # Nothing =>
  o.code \in issued /\ redeemed[o.code] = 0 /\ missed[o.code] = o.attempts

SpentInv ==
  /\ CodesAreSpent /\ GuessesLeft
  /\ \A c \in Codes \ issued : redeemed[c] = 0 /\ missed[c] = 0
  /\ user # Nothing =>
       /\ \A k \in Kinds : Unspent(user.otp[k])
       /\ user.otp["verify"].code = user.otp["reset"].code
            => user.otp["reset"].code = Nothing

LEMMA GuessesLeftGo ==
  ASSUME Typed, GuessesLeft, NEW w \in Requests, NEW x, Go(w, x),
         x.at = "miss" => x.attempts < MaxAttempts
  PROVE  GuessesLeft'
  BY DEF Typed, TypeOK, GuessesLeft, Go

\* The only step that begins to count a wrong code has read the counter.
LEMMA GuessesLeftStep ==
  ASSUME Typed, GuessesLeft, Next
  PROVE  GuessesLeft'
<1>1. ASSUME NEW w \in Requests, NEW k \in Kinds, NEW right \in BOOLEAN,
             GuessRead(w, k, right)
      PROVE  GuessesLeft'
  <2> DEFINE x == [at |-> IF right THEN "redeem" ELSE "miss", kind |-> k,
                   code |-> user.otp[k].code, attempts |-> user.otp[k].attempts]
  <2>1. Go(w, x) /\ x.attempts < MaxAttempts
    BY <1>1 DEF GuessRead, Receive, MayGuess
  <2> HIDE DEF x
  <2> QED
    BY <2>1, GuessesLeftGo
<1>2. ASSUME NEW w \in Requests, NEW c \in Codes, Register(w, c) \/ IssueWrite(w, c)
      PROVE  GuessesLeft'
  <2>1. PICK x : Go(w, x) /\ x.at = "post"
    BY <1>2 DEF Register, IssueWrite
  <2> QED
    BY <2>1, GuessesLeftGo
<1>3. ASSUME NEW w \in Requests,
             \/ ResendRead(w) \/ ForgotRead(w) \/ VerifyAgain(w) \/ VerifyWrite(w)
             \/ LoginWrong(w) \/ ChangeRead(w)
      PROVE  GuessesLeft'
  <2>1. PICK x : Go(w, x) /\ x.at \in {"issue", "enter", "wrong", "change"}
    BY <1>3 DEF ResendRead, ForgotRead, VerifyAgain, VerifyWrite, LoginWrong,
       ChangeRead, Receive, Issuing
  <2> QED
    BY <2>1, GuessesLeftGo
<1>4. ASSUME NEW w \in Requests,
             \/ Post(w) \/ PostFails(w) \/ GuessMissed(w) \/ ResetWrite(w)
             \/ LoginStrike(w) \/ Enter(w) \/ ChangeWrite(w) \/ Fail(w)
      PROVE  GuessesLeft'
  <2>1. Go(w, Idle)
    BY <1>4 DEF Post, PostFails, GuessMissed, ResetWrite, LoginStrike, Enter,
       ChangeWrite, Fail
  <2> QED
    BY <2>1, GuessesLeftGo DEF Idle
<1>5. ASSUME NEW w \in Requests, LoginRight(w)  PROVE GuessesLeft'
  <2>1. AfterLogin(user).at # "miss"
    BY DEF AfterLogin, Issuing, Idle
  <2>2. PICK x : Go(w, x) /\ x.at # "miss"
    BY <1>5, <2>1 DEF LoginRight, Receive
  <2> QED
    BY <2>2, GuessesLeftGo
<1>6. ASSUME NEW w \in Requests, LoginClear(w)  PROVE GuessesLeft'
  <2>1. req[w].then \in Settled
    BY <1>6 DEF LoginClear, Typed, TypeOK, Request, Settled, Idle
  <2>2. req[w].then.at # "miss"
    BY <2>1 DEF Settled, Idle
  <2> QED
    BY <1>6, <2>2, GuessesLeftGo DEF LoginClear
<1>7. CASE \/ CreateUser \/ Refresh \/ SetSuspended \/ AssignAccessRole \/ Unlock
           \/ \E k \in Kinds : Age(k)
  BY <1>7 DEF CreateUser, Refresh, SetSuspended, AssignAccessRole, Unlock, Age,
     GuessesLeft
<1> QED
  BY <1>1, <1>2, <1>3, <1>4, <1>5, <1>6, <1>7 DEF Next, Step

\* A step that counts, issues and redeems no code, and at most takes one back.
LEMMA SpentKept ==
  ASSUME SpentInv, GuessesLeft', user # Nothing, user' # Nothing,
         UNCHANGED <<issued, missed, redeemed>>,
         \A k \in Kinds :
           \/ user'.otp[k].code = Nothing
           \/ /\ user'.otp[k].code = user.otp[k].code
              /\ user'.otp[k].attempts = user.otp[k].attempts
  PROVE  SpentInv'
<1>1. \A k \in Kinds : Unspent(user.otp[k])
  BY DEF SpentInv
<1>2. \A k \in Kinds : Unspent(user.otp[k])'
  BY <1>1 DEF Unspent
<1> QED
  BY <1>2 DEF SpentInv, CodesAreSpent, Kinds

\* A code that was never issued is stored, in place of one of its kind.
LEMMA SpentIssue ==
  ASSUME Typed, SpentInv, GuessesLeft', NEW k \in Kinds, NEW j \in Kinds,
         Kinds = {k, j}, k # j,
         user' # Nothing, NEW c \in Codes \ issued,
         user'.otp[k] = NewOtp(c),
         \/ user # Nothing /\ user'.otp[j] = user.otp[j]
         \/ user'.otp[j] = NoOtp,
         issued' = issued \cup {c}, UNCHANGED <<missed, redeemed>>
  PROVE  SpentInv'
<1>1. c # Nothing /\ redeemed[c] = 0 /\ missed[c] = 0
  BY AccountAssumption DEF SpentInv
<1>2. Unspent(user.otp[k])'
  BY <1>1 DEF Unspent, NewOtp
<1>3. Unspent(user.otp[j])' /\ user'.otp[j].code # c
  BY <1>1 DEF Unspent, NoOtp, SpentInv
<1>4. user'.otp[k].code = c
  BY DEF NewOtp
<1>5. user'.otp["verify"].code # user'.otp["reset"].code
  BY <1>3, <1>4 DEF Kinds
<1>6. \A i \in Kinds : Unspent(user.otp[i])'
  BY <1>2, <1>3
<1> QED
  BY <1>5, <1>6 DEF SpentInv, CodesAreSpent

\* What a request that compared a code goes by, if it is still so.
LEMMA GuessIsFresh ==
  ASSUME Typed, Fresh, SpentInv, NEW w \in Requests,
         req[w].at \in {"miss", "redeem"}
  PROVE  /\ user # Nothing /\ user \in User
         /\ req[w].kind \in Kinds /\ req[w].code \in Codes
         /\ req[w].code # Nothing /\ req[w].attempts \in Nat
         /\ user.otp[req[w].kind].code = req[w].code
         /\ user.otp[req[w].kind].attempts = req[w].attempts
         /\ redeemed[req[w].code] = 0
         /\ missed[req[w].code] = req[w].attempts
<1>1. req[w].kind \in Kinds /\ req[w].code \in Codes /\ req[w].attempts \in Nat
  BY DEF Typed, TypeOK, Request, Settled, Idle
<1>2. user # Nothing /\ user \in User
  BY DEF Typed, RowExists, TypeOK, Idle
<1>3. /\ user.otp[req[w].kind].code = req[w].code
      /\ user.otp[req[w].kind].attempts = req[w].attempts
  BY DEF Fresh, FreshRequest
<1>4. Unspent(user.otp[req[w].kind])
  BY <1>1, <1>2 DEF SpentInv
<1> QED
  BY <1>1, <1>2, <1>3, <1>4, AccountAssumption DEF Unspent

LEMMA SpentMiss ==
  ASSUME Typed, Typed', Fresh, SpentInv, GuessesLeft', user' # Nothing,
         NEW w \in Requests, GuessMissed(w)
  PROVE  SpentInv'
<1>0. PICK k \in Kinds, c \in Codes : k = req[w].kind /\ c = req[w].code
  BY GuessIsFresh DEF GuessMissed, VerifyWrite, ResetWrite
<1>1. /\ user # Nothing /\ user \in User /\ k \in Kinds /\ c \in Codes
      /\ c # Nothing /\ user.otp[k].code = c /\ redeemed[c] = 0
      /\ missed[c] = user.otp[k].attempts /\ missed[c] = req[w].attempts
      /\ req[w].attempts \in Nat
  BY <1>0, GuessIsFresh DEF GuessMissed
<1>2. missed[c] < MaxAttempts /\ MaxAttempts \in Nat
  BY <1>1, AccountAssumption DEF GuessMissed, SpentInv, GuessesLeft
<1>3. /\ missed' = [missed EXCEPT ![c] = @ + 1] /\ missed \in [Codes -> Nat]
      /\ UNCHANGED <<issued, redeemed>>
  BY <1>0 DEF GuessMissed, Typed, TypeOK
<1>4. /\ user'.otp[k].code = c /\ user'.otp[k].attempts = missed[c] + 1
      /\ \A j \in Kinds \ {k} : user'.otp[j] = user.otp[j]
  BY <1>0, <1>1 DEF GuessMissed, User, Otp
<1>5. \A j \in Kinds \ {k} : user.otp[j].code # c
  BY <1>1 DEF SpentInv, Kinds
<1>6. Unspent(user.otp[k])'
  BY <1>1, <1>3, <1>4 DEF SpentInv, Unspent
<1>7. ASSUME NEW j \in Kinds \ {k}  PROVE Unspent(user.otp[j])'
  <2>1. user'.otp[j] = user.otp[j] /\ user.otp[j].code # c /\ Unspent(user.otp[j])
    BY <1>1, <1>4, <1>5 DEF SpentInv
  <2>2. user.otp[j].code # Nothing => user.otp[j].code \in Codes
    BY <1>1 DEF User, Otp
  <2> QED
    BY <1>3, <2>1, <2>2 DEF Unspent
<1>8. CodesAreSpent'
  BY <1>1, <1>2, <1>3 DEF SpentInv, CodesAreSpent
<1>9. \A d \in (Codes \ issued)' : (redeemed[d] = 0 /\ missed[d] = 0)'
  <2>1. c \in issued
    BY <1>1 DEF SpentInv, Unspent
  <2> QED
    BY <1>3, <2>1 DEF SpentInv
<1>10. user'.otp["verify"].code = user.otp["verify"].code
       /\ user'.otp["reset"].code = user.otp["reset"].code
  BY <1>1, <1>4 DEF Kinds
<1> QED
  BY <1>1, <1>6, <1>7, <1>8, <1>9, <1>10 DEF SpentInv

LEMMA SpentRedeem ==
  ASSUME Typed, Typed', Fresh, SpentInv, GuessesLeft', user' # Nothing,
         NEW w \in Requests, VerifyWrite(w) \/ ResetWrite(w)
  PROVE  SpentInv'
<1>0. PICK k \in Kinds, c \in Codes : k = req[w].kind /\ c = req[w].code
  BY GuessIsFresh DEF GuessMissed, VerifyWrite, ResetWrite
<1>1. /\ user # Nothing /\ user \in User /\ k \in Kinds /\ c \in Codes
      /\ c # Nothing /\ user.otp[k].code = c /\ redeemed[c] = 0
  BY <1>0, GuessIsFresh DEF VerifyWrite, ResetWrite
<1>2. /\ redeemed' = [redeemed EXCEPT ![c] = @ + 1] /\ redeemed \in [Codes -> Nat]
      /\ UNCHANGED <<issued, missed>>
  BY <1>0 DEF VerifyWrite, ResetWrite, Typed, TypeOK
<1>3. /\ user'.otp[k].code = Nothing
      /\ \A j \in Kinds \ {k} : user'.otp[j] = user.otp[j]
  <2>1. CASE VerifyWrite(w)
    BY <1>0, <1>1, <2>1 DEF VerifyWrite, Without, NoOtp, User
  <2>2. CASE ResetWrite(w)
    BY <1>0, <1>1, <2>2 DEF ResetWrite, WithNewPassword, Without, NoOtp, User
  <2> QED
    BY <2>1, <2>2
<1>4. \A j \in Kinds \ {k} : user.otp[j].code # c
  BY <1>1 DEF SpentInv, Kinds
<1>5. Unspent(user.otp[k])'
  BY <1>3 DEF Unspent
<1>6. ASSUME NEW j \in Kinds \ {k}  PROVE Unspent(user.otp[j])'
  <2>1. user'.otp[j] = user.otp[j] /\ user.otp[j].code # c /\ Unspent(user.otp[j])
    BY <1>1, <1>3, <1>4 DEF SpentInv
  <2>2. user.otp[j].code # Nothing => user.otp[j].code \in Codes
    BY <1>1 DEF User, Otp
  <2> QED
    BY <1>2, <2>1, <2>2 DEF Unspent
<1>7. CodesAreSpent'
  BY <1>1, <1>2 DEF SpentInv, CodesAreSpent
<1>8. \A d \in (Codes \ issued)' : (redeemed[d] = 0 /\ missed[d] = 0)'
  <2>1. c \in issued
    BY <1>1 DEF SpentInv, Unspent
  <2> QED
    BY <1>2, <2>1 DEF SpentInv
<1>9. user'.otp["verify"].code = user'.otp["reset"].code
        => user'.otp["reset"].code = Nothing
  BY <1>1, <1>3 DEF Kinds
<1> QED
  BY <1>1, <1>5, <1>6, <1>7, <1>8, <1>9 DEF SpentInv

LEMMA SpentStep ==
  ASSUME Typed, Typed', Fresh, SpentInv, Next
  PROVE  SpentInv'
<1>1. GuessesLeft'
  BY GuessesLeftStep DEF SpentInv
<1>2. /\ user = Nothing \/ user \in User
      /\ \A w \in Requests : req[w].at # "idle" => user # Nothing
  BY DEF Typed, TypeOK, RowExists, Idle
<1>3. ASSUME NEW w \in Requests, NEW c \in Codes, Register(w, c)  PROVE SpentInv'
  <2>1. NewUser.otp = [k \in Kinds |-> NoOtp]
        /\ user' = [NewUser EXCEPT !.otp["verify"] = NewOtp(c)]
    BY <1>3 DEF Register, NewUser
  <2>2. user' \in User /\ user' # Nothing
    BY <2>1, UserType, OtpType, WithOtpType, AccountAssumption DEF Kinds
  <2>3. user'.otp["verify"] = NewOtp(c) /\ user'.otp["reset"] = NoOtp
    BY <2>1 DEF NewUser, Kinds
  <2> QED
    BY <1>1, <1>3, <2>2, <2>3, SpentIssue DEF Register, Kinds
<1>4. CASE CreateUser
  <2>1. /\ user' = [NewUser EXCEPT !.verified = TRUE]
        /\ UNCHANGED <<issued, missed, redeemed>>
    BY <1>4 DEF CreateUser, codeVars
  <2>2. \A k \in Kinds : user'.otp[k] = NoOtp
    BY <2>1 DEF NewUser
  <2>3. \A k \in Kinds : Unspent(user.otp[k])'
    BY <2>2 DEF Unspent, NoOtp
  <2> QED
    BY <1>1, <2>1, <2>2, <2>3 DEF SpentInv, CodesAreSpent, Kinds, NoOtp
<1>5. ASSUME NEW w \in Requests, NEW c \in Codes, IssueWrite(w, c)  PROVE SpentInv'
  <2>1. req[w].kind \in Kinds
    BY <1>5 DEF IssueWrite, Typed, TypeOK, Request, Settled, Idle
  <2>2. PICK j \in Kinds : Kinds = {req[w].kind, j} /\ req[w].kind # j
    BY <2>1 DEF Kinds
  <2>3. user # Nothing /\ user \in User
    BY <1>2, <1>5 DEF IssueWrite
  <2>4. user' \in User /\ user' # Nothing
    BY <1>5, <2>1, <2>3, OtpType, WithOtpType, AccountAssumption DEF IssueWrite
  <2>5. user'.otp[req[w].kind] = NewOtp(c) /\ user'.otp[j] = user.otp[j]
    BY <1>5, <2>1, <2>2, <2>3 DEF IssueWrite, User
  <2>6. issued' = issued \cup {c} /\ c \notin issued /\ UNCHANGED <<missed, redeemed>>
    BY <1>5 DEF IssueWrite
  <2> QED
    BY <1>1, <2>1, <2>2, <2>3, <2>4, <2>5, <2>6, SpentIssue
<1>6. ASSUME NEW w \in Requests,
             GuessMissed(w) \/ VerifyWrite(w) \/ ResetWrite(w)
      PROVE  SpentInv'
  <2>1. user' # Nothing
    BY <1>6, TypedWrites DEF TypedRow
  <2> QED
    BY <1>1, <1>6, <2>1, SpentMiss, SpentRedeem
<1>7. ASSUME NEW w \in Requests,
             PostFails(w) \/ LoginClear(w) \/ LoginStrike(w) \/ ChangeWrite(w)
      PROVE  SpentInv'
  <2>1. user # Nothing /\ user \in User
    BY <1>2, <1>7 DEF PostFails, LoginClear, LoginStrike, ChangeWrite
  <2>2. user' # Nothing
    BY <1>7, TypedWrites DEF TypedRow
  <2>3. UNCHANGED <<issued, missed, redeemed>>
    BY <1>7 DEF PostFails, LoginClear, LoginStrike, ChangeWrite, codeVars
  <2>4. \A k \in Kinds : user'.otp[k] = user.otp[k] \/ user'.otp[k].code = Nothing
    <3>1. CASE PostFails(w)
      BY <2>1, <3>1 DEF PostFails, Without, NoOtp, User
    <3>2. CASE LoginClear(w) \/ LoginStrike(w) \/ ChangeWrite(w)
      BY <2>1, <3>2 DEF LoginClear, LoginStrike, Struck, ChangeWrite, User
    <3> QED
      BY <1>7, <3>1, <3>2
  <2> QED
    BY <1>1, <2>1, <2>2, <2>3, <2>4, SpentKept
<1>8. CASE SetSuspended \/ AssignAccessRole \/ Unlock \/ \E k \in Kinds : Age(k)
  <2>1. user # Nothing /\ user \in User
    BY <1>2, <1>8 DEF SetSuspended, AssignAccessRole, Unlock, Age
  <2>2. user' # Nothing
    BY <1>8, TypedOutside DEF TypedRow
  <2>3. UNCHANGED <<issued, missed, redeemed>>
    BY <1>8 DEF SetSuspended, AssignAccessRole, Unlock, Age, codeVars
  <2>4. \A k \in Kinds : /\ user'.otp[k].code = user.otp[k].code
                         /\ user'.otp[k].attempts = user.otp[k].attempts
    BY <1>8, <2>1 DEF SetSuspended, AssignAccessRole, Unlock, Age, User, Otp
  <2> QED
    BY <1>1, <2>1, <2>2, <2>3, <2>4, SpentKept
<1>9. ASSUME UNCHANGED <<user, issued, missed, redeemed>>  PROVE SpentInv'
  BY <1>1, <1>9 DEF SpentInv, CodesAreSpent, Unspent
<1>10. ASSUME NEW w \in Requests,
              \/ ResendRead(w) \/ ForgotRead(w) \/ Post(w) \/ VerifyAgain(w)
              \/ \E k \in Kinds, right \in BOOLEAN : GuessRead(w, k, right)
              \/ LoginRight(w) \/ LoginWrong(w) \/ Enter(w) \/ ChangeRead(w)
              \/ Fail(w)
       PROVE  SpentInv'
  BY <1>9, <1>10 DEF ResendRead, ForgotRead, Post, VerifyAgain, GuessRead,
     LoginRight, LoginWrong, Enter, ChangeRead, Fail, codeVars
<1>11. CASE Refresh
  BY <1>9, <1>11 DEF Refresh, codeVars
<1> QED
  BY <1>3, <1>4, <1>5, <1>6, <1>7, <1>8, <1>10, <1>11 DEF Next, Step

LEMMA SerialSpent ==
  Typed /\ Fresh /\ SpentInv /\ [Next /\ Fresh']_vars
    => Typed' /\ Fresh' /\ SpentInv'
<1> SUFFICES ASSUME Typed, Fresh, SpentInv, [Next /\ Fresh']_vars
             PROVE  Typed' /\ Fresh' /\ SpentInv'
  OBVIOUS
<1>1. Typed'
  BY TypedStep
<1>2. CASE UNCHANGED vars
  BY <1>1, <1>2 DEF vars, codeVars, SpentInv, CodesAreSpent, GuessesLeft, Unspent,
     Fresh, FreshRequest
<1> QED
  BY <1>1, <1>2, SpentStep

\* If no request writes for a code that is another by now, no one-time code is
\* redeemed twice or compared with more wrong ones than the limit.
THEOREM CodesWorkOnce == SerialSpec => []CodesAreSpent
<1>1. Init => SpentInv
  BY AccountAssumption DEF Init, SpentInv, CodesAreSpent, GuessesLeft, Idle
<1>2. SpentInv => CodesAreSpent
  BY DEF SpentInv
<1> QED
  BY <1>1, <1>2, TypedInit, FreshInit, SerialSpent, PTL DEF SerialSpec
-----------------------------------------------------------------------------
(* What reached the owner, in the same executions.                         *)

\* A request about to replace a code has seen that its cooldown is over.
CooledDown(x) == x.at = "issue" =>
  /\ x.over \in issued \cup {Nothing}
  /\ user.otp[x.kind].code = x.over => user.otp[x.kind].age # "fresh"

\* What is being posted is stored, and has not reached the owner.
Posting(q) == q.at = "post" =>
  /\ user.otp[q.kind].code = q.code
  /\ q.code \in issued \ mailed

PostInv ==
  /\ mailed \subseteq issued
  /\ \A w \in Requests :
       /\ CooledDown(req[w])
       /\ req[w].at = "clear" => CooledDown(req[w].then)
       /\ req[w].at = "redeem" => req[w].code \in mailed
       /\ Posting(req[w])
  /\ \A w, v \in Requests :
       req[w].at = "post" /\ req[v].at = "post" /\ req[w].kind = req[v].kind => w = v

\* A request that has nothing to do with mail.
Plain(x) == x.at \notin {"issue", "clear", "redeem", "post"}

LEMMA GoOnly ==
  ASSUME Typed, NEW w \in Requests, NEW x, Go(w, x)
  PROVE  req'[w] = x /\ \A v \in Requests \ {w} : req'[v] = req[v]
  BY DEF Typed, TypeOK, Go

\* A step of w that stores no code and takes none back.
LEMMA PostKept ==
  ASSUME PostInv, NEW w \in Requests,
         \A v \in Requests \ {w} : req'[v] = req[v],
         UNCHANGED <<issued, mailed>>,
         \A k \in Kinds : /\ user'.otp[k].code = user.otp[k].code
                          /\ user'.otp[k].age = "fresh" => user.otp[k].age = "fresh",
         \A v \in Requests :
           /\ req[v].at \in {"issue", "post"} => req[v].kind \in Kinds
           /\ req[v].at = "clear" /\ req[v].then.at = "issue"
                => req[v].then.kind \in Kinds,
         \/ req'[w] = req[w]
         \/ Plain(req'[w])
         \/ req'[w].at = "issue" /\ CooledDown(req[w])'
         \/ req'[w].at = "clear" /\ CooledDown(req[w].then)'
         \/ req'[w].at = "redeem" /\ req'[w].code \in mailed
  PROVE  PostInv'
<1>1. ASSUME NEW v \in Requests, req'[v] = req[v]
      PROVE  (/\ CooledDown(req[v])
              /\ req[v].at = "clear" => CooledDown(req[v].then)
              /\ req[v].at = "redeem" => req[v].code \in mailed
              /\ Posting(req[v]))'
  BY <1>1 DEF PostInv, CooledDown, Posting
<1>2. ASSUME req'[w] # req[w]
      PROVE  (/\ CooledDown(req[w])
              /\ req[w].at = "clear" => CooledDown(req[w].then)
              /\ req[w].at = "redeem" => req[w].code \in mailed
              /\ Posting(req[w])
              /\ req[w].at # "post")'
  BY <1>2 DEF Plain, CooledDown, Posting
<1>3. \A v \in Requests : req'[v] = req[v] \/ v = w
  OBVIOUS
<1>4. ASSUME NEW v \in Requests, NEW u \in Requests, req'[v].at = "post",
             req'[u].at = "post", req'[v].kind = req'[u].kind
      PROVE  v = u
  BY <1>2, <1>3, <1>4 DEF PostInv
<1>5. (mailed \subseteq issued)'
  BY DEF PostInv
<1> QED
  BY <1>1, <1>2, <1>3, <1>4, <1>5 DEF PostInv

LEMMA KindsOf ==
  ASSUME Typed, NEW v \in Requests
  PROVE  /\ req[v].at \in {"issue", "post", "redeem", "miss"} => req[v].kind \in Kinds
         /\ req[v].at \in {"post", "redeem"} => req[v].code \in Codes
         /\ req[v].at = "clear" => req[v].then \in Settled
         /\ req[v].at = "clear" /\ req[v].then.at = "issue"
              => req[v].then.kind \in Kinds
<1>1. req[v] \in Request
  BY DEF Typed, TypeOK
<1>2. req[v].at = "clear" => req[v].then \in Settled
  BY <1>1 DEF Request, Settled, Idle
<1>3. req[v].at = "clear" /\ req[v].then.at = "issue" => req[v].then.kind \in Kinds
  BY <1>2 DEF Settled, Idle
<1>4. /\ req[v].at \in {"issue", "post", "redeem", "miss"} => req[v].kind \in Kinds
      /\ req[v].at \in {"post", "redeem"} => req[v].code \in Codes
  BY <1>1 DEF Request, Settled, Idle
<1> QED
  BY <1>2, <1>3, <1>4

\* Requests that only read, and those that write other columns.
LEMMA PostQuiet ==
  ASSUME Typed, SpentInv, PostInv, NEW w \in Requests,
         \/ VerifyAgain(w) \/ GuessMissed(w) \/ LoginWrong(w) \/ LoginStrike(w)
         \/ Enter(w) \/ ChangeRead(w) \/ ChangeWrite(w) \/ Fail(w)
         \/ ResendRead(w) \/ ForgotRead(w) \/ LoginRight(w) \/ LoginClear(w)
         \/ \E k \in Kinds, right \in BOOLEAN : GuessRead(w, k, right)
  PROVE  PostInv'
<1>1. user # Nothing /\ user \in User
  <2>1. user # Nothing \/ req[w] # Idle
    <3>1. CASE GuessMissed(w) \/ LoginStrike(w) \/ Enter(w) \/ ChangeWrite(w)
               \/ LoginClear(w)
      BY <3>1 DEF GuessMissed, LoginStrike, Enter, ChangeWrite, LoginClear, Idle
    <3>2. CASE \/ VerifyAgain(w) \/ LoginWrong(w) \/ ChangeRead(w) \/ ResendRead(w)
               \/ ForgotRead(w) \/ LoginRight(w)
               \/ \E k \in Kinds, right \in BOOLEAN : GuessRead(w, k, right)
      BY <3>2, Zenon DEF VerifyAgain, LoginWrong, ChangeRead, ResendRead, ForgotRead,
         LoginRight, GuessRead, Receive
    <3>3. CASE Fail(w)
      BY <3>3 DEF Fail
    <3> QED
      BY <3>1, <3>2, <3>3
  <2> QED
    BY <2>1 DEF Typed, TypeOK, RowExists
<1>2. UNCHANGED <<issued, mailed>>
  BY DEF VerifyAgain, GuessMissed, LoginWrong, LoginStrike, Enter, ChangeRead,
     ChangeWrite, Fail, ResendRead, ForgotRead, LoginRight, LoginClear, GuessRead,
     codeVars
<1>3. \A k \in Kinds : /\ user'.otp[k].code = user.otp[k].code
                       /\ user'.otp[k].age = user.otp[k].age
  <2>1. CASE GuessMissed(w)
    BY <1>1, <2>1 DEF GuessMissed, User, Otp
  <2>2. CASE LoginStrike(w) \/ ChangeWrite(w) \/ LoginClear(w)
    BY <1>1, <2>2 DEF LoginStrike, Struck, ChangeWrite, LoginClear, User
  <2> QED
    BY <2>1, <2>2 DEF VerifyAgain, LoginWrong, Enter, ChangeRead, Fail, ResendRead,
       ForgotRead, LoginRight, GuessRead
<1>4. ASSUME NEW x, Go(w, x),
             \/ Plain(x)
             \/ x.at = "issue" /\ CooledDown(x)
             \/ x.at = "clear" /\ CooledDown(x.then)
                /\ (x.then.at = "issue" => x.then.kind \in Kinds)
             \/ x.at = "redeem" /\ x.code \in mailed,
             x.at = "issue" => x.kind \in Kinds
      PROVE  PostInv'
  <2>1. /\ req'[w] = x /\ \A v \in Requests \ {w} : req'[v] = req[v]
    BY <1>4, GoOnly
  <2>2. x.at = "issue" /\ CooledDown(x) => CooledDown(req[w])'
    BY <1>2, <1>3, <1>4, <2>1 DEF CooledDown
  <2>3. x.at = "clear" /\ CooledDown(x.then)
        /\ (x.then.at = "issue" => x.then.kind \in Kinds) => CooledDown(req[w].then)'
    BY <1>2, <1>3, <2>1 DEF CooledDown
  <2> QED
    BY <1>2, <1>3, <1>4, <2>1, <2>2, <2>3, KindsOf, PostKept
<1>5. ASSUME NEW k \in Kinds, user.otp[k].age # "fresh"
      PROVE  /\ CooledDown(Issuing(user, k)) /\ Issuing(user, k).at = "issue"
             /\ Issuing(user, k).kind = k
  <2>1. user.otp[k].code # Nothing => user.otp[k].code \in issued
    BY <1>1 DEF SpentInv, Unspent
  <2> QED
    BY <1>5, <2>1 DEF CooledDown, Issuing
<1>6. CASE ResendRead(w) \/ ForgotRead(w)
  <2>1. PICK k \in Kinds : Go(w, Issuing(user, k)) /\ user.otp[k].age # "fresh"
    BY <1>6 DEF ResendRead, ForgotRead, Receive, MaySend, Kinds
  <2> DEFINE x == Issuing(user, k)
  <2>2. x.at = "issue" /\ CooledDown(x) /\ x.kind \in Kinds /\ Go(w, x)
    BY <1>5, <2>1
  <2> HIDE DEF x
  <2> QED
    BY <1>4, <2>2
<1>7. CASE LoginRight(w)
  <2> DEFINE y == AfterLogin(user)
             x == [at |-> "clear", then |-> y]
  <2>1. \/ Plain(y) /\ y.at # "issue"
        \/ y.at = "issue" /\ CooledDown(y) /\ y.kind \in Kinds
    BY <1>5 DEF AfterLogin, Plain, Idle, Kinds
  <2>2. Go(w, x) \/ Go(w, y)
    BY <1>7 DEF LoginRight, Receive
  <2> HIDE DEF y
  <2>3. CASE Go(w, y)
    BY <1>4, <2>1, <2>3
  <2>4. CASE Go(w, x)
    <3>1. x.at = "clear" /\ x.then = y
      OBVIOUS
    <3>2. CooledDown(y)
      BY <2>1 DEF CooledDown
    <3> HIDE DEF x
    <3> QED
      BY <1>4, <2>1, <2>4, <3>1, <3>2
  <2> QED
    BY <2>2, <2>3, <2>4
<1>8. CASE LoginClear(w)
  <2> DEFINE x == req[w].then
  <2>1. x \in Settled /\ CooledDown(x) /\ Go(w, x) /\ (x.at = "issue" => x.kind \in Kinds)
    BY <1>8, KindsOf DEF LoginClear, PostInv
  <2>2. Plain(x) \/ x.at = "issue"
    BY <2>1 DEF Settled, Idle, Plain
  <2> HIDE DEF x
  <2> QED
    BY <1>4, <2>1, <2>2
<1>9. ASSUME NEW k \in Kinds, NEW right \in BOOLEAN, GuessRead(w, k, right)
      PROVE  PostInv'
  <2>1. PICK x : /\ Go(w, x)
                 /\ x.at = "miss" \/ (x.at = "redeem" /\ x.code \in mailed)
    BY <1>9 DEF GuessRead, Receive
  <2> QED
    BY <1>4, <2>1 DEF Plain
<1>10. CASE \/ VerifyAgain(w) \/ GuessMissed(w) \/ LoginWrong(w) \/ LoginStrike(w)
            \/ Enter(w) \/ ChangeRead(w) \/ ChangeWrite(w) \/ Fail(w)
  <2>1. PICK x : Go(w, x) /\ x.at \in {"enter", "idle", "wrong", "change"}
    BY <1>10 DEF VerifyAgain, GuessMissed, LoginWrong, LoginStrike, Enter,
       ChangeRead, ChangeWrite, Fail, Receive, Idle
  <2> QED
    BY <1>4, <2>1 DEF Plain
<1> QED
  BY <1>6, <1>7, <1>8, <1>9, <1>10

LEMMA PostOutside ==
  ASSUME Typed, PostInv,
         \/ Refresh \/ SetSuspended \/ AssignAccessRole \/ Unlock
         \/ \E k \in Kinds : Age(k)
  PROVE  PostInv'
<1>1. user # Nothing /\ user \in User
  BY DEF Typed, TypeOK, Refresh, Accepted, SetSuspended, AssignAccessRole, Unlock, Age
<1>2. UNCHANGED <<issued, mailed, req>>
  BY DEF Refresh, SetSuspended, AssignAccessRole, Unlock, Age, codeVars
<1>3. \A k \in Kinds : /\ user'.otp[k].code = user.otp[k].code
                       /\ user'.otp[k].age = "fresh" => user.otp[k].age = "fresh"
  <2>1. ASSUME NEW j \in Kinds, Age(j), NEW k \in Kinds
        PROVE  /\ user'.otp[k].code = user.otp[k].code
               /\ user'.otp[k].age = "fresh" => user.otp[k].age = "fresh"
    BY <1>1, <2>1 DEF Age, User, Otp
  <2> QED
    BY <1>1, <2>1 DEF Refresh, SetSuspended, AssignAccessRole, Unlock, User
<1>4. CASE Requests = {}
  BY <1>2, <1>4 DEF PostInv
<1>5. CASE Requests # {}
  BY <1>2, <1>3, <1>5, KindsOf, PostKept
<1> QED
  BY <1>4, <1>5

\* A code of kind k is taken back, or redeemed; nobody else posts one.
LEMMA PostTaken ==
  ASSUME Typed, PostInv, NEW w \in Requests, NEW k \in Kinds,
         \A v \in Requests \ {w} : req'[v] = req[v],
         Plain(req'[w]), UNCHANGED <<issued, mailed>>,
         user'.otp[k] = NoOtp,
         \A j \in Kinds \ {k} : user'.otp[j] = user.otp[j],
         \A v \in Requests \ {w} : ~(req[v].at = "post" /\ req[v].kind = k)
  PROVE  PostInv'
<1>1. \A x : CooledDown(x) /\ (x.at = "issue" => x.kind \in Kinds) => CooledDown(x)'
  BY DEF CooledDown, NoOtp
<1>2. ASSUME NEW v \in Requests \ {w}
      PROVE  (/\ CooledDown(req[v])
              /\ req[v].at = "clear" => CooledDown(req[v].then)
              /\ req[v].at = "redeem" => req[v].code \in mailed
              /\ Posting(req[v]))'
  <2>1. req'[v] = req[v]
    OBVIOUS
  <2>2. CooledDown(req[v])'
    BY <2>1, KindsOf DEF PostInv, CooledDown, NoOtp
  <2>3. (req[v].at = "clear" => CooledDown(req[v].then))'
    BY <2>1, KindsOf DEF PostInv, CooledDown, NoOtp
  <2>4. Posting(req[v])'
    BY <2>1, KindsOf DEF PostInv, Posting
  <2> QED
    BY <2>1, <2>2, <2>3, <2>4 DEF PostInv
<1>3. (/\ CooledDown(req[w])
       /\ req[w].at = "clear" => CooledDown(req[w].then)
       /\ req[w].at = "redeem" => req[w].code \in mailed
       /\ Posting(req[w]))'
  BY DEF Plain, CooledDown, Posting
<1>4. \A v, u \in Requests :
        req'[v].at = "post" /\ req'[u].at = "post" /\ req'[v].kind = req'[u].kind
          => v = u
  BY DEF Plain, PostInv
<1>5. (mailed \subseteq issued)'
  BY DEF PostInv
<1> QED
  BY <1>2, <1>3, <1>4, <1>5 DEF PostInv

\* A new code is stored, and is about to be posted.
LEMMA PostIssue ==
  ASSUME Typed, PostInv, NEW w \in Requests, NEW k \in Kinds, NEW c \in Codes \ issued,
         \A v \in Requests \ {w} : req'[v] = req[v],
         req'[w] = [at |-> "post", kind |-> k, code |-> c],
         issued' = issued \cup {c}, mailed' = mailed,
         user'.otp[k] = NewOtp(c),
         \A v \in Requests \ {w} : req[v] # Idle =>
           \A j \in Kinds \ {k} : user'.otp[j] = user.otp[j],
         \A v \in Requests \ {w} : ~(req[v].at = "post" /\ req[v].kind = k)
  PROVE  PostInv'
<1>1. c # Nothing /\ user'.otp[k].code = c
  BY AccountAssumption DEF NewOtp
<1>2. ASSUME NEW v \in Requests \ {w}
      PROVE  (/\ CooledDown(req[v])
              /\ req[v].at = "clear" => CooledDown(req[v].then)
              /\ req[v].at = "redeem" => req[v].code \in mailed
              /\ Posting(req[v]))'
  <2>1. req'[v] = req[v]
    OBVIOUS
  <2>2. req[v].at # "idle" => \A j \in Kinds \ {k} : user'.otp[j] = user.otp[j]
    BY DEF Idle
  <2>3. CooledDown(req[v])'
    BY <1>1, <2>1, <2>2, KindsOf DEF PostInv, CooledDown
  <2>4. (req[v].at = "clear" => CooledDown(req[v].then))'
    BY <1>1, <2>1, <2>2, KindsOf DEF PostInv, CooledDown
  <2>5. Posting(req[v])'
    BY <2>1, <2>2, KindsOf DEF PostInv, Posting
  <2> QED
    BY <2>1, <2>3, <2>4, <2>5 DEF PostInv
<1>3. (/\ CooledDown(req[w])
       /\ req[w].at = "clear" => CooledDown(req[w].then)
       /\ req[w].at = "redeem" => req[w].code \in mailed
       /\ Posting(req[w]))'
  BY <1>1 DEF CooledDown, Posting, PostInv
<1>4. \A v, u \in Requests :
        req'[v].at = "post" /\ req'[u].at = "post" /\ req'[v].kind = req'[u].kind
          => v = u
  BY DEF PostInv
<1>5. (mailed \subseteq issued)'
  BY DEF PostInv
<1> QED
  BY <1>2, <1>3, <1>4, <1>5 DEF PostInv

LEMMA PostIssues ==
  ASSUME Typed, Fresh, PostInv, NEW w \in Requests, NEW c \in Codes,
         IssueWrite(w, c)
  PROVE  PostInv'
<1>1. PICK k \in Kinds : k = req[w].kind
  BY KindsOf DEF IssueWrite
<1>2. user # Nothing /\ user \in User
  BY DEF IssueWrite, Typed, TypeOK, RowExists, Idle
<1>3. user.otp[k].age # "fresh"
  BY <1>1 DEF IssueWrite, Fresh, FreshRequest, PostInv, CooledDown
<1>4. \A v \in Requests : ~(req[v].at = "post" /\ req[v].kind = k)
  BY <1>3 DEF Fresh, FreshRequest
<1>5. /\ user'.otp[k] = NewOtp(c)
      /\ \A j \in Kinds \ {k} : user'.otp[j] = user.otp[j]
  BY <1>1, <1>2 DEF IssueWrite, User
<1>6. /\ c \in Codes \ issued /\ issued' = issued \cup {c} /\ mailed' = mailed
      /\ req'[w] = [at |-> "post", kind |-> k, code |-> c]
      /\ \A v \in Requests \ {w} : req'[v] = req[v]
  BY <1>1, GoOnly DEF IssueWrite
<1> QED
  BY <1>4, <1>5, <1>6, PostIssue

LEMMA PostRegister ==
  ASSUME Typed, PostInv, NEW w \in Requests, NEW c \in Codes, Register(w, c)
  PROVE  PostInv'
<1>1. /\ "verify" \in Kinds /\ c \in Codes \ issued
      /\ issued' = issued \cup {c} /\ mailed' = mailed
      /\ req'[w] = [at |-> "post", kind |-> "verify", code |-> c]
      /\ \A v \in Requests \ {w} : req'[v] = req[v]
  BY GoOnly DEF Register, Kinds
<1>2. \A v \in Requests : req[v] = Idle
  BY DEF Register, Typed, RowExists
<1>3. user'.otp["verify"] = NewOtp(c)
  <2>1. NewUser.otp = [k \in Kinds |-> NoOtp]
        /\ user' = [NewUser EXCEPT !.otp["verify"] = NewOtp(c)]
    BY DEF Register, NewUser
  <2> QED
    BY <2>1 DEF NewUser, Kinds
<1>4. \A v \in Requests : ~(req[v].at = "post" /\ req[v].kind = "verify")
  <2>1. Idle.at # "post"
    BY DEF Idle
  <2> QED
    BY <1>2, <2>1
<1> QED
  BY <1>1, <1>2, <1>3, <1>4, PostIssue

\* Two codes that are being posted are two.
LEMMA PostPost ==
  ASSUME Typed, SpentInv, PostInv, NEW w \in Requests, Post(w)
  PROVE  PostInv'
<1>1. /\ mailed' = mailed \cup {req[w].code} /\ UNCHANGED <<user, issued>>
      /\ req'[w] = Idle /\ \A v \in Requests \ {w} : req'[v] = req[v]
  BY GoOnly DEF Post
<1>2. ASSUME NEW v \in Requests \ {w}, req[v].at = "post"
      PROVE  req[v].code # req[w].code
  <2>1. /\ req[v].kind \in Kinds /\ req[w].kind \in Kinds
        /\ req[v].code \in Codes /\ req[v].kind # req[w].kind
    BY <1>2, KindsOf DEF Post, PostInv
  <2>2. /\ user.otp[req[v].kind].code = req[v].code
        /\ user.otp[req[w].kind].code = req[w].code
    BY <1>2 DEF Post, PostInv, Posting
  <2>3. user # Nothing
    BY <1>2 DEF Typed, RowExists, Idle
  <2>4. req[v].code # Nothing
    BY <2>1, AccountAssumption
  <2> QED
    BY <2>1, <2>2, <2>3, <2>4 DEF SpentInv, Kinds
<1>3. (mailed \subseteq issued)'
  BY <1>1 DEF Post, PostInv, Posting
<1>4. ASSUME NEW v \in Requests
      PROVE  (/\ CooledDown(req[v])
              /\ req[v].at = "clear" => CooledDown(req[v].then)
              /\ req[v].at = "redeem" => req[v].code \in mailed
              /\ Posting(req[v]))'
  <2>1. CASE v = w
    BY <1>1, <2>1 DEF CooledDown, Posting, Idle
  <2>2. CASE v # w
    <3>1. req'[v] = req[v]
      BY <1>1, <2>2
    <3>2. Posting(req[v])'
      BY <1>1, <1>2, <2>2, <3>1 DEF PostInv, Posting
    <3> QED
      BY <1>1, <3>1, <3>2 DEF PostInv, CooledDown
  <2> QED
    BY <2>1, <2>2
<1>5. \A v, u \in Requests :
        req'[v].at = "post" /\ req'[u].at = "post" /\ req'[v].kind = req'[u].kind
          => v = u
  BY <1>1 DEF PostInv, Idle
<1> QED
  BY <1>3, <1>4, <1>5 DEF PostInv

LEMMA PostTakes ==
  ASSUME Typed, Fresh, PostInv, NEW w \in Requests,
         PostFails(w) \/ VerifyWrite(w) \/ ResetWrite(w)
  PROVE  PostInv'
<1>1. user # Nothing /\ user \in User
  BY DEF PostFails, VerifyWrite, ResetWrite, Typed, TypeOK, RowExists, Idle
<1>2. /\ UNCHANGED <<issued, mailed>> /\ Plain(req'[w])
      /\ \A v \in Requests \ {w} : req'[v] = req[v]
  BY GoOnly DEF PostFails, VerifyWrite, ResetWrite, codeVars, Plain, Idle
<1>3. CASE PostFails(w) /\ req[w].kind # "reset"
  <2>1. user' = user
    BY <1>3 DEF PostFails
  <2> QED
    BY <1>2, <2>1, KindsOf, PostKept
<1>4. ASSUME NEW k \in Kinds, user'.otp[k] = NoOtp,
             \A j \in Kinds \ {k} : user'.otp[j] = user.otp[j],
             \A v \in Requests \ {w} : ~(req[v].at = "post" /\ req[v].kind = k)
      PROVE  PostInv'
  BY <1>2, <1>4, PostTaken
<1>5. CASE PostFails(w) /\ req[w].kind = "reset"
  <2>1. /\ user'.otp["reset"] = NoOtp
        /\ \A j \in Kinds \ {"reset"} : user'.otp[j] = user.otp[j]
    BY <1>1, <1>5 DEF PostFails, Without, User, Kinds
  <2>2. \A v \in Requests \ {w} : ~(req[v].at = "post" /\ req[v].kind = "reset")
    BY <1>5 DEF PostFails, PostInv
  <2> QED
    BY <1>4, <2>1, <2>2 DEF Kinds
<1>6. CASE VerifyWrite(w) \/ ResetWrite(w)
  <2>1. PICK k \in Kinds : k = req[w].kind
    BY <1>6, KindsOf DEF VerifyWrite, ResetWrite
  <2>2. user.otp[k].code \in mailed
    BY <1>6, <2>1 DEF VerifyWrite, ResetWrite, Fresh, FreshRequest, PostInv
  <2>3. \A v \in Requests : ~(req[v].at = "post" /\ req[v].kind = k)
    BY <2>2 DEF PostInv, Posting
  <2>4. /\ user'.otp[k] = NoOtp
        /\ \A j \in Kinds \ {k} : user'.otp[j] = user.otp[j]
    <3>1. CASE VerifyWrite(w)
      BY <1>1, <2>1, <3>1 DEF VerifyWrite, Without, User, Kinds
    <3>2. CASE ResetWrite(w)
      BY <1>1, <2>1, <3>2 DEF ResetWrite, WithNewPassword, Without, User, Kinds
    <3> QED
      BY <1>6, <3>1, <3>2
  <2> QED
    BY <1>4, <2>3, <2>4
<1> QED
  BY <1>3, <1>5, <1>6

LEMMA PostStep ==
  ASSUME Typed, Fresh, SpentInv, PostInv, Next
  PROVE  PostInv'
<1>1. CASE CreateUser
  <2>1. /\ \A v \in Requests : req[v] = Idle
        /\ UNCHANGED <<req, issued, mailed>>
    BY <1>1 DEF CreateUser, Typed, RowExists, codeVars
  <2> QED
    BY <2>1 DEF PostInv, CooledDown, Posting, Idle
<1> QED
  BY <1>1, PostQuiet, PostOutside, PostIssues, PostRegister, PostPost, PostTakes
     DEF Next, Step

\* A code that reached the owner is replaced or redeemed, not taken back.
LEMMA DeliveredStep ==
  ASSUME Typed, Fresh, PostInv, Next, user # Nothing, NEW k \in Kinds,
         user.otp[k].code \in mailed, user'.otp[k].code # user.otp[k].code
  PROVE  \/ redeemed'[user.otp[k].code] > redeemed[user.otp[k].code]
         \/ user'.otp[k].code \in issued' \ issued
<1>1. user \in User /\ redeemed \in [Codes -> Nat] /\ mailed \subseteq Codes
  BY DEF Typed, TypeOK
<1>2. CASE \E w \in Requests, c \in Codes : IssueWrite(w, c)
  <2>1. PICK w \in Requests, c \in Codes : IssueWrite(w, c)
    BY <1>2
  <2>2. req[w].kind \in Kinds
    BY <2>1, KindsOf DEF IssueWrite
  <2>3. k = req[w].kind
    BY <1>1, <2>1, <2>2 DEF IssueWrite, User
  <2> QED
    BY <1>1, <2>1, <2>2, <2>3 DEF IssueWrite, User, NewOtp
<1>3. CASE \E w \in Requests : VerifyWrite(w) \/ ResetWrite(w)
  <2>1. PICK w \in Requests : VerifyWrite(w) \/ ResetWrite(w)
    BY <1>3
  <2>2. k = req[w].kind
    <3>1. CASE VerifyWrite(w)
      BY <1>1, <3>1 DEF VerifyWrite, Without, User, Kinds
    <3>2. CASE ResetWrite(w)
      BY <1>1, <3>2 DEF ResetWrite, WithNewPassword, Without, User, Kinds
    <3> QED
      BY <2>1, <3>1, <3>2
  <2>3. user.otp[k].code = req[w].code /\ req[w].code \in Codes
    BY <2>1, <2>2, KindsOf DEF VerifyWrite, ResetWrite, Fresh, FreshRequest
  <2> QED
    BY <1>1, <2>1, <2>3 DEF VerifyWrite, ResetWrite
<1>4. ASSUME NEW w \in Requests, PostFails(w)  PROVE FALSE
  <2>1. k = "reset" /\ req[w].kind = "reset"
    BY <1>1, <1>4 DEF PostFails, Without, User, Kinds
  <2> QED
    BY <1>4, <2>1 DEF PostFails, PostInv, Posting
<1>5. ASSUME NEW w \in Requests,
             GuessMissed(w) \/ LoginClear(w) \/ LoginStrike(w) \/ ChangeWrite(w)
      PROVE  FALSE
  <2>1. CASE GuessMissed(w)
    BY <1>1, <2>1 DEF GuessMissed, User, Otp
  <2>2. CASE LoginClear(w) \/ LoginStrike(w) \/ ChangeWrite(w)
    BY <1>1, <2>2 DEF LoginClear, LoginStrike, Struck, ChangeWrite, User
  <2> QED
    BY <1>5, <2>1, <2>2
<1>6. CASE \/ Refresh \/ SetSuspended \/ AssignAccessRole \/ Unlock
           \/ \E j \in Kinds : Age(j)
  BY <1>1, <1>6 DEF Refresh, SetSuspended, AssignAccessRole, Unlock, Age, User, Otp
<1>7. ASSUME NEW w \in Requests,
             \/ ResendRead(w) \/ ForgotRead(w) \/ Post(w) \/ VerifyAgain(w)
             \/ \E j \in Kinds, right \in BOOLEAN : GuessRead(w, j, right)
             \/ LoginRight(w) \/ LoginWrong(w) \/ Enter(w) \/ ChangeRead(w)
             \/ Fail(w)
      PROVE  FALSE
  BY <1>7 DEF ResendRead, ForgotRead, Post, VerifyAgain, GuessRead, LoginRight,
     LoginWrong, Enter, ChangeRead, Fail
<1> QED
  BY <1>2, <1>3, <1>4, <1>5, <1>6, <1>7 DEF Next, Step, CreateUser, Register

\* If mail is sent, or fails, within the cooldown, and no request writes for a code
\* that is another by now, a code that reached its owner is never taken back.
THEOREM DeliveredWorks == SerialSpec => DeliveredStands
<1> DEFINE SerialInv == Typed /\ Fresh /\ SpentInv /\ PostInv
<1>1. Init => SerialInv
  <2>1. Init => SpentInv /\ PostInv
    BY AccountAssumption DEF Init, SpentInv, CodesAreSpent, GuessesLeft, PostInv,
       CooledDown, Posting, Idle
  <2> QED
    BY <2>1, TypedInit, FreshInit
<1>2. SerialInv /\ [Next /\ Fresh']_vars => SerialInv'
  <2> SUFFICES ASSUME SerialInv, [Next /\ Fresh']_vars  PROVE SerialInv'
    OBVIOUS
  <2>1. Typed' /\ Fresh' /\ SpentInv'
    BY SerialSpent
  <2>2. CASE UNCHANGED vars
    BY <2>1, <2>2 DEF vars, codeVars, PostInv, CooledDown, Posting
  <2> QED
    BY <2>1, <2>2, PostStep
<1>3. SerialInv /\ [Next /\ Fresh']_vars =>
        [user # Nothing =>
           \A k \in Kinds : LET c == user.otp[k].code IN
             c \in mailed /\ user'.otp[k].code # c =>
               redeemed'[c] > redeemed[c] \/ user'.otp[k].code \in issued' \ issued]_vars
  BY DeliveredStep
<1> HIDE DEF SerialInv
<1> QED
  BY <1>1, <1>2, <1>3, PTL DEF SerialSpec, DeliveredStands
=============================================================================
