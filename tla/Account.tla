------------------------------- MODULE Account -------------------------------
(***************************************************************************)
(* One account: its password and lockout, the one-time codes that verify   *)
(* its address or reset its password, and the sessions given to it.        *)
(* src/auth, with the actions of src/users and src/admin on those columns. *)
(*                                                                         *)
(* A request reads the row, hashes or compares for a while, and writes     *)
(* without a condition that the row is still what it read.                 *)
(***************************************************************************)
EXTENDS Integers

CONSTANTS
  Requests,     \* requests served at a time
  Codes,        \* one-time codes (bounds how many are issued)
  Nothing,      \* no row, and no code
  MaxAttempts,  \* EMAIL_OTP_MAX_ATTEMPTS
  MaxFailed,    \* wrong passwords that lock the account, 5 in the code
  MaxPasswords, \* bound: how often the password is set again
  MaxVersions   \* bound: the sessionVersion up to which access roles are assigned

Kinds == {"verify", "reset"}

\* Of the time since a code was sent only this shows: less than a minute, less
\* than the ten minutes it is valid, or more.
Otp == [code : Codes \cup {Nothing}, attempts : Nat,
        age : {"none", "fresh", "live", "expired"}]
NoOtp == [code |-> Nothing, attempts |-> 0, age |-> "none"]
NewOtp(c) == [code |-> c, attempts |-> 0, age |-> "fresh"]

\* A password is the number of times it was set again.  lock: lockedUntil is
\* null, in the future, or in the past.
User == [verified : BOOLEAN, suspended : BOOLEAN, password : Nat, version : Nat,
         failed : Nat, lock : {"none", "held", "past"}, otp : [Kinds -> Otp]]

ASSUME AccountAssumption ==
  /\ Nothing \notin Codes \cup User
  /\ {MaxAttempts, MaxFailed} \subseteq Nat \ {0}
  /\ {MaxPasswords, MaxVersions} \subseteq Nat

\* What a token carries, and the password of the row it was made from.
Session == [version : Nat, password : Nat]
SessionOf(u) == [version |-> u.version, password |-> u.password]

Idle == [at |-> "idle"]
Settled == {Idle} \cup [at : {"enter"}, session : Session]
                  \cup [at : {"issue"}, kind : Kinds, over : Codes \cup {Nothing}]
Request == Settled
  \cup [at : {"wrong"}, failed : Nat]
  \cup [at : {"clear"}, then : Settled]
  \cup [at : {"post"}, kind : Kinds, code : Codes]
  \cup [at : {"miss", "redeem"}, kind : Kinds, code : Codes, attempts : Nat]
  \cup [at : {"change"}]

VARIABLES
  user,       \* the row of User
  sessions,   \* sessions given out
  issued,     \* codes used up
  mailed,     \* codes that reached the owner
  missed,     \* per code: wrong codes compared with it
  redeemed,   \* per code: how often it was redeemed
  strikes,    \* wrong passwords since a right one, a reset, or the end of a lock
  lastReset,  \* the password that the last reset set
  req         \* the requests in progress

codeVars == <<issued, mailed, missed, redeemed>>
vars == <<user, sessions, codeVars, strikes, lastReset, req>>

Init ==
  /\ user = Nothing
  /\ sessions = {}
  /\ issued = {} /\ mailed = {}
  /\ missed   = [c \in Codes |-> 0]
  /\ redeemed = [c \in Codes |-> 0]
  /\ strikes = 0 /\ lastReset = 0
  /\ req = [w \in Requests |-> Idle]

Go(w, x) == req' = [req EXCEPT ![w] = x]

\* A new request finds the account.
Receive(w, x) == req[w] = Idle /\ user # Nothing /\ Go(w, x)

Without(u, k) == [u EXCEPT !.otp[k] = NoOtp]

\* The defaults of the schema.
NewUser == [verified |-> FALSE, suspended |-> FALSE, password |-> 0,
            version |-> 0, failed |-> 0, lock |-> "none",
            otp |-> [k \in Kinds |-> NoOtp]]

-----------------------------------------------------------------------------
(* Accounts come from register, or from an admin.                          *)

\* The row is created with its first code, which is then posted.  The unique
\* index on the address makes the read before it part of the step.
Register(w, c) ==
  /\ req[w] = Idle /\ user = Nothing /\ c \notin issued
  /\ user' = [NewUser EXCEPT !.otp["verify"] = NewOtp(c)]
  /\ issued' = issued \cup {c}
  /\ Go(w, [at |-> "post", kind |-> "verify", code |-> c])
  /\ UNCHANGED <<sessions, mailed, missed, redeemed, strikes, lastReset>>

CreateUser ==
  /\ user = Nothing
  /\ user' = [NewUser EXCEPT !.verified = TRUE]
  /\ UNCHANGED <<sessions, codeVars, strikes, lastReset, req>>

-----------------------------------------------------------------------------
(* Codes: issueOtp and sendOtpEmail, for whom they are issued.             *)

\* Mutant of MaySend: no cooldown.
MaySendAlways(u, k) == TRUE
\* EMAIL_OTP_RESEND_SECONDS have passed, by the row that was read.
MaySend(u, k) == u.otp[k].age # "fresh"

Issuing(u, k) == [at |-> "issue", kind |-> k, over |-> u.otp[k].code]

ResendRead(w) ==
  /\ Receive(w, Issuing(user, "verify"))
  /\ ~user.verified /\ MaySend(user, "verify")
  /\ UNCHANGED <<user, sessions, codeVars, strikes, lastReset>>

ForgotRead(w) ==
  /\ Receive(w, Issuing(user, "reset"))
  /\ user.verified /\ MaySend(user, "reset")
  /\ UNCHANGED <<user, sessions, codeVars, strikes, lastReset>>

IssueWrite(w, c) ==
  /\ req[w].at = "issue" /\ c \notin issued
  /\ user' = [user EXCEPT !.otp[req[w].kind] = NewOtp(c)]
  /\ issued' = issued \cup {c}
  /\ Go(w, [at |-> "post", kind |-> req[w].kind, code |-> c])
  /\ UNCHANGED <<sessions, mailed, missed, redeemed, strikes, lastReset>>

Post(w) ==
  /\ req[w].at = "post"
  /\ mailed' = mailed \cup {req[w].code}
  /\ Go(w, Idle)
  /\ UNCHANGED <<user, sessions, issued, missed, redeemed, strikes, lastReset>>

\* A reset code that cannot be mailed is taken back, whichever is stored by now;
\* a verification code stays.
PostFails(w) ==
  /\ req[w].at = "post"
  /\ user' = IF req[w].kind = "reset" THEN Without(user, "reset") ELSE user
  /\ Go(w, Idle)
  /\ UNCHANGED <<sessions, codeVars, strikes, lastReset>>

-----------------------------------------------------------------------------
(* Redeeming a code: verifyEmail and resetPassword.                        *)

\* Mutant of MayGuess: one attempt too many.
MayGuessOnce(o) == /\ o.code # Nothing /\ o.age # "expired"
                   /\ o.attempts <= MaxAttempts
\* The checks on the code of the row, before it is compared.
MayGuess(o) == /\ o.code # Nothing /\ o.age # "expired"
               /\ o.attempts < MaxAttempts

\* The code of the row that was read is compared with what the caller sent:
\* right if it is the one that was mailed.
GuessRead(w, k, right) ==
  LET o == user.otp[k] IN
  /\ Receive(w, [at |-> IF right THEN "redeem" ELSE "miss",
                 kind |-> k, code |-> o.code, attempts |-> o.attempts])
  /\ user.verified = (k = "reset")
  /\ MayGuess(o)
  /\ right => o.code \in mailed
  /\ UNCHANGED <<user, sessions, codeVars, strikes, lastReset>>

\* Who verifies an address that is verified already just enters.
VerifyAgain(w) ==
  /\ Receive(w, [at |-> "enter", session |-> SessionOf(user)])
  /\ user.verified
  /\ UNCHANGED <<user, sessions, codeVars, strikes, lastReset>>

\* The counter is incremented in the database, whatever code it now counts for.
GuessMissed(w) ==
  /\ req[w].at = "miss"
  /\ user' = [user EXCEPT !.otp[req[w].kind].attempts = @ + 1]
  /\ missed' = [missed EXCEPT ![req[w].code] = @ + 1]
  /\ Go(w, Idle)
  /\ UNCHANGED <<sessions, issued, mailed, redeemed, strikes, lastReset>>

\* The tokens are of the new row.  The time the code was sent stays in it, and is
\* never read again.
VerifyWrite(w) ==
  /\ req[w].at = "redeem" /\ req[w].kind = "verify"
  /\ LET u == [Without(user, "verify") EXCEPT !.verified = TRUE] IN
       /\ user' = u
       /\ Go(w, [at |-> "enter", session |-> SessionOf(u)])
  /\ redeemed' = [redeemed EXCEPT ![req[w].code] = @ + 1]
  /\ UNCHANGED <<sessions, issued, mailed, missed, strikes, lastReset>>

\* Mutant of WithNewPassword: the sessions go on.
WithNewPasswordOnly(u) ==
  [Without(u, "reset") EXCEPT !.password = @ + 1, !.failed = 0, !.lock = "none"]
WithNewPassword(u) ==
  [Without(u, "reset") EXCEPT !.password = @ + 1, !.failed = 0, !.lock = "none",
                              !.version = @ + 1]

ResetWrite(w) ==
  /\ req[w].at = "redeem" /\ req[w].kind = "reset"
  /\ user.password < MaxPasswords
  /\ user' = WithNewPassword(user)
  /\ lastReset' = user.password + 1
  /\ redeemed' = [redeemed EXCEPT ![req[w].code] = @ + 1]
  /\ strikes' = 0
  /\ Go(w, Idle)
  /\ UNCHANGED <<sessions, issued, mailed, missed>>

-----------------------------------------------------------------------------
(* Logging in.                                                             *)

\* What a login with the right password goes on to, by the row it read: an
\* unverified account gets another code when the last has expired.
AfterLogin(u) ==
  IF u.verified THEN [at |-> "enter", session |-> SessionOf(u)]
  ELSE IF u.otp["verify"].age = "expired" THEN Issuing(u, "verify") ELSE Idle

LoginRight(w) ==
  /\ Receive(w, IF user.failed > 0 \/ user.lock # "none"
                THEN [at |-> "clear", then |-> AfterLogin(user)]
                ELSE AfterLogin(user))
  /\ user.lock # "held"
  /\ UNCHANGED <<user, sessions, codeVars, strikes, lastReset>>

LoginClear(w) ==
  /\ req[w].at = "clear"
  /\ user' = [user EXCEPT !.failed = 0, !.lock = "none"]
  /\ strikes' = 0
  /\ Go(w, req[w].then)
  /\ UNCHANGED <<sessions, codeVars, lastReset>>

LoginWrong(w) ==
  /\ Receive(w, [at |-> "wrong", failed |-> user.failed])
  /\ user.lock # "held"
  /\ UNCHANGED <<user, sessions, codeVars, strikes, lastReset>>

\* Mutant of Struck: the counter is not started again with the lock.
StruckOn(u, failed) ==
  [u EXCEPT !.failed = failed + 1,
            !.lock = IF failed + 1 >= MaxFailed THEN "held" ELSE "none"]
\* The counter that was read, and one.
Struck(u, failed) ==
  [u EXCEPT !.failed = IF failed + 1 >= MaxFailed THEN 0 ELSE failed + 1,
            !.lock = IF failed + 1 >= MaxFailed THEN "held" ELSE "none"]

LoginStrike(w) ==
  /\ req[w].at = "wrong"
  /\ user' = Struck(user, req[w].failed)
  /\ strikes' = strikes + 1
  /\ Go(w, Idle)
  /\ UNCHANGED <<sessions, codeVars, lastReset>>

-----------------------------------------------------------------------------
(* Sessions: generateTokens, JwtStrategy.validate, refreshToken.           *)

Enter(w) ==
  /\ req[w].at = "enter"
  /\ sessions' = sessions \cup {req[w].session}
  /\ Go(w, Idle)
  /\ UNCHANGED <<user, codeVars, strikes, lastReset>>

\* validate lets the access token of s in, refreshToken its refresh token.
Accepted(s) == /\ user # Nothing
               /\ ~user.suspended /\ user.verified
               /\ s.version = user.version

\* The new tokens are of the row, and stand on the same password as the old.
Refresh ==
  /\ \E s \in sessions :
       /\ Accepted(s)
       /\ sessions' = sessions \cup {[s EXCEPT !.version = user.version]}
  /\ UNCHANGED <<user, codeVars, strikes, lastReset, req>>

\* changePassword of someone logged in; their sessions go on.
ChangeRead(w) ==
  /\ Receive(w, [at |-> "change"])
  /\ \E s \in sessions : Accepted(s)
  /\ UNCHANGED <<user, sessions, codeVars, strikes, lastReset>>

ChangeWrite(w) ==
  /\ req[w].at = "change" /\ user.password < MaxPasswords
  /\ user' = [user EXCEPT !.password = @ + 1]
  /\ Go(w, Idle)
  /\ UNCHANGED <<sessions, codeVars, strikes, lastReset>>

-----------------------------------------------------------------------------
(* The admin, and time.                                                    *)

SetSuspended ==
  /\ user # Nothing
  /\ user' = [user EXCEPT !.suspended = ~@]
  /\ UNCHANGED <<sessions, codeVars, strikes, lastReset, req>>

AssignAccessRole ==
  /\ user # Nothing /\ user.version < MaxVersions
  /\ user' = [user EXCEPT !.version = @ + 1]
  /\ UNCHANGED <<sessions, codeVars, strikes, lastReset, req>>

\* The cooldown of a code ends, or its validity.
Age(k) ==
  /\ user # Nothing /\ user.otp[k].age \in {"fresh", "live"}
  /\ user' = [user EXCEPT !.otp[k].age = IF @ = "fresh" THEN "live" ELSE "expired"]
  /\ UNCHANGED <<sessions, codeVars, strikes, lastReset, req>>

\* Fifteen minutes after the last wrong password.
Unlock ==
  /\ user # Nothing /\ user.lock = "held"
  /\ user' = [user EXCEPT !.lock = "past"]
  /\ strikes' = 0
  /\ UNCHANGED <<sessions, codeVars, lastReset, req>>

\* An error, or the end of the process: what was written stays.
Fail(w) ==
  /\ req[w] # Idle
  /\ Go(w, Idle)
  /\ UNCHANGED <<user, sessions, codeVars, strikes, lastReset>>

Step(w) ==
  \/ \E c \in Codes : Register(w, c) \/ IssueWrite(w, c)
  \/ ResendRead(w) \/ ForgotRead(w) \/ Post(w) \/ PostFails(w)
  \/ \E k \in Kinds, right \in BOOLEAN : GuessRead(w, k, right)
  \/ VerifyAgain(w) \/ GuessMissed(w) \/ VerifyWrite(w) \/ ResetWrite(w)
  \/ LoginRight(w) \/ LoginClear(w) \/ LoginWrong(w) \/ LoginStrike(w)
  \/ Enter(w) \/ ChangeRead(w) \/ ChangeWrite(w)
  \/ Fail(w)

Next ==
  \/ \E w \in Requests : Step(w)
  \/ CreateUser \/ Refresh \/ SetSuspended \/ AssignAccessRole \/ Unlock
  \/ \E k \in Kinds : Age(k)

Spec == Init /\ [][Next]_vars

\* What a request has read and goes by is still so when it writes: the code it
\* compared and the attempts at it, the count it goes on from, the lock there was
\* not, the code it replaces; and mail is sent, or fails, within the cooldown.
FreshRequest(q) ==
  /\ q.at \in {"miss", "redeem"} =>
       user.otp[q.kind].code = q.code /\ user.otp[q.kind].attempts = q.attempts
  /\ q.at = "wrong" => user.failed = q.failed
  /\ q.at \in {"wrong", "clear"} => user.lock # "held"
  /\ q.at = "issue" => user.otp[q.kind].code = q.over
  /\ q.at = "post" => user.otp[q.kind].age = "fresh"

Fresh == \A w \in Requests : FreshRequest(req[w])

SerialSpec == Init /\ [][Next /\ Fresh']_vars

-----------------------------------------------------------------------------
(* Properties.                                                             *)

TypeOK ==
  /\ user \in User \cup {Nothing}
  /\ sessions \in SUBSET Session
  /\ issued \in SUBSET Codes /\ mailed \in SUBSET Codes
  /\ missed \in [Codes -> Nat] /\ redeemed \in [Codes -> Nat]
  /\ strikes \in Nat /\ lastReset \in Nat
  /\ req \in [Requests -> Request]

\* Once a password is reset, no session made with an older one is accepted, nor
\* any refreshed from it, whatever login or refresh was under way.
SessionsEndWithReset ==
  \A s \in sessions : Accepted(s) => s.password >= lastReset

\* A code is redeemed once, and compared with at most MaxAttempts wrong ones.
CodesAreSpent ==
  \A c \in Codes : redeemed[c] <= 1 /\ missed[c] <= MaxAttempts

\* The account is locked exactly when MaxFailed wrong passwords were tried since
\* a right one, a reset or the last lock; and never are more tried.
LockoutIsExact ==
  /\ strikes <= MaxFailed
  /\ user # Nothing => (user.lock = "held") = (strikes = MaxFailed)

\* A code that reached its owner works until it is redeemed, a newer one is
\* issued, or it expires: nothing else takes it back.
DeliveredStands ==
  [][user # Nothing =>
       \A k \in Kinds : LET c == user.otp[k].code IN
         c \in mailed /\ user'.otp[k].code # c =>
           redeemed'[c] > redeemed[c] \/ user'.otp[k].code \in issued' \ issued]_vars
=============================================================================
