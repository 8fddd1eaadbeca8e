----------------------------- MODULE StaffAccess -----------------------------
(***************************************************************************)
(* The account of one member of the staff and its sessions: password and   *)
(* lockout, enrolment of an authenticator, one-time codes, logout.  A      *)
(* request reads the account in one statement and writes it in another,    *)
(* with a password hash or an HMAC in between; nothing is locked, and the  *)
(* values it writes come from the row it read.  Time is counted in steps   *)
(* of the authenticator (30 s).  staff-cli makes the account; no code      *)
(* suspends it.  A code is the secret it comes from and its step; a wrong  *)
(* one comes from no secret.                                               *)
(***************************************************************************)
EXTENDS Integers, FiniteSets

CONSTANTS Requests, Sessions,
          MaxFailedLogins,  \* ADMIN_MAX_FAILED_LOGINS
          LockSteps,        \* ADMIN_LOCK_MINUTES
          MaxSecrets, MaxTime,  \* bounds of the instance
          None

Window == 1   \* steps a code may be early or late
Never == 0    \* the NULL of a time; real steps start at 1
Start == 2

ASSUME LimitAssumption == MaxFailedLogins \in Nat \ {0} /\ LockSteps \in Nat \ {0}
ASSUME BoundAssumption == MaxSecrets \in Nat /\ MaxTime \in Nat /\ MaxTime >= Start
ASSUME NoneAssumption == None \notin Sessions

VARIABLES
  account,   \* the row of core.staff_users
  session,   \* core.staff_sessions: state (closed: revoked or expired), mfa (mfa_verified_at set)
  secrets,   \* secrets drawn so far; the last one drawn need not be the one stored
  time,      \* the current step
  req,       \* what each request has read and where it stands
  guesses,   \* wrong passwords and codes answered since the last lock or success
  accepted,  \* codes that have opened a session
  replayed,  \* some code opened a session a second time
  raced      \* some request wrote the account over a change it had not read

vars == <<account, session, secrets, time, req, guesses, accepted, replayed, raced>>

Account == [failed : 0 .. MaxFailedLogins - 1, lockedUntil : 0 .. MaxTime + LockSteps,
            secret : 0 .. MaxSecrets, enabled : BOOLEAN, lastStep : 0 .. MaxTime + Window]
NewAccount == [failed |-> 0, lockedUntil |-> Never, secret |-> Never, enabled |-> FALSE,
               lastStep |-> Never]
Code == [secret : 1 .. MaxSecrets, step : 1 .. MaxTime + Window]
WrongCode == [secret |-> Never, step |-> Never]

\* read: the row the request has read; principal: what the guard knew of the session
Local == [pc : {"idle", "password", "fail", "setup", "confirm", "accept", "logout"},
          session : Sessions \cup {None}, enrolling : BOOLEAN, right : BOOLEAN,
          read : Account, step : 0 .. MaxTime + Window]
Idle == [pc |-> "idle", session |-> None, enrolling |-> FALSE, right |-> FALSE,
         read |-> NewAccount, step |-> Never]

TypeOK ==
  /\ account \in Account
  /\ session \in [Sessions -> [state : {"none", "open", "closed"}, mfa : BOOLEAN]]
  /\ secrets \in 0 .. MaxSecrets
  /\ time \in Start .. MaxTime
  /\ req \in [Requests -> Local]
  /\ guesses \in Nat
  /\ accepted \subseteq Code
  /\ replayed \in BOOLEAN /\ raced \in BOOLEAN

Init ==
  /\ account = NewAccount
  /\ session = [s \in Sessions |-> [state |-> "none", mfa |-> FALSE]]
  /\ secrets = 0
  /\ time = Start
  /\ req = [r \in Requests |-> Idle]
  /\ guesses = 0
  /\ accepted = {}
  /\ replayed = FALSE /\ raced = FALSE

-----------------------------------------------------------------------------
(* What the requests ask of a row                                          *)

IsLocked(row) == row.lockedUntil > time

\* A mutant: the last step accepted is not looked at.
AcceptableAgain(row, code) ==
  {s \in time - Window .. time + Window : code.secret = row.secret /\ code.step = s}

\* verifyTotp: the steps at which this code of this secret is accepted.
Acceptable(row, code) ==
  {s \in time - Window .. time + Window :
     code.secret = row.secret /\ code.step = s /\ s > row.lastStep}

Goto(r, to) == req' = [req EXCEPT ![r] = to]
Done(r) == Goto(r, Idle)

\* The row written is computed from the row read: another's change is lost.
Overtakes(r) == raced' = (raced \/ account # req[r].read)

-----------------------------------------------------------------------------
(* Password                                                                *)

\* login: the row is read; the password is verified while others go on.
BeginLogin(r) ==
  /\ req[r].pc = "idle"
  /\ ~IsLocked(account)
  /\ \E right \in BOOLEAN :
       Goto(r, [Idle EXCEPT !.pc = "password", !.right = right, !.read = account])
  /\ UNCHANGED <<account, session, secrets, time, guesses, accepted, replayed, raced>>

\* A session that still waits for a code.
OpenSession(r) ==
  /\ req[r].pc = "password" /\ req[r].right
  /\ \E s \in Sessions :
       /\ session[s].state = "none"
       /\ session' = [session EXCEPT ![s].state = "open"]
  /\ Done(r)
  /\ UNCHANGED <<account, secrets, time, guesses, accepted, replayed, raced>>

\* recordFailure: one failure more than it read, or the lock.
Failure(row) ==
  IF row.failed + 1 >= MaxFailedLogins
  THEN [failed |-> 0, lockedUntil |-> time + LockSteps]
  ELSE [failed |-> row.failed + 1, lockedUntil |-> account.lockedUntil]

RecordFailure(r) ==
  /\ req[r].pc = "fail" \/ (req[r].pc = "password" /\ ~req[r].right)
  /\ LET failure == Failure(req[r].read) IN
       /\ account' = [account EXCEPT !.failed = failure.failed, !.lockedUntil = failure.lockedUntil]
       /\ guesses' = IF req[r].read.failed + 1 >= MaxFailedLogins THEN 0 ELSE guesses + 1
  /\ Overtakes(r)
  /\ Done(r)
  /\ UNCHANGED <<session, secrets, time, accepted, replayed>>

-----------------------------------------------------------------------------
(* Authenticator                                                           *)

\* StaffGuard on the routes open before the second factor: the session and
\* whether the authenticator is still to be enrolled.
Guard(r) ==
  /\ req[r].pc = "idle"
  /\ \E s \in Sessions, to \in {"setup", "confirm", "logout"} :
       /\ session[s].state = "open"
       /\ Goto(r, [Idle EXCEPT !.pc = to, !.session = s, !.enrolling = ~account.enabled])
  /\ UNCHANGED <<account, session, secrets, time, guesses, accepted, replayed, raced>>

\* A mutant: an enrolled account may set up another authenticator.
MayAlwaysSetUp(r) == TRUE
\* setupTotp goes by what the guard knew.
MaySetUp(r) == req[r].enrolling

SetupTotp(r) ==
  /\ req[r].pc = "setup"
  /\ IF MaySetUp(r)
     THEN /\ secrets < MaxSecrets
          /\ secrets' = secrets + 1
          /\ account' = [account EXCEPT !.secret = secrets + 1]
          /\ raced' = (raced \/ (req[r].enrolling /\ account.enabled))
     ELSE UNCHANGED <<account, secrets, raced>>
  /\ Done(r)
  /\ UNCHANGED <<session, time, guesses, accepted, replayed>>

\* confirmTotp reads the row again and checks the code against it.
Refused(row) == IsLocked(row) \/ row.secret = Never

CheckCode(r) ==
  /\ req[r].pc = "confirm"
  /\ \E code \in Code \cup {WrongCode} :
       /\ code.secret <= secrets
       /\ IF Refused(account) THEN Done(r)
          ELSE IF Acceptable(account, code) = {}
               THEN Goto(r, [req[r] EXCEPT !.pc = "fail", !.read = account])
               ELSE \E s \in Acceptable(account, code) :
                      Goto(r, [req[r] EXCEPT !.pc = "accept", !.read = account, !.step = s])
  /\ UNCHANGED <<account, session, secrets, time, guesses, accepted, replayed, raced>>

\* A mutant: a success leaves the count.
SucceedOnly(row, step) == [row EXCEPT !.lastStep = step, !.enabled = TRUE, !.lockedUntil = Never]

Succeed(row, step) ==
  [row EXCEPT !.lastStep = step, !.enabled = TRUE, !.failed = 0, !.lockedUntil = Never]

AcceptCode(r) ==
  /\ req[r].pc = "accept"
  /\ account' = Succeed(account, req[r].step)
  /\ session' = [session EXCEPT ![req[r].session].mfa = TRUE]
  /\ LET code == [secret |-> req[r].read.secret, step |-> req[r].step] IN
       /\ accepted' = accepted \cup {code}
       /\ replayed' = (replayed \/ code \in accepted)
  /\ guesses' = 0
  /\ Overtakes(r)
  /\ Done(r)
  /\ UNCHANGED <<secrets, time>>

-----------------------------------------------------------------------------
(* The end of a session, and time                                          *)

Logout(r) ==
  /\ req[r].pc = "logout"
  /\ session' = [session EXCEPT ![req[r].session].state = "closed"]
  /\ Done(r)
  /\ UNCHANGED <<account, secrets, time, guesses, accepted, replayed, raced>>

\* Idle for too long, or past its hours.
Expire(s) ==
  /\ session[s].state = "open"
  /\ session' = [session EXCEPT ![s].state = "closed"]
  /\ UNCHANGED <<account, secrets, time, req, guesses, accepted, replayed, raced>>

Tick ==
  /\ time < MaxTime
  /\ time' = time + 1
  /\ UNCHANGED <<account, session, secrets, req, guesses, accepted, replayed, raced>>

Serve(r) ==
  \/ BeginLogin(r) \/ OpenSession(r) \/ RecordFailure(r)
  \/ Guard(r) \/ SetupTotp(r) \/ CheckCode(r) \/ AcceptCode(r) \/ Logout(r)

Next == Tick \/ (\E r \in Requests : Serve(r)) \/ (\E s \in Sessions : Expire(s))

Spec == Init /\ [][Next]_vars

-----------------------------------------------------------------------------

\* A code is for single use (totp.ts: a code replayed, or an older one, is
\* refused even while it is still valid), unless a request wrote the account
\* over a change it had not read.
CodesUsedOnce ==
  ~raced => /\ ~replayed
            /\ \A code \in accepted :
                 code.secret = account.secret => code.step <= account.lastStep

\* The second factor in force is one its owner has shown to hold: a secret
\* drawn by another tab or request must not slip in between the code that is
\* checked and the enrolment it completes.
EnrolledSecretProved ==
  account.enabled /\ ~raced => \E code \in accepted : code.secret = account.secret

\* Every wrong password or code brings the lock nearer, whatever other
\* requests do meanwhile.
FailuresAreCounted == ~raced => account.failed = guesses
=============================================================================
