------------------------ MODULE AdministrationProofs ------------------------
(***************************************************************************)
(* Theorems about the staff of the platform: StaffAccess, how they get in, *)
(* for any number of requests, sessions and secrets and any lockout, and   *)
(* Console, what they do there, for any number of tabs, sessions, tokens   *)
(* and requests.  The two share nothing but this module.                   *)
(*                                                                         *)
(* StaffAccess: codes are used once, an authenticator is enrolled by who   *)
(* holds it, failures are counted.                                         *)
(*                                                                         *)
(* Console: the journal tells the settings in force, each entry from the   *)
(* one before, and a tab on its own never has a change refused for its     *)
(* token unless it has gone by what was over.                              *)
(***************************************************************************)
EXTENDS StaffAccess, Console, TLAPS

Row == [failed : Nat, lockedUntil : Nat, secret : Nat, enabled : BOOLEAN, lastStep : Int]

\* What the steps rely on: rows are rows, secrets are numbered as they are drawn.
Typed ==
  /\ account \in Row
  /\ time \in Nat /\ secrets \in Nat /\ guesses \in Nat
  /\ req = [r \in Requests |-> req[r]]
  /\ \A r \in Requests : req[r].read \in Row /\ req[r].read.secret <= secrets
  /\ account.secret <= secrets
  /\ \A code \in accepted : code.secret \in Nat /\ code.step \in Int /\ code.secret <= secrets
  /\ \A r \in Requests : req[r].pc = "accept" =>
       req[r].step \in Int /\ req[r].step > req[r].read.lastStep

IInv == Typed /\ CodesUsedOnce /\ EnrolledSecretProved /\ FailuresAreCounted

-----------------------------------------------------------------------------
(* Steps that leave the account alone                                      *)

\* A request that goes on, with a row it has read before or reads now.
LEMMA RequestGoesOn ==
  ASSUME IInv, NEW r \in Requests, NEW to, Goto(r, to), to.read \in Row, to.read.secret <= secrets,
         to.pc = "accept" => to.step \in Int /\ to.step > to.read.lastStep,
         UNCHANGED <<account, secrets, time, guesses, accepted, replayed, raced>>
  PROVE  IInv'
<1>1. /\ req' = [q \in Requests |-> req'[q]]
      /\ \A q \in Requests : req'[q] = IF q = r THEN to ELSE req[q]
  BY DEF IInv, Typed, Goto
<1>2. Typed'
  BY <1>1 DEF IInv, Typed
<1>3. QED
  BY <1>2 DEF IInv, CodesUsedOnce, EnrolledSecretProved, FailuresAreCounted

LEMMA IdleShape == Idle.pc = "idle" /\ Idle.read \in Row /\ Idle.read.secret = 0
BY DEF Idle, NewAccount, Never, Row

\* The end of a request that leaves the account alone.
LEMMA EndingKeeps ==
  ASSUME IInv, NEW r \in Requests, Done(r),
         UNCHANGED <<account, secrets, time, guesses, accepted, replayed, raced>>
  PROVE  IInv'
<1>1. Idle.read.secret <= secrets
  BY IdleShape DEF IInv, Typed
<1>2. QED
  BY <1>1, IdleShape, RequestGoesOn DEF Done

LEMMA ReadingKeeps ==
  ASSUME IInv, NEW r \in Requests, BeginLogin(r) \/ Guard(r) \/ CheckCode(r)
  PROVE  IInv'
<1>1. CASE BeginLogin(r)
  <2>1. PICK right \in BOOLEAN :
          Goto(r, [Idle EXCEPT !.pc = "password", !.right = right, !.read = account])
    BY <1>1 DEF BeginLogin
  <2> DEFINE to == [Idle EXCEPT !.pc = "password", !.right = right, !.read = account]
  <2>2. to.pc = "password" /\ to.read = account
    BY DEF Idle
  <2>3. account \in Row /\ account.secret <= secrets
    BY DEF IInv, Typed
  <2>4. Goto(r, to)
    BY <2>1
  <2> HIDE DEF to
  <2>5. QED
    BY <1>1, <2>2, <2>3, <2>4, RequestGoesOn DEF BeginLogin
<1>2. CASE Guard(r)
  <2>1. PICK s \in Sessions, pc \in {"setup", "confirm", "logout"} :
          Goto(r, [Idle EXCEPT !.pc = pc, !.session = s, !.enrolling = ~account.enabled])
    BY <1>2 DEF Guard
  <2> DEFINE to == [Idle EXCEPT !.pc = pc, !.session = s, !.enrolling = ~account.enabled]
  <2>2. to.pc # "accept" /\ to.read = Idle.read
    BY DEF Idle
  <2>3. Goto(r, to)
    BY <2>1
  <2> HIDE DEF to
  <2>4. Idle.read.secret <= secrets
    BY IdleShape DEF IInv, Typed
  <2>5. QED
    BY <1>2, <2>2, <2>3, <2>4, IdleShape, RequestGoesOn DEF Guard
<1>3. CASE CheckCode(r)
  <2>1. account \in Row /\ account.secret <= secrets
    BY DEF IInv, Typed
  <2>2. CASE Done(r)
    BY <1>3, <2>2, EndingKeeps DEF CheckCode
  <2>3. CASE Goto(r, [req[r] EXCEPT !.pc = "fail", !.read = account])
    <3> DEFINE to == [req[r] EXCEPT !.pc = "fail", !.read = account]
    <3>1. to.pc = "fail" /\ to.read = account
      BY DEF IInv, Typed
    <3>2. Goto(r, to)
      BY <2>3
    <3> HIDE DEF to
    <3>3. QED
      BY <1>3, <2>1, <3>1, <3>2, RequestGoesOn DEF CheckCode
  <2>4. ASSUME NEW code, NEW s \in Acceptable(account, code),
               Goto(r, [req[r] EXCEPT !.pc = "accept", !.read = account, !.step = s])
        PROVE  IInv'
    <3> DEFINE to == [req[r] EXCEPT !.pc = "accept", !.read = account, !.step = s]
    <3>1. to.read = account /\ to.step = s
      BY DEF IInv, Typed
    <3>2. s \in Int /\ s > account.lastStep
      BY DEF Acceptable, Window, IInv, Typed
    <3>3. Goto(r, to)
      BY <2>4
    <3> HIDE DEF to
    <3>4. QED
      BY <1>3, <2>1, <3>1, <3>2, <3>3, RequestGoesOn DEF CheckCode
  <2>5. QED
    BY <1>3, <2>2, <2>3, <2>4 DEF CheckCode
<1>4. QED
  BY <1>1, <1>2, <1>3

LEMMA ClockKeeps ==
  ASSUME IInv, Tick \/ (\E s \in Sessions : Expire(s)) \/ UNCHANGED vars
  PROVE  IInv'
<1>1. UNCHANGED <<account, req, secrets, guesses, accepted, replayed, raced>>
  BY DEF Tick, Expire, vars
<1>2. time' \in Nat
  BY DEF IInv, Typed, Tick, Expire, vars
<1>3. Typed'
  BY <1>1, <1>2 DEF IInv, Typed
<1>4. QED
  BY <1>1, <1>3 DEF IInv, CodesUsedOnce, EnrolledSecretProved, FailuresAreCounted

-----------------------------------------------------------------------------
(* Steps that write the account                                            *)

LEMMA FailureKeeps ==
  ASSUME IInv, NEW r \in Requests, RecordFailure(r)
  PROVE  IInv'
<1> DEFINE failure == Failure(req[r].read)
<1>1. /\ req' = [q \in Requests |-> req'[q]]
      /\ \A q \in Requests : req'[q] = IF q = r THEN Idle ELSE req[q]
  BY DEF RecordFailure, Done, Goto, IInv, Typed
<1>2. /\ account' = [account EXCEPT !.failed = failure.failed, !.lockedUntil = failure.lockedUntil]
      /\ guesses' = IF req[r].read.failed + 1 >= MaxFailedLogins THEN 0 ELSE guesses + 1
      /\ raced' = (raced \/ account # req[r].read)
      /\ UNCHANGED <<secrets, time, accepted, replayed>>
  BY DEF RecordFailure, Overtakes
<1>3. account \in Row /\ req[r].read \in Row
  BY DEF IInv, Typed
<1>4. failure.failed \in Nat /\ failure.lockedUntil \in Nat
  BY <1>3, LimitAssumption DEF Failure, IInv, Typed, Row
<1>5. failure.failed = IF req[r].read.failed + 1 >= MaxFailedLogins THEN 0 ELSE req[r].read.failed + 1
  BY DEF Failure
<1> HIDE DEF failure
<1>6. /\ account' \in Row /\ account'.failed = failure.failed
      /\ account'.secret = account.secret /\ account'.enabled = account.enabled
      /\ account'.lastStep = account.lastStep
  BY <1>2, <1>3, <1>4 DEF Row
<1>7. guesses' \in Nat
  BY <1>2 DEF IInv, Typed
<1>8. Typed'
  BY <1>1, <1>2, <1>6, <1>7, IdleShape DEF IInv, Typed
<1>9. CodesUsedOnce' /\ EnrolledSecretProved'
  BY <1>2, <1>6 DEF IInv, CodesUsedOnce, EnrolledSecretProved
<1>10. FailuresAreCounted'
  BY <1>2, <1>3, <1>5, <1>6 DEF IInv, FailuresAreCounted, Row
<1>11. QED
  BY <1>8, <1>9, <1>10 DEF IInv

\* A new secret has no code that was ever accepted.
LEMMA SetupKeeps ==
  ASSUME IInv, NEW r \in Requests, SetupTotp(r)
  PROVE  IInv'
<1>1. CASE ~MaySetUp(r)
  <2>1. Done(r) /\ UNCHANGED <<account, secrets, time, guesses, accepted, replayed, raced>>
    BY <1>1 DEF SetupTotp
  <2>2. QED
    BY <2>1, EndingKeeps
<1>2. CASE MaySetUp(r)
  <2>1. /\ req' = [q \in Requests |-> req'[q]]
        /\ \A q \in Requests : req'[q] = IF q = r THEN Idle ELSE req[q]
    BY DEF SetupTotp, Done, Goto, IInv, Typed
  <2>2. /\ secrets' = secrets + 1
        /\ account' = [account EXCEPT !.secret = secrets + 1]
        /\ account.enabled => raced'
        /\ raced => raced'
        /\ UNCHANGED <<time, guesses, accepted, replayed>>
    BY <1>2 DEF SetupTotp, MaySetUp
  <2>3. account \in Row /\ secrets \in Nat
    BY DEF IInv, Typed
  <2>4. /\ account' \in Row /\ account'.secret = secrets + 1
        /\ account'.failed = account.failed /\ account'.enabled = account.enabled
        /\ account'.lastStep = account.lastStep
    BY <2>2, <2>3 DEF Row
  <2>5. \A code \in accepted' : code.secret <= secrets
    BY <2>2 DEF IInv, Typed
  <2>6. Typed'
    <3>1. \A code \in accepted : code.secret <= secrets'
      BY <2>2, <2>3 DEF IInv, Typed
    <3>2. \A q \in Requests : req'[q].read \in Row /\ req'[q].read.secret <= secrets'
      <4>1. \A q \in Requests : req[q].read \in Row /\ req[q].read.secret <= secrets
        BY DEF IInv, Typed
      <4>2. QED
        BY <2>1, <2>2, <2>3, <4>1, IdleShape DEF Row
    <3>3. \A q \in Requests : req'[q].pc = "accept" =>
            req'[q].step \in Int /\ req'[q].step > req'[q].read.lastStep
      BY <2>1, IdleShape DEF IInv, Typed
    <3>4. \A code \in accepted' : code.secret \in Nat /\ code.step \in Int
      BY <2>2 DEF IInv, Typed
    <3>5. secrets' \in Nat /\ account'.secret <= secrets' /\ time' \in Nat /\ guesses' \in Nat
      BY <2>2, <2>3, <2>4 DEF IInv, Typed
    <3>6. QED
      BY <2>1, <2>2, <2>4, <3>1, <3>2, <3>3, <3>4, <3>5 DEF Typed
  <2>7. CodesUsedOnce'
    BY <2>2, <2>3, <2>4, <2>5 DEF IInv, CodesUsedOnce
  <2>8. EnrolledSecretProved' /\ FailuresAreCounted'
    BY <2>2, <2>4 DEF IInv, EnrolledSecretProved, FailuresAreCounted
  <2>9. QED
    BY <2>6, <2>7, <2>8 DEF IInv
<1>3. QED
  BY <1>1, <1>2

\* The code accepted is later than any other of its secret.
LEMMA AcceptKeeps ==
  ASSUME IInv, NEW r \in Requests, AcceptCode(r)
  PROVE  IInv'
<1> DEFINE read == req[r].read
<1> DEFINE step == req[r].step
<1> DEFINE code == [secret |-> read.secret, step |-> step]
<1>1. /\ req' = [q \in Requests |-> req'[q]]
      /\ \A q \in Requests : req'[q] = IF q = r THEN Idle ELSE req[q]
  BY DEF AcceptCode, Done, Goto, IInv, Typed
<1>2. /\ account' = [account EXCEPT !.lastStep = step, !.enabled = TRUE, !.failed = 0,
                                    !.lockedUntil = Never]
      /\ accepted' = accepted \cup {code}
      /\ replayed' = (replayed \/ code \in accepted)
      /\ guesses' = 0
      /\ raced' = (raced \/ account # read)
      /\ UNCHANGED <<secrets, time>>
  BY DEF AcceptCode, Overtakes, Succeed
<1>3. /\ account \in Row /\ read \in Row
      /\ step \in Int /\ step > read.lastStep
      /\ secrets \in Nat /\ account.secret <= secrets
  BY DEF AcceptCode, IInv, Typed
<1>4. code.secret = read.secret /\ code.step = step
  OBVIOUS
<1> HIDE DEF read, step, code
<1>5. /\ account' \in Row /\ account'.failed = 0 /\ account'.secret = account.secret
      /\ account'.enabled /\ account'.lastStep = step
  BY <1>2, <1>3 DEF Row, Never
<1>6. ASSUME ~raced'
      PROVE  CodesUsedOnce' /\ EnrolledSecretProved'
  <2>1. account = read /\ ~raced
    BY <1>2, <1>6
  <2>2. code \notin accepted
    BY <1>3, <1>4, <2>1 DEF IInv, CodesUsedOnce, Row
  <2>3. \A c \in accepted : c.secret = account.secret => c.step <= account.lastStep
    BY <2>1 DEF IInv, CodesUsedOnce
  <2>4. CodesUsedOnce'
    <3>1. ~replayed'
      BY <1>2, <2>1, <2>2 DEF IInv, CodesUsedOnce
    <3>2. ASSUME NEW c \in accepted', c.secret = account'.secret
          PROVE  c.step <= account'.lastStep
      <4>1. CASE c = code
        BY <1>3, <1>4, <1>5, <4>1
      <4>2. CASE c \in accepted
        <5>1. c.step \in Int /\ c.step <= account.lastStep
          BY <1>5, <2>3, <3>2, <4>2 DEF IInv, Typed
        <5>2. account.lastStep \in Int
          BY <1>3 DEF Row
        <5>3. QED
          BY <1>3, <1>5, <2>1, <5>1, <5>2
      <4>3. QED
        BY <1>2, <3>2, <4>1, <4>2
    <3>3. QED
      BY <3>1, <3>2 DEF CodesUsedOnce
  <2>5. EnrolledSecretProved'
    BY <1>2, <1>4, <1>5, <2>1 DEF EnrolledSecretProved
  <2>6. CodesUsedOnce' /\ EnrolledSecretProved'
    BY <2>4, <2>5
  <2>7. QED
    BY <2>6
<1>7. CodesUsedOnce' /\ EnrolledSecretProved'
  BY <1>6 DEF CodesUsedOnce, EnrolledSecretProved
<1>8. FailuresAreCounted'
  BY <1>2, <1>5 DEF FailuresAreCounted
<1>9. Typed'
  <2>1. \A c \in accepted' : c.secret \in Nat /\ c.step \in Int /\ c.secret <= secrets
    <3>1. \A c \in accepted : c.secret \in Nat /\ c.step \in Int /\ c.secret <= secrets
      BY DEF IInv, Typed
    <3>2. read.secret <= secrets
      BY DEF IInv, Typed, read
    <3>3. QED
      BY <1>2, <1>3, <1>4, <3>1, <3>2 DEF Row
  <2>2. QED
    BY <1>1, <1>2, <1>3, <1>5, <2>1, IdleShape DEF IInv, Typed
<1>10. QED
  BY <1>7, <1>8, <1>9 DEF IInv

-----------------------------------------------------------------------------
(* The theorems                                                            *)

LEMMA Initially == Init => IInv
<1> SUFFICES ASSUME Init PROVE IInv
  OBVIOUS
<1>1. account \in Row /\ account.secret = 0 /\ ~account.enabled /\ account.failed = 0
  BY DEF Init, NewAccount, Never, Row
<1>2. Typed
  BY <1>1, IdleShape DEF Init, Typed, Start
<1>3. CodesUsedOnce /\ EnrolledSecretProved /\ FailuresAreCounted
  BY <1>1 DEF Init, CodesUsedOnce, EnrolledSecretProved, FailuresAreCounted
<1>4. QED
  BY <1>2, <1>3 DEF IInv

LEMMA Inductive == IInv /\ [Next]_vars => IInv'
<1> SUFFICES ASSUME IInv, [Next]_vars PROVE IInv'
  OBVIOUS
<1>1. ASSUME NEW r \in Requests, Serve(r)
      PROVE  IInv'
  <2>1. CASE OpenSession(r) \/ Logout(r)
    BY <2>1, EndingKeeps DEF OpenSession, Logout
  <2>2. QED
    BY <1>1, <2>1, ReadingKeeps, FailureKeeps, SetupKeeps, AcceptKeeps DEF Serve
<1>2. QED
  BY <1>1, ClockKeeps DEF Next

LEMMA Always == Spec => []IInv
BY Initially, Inductive, PTL DEF Spec

\* A code opens one session at most, unless a request wrote the account over a change it
\* had not read: requests that do not overlap have this for any number of them.
THEOREM CodesOnce == Spec => []CodesUsedOnce
<1>1. IInv => CodesUsedOnce
  BY DEF IInv
<1>2. QED
  BY <1>1, Always, PTL

\* The second factor in force is one that was shown to be held, under the same condition.
THEOREM EnrolmentProved == Spec => []EnrolledSecretProved
<1>1. IInv => EnrolledSecretProved
  BY DEF IInv
<1>2. QED
  BY <1>1, Always, PTL

\* The failures stored are the wrong guesses made, under the same condition.
THEOREM FailuresCounted == Spec => []FailuresAreCounted
<1>1. IInv => FailuresAreCounted
  BY DEF IInv
<1>2. QED
  BY <1>1, Always, PTL

-----------------------------------------------------------------------------
(* Types                                                                   *)

\* What a request has from the step it is at: a session, and a code of the secret it read.
Carrying(q) ==
  /\ q.pc \in {"setup", "confirm", "accept", "logout"} => q.session \in Sessions
  /\ q.pc = "accept" => q.read.secret # Never /\ q.step # Never

StaffTyped == TypeOK /\ \A r \in Requests : Carrying(req[r])

LEMMA StaffConstants ==
  /\ MaxFailedLogins \in Nat /\ MaxFailedLogins >= 1 /\ LockSteps \in Nat
  /\ MaxSecrets \in Nat /\ MaxTime \in Nat /\ MaxTime >= 2
  /\ Never = 0 /\ Window = 1 /\ Start = 2
BY LimitAssumption, BoundAssumption DEF Never, Window, Start

LEMMA IdleCarries == NewAccount \in Account /\ Idle \in Local /\ Carrying(Idle)
<1>1. NewAccount \in Account
  BY StaffConstants DEF NewAccount, Account
<1>2. QED
  BY <1>1, StaffConstants DEF Idle, Local, Carrying

\* A request goes on, the others stay.
LEMMA RequestTyped ==
  ASSUME StaffTyped, NEW r \in Requests, NEW to \in Local, Carrying(to), Goto(r, to)
  PROVE  req' \in [Requests -> Local] /\ \A q \in Requests : Carrying(req'[q])
BY DEF StaffTyped, TypeOK, Goto

LEMMA AccountStands ==
  ASSUME StaffTyped, NEW r \in Requests, NEW to \in Local, Carrying(to), Goto(r, to),
         UNCHANGED <<account, secrets, time, guesses, accepted, replayed, raced>>,
         session' \in [Sessions -> [state : {"none", "open", "closed"}, mfa : BOOLEAN]]
  PROVE  StaffTyped'
BY RequestTyped DEF StaffTyped, TypeOK

LEMMA ReadersTyped ==
  ASSUME StaffTyped, NEW r \in Requests, BeginLogin(r) \/ Guard(r) \/ CheckCode(r)
  PROVE  StaffTyped'
<1>1. /\ account \in Account /\ req[r] \in Local /\ Carrying(req[r]) /\ time \in Start .. MaxTime
      /\ UNCHANGED <<account, session, secrets, time, guesses, accepted, replayed, raced>>
      /\ session' \in [Sessions -> [state : {"none", "open", "closed"}, mfa : BOOLEAN]]
  BY DEF StaffTyped, TypeOK, BeginLogin, Guard, CheckCode
<1>2. ASSUME NEW to \in Local, Carrying(to), Goto(r, to)
      PROVE  StaffTyped'
  BY <1>1, <1>2, AccountStands
<1>3. CASE BeginLogin(r)
  <2>1. PICK right \in BOOLEAN :
          Goto(r, [Idle EXCEPT !.pc = "password", !.right = right, !.read = account])
    BY <1>3 DEF BeginLogin
  <2> DEFINE to == [Idle EXCEPT !.pc = "password", !.right = right, !.read = account]
  <2>2. to \in Local /\ Carrying(to)
    BY <1>1, IdleCarries DEF Local, Carrying
  <2>3. Goto(r, to)
    BY <2>1
  <2> HIDE DEF to
  <2>4. QED
    BY <1>2, <2>2, <2>3
<1>4. CASE Guard(r)
  <2>1. PICK s \in Sessions, pc \in {"setup", "confirm", "logout"} :
          Goto(r, [Idle EXCEPT !.pc = pc, !.session = s, !.enrolling = ~account.enabled])
    BY <1>4 DEF Guard
  <2> DEFINE to == [Idle EXCEPT !.pc = pc, !.session = s, !.enrolling = ~account.enabled]
  <2>2. (~account.enabled) \in BOOLEAN
    OBVIOUS
  <2>3. to \in Local /\ Carrying(to)
    BY <2>2, IdleCarries DEF Local, Carrying
  <2>4. Goto(r, to)
    BY <2>1
  <2> HIDE DEF to
  <2>5. QED
    BY <1>2, <2>3, <2>4
<1>5. CASE CheckCode(r)
  <2>1. req[r].pc = "confirm" /\ req[r].session \in Sessions
    BY <1>1, <1>5 DEF CheckCode, Carrying
  <2>2. CASE Done(r)
    BY <1>2, <2>2, IdleCarries DEF Done
  <2>3. CASE Goto(r, [req[r] EXCEPT !.pc = "fail", !.read = account])
    <3> DEFINE to == [req[r] EXCEPT !.pc = "fail", !.read = account]
    <3>1. to \in Local /\ Carrying(to)
      BY <1>1 DEF Local, Carrying
    <3>2. Goto(r, to)
      BY <2>3
    <3> HIDE DEF to
    <3>3. QED
      BY <1>2, <3>1, <3>2
  <2>4. ASSUME ~Refused(account), NEW code, NEW s \in Acceptable(account, code),
               Goto(r, [req[r] EXCEPT !.pc = "accept", !.read = account, !.step = s])
        PROVE  StaffTyped'
    <3> DEFINE to == [req[r] EXCEPT !.pc = "accept", !.read = account, !.step = s]
    <3>1. account.secret # Never
      BY <2>4 DEF Refused
    <3>2. s \in 0 .. MaxTime + Window /\ s # Never
      BY <1>1, <2>4, StaffConstants DEF Acceptable
    <3>3. to \in Local /\ Carrying(to)
      BY <1>1, <2>1, <3>1, <3>2 DEF Local, Carrying
    <3>4. Goto(r, to)
      BY <2>4
    <3> HIDE DEF to
    <3>5. QED
      BY <1>2, <3>3, <3>4
  <2>5. QED
    BY <1>5, <2>2, <2>3, <2>4 DEF CheckCode
<1>6. QED
  BY <1>3, <1>4, <1>5

LEMMA WritersTyped ==
  ASSUME StaffTyped, NEW r \in Requests, RecordFailure(r) \/ SetupTotp(r) \/ AcceptCode(r)
  PROVE  StaffTyped'
<1>1. /\ account \in Account /\ req[r] \in Local /\ Carrying(req[r]) /\ time \in Start .. MaxTime
      /\ session \in [Sessions -> [state : {"none", "open", "closed"}, mfa : BOOLEAN]]
      /\ secrets \in 0 .. MaxSecrets /\ guesses \in Nat /\ accepted \subseteq Code
      /\ replayed \in BOOLEAN /\ raced \in BOOLEAN
      /\ req[r].read \in Account
  BY DEF StaffTyped, TypeOK, Local
<1>2. /\ time' = time /\ req' \in [Requests -> Local]
      /\ \A q \in Requests : Carrying(req'[q])
  BY IdleCarries, RequestTyped DEF RecordFailure, SetupTotp, AcceptCode, Done
<1>3. CASE RecordFailure(r)
  <2> DEFINE failure == Failure(req[r].read)
  <2>1. /\ failure.failed \in 0 .. MaxFailedLogins - 1
        /\ failure.lockedUntil \in 0 .. MaxTime + LockSteps
    <3>1. CASE req[r].read.failed + 1 >= MaxFailedLogins
      BY <1>1, <3>1, StaffConstants DEF Failure
    <3>2. CASE ~(req[r].read.failed + 1 >= MaxFailedLogins)
      BY <1>1, <3>2, StaffConstants DEF Failure, Account
    <3>3. QED
      BY <3>1, <3>2
  <2>2. /\ account' = [account EXCEPT !.failed = failure.failed, !.lockedUntil = failure.lockedUntil]
        /\ guesses' = IF req[r].read.failed + 1 >= MaxFailedLogins THEN 0 ELSE guesses + 1
        /\ raced' = (raced \/ account # req[r].read)
        /\ UNCHANGED <<session, secrets, accepted, replayed>>
    BY <1>3 DEF RecordFailure, Overtakes
  <2> HIDE DEF failure
  <2>3. account' \in Account /\ guesses' \in Nat /\ raced' \in BOOLEAN
    <3>1. account' \in Account
      BY <1>1, <2>1, <2>2 DEF Account
    <3>2. guesses' \in Nat
      BY <1>1, <2>2
    <3>3. raced' \in BOOLEAN
      BY <1>1, <2>2
    <3>4. QED
      BY <3>1, <3>2, <3>3
  <2>4. QED
    BY <1>1, <1>2, <2>2, <2>3 DEF StaffTyped, TypeOK
<1>4. CASE SetupTotp(r)
  <2>1. UNCHANGED <<session, guesses, accepted, replayed>>
    BY <1>4 DEF SetupTotp
  <2>2. CASE MaySetUp(r)
    <3>1. /\ secrets < MaxSecrets /\ secrets' = secrets + 1
          /\ account' = [account EXCEPT !.secret = secrets + 1]
          /\ raced' = (raced \/ (req[r].enrolling /\ account.enabled))
      BY <1>4, <2>2 DEF SetupTotp
    <3>2. secrets' \in 0 .. MaxSecrets /\ raced' \in BOOLEAN
      BY <1>1, <3>1, StaffConstants
    <3>3. account' \in Account
      BY <1>1, <3>1, StaffConstants DEF Account
    <3>4. QED
      BY <1>1, <1>2, <2>1, <3>2, <3>3 DEF StaffTyped, TypeOK
  <2>3. CASE ~MaySetUp(r)
    BY <1>1, <1>2, <1>4, <2>1, <2>3 DEF SetupTotp, StaffTyped, TypeOK
  <2>4. QED
    BY <2>2, <2>3
<1>5. CASE AcceptCode(r)
  <2> DEFINE step == req[r].step
             code == [secret |-> req[r].read.secret, step |-> req[r].step]
  <2>1. /\ req[r].session \in Sessions /\ req[r].read.secret # Never /\ step # Never
        /\ account' = [account EXCEPT !.lastStep = step, !.enabled = TRUE, !.failed = 0,
                                      !.lockedUntil = Never]
        /\ session' = [session EXCEPT ![req[r].session].mfa = TRUE]
        /\ accepted' = accepted \cup {code}
        /\ replayed' = (replayed \/ code \in accepted)
        /\ raced' = (raced \/ account # req[r].read)
        /\ guesses' = 0 /\ secrets' = secrets
    BY <1>1, <1>5 DEF AcceptCode, Carrying, Overtakes, Succeed
  <2>2. code \in Code
    <3>1. step \in 0 .. MaxTime + Window /\ req[r].read.secret \in 0 .. MaxSecrets
      BY <1>1 DEF Local, Account
    <3>2. QED
      BY <2>1, <3>1, StaffConstants DEF Code
  <2>3. account' \in Account
    <3>1. step \in 0 .. MaxTime + Window
      BY <1>1 DEF Local
    <3>2. 0 \in 0 .. MaxFailedLogins - 1 /\ Never \in 0 .. MaxTime + LockSteps
      BY StaffConstants
    <3> HIDE DEF step
    <3>3. QED
      BY <1>1, <2>1, <3>1, <3>2 DEF Account
  <2> HIDE DEF code, step
  <2>4. session' \in [Sessions -> [state : {"none", "open", "closed"}, mfa : BOOLEAN]]
    BY <1>1, <2>1
  <2>5. accepted' \subseteq Code /\ replayed' \in BOOLEAN /\ raced' \in BOOLEAN /\ guesses' \in Nat
    BY <1>1, <2>1, <2>2
  <2>6. QED
    BY <1>1, <1>2, <2>1, <2>3, <2>4, <2>5 DEF StaffTyped, TypeOK
<1>6. QED
  BY <1>3, <1>4, <1>5

LEMMA SessionsTyped ==
  ASSUME StaffTyped, NEW s \in Sessions, NEW state \in {"open", "closed"},
         session' = [session EXCEPT ![s].state = state]
  PROVE  session' \in [Sessions -> [state : {"none", "open", "closed"}, mfa : BOOLEAN]]
BY DEF StaffTyped, TypeOK

\* The account, its sessions and the requests that read it keep their types, for any lockout
\* and any number of sessions and requests: a request that is to accept a code has a session
\* and read a secret.
THEOREM StaffTypeCorrect == Spec => []TypeOK
<1>1. Init => StaffTyped
  <2> SUFFICES ASSUME Init PROVE StaffTyped
    OBVIOUS
  <2>1. /\ account \in Account /\ time \in Start .. MaxTime /\ secrets \in 0 .. MaxSecrets
        /\ guesses \in Nat /\ accepted \subseteq Code
    BY StaffConstants, IdleCarries DEF Init
  <2>2. session \in [Sessions -> [state : {"none", "open", "closed"}, mfa : BOOLEAN]]
    BY DEF Init
  <2>3. req \in [Requests -> Local] /\ \A r \in Requests : Carrying(req[r])
    BY IdleCarries DEF Init
  <2>4. replayed \in BOOLEAN /\ raced \in BOOLEAN
    BY DEF Init
  <2>5. QED
    BY <2>1, <2>2, <2>3, <2>4 DEF StaffTyped, TypeOK
<1>2. StaffTyped /\ [Next]_vars => StaffTyped'
  <2> SUFFICES ASSUME StaffTyped, [Next]_vars PROVE StaffTyped'
    OBVIOUS
  <2>1. CASE Tick
    <3>1. time' \in Start .. MaxTime
      BY <2>1, StaffConstants DEF Tick, StaffTyped, TypeOK
    <3>2. QED
      BY <2>1, <3>1 DEF Tick, StaffTyped, TypeOK
  <2>2. ASSUME NEW s \in Sessions, Expire(s)
        PROVE  StaffTyped'
    BY <2>2, SessionsTyped DEF Expire, StaffTyped, TypeOK
  <2>3. ASSUME NEW r \in Requests, OpenSession(r)
        PROVE  StaffTyped'
    <3>1. PICK s \in Sessions : session' = [session EXCEPT ![s].state = "open"]
      BY <2>3 DEF OpenSession
    <3>2. QED
      BY <2>3, <3>1, SessionsTyped, IdleCarries, AccountStands DEF OpenSession, Done
  <2>4. ASSUME NEW r \in Requests, Logout(r)
        PROVE  StaffTyped'
    <3>1. req[r].session \in Sessions
      BY <2>4 DEF Logout, StaffTyped, Carrying
    <3>2. QED
      BY <2>4, <3>1, SessionsTyped, IdleCarries, AccountStands DEF Logout, Done
  <2>5. CASE UNCHANGED vars
    BY <2>5 DEF vars, StaffTyped, TypeOK
  <2>6. QED
    BY <2>1, <2>2, <2>3, <2>4, <2>5, ReadersTyped, WritersTyped DEF Next, Serve
<1>3. StaffTyped => TypeOK
  BY DEF StaffTyped
<1>4. QED
  BY <1>1, <1>2, <1>3, PTL DEF Spec

-----------------------------------------------------------------------------
(***************************************************************************)
(* The console                                                             *)
(***************************************************************************)

Asks == [Uses -> Request]
TabView == [screen : Screens, pending : BOOLEAN, token : 0 .. MaxTokens, cache : Caches]

\* The requests and answers that the tabs exchange with the server are what they look like.
LEMMA NothingAsked ==
  /\ Nothing \in Request
  /\ Nothing.at = "none" /\ Nothing.kind = "page" /\ Nothing.session = Null
  /\ Nothing.answer = "none"
BY InstanceAssumption DEF Nothing, Request, Kinds, NoToken

LEMMA AskedSo ==
  ASSUME ConsoleTypeOK, NEW t \in Tabs, NEW kind \in Kinds
  PROVE  /\ Sent(t, kind) \in Request
         /\ Sent(t, kind).at = "sent" /\ Sent(t, kind).kind = kind
         /\ Sent(t, kind).session = cookie /\ Sent(t, kind).answer = "none"
         /\ kind \notin {"page", "login"} => Sent(t, kind).token = tab[t].token
<1> DEFINE token == IF kind \in {"page", "login"} THEN NoToken ELSE tab[t].token
           n1 == [Nothing EXCEPT !.at = "sent"]
           n2 == [n1 EXCEPT !.kind = kind]
           n3 == [n2 EXCEPT !.session = cookie]
           n4 == [n3 EXCEPT !.token = token]
<1>1. token \in 0 .. MaxTokens
  BY InstanceAssumption DEF ConsoleTypeOK, NoToken
<1>2. n4 = Sent(t, kind)
  BY Zenon DEF Sent
<1>3. n1 \in Request /\ n1.at = "sent" /\ n1.answer = "none"
  BY NothingAsked DEF Request
<1> HIDE DEF n1, token
<1>4. n2 \in Request /\ n2.at = "sent" /\ n2.kind = kind /\ n2.answer = "none"
  BY <1>3 DEF Request
<1> HIDE DEF n2
<1>5. n3 \in Request /\ n3.at = "sent" /\ n3.kind = kind /\ n3.session = cookie /\ n3.answer = "none"
  BY <1>4 DEF ConsoleTypeOK, Request
<1> HIDE DEF n3
<1>6. /\ n4 \in Request /\ n4.at = "sent" /\ n4.kind = kind /\ n4.session = cookie
      /\ n4.token = token /\ n4.answer = "none"
  BY <1>1, <1>5 DEF Request
<1> HIDE DEF n4
<1>7. QED
  BY <1>2, <1>6 DEF token

LEMMA ToldSo ==
  ASSUME NEW request \in Request, NEW answer \in {"ok", "login", "mfa", "csrf", "refused", "lost"}
  PROVE  /\ Told(request, answer) \in Request
         /\ Told(request, answer).at = "answered" /\ Told(request, answer).answer = answer
         /\ Told(request, answer).session = request.session
         /\ Told(request, answer).kind = IF request.kind \in Permitted THEN "change" ELSE request.kind
<1> DEFINE kind == IF request.kind \in Permitted THEN "change" ELSE request.kind
           n1 == [Nothing EXCEPT !.at = "answered"]
           n2 == [n1 EXCEPT !.session = request.session]
           n3 == [n2 EXCEPT !.answer = answer]
           n4 == [n3 EXCEPT !.kind = kind]
<1>1. kind \in Kinds
  BY DEF Request, Kinds
<1>2. n4 = Told(request, answer)
  BY Zenon DEF Told
<1>3. n1 \in Request /\ n1.at = "answered"
  BY NothingAsked DEF Request
<1> HIDE DEF n1, kind
<1>4. n2 \in Request /\ n2.at = "answered" /\ n2.session = request.session
  <2>1. request.session \in StaffSessions \cup {Null}
    BY DEF Request
  <2>2. QED
    BY <1>3, <2>1 DEF Request
<1> HIDE DEF n2
<1>5. n3 \in Request /\ n3.at = "answered" /\ n3.session = request.session /\ n3.answer = answer
  BY <1>4 DEF Request
<1> HIDE DEF n3
<1>6. /\ n4 \in Request /\ n4.at = "answered" /\ n4.session = request.session
      /\ n4.answer = answer /\ n4.kind = kind
  BY <1>1, <1>5 DEF Request
<1> HIDE DEF n4
<1>7. QED
  BY <1>2, <1>6 DEF kind

LEMMA GivenUp ==
  ASSUME NEW asks \in Asks
  PROVE  /\ GiveUp(asks) \in Asks
         /\ \A u \in Uses \ {"fetch", "dropped"} : GiveUp(asks)[u] = asks[u]
         /\ GiveUp(asks)["dropped"] =
              IF asks["fetch"].at = "none" THEN asks["dropped"] ELSE asks["fetch"]
         /\ GiveUp(asks)["fetch"].at = "none" /\ GiveUp(asks)["fetch"] \in {asks["fetch"], Nothing}
<1>f. "fetch" \in Uses /\ "dropped" \in Uses
  BY DEF Uses
<1>1. CASE asks["fetch"].at = "none"
  BY <1>1, <1>f DEF GiveUp
<1>2. CASE asks["fetch"].at # "none"
  <2>1. GiveUp(asks) = [asks EXCEPT !["dropped"] = asks["fetch"], !["fetch"] = Nothing]
    BY <1>2 DEF GiveUp
  <2>2. asks["fetch"] \in Request
    BY <1>f DEF Asks
  <2>3. QED
    BY <1>2, <1>f, <2>1, <2>2, NothingAsked DEF Asks
<1>3. QED
  BY <1>1, <1>2

LEMMA ReadAgain ==
  ASSUME NEW asks \in Asks, NEW known \in StaffSessions \cup {Null}
  PROVE  /\ Reread(asks, known) \in Asks
         /\ \A u \in Uses \ {"fetch", "dropped"} : Reread(asks, known)[u] = asks[u]
         /\ Reread(asks, known)["dropped"] =
              IF asks["fetch"].at = "none" THEN asks["dropped"] ELSE asks["fetch"]
         /\ Reread(asks, known)["fetch"].at = "sent"
         /\ Reread(asks, known)["fetch"].kind = "session"
         /\ Reread(asks, known)["fetch"].session = known
         /\ Reread(asks, known)["fetch"].answer = "none"
<1> DEFINE read == [Nothing EXCEPT !.at = "sent", !.kind = "session", !.session = known]
           given == GiveUp(asks)
           n1 == [Nothing EXCEPT !.at = "sent"]
           n2 == [n1 EXCEPT !.kind = "session"]
           n3 == [n2 EXCEPT !.session = known]
<1>1. n1 \in Request /\ n1.at = "sent" /\ n1.answer = "none"
  BY NothingAsked DEF Request
<1> HIDE DEF n1
<1>2. n2 \in Request /\ n2.at = "sent" /\ n2.kind = "session" /\ n2.answer = "none"
  BY <1>1 DEF Request, Kinds
<1> HIDE DEF n2
<1>3. /\ n3 \in Request /\ n3.at = "sent" /\ n3.kind = "session" /\ n3.session = known
      /\ n3.answer = "none"
  BY <1>2 DEF Request
<1> HIDE DEF n3
<1>4. read = n3
  BY DEF n1, n2, n3
<1>5. Reread(asks, known) = [given EXCEPT !["fetch"] = read]
  BY DEF Reread
<1> HIDE DEF read
<1>6. /\ given \in Asks
      /\ \A u \in Uses \ {"fetch", "dropped"} : given[u] = asks[u]
      /\ given["dropped"] = IF asks["fetch"].at = "none" THEN asks["dropped"] ELSE asks["fetch"]
  BY GivenUp
<1> HIDE DEF given
<1>7. QED
  BY <1>3, <1>4, <1>5, <1>6 DEF Asks, Uses

\* One tab goes on with its requests, as they are now.
Moves(t, asks) ==
  /\ net' \in [Tabs -> Asks]
  /\ net'[t] = asks
  /\ \A o \in Tabs \ {t} : net'[o] = net[o]

LEMMA TabMoves ==
  ASSUME ConsoleTypeOK, NEW t \in Tabs, NEW asks \in Asks, net' = [net EXCEPT ![t] = asks]
  PROVE  Moves(t, asks)
BY DEF ConsoleTypeOK, Moves, Asks

LEMMA PutMoves ==
  ASSUME ConsoleTypeOK, NEW t \in Tabs, NEW u \in Uses, NEW request \in Request, Put(t, u, request)
  PROVE  Moves(t, [net[t] EXCEPT ![u] = request])
<1>1. [net[t] EXCEPT ![u] = request] \in Asks
  BY DEF ConsoleTypeOK, Asks
<1>2. net' = [net EXCEPT ![t] = [net[t] EXCEPT ![u] = request]]
  BY DEF Put, ConsoleTypeOK
<1>3. QED
  BY <1>1, <1>2, TabMoves

LEMMA FreedSo ==
  ASSUME ConsoleTypeOK, NEW t \in Tabs, NEW u \in Uses
  PROVE  /\ Freed(t, u) \in Asks /\ Freed(t, u)[u] = Nothing
         /\ \A v \in Uses \ {u} : Freed(t, u)[v] = net[t][v]
BY NothingAsked DEF ConsoleTypeOK, Freed, Asks

LEMMA ProposedSo ==
  ASSUME ConsoleTypeOK, NEW t \in Tabs, NEW kind \in Permitted, NEW value \in Setting
  PROVE  LET q == [Sent(t, kind) EXCEPT !.value = value] IN
         /\ q \in Request /\ q.at = "sent" /\ q.kind = kind /\ q.session = cookie
         /\ q.answer = "none" /\ q.token = tab[t].token
<1> DEFINE sent == Sent(t, kind)
<1>1. /\ sent \in Request /\ sent.at = "sent" /\ sent.kind = kind /\ sent.session = cookie
      /\ sent.answer = "none" /\ sent.token = tab[t].token
  BY AskedSo, PermittedAssumption DEF Kinds, Settings, OnUser
<1> HIDE DEF sent
<1> DEFINE q == [sent EXCEPT !.value = value]
<1>2. /\ q \in Request /\ q.at = "sent" /\ q.kind = kind /\ q.session = cookie
      /\ q.answer = "none" /\ q.token = tab[t].token
  BY <1>1 DEF Request, Setting
<1>3. QED
  BY <1>2 DEF sent

LEMMA CheckedSo ==
  ASSUME NEW request \in Request, NEW known \in BOOLEAN
  PROVE  LET q == [request EXCEPT !.at = "checked", !.token = NoToken, !.mfa = known] IN
         /\ q \in Request /\ q.at = "checked" /\ q.kind = request.kind
         /\ q.session = request.session /\ q.answer = request.answer
<1> DEFINE n1 == [request EXCEPT !.at = "checked"]
           n2 == [n1 EXCEPT !.token = NoToken]
           n3 == [n2 EXCEPT !.mfa = known]
           Kept(n) == /\ n \in Request /\ n.at = "checked" /\ n.kind = request.kind
                      /\ n.session = request.session /\ n.answer = request.answer
<1>1. Kept(n1)
  BY DEF Request
<1> HIDE DEF n1
<1>2. Kept(n2)
  BY <1>1, InstanceAssumption DEF Request, NoToken
<1> HIDE DEF n2
<1>3. Kept(n3)
  BY <1>2 DEF Request
<1>4. QED
  BY <1>3 DEF n1, n2, n3

LEMMA ReadSo ==
  ASSUME NEW request \in Request, NEW n \in 0 .. MaxTokens
  PROVE  LET q == [Told(request, "ok") EXCEPT !.token = n, !.mfa = request.mfa] IN
         /\ q \in Request /\ q.at = "answered" /\ q.session = request.session
         /\ q.kind = IF request.kind \in Permitted THEN "change" ELSE request.kind
         /\ q.answer = "ok" /\ q.token = n
<1> DEFINE told == Told(request, "ok")
<1>1. /\ told \in Request /\ told.at = "answered" /\ told.session = request.session
      /\ told.kind = IF request.kind \in Permitted THEN "change" ELSE request.kind
      /\ told.answer = "ok"
  BY ToldSo
<1> HIDE DEF told
<1> DEFINE n1 == [told EXCEPT !.token = n]
           n2 == [n1 EXCEPT !.mfa = request.mfa]
<1>2. /\ n1 \in Request /\ n1.at = "answered" /\ n1.session = request.session
      /\ n1.kind = told.kind /\ n1.answer = "ok" /\ n1.token = n
  BY <1>1 DEF Request
<1> HIDE DEF n1
<1>3. /\ n2 \in Request /\ n2.at = "answered" /\ n2.session = request.session
      /\ n2.kind = told.kind /\ n2.answer = "ok" /\ n2.token = n
  BY <1>2 DEF Request
<1> HIDE DEF n2
<1>4. n2 = [Told(request, "ok") EXCEPT !.token = n, !.mfa = request.mfa]
  BY DEF n1, n2, told
<1>5. QED
  BY <1>1, <1>3, <1>4

OpenedFor(request, s, n) == [Told(request, "ok") EXCEPT !.session = s, !.token = n]

LEMMA OpenedSo ==
  ASSUME NEW request \in Request, NEW s \in StaffSessions, NEW n \in 0 .. MaxTokens,
         request.kind = "login"
  PROVE  LET q == OpenedFor(request, s, n) IN
         /\ q \in Request /\ q.at = "answered" /\ q.kind = "login" /\ q.session = s
         /\ q.answer = "ok"
<1> DEFINE told == Told(request, "ok")
<1>1. told \in Request /\ told.at = "answered" /\ told.kind = "login" /\ told.answer = "ok"
  BY ToldSo, PermittedAssumption DEF Settings, OnUser
<1> HIDE DEF told
<1> DEFINE n1 == [told EXCEPT !.session = s]
           n2 == [n1 EXCEPT !.token = n]
<1>2. /\ n1 \in Request /\ n1.at = "answered" /\ n1.kind = "login" /\ n1.session = s
      /\ n1.answer = "ok"
  BY <1>1 DEF Request
<1> HIDE DEF n1
<1>3. /\ n2 \in Request /\ n2.at = "answered" /\ n2.kind = "login" /\ n2.session = s
      /\ n2.answer = "ok"
  BY <1>2 DEF Request
<1>4. QED
  BY <1>3 DEF n1, n2, told, OpenedFor

LEMMA HalfSo ==
  ASSUME NEW request \in Request, NEW value \in Setting
  PROVE  LET q == [request EXCEPT !.at = "half", !.before = value] IN
         /\ q \in Request /\ q.at = "half" /\ q.kind = request.kind /\ q.before = value
         /\ q.session = request.session /\ q.answer = request.answer
BY DEF Request, Setting

\* What the answer of the guard may be.
LEMMA CheckSo == ASSUME NEW q PROVE Check(q) \in {"ok", "login", "mfa", "csrf"}
BY DEF Check

-----------------------------------------------------------------------------
(* What each step does to the requests                                     *)

Spoken(request) == IF request.kind \in Permitted THEN "change" ELSE request.kind

\* What is heard of a request: its answer, or nothing of a stray one.
Heard(u, request, answer, q) ==
  IF u = "stray" THEN q = Nothing
  ELSE /\ q.at = "answered" /\ q.answer = answer
       /\ q.session = request.session /\ q.kind = Spoken(request)

LEMMA ReplyMoves ==
  ASSUME ConsoleTypeOK, NEW t \in Tabs, NEW u \in Uses, NEW told \in Request, Reply(t, u, told)
  PROVE  \E q \in Request : /\ Moves(t, [net[t] EXCEPT ![u] = q])
                            /\ q = IF u = "stray" THEN Nothing ELSE told
<1> DEFINE q == IF u = "stray" THEN Nothing ELSE told
<1>1. q \in Request /\ Put(t, u, q)
  BY NothingAsked DEF Reply
<1> HIDE DEF q
<1>2. Moves(t, [net[t] EXCEPT ![u] = q])
  BY <1>1, PutMoves
<1>3. QED
  BY <1>1, <1>2 DEF q

LEMMA SomeTold ==
  ASSUME ConsoleTypeOK, NEW t \in Tabs, NEW u \in Uses,
         NEW answer \in {"ok", "login", "mfa", "csrf", "refused", "lost"}, Answered(t, u, answer)
  PROVE  \E q \in Request : /\ Moves(t, [net[t] EXCEPT ![u] = q])
                            /\ Heard(u, net[t][u], answer, q)
<1> DEFINE told == Told(net[t][u], answer)
<1>1. net[t][u] \in Request
  BY DEF ConsoleTypeOK
<1>2. /\ told \in Request /\ told.at = "answered" /\ told.answer = answer
      /\ told.session = net[t][u].session /\ told.kind = Spoken(net[t][u])
  BY <1>1, ToldSo DEF Spoken
<1>3. Reply(t, u, told)
  BY DEF Answered
<1> HIDE DEF told
<1>4. QED
  BY <1>2, <1>3, ReplyMoves DEF Heard

\* What the staff sends by itself.
Forms == {"page", "login", "confirm", "logout", "change"}

LEMMA StaffMoves ==
  ASSUME ConsoleTypeOK, NEW t \in Tabs, Staff(t)
  PROVE  \/ /\ Moves(t, Reread(net[t], cookie)) /\ Load(t)
         \/ \E u \in Forms, q \in Request :
              /\ Moves(t, [net[t] EXCEPT ![u] = q])
              /\ q.at = "sent" /\ q.session = cookie /\ q.answer = "none"
              /\ net[t][u].at = "none"
              /\ \/ u = "page" /\ q.kind = "page" /\ OpenPage(t)
                 \/ u = "login" /\ q.kind = "login" /\ SubmitLogin(t)
                 \/ u = "confirm" /\ q.kind = "confirm" /\ SubmitCode(t)
                 \/ u = "logout" /\ q.kind = "logout" /\ Cancel(t)
                 \/ u = "logout" /\ q.kind = "signout" /\ SignOut(t)
                 \/ /\ u = "change" /\ q.kind \in Permitted /\ q.token = tab[t].token
                    /\ tab[t].screen = "console"
                    /\ UNCHANGED <<server, cookie, tab, settings, late>>
<1>1. CASE Load(t)
  <2>1. net[t] \in Asks /\ cookie \in StaffSessions \cup {Null}
    BY DEF ConsoleTypeOK, Asks
  <2>2. Reread(net[t], cookie) \in Asks
    BY <2>1, ReadAgain
  <2>3. net' = [net EXCEPT ![t] = Reread(net[t], cookie)]
    BY <1>1 DEF Load, ConsoleTypeOK
  <2>4. QED
    BY <1>1, <2>2, <2>3, TabMoves
<1>2. ASSUME NEW u \in Forms, NEW kind \in {"page", "login", "confirm", "logout", "signout"},
             Put(t, u, Sent(t, kind))
      PROVE  /\ Sent(t, kind) \in Request /\ Moves(t, [net[t] EXCEPT ![u] = Sent(t, kind)])
             /\ Sent(t, kind).at = "sent" /\ Sent(t, kind).kind = kind
             /\ Sent(t, kind).session = cookie /\ Sent(t, kind).answer = "none"
  <2>1. kind \in Kinds /\ u \in Uses
    BY DEF Kinds, Uses, Forms
  <2>2. QED
    BY <1>2, <2>1, AskedSo, PutMoves
<1>3. CASE OpenPage(t)
  <2>1. Put(t, "page", Sent(t, "page")) /\ net[t]["page"].at = "none" /\ "page" \in Forms
    BY <1>3 DEF OpenPage, Forms
  <2>2. QED
    BY <1>2, <1>3, <2>1
<1>4. CASE SubmitLogin(t)
  <2>1. Put(t, "login", Sent(t, "login")) /\ net[t]["login"].at = "none" /\ "login" \in Forms
    BY <1>4 DEF SubmitLogin, SubmitForm, Forms
  <2>2. QED
    BY <1>2, <1>4, <2>1
<1>5. CASE SubmitCode(t)
  <2>1. /\ Put(t, "confirm", Sent(t, "confirm")) /\ net[t]["confirm"].at = "none"
        /\ "confirm" \in Forms
    BY <1>5 DEF SubmitCode, SubmitForm, Forms
  <2>2. QED
    BY <1>2, <1>5, <2>1
<1>6. CASE Cancel(t)
  <2>1. Put(t, "logout", Sent(t, "logout")) /\ net[t]["logout"].at = "none" /\ "logout" \in Forms
    BY <1>6 DEF Cancel, Submit, Forms
  <2>2. QED
    BY <1>2, <1>6, <2>1
<1>o. CASE SignOut(t)
  <2>1. Put(t, "logout", Sent(t, "signout")) /\ net[t]["logout"].at = "none" /\ "logout" \in Forms
    BY <1>o DEF SignOut, Submit, Forms
  <2>2. QED
    BY <1>2, <1>o, <2>1
<1>7. ASSUME NEW kinds \in SUBSET (Settings \cup OnUser), NEW values \in SUBSET Setting, Propose(t, kinds, values)
      PROVE  \E q \in Request :
               /\ Moves(t, [net[t] EXCEPT !["change"] = q])
               /\ q.at = "sent" /\ q.session = cookie /\ q.answer = "none"
               /\ net[t]["change"].at = "none"
               /\ q.kind \in Permitted /\ q.token = tab[t].token /\ tab[t].screen = "console"
               /\ UNCHANGED <<server, cookie, tab, settings, late>>
  <2>1. PICK kind \in Permitted, value \in Setting :
          Submit(t, "change", [Sent(t, kind) EXCEPT !.value = value])
    BY <1>7 DEF Propose
  <2> DEFINE q == [Sent(t, kind) EXCEPT !.value = value]
  <2>2. /\ q \in Request /\ q.at = "sent" /\ q.kind = kind /\ q.session = cookie
        /\ q.answer = "none" /\ q.token = tab[t].token
    BY ProposedSo
  <2>3. /\ Put(t, "change", q) /\ net[t]["change"].at = "none" /\ tab[t].screen = "console"
        /\ UNCHANGED <<server, cookie, tab, settings, late>>
    BY <1>7, <2>1 DEF Propose, Submit
  <2> HIDE DEF q
  <2>4. Moves(t, [net[t] EXCEPT !["change"] = q])
    BY <2>2, <2>3, PutMoves DEF Uses
  <2>5. QED
    BY <2>2, <2>3, <2>4
<1>8. CASE ChangeFlag(t) \/ ChangeOverride(t) \/ ChangeUser(t)
  <2>1. Values \in SUBSET Setting /\ {Null} \in SUBSET Setting
    BY DEF Setting
  <2>2. \/ Propose(t, {"flag"}, Values) \/ Propose(t, {"set"}, Values)
        \/ Propose(t, {"remove"}, {Null}) \/ Propose(t, OnUser, {Null})
    BY <1>8 DEF ChangeFlag, ChangeOverride, ChangeUser
  <2>t. /\ {"flag"} \in SUBSET (Settings \cup OnUser) /\ {"set"} \in SUBSET (Settings \cup OnUser)
        /\ {"remove"} \in SUBSET (Settings \cup OnUser) /\ OnUser \in SUBSET (Settings \cup OnUser)
    BY DEF Settings, OnUser
  <2>4. \E kinds \in SUBSET (Settings \cup OnUser), values \in SUBSET Setting : Propose(t, kinds, values)
    BY <2>1, <2>2, <2>t
  <2>5. \E q \in Request :
          /\ Moves(t, [net[t] EXCEPT !["change"] = q])
          /\ q.at = "sent" /\ q.session = cookie /\ q.answer = "none"
          /\ net[t]["change"].at = "none"
          /\ q.kind \in Permitted /\ q.token = tab[t].token /\ tab[t].screen = "console"
          /\ UNCHANGED <<server, cookie, tab, settings, late>>
    BY <1>7, <2>4
  <2>3. QED
    BY <2>5 DEF Forms
<1>9. QED
  BY <1>1, <1>3, <1>4, <1>5, <1>6, <1>o, <1>8 DEF Staff

LEMMA GuardMoves ==
  ASSUME ConsoleTypeOK, NEW t \in Tabs, NEW u \in Uses, StaffGuard(t, u)
  PROVE  \E q \in Request :
           /\ Moves(t, [net[t] EXCEPT ![u] = q])
           /\ \/ /\ q.at = "checked" /\ q.kind = net[t][u].kind /\ q.answer = net[t][u].answer
                 /\ q.session = net[t][u].session /\ Check(net[t][u]) = "ok"
              \/ /\ Heard(u, net[t][u], Check(net[t][u]), q)
                 /\ Check(net[t][u]) = "ok" => net[t][u].kind = "page"
<1> DEFINE request == net[t][u]
           known == request.kind = "session" /\ sessions[request.session].mfa
           on == [request EXCEPT !.at = "checked", !.token = NoToken, !.mfa = known]
<1>1. request \in Request
  BY DEF ConsoleTypeOK
<1>2. CASE Check(request) = "ok" /\ request.kind # "page"
  <2>1. Put(t, u, on)
    BY <1>2 DEF StaffGuard
  <2>2. known \in BOOLEAN
    OBVIOUS
  <2> HIDE DEF known
  <2>3. /\ on \in Request /\ on.at = "checked" /\ on.kind = request.kind
        /\ on.session = request.session /\ on.answer = request.answer
    BY <1>1, <2>2, CheckedSo
  <2> HIDE DEF on
  <2>4. QED
    BY <1>2, <2>1, <2>3, PutMoves
<1>3. CASE ~(Check(request) = "ok" /\ request.kind # "page")
  <2>1. Answered(t, u, Check(request))
    BY <1>3 DEF StaffGuard
  <2>2. Check(request) \in {"ok", "login", "mfa", "csrf"}
    BY CheckSo
  <2>3. QED
    BY <1>3, <2>1, <2>2, SomeTold
<1>4. QED
  BY <1>2, <1>3

LEMMA ReadSessionMoves ==
  ASSUME ConsoleTypeOK, NEW t \in Tabs, NEW u \in Uses, ReadSession(t, u)
  PROVE  /\ tokens + 1 \in 0 .. MaxTokens
         /\ \E q \in Request : /\ Moves(t, [net[t] EXCEPT ![u] = q])
                               /\ Heard(u, net[t][u], "ok", q)
                               /\ u # "stray" => q.token = tokens + 1
<1> DEFINE n == tokens + 1
           q == [Told(net[t][u], "ok") EXCEPT !.token = n, !.mfa = net[t][u].mfa]
<1>1. n \in 0 .. MaxTokens
  BY InstanceAssumption DEF ConsoleTypeOK, ReadSession
<1>2. net[t][u] \in Request /\ net[t][u].kind = "session"
  BY DEF ConsoleTypeOK, ReadSession, Handles
<1>3. Reply(t, u, q)
  BY DEF ReadSession
<1> HIDE DEF n
<1>4. /\ q \in Request /\ q.at = "answered" /\ q.session = net[t][u].session
      /\ q.kind = Spoken(net[t][u]) /\ q.answer = "ok" /\ q.token = n
  BY <1>1, <1>2, ReadSo DEF Spoken
<1> HIDE DEF q
<1>5. QED
  BY <1>1, <1>3, <1>4, ReplyMoves DEF n, Heard

Opened == [state |-> "open", mfa |-> FALSE, csrf |-> tokens + 1]

LEMMA LoginMoves ==
  ASSUME ConsoleTypeOK, NEW t \in Tabs, NEW u \in Uses, Login(t, u)
  PROVE  \/ \E s \in StaffSessions, q \in Request :
              /\ Moves(t, [net[t] EXCEPT ![u] = q])
              /\ IF u = "stray" THEN q = Nothing
                 ELSE /\ q.at = "answered" /\ q.kind = "login" /\ q.session = s /\ q.answer = "ok"
              /\ sessions[s].state = "none"
              /\ sessions' = [sessions EXCEPT ![s] = Opened]
              /\ tokens' = tokens + 1 /\ tokens' \in 0 .. MaxTokens
         \/ Answered(t, u, "refused") /\ UNCHANGED server
<1>1. CASE Answered(t, u, "refused") /\ UNCHANGED server
  BY <1>1
<1>2. CASE tokens < MaxTokens /\ ~(Answered(t, u, "refused") /\ UNCHANGED server)
  <2>1. PICK s \in StaffSessions :
          /\ sessions[s].state = "none"
          /\ sessions' = [sessions EXCEPT ![s] = Opened]
          /\ Reply(t, u, OpenedFor(net[t][u], s, tokens + 1))
    BY <1>2 DEF Login, Opened, OpenedFor
  <2>2. tokens + 1 \in 0 .. MaxTokens
    BY <1>2, InstanceAssumption DEF ConsoleTypeOK
  <2>3. net[t][u] \in Request /\ net[t][u].kind = "login"
    BY DEF ConsoleTypeOK, Login
  <2> DEFINE q == OpenedFor(net[t][u], s, tokens + 1)
  <2>4. /\ q \in Request /\ q.at = "answered" /\ q.kind = "login" /\ q.session = s
        /\ q.answer = "ok"
    BY <2>2, <2>3, OpenedSo
  <2>5. Reply(t, u, q)
    BY <2>1
  <2> HIDE DEF q
  <2>6. tokens' = tokens + 1
    BY <1>2 DEF Login
  <2>7. QED
    BY <2>1, <2>2, <2>4, <2>5, <2>6, ReplyMoves
<1>3. QED
  BY <1>1, <1>2 DEF Login

LEMMA ReadFlagMoves ==
  ASSUME ConsoleTypeOK, NEW t \in Tabs, NEW u \in Uses, ReadFlag(t, u)
  PROVE  \E q \in Request :
           /\ Moves(t, [net[t] EXCEPT ![u] = q])
           /\ q.at = "half" /\ q.before = flag /\ q.kind = net[t][u].kind
           /\ q.session = net[t][u].session /\ q.answer = net[t][u].answer
<1> DEFINE q == [net[t][u] EXCEPT !.at = "half", !.before = flag]
<1>1. net[t][u] \in Request /\ flag \in Setting
  BY DEF ConsoleTypeOK
<1>2. /\ q \in Request /\ q.at = "half" /\ q.kind = net[t][u].kind /\ q.before = flag
      /\ q.session = net[t][u].session /\ q.answer = net[t][u].answer
  BY <1>1, HalfSo
<1>3. Put(t, u, q)
  BY DEF ReadFlag
<1> HIDE DEF q
<1>4. QED
  BY <1>1, <1>2, <1>3, PutMoves

\* The upsert of a flag is told to its form, and every other one under way learns that it
\* was overlapped.
LEMMA WriteFlagMoves ==
  ASSUME ConsoleTypeOK, NEW t \in Tabs, NEW u \in Uses, WriteFlag(t, u)
  PROVE  /\ net' \in [Tabs -> Asks]
         /\ Heard(u, net[t][u], "ok", net'[t][u])
         /\ \A o \in Tabs, v \in Uses : <<o, v>> # <<t, u>> =>
              /\ net'[o][v].at = net[o][v].at /\ net'[o][v].kind = net[o][v].kind
              /\ net'[o][v].session = net[o][v].session /\ net'[o][v].answer = net[o][v].answer
              /\ net'[o][v].token = net[o][v].token /\ net'[o][v].mfa = net[o][v].mfa
              /\ net'[o][v].at = "half" => net'[o][v].overlapped
<1> DEFINE told == IF u = "stray" THEN Nothing ELSE Told(net[t][u], "ok")
           over(o, v) == Overlapped(net[o][v])
<1>1. \A o \in Tabs, v \in Uses : net[o][v] \in Request
  BY DEF ConsoleTypeOK
<1>2. told \in Request /\ Heard(u, net[t][u], "ok", told)
  BY <1>1, ToldSo, NothingAsked DEF Spoken, Heard
<1>3. ASSUME NEW o \in Tabs, NEW v \in Uses
      PROVE  /\ over(o, v) \in Request
             /\ over(o, v).at = net[o][v].at /\ over(o, v).kind = net[o][v].kind
             /\ over(o, v).session = net[o][v].session /\ over(o, v).answer = net[o][v].answer
             /\ over(o, v).token = net[o][v].token /\ over(o, v).mfa = net[o][v].mfa
             /\ over(o, v).at = "half" => over(o, v).overlapped
  <2> DEFINE request == net[o][v]
             also == request.overlapped \/ request.at = "half"
  <2>1. request \in Request
    BY <1>1
  <2>2. also \in BOOLEAN
    BY <2>1 DEF Request
  <2>3. request.at = "half" => also
    OBVIOUS
  <2>4. over(o, v) = [request EXCEPT !.overlapped = also]
    BY DEF Overlapped
  <2> HIDE DEF also, request
  <2>5. LET q == [request EXCEPT !.overlapped = also] IN
        /\ q \in Request /\ q.at = request.at /\ q.kind = request.kind
        /\ q.session = request.session /\ q.answer = request.answer
        /\ q.token = request.token /\ q.mfa = request.mfa
        /\ q.at = "half" => q.overlapped
    BY <2>1, <2>2, <2>3 DEF Request
  <2>6. QED
    BY <2>4, <2>5 DEF request
<1>4. net' = [o \in Tabs |-> [v \in Uses |-> IF o = t /\ v = u THEN told ELSE over(o, v)]]
  BY DEF WriteFlag
<1> HIDE DEF told, over
<1>5. QED
  BY <1>2, <1>3, <1>4 DEF Asks

LEMMA InvalidateMoves ==
  ASSUME ConsoleTypeOK, NEW t \in Tabs, NEW requests \in Asks, NEW token,
         NEW known \in StaffSessions \cup {Null}, Invalidate(t, requests, known, token)
  PROVE  Moves(t, IF Settled(t) THEN requests ELSE Reread(requests, known))
BY ReadAgain, TabMoves DEF Invalidate

\* What a tab does with an answer: it is taken, and the session is read again, or given up.
LEMMA ClientMoves ==
  ASSUME ConsoleTypeOK, NEW t \in Tabs, Client(t)
  PROVE  \E u \in Uses, known \in StaffSessions \cup {Null} :
           /\ net[t][u].at = "answered" /\ u # "stray" /\ known \in {cookie, cookie'}
           /\ \/ Moves(t, Freed(t, u)) \/ Moves(t, Reread(Freed(t, u), known))
              \/ Moves(t, GiveUp(Freed(t, u)))
<1>c. /\ cookie \in StaffSessions \cup {Null} /\ Null \in StaffSessions \cup {Null}
      /\ \A u \in Uses : net[t][u].session \in StaffSessions \cup {Null}
  BY DEF ConsoleTypeOK, Request
<1>f. \A u \in {"fetch", "dropped", "page", "change", "login", "confirm", "logout"} :
        u \in Uses /\ u # "stray"
  BY DEF Uses
<1>1. ASSUME NEW u \in Uses, net' = [net EXCEPT ![t] = Freed(t, u)]  PROVE Moves(t, Freed(t, u))
  BY <1>1, FreedSo, TabMoves
<1>2. ASSUME NEW u \in Uses, NEW known \in StaffSessions \cup {Null}, NEW token,
             Invalidate(t, Freed(t, u), known, token)
      PROVE  Moves(t, Freed(t, u)) \/ Moves(t, Reread(Freed(t, u), known))
  BY <1>2, FreedSo, InvalidateMoves
<1>3. CASE SessionRead(t) \/ DroppedRead(t)
  BY <1>1, <1>3, <1>c, <1>f DEF SessionRead, DroppedRead, Back
<1>4. ASSUME NEW u \in {"page", "change"}, Answer(t, u)
      PROVE  \/ Moves(t, Freed(t, u))
             \/ Moves(t, Reread(Freed(t, u), cookie))
  BY <1>1, <1>2, <1>4, <1>c, <1>f DEF Answer, Unauthorized
<1>5. CASE Answer(t, "page") \/ Answer(t, "change")
  BY <1>4, <1>5, <1>c, <1>f DEF Answer, Back
<1>6. CASE LoginAnswer(t)
  BY <1>1, <1>2, <1>6, <1>c, <1>f DEF LoginAnswer, FormRefused, Back
<1>7. CASE ConfirmAnswer(t)
  BY <1>1, <1>2, <1>7, <1>c, <1>f DEF ConfirmAnswer, FormRefused, Back
<1>8. CASE LogoutAnswer(t)
  <2>1. cookie' \in StaffSessions \cup {Null} /\ net[t]["logout"].at = "answered"
    BY <1>8, <1>c DEF LogoutAnswer, Back
  <2>2. CASE Invalidate(t, Freed(t, "logout"), cookie', NoToken)
    BY <1>2, <1>f, <2>1, <2>2
  <2>3. CASE Cleared(t)
    <3>1. GiveUp(Freed(t, "logout")) \in Asks
      BY <1>f, FreedSo, GivenUp
    <3>2. Moves(t, GiveUp(Freed(t, "logout")))
      BY <2>3, <3>1, TabMoves DEF Cleared
    <3>3. QED
      BY <1>c, <1>f, <2>1, <3>2
  <2>4. QED
    BY <1>8, <2>2, <2>3 DEF LogoutAnswer
<1>9. QED
  BY <1>3, <1>5, <1>6, <1>7, <1>8 DEF Client

\* A request is cut off.
LEMMA BreakMoves ==
  ASSUME ConsoleTypeOK, NEW t \in Tabs, NEW u \in Uses, BreakOff(t, u)
  PROVE  \E q \in Request :
           /\ Moves(t, [[net[t] EXCEPT !["stray"] = net[t][u]] EXCEPT ![u] = q])
           /\ u # "stray" /\ q.at = "answered" /\ q.answer = "lost"
           /\ q.session = net[t][u].session /\ q.kind = Spoken(net[t][u])
<1> DEFINE q == Told(net[t][u], "lost")
           asks == [[net[t] EXCEPT !["stray"] = net[t][u]] EXCEPT ![u] = q]
<1>1. net[t][u] \in Request /\ net[t] \in Asks
  BY DEF ConsoleTypeOK, Asks
<1>2. /\ q \in Request /\ q.at = "answered" /\ q.answer = "lost"
      /\ q.session = net[t][u].session /\ q.kind = Spoken(net[t][u])
  BY <1>1, ToldSo DEF Spoken
<1>3. net' = [net EXCEPT ![t] = asks]
  BY DEF BreakOff, ConsoleTypeOK
<1> HIDE DEF q
<1>4. asks \in Asks
  BY <1>1, <1>2 DEF Asks
<1> HIDE DEF asks
<1>5. Moves(t, asks)
  BY <1>3, <1>4, TabMoves
<1>6. QED
  BY <1>2, <1>5 DEF asks, BreakOff

-----------------------------------------------------------------------------
(* Types                                                                   *)

\* A step of a tab or of one of its requests.
Step(t) ==
  \/ Staff(t) \/ Client(t)
  \/ \E u \in Uses : Server(t, u) \/ Lose(t, u) \/ BreakOff(t, u)

\* The steps of a request that end in an answer and nothing else.
LEMMA AnsweredSteps ==
  ASSUME ConsoleTypeOK, NEW t \in Tabs, NEW u \in Uses,
         \/ Lose(t, u) \/ Confirm(t, u) \/ ServeLogout(t, u) \/ SetOverride(t, u)
         \/ RemoveOverride(t, u) \/ SetSuspended(t, u) \/ ActOnUser(t, u)
  PROVE  \E answer \in {"ok", "refused", "lost"} : Answered(t, u, answer)
BY DEF Lose, Confirm, ServeLogout, SetOverride, RemoveOverride, SetSuspended, ActOnUser

\* Whatever a tab or the server does, the requests stay requests.
LEMMA NetTyped ==
  ASSUME ConsoleTypeOK, NEW t \in Tabs, Step(t)  PROVE net' \in [Tabs -> Asks]
<1> USE DEF Moves
<1>c. cookie \in StaffSessions \cup {Null} /\ net \in [Tabs -> Asks]
  BY DEF ConsoleTypeOK, Asks
<1>1. CASE Staff(t)
  BY <1>1, StaffMoves
<1>2. ASSUME NEW u \in Uses, StaffGuard(t, u)  PROVE net' \in [Tabs -> Asks]
  BY <1>2, GuardMoves
<1>3. ASSUME NEW u \in Uses, ReadSession(t, u)  PROVE net' \in [Tabs -> Asks]
  BY <1>3, ReadSessionMoves
<1>4. ASSUME NEW u \in Uses, NEW answer \in {"ok", "refused", "lost"}, Answered(t, u, answer)
      PROVE  net' \in [Tabs -> Asks]
  BY <1>4, SomeTold
<1>5. ASSUME NEW u \in Uses,
             \/ Lose(t, u) \/ Confirm(t, u) \/ ServeLogout(t, u) \/ SetOverride(t, u)
             \/ RemoveOverride(t, u) \/ SetSuspended(t, u) \/ ActOnUser(t, u)
      PROVE  net' \in [Tabs -> Asks]
  BY <1>4, <1>5, AnsweredSteps
<1>6. ASSUME NEW u \in Uses, Login(t, u)  PROVE net' \in [Tabs -> Asks]
  BY <1>4, <1>6, LoginMoves
<1>7. ASSUME NEW u \in Uses, ReadFlag(t, u)  PROVE net' \in [Tabs -> Asks]
  BY <1>7, ReadFlagMoves
<1>8. ASSUME NEW u \in Uses, WriteFlag(t, u)  PROVE net' \in [Tabs -> Asks]
  BY <1>8, WriteFlagMoves
<1>9. ASSUME NEW u \in Uses, BreakOff(t, u)  PROVE net' \in [Tabs -> Asks]
  BY <1>9, BreakMoves
<1>10. CASE Client(t)
  BY <1>10, ClientMoves
<1>11. QED
  BY <1>1, <1>2, <1>3, <1>5, <1>6, <1>7, <1>8, <1>9, <1>10 DEF Step, Server

ServerTyped ==
  /\ sessions \in [StaffSessions -> [state : {"none", "open", "closed"}, mfa : BOOLEAN,
                                     csrf : 0 .. MaxTokens]]
  /\ tokens \in 0 .. MaxTokens

\* Which steps leave the sessions alone.
LEMMA ServerKept ==
  ASSUME NEW t \in Tabs,
         \/ Staff(t) \/ Client(t)
         \/ \E u \in Uses :
              \/ StaffGuard(t, u) \/ Lose(t, u) \/ BreakOff(t, u) \/ ReadFlag(t, u)
              \/ WriteFlag(t, u) \/ SetOverride(t, u) \/ RemoveOverride(t, u)
              \/ SetSuspended(t, u) \/ ActOnUser(t, u)
  PROVE  UNCHANGED server
<1>1. CASE Staff(t)
  BY <1>1 DEF Staff, Load, SubmitLogin, SubmitCode, SubmitForm, Cancel, SignOut, OpenPage,
              ChangeFlag, ChangeOverride, ChangeUser, Propose, Submit
<1>2. CASE Client(t)
  BY <1>2 DEF Client, SessionRead, DroppedRead, Answer, LoginAnswer, ConfirmAnswer, LogoutAnswer
<1>3. CASE ~Staff(t) /\ ~Client(t)
  BY <1>3 DEF StaffGuard, Lose, BreakOff, ReadFlag, WriteFlag, SetOverride, RemoveOverride,
              SetSuspended, ActOnUser
<1>4. QED
  BY <1>1, <1>2, <1>3

LEMMA ServerStaysTyped == ASSUME ConsoleTypeOK, NEW t \in Tabs, Step(t)  PROVE ServerTyped'
<1>1. ServerTyped
  BY DEF ConsoleTypeOK, ServerTyped
<1>2. CASE UNCHANGED server
  BY <1>1, <1>2 DEF ServerTyped, server
<1>3. ASSUME NEW u \in Uses, ReadSession(t, u)  PROVE ServerTyped'
  <2>1. tokens + 1 \in 0 .. MaxTokens
    BY <1>3, ReadSessionMoves
  <2>2. /\ sessions' = [sessions EXCEPT ![net[t][u].session].csrf = tokens + 1]
        /\ tokens' = tokens + 1
    BY <1>3 DEF ReadSession
  <2>3. QED
    BY <1>1, <2>1, <2>2 DEF ServerTyped
<1>4. ASSUME NEW u \in Uses, Login(t, u)  PROVE ServerTyped'
  <2>1. CASE UNCHANGED server
    BY <1>2, <2>1
  <2>2. ASSUME NEW s \in StaffSessions, sessions' = [sessions EXCEPT ![s] = Opened],
               tokens' = tokens + 1, tokens' \in 0 .. MaxTokens
        PROVE  ServerTyped'
    BY <1>1, <2>2 DEF ServerTyped, Opened
  <2>3. QED
    BY <1>4, <2>1, <2>2, LoginMoves
<1>5. ASSUME NEW u \in Uses, Confirm(t, u)  PROVE ServerTyped'
  <2>1. /\ tokens' = tokens
        /\ \/ sessions' = [sessions EXCEPT ![net[t][u].session].mfa = TRUE]
           \/ sessions' = sessions
    BY <1>5 DEF Confirm
  <2>2. QED
    BY <1>1, <2>1 DEF ServerTyped
<1>6. ASSUME NEW u \in Uses, ServeLogout(t, u)  PROVE ServerTyped'
  <2>1. /\ tokens' = tokens
        /\ sessions' = [sessions EXCEPT ![net[t][u].session].state = "closed"]
    BY <1>6 DEF ServeLogout
  <2>2. QED
    BY <1>1, <2>1 DEF ServerTyped
<1>7. QED
  BY <1>2, <1>3, <1>4, <1>5, <1>6, ServerKept DEF Server, Step

LEMMA ShownSo ==
  ASSUME ConsoleTypeOK, NEW t \in Tabs, NEW screen \in Screens
  PROVE  /\ Shown(t, screen) \in TabView
         /\ Shown(t, screen).screen = screen
         /\ Shown(t, screen).pending = (tab[t].pending /\ tab[t].screen = screen)
         /\ Shown(t, screen).token = tab[t].token /\ Shown(t, screen).cache = tab[t].cache
BY DEF ConsoleTypeOK, Shown, TabView

\* What a tab that invalidates the session comes to show.
Invalidated(t) == IF tab[t].cache = "empty" THEN "loading" ELSE tab[t].screen

LEMMA InvalidateShows ==
  ASSUME ConsoleTypeOK, NEW t \in Tabs, NEW requests, NEW known, NEW token \in 0 .. MaxTokens,
         Invalidate(t, requests, known, token)
  PROVE  /\ tab' \in [Tabs -> TabView] /\ \A o \in Tabs \ {t} : tab'[o] = tab[o]
         /\ tab'[t].screen = Invalidated(t) /\ tab'[t].token = token
         /\ tab'[t].cache = tab[t].cache
         /\ tab'[t].pending = (tab[t].pending /\ tab[t].screen = Invalidated(t))
<1> DEFINE view == Shown(t, Invalidated(t))
           after == [view EXCEPT !.token = token]
<1>1. tab \in [Tabs -> TabView] /\ Invalidated(t) \in Screens
  BY DEF ConsoleTypeOK, TabView, Invalidated, Screens
<1>2. /\ view \in TabView /\ view.screen = Invalidated(t) /\ view.cache = tab[t].cache
      /\ view.pending = (tab[t].pending /\ tab[t].screen = Invalidated(t))
  BY <1>1, ShownSo
<1>3. tab' = [tab EXCEPT ![t] = after]
  BY DEF Invalidate, Invalidated
<1> HIDE DEF view
<1>4. /\ after \in TabView /\ after.screen = Invalidated(t) /\ after.token = token
      /\ after.cache = tab[t].cache
      /\ after.pending = (tab[t].pending /\ tab[t].screen = Invalidated(t))
  BY <1>2 DEF TabView
<1> HIDE DEF after
<1>5. QED
  BY <1>1, <1>3, <1>4

\* What a tab shows once the session is read.
LEMMA SessionReadShows ==
  ASSUME ConsoleTypeOK, NEW t \in Tabs, SessionRead(t)
  PROVE  LET request == net[t]["fetch"] IN
         /\ tab' \in [Tabs -> TabView] /\ \A o \in Tabs \ {t} : tab'[o] = tab[o]
         /\ request.answer = "ok" =>
              /\ tab'[t].screen = IF request.mfa THEN "console" ELSE "code"
              /\ tab'[t].token = request.token /\ tab'[t].cache = "data"
         /\ request.answer # "ok" =>
              /\ tab'[t].screen = IF request.answer = "login" THEN "login" ELSE "failed"
              /\ tab'[t].token = tab[t].token /\ tab'[t].cache = tab[t].cache
         /\ tab'[t].pending = (tab[t].pending /\ tab'[t].screen = tab[t].screen)
<1> DEFINE request == net[t]["fetch"]
<1>1. request \in Request /\ tab \in [Tabs -> TabView]
  BY DEF ConsoleTypeOK, Uses, TabView
<1>2. CASE request.answer = "ok"
  <2> DEFINE screen == IF request.mfa THEN "console" ELSE "code"
             view == Shown(t, screen)
             half == [view EXCEPT !.token = request.token]
             after == [half EXCEPT !.cache = "data"]
  <2>1. screen \in Screens
    BY DEF Screens
  <2>2. tab' = [tab EXCEPT ![t] = after]
    BY <1>2 DEF SessionRead
  <2> HIDE DEF screen
  <2>3. /\ view \in TabView /\ view.screen = screen
        /\ view.pending = (tab[t].pending /\ tab[t].screen = screen)
    BY <2>1, ShownSo
  <2> HIDE DEF view
  <2>4. /\ half \in TabView /\ half.screen = screen /\ half.token = request.token
        /\ half.pending = (tab[t].pending /\ tab[t].screen = screen)
    BY <1>1, <2>3 DEF TabView, Request
  <2> HIDE DEF half
  <2>5. /\ after \in TabView /\ after.screen = screen /\ after.token = request.token
        /\ after.pending = (tab[t].pending /\ tab[t].screen = screen) /\ after.cache = "data"
    BY <2>4 DEF TabView, Caches
  <2> HIDE DEF after
  <2>6. QED
    BY <1>1, <1>2, <2>2, <2>5 DEF screen
<1>3. CASE request.answer # "ok"
  <2> DEFINE screen == IF request.answer = "login" THEN "login" ELSE "failed"
  <2>1. screen \in Screens
    BY DEF Screens
  <2>2. tab' = [tab EXCEPT ![t] = Shown(t, screen)]
    BY <1>3 DEF SessionRead
  <2> HIDE DEF screen
  <2>3. QED
    BY <1>1, <1>3, <2>1, <2>2, ShownSo DEF screen
<1>4. QED
  BY <1>2, <1>3

LEMMA TabsTyped ==
  ASSUME ConsoleTypeOK, NEW t \in Tabs, Step(t)
  PROVE  /\ tab' \in [Tabs -> TabView] /\ \A o \in Tabs \ {t} : tab'[o] = tab[o]
         /\ cookie' \in StaffSessions \cup {Null} /\ late' \in BOOLEAN /\ (late => late')
<1> DEFINE Fine == /\ tab' \in [Tabs -> TabView] /\ \A o \in Tabs \ {t} : tab'[o] = tab[o]
                   /\ cookie' \in StaffSessions \cup {Null} /\ late' \in BOOLEAN
                   /\ (late => late')
<1>t. /\ tab \in [Tabs -> TabView] /\ NoToken \in 0 .. MaxTokens
      /\ cookie \in StaffSessions \cup {Null} /\ late \in BOOLEAN
      /\ \A u \in Uses : /\ net[t][u].token \in 0 .. MaxTokens
                         /\ net[t][u].session \in StaffSessions \cup {Null}
      /\ "fetch" \in Uses /\ "dropped" \in Uses /\ "login" \in Uses
  BY InstanceAssumption DEF ConsoleTypeOK, Request, Uses, NoToken, TabView
<1>0. CASE UNCHANGED <<tab, cookie, late>>
  BY <1>0, <1>t
<1>1. CASE Staff(t)
  <2>1. CASE Load(t)
    <3>1. UNCHANGED cookie /\ late' = (late \/ net[t]["fetch"].at # "none")
      BY <2>1 DEF Load
    <3>2. \/ tab' = [tab EXCEPT ![t] = tab[t]]
          \/ tab' = [tab EXCEPT ![t] = [tab[t] EXCEPT !.screen = "loading", !.cache = "empty"]]
      BY <2>1, <1>t DEF Load
    <3>3. [tab[t] EXCEPT !.screen = "loading", !.cache = "empty"] \in TabView
      BY <1>t DEF TabView, Screens, Caches
    <3>4. QED
      BY <1>t, <3>1, <3>2, <3>3
  <2>2. CASE SubmitLogin(t) \/ SubmitCode(t)
    <3>1. /\ UNCHANGED <<cookie, late>>
          /\ tab' = [tab EXCEPT ![t] = [tab[t] EXCEPT !.pending = TRUE]]
      BY <2>2, <1>t DEF SubmitLogin, SubmitCode, SubmitForm
    <3>2. [tab[t] EXCEPT !.pending = TRUE] \in TabView
      BY <1>t DEF TabView
    <3>3. QED
      BY <1>t, <3>1, <3>2
  <2>3. CASE ~(Load(t) \/ SubmitLogin(t) \/ SubmitCode(t))
    BY <1>0, <1>1, <2>3 DEF Staff, Cancel, SignOut, OpenPage, ChangeFlag, ChangeOverride,
                            ChangeUser, Propose, Submit
  <2>4. QED
    BY <2>1, <2>2, <2>3
<1>2. ASSUME NEW u \in Uses, Server(t, u)  PROVE Fine
  BY <1>0, <1>2 DEF Server, StaffGuard, ReadSession, Login, Confirm, ServeLogout, ReadFlag,
                    WriteFlag, SetOverride, RemoveOverride, SetSuspended, ActOnUser
<1>3. ASSUME NEW u \in Uses, Lose(t, u) \/ BreakOff(t, u)  PROVE Fine
  <2>1. /\ UNCHANGED tab /\ late' \in BOOLEAN /\ (late => late')
        /\ cookie' \in {cookie, net[t][u].session}
    BY <1>3, <1>t DEF Lose, BreakOff
  <2>2. QED
    BY <1>t, <2>1
<1>4. CASE SessionRead(t)
  BY <1>4, <1>t, SessionReadShows DEF SessionRead
<1>5. CASE DroppedRead(t)
  <2>1. /\ UNCHANGED cookie /\ late' \in BOOLEAN /\ (late => late')
    BY <1>5, <1>t DEF DroppedRead
  <2>2. PICK token \in 0 .. MaxTokens : tab' = [tab EXCEPT ![t] = [tab[t] EXCEPT !.token = token]]
    BY <1>5, <1>t DEF DroppedRead, TabView
  <2>3. [tab[t] EXCEPT !.token = token] \in TabView
    BY <1>t DEF TabView
  <2>4. QED
    BY <1>t, <2>1, <2>2, <2>3
<1>6. ASSUME NEW requests, NEW known, NEW token \in 0 .. MaxTokens,
             Invalidate(t, requests, known, token)
      PROVE  tab' \in [Tabs -> TabView] /\ \A o \in Tabs \ {t} : tab'[o] = tab[o]
  BY <1>6, InvalidateShows
<1>7. ASSUME NEW u \in {"page", "change"}, Answer(t, u)  PROVE Fine
  <2>1. UNCHANGED cookie /\ late' \in BOOLEAN /\ (late => late')
    BY <1>7, <1>t DEF Answer
  <2>2. QED
    BY <1>6, <1>7, <1>t, <2>1 DEF Answer, Unauthorized
<1>8. ASSUME NEW screen, NEW kind, FormRefused(t, screen, kind)
      PROVE  tab' \in [Tabs -> TabView] /\ \A o \in Tabs \ {t} : tab'[o] = tab[o]
  <2>1. PICK p \in BOOLEAN : tab' = [tab EXCEPT ![t] = [tab[t] EXCEPT !.pending = p]]
    BY <1>8, <1>t DEF FormRefused, TabView
  <2>2. [tab[t] EXCEPT !.pending = p] \in TabView
    BY <1>t DEF TabView
  <2>3. QED
    BY <1>t, <2>1, <2>2
<1>9. CASE LoginAnswer(t)
  <2>1. /\ late' \in BOOLEAN /\ (late => late')
        /\ cookie' \in {cookie, net[t]["login"].session}
    BY <1>9, <1>t DEF LoginAnswer
  <2>2. QED
    BY <1>6, <1>8, <1>9, <1>t, <2>1 DEF LoginAnswer
<1>10. CASE ConfirmAnswer(t)
  <2>1. UNCHANGED cookie /\ late' \in BOOLEAN /\ (late => late') /\ tab[t].token \in 0 .. MaxTokens
    BY <1>10, <1>t DEF ConfirmAnswer, TabView
  <2>2. QED
    BY <1>6, <1>8, <1>10, <1>t, <2>1 DEF ConfirmAnswer
<1>11. CASE LogoutAnswer(t)
  <2>1. cookie' \in {cookie, Null} /\ late' \in BOOLEAN /\ (late => late')
    BY <1>11, <1>t DEF LogoutAnswer
  <2>2. CASE Cleared(t)
    <3>1. tab' = [tab EXCEPT ![t] = [tab[t] EXCEPT !.token = NoToken, !.cache = "gone"]]
      BY <2>2, <1>t DEF Cleared, TabView
    <3>2. [tab[t] EXCEPT !.token = NoToken, !.cache = "gone"] \in TabView
      BY <1>t DEF TabView, Caches
    <3>3. QED
      BY <1>t, <2>1, <3>1, <3>2
  <2>3. QED
    BY <1>6, <1>11, <1>t, <2>1, <2>2 DEF LogoutAnswer
<1>12. QED
  BY <1>1, <1>2, <1>3, <1>4, <1>5, <1>7, <1>9, <1>10, <1>11 DEF Client, Step

SettingsTyped ==
  /\ {flag, override} \subseteq Setting /\ suspended \in BOOLEAN
  /\ journal \in [flag : Trail(Setting), override : Trail(Setting), user : Trail(BOOLEAN)]
  /\ history \in Trail(Setting)

\* Which steps leave the settings and the journal alone.
LEMMA SettingsKept ==
  ASSUME NEW t \in Tabs,
         \/ Staff(t) \/ Client(t)
         \/ \E u \in Uses :
              \/ Lose(t, u) \/ BreakOff(t, u) \/ StaffGuard(t, u) \/ ReadSession(t, u)
              \/ Login(t, u) \/ Confirm(t, u) \/ ServeLogout(t, u) \/ ReadFlag(t, u)
              \/ ActOnUser(t, u)
  PROVE  UNCHANGED settings
<1>1. CASE Staff(t)
  BY <1>1 DEF Staff, Load, SubmitLogin, SubmitCode, SubmitForm, Cancel, SignOut, OpenPage,
              ChangeFlag, ChangeOverride, ChangeUser, Propose, Submit
<1>2. CASE Client(t)
  BY <1>2 DEF Client, SessionRead, DroppedRead, Answer, LoginAnswer, ConfirmAnswer, LogoutAnswer
<1>3. CASE ~Staff(t) /\ ~Client(t)
  BY <1>3 DEF Lose, BreakOff, StaffGuard, ReadSession, Login, Confirm, ServeLogout, ReadFlag,
              ActOnUser
<1>4. QED
  BY <1>1, <1>2, <1>3

LEMMA SettingsStayTyped ==
  ASSUME ConsoleTypeOK, NEW t \in Tabs, Step(t)  PROVE SettingsTyped'
<1>1. SettingsTyped
  BY DEF ConsoleTypeOK, SettingsTyped
<1>2. CASE UNCHANGED settings
  BY <1>1, <1>2 DEF SettingsTyped, settings
<1>f. \A u \in Uses : net[t][u].value \in Setting /\ net[t][u].overlapped \in BOOLEAN
  BY DEF ConsoleTypeOK, Request, Setting
<1>3. ASSUME NEW subject \in {"flag", "override"}, NEW value \in Setting, NEW follows \in BOOLEAN,
             Audit(subject, value, follows)
      PROVE  journal' \in [flag : Trail(Setting), override : Trail(Setting), user : Trail(BOOLEAN)]
  BY <1>1, <1>3 DEF SettingsTyped, Audit, Write, Trail
<1>4. ASSUME NEW value \in Setting, NEW follows \in BOOLEAN
      PROVE  Write(history, value, follows) \in Trail(Setting)
  BY <1>1, <1>4 DEF SettingsTyped, Write, Trail
<1>5. ASSUME NEW u \in Uses, WriteFlag(t, u)  PROVE SettingsTyped'
  <2> DEFINE follows == net[t][u].overlapped \/ Replaced(net[t][u]) = journal.flag.last
  <2>1. follows \in BOOLEAN
    BY <1>f
  <2>2. Audit("flag", net[t][u].value, follows) /\ flag' = net[t][u].value
    BY <1>5 DEF WriteFlag
  <2>3. UNCHANGED <<override, suspended, history>>
    BY <1>5 DEF WriteFlag
  <2> HIDE DEF follows
  <2>4. QED
    BY <1>1, <1>3, <1>f, <2>1, <2>2, <2>3 DEF SettingsTyped
<1>6. ASSUME NEW u \in Uses, SetOverride(t, u)  PROVE SettingsTyped'
  <2>1. /\ Audit("override", net[t][u].value, TRUE) /\ override' = net[t][u].value
        /\ history' = Write(history, net[t][u].value, TRUE) /\ UNCHANGED <<flag, suspended>>
    BY <1>6 DEF SetOverride
  <2>2. QED
    BY <1>1, <1>3, <1>4, <1>f, <2>1 DEF SettingsTyped
<1>7. ASSUME NEW u \in Uses, RemoveOverride(t, u)  PROVE SettingsTyped'
  <2>1. CASE UNCHANGED <<override, history, journal>>
    BY <1>1, <1>7, <2>1 DEF RemoveOverride, SettingsTyped
  <2>2. CASE ~UNCHANGED <<override, history, journal>>
    <3> DEFINE follows == history.last # Null
               after == journal.override.last # Null
    <3>1. /\ override' = Null /\ history' = Write(history, Null, follows)
          /\ Audit("override", Null, after) /\ UNCHANGED <<flag, suspended>>
      BY <1>7, <2>2 DEF RemoveOverride
    <3>2. follows \in BOOLEAN /\ after \in BOOLEAN /\ Null \in Setting
      BY DEF Setting
    <3> HIDE DEF follows, after
    <3>3. QED
      BY <1>1, <1>3, <1>4, <3>1, <3>2 DEF SettingsTyped
  <2>3. QED
    BY <2>1, <2>2
<1>8. ASSUME NEW u \in Uses, SetSuspended(t, u)  PROVE SettingsTyped'
  <2>1. CASE UNCHANGED <<suspended, journal>>
    BY <1>1, <1>8, <2>1 DEF SetSuspended, SettingsTyped
  <2>2. CASE ~UNCHANGED <<suspended, journal>>
    <3> DEFINE follows == journal.user.last # suspended'
    <3>1. PICK kind \in {"suspend", "reactivate"} :
            /\ suspended' = (kind = "suspend") /\ Audit("user", suspended', follows)
            /\ UNCHANGED <<flag, override, history>>
      BY <1>8, <2>2 DEF SetSuspended
    <3>2. follows \in BOOLEAN /\ suspended' \in BOOLEAN
      BY <3>1
    <3> HIDE DEF follows
    <3>3. journal' \in [flag : Trail(Setting), override : Trail(Setting), user : Trail(BOOLEAN)]
      BY <1>1, <3>1, <3>2 DEF SettingsTyped, Audit, Write, Trail
    <3>4. QED
      BY <1>1, <3>1, <3>2, <3>3 DEF SettingsTyped
  <2>3. QED
    BY <2>1, <2>2
<1>9. CASE Staff(t) \/ Client(t) \/ (\E u \in Uses : Lose(t, u) \/ BreakOff(t, u))
  BY <1>2, <1>9, SettingsKept
<1>10. ASSUME NEW u \in Uses,
              \/ StaffGuard(t, u) \/ ReadSession(t, u) \/ Login(t, u) \/ Confirm(t, u)
              \/ ServeLogout(t, u) \/ ReadFlag(t, u) \/ ActOnUser(t, u)
       PROVE  SettingsTyped'
  BY <1>2, <1>10, SettingsKept
<1>11. QED
  BY <1>5, <1>6, <1>7, <1>8, <1>9, <1>10 DEF Server, Step

LEMMA ConsoleTypedNext ==
  ASSUME ConsoleTypeOK, [ConsoleNext]_consoleVars  PROVE ConsoleTypeOK'
<1>1. ASSUME NEW t \in Tabs, Step(t)  PROVE ConsoleTypeOK'
  BY <1>1, NetTyped, ServerStaysTyped, TabsTyped, SettingsStayTyped
     DEF ConsoleTypeOK, ServerTyped, SettingsTyped, Asks, TabView
<1>2. ASSUME NEW s \in StaffSessions, RunOut(s)  PROVE ConsoleTypeOK'
  <2>1. UNCHANGED <<tokens, cookie, tab, net, settings, late>>
    BY <1>2 DEF RunOut
  <2>2. sessions' \in [StaffSessions -> [state : {"none", "open", "closed"}, mfa : BOOLEAN,
                                         csrf : 0 .. MaxTokens]]
    BY <1>2 DEF RunOut, ConsoleTypeOK
  <2>3. QED
    BY <2>1, <2>2 DEF ConsoleTypeOK, settings
<1>3. CASE UNCHANGED consoleVars
  BY <1>3 DEF ConsoleTypeOK, consoleVars
<1>4. QED
  BY <1>1, <1>2, <1>3 DEF ConsoleNext, Step

LEMMA ConsoleTypedInit == ConsoleInit => ConsoleTypeOK
<1> SUFFICES ASSUME ConsoleInit PROVE ConsoleTypeOK
  OBVIOUS
<1>1. 1 \in StaffSessions /\ NoToken \in 0 .. MaxTokens /\ tokens \in 0 .. MaxTokens
  BY InstanceAssumption DEF StaffSessions, NoToken, ConsoleInit
<1>2. sessions \in [StaffSessions -> [state : {"none", "open", "closed"}, mfa : BOOLEAN,
                                      csrf : 0 .. MaxTokens]]
  BY <1>1 DEF ConsoleInit
<1>3. tab \in [Tabs -> TabView]
  BY <1>1 DEF ConsoleInit, TabView, Screens, Caches
<1>4. net \in [Tabs -> [Uses -> Request]]
  BY NothingAsked DEF ConsoleInit
<1>5. /\ journal \in [flag : Trail(Setting), override : Trail(Setting), user : Trail(BOOLEAN)]
      /\ history \in Trail(Setting)
  BY DEF ConsoleInit, Blank, Trail, Setting
<1>6. QED
  BY <1>1, <1>2, <1>3, <1>4, <1>5 DEF ConsoleInit, ConsoleTypeOK, Setting, TabView

\* Every tab, request, session and setting has its type, for any number of tabs, sessions,
\* tokens and requests.
THEOREM ConsoleTypeCorrect == ConsoleSpec => []ConsoleTypeOK
BY ConsoleTypedInit, ConsoleTypedNext, PTL DEF ConsoleSpec

-----------------------------------------------------------------------------
(* The journal                                                             *)

\* An upsert of a flag that has read the value in force, and was not overlapped, has it.
HalvesKnow ==
  \A t \in Tabs, u \in Uses :
    net[t][u].at = "half" => net[t][u].overlapped \/ net[t][u].before = flag

ReplayInv == ConsoleTypeOK /\ JournalReplays /\ HalvesKnow

\* No upsert comes to stand between its two statements.
HalvesStay ==
  \A t \in Tabs, u \in Uses :
    net'[t][u].at = "half" => \E v \in Uses : net'[t][u] = net[t][v]

LEMMA PutStays ==
  ASSUME ConsoleTypeOK, NEW t \in Tabs, NEW u \in Uses, NEW q \in Request,
         Moves(t, [net[t] EXCEPT ![u] = q]), q.at # "half"
  PROVE  HalvesStay
<1>1. net[t] \in Asks
  BY DEF ConsoleTypeOK, Asks
<1>2. \A v \in Uses : net'[t][v] = q \/ net'[t][v] = net[t][v]
  BY <1>1 DEF Moves, Asks
<1>3. QED
  BY <1>2 DEF HalvesStay, Moves

LEMMA FreedStays ==
  ASSUME ConsoleTypeOK, NEW t \in Tabs, NEW u \in Uses, NEW known \in StaffSessions \cup {Null},
         \/ Moves(t, Freed(t, u)) \/ Moves(t, Reread(Freed(t, u), known))
         \/ Moves(t, GiveUp(Freed(t, u))) \/ Moves(t, Reread(net[t], known))
  PROVE  HalvesStay
<1> DEFINE Old(asks) == \A v \in Uses : asks[v].at = "half" => \E w \in Uses : asks[v] = net[t][w]
<1>1. net[t] \in Asks /\ Freed(t, u) \in Asks
  BY FreedSo DEF ConsoleTypeOK, Asks
<1>2. Old(net[t]) /\ Old(Freed(t, u))
  BY FreedSo, NothingAsked
<1>3. ASSUME NEW asks \in Asks, Old(asks)  PROVE Old(Reread(asks, known)) /\ Old(GiveUp(asks))
  <2>1. /\ Reread(asks, known)["fetch"].at # "half" /\ GiveUp(asks)["fetch"].at # "half"
        /\ \A v \in Uses \ {"fetch"} :
             /\ \E w \in Uses : Reread(asks, known)[v] = asks[w]
             /\ \E w \in Uses : GiveUp(asks)[v] = asks[w]
    BY <1>3, ReadAgain, GivenUp DEF Uses
  <2>2. QED
    BY <1>3, <2>1
<1>4. Old(net'[t])
  BY <1>1, <1>2, <1>3 DEF Moves
<1>5. QED
  BY <1>4 DEF HalvesStay, Moves

LEMMA AnsweredStays ==
  ASSUME ConsoleTypeOK, NEW t \in Tabs, NEW u \in Uses, NEW answer \in {"ok", "refused", "lost"},
         Answered(t, u, answer)
  PROVE  HalvesStay
<1>1. PICK q \in Request : Moves(t, [net[t] EXCEPT ![u] = q]) /\ Heard(u, net[t][u], answer, q)
  BY SomeTold
<1>2. q.at # "half"
  BY <1>1, NothingAsked DEF Heard
<1>3. QED
  BY <1>1, <1>2, PutStays

LEMMA SomeTabStays ==
  ASSUME ConsoleTypeOK, NEW t \in Tabs,
         \/ Staff(t) \/ Client(t)
         \/ \E u \in Uses : \/ StaffGuard(t, u) \/ ReadSession(t, u) \/ Login(t, u)
                            \/ Lose(t, u) \/ BreakOff(t, u)
  PROVE  HalvesStay
<1>c. cookie \in StaffSessions \cup {Null} /\ "page" \in Uses /\ Forms \subseteq Uses
  BY DEF ConsoleTypeOK, Forms, Uses
<1>1. CASE Staff(t)
  <2>1. CASE Moves(t, Reread(net[t], cookie))
    BY <1>c, <2>1, FreedStays
  <2>2. ASSUME NEW u \in Forms, NEW q \in Request, Moves(t, [net[t] EXCEPT ![u] = q]),
               q.at = "sent"
        PROVE  HalvesStay
    BY <1>c, <2>2, PutStays
  <2>3. QED
    BY <1>1, <2>1, <2>2, StaffMoves
<1>2. ASSUME NEW u \in Uses, StaffGuard(t, u)  PROVE HalvesStay
  <2>1. PICK q \in Request : Moves(t, [net[t] EXCEPT ![u] = q]) /\ q.at # "half"
    BY <1>2, GuardMoves, NothingAsked DEF Heard
  <2>2. QED
    BY <2>1, PutStays
<1>3. ASSUME NEW u \in Uses, ReadSession(t, u)  PROVE HalvesStay
  <2>1. PICK q \in Request : Moves(t, [net[t] EXCEPT ![u] = q]) /\ q.at # "half"
    BY <1>3, ReadSessionMoves, NothingAsked DEF Heard
  <2>2. QED
    BY <2>1, PutStays
<1>4. ASSUME NEW u \in Uses, Login(t, u)  PROVE HalvesStay
  <2>1. CASE Answered(t, u, "refused")
    BY <2>1, AnsweredStays
  <2>2. CASE ~Answered(t, u, "refused")
    <3>1. PICK q \in Request : Moves(t, [net[t] EXCEPT ![u] = q]) /\ q.at # "half"
      BY <1>4, <2>2, LoginMoves, NothingAsked
    <3>2. QED
      BY <3>1, PutStays
  <2>3. QED
    BY <2>1, <2>2
<1>5. ASSUME NEW u \in Uses, Lose(t, u)  PROVE HalvesStay
  BY <1>5, AnsweredSteps, AnsweredStays
<1>6. ASSUME NEW u \in Uses, BreakOff(t, u)  PROVE HalvesStay
  <2>1. PICK q \in Request :
          /\ Moves(t, [[net[t] EXCEPT !["stray"] = net[t][u]] EXCEPT ![u] = q])
          /\ q.at = "answered"
    BY <1>6, BreakMoves
  <2>2. net[t] \in Asks
    BY DEF ConsoleTypeOK, Asks
  <2>3. \A v \in Uses : net'[t][v] \in {q, net[t][u], net[t][v]}
    BY <2>1, <2>2 DEF Moves, Asks
  <2>4. QED
    BY <2>1, <2>3 DEF HalvesStay, Moves
<1>7. CASE Client(t)
  BY <1>7, ClientMoves, FreedStays
<1>8. QED
  BY <1>1, <1>2, <1>3, <1>4, <1>5, <1>6, <1>7

\* An entry that follows from the last keeps the journal in order.
LEMMA AuditFollows ==
  ASSUME NEW subject \in {"flag", "override", "user"}, NEW value, JournalReplays,
         journal \in [flag : Trail(Setting), override : Trail(Setting), user : Trail(BOOLEAN)],
         Audit(subject, value, TRUE)
  PROVE  /\ DOMAIN journal' = DOMAIN journal
         /\ journal'[subject] = [last |-> value, follows |-> TRUE]
         /\ \A other \in {"flag", "override", "user"} \ {subject} : journal'[other] = journal[other]
         /\ \A any \in DOMAIN journal' : journal'[any].follows
         /\ subject # "flag" => journal'.flag.last = flag
         /\ subject # "override" => journal'.override.last = override
         /\ subject # "user" => journal'.user.last = suspended
         /\ journal'[subject].last = value
<1>1. journal[subject].follows /\ DOMAIN journal = {"flag", "override", "user"}
  BY DEF JournalReplays
<1>2. journal' = [journal EXCEPT ![subject] = [last |-> value, follows |-> journal[subject].follows /\ TRUE]]
  BY DEF Audit, Write
<1>3. (journal[subject].follows /\ TRUE) = TRUE
  BY <1>1
<1>4. journal' = [journal EXCEPT ![subject] = [last |-> value, follows |-> TRUE]]
  BY <1>2, <1>3
<1>5. \A any \in {"flag", "override", "user"} : journal[any].follows
  BY <1>1 DEF JournalReplays
<1>6. QED
  BY <1>1, <1>4, <1>5 DEF JournalReplays

LEMMA SettingsReplay ==
  ASSUME ReplayInv, NEW t \in Tabs, NEW u \in Uses,
         WriteFlag(t, u) \/ SetOverride(t, u) \/ RemoveOverride(t, u) \/ SetSuspended(t, u)
  PROVE  JournalReplays'
<1>t. /\ journal \in [flag : Trail(Setting), override : Trail(Setting), user : Trail(BOOLEAN)]
      /\ JournalReplays /\ suspended \in BOOLEAN
      /\ history \in Trail(Setting)
  BY DEF ReplayInv, ConsoleTypeOK
<1>h. history.follows
  BY <1>t DEF JournalReplays
<1>1. CASE WriteFlag(t, u)
  <2> DEFINE request == net[t][u]
             follows == request.overlapped \/ Replaced(request) = journal.flag.last
  <2>1. request.overlapped \/ request.before = flag
    BY <1>1 DEF WriteFlag, ReplayInv, HalvesKnow
  <2>2. follows
    BY <1>t, <2>1 DEF Replaced, JournalReplays
  <2>3. request.overlapped \in BOOLEAN
    BY DEF ReplayInv, ConsoleTypeOK, Request
  <2>4. follows = TRUE
    BY <2>2, <2>3
  <2>5. /\ Audit("flag", request.value, follows) /\ flag' = request.value
        /\ UNCHANGED <<override, suspended, history>>
    BY <1>1 DEF WriteFlag
  <2> HIDE DEF follows
  <2>6. Audit("flag", request.value, TRUE)
    BY <2>4, <2>5
  <2>7. /\ \A any \in DOMAIN journal' : journal'[any].follows
        /\ journal'.flag.last = request.value
        /\ journal'.override.last = override /\ journal'.user.last = suspended
    BY <1>t, <2>6, AuditFollows
  <2>8. QED
    BY <1>t, <2>5, <2>7 DEF JournalReplays
<1>2. CASE SetOverride(t, u)
  <2> DEFINE value == net[t][u].value
  <2>1. /\ Audit("override", value, TRUE) /\ override' = value
        /\ history' = Write(history, value, TRUE) /\ UNCHANGED <<flag, suspended>>
    BY <1>2 DEF SetOverride
  <2> HIDE DEF value
  <2>2. history'.last = value /\ history'.follows
    BY <1>h, <2>1 DEF Write
  <2>3. /\ \A any \in DOMAIN journal' : journal'[any].follows
        /\ journal'.flag.last = flag
        /\ journal'.override.last = value /\ journal'.user.last = suspended
    BY <1>t, <2>1, AuditFollows
  <2>4. QED
    BY <2>1, <2>2, <2>3 DEF JournalReplays
<1>3. CASE RemoveOverride(t, u)
  <2>1. CASE UNCHANGED <<override, history, journal>>
    BY <1>3, <1>t, <2>1 DEF RemoveOverride, JournalReplays
  <2>2. CASE ~UNCHANGED <<override, history, journal>>
    <3> DEFINE follows == history.last # Null
               after == journal.override.last # Null
    <3>1. /\ override # Null /\ override' = Null /\ history' = Write(history, Null, follows)
          /\ Audit("override", Null, after) /\ UNCHANGED <<flag, suspended>>
      BY <1>3, <2>2 DEF RemoveOverride, RemovesSomething
    <3>2. follows = TRUE /\ after = TRUE
      BY <1>t, <3>1 DEF JournalReplays
    <3> HIDE DEF follows, after
    <3>3. Audit("override", Null, TRUE)
      BY <3>1, <3>2
    <3>4. history'.last = Null /\ history'.follows
      BY <1>h, <3>1, <3>2 DEF Write
    <3>5. /\ \A any \in DOMAIN journal' : journal'[any].follows
          /\ journal'.flag.last = flag
          /\ journal'.override.last = Null /\ journal'.user.last = suspended
      BY <1>t, <3>3, AuditFollows
    <3>6. QED
      BY <3>1, <3>4, <3>5 DEF JournalReplays
  <2>3. QED
    BY <2>1, <2>2
<1>4. CASE SetSuspended(t, u)
  <2>1. CASE UNCHANGED <<suspended, journal>>
    BY <1>4, <1>t, <2>1 DEF SetSuspended, JournalReplays
  <2>2. CASE ~UNCHANGED <<suspended, journal>>
    <3> DEFINE follows == journal.user.last # suspended'
    <3>1. PICK kind \in {"suspend", "reactivate"} :
            /\ suspended = (kind = "reactivate")
            /\ suspended' = (kind = "suspend") /\ Audit("user", suspended', follows)
            /\ UNCHANGED <<flag, override, history>>
      BY <1>4, <2>2 DEF SetSuspended
    <3>2. suspended' # suspended
      BY <3>1
    <3>3. follows = TRUE
      BY <1>t, <3>2 DEF JournalReplays
    <3> HIDE DEF follows
    <3>4. Audit("user", suspended', TRUE)
      BY <3>1, <3>3
    <3>5. /\ \A any \in DOMAIN journal' : journal'[any].follows
          /\ journal'.flag.last = flag
          /\ journal'.override.last = override /\ journal'.user.last = suspended'
      BY <1>t, <3>4, AuditFollows
    <3>6. QED
      BY <1>t, <3>1, <3>5 DEF JournalReplays
  <2>3. QED
    BY <2>1, <2>2
<1>5. QED
  BY <1>1, <1>2, <1>3, <1>4

\* The journal and the history tell the settings in force and each entry follows from the
\* one before, for any number of tabs and requests: an upsert that none overlapped still
\* knows the value in force when it writes.
THEOREM JournalReplaysAlways == ConsoleSpec => []JournalReplays
<1>1. ConsoleInit => ReplayInv
  <2> SUFFICES ASSUME ConsoleInit PROVE ReplayInv
    OBVIOUS
  <2>1. JournalReplays
    <3>1. journal = [flag |-> Blank(Null), override |-> Blank(Null), user |-> Blank(FALSE)]
      BY DEF ConsoleInit
    <3>2. /\ journal.flag = Blank(Null) /\ journal.override = Blank(Null)
          /\ journal.user = Blank(FALSE) /\ DOMAIN journal = {"flag", "override", "user"}
      BY <3>1
    <3>3. flag = Null /\ override = Null /\ suspended = FALSE /\ history = Blank(Null)
      BY DEF ConsoleInit
    <3>4. Blank(Null).last = Null /\ Blank(Null).follows = TRUE
          /\ Blank(FALSE).last = FALSE /\ Blank(FALSE).follows = TRUE
      BY DEF Blank
    <3>5. \A subject \in DOMAIN journal : journal[subject].follows = TRUE
      BY <3>2, <3>4
    <3>6. QED
      BY <3>2, <3>3, <3>4, <3>5 DEF JournalReplays
  <2>2. HalvesKnow
    BY NothingAsked DEF ConsoleInit, HalvesKnow
  <2>3. QED
    BY <2>1, <2>2, ConsoleTypedInit DEF ReplayInv
<1>2. ReplayInv /\ [ConsoleNext]_consoleVars => ReplayInv'
  <2> SUFFICES ASSUME ReplayInv, [ConsoleNext]_consoleVars PROVE ReplayInv'
    OBVIOUS
  <2>1. ConsoleTypeOK /\ ConsoleTypeOK'
    BY ConsoleTypedNext DEF ReplayInv
  <2>2. CASE HalvesStay /\ UNCHANGED settings
    BY <2>1, <2>2 DEF ReplayInv, HalvesStay, HalvesKnow, JournalReplays, settings
  <2>3. ASSUME NEW t \in Tabs, NEW u \in Uses, UNCHANGED flag,
               \/ Confirm(t, u) \/ ServeLogout(t, u) \/ ActOnUser(t, u)
               \/ SetOverride(t, u) \/ RemoveOverride(t, u) \/ SetSuspended(t, u)
        PROVE  HalvesStay /\ HalvesKnow'
    <3>1. HalvesStay
      BY <2>1, <2>3, AnsweredSteps, AnsweredStays
    <3>2. QED
      BY <2>3, <3>1 DEF ReplayInv, HalvesStay, HalvesKnow
  <2>4. ASSUME NEW t \in Tabs,
               \/ Staff(t) \/ Client(t)
               \/ \E u \in Uses : \/ StaffGuard(t, u) \/ ReadSession(t, u) \/ Login(t, u)
                                  \/ Lose(t, u) \/ BreakOff(t, u)
        PROVE  ReplayInv'
    BY <2>1, <2>2, <2>4, SettingsKept, SomeTabStays
  <2>6. ASSUME NEW t \in Tabs, NEW u \in Uses, Confirm(t, u) \/ ServeLogout(t, u) \/ ActOnUser(t, u)
        PROVE  ReplayInv'
    <3>1. UNCHANGED settings
      BY <2>6, SettingsKept
    <3>2. UNCHANGED flag
      BY <3>1 DEF settings
    <3>3. QED
      BY <2>2, <2>3, <2>6, <3>1, <3>2
  <2>7. ASSUME NEW t \in Tabs, NEW u \in Uses,
               SetOverride(t, u) \/ RemoveOverride(t, u) \/ SetSuspended(t, u)
        PROVE  ReplayInv'
    <3>1. UNCHANGED flag
      BY <2>7 DEF SetOverride, RemoveOverride, SetSuspended
    <3>2. HalvesKnow'
      BY <2>3, <2>7, <3>1
    <3>3. QED
      BY <2>1, <2>7, <3>2, SettingsReplay DEF ReplayInv
  <2>8. ASSUME NEW t \in Tabs, NEW u \in Uses, ReadFlag(t, u)  PROVE ReplayInv'
    <3>1. UNCHANGED settings
      BY <2>8, SettingsKept
    <3>2. PICK q \in Request : Moves(t, [net[t] EXCEPT ![u] = q]) /\ q.before = flag
      BY <2>1, <2>8, ReadFlagMoves
    <3>3. net'[t][u].before = flag /\ \A v \in Uses \ {u} : net'[t][v] = net[t][v]
      BY <2>1, <3>2 DEF Moves, ConsoleTypeOK
    <3>4. HalvesKnow'
      <4>1. flag' = flag /\ HalvesKnow
        BY <3>1 DEF ReplayInv, settings
      <4>2. \A o \in Tabs \ {t}, v \in Uses : net'[o][v] = net[o][v]
        BY <3>2 DEF Moves
      <4>3. \A o \in Tabs, v \in Uses : net'[o][v] = net[o][v] \/ net'[o][v].before = flag
        BY <3>3, <4>2
      <4>4. QED
        BY <4>1, <4>3 DEF HalvesKnow
    <3>5. JournalReplays'
      BY <3>1 DEF ReplayInv, JournalReplays, settings
    <3>6. QED
      BY <2>1, <3>4, <3>5 DEF ReplayInv
  <2>9. ASSUME NEW t \in Tabs, NEW u \in Uses, WriteFlag(t, u)  PROVE ReplayInv'
    <3>1. net'[t][u].at # "half"
      BY <2>1, <2>9, WriteFlagMoves, NothingAsked DEF Heard
    <3>2. \A o \in Tabs, v \in Uses :
            <<o, v>> # <<t, u>> /\ net'[o][v].at = "half" => net'[o][v].overlapped
      BY <2>1, <2>9, WriteFlagMoves
    <3>3. HalvesKnow'
      BY <3>1, <3>2 DEF HalvesKnow
    <3>4. QED
      BY <2>1, <2>9, <3>3, SettingsReplay DEF ReplayInv
  <2>10. ASSUME NEW s \in StaffSessions, RunOut(s)  PROVE ReplayInv'
    BY <2>1, <2>2, <2>10 DEF RunOut, HalvesStay
  <2>11. CASE UNCHANGED consoleVars
    BY <2>1, <2>2, <2>11 DEF consoleVars, HalvesStay, settings
  <2>12. QED
    BY <2>4, <2>6, <2>7, <2>8, <2>9, <2>10, <2>11 DEF ConsoleNext, Server
<1>3. ReplayInv => JournalReplays
  BY DEF ReplayInv
<1>4. QED
  BY <1>1, <1>2, <1>3, PTL DEF ConsoleSpec

-----------------------------------------------------------------------------
(* A tab on its own                                                        *)

SessionRows == [StaffSessions -> [state : {"none", "open", "closed"}, mfa : BOOLEAN,
                                  csrf : 0 .. MaxTokens]]

OverIn(rows, s) == s = Null \/ rows[s].state # "open"
BegunIn(rows, s) == s = Null \/ rows[s].state # "none"

\* A session begins and ends, once.
Grow(rows, later) ==
  \A s \in StaffSessions : /\ rows[s].state # "none" => later[s].state # "none"
                           /\ rows[s].state = "closed" => later[s].state = "closed"

\* A request is of a session that has begun; one refused for the lack of a session, or
\* that has ended its session, is of one that is over.
RequestFits(rows, q) ==
  /\ BegunIn(rows, q.session)
  /\ q.answer = "login" \/ (q.kind \in {"logout", "signout"} /\ q.answer = "ok")
       => OverIn(rows, q.session)

KindFits(u, q) ==
  /\ u \in {"fetch", "dropped"} => q.kind = "session"
  /\ u \in {"page", "login", "confirm"} => q.kind = u
  /\ u = "logout" => q.kind \in {"logout", "signout"}
  /\ u = "change" => q.kind \in Permitted \cup {"change"}

\* A tab that is closed waits for nothing and has read nothing.
TabFits(t) ==
  /\ tab[t].screen = "closed" =>
       tab[t].cache = "empty" /\ \A u \in Uses : net[t][u].at = "none"
  /\ \A u \in Uses : net[t][u].at # "none" => KindFits(u, net[t][u])
  /\ \A u \in Uses : RequestFits(sessions, net[t][u])

AllFit == BegunIn(sessions, cookie) /\ \A t \in Tabs : TabFits(t)

LEMMA FitsOn ==
  ASSUME NEW rows \in SessionRows, NEW later \in SessionRows, NEW q \in Request,
         RequestFits(rows, q), Grow(rows, later)
  PROVE  RequestFits(later, q)
<1>1. q.session \in StaffSessions \cup {Null}
  BY DEF Request
<1>2. rows[q.session].state \in {"none", "open", "closed"} \/ q.session = Null
  BY <1>1 DEF SessionRows
<1>3. QED
  BY <1>1, <1>2 DEF RequestFits, BegunIn, OverIn, Grow

LEMMA SessionsGrow ==
  ASSUME ConsoleTypeOK, [ConsoleNext]_consoleVars  PROVE Grow(sessions, sessions')
<1>1. sessions \in SessionRows
  BY DEF ConsoleTypeOK, SessionRows
<1>2. CASE UNCHANGED sessions
  BY <1>2 DEF Grow
<1>3. ASSUME NEW t \in Tabs, NEW u \in Uses, ReadSession(t, u)  PROVE Grow(sessions, sessions')
  BY <1>1, <1>3 DEF ReadSession, Grow, SessionRows
<1>4. ASSUME NEW t \in Tabs, NEW u \in Uses, Login(t, u)  PROVE Grow(sessions, sessions')
  <2>1. CASE UNCHANGED server
    BY <1>2, <2>1 DEF server
  <2>2. ASSUME NEW s \in StaffSessions, sessions' = [sessions EXCEPT ![s] = Opened],
               sessions[s].state = "none"
        PROVE  Grow(sessions, sessions')
    BY <1>1, <2>2 DEF Grow, Opened, SessionRows
  <2>3. QED
    BY <1>4, <2>1, <2>2, LoginMoves
<1>5. ASSUME NEW t \in Tabs, NEW u \in Uses, Confirm(t, u)  PROVE Grow(sessions, sessions')
  BY <1>1, <1>5 DEF Confirm, Grow, SessionRows
<1>6. ASSUME NEW t \in Tabs, NEW u \in Uses, ServeLogout(t, u)  PROVE Grow(sessions, sessions')
  BY <1>1, <1>6 DEF ServeLogout, Grow, SessionRows
<1>7. ASSUME NEW s \in StaffSessions, RunOut(s)  PROVE Grow(sessions, sessions')
  BY <1>1, <1>7 DEF RunOut, Grow, SessionRows
<1>8. ASSUME NEW t \in Tabs,
             \/ Staff(t) \/ Client(t)
             \/ \E u \in Uses :
                  \/ StaffGuard(t, u) \/ Lose(t, u) \/ BreakOff(t, u) \/ ReadFlag(t, u)
                  \/ WriteFlag(t, u) \/ SetOverride(t, u) \/ RemoveOverride(t, u)
                  \/ SetSuspended(t, u) \/ ActOnUser(t, u)
      PROVE  Grow(sessions, sessions')
  BY <1>2, <1>8, ServerKept DEF server
<1>9. CASE UNCHANGED consoleVars
  BY <1>2, <1>9 DEF consoleVars
<1>10. QED
  BY <1>3, <1>4, <1>5, <1>6, <1>7, <1>8, <1>9 DEF ConsoleNext, Server

\* What the steps of a tab rely on.
Going == /\ ConsoleTypeOK /\ ConsoleTypeOK' /\ AllFit
         /\ sessions \in SessionRows /\ sessions' \in SessionRows /\ Grow(sessions, sessions')

\* What is over stays over.
LEMMA OverStays ==
  ASSUME Going, NEW s \in StaffSessions \cup {Null}, BegunIn(sessions, s), OverIn(sessions, s)
  PROVE  OverIn(sessions', s)
<1>1. sessions[s].state \in {"none", "open", "closed"} \/ s = Null
  BY DEF Going, SessionRows
<1>2. QED
  BY <1>1 DEF BegunIn, OverIn, Going, Grow

LEMMA AllBegun ==
  ASSUME Going, NEW t \in Tabs
  PROVE  /\ cookie \in StaffSessions \cup {Null} /\ BegunIn(sessions', cookie)
         /\ \A u \in Uses : /\ net[t][u] \in Request /\ RequestFits(sessions', net[t][u])
                            /\ net[t][u].session \in StaffSessions \cup {Null}
                            /\ OverIn(sessions, net[t][u].session) => OverIn(sessions', net[t][u].session)
         /\ OverIn(sessions, cookie) => OverIn(sessions', cookie)
<1>1. /\ cookie \in StaffSessions \cup {Null} /\ BegunIn(sessions, cookie)
      /\ \A u \in Uses : /\ net[t][u] \in Request /\ RequestFits(sessions, net[t][u])
                         /\ net[t][u].session \in StaffSessions \cup {Null}
  BY DEF Going, AllFit, TabFits, ConsoleTypeOK, Request
<1>2. BegunIn(sessions', cookie)
  BY <1>1 DEF BegunIn, Going, Grow
<1>3. ASSUME NEW u \in Uses
      PROVE  /\ RequestFits(sessions', net[t][u])
             /\ OverIn(sessions, net[t][u].session) => OverIn(sessions', net[t][u].session)
  BY <1>1, FitsOn, OverStays DEF Going, RequestFits
<1>4. QED
  BY <1>1, <1>2, <1>3, OverStays

\* Whoever makes a step has its tab open, and a tab that is alone was alone.
LEMMA StepOpen ==
  ASSUME Going, NEW t \in Tabs, Step(t)
  PROVE  /\ tab'[t].screen # "closed" /\ \A o \in Tabs \ {t} : tab'[o] = tab[o]
         /\ late => late'
<1>f. /\ TabFits(t) /\ tab \in [Tabs -> TabView] /\ ConsoleTypeOK
      /\ {"fetch", "dropped", "page", "change", "login", "confirm", "logout"} \subseteq Uses
      /\ NoToken \in 0 .. MaxTokens /\ \A u \in Uses : net[t][u].token \in 0 .. MaxTokens
  BY InstanceAssumption DEF Going, AllFit, ConsoleTypeOK, Uses, TabView, NoToken, Request
<1>s. (\E u \in Uses : net[t][u].at # "none") => tab[t].screen # "closed"
  BY <1>f DEF TabFits
<1>1. ASSUME Staff(t)  PROVE tab'[t].screen # "closed"
  <2>1. CASE Load(t)
    BY <1>f, <2>1 DEF Load, TabFits, TabView
  <2>2. CASE SubmitLogin(t) \/ SubmitCode(t)
    BY <1>f, <2>2 DEF SubmitLogin, SubmitCode, SubmitForm, TabView
  <2>3. CASE ~(Load(t) \/ SubmitLogin(t) \/ SubmitCode(t))
    <3>1. tab' = tab /\ tab[t].screen \in {"code", "console"}
      BY <1>1, <2>3 DEF Staff, Cancel, SignOut, OpenPage, ChangeFlag, ChangeOverride, ChangeUser,
                        Propose, Submit
    <3>2. QED
      BY <3>1
  <2>4. QED
    BY <2>1, <2>2, <2>3
<1>2. ASSUME NEW u \in Uses, Server(t, u) \/ Lose(t, u) \/ BreakOff(t, u)
      PROVE  tab'[t].screen # "closed"
  BY <1>2, <1>s DEF Server, StaffGuard, ReadSession, Login, Confirm, ServeLogout, ReadFlag,
        WriteFlag, SetOverride, RemoveOverride, SetSuspended, ActOnUser, Lose, BreakOff, Handles
<1>3. ASSUME Client(t)  PROVE tab'[t].screen # "closed"
  <2>1. \E u \in {"fetch", "dropped", "page", "change", "login", "confirm", "logout"} : Back(t, u)
    BY <1>3 DEF Client, SessionRead, DroppedRead, Answer, LoginAnswer, ConfirmAnswer, LogoutAnswer
  <2>2. tab[t].screen # "closed"
    BY <1>f, <1>s, <2>1 DEF Back
  <2>3. ASSUME NEW requests, NEW known, NEW token \in 0 .. MaxTokens,
               Invalidate(t, requests, known, token)
        PROVE  tab'[t].screen # "closed"
    BY <1>f, <2>2, <2>3, InvalidateShows DEF Invalidated
  <2>4. CASE SessionRead(t)
    <3>1. tab'[t].screen \in {"console", "code", "login", "failed"}
      BY <1>f, <2>4, SessionReadShows
    <3>2. QED
      BY <3>1
  <2>5. CASE DroppedRead(t)
    BY <1>f, <2>2, <2>5 DEF DroppedRead, TabView
  <2>6. ASSUME NEW screen, NEW kind, FormRefused(t, screen, kind)  PROVE tab'[t].screen # "closed"
    BY <1>f, <2>2, <2>6 DEF FormRefused, TabView
  <2>7. CASE Cleared(t)
    <3>1. tab'[t].screen = tab[t].screen
      BY <1>f, <2>7 DEF Cleared, TabView
    <3>2. QED
      BY <2>2, <3>1
  <2>8. ASSUME NEW u \in {"page", "change"}, Answer(t, u)  PROVE tab'[t].screen # "closed"
    BY <1>f, <2>2, <2>3, <2>8 DEF Answer, Unauthorized
  <2>9. CASE LoginAnswer(t)
    BY <1>f, <2>3, <2>6, <2>9 DEF LoginAnswer
  <2>10. CASE ConfirmAnswer(t)
    <3>1. tab[t].token \in 0 .. MaxTokens
      BY <1>f DEF TabView
    <3>2. QED
      BY <2>3, <2>6, <2>10, <3>1 DEF ConfirmAnswer
  <2>11. CASE LogoutAnswer(t)
    BY <1>f, <2>3, <2>7, <2>11 DEF LogoutAnswer
  <2>12. QED
    BY <1>3, <2>4, <2>5, <2>8, <2>9, <2>10, <2>11 DEF Client
<1>4. QED
  BY <1>1, <1>2, <1>3, <1>f, TabsTyped DEF Step

\* The tabs that do not move still fit.
LEMMA OtherTabFits ==
  ASSUME Going, NEW o \in Tabs, net'[o] = net[o], tab'[o] = tab[o]
  PROVE  TabFits(o)'
<1>1. TabFits(o) /\ \A u \in Uses : RequestFits(sessions', net[o][u])
  BY AllBegun DEF Going, AllFit
<1>2. QED
  BY <1>1 DEF TabFits

\* Every other request stays as it is, as far as its tab can tell.
Same(p, q) == /\ q.at = p.at /\ q.kind = p.kind /\ q.session = p.session
              /\ q.answer = p.answer /\ q.token = p.token
OnlyOne(t, u) ==
  \A o \in Tabs, v \in Uses : <<o, v>> # <<t, u>> => Same(net[o][v], net'[o][v])

LEMMA MovesOne ==
  ASSUME ConsoleTypeOK, NEW t \in Tabs, NEW u \in Uses, NEW q, Moves(t, [net[t] EXCEPT ![u] = q])
  PROVE  net'[t][u] = q /\ OnlyOne(t, u)
BY DEF ConsoleTypeOK, Moves, OnlyOne, Same

\* A tab that has one request asked, handled or answered still fits.
LEMMA PutFits ==
  ASSUME Going, NEW t \in Tabs, NEW u \in Uses, OnlyOne(t, u), tab'[t].screen # "closed",
         \A o \in Tabs \ {t} : tab'[o] = tab[o],
         net'[t][u].at # "none" => KindFits(u, net'[t][u]), RequestFits(sessions', net'[t][u])
  PROVE  \A o \in Tabs : TabFits(o)'
<1>1. ASSUME NEW o \in Tabs, NEW v \in Uses, <<o, v>> # <<t, u>>
      PROVE  /\ RequestFits(sessions', net'[o][v]) /\ net'[o][v].at = net[o][v].at
             /\ net'[o][v].at # "none" => KindFits(v, net'[o][v])
  <2>1. Same(net[o][v], net'[o][v])
    BY <1>1 DEF OnlyOne
  <2>2. RequestFits(sessions', net[o][v]) /\ TabFits(o)
    BY AllBegun DEF Going, AllFit
  <2>3. QED
    BY <2>1, <2>2 DEF Same, RequestFits, KindFits, TabFits
<1>2. TabFits(t)'
  BY <1>1 DEF TabFits
<1>3. ASSUME NEW o \in Tabs \ {t}  PROVE TabFits(o)'
  <2>1. TabFits(o)
    BY DEF Going, AllFit
  <2>2. QED
    BY <1>1, <2>1 DEF TabFits
<1>4. QED
  BY <1>2, <1>3

\* What a step of the server, or a loss, makes of a request.
Becomes(t, u, q) ==
  LET p == net[t][u] IN
  \/ u = "stray" /\ q = Nothing
  \/ /\ q.at \notin {"none", "sent"} /\ q.kind \in {p.kind, Spoken(p)}
     /\ q.session = p.session \/ u = "login"
     /\ RequestFits(sessions', q)
     /\ q.answer = "csrf" => p.answer = "csrf" \/ (p.at = "sent" /\ Check(p) = "csrf")
     /\ u = "fetch" /\ q.at = "answered" /\ q.answer = "ok"
          => ReadSession(t, u) /\ q.token = tokens + 1

\* An answer becomes the request, unless it is that of a logout that left the session open.
LEMMA AnswerBecomes ==
  ASSUME Going, NEW t \in Tabs, NEW u \in Uses, NEW answer \in {"ok", "refused", "lost"},
         Answered(t, u, answer), u = "fetch" => answer # "ok",
         net[t][u].kind \in {"logout", "signout"} /\ answer = "ok"
           => OverIn(sessions', net[t][u].session)
  PROVE  OnlyOne(t, u) /\ Becomes(t, u, net'[t][u])
<1>1. PICK q \in Request : /\ Moves(t, [net[t] EXCEPT ![u] = q])
                           /\ Heard(u, net[t][u], answer, q)
  BY SomeTold DEF Going
<1>2. net'[t][u] = q /\ OnlyOne(t, u)
  BY <1>1, MovesOne DEF Going
<1>3. RequestFits(sessions', net[t][u])
  BY AllBegun
<1>4. Spoken(net[t][u]) \in {"logout", "signout"} => net[t][u].kind \in {"logout", "signout"}
  BY DEF Spoken
<1>5. CASE u = "stray"
  BY <1>1, <1>2, <1>5 DEF Heard, Becomes
<1>6. CASE u # "stray"
  BY <1>1, <1>2, <1>3, <1>4, <1>6 DEF Heard, Becomes, RequestFits
<1>7. QED
  BY <1>5, <1>6

LEMMA ServerBecomes ==
  ASSUME Going, NEW t \in Tabs, NEW u \in Uses, Server(t, u) \/ Lose(t, u)
  PROVE  /\ OnlyOne(t, u) /\ Becomes(t, u, net'[t][u])
         /\ UNCHANGED tab /\ net[t][u].at # "none"
<1>f. /\ TabFits(t) /\ ConsoleTypeOK /\ net[t][u] \in Request /\ RequestFits(sessions', net[t][u])
  BY AllBegun DEF Going, AllFit
<1>t. UNCHANGED tab /\ net[t][u].at # "none"
  BY DEF Server, StaffGuard, ReadSession, Login, Confirm, ServeLogout, ReadFlag, WriteFlag,
         SetOverride, RemoveOverride, SetSuspended, ActOnUser, Lose, Handles
<1>k. KindFits(u, net[t][u])
  BY <1>f, <1>t DEF TabFits
<1> DEFINE Goal == OnlyOne(t, u) /\ Becomes(t, u, net'[t][u])
<1>1. CASE StaffGuard(t, u)
  <2>1. PICK q \in Request :
          /\ Moves(t, [net[t] EXCEPT ![u] = q])
          /\ \/ /\ q.at = "checked" /\ q.kind = net[t][u].kind /\ q.answer = net[t][u].answer
                /\ q.session = net[t][u].session
             \/ /\ Heard(u, net[t][u], Check(net[t][u]), q)
                /\ Check(net[t][u]) = "ok" => net[t][u].kind = "page"
    BY <1>1, <1>f, GuardMoves
  <2>2. net'[t][u] = q /\ OnlyOne(t, u)
    BY <1>f, <2>1, MovesOne
  <2>3. net[t][u].at = "sent" /\ UNCHANGED sessions
    BY <1>1 DEF StaffGuard, server
  <2>4. Check(net[t][u]) = "login" => OverIn(sessions', net[t][u].session)
    BY <2>3 DEF Check, OverIn
  <2>5. /\ Spoken(net[t][u]) \in {"logout", "signout"} => net[t][u].kind # "page"
        /\ u = "fetch" => net[t][u].kind # "page"
    BY <1>k DEF Spoken, KindFits
  <2>6. CASE q.at = "checked" /\ q.kind = net[t][u].kind /\ q.answer = net[t][u].answer
             /\ q.session = net[t][u].session
    BY <1>f, <1>t, <2>2, <2>6 DEF Becomes, RequestFits
  <2>7. CASE /\ Heard(u, net[t][u], Check(net[t][u]), q)
             /\ Check(net[t][u]) = "ok" => net[t][u].kind = "page"
    <3>1. CASE u = "stray"
      BY <1>t, <2>2, <2>7, <3>1 DEF Heard, Becomes
    <3>2. CASE u # "stray"
      <4>1. /\ q.at = "answered" /\ q.answer = Check(net[t][u])
            /\ q.session = net[t][u].session /\ q.kind = Spoken(net[t][u])
        BY <2>7, <3>2 DEF Heard
      <4>2. RequestFits(sessions', q)
        BY <1>f, <2>4, <2>5, <2>7, <4>1 DEF RequestFits
      <4>3. QED
        BY <1>t, <2>2, <2>3, <2>5, <2>7, <4>1, <4>2 DEF Becomes
    <3>3. QED
      BY <3>1, <3>2
  <2>8. QED
    BY <1>t, <2>1, <2>6, <2>7
<1>2. CASE ReadSession(t, u)
  <2>1. PICK q \in Request : /\ Moves(t, [net[t] EXCEPT ![u] = q])
                             /\ Heard(u, net[t][u], "ok", q)
                             /\ u # "stray" => q.token = tokens + 1
    BY <1>2, <1>f, ReadSessionMoves
  <2>2. net'[t][u] = q /\ OnlyOne(t, u)
    BY <1>f, <2>1, MovesOne
  <2>3. net[t][u].kind = "session" /\ Spoken(net[t][u]) \notin {"logout", "signout"}
    BY <1>2 DEF ReadSession, Handles, Spoken
  <2>4. QED
    BY <1>2, <1>f, <1>t, <2>1, <2>2, <2>3 DEF Heard, Becomes, RequestFits
<1>3. CASE Login(t, u)
  <2>1. net[t][u].kind = "login" /\ u # "fetch" /\ (u = "login" \/ u = "stray")
    BY <1>3, <1>k, PermittedAssumption DEF Login, KindFits, Uses, Settings, OnUser
  <2>2. CASE Answered(t, u, "refused")
    BY <1>t, <2>2, AnswerBecomes
  <2>3. ASSUME NEW s \in StaffSessions, NEW q \in Request,
               Moves(t, [net[t] EXCEPT ![u] = q]),
               IF u = "stray" THEN q = Nothing
               ELSE q.at = "answered" /\ q.kind = "login" /\ q.session = s /\ q.answer = "ok",
               sessions' = [sessions EXCEPT ![s] = Opened]
        PROVE  Goal
    <3>1. sessions'[s].state = "open"
      BY <2>3 DEF Going, SessionRows, Opened
    <3>2. net'[t][u] = q /\ OnlyOne(t, u)
      BY <1>f, <2>3, MovesOne
    <3>3. CASE u = "stray"
      BY <2>3, <3>2, <3>3 DEF Becomes
    <3>4. CASE u = "login"
      BY <2>1, <2>3, <3>1, <3>2, <3>4 DEF Becomes, RequestFits, BegunIn
    <3>5. QED
      BY <2>1, <3>3, <3>4
  <2>4. QED
    BY <1>3, <1>f, <1>t, <2>2, <2>3, LoginMoves
<1>4. CASE ServeLogout(t, u)
  <2>1. /\ Answered(t, u, "ok") /\ net[t][u].kind \in {"logout", "signout"}
        /\ sessions' = [sessions EXCEPT ![net[t][u].session].state = "closed"]
    BY <1>4 DEF ServeLogout, Handles
  <2>2. net[t][u].session \in StaffSessions \cup {Null} /\ u # "fetch"
    BY <1>f, <1>k, <2>1 DEF Request, KindFits
  <2>3. OverIn(sessions', net[t][u].session)
    BY <2>1, <2>2 DEF OverIn, Going, SessionRows
  <2>4. QED
    BY <1>t, <2>1, <2>2, <2>3, AnswerBecomes
<1>5. CASE \/ Confirm(t, u) \/ SetOverride(t, u) \/ RemoveOverride(t, u) \/ SetSuspended(t, u)
           \/ ActOnUser(t, u)
  <2>1. \E answer \in {"ok", "refused"} : Answered(t, u, answer)
    BY <1>5 DEF Confirm, SetOverride, RemoveOverride, SetSuspended, ActOnUser
  <2>2. net[t][u].kind \notin {"logout", "signout", "session"}
    BY <1>5 DEF Confirm, SetOverride, RemoveOverride, SetSuspended, ActOnUser, Handles
  <2>3. u # "fetch"
    BY <1>k, <2>2 DEF KindFits
  <2>4. QED
    BY <1>t, <2>1, <2>2, <2>3, AnswerBecomes
<1>6. CASE ReadFlag(t, u)
  <2>1. PICK q \in Request :
          /\ Moves(t, [net[t] EXCEPT ![u] = q]) /\ q.at = "half" /\ q.kind = net[t][u].kind
          /\ q.session = net[t][u].session /\ q.answer = net[t][u].answer
    BY <1>6, <1>f, ReadFlagMoves
  <2>2. net'[t][u] = q /\ OnlyOne(t, u)
    BY <1>f, <2>1, MovesOne
  <2>3. QED
    BY <1>f, <1>t, <2>1, <2>2 DEF Becomes, RequestFits
<1>7. CASE WriteFlag(t, u)
  <2>1. Heard(u, net[t][u], "ok", net'[t][u]) /\ OnlyOne(t, u)
    BY <1>7, <1>f, WriteFlagMoves DEF OnlyOne, Same
  <2>2. net[t][u].kind = "flag" /\ u # "fetch" /\ Spoken(net[t][u]) \notin {"logout", "signout"}
    BY <1>7, <1>k DEF WriteFlag, KindFits, Spoken
  <2>3. QED
    BY <1>f, <1>t, <2>1, <2>2 DEF Heard, Becomes, RequestFits
<1>8. CASE Lose(t, u)
  BY <1>8, <1>t, AnswerBecomes DEF Lose
<1>9. QED
  BY <1>1, <1>2, <1>3, <1>4, <1>5, <1>6, <1>7, <1>8, <1>t DEF Server

LEMMA ServerFits ==
  ASSUME Going, NEW t \in Tabs, NEW u \in Uses, Server(t, u) \/ Lose(t, u)
  PROVE  \A o \in Tabs : TabFits(o)'
<1>1. /\ OnlyOne(t, u) /\ Becomes(t, u, net'[t][u])
      /\ UNCHANGED tab /\ net[t][u].at # "none"
  BY ServerBecomes
<1>2. TabFits(t) /\ KindFits(u, net[t][u]) /\ tab[t].screen # "closed"
  BY <1>1 DEF Going, AllFit, TabFits
<1>3. CASE net'[t][u] = Nothing
  BY <1>1, <1>2, <1>3, PutFits, NothingAsked DEF RequestFits, BegunIn
<1>4. CASE net'[t][u] # Nothing
  <2>1. RequestFits(sessions', net'[t][u]) /\ net'[t][u].kind \in {net[t][u].kind, Spoken(net[t][u])}
    BY <1>1, <1>4 DEF Becomes
  <2>2. KindFits(u, net'[t][u])
    BY <1>2, <2>1, PermittedAssumption DEF KindFits, Spoken, Settings, OnUser
  <2>3. QED
    BY <1>1, <1>2, <2>1, <2>2, PutFits
<1>5. QED
  BY <1>3, <1>4

\* A tab that has taken an answer, read the session again or given a read up, still fits.
LEMMA FreedFits ==
  ASSUME Going, NEW t \in Tabs, NEW u \in Uses, NEW known \in StaffSessions \cup {Null},
         \/ Moves(t, Freed(t, u)) \/ Moves(t, Reread(Freed(t, u), known))
         \/ Moves(t, GiveUp(Freed(t, u))) \/ Moves(t, Reread(net[t], known)),
         BegunIn(sessions', known),
         tab'[t].screen # "closed", \A o \in Tabs \ {t} : tab'[o] = tab[o]
  PROVE  \A o \in Tabs : TabFits(o)'
<1>1. TabFits(t) /\ net[t] \in Asks /\ Freed(t, u) \in Asks
  BY FreedSo DEF Going, AllFit, ConsoleTypeOK, Asks
<1> DEFINE Fit(asks) == \A v \in Uses : /\ asks[v].at # "none" => KindFits(v, asks[v])
                                        /\ RequestFits(sessions', asks[v])
<1>2. Fit(net[t])
  BY <1>1, AllBegun DEF TabFits
<1>3. RequestFits(sessions', Nothing) /\ Nothing.at = "none"
  BY NothingAsked DEF RequestFits, BegunIn
<1>4. Fit(Freed(t, u))
  BY <1>2, <1>3, FreedSo DEF Going
<1>5. ASSUME NEW asks \in Asks, Fit(asks)  PROVE Fit(GiveUp(asks))
  BY <1>3, <1>5, GivenUp DEF Uses, KindFits
<1>6. ASSUME NEW asks \in Asks, Fit(asks)  PROVE Fit(Reread(asks, known))
  <2> DEFINE again == Reread(asks, known)
  <2>1. /\ \A v \in Uses \ {"fetch", "dropped"} : again[v] = asks[v]
        /\ again["dropped"] = IF asks["fetch"].at = "none" THEN asks["dropped"] ELSE asks["fetch"]
        /\ again["fetch"].kind = "session" /\ again["fetch"].session = known
        /\ again["fetch"].answer = "none"
    BY ReadAgain
  <2> HIDE DEF again
  <2>2. RequestFits(sessions', again["fetch"]) /\ KindFits("fetch", again["fetch"])
    BY <2>1 DEF RequestFits, KindFits
  <2>3. Fit(again)
    BY <1>6, <2>1, <2>2 DEF Uses, KindFits
  <2>4. QED
    BY <2>3 DEF again
<1>7. Fit(net'[t])
  BY <1>1, <1>2, <1>4, <1>5, <1>6 DEF Moves
<1>8. TabFits(t)'
  BY <1>7 DEF TabFits
<1>9. \A o \in Tabs \ {t} : net'[o] = net[o] /\ tab'[o] = tab[o]
  BY DEF Moves
<1>10. QED
  BY <1>8, <1>9, OtherTabFits

LEMMA StaffFits ==
  ASSUME Going, NEW t \in Tabs, Staff(t)  PROVE \A o \in Tabs : TabFits(o)'
<1>1. BegunIn(sessions', cookie) /\ cookie \in StaffSessions \cup {Null}
  BY AllBegun
<1>2. tab'[t].screen # "closed" /\ \A o \in Tabs \ {t} : tab'[o] = tab[o]
  BY StepOpen DEF Step
<1>3. CASE Moves(t, Reread(net[t], cookie))
  BY <1>1, <1>2, <1>3, FreedFits DEF Uses
<1>4. ASSUME NEW u \in Forms, NEW q \in Request,
             Moves(t, [net[t] EXCEPT ![u] = q]), q.session = cookie, q.answer = "none",
             KindFits(u, q)
      PROVE  \A o \in Tabs : TabFits(o)'
  <2>1. u \in Uses /\ RequestFits(sessions', q)
    BY <1>1, <1>4 DEF Forms, Uses, RequestFits
  <2>2. net'[t][u] = q /\ OnlyOne(t, u)
    BY <1>4, <2>1, MovesOne DEF Going
  <2>3. QED
    BY <1>2, <1>4, <2>1, <2>2, PutFits
<1>5. ASSUME NEW u \in Forms, NEW q,
             \/ u \in {"page", "login", "confirm"} /\ q.kind = u
             \/ u = "logout" /\ q.kind \in {"logout", "signout"}
             \/ u = "change" /\ q.kind \in Permitted
      PROVE  KindFits(u, q)
  BY <1>5 DEF KindFits
<1>6. ConsoleTypeOK
  BY DEF Going
<1>7. CASE ~Moves(t, Reread(net[t], cookie))
  <2>1. PICK u \in Forms, q \in Request :
          /\ Moves(t, [net[t] EXCEPT ![u] = q]) /\ q.session = cookie /\ q.answer = "none"
          /\ \/ u \in {"page", "login", "confirm"} /\ q.kind = u
             \/ u = "logout" /\ q.kind \in {"logout", "signout"}
             \/ u = "change" /\ q.kind \in Permitted
    BY <1>6, <1>7, StaffMoves
  <2>2. QED
    BY <1>4, <1>5, <2>1
<1>8. QED
  BY <1>3, <1>7

LEMMA BreakFits ==
  ASSUME Going, NEW t \in Tabs, NEW u \in Uses, BreakOff(t, u)  PROVE \A o \in Tabs : TabFits(o)'
<1>1. PICK q \in Request :
        /\ Moves(t, [[net[t] EXCEPT !["stray"] = net[t][u]] EXCEPT ![u] = q])
        /\ u # "stray" /\ q.at = "answered" /\ q.answer = "lost"
        /\ q.session = net[t][u].session /\ q.kind = Spoken(net[t][u])
  BY BreakMoves DEF Going
<1>2. /\ TabFits(t) /\ net[t] \in Asks /\ "stray" \in Uses /\ net[t][u].at # "none"
      /\ \A v \in Uses : RequestFits(sessions', net[t][v])
  BY AllBegun DEF Going, AllFit, ConsoleTypeOK, Asks, Uses, BreakOff
<1>3. /\ net'[t][u] = q /\ net'[t]["stray"] = net[t][u]
      /\ \A v \in Uses \ {u, "stray"} : net'[t][v] = net[t][v]
  BY <1>1, <1>2 DEF Moves, Asks
<1>4. KindFits(u, q) /\ RequestFits(sessions', q) /\ KindFits("stray", net[t][u])
  BY <1>1, <1>2, PermittedAssumption DEF TabFits, KindFits, Spoken, Settings, OnUser, RequestFits
<1>5. tab'[t].screen # "closed" /\ \A o \in Tabs \ {t} : tab'[o] = tab[o]
  BY StepOpen DEF Step
<1>6. TabFits(t)'
  BY <1>2, <1>3, <1>4, <1>5 DEF TabFits
<1>7. \A o \in Tabs \ {t} : net'[o] = net[o]
  BY <1>1 DEF Moves
<1>8. QED
  BY <1>5, <1>6, <1>7, OtherTabFits

LEMMA ClientFits ==
  ASSUME Going, NEW t \in Tabs, Client(t)
  PROVE  BegunIn(sessions', cookie') /\ \A o \in Tabs : TabFits(o)'
<1>1. /\ tab'[t].screen # "closed" /\ \A o \in Tabs \ {t} : tab'[o] = tab[o]
  BY StepOpen DEF Step
<1>2. /\ BegunIn(sessions', cookie) /\ BegunIn(sessions', Null) /\ "login" \in Uses
      /\ \A u \in Uses : BegunIn(sessions', net[t][u].session)
  BY AllBegun DEF BegunIn, RequestFits, Uses
<1>3. BegunIn(sessions', cookie')
  <2>1. cookie' \in {cookie, Null, net[t]["login"].session}
    BY DEF Client, SessionRead, DroppedRead, Answer, LoginAnswer, ConfirmAnswer, LogoutAnswer
  <2>2. QED
    BY <1>2, <2>1
<1>4. PICK u \in Uses, known \in StaffSessions \cup {Null} :
        /\ known \in {cookie, cookie'}
        /\ \/ Moves(t, Freed(t, u)) \/ Moves(t, Reread(Freed(t, u), known))
           \/ Moves(t, GiveUp(Freed(t, u)))
  BY ClientMoves DEF Going
<1>5. QED
  BY <1>1, <1>2, <1>3, <1>4, FreedFits

LEMMA AllFitNext == ASSUME Going, [ConsoleNext]_consoleVars PROVE AllFit'
<1>1. ASSUME NEW t \in Tabs, Client(t)  PROVE AllFit'
  BY <1>1, ClientFits DEF AllFit
<1>2. ASSUME NEW t \in Tabs, Staff(t)  PROVE AllFit'
  <2>1. UNCHANGED cookie
    BY <1>2 DEF Staff, Load, SubmitLogin, SubmitCode, SubmitForm, Cancel, SignOut, OpenPage,
                ChangeFlag, ChangeOverride, ChangeUser, Propose, Submit
  <2>2. QED
    BY <1>2, <2>1, StaffFits, AllBegun DEF AllFit
<1>3. ASSUME NEW t \in Tabs, NEW u \in Uses, Server(t, u) \/ Lose(t, u)  PROVE AllFit'
  <2>1. cookie' \in {cookie, net[t][u].session}
    BY <1>3 DEF Server, StaffGuard, ReadSession, Login, Confirm, ServeLogout, ReadFlag, WriteFlag,
                SetOverride, RemoveOverride, SetSuspended, ActOnUser, Lose
  <2>2. BegunIn(sessions', cookie')
    BY <2>1, AllBegun DEF RequestFits
  <2>3. QED
    BY <1>3, <2>2, ServerFits DEF AllFit
<1>4. ASSUME NEW t \in Tabs, NEW u \in Uses, BreakOff(t, u)  PROVE AllFit'
  <2>1. UNCHANGED cookie
    BY <1>4 DEF BreakOff
  <2>2. QED
    BY <1>4, <2>1, BreakFits, AllBegun DEF AllFit
<1>5. ASSUME UNCHANGED <<tab, net, cookie>>  PROVE AllFit'
  <2>1. BegunIn(sessions', cookie)
    BY DEF Going, AllFit, BegunIn, Grow, ConsoleTypeOK
  <2>2. QED
    BY <1>5, <2>1, OtherTabFits DEF AllFit
<1>6. QED
  BY <1>1, <1>2, <1>3, <1>4, <1>5 DEF ConsoleNext, RunOut, consoleVars

\* No tab but this one is open, and this one has gone by nothing that was over.
Alone(t) == ~late /\ \A o \in Tabs \ {t} : tab[o].screen = "closed"

\* While the session known to the browser goes on, its token being csrf: a code under way
\* has left from the page that asks for it, which waits for the answer and reads nothing
\* meanwhile; and what a read, a console or a change has of the token is the token.
Live(csrf, known, asks, view) ==
  LET read == asks["fetch"] code == asks["confirm"] change == asks["change"] IN
  /\ code.at # "none" /\ code.session = known =>
       view.screen = "code" /\ view.pending /\ read.at = "none"
  /\ view.screen = "code" /\ view.pending => code.at = "none" \/ code.session = known
  /\ view.screen = "code" /\ ~view.pending => read.at = "none"
  /\ read.at = "answered" /\ read.answer = "ok" => read.token = csrf
  /\ view.screen = "console" => view.token = csrf /\ read.at = "none"
  /\ change.at = "sent" /\ change.session = known => change.token = csrf /\ view.screen = "console"

\* Of a tab on its own, with its requests, what it shows and the cookie: what it asked of
\* another session than that of the cookie, asked of a read it gave up or asked of a read
\* that was cut off, it asked of a session that is over; and no change was refused.
AloneFits(rows, known, asks, view) ==
  /\ \A u \in Uses : asks[u].session # known /\ asks[u].kind # "login" => OverIn(rows, asks[u].session)
  /\ asks["fetch"].at # "none" => asks["fetch"].session = known \/ OverIn(rows, known)
  /\ OverIn(rows, asks["dropped"].session)
  /\ asks["stray"].kind = "session" => OverIn(rows, asks["stray"].session)
  /\ view.screen = "login" => OverIn(rows, known) \/ (view.pending /\ asks["login"].at = "none")
  /\ view.cache = "gone" \/ (view.screen = "login" /\ view.cache = "empty") => asks["fetch"].at = "none"
  /\ asks["change"].answer # "csrf"
  /\ OverIn(rows, known) \/ Live(rows[known].csrf, known, asks, view)

AloneInv == /\ ConsoleTypeOK /\ AllFit
            /\ \A t \in Tabs : Alone(t) => AloneFits(sessions, cookie, net[t], tab[t])

\* What a tab that is alone and stays alone relies on.
Lone(t) == Going /\ AloneFits(sessions, cookie, net[t], tab[t])
FitsAfter(t) == AloneFits(sessions', cookie', net'[t], tab'[t])

LEMMA AllUses ==
  {"fetch", "dropped", "page", "login", "confirm", "logout", "change", "stray"} = Uses
BY DEF Uses

LEMMA LoneStaff ==
  ASSUME NEW t \in Tabs, Lone(t), Staff(t), ~late'  PROVE FitsAfter(t)
<1>1. /\ net[t] \in Asks /\ Going /\ AloneFits(sessions, cookie, net[t], tab[t]) /\ TabFits(t)
      /\ ConsoleTypeOK /\ cookie \in StaffSessions \cup {Null} /\ tab \in [Tabs -> TabView]
  BY DEF Lone, Going, ConsoleTypeOK, Asks, AllFit, TabView
<1>2. UNCHANGED <<sessions, cookie>>
  BY DEF Staff, Load, SubmitLogin, SubmitCode, SubmitForm, Cancel, SignOut, OpenPage,
         ChangeFlag, ChangeOverride, ChangeUser, Propose, Submit, server
<1>3. CASE Load(t) /\ Moves(t, Reread(net[t], cookie))
  <2> DEFINE again == Reread(net[t], cookie)
  <2>1. net[t]["fetch"].at = "none" /\ tab[t].screen \in {"closed", "failed"}
    BY <1>3 DEF Load
  <2>2. /\ \A v \in Uses \ {"fetch"} : again[v] = net[t][v]
        /\ again["fetch"].at = "sent" /\ again["fetch"].session = cookie
        /\ again["fetch"].kind = "session"
    BY <1>1, <2>1, ReadAgain
  <2>3. net'[t] = again
    BY <1>3 DEF Moves
  <2> HIDE DEF again
  <2>4. tab'[t].screen \notin {"login", "code", "console"} /\ tab'[t].cache # "gone"
    BY <1>1, <1>3, <2>1 DEF Load, TabView
  <2>5. \A v \in Uses : again[v].session # cookie /\ again[v].kind # "login" =>
          OverIn(sessions, again[v].session)
    BY <1>1, <2>2 DEF AloneFits
  <2>6. ~OverIn(sessions, cookie) => Live(sessions[cookie].csrf, cookie, again, tab'[t])
    BY <1>1, <2>1, <2>2, <2>4 DEF AloneFits, Live, Uses
  <2>7. AloneFits(sessions, cookie, again, tab'[t])
    BY <1>1, <2>2, <2>4, <2>5, <2>6 DEF AloneFits, Uses
  <2>8. QED
    BY <1>2, <2>3, <2>7 DEF FitsAfter
<1>4. ASSUME NEW u \in Forms, NEW q \in Request,
             Moves(t, [net[t] EXCEPT ![u] = q]), q.at = "sent", q.session = cookie,
             q.answer = "none", u # "logout" => q.kind # "session"
      PROVE  /\ net'[t][u] = q /\ \A v \in Uses \ {u} : net'[t][v] = net[t][v]
             /\ \A v \in Uses : net'[t][v].session # cookie /\ net'[t][v].kind # "login" =>
                  OverIn(sessions, net'[t][v].session)
  <2>1. net'[t][u] = q /\ \A v \in Uses \ {u} : net'[t][v] = net[t][v]
    BY <1>1, <1>4 DEF Moves, Asks, Forms, Uses
  <2>2. QED
    BY <1>1, <1>4, <2>1 DEF AloneFits
<1>5. ASSUME NEW u \in {"page", "logout"}, NEW q \in Request,
             net'[t][u] = q, \A v \in Uses \ {u} : net'[t][v] = net[t][v],
             \A v \in Uses : net'[t][v].session # cookie /\ net'[t][v].kind # "login" =>
               OverIn(sessions, net'[t][v].session),
             tab'[t] = tab[t]
      PROVE  FitsAfter(t)
  BY <1>1, <1>2, <1>5, AllUses DEF AloneFits, FitsAfter, Live
<1>6. CASE ~(Load(t) /\ Moves(t, Reread(net[t], cookie)))
  <2>1. PICK u \in Forms, q \in Request :
          /\ Moves(t, [net[t] EXCEPT ![u] = q])
          /\ q.at = "sent" /\ q.session = cookie /\ q.answer = "none"
          /\ \/ u = "page" /\ q.kind = "page" /\ OpenPage(t)
             \/ u = "login" /\ q.kind = "login" /\ SubmitLogin(t)
             \/ u = "confirm" /\ q.kind = "confirm" /\ SubmitCode(t)
             \/ u = "logout" /\ q.kind = "logout" /\ Cancel(t)
             \/ u = "logout" /\ q.kind = "signout" /\ SignOut(t)
             \/ /\ u = "change" /\ q.kind \in Permitted /\ q.token = tab[t].token
                /\ tab[t].screen = "console"
                /\ UNCHANGED <<server, cookie, tab, settings, late>>
    BY <1>1, <1>6, StaffMoves
  <2>2. /\ net'[t][u] = q /\ \A v \in Uses \ {u} : net'[t][v] = net[t][v]
        /\ \A v \in Uses : net'[t][v].session # cookie /\ net'[t][v].kind # "login" =>
             OverIn(sessions, net'[t][v].session)
    BY <1>4, <2>1, PermittedAssumption DEF Settings, OnUser
  <2>3. CASE u \in {"page", "logout"}
    <3>1. UNCHANGED tab
      BY <2>1, <2>3 DEF OpenPage, Cancel, SignOut, Submit
    <3>2. QED
      BY <1>5, <2>2, <2>3, <3>1
  <2>4. CASE u \in {"login", "confirm"}
    <3>1. /\ tab[t].screen = IF u = "login" THEN "login" ELSE "code"
          /\ ~tab[t].pending /\ tab' = [tab EXCEPT ![t].pending = TRUE]
      BY <2>1, <2>4 DEF SubmitLogin, SubmitCode, SubmitForm
    <3>2. /\ tab'[t].screen = tab[t].screen /\ tab'[t].pending /\ tab'[t].cache = tab[t].cache
          /\ tab'[t].token = tab[t].token
      BY <1>1, <3>1 DEF TabView
    <3>3. CASE u = "login"
      <4>1. OverIn(sessions, cookie)
        BY <1>1, <3>1, <3>3 DEF AloneFits
      <4>2. QED
        BY <1>1, <1>2, <2>2, <3>1, <3>2, <3>3, <4>1, AllUses DEF AloneFits, FitsAfter
    <3>4. CASE u = "confirm"
      <4>1. ~OverIn(sessions, cookie) => Live(sessions[cookie].csrf, cookie, net'[t], tab'[t])
        BY <1>1, <2>1, <2>2, <3>1, <3>2, <3>4, AllUses DEF AloneFits, Live
      <4>2. QED
        BY <1>1, <1>2, <2>2, <3>1, <3>2, <3>4, <4>1, AllUses DEF AloneFits, FitsAfter
    <3>5. QED
      BY <2>4, <3>3, <3>4
  <2>5. CASE u = "change"
    <3>1. /\ q.token = tab[t].token /\ tab[t].screen = "console" /\ UNCHANGED tab
      BY <2>1, <2>5
    <3>2. ~OverIn(sessions, cookie) => Live(sessions[cookie].csrf, cookie, net'[t], tab'[t])
      BY <1>1, <2>1, <2>2, <2>5, <3>1, AllUses DEF AloneFits, Live
    <3>3. QED
      BY <1>1, <1>2, <2>1, <2>2, <2>5, <3>1, <3>2, AllUses DEF AloneFits, FitsAfter
  <2>6. QED
    BY <2>3, <2>4, <2>5 DEF Forms
<1>7. QED
  BY <1>3, <1>6

\* The token of a session that has begun changes when the session is read, and only then.
LEMMA Rotates ==
  ASSUME Going, NEW t \in Tabs, NEW u \in Uses, Server(t, u) \/ Lose(t, u),
         NEW s \in StaffSessions, sessions[s].state # "none"
  PROVE  sessions'[s].csrf = IF ReadSession(t, u) /\ net[t][u].session = s
                             THEN tokens + 1 ELSE sessions[s].csrf
<1>1. sessions \in SessionRows
  BY DEF Going
<1>2. CASE ReadSession(t, u)
  BY <1>1, <1>2 DEF ReadSession, SessionRows
<1>3. CASE Login(t, u) /\ ~ReadSession(t, u)
  BY <1>1, <1>3 DEF Login, SessionRows, server
<1>4. CASE (Confirm(t, u) \/ ServeLogout(t, u)) /\ ~ReadSession(t, u)
  BY <1>1, <1>4 DEF Confirm, ServeLogout, SessionRows
<1>5. CASE ~(ReadSession(t, u) \/ Login(t, u) \/ Confirm(t, u) \/ ServeLogout(t, u))
  <2>1. UNCHANGED sessions
    BY <1>5 DEF Server, StaffGuard, ReadFlag, WriteFlag, SetOverride, RemoveOverride,
                SetSuspended, ActOnUser, Lose, server
  <2>2. QED
    BY <1>5, <2>1
<1>6. QED
  BY <1>2, <1>3, <1>4, <1>5

LEMMA LoneServer ==
  ASSUME NEW t \in Tabs, NEW u \in Uses, Lone(t), Server(t, u) \/ Lose(t, u), ~late'
  PROVE  FitsAfter(t)
<1> DEFINE p == net[t][u]
           q == net'[t][u]
<1>1. /\ Going /\ AloneFits(sessions, cookie, net[t], tab[t]) /\ TabFits(t)
      /\ cookie \in StaffSessions \cup {Null}
  BY DEF Lone, Going, AllFit, ConsoleTypeOK
<1>2. UNCHANGED cookie
  BY DEF Server, StaffGuard, ReadSession, Login, Confirm, ServeLogout, ReadFlag, WriteFlag,
         SetOverride, RemoveOverride, SetSuspended, ActOnUser, Lose
<1>3. /\ UNCHANGED tab /\ p.at # "none" /\ Becomes(t, u, q)
      /\ \A v \in Uses \ {u} : Same(net[t][v], net'[t][v])
  BY <1>1, ServerBecomes DEF OnlyOne
<1>4. KindFits(u, p)
  BY <1>1, <1>3 DEF TabFits
<1>5. /\ OverIn(sessions, cookie) => OverIn(sessions', cookie)
      /\ \A v \in Uses : OverIn(sessions, net[t][v].session) => OverIn(sessions', net[t][v].session)
  BY <1>1, AllBegun
<1>6. \/ u = "stray" /\ q = Nothing
      \/ /\ q.at \notin {"none", "sent"} /\ (q.session = p.session \/ u = "login")
         /\ q.kind = "login" <=> p.kind = "login"
         /\ q.kind = "session" <=> p.kind = "session"
  BY <1>3, PermittedAssumption DEF Becomes, Spoken, Settings, OnUser
<1> HIDE DEF p, q
<1>7. ASSUME NEW v \in Uses, net'[t][v].session # cookie, net'[t][v].kind # "login"
      PROVE  OverIn(sessions', net'[t][v].session)
  <2>1. CASE v # u
    BY <1>1, <1>3, <1>5, <1>7, <2>1 DEF Same, AloneFits
  <2>2. CASE v = u
    BY <1>1, <1>4, <1>5, <1>6, <1>7, <2>2, NothingAsked DEF AloneFits, KindFits, OverIn, p, q
  <2>3. QED
    BY <2>1, <2>2
<1>8. /\ net'[t]["fetch"].session = net[t]["fetch"].session
      /\ net'[t]["fetch"].at = "none" <=> net[t]["fetch"].at = "none"
      /\ net'[t]["dropped"].session = net[t]["dropped"].session
      /\ net'[t]["confirm"].session = net[t]["confirm"].session
      /\ net'[t]["confirm"].at = "none" <=> net[t]["confirm"].at = "none"
      /\ net'[t]["change"].session = net[t]["change"].session
      /\ net'[t]["change"].at = "sent" =>
           net[t]["change"].at = "sent" /\ net'[t]["change"].token = net[t]["change"].token
      /\ net'[t]["login"].at = "none" <=> net[t]["login"].at = "none"
  BY <1>3, <1>6, AllUses DEF Same, p, q
<1>9. net'[t]["stray"].kind = "session" => OverIn(sessions', net'[t]["stray"].session)
  <2>1. \/ net'[t]["stray"] = Nothing
        \/ /\ net'[t]["stray"].session = net[t]["stray"].session
           /\ net'[t]["stray"].kind = "session" <=> net[t]["stray"].kind = "session"
    BY <1>3, <1>6, AllUses DEF Same, p, q
  <2>2. QED
    BY <1>1, <1>5, <2>1, AllUses, NothingAsked DEF AloneFits
<1>10. ~OverIn(sessions, cookie) =>
         /\ cookie \in StaffSessions
         /\ sessions'[cookie].csrf = IF ReadSession(t, u) /\ p.session = cookie
                                     THEN tokens + 1 ELSE sessions[cookie].csrf
  BY <1>1, Rotates DEF OverIn, p
<1>11. net'[t]["change"].answer # "csrf"
  <2>1. CASE u # "change"
    BY <1>1, <1>3, <2>1, AllUses DEF Same, AloneFits
  <2>2. CASE u = "change"
    <3>1. p.answer # "csrf" /\ p.kind \in Permitted \cup {"change"}
      BY <1>1, <1>4, <2>2 DEF AloneFits, KindFits, p
    <3>2. SUFFICES ASSUME p.at = "sent", Check(p) = "csrf"  PROVE FALSE
      BY <1>3, <2>2, <3>1, NothingAsked DEF Becomes, p, q
    <3>3. ~OverIn(sessions, p.session) /\ p.token # sessions[p.session].csrf
      BY <3>2 DEF Check, OverIn
    <3>4. p.session = cookie
      BY <1>1, <3>1, <3>3, PermittedAssumption DEF AloneFits, Settings, OnUser, p
    <3>5. QED
      BY <1>1, <2>2, <3>2, <3>3, <3>4 DEF AloneFits, Live, p
  <2>3. QED
    BY <2>1, <2>2
<1>12. ~OverIn(sessions', cookie) => Live(sessions'[cookie].csrf, cookie, net'[t], tab[t])
  <2> SUFFICES ASSUME ~OverIn(sessions', cookie)
               PROVE  Live(sessions'[cookie].csrf, cookie, net'[t], tab[t])
    OBVIOUS
  <2>1. ~OverIn(sessions, cookie) /\ Live(sessions[cookie].csrf, cookie, net[t], tab[t])
    BY <1>1, <1>5 DEF AloneFits
  <2>2. CASE ReadSession(t, u) /\ p.session = cookie
    <3>1. u = "fetch"
      <4>1. p.kind = "session"
        BY <2>2 DEF ReadSession, Handles, p
      <4>2. u \in {"fetch", "dropped", "stray"}
        BY <1>4, <4>1, AllUses, PermittedAssumption DEF KindFits, Settings, OnUser
      <4>3. QED
        BY <1>1, <2>1, <2>2, <4>1, <4>2 DEF AloneFits, p
    <3>2. net[t]["fetch"].at # "none"
      BY <1>3, <3>1 DEF p
    <3>3. q.at = "answered" /\ q.answer = "ok" => q.token = sessions'[cookie].csrf
      BY <1>3, <1>10, <2>1, <2>2, <3>1 DEF Becomes
    <3>4. QED
      BY <1>8, <2>1, <3>1, <3>2, <3>3 DEF Live, q
  <2>3. CASE ~(ReadSession(t, u) /\ p.session = cookie)
    <3>1. sessions'[cookie].csrf = sessions[cookie].csrf
      BY <1>10, <2>1, <2>3
    <3>2. net'[t]["fetch"].at = "answered" /\ net'[t]["fetch"].answer = "ok" =>
            net'[t]["fetch"].token = sessions[cookie].csrf
      <4>1. CASE u = "fetch"
        <5>1. p.session = cookie
          BY <1>1, <1>3, <2>1, <4>1 DEF AloneFits, p
        <5>2. QED
          BY <1>3, <2>3, <4>1, <5>1 DEF Becomes, q
      <4>2. CASE u # "fetch"
        BY <1>3, <2>1, <4>2, AllUses DEF Same, Live
      <4>3. QED
        BY <4>1, <4>2
    <3>3. QED
      BY <1>8, <2>1, <3>1, <3>2 DEF Live
  <2>4. QED
    BY <2>2, <2>3
<1>13. QED
  BY <1>1, <1>2, <1>3, <1>5, <1>7, <1>8, <1>9, <1>11, <1>12, AllUses DEF AloneFits, FitsAfter

LEMMA LoneBreak ==
  ASSUME NEW t \in Tabs, NEW u \in Uses, Lone(t), BreakOff(t, u), ~late'  PROVE FitsAfter(t)
<1> DEFINE p == net[t][u]
<1>1. /\ Going /\ AloneFits(sessions, cookie, net[t], tab[t]) /\ TabFits(t) /\ net[t] \in Asks
      /\ ConsoleTypeOK
  BY DEF Lone, Going, AllFit, ConsoleTypeOK, Asks
<1>2. /\ u # "fetch" /\ u # "stray" /\ p.at # "none"
      /\ UNCHANGED <<sessions, cookie, tab>>
  BY DEF BreakOff, server
<1>3. PICK q \in Request :
        /\ Moves(t, [[net[t] EXCEPT !["stray"] = p] EXCEPT ![u] = q])
        /\ q.at = "answered" /\ q.answer = "lost" /\ q.session = p.session /\ q.kind = Spoken(p)
  BY <1>1, BreakMoves
<1>4. /\ net'[t][u] = q /\ net'[t]["stray"] = p
      /\ \A v \in Uses \ {u, "stray"} : net'[t][v] = net[t][v]
  BY <1>1, <1>2, <1>3, AllUses DEF Moves, Asks
<1>5. /\ KindFits(u, p) /\ (q.kind = "login" <=> p.kind = "login")
  BY <1>1, <1>2, <1>3, PermittedAssumption DEF TabFits, Spoken, Settings, OnUser
<1> HIDE DEF p
<1>6. ASSUME NEW v \in Uses, net'[t][v].session # cookie, net'[t][v].kind # "login"
      PROVE  OverIn(sessions, net'[t][v].session)
  BY <1>1, <1>3, <1>4, <1>5, <1>6 DEF AloneFits, p
<1>7. p.kind = "session" => u = "dropped"
  BY <1>2, <1>5, AllUses, PermittedAssumption DEF KindFits, Settings, OnUser
<1>8. /\ net'[t]["fetch"] = net[t]["fetch"]
      /\ net'[t]["dropped"].session = net[t]["dropped"].session
      /\ net'[t]["confirm"].session = net[t]["confirm"].session
      /\ net'[t]["confirm"].at = "none" <=> net[t]["confirm"].at = "none"
      /\ net'[t]["login"].at = "none" <=> net[t]["login"].at = "none"
      /\ net'[t]["change"].at = "sent" => net'[t]["change"] = net[t]["change"]
      /\ net'[t]["change"].answer = "csrf" => net[t]["change"].answer = "csrf"
  BY <1>2, <1>3, <1>4, AllUses DEF p
<1>9. p.kind = "session" => OverIn(sessions, p.session)
  BY <1>1, <1>7 DEF AloneFits, p
<1>10. ~OverIn(sessions, cookie) => Live(sessions[cookie].csrf, cookie, net'[t], tab[t])
  BY <1>1, <1>8 DEF AloneFits, Live
<1>11. QED
  BY <1>1, <1>2, <1>4, <1>6, <1>8, <1>9, <1>10 DEF AloneFits, FitsAfter

\* What a lone tab keeps of its requests when it takes an answer.
LEMMA LeftSo ==
  ASSUME NEW t \in Tabs, NEW u \in Uses, Lone(t)
  PROVE  LET left == Freed(t, u) IN
         /\ left \in Asks /\ left[u] = Nothing /\ \A v \in Uses \ {u} : left[v] = net[t][v]
         /\ \A v \in Uses : left[v].session # cookie /\ left[v].kind # "login" =>
              OverIn(sessions, left[v].session)
         /\ OverIn(sessions, left["dropped"].session)
         /\ left["stray"].kind = "session" => OverIn(sessions, left["stray"].session)
         /\ left["change"].answer # "csrf"
<1>1. ConsoleTypeOK /\ AloneFits(sessions, cookie, net[t], tab[t])
  BY DEF Lone, Going
<1>2. /\ Freed(t, u) \in Asks /\ Freed(t, u)[u] = Nothing
      /\ \A v \in Uses \ {u} : Freed(t, u)[v] = net[t][v]
  BY <1>1, FreedSo
<1>3. /\ OverIn(sessions, Nothing.session) /\ Nothing.kind # "session" /\ Nothing.answer # "csrf"
  BY NothingAsked DEF OverIn
<1>4. QED
  BY <1>1, <1>2, <1>3, AllUses DEF AloneFits

\* It reads the session again once that of the cookie is over, with what was known of it or
\* with the login its page has waited for, or because the code that it has sent is right.
LEMMA LoneInvalidate ==
  ASSUME NEW t \in Tabs, NEW u \in {"page", "change", "login", "confirm", "logout"}, Lone(t),
         NEW token \in 0 .. MaxTokens, NEW known \in StaffSessions \cup {Null},
         Invalidate(t, Freed(t, u), known, token), UNCHANGED sessions, cookie' = known,
         \/ OverIn(sessions, cookie) /\ OverIn(sessions, known)
         \/ /\ OverIn(sessions, cookie)
            /\ u = "login" /\ tab[t].screen = "login" /\ tab[t].pending
         \/ /\ u = "confirm" /\ known = cookie
            /\ net[t][u].at = "answered" /\ net[t][u].session = cookie
  PROVE  FitsAfter(t)
<1> DEFINE left == Freed(t, u)
           asks == net'[t]
<1>1. /\ ConsoleTypeOK /\ AloneFits(sessions, cookie, net[t], tab[t]) /\ u \in Uses
      /\ tab \in [Tabs -> TabView]
  BY DEF Lone, Going, Uses, ConsoleTypeOK, TabView
<1>2. /\ left \in Asks /\ left[u] = Nothing /\ \A v \in Uses \ {u} : left[v] = net[t][v]
      /\ \A v \in Uses : left[v].session # cookie /\ left[v].kind # "login" =>
           OverIn(sessions, left[v].session)
      /\ OverIn(sessions, left["dropped"].session)
      /\ left["stray"].kind = "session" => OverIn(sessions, left["stray"].session)
      /\ left["change"].answer # "csrf"
  BY <1>1, LeftSo
<1>3. asks = IF Settled(t) THEN left ELSE Reread(left, known)
  BY <1>1, <1>2, InvalidateMoves DEF Moves
<1>4. /\ tab'[t].screen = Invalidated(t) /\ tab'[t].token = token
      /\ tab'[t].cache = tab[t].cache
      /\ tab'[t].pending = (tab[t].pending /\ tab[t].screen = Invalidated(t))
  BY <1>1, InvalidateShows
<1>5. /\ \A v \in Uses \ {"fetch", "dropped"} : Reread(left, known)[v] = left[v]
      /\ Reread(left, known)["dropped"] =
           IF left["fetch"].at = "none" THEN left["dropped"] ELSE left["fetch"]
      /\ Reread(left, known)["fetch"].at = "sent"
      /\ Reread(left, known)["fetch"].kind = "session"
      /\ Reread(left, known)["fetch"].session = known
  BY <1>2, ReadAgain
<1> HIDE DEF left, asks
<1>6. left["fetch"] = net[t]["fetch"] /\ left["dropped"] = net[t]["dropped"]
  BY <1>2, AllUses
\* The read under way, if it is given up, is of a session that is over.
<1>7. net[t]["fetch"].at # "none" /\ OverIn(sessions, cookie) => OverIn(sessions, net[t]["fetch"].session)
  <2>1. OverIn(sessions, left["fetch"].session) \/ left["fetch"].session = cookie \/ left["fetch"].kind = "login"
    BY <1>2, AllUses
  <2>2. net[t]["fetch"].at # "none" => net[t]["fetch"].kind = "session"
    BY AllUses DEF Lone, Going, AllFit, TabFits, KindFits
  <2>3. QED
    BY <1>6, <2>1, <2>2
<1>8. OverIn(sessions, cookie) \/ net[t]["fetch"].at = "none"
  BY <1>1 DEF AloneFits, Live
<1>9. OverIn(sessions, cookie) \/ known = cookie
  OBVIOUS
<1>10. /\ asks["stray"] = left["stray"] /\ asks["change"] = left["change"]
       /\ asks["login"] = left["login"] /\ asks["confirm"] = left["confirm"]
  BY <1>3, <1>5, AllUses
<1>11. OverIn(sessions, asks["dropped"].session)
  BY <1>2, <1>3, <1>5, <1>6, <1>7, <1>8
<1>12. \A v \in Uses : asks[v].session # known /\ asks[v].kind # "login" => OverIn(sessions, asks[v].session)
  <2>1. ASSUME NEW v \in Uses \ {"fetch", "dropped"}, asks[v].session # known, asks[v].kind # "login"
        PROVE  OverIn(sessions, asks[v].session)
    <3>1. asks[v] = left[v]
      BY <1>3, <1>5
    <3>2. QED
      BY <1>2, <1>9, <2>1, <3>1
  <2>2. ASSUME asks["fetch"].session # known, asks["fetch"].kind # "login"
        PROVE  OverIn(sessions, asks["fetch"].session)
    <3>1. asks["fetch"] = left["fetch"]
      BY <1>3, <1>5, <2>2
    <3>2. QED
      BY <1>2, <1>9, <2>2, <3>1, AllUses
  <2>3. QED
    BY <1>11, <2>1, <2>2
<1>13. Settled(t) => \/ asks["fetch"].at = "none"
                     \/ tab[t].cache = "empty" /\ tab[t].screen # "login"
  BY <1>1, <1>3, <1>6 DEF Settled, AloneFits
<1>14. asks["fetch"].at # "none" => asks["fetch"].session = known \/ OverIn(sessions, known)
  <2>1. CASE ~Settled(t)
    BY <1>3, <1>5, <2>1
  <2>2. CASE Settled(t) /\ asks["fetch"].at # "none"
    BY <1>3, <1>6, <1>8, <1>9, <1>13, <2>2
  <2>3. QED
    BY <2>1, <2>2
<1>15. tab'[t].screen = "login" => tab[t].screen = "login" /\ tab'[t].cache # "empty"
  BY <1>4 DEF Invalidated
<1>16. /\ tab'[t].screen = "login" => OverIn(sessions, known) \/ (tab'[t].pending /\ asks["login"].at = "none")
       /\ tab'[t].cache = "gone" => asks["fetch"].at = "none"
  <2>1. u = "login" => asks["login"].at = "none"
    BY <1>2, <1>10, NothingAsked
  <2>2. ~OverIn(sessions, known) /\ u = "confirm" => tab[t].screen = "code"
    BY <1>1 DEF AloneFits, Live
  <2>3. Settled(t) /\ tab[t].cache = "gone" => net[t]["fetch"].at = "none"
    BY <1>1 DEF AloneFits
  <2>4. tab[t].cache = "gone" => Settled(t)
    BY DEF Settled
  <2>5. QED
    BY <1>3, <1>4, <1>6, <1>15, <2>1, <2>2, <2>3, <2>4 DEF Invalidated
<1>17. ~OverIn(sessions, known) => Live(sessions[known].csrf, known, asks, tab'[t])
  <2> SUFFICES ASSUME ~OverIn(sessions, known)
               PROVE  Live(sessions[known].csrf, known, asks, tab'[t])
    OBVIOUS
  <2>1. CASE OverIn(sessions, cookie)
    <3>1. u = "login" /\ tab[t].screen = "login"
      BY <2>1
    <3>2. tab'[t].screen \in {"login", "loading"}
      BY <1>4, <3>1 DEF Invalidated
    <3>3. /\ left["confirm"].kind = "login" \/ OverIn(sessions, left["confirm"].session)
          /\ left["change"].kind = "login" \/ OverIn(sessions, left["change"].session)
      BY <1>2, <2>1, AllUses
    <3>4. /\ net[t]["confirm"].at = "none" \/ net[t]["confirm"].kind = "confirm"
          /\ net[t]["change"].at = "none" \/ net[t]["change"].kind # "login"
      BY AllUses, PermittedAssumption DEF Lone, Going, AllFit, TabFits, KindFits, Settings, OnUser
    <3>5. left["confirm"].at = "none" \/ left["confirm"].session # known
      BY <1>2, <3>1, <3>3, <3>4, AllUses
    <3>6. left["change"].at # "sent" \/ left["change"].session # known
      BY <1>2, <3>1, <3>3, <3>4, AllUses
    <3>7. asks["fetch"].at \in {"none", "sent"}
      BY <1>3, <1>5, <1>6, <1>13, <3>1
    <3>8. QED
      BY <1>10, <3>2, <3>5, <3>6, <3>7 DEF Live
  <2>2. CASE ~OverIn(sessions, cookie)
    <3>1. /\ u = "confirm" /\ known = cookie /\ net[t]["confirm"].session = cookie
          /\ net[t]["confirm"].at # "none"
      BY <2>2
    <3>2. /\ tab[t].screen = "code" /\ tab[t].pending /\ net[t]["fetch"].at = "none"
          /\ ~(net[t]["change"].at = "sent" /\ net[t]["change"].session = known)
      BY <1>1, <2>2, <3>1 DEF AloneFits, Live
    <3>3. tab'[t].screen \in {"code", "loading"} /\ (tab'[t].screen = "code" => tab'[t].pending)
      BY <1>4, <3>2 DEF Invalidated
    <3>4. asks["confirm"] = Nothing /\ asks["change"] = net[t]["change"] /\ known # Null
      BY <1>2, <1>10, <3>1, AllUses DEF OverIn
    <3>5. asks["fetch"].at \in {"none", "sent"}
      BY <1>3, <1>5, <1>6, <3>2
    <3>6. QED
      BY <3>2, <3>3, <3>4, <3>5, NothingAsked DEF Live
  <2>3. QED
    BY <2>1, <2>2
<1>18. AloneFits(sessions, known, asks, tab'[t])
  BY <1>2, <1>10, <1>11, <1>12, <1>14, <1>15, <1>16, <1>17 DEF AloneFits
<1>19. QED
  BY <1>18 DEF FitsAfter, asks

\* It forgets a request that has had its answer, and stays as it is but for its form.
LEMMA LoneDone ==
  ASSUME NEW t \in Tabs, NEW u \in Uses \ {"fetch"}, Lone(t),
         net'[t] = Freed(t, u), UNCHANGED <<sessions, cookie>>,
         tab'[t].screen = tab[t].screen, tab'[t].cache = tab[t].cache,
         tab'[t].token = tab[t].token \/ OverIn(sessions, cookie),
         \/ tab'[t].pending = tab[t].pending
         \/ tab[t].screen = "login" /\ OverIn(sessions, cookie)
         \/ tab[t].screen = "code" /\ u = "confirm" /\ net[t][u].at = "answered" /\ ~tab'[t].pending
  PROVE  FitsAfter(t)
<1> DEFINE asks == net'[t]
<1>1. AloneFits(sessions, cookie, net[t], tab[t]) /\ Nothing.at = "none"
  BY NothingAsked DEF Lone
<1>2. /\ asks[u] = Nothing /\ \A v \in Uses \ {u} : asks[v] = net[t][v]
      /\ \A v \in Uses : asks[v].session # cookie /\ asks[v].kind # "login" =>
           OverIn(sessions, asks[v].session)
      /\ OverIn(sessions, asks["dropped"].session)
      /\ asks["stray"].kind = "session" => OverIn(sessions, asks["stray"].session)
      /\ asks["change"].answer # "csrf"
  BY LeftSo
<1>3. asks["fetch"] = net[t]["fetch"]
  BY <1>2, AllUses
<1>4. /\ asks["login"].at = "none" \/ asks["login"] = net[t]["login"]
      /\ asks["confirm"].at = "none" \/ asks["confirm"] = net[t]["confirm"]
      /\ asks["change"].at = "none" \/ asks["change"] = net[t]["change"]
  BY <1>1, <1>2, AllUses
<1> HIDE DEF asks
<1>5. ~OverIn(sessions, cookie) => Live(sessions[cookie].csrf, cookie, asks, tab'[t])
  <2> SUFFICES ASSUME ~OverIn(sessions, cookie)
               PROVE  Live(sessions[cookie].csrf, cookie, asks, tab'[t])
    OBVIOUS
  <2>1. Live(sessions[cookie].csrf, cookie, net[t], tab[t]) /\ tab'[t].token = tab[t].token
    BY <1>1 DEF AloneFits
  <2>2. CASE tab'[t].pending = tab[t].pending
    BY <1>3, <1>4, <2>1, <2>2 DEF Live
  <2>3. CASE /\ tab[t].screen = "code" /\ u = "confirm" /\ net[t][u].at = "answered"
             /\ ~tab'[t].pending
    <3>1. asks["confirm"].at = "none"
      BY <1>1, <1>2, <2>3
    <3>2. net[t]["fetch"].at = "none"
      BY <2>1, <2>3 DEF Live
    <3>3. QED
      BY <1>3, <1>4, <2>1, <2>3, <3>1, <3>2 DEF Live
  <2>4. QED
    BY <2>2, <2>3
<1>6. tab'[t].screen = "login" => OverIn(sessions, cookie) \/ (tab'[t].pending /\ asks["login"].at = "none")
  BY <1>1, <1>4 DEF AloneFits
<1>7. AloneFits(sessions, cookie, asks, tab'[t])
  BY <1>1, <1>2, <1>3, <1>5, <1>6 DEF AloneFits
<1>8. QED
  BY <1>7 DEF FitsAfter, asks

LEMMA LoneSessionRead ==
  ASSUME NEW t \in Tabs, Lone(t), SessionRead(t)  PROVE FitsAfter(t)
<1> DEFINE request == net[t]["fetch"]
           view == tab'[t]
           asks == net'[t]
<1>1. /\ ConsoleTypeOK /\ AloneFits(sessions, cookie, net[t], tab[t]) /\ TabFits(t)
      /\ "fetch" \in Uses
  BY DEF Lone, Going, AllFit, Uses
<1>2. /\ net' = [net EXCEPT ![t] = Freed(t, "fetch")] /\ UNCHANGED <<sessions, cookie>>
      /\ request.at = "answered"
  BY DEF SessionRead, Back, server
<1>3. asks = Freed(t, "fetch")
  BY <1>1, <1>2 DEF ConsoleTypeOK
<1>4. /\ asks["fetch"].at = "none" /\ \A v \in Uses \ {"fetch"} : asks[v] = net[t][v]
      /\ \A v \in Uses : asks[v].session # cookie /\ asks[v].kind # "login" =>
           OverIn(sessions, asks[v].session)
      /\ OverIn(sessions, asks["dropped"].session)
      /\ asks["stray"].kind = "session" => OverIn(sessions, asks["stray"].session)
      /\ asks["change"].answer # "csrf"
  BY <1>1, <1>3, LeftSo, NothingAsked
<1>5. /\ request.answer = "ok" =>
           view.screen \in {"console", "code"} /\ view.token = request.token
      /\ request.answer # "ok" =>
           view.screen = IF request.answer = "login" THEN "login" ELSE "failed"
      /\ view.pending = (tab[t].pending /\ view.screen = tab[t].screen)
  BY <1>1, SessionReadShows
<1>6. request.answer = "login" => OverIn(sessions, cookie)
  BY <1>1, <1>2 DEF AloneFits, TabFits, RequestFits
<1>7. asks["confirm"] = net[t]["confirm"] /\ asks["change"] = net[t]["change"]
  BY <1>4, AllUses
<1> HIDE DEF view, asks, request
<1>8. ~OverIn(sessions, cookie) => Live(sessions[cookie].csrf, cookie, asks, view)
  <2> SUFFICES ASSUME ~OverIn(sessions, cookie)
               PROVE  Live(sessions[cookie].csrf, cookie, asks, view)
    OBVIOUS
  <2>1. Live(sessions[cookie].csrf, cookie, net[t], tab[t])
    BY <1>1 DEF AloneFits
  <2>2. /\ request.answer = "ok" => request.token = sessions[cookie].csrf
        /\ asks["confirm"].at = "none" \/ asks["confirm"].session # cookie
        /\ asks["change"].at # "sent" \/ asks["change"].session # cookie
    BY <1>2, <1>7, <2>1 DEF Live, request
  <2>3. view.screen = "code" /\ view.pending => tab[t].screen = "code" /\ tab[t].pending
    BY <1>5
  <2>4. view.screen = "code" /\ view.pending => asks["confirm"].at = "none"
    BY <1>7, <2>1, <2>2, <2>3 DEF Live
  <2>5. view.screen = "console" => view.token = sessions[cookie].csrf
    BY <1>5, <2>2
  <2>6. QED
    BY <1>4, <2>2, <2>4, <2>5 DEF Live
<1>9. view.screen = "login" => OverIn(sessions, cookie)
  BY <1>5, <1>6
<1>10. AloneFits(sessions, cookie, asks, view)
  BY <1>4, <1>8, <1>9 DEF AloneFits
<1>11. QED
  BY <1>2, <1>10 DEF FitsAfter, view, asks

LEMMA LoneClient ==
  ASSUME NEW t \in Tabs, Lone(t), Client(t), ~late'  PROVE FitsAfter(t)
<1>1. /\ ConsoleTypeOK /\ AloneFits(sessions, cookie, net[t], tab[t]) /\ TabFits(t)
      /\ cookie \in StaffSessions \cup {Null} /\ Null \in StaffSessions \cup {Null}
      /\ {"page", "change", "login", "confirm", "logout", "dropped"} \subseteq Uses \ {"fetch"}
      /\ tab \in [Tabs -> TabView] /\ NoToken \in 0 .. MaxTokens
      /\ tab[t].token \in 0 .. MaxTokens
      /\ \A u \in Uses : net[t][u].session \in StaffSessions \cup {Null} /\ net[t][u].token \in 0 .. MaxTokens
  BY InstanceAssumption DEF Lone, Going, AllFit, ConsoleTypeOK, Uses, Request, TabView, NoToken
<1>2. UNCHANGED sessions
  BY DEF Client, SessionRead, DroppedRead, Answer, LoginAnswer, ConfirmAnswer, LogoutAnswer, server
<1>t. ASSUME NEW u \in Uses, net' = [net EXCEPT ![t] = Freed(t, u)]  PROVE net'[t] = Freed(t, u)
  BY <1>1, <1>t DEF ConsoleTypeOK
<1>3. CASE DroppedRead(t)
  <2> DEFINE request == net[t]["dropped"]
  <2>1. /\ net'[t] = Freed(t, "dropped") /\ UNCHANGED cookie
        /\ request.answer = "ok" => request.session = cookie
    BY <1>1, <1>3, <1>t DEF DroppedRead
  <2>2. /\ tab'[t].screen = tab[t].screen /\ tab'[t].cache = tab[t].cache
        /\ tab'[t].pending = tab[t].pending
        /\ tab'[t].token = IF request.answer = "ok" THEN request.token ELSE tab[t].token
    BY <1>1, <1>3 DEF DroppedRead, TabView
  <2>3. tab'[t].token = tab[t].token \/ OverIn(sessions, cookie)
    BY <1>1, <2>1, <2>2 DEF AloneFits
  <2>4. QED
    BY <1>1, <1>2, <2>1, <2>2, <2>3, LoneDone
<1>4. ASSUME NEW u \in {"page", "change"}, Answer(t, u)  PROVE FitsAfter(t)
  <2> DEFINE request == net[t][u]
  <2>1. /\ UNCHANGED cookie /\ (NeedsLogin(request.answer) => request.session = cookie)
    BY <1>4 DEF Answer
  <2>2. CASE NeedsLogin(request.answer)
    <3>1. OverIn(sessions, cookie)
      BY <1>1, <2>1, <2>2 DEF TabFits, RequestFits, NeedsLogin
    <3>2. Invalidate(t, Freed(t, u), cookie, NoToken)
      BY <1>4, <2>2 DEF Answer, Unauthorized
    <3>3. QED
      BY <1>1, <1>2, <2>1, <3>1, <3>2, LoneInvalidate
  <2>3. CASE ~NeedsLogin(request.answer)
    <3>1. net' = [net EXCEPT ![t] = Freed(t, u)] /\ UNCHANGED tab
      BY <1>4, <2>3 DEF Answer
    <3>2. QED
      BY <1>1, <1>2, <1>t, <2>1, <3>1, LoneDone
  <2>4. QED
    BY <2>2, <2>3
<1>5. ASSUME NEW screen, NEW kind, FormRefused(t, screen, kind)
      PROVE  /\ net' = [net EXCEPT ![t] = Freed(t, kind)]
             /\ tab'[t].screen = tab[t].screen /\ tab'[t].cache = tab[t].cache
             /\ tab'[t].token = tab[t].token
             /\ tab'[t].pending = (tab[t].pending /\ tab[t].screen # screen)
  BY <1>1, <1>5 DEF FormRefused, TabView
<1>p. tab[t].pending \in BOOLEAN
  BY <1>1 DEF TabView
<1>6. CASE LoginAnswer(t)
  <2> DEFINE request == net[t]["login"]
  <2>1. request.at = "answered"
    BY <1>6 DEF LoginAnswer, Back
  <2>2. CASE request.answer = "ok"
    <3>1. /\ Invalidate(t, Freed(t, "login"), request.session, request.token)
          /\ cookie' = request.session /\ tab[t].screen = "login" /\ tab[t].pending
      BY <1>6, <2>2 DEF LoginAnswer
    <3>2. OverIn(sessions, cookie)
      BY <1>1, <2>1, <3>1 DEF AloneFits
    <3>3. QED
      BY <1>1, <1>2, <3>1, <3>2, LoneInvalidate
  <2>3. CASE request.answer # "ok"
    <3>1. FormRefused(t, "login", "login") /\ UNCHANGED cookie
      BY <1>6, <2>3 DEF LoginAnswer
    <3>2. tab[t].screen = "login" => OverIn(sessions, cookie)
      BY <1>1, <2>1 DEF AloneFits
    <3>3. QED
      BY <1>1, <1>2, <1>5, <1>p, <1>t, <3>1, <3>2, LoneDone
  <2>4. QED
    BY <2>2, <2>3
<1>7. CASE ConfirmAnswer(t)
  <2> DEFINE request == net[t]["confirm"]
  <2>1. request.at = "answered" /\ UNCHANGED cookie
    BY <1>7 DEF ConfirmAnswer, Back
  <2>2. CASE request.answer = "ok"
    <3>1. /\ Invalidate(t, Freed(t, "confirm"), cookie, tab[t].token)
          /\ request.session = cookie
      BY <1>7, <2>2 DEF ConfirmAnswer
    <3>2. QED
      BY <1>1, <1>2, <2>1, <3>1, LoneInvalidate
  <2>3. CASE request.answer # "ok"
    <3>1. FormRefused(t, "code", "confirm")
      BY <1>7, <2>3 DEF ConfirmAnswer
    <3>2. net'[t] = Freed(t, "confirm") /\ "confirm" \in Uses \ {"fetch"}
      BY <1>1, <1>5, <1>t, <3>1
    <3>3. /\ tab'[t].screen = tab[t].screen /\ tab'[t].cache = tab[t].cache
          /\ tab'[t].token = tab[t].token
          /\ tab'[t].pending = (tab[t].pending /\ tab[t].screen # "code")
      BY <1>5, <3>1
    <3>4. CASE tab[t].screen = "code"
      <4>1. ~tab'[t].pending
        BY <3>3, <3>4
      <4>2. QED
        BY <1>1, <1>2, <2>1, <3>2, <3>3, <3>4, <4>1, LoneDone
    <3>5. CASE tab[t].screen # "code"
      <4>1. tab'[t].pending = tab[t].pending
        BY <1>p, <3>3, <3>5
      <4>2. QED
        BY <1>1, <1>2, <2>1, <3>2, <3>3, <4>1, LoneDone
    <3>6. QED
      BY <3>4, <3>5
  <2>4. QED
    BY <2>2, <2>3
<1>8. CASE LogoutAnswer(t)
  <2> DEFINE request == net[t]["logout"]
  <2>1. request.at = "answered" /\ request.answer = "ok" /\ request.session = cookie /\ cookie' = Null
    BY <1>8 DEF LogoutAnswer, Back
  <2>2. OverIn(sessions, cookie) /\ OverIn(sessions, Null)
    BY <1>1, <2>1 DEF TabFits, RequestFits, KindFits, OverIn
  <2>3. CASE Invalidate(t, Freed(t, "logout"), Null, NoToken)
    BY <1>1, <1>2, <2>1, <2>2, <2>3, LoneInvalidate
  <2>4. CASE Cleared(t)
    <3> DEFINE left == Freed(t, "logout")
               asks == net'[t]
    <3>1. /\ left \in Asks /\ \A v \in Uses \ {"logout"} : left[v] = net[t][v]
          /\ \A v \in Uses : left[v].session # cookie /\ left[v].kind # "login" =>
               OverIn(sessions, left[v].session)
          /\ OverIn(sessions, left["dropped"].session)
          /\ left["stray"].kind = "session" => OverIn(sessions, left["stray"].session)
          /\ left["change"].answer # "csrf"
      BY <1>1, LeftSo
    <3>2. /\ asks = GiveUp(left) /\ tab'[t].cache = "gone" /\ tab'[t].screen = tab[t].screen
      BY <1>1, <2>4 DEF Cleared, ConsoleTypeOK, TabView
    <3> HIDE DEF left
    <3>3. /\ \A v \in Uses \ {"fetch", "dropped"} : GiveUp(left)[v] = left[v]
          /\ GiveUp(left)["dropped"] =
               IF left["fetch"].at = "none" THEN left["dropped"] ELSE left["fetch"]
          /\ GiveUp(left)["fetch"].at = "none" /\ GiveUp(left)["fetch"] \in {left["fetch"], Nothing}
      BY <3>1, GivenUp
    <3> HIDE DEF asks
    <3>4. left["fetch"].at # "none" => left["fetch"].kind = "session"
      BY <1>1, <3>1, AllUses DEF TabFits, KindFits
    <3>5. OverIn(sessions, asks["dropped"].session)
      BY <2>2, <3>1, <3>2, <3>3, <3>4, AllUses
    <3>6. \A v \in Uses : asks[v].session # Null /\ asks[v].kind # "login" => OverIn(sessions, asks[v].session)
      <4>1. ASSUME NEW v \in Uses \ {"dropped"}, asks[v] # Nothing
            PROVE  asks[v] = left[v]
        BY <3>2, <3>3, <4>1
      <4>2. Nothing.session = Null
        BY NothingAsked
      <4>3. ASSUME NEW v \in Uses \ {"dropped"}, asks[v].session # Null, asks[v].kind # "login"
            PROVE  OverIn(sessions, asks[v].session)
        <5>1. asks[v] = left[v]
          BY <4>1, <4>2, <4>3
        <5>2. QED
          BY <2>2, <3>1, <4>3, <5>1
      <4>4. QED
        BY <3>5, <4>3
    <3>7. AloneFits(sessions, Null, asks, tab'[t])
      BY <2>2, <3>1, <3>2, <3>3, <3>5, <3>6, AllUses DEF AloneFits
    <3>8. QED
      BY <1>2, <2>1, <3>7 DEF FitsAfter, asks
  <2>5. QED
    BY <1>8, <2>1, <2>3, <2>4 DEF LogoutAnswer
<1>9. QED
  BY <1>3, <1>4, <1>6, <1>7, <1>8, LoneSessionRead DEF Client

LEMMA AloneInvNext == ASSUME AloneInv, [ConsoleNext]_consoleVars PROVE AloneInv'
<1>1. Going
  BY ConsoleTypedNext, SessionsGrow DEF AloneInv, Going, ConsoleTypeOK, SessionRows
<1>2. ConsoleTypeOK' /\ AllFit'
  BY <1>1, AllFitNext DEF Going
<1>3. ASSUME NEW t \in Tabs, Alone(t)'
      PROVE  AloneFits(sessions, cookie, net[t], tab[t])'
  <2>1. ASSUME NEW a \in Tabs, Step(a)  PROVE FitsAfter(t)
    <3>1. /\ tab'[a].screen # "closed" /\ \A o \in Tabs \ {a} : tab'[o] = tab[o]
          /\ late => late'
      BY <1>1, <2>1, StepOpen
    <3>2. a = t /\ ~late'
      BY <1>3, <3>1 DEF Alone
    <3>3. Alone(t)
      BY <1>3, <3>1, <3>2 DEF Alone
    <3>4. Lone(t)
      BY <1>1, <3>3 DEF AloneInv, Lone
    <3>5. QED
      BY <2>1, <3>2, <3>4, LoneStaff, LoneServer, LoneBreak, LoneClient DEF Step
  <2>2. ASSUME UNCHANGED <<cookie, tab, net, late>>,
               \A s \in StaffSessions : sessions'[s].csrf = sessions[s].csrf
        PROVE  FitsAfter(t)
    <3>1. Alone(t)
      BY <1>3, <2>2 DEF Alone
    <3>2. AloneFits(sessions, cookie, net[t], tab[t])
      BY <3>1 DEF AloneInv
    <3>3. /\ OverIn(sessions, cookie) => OverIn(sessions', cookie)
          /\ \A u \in Uses : OverIn(sessions, net[t][u].session) => OverIn(sessions', net[t][u].session)
          /\ cookie \in StaffSessions \cup {Null}
      BY <1>1, AllBegun
    <3>4. ~OverIn(sessions', cookie) => sessions'[cookie].csrf = sessions[cookie].csrf
      BY <2>2, <3>3 DEF OverIn
    <3>5. QED
      BY <2>2, <3>2, <3>3, <3>4, AllUses DEF AloneFits, FitsAfter
  <2>3. ASSUME NEW s \in StaffSessions, RunOut(s)
        PROVE  /\ UNCHANGED <<cookie, tab, net, late>>
               /\ \A o \in StaffSessions : sessions'[o].csrf = sessions[o].csrf
    BY <1>1, <2>3 DEF RunOut, Going, SessionRows
  <2>4. UNCHANGED consoleVars => /\ UNCHANGED <<cookie, tab, net, late>>
                                 /\ \A o \in StaffSessions : sessions'[o].csrf = sessions[o].csrf
    BY DEF consoleVars
  <2>5. FitsAfter(t)
    BY <2>1, <2>2, <2>3, <2>4 DEF ConsoleNext, Step
  <2>6. QED
    BY <2>5 DEF FitsAfter
<1>4. QED
  BY <1>2, <1>3 DEF AloneInv

\* A change is refused for its token only when the browser has another tab, or when this
\* one has gone by what was over, in one of the ways that late records: whatever the order
\* of the clicks and of the answers, whatever is lost or cut off, a tab on its own sends the
\* token its session has.
THEOREM RefusedOnlyByOvertaking == ConsoleSpec => []RefusedOnlyWhenOvertaken
<1>1. ConsoleInit => AloneInv
  <2> SUFFICES ASSUME ConsoleInit PROVE AloneInv
    OBVIOUS
  <2>1. \A t \in Tabs, u \in Uses : net[t][u] = Nothing
    BY DEF ConsoleInit
  <2>2. \A t \in Tabs : tab[t].screen = "closed" /\ tab[t].cache = "empty"
    BY DEF ConsoleInit
  <2>3. BegunIn(sessions, cookie)
    BY InstanceAssumption DEF ConsoleInit, BegunIn, StaffSessions
  <2>4. AllFit
    BY <2>1, <2>2, <2>3, NothingAsked DEF AllFit, TabFits, RequestFits, BegunIn
  <2>5. \A t \in Tabs : AloneFits(sessions, cookie, net[t], tab[t])
    BY <2>1, <2>2, NothingAsked, AllUses DEF AloneFits, Live, OverIn
  <2>6. QED
    BY <2>4, <2>5, ConsoleTypedInit DEF AloneInv
<1>2. AloneInv => RefusedOnlyWhenOvertaken
  <2> SUFFICES ASSUME AloneInv, NEW t \in Tabs, net[t]["change"].answer = "csrf"
               PROVE  (\E o \in Tabs \ {t} : tab[o].screen # "closed") \/ late
    BY DEF RefusedOnlyWhenOvertaken
  <2>1. ~AloneFits(sessions, cookie, net[t], tab[t])
    BY DEF AloneFits
  <2>2. ~Alone(t)
    BY <2>1 DEF AloneInv
  <2>3. QED
    BY <2>2 DEF Alone
<1>3. QED
  BY <1>1, <1>2, AloneInvNext, PTL DEF ConsoleSpec
=============================================================================
