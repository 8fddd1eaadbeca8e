------------------------- MODULE OutboxRelayProofs -------------------------
(***************************************************************************)
(* Theorems about OutboxRelay, for any number of relays, events and users, *)
(* and however often a lease runs out under a relay still at work.         *)
(***************************************************************************)
EXTENDS OutboxRelay, FiniteSetTheorems, TLAPS

\* A relay at work for a consumer knows which, and for a user knows whom.
AtWork ==
  \A r \in Relays :
    /\ job[r].at \notin {"idle", "next", "fail"} => job[r].consumer \in Consumers
    /\ job[r].at \in {"push", "SENT", "FAILED"} => job[r].user \in job[r].todo

TypeInv == TypeOK /\ AtWork

LEMMA JobShape ==
  ASSUME TypeOK, NEW r \in Relays, job[r].at # "idle"
  PROVE  /\ job[r] \in Attempt
         /\ job[r].event \in Events /\ job[r].attempt \in Nat
         /\ job[r].left \subseteq Consumers /\ job[r].todo \subseteq Users
         /\ job[r].at \in Steps
BY DEF TypeOK, Job, Idle, Attempt

LEMMA BetweenShape ==
  ASSUME NEW e \in Events, NEW n \in Nat, NEW left \in SUBSET Consumers
  PROVE  /\ Between(e, n, left) \in Attempt
         /\ Between(e, n, left).at = "next"
         /\ Between(e, n, left).left = left
         /\ Between(e, n, left).event = e
BY DEF Between, Attempt, Steps

LEMMA FailingShape ==
  ASSUME NEW j \in Attempt
  PROVE  Failing(j) \in Attempt /\ Failing(j).at = "fail"
BY DEF Failing, Between, Attempt, Steps

LEMMA AfterUserShape ==
  ASSUME NEW j \in Attempt, NEW u \in Users
  PROVE  /\ AfterUser(j, u) \in Attempt
         /\ AfterUser(j, u).at \in {"mark", "notify"}
         /\ AfterUser(j, u).at = "mark" => j.todo \subseteq {u}
         /\ AfterUser(j, u).event = j.event
         /\ AfterUser(j, u).left = j.left
         /\ AfterUser(j, u).consumer = j.consumer
         /\ AfterUser(j, u).todo = j.todo \ {u}
BY DEF AfterUser, Attempt, Steps

\* Writing one column of an event, or one more in a counter, keeps the types.
LEMMA RowWritten ==
  ASSUME event \in [Events -> EventRow], NEW e \in Events, NEW flag \in BOOLEAN
  PROVE  /\ [event EXCEPT ![e].emitted = TRUE, ![e].due = TRUE]
              \in [Events -> EventRow]
         /\ [event EXCEPT ![e].due = TRUE] \in [Events -> EventRow]
         /\ [event EXCEPT ![e].due = FALSE, ![e].attempts = @ + 1]
              \in [Events -> EventRow]
         /\ [event EXCEPT ![e].published = TRUE] \in [Events -> EventRow]
         /\ [event EXCEPT ![e].due = FALSE, ![e].failed = flag]
              \in [Events -> EventRow]
<1>1. [event EXCEPT ![e].emitted = TRUE, ![e].due = TRUE] \in [Events -> EventRow]
  BY DEF EventRow
<1>2. [event EXCEPT ![e].due = TRUE] \in [Events -> EventRow]
  BY DEF EventRow
<1>3. [event EXCEPT ![e].due = FALSE, ![e].attempts = @ + 1] \in [Events -> EventRow]
  <2>1. event[e].attempts + 1 \in Nat
    BY DEF EventRow
  <2>2. ASSUME NEW n \in Nat
        PROVE  [event EXCEPT ![e].due = FALSE, ![e].attempts = n] \in [Events -> EventRow]
    BY DEF EventRow
  <2>3. QED
    BY <2>1, <2>2
<1>4. [event EXCEPT ![e].published = TRUE] \in [Events -> EventRow]
  BY DEF EventRow
<1>5. [event EXCEPT ![e].due = FALSE, ![e].failed = flag] \in [Events -> EventRow]
  BY DEF EventRow
<1>6. QED
  BY <1>1, <1>2, <1>3, <1>4, <1>5

LEMMA OneMore ==
  ASSUME NEW count \in [Events -> Nat], NEW e \in Events
  PROVE  [count EXCEPT ![e] = @ + 1] \in [Events -> Nat]
OBVIOUS

\* A step of one relay moves that relay alone, to a state of its code.
Moves(r, j) ==
  /\ job' = [job EXCEPT ![r] = j]
  /\ j \in Job
  /\ j.at \notin {"idle", "next", "fail"} => j.consumer \in Consumers
  /\ j.at \in {"push", "SENT", "FAILED"} => j.user \in j.todo

LEMMA Moved ==
  ASSUME TypeInv, NEW r \in Relays, NEW j, Moves(r, j)
  PROVE  job' \in [Relays -> Job] /\ AtWork'
BY DEF TypeInv, TypeOK, AtWork, Moves

LEMMA TypeInductive ==
  ASSUME TypeInv, [Next]_vars
  PROVE  TypeInv'
<1> USE DEF TypeInv
<1>1. ASSUME NEW e \in Events, Emit(e) \/ Withdraw(e) \/ ComeDue(e)
      PROVE  TypeInv'
  <2>1. event' \in [Events -> EventRow] /\ withdrawn' \subseteq Events
    <3>1. CASE Emit(e)
      BY <3>1, RowWritten DEF Emit, ledgers, TypeOK
    <3>2. CASE Withdraw(e)
      BY <3>2 DEF Withdraw, TypeOK
    <3>3. CASE ComeDue(e)
      BY <3>3, RowWritten DEF ComeDue, ledgers, TypeOK
    <3>4. QED
      BY <1>1, <3>1, <3>2, <3>3
  <2>2. UNCHANGED <<processed, push, sends, texts, unsure, crashes, job>>
    BY <1>1 DEF Emit, Withdraw, ComeDue, ledgers
  <2>3. overruns' = overruns \/ overruns' = overruns + 1
    BY <1>1 DEF Emit, Withdraw, ComeDue, ledgers
  <2>4. QED
    BY <2>1, <2>2, <2>3 DEF TypeOK, AtWork
<1>2. ASSUME NEW r \in Relays, Claim(r)
      PROVE  TypeInv'
  <2>1. PICK e \in Events :
          /\ event' = [event EXCEPT ![e].due = FALSE, ![e].attempts = @ + 1]
          /\ Goto(r, Between(e, event[e].attempts + 1, Consumers))
    BY <1>2 DEF Claim
  <2>2. event[e].attempts + 1 \in Nat
    BY DEF TypeOK, EventRow
  <2>3. Moves(r, Between(e, event[e].attempts + 1, Consumers))
    BY <2>1, <2>2, BetweenShape DEF Goto, Moves, Job
  <2>4. event' \in [Events -> EventRow]
    BY <2>1, RowWritten DEF TypeOK
  <2>5. QED
    BY <1>2, <2>3, <2>4, Moved DEF Claim, ledgers, TypeOK
<1>3. ASSUME NEW r \in Relays, SkipProcessed(r)
      PROVE  TypeInv'
  <2>1. job[r] \in Attempt
    BY <1>3, JobShape DEF SkipProcessed
  <2>2. PICK c \in job[r].left : Goto(r, [job[r] EXCEPT !.left = @ \ {c}])
    BY <1>3 DEF SkipProcessed
  <2>3. Moves(r, [job[r] EXCEPT !.left = @ \ {c}])
    BY <1>3, <2>1, <2>2 DEF SkipProcessed, Goto, Moves, Job, Attempt
  <2>4. QED
    BY <1>3, <2>3, Moved DEF SkipProcessed, ledgers, TypeOK
<1>4. ASSUME NEW r \in Relays, BeginHandle(r)
      PROVE  TypeInv'
  <2>1. job[r] \in Attempt
    BY <1>4, JobShape DEF BeginHandle
  <2> DEFINE at(c) == IF job[r].event \in withdrawn THEN "mark" ELSE Work[c]
             to(c) == [job[r] EXCEPT !.at = at(c), !.consumer = c,
                                     !.todo = Recipients(c, job[r].event)]
  <2>2. PICK c \in job[r].left : Goto(r, to(c))
    BY <1>4 DEF BeginHandle
  <2>3. c \in Consumers /\ at(c) \in {"mark", "notify", "text"}
    BY <2>1 DEF Attempt, Consumers, Work
  <2>4. Recipients(c, job[r].event) \subseteq Users
    BY DEF Recipients
  <2>5. to(c) \in Attempt /\ to(c).at = at(c) /\ to(c).consumer = c
    BY <2>1, <2>3, <2>4 DEF Attempt, Steps
  <2>6. Moves(r, to(c))
    BY <2>2, <2>3, <2>5 DEF Goto, Moves, Job
  <2>7. QED
    BY <1>4, <2>6, Moved DEF BeginHandle, ledgers, TypeOK
<1>5. ASSUME NEW r \in Relays, Notify(r)
      PROVE  TypeInv'
  <2>1. job[r] \in Attempt /\ job[r].consumer \in Consumers
    BY <1>5, JobShape DEF Notify, AtWork
  <2>2. PICK u \in job[r].todo :
          \/ Goto(r, AfterUser(job[r], u)) /\ UNCHANGED push
          \/ /\ push' = [push EXCEPT ![job[r].event][u] = "SKIPPED"]
             /\ Goto(r, AfterUser(job[r], u))
          \/ /\ push' = [push EXCEPT ![job[r].event][u] = "PENDING"]
             /\ Goto(r, [job[r] EXCEPT !.at = "push", !.user = u])
    BY <1>5 DEF Notify
  <2>3. u \in Users /\ job[r].event \in Events
    BY <2>1 DEF Attempt
  <2>4. push' \in [Events -> [Users -> PushStatus]]
    <3>1. CASE UNCHANGED push
      BY <3>1 DEF TypeOK
    <3>2. ASSUME NEW status \in PushStatus,
                 push' = [push EXCEPT ![job[r].event][u] = status]
          PROVE  push' \in [Events -> [Users -> PushStatus]]
      BY <3>2, <2>3 DEF TypeOK
    <3>3. QED
      BY <2>2, <3>1, <3>2 DEF PushStatus
  <2>5. Goto(r, AfterUser(job[r], u)) => Moves(r, AfterUser(job[r], u))
    BY <2>1, <2>3, AfterUserShape DEF Goto, Moves, Job
  <2>6. Goto(r, [job[r] EXCEPT !.at = "push", !.user = u])
          => Moves(r, [job[r] EXCEPT !.at = "push", !.user = u])
    BY <2>1, <2>3 DEF Goto, Moves, Job, Attempt, Steps
  <2>7. job' \in [Relays -> Job] /\ AtWork'
    BY <2>2, <2>5, <2>6, Moved
  <2>8. QED
    BY <1>5, <2>4, <2>7 DEF Notify, TypeOK
<1>6. ASSUME NEW r \in Relays, SendPush(r)
      PROVE  TypeInv'
  <2>1. job[r] \in Attempt /\ job[r].consumer \in Consumers /\ job[r].user \in job[r].todo
    BY <1>6, JobShape DEF SendPush, AtWork
  <2>2. PICK outcome \in {"SENT", "FAILED"}, delivered \in {0, 1} :
          /\ sends' = [sends EXCEPT ![job[r].event][job[r].user] = @ + delivered]
          /\ Goto(r, [job[r] EXCEPT !.at = outcome])
    BY <1>6 DEF SendPush
  <2>3. sends' \in [Events -> [Users -> Nat]]
    BY <2>1, <2>2 DEF TypeOK, Attempt
  <2>4. Moves(r, [job[r] EXCEPT !.at = outcome])
    BY <2>1, <2>2 DEF Goto, Moves, Job, Attempt, Steps
  <2>5. QED
    BY <1>6, <2>3, <2>4, Moved DEF SendPush, TypeOK
<1>7. ASSUME NEW r \in Relays, RecordPush(r)
      PROVE  TypeInv'
  <2>1. job[r] \in Attempt /\ job[r].consumer \in Consumers /\ job[r].user \in job[r].todo
    BY <1>7, JobShape DEF RecordPush, AtWork
  <2>2. job[r].user \in Users /\ job[r].event \in Events
    BY <2>1 DEF Attempt
  <2>3. push' \in [Events -> [Users -> PushStatus]]
    BY <1>7, <2>2 DEF RecordPush, TypeOK, PushStatus
  <2>4. Moves(r, AfterUser(job[r], job[r].user))
    BY <1>7, <2>1, <2>2, AfterUserShape DEF RecordPush, Goto, Moves, Job
  <2>5. QED
    BY <1>7, <2>3, <2>4, Moved DEF RecordPush, TypeOK
<1>8. ASSUME NEW r \in Relays, SendText(r)
      PROVE  TypeInv'
  <2>1. job[r] \in Attempt /\ job[r].consumer \in Consumers
    BY <1>8, JobShape DEF SendText, AtWork
  <2>2. texts' \in [Events -> Nat] /\ unsure' \in [Events -> Nat]
    <3>1. PICK e \in Events : e = job[r].event
      BY <2>1 DEF Attempt
    <3>2. /\ texts' = [texts EXCEPT ![e] = @ + 1]
          /\ unsure' = unsure \/ unsure' = [unsure EXCEPT ![e] = @ + 1]
      BY <1>8, <3>1 DEF SendText
    <3>3. texts \in [Events -> Nat] /\ unsure \in [Events -> Nat]
      BY DEF TypeInv, TypeOK
    <3>4. QED
      BY <3>2, <3>3, OneMore
  <2>3. Moves(r, [job[r] EXCEPT !.at = "texted"]) \/ Moves(r, Failing(job[r]))
    BY <1>8, <2>1, FailingShape DEF SendText, Goto, Moves, Job, Attempt, Steps
  <2>4. QED
    BY <1>8, <2>2, <2>3, Moved DEF SendText, TypeOK
<1>9. ASSUME NEW r \in Relays, MarkProcessed(r)
      PROVE  TypeInv'
  <2>1. /\ job[r].event \in Events /\ job[r].attempt \in Nat
        /\ job[r].left \subseteq Consumers /\ job[r].consumer \in Consumers
    BY <1>9, JobShape DEF MarkProcessed, AtWork
  <2>2. processed' \subseteq Consumers \X Events
    BY <1>9, <2>1 DEF MarkProcessed, TypeOK
  <2>3. Moves(r, Between(job[r].event, job[r].attempt, job[r].left \ {job[r].consumer}))
    BY <1>9, <2>1, BetweenShape DEF MarkProcessed, Goto, Moves, Job
  <2>4. QED
    BY <1>9, <2>2, <2>3, Moved DEF MarkProcessed, TypeOK
<1>10. ASSUME NEW r \in Relays, Publish(r) \/ Fail(r)
       PROVE  TypeInv'
  <2>1. Moves(r, Idle)
    BY <1>10 DEF Publish, Fail, Goto, Moves, Job, Idle
  <2>2. event' \in [Events -> EventRow]
    <3>1. job[r].event \in Events
      BY <1>10, JobShape DEF Publish, Fail
    <3>2. LastAttempt(job[r].attempt) \in BOOLEAN
      BY DEF LastAttempt
    <3>3. QED
      <4>1. CASE Publish(r)
        BY <4>1, <3>1, RowWritten DEF Publish, TypeOK
      <4>2. CASE Fail(r)
        BY <4>2, <3>1, <3>2, RowWritten DEF Fail, TypeOK
      <4>3. QED
        BY <1>10, <4>1, <4>2
  <2>3. QED
    BY <1>10, <2>1, <2>2, Moved DEF Publish, Fail, ledgers, TypeOK
<1>11. ASSUME NEW r \in Relays, Throw(r) \/ Crash(r)
       PROVE  TypeInv'
  <2>1. job[r] # Idle
    BY <1>11 DEF Throw, Crash
  <2>2. job[r] \in Attempt
    BY <2>1 DEF TypeOK, Job
  <2>3. Moves(r, Failing(job[r])) \/ Moves(r, Idle)
    BY <1>11, <2>2, FailingShape DEF Throw, Crash, Goto, Moves, Job, Idle
  <2>4. unsure' \in [Events -> Nat]
    BY <1>11, <2>2, OneMore DEF Throw, Crash, Forget, TypeOK, Attempt
  <2>5. crashes' \in Nat
    BY <1>11 DEF Throw, Crash, TypeOK
  <2>6. QED
    BY <1>11, <2>3, <2>4, <2>5, Moved DEF Throw, Crash, TypeOK
<1>12. CASE UNCHANGED vars
  BY <1>12 DEF vars, ledgers, TypeOK, AtWork
<1>13. QED
  BY <1>1, <1>2, <1>3, <1>4, <1>5, <1>6, <1>7, <1>8, <1>9, <1>10, <1>11, <1>12
     DEF Next, Dispatch

LEMMA TypeInitial ==
  ASSUME Init
  PROVE  TypeInv
BY DEF Init, TypeInv, TypeOK, AtWork, Job, Idle, EventRow, AbsentEvent, PushStatus

\* Every reachable state has the types of the schema and of dispatchOne.
THEOREM TypeCorrect == Spec => []TypeOK
<1>1. Init => TypeInv
  BY TypeInitial
<1>2. TypeInv /\ [Next]_vars => TypeInv'
  BY TypeInductive
<1>3. TypeInv => TypeOK
  BY DEF TypeInv
<1>4. QED
  BY <1>1, <1>2, <1>3, PTL DEF Spec

------------------------------------------------------------------------------
(* What an attempt has done so far is on record: the consumers it has dealt with
   are marked, the users it is through with are notified.  Given as an operator
   of the tables, so that it can be stated of them before and after a step. *)

Progress(j, marks, notes, sent, gone) ==
  /\ j.at \notin {"idle", "fail"} =>
       \A c \in Consumers : c \in j.left \/ <<c, j.event>> \in marks
  /\ j.at \in {"notify", "push", "SENT", "FAILED"} =>
       /\ j.consumer = "inbox"
       /\ \A u \in Users : u \in j.todo \/ notes[j.event][u] # "none"
  /\ j.at \in {"push", "SENT", "FAILED"} => notes[j.event][j.user] # "none"
  /\ j.at = "text" => j.consumer = "sms"
  /\ j.at = "texted" => j.consumer = "sms" /\ sent[j.event] > 0
  /\ j.at = "mark" =>
       \/ j.event \in gone
       \/ j.consumer = "inbox" /\ \A u \in Users : notes[j.event][u] # "none"

\* So is what a mark stands for.
Marked(e, marks, notes, sent, gone) ==
  /\ <<"sms", e>> \in marks => e \in gone \/ sent[e] > 0
  /\ <<"inbox", e>> \in marks => e \in gone \/ \A u \in Users : notes[e][u] # "none"

ReachInv ==
  /\ \A e \in Events :
       /\ event[e].published => \A c \in Consumers : <<c, e>> \in processed
       /\ Marked(e, processed, push, texts, withdrawn)
  /\ \A r \in Relays : Progress(job[r], processed, push, texts, withdrawn)

\* Nothing on record is ever taken back.
Grows(marks, notes, sent, gone) ==
  /\ processed \subseteq marks
  /\ \A e \in Events, u \in Users : push[e][u] # "none" => notes[e][u] # "none"
  /\ \A e \in Events : texts[e] > 0 => sent[e] > 0
  /\ withdrawn \subseteq gone

LEMMA ProgressKept ==
  ASSUME TypeInv, NEW r \in Relays, NEW marks, NEW notes, NEW sent, NEW gone,
         Grows(marks, notes, sent, gone),
         Progress(job[r], processed, push, texts, withdrawn)
  PROVE  Progress(job[r], marks, notes, sent, gone)
<1>1. CASE job[r].at = "idle"
  BY <1>1 DEF Progress
<1>2. CASE job[r].at # "idle"
  <2>1. job[r].event \in Events
    BY <1>2, JobShape DEF TypeInv
  <2>2. job[r].at \in {"push", "SENT", "FAILED"} => job[r].user \in Users
    BY <1>2, JobShape DEF TypeInv, AtWork
  <2>3. QED
    BY <2>1, <2>2 DEF Progress, Grows
<1>3. QED
  BY <1>1, <1>2

LEMMA MarkedKept ==
  ASSUME NEW e \in Events, NEW notes, NEW sent, NEW gone,
         Grows(processed, notes, sent, gone),
         Marked(e, processed, push, texts, withdrawn)
  PROVE  Marked(e, processed, notes, sent, gone)
BY DEF Marked, Grows

LEMMA StepGrows ==
  ASSUME TypeInv, [Next]_vars
  PROVE  Grows(processed', push', texts', withdrawn')
<1> USE DEF TypeInv
<1>1. ASSUME NEW r \in Relays, Notify(r)
      PROVE  Grows(processed', push', texts', withdrawn')
  <2>1. job[r].event \in Events /\ job[r].todo \subseteq Users
    BY <1>1, JobShape DEF Notify
  <2>2. CASE push' = push
    BY <1>1, <2>2 DEF Notify, Grows
  <2>3. CASE push' # push
    <3>1. PICK u \in job[r].todo, status \in {"SKIPPED", "PENDING"} :
            push' = [push EXCEPT ![job[r].event][u] = status]
      BY <1>1, <2>3 DEF Notify
    <3>2. ASSUME NEW e \in Events, NEW v \in Users, push[e][v] # "none"
          PROVE  push'[e][v] # "none"
      BY <2>1, <3>1, <3>2 DEF TypeOK
    <3>3. QED
      BY <1>1, <3>2 DEF Notify, Grows
  <2>4. QED
    BY <2>2, <2>3
<1>2. ASSUME NEW r \in Relays, RecordPush(r)
      PROVE  Grows(processed', push', texts', withdrawn')
  <2>1. \A e \in Events, u \in Users : push[e][u] # "none" => push'[e][u] # "none"
    BY <1>2 DEF RecordPush, TypeOK
  <2>2. QED
    BY <1>2, <2>1 DEF RecordPush, Grows
<1>3. ASSUME NEW r \in Relays, SendText(r)
      PROVE  Grows(processed', push', texts', withdrawn')
  <2>1. \A e \in Events : texts[e] > 0 => texts'[e] > 0
    BY <1>3 DEF SendText, TypeOK
  <2>2. QED
    BY <1>3, <2>1 DEF SendText, Grows
<1>4. ASSUME NEW r \in Relays, MarkProcessed(r)
      PROVE  Grows(processed', push', texts', withdrawn')
  BY <1>4 DEF MarkProcessed, Grows
<1>5. ASSUME NEW e \in Events, Withdraw(e)
      PROVE  Grows(processed', push', texts', withdrawn')
  BY <1>5 DEF Withdraw, Grows
<1>6. CASE UNCHANGED <<processed, push, texts, withdrawn>>
  BY <1>6 DEF Grows
<1>7. QED
  BY <1>1, <1>2, <1>3, <1>4, <1>5, <1>6 DEF Next, Dispatch, Emit, ComeDue, Claim,
     SkipProcessed, BeginHandle, SendPush, Publish, Throw, Fail, Crash, ledgers, vars

\* When relay r moves to j, it is enough to look at j, at the marks and at the
\* acknowledgements.
LEMMA ReachStep ==
  ASSUME TypeInv, ReachInv, [Next]_vars, NEW r \in Relays, NEW j,
         job' = [job EXCEPT ![r] = j],
         Progress(j, processed', push', texts', withdrawn'),
         \A e \in Events : event'[e].published =>
           event[e].published \/ \A c \in Consumers : <<c, e>> \in processed,
         \/ processed' = processed
         \/ \A e \in Events : Marked(e, processed', push', texts', withdrawn')
  PROVE  ReachInv'
<1>1. Grows(processed', push', texts', withdrawn')
  BY StepGrows
<1>2. ASSUME NEW q \in Relays
      PROVE  Progress(job'[q], processed', push', texts', withdrawn')
  <2>1. CASE q = r
    BY <2>1 DEF TypeInv, TypeOK
  <2>2. CASE q # r
    <3>1. job'[q] = job[q]
      BY <2>2 DEF TypeInv, TypeOK
    <3>2. Progress(job[q], processed', push', texts', withdrawn')
      BY <1>1, ProgressKept DEF ReachInv
    <3>3. QED
      BY <3>1, <3>2
  <2>3. QED
    BY <2>1, <2>2
<1>3. ASSUME NEW e \in Events
      PROVE  /\ event'[e].published => \A c \in Consumers : <<c, e>> \in processed'
             /\ Marked(e, processed', push', texts', withdrawn')
  <2>1. event'[e].published => \A c \in Consumers : <<c, e>> \in processed'
    BY <1>1 DEF ReachInv, Grows
  <2>2. CASE processed' = processed
    BY <1>1, <2>1, <2>2, MarkedKept DEF ReachInv
  <2>3. QED
    BY <2>1, <2>2
<1>4. QED
  BY <1>2, <1>3 DEF ReachInv

LEMMA ReachInductive ==
  ASSUME TypeInv, ReachInv, [Next]_vars
  PROVE  ReachInv'
<1> USE DEF TypeInv
<1>0. Grows(processed', push', texts', withdrawn')
  BY StepGrows
<1>1. ASSUME UNCHANGED <<processed, job>>,
             \A e \in Events : event'[e].published => event[e].published
      PROVE  ReachInv'
  <2>1. ASSUME NEW r \in Relays
        PROVE  Progress(job'[r], processed', push', texts', withdrawn')
    <3>1. Progress(job[r], processed', push', texts', withdrawn')
      BY <1>0, ProgressKept DEF ReachInv
    <3>2. QED
      BY <1>1, <3>1
  <2>2. ASSUME NEW e \in Events
        PROVE  /\ event'[e].published => \A c \in Consumers : <<c, e>> \in processed'
               /\ Marked(e, processed', push', texts', withdrawn')
    BY <1>0, <1>1, MarkedKept DEF ReachInv
  <2>3. QED
    BY <2>1, <2>2 DEF ReachInv
<1>2. ASSUME NEW e \in Events, Emit(e) \/ Withdraw(e) \/ ComeDue(e)
      PROVE  ReachInv'
  <2>1. \A f \in Events : event'[f].published => event[f].published
    <3>1. CASE Emit(e)
      BY <3>1 DEF Emit, TypeOK, EventRow
    <3>2. CASE Withdraw(e)
      BY <3>2 DEF Withdraw
    <3>3. CASE ComeDue(e)
      BY <3>3 DEF ComeDue, TypeOK, EventRow
    <3>4. QED
      BY <1>2, <3>1, <3>2, <3>3
  <2>2. QED
    BY <1>1, <1>2, <2>1 DEF Emit, Withdraw, ComeDue, ledgers
<1>3. ASSUME NEW r \in Relays, Claim(r)
      PROVE  ReachInv'
  <2>1. PICK e \in Events :
          /\ event' = [event EXCEPT ![e].due = FALSE, ![e].attempts = @ + 1]
          /\ job' = [job EXCEPT ![r] = Between(e, event[e].attempts + 1, Consumers)]
    BY <1>3 DEF Claim, Goto
  <2>2. Progress(Between(e, event[e].attempts + 1, Consumers),
                 processed', push', texts', withdrawn')
    BY DEF Progress, Between
  <2>3. \A f \in Events : event'[f].published => event[f].published
    BY <2>1 DEF TypeOK, EventRow
  <2>4. processed' = processed
    BY <1>3 DEF Claim, ledgers
  <2>5. QED
    BY <2>1, <2>2, <2>3, <2>4, ReachStep
<1>4. ASSUME NEW r \in Relays, SkipProcessed(r)
      PROVE  ReachInv'
  <2>1. job[r] \in Attempt /\ job[r].at = "next"
    BY <1>4, JobShape DEF SkipProcessed
  <2>2. PICK c \in job[r].left :
          /\ <<c, job[r].event>> \in processed
          /\ job' = [job EXCEPT ![r] = [job[r] EXCEPT !.left = @ \ {c}]]
    BY <1>4 DEF SkipProcessed, AlreadyProcessed, Goto
  <2>3. Progress(job[r], processed', push', texts', withdrawn')
    BY <1>0, ProgressKept DEF ReachInv
  <2>4. processed' = processed /\ event' = event
    BY <1>4 DEF SkipProcessed, ledgers
  <2>5. Progress([job[r] EXCEPT !.left = @ \ {c}], processed', push', texts', withdrawn')
    BY <2>1, <2>2, <2>3, <2>4 DEF Progress, Attempt
  <2>6. QED
    BY <2>2, <2>4, <2>5, ReachStep
<1>5. ASSUME NEW r \in Relays, BeginHandle(r)
      PROVE  ReachInv'
  <2>1. job[r] \in Attempt /\ job[r].at = "next"
    BY <1>5, JobShape DEF BeginHandle
  <2> DEFINE at(c) == IF job[r].event \in withdrawn THEN "mark" ELSE Work[c]
             to(c) == [job[r] EXCEPT !.at = at(c), !.consumer = c,
                                     !.todo = Recipients(c, job[r].event)]
  <2>2. PICK c \in job[r].left : job' = [job EXCEPT ![r] = to(c)]
    BY <1>5 DEF BeginHandle, Goto
  <2>3. UNCHANGED <<event, processed, push, texts, withdrawn>>
    BY <1>5 DEF BeginHandle, ledgers
  <2>4. Progress(job[r], processed, push, texts, withdrawn)
    BY DEF ReachInv
  <2>5. /\ to(c).at = at(c) /\ to(c).consumer = c /\ to(c).left = job[r].left
        /\ to(c).event = job[r].event /\ to(c).todo = Recipients(c, job[r].event)
    BY <2>1 DEF Attempt
  <2>6. c \in Consumers
    BY <2>1 DEF Attempt
  <2>7. Progress(to(c), processed, push, texts, withdrawn)
    <3>1. CASE job[r].event \in withdrawn
      BY <2>1, <2>4, <2>5, <3>1 DEF Progress
    <3>2. CASE job[r].event \notin withdrawn /\ c = "inbox"
      BY <2>1, <2>4, <2>5, <3>2 DEF Progress, Work, Recipients
    <3>3. CASE job[r].event \notin withdrawn /\ c = "sms"
      BY <2>1, <2>4, <2>5, <3>3 DEF Progress, Work
    <3>4. QED
      BY <2>6, <3>1, <3>2, <3>3 DEF Consumers
  <2>8. QED
    BY <2>2, <2>3, <2>7, ReachStep
<1>6. ASSUME NEW r \in Relays, Notify(r)
      PROVE  ReachInv'
  <2>1. job[r] \in Attempt /\ job[r].event \in Events /\ job[r].todo \subseteq Users
    BY <1>6, JobShape DEF Notify
  <2>2. PICK u \in job[r].todo :
          \/ /\ Notified(job[r].event, u) /\ UNCHANGED push
             /\ Goto(r, AfterUser(job[r], u))
          \/ /\ push' = [push EXCEPT ![job[r].event][u] = "SKIPPED"]
             /\ Goto(r, AfterUser(job[r], u))
          \/ /\ push' = [push EXCEPT ![job[r].event][u] = "PENDING"]
             /\ Goto(r, [job[r] EXCEPT !.at = "push", !.user = u])
    BY <1>6 DEF Notify
  <2>3. push'[job[r].event][u] # "none"
    BY <2>1, <2>2 DEF Notified, TypeOK
  <2>4. UNCHANGED <<event, processed>>
    BY <1>6 DEF Notify
  <2>5. Progress(job[r], processed', push', texts', withdrawn')
    BY <1>0, ProgressKept DEF ReachInv
  <2>6. job[r].at = "notify"
    BY <1>6 DEF Notify
  <2>7. Progress(AfterUser(job[r], u), processed', push', texts', withdrawn')
    BY <2>1, <2>3, <2>5, <2>6, AfterUserShape DEF Progress
  <2>8. Progress([job[r] EXCEPT !.at = "push", !.user = u],
                 processed', push', texts', withdrawn')
    BY <2>1, <2>3, <2>5, <2>6 DEF Progress, Attempt
  <2>9. QED
    BY <2>2, <2>4, <2>7, <2>8, ReachStep DEF Goto
<1>7. ASSUME NEW r \in Relays, SendPush(r)
      PROVE  ReachInv'
  <2>1. job[r] \in Attempt /\ job[r].at = "push"
    BY <1>7, JobShape DEF SendPush
  <2>2. PICK outcome \in {"SENT", "FAILED"} :
          job' = [job EXCEPT ![r] = [job[r] EXCEPT !.at = outcome]]
    BY <1>7 DEF SendPush, Goto
  <2>3. UNCHANGED <<event, processed, push, texts, withdrawn>>
    BY <1>7 DEF SendPush
  <2>4. Progress(job[r], processed, push, texts, withdrawn)
    BY DEF ReachInv
  <2>5. Progress([job[r] EXCEPT !.at = outcome], processed, push, texts, withdrawn)
    BY <2>1, <2>4 DEF Progress, Attempt
  <2>6. QED
    BY <2>2, <2>3, <2>5, ReachStep
<1>8. ASSUME NEW r \in Relays, RecordPush(r)
      PROVE  ReachInv'
  <2>1. /\ job[r] \in Attempt /\ job[r].at \in {"SENT", "FAILED"}
        /\ job[r].user \in Users
    BY <1>8, JobShape DEF RecordPush, AtWork
  <2>2. job' = [job EXCEPT ![r] = AfterUser(job[r], job[r].user)]
    BY <1>8 DEF RecordPush, Goto
  <2>3. UNCHANGED <<event, processed>>
    BY <1>8 DEF RecordPush
  <2>4. Progress(job[r], processed', push', texts', withdrawn')
    BY <1>0, ProgressKept DEF ReachInv
  <2>5. Progress(AfterUser(job[r], job[r].user), processed', push', texts', withdrawn')
    BY <2>1, <2>4, AfterUserShape DEF Progress
  <2>6. QED
    BY <2>2, <2>3, <2>5, ReachStep
<1>9. ASSUME NEW r \in Relays, SendText(r)
      PROVE  ReachInv'
  <2>1. job[r] \in Attempt /\ job[r].at = "text" /\ job[r].event \in Events
    BY <1>9, JobShape DEF SendText
  <2>2. job' = [job EXCEPT ![r] = [job[r] EXCEPT !.at = "texted"]]
          \/ job' = [job EXCEPT ![r] = Failing(job[r])]
    BY <1>9 DEF SendText, Goto
  <2>3. UNCHANGED <<event, processed>> /\ texts'[job[r].event] > 0
    BY <1>9, <2>1 DEF SendText, TypeOK
  <2>4. Progress(job[r], processed', push', texts', withdrawn')
    BY <1>0, ProgressKept DEF ReachInv
  <2>5. Progress([job[r] EXCEPT !.at = "texted"], processed', push', texts', withdrawn')
    BY <2>1, <2>3, <2>4 DEF Progress, Attempt
  <2>6. Progress(Failing(job[r]), processed', push', texts', withdrawn')
    BY DEF Progress, Failing, Between
  <2>7. QED
    BY <2>2, <2>3, <2>5, <2>6, ReachStep
<1>10. ASSUME NEW r \in Relays, MarkProcessed(r)
       PROVE  ReachInv'
  <2>1. /\ job[r] \in Attempt /\ job[r].at \in {"mark", "texted"}
        /\ job[r].event \in Events /\ job[r].consumer \in Consumers
    BY <1>10, JobShape DEF MarkProcessed, AtWork
  <2> DEFINE to == Between(job[r].event, job[r].attempt, job[r].left \ {job[r].consumer})
  <2>2. job' = [job EXCEPT ![r] = to]
    BY <1>10 DEF MarkProcessed, Goto
  <2>3. /\ UNCHANGED <<event, push, texts, withdrawn>>
        /\ processed' = processed \cup {<<job[r].consumer, job[r].event>>}
    BY <1>10 DEF MarkProcessed
  <2>4. Progress(job[r], processed, push, texts, withdrawn)
    BY DEF ReachInv
  <2>5. Progress(to, processed', push', texts', withdrawn')
    BY <2>1, <2>3, <2>4 DEF Progress, Between
  <2>6. ASSUME NEW e \in Events
        PROVE  Marked(e, processed', push', texts', withdrawn')
    BY <2>1, <2>3, <2>4 DEF ReachInv, Marked, Progress
  <2>7. QED
    BY <2>2, <2>3, <2>5, <2>6, ReachStep
<1>11. ASSUME NEW r \in Relays, Publish(r) \/ Fail(r)
       PROVE  ReachInv'
  <2>1. job' = [job EXCEPT ![r] = Idle] /\ processed' = processed
    BY <1>11 DEF Publish, Fail, Goto, ledgers
  <2>2. Progress(Idle, processed', push', texts', withdrawn')
    BY DEF Progress, Idle
  <2>3. ASSUME NEW e \in Events, event'[e].published, ~event[e].published
        PROVE  \A c \in Consumers : <<c, e>> \in processed
    <3>1. CASE Publish(r)
      <4>1. e = job[r].event
        BY <2>3, <3>1 DEF Publish, TypeOK
      <4>2. Progress(job[r], processed, push, texts, withdrawn)
        BY DEF ReachInv
      <4>3. QED
        BY <3>1, <4>1, <4>2 DEF Publish, Progress
    <3>2. CASE Fail(r)
      BY <2>3, <3>2 DEF Fail, TypeOK, EventRow
    <3>3. QED
      BY <1>11, <3>1, <3>2
  <2>4. QED
    BY <2>1, <2>2, <2>3, ReachStep
<1>12. ASSUME NEW r \in Relays, Throw(r) \/ Crash(r)
       PROVE  ReachInv'
  <2>1. job' = [job EXCEPT ![r] = Idle] \/ job' = [job EXCEPT ![r] = Failing(job[r])]
    BY <1>12 DEF Throw, Crash, Goto
  <2>2. UNCHANGED <<event, processed>>
    BY <1>12 DEF Throw, Crash
  <2>3. /\ Progress(Idle, processed', push', texts', withdrawn')
        /\ Progress(Failing(job[r]), processed', push', texts', withdrawn')
    BY DEF Progress, Idle, Failing, Between
  <2>4. QED
    BY <2>1, <2>2, <2>3, ReachStep
<1>13. CASE UNCHANGED vars
  BY <1>1, <1>13 DEF vars, ledgers
<1>14. QED
  BY <1>2, <1>3, <1>4, <1>5, <1>6, <1>7, <1>8, <1>9, <1>10, <1>11, <1>12, <1>13
     DEF Next, Dispatch

\* An event is acknowledged only once it has reached everybody, however many
\* relays worked on it and whatever failed on the way.
THEOREM PublishedReached == Spec => []PublishedReachesEveryone
<1>1. Init => TypeInv /\ ReachInv
  <2>1. Init => ReachInv
    BY DEF Init, ReachInv, Marked, Progress, AbsentEvent, Idle
  <2>2. QED
    BY <2>1, TypeInitial
<1>2. TypeInv /\ ReachInv /\ [Next]_vars => (TypeInv /\ ReachInv)'
  BY TypeInductive, ReachInductive
<1>3. TypeInv /\ ReachInv => PublishedReachesEveryone
  BY DEF ReachInv, Marked, PublishedReachesEveryone, Consumers
<1>4. QED
  BY <1>1, <1>2, <1>3, PTL DEF Spec

------------------------------------------------------------------------------
(* A notification has one sender: the attempt whose insert the dedupe key let
   through.  Until it has recorded the outcome, the delivery is PENDING. *)

Sending(r, e, u) ==
  job[r].at \in {"push", "SENT", "FAILED"} /\ job[r].event = e /\ job[r].user = u

OneSender(e, u) ==
  /\ push[e][u] = "none" => sends[e][u] = 0
  /\ \A r \in Relays : Sending(r, e, u) =>
       /\ push[e][u] = "PENDING"
       /\ job[r].at = "push" => sends[e][u] = 0
       /\ job[r].at = "SENT" => sends[e][u] = 1
       /\ \A q \in Relays : Sending(q, e, u) => q = r

PushInv == PushedOnce /\ \A e \in Events, u \in Users : OneSender(e, u)

\* A step that sends and records nothing leaves a sender where it was.
LEMMA PushFrame ==
  ASSUME PushInv, UNCHANGED <<push, sends>>,
         \A r \in Relays : \/ job'[r] = job[r]
                           \/ job'[r].at \notin {"push", "SENT", "FAILED"}
  PROVE  PushInv'
<1>1. PushedOnce'
  BY DEF PushInv, PushedOnce
<1>2. ASSUME NEW e \in Events, NEW u \in Users
      PROVE  OneSender(e, u)'
  BY DEF PushInv, OneSender, Sending
<1>3. QED
  BY <1>1, <1>2 DEF PushInv

\* What one cell of the tables says after a step of relay r on notification
\* (e, u); the other notifications keep their sender.
LEMMA PushCell ==
  ASSUME PushInv, NEW r \in Relays, NEW e \in Events, NEW u \in Users,
         \A q \in Relays \ {r} : job'[q] = job[q],
         \A f \in Events, v \in Users :
           f # e \/ v # u => /\ push'[f][v] = push[f][v]
                             /\ sends'[f][v] = sends[f][v]
                             /\ ~Sending(r, f, v)',
         sends'[e][u] <= 1,
         push'[e][u] = "SENT" => sends'[e][u] = 1,
         push'[e][u] = "SKIPPED" => sends'[e][u] = 0,
         OneSender(e, u)'
  PROVE  PushInv'
<1>1. PushedOnce'
  BY DEF PushInv, PushedOnce
<1>2. ASSUME NEW f \in Events, NEW v \in Users, f # e \/ v # u
      PROVE  OneSender(f, v)'
  <2>1. \A q \in Relays : Sending(q, f, v)' => q # r /\ Sending(q, f, v)
    BY <1>2 DEF Sending
  <2>2. \A q \in Relays : Sending(q, f, v)' => job'[q] = job[q]
    BY <2>1
  <2>3. QED
    BY <1>2, <2>1, <2>2 DEF PushInv, OneSender
<1>3. QED
  BY <1>1, <1>2 DEF PushInv

LEMMA PushInductive ==
  ASSUME TypeInv, PushInv, [Next]_vars
  PROVE  PushInv'
<1> USE DEF TypeInv
<1>1. ASSUME NEW r \in Relays, Notify(r)
      PROVE  PushInv'
  <2>1. /\ job[r] \in Attempt /\ job[r].at = "notify"
        /\ job[r].event \in Events /\ job[r].todo \subseteq Users
    BY <1>1, JobShape DEF Notify
  <2>e. PICK e \in Events : e = job[r].event
    BY <2>1
  <2>2. PICK u \in job[r].todo :
          \/ UNCHANGED push /\ Goto(r, AfterUser(job[r], u))
          \/ /\ push[e][u] = "none"
             /\ push' = [push EXCEPT ![e][u] = "SKIPPED"]
             /\ Goto(r, AfterUser(job[r], u))
          \/ /\ push[e][u] = "none"
             /\ push' = [push EXCEPT ![e][u] = "PENDING"]
             /\ Goto(r, [job[r] EXCEPT !.at = "push", !.user = u])
    BY <1>1, <2>e DEF Notify, Notified
  <2>3. u \in Users /\ sends' = sends
    BY <2>e, <1>1, <2>1 DEF Notify
  <2>4. AfterUser(job[r], u).at \notin {"push", "SENT", "FAILED"}
    BY <2>e, <2>1, <2>3, AfterUserShape
  <2>5. CASE UNCHANGED push /\ Goto(r, AfterUser(job[r], u))
    BY <2>e, <2>3, <2>4, <2>5, PushFrame DEF Goto, TypeOK
  <2>6. CASE /\ push[e][u] = "none"
             /\ \/ /\ push' = [push EXCEPT ![e][u] = "SKIPPED"]
                   /\ Goto(r, AfterUser(job[r], u))
                \/ /\ push' = [push EXCEPT ![e][u] = "PENDING"]
                   /\ Goto(r, [job[r] EXCEPT !.at = "push", !.user = u])
    <3>1. sends[e][u] = 0 /\ \A q \in Relays : ~Sending(q, e, u)
      BY <2>e, <2>1, <2>3, <2>6 DEF PushInv, OneSender
    <3>2. \A q \in Relays \ {r} : job'[q] = job[q]
      BY <2>e, <2>2 DEF Goto, TypeOK
    <3>3. push'[e][u] \in {"SKIPPED", "PENDING"}
      BY <2>e, <2>1, <2>2, <2>3, <2>6 DEF TypeOK
    <3> DEFINE to == [job[r] EXCEPT !.at = "push", !.user = u]
    <3>a. \/ job'[r] = AfterUser(job[r], u)
          \/ job'[r] = to /\ push' = [push EXCEPT ![e][u] = "PENDING"]
      BY <2>6 DEF Goto, TypeOK
    <3>b. to.at = "push" /\ to.event = e /\ to.user = u
      BY <2>e, <2>1 DEF Attempt
    <3>c. \/ job'[r].at \notin {"push", "SENT", "FAILED"}
          \/ /\ job'[r].at = "push" /\ job'[r].event = e /\ job'[r].user = u
             /\ push'[e][u] = "PENDING"
      <4>1. CASE job'[r] = AfterUser(job[r], u)
        BY <2>4, <4>1
      <4>2. CASE job'[r] = to /\ push' = [push EXCEPT ![e][u] = "PENDING"]
        <5>1. push'[e][u] = "PENDING"
          BY <2>3, <4>2 DEF TypeOK
        <5>2. QED
          BY <3>b, <4>2, <5>1
      <4>3. QED
        BY <3>a, <4>1, <4>2
    <3>4. Sending(r, e, u)' => push'[e][u] = "PENDING" /\ job'[r].at = "push"
      BY <3>c DEF Sending
    <3>5. OneSender(e, u)'
      BY <2>e, <2>3, <3>1, <3>2, <3>3, <3>4 DEF OneSender, Sending
    <3>6. ASSUME NEW f \in Events, NEW v \in Users, f # e \/ v # u
          PROVE  /\ push'[f][v] = push[f][v]
                 /\ ~Sending(r, f, v)'
      <4>1. push'[f][v] = push[f][v]
        BY <2>e, <2>2, <3>6 DEF TypeOK
      <4>2. QED
        BY <3>c, <3>6, <4>1 DEF Sending
    <3>7. QED
      BY <2>e, <2>1, <2>3, <3>1, <3>2, <3>3, <3>5, <3>6, PushCell
  <2>7. QED
    BY <2>e, <2>2, <2>5, <2>6
<1>2. ASSUME NEW r \in Relays, SendPush(r)
      PROVE  PushInv'
  <2>1. /\ job[r] \in Attempt /\ job[r].at = "push"
        /\ job[r].event \in Events /\ job[r].user \in Users
    BY <1>2, JobShape DEF SendPush, AtWork
  <2>e. PICK e \in Events, u \in Users : e = job[r].event /\ u = job[r].user
    BY <2>1
  <2>2. PICK outcome \in {"SENT", "FAILED"}, delivered \in {0, 1} :
          /\ outcome = "SENT" => delivered = 1
          /\ sends' = [sends EXCEPT ![e][u] = @ + delivered]
          /\ Goto(r, [job[r] EXCEPT !.at = outcome])
    BY <2>e, <1>2 DEF SendPush
  <2>3. push' = push
    BY <2>e, <1>2 DEF SendPush
  <2>4. Sending(r, e, u)
    BY <2>e, <2>1 DEF Sending
  <2>5. /\ push[e][u] = "PENDING" /\ sends[e][u] = 0
        /\ \A q \in Relays : Sending(q, e, u) => q = r
    BY <2>e, <2>1, <2>4 DEF PushInv, OneSender
  <2>6. sends'[e][u] = delivered
    BY <2>e, <2>1, <2>2, <2>5 DEF TypeOK
  <2>7. /\ \A q \in Relays \ {r} : job'[q] = job[q]
        /\ job'[r].at = outcome /\ job'[r].event = e /\ job'[r].user = u
    BY <2>e, <2>1, <2>2 DEF Goto, TypeOK, Attempt
  <2>8. OneSender(e, u)'
    BY <2>e, <2>2, <2>3, <2>5, <2>6, <2>7 DEF OneSender, Sending
  <2>9. ASSUME NEW f \in Events, NEW v \in Users, f # e \/ v # u
        PROVE  sends'[f][v] = sends[f][v] /\ ~Sending(r, f, v)'
    BY <2>e, <2>2, <2>7, <2>9 DEF TypeOK, Sending
  <2>10. QED
    BY <2>e, <2>1, <2>3, <2>5, <2>6, <2>7, <2>8, <2>9, PushCell
<1>3. ASSUME NEW r \in Relays, RecordPush(r)
      PROVE  PushInv'
  <2>1. /\ job[r] \in Attempt /\ job[r].at \in {"SENT", "FAILED"}
        /\ job[r].event \in Events /\ job[r].user \in Users
    BY <1>3, JobShape DEF RecordPush, AtWork
  <2>e. PICK e \in Events, u \in Users : e = job[r].event /\ u = job[r].user
    BY <2>1
  <2>2. /\ push' = [push EXCEPT ![e][u] = job[r].at]
        /\ job' = [job EXCEPT ![r] = AfterUser(job[r], u)]
        /\ sends' = sends
    BY <2>e, <1>3 DEF RecordPush, Goto
  <2>3. Sending(r, e, u)
    BY <2>e, <2>1 DEF Sending
  <2>4. /\ job[r].at = "SENT" => sends[e][u] = 1
        /\ sends[e][u] <= 1
        /\ \A q \in Relays : Sending(q, e, u) => q = r
    BY <2>e, <2>1, <2>3 DEF PushInv, OneSender, PushedOnce
  <2>5. /\ \A q \in Relays \ {r} : job'[q] = job[q]
        /\ job'[r].at \notin {"push", "SENT", "FAILED"}
    BY <2>e, <2>1, <2>2, AfterUserShape DEF TypeOK
  <2>6. push'[e][u] = job[r].at
    BY <2>e, <2>1, <2>2 DEF TypeOK
  <2>7. OneSender(e, u)'
    BY <2>e, <2>1, <2>4, <2>5, <2>6 DEF OneSender, Sending
  <2>8. ASSUME NEW f \in Events, NEW v \in Users, f # e \/ v # u
        PROVE  push'[f][v] = push[f][v] /\ ~Sending(r, f, v)'
    BY <2>e, <2>2, <2>5, <2>8 DEF TypeOK, Sending
  <2>9. QED
    BY <2>e, <2>1, <2>2, <2>4, <2>5, <2>6, <2>7, <2>8, PushCell
<1>4. CASE /\ UNCHANGED <<push, sends>>
           /\ \A r \in Relays : \/ job'[r] = job[r]
                                \/ job'[r].at \notin {"push", "SENT", "FAILED"}
  BY <1>4, PushFrame
<1>5. ASSUME NEW r \in Relays,
             \/ Claim(r) \/ SkipProcessed(r) \/ BeginHandle(r) \/ SendText(r)
             \/ MarkProcessed(r) \/ Publish(r) \/ Throw(r) \/ Fail(r) \/ Crash(r)
      PROVE  PushInv'
  <2>1. UNCHANGED <<push, sends>>
    BY <1>5 DEF Claim, SkipProcessed, BeginHandle, SendText, MarkProcessed, Publish,
         Throw, Fail, Crash, ledgers
  <2>2. \A q \in Relays \ {r} : job'[q] = job[q]
    BY <1>5 DEF Claim, SkipProcessed, BeginHandle, SendText, MarkProcessed, Publish,
         Throw, Fail, Crash, Goto, TypeOK
  <2>3. job'[r].at \notin {"push", "SENT", "FAILED"}
    <3>1. CASE Claim(r) \/ MarkProcessed(r)
      <4>1. CASE Claim(r)
        <5>1. PICK e \in Events :
                job' = [job EXCEPT ![r] = Between(e, event[e].attempts + 1, Consumers)]
          BY <4>1 DEF Claim, Goto
        <5>2. QED
          BY <5>1 DEF Between, TypeOK
      <4>2. CASE MarkProcessed(r)
        BY <4>2 DEF MarkProcessed, Goto, Between, TypeOK
      <4>3. QED
        BY <3>1, <4>1, <4>2
    <3>2. CASE SkipProcessed(r)
      <4>1. job[r] \in Attempt /\ job[r].at = "next"
        BY <3>2, JobShape DEF SkipProcessed
      <4>2. QED
        BY <3>2, <4>1 DEF SkipProcessed, Goto, TypeOK, Attempt
    <3>3. CASE BeginHandle(r)
      <4>1. job[r] \in Attempt
        BY <3>3, JobShape DEF BeginHandle
      <4>2. PICK c \in job[r].left : job'[r].at =
              IF job[r].event \in withdrawn THEN "mark" ELSE Work[c]
        BY <3>3, <4>1 DEF BeginHandle, Goto, TypeOK, Attempt
      <4>3. c \in Consumers
        BY <4>1 DEF Attempt
      <4>4. QED
        BY <4>2, <4>3 DEF Work, Consumers
    <3>4. CASE SendText(r)
      <4>1. job[r] \in Attempt
        BY <3>4, JobShape DEF SendText
      <4>2. QED
        BY <3>4, <4>1 DEF SendText, Goto, Failing, Between, TypeOK, Attempt
    <3>5. CASE Publish(r) \/ Fail(r)
      BY <3>5 DEF Publish, Fail, Goto, Idle, TypeOK
    <3>6. CASE Throw(r) \/ Crash(r)
      BY <3>6 DEF Throw, Crash, Goto, Idle, Failing, Between, TypeOK
    <3>7. QED
      BY <1>5, <3>1, <3>2, <3>3, <3>4, <3>5, <3>6
  <2>4. QED
    BY <2>1, <2>2, <2>3, <1>4
<1>6. ASSUME NEW e \in Events, Emit(e) \/ Withdraw(e) \/ ComeDue(e)
      PROVE  PushInv'
  BY <1>4, <1>6 DEF Emit, Withdraw, ComeDue, ledgers
<1>7. CASE UNCHANGED vars
  BY <1>4, <1>7 DEF vars, ledgers
<1>8. QED
  BY <1>1, <1>2, <1>3, <1>5, <1>6, <1>7 DEF Next, Dispatch

\* A push leaves at most once for a notification, and its recorded state is true,
\* for any number of relays, replays, crashes and expired leases.
THEOREM PushOnce == Spec => []PushedOnce
<1>1. Init => TypeInv /\ PushInv
  <2>1. Init => PushInv
    BY DEF Init, PushInv, PushedOnce, OneSender, Sending, Idle
  <2>2. QED
    BY <2>1, TypeInitial
<1>2. TypeInv /\ PushInv /\ [Next]_vars => (TypeInv /\ PushInv)'
  BY TypeInductive, PushInductive
<1>3. PushInv => PushedOnce
  BY DEF PushInv
<1>4. QED
  BY <1>1, <1>2, <1>3, PTL DEF Spec

------------------------------------------------------------------------------
(* Relays at work, counted. *)

\* The relays which, by such a table of their jobs, are at some steps of an event.
Counted(j, e, steps) == j.at \in steps /\ j.event = e

Those(jobs, e, steps) == {r \in Relays : Counted(jobs[r], e, steps)}

Count(jobs, e, steps) == Cardinality(Those(jobs, e, steps))

LEMMA CountType ==
  ASSUME NEW jobs, NEW e, NEW steps
  PROVE  IsFiniteSet(Those(jobs, e, steps)) /\ Count(jobs, e, steps) \in Nat
<1>1. Those(jobs, e, steps) \subseteq Relays /\ IsFiniteSet(Relays)
  BY RelayAssumption DEF Those
<1>2. IsFiniteSet(Those(jobs, e, steps))
  BY <1>1, FS_Subset
<1>3. QED
  BY <1>2, FS_CardinalityType DEF Count

\* When one relay moves, it alone leaves the count, enters it or neither.
LEMMA CountMoves ==
  ASSUME NEW jobs, NEW next, NEW e, NEW steps, NEW r \in Relays,
         \A s \in Relays : s # r => next[s] = jobs[s]
  PROVE  /\ Counted(jobs[r], e, steps) /\ ~Counted(next[r], e, steps)
              => Count(next, e, steps) = Count(jobs, e, steps) - 1
         /\ ~Counted(jobs[r], e, steps) /\ Counted(next[r], e, steps)
              => Count(next, e, steps) = Count(jobs, e, steps) + 1
         /\ (Counted(jobs[r], e, steps) <=> Counted(next[r], e, steps))
              => Count(next, e, steps) = Count(jobs, e, steps)
<1>1. IsFiniteSet(Those(jobs, e, steps))
  BY CountType
<1>2. ASSUME Counted(jobs[r], e, steps), ~Counted(next[r], e, steps)
      PROVE  Count(next, e, steps) = Count(jobs, e, steps) - 1
  <2>1. r \in Those(jobs, e, steps)
    BY <1>2 DEF Those
  <2>2. Those(next, e, steps) = Those(jobs, e, steps) \ {r}
    BY <1>2 DEF Those
  <2>3. QED
    BY <1>1, <2>1, <2>2, FS_RemoveElement DEF Count
<1>3. ASSUME ~Counted(jobs[r], e, steps), Counted(next[r], e, steps)
      PROVE  Count(next, e, steps) = Count(jobs, e, steps) + 1
  <2>1. r \notin Those(jobs, e, steps)
    BY <1>3 DEF Those
  <2>2. Those(next, e, steps) = Those(jobs, e, steps) \cup {r}
    BY <1>3 DEF Those
  <2>3. QED
    BY <1>1, <2>1, <2>2, FS_AddElement DEF Count
<1>4. ASSUME Counted(jobs[r], e, steps) <=> Counted(next[r], e, steps)
      PROVE  Count(next, e, steps) = Count(jobs, e, steps)
  <2>1. Those(next, e, steps) = Those(jobs, e, steps)
    BY <1>4 DEF Those
  <2>2. QED
    BY <2>1 DEF Count
<1>5. QED
  BY <1>2, <1>3, <1>4

AtWorkOn(jobs, e) == Count(jobs, e, Steps)
AtText(jobs, e) == Count(jobs, e, {"text"})
AfterText(jobs, e) == Count(jobs, e, {"texted"})

LEMMA CountTypes ==
  ASSUME NEW jobs, NEW e
  PROVE  /\ AtWorkOn(jobs, e) \in Nat /\ AtText(jobs, e) \in Nat
         /\ AfterText(jobs, e) \in Nat
BY CountType DEF AtWorkOn, AtText, AfterText

\* Nobody is counted twice.
LEMMA CountParts ==
  ASSUME NEW jobs, NEW e
  PROVE  AtText(jobs, e) + AfterText(jobs, e) <= AtWorkOn(jobs, e)
<1> DEFINE before == Those(jobs, e, {"text"})
           after == Those(jobs, e, {"texted"})
<1>1. IsFiniteSet(before) /\ IsFiniteSet(after) /\ IsFiniteSet(Those(jobs, e, Steps))
  BY CountType
<1>2. before \cup after \subseteq Those(jobs, e, Steps)
  BY DEF Those, Counted, Steps
<1>3. Cardinality(before \cup after) = Cardinality(before) + Cardinality(after)
  <2>1. before \cap after = {}
    BY DEF Those, Counted
  <2>2. Cardinality(before \cup after)
          = Cardinality(before) + Cardinality(after) - Cardinality(before \cap after)
    BY <1>1, FS_Union
  <2>3. Cardinality(before \cap after) = 0
    BY <2>1, FS_EmptySet
  <2>4. Cardinality(before) \in Nat /\ Cardinality(after) \in Nat
    BY <1>1, FS_CardinalityType
  <2>5. QED
    BY <2>2, <2>3, <2>4
<1>4. Cardinality(before \cup after) <= Cardinality(Those(jobs, e, Steps))
  BY <1>1, <1>2, FS_Subset
<1>5. QED
  BY <1>3, <1>4 DEF AtText, AfterText, AtWorkOn, Count

\* A relay at work stays on its event until it is through with it.
StaysOn(r, j) ==
  /\ job[r].at # "idle"
  /\ job' = [job EXCEPT ![r] = j]
  /\ j.at = "idle" \/ j.event = job[r].event

LEMMA RelayStays ==
  ASSUME TypeInv, NEW r \in Relays, Dispatch(r) \/ Throw(r) \/ Crash(r)
  PROVE  \E j : StaysOn(r, j)
<1> USE DEF TypeInv
<1>1. job[r] \in Attempt /\ job[r].at # "idle"
  <2>1. job[r] # Idle
    <3>1. Idle.at = "idle"
      BY DEF Idle
    <3>2. CASE Dispatch(r)
      <4>1. job[r].at # "idle"
        BY <3>2 DEF Dispatch, SkipProcessed, BeginHandle, Notify, SendPush, RecordPush,
                    SendText, MarkProcessed, Publish, Fail
      <4>2. QED
        BY <3>1, <4>1
    <3>3. CASE Throw(r) \/ Crash(r)
      BY <3>3 DEF Throw, Crash
    <3>4. QED
      BY <3>2, <3>3
  <2>2. job[r] \in Attempt
    BY <2>1 DEF TypeOK, Job
  <2>3. QED
    BY <2>2 DEF Attempt, Steps
<1>2. CASE SkipProcessed(r)
  <2>1. PICK c \in job[r].left : Goto(r, [job[r] EXCEPT !.left = @ \ {c}])
    BY <1>2 DEF SkipProcessed
  <2>2. [job[r] EXCEPT !.left = @ \ {c}].event = job[r].event
    BY <1>1 DEF Attempt
  <2>3. QED
    BY <1>1, <2>1, <2>2 DEF Goto, StaysOn
<1>3. CASE BeginHandle(r)
  <2> DEFINE to(c) == [job[r] EXCEPT !.at = IF job[r].event \in withdrawn THEN "mark"
                                            ELSE Work[c],
                                     !.consumer = c,
                                     !.todo = Recipients(c, job[r].event)]
  <2>1. PICK c \in job[r].left : Goto(r, to(c))
    BY <1>3 DEF BeginHandle
  <2>2. to(c).event = job[r].event
    BY <1>1 DEF Attempt
  <2>3. QED
    BY <1>1, <2>1, <2>2 DEF Goto, StaysOn
<1>4. CASE Notify(r)
  <2>1. PICK u \in job[r].todo : \/ Goto(r, AfterUser(job[r], u))
                                 \/ Goto(r, [job[r] EXCEPT !.at = "push", !.user = u])
    BY <1>4 DEF Notify
  <2>2. /\ AfterUser(job[r], u).event = job[r].event
        /\ [job[r] EXCEPT !.at = "push", !.user = u].event = job[r].event
    BY <1>1 DEF Attempt, AfterUser
  <2>3. QED
    BY <1>1, <2>1, <2>2 DEF Goto, StaysOn
<1>5. CASE SendPush(r)
  <2>1. PICK outcome \in {"SENT", "FAILED"} : Goto(r, [job[r] EXCEPT !.at = outcome])
    BY <1>5 DEF SendPush
  <2>2. [job[r] EXCEPT !.at = outcome].event = job[r].event
    BY <1>1 DEF Attempt
  <2>3. QED
    BY <1>1, <2>1, <2>2 DEF Goto, StaysOn
<1>6. CASE RecordPush(r)
  <2>1. AfterUser(job[r], job[r].user).event = job[r].event
    BY <1>1 DEF Attempt, AfterUser
  <2>2. QED
    BY <1>1, <1>6, <2>1 DEF RecordPush, Goto, StaysOn
<1>7. Failing(job[r]).event = job[r].event
  BY DEF Failing, Between
<1>8. CASE SendText(r)
  <2>1. [job[r] EXCEPT !.at = "texted"].event = job[r].event
    BY <1>1 DEF Attempt
  <2>2. QED
    BY <1>1, <1>7, <1>8, <2>1 DEF SendText, Goto, StaysOn
<1>9. CASE MarkProcessed(r)
  <2> DEFINE marked == Between(job[r].event, job[r].attempt, job[r].left \ {job[r].consumer})
  <2>1. Goto(r, marked)
    BY <1>9 DEF MarkProcessed
  <2>2. marked.event = job[r].event
    BY DEF Between
  <2>3. StaysOn(r, marked)
    BY <1>1, <2>1, <2>2 DEF Goto, StaysOn
  <2>4. QED
    BY <2>3
<1>10. CASE Publish(r) \/ Fail(r) \/ Throw(r) \/ Crash(r)
  <2>1. Goto(r, Idle) \/ Goto(r, Failing(job[r]))
    BY <1>10 DEF Publish, Fail, Throw, Crash
  <2>2. Idle.at = "idle"
    BY DEF Idle
  <2>3. StaysOn(r, Idle) \/ StaysOn(r, Failing(job[r]))
    BY <1>1, <1>7, <2>1, <2>2 DEF Goto, StaysOn
  <2>4. QED
    BY <2>3
<1>11. QED
  BY <1>2, <1>3, <1>4, <1>5, <1>6, <1>8, <1>9, <1>10 DEF Dispatch

\* A claim takes an event that is due.  Of the relays on an event, all but one have
\* overrun a lease; all of them have when it is due.
LeaseInv ==
  \A e \in Events :
    /\ AtWorkOn(job, e) <= 1 + overruns
    /\ event[e].due => AtWorkOn(job, e) <= overruns
    /\ ~event[e].emitted => AtWorkOn(job, e) = 0

\* A relay that stays on its event is still counted on it, or no longer.
LEMMA StaysCounted ==
  ASSUME TypeInv, NEW r \in Relays, NEW j, StaysOn(r, j), NEW e
  PROVE  AtWorkOn(job', e) <= AtWorkOn(job, e)
<1>1. job[r].at \in Steps
  BY JobShape DEF TypeInv, StaysOn
<1>2. job'[r] = j /\ \A s \in Relays : s # r => job'[s] = job[s]
  BY DEF TypeInv, TypeOK, StaysOn
<1>3. Counted(job'[r], e, Steps) => Counted(job[r], e, Steps)
  BY <1>1, <1>2 DEF StaysOn, Counted, Steps
<1>4. \/ AtWorkOn(job', e) = AtWorkOn(job, e) - 1
      \/ AtWorkOn(job', e) = AtWorkOn(job, e)
  BY <1>2, <1>3, CountMoves DEF AtWorkOn
<1>5. QED
  BY <1>4, CountTypes

LEMMA LeaseInductive ==
  ASSUME TypeInv, LeaseInv, [Next]_vars
  PROVE  LeaseInv'
<1> USE DEF TypeInv
<1>0. /\ event \in [Events -> EventRow] /\ job \in [Relays -> Job] /\ overruns \in Nat
      /\ \A e \in Events : AtWorkOn(job, e) \in Nat
      /\ \A e \in Events : AtWorkOn(job', e) \in Nat
  BY CountTypes DEF TypeOK
<1> DEFINE Fits(e) == /\ AtWorkOn(job', e) <= 1 + overruns'
                      /\ event'[e].due => AtWorkOn(job', e) <= overruns'
                      /\ ~event'[e].emitted => AtWorkOn(job', e) = 0
<1>1. ASSUME NEW e \in Events, overruns' = overruns, AtWorkOn(job', e) <= AtWorkOn(job, e),
             event'[e].due => event[e].due, event'[e].emitted = event[e].emitted
      PROVE  Fits(e)
  BY <1>0, <1>1 DEF LeaseInv
<1>2. ASSUME NEW e \in Events, Emit(e) \/ Withdraw(e) \/ ComeDue(e)
      PROVE  \A f \in Events : Fits(f)
  <2>1. job' = job /\ (overruns' = overruns \/ overruns' = overruns + 1)
    BY <1>2 DEF Emit, Withdraw, ComeDue, ledgers
  <2>2. \A f \in Events : f # e => event'[f] = event[f]
    BY <1>0, <1>2 DEF Emit, Withdraw, ComeDue
  <2>3. \A f \in Events : f # e => Fits(f)
    BY <1>0, <2>1, <2>2 DEF LeaseInv
  <2>4. CASE Emit(e)
    <3>1. AtWorkOn(job, e) = 0
      BY <2>4 DEF Emit, LeaseInv
    <3>2. event'[e].emitted
      BY <1>0, <2>4 DEF Emit, EventRow
    <3>3. overruns' = overruns
      BY <2>4 DEF Emit, ledgers
    <3>4. QED
      BY <1>0, <2>1, <2>3, <3>1, <3>2, <3>3
  <2>5. CASE Withdraw(e)
    BY <1>0, <1>1, <2>1, <2>3, <2>5 DEF Withdraw
  <2>6. CASE ComeDue(e)
    <3>1. event'[e].emitted
      BY <1>0, <2>6 DEF ComeDue, EventRow
    <3>2. AtWorkOn(job, e) <= overruns'
      <4>1. CASE ~WorkedOn(e) /\ UNCHANGED overruns
        <5>1. Those(job, e, Steps) = {}
          BY <4>1 DEF Those, Counted, WorkedOn, Steps, Idle
        <5>2. QED
          BY <1>0, <4>1, <5>1, FS_EmptySet DEF AtWorkOn, Count
      <4>2. CASE overruns' = overruns + 1
        BY <1>0, <4>2 DEF LeaseInv
      <4>3. QED
        BY <2>6, <4>1, <4>2 DEF ComeDue
    <3>3. QED
      BY <1>0, <2>1, <2>3, <3>1, <3>2
  <2>7. QED
    BY <1>2, <2>4, <2>5, <2>6
<1>3. ASSUME NEW r \in Relays, Claim(r)
      PROVE  \A e \in Events : Fits(e)
  <2>1. PICK e \in Events :
          /\ Claimable(e)
          /\ event' = [event EXCEPT ![e].due = FALSE, ![e].attempts = @ + 1]
          /\ Goto(r, Between(e, event[e].attempts + 1, Consumers))
    BY <1>3 DEF Claim
  <2>2. /\ event'[e].emitted /\ ~event'[e].due
        /\ \A f \in Events : f # e => event'[f] = event[f]
    BY <1>0, <2>1 DEF Claimable, EventRow
  <2>3. /\ job'[r] = Between(e, event[e].attempts + 1, Consumers)
        /\ \A s \in Relays : s # r => job'[s] = job[s]
    BY <1>0, <2>1 DEF Goto
  <2>4. job[r].at = "idle" /\ job'[r].at = "next" /\ job'[r].event = e
    BY <1>3, <2>3 DEF Claim, Idle, Between
  <2>5. \A f \in Events : /\ ~Counted(job[r], f, Steps)
                          /\ Counted(job'[r], f, Steps) <=> f = e
    BY <2>4 DEF Counted, Steps
  <2>6. /\ AtWorkOn(job', e) = AtWorkOn(job, e) + 1
        /\ \A f \in Events : f # e => AtWorkOn(job', f) = AtWorkOn(job, f)
    BY <2>3, <2>5, CountMoves DEF AtWorkOn
  <2>7. AtWorkOn(job, e) <= overruns
    BY <2>1 DEF LeaseInv, Claimable
  <2>8. overruns' = overruns
    BY <1>3 DEF Claim, ledgers
  <2>9. ASSUME NEW f \in Events, f # e
        PROVE  Fits(f)
    BY <1>0, <2>2, <2>6, <2>8, <2>9 DEF LeaseInv
  <2>10. Fits(e)
    BY <1>0, <2>2, <2>6, <2>7, <2>8
  <2>11. QED
    BY <2>9, <2>10
<1>4. ASSUME NEW r \in Relays, Dispatch(r) \/ Throw(r) \/ Crash(r)
      PROVE  \A e \in Events : Fits(e)
  <2>1. PICK j : StaysOn(r, j)
    BY <1>4, RelayStays
  <2>2. \A e \in Events : AtWorkOn(job', e) <= AtWorkOn(job, e)
    BY <2>1, StaysCounted
  <2>3. ASSUME NEW e \in Events
        PROVE  (event'[e].due => event[e].due) /\ event'[e].emitted = event[e].emitted
    <3>1. CASE event' = event
      BY <3>1
    <3>2. CASE Publish(r)
      BY <1>0, <3>2 DEF Publish, EventRow
    <3>3. CASE Fail(r)
      BY <1>0, <3>3 DEF Fail, EventRow
    <3>4. QED
      BY <1>4, <3>1, <3>2, <3>3
         DEF Dispatch, SkipProcessed, BeginHandle, Notify, SendPush, RecordPush, SendText,
             MarkProcessed, Throw, Crash
  <2>4. overruns' = overruns
    BY <1>4 DEF Dispatch, SkipProcessed, BeginHandle, Notify, SendPush, RecordPush,
                SendText, MarkProcessed, Publish, Fail, Throw, Crash, ledgers
  <2>5. QED
    BY <1>1, <2>2, <2>3, <2>4
<1>5. ASSUME UNCHANGED vars
      PROVE  \A e \in Events : Fits(e)
  <2>1. job' = job /\ event' = event /\ overruns' = overruns
    BY <1>5 DEF vars, ledgers
  <2>2. QED
    BY <1>0, <2>1 DEF LeaseInv
<1>6. ASSUME \A e \in Events : Fits(e)
      PROVE  LeaseInv'
  BY <1>6 DEF LeaseInv
<1> HIDE DEF Fits
<1>7. CASE UNCHANGED vars
  BY <1>5, <1>6, <1>7
<1>8. CASE \E e \in Events : Emit(e) \/ Withdraw(e) \/ ComeDue(e)
  BY <1>2, <1>6, <1>8
<1>9. CASE \E r \in Relays : Claim(r) \/ Dispatch(r) \/ Throw(r) \/ Crash(r)
  BY <1>3, <1>4, <1>6, <1>9
<1>10. QED
  BY <1>7, <1>8, <1>9 DEF Next

------------------------------------------------------------------------------
(* Texts.  Until an event is marked, each of its texts is owned up to by a failure
   that hid it or is on its way to the mark.  From then on nobody else takes up
   the text, and those still at it were at work on the event at that moment. *)

TextInv ==
  \A e \in Events :
    /\ <<"sms", e>> \notin processed => texts[e] <= unsure[e] + AfterText(job, e)
    /\ <<"sms", e>> \in processed =>
         texts[e] + AtText(job, e) <= 1 + unsure[e] + overruns

\* What a step of one relay does to the two counts of an event.
LEMMA TextCounts ==
  ASSUME NEW r \in Relays, \A s \in Relays : s # r => job'[s] = job[s], NEW e
  PROVE  /\ job[r].at # "text" /\ job'[r].at # "text" => AtText(job', e) = AtText(job, e)
         /\ job[r].at # "texted" /\ job'[r].at # "texted"
              => AfterText(job', e) = AfterText(job, e)
         /\ job'[r].at # "text" => AtText(job', e) <= AtText(job, e)
         /\ job[r].event = e /\ job[r].at = "text" /\ job'[r].at # "text"
              => AtText(job', e) = AtText(job, e) - 1
         /\ job[r].event = e /\ job[r].at = "texted" /\ job'[r].at # "texted"
              => AfterText(job', e) = AfterText(job, e) - 1
         /\ job'[r].event = e /\ job[r].at # "texted" /\ job'[r].at = "texted"
              => AfterText(job', e) = AfterText(job, e) + 1
         /\ job[r].event # e /\ (job'[r].at \in {"text", "texted"} => job'[r].event # e)
              => /\ AtText(job', e) = AtText(job, e)
                 /\ AfterText(job', e) = AfterText(job, e)
<1>1. ASSUME NEW step \in {"text", "texted"}
      PROVE  /\ Counted(job[r], e, {step}) <=> job[r].at = step /\ job[r].event = e
             /\ Counted(job'[r], e, {step}) <=> job'[r].at = step /\ job'[r].event = e
  BY DEF Counted
<1>2. ASSUME NEW step \in {"text", "texted"}
      PROVE  /\ Counted(job[r], e, {step}) /\ ~Counted(job'[r], e, {step})
                  => Count(job', e, {step}) = Count(job, e, {step}) - 1
             /\ ~Counted(job[r], e, {step}) /\ Counted(job'[r], e, {step})
                  => Count(job', e, {step}) = Count(job, e, {step}) + 1
             /\ (Counted(job[r], e, {step}) <=> Counted(job'[r], e, {step}))
                  => Count(job', e, {step}) = Count(job, e, {step})
  BY CountMoves
<1>3. AtText(job, e) \in Nat
  BY CountTypes
<1>4. QED
  BY <1>1, <1>2, <1>3 DEF AtText, AfterText

LEMMA TextTypes ==
  ASSUME TypeInv
  PROVE  /\ overruns \in Nat
         /\ \A e \in Events : /\ texts[e] \in Nat /\ unsure[e] \in Nat
                              /\ AtText(job, e) \in Nat /\ AfterText(job, e) \in Nat
                              /\ AtText(job', e) \in Nat /\ AfterText(job', e) \in Nat
BY CountTypes DEF TypeInv, TypeOK

\* A step that neither sends, marks nor fails.
LEMMA TextFrame ==
  ASSUME TypeInv, TextInv, UNCHANGED <<texts, unsure, processed, overruns>>,
         NEW r \in Relays, \A s \in Relays : s # r => job'[s] = job[s],
         job[r].at # "texted", job'[r].at # "texted",
         job'[r].at = "text" => <<"sms", job'[r].event>> \notin processed
  PROVE  TextInv'
<1>1. SUFFICES ASSUME NEW e \in Events
               PROVE  /\ <<"sms", e>> \notin processed =>
                           texts[e] <= unsure[e] + AfterText(job', e)
                      /\ <<"sms", e>> \in processed =>
                           texts[e] + AtText(job', e) <= 1 + unsure[e] + overruns
  BY DEF TextInv
<1>2. AfterText(job', e) = AfterText(job, e)
  BY TextCounts
<1>3. ASSUME <<"sms", e>> \in processed
      PROVE  AtText(job', e) <= AtText(job, e)
  <2>1. CASE job'[r].at # "text"
    BY <2>1, TextCounts
  <2>2. CASE job'[r].at = "text"
    <3>1. job'[r].event # e
      BY <1>3, <2>2
    <3>2. ~Counted(job'[r], e, {"text"})
      BY <3>1 DEF Counted
    <3>3. \/ Count(job', e, {"text"}) = Count(job, e, {"text"}) - 1
          \/ Count(job', e, {"text"}) = Count(job, e, {"text"})
      BY <3>2, CountMoves
    <3>4. AtText(job, e) \in Nat
      BY CountTypes
    <3>5. QED
      BY <3>3, <3>4 DEF AtText
  <2>3. QED
    BY <2>1, <2>2
<1>4. QED
  BY <1>2, <1>3, TextTypes DEF TextInv

\* A relay that gives up an attempt, and says so of a text without a mark.
LEMMA TextForgotten ==
  ASSUME TypeInv, TextInv, NEW r \in Relays, job[r] \in Attempt, Forget(job[r]),
         UNCHANGED <<texts, processed, overruns>>,
         \A s \in Relays : s # r => job'[s] = job[s],
         job'[r].at \notin {"text", "texted"}
  PROVE  TextInv'
<1>1. CASE job[r].at # "texted"
  BY <1>1, TextFrame DEF Forget
<1>2. CASE job[r].at = "texted"
  <2>1. PICK e \in Events : e = job[r].event
    BY DEF Attempt
  <2>2. unsure'[e] = unsure[e] + 1 /\ \A f \in Events : f # e => unsure'[f] = unsure[f]
    BY <1>2, <2>1 DEF Forget, TypeInv, TypeOK
  <2>3. AfterText(job', e) = AfterText(job, e) - 1 /\ AtText(job', e) = AtText(job, e)
    BY <1>2, <2>1, TextCounts
  <2>4. ASSUME NEW f \in Events, f # e
        PROVE  AfterText(job', f) = AfterText(job, f) /\ AtText(job', f) = AtText(job, f)
    BY <2>1, <2>4, TextCounts
  <2>5. ASSUME NEW f \in Events
        PROVE  /\ <<"sms", f>> \notin processed =>
                    texts[f] <= unsure'[f] + AfterText(job', f)
               /\ <<"sms", f>> \in processed =>
                    texts[f] + AtText(job', f) <= 1 + unsure'[f] + overruns
    <3>1. CASE f = e
      BY <2>2, <2>3, <3>1, TextTypes DEF TextInv
    <3>2. CASE f # e
      BY <2>2, <2>4, <3>2, TextTypes DEF TextInv
    <3>3. QED
      BY <3>1, <3>2
  <2>6. QED
    BY <2>5 DEF TextInv
<1>3. QED
  BY <1>1, <1>2

LEMMA TextInductive ==
  ASSUME TypeInv, ReachInv, LeaseInv, TextInv, [Next]_vars
  PROVE  TextInv'
<1>0. /\ texts \in [Events -> Nat] /\ unsure \in [Events -> Nat] /\ job \in [Relays -> Job]
  BY DEF TypeInv, TypeOK
<1>1. ASSUME NEW r \in Relays, SkipProcessed(r) \/ Notify(r) \/ SendPush(r) \/ RecordPush(r)
                               \/ Publish(r) \/ Fail(r) \/ Claim(r)
      PROVE  TextInv'
  <2>1. /\ UNCHANGED <<texts, unsure, processed, overruns>> /\ job[r].at # "texted"
        /\ \A s \in Relays : s # r => job'[s] = job[s]
    <3>1. /\ UNCHANGED <<texts, unsure, processed, overruns>> /\ job[r].at # "texted"
          /\ \E j : Goto(r, j)
      <4>1. CASE SkipProcessed(r)
        BY <4>1 DEF SkipProcessed, ledgers
      <4>2. CASE Notify(r)
        BY <4>2 DEF Notify
      <4>3. CASE SendPush(r)
        BY <4>3 DEF SendPush
      <4>4. CASE RecordPush(r)
        BY <4>4 DEF RecordPush
      <4>5. CASE Publish(r) \/ Fail(r)
        BY <4>5 DEF Publish, Fail, ledgers
      <4>6. CASE Claim(r)
        BY <4>6 DEF Claim, ledgers, Idle
      <4>7. QED
        BY <1>1, <4>1, <4>2, <4>3, <4>4, <4>5, <4>6
    <3>2. QED
      BY <1>0, <3>1 DEF Goto
  <2>2. job'[r].at \notin {"text", "texted"}
    <3>1. CASE SkipProcessed(r)
      <4>1. job[r] \in Attempt
        BY <3>1, JobShape DEF TypeInv, SkipProcessed
      <4>2. \E c : job'[r] = [job[r] EXCEPT !.left = @ \ {c}]
        BY <1>0, <3>1 DEF SkipProcessed, Goto
      <4>3. QED
        BY <3>1, <4>1, <4>2 DEF SkipProcessed, Attempt
    <3>2. CASE Notify(r)
      <4>1. job[r] \in Attempt
        BY <3>2, JobShape DEF TypeInv, Notify
      <4>2. \E u \in Users : \/ job'[r] = AfterUser(job[r], u)
                             \/ job'[r] = [job[r] EXCEPT !.at = "push", !.user = u]
        BY <1>0, <3>2, <4>1 DEF Notify, Goto, Attempt
      <4>3. QED
        BY <4>1, <4>2, AfterUserShape DEF Attempt
    <3>3. CASE SendPush(r)
      <4>1. job[r] \in Attempt
        BY <3>3, JobShape DEF TypeInv, SendPush
      <4>2. \E outcome \in {"SENT", "FAILED"} : job'[r] = [job[r] EXCEPT !.at = outcome]
        BY <1>0, <3>3 DEF SendPush, Goto
      <4>3. QED
        BY <4>1, <4>2 DEF Attempt
    <3>4. CASE RecordPush(r)
      <4>1. job[r] \in Attempt
        BY <3>4, JobShape DEF TypeInv, RecordPush
      <4>2. job'[r].at \in {"mark", "notify"}
        BY <1>0, <3>4, <4>1 DEF RecordPush, Goto, AfterUser, Attempt
      <4>3. QED
        BY <4>2
    <3>5. CASE Publish(r) \/ Fail(r)
      BY <1>0, <3>5 DEF Publish, Fail, Goto, Idle
    <3>6. CASE Claim(r)
      BY <1>0, <3>6 DEF Claim, Goto, Between
    <3>7. QED
      BY <1>1, <3>1, <3>2, <3>3, <3>4, <3>5, <3>6
  <2>3. QED
    BY <2>1, <2>2, TextFrame
<1>2. ASSUME NEW r \in Relays, BeginHandle(r)
      PROVE  TextInv'
  <2>1. /\ UNCHANGED <<texts, unsure, processed, overruns>> /\ job[r].at # "texted"
        /\ \A s \in Relays : s # r => job'[s] = job[s]
    BY <1>0, <1>2 DEF BeginHandle, Goto, ledgers
  <2>2. job[r] \in Attempt
    BY <1>2, JobShape DEF TypeInv, BeginHandle
  <2> DEFINE at(c) == IF job[r].event \in withdrawn THEN "mark" ELSE Work[c]
             to(c) == [job[r] EXCEPT !.at = at(c), !.consumer = c,
                                     !.todo = Recipients(c, job[r].event)]
  <2>3. PICK c \in job[r].left : ~AlreadyProcessed(c, job[r]) /\ Goto(r, to(c))
    BY <1>2 DEF BeginHandle
  <2>4. /\ c \in Consumers /\ at(c) \in {"mark", "notify", "text"}
        /\ at(c) = "text" => c = "sms"
    BY <2>2 DEF Attempt, Consumers, Work
  <2>5. job'[r].at = at(c) /\ job'[r].event = job[r].event
    BY <1>0, <2>2, <2>3 DEF Goto, Attempt
  <2>6. job'[r].at = "text" => <<"sms", job'[r].event>> \notin processed
    BY <2>3, <2>4, <2>5 DEF AlreadyProcessed
  <2>7. QED
    BY <2>1, <2>4, <2>5, <2>6, TextFrame
<1>3. ASSUME NEW r \in Relays, SendText(r)
      PROVE  TextInv'
  <2>1. job[r] \in Attempt /\ job[r].at = "text"
    BY <1>3, JobShape DEF TypeInv, SendText
  <2>2. PICK e \in Events : e = job[r].event
    BY <2>1 DEF Attempt
  <2>3. /\ texts'[e] = texts[e] + 1 /\ \A f \in Events : f # e => texts'[f] = texts[f]
        /\ processed' = processed /\ overruns' = overruns
    BY <1>0, <1>3, <2>2 DEF SendText
  <2>4. \A s \in Relays : s # r => job'[s] = job[s]
    BY <1>0, <1>3 DEF SendText, Goto
  <2>5. \/ unsure' = unsure /\ job'[r] = [job[r] EXCEPT !.at = "texted"]
        \/ unsure' = [unsure EXCEPT ![e] = @ + 1] /\ job'[r] = Failing(job[r])
    BY <1>0, <1>3, <2>2 DEF SendText, Goto
  <2>6. job'[r].event = e /\ job'[r].at \in {"texted", "fail"}
    BY <2>1, <2>2, <2>5 DEF Attempt, Failing, Between
  <2>7. /\ \A f \in Events : f # e => unsure'[f] = unsure[f]
        /\ \/ unsure'[e] = unsure[e] /\ job'[r].at = "texted"
           \/ unsure'[e] = unsure[e] + 1 /\ job'[r].at = "fail"
    BY <1>0, <2>1, <2>5, FailingShape DEF Attempt
  <2>8. AtText(job', e) = AtText(job, e) - 1
    BY <2>1, <2>2, <2>4, <2>6, TextCounts
  <2>9. \/ unsure'[e] = unsure[e] /\ AfterText(job', e) = AfterText(job, e) + 1
        \/ unsure'[e] = unsure[e] + 1 /\ AfterText(job', e) = AfterText(job, e)
    BY <2>1, <2>4, <2>6, <2>7, TextCounts
  <2>10. ASSUME NEW f \in Events, f # e
         PROVE  AtText(job', f) = AtText(job, f) /\ AfterText(job', f) = AfterText(job, f)
    BY <2>2, <2>4, <2>6, <2>10, TextCounts
  <2>11. /\ <<"sms", e>> \notin processed => texts'[e] <= unsure'[e] + AfterText(job', e)
         /\ <<"sms", e>> \in processed =>
              texts'[e] + AtText(job', e) <= 1 + unsure'[e] + overruns
    BY <2>3, <2>8, <2>9, TextTypes DEF TextInv
  <2>12. ASSUME NEW f \in Events, f # e
         PROVE  /\ <<"sms", f>> \notin processed =>
                     texts'[f] <= unsure'[f] + AfterText(job', f)
                /\ <<"sms", f>> \in processed =>
                     texts'[f] + AtText(job', f) <= 1 + unsure'[f] + overruns
    BY <2>3, <2>7, <2>10, <2>12 DEF TextInv
  <2>13. QED
    BY <2>3, <2>11, <2>12 DEF TextInv
<1>4. ASSUME NEW r \in Relays, MarkProcessed(r)
      PROVE  TextInv'
  <2>1. job[r] \in Attempt /\ job[r].at \in {"mark", "texted"}
    BY <1>4, JobShape DEF TypeInv, MarkProcessed
  <2>2. PICK e \in Events : e = job[r].event
    BY <2>1 DEF Attempt
  <2>3. job[r].at = "texted" => job[r].consumer = "sms"
    BY DEF ReachInv, Progress
  <2>4. /\ processed' = processed \cup {<<job[r].consumer, e>>}
        /\ UNCHANGED <<texts, unsure, overruns>> /\ job'[r].at = "next"
        /\ \A s \in Relays : s # r => job'[s] = job[s]
    BY <1>0, <1>4, <2>2 DEF MarkProcessed, Goto, Between
  <2>5. AtText(job', e) = AtText(job, e)
    BY <2>1, <2>4, TextCounts
  <2>6. ASSUME NEW f \in Events, f # e
        PROVE  AtText(job', f) = AtText(job, f) /\ AfterText(job', f) = AfterText(job, f)
    BY <2>2, <2>4, <2>6, TextCounts
  <2>7. ASSUME NEW f \in Events, f # e
        PROVE  /\ <<"sms", f>> \notin processed' => texts[f] <= unsure[f] + AfterText(job', f)
               /\ <<"sms", f>> \in processed' =>
                    texts[f] + AtText(job', f) <= 1 + unsure[f] + overruns
    BY <2>4, <2>6, <2>7 DEF TextInv
  <2>8. ASSUME <<"sms", e>> \notin processed'
        PROVE  texts[e] <= unsure[e] + AfterText(job', e)
    <3>1. job[r].consumer # "sms" /\ <<"sms", e>> \notin processed
      BY <2>4, <2>8
    <3>2. AfterText(job', e) = AfterText(job, e)
      BY <2>3, <2>4, <3>1, TextCounts
    <3>3. QED
      BY <3>1, <3>2 DEF TextInv
  <2>9. texts[e] + AtText(job', e) <= 1 + unsure[e] + overruns
    <3>1. CASE <<"sms", e>> \in processed
      BY <2>5, <3>1 DEF TextInv
    <3>2. CASE <<"sms", e>> \notin processed
      <4>1. texts[e] <= unsure[e] + AfterText(job, e)
        BY <3>2 DEF TextInv
      <4>2. AtText(job, e) + AfterText(job, e) <= AtWorkOn(job, e)
        BY CountParts
      <4>3. AtWorkOn(job, e) <= 1 + overruns /\ AtWorkOn(job, e) \in Nat
        BY CountTypes DEF LeaseInv
      <4>4. QED
        BY <2>5, <4>1, <4>2, <4>3, TextTypes
    <3>3. QED
      BY <3>1, <3>2
  <2>10. QED
    BY <2>4, <2>7, <2>8, <2>9 DEF TextInv
<1>5. ASSUME NEW r \in Relays, Throw(r) \/ Crash(r)
      PROVE  TextInv'
  <2>1. job[r] \in Attempt
    BY <1>5 DEF Throw, Crash, TypeInv, TypeOK, Job
  <2>2. /\ UNCHANGED <<texts, processed, overruns>> /\ Forget(job[r])
        /\ job'[r] = Failing(job[r]) \/ job'[r] = Idle
        /\ \A s \in Relays : s # r => job'[s] = job[s]
    BY <1>0, <1>5 DEF Throw, Crash, Goto
  <2>3. Failing(job[r]).at = "fail" /\ Idle.at = "idle"
    BY <2>1, FailingShape DEF Idle
  <2>4. QED
    BY <2>1, <2>2, <2>3, TextForgotten
<1>6. CASE \/ UNCHANGED vars
           \/ \E e \in Events : Emit(e) \/ Withdraw(e) \/ ComeDue(e)
  <2>1. /\ UNCHANGED <<texts, unsure, processed, job>>
        /\ overruns' = overruns \/ overruns' = overruns + 1
    BY <1>6 DEF vars, Emit, Withdraw, ComeDue, ledgers
  <2>2. overruns' \in Nat /\ overruns <= overruns'
    BY <2>1, TextTypes
  <2>3. ASSUME NEW e \in Events
        PROVE  /\ <<"sms", e>> \notin processed => texts[e] <= unsure[e] + AfterText(job, e)
               /\ <<"sms", e>> \in processed =>
                    texts[e] + AtText(job, e) <= 1 + unsure[e] + overruns'
    <3>1. <<"sms", e>> \notin processed => texts[e] <= unsure[e] + AfterText(job, e)
      BY DEF TextInv
    <3>2. <<"sms", e>> \in processed =>
            texts[e] + AtText(job, e) <= 1 + unsure[e] + overruns
      BY DEF TextInv
    <3>3. QED
      BY <2>2, <3>1, <3>2, TextTypes
  <2>4. QED
    BY <2>1, <2>3 DEF TextInv
<1>7. QED
  BY <1>1, <1>2, <1>3, <1>4, <1>5, <1>6 DEF Next, Dispatch

\* Nobody is texted again because something else failed: each text beyond the first
\* answers an attempt that could not say it had sent one, or a lease that ran out.
THEOREM TextedForNobodyElse == Spec => []NoTextForOthersFailures
<1>1. Init => TypeInv /\ ReachInv /\ LeaseInv /\ TextInv
  <2>1. Init => ReachInv
    BY DEF Init, ReachInv, Marked, Progress, AbsentEvent, Idle
  <2>2. ASSUME Init, NEW e \in Events
        PROVE  AtWorkOn(job, e) = 0
    <3>1. Those(job, e, Steps) = {}
      BY <2>2 DEF Init, Those, Counted, Idle, Steps
    <3>2. QED
      BY <3>1, FS_EmptySet DEF AtWorkOn, Count
  <2>3. ASSUME Init
        PROVE  LeaseInv /\ TextInv
    <3>1. \A e \in Events : /\ AtText(job, e) = 0 /\ AfterText(job, e) = 0
                            /\ AtWorkOn(job, e) = 0
      BY <2>2, <2>3, CountTypes, CountParts
    <3>2. \A e \in Events : texts[e] = 0 /\ unsure[e] = 0 /\ overruns = 0
      BY <2>3 DEF Init
    <3>3. QED
      BY <3>1, <3>2 DEF LeaseInv, TextInv
  <2>4. QED
    BY <2>1, <2>3, TypeInitial
<1>2. /\ TypeInv /\ ReachInv /\ LeaseInv /\ TextInv /\ [Next]_vars
      => (TypeInv /\ ReachInv /\ LeaseInv /\ TextInv)'
  BY TypeInductive, ReachInductive, LeaseInductive, TextInductive
<1>3. TypeInv /\ LeaseInv /\ TextInv => NoTextForOthersFailures
  <2>1. SUFFICES ASSUME TypeInv, LeaseInv, TextInv, NEW e \in Events
                 PROVE  texts[e] <= 1 + unsure[e] + overruns
    BY DEF NoTextForOthersFailures
  <2>2. /\ texts[e] \in Nat /\ unsure[e] \in Nat /\ overruns \in Nat
        /\ AtText(job, e) \in Nat /\ AfterText(job, e) \in Nat
        /\ AtWorkOn(job, e) \in Nat
    BY <2>1, CountTypes DEF TypeInv, TypeOK
  <2>3. /\ AtText(job, e) + AfterText(job, e) <= AtWorkOn(job, e)
        /\ AtWorkOn(job, e) <= 1 + overruns
    BY <2>1, CountParts DEF LeaseInv
  <2>4. \/ texts[e] <= unsure[e] + AfterText(job, e)
        \/ texts[e] + AtText(job, e) <= 1 + unsure[e] + overruns
    BY <2>1 DEF TextInv
  <2>5. QED
    BY <2>2, <2>3, <2>4
<1>4. QED
  BY <1>1, <1>2, <1>3, PTL DEF Spec
==============================================================================
