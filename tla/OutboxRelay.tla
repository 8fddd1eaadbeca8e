---------------------------- MODULE OutboxRelay ----------------------------
(***************************************************************************)
(* The transactional outbox: events written with the business change they  *)
(* announce, the relays of the API instances that hand them to the         *)
(* consumers, and what the two consumers do with them: an in-app           *)
(* notification with its push for each recipient, and a text message.      *)
(* Like an invitation, an event is for both consumers and may have lost    *)
(* its object meanwhile; like a stock alert, it has several recipients.    *)
(*                                                                         *)
(* A step of a relay is one statement sent to PostgreSQL, or one call to a *)
(* provider.  A claim is a lease: next_attempt_at is pushed into the       *)
(* future, and when that time has come any relay may take the event,       *)
(* whether or not the previous one is still at work on it.  Time itself is *)
(* left out: due says that next_attempt_at has passed.                     *)
(***************************************************************************)
EXTENDS Integers, FiniteSets

CONSTANTS
  Relays,         \* the OutboxRelayService of each API instance
  Events,         \* rows of ops.outbox_events, in occurred_at order
  Users,          \* the users an event is notified to
  MaxAttempts,    \* MAX_ATTEMPTS
  MaxFaults,      \* bound: attempts that end without a word or outlive their lease
  None

ASSUME RelayAssumption ==
  /\ IsFiniteSet(Relays)
  /\ Events \subseteq Nat
  /\ MaxAttempts \in Nat \ {0}
  /\ MaxFaults \in Nat
  /\ Users # {}
  /\ None \notin Users

\* notifications.v1 and invitation-sms.v1
Consumers == {"inbox", "sms"}

VARIABLES
  event,       \* ops.outbox_events
  processed,   \* ops.processed_events
  withdrawn,   \* the events whose invitation is no longer PENDING
  push,        \* ntf.notifications of an event and user, with the push delivery
  sends,       \* history: the pushes the provider has delivered
  texts,       \* history: the text messages the provider has delivered
  unsure,      \* history: the texts delivered whose attempt never said so
  crashes,     \* history: the attempts that ended without a word
  overruns,    \* history: the leases that ran out under a relay still at work
  job          \* what each relay is in the middle of

ledgers ==
  <<processed, withdrawn, push, sends, texts, unsure, crashes, overruns>>
vars == <<event, ledgers, job>>

------------------------------------------------------------------------------
EventRow == [emitted: BOOLEAN, published: BOOLEAN, failed: BOOLEAN,
             due: BOOLEAN, attempts: Nat]

AbsentEvent == [emitted |-> FALSE, published |-> FALSE, failed |-> FALSE,
                due |-> FALSE, attempts |-> 0]

\* none: there is no notification.  The rest is notification_deliveries.status.
PushStatus == {"none", "SKIPPED", "PENDING", "SENT", "FAILED"}

Idle == [at |-> "idle"]

\* next: between two consumers.  push: the notification was created, its push is
\* to be sent.  SENT, FAILED: the push has that outcome, not yet recorded.
\* mark: the consumer is done.  texted: so it is, and a text has left.
Steps == {"next", "notify", "push", "SENT", "FAILED", "text", "mark", "texted",
          "fail"}

Attempt == [at: Steps, event: Events, attempt: Nat, left: SUBSET Consumers,
            consumer: Consumers \cup {None}, todo: SUBSET Users,
            user: Users \cup {None}]

Job == {Idle} \cup Attempt

Init ==
  /\ event = [e \in Events |-> AbsentEvent]
  /\ processed = {}
  /\ withdrawn = {}
  /\ push = [e \in Events |-> [u \in Users |-> "none"]]
  /\ sends = [e \in Events |-> [u \in Users |-> 0]]
  /\ texts = [e \in Events |-> 0]
  /\ unsure = [e \in Events |-> 0]
  /\ crashes = 0
  /\ overruns = 0
  /\ job = [r \in Relays |-> Idle]

Goto(r, step) == job' = [job EXCEPT ![r] = step]

\* An attempt between two consumers, of which those in left are still to come.
Between(e, attempt, left) ==
  [at |-> "next", event |-> e, attempt |-> attempt, left |-> left,
   consumer |-> None, todo |-> {}, user |-> None]

Failing(j) == [Between(j.event, j.attempt, {}) EXCEPT !.at = "fail"]

------------------------------------------------------------------------------
(* The outbox *)

\* emit, in the transaction that creates the invitation.
Emit(e) ==
  /\ ~event[e].emitted
  /\ event' = [event EXCEPT ![e].emitted = TRUE, ![e].due = TRUE]
  /\ UNCHANGED <<ledgers, job>>

\* The invitation is accepted, declined, revoked or expires.
Withdraw(e) ==
  /\ event[e].emitted
  /\ e \notin withdrawn
  /\ withdrawn' = withdrawn \cup {e}
  /\ UNCHANGED <<event, processed, push, sends, texts, unsure, crashes, overruns,
                 job>>

WorkedOn(e) == \E r \in Relays : job[r] # Idle /\ job[r].event = e

\* next_attempt_at passes: the delay before the next attempt, the lease of one that
\* has ended without a word, or, an overrun, the lease of one still under way.
ComeDue(e) ==
  /\ event[e].emitted
  /\ ~event[e].due
  /\ \/ ~WorkedOn(e) /\ UNCHANGED overruns
     \/ /\ WorkedOn(e)
        /\ crashes + overruns < MaxFaults
        /\ overruns' = overruns + 1
  /\ event' = [event EXCEPT ![e].due = TRUE]
  /\ UNCHANGED <<processed, withdrawn, push, sends, texts, unsure, crashes, job>>

\* Mutant: what has been claimed is not claimed again.
NeverClaimed(e) == event[e].emitted /\ event[e].attempts = 0

Claimable(e) ==
  /\ event[e].emitted
  /\ ~event[e].published
  /\ ~event[e].failed
  /\ event[e].due

\* claim: one UPDATE, of the oldest event that is due.
Claim(r) ==
  /\ job[r] = Idle
  /\ \E e \in Events :
       /\ Claimable(e)
       /\ \A f \in Events : Claimable(f) => e <= f
       /\ event' = [event EXCEPT ![e].due = FALSE, ![e].attempts = @ + 1]
       /\ Goto(r, Between(e, event[e].attempts + 1, Consumers))
  /\ UNCHANGED ledgers

------------------------------------------------------------------------------
(* dispatchOne: the consumers of the event one after the other.  Their order is
   the order in which the modules registered; any order is allowed here. *)

\* Mutant: the marks of the consumers are not looked at.
NeverProcessed(c, j) == FALSE

\* Mutant: a consumer is taken for processed once it has been tried.
TriedBefore(c, j) == j.attempt > 1

AlreadyProcessed(c, j) == <<c, j.event>> \in processed

SkipProcessed(r) ==
  /\ job[r].at = "next"
  /\ \E c \in job[r].left :
       /\ AlreadyProcessed(c, job[r])
       /\ Goto(r, [job[r] EXCEPT !.left = @ \ {c}])
  /\ UNCHANGED <<event, ledgers>>

Work == [inbox |-> "notify", sms |-> "text"]

Recipients(c, e) == IF c = "inbox" /\ e \notin withdrawn THEN Users ELSE {}

\* handle reads the invitation.  The row may change before handle acts on it.
BeginHandle(r) ==
  /\ job[r].at = "next"
  /\ \E c \in job[r].left :
       /\ ~AlreadyProcessed(c, job[r])
       /\ Goto(r, [job[r] EXCEPT
                     !.at = IF job[r].event \in withdrawn THEN "mark"
                            ELSE Work[c],
                     !.consumer = c,
                     !.todo = Recipients(c, job[r].event)])
  /\ UNCHANGED <<event, ledgers>>

\* Mutant: the attempt forgets which consumer it is at.
AfterUserUnnamed(j, u) ==
  [j EXCEPT !.at = IF j.todo \subseteq {u} THEN "mark" ELSE "notify",
            !.todo = @ \ {u}, !.user = None, !.consumer = None]

\* What follows in handle once a recipient is done with.
AfterUser(j, u) ==
  [j EXCEPT !.at = IF j.todo \subseteq {u} THEN "mark" ELSE "notify",
            !.todo = @ \ {u}, !.user = None]

\* Mutant: no unique index on (user_id, dedupe_key).
NeverNotified(e, u) == FALSE

Notified(e, u) == push[e][u] # "none"

\* notify, for one recipient: one transaction inserts the notification and its
\* deliveries, unless the dedupe key is taken.
Notify(r) ==
  LET j == job[r]
  IN /\ j.at = "notify"
     /\ \E u \in j.todo :
          \/ Notified(j.event, u) /\ Goto(r, AfterUser(j, u)) /\ UNCHANGED push
          \/ /\ ~Notified(j.event, u)
             /\ \/ /\ push' = [push EXCEPT ![j.event][u] = "SKIPPED"]
                   /\ Goto(r, AfterUser(j, u))
                \/ /\ push' = [push EXCEPT ![j.event][u] = "PENDING"]
                   /\ Goto(r, [j EXCEPT !.at = "push", !.user = u])
     /\ UNCHANGED <<event, processed, withdrawn, sends, texts, unsure,
                     crashes, overruns>>

\* deliverPush: an exception of the provider does not say what it delivered.
SendPush(r) ==
  LET j == job[r]
  IN /\ j.at = "push"
     /\ \E outcome \in {"SENT", "FAILED"}, delivered \in {0, 1} :
          /\ outcome = "SENT" => delivered = 1
          /\ sends' = [sends EXCEPT ![j.event][j.user] = @ + delivered]
          /\ Goto(r, [j EXCEPT !.at = outcome])
     /\ UNCHANGED <<event, processed, withdrawn, push, texts, unsure,
                     crashes, overruns>>

\* setPushStatus, in a transaction of its own.
RecordPush(r) ==
  LET j == job[r]
  IN /\ j.at \in {"SENT", "FAILED"}
     /\ push' = [push EXCEPT ![j.event][j.user] = j.at]
     /\ Goto(r, AfterUser(j, j.user))
     /\ UNCHANGED <<event, processed, withdrawn, sends, texts, unsure,
                     crashes, overruns>>

\* sendText; the provider may throw after it has delivered the text.
SendText(r) ==
  LET j == job[r]
  IN /\ j.at = "text"
     /\ \/ /\ texts' = [texts EXCEPT ![j.event] = @ + 1]
           /\ Goto(r, [j EXCEPT !.at = "texted"])
           /\ UNCHANGED unsure
        \/ /\ texts' = [texts EXCEPT ![j.event] = @ + 1]
           /\ unsure' = [unsure EXCEPT ![j.event] = @ + 1]
           /\ Goto(r, Failing(j))
     /\ UNCHANGED <<event, processed, withdrawn, push, sends, crashes, overruns>>

\* INSERT INTO ops.processed_events ... ON CONFLICT DO NOTHING
MarkProcessed(r) ==
  LET j == job[r]
  IN /\ j.at \in {"mark", "texted"}
     /\ processed' = processed \cup {<<j.consumer, j.event>>}
     /\ Goto(r, Between(j.event, j.attempt, j.left \ {j.consumer}))
     /\ UNCHANGED <<event, withdrawn, push, sends, texts, unsure,
                     crashes, overruns>>

\* All consumers are through: the event is acknowledged, whatever has become of
\* it since the claim.
Publish(r) ==
  LET j == job[r]
  IN /\ j.at = "next"
     /\ j.left = {}
     /\ event' = [event EXCEPT ![j.event].published = TRUE]
     /\ Goto(r, Idle)
     /\ UNCHANGED ledgers

\* An attempt cut off between the text and its mark leaves no trace of the text.
Forget(j) ==
  unsure' = IF j.at = "texted"
              THEN [unsure EXCEPT ![j.event] = @ + 1] ELSE unsure

\* A statement of the try block throws.
Throw(r) ==
  LET j == job[r]
  IN /\ j # Idle
     /\ j.at \notin {"fail", "push"}
     /\ Forget(j)
     /\ Goto(r, Failing(j))
     /\ UNCHANGED <<event, processed, withdrawn, push, sends, texts, crashes,
                    overruns>>

LastAttempt(attempt) == attempt >= MaxAttempts

\* fail: failed_at is set, or reset to NULL, from the attempt this relay claimed.
Fail(r) ==
  LET j == job[r]
  IN /\ j.at = "fail"
     /\ event' = [event EXCEPT ![j.event].due = FALSE,
                               ![j.event].failed = LastAttempt(j.attempt)]
     /\ Goto(r, Idle)
     /\ UNCHANGED ledgers

\* The instance dies, or the UPDATE of fail throws in its turn: the lease is all
\* that is left of the attempt.
Crash(r) ==
  /\ job[r] # Idle
  /\ crashes + overruns < MaxFaults
  /\ crashes' = crashes + 1
  /\ Forget(job[r])
  /\ Goto(r, Idle)
  /\ UNCHANGED <<event, processed, withdrawn, push, sends, texts, overruns>>

------------------------------------------------------------------------------
Dispatch(r) ==
  \/ SkipProcessed(r)
  \/ BeginHandle(r)
  \/ Notify(r)
  \/ SendPush(r)
  \/ RecordPush(r)
  \/ SendText(r)
  \/ MarkProcessed(r)
  \/ Publish(r)
  \/ Fail(r)

Next ==
  \/ \E e \in Events : Emit(e) \/ Withdraw(e) \/ ComeDue(e)
  \/ \E r \in Relays : Claim(r) \/ Dispatch(r) \/ Throw(r) \/ Crash(r)

Spec == Init /\ [][Next]_vars

\* Calls end, time passes, and some request keeps coming to the instance of each
\* relay: without traffic it may have no CPU and its timer stands still (the
\* comment of OutboxRelayService), and nothing here promises that an event moves.
FairSpec ==
  /\ Spec
  /\ \A r \in Relays : WF_vars(Claim(r)) /\ WF_vars(Dispatch(r))
  /\ \A e \in Events : WF_vars(ComeDue(e))

------------------------------------------------------------------------------
(* Properties *)

\* Rows are rows of the schema, relays are at a step of dispatchOne.
TypeOK ==
  /\ event \in [Events -> EventRow]
  /\ processed \subseteq Consumers \X Events
  /\ withdrawn \subseteq Events
  /\ push \in [Events -> [Users -> PushStatus]]
  /\ sends \in [Events -> [Users -> Nat]]
  /\ texts \in [Events -> Nat]
  /\ unsure \in [Events -> Nat]
  /\ crashes \in Nat
  /\ overruns \in Nat
  /\ job \in [Relays -> Job]

\* An acknowledged event has reached everybody: each consumer has marked it, and
\* while the invitation stands each recipient has his notification and the
\* invited person a text, whatever failed half-way before (dispatchOne).
PublishedReachesEveryone ==
  \A e \in Events :
    event[e].published =>
      /\ \A c \in Consumers : <<c, e>> \in processed
      /\ e \notin withdrawn =>
           texts[e] > 0 /\ \A u \in Users : push[e][u] # "none"

\* However often an event is replayed, by however many relays at once, a user's
\* phone buzzes at most once for it, and a delivery recorded as SENT was sent,
\* as SKIPPED was not (notify and its dedupe key, deliverPush).
PushedOnce ==
  \A e \in Events, u \in Users :
    /\ sends[e][u] <= 1
    /\ push[e][u] = "SENT" => sends[e][u] = 1
    /\ push[e][u] = "SKIPPED" => sends[e][u] = 0

\* A second text leaves only after an attempt that never told of the first, or
\* from a relay that has overrun its lease: a failing inbox does not send it again
\* (the comment of InvitationSmsHandler, alreadyProcessed).
NoTextForOthersFailures ==
  \A e \in Events : texts[e] <= 1 + unsure[e] + overruns

\* An event that failed too often is not replayed (the comments of fail and of
\* 0005_ntf_init.sql).
DeadStaysDead ==
  [][\A e \in Events : event[e].failed => event'[e].failed]_vars

\* As long as requests come to every instance, every event ends up acknowledged or
\* dead and stays so: however its consumers fail and relays crash, and although a
\* relay that has overrun its lease may fail late and bring a dead letter back to
\* life (dispatchOne, claim, fail).
EventSettled ==
  \A e \in Events :
    event[e].emitted ~> [](event[e].published \/ event[e].failed)

=============================================================================
