-------------------------------- MODULE Inbox --------------------------------
(***************************************************************************)
(* Notifications as their users have them: the inbox, one of the Listings, *)
(* what is read, the push that may follow, and the phones it goes to.  A   *)
(* phone's push token belongs to the account that registered it last.      *)
(* The transaction that creates a notification reads its owner's phones;   *)
(* the push leaves after the COMMIT, and its outcome is a second           *)
(* transaction.  A registration frees the phone and then claims it: two    *)
(* statements, with two snapshots, under row level security.               *)
(***************************************************************************)
EXTENDS Listings

CONSTANTS Phones,
          Optional,   \* notifications of a type whose push can be turned off; an
                      \* identifier is also the dedupe key of its notification
          Workers     \* requests and relay instances

ASSUME ScopeAssumption ==
  Scopes \subseteq [users : SUBSET Users, paged : SUBSET Lists, ids : SUBSET Ids,
                    phones : SUBSET Phones]

VARIABLES
  read,      \* notifications with a read_at
  push,      \* ntf.notification_deliveries, channel PUSH
  muted,     \* users whose preference turns the optional pushes off
  device,    \* ntf.device_tokens
  job,       \* what each worker is in the middle of
  told,      \* the account whose registration each phone last had confirmed
  underWay,  \* notifications being sent when the phone changed hands
  stray      \* pushes that reached a phone after its account had left it

inbox == <<read, push, muted>>
phones == <<device, told, underWay>>
vars == <<listing, inbox, phones, job, stray>>

Device == [user : Users, phone : Phones, active : BOOLEAN]
Idle == [pc |-> "idle"]
Job == {Idle}
  \cup [pc : {"commit"}, user : Users, id : Ids, at : Times, phones : SUBSET Phones]
  \cup [pc : {"send"}, user : Users, id : Ids, phones : SUBSET Phones]
  \cup [pc : {"record"}, user : Users, id : Ids, invalid : SUBSET Phones,
        outcome : {"SENT", "FAILED"}]
  \cup [pc : {"wait"}, user : Users, phone : Phones]
  \cup [pc : {"claim"}, user : Users, phone : Phones, freed : SUBSET Device]

TypeOK ==
  /\ ListingTypeOK
  /\ read \subseteq Users \X Ids
  /\ push \in [Users \X Ids -> {"none", "PENDING", "SKIPPED", "SENT", "FAILED"}]
  /\ muted \subseteq Users
  /\ device \subseteq Device
  /\ job \in [Workers -> Job]
  /\ told \in [Phones -> Users \cup {None}]
  /\ underWay \in [Phones -> SUBSET (Users \X Ids)]
  /\ stray \subseteq Users \X Ids \X Phones

Init ==
  /\ ListingInit
  /\ read = {} /\ muted = {} /\ device = {} /\ stray = {}
  /\ push = [n \in Users \X Ids |-> "none"]
  /\ job = [w \in Workers |-> Idle]
  /\ told = [p \in Phones |-> None]
  /\ underWay = [p \in Phones |-> {}]

Goto(w, to) == job' = [job EXCEPT ![w] = to]

-----------------------------------------------------------------------------
(* Notifications                                                           *)

ActivePhones(u) == {d.phone : d \in {d \in device : d.user = u /\ d.active}}
PushAllowed(u, i) == i \in Optional => u \notin muted

\* notify: the transaction begins, now() is fixed, the phones are read.
BeginNotify(w, u, i) ==
  /\ job[w] = Idle /\ i \notin Present(u)
  /\ Goto(w, [pc |-> "commit", user |-> u, id |-> i, at |-> clock,
              phones |-> IF PushAllowed(u, i) THEN ActivePhones(u) ELSE {}])
  /\ UNCHANGED <<listing, inbox, phones, stray>>

\* The dedupe key lets one of two notifications for the same event through.
CommitNotify(w) ==
  LET j == job[w] IN
  /\ j.pc = "commit"
  /\ \/ /\ Appear(j.user, j.id, j.at)
        /\ push' = [push EXCEPT ![<<j.user, j.id>>] = IF j.phones = {} THEN "SKIPPED" ELSE "PENDING"]
        /\ Goto(w, IF j.phones = {} THEN Idle
                   ELSE [pc |-> "send", user |-> j.user, id |-> j.id, phones |-> j.phones])
     \/ j.id \in Present(j.user) /\ Goto(w, Idle) /\ UNCHANGED <<listing, push>>
  /\ UNCHANGED <<read, muted, phones, stray>>

\* deliverPush, outside any transaction.  The provider names the tokens that are no
\* longer valid, or fails, having reached any of them.
Send(w) ==
  LET j == job[w] IN
  /\ j.pc = "send"
  /\ \E reached \in SUBSET j.phones :
       /\ stray' = stray \cup {<<j.user, j.id, p>> : p \in {p \in reached : told[p] # j.user}}
       /\ \/ Goto(w, [pc |-> "record", user |-> j.user, id |-> j.id,
                      invalid |-> j.phones \ reached, outcome |-> "SENT"])
          \/ Goto(w, [pc |-> "record", user |-> j.user, id |-> j.id,
                      invalid |-> {}, outcome |-> "FAILED"])
  /\ UNCHANGED <<listing, inbox, phones>>

\* The row of a phone is locked by a registration that has deleted it.
Freeing(p) == \E w \in Workers : job[w].pc = "claim" /\ \E d \in job[w].freed : d.phone = p

Record(w) ==
  LET j == job[w]
      hit == {d \in device : d.user = j.user /\ d.phone \in j.invalid} IN
  /\ j.pc = "record"
  /\ \A d \in hit : ~Freeing(d.phone)
  /\ device' = (device \ hit) \cup {[d EXCEPT !.active = FALSE] : d \in hit}
  /\ push' = [push EXCEPT ![<<j.user, j.id>>] = j.outcome]
  /\ Goto(w, Idle)
  /\ UNCHANGED <<listing, read, muted, told, underWay, stray>>

List(u) == u \in scope.paged /\ OpenContinued(u) /\ UNCHANGED <<inbox, phones, job, stray>>

MarkRead(u, i) ==
  /\ i \in Present(u)
  /\ read' = read \cup {<<u, i>>}
  /\ UNCHANGED <<listing, push, muted, phones, job, stray>>

MarkAllRead(u) ==
  /\ read' = read \cup ({u} \X Present(u))
  /\ UNCHANGED <<listing, push, muted, phones, job, stray>>

\* Only optional types are accepted.
SetPreferences(u, on) ==
  /\ scope.ids \cap Optional # {}
  /\ muted' = IF on THEN muted \ {u} ELSE muted \cup {u}
  /\ UNCHANGED <<listing, read, push, phones, job, stray>>

-----------------------------------------------------------------------------
(* Phones                                                                  *)

Sending(u) == {<<u, job[w].id>> : w \in {w \in Workers :
                 job[w].pc \in {"commit", "send"} /\ job[w].user = u}}

\* The phone is now u's, or nobody's: what is being sent to others may still come.
Hand(p, u) ==
  /\ told' = [told EXCEPT ![p] = u]
  /\ underWay' = [underWay EXCEPT ![p] = @ \cup UNION {Sending(v) : v \in Users \ {u}}]

\* registerDevice, DELETE: the row of another account, if it is not being deleted already.
Free(w, u, p) ==
  /\ job[w] = Idle
  /\ Goto(w, IF Freeing(p) THEN [pc |-> "wait", user |-> u, phone |-> p]
             ELSE [pc |-> "claim", user |-> u, phone |-> p,
                   freed |-> {d \in device : d.phone = p /\ d.user # u}])
  /\ UNCHANGED <<listing, inbox, phones, stray>>

\* The row it waited for is gone, and the one that took its place is not in its snapshot.
Freed(w) ==
  LET j == job[w] IN
  /\ j.pc = "wait" /\ ~Freeing(j.phone)
  /\ Goto(w, [pc |-> "claim", user |-> j.user, phone |-> j.phone, freed |-> {}])
  /\ UNCHANGED <<listing, inbox, phones, stray>>

\* Mutant: ON CONFLICT DO NOTHING.
MayRefreshAny(d, u) == TRUE
\* The policy user_isolation lets an account update its own rows.
MayRefresh(d, u) == d.user = u
\* UNIQUE (token): the INSERT meets the row of the phone.
Conflicting(j) == {d \in device \ j.freed : d.phone = j.phone}

\* registerDevice, INSERT ... ON CONFLICT DO UPDATE, COMMIT.  It waits for a row being
\* deleted by another.  An update that the policy refuses is an error: ROLLBACK, 500.
Claim(w) ==
  LET j == job[w]
      met == Conflicting(j) IN
  /\ j.pc = "claim"
  /\ j.freed # {} \/ ~Freeing(j.phone)
  /\ \/ /\ met = {}
        /\ device' = (device \ j.freed)
                       \cup {[user |-> j.user, phone |-> j.phone, active |-> TRUE]}
        /\ Hand(j.phone, j.user)
     \/ /\ met # {} /\ \A d \in met : MayRefresh(d, j.user)
        /\ device' = (device \ met) \cup {[d EXCEPT !.active = TRUE] : d \in met}
        /\ Hand(j.phone, j.user)
     \/ \E d \in met : ~MayRefresh(d, j.user) /\ UNCHANGED phones
  /\ Goto(w, Idle)
  /\ UNCHANGED <<listing, inbox, stray>>

Unregister(u, p) ==
  LET own == {d \in device : d.user = u /\ d.phone = p} IN
  /\ own # {} => ~Freeing(p)
  /\ device' = device \ own
  /\ IF told[p] = u THEN Hand(p, None) ELSE UNCHANGED <<told, underWay>>
  /\ UNCHANGED <<listing, inbox, job, stray>>

-----------------------------------------------------------------------------
Notify(w) == \/ \E u \in scope.users, i \in scope.ids : BeginNotify(w, u, i)
             \/ CommitNotify(w) \/ Send(w) \/ Record(w)
Register(w) == \/ \E u \in scope.users, p \in scope.phones : Free(w, u, p)
               \/ Freed(w) \/ Claim(w)
OwnInbox(u) == \/ List(u) \/ MarkAllRead(u)
               \/ \E i \in scope.ids : MarkRead(u, i)
               \/ \E on \in BOOLEAN : SetPreferences(u, on)
               \/ \E p \in scope.phones : Unregister(u, p)

Next ==
  \/ ListingNext /\ UNCHANGED <<inbox, phones, job, stray>>
  \/ \E w \in Workers : Notify(w) \/ Register(w)
  \/ \E u \in scope.users : OwnInbox(u)

Spec == Init /\ [][Next]_vars

-----------------------------------------------------------------------------
\* A phone whose registration was confirmed to an account is in the table under that
\* account, however many registrations, refusals and logouts overlap (registerDevice).
HolderWasTold ==
  \A p \in Phones : told[p] # None => \E d \in device : d.phone = p /\ d.user = told[p]

\* After a phone changed hands, its former account reaches it only with what was being
\* sent at that moment (notify reads the phones, deliverPush sends later).
StrayWasUnderWay == \A s \in stray : <<s[1], s[2]>> \in underWay[s[3]]
=============================================================================
