----------------------------- MODULE InboxProofs -----------------------------
(***************************************************************************)
(* Theorems about Inbox, for any number of accounts, phones, requests and  *)
(* notifications: who holds a phone, what may still reach it, what a       *)
(* reader of a list may miss of it while its entries come and go, types.   *)
(***************************************************************************)
EXTENDS Inbox, FiniteSetTheorems, TLAPS

\* What a worker holds at each of its steps.
Shape(j) ==
  /\ j.pc \in {"commit", "send"} => j.user \in Users /\ j.phones \subseteq Phones
  /\ j.pc \in {"wait", "claim"} => j.user \in Users /\ j.phone \in Phones
  \* The rows a registration deletes are those of its phone under other accounts.
  /\ j.pc = "claim" => \A d \in j.freed : d.phone = j.phone /\ d.user # j.user

Typed ==
  /\ scope \in Scopes
  /\ device \subseteq Device
  /\ told \in [Phones -> Users \cup {None}]
  /\ underWay = [p \in Phones |-> underWay[p]]
  /\ job = [w \in Workers |-> job[w]]
  /\ \A w \in Workers : Shape(job[w])

\* The table tells of each phone what its holder was told.
RowsTold == \A d \in device : told[d.phone] = d.user

\* A push goes to phones of its user, but for those that changed hands since.
PushesNoted ==
  \A w \in Workers : job[w].pc \in {"commit", "send"} =>
    \A p \in job[w].phones :
      told[p] = job[w].user \/ <<job[w].user, job[w].id>> \in underWay[p]

HandsInv == Typed /\ RowsTold /\ HolderWasTold /\ PushesNoted

-----------------------------------------------------------------------------
(* Steps that the phones do not notice                                     *)

LEMMA ScopeShape ==
  ASSUME Typed
  PROVE  scope.users \subseteq Users /\ scope.phones \subseteq Phones
BY ScopeAssumption DEF Typed

LEMMA NoneIsNoUser == None \notin Users
BY NoneAssumption DEF Lists

LEMMA ListingKeepsScope ==
  ASSUME ListingNext
  PROVE  scope' = scope
<1>1. CASE Tick \/ Count \/ NextPage
  BY <1>1 DEF Tick, Count, NextPage
<1>2. CASE SalesFindAll \/ FindMovements \/ ListBusinessWide \/ PaymentsList \/ ProductsFindAll
  BY <1>2 DEF SalesFindAll, FindMovements, ListBusinessWide, PaymentsList, ProductsFindAll,
              OpenNumbered, Dated, Named, Leaves, Edits, Appear, Leave, Edit
<1>3. CASE CustomersFindAll \/ CreateCustomer \/ UpdateCustomer \/ RemoveCustomer
  BY <1>3 DEF CustomersFindAll, CreateCustomer, UpdateCustomer, RemoveCustomer,
              OpenNumbered, Named, Leaves, Edits, Appear, Leave, Edit
<1>4. CASE ExpensesFindAll \/ CreateExpense \/ UpdateExpense \/ RemoveExpense
  BY <1>4 DEF ExpensesFindAll, CreateExpense, UpdateExpense, RemoveExpense,
              OpenNumbered, Named, Leaves, Edits, Appear, Leave, Edit
<1>5. CASE SearchUsers \/ SearchAudit
  BY <1>5 DEF SearchUsers, SearchAudit, OpenContinued, Dated, Appear
<1>6. QED
  BY <1>1, <1>2, <1>3, <1>4, <1>5 DEF ListingNext

\* A worker that goes on with a job of the right shape, the phones left alone.
LEMMA PhonesAlone ==
  ASSUME HandsInv, UNCHANGED phones, scope' = scope,
         NEW w \in Workers, NEW to, Goto(w, to), Shape(to),
         to.pc \in {"commit", "send"} =>
           \A p \in to.phones : told[p] = to.user \/ <<to.user, to.id>> \in underWay[p]
  PROVE  HandsInv'
<1>1. /\ job' = [v \in Workers |-> job'[v]]
      /\ \A v \in Workers : job'[v] = IF v = w THEN to ELSE job[v]
  BY DEF HandsInv, Typed, Goto
<1>2. Typed'
  BY <1>1 DEF HandsInv, Typed, phones, Shape
<1>3. RowsTold' /\ HolderWasTold'
  BY DEF HandsInv, RowsTold, HolderWasTold, phones
<1>4. PushesNoted'
  BY <1>1 DEF HandsInv, PushesNoted, phones
<1>5. QED
  BY <1>2, <1>3, <1>4 DEF HandsInv

LEMMA NotifyKeepsHands ==
  ASSUME HandsInv, NEW w \in Workers, Notify(w)
  PROVE  HandsInv'
<1>1. ASSUME NEW u \in scope.users, NEW i \in scope.ids, BeginNotify(w, u, i)
      PROVE  HandsInv'
  <2>1. u \in Users
    BY ScopeShape DEF HandsInv
  <2> DEFINE to == [pc |-> "commit", user |-> u, id |-> i, at |-> clock,
                    phones |-> IF PushAllowed(u, i) THEN ActivePhones(u) ELSE {}]
  <2>2. ActivePhones(u) \subseteq Phones /\ \A p \in ActivePhones(u) : told[p] = u
    BY DEF ActivePhones, HandsInv, Typed, Device, RowsTold
  <2>3. Shape(to)
    BY <2>1, <2>2 DEF Shape
  <2>4. \A p \in to.phones : told[p] = to.user
    BY <2>2
  <2>5. Goto(w, to) /\ UNCHANGED phones /\ scope' = scope
    BY <1>1 DEF BeginNotify, listing
  <2> HIDE DEF to
  <2>6. QED
    BY <2>3, <2>4, <2>5, PhonesAlone
<1>2. CASE CommitNotify(w)
  <2> DEFINE j == job[w]
  <2> DEFINE push1 == [pc |-> "send", user |-> j.user, id |-> j.id, phones |-> j.phones]
  <2>1. j.pc = "commit" /\ Shape(j) /\ UNCHANGED phones /\ scope' = scope
    BY <1>2 DEF CommitNotify, HandsInv, Typed, Appear, listing
  <2>2. Goto(w, Idle) \/ Goto(w, push1)
    BY <1>2 DEF CommitNotify
  <2>3. CASE Goto(w, Idle)
    BY <2>1, <2>3, PhonesAlone DEF Idle, Shape
  <2>4. CASE Goto(w, push1)
    <3>1. Shape(push1)
      BY <2>1 DEF Shape
    <3>2. \A p \in push1.phones :
            told[p] = push1.user \/ <<push1.user, push1.id>> \in underWay[p]
      BY <2>1 DEF HandsInv, PushesNoted
    <3> HIDE DEF push1
    <3>3. QED
      BY <2>1, <2>4, <3>1, <3>2, PhonesAlone
  <2>5. QED
    BY <2>2, <2>3, <2>4
<1>3. CASE Send(w)
  <2>1. PICK to : Goto(w, to) /\ to.pc = "record"
    BY <1>3 DEF Send
  <2>2. UNCHANGED phones /\ scope' = scope
    BY <1>3 DEF Send, listing
  <2>3. Shape(to)
    BY <2>1 DEF Shape
  <2>4. QED
    BY <2>1, <2>2, <2>3, PhonesAlone
<1>4. CASE Record(w)
  <2> DEFINE hit == {d \in device : d.user = job[w].user /\ d.phone \in job[w].invalid}
  <2>1. /\ device' = (device \ hit) \cup {[d EXCEPT !.active = FALSE] : d \in hit}
        /\ told' = told /\ underWay' = underWay /\ scope' = scope
        /\ Goto(w, Idle)
    BY <1>4 DEF Record, listing
  <2>2. \A d \in device' : \E e \in device : d.user = e.user /\ d.phone = e.phone
    BY <2>1 DEF HandsInv, Typed, Device
  <2>3. ASSUME NEW e \in device
        PROVE  \E d \in device' : d.user = e.user /\ d.phone = e.phone
    <3>1. CASE e \in hit
      <4>1. [e EXCEPT !.active = FALSE] \in device'
        BY <2>1, <3>1
      <4>2. /\ [e EXCEPT !.active = FALSE].user = e.user
            /\ [e EXCEPT !.active = FALSE].phone = e.phone
        BY DEF HandsInv, Typed, Device
      <4>3. QED
        BY <4>1, <4>2
    <3>2. CASE e \notin hit
      BY <2>1, <3>2
    <3>3. QED
      BY <3>1, <3>2
  <2>4. device' \subseteq Device
    BY <2>1 DEF HandsInv, Typed, Device
  <2>5. Typed'
    BY <2>1, <2>4 DEF HandsInv, Typed, Goto, Shape, Idle
  <2>6. RowsTold'
    BY <2>1, <2>2 DEF HandsInv, RowsTold
  <2>7. HolderWasTold'
    <3>1. SUFFICES ASSUME NEW p \in Phones, told[p] # None
                   PROVE  \E d \in device' : d.phone = p /\ d.user = told[p]
      BY <2>1 DEF HolderWasTold
    <3>2. PICK e \in device : e.phone = p /\ e.user = told[p]
      BY <3>1 DEF HandsInv, HolderWasTold
    <3>3. QED
      BY <2>3, <3>2
  <2>8. PushesNoted'
    BY <2>1 DEF HandsInv, Typed, PushesNoted, Goto, Idle
  <2>9. QED
    BY <2>5, <2>6, <2>7, <2>8 DEF HandsInv
<1>5. QED
  BY <1>1, <1>2, <1>3, <1>4 DEF Notify

-----------------------------------------------------------------------------
(* Steps that hand a phone over                                            *)

\* What is on its way to other accounts when a phone changes hands is noted.
LEMMA HandNotes ==
  ASSUME HandsInv, NEW p \in Phones, NEW u, Hand(p, u),
         UNCHANGED scope, NEW w \in Workers, NEW q \in Phones,
         job[w].pc \in {"commit", "send"}, q \in job[w].phones
  PROVE  told'[q] = job[w].user \/ <<job[w].user, job[w].id>> \in underWay'[q]
<1>1. told[q] = job[w].user \/ <<job[w].user, job[w].id>> \in underWay[q]
  BY DEF HandsInv, PushesNoted
<1>2. CASE q # p
  BY <1>1, <1>2 DEF Hand, HandsInv, Typed
<1>3. CASE q = p /\ job[w].user = u
  BY <1>3 DEF Hand, HandsInv, Typed
<1>4. CASE q = p /\ job[w].user # u
  <2>1. job[w].user \in Users \ {u}
    BY <1>4 DEF HandsInv, Typed, Shape
  <2>2. <<job[w].user, job[w].id>> \in Sending(job[w].user)
    BY DEF Sending
  <2>3. underWay'[p] = underWay[p] \cup UNION {Sending(v) : v \in Users \ {u}}
    BY DEF Hand, HandsInv, Typed
  <2>4. QED
    BY <1>4, <2>1, <2>2, <2>3
<1>5. QED
  BY <1>2, <1>3, <1>4

\* A phone given to u by a worker that is done with it, the rows of other phones kept.
LEMMA PhoneHanded ==
  ASSUME HandsInv, scope' = scope, NEW w \in Workers, Goto(w, Idle),
         NEW p \in Phones, NEW u \in Users, Hand(p, u), device' \subseteq Device,
         \A d \in device' : d.phone = p => d.user = u,
         \A d \in device' : d.phone # p => d \in device,
         \A d \in device : d.phone # p => d \in device',
         \E d \in device' : d.phone = p /\ d.user = u
  PROVE  HandsInv'
<1>1. /\ job' = [v \in Workers |-> job'[v]]
      /\ \A v \in Workers : job'[v] = IF v = w THEN Idle ELSE job[v]
  BY DEF HandsInv, Typed, Goto
<1>2. /\ told' \in [Phones -> Users \cup {None}]
      /\ \A q \in Phones : told'[q] = IF q = p THEN u ELSE told[q]
      /\ underWay' = [q \in Phones |-> underWay'[q]]
  BY DEF Hand, HandsInv, Typed
<1>3. Typed'
  BY <1>1, <1>2 DEF HandsInv, Typed, Shape, Idle
<1>4. RowsTold'
  BY <1>2 DEF HandsInv, RowsTold, Device
<1>5. HolderWasTold'
  <2>1. SUFFICES ASSUME NEW q \in Phones, told'[q] # None
                 PROVE  \E d \in device' : d.phone = q /\ d.user = told'[q]
    BY DEF HolderWasTold
  <2>2. CASE q = p
    BY <1>2, <2>2
  <2>3. CASE q # p
    BY <1>2, <2>1, <2>3 DEF HandsInv, HolderWasTold
  <2>4. QED
    BY <2>2, <2>3
<1>6. PushesNoted'
  <2>1. SUFFICES ASSUME NEW v \in Workers, job'[v].pc \in {"commit", "send"},
                        NEW q \in job'[v].phones
                 PROVE  \/ told'[q] = job'[v].user
                        \/ <<job'[v].user, job'[v].id>> \in underWay'[q]
    BY DEF PushesNoted
  <2>2. job'[v] = job[v]
    BY <1>1, <2>1 DEF Idle
  <2>3. q \in Phones
    BY <2>1, <2>2 DEF HandsInv, Typed, Shape
  <2>4. QED
    BY <2>1, <2>2, <2>3, HandNotes
<1>7. QED
  BY <1>3, <1>4, <1>5, <1>6 DEF HandsInv

LEMMA RegisterKeepsHands ==
  ASSUME HandsInv, NEW w \in Workers, Register(w)
  PROVE  HandsInv'
<1>1. ASSUME NEW u \in scope.users, NEW p \in scope.phones, Free(w, u, p)
      PROVE  HandsInv'
  <2>1. u \in Users /\ p \in Phones
    BY ScopeShape DEF HandsInv
  <2> DEFINE wait == [pc |-> "wait", user |-> u, phone |-> p]
  <2> DEFINE claim == [pc |-> "claim", user |-> u, phone |-> p,
                       freed |-> {d \in device : d.phone = p /\ d.user # u}]
  <2>2. UNCHANGED phones /\ scope' = scope /\ (Goto(w, wait) \/ Goto(w, claim))
    BY <1>1 DEF Free, listing
  <2>3. Shape(wait) /\ Shape(claim)
    BY <2>1 DEF Shape
  <2>4. wait.pc = "wait" /\ claim.pc = "claim"
    OBVIOUS
  <2> HIDE DEF wait, claim
  <2>5. CASE Goto(w, wait)
    BY <2>2, <2>3, <2>4, <2>5, PhonesAlone
  <2>6. CASE Goto(w, claim)
    BY <2>2, <2>3, <2>4, <2>6, PhonesAlone
  <2>7. QED
    BY <2>2, <2>5, <2>6
<1>2. CASE Freed(w)
  <2> DEFINE to == [pc |-> "claim", user |-> job[w].user, phone |-> job[w].phone, freed |-> {}]
  <2>1. Goto(w, to) /\ UNCHANGED phones /\ scope' = scope /\ job[w].pc = "wait"
    BY <1>2 DEF Freed, listing
  <2>2. Shape(to)
    BY <2>1 DEF HandsInv, Typed, Shape
  <2>3. to.pc = "claim"
    OBVIOUS
  <2> HIDE DEF to
  <2>4. QED
    BY <2>1, <2>2, <2>3, PhonesAlone
<1>3. CASE Claim(w)
  <2> DEFINE u == job[w].user
  <2> DEFINE p == job[w].phone
  <2> DEFINE freed == job[w].freed
  <2> DEFINE met == Conflicting(job[w])
  <2>1. /\ u \in Users /\ p \in Phones
        /\ \A d \in freed : d.phone = p /\ d.user # u
        /\ Goto(w, Idle) /\ scope' = scope
        /\ met = {d \in device \ freed : d.phone = p}
    BY <1>3 DEF Claim, HandsInv, Typed, Shape, listing, Conflicting
  <2>2. CASE UNCHANGED phones
    BY <2>1, <2>2, PhonesAlone DEF Idle, Shape
  <2>3. CASE /\ met = {}
             /\ device' = (device \ freed) \cup {[user |-> u, phone |-> p, active |-> TRUE]}
             /\ Hand(p, u)
    <3>1. /\ \A d \in device' : d.phone = p => d.user = u
          /\ \A d \in device' : d.phone # p => d \in device
          /\ \A d \in device : d.phone # p => d \in device'
          /\ [user |-> u, phone |-> p, active |-> TRUE] \in device'
      BY <2>1, <2>3
    <3>2. device' \subseteq Device
      <4>1. [user |-> u, phone |-> p, active |-> TRUE] \in Device
        BY <2>1, Zenon DEF Device
      <4>2. device \subseteq Device
        BY DEF HandsInv, Typed
      <4>3. QED
        BY <2>3, <4>1, <4>2
    <3>3. \E d \in device' : d.phone = p /\ d.user = u
      BY <3>1
    <3>4. QED
      BY <2>1, <2>3, <3>1, <3>2, <3>3, PhoneHanded
  <2>4. CASE /\ met # {} /\ \A d \in met : MayRefresh(d, u)
             /\ device' = (device \ met) \cup {[d EXCEPT !.active = TRUE] : d \in met}
             /\ Hand(p, u)
    <3>1. \A d \in met : /\ d \in device /\ d.phone = p /\ d.user = u
                         /\ [d EXCEPT !.active = TRUE] \in Device
                         /\ [d EXCEPT !.active = TRUE].phone = p
                         /\ [d EXCEPT !.active = TRUE].user = u
      BY <2>1, <2>4 DEF MayRefresh, HandsInv, Typed, Device
    <3>2. told[p] = u
      BY <2>4, <3>1 DEF HandsInv, RowsTold
    <3>3. \A d \in device : d.phone = p => d.user = u
      BY <3>2 DEF HandsInv, RowsTold
    <3>4. /\ \A d \in device' : d.phone = p => d.user = u
          /\ \A d \in device' : d.phone # p => d \in device
          /\ \A d \in device : d.phone # p => d \in device'
          /\ device' \subseteq Device
      BY <2>4, <3>1, <3>3 DEF HandsInv, Typed
    <3>5. \E d \in device' : d.phone = p /\ d.user = u
      <4>1. PICK d \in met : TRUE
        BY <2>4
      <4>2. [d EXCEPT !.active = TRUE] \in device'
        BY <2>4, <4>1
      <4>3. QED
        BY <3>1, <4>1, <4>2
    <3>6. QED
      BY <2>1, <2>4, <3>4, <3>5, PhoneHanded
  <2>5. QED
    BY <1>3, <2>2, <2>3, <2>4 DEF Claim
<1>4. QED
  BY <1>1, <1>2, <1>3 DEF Register

LEMMA UnregisterKeepsHands ==
  ASSUME HandsInv, NEW u \in Users, NEW p \in Phones, Unregister(u, p)
  PROVE  HandsInv'
<1> DEFINE own == {d \in device : d.user = u /\ d.phone = p}
<1>1. device' = device \ own /\ job' = job /\ scope' = scope
  BY DEF Unregister, listing
<1>2. CASE told[p] = u /\ Hand(p, None)
  <2>1. own = {d \in device : d.phone = p}
    BY <1>2 DEF HandsInv, RowsTold
  <2>2. /\ told' \in [Phones -> Users \cup {None}]
        /\ \A q \in Phones : told'[q] = IF q = p THEN None ELSE told[q]
        /\ underWay' = [q \in Phones |-> underWay'[q]]
    BY <1>2 DEF Hand, HandsInv, Typed
  <2>3. Typed'
    BY <1>1, <2>2 DEF HandsInv, Typed
  <2>4. RowsTold'
    BY <1>1, <2>1, <2>2 DEF HandsInv, Typed, RowsTold, Device
  <2>5. HolderWasTold'
    BY <1>1, <2>1, <2>2 DEF HandsInv, HolderWasTold
  <2>6. PushesNoted'
    <3>1. SUFFICES ASSUME NEW w \in Workers, job[w].pc \in {"commit", "send"},
                          NEW q \in job[w].phones
                   PROVE  \/ told'[q] = job[w].user
                          \/ <<job[w].user, job[w].id>> \in underWay'[q]
      BY <1>1 DEF PushesNoted
    <3>2. q \in Phones
      BY <3>1 DEF HandsInv, Typed, Shape
    <3>3. QED
      BY <1>1, <1>2, <3>1, <3>2, HandNotes
  <2>7. QED
    BY <2>3, <2>4, <2>5, <2>6 DEF HandsInv
<1>3. CASE told[p] # u /\ UNCHANGED <<told, underWay>>
  <2>1. own = {}
    BY <1>3 DEF HandsInv, RowsTold
  <2>2. device' = device
    BY <1>1, <2>1
  <2>3. QED
    BY <1>1, <1>3, <2>2 DEF HandsInv, Typed, RowsTold, HolderWasTold, PushesNoted
<1>4. QED
  BY <1>2, <1>3 DEF Unregister

-----------------------------------------------------------------------------
(* The invariant                                                           *)

LEMMA Unchanged ==
  ASSUME HandsInv, scope' = scope, UNCHANGED <<phones, job>>
  PROVE  HandsInv'
BY DEF HandsInv, Typed, RowsTold, HolderWasTold, PushesNoted, phones

LEMMA HandsInductive == HandsInv /\ [Next]_vars => HandsInv'
<1> SUFFICES ASSUME HandsInv, [Next]_vars
             PROVE  HandsInv'
  OBVIOUS
<1>1. CASE ListingNext /\ UNCHANGED <<inbox, phones, job, stray>>
  BY <1>1, ListingKeepsScope, Unchanged
<1>2. ASSUME NEW w \in Workers, Notify(w) \/ Register(w)
      PROVE  HandsInv'
  BY <1>2, NotifyKeepsHands, RegisterKeepsHands
<1>3. ASSUME NEW u \in scope.users, OwnInbox(u)
      PROVE  HandsInv'
  <2>1. CASE List(u)
    BY <2>1, Unchanged DEF List, OpenContinued
  <2>2. CASE MarkAllRead(u) \/ (\E i \in scope.ids : MarkRead(u, i))
             \/ (\E on \in BOOLEAN : SetPreferences(u, on))
    BY <2>2, Unchanged DEF MarkAllRead, MarkRead, SetPreferences, listing
  <2>3. ASSUME NEW p \in scope.phones, Unregister(u, p)
        PROVE  HandsInv'
    BY <2>3, UnregisterKeepsHands, ScopeShape DEF HandsInv
  <2>4. QED
    BY <1>3, <2>1, <2>2, <2>3 DEF OwnInbox
<1>4. CASE UNCHANGED vars
  BY <1>4, Unchanged DEF vars, listing
<1>5. QED
  BY <1>1, <1>2, <1>3, <1>4 DEF Next

LEMMA HandsInitial == Init => HandsInv
BY DEF Init, ListingInit, HandsInv, Typed, RowsTold, HolderWasTold, PushesNoted, Shape, Idle

\* A phone whose registration was confirmed to an account is in the table under it, for
\* any number of accounts that register, leave and are refused at the same time.
THEOREM HolderTold == Spec => []HolderWasTold
<1>1. HandsInv => HolderWasTold
  BY DEF HandsInv
<1>2. QED
  BY <1>1, HandsInitial, HandsInductive, PTL DEF Spec

\* underWay only grows.
LEMMA NotedForGood ==
  ASSUME HandsInv, [Next]_vars, NEW p \in Phones
  PROVE  underWay[p] \subseteq underWay'[p]
<1>1. ASSUME NEW q \in Phones, NEW u, Hand(q, u)
      PROVE  underWay[p] \subseteq underWay'[p]
  BY <1>1 DEF Hand, HandsInv, Typed
<1>2. ASSUME underWay' = underWay
      PROVE  underWay[p] \subseteq underWay'[p]
  BY <1>2
<1>3. ASSUME NEW w \in Workers, Notify(w)
      PROVE  underWay' = underWay
  BY <1>3 DEF Notify, BeginNotify, CommitNotify, Send, Record, phones
<1>4. ASSUME NEW w \in Workers, Register(w)
      PROVE  underWay[p] \subseteq underWay'[p]
  <2>1. CASE \E u \in scope.users, q \in scope.phones : Free(w, u, q)
    BY <1>2, <2>1 DEF Free, phones
  <2>2. CASE Freed(w)
    BY <1>2, <2>2 DEF Freed, phones
  <2>3. CASE Claim(w)
    <3>1. job[w].phone \in Phones
      BY <2>3 DEF Claim, HandsInv, Typed, Shape
    <3>2. Hand(job[w].phone, job[w].user) \/ underWay' = underWay
      BY <2>3 DEF Claim, phones
    <3>3. QED
      BY <1>1, <1>2, <3>1, <3>2
  <2>4. QED
    BY <1>4, <2>1, <2>2, <2>3 DEF Register
<1>5. ASSUME NEW u \in scope.users, OwnInbox(u)
      PROVE  underWay[p] \subseteq underWay'[p]
  <2>1. ASSUME NEW q \in scope.phones, Unregister(u, q)
        PROVE  underWay[p] \subseteq underWay'[p]
    BY <1>1, <1>2, <2>1, ScopeShape DEF Unregister, HandsInv
  <2>2. CASE List(u) \/ MarkAllRead(u) \/ (\E i \in scope.ids : MarkRead(u, i))
             \/ (\E on \in BOOLEAN : SetPreferences(u, on))
    BY <1>2, <2>2 DEF List, MarkAllRead, MarkRead, SetPreferences, phones
  <2>3. QED
    BY <1>5, <2>1, <2>2 DEF OwnInbox
<1>6. CASE (ListingNext /\ UNCHANGED <<inbox, phones, job, stray>>) \/ UNCHANGED vars
  BY <1>2, <1>6 DEF phones, vars
<1>7. QED
  BY <1>2, <1>3, <1>4, <1>5, <1>6 DEF Next

-----------------------------------------------------------------------------
(* What still reaches a phone its account has left                         *)

StrayInv == StrayWasUnderWay /\ \A s \in stray : s[3] \in Phones

\* Only a push being sent reaches a phone.
LEMMA OnlySendStrays ==
  ASSUME HandsInv, [Next]_vars,
         ~ \E w \in Workers : Send(w)
  PROVE  stray' = stray
<1>1. ASSUME NEW w \in Workers, Notify(w) \/ Register(w)
      PROVE  stray' = stray
  BY <1>1 DEF Notify, Register, BeginNotify, CommitNotify, Record, Free, Freed, Claim
<1>2. ASSUME NEW u \in scope.users, OwnInbox(u)
      PROVE  stray' = stray
  BY <1>2 DEF OwnInbox, List, MarkRead, MarkAllRead, SetPreferences, Unregister
<1>3. QED
  BY <1>1, <1>2 DEF Next, vars

LEMMA StrayInductive == HandsInv /\ StrayInv /\ [Next]_vars => StrayInv'
<1> SUFFICES ASSUME HandsInv, StrayInv, [Next]_vars
             PROVE  StrayInv'
  OBVIOUS
<1>1. \A s \in stray : s[3] \in Phones /\ <<s[1], s[2]>> \in underWay'[s[3]]
  BY NotedForGood DEF StrayInv, StrayWasUnderWay
<1>2. ASSUME NEW w \in Workers, Send(w)
      PROVE  StrayInv'
  <2> DEFINE u == job[w].user
  <2> DEFINE i == job[w].id
  <2>1. PICK reached \in SUBSET job[w].phones :
          stray' = stray \cup {<<u, i, p>> : p \in {p \in reached : told[p] # u}}
    BY <1>2 DEF Send
  <2>2. \A p \in reached : p \in Phones /\ (told[p] = u \/ <<u, i>> \in underWay[p])
    BY <1>2, <2>1 DEF Send, HandsInv, Typed, Shape, PushesNoted
  <2>3. underWay' = underWay
    BY <1>2 DEF Send, phones
  <2> HIDE DEF u, i
  <2>4. ASSUME NEW s \in stray'
        PROVE  s[3] \in Phones /\ <<s[1], s[2]>> \in underWay'[s[3]]
    <3>1. CASE s \in stray
      BY <1>1, <3>1
    <3>2. ASSUME NEW p \in reached, told[p] # u, s = <<u, i, p>>
          PROVE  s[3] \in Phones /\ <<s[1], s[2]>> \in underWay'[s[3]]
      BY <2>2, <2>3, <3>2
    <3>3. QED
      BY <2>1, <2>4, <3>1, <3>2
  <2>5. QED
    BY <2>4 DEF StrayInv, StrayWasUnderWay
<1>3. CASE ~ \E w \in Workers : Send(w)
  BY <1>1, <1>3, OnlySendStrays DEF StrayInv, StrayWasUnderWay
<1>4. QED
  BY <1>2, <1>3

\* After a phone changed hands its former account reaches it only with what was being
\* sent at that moment: nothing that begins later ever does.
THEOREM StrayNoted == Spec => []StrayWasUnderWay
<1>1. Init => HandsInv /\ StrayInv
  BY HandsInitial DEF Init, StrayInv, StrayWasUnderWay
<1>2. HandsInv /\ StrayInv /\ [Next]_vars => (HandsInv /\ StrayInv)'
  BY HandsInductive, StrayInductive
<1>3. HandsInv /\ StrayInv => StrayWasUnderWay
  BY DEF StrayInv
<1>4. QED
  BY <1>1, <1>2, <1>3, PTL DEF Spec

-----------------------------------------------------------------------------
(* What happens to a list and to its reader                                *)

\* A reader is a record of these fields, whatever is in them.
Reads(r) ==
  r \in [list : {r.list}, state : {r.state}, page : {r.page}, cursor : {r.cursor},
         start : {r.start}, shown : {r.shown}, ends : {r.ends}, twice : {r.twice},
         shifted : {r.shifted}]

\* A notification about to appear has a date.
JobsDated ==
  \A w \in Workers : job[w].pc = "commit" =>
    job[w].user \in Users /\ job[w].id \in Ids /\ job[w].at \in Times

PlacesTyped ==
  /\ clock \in Times /\ JobsDated
  /\ place \in [Lists \X Ids -> Times \cup {None}]

Appears ==
  /\ reader' = reader
  /\ \E l \in Lists, i \in Ids, t \in Times :
       place[<<l, i>>] = None /\ place' = [place EXCEPT ![<<l, i>>] = t]

Shifts ==
  \E l \in Numbered, i \in Ids, t \in Times \cup {None} :
    Shift(l) /\ place' = [place EXCEPT ![<<l, i>>] = t]

Opens ==
  /\ place' = place
  /\ \/ \E l \in Numbered : ByNumber(Opened(l), 1)
     \/ \E l \in Lists \ Numbered : ByCursor(Opened(l), None)

Stays == UNCHANGED <<place, reader>>

LEMMA ScopeOfLists ==
  ASSUME HandsInv
  PROVE  scope.ids \subseteq Ids /\ scope.users \subseteq Users /\ scope.paged \subseteq Lists
BY ScopeAssumption DEF HandsInv, Typed

LEMMA EarlierTimes ==
  ASSUME PlacesTyped
  PROVE  0 .. clock \subseteq Times
BY NumberAssumption DEF PlacesTyped, Times

LEMMA ListKinds ==
  /\ Numbered \subseteq Lists
  /\ Users \subseteq Lists \ Numbered
  /\ "users" \in Lists \ Numbered /\ "audit" \in Lists \ Numbered
  /\ Numbered = {"sales", "movements", "credits", "payments", "products", "customers", "expenses"}
BY UserAssumption DEF Lists, Numbered, Settled, Filtered, Edited

\* What a list's own operations do to it.
LEMMA EntriesMove ==
  ASSUME HandsInv, PlacesTyped, NEW l \in Lists
  PROVE  /\ Dated(l) \/ Named(l) => Appears
         /\ l \in Numbered /\ (Leaves(l) \/ Edits(l)) => Shifts
<1>1. scope.ids \subseteq Ids /\ 0 .. clock \subseteq Times
  BY ScopeOfLists, EarlierTimes
<1>2. ASSUME NEW i \in scope.ids, NEW t \in Times, Appear(l, i, t)
      PROVE  Appears
  BY <1>1, <1>2 DEF Appear, Appears
<1>3. ASSUME NEW i \in scope.ids, l \in Numbered, Leave(l, i)
      PROVE  Shifts
  BY <1>1, <1>3 DEF Leave, Shifts
<1>4. ASSUME NEW i \in scope.ids, NEW t \in Times, l \in Numbered, Edit(l, i, t)
      PROVE  Shifts
  BY <1>1, <1>4 DEF Edit, Shifts
<1>5. QED
  BY <1>1, <1>2, <1>3, <1>4 DEF Dated, Named, Leaves, Edits

LEMMA ListingKinds ==
  ASSUME HandsInv, PlacesTyped, ListingNext
  PROVE  Stays \/ Appears \/ Shifts \/ Opens \/ NextPage \/ Count
<1>1. CASE Tick
  BY <1>1 DEF Tick, Stays
<1>2. ASSUME NEW l \in Numbered, OpenNumbered(l)
      PROVE  Opens
  BY <1>2 DEF OpenNumbered, Opens
<1>3. ASSUME NEW l \in Lists \ Numbered, OpenContinued(l)
      PROVE  Opens
  BY <1>3 DEF OpenContinued, Opens
<1>4. CASE SalesFindAll \/ FindMovements \/ ListBusinessWide \/ PaymentsList \/ ProductsFindAll
  BY <1>2, <1>4, ListKinds, EntriesMove
  DEF SalesFindAll, FindMovements, ListBusinessWide, PaymentsList, ProductsFindAll
<1>5. CASE CustomersFindAll \/ CreateCustomer \/ UpdateCustomer \/ RemoveCustomer
  BY <1>2, <1>5, ListKinds, EntriesMove
  DEF CustomersFindAll, CreateCustomer, UpdateCustomer, RemoveCustomer
<1>6. CASE ExpensesFindAll \/ CreateExpense \/ UpdateExpense \/ RemoveExpense
  BY <1>2, <1>6, ListKinds, EntriesMove
  DEF ExpensesFindAll, CreateExpense, UpdateExpense, RemoveExpense
<1>7. CASE SearchUsers \/ SearchAudit
  BY <1>3, <1>7, ListKinds, EntriesMove DEF SearchUsers, SearchAudit
<1>8. QED
  BY <1>1, <1>4, <1>5, <1>6, <1>7 DEF ListingNext

LEMMA StepKinds ==
  ASSUME HandsInv, PlacesTyped, [Next]_vars
  PROVE  Stays \/ Appears \/ Shifts \/ Opens \/ NextPage \/ Count
<1>1. ASSUME NEW w \in Workers, CommitNotify(w)
      PROVE  Stays \/ Appears
  <2>1. CASE Appear(job[w].user, job[w].id, job[w].at)
    <3>1. job[w].user \in Lists /\ job[w].id \in Ids /\ job[w].at \in Times
      BY <1>1, ListKinds DEF CommitNotify, PlacesTyped, JobsDated
    <3>2. QED
      BY <2>1, <3>1 DEF Appear, Appears
  <2>2. CASE UNCHANGED listing
    BY <2>2 DEF listing, Stays
  <2>3. QED
    BY <1>1, <2>1, <2>2 DEF CommitNotify
<1>2. ASSUME NEW w \in Workers, Notify(w) \/ Register(w), ~CommitNotify(w)
      PROVE  Stays
  BY <1>2 DEF Notify, Register, BeginNotify, Send, Record, Free, Freed, Claim, listing, Stays
<1>3. ASSUME NEW u \in scope.users, OwnInbox(u)
      PROVE  Stays \/ Opens
  <2>1. CASE List(u)
    <3>1. u \in Lists \ Numbered
      BY ListKinds, ScopeOfLists
    <3>2. QED
      BY <2>1, <3>1 DEF List, OpenContinued, Opens
  <2>2. CASE ~List(u)
    BY <1>3, <2>2 DEF OwnInbox, MarkRead, MarkAllRead, SetPreferences, Unregister, listing, Stays
  <2>3. QED
    BY <2>1, <2>2
<1>4. CASE UNCHANGED vars
  BY <1>4 DEF vars, listing, Stays
<1>5. QED
  BY <1>1, <1>2, <1>3, <1>4, ListingKinds DEF Next

LEMMA PageReader ==
  ASSUME NEW r, Reads(r), NEW k, ByNumber(r, k)
  PROVE  /\ Reads(reader') /\ reader'.list = r.list /\ reader'.start = r.start
         /\ reader'.page = k /\ reader'.state = "count" /\ reader'.shifted = r.shifted
BY Zenon DEF ByNumber, Reads

\* What the clock says, and the date at which a notification is about to appear.
LEMMA OtherJobs ==
  ASSUME HandsInv, PlacesTyped, NEW w \in Workers, NEW to, Goto(w, to), to.pc # "commit"
  PROVE  JobsDated'
BY DEF Goto, HandsInv, Typed, PlacesTyped, JobsDated

LEMMA TimesKept ==
  ASSUME HandsInv, PlacesTyped, [Next]_vars
  PROVE  clock' \in Times /\ JobsDated'
<1>1. ASSUME NEW w \in Workers, Notify(w) \/ Register(w)
      PROVE  clock' = clock /\ JobsDated'
  <2>1. clock' = clock
    BY <1>1 DEF Notify, Register, BeginNotify, CommitNotify, Send, Record, Free, Freed, Claim,
                Appear, listing
  <2>2. ASSUME NEW u \in scope.users, NEW i \in scope.ids, BeginNotify(w, u, i)
        PROVE  JobsDated'
    <3> DEFINE to == [pc |-> "commit", user |-> u, id |-> i, at |-> clock,
                      phones |-> IF PushAllowed(u, i) THEN ActivePhones(u) ELSE {}]
    <3>1. to.user \in Users /\ to.id \in Ids /\ to.at \in Times
      BY ScopeOfLists, ScopeShape DEF PlacesTyped, HandsInv
    <3>2. Goto(w, to)
      BY <2>2 DEF BeginNotify
    <3> HIDE DEF to
    <3>3. \A v \in Workers : job'[v] = IF v = w THEN to ELSE job[v]
      BY <3>2 DEF Goto, HandsInv, Typed
    <3>4. QED
      BY <3>1, <3>3 DEF PlacesTyped, JobsDated
  <2>3. CASE CommitNotify(w)
    <3>1. PICK to : Goto(w, to) /\ to.pc # "commit"
      BY <2>3 DEF CommitNotify, Idle
    <3>2. QED
      BY <2>1, <3>1, OtherJobs
  <2>4. CASE Send(w)
    <3>1. PICK to : Goto(w, to) /\ to.pc # "commit"
      BY <2>4 DEF Send
    <3>2. QED
      BY <2>1, <3>1, OtherJobs
  <2>5. CASE Record(w) \/ Claim(w)
    <3>1. Goto(w, Idle) /\ Idle.pc # "commit"
      BY <2>5 DEF Record, Claim, Idle
    <3>2. QED
      BY <2>1, <3>1, OtherJobs
  <2>6. CASE Freed(w) \/ \E u \in scope.users, p \in scope.phones : Free(w, u, p)
    <3>1. \E to : Goto(w, to) /\ to.pc # "commit"
      <4>1. ASSUME NEW u, NEW p, Free(w, u, p)
            PROVE  \E to : Goto(w, to) /\ to.pc # "commit"
        <5>1. CASE Freeing(p)
          BY <4>1, <5>1 DEF Free
        <5>2. CASE ~Freeing(p)
          BY <4>1, <5>2 DEF Free
        <5>3. QED
          BY <5>1, <5>2
      <4>2. QED
        BY <2>6, <4>1 DEF Freed
    <3>2. QED
      BY <2>1, <3>1, OtherJobs
  <2>7. QED
    BY <1>1, <2>1, <2>2, <2>3, <2>4, <2>5, <2>6 DEF Notify, Register
<1>2. CASE ListingNext /\ UNCHANGED <<inbox, phones, job, stray>>
  <2>1. clock' \in Times
    <3>1. CASE Tick
      BY <3>1, NumberAssumption DEF Tick, PlacesTyped, Times
    <3>2. CASE ~Tick
      <4>1. clock' = clock
        BY <1>2, <3>2 DEF ListingNext, Count, NextPage, SalesFindAll, FindMovements, ListBusinessWide,
           PaymentsList, ProductsFindAll, CustomersFindAll, CreateCustomer, UpdateCustomer,
           RemoveCustomer, ExpensesFindAll, CreateExpense, UpdateExpense, RemoveExpense,
           SearchUsers, SearchAudit, OpenNumbered, OpenContinued, Dated, Named, Leaves, Edits,
           Appear, Leave, Edit
      <4>2. QED
        BY <4>1 DEF PlacesTyped
    <3>3. QED
      BY <3>1, <3>2
  <2>2. JobsDated'
    BY <1>2 DEF PlacesTyped, JobsDated
  <2>3. QED
    BY <2>1, <2>2
<1>3. CASE UNCHANGED vars \/ \E u \in scope.users : OwnInbox(u)
  <2>1. clock' = clock /\ job' = job
    BY <1>3 DEF vars, listing, OwnInbox, List, MarkRead, MarkAllRead, SetPreferences, Unregister,
                OpenContinued
  <2>2. QED
    BY <2>1 DEF PlacesTyped, JobsDated
<1>4. QED
  BY <1>1, <1>2, <1>3 DEF Next, PlacesTyped

LEMMA PlacesKept ==
  ASSUME HandsInv, PlacesTyped, [Next]_vars
  PROVE  PlacesTyped'
<1>1. place' \in [Lists \X Ids -> Times \cup {None}]
  BY StepKinds, ListKinds DEF Stays, Appears, Shifts, Opens, NextPage, Count, PlacesTyped
<1>2. QED
  BY <1>1, TimesKept DEF PlacesTyped

-----------------------------------------------------------------------------
(* Pages by number                                                         *)

\* The entries before i in its list, whatever the order of equal places.
Ahead(l, i) == {j \in Present(l) : place[<<l, j>>] > place[<<l, i>>]}
Tied(l, i, some) == \E j \in some : place[<<l, j>>] = place[<<l, i>>]

\* An entry not shown yet lies behind all the pages turned, or has its like on one.
Behind(l, i, k) == Cardinality(Ahead(l, i)) >= k * PageSize

NumbersInv ==
  /\ Reads(reader)
  /\ reader.list \in Numbered /\ ~reader.shifted =>
       /\ reader.page \in Nat
       /\ reader.start \subseteq Present(reader.list)
       /\ reader.shown \subseteq Present(reader.list)
       /\ \A i \in reader.start \ reader.shown :
            \/ Tied(reader.list, i, reader.shown)
            \/ reader.state # "end" /\ Behind(reader.list, i, reader.page)

LEMMA ListsAreFinite ==
  ASSUME NEW l, NEW S \in SUBSET Present(l)
  PROVE  IsFiniteSet(S) /\ Cardinality(S) \in Nat /\ Cardinality(S) <= Cardinality(Present(l))
<1>1. Present(l) \in SUBSET Ids
  BY DEF Present
<1>2. IsFiniteSet(Present(l))
  BY <1>1, FiniteAssumption, FS_Subset
<1>3. QED
  BY <1>2, FS_Subset, FS_CardinalityType

LEMMA PlacesAreDates ==
  ASSUME PlacesTyped, NEW l \in Lists, NEW i \in Present(l)
  PROVE  place[<<l, i>>] \in Nat /\ i \in Ids /\ place[<<l, i>>] \in Times /\ i \in Nat
BY NumberAssumption DEF PlacesTyped, Present, Times

LEMMA OnePageMore ==
  ASSUME NEW k \in Nat \ {0}
  PROVE  /\ (k - 1) * PageSize \in Nat /\ k * PageSize \in Nat
         /\ (k - 1) * PageSize + PageSize = k * PageSize
BY NumberAssumption

\* Entries not ahead of i lie after those that are.
LEMMA NotShownIsBehind ==
  ASSUME PlacesTyped, NEW l \in Lists, NEW k \in Nat \ {0},
         NEW before \in SUBSET Present(l), NEW items \in SUBSET (Present(l) \ before),
         Cardinality(before) = Lesser(Skipped(k), Cardinality(Present(l))),
         Cardinality(items) = Lesser(PageSize, Cardinality(Present(l)) -
                                Lesser(Skipped(k), Cardinality(Present(l)))),
         NoneBelow(l, before, Present(l) \ before),
         NoneBelow(l, items, Present(l) \ (before \cup items)),
         NEW i \in Present(l) \ items, ~Tied(l, i, items), Behind(l, i, k - 1)
  PROVE  Behind(l, i, k)
<1> DEFINE all == Present(l)
<1> DEFINE skip == (k - 1) * PageSize
<1>1. /\ IsFiniteSet(all) /\ Cardinality(all) \in Nat
      /\ IsFiniteSet(before) /\ Cardinality(before) \in Nat
      /\ IsFiniteSet(items) /\ Cardinality(items) \in Nat
      /\ IsFiniteSet(Ahead(l, i)) /\ Cardinality(Ahead(l, i)) \in Nat
  BY ListsAreFinite DEF Ahead
<1>2. \A j \in all : place[<<l, j>>] \in Nat
  BY PlacesAreDates
<1>3. Cardinality(Ahead(l, i)) < Cardinality(all)
  <2>1. Ahead(l, i) \subseteq all \ {i}
    BY <1>2 DEF Ahead
  <2>2. IsFiniteSet(all \ {i}) /\ Cardinality(all \ {i}) = Cardinality(all) - 1
    BY <1>1, FS_RemoveElement
  <2>3. Cardinality(Ahead(l, i)) <= Cardinality(all \ {i})
    BY <2>1, <2>2, FS_Subset
  <2>4. QED
    BY <1>1, <2>2, <2>3
<1>4. skip \in Nat /\ skip < Cardinality(all) /\ Cardinality(before) = skip
  <2>1. skip \in Nat /\ skip <= Cardinality(Ahead(l, i))
    BY OnePageMore DEF Behind
  <2>2. QED
    BY <1>1, <1>3, <2>1 DEF Lesser, Skipped
<1> HIDE DEF skip
<1>5. i \notin before
  <2> SUFFICES ASSUME i \in before PROVE FALSE
    OBVIOUS
  <2>1. Ahead(l, i) \subseteq before \ {i}
    BY <1>2 DEF Ahead, NoneBelow
  <2>2. IsFiniteSet(before \ {i}) /\ Cardinality(before \ {i}) = Cardinality(before) - 1
    BY <1>1, FS_RemoveElement
  <2>3. Cardinality(Ahead(l, i)) <= Cardinality(before \ {i})
    BY <2>1, <2>2, FS_Subset
  <2>4. Cardinality(Ahead(l, i)) >= skip
    BY DEF Behind, skip
  <2>5. QED
    BY <1>1, <1>4, <2>2, <2>3, <2>4
<1>6. /\ IsFiniteSet(before \cup items)
      /\ Cardinality(before \cup items) = Cardinality(before) + Cardinality(items)
      /\ Cardinality(before \cup items) \in Nat
  <2>1. Cardinality(before \cap items) = 0
    <3>1. before \cap items = {}
      OBVIOUS
    <3>2. QED
      BY <3>1, FS_EmptySet
  <2>2. /\ IsFiniteSet(before \cup items)
        /\ Cardinality(before \cup items)
             = Cardinality(before) + Cardinality(items) - Cardinality(before \cap items)
    BY <1>1, FS_Union
  <2>3. QED
    BY <1>1, <2>1, <2>2
<1>7. Cardinality(items) = PageSize
  <2> SUFFICES ASSUME Cardinality(items) # PageSize PROVE FALSE
    OBVIOUS
  <2>1. Cardinality(items) = Cardinality(all) - skip
    BY <1>1, <1>4 DEF Lesser, Skipped, skip
  <2>2. Cardinality(before \cup items) = Cardinality(all)
    BY <1>1, <1>4, <1>6, <2>1
  <2>3. before \cup items \in SUBSET all
    OBVIOUS
  <2>4. before \cup items = all
    BY <1>1, <2>2, <2>3, FS_Subset
  <2>5. QED
    BY <1>5, <2>4
<1>8. PICK x \in items : TRUE
  BY <1>7, NumberAssumption, FS_EmptySet
<1>9. \A j \in items : place[<<l, j>>] > place[<<l, i>>]
  BY <1>2, <1>5 DEF NoneBelow, Tied
<1>10. \A j \in before : place[<<l, j>>] >= place[<<l, x>>]
  BY <1>8 DEF NoneBelow
<1>11. before \cup items \subseteq Ahead(l, i)
  BY <1>2, <1>8, <1>9, <1>10 DEF Ahead
<1>12. Cardinality(before \cup items) <= Cardinality(Ahead(l, i))
  BY <1>1, <1>11, FS_Subset
<1>13. skip + PageSize = k * PageSize /\ k * PageSize \in Nat
  BY OnePageMore DEF skip
<1>14. QED
  BY <1>1, <1>4, <1>6, <1>7, <1>12, <1>13 DEF Behind

LEMMA NumbersHold ==
  ASSUME NEW l, Reads(reader)', reader'.list = l,
         (/\ reader.page \in Nat
          /\ reader.start \subseteq Present(l) /\ reader.shown \subseteq Present(l)
          /\ \A i \in reader.start \ reader.shown :
               \/ Tied(l, i, reader.shown)
               \/ reader.state # "end" /\ Behind(l, i, reader.page))'
  PROVE  NumbersInv'
BY DEF NumbersInv, Tied, Behind, Ahead, Present

LEMMA PageTurned ==
  ASSUME PlacesTyped, NEW r, Reads(r), r.list \in Numbered, NEW k \in Nat \ {0},
         ByNumber(r, k), place' = place,
         r.start \subseteq Present(r.list), r.shown \subseteq Present(r.list),
         \A i \in r.start \ r.shown :
           Tied(r.list, i, r.shown) \/ Behind(r.list, i, k - 1)
  PROVE  NumbersInv'
<1> DEFINE l == r.list
<1> DEFINE all == Present(l)
<1>1. PICK before \in SUBSET all : \E items \in SUBSET (all \ before) :
        /\ Cardinality(before) = Lesser(Skipped(k), Cardinality(all))
        /\ Cardinality(items) = Lesser(PageSize, Cardinality(all) - Lesser(Skipped(k), Cardinality(all)))
        /\ NoneBelow(l, before, all \ before)
        /\ NoneBelow(l, items, all \ (before \cup items))
        /\ reader' = [r EXCEPT !.shown = @ \cup items, !.page = k, !.state = "count"]
  BY Zenon DEF ByNumber
<1>2. PICK items \in SUBSET (all \ before) :
        /\ Cardinality(before) = Lesser(Skipped(k), Cardinality(all))
        /\ Cardinality(items) = Lesser(PageSize, Cardinality(all) - Lesser(Skipped(k), Cardinality(all)))
        /\ NoneBelow(l, before, all \ before)
        /\ NoneBelow(l, items, all \ (before \cup items))
        /\ reader' = [r EXCEPT !.shown = @ \cup items, !.page = k, !.state = "count"]
  BY <1>1
<1>3. /\ Reads(reader') /\ reader'.list = l /\ reader'.start = r.start
      /\ reader'.shown = r.shown \cup items /\ reader'.page = k /\ reader'.state = "count"
  BY <1>2 DEF Reads
<1>4. l \in Lists
  BY ListKinds
<1> HIDE DEF l
<1>5. ASSUME NEW i \in r.start \ (r.shown \cup items), ~Tied(l, i, r.shown \cup items)
      PROVE  Behind(l, i, k)
  <2>1. i \in all \ items /\ ~Tied(l, i, items) /\ ~Tied(l, i, r.shown)
    BY <1>5 DEF Tied, l
  <2>2. Behind(l, i, k - 1)
    BY <1>5, <2>1 DEF l
  <2>3. QED
    BY <1>2, <1>4, <2>1, <2>2, NotShownIsBehind
<1>6. Present(l)' = all /\ \A i : Ahead(l, i)' = Ahead(l, i)
  BY DEF Ahead, Present
<1>7. (/\ reader.page \in Nat
       /\ reader.start \subseteq Present(l) /\ reader.shown \subseteq Present(l)
       /\ \A i \in reader.start \ reader.shown :
            \/ Tied(l, i, reader.shown)
            \/ reader.state # "end" /\ Behind(l, i, reader.page))'
  BY <1>2, <1>3, <1>5, <1>6 DEF l, Tied, Behind
<1>8. QED
  BY <1>3, <1>7, NumbersHold

LEMMA CursorReader ==
  ASSUME NEW r, Reads(r), NEW cursor, ByCursor(r, cursor)
  PROVE  Reads(reader') /\ reader'.list = r.list /\ reader'.start = r.start
<1> DEFINE l == r.list
<1> DEFINE rest == {i \in Present(l) : cursor # None => Below(Rank(l, i), cursor)}
<1> DEFINE items == Items(l, rest)
<1> DEFINE turned == [r EXCEPT !.shown = @ \cup items, !.twice = @ \/ items \cap r.shown # {}]
<1>1. Reads(turned) /\ turned.list = l /\ turned.start = r.start
  BY DEF Reads
<1>2. \/ reader' = [turned EXCEPT !.state = "more", !.ends = @ \cup {LastShown(l, rest)},
                                  !.cursor = CursorAt(l, LastShown(l, rest))]
      \/ reader' = [turned EXCEPT !.state = "end", !.cursor = None]
  BY DEF ByCursor
<1> HIDE DEF turned
<1>3. QED
  BY <1>1, <1>2 DEF Reads

LEMMA OpenedShape ==
  ASSUME NEW l
  PROVE  /\ Reads(Opened(l)) /\ Opened(l).list = l /\ Opened(l).start = Present(l)
         /\ Opened(l).shown = {} /\ Opened(l).ends = {} /\ Opened(l).twice = FALSE
BY DEF Opened, Closed, Reads

LEMMA NothingAhead ==
  ASSUME NEW l, NEW i
  PROVE  Behind(l, i, 0)
<1>1. Ahead(l, i) \in SUBSET Present(l)
  BY DEF Ahead
<1>2. Cardinality(Ahead(l, i)) \in Nat
  BY <1>1, ListsAreFinite
<1>3. QED
  BY <1>2, NumberAssumption DEF Behind

\* Entries that appear push others back, never forward.
LEMMA AppearsBehind ==
  ASSUME PlacesTyped, Appears, NEW l \in Lists
  PROVE  /\ Present(l) \subseteq Present(l)'
         /\ \A i \in Present(l) : place'[<<l, i>>] = place[<<l, i>>]
         /\ \A i \in Present(l) : Cardinality(Ahead(l, i)) <= Cardinality(Ahead(l, i)')
                                  /\ Cardinality(Ahead(l, i)') \in Nat
<1>1. PICK m \in Lists, j \in Ids, t \in Times :
        place[<<m, j>>] = None /\ place' = [place EXCEPT ![<<m, j>>] = t]
  BY DEF Appears
<1>2. t # None
  BY NoneAssumption, NumberAssumption DEF Times
<1>3. \A i \in Ids : place'[<<l, i>>] = IF l = m /\ i = j THEN t ELSE place[<<l, i>>]
  BY <1>1 DEF PlacesTyped
<1>4. /\ Present(l) \subseteq Present(l)'
      /\ \A i \in Present(l) : place'[<<l, i>>] = place[<<l, i>>]
  BY <1>1, <1>2, <1>3 DEF Present
<1>5. ASSUME NEW i \in Present(l)
      PROVE  Cardinality(Ahead(l, i)) <= Cardinality(Ahead(l, i)') /\ Cardinality(Ahead(l, i)') \in Nat
  <2>1. Ahead(l, i) \subseteq Ahead(l, i)'
    BY <1>4 DEF Ahead
  <2>2. Ahead(l, i)' \in SUBSET Ids
    BY DEF Ahead, Present
  <2>3. IsFiniteSet(Ahead(l, i)') /\ Cardinality(Ahead(l, i)') \in Nat
    BY <2>2, FiniteAssumption, FS_Subset, FS_CardinalityType
  <2>4. QED
    BY <2>1, <2>3, FS_Subset
<1>6. QED
  BY <1>4, <1>5

LEMMA NumbersStay ==
  ASSUME PlacesTyped, NumbersInv, Stays \/ Appears \/ Shifts
  PROVE  NumbersInv'
<1> PICK l : l = reader.list
  OBVIOUS
<1>1. CASE Stays
  BY <1>1 DEF NumbersInv, Stays, Reads, Tied, Behind, Ahead, Present
<1>2. CASE Appears
  <2>1. reader' = reader
    BY <1>2 DEF Appears
  <2>2. CASE l \in Numbered /\ ~reader.shifted
    <3>1. l \in Lists
      BY <2>2, ListKinds
    <3>2. /\ Present(l) \subseteq Present(l)'
          /\ \A i \in Present(l) : place'[<<l, i>>] = place[<<l, i>>]
          /\ \A i \in Present(l) : Cardinality(Ahead(l, i)) <= Cardinality(Ahead(l, i)')
                                   /\ Cardinality(Ahead(l, i)') \in Nat
      BY <1>2, <3>1, AppearsBehind
    <3>3. /\ reader.page \in Nat
          /\ reader.start \subseteq Present(l) /\ reader.shown \subseteq Present(l)
          /\ \A i \in reader.start \ reader.shown :
               \/ Tied(l, i, reader.shown)
               \/ reader.state # "end" /\ Behind(l, i, reader.page)
      BY <2>2 DEF NumbersInv
    <3>4. \A i \in reader.start \ reader.shown :
            \/ \E j \in reader.shown : place'[<<l, j>>] = place'[<<l, i>>]
            \/ reader.state # "end" /\ Cardinality(Ahead(l, i)') >= reader.page * PageSize
      <4> SUFFICES ASSUME NEW i \in reader.start \ reader.shown
                   PROVE  \/ \E j \in reader.shown : place'[<<l, j>>] = place'[<<l, i>>]
                          \/ reader.state # "end" /\ Cardinality(Ahead(l, i)') >= reader.page * PageSize
        OBVIOUS
      <4>1. CASE Tied(l, i, reader.shown)
        BY <3>2, <3>3, <4>1 DEF Tied
      <4>2. CASE reader.state # "end" /\ Behind(l, i, reader.page)
        <5>1. Cardinality(Ahead(l, i)) \in Nat /\ reader.page * PageSize \in Nat
          <6>1. Ahead(l, i) \in SUBSET Present(l)
            BY DEF Ahead
          <6>2. QED
            BY <3>3, <6>1, ListsAreFinite, NumberAssumption
        <5>2. QED
          BY <3>2, <3>3, <4>2, <5>1 DEF Behind
      <4>3. QED
        BY <3>3, <4>1, <4>2
    <3>5. (\A i \in reader.start \ reader.shown :
             \/ Tied(reader.list, i, reader.shown)
             \/ reader.state # "end" /\ Behind(reader.list, i, reader.page))'
      BY <2>1, <3>4 DEF Tied, Behind, Ahead, Present
    <3>6. (reader.start \subseteq Present(reader.list) /\ reader.shown \subseteq Present(reader.list))'
      BY <2>1, <3>2, <3>3 DEF Present
    <3>7. Reads(reader)' /\ reader'.page \in Nat
      BY <2>1, <3>3 DEF NumbersInv, Reads
    <3>8. QED
      BY <3>5, <3>6, <3>7 DEF NumbersInv
  <2>3. CASE ~(l \in Numbered /\ ~reader.shifted)
    BY <2>1, <2>3 DEF NumbersInv, Reads
  <2>4. QED
    BY <2>2, <2>3
<1>3. CASE Shifts
  <2>1. PICK m \in Numbered, j \in Ids, t \in Times \cup {None} :
          Shift(m) /\ place' = [place EXCEPT ![<<m, j>>] = t]
    BY <1>3 DEF Shifts
  <2>2. CASE l = m
    <3>1. reader' = [reader EXCEPT !.shifted = TRUE]
      BY <2>1, <2>2 DEF Shift
    <3>2. QED
      BY <3>1 DEF NumbersInv, Reads
  <2>3. CASE l # m
    <3>1. reader' = reader
      BY <2>1, <2>3 DEF Shift
    <3>2. \A i \in Ids : place'[<<l, i>>] = place[<<l, i>>]
      BY <2>1, <2>3 DEF PlacesTyped
    <3>3. Present(l)' = Present(l)
      BY <3>1, <3>2 DEF Present
    <3>4. \A i : i \in Ids => Ahead(l, i)' = Ahead(l, i)
      BY <3>1, <3>2 DEF Ahead, Present
    <3>5. reader.start \subseteq Present(l) => reader.start \subseteq Ids
      BY DEF Present
    <3>6. QED
      BY <3>1, <3>2, <3>3, <3>4, <3>5 DEF NumbersInv, Reads, Tied, Behind, Present
  <2>4. QED
    BY <2>2, <2>3
<1>4. QED
  BY <1>1, <1>2, <1>3

LEMMA NumbersCount ==
  ASSUME PlacesTyped, NumbersInv, Count
  PROVE  NumbersInv'
<1> PICK l : l = reader.list
  OBVIOUS
<1>1. /\ place' = place
      /\ reader' = [reader EXCEPT !.state = IF reader.page * PageSize < Cardinality(Present(l))
                                            THEN "more" ELSE "end"]
  BY DEF Count
<1>2. /\ Reads(reader') /\ reader'.list = l /\ reader'.start = reader.start
      /\ reader'.shown = reader.shown /\ reader'.page = reader.page
      /\ reader'.shifted = reader.shifted
      /\ reader'.state = IF reader.page * PageSize < Cardinality(Present(l)) THEN "more" ELSE "end"
  BY <1>1 DEF NumbersInv, Reads
<1>3. CASE l \in Numbered /\ ~reader.shifted
  <2>1. /\ reader.page \in Nat
        /\ reader.start \subseteq Present(l) /\ reader.shown \subseteq Present(l)
        /\ \A i \in reader.start \ reader.shown :
             Tied(l, i, reader.shown) \/ Behind(l, i, reader.page)
    BY <1>3 DEF NumbersInv
  <2>2. ASSUME NEW i \in Present(l), Behind(l, i, reader.page)
        PROVE  reader'.state # "end"
    <3>1. l \in Lists
      BY <1>3, ListKinds
    <3>2. Ahead(l, i) \subseteq Present(l) \ {i}
      BY <3>1, PlacesAreDates DEF Ahead
    <3>3. /\ IsFiniteSet(Present(l)) /\ Cardinality(Present(l)) \in Nat
          /\ IsFiniteSet(Present(l) \ {i})
          /\ Cardinality(Present(l) \ {i}) = Cardinality(Present(l)) - 1
      BY ListsAreFinite, FS_RemoveElement
    <3>4. Cardinality(Ahead(l, i)) <= Cardinality(Present(l) \ {i}) /\ Cardinality(Ahead(l, i)) \in Nat
      BY <3>2, <3>3, FS_Subset, FS_CardinalityType
    <3>5. reader.page * PageSize \in Nat
      BY <2>1, NumberAssumption
    <3>6. QED
      BY <1>2, <2>2, <3>3, <3>4, <3>5 DEF Behind
  <2>3. \A i : /\ Tied(l, i, reader.shown)' <=> Tied(l, i, reader.shown)
               /\ Behind(l, i, reader.page)' <=> Behind(l, i, reader.page)
    BY <1>1, <1>2 DEF Tied, Behind, Ahead, Present
  <2>4. Present(l)' = Present(l)
    BY <1>1 DEF Present
  <2>5. (/\ reader.page \in Nat
         /\ reader.start \subseteq Present(l) /\ reader.shown \subseteq Present(l)
         /\ \A i \in reader.start \ reader.shown :
              \/ Tied(l, i, reader.shown)
              \/ reader.state # "end" /\ Behind(l, i, reader.page))'
    BY <1>2, <2>1, <2>2, <2>3, <2>4
  <2>6. QED
    BY <1>2, <2>5, NumbersHold
<1>4. CASE ~(l \in Numbered /\ ~reader.shifted)
  BY <1>2, <1>4 DEF NumbersInv
<1>5. QED
  BY <1>3, <1>4

LEMMA NumbersTurn ==
  ASSUME PlacesTyped, NumbersInv, Opens \/ NextPage
  PROVE  NumbersInv'
<1>1. ASSUME NEW l \in Numbered, place' = place, ByNumber(Opened(l), 1)
      PROVE  NumbersInv'
  <2>1. /\ Reads(Opened(l)) /\ Opened(l).list = l /\ Opened(l).start = Present(l)
        /\ Opened(l).shown = {}
    BY OpenedShape
  <2>2. \A i \in Present(l) : Behind(l, i, 1 - 1)
    BY NothingAhead
  <2>3. QED
    BY <1>1, <2>1, <2>2, PageTurned
<1>2. ASSUME NEW r, Reads(r), r.list \notin Numbered, NEW cursor, ByCursor(r, cursor)
      PROVE  NumbersInv'
  BY <1>2, CursorReader DEF NumbersInv, Reads
<1>3. CASE Opens
  BY <1>1, <1>2, <1>3, OpenedShape DEF Opens
<1>4. CASE NextPage
  <2>1. reader.state = "more" /\ place' = place /\ Reads(reader)
    BY <1>4 DEF NextPage, NumbersInv
  <2>2. CASE reader.list \notin Numbered
    BY <1>2, <1>4, <2>1, <2>2 DEF NextPage
  <2>3. CASE reader.list \in Numbered
    <3>1. ByNumber(reader, reader.page + 1)
      BY <1>4, <2>3 DEF NextPage
    <3>2. CASE reader.shifted
      <4>1. Reads(reader') /\ reader'.shifted
        BY <2>1, <3>1, <3>2, PageReader
      <4>2. QED
        BY <4>1 DEF NumbersInv, Reads
    <3>3. CASE ~reader.shifted
      <4>1. /\ reader.page \in Nat
            /\ reader.start \subseteq Present(reader.list)
            /\ reader.shown \subseteq Present(reader.list)
            /\ \A i \in reader.start \ reader.shown :
                 Tied(reader.list, i, reader.shown) \/ Behind(reader.list, i, reader.page)
        BY <2>3, <3>3 DEF NumbersInv
      <4>2. reader.page + 1 \in Nat \ {0} /\ (reader.page + 1) - 1 = reader.page
        BY <4>1
      <4>3. PICK k : k = reader.page + 1
        OBVIOUS
      <4>4. QED
        BY <2>1, <2>3, <3>1, <4>1, <4>2, <4>3, PageTurned
    <3>4. QED
      BY <3>2, <3>3
  <2>4. QED
    BY <2>2, <2>3
<1>5. QED
  BY <1>3, <1>4

LEMMA NumbersInductive ==
  HandsInv /\ PlacesTyped /\ NumbersInv /\ [Next]_vars => NumbersInv'
BY StepKinds, NumbersStay, NumbersCount, NumbersTurn

LEMMA PlacesInitial == Init => PlacesTyped
BY NumberAssumption DEF Init, ListingInit, PlacesTyped, JobsDated, Times, Idle

LEMMA HandsAndPlaces == Spec => [](HandsInv /\ PlacesTyped)
<1>1. HandsInv /\ PlacesTyped /\ [Next]_vars => (HandsInv /\ PlacesTyped)'
  BY HandsInductive, PlacesKept
<1>2. QED
  BY <1>1, HandsInitial, PlacesInitial, PTL DEF Spec

\* Turning the numbered pages of a list to the last shows every entry that was there at the
\* first, or another of the same date or name, unless an entry left or moved in the meantime:
\* for any list, page size and order of equal places, whatever appears on whatever page.
THEOREM NumbersMissOnlyShifts == Spec => []NumbersMissOnlyWhatShifts
<1>1. Init => NumbersInv
  BY NoneAssumption, ListKinds DEF Init, ListingInit, Closed, NumbersInv, Reads
<1>2. NumbersInv => NumbersMissOnlyWhatShifts
  BY DEF NumbersInv, NumbersMissOnlyWhatShifts, Tied
<1>3. QED
  BY <1>1, <1>2, NumbersInductive, HandsAndPlaces, PTL DEF Spec

-----------------------------------------------------------------------------
(* Pages by cursor                                                         *)

\* Entries are in one order, by place and identifier.
LEMMA RanksAreOrdered ==
  ASSUME PlacesTyped, NEW l \in Lists
  PROVE  /\ \A i \in Present(l) : Rank(l, i).c \in Nat /\ Rank(l, i).i = i /\ i \in Nat
         /\ \A i, j \in Present(l) : i # j => Below(Rank(l, i), Rank(l, j)) \/ Below(Rank(l, j), Rank(l, i))
         /\ \A i, j \in Present(l) : Below(Rank(l, i), Rank(l, j)) =>
              i # j /\ ~Below(Rank(l, j), Rank(l, i))
         /\ \A i, j, k \in Present(l) :
              Below(Rank(l, i), Rank(l, j)) /\ Below(Rank(l, j), Rank(l, k)) => Below(Rank(l, i), Rank(l, k))
<1>1. \A i \in Present(l) : Rank(l, i).c \in Nat /\ Rank(l, i).i = i /\ i \in Nat
  BY PlacesAreDates DEF Rank
<1>2. QED
  BY <1>1 DEF Below

HigherThan(l, i, rest) == {j \in rest : Below(Rank(l, i), Rank(l, j))}

LEMMA LowerHasMoreAbove ==
  ASSUME PlacesTyped, NEW l \in Lists, NEW rest \in SUBSET Present(l),
         NEW i \in rest, NEW j \in rest, Below(Rank(l, i), Rank(l, j))
  PROVE  Above(l, j, rest) < Above(l, i, rest)
<1> DEFINE up(k) == HigherThan(l, k, rest)
<1>1. \A k : Above(l, k, rest) = Cardinality(up(k)) /\ up(k) \in SUBSET Present(l)
  BY DEF Above, HigherThan
<1>2. \A k : IsFiniteSet(up(k)) /\ Cardinality(up(k)) \in Nat
  BY <1>1, ListsAreFinite
<1>3. j \notin up(j) /\ up(j) \cup {j} \subseteq up(i)
  BY RanksAreOrdered DEF HigherThan
<1>4. Cardinality(up(j) \cup {j}) = Cardinality(up(j)) + 1
  BY <1>2, <1>3, FS_AddElement
<1>5. Cardinality(up(j) \cup {j}) <= Cardinality(up(i))
  BY <1>2, <1>3, FS_Subset
<1>6. QED
  BY <1>1, <1>2, <1>4, <1>5

\* Every number of entries has an entry that they, and only they, are above.
LEMMA EveryRankIsHeld ==
  ASSUME PlacesTyped, NEW l \in Lists, NEW rest \in SUBSET Present(l),
         NEW k \in Nat, k < Cardinality(rest)
  PROVE  \E i \in rest : Above(l, i, rest) = k
<1> DEFINE n == Cardinality(rest)
<1> DEFINE above == [i \in rest |-> Above(l, i, rest)]
<1>1. IsFiniteSet(rest) /\ n \in Nat
  BY ListsAreFinite
<1>2. ASSUME NEW i \in rest
      PROVE  above[i] \in 0 .. (n - 1)
  <2>1. HigherThan(l, i, rest) \subseteq rest \ {i}
    BY RanksAreOrdered DEF HigherThan
  <2>2. IsFiniteSet(rest \ {i}) /\ Cardinality(rest \ {i}) = n - 1
    BY <1>1, FS_RemoveElement
  <2>3. /\ Cardinality(HigherThan(l, i, rest)) <= n - 1
        /\ Cardinality(HigherThan(l, i, rest)) \in Nat
    BY <2>1, <2>2, FS_Subset, FS_CardinalityType
  <2>4. above[i] = Cardinality(HigherThan(l, i, rest))
    BY DEF Above, HigherThan
  <2>5. QED
    BY <1>1, <2>3, <2>4
<1>3. \A i, j \in rest : above[i] = above[j] => i = j
  <2> SUFFICES ASSUME NEW i \in rest, NEW j \in rest, i # j PROVE above[i] # above[j]
    OBVIOUS
  <2>1. Below(Rank(l, i), Rank(l, j)) \/ Below(Rank(l, j), Rank(l, i))
    BY RanksAreOrdered
  <2>2. above[i] \in Int /\ above[j] \in Int
    BY <1>2
  <2>3. above[i] < above[j] \/ above[j] < above[i]
    BY <2>1, LowerHasMoreAbove
  <2>4. QED
    BY <2>2, <2>3
<1>4. above \in [rest -> 0 .. (n - 1)]
  BY <1>2
<1> HIDE DEF above
<1>5. above \in Injection(rest, 0 .. (n - 1))
  <2>1. DOMAIN above = rest
    BY <1>4
  <2>2. IsInjective(above)
    BY <1>3, <2>1 DEF IsInjective
  <2>3. QED
    BY <1>4, <2>2 DEF Injection
<1>6. IsFiniteSet(0 .. (n - 1)) /\ Cardinality(0 .. (n - 1)) = n
  <2>1. PICK m : m \in Int /\ m = n - 1
    BY <1>1
  <2>2. PICK z : z \in Int /\ z = 0
    OBVIOUS
  <2>3. IsFiniteSet(z .. m) /\ Cardinality(z .. m) = IF z > m THEN 0 ELSE m - z + 1
    BY <2>1, <2>2, FS_Interval, Zenon
  <2>4. QED
    BY <1>1, <2>1, <2>2, <2>3
<1>7. above \in Surjection(rest, 0 .. (n - 1))
  BY <1>5, <1>6, FS_Injection
<1>8. k \in 0 .. (n - 1)
  BY <1>1
<1>9. \E i \in rest : above[i] = k
  BY <1>7, <1>8 DEF Surjection
<1>10. QED
  BY <1>9 DEF above

\* A page that is not the last ends where the rest begins.
LEMMA PageEnds ==
  ASSUME PlacesTyped, NEW l \in Lists, NEW rest \in SUBSET Present(l),
         Cardinality(rest) > PageSize, NEW last, last = LastShown(l, rest)
  PROVE  /\ last \in rest
         /\ \A i \in Items(l, rest) : ~Below(Rank(l, i), Rank(l, last))
         /\ \A i \in rest \ Items(l, rest) : Below(Rank(l, i), Rank(l, last))
<1>1. PageSize - 1 \in Nat /\ PageSize - 1 < Cardinality(rest)
  BY ListsAreFinite, NumberAssumption
<1>2. last \in rest /\ Above(l, last, rest) = PageSize - 1
  BY <1>1, EveryRankIsHeld DEF LastShown
<1>3. \A i \in rest : Above(l, i, rest) \in Nat
  BY ListsAreFinite DEF Above
<1>4. ASSUME NEW i \in Items(l, rest)
      PROVE  ~Below(Rank(l, i), Rank(l, last))
  <2>1. i \in rest /\ Above(l, i, rest) < PageSize
    BY DEF Items
  <2>2. Below(Rank(l, i), Rank(l, last)) => Above(l, last, rest) < Above(l, i, rest)
    BY <1>2, <2>1, LowerHasMoreAbove
  <2>3. QED
    BY <1>1, <1>2, <1>3, <2>1, <2>2, NumberAssumption
<1>5. ASSUME NEW i \in rest \ Items(l, rest)
      PROVE  Below(Rank(l, i), Rank(l, last))
  <2>1. Above(l, i, rest) >= PageSize
    BY <1>3, NumberAssumption DEF Items
  <2>2. Below(Rank(l, last), Rank(l, i)) => Above(l, i, rest) < Above(l, last, rest)
    BY <1>2, LowerHasMoreAbove
  <2>3. ~Below(Rank(l, last), Rank(l, i)) /\ i # last
    BY <1>1, <1>2, <1>3, <2>1, <2>2, NumberAssumption
  <2>4. QED
    BY <1>2, <2>3, RanksAreOrdered
<1>6. QED
  BY <1>2, <1>4, <1>5

LEMMA LastPageShowsAll ==
  ASSUME PlacesTyped, NEW l \in Lists, NEW rest \in SUBSET Present(l),
         ~(Cardinality(rest) > PageSize)
  PROVE  Items(l, rest) = rest
<1>1. ASSUME NEW i \in rest
      PROVE  Above(l, i, rest) < PageSize
  <2>1. HigherThan(l, i, rest) \subseteq rest \ {i}
    BY RanksAreOrdered DEF HigherThan
  <2>2. /\ IsFiniteSet(rest) /\ Cardinality(rest) \in Nat
        /\ IsFiniteSet(rest \ {i}) /\ Cardinality(rest \ {i}) = Cardinality(rest) - 1
    BY ListsAreFinite, FS_RemoveElement
  <2>3. /\ Cardinality(HigherThan(l, i, rest)) <= Cardinality(rest \ {i})
        /\ Cardinality(HigherThan(l, i, rest)) \in Nat
    BY <2>1, <2>2, FS_Subset, FS_CardinalityType
  <2>4. QED
    BY <2>2, <2>3, NumberAssumption DEF Above, HigherThan
<1>2. QED
  BY <1>1 DEF Items

\* A date as the client sends it back is the beginning of its millisecond.
LEMMA Milliseconds ==
  ASSUME NEW t \in Nat
  PROVE  /\ Millisecond(t) \in Nat /\ Millisecond(t) <= t
         /\ \A s \in Nat : Millisecond(t) <= s /\ s <= t => Millisecond(s) = Millisecond(t)
<1>1. \A s \in Nat : /\ s \div Ticks \in Nat /\ s % Ticks \in Nat /\ s % Ticks < Ticks
                     /\ s = Ticks * (s \div Ticks) + (s % Ticks)
  BY NumberAssumption
<1>2. \A s \in Nat : /\ Millisecond(s) = Ticks * (s \div Ticks)
                     /\ Millisecond(s) \in Nat /\ Millisecond(s) <= s /\ s < Millisecond(s) + Ticks
  BY <1>1, NumberAssumption DEF Millisecond
<1>3. ASSUME NEW p \in Nat, NEW q \in Nat, q < p
      PROVE  Ticks * q + Ticks <= Ticks * p
  <2>1. PICK d \in Nat : p = q + 1 + d
    <3>1. p - q - 1 \in Nat /\ p = q + 1 + (p - q - 1)
      BY <1>3
    <3>2. QED
      BY <3>1
  <2>2. Ticks * p = Ticks * q + Ticks + Ticks * d /\ Ticks * d \in Nat
    BY <2>1, NumberAssumption
  <2>3. QED
    BY <2>2, NumberAssumption
<1>4. ASSUME NEW s \in Nat, Millisecond(t) <= s, s <= t
      PROVE  Millisecond(s) = Millisecond(t)
  <2>1. CASE s \div Ticks < t \div Ticks
    <3>1. Millisecond(s) + Ticks <= Millisecond(t)
      BY <1>1, <1>2, <1>3, <2>1
    <3>2. QED
      BY <1>2, <1>4, <3>1, NumberAssumption
  <2>2. CASE t \div Ticks < s \div Ticks
    <3>1. Millisecond(t) + Ticks <= Millisecond(s)
      BY <1>1, <1>2, <1>3, <2>2
    <3>2. QED
      BY <1>2, <1>4, <3>1, NumberAssumption
  <2>3. CASE s \div Ticks = t \div Ticks
    BY <1>2, <2>3
  <2>4. QED
    BY <1>1, <2>1, <2>2, <2>3
<1>5. QED
  BY <1>2, <1>4

Explained(l, i, ends) ==
  l # "audit" /\ \E j \in ends : Millisecond(place[<<l, i>>]) = Millisecond(place[<<l, j>>])

Cursors == [c : Nat, i : Nat]

\* What a cursor at the last entry shown lets through, and what it loses.
LEMMA CursorCuts ==
  ASSUME PlacesTyped, NEW l \in Lists, NEW last \in Present(l), NEW i \in Present(l)
  PROVE  /\ CursorAt(l, last) \in Cursors
         /\ ~Below(Rank(l, i), Rank(l, last)) => ~Below(Rank(l, i), CursorAt(l, last))
         /\ Below(Rank(l, i), Rank(l, last)) =>
              \/ Below(Rank(l, i), CursorAt(l, last))
              \/ l # "audit" /\ Millisecond(place[<<l, i>>]) = Millisecond(place[<<l, last>>])
<1> DEFINE a == Rank(l, i)
<1> DEFINE b == Rank(l, last)
<1> DEFINE d == CursorAt(l, last)
<1>1. /\ a.c \in Nat /\ a.i = i /\ i \in Nat
      /\ b.c \in Nat /\ b.i = last /\ last \in Nat
  BY RanksAreOrdered
<1>2. d = [c |-> Millisecond(b.c), i |-> last]
  BY <1>1 DEF CursorAt, Rank
<1>3. /\ Millisecond(b.c) \in Nat /\ Millisecond(b.c) <= b.c
      /\ \A s \in Nat : Millisecond(b.c) <= s /\ s <= b.c => Millisecond(s) = Millisecond(b.c)
  BY <1>1, Milliseconds
<1>4. /\ d \in Cursors /\ d.c = Millisecond(b.c) /\ d.i = last
  BY <1>1, <1>2, <1>3 DEF Cursors
<1>5. /\ l = "audit" => a.c = 0 /\ b.c = 0
      /\ l # "audit" => a.c = place[<<l, i>>] /\ b.c = place[<<l, last>>]
  BY DEF Rank
<1> HIDE DEF a, b, d
<1>6. ~Below(a, b) => ~Below(a, d)
  BY <1>1, <1>3, <1>4 DEF Below
<1>7. Below(a, b) => Below(a, d) \/ (l # "audit" /\ Millisecond(a.c) = Millisecond(b.c))
  BY <1>1, <1>3, <1>4, <1>5 DEF Below
<1>8. QED
  BY <1>4, <1>5, <1>6, <1>7 DEF a, b, d

CursorsInv ==
  /\ Reads(reader)
  /\ reader.list \in Lists \ Numbered =>
       /\ ~reader.twice
       /\ reader.start \subseteq Present(reader.list)
       /\ reader.shown \subseteq Present(reader.list)
       /\ reader.ends \subseteq Present(reader.list)
       /\ reader.state \in {"more", "end"}
       /\ reader.state = "more" =>
            /\ reader.cursor \in Cursors
            /\ \A i \in reader.shown : ~Below(Rank(reader.list, i), reader.cursor)
       /\ \A i \in reader.start \ reader.shown :
            \/ Explained(reader.list, i, reader.ends)
            \/ reader.state = "more" /\ Below(Rank(reader.list, i), reader.cursor)

LEMMA NoneIsNoCursor == None \notin Cursors
BY NoneAssumption DEF Cursors

\* What is shown, and where the page ends.
PageShown(r, l, rest) ==
  /\ Reads(reader') /\ reader'.list = l /\ reader'.start = r.start
  /\ reader'.shown = r.shown \cup Items(l, rest)
  /\ r.twice = FALSE /\ Items(l, rest) \cap r.shown = {} => ~reader'.twice
  /\ IF Cardinality(rest) > PageSize
     THEN /\ reader'.state = "more" /\ reader'.ends = r.ends \cup {LastShown(l, rest)}
          /\ reader'.cursor = CursorAt(l, LastShown(l, rest))
     ELSE reader'.state = "end" /\ reader'.ends = r.ends

LEMMA CursorPage ==
  ASSUME NEW r, Reads(r), NEW cursor, ByCursor(r, cursor), NEW l, l = r.list,
         NEW rest, rest = {i \in Present(l) : cursor # None => Below(Rank(l, i), cursor)}
  PROVE  PageShown(r, l, rest)
<1> DEFINE turned == [r EXCEPT !.shown = @ \cup Items(l, rest),
                               !.twice = @ \/ Items(l, rest) \cap r.shown # {}]
<1>1. /\ Reads(turned) /\ turned.list = l /\ turned.start = r.start /\ turned.ends = r.ends
      /\ turned.shown = r.shown \cup Items(l, rest)
      /\ r.twice = FALSE /\ Items(l, rest) \cap r.shown = {} => ~turned.twice
  BY DEF Reads
<1>2. reader' = IF Cardinality(rest) > PageSize
                THEN [turned EXCEPT !.state = "more", !.ends = @ \cup {LastShown(l, rest)},
                                    !.cursor = CursorAt(l, LastShown(l, rest))]
                ELSE [turned EXCEPT !.state = "end", !.cursor = None]
  BY DEF ByCursor
<1> HIDE DEF turned
<1>3. CASE Cardinality(rest) > PageSize
  <2>1. reader' = [turned EXCEPT !.state = "more", !.ends = @ \cup {LastShown(l, rest)},
                                 !.cursor = CursorAt(l, LastShown(l, rest))]
    BY <1>2, <1>3
  <2>2. QED
    BY <1>1, <1>3, <2>1 DEF Reads, PageShown
<1>4. CASE ~(Cardinality(rest) > PageSize)
  <2>1. reader' = [turned EXCEPT !.state = "end", !.cursor = None]
    BY <1>2, <1>4
  <2>2. QED
    BY <1>1, <1>4, <2>1 DEF Reads, PageShown
<1>5. QED
  BY <1>3, <1>4

LEMMA TurnedPage ==
  ASSUME NEW r, Reads(r), NEW cursor, ByCursor(r, cursor), NEW l, l = r.list
  PROVE  \E rest :
           /\ rest = {i \in Present(l) : cursor # None => Below(Rank(l, i), cursor)}
           /\ PageShown(r, l, rest)
BY CursorPage

LEMMA CursorTurned ==
  ASSUME PlacesTyped, NEW r, Reads(r), NEW l \in Lists \ Numbered, l = r.list,
         NEW cursor \in Cursors \cup {None}, ByCursor(r, cursor), place' = place,
         r.twice = FALSE, r.start \subseteq Present(l),
         r.shown \subseteq Present(l), r.ends \subseteq Present(l),
         cursor = None => r.shown = {},
         \A i \in r.shown : ~Below(Rank(l, i), cursor),
         \A i \in r.start \ r.shown :
           Explained(l, i, r.ends) \/ cursor = None \/ Below(Rank(l, i), cursor)
  PROVE  CursorsInv'
<1>0. PICK rest :
        /\ rest = {i \in Present(l) : cursor # None => Below(Rank(l, i), cursor)}
        /\ PageShown(r, l, rest)
  BY TurnedPage
<1> DEFINE items == Items(l, rest)
<1> DEFINE last == LastShown(l, rest)
<1>1. /\ Reads(reader') /\ reader'.list = l /\ reader'.start = r.start
      /\ reader'.shown = r.shown \cup items
      /\ r.twice = FALSE /\ items \cap r.shown = {} => ~reader'.twice
      /\ IF Cardinality(rest) > PageSize
         THEN /\ reader'.state = "more" /\ reader'.ends = r.ends \cup {last}
              /\ reader'.cursor = CursorAt(l, last)
         ELSE reader'.state = "end" /\ reader'.ends = r.ends
  BY <1>0 DEF PageShown
<1>2. items \subseteq rest /\ rest \subseteq Present(l)
  BY <1>0 DEF Items
<1>3. items \cap r.shown = {}
  BY <1>0, <1>2, NoneIsNoCursor
<1>4. \A i \in r.start \ r.shown : Explained(l, i, r.ends) \/ i \in rest
  BY <1>0
<1> HIDE DEF items, last
<1>5. CASE Cardinality(rest) > PageSize
  <2>1. PICK e : e = last
    OBVIOUS
  <2>2. /\ e \in rest
        /\ \A i \in items : ~Below(Rank(l, i), Rank(l, e))
        /\ \A i \in rest \ items : Below(Rank(l, i), Rank(l, e))
    BY <1>2, <1>5, <2>1, PageEnds DEF items, last
  <2>3. CursorAt(l, e) \in Cursors
    BY <1>2, <2>2, CursorCuts
  <2>4. \A i \in r.shown : ~Below(Rank(l, i), Rank(l, e))
    <3> SUFFICES ASSUME NEW i \in r.shown PROVE ~Below(Rank(l, i), Rank(l, e))
      OBVIOUS
    <3>1. cursor \in Cursors /\ ~Below(Rank(l, i), cursor) /\ Below(Rank(l, e), cursor)
      BY <1>0, <2>2, NoneIsNoCursor
    <3>2. /\ Rank(l, i).c \in Nat /\ Rank(l, i).i \in Nat
          /\ Rank(l, e).c \in Nat /\ Rank(l, e).i \in Nat
      BY <1>2, <2>2, RanksAreOrdered
    <3>3. cursor.c \in Nat /\ cursor.i \in Nat
      BY <3>1 DEF Cursors
    <3>4. QED
      BY <3>1, <3>2, <3>3 DEF Below
  <2>5. \A i \in r.shown \cup items : ~Below(Rank(l, i), CursorAt(l, e))
    BY <1>2, <2>2, <2>4, CursorCuts
  <2>6. \A i \in r.start \ (r.shown \cup items) :
          Explained(l, i, r.ends \cup {e}) \/ Below(Rank(l, i), CursorAt(l, e))
    <3> SUFFICES ASSUME NEW i \in r.start \ (r.shown \cup items)
                 PROVE  Explained(l, i, r.ends \cup {e}) \/ Below(Rank(l, i), CursorAt(l, e))
      OBVIOUS
    <3>1. CASE Explained(l, i, r.ends)
      BY <3>1 DEF Explained
    <3>2. CASE i \in rest
      <4>1. Below(Rank(l, i), Rank(l, e))
        BY <2>2, <3>2
      <4>2. \/ Below(Rank(l, i), CursorAt(l, e))
            \/ l # "audit" /\ Millisecond(place[<<l, i>>]) = Millisecond(place[<<l, e>>])
        BY <1>2, <2>2, <4>1, CursorCuts
      <4>3. QED
        BY <4>2 DEF Explained
    <3>3. QED
      BY <1>4, <3>1, <3>2
  <2>7. /\ reader'.state = "more" /\ reader'.ends = r.ends \cup {e}
        /\ reader'.cursor = CursorAt(l, e) /\ ~reader'.twice
    BY <1>1, <1>3, <1>5, <2>1
  <2>8. (/\ ~reader.twice
         /\ reader.start \subseteq Present(l) /\ reader.shown \subseteq Present(l)
         /\ reader.ends \subseteq Present(l) /\ reader.state = "more"
         /\ reader.cursor \in Cursors
         /\ \A i \in reader.shown : ~Below(Rank(l, i), reader.cursor)
         /\ \A i \in reader.start \ reader.shown :
              Explained(l, i, reader.ends) \/ Below(Rank(l, i), reader.cursor))'
    BY <1>1, <1>2, <2>2, <2>3, <2>5, <2>6, <2>7 DEF Explained, Present, Rank
  <2>9. QED
    BY <1>1, <2>8 DEF CursorsInv, Present, Rank, Explained
<1>6. CASE ~(Cardinality(rest) > PageSize)
  <2>1. items = rest
    BY <1>2, <1>6, LastPageShowsAll DEF items
  <2>2. reader'.state = "end" /\ reader'.ends = r.ends /\ ~reader'.twice
    BY <1>1, <1>3, <1>6
  <2>3. (/\ ~reader.twice
         /\ reader.start \subseteq Present(l) /\ reader.shown \subseteq Present(l)
         /\ reader.ends \subseteq Present(l) /\ reader.state = "end"
         /\ \A i \in reader.start \ reader.shown : Explained(l, i, reader.ends))'
    BY <1>1, <1>2, <1>4, <2>1, <2>2 DEF Explained, Present
  <2>4. QED
    BY <1>1, <2>3 DEF CursorsInv, Present, Explained
<1>7. QED
  BY <1>5, <1>6

\* The entries that were there keep their places: nothing is lost by those that appear.
LEMMA CursorsHold ==
  ASSUME CursorsInv, reader' = reader,
         reader.list \in Lists \ Numbered => Present(reader.list) \subseteq Present(reader.list)',
         reader.list \in Lists \ Numbered =>
           \A i \in Present(reader.list) : place'[<<reader.list, i>>] = place[<<reader.list, i>>]
  PROVE  CursorsInv'
<1>1. CASE reader.list \in Lists \ Numbered
  <2>1. PICK r, l : r = reader /\ l = r.list
    OBVIOUS
  <2>2. /\ r.start \subseteq Present(l) /\ r.shown \subseteq Present(l) /\ r.ends \subseteq Present(l)
        /\ r.state \in {"more", "end"}
        /\ r.state = "more" =>
             r.cursor \in Cursors /\ \A i \in r.shown : ~Below(Rank(l, i), r.cursor)
        /\ \A i \in r.start \ r.shown :
             Explained(l, i, r.ends) \/ (r.state = "more" /\ Below(Rank(l, i), r.cursor))
    BY <1>1, <2>1 DEF CursorsInv
  <2>3. Present(l) \subseteq Present(l)' /\ \A i \in Present(l) : place'[<<l, i>>] = place[<<l, i>>]
    BY <1>1, <2>1
  <2>4. \A i \in Present(l) : Rank(l, i)' = Rank(l, i)
    BY <2>3 DEF Rank
  <2>5. \A i \in r.start : Explained(l, i, r.ends) => Explained(l, i, r.ends)'
    BY <2>2, <2>3 DEF Explained
  <2>6. (/\ r.start \subseteq Present(l) /\ r.shown \subseteq Present(l) /\ r.ends \subseteq Present(l)
         /\ r.state = "more" => \A i \in r.shown : ~Below(Rank(l, i), r.cursor)
         /\ \A i \in r.start \ r.shown :
              Explained(l, i, r.ends) \/ (r.state = "more" /\ Below(Rank(l, i), r.cursor)))'
    BY <2>2, <2>3, <2>4, <2>5
  <2>7. reader' = r /\ Reads(reader)' /\ ~reader'.twice
    BY <1>1, <2>1 DEF CursorsInv, Reads
  <2>8. QED
    BY <2>1, <2>2, <2>6, <2>7 DEF CursorsInv, Explained, Present, Rank
<1>2. CASE reader.list \notin Lists \ Numbered
  BY <1>2 DEF CursorsInv, Reads
<1>3. QED
  BY <1>1, <1>2

LEMMA CursorsStay ==
  ASSUME PlacesTyped, CursorsInv, Stays \/ Appears \/ Shifts
  PROVE  CursorsInv'
<1>1. CASE Stays
  BY <1>1, CursorsHold DEF Stays, Present
<1>2. CASE Appears
  <2>1. reader' = reader
    BY <1>2 DEF Appears
  <2>2. QED
    BY <1>2, <2>1, AppearsBehind, CursorsHold
<1>3. CASE Shifts
  <2>1. PICK m \in Numbered, j \in Ids, t \in Times \cup {None} :
          Shift(m) /\ place' = [place EXCEPT ![<<m, j>>] = t]
    BY <1>3 DEF Shifts
  <2>2. CASE reader.list = m
    <3>1. reader' = [reader EXCEPT !.shifted = TRUE]
      BY <2>1, <2>2 DEF Shift
    <3>2. QED
      BY <2>2, <3>1 DEF CursorsInv, Reads
  <2>3. CASE reader.list # m
    <3>1. PICK l : l = reader.list
      OBVIOUS
    <3>2. reader' = reader
      BY <2>1, <2>3 DEF Shift
    <3>3. \A i \in Ids : place'[<<l, i>>] = place[<<l, i>>]
      BY <2>1, <2>3, <3>1 DEF PlacesTyped
    <3>4. Present(l)' = Present(l)
      BY <3>3 DEF Present
    <3>5. \A i \in Present(l) : place'[<<l, i>>] = place[<<l, i>>]
      BY <3>3 DEF Present
    <3>6. (Present(reader.list) \subseteq Present(reader.list)')
            /\ \A i \in Present(reader.list) : place'[<<reader.list, i>>] = place[<<reader.list, i>>]
      BY <3>1, <3>2, <3>4, <3>5 DEF Present
    <3>7. QED
      BY <3>2, <3>6, CursorsHold
  <2>4. QED
    BY <2>2, <2>3
<1>4. QED
  BY <1>1, <1>2, <1>3

LEMMA CursorsTurn ==
  ASSUME PlacesTyped, CursorsInv, Opens \/ NextPage
  PROVE  CursorsInv'
<1>1. ASSUME NEW r, Reads(r), r.list \in Numbered, NEW k, ByNumber(r, k)
      PROVE  CursorsInv'
  BY <1>1, PageReader DEF CursorsInv, Reads
<1>2. ASSUME NEW l \in Lists \ Numbered, place' = place, ByCursor(Opened(l), None)
      PROVE  CursorsInv'
  <2>1. PICK r : r = Opened(l)
    OBVIOUS
  <2>2. /\ Reads(r) /\ l = r.list /\ r.start = Present(l)
        /\ r.shown = {} /\ r.ends = {} /\ r.twice = FALSE
    BY <2>1, OpenedShape
  <2>3. ByCursor(r, None) /\ None \in Cursors \cup {None}
    BY <1>2, <2>1
  <2>4. PICK c : c = None
    OBVIOUS
  <2>5. QED
    BY <1>2, <2>2, <2>3, <2>4, CursorTurned
<1>3. CASE Opens
  BY <1>1, <1>2, <1>3, OpenedShape DEF Opens
<1>4. CASE NextPage
  <2>1. reader.state = "more" /\ place' = place /\ Reads(reader)
    BY <1>4 DEF NextPage, CursorsInv
  <2>2. CASE reader.list \in Numbered
    BY <1>1, <1>4, <2>1, <2>2 DEF NextPage
  <2>3. CASE reader.list \notin Numbered
    <3>1. PICK r, c, l : r = reader /\ c = r.cursor /\ l = r.list
      OBVIOUS
    <3>2. ByCursor(r, c)
      BY <1>4, <2>3, <3>1 DEF NextPage
    <3>3. CASE l \in Lists
      <4>1. /\ ~r.twice
            /\ r.start \subseteq Present(l) /\ r.shown \subseteq Present(l)
            /\ r.ends \subseteq Present(l)
            /\ c \in Cursors /\ \A i \in r.shown : ~Below(Rank(l, i), c)
            /\ \A i \in r.start \ r.shown : Explained(l, i, r.ends) \/ Below(Rank(l, i), c)
        BY <2>1, <2>3, <3>1, <3>3 DEF CursorsInv
      <4>2. r.twice = FALSE
        BY <4>1
      <4>3. QED
        BY <2>1, <2>3, <3>1, <3>2, <3>3, <4>1, <4>2, NoneIsNoCursor, CursorTurned
    <3>4. CASE l \notin Lists
      BY <2>1, <3>1, <3>2, <3>4, CursorReader DEF CursorsInv, Reads
    <3>5. QED
      BY <3>3, <3>4
  <2>4. QED
    BY <2>2, <2>3
<1>5. QED
  BY <1>3, <1>4

LEMMA CursorsInductive ==
  HandsInv /\ PlacesTyped /\ CursorsInv /\ [Next]_vars => CursorsInv'
<1>1. ASSUME CursorsInv, Count
      PROVE  CursorsInv'
  <2>1. reader.list \notin Lists \ Numbered
    BY <1>1 DEF CursorsInv, Count
  <2>2. reader'.list = reader.list /\ Reads(reader')
    BY <1>1 DEF CursorsInv, Count, Reads
  <2>3. QED
    BY <2>1, <2>2 DEF CursorsInv, Reads
<1>2. QED
  BY <1>1, StepKinds, CursorsStay, CursorsTurn

\* Continuing an inbox, the directory or the audit log from cursor to cursor shows no entry
\* twice and misses, of those that were there at the first page, only ones of the millisecond
\* at which a page ended: whatever appears in the meantime, and at whatever date.
THEOREM CursorsMissAMillisecond == Spec => []CursorsMissOnlyAMillisecond
<1>1. Init => CursorsInv
  BY NoneAssumption DEF Init, ListingInit, Closed, CursorsInv, Reads
<1>2. CursorsInv => CursorsMissOnlyAMillisecond
  BY DEF CursorsInv, CursorsMissOnlyAMillisecond, Explained
<1>3. QED
  BY <1>1, <1>2, CursorsInductive, HandsAndPlaces, PTL DEF Spec

-----------------------------------------------------------------------------
(* Types                                                                   *)

Views ==
  [list : Lists \cup {None}, state : {"closed", "count", "more", "end"},
   page : 0 .. Cardinality(Ids) + 1, cursor : [c : Times, i : Ids] \cup {None},
   start : SUBSET Ids, shown : SUBSET Ids, ends : SUBSET Ids, twice : BOOLEAN, shifted : BOOLEAN]

\* Who turns pages by their number finds more only while there are entries that no page has
\* shown: the number stays below that of the entries.
ReaderTyped ==
  /\ reader \in Views
  /\ reader.state # "closed" => reader.list \in Lists
  /\ reader.list \in Numbered /\ reader.state = "more" => reader.page < Cardinality(Ids)

LEMMA IdsAreFinite ==
  /\ Cardinality(Ids) \in Nat /\ 0 \in Times
  /\ \A l : /\ Present(l) \subseteq Ids
            /\ Cardinality(Present(l)) \in Nat /\ Cardinality(Present(l)) <= Cardinality(Ids)
<1>1. Cardinality(Ids) \in Nat /\ 0 \in Times
  BY FiniteAssumption, NumberAssumption, FS_CardinalityType DEF Times
<1>2. ASSUME NEW l
      PROVE  /\ Present(l) \subseteq Ids
             /\ Cardinality(Present(l)) \in Nat /\ Cardinality(Present(l)) <= Cardinality(Ids)
  <2>1. Present(l) \in SUBSET Ids
    BY DEF Present
  <2>2. QED
    BY <2>1, FiniteAssumption, FS_Subset, FS_CardinalityType
<1>3. QED
  BY <1>1, <1>2

LEMMA OpenedTyped ==
  ASSUME NEW l \in Lists
  PROVE  Opened(l) \in Views /\ Opened(l).list = l
<1>1. PICK here \in SUBSET Ids : here = Present(l)
  BY IdsAreFinite
<1>2. 0 \in 0 .. Cardinality(Ids) + 1
  BY IdsAreFinite
<1>3. Closed \in Views
  BY <1>2 DEF Closed, Views
<1>4. Opened(l) = [Closed EXCEPT !.list = l, !.start = here]
  BY <1>1 DEF Opened
<1>5. QED
  BY <1>3, <1>4 DEF Views

LEMMA NumberedPage ==
  ASSUME NEW r \in Views, r.list \in Lists, NEW k \in 0 .. Cardinality(Ids) + 1, ByNumber(r, k)
  PROVE  ReaderTyped'
<1>1. PICK items \in SUBSET Present(r.list) :
        reader' = [r EXCEPT !.shown = r.shown \cup items, !.page = k, !.state = "count"]
  BY DEF ByNumber
<1>2. r.shown \cup items \in SUBSET Ids
  BY <1>1, IdsAreFinite DEF Views
<1>3. reader' \in Views /\ reader'.state = "count" /\ reader'.list = r.list
  BY <1>1, <1>2 DEF Views
<1>4. QED
  BY <1>3 DEF ReaderTyped, Views

LEMMA CursorTyped ==
  ASSUME PlacesTyped, NEW l \in Lists, NEW i \in Present(l)
  PROVE  CursorAt(l, i) \in [c : Times, i : Ids]
<1>1. /\ Rank(l, i) \in [c : Times, i : Ids]
  BY PlacesAreDates, IdsAreFinite DEF Rank
<1>2. PICK t \in Times : t = Rank(l, i).c
  BY <1>1
<1>3. t \in Nat /\ Millisecond(t) \in Nat /\ Millisecond(t) <= t
  BY Milliseconds, NumberAssumption DEF Times
<1>4. Millisecond(t) \in Times
  BY <1>3, NumberAssumption DEF Times
<1>5. CursorAt(l, i) = [Rank(l, i) EXCEPT !.c = Millisecond(t)]
  BY <1>1, <1>2 DEF CursorAt
<1>6. QED
  BY <1>1, <1>4, <1>5

LEMMA ContinuedPage ==
  ASSUME PlacesTyped, NEW r \in Views, r.list \in Lists \ Numbered, NEW cursor, ByCursor(r, cursor)
  PROVE  ReaderTyped'
<1>1. PICK l \in Lists \ Numbered : l = r.list
  OBVIOUS
<1> DEFINE rest == {i \in Present(l) : cursor # None => Below(Rank(l, i), cursor)}
<1> DEFINE turned == [r EXCEPT !.shown = @ \cup Items(l, rest),
                               !.twice = @ \/ Items(l, rest) \cap r.shown # {}]
<1>2. reader' = IF Cardinality(rest) > PageSize
                THEN [turned EXCEPT !.state = "more", !.ends = @ \cup {LastShown(l, rest)},
                                    !.cursor = CursorAt(l, LastShown(l, rest))]
                ELSE [turned EXCEPT !.state = "end", !.cursor = None]
  BY <1>1 DEF ByCursor
<1>3. turned \in Views /\ turned.list = l
  <2>1. Items(l, rest) \subseteq Ids
    BY IdsAreFinite DEF Items
  <2>2. PICK new \in SUBSET Ids : new = Items(l, rest)
    BY <2>1
  <2>3. PICK again \in BOOLEAN : again = (r.twice \/ Items(l, rest) \cap r.shown # {})
    OBVIOUS
  <2>4. turned = [r EXCEPT !.shown = r.shown \cup new, !.twice = again]
    BY <2>2, <2>3 DEF Views
  <2> HIDE DEF turned
  <2>5. QED
    BY <1>1, <2>2, <2>3, <2>4 DEF Views
<1>4. rest \in SUBSET Present(l)
  OBVIOUS
<1> HIDE DEF turned, rest
<1>5. CASE Cardinality(rest) > PageSize
  <2>1. PICK last : last = LastShown(l, rest)
    OBVIOUS
  <2>2. last \in Present(l)
    BY <1>1, <1>4, <1>5, <2>1, PageEnds
  <2>3. last \in Ids /\ CursorAt(l, last) \in [c : Times, i : Ids]
    BY <1>1, <2>2, IdsAreFinite, CursorTyped
  <2>4. PICK at \in [c : Times, i : Ids] : at = CursorAt(l, last)
    BY <2>3
  <2>5. reader' = [turned EXCEPT !.state = "more", !.ends = turned.ends \cup {last}, !.cursor = at]
    BY <1>2, <1>5, <2>1, <2>4
  <2>6. reader' \in Views /\ reader'.list = l
    BY <1>3, <2>3, <2>5 DEF Views
  <2>7. QED
    BY <1>1, <2>6 DEF ReaderTyped, Views
<1>6. CASE ~(Cardinality(rest) > PageSize)
  <2>1. reader' = [turned EXCEPT !.state = "end", !.cursor = None]
    BY <1>2, <1>6
  <2>2. reader' \in Views /\ reader'.list = l
    BY <1>3, <2>1 DEF Views
  <2>3. QED
    BY <1>1, <2>2 DEF ReaderTyped, Views
<1>7. QED
  BY <1>5, <1>6

LEMMA CountTyped ==
  ASSUME ReaderTyped, Count
  PROVE  ReaderTyped'
<1>1. PICK r \in Views : r = reader
  BY DEF ReaderTyped
<1>2. PICK n \in Nat : n = Cardinality(Present(r.list)) /\ n <= Cardinality(Ids)
  BY IdsAreFinite
<1>3. PICK state \in {"more", "end"} :
        state = IF r.page * PageSize < n THEN "more" ELSE "end"
  OBVIOUS
<1>4. reader' = [r EXCEPT !.state = state] /\ r.list \in Lists
  BY <1>1, <1>2, <1>3 DEF Count, ReaderTyped
<1>5. reader' \in Views /\ reader'.state = state /\ reader'.list = r.list /\ reader'.page = r.page
  BY <1>4 DEF Views
<1>6. ASSUME state = "more"
      PROVE  r.page < Cardinality(Ids)
  <2>1. r.page * PageSize < n
    BY <1>3, <1>6
  <2>2. PICK p \in Nat : p = r.page
    BY IdsAreFinite DEF Views
  <2>3. p <= p * PageSize /\ p * PageSize \in Nat
    <3>1. PICK d \in Nat : PageSize = d + 1
      <4>1. PageSize - 1 \in Nat /\ PageSize = (PageSize - 1) + 1
        BY NumberAssumption
      <4>2. QED
        BY <4>1
    <3>2. p * PageSize = p * d + p /\ p * d \in Nat
      BY <3>1
    <3>3. QED
      BY <3>2
  <2>4. QED
    BY <1>2, <2>1, <2>2, <2>3, IdsAreFinite
<1>7. QED
  BY <1>4, <1>5, <1>6 DEF ReaderTyped

LEMMA ReaderInductive ==
  HandsInv /\ PlacesTyped /\ ReaderTyped /\ [Next]_vars => ReaderTyped'
<1> SUFFICES ASSUME HandsInv, PlacesTyped, ReaderTyped, [Next]_vars PROVE ReaderTyped'
  OBVIOUS
<1>1. CASE Stays \/ Appears
  BY <1>1 DEF Stays, Appears, ReaderTyped, Views
<1>2. CASE Shifts
  <2>1. reader' = reader \/ reader' = [reader EXCEPT !.shifted = TRUE]
    BY <1>2 DEF Shifts, Shift
  <2>2. reader' \in Views /\ reader'.state = reader.state /\ reader'.list = reader.list
          /\ reader'.page = reader.page
    BY <2>1 DEF ReaderTyped, Views
  <2>3. QED
    BY <2>2 DEF ReaderTyped
<1>3. CASE Opens
  <2>1. 1 \in 0 .. Cardinality(Ids) + 1
    BY IdsAreFinite
  <2>2. ASSUME NEW l \in Numbered, ByNumber(Opened(l), 1)
        PROVE  ReaderTyped'
    BY <2>1, <2>2, ListKinds, OpenedTyped, NumberedPage
  <2>3. ASSUME NEW l \in Lists \ Numbered, ByCursor(Opened(l), None)
        PROVE  ReaderTyped'
    <3>1. PICK r, c : r = Opened(l) /\ c = None
      OBVIOUS
    <3>2. QED
      BY <2>3, <3>1, OpenedTyped, ContinuedPage
  <2>4. QED
    BY <1>3, <2>2, <2>3 DEF Opens
<1>4. CASE NextPage
  <2>1. reader.state = "more" /\ reader \in Views /\ reader.list \in Lists
    BY <1>4 DEF NextPage, ReaderTyped
  <2>2. CASE reader.list \in Numbered
    <3>1. ByNumber(reader, reader.page + 1)
      BY <1>4, <2>2 DEF NextPage
    <3>2. reader.page + 1 \in 0 .. Cardinality(Ids) + 1
      BY <2>1, <2>2, IdsAreFinite DEF ReaderTyped, Views
    <3>3. PICK r, k : r = reader /\ k = reader.page + 1
      OBVIOUS
    <3>4. QED
      BY <2>1, <3>1, <3>2, <3>3, NumberedPage
  <2>3. CASE reader.list \notin Numbered
    <3>1. PICK r, c : r = reader /\ c = reader.cursor
      OBVIOUS
    <3>2. ByCursor(r, c)
      BY <1>4, <2>3, <3>1 DEF NextPage
    <3>3. QED
      BY <2>1, <2>3, <3>1, <3>2, ContinuedPage
  <2>4. QED
    BY <2>2, <2>3
<1>5. QED
  BY <1>1, <1>2, <1>3, <1>4, StepKinds, CountTyped

\* What a worker is given to go on with.
LEMMA JobFields ==
  ASSUME NEW j \in Job
  PROVE  /\ j.pc = "commit" => /\ j.user \in Users /\ j.id \in Ids /\ j.at \in Times
                               /\ j.phones \in SUBSET Phones
         /\ j.pc = "send" => j.user \in Users /\ j.id \in Ids /\ j.phones \in SUBSET Phones
         /\ j.pc = "record" => /\ j.user \in Users /\ j.id \in Ids
                               /\ j.outcome \in {"SENT", "FAILED"}
         /\ j.pc \in {"wait", "claim"} => j.user \in Users /\ j.phone \in Phones
BY DEF Job, Idle

LEMMA JobsMade ==
  ASSUME NEW u \in Users
  PROVE  /\ Idle \in Job
         /\ \A i \in Ids, t \in Times, P \in SUBSET Phones :
              [pc |-> "commit", user |-> u, id |-> i, at |-> t, phones |-> P] \in Job
         /\ \A i \in Ids, P \in SUBSET Phones :
              [pc |-> "send", user |-> u, id |-> i, phones |-> P] \in Job
         /\ \A i \in Ids, P \in SUBSET Phones, o \in {"SENT", "FAILED"} :
              [pc |-> "record", user |-> u, id |-> i, invalid |-> P, outcome |-> o] \in Job
         /\ \A p \in Phones : [pc |-> "wait", user |-> u, phone |-> p] \in Job
         /\ \A p \in Phones, F \in SUBSET Device :
              [pc |-> "claim", user |-> u, phone |-> p, freed |-> F] \in Job
BY DEF Job

Pushes == {"none", "PENDING", "SKIPPED", "SENT", "FAILED"}

MailTyped ==
  /\ read \subseteq Users \X Ids
  /\ push \in [Users \X Ids -> Pushes]
  /\ muted \subseteq Users
  /\ job \in [Workers -> Job]
  /\ underWay \in [Phones -> SUBSET (Users \X Ids)]
  /\ stray \subseteq Users \X Ids \X Phones

LEMMA JobGiven ==
  ASSUME MailTyped, NEW w \in Workers, NEW to \in Job, Goto(w, to)
  PROVE  job' \in [Workers -> Job]
BY DEF MailTyped, Goto

LEMMA MailOfNotify ==
  ASSUME HandsInv, PlacesTyped, MailTyped, NEW w \in Workers, Notify(w)
  PROVE  MailTyped'
<1>1. PICK j \in Job : j = job[w]
  BY DEF MailTyped
<1>2. ASSUME NEW u \in scope.users, NEW i \in scope.ids, BeginNotify(w, u, i)
      PROVE  MailTyped'
  <2>1. u \in Users /\ i \in Ids
    BY ScopeShape, ScopeOfLists DEF HandsInv
  <2>2. PICK P \in SUBSET Phones : P = IF PushAllowed(u, i) THEN ActivePhones(u) ELSE {}
    BY DEF ActivePhones, HandsInv, Typed, Device
  <2>3. Goto(w, [pc |-> "commit", user |-> u, id |-> i, at |-> clock, phones |-> P])
    BY <1>2, <2>2 DEF BeginNotify
  <2>4. job' \in [Workers -> Job]
    BY <2>1, <2>3, JobsMade, JobGiven DEF PlacesTyped
  <2>5. QED
    BY <1>2, <2>4 DEF BeginNotify, inbox, phones, MailTyped
<1>3. CASE CommitNotify(w)
  <2>1. /\ j.pc = "commit" /\ j.user \in Users /\ j.id \in Ids /\ j.phones \in SUBSET Phones
    BY <1>1, <1>3, JobFields DEF CommitNotify
  <2>2. \/ Goto(w, Idle)
        \/ Goto(w, [pc |-> "send", user |-> j.user, id |-> j.id, phones |-> j.phones])
    BY <1>1, <1>3 DEF CommitNotify
  <2>3. job' \in [Workers -> Job]
    BY <2>1, <2>2, JobsMade, JobGiven
  <2>4. \/ push' = push \/ push' = [push EXCEPT ![<<j.user, j.id>>] = "SKIPPED"]
        \/ push' = [push EXCEPT ![<<j.user, j.id>>] = "PENDING"]
    BY <1>1, <1>3 DEF CommitNotify
  <2>5. push' \in [Users \X Ids -> Pushes]
    BY <2>4 DEF MailTyped, Pushes
  <2>6. QED
    BY <1>3, <2>3, <2>5 DEF CommitNotify, phones, MailTyped
<1>4. CASE Send(w)
  <2>1. /\ j.pc = "send" /\ j.user \in Users /\ j.id \in Ids /\ j.phones \in SUBSET Phones
    BY <1>1, <1>4, JobFields DEF Send
  <2>2. PICK reached \in SUBSET j.phones :
          /\ stray' = stray \cup {<<j.user, j.id, p>> : p \in {p \in reached : told[p] # j.user}}
          /\ \/ Goto(w, [pc |-> "record", user |-> j.user, id |-> j.id,
                         invalid |-> j.phones \ reached, outcome |-> "SENT"])
             \/ Goto(w, [pc |-> "record", user |-> j.user, id |-> j.id,
                         invalid |-> {}, outcome |-> "FAILED"])
    BY <1>1, <1>4 DEF Send
  <2>3. j.phones \ reached \in SUBSET Phones /\ {} \in SUBSET Phones
    BY <2>1
  <2>4. job' \in [Workers -> Job]
    BY <2>1, <2>2, <2>3, JobsMade, JobGiven
  <2>5. stray' \subseteq Users \X Ids \X Phones
    BY <2>1, <2>2 DEF MailTyped
  <2>6. QED
    BY <1>4, <2>4, <2>5 DEF Send, inbox, phones, MailTyped
<1>5. CASE Record(w)
  <2>1. j.pc = "record" /\ j.user \in Users /\ j.outcome \in {"SENT", "FAILED"}
    BY <1>1, <1>5, JobFields DEF Record
  <2>2. push' = [push EXCEPT ![<<j.user, j.id>>] = j.outcome] /\ Goto(w, Idle)
    BY <1>1, <1>5 DEF Record
  <2>3. push' \in [Users \X Ids -> Pushes]
    BY <2>1, <2>2 DEF MailTyped, Pushes
  <2>4. job' \in [Workers -> Job]
    BY <2>1, <2>2, JobsMade, JobGiven
  <2>5. QED
    BY <1>5, <2>3, <2>4 DEF Record, MailTyped
<1>6. QED
  BY <1>2, <1>3, <1>4, <1>5 DEF Notify

LEMMA HandTyped ==
  ASSUME MailTyped, NEW p \in Phones, NEW u, Hand(p, u)
  PROVE  underWay' \in [Phones -> SUBSET (Users \X Ids)]
<1>1. ASSUME NEW v \in Users
      PROVE  Sending(v) \subseteq Users \X Ids
  <2> SUFFICES ASSUME NEW w \in Workers, job[w].pc \in {"commit", "send"}, job[w].user = v
               PROVE  <<v, job[w].id>> \in Users \X Ids
    BY DEF Sending
  <2>1. PICK j \in Job : j = job[w]
    BY DEF MailTyped
  <2>2. j.id \in Ids
    BY <2>1, JobFields
  <2>3. QED
    BY <2>1, <2>2
<1>2. PICK more : more = UNION {Sending(v) : v \in Users \ {u}}
  OBVIOUS
<1>3. more \subseteq Users \X Ids
  BY <1>1, <1>2
<1>4. underWay' = [underWay EXCEPT ![p] = underWay[p] \cup more]
  BY <1>2 DEF Hand
<1>5. QED
  BY <1>3, <1>4 DEF MailTyped

LEMMA MailOfRegister ==
  ASSUME HandsInv, MailTyped, NEW w \in Workers, Register(w)
  PROVE  MailTyped'
<1>1. PICK j \in Job : j = job[w]
  BY DEF MailTyped
<1>2. ASSUME NEW u \in scope.users, NEW p \in scope.phones, Free(w, u, p)
      PROVE  MailTyped'
  <2>1. u \in Users /\ p \in Phones
    BY ScopeShape DEF HandsInv
  <2>2. PICK F \in SUBSET Device : F = {d \in device : d.phone = p /\ d.user # u}
    BY DEF HandsInv, Typed
  <2>3. \/ Goto(w, [pc |-> "wait", user |-> u, phone |-> p])
        \/ Goto(w, [pc |-> "claim", user |-> u, phone |-> p, freed |-> F])
    <3>1. CASE Freeing(p)
      BY <1>2, <3>1 DEF Free
    <3>2. CASE ~Freeing(p)
      BY <1>2, <2>2, <3>2 DEF Free
    <3>3. QED
      BY <3>1, <3>2
  <2>4. job' \in [Workers -> Job]
    BY <2>1, <2>3, JobsMade, JobGiven
  <2>5. QED
    BY <1>2, <2>4 DEF Free, inbox, phones, MailTyped
<1>3. CASE Freed(w)
  <2>1. j.user \in Users /\ j.phone \in Phones
    BY <1>1, <1>3, JobFields DEF Freed
  <2>2. Goto(w, [pc |-> "claim", user |-> j.user, phone |-> j.phone, freed |-> {}])
    BY <1>1, <1>3 DEF Freed
  <2>3. {} \in SUBSET Device
    OBVIOUS
  <2>4. job' \in [Workers -> Job]
    BY <2>1, <2>2, <2>3, JobsMade, JobGiven
  <2>5. QED
    BY <1>3, <2>4 DEF Freed, inbox, phones, MailTyped
<1>4. CASE Claim(w)
  <2>1. j.user \in Users /\ j.phone \in Phones
    BY <1>1, <1>4, JobFields DEF Claim
  <2>2. Goto(w, Idle) /\ UNCHANGED <<inbox, stray>> /\ (Hand(j.phone, j.user) \/ UNCHANGED phones)
    BY <1>1, <1>4 DEF Claim
  <2>3. job' \in [Workers -> Job]
    BY <2>1, <2>2, JobsMade, JobGiven
  <2>4. underWay' \in [Phones -> SUBSET (Users \X Ids)]
    BY <2>1, <2>2, HandTyped DEF phones, MailTyped
  <2>5. QED
    BY <2>2, <2>3, <2>4 DEF inbox, MailTyped
<1>5. QED
  BY <1>2, <1>3, <1>4 DEF Register

LEMMA MailOfOwner ==
  ASSUME HandsInv, MailTyped, NEW u \in scope.users, OwnInbox(u)
  PROVE  MailTyped'
<1>1. u \in Users /\ scope.ids \subseteq Ids /\ scope.phones \subseteq Phones
  BY ScopeShape, ScopeOfLists DEF HandsInv
<1>2. CASE List(u)
  BY <1>2 DEF List, inbox, phones, MailTyped
<1>3. CASE MarkAllRead(u) \/ \E i \in scope.ids : MarkRead(u, i)
  BY <1>1, <1>3, IdsAreFinite DEF MarkAllRead, MarkRead, phones, MailTyped
<1>4. ASSUME NEW on \in BOOLEAN, SetPreferences(u, on)
      PROVE  MailTyped'
  BY <1>1, <1>4 DEF SetPreferences, phones, MailTyped
<1>5. ASSUME NEW p \in scope.phones, Unregister(u, p)
      PROVE  MailTyped'
  <2>1. underWay' \in [Phones -> SUBSET (Users \X Ids)]
    BY <1>1, <1>5, HandTyped DEF Unregister, MailTyped
  <2>2. QED
    BY <1>5, <2>1 DEF Unregister, inbox, MailTyped
<1>6. QED
  BY <1>2, <1>3, <1>4, <1>5 DEF OwnInbox

\* Notifications, phones and readers keep their types, for any accounts, phones and entries:
\* a cursor is a place in the list, and the number of a page stays within the list.
THEOREM InboxTypeCorrect == Spec => []TypeOK
<1>1. Init => ReaderTyped /\ MailTyped
  <2> SUFFICES ASSUME Init PROVE ReaderTyped /\ MailTyped
    OBVIOUS
  <2>1. ReaderTyped
    <3>1. Closed \in Views /\ Closed.state = "closed"
      BY IdsAreFinite DEF Closed, Views
    <3>2. QED
      BY <3>1 DEF Init, ListingInit, ReaderTyped
  <2>2. Idle \in Job
    BY DEF Job
  <2>3. MailTyped
    BY <2>2 DEF Init, MailTyped, Pushes
  <2>4. QED
    BY <2>1, <2>3
<1>2. HandsInv /\ PlacesTyped /\ MailTyped /\ [Next]_vars => MailTyped'
  <2> SUFFICES ASSUME HandsInv, PlacesTyped, MailTyped, [Next]_vars PROVE MailTyped'
    OBVIOUS
  <2>1. CASE ListingNext /\ UNCHANGED <<inbox, phones, job, stray>>
    BY <2>1 DEF inbox, phones, MailTyped
  <2>2. CASE UNCHANGED vars
    BY <2>2 DEF vars, inbox, phones, MailTyped
  <2>3. QED
    BY <2>1, <2>2, MailOfNotify, MailOfRegister, MailOfOwner DEF Next
<1>3. HandsInv /\ PlacesTyped /\ ReaderTyped /\ MailTyped => TypeOK
  BY DEF HandsInv, Typed, PlacesTyped, ReaderTyped, Views, MailTyped, Pushes, TypeOK, ListingTypeOK
<1>4. QED
  BY <1>1, <1>2, <1>3, ReaderInductive, HandsAndPlaces, PTL DEF Spec
=============================================================================
