------------------------- MODULE AccessControlProofs -------------------------
(***************************************************************************)
(* Theorems about AccessControl, for any number of accounts, requests and  *)
(* administrators, and any duration of the cache: the age of what a        *)
(* request is judged on, and types.                                        *)
(***************************************************************************)
EXTENDS AccessControl, TLAPS

\* Records of these fields, whatever is in them.
JobRecord(q) ==
  q \in [pc : {q.pc}, who : {q.who}, route : {q.route}, ver : {q.ver}, seen : {q.seen},
         late : {q.late}]
EntryRecord(e) == e \in [state : {e.state}, ttl : Nat]
TaskRecord(t) == t \in [who : Accounts \cup {None}, late : {t.late}]

Typed ==
  /\ row = [p \in Accounts |-> row[p]]
  /\ changed \in [Accounts -> Nat]
  /\ cache = [p \in Accounts |-> cache[p]] /\ \A p \in Accounts : EntryRecord(cache[p])
  /\ req = [r \in Requests |-> req[r]]
  /\ \A r \in Requests : JobRecord(req[r]) /\ (req[r].pc # "idle" => req[r].who \in Accounts)
  /\ adm = [a \in Admins |-> adm[a]] /\ \A a \in Admins : TaskRecord(adm[a])

\* An entry that is not the row was made at most one tick after the row changed.
EntriesOfAge ==
  \A p \in Accounts : cache[p].state # None =>
    /\ cache[p].ttl >= 1 /\ cache[p].ttl <= StateTtl
    /\ cache[p].state # row[p] => changed[p] + cache[p].ttl <= StateTtl + 1

\* A request has read the row since it began, or an entry that was still there.
Fresh(q) == IF q.late THEN 1 ELSE 0
SeenOfAge(q) ==
  /\ q.pc = "fill" /\ q.seen # row[q.who] => changed[q.who] <= Fresh(q)
  /\ q.pc \in {"limit", "access"} /\ q.seen # row[q.who] => changed[q.who] <= StateTtl + Fresh(q)
  /\ q.pc \in {"limit", "access"} => q.ver = q.seen.ver

IInv == Typed /\ EntriesOfAge /\ \A r \in Requests : SeenOfAge(req[r])

-----------------------------------------------------------------------------
(* A user's request                                                        *)

LEMMA IdleJob == JobRecord(Idle) /\ Idle.pc = "idle" /\ ~Idle.late
BY DEF Idle, JobRecord

\* A request that goes on by itself.
LEMMA RequestGoesOn ==
  ASSUME IInv, NEW r \in Requests, NEW to, req' = [req EXCEPT ![r] = to],
         UNCHANGED <<row, changed, cache, adm>>, JobRecord(to),
         to.pc # "idle" => to.who \in Accounts, SeenOfAge(to)
  PROVE  IInv'
<1>1. /\ req' = [s \in Requests |-> req'[s]]
      /\ \A s \in Requests : req'[s] = IF s = r THEN to ELSE req[s]
  BY DEF IInv, Typed
<1>2. Typed'
  BY <1>1 DEF IInv, Typed, JobRecord, EntryRecord, TaskRecord
<1>3. EntriesOfAge'
  BY DEF IInv, EntriesOfAge
<1>4. \A s \in Requests : SeenOfAge(req[s])'
  BY <1>1 DEF IInv, SeenOfAge, Fresh
<1>5. QED
  BY <1>2, <1>3, <1>4 DEF IInv

LEMMA Ended ==
  ASSUME IInv, NEW r \in Requests, req' = [req EXCEPT ![r] = Idle],
         UNCHANGED <<row, changed, cache, adm>>
  PROVE  IInv'
<1>1. SeenOfAge(Idle)
  BY IdleJob DEF SeenOfAge
<1>2. QED
  BY <1>1, IdleJob, RequestGoesOn

LEMMA PresentKeeps ==
  ASSUME IInv, NEW r \in Requests, Present(r)
  PROVE  IInv'
<1>1. PICK p \in Accounts, route \in Routes : \E ver \in 0..row[p].ver :
        req' = [req EXCEPT ![r] = [Idle EXCEPT !.pc = "cache", !.who = p,
                                               !.route = route, !.ver = ver]]
  BY DEF Present
<1>2. PICK ver \in 0..row[p].ver :
        req' = [req EXCEPT ![r] = [Idle EXCEPT !.pc = "cache", !.who = p,
                                               !.route = route, !.ver = ver]]
  BY <1>1
<1> DEFINE to == [Idle EXCEPT !.pc = "cache", !.who = p, !.route = route, !.ver = ver]
<1>3. JobRecord(to) /\ to.pc = "cache" /\ to.who = p
  BY DEF JobRecord, Idle
<1>4. req' = [req EXCEPT ![r] = to]
  BY <1>2
<1> HIDE DEF to
<1>5. SeenOfAge(to)
  BY <1>3 DEF SeenOfAge
<1>6. QED
  BY <1>3, <1>4, <1>5, RequestGoesOn DEF Present

\* What AuthGuard makes of a state it is young enough to be judged on.
LEMMA JudgedShape ==
  ASSUME NEW q, NEW state, JobRecord(q), q.pc # "idle", q.who \in Accounts,
         state # row[q.who] => changed[q.who] <= StateTtl + Fresh(q)
  PROVE  LET to == Judged(q, state)
         IN  JobRecord(to) /\ (to.pc # "idle" => to.who \in Accounts) /\ SeenOfAge(to)
<1> DEFINE to == [q EXCEPT !.pc = "limit", !.seen = state]
<1>1. /\ JobRecord(to) /\ to.pc = "limit" /\ to.who = q.who /\ to.ver = q.ver /\ to.seen = state
      /\ to.late = q.late
  BY DEF JobRecord
<1>2. CASE state.ver = q.ver
  <2>1. Judged(q, state) = to
    BY <1>2 DEF Judged
  <2> HIDE DEF to
  <2>2. SeenOfAge(to)
    BY <1>1, <1>2 DEF SeenOfAge, Fresh
  <2>3. QED
    BY <1>1, <2>1, <2>2
<1>3. CASE state.ver # q.ver
  BY <1>3, IdleJob DEF Judged, SeenOfAge
<1>4. QED
  BY <1>2, <1>3

\* UserStateService.get, and what AuthGuard makes of it.
LEMMA ReadCacheKeeps ==
  ASSUME IInv, NEW r \in Requests, ReadCache(r)
  PROVE  IInv'
<1> DEFINE q == req[r]
           hit == cache[q.who].state
<1>1. JobRecord(q) /\ q.pc = "cache" /\ q.who \in Accounts
  BY DEF IInv, Typed, ReadCache
<1>2. CASE hit # None /\ req' = [req EXCEPT ![r] = Judged(q, hit)]
  <2> DEFINE to == Judged(q, hit)
  <2>1. hit # row[q.who] => changed[q.who] <= StateTtl + Fresh(q)
    BY <1>1, <1>2, TicksAssumption DEF IInv, Typed, EntriesOfAge, EntryRecord, Fresh
  <2>2. JobRecord(to) /\ (to.pc # "idle" => to.who \in Accounts) /\ SeenOfAge(to)
    <3> HIDE DEF q, hit
    <3>1. QED
      BY <1>1, <2>1, JudgedShape
  <2>3. req' = [req EXCEPT ![r] = to]
    BY <1>2
  <2> HIDE DEF to
  <2>4. QED
    BY <2>2, <2>3, RequestGoesOn DEF ReadCache
<1>3. CASE req' = [req EXCEPT ![r].pc = "load"]
  <2> DEFINE to == [q EXCEPT !.pc = "load"]
  <2>1. JobRecord(to) /\ to.pc = "load" /\ to.who = q.who
    BY <1>1 DEF JobRecord
  <2>2. req' = [req EXCEPT ![r] = to]
    BY <1>3
  <2> HIDE DEF to
  <2>3. SeenOfAge(to)
    BY <2>1 DEF SeenOfAge
  <2>4. QED
    BY <1>1, <2>1, <2>2, <2>3, RequestGoesOn DEF ReadCache
<1>4. QED
  BY <1>2, <1>3 DEF ReadCache

LEMMA LoadRowKeeps ==
  ASSUME IInv, NEW r \in Requests, LoadRow(r)
  PROVE  IInv'
<1> DEFINE q == req[r]
           to == [q EXCEPT !.pc = "fill", !.seen = row[q.who]]
<1>1. JobRecord(q) /\ q.who \in Accounts
  BY DEF IInv, Typed, LoadRow
<1>2. JobRecord(to) /\ to.pc = "fill" /\ to.who = q.who /\ to.seen = row[to.who]
  BY <1>1 DEF JobRecord
<1>3. req' = [req EXCEPT ![r] = to]
  BY DEF LoadRow
<1> HIDE DEF to
<1>4. SeenOfAge(to)
  BY <1>2 DEF SeenOfAge
<1>5. QED
  BY <1>1, <1>2, <1>3, <1>4, RequestGoesOn DEF LoadRow

\* An entry made of what the request read a tick ago at most.
LEMMA FillCacheKeeps ==
  ASSUME IInv, NEW r \in Requests, FillCache(r)
  PROVE  IInv'
<1> DEFINE q == req[r]
           to == Judged(q, q.seen)
           e == Entry(q.seen)
<1>1. JobRecord(q) /\ q.pc = "fill" /\ q.who \in Accounts
  BY DEF IInv, Typed, FillCache
<1>2. q.seen # row[q.who] => changed[q.who] <= Fresh(q)
  BY <1>1 DEF IInv, SeenOfAge
<1>3. changed[q.who] \in Nat /\ Fresh(q) \in {0, 1}
  BY <1>1 DEF IInv, Typed, Fresh
<1>4. JobRecord(to) /\ (to.pc # "idle" => to.who \in Accounts) /\ SeenOfAge(to)
  <2>1. q.seen # row[q.who] => changed[q.who] <= StateTtl + Fresh(q)
    BY <1>2, <1>3, TicksAssumption
  <2> HIDE DEF q
  <2>2. QED
    BY <1>1, <2>1, JudgedShape
<1>5. /\ req' = [req EXCEPT ![r] = to]
      /\ cache' = [cache EXCEPT ![q.who] = e] \/ cache' = cache
      /\ UNCHANGED <<row, changed, adm>>
  BY DEF FillCache
<1>6. EntryRecord(e) /\ e.state = q.seen /\ e.ttl = StateTtl
  BY TicksAssumption DEF Entry, EntryRecord
<1> HIDE DEF to, e
<1>7. /\ cache' = [p \in Accounts |-> cache'[p]]
      /\ \A p \in Accounts : cache'[p] = cache[p] \/ (p = q.who /\ cache'[p] = e)
  BY <1>5 DEF IInv, Typed
<1>8. /\ req' = [s \in Requests |-> req'[s]]
      /\ \A s \in Requests : req'[s] = IF s = r THEN to ELSE req[s]
  BY <1>5 DEF IInv, Typed
<1>9. Typed'
  BY <1>4, <1>5, <1>6, <1>7, <1>8 DEF IInv, Typed, JobRecord, EntryRecord, TaskRecord
<1>10. EntriesOfAge'
  BY <1>2, <1>3, <1>5, <1>6, <1>7, TicksAssumption DEF IInv, EntriesOfAge
<1>11. \A s \in Requests : SeenOfAge(req[s])'
  BY <1>4, <1>5, <1>8 DEF IInv, SeenOfAge, Fresh
<1>12. QED
  BY <1>9, <1>10, <1>11 DEF IInv

LEMMA PassKeeps ==
  ASSUME IInv, NEW r \in Requests, Pass(r)
  PROVE  IInv'
<1> DEFINE q == req[r]
           on == [q EXCEPT !.pc = "access"]
           in == [q EXCEPT !.pc = "handler"]
<1>1. JobRecord(q) /\ q.pc # "idle" /\ q.who \in Accounts /\ SeenOfAge(q)
  BY DEF IInv, Typed, Pass, CountRequest, Admit, Answer
<1>2. /\ JobRecord(on) /\ on.pc = "access" /\ on.who = q.who /\ on.ver = q.ver
      /\ on.seen = q.seen /\ on.late = q.late
  BY <1>1 DEF JobRecord
<1>3. JobRecord(in) /\ in.pc = "handler" /\ in.who = q.who
  BY <1>1 DEF JobRecord
<1>4. UNCHANGED <<row, changed, cache, adm>>
  BY DEF Pass, CountRequest, Admit, Answer
<1>5. \/ req' = [req EXCEPT ![r] = Idle]
      \/ q.pc = "limit" /\ req' = [req EXCEPT ![r] = on]
      \/ req' = [req EXCEPT ![r] = in]
  BY DEF Pass, CountRequest, Admit, Answer
<1> HIDE DEF on, in
<1>6. CASE req' = [req EXCEPT ![r] = Idle]
  BY <1>4, <1>6, Ended
<1>7. CASE q.pc = "limit" /\ req' = [req EXCEPT ![r] = on]
  <2>1. SeenOfAge(on)
    BY <1>1, <1>2, <1>7 DEF SeenOfAge, Fresh
  <2>2. QED
    BY <1>1, <1>2, <1>4, <1>7, <2>1, RequestGoesOn
<1>8. CASE req' = [req EXCEPT ![r] = in]
  <2>1. SeenOfAge(in)
    BY <1>3 DEF SeenOfAge
  <2>2. QED
    BY <1>1, <1>3, <1>4, <1>8, <2>1, RequestGoesOn
<1>9. QED
  BY <1>5, <1>6, <1>7, <1>8

-----------------------------------------------------------------------------
(* The administration and the clock                                        *)

\* A change makes what was read before it young: its age is none.
LEMMA CommitKeeps ==
  ASSUME IInv, NEW a \in Admins, NEW p \in Accounts, NEW state, Commit(a, p, state)
  PROVE  IInv'
<1>1. /\ row' = [o \in Accounts |-> row'[o]] /\ \A o \in Accounts : o # p => row'[o] = row[o]
      /\ changed' \in [Accounts -> Nat] /\ changed'[p] = 0
      /\ \A o \in Accounts : o # p => changed'[o] = changed[o]
      /\ UNCHANGED <<cache, req>>
  BY DEF IInv, Typed, Commit
<1>2. adm' = [b \in Admins |-> adm'[b]] /\ \A b \in Admins : TaskRecord(adm'[b])
  BY DEF IInv, Typed, Commit, TaskRecord
<1>3. Typed'
  BY <1>1, <1>2 DEF IInv, Typed, JobRecord, EntryRecord
<1>4. EntriesOfAge'
  <2> SUFFICES ASSUME NEW o \in Accounts, cache[o].state # None
               PROVE  /\ cache[o].ttl >= 1 /\ cache[o].ttl <= StateTtl
                      /\ cache[o].state # row'[o] => changed'[o] + cache[o].ttl <= StateTtl + 1
    BY <1>1 DEF EntriesOfAge
  <2>1. cache[o].ttl \in Nat /\ StateTtl \in Nat
    BY TicksAssumption DEF IInv, Typed, EntryRecord
  <2>2. QED
    BY <1>1, <2>1 DEF IInv, EntriesOfAge
<1>5. \A s \in Requests : SeenOfAge(req[s])'
  <2> SUFFICES ASSUME NEW s \in Requests
               PROVE  SeenOfAge(req[s])'
    OBVIOUS
  <2>1. req[s].pc # "idle" => req[s].who \in Accounts
    BY DEF IInv, Typed
  <2>2. QED
    BY <1>1, <2>1, TicksAssumption DEF IInv, SeenOfAge, Fresh
<1>6. QED
  BY <1>3, <1>4, <1>5 DEF IInv

LEMMA InvalidateKeeps ==
  ASSUME IInv, NEW a \in Admins, Invalidate(a)
  PROVE  IInv'
<1>1. /\ cache' = [p \in Accounts |-> cache'[p]]
      /\ \A p \in Accounts : cache'[p] = cache[p] \/ cache'[p] = NoEntry
      /\ UNCHANGED <<row, changed, req>>
  BY DEF IInv, Typed, Invalidate
<1>2. adm' = [b \in Admins |-> adm'[b]] /\ \A b \in Admins : TaskRecord(adm'[b])
  BY DEF IInv, Typed, Invalidate, TaskRecord, NoTask
<1>3. EntryRecord(NoEntry) /\ NoEntry.state = None
  BY DEF EntryRecord, NoEntry
<1>4. Typed'
  BY <1>1, <1>2, <1>3 DEF IInv, Typed, JobRecord, EntryRecord
<1>5. EntriesOfAge'
  BY <1>1, <1>3 DEF IInv, EntriesOfAge
<1>6. \A s \in Requests : SeenOfAge(req[s])'
  BY <1>1 DEF IInv, SeenOfAge, Fresh
<1>7. QED
  BY <1>4, <1>5, <1>6 DEF IInv

LEMMA TickKeeps ==
  ASSUME IInv, Tick
  PROVE  IInv'
<1>1. /\ row' = row
      /\ changed' \in [Accounts -> Nat]
      /\ \A p \in Accounts : changed'[p] = changed[p] \/ changed'[p] = changed[p] + 1
  BY DEF IInv, Typed, Tick
<1>2. cache' = [p \in Accounts |-> cache'[p]]
  BY DEF Tick
<1>3. ASSUME NEW p \in Accounts
      PROVE  /\ EntryRecord(cache'[p])
             /\ \/ cache'[p].state = None
                \/ /\ cache'[p].state = cache[p].state
                   /\ cache'[p].ttl = cache[p].ttl - 1 /\ cache'[p].ttl >= 1
  <2>1. EntryRecord(cache[p])
    BY DEF IInv, Typed
  <2>2. cache'[p] = IF cache[p].ttl <= 1 THEN NoEntry ELSE [cache[p] EXCEPT !.ttl = @ - 1]
    BY DEF Tick
  <2>3. CASE cache[p].ttl <= 1
    BY <2>2, <2>3 DEF NoEntry, EntryRecord
  <2>4. CASE ~(cache[p].ttl <= 1)
    BY <2>1, <2>2, <2>4 DEF EntryRecord
  <2>5. QED
    BY <2>3, <2>4
<1>4. req' = [r \in Requests |-> req'[r]]
  BY DEF Tick
<1>5. ASSUME NEW r \in Requests
      PROVE  /\ JobRecord(req'[r]) /\ ~req[r].late
             /\ req'[r].pc = req[r].pc /\ req'[r].who = req[r].who /\ req'[r].ver = req[r].ver
             /\ req'[r].seen = req[r].seen /\ (req[r].pc # "idle" => req'[r].late)
  <2>1. JobRecord(req[r])
    BY DEF IInv, Typed
  <2>2. req'[r] = [req[r] EXCEPT !.late = req[r].pc # "idle"] /\ ~req[r].late
    BY DEF Tick
  <2>3. QED
    BY <2>1, <2>2 DEF JobRecord
<1>6. adm' = [a \in Admins |-> adm'[a]] /\ \A a \in Admins : TaskRecord(adm'[a])
  BY DEF IInv, Typed, Tick, TaskRecord
<1>7. Typed'
  BY <1>1, <1>2, <1>3, <1>4, <1>5, <1>6 DEF IInv, Typed
<1>8. EntriesOfAge'
  <2> SUFFICES ASSUME NEW p \in Accounts, cache'[p].state # None
               PROVE  /\ cache'[p].ttl >= 1 /\ cache'[p].ttl <= StateTtl
                      /\ cache'[p].state # row[p] => changed'[p] + cache'[p].ttl <= StateTtl + 1
    BY <1>1 DEF EntriesOfAge
  <2>1. /\ cache[p].ttl \in Nat /\ StateTtl \in Nat /\ changed[p] \in Nat
        /\ cache[p].ttl <= StateTtl
        /\ cache[p].state # row[p] => changed[p] + cache[p].ttl <= StateTtl + 1
    BY <1>3, TicksAssumption DEF IInv, Typed, EntriesOfAge, EntryRecord
  <2>2. QED
    BY <1>1, <1>3, <2>1
<1>9. ASSUME NEW r \in Requests
      PROVE  SeenOfAge(req[r])'
  <2>1. /\ SeenOfAge(req[r]) /\ StateTtl \in Nat
        /\ req[r].pc # "idle" => changed[req[r].who] \in Nat /\ req[r].who \in Accounts
    BY TicksAssumption DEF IInv, Typed
  <2>2. Fresh(req[r]) = 0 /\ (req[r].pc # "idle" => Fresh(req'[r]) = 1)
    BY <1>5 DEF Fresh
  <2>3. QED
    BY <1>1, <1>5, <2>1, <2>2 DEF SeenOfAge
<1>10. QED
  BY <1>7, <1>8, <1>9 DEF IInv

-----------------------------------------------------------------------------
(* The invariant and the theorem                                           *)

LEMMA Beginning == Init => IInv
<1> SUFFICES ASSUME Init
             PROVE  IInv
  OBVIOUS
<1>1. Typed
  <2>1. Recent + 1 \in Nat
    BY TicksAssumption DEF Recent
  <2>2. EntryRecord(NoEntry) /\ TaskRecord(NoTask)
    BY DEF EntryRecord, NoEntry, TaskRecord, NoTask
  <2>3. row = [p \in Accounts |-> row[p]] /\ changed \in [Accounts -> Nat]
    BY <2>1 DEF Init
  <2>4. cache = [p \in Accounts |-> cache[p]] /\ \A p \in Accounts : EntryRecord(cache[p])
    BY <2>2 DEF Init
  <2>5. /\ req = [r \in Requests |-> req[r]]
        /\ \A r \in Requests : JobRecord(req[r]) /\ req[r].pc = "idle"
    BY IdleJob DEF Init
  <2>6. adm = [a \in Admins |-> adm[a]] /\ \A a \in Admins : TaskRecord(adm[a])
    BY <2>2 DEF Init
  <2>7. QED
    BY <2>3, <2>4, <2>5, <2>6 DEF Typed
<1>2. EntriesOfAge /\ \A r \in Requests : SeenOfAge(req[r])
  BY IdleJob DEF Init, EntriesOfAge, NoEntry, SeenOfAge
<1>3. QED
  BY <1>1, <1>2 DEF IInv

LEMMA Keeping == IInv /\ [Next]_vars => IInv'
<1> SUFFICES ASSUME IInv, [Next]_vars
             PROVE  IInv'
  OBVIOUS
<1>1. ASSUME NEW r \in Requests, Authenticate(r)
      PROVE  IInv'
  BY <1>1, PresentKeeps, ReadCacheKeeps, LoadRowKeeps, FillCacheKeeps DEF Authenticate
<1>2. ASSUME NEW r \in Requests, Pass(r)
      PROVE  IInv'
  BY <1>2, PassKeeps
<1>3. ASSUME NEW a \in Admins, Administer(a)
      PROVE  IInv'
  BY <1>3, CommitKeeps, InvalidateKeeps DEF Administer, SetSuspended, RevokeSessions
<1>4. CASE UNCHANGED vars
  BY <1>4 DEF vars, IInv, Typed, JobRecord, EntryRecord, TaskRecord, EntriesOfAge, SeenOfAge, Fresh
<1>5. QED
  BY <1>1, <1>2, <1>3, <1>4, TickKeeps DEF Next

\* A request of an account that has not changed for Recent ticks.
SettledStep(r) ==
  LET q == req[r]
      p == q.who IN
  (p # None /\ Settled(p)) =>
    /\ (q.pc # "handler" /\ req'[r].pc = "handler") =>
         /\ q.ver = row[p].ver
         /\ ~(Suspended(p) /\ q.route \in {"write", "closed"})
    /\ (q.pc \in {"cache", "fill"} /\ req'[r].pc = "idle") => q.ver # row[p].ver

\* Only its own actions move a request on.
LEMMA OwnSteps ==
  ASSUME IInv, Next, NEW r \in Requests
  PROVE  Authenticate(r) \/ Pass(r) \/ req'[r].pc = req[r].pc
<1>1. req = [s \in Requests |-> req[s]] /\ JobRecord(req[r])
  BY DEF IInv, Typed
<1>2. ASSUME NEW s \in Requests, s # r, Authenticate(s) \/ Pass(s)
      PROVE  req'[r] = req[r]
  <2>1. \E to : req' = [req EXCEPT ![s] = to]
    <3>1. CASE Present(s)
      <4>1. PICK p \in Accounts, route \in Routes : \E ver \in 0..row[p].ver :
              req' = [req EXCEPT ![s] = [Idle EXCEPT !.pc = "cache", !.who = p,
                                                     !.route = route, !.ver = ver]]
        BY <3>1 DEF Present
      <4>2. QED
        BY <4>1
    <3>2. CASE ReadCache(s) \/ LoadRow(s) \/ FillCache(s)
      BY <3>2 DEF ReadCache, LoadRow, FillCache
    <3>3. CASE Pass(s)
      BY <3>3 DEF Pass, CountRequest, Admit, Answer
    <3>4. QED
      BY <1>2, <3>1, <3>2, <3>3 DEF Authenticate
  <2>2. QED
    BY <1>1, <1>2, <2>1
<1>3. ASSUME NEW a \in Admins, Administer(a)
      PROVE  req' = req
  BY <1>3 DEF Administer, SetSuspended, RevokeSessions, Commit, Invalidate
<1>4. CASE Tick
  <2>1. req'[r] = [req[r] EXCEPT !.late = req[r].pc # "idle"]
    BY <1>4 DEF Tick
  <2>2. QED
    BY <1>1, <2>1 DEF JobRecord
<1>5. QED
  BY <1>2, <1>3, <1>4 DEF Next

\* What it is judged on is too young not to be the row.
LEMMA StepOnSettledRow ==
  ASSUME IInv, Next, NEW r \in Requests
  PROVE  SettledStep(r)
<1> DEFINE q == req[r]
           p == q.who
<1> SUFFICES ASSUME p # None, Settled(p), req'[r].pc # q.pc
             PROVE  /\ (q.pc # "handler" /\ req'[r].pc = "handler") =>
                         /\ q.ver = row[p].ver
                         /\ ~(Suspended(p) /\ q.route \in {"write", "closed"})
                    /\ (q.pc \in {"cache", "fill"} /\ req'[r].pc = "idle") => q.ver # row[p].ver
  BY DEF SettledStep
<1>1. /\ req = [s \in Requests |-> req[s]] /\ JobRecord(q) /\ StateTtl \in Nat
      /\ q.pc # "idle" => p \in Accounts /\ changed[p] \in Nat
  BY TicksAssumption DEF IInv, Typed
<1>2. changed[p] > StateTtl + 1
  BY DEF Settled, Recent
<1>3. q.pc \in {"fill", "limit", "access"} => q.seen = row[p]
  BY <1>1, <1>2 DEF IInv, SeenOfAge, Fresh
<1>4. CASE Present(r)
  <2>1. PICK o \in Accounts, route \in Routes : \E ver \in 0..row[o].ver :
          req' = [req EXCEPT ![r] = [Idle EXCEPT !.pc = "cache", !.who = o,
                                                 !.route = route, !.ver = ver]]
    BY <1>4 DEF Present
  <2>2. PICK ver \in 0..row[o].ver :
          req' = [req EXCEPT ![r] = [Idle EXCEPT !.pc = "cache", !.who = o,
                                                 !.route = route, !.ver = ver]]
    BY <2>1
  <2>3. req'[r].pc = "cache"
    BY <1>1, <2>2 DEF Idle
  <2>4. QED
    BY <1>4, <2>3 DEF Present
<1>5. ASSUME NEW state, state = row[p], req' = [req EXCEPT ![r] = Judged(q, state)]
      PROVE  req'[r].pc # "handler" /\ (req'[r].pc = "idle" => q.ver # row[p].ver)
  BY <1>1, <1>5 DEF Judged, JobRecord, Idle
<1>6. CASE ReadCache(r)
  <2>1. CASE req' = [req EXCEPT ![r].pc = "load"]
    BY <1>1, <2>1 DEF JobRecord
  <2> DEFINE hit == cache[p].state
  <2>2. CASE hit # None /\ req' = [req EXCEPT ![r] = Judged(q, hit)]
    <3>1. q.pc = "cache"
      BY <1>6 DEF ReadCache
    <3>2. cache[p].ttl \in Nat
      BY <1>1, <3>1 DEF IInv, Typed, EntryRecord
    <3>3. hit = row[p]
      BY <1>1, <1>2, <2>2, <3>1, <3>2 DEF IInv, EntriesOfAge
    <3>4. QED
      BY <1>5, <2>2, <3>3
  <2>3. QED
    BY <1>6, <2>1, <2>2 DEF ReadCache
<1>7. CASE LoadRow(r)
  BY <1>1, <1>7 DEF LoadRow, JobRecord
<1>8. CASE FillCache(r)
  <2>1. q.pc = "fill" /\ req' = [req EXCEPT ![r] = Judged(q, q.seen)]
    BY <1>8 DEF FillCache
  <2>2. QED
    BY <1>3, <1>5, <2>1
<1>9. CASE CountRequest(r)
  <2>1. /\ q.pc = "limit"
        /\ \/ req' = [req EXCEPT ![r] = Idle]
           \/ req' = [req EXCEPT ![r] = [q EXCEPT !.pc = "access"]]
    BY <1>9 DEF CountRequest
  <2>2. QED
    BY <1>1, <2>1 DEF JobRecord, Idle
<1>10. CASE Admit(r)
  <2>1. CASE ReadOnly(q)
    <3>1. q.pc = "access" /\ req' = [req EXCEPT ![r] = Idle]
      BY <1>10, <2>1 DEF Admit
    <3>2. QED
      BY <1>1, <3>1, IdleJob
  <2>2. CASE ~ReadOnly(q)
    <3>1. q.pc = "access" /\ req' = [req EXCEPT ![r] = [q EXCEPT !.pc = "handler"]]
      BY <1>10, <2>2 DEF Admit
    <3>2. req'[r].pc = "handler"
      BY <1>1, <3>1 DEF JobRecord
    <3>3. q.ver = q.seen.ver /\ q.seen = row[p]
      BY <1>3, <3>1 DEF IInv, SeenOfAge
    <3>4. ~(Suspended(p) /\ q.route \in {"write", "closed"})
      BY <2>2, <3>3 DEF ReadOnly, Suspended
    <3>5. QED
      BY <3>1, <3>2, <3>3, <3>4
  <2>3. QED
    BY <2>1, <2>2
<1>11. CASE Answer(r)
  <2>1. q.pc = "handler" /\ req' = [req EXCEPT ![r] = Idle]
    BY <1>11 DEF Answer
  <2>2. QED
    BY <1>1, <2>1, IdleJob
<1>12. QED
  BY <1>4, <1>6, <1>7, <1>8, <1>9, <1>10, <1>11, OwnSteps DEF Authenticate, Pass

\* From StateTtl + 2 ticks after the last change of an account, none of its requests is let
\* through or refused but on its row, for any duration of the cache and any losses of it.
THEOREM RowIsJudged == Spec => JudgedOnSettledRow
<1>1. ASSUME IInv, [Next]_vars
      PROVE  [\A r \in Requests : SettledStep(r)]_vars
  BY <1>1, StepOnSettledRow
<1>2. [\A r \in Requests : SettledStep(r)]_vars =>
        [\A r \in Requests :
           LET q == req[r]
               p == q.who IN
           (p # None /\ Settled(p)) =>
             /\ (q.pc # "handler" /\ req'[r].pc = "handler") =>
                  /\ q.ver = row[p].ver
                  /\ ~(Suspended(p) /\ q.route \in {"write", "closed"})
             /\ (q.pc \in {"cache", "fill"} /\ req'[r].pc = "idle") => q.ver # row[p].ver]_vars
  BY DEF SettledStep
<1>3. QED
  BY <1>1, <1>2, Beginning, Keeping, PTL DEF Spec, JudgedOnSettledRow

-----------------------------------------------------------------------------
(* Types                                                                   *)

\* What a request has from the step it is at: an account, and the state it goes by.
Has(q) ==
  /\ q.pc # "idle" => q.who \in Accounts
  /\ q.pc \in {"fill", "limit", "access", "handler"} => q.seen \in State

TypeInv == TypeOK /\ \A r \in Requests : Has(req[r])

LEMMA TypedRequest ==
  ASSUME TypeInv, NEW r \in Requests, NEW to \in Local, Has(to), req' = [req EXCEPT ![r] = to],
         UNCHANGED <<row, changed, adm>>,
         cache' \in [Accounts -> [state : State, ttl : 1 .. StateTtl] \cup {NoEntry}],
         window' \in [Accounts \X {"default", "closed"} -> [count : 0 .. (Limit + 1), ttl : 0 .. Window]]
  PROVE  TypeInv'
BY DEF TypeInv, TypeOK

LEMMA IdleTyped == Idle \in Local /\ Has(Idle)
BY LimitAssumption DEF Idle, Local, Routes, Has

LEMMA JudgedTyped ==
  ASSUME NEW q \in Local, q.who \in Accounts, NEW state \in State
  PROVE  Judged(q, state) \in Local /\ Has(Judged(q, state))
<1>1. CASE state.ver = q.ver
  <2>1. Judged(q, state) = [q EXCEPT !.pc = "limit", !.seen = state]
    BY <1>1 DEF Judged
  <2>2. QED
    BY <2>1 DEF Local, Has
<1>2. CASE state.ver # q.ver
  BY <1>2, IdleTyped DEF Judged
<1>3. QED
  BY <1>1, <1>2

LEMMA TypeInitially == Init => TypeInv
<1> SUFFICES ASSUME Init PROVE TypeInv
  OBVIOUS
<1>1. Recent + 1 \in 0 .. (Recent + 1) /\ 0 \in 0 .. (Limit + 1) /\ 0 \in 0 .. Window /\ 0 \in 0 .. MaxVersion
  BY TicksAssumption, LimitAssumption DEF Recent
<1>2. [status |-> "ACTIVE", ver |-> 0] \in State
  BY <1>1 DEF State
<1>3. QED
  BY <1>1, <1>2, IdleTyped DEF Init, TypeInv, TypeOK, NoTask

LEMMA RequestsTyped ==
  ASSUME TypeInv, NEW r \in Requests, Authenticate(r) \/ Pass(r)
  PROVE  TypeInv'
<1> DEFINE q == req[r]
<1>1. /\ q \in Local /\ Has(q) /\ row \in [Accounts -> State]
      /\ cache \in [Accounts -> [state : State, ttl : 1 .. StateTtl] \cup {NoEntry}]
      /\ window \in [Accounts \X {"default", "closed"} -> [count : 0 .. (Limit + 1), ttl : 0 .. Window]]
  BY DEF TypeInv, TypeOK
<1>2. CASE Present(r)
  <2>1. PICK p \in Accounts, route \in Routes : \E ver \in 0 .. row[p].ver :
          req' = [req EXCEPT ![r] = [Idle EXCEPT !.pc = "cache", !.who = p,
                                                 !.route = route, !.ver = ver]]
    BY <1>2 DEF Present
  <2>2. PICK ver \in 0 .. row[p].ver :
          req' = [req EXCEPT ![r] = [Idle EXCEPT !.pc = "cache", !.who = p,
                                                 !.route = route, !.ver = ver]]
    BY <2>1
  <2>3. row[p] \in State
    BY <1>1
  <2>4. ver \in 0 .. MaxVersion
    BY <2>3, LimitAssumption DEF State
  <2> DEFINE to == [Idle EXCEPT !.pc = "cache", !.who = p, !.route = route, !.ver = ver]
  <2>5. to \in Local /\ Has(to)
    BY <2>4, IdleTyped DEF Local, Has
  <2>6. req' = [req EXCEPT ![r] = to]
    BY <2>2
  <2> HIDE DEF to
  <2>7. QED
    BY <1>1, <1>2, <2>5, <2>6, TypedRequest DEF Present
<1>3. CASE ReadCache(r)
  <2>1. q.who \in Accounts /\ q.pc = "cache"
    BY <1>1, <1>3 DEF ReadCache, Has
  <2>2. cache[q.who].state # None => cache[q.who].state \in State
    BY <1>1, <2>1 DEF NoEntry
  <2>3. [q EXCEPT !.pc = "load"] \in Local /\ Has([q EXCEPT !.pc = "load"])
    BY <1>1, <2>1 DEF Local, Has
  <2>4. QED
    BY <1>1, <1>3, <2>1, <2>2, <2>3, JudgedTyped, TypedRequest DEF ReadCache
<1>4. CASE LoadRow(r)
  <2>1. q.who \in Accounts /\ row[q.who] \in State
    BY <1>1, <1>4 DEF LoadRow, Has
  <2> DEFINE to == [q EXCEPT !.pc = "fill", !.seen = row[q.who]]
  <2>2. to \in Local /\ Has(to)
    BY <1>1, <2>1 DEF Local, Has
  <2>3. req' = [req EXCEPT ![r] = to]
    BY <1>4 DEF LoadRow
  <2>4. QED
    BY <1>1, <1>4, <2>2, <2>3, TypedRequest DEF LoadRow
<1>5. CASE FillCache(r)
  <2>1. q.who \in Accounts /\ q.seen \in State
    BY <1>1, <1>5 DEF FillCache, Has
  <2>2. Entry(q.seen) \in [state : State, ttl : 1 .. StateTtl]
    BY <2>1, TicksAssumption DEF Entry
  <2>3. cache' \in [Accounts -> [state : State, ttl : 1 .. StateTtl] \cup {NoEntry}]
    BY <1>1, <1>5, <2>1, <2>2 DEF FillCache
  <2>4. QED
    BY <1>1, <1>5, <2>1, <2>3, JudgedTyped, TypedRequest DEF FillCache
<1>6. CASE CountRequest(r)
  <2>1. q.who \in Accounts /\ q.seen \in State
    BY <1>1, <1>6 DEF CountRequest, Has
  <2> DEFINE to == [q EXCEPT !.pc = "access"]
  <2>2. to \in Local /\ Has(to)
    BY <1>1, <2>1 DEF Local, Has
  <2>3. req' = [req EXCEPT ![r] = Idle] \/ req' = [req EXCEPT ![r] = to]
    BY <1>6 DEF CountRequest
  <2>4. \A w \in [count : 0 .. (Limit + 1), ttl : 0 .. Window] :
          Counted(w) \in [count : 0 .. (Limit + 1), ttl : 0 .. Window]
    BY TicksAssumption, LimitAssumption DEF Counted
  <2>5. <<q.who, RuleOf(q.route)>> \in Accounts \X {"default", "closed"}
    BY <2>1 DEF RuleOf
  <2>6. window' \in [Accounts \X {"default", "closed"} -> [count : 0 .. (Limit + 1), ttl : 0 .. Window]]
    BY <1>1, <1>6, <2>4, <2>5 DEF CountRequest
  <2>7. QED
    BY <1>1, <1>6, <2>2, <2>3, <2>6, IdleTyped, TypedRequest DEF CountRequest
<1>7. CASE Admit(r)
  <2> DEFINE to == [q EXCEPT !.pc = "handler"]
  <2>1. to \in Local /\ Has(to)
    BY <1>1, <1>7 DEF Local, Has, Admit
  <2>2. req' = [req EXCEPT ![r] = Idle] \/ req' = [req EXCEPT ![r] = to]
    BY <1>7 DEF Admit
  <2>3. QED
    BY <1>1, <1>7, <2>1, <2>2, IdleTyped, TypedRequest DEF Admit
<1>8. CASE Answer(r)
  BY <1>1, <1>8, IdleTyped, TypedRequest DEF Answer
<1>9. QED
  BY <1>2, <1>3, <1>4, <1>5, <1>6, <1>7, <1>8 DEF Authenticate, Pass

LEMMA AdministrationTyped ==
  ASSUME TypeInv, NEW a \in Admins, Administer(a)
  PROVE  TypeInv'
<1>1. /\ row \in [Accounts -> State] /\ changed \in [Accounts -> 0 .. (Recent + 1)]
      /\ adm \in [Admins -> [who : Accounts \cup {None}, late : BOOLEAN]]
      /\ cache \in [Accounts -> [state : State, ttl : 1 .. StateTtl] \cup {NoEntry}]
  BY DEF TypeInv, TypeOK
<1>2. ASSUME NEW p \in Accounts, NEW state \in State, Commit(a, p, state)
      PROVE  TypeInv'
  <2>1. 0 \in 0 .. (Recent + 1)
    BY TicksAssumption DEF Recent
  <2>2. QED
    BY <1>1, <1>2, <2>1 DEF Commit, TypeInv, TypeOK, Has
<1>3. CASE SetSuspended(a)
  <2>1. PICK p \in Accounts, to \in {"ACTIVE", "SUSPENDED"} : Commit(a, p, [row[p] EXCEPT !.status = to])
    BY <1>3 DEF SetSuspended
  <2>2. [row[p] EXCEPT !.status = to] \in State
    BY <1>1 DEF State
  <2>3. QED
    BY <1>2, <2>1, <2>2
<1>4. CASE RevokeSessions(a)
  <2>1. PICK p \in Accounts : row[p].ver < MaxVersion /\ Commit(a, p, [row[p] EXCEPT !.ver = @ + 1])
    BY <1>4 DEF RevokeSessions
  <2>2. [row[p] EXCEPT !.ver = @ + 1] \in State
    BY <1>1, <2>1, LimitAssumption DEF State
  <2>3. QED
    BY <1>2, <2>1, <2>2
<1>5. CASE Invalidate(a)
  <2>1. NoTask \in [who : Accounts \cup {None}, late : BOOLEAN]
    BY DEF NoTask
  <2>2. QED
    BY <1>1, <1>5, <2>1 DEF Invalidate, TypeInv, TypeOK, Has
<1>6. QED
  BY <1>3, <1>4, <1>5 DEF Administer

LEMMA TickTyped ==
  ASSUME TypeInv, Tick
  PROVE  TypeInv'
<1>1. changed' \in [Accounts -> 0 .. (Recent + 1)]
  BY TicksAssumption DEF TypeInv, TypeOK, Tick, Recent
<1>2. cache' \in [Accounts -> [state : State, ttl : 1 .. StateTtl] \cup {NoEntry}]
  <2>1. ASSUME NEW p \in Accounts, ~(cache[p].ttl <= 1)
        PROVE  [cache[p] EXCEPT !.ttl = @ - 1] \in [state : State, ttl : 1 .. StateTtl]
    <3>1. cache[p] \in [state : State, ttl : 1 .. StateTtl] \cup {NoEntry}
      BY DEF TypeInv, TypeOK
    <3>2. cache[p] \in [state : State, ttl : 1 .. StateTtl]
      BY <2>1, <3>1 DEF NoEntry
    <3>3. QED
      BY <2>1, <3>2, TicksAssumption
  <2>2. QED
    BY <2>1 DEF Tick
<1>3. window' \in [Accounts \X {"default", "closed"} -> [count : 0 .. (Limit + 1), ttl : 0 .. Window]]
  <2>1. window \in [Accounts \X {"default", "closed"} -> [count : 0 .. (Limit + 1), ttl : 0 .. Window]]
    BY DEF TypeInv, TypeOK
  <2>2. ASSUME NEW w \in [count : 0 .. (Limit + 1), ttl : 0 .. Window]
        PROVE  /\ [count |-> 0, ttl |-> 0] \in [count : 0 .. (Limit + 1), ttl : 0 .. Window]
               /\ ~(w.ttl <= 1) =>
                    [w EXCEPT !.ttl = @ - 1] \in [count : 0 .. (Limit + 1), ttl : 0 .. Window]
    BY TicksAssumption, LimitAssumption
  <2>3. QED
    BY <2>1, <2>2 DEF Tick
<1>4. /\ req' \in [Requests -> Local]
      /\ \A r \in Requests : Has(req'[r])
  <2>1. ASSUME NEW r \in Requests
        PROVE  /\ [req[r] EXCEPT !.late = req[r].pc # "idle"] \in Local
               /\ Has([req[r] EXCEPT !.late = req[r].pc # "idle"])
    <3>1. req[r] \in Local /\ Has(req[r])
      BY DEF TypeInv, TypeOK
    <3>2. (req[r].pc # "idle") \in BOOLEAN
      OBVIOUS
    <3>3. QED
      BY <3>1, <3>2 DEF Local, Has
  <2>2. QED
    BY <2>1 DEF Tick
<1>5. adm' \in [Admins -> [who : Accounts \cup {None}, late : BOOLEAN]]
  <2>1. ASSUME NEW a \in Admins
        PROVE  [adm[a] EXCEPT !.late = adm[a].who # None] \in [who : Accounts \cup {None}, late : BOOLEAN]
    <3>1. adm[a] \in [who : Accounts \cup {None}, late : BOOLEAN]
      BY DEF TypeInv, TypeOK
    <3>2. (adm[a].who # None) \in BOOLEAN
      OBVIOUS
    <3>3. QED
      BY <3>1, <3>2
  <2>2. QED
    BY <2>1 DEF Tick
<1>6. row' \in [Accounts -> State]
  BY DEF TypeInv, TypeOK, Tick
<1>7. QED
  BY <1>1, <1>2, <1>3, <1>4, <1>5, <1>6 DEF TypeInv, TypeOK

\* Accounts, cached states, windows and requests keep their types, for any number of them,
\* any times to live and any losses of Redis: a request past AuthGuard goes by a state.
THEOREM TypeCorrect == Spec => []TypeOK
<1>1. TypeInv /\ [Next]_vars => TypeInv'
  <2>1. TypeInv /\ UNCHANGED vars => TypeInv'
    BY DEF TypeInv, TypeOK, Has, vars
  <2>2. QED
    BY <2>1, RequestsTyped, AdministrationTyped, TickTyped DEF Next
<1>2. TypeInv => TypeOK
  BY DEF TypeInv
<1>3. QED
  BY <1>1, <1>2, TypeInitially, PTL DEF Spec
=============================================================================
