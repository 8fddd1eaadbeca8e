---------------------------- MODULE AccessControl ----------------------------
(***************************************************************************)
(* What an access token opens: the guards every HTTP request passes before *)
(* its handler (AuthGuard, RateLimitGuard, AccessGuard), the state of the  *)
(* account they judge on, which is kept in Redis for thirty seconds, and   *)
(* the administration that changes it.  Any call to Redis may fail.  Time  *)
(* is a tick: a request, or the end of an administrator's request, takes   *)
(* at most one.  The membership of a business, which AccessGuard reads     *)
(* last and never caches, is in Teams.                                     *)
(***************************************************************************)
EXTENDS Integers, FiniteSets

CONSTANTS Accounts,
          Requests,    \* users' requests served at a time
          Admins,      \* administrators' requests served at a time
          StateTtl,    \* ticks a cached state lives
          Window,      \* ticks a window of the rate limit lasts
          Limit,       \* requests served per window
          MaxVersion,  \* bound of the model: sign-outs of an account
          None

ASSUME TicksAssumption == StateTtl \in Nat \ {0} /\ Window \in Nat \ {0}
ASSUME LimitAssumption == Limit \in Nat /\ MaxVersion \in Nat
ASSUME NoneAssumption == None \notin Accounts

VARIABLES
  row,      \* core.users: status and token_version
  changed,  \* ticks since the row last changed, up to Recent + 1
  cache,    \* ustate:<id> in Redis: the state and the ticks it has left
  window,   \* rl:<rule>:<id> in Redis: requests counted, ticks left
  req,      \* each user's request
  adm       \* each administrator's request: the account whose state it has yet to invalidate

vars == <<row, changed, cache, window, req, adm>>

\* How long a state that has changed may still be judged on: a request reads the row, the
\* change commits, the request fills the cache a tick later, and the entry lives its time,
\* or a request reads it in its last tick and lasts into the next.
Recent == StateTtl + 1

State == [status : {"ACTIVE", "SUSPENDED"}, ver : 0..MaxVersion]
NoEntry == [state |-> None, ttl |-> 0]
\* Kinds of route: a method that modifies nothing, one that does, one that does and is
\* open to suspended accounts, one that does and is closed while Redis is down.
Routes == {"read", "write", "exempt", "closed"}
RuleOf(route) == IF route = "closed" THEN "closed" ELSE "default"
Local == [pc : {"idle", "cache", "load", "fill", "limit", "access", "handler"},
          who : Accounts \cup {None}, route : Routes, ver : 0..MaxVersion,
          seen : State \cup {None}, late : BOOLEAN]
Idle == [pc |-> "idle", who |-> None, route |-> "read", ver |-> 0, seen |-> None, late |-> FALSE]
NoTask == [who |-> None, late |-> FALSE]

TypeOK ==
  /\ row \in [Accounts -> State]
  /\ changed \in [Accounts -> 0..(Recent + 1)]
  /\ cache \in [Accounts -> [state : State, ttl : 1..StateTtl] \cup {NoEntry}]
  /\ window \in [Accounts \X {"default", "closed"} -> [count : 0..(Limit + 1), ttl : 0..Window]]
  /\ req \in [Requests -> Local]
  /\ adm \in [Admins -> [who : Accounts \cup {None}, late : BOOLEAN]]

Init ==
  /\ row = [p \in Accounts |-> [status |-> "ACTIVE", ver |-> 0]]
  /\ changed = [p \in Accounts |-> Recent + 1]
  /\ cache = [p \in Accounts |-> NoEntry]
  /\ window = [k \in Accounts \X {"default", "closed"} |-> [count |-> 0, ttl |-> 0]]
  /\ req = [r \in Requests |-> Idle]
  /\ adm = [a \in Admins |-> NoTask]

-----------------------------------------------------------------------------
(* A user's request                                                        *)

\* Any token ever signed for the account and not yet out of date.
Present(r) ==
  /\ req[r].pc = "idle"
  /\ \E p \in Accounts, route \in Routes : \E ver \in 0..row[p].ver :
       req' = [req EXCEPT ![r] = [Idle EXCEPT !.pc = "cache", !.who = p,
                                              !.route = route, !.ver = ver]]
  /\ UNCHANGED <<row, changed, cache, window, adm>>

\* AuthGuard, once the state is known: a token of another version is refused.
Judged(q, state) ==
  IF state.ver = q.ver THEN [q EXCEPT !.pc = "limit", !.seen = state] ELSE Idle

\* A mutant: every use of a cached state gives it its whole time again.
ReadAndRenew(r) ==
  LET p == req[r].who
      hit == cache[p].state IN
  /\ req[r].pc = "cache"
  /\ \/ /\ hit # None
        /\ req' = [req EXCEPT ![r] = Judged(req[r], hit)]
        /\ cache' = [cache EXCEPT ![p].ttl = StateTtl]
     \/ /\ req' = [req EXCEPT ![r].pc = "load"]
        /\ cache' = cache
  /\ UNCHANGED <<row, changed, window, adm>>

\* UserStateService.get: the cached state, or the row when there is none or Redis is down.
ReadCache(r) ==
  LET hit == cache[req[r].who].state IN
  /\ req[r].pc = "cache"
  /\ \/ /\ hit # None
        /\ req' = [req EXCEPT ![r] = Judged(req[r], hit)]
     \/ req' = [req EXCEPT ![r].pc = "load"]
  /\ UNCHANGED <<row, changed, cache, window, adm>>

LoadRow(r) ==
  /\ req[r].pc = "load"
  /\ req' = [req EXCEPT ![r].pc = "fill", ![r].seen = row[req[r].who]]
  /\ UNCHANGED <<row, changed, cache, window, adm>>

\* The entry Redis keeps.
Entry(state) == [state |-> state, ttl |-> StateTtl]

FillCache(r) ==
  LET q == req[r] IN
  /\ q.pc = "fill"
  /\ \/ cache' = [cache EXCEPT ![q.who] = Entry(q.seen)]
     \/ cache' = cache
  /\ req' = [req EXCEPT ![r] = Judged(q, q.seen)]
  /\ UNCHANGED <<row, changed, window, adm>>

\* A mutant: INCR, EXPIRE.
CountedSliding(w) == [count |-> IF w.count > Limit THEN w.count ELSE w.count + 1, ttl |-> Window]

\* MULTI INCR, EXPIRE NX: the first request of a window sets when it ends.
Counted(w) == [count |-> IF w.count > Limit THEN w.count ELSE w.count + 1,
               ttl |-> IF w.ttl = 0 THEN Window ELSE w.ttl]

\* RateLimitGuard: without Redis a route is served, unless it is closed then.
CountRequest(r) ==
  LET q == req[r]
      k == <<q.who, RuleOf(q.route)>> IN
  /\ q.pc = "limit"
  /\ \/ /\ window' = [window EXCEPT ![k] = Counted(@)]
        /\ req' = [req EXCEPT ![r] = IF window'[k].count > Limit THEN Idle
                                     ELSE [q EXCEPT !.pc = "access"]]
     \/ /\ window' = window
        /\ req' = [req EXCEPT ![r] = IF q.route = "closed" THEN Idle
                                     ELSE [q EXCEPT !.pc = "access"]]
  /\ UNCHANGED <<row, changed, cache, adm>>

\* AccessGuard: a suspended account modifies nothing.
ReadOnly(q) == q.seen.status = "SUSPENDED" /\ q.route \in {"write", "closed"}

Admit(r) ==
  /\ req[r].pc = "access"
  /\ req' = [req EXCEPT ![r] = IF ReadOnly(req[r]) THEN Idle ELSE [req[r] EXCEPT !.pc = "handler"]]
  /\ UNCHANGED <<row, changed, cache, window, adm>>

Answer(r) ==
  /\ req[r].pc = "handler"
  /\ req' = [req EXCEPT ![r] = Idle]
  /\ UNCHANGED <<row, changed, cache, window, adm>>

-----------------------------------------------------------------------------
(* The administration                                                      *)

Commit(a, p, state) ==
  /\ adm[a] = NoTask
  /\ row' = [row EXCEPT ![p] = state]
  /\ changed' = [changed EXCEPT ![p] = 0]
  /\ adm' = [adm EXCEPT ![a].who = p]
  /\ UNCHANGED <<cache, window, req>>

\* Each is one guarded UPDATE; the cached state goes once the transaction is committed.
SetSuspended(a) ==
  \E p \in Accounts, to \in {"ACTIVE", "SUSPENDED"} :
    /\ row[p].status # to
    /\ Commit(a, p, [row[p] EXCEPT !.status = to])

RevokeSessions(a) ==
  \E p \in Accounts :
    /\ row[p].ver < MaxVersion
    /\ Commit(a, p, [row[p] EXCEPT !.ver = @ + 1])

\* UserStateService.invalidate; without Redis, or without this process, it is lost.
Invalidate(a) ==
  /\ adm[a] # NoTask
  /\ \/ cache' = [cache EXCEPT ![adm[a].who] = NoEntry]
     \/ cache' = cache
  /\ adm' = [adm EXCEPT ![a] = NoTask]
  /\ UNCHANGED <<row, changed, window, req>>

-----------------------------------------------------------------------------
\* A tick of the clock, which no request outlives by more than one.
Tick ==
  /\ \A r \in Requests : ~req[r].late
  /\ \A a \in Admins : ~adm[a].late
  /\ changed' = [p \in Accounts |-> IF changed[p] > Recent THEN changed[p] ELSE changed[p] + 1]
  /\ cache' = [p \in Accounts |-> IF cache[p].ttl <= 1 THEN NoEntry
                                  ELSE [cache[p] EXCEPT !.ttl = @ - 1]]
  /\ window' = [k \in DOMAIN window |-> IF window[k].ttl <= 1 THEN [count |-> 0, ttl |-> 0]
                                        ELSE [window[k] EXCEPT !.ttl = @ - 1]]
  /\ req' = [r \in Requests |-> [req[r] EXCEPT !.late = req[r].pc # "idle"]]
  /\ adm' = [a \in Admins |-> [adm[a] EXCEPT !.late = adm[a].who # None]]
  /\ UNCHANGED row

Authenticate(r) == Present(r) \/ ReadCache(r) \/ LoadRow(r) \/ FillCache(r)
Pass(r) == CountRequest(r) \/ Admit(r) \/ Answer(r)
Administer(a) == SetSuspended(a) \/ RevokeSessions(a) \/ Invalidate(a)

Next ==
  \/ \E r \in Requests : Authenticate(r) \/ Pass(r)
  \/ \E a \in Admins : Administer(a)
  \/ Tick

Spec == Init /\ [][Next]_vars

\* Requests end, the clock goes on; users may send requests for ever.
Fairness ==
  /\ WF_vars(Tick)
  /\ \A r \in Requests :
       /\ WF_vars(ReadCache(r)) /\ WF_vars(LoadRow(r)) /\ WF_vars(FillCache(r))
       /\ WF_vars(Pass(r))
  /\ \A a \in Admins : WF_vars(Invalidate(a))

FairSpec == Spec /\ Fairness

-----------------------------------------------------------------------------
(* Properties                                                              *)

Settled(p) == changed[p] > Recent
Suspended(p) == row[p].status = "SUSPENDED"

\* "Effet quasi immédiat" (user-state.service.ts:16) is the cache invalidated, which may be
\* lost or undone by a request that read the row before; what holds whatever the order is
\* that once the change is a little older than the cache's thirty seconds, no request of
\* the account is let through, or refused, but on the row as it is: a token of a revoked
\* version opens nothing, a new one is not refused, a suspended account modifies nothing.
JudgedOnSettledRow ==
  [][\A r \in Requests :
       LET q == req[r]
           p == q.who IN
       (p # None /\ Settled(p)) =>
         /\ (q.pc # "handler" /\ req'[r].pc = "handler") =>
              /\ q.ver = row[p].ver
              /\ ~(Suspended(p) /\ q.route \in {"write", "closed"})
         /\ (q.pc \in {"cache", "fill"} /\ req'[r].pc = "idle") => q.ver # row[p].ver]_vars

\* A client refused by the rate limit gets in again though it never stops asking: the
\* window ends at the time its first request set (redis.service.ts:40, EXPIRE NX).
WindowReopens ==
  \A k \in Accounts \X {"default", "closed"} : window[k].count > Limit ~> window[k].count = 0
=============================================================================
