------------------------------- MODULE Console -------------------------------
(***************************************************************************)
(* The administration console: the tabs of one browser of one member of    *)
(* the staff, and the routes they call.  The tabs share the session        *)
(* cookie; each keeps an anti-CSRF token in memory, and every read of the  *)
(* session draws a new one, so what another tab holds is worth nothing any *)
(* more.  A request carries the cookie and the token its tab had when it   *)
(* left; the guard, the handler and the answer are steps of their own.  A  *)
(* request or its answer may be lost, and a request whose connection broke *)
(* may go on at the server for nobody.  Platform settings are one feature  *)
(* flag, one override of an entitlement and one user.                      *)
(***************************************************************************)
EXTENDS Naturals, FiniteSets

CONSTANTS Values,
          Permitted,                         \* what the role of the staff lets it change
          MaxTabs, MaxSessions, MaxTokens, MaxRequests,   \* bounds of the instance
          Null

Tabs == 1 .. MaxTabs           \* both in the order they are opened
StaffSessions == 1 .. MaxSessions

ASSUME NullAssumption == Null \notin Values \cup StaffSessions

Settings == {"flag", "set", "remove"}
OnUser == {"suspend", "reactivate", "reveal", "revoke"}
ASSUME PermittedAssumption == Permitted \subseteq Settings \cup OnUser
ASSUME InstanceAssumption ==
  /\ MaxTabs \in Nat /\ MaxSessions \in Nat \ {0}
  /\ MaxTokens \in Nat /\ MaxRequests \in Nat

VARIABLES
  sessions,  \* core.staff_sessions: state (closed: revoked or expired), mfa, csrf
  tokens,    \* anti-CSRF tokens drawn so far
  cookie,    \* the session cookie of the browser
  tab,       \* what each tab shows, whether its form is disabled, and the token it keeps
  net,       \* the requests of each tab, one of each use
  flag, override, suspended,   \* the settings and the user
  journal,   \* ops.audit_logs: of each subject, what its last entry tells, and whether
             \* every entry has followed from the one before, in the order of the commits
  history,   \* sub.subscription_events of the business: the same
  late       \* a tab has gone by what was over: see RefusedOnlyWhenOvertaken

server == <<sessions, tokens>>
settings == <<flag, override, suspended, journal, history>>
consoleVars ==
  <<sessions, tokens, cookie, tab, net, flag, override, suspended, journal, history, late>>

NoToken == 0
Screens == {"closed", "loading", "failed", "login", "code", "console"}
\* What the query cache has of the session: no data yet, data, no query since it was cleared.
Caches == {"empty", "data", "gone"}

\* The uses of a request, of which a tab has at most one each (a bound of the instance): the
\* read of the session the screen waits for, one given up for a newer read, a page, the forms
\* (which may outlive their screen), and a request whose connection broke at the server.
Uses == {"fetch", "dropped", "page", "login", "confirm", "logout", "change", "stray"}
\* logout is « Changer de compte » of TotpPage, signout « Se déconnecter » of Layout.
Kinds == {"session", "page", "login", "confirm", "logout", "signout", "change"} \cup Permitted
\* A sent request is checked by the guard, handled, and answered; an answer
\* is ok, a refusal of the guard (login, mfa, csrf) or of the handler, or nothing.
Request == [at : {"none", "sent", "checked", "half", "answered"}, kind : Kinds,
            session : StaffSessions \cup {Null}, token : 0 .. MaxTokens, mfa : BOOLEAN,
            value : Values \cup {Null}, before : Values \cup {Null}, overlapped : BOOLEAN,
            answer : {"none", "ok", "login", "mfa", "csrf", "refused", "lost"}]
Nothing == [at |-> "none", kind |-> "page", session |-> Null, token |-> NoToken, mfa |-> FALSE,
            value |-> Null, before |-> Null, overlapped |-> FALSE, answer |-> "none"]

Setting == Values \cup {Null}
Trail(values) == [last : values, follows : BOOLEAN]
Blank(value) == [last |-> value, follows |-> TRUE]

ConsoleTypeOK ==
  /\ sessions \in [StaffSessions -> [state : {"none", "open", "closed"}, mfa : BOOLEAN,
                               csrf : 0 .. MaxTokens]]
  /\ tokens \in 0 .. MaxTokens
  /\ cookie \in StaffSessions \cup {Null}
  /\ tab \in [Tabs -> [screen : Screens, pending : BOOLEAN, token : 0 .. MaxTokens,
                      cache : Caches]]
  /\ net \in [Tabs -> [Uses -> Request]]
  /\ {flag, override} \subseteq Setting /\ suspended \in BOOLEAN
  /\ journal \in [flag : Trail(Setting), override : Trail(Setting), user : Trail(BOOLEAN)]
  /\ history \in Trail(Setting)
  /\ late \in BOOLEAN

\* A browser that comes back: its cookie may still be that of a session.
ConsoleInit ==
  /\ cookie \in {1, Null}
  /\ sessions = [s \in StaffSessions |-> [state |-> IF s = cookie THEN "open" ELSE "none",
                                    mfa |-> s = cookie, csrf |-> NoToken]]
  /\ tokens = 0
  /\ tab = [t \in Tabs |->
       [screen |-> "closed", pending |-> FALSE, token |-> NoToken, cache |-> "empty"]]
  /\ net = [t \in Tabs |-> [u \in Uses |-> Nothing]]
  /\ flag = Null /\ override = Null /\ suspended = FALSE
  /\ journal = [flag |-> Blank(Null), override |-> Blank(Null), user |-> Blank(FALSE)]
  /\ history = Blank(Null)
  /\ late = FALSE

-----------------------------------------------------------------------------
(* Requests and answers                                                    *)

Put(t, u, request) == net' = [net EXCEPT ![t][u] = request]
\* An answer, with nothing of the request but whose it was; no tab makes a
\* difference between the answers of changes.
Told(request, answer) ==
  [Nothing EXCEPT !.at = "answered", !.session = request.session, !.answer = answer,
                  !.kind = IF request.kind \in Permitted THEN "change" ELSE request.kind]
\* What a stray request is told, nobody hears.
Reply(t, u, answer) == Put(t, u, IF u = "stray" THEN Nothing ELSE answer)
Answered(t, u, answer) == Reply(t, u, Told(net[t][u], answer))

\* api: what leaves a tab carries the cookie of the browser and, unless it
\* only reads, the token of the tab.
Sent(t, kind) ==
  [Nothing EXCEPT !.at = "sent", !.kind = kind, !.session = cookie,
                  !.token = IF kind \in {"page", "login"} THEN NoToken ELSE tab[t].token]

\* A read under way is given up: its answer is still waited for, by nobody but the function
\* that keeps its token.
GiveUp(requests) ==
  IF requests["fetch"].at = "none" THEN requests
  ELSE [requests EXCEPT !["dropped"] = requests["fetch"], !["fetch"] = Nothing]
MayGiveUp(t) == net[t]["fetch"].at = "none" \/ net[t]["dropped"].at = "none"

Reread(requests, known) ==
  [GiveUp(requests) EXCEPT !["fetch"] = [Nothing EXCEPT !.at = "sent", !.kind = "session",
                                                        !.session = known]]

\* Nothing is read again when the query is gone, nor while its first read is under way.
Settled(t) ==
  tab[t].cache = "gone" \/ (tab[t].cache = "empty" /\ net[t]["fetch"].at # "none")

\* The gate shows this screen; another one is new.
Shown(t, screen) ==
  [tab[t] EXCEPT !.screen = screen, !.pending = @ /\ tab[t].screen = screen]

\* invalidateQueries(SESSION_KEY), in a tab that now keeps this token.  A screen stays while
\* the session is read again, unless it never was read.
Invalidate(t, requests, known, token) ==
  LET screen == IF tab[t].cache = "empty" THEN "loading" ELSE tab[t].screen IN
  /\ Settled(t) \/ MayGiveUp(t)
  /\ net' = [net EXCEPT ![t] = IF Settled(t) THEN requests ELSE Reread(requests, known)]
  /\ tab' = [tab EXCEPT ![t] = [Shown(t, screen) EXCEPT !.token = token]]

\* At most MaxRequests requests of the browser are under way when another is sent.
Quiet == Cardinality({use \in Tabs \X Uses : net[use[1]][use[2]].at # "none"}) < MaxRequests

\* The connection fails, before the request arrives or before its answer does; the cookie of
\* a login may have come before the rest of its answer.
Lose(t, u) ==
  LET request == net[t][u] IN
  /\ request.at = "sent" \/ (request.at = "answered" /\ request.answer # "lost")
  /\ Answered(t, u, "lost")
  /\ \/ UNCHANGED <<cookie, late>>
     \/ /\ request.kind = "login" /\ request.answer = "ok"
        /\ cookie' = request.session /\ late' = TRUE
  /\ UNCHANGED <<server, tab, settings>>

\* The connection fails while the request is on its way to the server or being served: the
\* tab is told so, and the request goes on.  What the tab asks for after a read, it asks
\* while the read goes on.
BreakOff(t, u) ==
  LET request == net[t][u] IN
  /\ request.at \in {"sent", "checked", "half"} /\ request.kind # "page"
  /\ u # "stray" /\ net[t]["stray"].at = "none"
  /\ net' = [net EXCEPT ![t] = [@ EXCEPT !["stray"] = request, ![u] = Told(request, "lost")]]
  /\ late' = (late \/ u = "fetch")
  /\ UNCHANGED <<server, cookie, tab, settings>>

-----------------------------------------------------------------------------
(* What the staff does in a tab                                            *)

\* The application starts in a tab, or the staff tries again; « Réessayer » stays where it is
\* once there are data, and a second click gives the first read up.
Load(t) ==
  /\ tab[t].screen \in {"closed", "failed"}
  /\ \A o \in 1 .. t - 1 : tab[o].screen # "closed"
  /\ MayGiveUp(t) /\ Quiet
  /\ net' = [net EXCEPT ![t] = Reread(@, cookie)]
  /\ tab' = [tab EXCEPT ![t] = IF @.cache = "data" THEN @
                               ELSE [@ EXCEPT !.screen = "loading", !.cache = "empty"]]
  /\ late' = (late \/ net[t]["fetch"].at # "none")
  /\ UNCHANGED <<server, cookie, settings>>

\* A page of the console asks for what it shows, alone or again.
OpenPage(t) ==
  /\ tab[t].screen = "console" /\ net[t]["page"].at = "none" /\ Quiet
  /\ Put(t, "page", Sent(t, "page"))
  /\ UNCHANGED <<server, cookie, tab, settings, late>>

Submit(t, u, request) ==
  /\ net[t][u].at = "none" /\ Quiet
  /\ Put(t, u, request)
  /\ UNCHANGED <<server, cookie, tab, settings, late>>

\* The form of a page, disabled until it is refused.
SubmitForm(t, screen, kind) ==
  /\ tab[t].screen = screen /\ ~tab[t].pending
  /\ net[t][kind].at = "none" /\ Quiet
  /\ Put(t, kind, Sent(t, kind))
  /\ tab' = [tab EXCEPT ![t].pending = TRUE]
  /\ UNCHANGED <<server, cookie, settings, late>>

SubmitLogin(t) == SubmitForm(t, "login", "login")

\* The code of the authenticator.
SubmitCode(t) == SubmitForm(t, "code", "confirm")

\* « Changer de compte » and « Se déconnecter » are never disabled.
Cancel(t) == tab[t].screen = "code" /\ Submit(t, "logout", Sent(t, "logout"))
SignOut(t) == tab[t].screen = "console" /\ Submit(t, "logout", Sent(t, "signout"))

\* ReasonDialog: a change the role permits.
Propose(t, kinds, values) ==
  /\ tab[t].screen = "console"
  /\ \E kind \in kinds \cap Permitted, value \in values :
       Submit(t, "change", [Sent(t, kind) EXCEPT !.value = value])

\* FlagDialog sends the whole flag, whatever was edited.
ChangeFlag(t) == Propose(t, {"flag"}, Values)

ChangeOverride(t) == Propose(t, {"set"}, Values) \/ Propose(t, {"remove"}, {Null})

ChangeUser(t) == Propose(t, OnUser, {Null})

-----------------------------------------------------------------------------
(* The guard                                                               *)

PendingAllowed == {"session", "confirm", "logout", "signout"}
Reading == {"session", "page"}

\* StaffGuard: the session, its second factor, its token.
Check(request) ==
  IF request.session = Null THEN "login"
  ELSE LET row == sessions[request.session] IN
       IF row.state # "open" THEN "login"
       ELSE IF ~row.mfa /\ request.kind \notin PendingAllowed THEN "mfa"
       ELSE IF request.kind \notin Reading /\ request.token # row.csrf THEN "csrf"
       ELSE "ok"

\* The handler goes by the row the guard has read, of which only the read of
\* the session tells the second factor.  The handler of a page only reads.
StaffGuard(t, u) ==
  LET request == net[t][u] IN
  /\ request.at = "sent" /\ request.kind # "login"
  /\ IF Check(request) = "ok" /\ request.kind # "page"
     THEN Put(t, u, [request EXCEPT
            !.at = "checked", !.token = NoToken,
            !.mfa = request.kind = "session" /\ sessions[request.session].mfa])
     ELSE Answered(t, u, Check(request))
  /\ UNCHANGED <<server, cookie, tab, settings, late>>

-----------------------------------------------------------------------------
(* The sessions                                                            *)

Handles(t, u, kind) == net[t][u].at = "checked" /\ net[t][u].kind = kind

\* GET /auth/session: a new token, whose hash replaces the other.
ReadSession(t, u) ==
  /\ Handles(t, u, "session")
  /\ tokens < MaxTokens
  /\ tokens' = tokens + 1
  /\ sessions' = [sessions EXCEPT ![net[t][u].session].csrf = tokens + 1]
  /\ Reply(t, u, [Told(net[t][u], "ok") EXCEPT !.token = tokens + 1, !.mfa = net[t][u].mfa])
  /\ UNCHANGED <<cookie, tab, settings, late>>

\* POST /auth/login: right or wrong.
Login(t, u) ==
  /\ net[t][u].at = "sent" /\ net[t][u].kind = "login"
  /\ \/ /\ tokens < MaxTokens
        /\ \E s \in StaffSessions :
             /\ sessions[s].state = "none" /\ \A o \in 1 .. s - 1 : sessions[o].state # "none"
             /\ sessions' = [sessions EXCEPT ![s] = [state |-> "open", mfa |-> FALSE,
                                                   csrf |-> tokens + 1]]
             /\ Reply(t, u, [Told(net[t][u], "ok") EXCEPT !.session = s, !.token = tokens + 1])
        /\ tokens' = tokens + 1
     \/ /\ Answered(t, u, "refused")
        /\ UNCHANGED server
  /\ UNCHANGED <<cookie, tab, settings, late>>

\* POST /auth/totp/confirm: right or wrong.
Confirm(t, u) ==
  /\ Handles(t, u, "confirm")
  /\ \/ /\ sessions' = [sessions EXCEPT ![net[t][u].session].mfa = TRUE]
        /\ Answered(t, u, "ok")
     \/ /\ Answered(t, u, "refused")
        /\ UNCHANGED sessions
  /\ UNCHANGED <<tokens, cookie, tab, settings, late>>

ServeLogout(t, u) ==
  /\ Handles(t, u, "logout") \/ Handles(t, u, "signout")
  /\ sessions' = [sessions EXCEPT ![net[t][u].session].state = "closed"]
  /\ Answered(t, u, "ok")
  /\ UNCHANGED <<tokens, cookie, tab, settings, late>>

\* Its hours are over, or it has been idle too long.
RunOut(s) ==
  /\ sessions[s].state = "open"
  /\ sessions' = [sessions EXCEPT ![s].state = "closed"]
  /\ UNCHANGED <<tokens, cookie, tab, net, settings, late>>

-----------------------------------------------------------------------------
(* Settings and users: every change is a transaction with its audit entry  *)

\* An entry that tells value, after one that told what it follows from or not.
Write(trail, value, follows) == [last |-> value, follows |-> trail.follows /\ follows]
Audit(subject, value, follows) ==
  journal' = [journal EXCEPT ![subject] = Write(@, value, follows)]

\* upsertFlag, first statement: the value in force, as committed.
ReadFlag(t, u) ==
  /\ Handles(t, u, "flag")
  /\ Put(t, u, [net[t][u] EXCEPT !.at = "half", !.before = flag])
  /\ UNCHANGED <<server, cookie, tab, settings, late>>

\* A mutant: the value in force is read back after the write.
ReadBack(request) == request.value
\* The audit entry tells the value that was read before the write.
Replaced(request) == request.before

Overlapped(request) == [request EXCEPT !.overlapped = @ \/ request.at = "half"]

\* upsertFlag, the rest: the whole flag as the form has it, and the entry.
\* Another upsert between its two statements goes by a value read before it.
WriteFlag(t, u) ==
  LET request == net[t][u] IN
  /\ request.at = "half" /\ request.kind = "flag"
  /\ flag' = request.value
  /\ Audit("flag", request.value, request.overlapped \/ Replaced(request) = journal.flag.last)
  /\ net' = [o \in Tabs |-> [v \in Uses |->
       IF o = t /\ v = u THEN IF u = "stray" THEN Nothing ELSE Told(request, "ok")
       ELSE Overlapped(net[o][v])]]
  /\ UNCHANGED <<server, cookie, tab, override, suspended, history, late>>

SetOverride(t, u) ==
  LET request == net[t][u] IN
  /\ Handles(t, u, "set")
  /\ override' = request.value
  /\ history' = Write(history, request.value, TRUE)
  /\ Audit("override", request.value, TRUE)
  /\ Answered(t, u, "ok")
  /\ UNCHANGED <<server, cookie, tab, flag, suspended, late>>

\* A mutant: the row is deleted, or not, without a look at how many.
RemovesAnything == TRUE
\* DELETE ... rowCount: something was there to remove.
RemovesSomething == override # Null

RemoveOverride(t, u) ==
  /\ Handles(t, u, "remove")
  /\ \/ /\ RemovesSomething
        /\ override' = Null
        /\ history' = Write(history, Null, history.last # Null)
        /\ Audit("override", Null, journal.override.last # Null)
        /\ Answered(t, u, "ok")
     \/ /\ ~RemovesSomething
        /\ Answered(t, u, "refused")
        /\ UNCHANGED <<override, history, journal>>
  /\ UNCHANGED <<server, cookie, tab, flag, suspended, late>>

\* setSuspended: from the other status only.
SetSuspended(t, u) ==
  \E kind \in {"suspend", "reactivate"} :
    /\ Handles(t, u, kind)
    /\ \/ /\ suspended = (kind = "reactivate")
          /\ suspended' = (kind = "suspend")
          /\ Audit("user", suspended', journal.user.last # suspended')
          /\ Answered(t, u, "ok")
       \/ /\ suspended # (kind = "reactivate")
          /\ Answered(t, u, "refused")
          /\ UNCHANGED <<suspended, journal>>
    /\ UNCHANGED <<server, cookie, tab, flag, override, history, late>>

\* revealPhone, revokeSessions: an entry of its own, and nothing kept here.
ActOnUser(t, u) ==
  \E kind \in {"reveal", "revoke"} :
    /\ Handles(t, u, kind)
    /\ Answered(t, u, "ok")
    /\ UNCHANGED <<server, cookie, tab, settings, late>>

-----------------------------------------------------------------------------
(* The answers                                                             *)

Back(t, u) == net[t][u].at = "answered"
Freed(t, u) == [net[t] EXCEPT ![u] = Nothing]

\* A mutant: any failure reads the session again.
FailureNeedsLogin(answer) == answer # "ok"
\* ApiError.needsLogin: not the second factor, not the token.
NeedsLogin(answer) == answer = "login"

\* A mutant: the token is forgotten and nothing more.
TokenForgotten(t, u) ==
  /\ tab' = [tab EXCEPT ![t].token = NoToken]
  /\ net' = [net EXCEPT ![t] = Freed(t, u)]
\* onUnauthorized: the token is forgotten and the session read again.
Unauthorized(t, u) == Invalidate(t, Freed(t, u), cookie, NoToken)

\* useSession: the gate shows what the read has told.
SessionRead(t) ==
  LET request == net[t]["fetch"] IN
  /\ Back(t, "fetch")
  /\ tab' = [tab EXCEPT ![t] =
       IF request.answer = "ok"
       THEN [Shown(t, IF request.mfa THEN "console" ELSE "code")
               EXCEPT !.token = request.token, !.cache = "data"]
       ELSE Shown(t, IF request.answer = "login" THEN "login" ELSE "failed")]
  /\ net' = [net EXCEPT ![t] = Freed(t, "fetch")]
  /\ UNCHANGED <<server, cookie, settings, late>>

\* A read given up still leaves its token behind.
DroppedRead(t) ==
  LET request == net[t]["dropped"] IN
  /\ Back(t, "dropped")
  /\ tab' = [tab EXCEPT ![t].token = IF request.answer = "ok" THEN request.token ELSE @]
  /\ net' = [net EXCEPT ![t] = Freed(t, "dropped")]
  /\ late' = (late \/ (request.answer = "ok" /\ request.session # cookie))
  /\ UNCHANGED <<server, cookie, settings>>

\* A page or a change: the form stays with its error, or closes.
Answer(t, u) ==
  LET request == net[t][u] IN
  /\ Back(t, u) /\ u \in {"page", "change"}
  /\ IF NeedsLogin(request.answer)
     THEN Unauthorized(t, u)
     ELSE net' = [net EXCEPT ![t] = Freed(t, u)] /\ UNCHANGED tab
  /\ late' = (late \/ (NeedsLogin(request.answer) /\ request.session # cookie))
  /\ UNCHANGED <<server, cookie, settings>>

\* A form is refused: it can be filled again, if its page is still there.
FormRefused(t, screen, kind) ==
  /\ tab' = [tab EXCEPT ![t].pending = @ /\ tab[t].screen # screen]
  /\ net' = [net EXCEPT ![t] = Freed(t, kind)]

\* LoginPage.submit: the cookie comes with the answer, and the session is read.
LoginAnswer(t) ==
  LET request == net[t]["login"] IN
  /\ Back(t, "login")
  /\ \/ /\ request.answer = "ok"
        /\ cookie' = request.session
        /\ Invalidate(t, Freed(t, "login"), request.session, request.token)
        /\ late' = (late \/ ~(tab[t].screen = "login" /\ tab[t].pending))
     \/ /\ request.answer # "ok"
        /\ FormRefused(t, "login", "login")
        /\ UNCHANGED <<cookie, late>>
  /\ UNCHANGED <<server, settings>>

\* TotpPage.confirm: a right code reads the session again.
ConfirmAnswer(t) ==
  LET request == net[t]["confirm"] IN
  /\ Back(t, "confirm")
  /\ \/ request.answer = "ok" /\ Invalidate(t, Freed(t, "confirm"), cookie, tab[t].token)
     \/ request.answer # "ok" /\ FormRefused(t, "code", "confirm")
  /\ late' = (late \/ (request.answer = "ok" /\ request.session # cookie))
  /\ UNCHANGED <<server, cookie, settings>>

\* Layout.logout clears the cache, queries under way included, and nothing is left to read
\* again: the screen stays.
Cleared(t) ==
  /\ MayGiveUp(t)
  /\ tab' = [tab EXCEPT ![t].token = NoToken, ![t].cache = "gone"]
  /\ net' = [net EXCEPT ![t] = GiveUp(Freed(t, "logout"))]

\* TotpPage.cancel and Layout.logout: whatever the answer, the token goes.  TotpPage reads
\* the session again.
LogoutAnswer(t) ==
  LET request == net[t]["logout"] IN
  /\ Back(t, "logout")
  /\ cookie' = IF request.answer = "ok" THEN Null ELSE cookie
  /\ \/ /\ request.kind = "logout"
        /\ Invalidate(t, Freed(t, "logout"), cookie', NoToken)
     \/ /\ request.kind = "signout"
        /\ Cleared(t)
  /\ late' = (late \/ request.answer # "ok" \/ request.session # cookie)
  /\ UNCHANGED <<server, settings>>

-----------------------------------------------------------------------------
Staff(t) ==
  \/ Load(t) \/ SubmitLogin(t) \/ SubmitCode(t) \/ Cancel(t) \/ SignOut(t)
  \/ OpenPage(t) \/ ChangeFlag(t) \/ ChangeOverride(t) \/ ChangeUser(t)

Server(t, u) ==
  \/ StaffGuard(t, u) \/ ReadSession(t, u)
  \/ Login(t, u) \/ Confirm(t, u) \/ ServeLogout(t, u)
  \/ ReadFlag(t, u) \/ WriteFlag(t, u) \/ SetOverride(t, u) \/ RemoveOverride(t, u)
  \/ SetSuspended(t, u) \/ ActOnUser(t, u)

Client(t) ==
  \/ SessionRead(t) \/ DroppedRead(t)
  \/ Answer(t, "page") \/ Answer(t, "change")
  \/ LoginAnswer(t) \/ ConfirmAnswer(t) \/ LogoutAnswer(t)

ConsoleNext ==
  \/ \E t \in Tabs :
       Staff(t) \/ Client(t) \/ \E u \in Uses : Server(t, u) \/ Lose(t, u) \/ BreakOff(t, u)
  \/ \E s \in StaffSessions : RunOut(s)

ConsoleSpec == ConsoleInit /\ [][ConsoleNext]_consoleVars

\* The server and the browser go on with a read of the session that is under way, and
\* it is not given up for ever for a newer one: each of these follows the answer of a
\* form somebody has filled.
Fairness ==
  \A t \in Tabs :
    /\ WF_consoleVars(StaffGuard(t, "fetch")) /\ WF_consoleVars(ReadSession(t, "fetch"))
    /\ SF_consoleVars(SessionRead(t))

FairSpec == ConsoleSpec /\ Fairness

-----------------------------------------------------------------------------
(* Properties                                                              *)

\* The journal and the history tell the settings in force, and each of their
\* entries follows from the one before: an account is suspended and reactivated
\* in turn, nothing is removed that was not set, and what an entry of the flag
\* calls the value before is the value the entry before it left, unless another
\* upsert ran between its two statements (upsertFlag reads without a lock).
JournalReplays ==
  /\ journal.flag.last = flag /\ journal.override.last = override
  /\ journal.user.last = suspended
  /\ history.last = override
  /\ \A subject \in DOMAIN journal : journal[subject].follows
  /\ history.follows

\* A change is refused for its token only when the browser has another tab (or has loaded
\* the console anew), or when its tab has gone by what was over: it read the session while
\* an older read went on at the server, given up by « Réessayer » or cut off; it heard in a
\* later session the answer of an earlier one (a refusal, a right code, a logout, a read
\* given up); a logout failed; the cookie of a login came without its answer, or its answer
\* on another page than the one that asked.  While none of this happens a tab on its own
\* never overtakes its own token (useSession does not read in the background).
RefusedOnlyWhenOvertaken ==
  \A t \in Tabs :
    net[t]["change"].answer = "csrf" =>
      (\E o \in Tabs \ {t} : tab[o].screen # "closed") \/ late

\* A console that has lost its token gets another, or gives way to another screen: it does
\* not stay there with every change refused, unless the staff signed out of it, which clears
\* the cache the token would be read into (onUnauthorized, TotpPage.cancel, Layout.logout;
\* as long as the bound on tokens lets the session be read).
NoTokenlessConsole ==
  \A t \in Tabs :
    (tab[t].screen = "console" /\ tab[t].token = NoToken)
      ~> \/ tab[t].screen # "console" \/ tab[t].token # NoToken
         \/ tab[t].cache = "gone" \/ tokens = MaxTokens

\* A page that is told the session is over has it read again, which leads to the login
\* screen (session.ts:27): not in a console the staff has signed out of.
ExpiredLeadsToLogin ==
  [][\A t \in Tabs :
       Answer(t, "page") /\ NeedsLogin(net[t]["page"].answer)
         => net'[t]["fetch"].at # "none"]_consoleVars
==============================================================================
