--------------------------- MODULE AccountSessions ---------------------------
(***************************************************************************)
(* Signing in and staying signed in: one-time codes sent by text message,  *)
(* and families of refresh tokens.  Every HTTP request is one worker; a    *)
(* step of a worker is what happens between two awaits.  A refusal that    *)
(* changes nothing (the 429 of a rate limit, the 503 of one that fails     *)
(* closed, an expired refresh token) is a request that is not made.  What  *)
(* the access tokens open is the subject of AccessControl.                 *)
(***************************************************************************)
EXTENDS Naturals, Sequences, FiniteSets

CONSTANTS Phones,       \* one account per phone number
          Requests,     \* HTTP requests served at a time
          MaxRecent,    \* codes a number may ask for in ten minutes
          MaxPerDay,    \* and in a day: no run of the model lasts longer than one
          MaxAttempts,  \* guesses per code
          MaxCodes, MaxTokens, MaxVersion,  \* bounds of the model
          None

ASSUME BoundsAssumption ==
  {MaxRecent, MaxPerDay, MaxAttempts, MaxCodes, MaxTokens, MaxVersion} \subseteq Nat
ASSUME NoneAssumption == None \notin Phones \cup Nat
ASSUME FiniteAssumption == IsFiniteSet(Requests)

VARIABLES
  version,     \* core.users: token_version, None before the first login
  challenges,  \* core.otp_challenges, oldest first; fresh: made in the last ten minutes
  logins,      \* logins[f]: the code that opened family f
  tokens,      \* core.refresh_tokens, oldest first; ver: the version of the access token beside it
  alarmed,     \* families announced by SECURITY_TOKEN_REUSE
  req          \* what each request has read and where it stands

vars == <<version, challenges, logins, tokens, alarmed, req>>

Challenge == [phone : Phones, attempts : 0..MaxAttempts, consumed : BOOLEAN,
              fresh : BOOLEAN, sent : BOOLEAN]
Token == [user : Phones, fam : Nat, ver : 0..MaxVersion, revoked : BOOLEAN, next : Nat]
Steps == {"idle", "codeIssue", "codeSend", "bump", "consumeCode", "upsert",
          "reuse", "consume", "reload", "issue"}
Local == [pc : Steps, phone : Phones \cup {None}, ch : Nat, right : BOOLEAN,
          tok : Nat, fam : Nat, ver : 0..MaxVersion]

Idle == [pc |-> "idle", phone |-> None, ch |-> 0, right |-> FALSE,
         tok |-> 0, fam |-> 0, ver |-> 0]

TypeOK ==
  /\ version \in [Phones -> 0..MaxVersion \cup {None}]
  /\ challenges \in Seq(Challenge)
  /\ logins \in Seq(Nat)
  /\ tokens \in Seq(Token)
  /\ alarmed \subseteq Nat
  /\ req \in [Requests -> Local]

Init ==
  /\ version = [p \in Phones |-> None]
  /\ challenges = << >>
  /\ logins = << >>
  /\ tokens = << >>
  /\ alarmed = {}
  /\ req = [r \in Requests |-> Idle]

-----------------------------------------------------------------------------
(* One-time codes                                                          *)

Codes(p) == {c \in DOMAIN challenges : challenges[c].phone = p}
RecentCodes(p) == {c \in Codes(p) : challenges[c].fresh}
\* verify looks at the newest code that is neither used nor out of date.
Verifiable(p) == {c \in RecentCodes(p) : ~challenges[c].consumed}
IsNewest(c, S) == c \in S /\ \A d \in S : d <= c

\* POST /auth/otp/request, first half: the codes already asked for are counted.
CountCodes(r) ==
  /\ req[r].pc = "idle"
  /\ \E p \in Phones :
       /\ Cardinality(RecentCodes(p)) < MaxRecent
       /\ Cardinality(Codes(p)) < MaxPerDay
       /\ req' = [req EXCEPT ![r] = [Idle EXCEPT !.pc = "codeIssue", !.phone = p,
                                                !.ch = Len(challenges)]]
  /\ UNCHANGED <<version, challenges, logins, tokens, alarmed>>

\* The transaction: earlier codes are used up, the new one is stored.
IssueCode(r) ==
  /\ req[r].pc = "codeIssue"
  /\ Len(challenges) < MaxCodes
  /\ LET p == req[r].phone IN
       challenges' = Append([c \in DOMAIN challenges |->
                               IF challenges[c].phone = p
                               THEN [challenges[c] EXCEPT !.consumed = TRUE] ELSE challenges[c]],
                            [phone |-> p, attempts |-> 0, consumed |-> FALSE,
                             fresh |-> TRUE, sent |-> FALSE])
  /\ req' = [req EXCEPT ![r].pc = "codeSend", ![r].ch = Len(challenges) + 1]
  /\ UNCHANGED <<version, logins, tokens, alarmed>>

\* The text leaves after the transaction; when it fails the request does too (Crash).
SendCode(r) ==
  /\ req[r].pc = "codeSend"
  /\ challenges' = [challenges EXCEPT ![req[r].ch].sent = TRUE]
  /\ req' = [req EXCEPT ![r] = Idle]
  /\ UNCHANGED <<version, logins, tokens, alarmed>>

\* POST /auth/otp/verify: what is typed is a code that was sent, or anything else (0).
ReadCode(r) ==
  /\ req[r].pc = "idle"
  /\ \E p \in Phones, c \in DOMAIN challenges :
       /\ IsNewest(c, Verifiable(p))
       /\ \E typed \in {d \in Codes(p) : challenges[d].sent} \cup {0} :
            req' = [req EXCEPT ![r] = [Idle EXCEPT !.pc = "bump", !.phone = p, !.ch = c,
                                                   !.right = (typed = c)]]
  /\ UNCHANGED <<version, challenges, logins, tokens, alarmed>>

\* A mutant, and the guard of the UPDATE.
ExhaustedLate(c) == challenges[c].attempts > MaxAttempts
Exhausted(c) == challenges[c].attempts >= MaxAttempts

\* A mutant: only wrong guesses are counted.
CountWrongGuess(r) ==
  LET c == req[r].ch IN
  /\ req[r].pc = "bump"
  /\ challenges' = IF Exhausted(c) \/ req[r].right THEN challenges
                   ELSE [challenges EXCEPT ![c].attempts = @ + 1]
  /\ req' = [req EXCEPT ![r] = IF ~Exhausted(c) /\ req[r].right
                               THEN [req[r] EXCEPT !.pc = "consumeCode"] ELSE Idle]
  /\ UNCHANGED <<version, logins, tokens, alarmed>>

\* One guarded UPDATE counts the guess, then the code read before is compared.
CountGuess(r) ==
  LET c == req[r].ch IN
  /\ req[r].pc = "bump"
  /\ challenges' = IF Exhausted(c) THEN challenges
                   ELSE [challenges EXCEPT ![c].attempts = @ + 1]
  /\ req' = [req EXCEPT ![r] = IF ~Exhausted(c) /\ req[r].right
                               THEN [req[r] EXCEPT !.pc = "consumeCode"] ELSE Idle]
  /\ UNCHANGED <<version, logins, tokens, alarmed>>

ConsumeCode(r) ==
  /\ req[r].pc = "consumeCode"
  /\ challenges' = [challenges EXCEPT ![req[r].ch].consumed = TRUE]
  /\ req' = [req EXCEPT ![r].pc = "upsert"]
  /\ UNCHANGED <<version, logins, tokens, alarmed>>

\* The account is made at its first login; the session gets a new family.
UpsertUser(r) ==
  LET p == req[r].phone
      ver == IF version[p] = None THEN 0 ELSE version[p] IN
  /\ req[r].pc = "upsert"
  /\ version' = [version EXCEPT ![p] = ver]
  /\ logins' = Append(logins, req[r].ch)
  /\ req' = [req EXCEPT ![r].pc = "issue", ![r].ver = ver, ![r].fam = Len(logins) + 1]
  /\ UNCHANGED <<challenges, tokens, alarmed>>

\* Ten minutes pass for the oldest code they have not yet passed for.
CodeAges ==
  /\ \E c \in DOMAIN challenges :
       /\ challenges[c].fresh
       /\ \A d \in 1..(c - 1) : ~challenges[d].fresh
       /\ challenges' = [challenges EXCEPT ![c].fresh = FALSE]
  /\ UNCHANGED <<version, logins, tokens, alarmed, req>>

-----------------------------------------------------------------------------
(* Refresh tokens                                                          *)

Live(t) == ~tokens[t].revoked
Family(f) == {t \in DOMAIN tokens : tokens[t].fam = f}

RevokeAll(S) == [t \in DOMAIN tokens |->
                   IF t \in S THEN [tokens[t] EXCEPT !.revoked = TRUE] ELSE tokens[t]]

\* POST /auth/refresh with any token ever given out.
ReadRefreshToken(r) ==
  /\ req[r].pc = "idle"
  /\ \E t \in DOMAIN tokens :
       req' = [req EXCEPT ![r] = [Idle EXCEPT !.pc = IF Live(t) THEN "consume" ELSE "reuse",
                                   !.phone = tokens[t].user, !.tok = t, !.fam = tokens[t].fam]]
  /\ UNCHANGED <<version, challenges, logins, tokens, alarmed>>

\* A token already used: its whole family is revoked, and announced if that stopped anything.
RevokeFamily(r) ==
  LET f == req[r].fam IN
  /\ req[r].pc = "reuse"
  /\ tokens' = RevokeAll(Family(f))
  /\ alarmed' = IF \E t \in Family(f) : Live(t) THEN alarmed \cup {f} ELSE alarmed
  /\ req' = [req EXCEPT ![r] = Idle]
  /\ UNCHANGED <<version, challenges, logins>>

\* A mutant: UPDATE ... WHERE id = $1.
ConsumeTwice(r) ==
  /\ req[r].pc = "consume"
  /\ tokens' = [tokens EXCEPT ![req[r].tok].revoked = TRUE]
  /\ req' = [req EXCEPT ![r].pc = "reload"]
  /\ UNCHANGED <<version, challenges, logins, alarmed>>

\* UPDATE ... WHERE id = $1 AND revoked_at IS NULL: one of two presentations wins.
ConsumeToken(r) ==
  LET t == req[r].tok IN
  /\ req[r].pc = "consume"
  /\ tokens' = [tokens EXCEPT ![t].revoked = TRUE]
  /\ req' = [req EXCEPT ![r] = IF Live(t) THEN [req[r] EXCEPT !.pc = "reload"] ELSE Idle]
  /\ UNCHANGED <<version, challenges, logins, alarmed>>

ReloadUser(r) ==
  /\ req[r].pc = "reload"
  /\ req' = [req EXCEPT ![r].pc = "issue", ![r].ver = version[req[r].phone]]
  /\ UNCHANGED <<version, challenges, logins, tokens, alarmed>>

\* The new refresh token, linked from the one it replaces, and an access token of
\* the version that was read with the account.
IssueSession(r) ==
  LET q == req[r]
      new == [user |-> q.phone, fam |-> q.fam, ver |-> q.ver, revoked |-> FALSE, next |-> 0] IN
  /\ q.pc = "issue"
  /\ Len(tokens) < MaxTokens
  /\ tokens' = Append(IF q.tok = 0 THEN tokens
                      ELSE [tokens EXCEPT ![q.tok].next = Len(tokens) + 1], new)
  /\ req' = [req EXCEPT ![r] = Idle]
  /\ UNCHANGED <<version, challenges, logins, alarmed>>

\* POST /auth/logout: one UPDATE revokes the family of the caller's own token.
Logout ==
  /\ \E t \in DOMAIN tokens : tokens' = RevokeAll(Family(tokens[t].fam))
  /\ UNCHANGED <<version, challenges, logins, alarmed, req>>

\* A mutant: the refresh tokens are left to be refused by their version.
BumpVersion ==
  /\ \E p \in Phones :
       /\ version[p] # None
       /\ version[p] < MaxVersion
       /\ version' = [version EXCEPT ![p] = @ + 1]
  /\ UNCHANGED <<challenges, logins, tokens, alarmed, req>>

\* The administration signs an account out everywhere.
RevokeSessions ==
  /\ \E p \in Phones :
       /\ version[p] # None
       /\ version[p] < MaxVersion
       /\ version' = [version EXCEPT ![p] = @ + 1]
       /\ tokens' = RevokeAll({t \in DOMAIN tokens : tokens[t].user = p})
  /\ UNCHANGED <<challenges, logins, alarmed, req>>

\* The process dies, or the database or the provider of texts fails the request.
Crash(r) ==
  /\ req[r].pc # "idle"
  /\ req' = [req EXCEPT ![r] = Idle]
  /\ UNCHANGED <<version, challenges, logins, tokens, alarmed>>

-----------------------------------------------------------------------------
Code(r) == CountCodes(r) \/ IssueCode(r) \/ SendCode(r)
Login(r) == ReadCode(r) \/ CountGuess(r) \/ ConsumeCode(r) \/ UpsertUser(r)
Refresh(r) == ReadRefreshToken(r) \/ RevokeFamily(r) \/ ConsumeToken(r) \/ ReloadUser(r)

Next ==
  \/ \E r \in Requests : Code(r) \/ Login(r) \/ Refresh(r) \/ IssueSession(r) \/ Crash(r)
  \/ Logout \/ RevokeSessions \/ CodeAges

Spec == Init /\ [][Next]_vars

-----------------------------------------------------------------------------
(* Properties                                                              *)

\* Rotation keeps a family a line (refresh, auth.service.ts:84): one token of it at
\* most is good, each token replaced is used up and gives way to one later token of
\* the same user and family, whatever two refreshes, a replay, a logout and the
\* administration do at the same time.
FamilyIsALine ==
  \A t, u \in DOMAIN tokens :
    /\ (tokens[t].fam = tokens[u].fam /\ Live(t) /\ Live(u)) => t = u
    /\ tokens[t].next = u =>
         /\ ~Live(t) /\ t < u
         /\ tokens[t].user = tokens[u].user /\ tokens[t].fam = tokens[u].fam
    /\ (tokens[t].next = tokens[u].next /\ tokens[t].next # 0) => t = u

\* A family without a good token and without a request on its way to insert one.
Dead(f) ==
  /\ \A t \in Family(f) : ~Live(t)
  /\ \A r \in Requests : ~(req[r].pc \in {"reload", "issue"} /\ req[r].fam = f)

\* A replay, a logout or the administration ends a family for good, except for the
\* refresh that had already consumed the last token: no replay of an old token, in
\* any order, brings a session back (auth.service.ts:97-128).
DeadFamilyStaysDead == [][\A f \in DOMAIN logins : Dead(f) => Dead(f)']_vars

Opened(c) == {f \in DOMAIN logins : logins[f] = c}

\* "Usage unique" (otp.service.ts:53) is not checked again when the code is consumed;
\* what holds is that a code that was sent opens no more sessions than the guesses
\* counted against it, which the guarded UPDATE limits.
CodeOpensFewSessions ==
  \A c \in DOMAIN challenges :
    /\ Cardinality(Opened(c)) <= challenges[c].attempts
    /\ challenges[c].attempts <= MaxAttempts
    /\ Opened(c) # {} => challenges[c].sent /\ challenges[c].consumed

\* "Déconnecte tous les appareils" (admin-users.service.ts:186): a refresh token that
\* is good though the access token beside it is of an earlier version comes from a
\* login or a refresh that was past reading the account when the administration signed
\* it out, one for each such request at most; the others are revoked.
Outdated(p) == {t \in DOMAIN tokens : Live(t) /\ tokens[t].user = p /\ tokens[t].ver < version[p]}
FewSurviveRevocation ==
  \A p \in Phones : Cardinality(Outdated(p)) <= Cardinality(Requests)
=============================================================================
