------------------------ MODULE AccountSessionsProofs ------------------------
(***************************************************************************)
(* Theorems about AccountSessions, for any number of accounts, requests    *)
(* and tokens: the rotation of refresh tokens keeps every family a line, a *)
(* code opens few sessions, few survive when all are revoked, and types.   *)
(***************************************************************************)
EXTENDS AccountSessions, FiniteSetTheorems, TLAPS

\* Sequences and records, whatever is in them.
Sequence(s) == Len(s) \in Nat /\ s = [i \in 1 .. Len(s) |-> s[i]]
JobRecord(q) ==
  q \in [pc : {q.pc}, phone : {q.phone}, ch : {q.ch}, right : {q.right},
         tok : {q.tok}, fam : {q.fam}, ver : {q.ver}]
TokenRecord(t) ==
  t \in [user : {t.user}, fam : {t.fam}, ver : {t.ver}, revoked : {t.revoked}, next : {t.next}]

Typed ==
  /\ Sequence(logins) /\ Sequence(tokens)
  /\ \A t \in DOMAIN tokens : TokenRecord(tokens[t])
  /\ req = [r \in Requests |-> req[r]]
  /\ \A r \in Requests : JobRecord(req[r])

\* Families are numbered by the logins, tokens replaced by tokens.
Numbered ==
  \A t \in DOMAIN tokens :
    tokens[t].fam \in 1 .. Len(logins) /\ tokens[t].next \in 0 .. Len(tokens)

\* A request that is to give its family a token has used up the one it had, if any.
Holds(q) == q.pc \in {"reload", "issue"}
HandOver(q) ==
  /\ q.pc \in {"bump", "consumeCode", "upsert"} => q.tok = 0
  /\ q.pc \in {"consume", "reload"} => q.tok # 0
  /\ q.pc \in {"consume", "reload", "issue"} /\ q.tok # 0 =>
       /\ q.tok \in DOMAIN tokens
       /\ q.fam = tokens[q.tok].fam /\ q.phone = tokens[q.tok].user
  /\ Holds(q) =>
       /\ q.fam \in 1 .. Len(logins)
       /\ \A t \in DOMAIN tokens : tokens[t].fam = q.fam => ~Live(t)
       /\ q.tok # 0 => tokens[q.tok].next = 0

\* It is the only one of its family.
Alone == \A r, s \in Requests : Holds(req[r]) /\ Holds(req[s]) /\ r # s => req[r].fam # req[s].fam

IInv ==
  /\ Typed /\ Numbered /\ Alone /\ FamilyIsALine
  /\ \A r \in Requests : HandOver(req[r])

-----------------------------------------------------------------------------
(* Sequences                                                               *)

LEMMA Appended ==
  ASSUME NEW s, NEW e, Sequence(s)
  PROVE  /\ Sequence(Append(s, e)) /\ Len(Append(s, e)) = Len(s) + 1
         /\ DOMAIN s = 1 .. Len(s)
         /\ DOMAIN Append(s, e) = 1 .. Len(s) + 1
         /\ \A i \in 1 .. Len(s) : Append(s, e)[i] = s[i]
         /\ Append(s, e)[Len(s) + 1] = e
<1> DEFINE S == {s[i] : i \in 1 .. Len(s)} \cup {e}
<1>1. s \in Seq(S) /\ e \in S
  <2>1. s \in [1 .. Len(s) -> S] /\ Len(s) \in Nat
    BY DEF Sequence
  <2> HIDE DEF S
  <2>2. s \in Seq(S)
    BY <2>1
  <2>3. QED
    BY <2>2 DEF S
<1> HIDE DEF S
<1>2. /\ Append(s, e) \in Seq(S) /\ Len(Append(s, e)) = Len(s) + 1
      /\ DOMAIN s = 1 .. Len(s) /\ DOMAIN Append(s, e) = 1 .. Len(s) + 1
      /\ \A i \in 1 .. Len(s) : Append(s, e)[i] = s[i]
      /\ Append(s, e)[Len(s) + 1] = e
  BY <1>1
<1> DEFINE f == Append(s, e)
<1>3. f \in Seq(S)
  BY <1>2
<1> HIDE DEF f
<1>4. Len(f) \in Nat /\ f \in [1 .. Len(f) -> S]
  BY <1>3
<1>5. Sequence(f)
  BY <1>4 DEF Sequence
<1>6. QED
  BY <1>2, <1>5 DEF f

LEMMA Mapped ==
  ASSUME NEW s, Sequence(s), NEW f, f = [i \in DOMAIN s |-> f[i]]
  PROVE  Sequence(f) /\ Len(f) = Len(s) /\ DOMAIN f = 1 .. Len(s)
<1>1. DOMAIN s = 1 .. Len(s) /\ Len(s) \in Nat
  BY DEF Sequence
<1>2. f = [i \in 1 .. Len(s) |-> f[i]]
  BY <1>1
<1> DEFINE S == {f[i] : i \in 1 .. Len(s)}
<1>3. f \in [1 .. Len(s) -> S]
  BY <1>2
<1> HIDE DEF S
<1>4. f \in Seq(S) /\ Len(f) = Len(s)
  BY <1>1, <1>3
<1>5. QED
  BY <1>1, <1>2, <1>4 DEF Sequence

-----------------------------------------------------------------------------
(* Steps that leave the tokens alone                                       *)

LEMMA IdleJob == JobRecord(Idle) /\ Idle.pc = "idle" /\ Idle.tok = 0
BY DEF Idle, JobRecord

\* A request that goes on, or ends, without giving its family a token.
LEMMA RequestGoesOn ==
  ASSUME IInv, NEW r \in Requests, NEW to, req' = [req EXCEPT ![r] = to],
         UNCHANGED <<tokens, logins>>, JobRecord(to), HandOver(to),
         Holds(to) => Holds(req[r]) /\ to.fam = req[r].fam
  PROVE  IInv'
<1>1. /\ req' = [s \in Requests |-> req'[s]]
      /\ \A s \in Requests : req'[s] = IF s = r THEN to ELSE req[s]
  BY DEF IInv, Typed
<1>2. Typed'
  BY <1>1 DEF IInv, Typed, JobRecord
<1>3. Numbered' /\ FamilyIsALine'
  BY DEF IInv, Numbered, FamilyIsALine, Live
<1>4. Alone'
  BY <1>1 DEF IInv, Alone
<1>5. \A s \in Requests : HandOver(req[s])'
  BY <1>1 DEF IInv, HandOver, Live
<1>6. QED
  BY <1>2, <1>3, <1>4, <1>5 DEF IInv

\* One that has no token on hand.
LEMMA EmptyHanded ==
  ASSUME IInv, NEW r \in Requests, NEW to, req' = [req EXCEPT ![r] = to],
         UNCHANGED <<tokens, logins>>, JobRecord(to), to.tok = 0,
         to.pc \notin {"consume", "reload", "issue"}
  PROVE  IInv'
<1>1. HandOver(to) /\ ~Holds(to)
  BY DEF HandOver, Holds
<1>2. QED
  BY <1>1, RequestGoesOn

LEMMA CodeKeeps ==
  ASSUME IInv, NEW r \in Requests, Code(r)
  PROVE  IInv'
<1>1. CASE CountCodes(r)
  <2>1. PICK p : req' = [req EXCEPT ![r] = [Idle EXCEPT !.pc = "codeIssue", !.phone = p,
                                                        !.ch = Len(challenges)]]
    BY <1>1 DEF CountCodes
  <2> DEFINE to == [Idle EXCEPT !.pc = "codeIssue", !.phone = p, !.ch = Len(challenges)]
  <2>2. JobRecord(to) /\ to.tok = 0 /\ to.pc = "codeIssue"
    BY DEF JobRecord, Idle
  <2>3. req' = [req EXCEPT ![r] = to]
    BY <2>1
  <2> HIDE DEF to
  <2>4. QED
    BY <1>1, <2>2, <2>3, EmptyHanded DEF CountCodes
<1>2. CASE IssueCode(r)
  <2> DEFINE to == [req[r] EXCEPT !.pc = "codeSend", !.ch = Len(challenges) + 1]
  <2>1. JobRecord(to) /\ to.pc = "codeSend"
    <3>1. JobRecord(req[r])
      BY DEF IInv, Typed
    <3>2. QED
      BY <3>1 DEF JobRecord
  <2>2. req' = [req EXCEPT ![r] = to]
    BY <1>2 DEF IssueCode, IInv, Typed
  <2> HIDE DEF to
  <2>3. HandOver(to) /\ ~Holds(to)
    BY <2>1 DEF HandOver, Holds
  <2>4. QED
    BY <1>2, <2>1, <2>2, <2>3, RequestGoesOn DEF IssueCode
<1>3. CASE SendCode(r)
  BY <1>3, IdleJob, EmptyHanded DEF SendCode
<1>4. QED
  BY <1>1, <1>2, <1>3 DEF Code

\* The step of a request from one of its states to the next.
LEMMA Proceeds ==
  ASSUME IInv, NEW r \in Requests, NEW pc, pc \in {"consumeCode", "upsert"},
         req[r].pc \in {"bump", "consumeCode"},
         req' = [req EXCEPT ![r] = [req[r] EXCEPT !.pc = pc]], UNCHANGED <<tokens, logins>>
  PROVE  IInv'
<1> DEFINE to == [req[r] EXCEPT !.pc = pc]
<1>1. JobRecord(to) /\ to.pc = pc /\ to.tok = req[r].tok
  <2>1. JobRecord(req[r])
    BY DEF IInv, Typed
  <2>2. QED
    BY <2>1 DEF JobRecord
<1>2. req' = [req EXCEPT ![r] = to]
  OBVIOUS
<1> HIDE DEF to
<1>3. to.tok = 0
  BY <1>1 DEF IInv, HandOver
<1>4. QED
  BY <1>1, <1>2, <1>3, EmptyHanded

LEMMA GuessKeeps ==
  ASSUME IInv, NEW r \in Requests, ReadCode(r) \/ CountGuess(r) \/ ConsumeCode(r)
  PROVE  IInv'
<1>1. ASSUME ReadCode(r), NEW p, NEW c, NEW right,
             req' = [req EXCEPT ![r] = [Idle EXCEPT !.pc = "bump", !.phone = p, !.ch = c,
                                                    !.right = right]]
      PROVE  IInv'
  <2> DEFINE to == [Idle EXCEPT !.pc = "bump", !.phone = p, !.ch = c, !.right = right]
  <2>1. JobRecord(to) /\ to.tok = 0 /\ to.pc = "bump"
    BY DEF JobRecord, Idle
  <2>2. req' = [req EXCEPT ![r] = to]
    BY <1>1
  <2> HIDE DEF to
  <2>3. QED
    BY <1>1, <2>1, <2>2, EmptyHanded DEF ReadCode
<1>2. CASE CountGuess(r)
  <2>1. CASE req' = [req EXCEPT ![r] = Idle]
    BY <1>2, <2>1, IdleJob, EmptyHanded DEF CountGuess
  <2>2. CASE req' = [req EXCEPT ![r] = [req[r] EXCEPT !.pc = "consumeCode"]]
    BY <1>2, <2>2, Proceeds DEF CountGuess
  <2>3. QED
    BY <1>2, <2>1, <2>2 DEF CountGuess
<1>3. CASE ConsumeCode(r)
  <2>1. req' = [req EXCEPT ![r] = [req[r] EXCEPT !.pc = "upsert"]]
    BY <1>3 DEF ConsumeCode, IInv, Typed
  <2>2. QED
    BY <1>3, <2>1, Proceeds DEF ConsumeCode
<1>4. ASSUME ReadCode(r)
      PROVE  IInv'
  <2>1. PICK p \in Phones, c \in DOMAIN challenges :
          /\ IsNewest(c, Verifiable(p))
          /\ \E typed \in {d \in Codes(p) : challenges[d].sent} \cup {0} :
               req' = [req EXCEPT ![r] = [Idle EXCEPT !.pc = "bump", !.phone = p, !.ch = c,
                                                      !.right = (typed = c)]]
    BY <1>4, Zenon DEF ReadCode
  <2>2. PICK typed :
          req' = [req EXCEPT ![r] = [Idle EXCEPT !.pc = "bump", !.phone = p, !.ch = c,
                                                 !.right = (typed = c)]]
    BY <2>1, Zenon
  <2>3. QED
    BY <1>1, <1>4, <2>2, Zenon
<1>5. QED
  BY <1>2, <1>3, <1>4

\* A login begins a family, which no token and no other request is of.
LEMMA UpsertKeeps ==
  ASSUME IInv, NEW r \in Requests, UpsertUser(r)
  PROVE  IInv'
<1>1. PICK ver : req' = [req EXCEPT ![r] = [req[r] EXCEPT !.pc = "issue", !.ver = ver,
                                                          !.fam = Len(logins) + 1]]
  BY DEF UpsertUser, IInv, Typed
<1> DEFINE to == [req[r] EXCEPT !.pc = "issue", !.ver = ver, !.fam = Len(logins) + 1]
<1>2. JobRecord(to) /\ to.pc = "issue" /\ to.fam = Len(logins) + 1 /\ to.tok = 0
  <2>1. JobRecord(req[r]) /\ req[r].tok = 0
    BY DEF UpsertUser, IInv, Typed, HandOver
  <2>2. QED
    BY <2>1 DEF JobRecord
<1>3. /\ req' = [s \in Requests |-> req'[s]]
      /\ \A s \in Requests : req'[s] = IF s = r THEN to ELSE req[s]
  BY <1>1 DEF IInv, Typed
<1> HIDE DEF to
<1>4. Sequence(logins') /\ Len(logins') = Len(logins) + 1 /\ Len(logins) \in Nat /\ tokens' = tokens
  <2>1. Sequence(logins)
    BY DEF IInv, Typed
  <2>2. logins' = Append(logins, req[r].ch) /\ tokens' = tokens
    BY DEF UpsertUser
  <2>3. QED
    BY <2>1, <2>2, Appended DEF Sequence
<1>5. Typed'
  BY <1>2, <1>3, <1>4 DEF IInv, Typed, JobRecord
<1>6. Numbered' /\ FamilyIsALine'
  BY <1>4 DEF IInv, Numbered, FamilyIsALine, Live
<1>7. \A s \in Requests : Holds(req[s]) => req[s].fam \in 1 .. Len(logins)
  BY DEF IInv, HandOver
<1>8. Alone'
  BY <1>2, <1>3, <1>4, <1>7 DEF IInv, Alone, Holds
<1>9. ASSUME NEW s \in Requests
      PROVE  HandOver(req[s])'
  <2>1. CASE s # r
    <3>1. HandOver(req[s])
      BY DEF IInv
    <3>2. QED
      BY <1>3, <1>4, <2>1, <3>1 DEF HandOver, Live, Holds
  <2>2. CASE s = r
    <3>1. \A t \in DOMAIN tokens : tokens[t].fam # Len(logins) + 1
      BY <1>4 DEF IInv, Numbered
    <3>2. QED
      BY <1>2, <1>3, <1>4, <2>2, <3>1 DEF HandOver, Holds, Live
  <2>3. QED
    BY <2>1, <2>2
<1>10. QED
  BY <1>5, <1>6, <1>8, <1>9 DEF IInv

-----------------------------------------------------------------------------
(* Refresh tokens                                                          *)

LEMMA ReadTokenKeeps ==
  ASSUME IInv, NEW r \in Requests, ReadRefreshToken(r)
  PROVE  IInv'
<1>1. PICK t \in DOMAIN tokens :
        req' = [req EXCEPT ![r] = [Idle EXCEPT !.pc = IF Live(t) THEN "consume" ELSE "reuse",
                                   !.phone = tokens[t].user, !.tok = t, !.fam = tokens[t].fam]]
  BY DEF ReadRefreshToken
<1> DEFINE to == [Idle EXCEPT !.pc = IF Live(t) THEN "consume" ELSE "reuse",
                              !.phone = tokens[t].user, !.tok = t, !.fam = tokens[t].fam]
<1>2. /\ JobRecord(to) /\ to.pc \in {"consume", "reuse"} /\ to.tok = t
      /\ to.fam = tokens[t].fam /\ to.phone = tokens[t].user
  BY DEF JobRecord, Idle
<1>3. req' = [req EXCEPT ![r] = to]
  BY <1>1
<1> HIDE DEF to
<1>4. t # 0
  BY DEF IInv, Typed, Sequence
<1>5. HandOver(to) /\ ~Holds(to)
  BY <1>2, <1>4 DEF HandOver, Holds
<1>6. QED
  BY <1>2, <1>3, <1>5, RequestGoesOn DEF ReadRefreshToken

LEMMA ReloadKeeps ==
  ASSUME IInv, NEW r \in Requests, ReloadUser(r)
  PROVE  IInv'
<1> DEFINE to == [req[r] EXCEPT !.pc = "issue", !.ver = version[req[r].phone]]
<1>1. /\ JobRecord(to) /\ to.pc = "issue" /\ to.tok = req[r].tok
      /\ to.fam = req[r].fam /\ to.phone = req[r].phone
  <2>1. JobRecord(req[r])
    BY DEF IInv, Typed
  <2>2. QED
    BY <2>1 DEF JobRecord
<1>2. req' = [req EXCEPT ![r] = to]
  BY DEF ReloadUser, IInv, Typed
<1> HIDE DEF to
<1>3. HandOver(to)
  BY <1>1 DEF ReloadUser, IInv, HandOver, Holds
<1>4. Holds(req[r])
  BY DEF ReloadUser, Holds
<1>5. QED
  BY <1>1, <1>2, <1>3, <1>4, RequestGoesOn DEF ReloadUser

\* Tokens are revoked, requests end or stay where they are.
LEMMA RevokedKeeps ==
  ASSUME IInv, NEW S, tokens' = RevokeAll(S), logins' = logins,
         req' = [s \in Requests |-> req'[s]],
         \A s \in Requests : req'[s] \in {req[s], Idle}
  PROVE  IInv'
<1>1. Sequence(tokens) /\ DOMAIN tokens = 1 .. Len(tokens)
  BY DEF IInv, Typed, Sequence
<1>2. Sequence(tokens') /\ Len(tokens') = Len(tokens) /\ DOMAIN tokens' = DOMAIN tokens
  <2>1. tokens' = [t \in DOMAIN tokens |-> tokens'[t]]
    BY DEF RevokeAll
  <2>2. QED
    BY <1>1, <2>1, Mapped
<1>3. \A t \in DOMAIN tokens :
        /\ TokenRecord(tokens'[t])
        /\ tokens'[t].fam = tokens[t].fam /\ tokens'[t].user = tokens[t].user
        /\ tokens'[t].next = tokens[t].next
        /\ Live(t)' => Live(t)
  <2>1. SUFFICES ASSUME NEW t \in DOMAIN tokens
                 PROVE  /\ TokenRecord(tokens'[t])
                        /\ tokens'[t].fam = tokens[t].fam /\ tokens'[t].user = tokens[t].user
                        /\ tokens'[t].next = tokens[t].next
                        /\ Live(t)' => Live(t)
    OBVIOUS
  <2>2. TokenRecord(tokens[t])
    BY DEF IInv, Typed
  <2>3. tokens'[t] = IF t \in S THEN [tokens[t] EXCEPT !.revoked = TRUE] ELSE tokens[t]
    BY DEF RevokeAll
  <2>4. QED
    BY <2>2, <2>3 DEF TokenRecord, Live
<1>4. \A s \in Requests : JobRecord(req'[s])
  BY IdleJob DEF IInv, Typed
<1>5. Typed'
  BY <1>2, <1>3, <1>4 DEF IInv, Typed, JobRecord, TokenRecord
<1>6. Numbered' /\ FamilyIsALine'
  BY <1>2, <1>3 DEF IInv, Numbered, FamilyIsALine
<1>7. Alone'
  BY IdleJob DEF IInv, Alone, Holds
<1>8. ASSUME NEW s \in Requests
      PROVE  HandOver(req[s])'
  <2>1. HandOver(req[s])
    BY DEF IInv
  <2>2. QED
    BY <1>2, <1>3, <2>1, IdleJob DEF HandOver, Holds
<1>9. QED
  BY <1>5, <1>6, <1>7, <1>8 DEF IInv

LEMMA Revoking ==
  ASSUME IInv, NEW r \in Requests, RevokeFamily(r) \/ Logout \/ RevokeSessions
  PROVE  IInv'
<1>1. CASE RevokeFamily(r)
  BY <1>1, RevokedKeeps DEF RevokeFamily, IInv, Typed
<1>2. CASE Logout
  BY <1>2, RevokedKeeps DEF Logout, IInv, Typed
<1>3. CASE RevokeSessions
  BY <1>3, RevokedKeeps DEF RevokeSessions, IInv, Typed
<1>4. QED
  BY <1>1, <1>2, <1>3

\* Of the requests that present a token one finds it good: it alone holds the family.
LEMMA ConsumeKeeps ==
  ASSUME IInv, NEW r \in Requests, ConsumeToken(r)
  PROVE  IInv'
<1> DEFINE k == req[r].tok
<1>1. /\ k \in DOMAIN tokens /\ k # 0
      /\ req[r].fam = tokens[k].fam /\ req[r].phone = tokens[k].user
  BY DEF ConsumeToken, IInv, HandOver
<1>2. tokens' = RevokeAll({k}) /\ logins' = logins
  BY DEF ConsumeToken, RevokeAll
<1>3. CASE ~Live(k)
  <2>1. req' = [req EXCEPT ![r] = Idle]
    BY <1>3 DEF ConsumeToken
  <2>2. QED
    BY <1>2, <2>1, RevokedKeeps DEF IInv, Typed
<1>4. CASE Live(k)
  <2> DEFINE to == [req[r] EXCEPT !.pc = "reload"]
  <2>1. /\ JobRecord(to) /\ to.pc = "reload" /\ to.tok = k
        /\ to.fam = tokens[k].fam /\ to.phone = tokens[k].user
    <3>1. JobRecord(req[r])
      BY DEF IInv, Typed
    <3>2. QED
      BY <1>1, <3>1 DEF JobRecord
  <2>2. /\ req' = [s \in Requests |-> req'[s]]
        /\ \A s \in Requests : req'[s] = IF s = r THEN to ELSE req[s]
    BY <1>4 DEF ConsumeToken, IInv, Typed
  <2> HIDE DEF to, k
  <2>3. Sequence(tokens) /\ DOMAIN tokens = 1 .. Len(tokens)
    BY DEF IInv, Typed, Sequence
  <2>4. Sequence(tokens') /\ Len(tokens') = Len(tokens) /\ DOMAIN tokens' = DOMAIN tokens
    <3>1. tokens' = [t \in DOMAIN tokens |-> tokens'[t]]
      BY <1>2 DEF RevokeAll
    <3>2. QED
      BY <2>3, <3>1, Mapped
  <2>5. ASSUME NEW t \in DOMAIN tokens
        PROVE  /\ TokenRecord(tokens'[t])
               /\ tokens'[t].fam = tokens[t].fam /\ tokens'[t].user = tokens[t].user
               /\ tokens'[t].next = tokens[t].next
               /\ Live(t)' => Live(t) /\ t # k
    <3>1. TokenRecord(tokens[t])
      BY DEF IInv, Typed
    <3>2. tokens'[t] = IF t = k THEN [tokens[t] EXCEPT !.revoked = TRUE] ELSE tokens[t]
      BY <1>2 DEF RevokeAll
    <3>3. QED
      BY <3>1, <3>2 DEF TokenRecord, Live
  <2>6. Typed'
    <3>1. \A s \in Requests : JobRecord(req'[s])
      BY <2>1, <2>2 DEF IInv, Typed
    <3>2. \A t \in DOMAIN tokens' : TokenRecord(tokens'[t])
      BY <2>4, <2>5
    <3>3. Sequence(logins')
      BY <1>2 DEF IInv, Typed
    <3>4. QED
      BY <2>2, <2>4, <3>1, <3>2, <3>3 DEF Typed
  <2>7. Numbered' /\ FamilyIsALine'
    <3>1. Numbered'
      BY <1>2, <2>4, <2>5 DEF IInv, Numbered
    <3>2. FamilyIsALine
      BY DEF IInv
    <3>3. FamilyIsALine'
      BY <2>4, <2>5, <3>2 DEF FamilyIsALine
    <3>4. QED
      BY <3>1, <3>3
  <2>8. \A s \in Requests : Holds(req[s]) => req[s].fam # tokens[k].fam
    BY <1>1, <1>4 DEF IInv, HandOver
  <2>9. Alone'
    BY <2>1, <2>2, <2>8 DEF IInv, Alone
  <2>10. tokens[k].next = 0
    BY <1>1, <1>4, <2>3 DEF IInv, Numbered, FamilyIsALine, Sequence
  <2>11. \A t \in DOMAIN tokens : tokens[t].fam = tokens[k].fam /\ Live(t) => t = k
    BY <1>1, <1>4 DEF IInv, FamilyIsALine
  <2>12. ASSUME NEW s \in Requests
         PROVE  HandOver(req[s])'
    <3>1. HandOver(req[s])
      BY DEF IInv
    <3>2. CASE s # r
      BY <1>2, <2>2, <2>4, <2>5, <3>1, <3>2 DEF HandOver, Holds
    <3>3. CASE s = r
      <4>1. tokens[k].fam \in 1 .. Len(logins)
        BY <1>1 DEF IInv, Numbered
      <4>2. req'[s] = to
        BY <2>2, <3>3
      <4>3. \A t \in DOMAIN tokens' : tokens'[t].fam = tokens[k].fam => ~Live(t)'
        BY <2>4, <2>5, <2>11
      <4>4. /\ k \in DOMAIN tokens' /\ tokens'[k].fam = tokens[k].fam
            /\ tokens'[k].user = tokens[k].user /\ tokens'[k].next = 0
        BY <1>1, <2>4, <2>5, <2>10
      <4>5. QED
        BY <1>1, <1>2, <2>1, <4>1, <4>2, <4>3, <4>4 DEF HandOver, Holds
    <3>4. QED
      BY <3>2, <3>3
  <2>13. QED
    BY <2>6, <2>7, <2>9, <2>12 DEF IInv
<1>5. QED
  BY <1>3, <1>4

\* The token that is inserted is the only good one of its family, and follows the one that
\* its request has used up.
LEMMA IssueKeeps ==
  ASSUME IInv, NEW r \in Requests, IssueSession(r)
  PROVE  IInv'
<1> DEFINE q == req[r]
<1> DEFINE n == Len(tokens) + 1
<1> DEFINE new == [user |-> q.phone, fam |-> q.fam, ver |-> q.ver, revoked |-> FALSE, next |-> 0]
<1> DEFINE base == IF q.tok = 0 THEN tokens ELSE [tokens EXCEPT ![q.tok].next = n]
<1>1. /\ q.pc = "issue" /\ tokens' = Append(base, new) /\ logins' = logins
      /\ req' = [req EXCEPT ![r] = Idle]
  BY DEF IssueSession
<1>2. /\ req' = [s \in Requests |-> req'[s]]
      /\ \A s \in Requests : req'[s] = IF s = r THEN Idle ELSE req[s]
  BY <1>1 DEF IInv, Typed
<1>3. /\ q.fam \in 1 .. Len(logins)
      /\ \A t \in DOMAIN tokens : tokens[t].fam = q.fam => ~Live(t)
      /\ q.tok # 0 => /\ q.tok \in DOMAIN tokens /\ tokens[q.tok].next = 0
                      /\ q.fam = tokens[q.tok].fam /\ q.phone = tokens[q.tok].user
  BY <1>1 DEF IInv, HandOver, Holds
<1>4. Sequence(tokens) /\ DOMAIN tokens = 1 .. Len(tokens) /\ Len(tokens) \in Nat
  BY DEF IInv, Typed, Sequence
<1>5. /\ TokenRecord(new) /\ new.user = q.phone /\ new.fam = q.fam /\ ~new.revoked /\ new.next = 0
  BY DEF TokenRecord
<1>6. Sequence(base) /\ Len(base) = Len(tokens)
  <2>1. base = [t \in DOMAIN tokens |-> base[t]]
    BY <1>4 DEF Sequence
  <2> HIDE DEF base
  <2>2. QED
    BY <1>4, <2>1, Mapped
<1>7. ASSUME NEW t \in 1 .. Len(tokens)
      PROVE  /\ TokenRecord(base[t])
             /\ base[t].fam = tokens[t].fam /\ base[t].user = tokens[t].user
             /\ base[t].revoked = tokens[t].revoked
             /\ base[t].next = IF q.tok # 0 /\ t = q.tok THEN n ELSE tokens[t].next
  <2>1. TokenRecord(tokens[t])
    BY <1>4 DEF IInv, Typed
  <2>2. base[t] = IF q.tok # 0 /\ t = q.tok THEN [tokens[t] EXCEPT !.next = n] ELSE tokens[t]
    BY <1>4
  <2> HIDE DEF base, n
  <2>3. QED
    BY <2>1, <2>2 DEF TokenRecord
<1> HIDE DEF base, new, q
<1>8. /\ Sequence(tokens') /\ Len(tokens') = n /\ DOMAIN tokens' = 1 .. n
      /\ \A t \in 1 .. Len(tokens) : tokens'[t] = base[t]
      /\ tokens'[n] = new
  BY <1>1, <1>6, Appended
<1>9. /\ \A t \in 1 .. Len(tokens) :
           /\ TokenRecord(tokens'[t])
           /\ tokens'[t].fam = tokens[t].fam /\ tokens'[t].user = tokens[t].user
           /\ tokens'[t].next = IF q.tok # 0 /\ t = q.tok THEN n ELSE tokens[t].next
           /\ Live(t)' <=> Live(t)
      /\ TokenRecord(tokens'[n]) /\ tokens'[n].fam = q.fam /\ tokens'[n].user = q.phone
      /\ tokens'[n].next = 0
  BY <1>5, <1>7, <1>8 DEF Live
<1>10. n \notin 1 .. Len(tokens) /\ n \in Nat /\ n # 0
  BY <1>4
<1> HIDE DEF n
<1>11. DOMAIN tokens' = DOMAIN tokens \cup {n}
  BY <1>4, <1>8 DEF n
<1>12. Typed'
  <2>1. \A t \in DOMAIN tokens' : TokenRecord(tokens'[t])
    BY <1>4, <1>9, <1>11
  <2>2. \A s \in Requests : JobRecord(req'[s])
    BY <1>2, IdleJob DEF IInv, Typed
  <2>3. Sequence(logins')
    BY <1>1 DEF IInv, Typed
  <2>4. QED
    BY <1>2, <1>8, <2>1, <2>2, <2>3 DEF Typed, TokenRecord, JobRecord
<1>13. \A t \in DOMAIN tokens : tokens[t].fam \in 1 .. Len(logins) /\ tokens[t].next \in 0 .. Len(tokens)
  BY DEF IInv, Numbered
<1>14. Numbered'
  BY <1>1, <1>3, <1>4, <1>8, <1>9, <1>10, <1>11, <1>13 DEF Numbered, n
<1>15. FamilyIsALine'
  <2>1. SUFFICES ASSUME NEW t \in DOMAIN tokens', NEW u \in DOMAIN tokens'
                 PROVE  /\ tokens'[t].fam = tokens'[u].fam /\ Live(t)' /\ Live(u)' => t = u
                        /\ tokens'[t].next = u =>
                             /\ ~Live(t)' /\ t < u
                             /\ tokens'[t].user = tokens'[u].user /\ tokens'[t].fam = tokens'[u].fam
                        /\ tokens'[t].next = tokens'[u].next /\ tokens'[t].next # 0 => t = u
    BY DEF FamilyIsALine
  <2>2. tokens'[t].fam = tokens'[u].fam /\ Live(t)' /\ Live(u)' => t = u
    BY <1>3, <1>4, <1>9, <1>10, <1>11, <2>1 DEF IInv, FamilyIsALine
  <2>3. \A v \in DOMAIN tokens : tokens[v].next # n
    BY <1>4, <1>13 DEF n
  <2>4. ASSUME tokens'[t].next = u
        PROVE  /\ ~Live(t)' /\ t < u
               /\ tokens'[t].user = tokens'[u].user /\ tokens'[t].fam = tokens'[u].fam
    <3>1. u # 0
      BY <1>4, <1>10, <1>11
    <3>2. t \in DOMAIN tokens
      BY <1>9, <1>11, <2>4, <3>1
    <3>3. CASE q.tok # 0 /\ t = q.tok
      <4>1. u = n
        BY <1>4, <1>9, <2>4, <3>2, <3>3
      <4>2. t < n
        BY <1>4, <3>2 DEF n
      <4>3. QED
        BY <1>3, <1>4, <1>9, <3>2, <3>3, <4>1, <4>2
    <3>4. CASE ~(q.tok # 0 /\ t = q.tok)
      <4>1. tokens[t].next = u
        BY <1>4, <1>9, <2>4, <3>2, <3>4
      <4>2. u \in DOMAIN tokens
        BY <1>11, <2>3, <3>2, <4>1
      <4>3. QED
        BY <1>4, <1>9, <3>2, <4>1, <4>2 DEF IInv, FamilyIsALine
    <3>5. QED
      BY <3>3, <3>4
  <2>5. ASSUME tokens'[t].next = tokens'[u].next, tokens'[t].next # 0
        PROVE  t = u
    <3>1. t \in DOMAIN tokens /\ u \in DOMAIN tokens
      BY <1>9, <1>11, <2>5
    <3>2. QED
      BY <1>4, <1>9, <2>3, <2>5, <3>1 DEF IInv, FamilyIsALine
  <2>6. QED
    BY <2>2, <2>4, <2>5
<1>16. Alone'
  BY <1>2, IdleJob DEF IInv, Alone, Holds
<1>17. ASSUME NEW s \in Requests
       PROVE  HandOver(req[s])'
  <2>1. CASE s = r
    BY <1>2, <2>1, IdleJob DEF HandOver, Holds
  <2>2. CASE s # r
    <3>1. HandOver(req[s]) /\ req'[s] = req[s]
      BY <1>2, <2>2 DEF IInv
    <3>2. Holds(req[s]) => req[s].fam # q.fam
      BY <1>1, <2>2 DEF IInv, Alone, Holds, q
    <3>3. Holds(req[s]) => \A t \in DOMAIN tokens' : tokens'[t].fam = req[s].fam => ~Live(t)'
      BY <1>4, <1>9, <1>11, <3>1, <3>2 DEF HandOver
    <3>4. Holds(req[s]) /\ req[s].tok # 0 => tokens'[req[s].tok].next = 0
      BY <1>3, <1>4, <1>9, <3>1, <3>2 DEF HandOver, Holds
    <3>5. \A t \in DOMAIN tokens : /\ t \in DOMAIN tokens'
                                   /\ tokens'[t].fam = tokens[t].fam /\ tokens'[t].user = tokens[t].user
      BY <1>4, <1>9, <1>11
    <3>6. QED
      BY <1>1, <3>1, <3>3, <3>4, <3>5 DEF HandOver
  <2>3. QED
    BY <2>1, <2>2
<1>18. QED
  BY <1>12, <1>14, <1>15, <1>16, <1>17 DEF IInv

-----------------------------------------------------------------------------
(* The theorem                                                             *)

LEMMA NothingMoves ==
  ASSUME IInv, UNCHANGED <<tokens, logins, req>>
  PROVE  IInv'
BY DEF IInv, Typed, Numbered, Alone, FamilyIsALine, HandOver, Live, Holds

LEMMA Initially == Init => IInv
<1> SUFFICES ASSUME Init PROVE IInv
  OBVIOUS
<1>1. logins = << >> /\ tokens = << >> /\ req = [r \in Requests |-> Idle]
  BY DEF Init
<1>2. Sequence(<< >>) /\ DOMAIN << >> = {}
  BY DEF Sequence
<1>3. Typed
  BY <1>1, <1>2, IdleJob DEF Typed
<1>4. Numbered /\ Alone /\ FamilyIsALine /\ \A r \in Requests : HandOver(req[r])
  BY <1>1, <1>2, IdleJob DEF Numbered, Alone, FamilyIsALine, HandOver, Holds
<1>5. QED
  BY <1>3, <1>4 DEF IInv

LEMMA Inductive == IInv /\ [Next]_vars => IInv'
<1> SUFFICES ASSUME IInv, [Next]_vars PROVE IInv'
  OBVIOUS
<1>1. ASSUME NEW r \in Requests, Code(r) \/ Login(r) \/ Refresh(r) \/ IssueSession(r) \/ Crash(r)
      PROVE  IInv'
  <2>1. CASE Login(r)
    BY <2>1, GuessKeeps, UpsertKeeps DEF Login
  <2>2. CASE Refresh(r)
    BY <2>2, ReadTokenKeeps, Revoking, ConsumeKeeps, ReloadKeeps DEF Refresh
  <2>3. CASE Crash(r)
    BY <2>3, IdleJob, EmptyHanded DEF Crash
  <2>4. QED
    BY <1>1, <2>1, <2>2, <2>3, CodeKeeps, IssueKeeps
<1>2. CASE Logout \/ RevokeSessions
  BY <1>2, RevokedKeeps DEF Logout, RevokeSessions, IInv, Typed
<1>3. CASE CodeAges \/ UNCHANGED vars
  BY <1>3, NothingMoves DEF CodeAges, vars
<1>4. QED
  BY <1>1, <1>2, <1>3 DEF Next

\* Rotation keeps a family of refresh tokens a line with one good token at its end at most,
\* for any number of refreshes, replays, logins, logouts and crashes at the same time.
THEOREM FamiliesAreLines == Spec => []FamilyIsALine
<1>1. IInv => FamilyIsALine
  BY DEF IInv
<1>2. QED
  BY <1>1, Initially, Inductive, PTL DEF Spec

-----------------------------------------------------------------------------
(* A family that ended                                                     *)

\* No step makes a token good again, and none but the one that has just used up a good
\* token begins to hand the family over.
LEMMA DeadFrame ==
  ASSUME NEW f, Dead(f),
         \A t \in DOMAIN tokens' : tokens'[t].fam = f /\ Live(t)' =>
           t \in DOMAIN tokens /\ tokens[t].fam = f /\ Live(t),
         \A s \in Requests : Holds(req'[s]) /\ req'[s].fam = f =>
           Holds(req[s]) /\ req[s].fam = f
  PROVE  Dead(f)'
BY DEF Dead, Family, Holds

\* The step of a request that leaves the tokens alone.
LEMMA DeadRequest ==
  ASSUME IInv, NEW f, Dead(f), NEW r \in Requests, NEW to, req' = [req EXCEPT ![r] = to],
         tokens' = tokens, Holds(to) /\ to.fam = f => Holds(req[r]) /\ req[r].fam = f
  PROVE  Dead(f)'
<1>1. \A s \in Requests : req'[s] = IF s = r THEN to ELSE req[s]
  BY DEF IInv, Typed
<1>2. \A s \in Requests : Holds(req'[s]) /\ req'[s].fam = f => Holds(req[s]) /\ req[s].fam = f
  BY <1>1
<1>3. QED
  BY <1>2, DeadFrame DEF Live

LEMMA DeadCode ==
  ASSUME IInv, NEW f, Dead(f), NEW r \in Requests, Code(r) \/ Crash(r)
  PROVE  Dead(f)'
<1>1. CASE CountCodes(r)
  <2>1. PICK p : req' = [req EXCEPT ![r] = [Idle EXCEPT !.pc = "codeIssue", !.phone = p,
                                                        !.ch = Len(challenges)]]
    BY <1>1 DEF CountCodes
  <2> DEFINE to == [Idle EXCEPT !.pc = "codeIssue", !.phone = p, !.ch = Len(challenges)]
  <2>2. ~Holds(to)
    BY DEF Idle, Holds
  <2>3. req' = [req EXCEPT ![r] = to]
    BY <2>1
  <2> HIDE DEF to
  <2>4. QED
    BY <1>1, <2>2, <2>3, DeadRequest DEF CountCodes
<1>2. CASE IssueCode(r)
  <2> DEFINE to == [req[r] EXCEPT !.pc = "codeSend", !.ch = Len(challenges) + 1]
  <2>1. ~Holds(to)
    <3>1. JobRecord(req[r])
      BY DEF IInv, Typed
    <3>2. QED
      BY <3>1 DEF JobRecord, Holds
  <2>2. req' = [req EXCEPT ![r] = to]
    BY <1>2 DEF IssueCode, IInv, Typed
  <2> HIDE DEF to
  <2>3. QED
    BY <1>2, <2>1, <2>2, DeadRequest DEF IssueCode
<1>3. CASE SendCode(r) \/ Crash(r)
  <2>1. ~Holds(Idle)
    BY IdleJob DEF Holds
  <2>2. QED
    BY <1>3, <2>1, DeadRequest DEF SendCode, Crash
<1>4. QED
  BY <1>1, <1>2, <1>3 DEF Code

LEMMA DeadLogin ==
  ASSUME IInv, NEW f \in DOMAIN logins, Dead(f), NEW r \in Requests, Login(r)
  PROVE  Dead(f)'
<1>1. ~Holds(Idle)
  BY IdleJob DEF Holds
<1>2. JobRecord(req[r])
  BY DEF IInv, Typed
<1>3. ASSUME NEW pc \in {"consumeCode", "upsert"}
      PROVE  ~Holds([req[r] EXCEPT !.pc = pc])
  BY <1>2 DEF JobRecord, Holds
<1>4. CASE ReadCode(r)
  <2>1. \E p, c, right :
          req' = [req EXCEPT ![r] = [Idle EXCEPT !.pc = "bump", !.phone = p, !.ch = c,
                                                 !.right = right]]
    <3>1. PICK p \in Phones, c \in DOMAIN challenges :
            /\ IsNewest(c, Verifiable(p))
            /\ \E typed \in {d \in Codes(p) : challenges[d].sent} \cup {0} :
                 req' = [req EXCEPT ![r] = [Idle EXCEPT !.pc = "bump", !.phone = p, !.ch = c,
                                                        !.right = (typed = c)]]
      BY <1>4, Zenon DEF ReadCode
    <3>2. PICK typed :
            req' = [req EXCEPT ![r] = [Idle EXCEPT !.pc = "bump", !.phone = p, !.ch = c,
                                                   !.right = (typed = c)]]
      BY <3>1, Zenon
    <3>3. QED
      BY <3>2, Zenon
  <2> PICK p, c, right :
        req' = [req EXCEPT ![r] = [Idle EXCEPT !.pc = "bump", !.phone = p, !.ch = c,
                                               !.right = right]]
    BY <2>1, Zenon
  <2> DEFINE to == [Idle EXCEPT !.pc = "bump", !.phone = p, !.ch = c, !.right = right]
  <2>2. ~Holds(to)
    BY DEF Idle, Holds
  <2>3. req' = [req EXCEPT ![r] = to]
    OBVIOUS
  <2> HIDE DEF to
  <2>4. QED
    BY <1>4, <2>2, <2>3, DeadRequest DEF ReadCode
<1>5. CASE CountGuess(r)
  <2>1. PICK to \in {Idle, [req[r] EXCEPT !.pc = "consumeCode"]} : req' = [req EXCEPT ![r] = to]
    BY <1>5 DEF CountGuess
  <2>2. ~Holds(to)
    BY <1>1, <1>3, <2>1
  <2>3. QED
    BY <1>5, <2>1, <2>2, DeadRequest DEF CountGuess
<1>6. CASE ConsumeCode(r)
  <2>1. req' = [req EXCEPT ![r] = [req[r] EXCEPT !.pc = "upsert"]]
    BY <1>6 DEF ConsumeCode, IInv, Typed
  <2>2. QED
    BY <1>3, <1>6, <2>1, DeadRequest DEF ConsumeCode
<1>7. CASE UpsertUser(r)
  <2>1. PICK ver : req' = [req EXCEPT ![r] = [req[r] EXCEPT !.pc = "issue", !.ver = ver,
                                                            !.fam = Len(logins) + 1]]
    BY <1>7 DEF UpsertUser, IInv, Typed
  <2> DEFINE to == [req[r] EXCEPT !.pc = "issue", !.ver = ver, !.fam = Len(logins) + 1]
  <2>2. to.fam = Len(logins) + 1
    BY <1>2 DEF JobRecord
  <2>3. req' = [req EXCEPT ![r] = to]
    BY <2>1
  <2> HIDE DEF to
  <2>4. f \in 1 .. Len(logins) /\ Len(logins) \in Nat
    BY DEF IInv, Typed, Sequence
  <2>5. to.fam # f
    BY <2>2, <2>4
  <2>6. QED
    BY <1>7, <2>3, <2>5, DeadRequest DEF UpsertUser
<1>8. QED
  BY <1>4, <1>5, <1>6, <1>7 DEF Login

LEMMA DeadRevoked ==
  ASSUME NEW f, Dead(f), NEW S, tokens' = RevokeAll(S),
         \A s \in Requests : req'[s] \in {req[s], Idle}
  PROVE  Dead(f)'
<1>1. ASSUME NEW t \in DOMAIN tokens', tokens'[t].fam = f, Live(t)'
      PROVE  t \in DOMAIN tokens /\ tokens[t].fam = f /\ Live(t)
  <2>1. t \in DOMAIN tokens
    BY <1>1 DEF RevokeAll
  <2>2. tokens'[t] = IF t \in S THEN [tokens[t] EXCEPT !.revoked = TRUE] ELSE tokens[t]
    BY <2>1 DEF RevokeAll
  <2>3. QED
    BY <1>1, <2>1, <2>2 DEF Live
<1>2. \A s \in Requests : Holds(req'[s]) /\ req'[s].fam = f => Holds(req[s]) /\ req[s].fam = f
  BY IdleJob DEF Holds
<1>3. QED
  BY <1>1, <1>2, DeadFrame

LEMMA DeadRefresh ==
  ASSUME IInv, NEW f, Dead(f), NEW r \in Requests, Refresh(r)
  PROVE  Dead(f)'
<1>1. CASE ReadRefreshToken(r)
  <2>1. PICK t \in DOMAIN tokens :
          req' = [req EXCEPT ![r] = [Idle EXCEPT !.pc = IF Live(t) THEN "consume" ELSE "reuse",
                                     !.phone = tokens[t].user, !.tok = t, !.fam = tokens[t].fam]]
    BY <1>1 DEF ReadRefreshToken
  <2> DEFINE to == [Idle EXCEPT !.pc = IF Live(t) THEN "consume" ELSE "reuse",
                                !.phone = tokens[t].user, !.tok = t, !.fam = tokens[t].fam]
  <2>2. ~Holds(to)
    BY DEF Idle, Holds
  <2>3. req' = [req EXCEPT ![r] = to]
    BY <2>1
  <2> HIDE DEF to
  <2>4. QED
    BY <1>1, <2>2, <2>3, DeadRequest DEF ReadRefreshToken
<1>2. CASE RevokeFamily(r)
  BY <1>2, DeadRevoked DEF RevokeFamily, IInv, Typed
<1>3. CASE ConsumeToken(r)
  <2>1. tokens' = RevokeAll({req[r].tok})
    BY <1>3 DEF ConsumeToken, RevokeAll
  <2>2. CASE ~Live(req[r].tok)
    BY <1>3, <2>1, <2>2, DeadRevoked DEF ConsumeToken, IInv, Typed
  <2>3. CASE Live(req[r].tok)
    <3>1. req[r].tok \in DOMAIN tokens /\ req[r].fam = tokens[req[r].tok].fam
      BY <1>3 DEF ConsumeToken, IInv, HandOver
    <3>2. req[r].fam # f
      BY <2>3, <3>1 DEF Dead, Family
    <3>3. [req[r] EXCEPT !.pc = "reload"].fam = req[r].fam
      BY DEF IInv, Typed, JobRecord
    <3>4. \A s \in Requests : req'[s] = IF s = r THEN [req[r] EXCEPT !.pc = "reload"] ELSE req[s]
      BY <1>3, <2>3 DEF ConsumeToken, IInv, Typed
    <3>5. ASSUME NEW t \in DOMAIN tokens', tokens'[t].fam = f, Live(t)'
          PROVE  t \in DOMAIN tokens /\ tokens[t].fam = f /\ Live(t)
      <4>1. t \in DOMAIN tokens
        BY <2>1, <3>5 DEF RevokeAll
      <4>2. tokens'[t] = IF t = req[r].tok THEN [tokens[t] EXCEPT !.revoked = TRUE] ELSE tokens[t]
        BY <2>1, <4>1 DEF RevokeAll
      <4>3. QED
        BY <3>5, <4>1, <4>2 DEF Live
    <3>6. \A s \in Requests : Holds(req'[s]) /\ req'[s].fam = f => Holds(req[s]) /\ req[s].fam = f
      BY <3>2, <3>3, <3>4
    <3>7. QED
      BY <3>5, <3>6, DeadFrame
  <2>4. QED
    BY <2>2, <2>3
<1>4. CASE ReloadUser(r)
  <2> DEFINE to == [req[r] EXCEPT !.pc = "issue", !.ver = version[req[r].phone]]
  <2>1. to.fam = req[r].fam
    BY DEF IInv, Typed, JobRecord
  <2>2. req' = [req EXCEPT ![r] = to]
    BY <1>4 DEF ReloadUser, IInv, Typed
  <2> HIDE DEF to
  <2>3. Holds(req[r])
    BY <1>4 DEF ReloadUser, Holds
  <2>4. QED
    BY <1>4, <2>1, <2>2, <2>3, DeadRequest DEF ReloadUser
<1>5. QED
  BY <1>1, <1>2, <1>3, <1>4 DEF Refresh

\* The request that inserts a token holds its family, which is not dead then.
LEMMA DeadIssue ==
  ASSUME IInv, NEW f, Dead(f), NEW r \in Requests, IssueSession(r)
  PROVE  Dead(f)'
<1> DEFINE q == req[r]
<1> DEFINE n == Len(tokens) + 1
<1> DEFINE new == [user |-> q.phone, fam |-> q.fam, ver |-> q.ver, revoked |-> FALSE, next |-> 0]
<1> DEFINE base == IF q.tok = 0 THEN tokens ELSE [tokens EXCEPT ![q.tok].next = n]
<1>1. q.pc = "issue" /\ tokens' = Append(base, new) /\ req' = [req EXCEPT ![r] = Idle]
  BY DEF IssueSession
<1>2. Sequence(tokens) /\ DOMAIN tokens = 1 .. Len(tokens) /\ Len(tokens) \in Nat
  BY DEF IInv, Typed, Sequence
<1>3. Sequence(base) /\ Len(base) = Len(tokens)
  <2>1. base = [t \in DOMAIN tokens |-> base[t]]
    BY <1>2 DEF Sequence
  <2> HIDE DEF base
  <2>2. QED
    BY <1>2, <2>1, Mapped
<1>4. \A t \in 1 .. Len(tokens) :
        base[t].fam = tokens[t].fam /\ base[t].revoked = tokens[t].revoked
  <2>1. SUFFICES ASSUME NEW t \in 1 .. Len(tokens)
                 PROVE  base[t].fam = tokens[t].fam /\ base[t].revoked = tokens[t].revoked
    OBVIOUS
  <2>2. TokenRecord(tokens[t])
    BY <1>2 DEF IInv, Typed
  <2>3. base[t] = IF q.tok # 0 /\ t = q.tok THEN [tokens[t] EXCEPT !.next = n] ELSE tokens[t]
    BY <1>2
  <2> HIDE DEF base, n
  <2>4. QED
    BY <2>2, <2>3 DEF TokenRecord
<1>5. new.fam = q.fam
  OBVIOUS
<1>6. q.fam # f
  BY <1>1 DEF Dead
<1> HIDE DEF base, new, q
<1>7. /\ DOMAIN tokens' = 1 .. n
      /\ \A t \in 1 .. Len(tokens) : tokens'[t] = base[t]
      /\ tokens'[n] = new
  BY <1>1, <1>3, Appended
<1>8. ASSUME NEW t \in DOMAIN tokens', tokens'[t].fam = f, Live(t)'
      PROVE  t \in DOMAIN tokens /\ tokens[t].fam = f /\ Live(t)
  <2>1. t # n
    BY <1>5, <1>6, <1>7, <1>8
  <2>2. t \in 1 .. Len(tokens)
    BY <1>2, <1>7, <2>1
  <2> HIDE DEF n
  <2>3. QED
    BY <1>2, <1>4, <1>7, <1>8, <2>2 DEF Live
<1>9. \A s \in Requests : Holds(req'[s]) /\ req'[s].fam = f => Holds(req[s]) /\ req[s].fam = f
  BY <1>1, IdleJob DEF IInv, Typed, Holds
<1>10. QED
  BY <1>8, <1>9, DeadFrame

\* A replay, a logout or the administration ends a family for good: no request, in any
\* order, brings a family back that has no good token left and nobody to insert one.
THEOREM DeadStaysDead == Spec => DeadFamilyStaysDead
<1>1. IInv /\ [Next]_vars => [\A f \in DOMAIN logins : Dead(f) => Dead(f)']_vars
  <2>1. SUFFICES ASSUME IInv, Next, NEW f \in DOMAIN logins, Dead(f)
                 PROVE  Dead(f)'
    OBVIOUS
  <2>2. ASSUME NEW r \in Requests, Code(r) \/ Login(r) \/ Refresh(r) \/ IssueSession(r) \/ Crash(r)
        PROVE  Dead(f)'
    BY <2>1, <2>2, DeadCode, DeadLogin, DeadRefresh, DeadIssue
  <2>3. CASE Logout \/ RevokeSessions
    BY <2>1, <2>3, DeadRevoked DEF Logout, RevokeSessions
  <2>4. CASE CodeAges
    BY <2>1, <2>4, DeadFrame DEF CodeAges, Live
  <2>5. QED
    BY <2>1, <2>2, <2>3, <2>4 DEF Next
<1>2. QED
  BY <1>1, Initially, Inductive, PTL DEF Spec, DeadFamilyStaysDead

-----------------------------------------------------------------------------
(* What a code opens                                                       *)

ChallengeRecord(c) ==
  c \in [phone : {c.phone}, attempts : {c.attempts}, consumed : {c.consumed},
         fresh : {c.fresh}, sent : {c.sent}]

\* A code is sent before it is guessed, guessed before it is used up, used up before it
\* opens a session.
GuessOf(q) ==
  /\ q.pc \in {"codeSend", "bump", "consumeCode", "upsert"} => q.ch \in DOMAIN challenges
  /\ q.pc = "bump" /\ q.right => challenges[q.ch].sent
  /\ q.pc \in {"consumeCode", "upsert"} => challenges[q.ch].sent
  /\ q.pc = "upsert" => challenges[q.ch].consumed

\* The requests whose guess of the code was counted and right, and that have not opened
\* their session yet.
Passed(c) == {r \in Requests : req[r].pc \in {"consumeCode", "upsert"} /\ req[r].ch = c}

CodesTyped ==
  /\ Sequence(challenges)
  /\ \A c \in DOMAIN challenges :
       ChallengeRecord(challenges[c]) /\ challenges[c].attempts \in 0 .. MaxAttempts
  /\ \A f \in DOMAIN logins : logins[f] \in DOMAIN challenges

CodesInv ==
  /\ CodesTyped
  /\ \A r \in Requests : GuessOf(req[r])
  /\ \A c \in DOMAIN challenges :
       /\ Cardinality(Opened(c)) + Cardinality(Passed(c)) <= challenges[c].attempts
       /\ Opened(c) # {} => challenges[c].sent /\ challenges[c].consumed


LEMMA CodesAreFinite ==
  ASSUME IInv, NEW c
  PROVE  /\ IsFiniteSet(Opened(c)) /\ Cardinality(Opened(c)) \in Nat
         /\ IsFiniteSet(Passed(c)) /\ Cardinality(Passed(c)) \in Nat
<1>1. DOMAIN logins = 1 .. Len(logins) /\ Len(logins) \in Nat
  BY DEF IInv, Typed, Sequence
<1>2. PICK n \in Nat : n = Len(logins)
  BY <1>1
<1>3. IsFiniteSet(1 .. n)
  BY FS_Interval
<1>4. Opened(c) \in SUBSET (1 .. n) /\ Passed(c) \in SUBSET Requests
  BY <1>1, <1>2 DEF Opened, Passed
<1>5. QED
  BY <1>3, <1>4, FiniteAssumption, FS_Subset, FS_CardinalityType

\* The step of a request moves it alone.
LEMMA OneMoves ==
  ASSUME IInv, NEW r \in Requests, NEW to, req' = [req EXCEPT ![r] = to]
  PROVE  /\ \A s \in Requests : req'[s] = IF s = r THEN to ELSE req[s]
         /\ req'[r] = to /\ JobRecord(req[r])
BY DEF IInv, Typed

\* Steps that leave the codes and the logins alone, and end a guess at most.
LEMMA CodesStand ==
  ASSUME IInv, CodesInv, UNCHANGED <<challenges, logins>>,
         \A s \in Requests : \/ req'[s] = req[s]
                             \/ req'[s].pc \notin {"codeSend", "bump", "consumeCode", "upsert"}
  PROVE  CodesInv'
<1>1. CodesTyped'
  BY DEF CodesInv, CodesTyped, Sequence, ChallengeRecord
<1>2. \A s \in Requests : GuessOf(req[s])'
  BY DEF CodesInv, GuessOf
<1>3. ASSUME NEW c \in DOMAIN challenges
      PROVE  Cardinality(Opened(c)') + Cardinality(Passed(c)') <= challenges[c].attempts
  <2>1. Opened(c)' = Opened(c)
    BY DEF Opened
  <2>2. Passed(c)' \in SUBSET Passed(c)
    BY DEF Passed
  <2>3. challenges[c].attempts \in Nat
    BY DEF CodesInv, CodesTyped
  <2>4. Cardinality(Passed(c)') <= Cardinality(Passed(c)) /\ Cardinality(Passed(c)') \in Nat
    BY <2>2, CodesAreFinite, FS_Subset, FS_CardinalityType
  <2>5. QED
    BY <2>1, <2>3, <2>4, CodesAreFinite DEF CodesInv
<1>4. \A c \in DOMAIN challenges : (Opened(c) # {} => challenges[c].sent /\ challenges[c].consumed)'
  BY DEF CodesInv, Opened
<1>5. QED
  BY <1>1, <1>2, <1>3, <1>4 DEF CodesInv

\* Steps that write the codes: nothing is taken back from them, and a request that passes
\* has been counted.
LEMMA CodesWritten ==
  ASSUME IInv, CodesInv, logins' = logins, Sequence(challenges'),
         DOMAIN challenges \subseteq DOMAIN challenges',
         \A c \in DOMAIN challenges' :
           ChallengeRecord(challenges'[c]) /\ challenges'[c].attempts \in 0 .. MaxAttempts,
         \A c \in DOMAIN challenges :
           /\ challenges[c].attempts <= challenges'[c].attempts
           /\ challenges[c].sent => challenges'[c].sent
           /\ challenges[c].consumed => challenges'[c].consumed,
         \A s \in Requests : GuessOf(req[s])',
         \A c \in DOMAIN challenges :
           \/ Passed(c)' \subseteq Passed(c)
           \/ /\ \E x : Passed(c)' \subseteq Passed(c) \cup {x}
              /\ challenges[c].attempts + 1 <= challenges'[c].attempts,
         \A c \in DOMAIN challenges' \ DOMAIN challenges : Passed(c)' = {}
  PROVE  CodesInv'
<1>1. \A f \in DOMAIN logins : logins[f] \in DOMAIN challenges
  BY DEF CodesInv, CodesTyped
<1>2. \A c : Opened(c)' = Opened(c)
  BY DEF Opened
<1>3. CodesTyped'
  BY <1>1 DEF CodesTyped
<1>4. ASSUME NEW c \in DOMAIN challenges
      PROVE  Cardinality(Opened(c)') + Cardinality(Passed(c)') <= challenges'[c].attempts
  <2>1. /\ Cardinality(Opened(c)) + Cardinality(Passed(c)) <= challenges[c].attempts
        /\ challenges[c].attempts \in Nat /\ challenges'[c].attempts \in Nat
        /\ challenges[c].attempts <= challenges'[c].attempts
    BY DEF CodesInv, CodesTyped
  <2>2. PICK n, p, o : n = Passed(c)' /\ p = Passed(c) /\ o = Opened(c)
    OBVIOUS
  <2>3. IsFiniteSet(p) /\ Cardinality(p) \in Nat /\ Cardinality(o) \in Nat
    BY <2>2, CodesAreFinite
  <2>4. CASE n \subseteq p
    <3>1. Cardinality(n) <= Cardinality(p) /\ Cardinality(n) \in Nat
      BY <2>3, <2>4, FS_Subset, FS_CardinalityType
    <3>2. QED
      BY <1>2, <2>1, <2>2, <2>3, <3>1
  <2>5. CASE /\ \E x : n \subseteq p \cup {x}
             /\ challenges[c].attempts + 1 <= challenges'[c].attempts
    <3>1. PICK x : n \subseteq p \cup {x}
      BY <2>5
    <3>2. /\ IsFiniteSet(p \cup {x}) /\ Cardinality(p \cup {x}) <= Cardinality(p) + 1
          /\ Cardinality(p \cup {x}) \in Nat
      <4>1. /\ IsFiniteSet(p \cup {x})
            /\ Cardinality(p \cup {x}) = IF x \in p THEN Cardinality(p) ELSE Cardinality(p) + 1
        BY <2>3, FS_AddElement
      <4>2. QED
        BY <2>3, <4>1
    <3>3. Cardinality(n) <= Cardinality(p \cup {x}) /\ Cardinality(n) \in Nat
      BY <3>1, <3>2, FS_Subset, FS_CardinalityType
    <3>4. QED
      BY <1>2, <2>1, <2>2, <2>3, <2>5, <3>2, <3>3
  <2>6. QED
    BY <2>2, <2>4, <2>5
<1>5. ASSUME NEW c \in DOMAIN challenges', c \notin DOMAIN challenges
      PROVE  /\ Opened(c)' = {}
             /\ Cardinality(Opened(c)') + Cardinality(Passed(c)') <= challenges'[c].attempts
  <2>1. Opened(c)' = {}
    BY <1>1, <1>2, <1>5 DEF Opened
  <2>2. Passed(c)' = {} /\ challenges'[c].attempts \in 0 .. MaxAttempts
    BY <1>5
  <2>3. Cardinality(Opened(c)') = 0 /\ Cardinality(Passed(c)') = 0
    BY <2>1, <2>2, FS_EmptySet
  <2>4. 0 <= challenges'[c].attempts
    BY <2>2, BoundsAssumption
  <2>5. QED
    BY <2>1, <2>3, <2>4
<1>6. \A c \in DOMAIN challenges :
        Opened(c)' # {} => challenges'[c].sent /\ challenges'[c].consumed
  BY <1>2 DEF CodesInv
<1>7. QED
  BY <1>3, <1>4, <1>5, <1>6 DEF CodesInv

\* A code is stored, sent, grows old.
LEMMA CodeIssued ==
  ASSUME IInv, CodesInv, NEW r \in Requests, IssueCode(r)
  PROVE  CodesInv'
<1>1. PICK n, p : n = Len(challenges) /\ p = req[r].phone
  OBVIOUS
<1> DEFINE new == [phone |-> p, attempts |-> 0, consumed |-> FALSE, fresh |-> TRUE, sent |-> FALSE]
<1> DEFINE old == [c \in DOMAIN challenges |->
                     IF challenges[c].phone = p
                     THEN [challenges[c] EXCEPT !.consumed = TRUE] ELSE challenges[c]]
<1> DEFINE to == [req[r] EXCEPT !.pc = "codeSend", !.ch = n + 1]
<1>2. challenges' = Append(old, new) /\ logins' = logins /\ req' = [req EXCEPT ![r] = to]
  BY <1>1 DEF IssueCode, IInv, Typed
<1>3. Sequence(challenges) /\ n \in Nat /\ DOMAIN challenges = 1 .. n
  BY <1>1 DEF CodesInv, CodesTyped, Sequence
<1>4. Sequence(old) /\ Len(old) = n /\ DOMAIN old = 1 .. n
  <2>1. old = [c \in DOMAIN challenges |-> old[c]]
    OBVIOUS
  <2> HIDE DEF old
  <2>2. QED
    BY <1>1, <1>3, <2>1, Mapped
<1>5. \A c \in 1 .. n :
        /\ ChallengeRecord(old[c]) /\ old[c].attempts = challenges[c].attempts
        /\ old[c].sent = challenges[c].sent
        /\ challenges[c].consumed => old[c].consumed
  <2> SUFFICES ASSUME NEW c \in 1 .. n
               PROVE  /\ ChallengeRecord(old[c]) /\ old[c].attempts = challenges[c].attempts
                      /\ old[c].sent = challenges[c].sent
                      /\ challenges[c].consumed => old[c].consumed
    OBVIOUS
  <2>1. ChallengeRecord(challenges[c])
    BY <1>3 DEF CodesInv, CodesTyped
  <2>2. QED
    BY <1>3, <2>1 DEF ChallengeRecord
<1>6. ChallengeRecord(new) /\ new.attempts = 0
  BY DEF ChallengeRecord
<1>7. to.pc = "codeSend" /\ to.ch = n + 1
  <2>1. JobRecord(req[r])
    BY DEF IInv, Typed
  <2>2. QED
    BY <2>1 DEF JobRecord
<1> HIDE DEF new, old, to
<1>8. /\ Sequence(challenges') /\ DOMAIN challenges' = 1 .. n + 1
      /\ \A c \in 1 .. n : challenges'[c] = old[c]
      /\ challenges'[n + 1] = new
  BY <1>2, <1>4, Appended
<1>9. \A s \in Requests : req'[s] = IF s = r THEN to ELSE req[s]
  BY <1>2, OneMoves
<1>10. \A s \in Requests : GuessOf(req[s])'
  <2> SUFFICES ASSUME NEW s \in Requests PROVE GuessOf(req[s])'
    OBVIOUS
  <2>1. CASE s = r
    BY <1>3, <1>7, <1>8, <1>9, <2>1 DEF GuessOf
  <2>2. CASE s # r
    <3>1. GuessOf(req[s]) /\ req'[s] = req[s]
      BY <1>9, <2>2 DEF CodesInv
    <3>2. \A c \in DOMAIN challenges :
            /\ c \in DOMAIN challenges' /\ challenges'[c].sent = challenges[c].sent
            /\ challenges[c].consumed => challenges'[c].consumed
      BY <1>3, <1>5, <1>8
    <3>3. QED
      BY <3>1, <3>2 DEF GuessOf
  <2>3. QED
    BY <2>1, <2>2
<1>11. \A c : Passed(c)' \subseteq Passed(c)
  BY <1>7, <1>9 DEF Passed
<1>12. \A c \in DOMAIN challenges' \ DOMAIN challenges : Passed(c)' = {}
  BY <1>11 DEF Passed, CodesInv, GuessOf
<1>13. \A c \in DOMAIN challenges' :
         ChallengeRecord(challenges'[c]) /\ challenges'[c].attempts \in 0 .. MaxAttempts
  <2>1. \A c \in 1 .. n : challenges[c].attempts \in 0 .. MaxAttempts
    BY <1>3 DEF CodesInv, CodesTyped
  <2>2. 0 \in 0 .. MaxAttempts
    BY BoundsAssumption
  <2>3. \A c \in 1 .. n + 1 : c \in 1 .. n \/ c = n + 1
    BY <1>3
  <2>4. QED
    BY <1>5, <1>6, <1>8, <2>1, <2>2, <2>3
<1>14. DOMAIN challenges \subseteq DOMAIN challenges'
  BY <1>3, <1>8
<1>15. \A c \in DOMAIN challenges :
         /\ challenges[c].attempts <= challenges'[c].attempts
         /\ challenges[c].sent => challenges'[c].sent
         /\ challenges[c].consumed => challenges'[c].consumed
  <2>1. \A c \in DOMAIN challenges : challenges[c].attempts \in Nat
    BY DEF CodesInv, CodesTyped
  <2>2. QED
    BY <1>3, <1>5, <1>8, <2>1
<1>16. QED
  BY <1>2, <1>8, <1>10, <1>11, <1>12, <1>13, <1>14, <1>15, CodesWritten

\* One code is written, by a request that has not guessed it right yet or does not pass.
LEMMA OneCodeWritten ==
  ASSUME IInv, CodesInv, NEW k \in DOMAIN challenges, NEW new,
         challenges' = [challenges EXCEPT ![k] = new], logins' = logins,
         ChallengeRecord(new), new.attempts \in 0 .. MaxAttempts,
         challenges[k].attempts <= new.attempts,
         challenges[k].sent => new.sent, challenges[k].consumed => new.consumed,
         \A s \in Requests : GuessOf(req[s])',
         \A c \in DOMAIN challenges :
           \/ Passed(c)' \subseteq Passed(c)
           \/ c = k /\ (\E x : Passed(c)' \subseteq Passed(c) \cup {x})
                /\ challenges[k].attempts + 1 <= new.attempts
  PROVE  CodesInv'
<1>1. Sequence(challenges) /\ challenges' = [c \in DOMAIN challenges |-> challenges'[c]]
  BY DEF CodesInv, CodesTyped, Sequence
<1>2. Sequence(challenges') /\ DOMAIN challenges' = DOMAIN challenges
  BY <1>1, Mapped DEF Sequence
<1>3. \A c \in DOMAIN challenges : challenges'[c] = IF c = k THEN new ELSE challenges[c]
  BY <1>1
<1>4. \A c \in DOMAIN challenges :
        ChallengeRecord(challenges[c]) /\ challenges[c].attempts \in 0 .. MaxAttempts
  BY DEF CodesInv, CodesTyped
<1>5. \A c \in DOMAIN challenges' :
        ChallengeRecord(challenges'[c]) /\ challenges'[c].attempts \in 0 .. MaxAttempts
  BY <1>2, <1>3, <1>4
<1>6. \A c \in DOMAIN challenges :
        /\ challenges[c].attempts <= challenges'[c].attempts
        /\ challenges[c].sent => challenges'[c].sent
        /\ challenges[c].consumed => challenges'[c].consumed
  <2>1. \A c \in DOMAIN challenges : challenges[c].attempts \in Nat
    BY <1>4
  <2>2. QED
    BY <1>3, <2>1
<1>7. \A c \in DOMAIN challenges :
        \/ Passed(c)' \subseteq Passed(c)
        \/ /\ \E x : Passed(c)' \subseteq Passed(c) \cup {x}
           /\ challenges[c].attempts + 1 <= challenges'[c].attempts
  BY <1>3
<1>8. QED
  BY <1>2, <1>5, <1>6, <1>7, CodesWritten

\* What is written keeps the guesses of the others what they were.
LEMMA GuessesKept ==
  ASSUME IInv, CodesInv, NEW r \in Requests, NEW to, req' = [req EXCEPT ![r] = to],
         GuessOf(to)', DOMAIN challenges' = DOMAIN challenges,
         \A c \in DOMAIN challenges :
           /\ challenges[c].sent => challenges'[c].sent
           /\ challenges[c].consumed => challenges'[c].consumed
  PROVE  \A s \in Requests : GuessOf(req[s])'
<1>1. \A s \in Requests : req'[s] = IF s = r THEN to ELSE req[s]
  BY OneMoves
<1>2. \A s \in Requests : GuessOf(req[s])
  BY DEF CodesInv
<1>3. QED
  BY <1>1, <1>2 DEF GuessOf

LEMMA CodeSent ==
  ASSUME IInv, CodesInv, NEW r \in Requests, SendCode(r)
  PROVE  CodesInv'
<1>1. PICK k : k = req[r].ch
  OBVIOUS
<1> DEFINE new == [challenges[k] EXCEPT !.sent = TRUE]
<1>2. k \in DOMAIN challenges /\ req' = [req EXCEPT ![r] = Idle] /\ logins' = logins
  BY <1>1 DEF SendCode, CodesInv, GuessOf
<1>3. ChallengeRecord(challenges[k]) /\ challenges[k].attempts \in 0 .. MaxAttempts
  BY <1>2 DEF CodesInv, CodesTyped
<1>4. /\ ChallengeRecord(new) /\ new.attempts = challenges[k].attempts /\ new.sent = TRUE
      /\ new.consumed = challenges[k].consumed
  BY <1>3 DEF ChallengeRecord
<1>5. challenges' = [challenges EXCEPT ![k] = new]
  <2>1. challenges' = [challenges EXCEPT ![k].sent = TRUE]
    BY <1>1 DEF SendCode
  <2>2. QED
    BY <2>1
<1> HIDE DEF new
<1>6. \A c \in DOMAIN challenges : challenges'[c] = IF c = k THEN new ELSE challenges[c]
  BY <1>5
<1>7. DOMAIN challenges' = DOMAIN challenges
  BY <1>5
<1>8. GuessOf(Idle)'
  BY IdleJob DEF GuessOf
<1>9. \A s \in Requests : GuessOf(req[s])'
  BY <1>2, <1>4, <1>6, <1>7, <1>8, GuessesKept
<1>10. \A c : Passed(c)' \subseteq Passed(c)
  BY <1>2, OneMoves, IdleJob DEF Passed
<1>11. challenges[k].attempts <= new.attempts /\ new.attempts \in 0 .. MaxAttempts
  BY <1>3, <1>4
<1>12. QED
  BY <1>2, <1>4, <1>5, <1>9, <1>10, <1>11, OneCodeWritten

LEMMA CodeAged ==
  ASSUME IInv, CodesInv, CodeAges
  PROVE  CodesInv'
<1>1. PICK k \in DOMAIN challenges : challenges' = [challenges EXCEPT ![k].fresh = FALSE]
  BY DEF CodeAges
<1> DEFINE new == [challenges[k] EXCEPT !.fresh = FALSE]
<1>2. ChallengeRecord(challenges[k]) /\ challenges[k].attempts \in 0 .. MaxAttempts
  BY DEF CodesInv, CodesTyped
<1>3. /\ ChallengeRecord(new) /\ new.attempts = challenges[k].attempts
      /\ new.sent = challenges[k].sent /\ new.consumed = challenges[k].consumed
  BY <1>2 DEF ChallengeRecord
<1>4. challenges' = [challenges EXCEPT ![k] = new]
  BY <1>1
<1> HIDE DEF new
<1>5. \A c \in DOMAIN challenges : challenges'[c] = IF c = k THEN new ELSE challenges[c]
  BY <1>4
<1>6. DOMAIN challenges' = DOMAIN challenges
  BY <1>4
<1>7. logins' = logins /\ req' = req
  BY DEF CodeAges
<1>8. \A s \in Requests : GuessOf(req[s])
  BY DEF CodesInv
<1>9. \A s \in Requests : GuessOf(req[s])'
  BY <1>3, <1>5, <1>6, <1>7, <1>8 DEF GuessOf
<1>10. \A c : Passed(c)' \subseteq Passed(c)
  BY <1>7 DEF Passed
<1>11. challenges[k].attempts <= new.attempts /\ new.attempts \in 0 .. MaxAttempts
  BY <1>2, <1>3
<1>12. QED
  BY <1>3, <1>4, <1>7, <1>9, <1>10, <1>11, OneCodeWritten

\* A guess: what is typed is right only if it is the code that is read, and was sent.
LEMMA CodeRead ==
  ASSUME IInv, CodesInv, NEW r \in Requests, ReadCode(r)
  PROVE  CodesInv'
<1>1. PICK p \in Phones, c \in DOMAIN challenges :
        /\ IsNewest(c, Verifiable(p))
        /\ \E typed \in {d \in Codes(p) : challenges[d].sent} \cup {0} :
             req' = [req EXCEPT ![r] = [Idle EXCEPT !.pc = "bump", !.phone = p, !.ch = c,
                                                    !.right = (typed = c)]]
  BY Zenon DEF ReadCode
<1>2. PICK typed \in {d \in Codes(p) : challenges[d].sent} \cup {0} :
        req' = [req EXCEPT ![r] = [Idle EXCEPT !.pc = "bump", !.phone = p, !.ch = c,
                                               !.right = (typed = c)]]
  BY <1>1, Zenon
<1> DEFINE to == [Idle EXCEPT !.pc = "bump", !.phone = p, !.ch = c, !.right = (typed = c)]
<1>3. challenges' = challenges /\ logins' = logins /\ req' = [req EXCEPT ![r] = to]
  BY <1>2 DEF ReadCode
<1>4. c # 0
  BY DEF CodesInv, CodesTyped, Sequence
<1>5. typed = c => challenges[c].sent
  BY <1>4
<1>6. to.pc = "bump" /\ to.ch = c /\ (to.right => typed = c)
  BY DEF Idle
<1> HIDE DEF to
<1>7. GuessOf(to)'
  BY <1>3, <1>5, <1>6 DEF GuessOf
<1>8. \A s \in Requests : GuessOf(req[s])'
  BY <1>3, <1>7, GuessesKept
<1>9. \A k : Passed(k)' \subseteq Passed(k)
  BY <1>3, <1>6, OneMoves DEF Passed
<1>10. \A k \in DOMAIN challenges :
         /\ ChallengeRecord(challenges[k]) /\ challenges[k].attempts \in 0 .. MaxAttempts
         /\ challenges[k].attempts \in Nat
  BY DEF CodesInv, CodesTyped
<1>11. challenges' = [challenges EXCEPT ![c] = challenges[c]]
  BY <1>3 DEF CodesInv, CodesTyped, Sequence
<1>12. challenges[c].attempts <= challenges[c].attempts
  BY <1>10
<1>13. QED
  BY <1>3, <1>8, <1>9, <1>10, <1>11, <1>12, OneCodeWritten

LEMMA GuessCounted ==
  ASSUME IInv, CodesInv, NEW r \in Requests, CountGuess(r)
  PROVE  CodesInv'
<1>1. PICK k : k = req[r].ch
  OBVIOUS
<1>2. k \in DOMAIN challenges /\ logins' = logins
  BY <1>1 DEF CountGuess, CodesInv, GuessOf
<1>3. ChallengeRecord(challenges[k]) /\ challenges[k].attempts \in 0 .. MaxAttempts
  BY <1>2 DEF CodesInv, CodesTyped
<1>4. CASE Exhausted(k)
  <2>1. challenges' = challenges /\ req' = [req EXCEPT ![r] = Idle]
    BY <1>1, <1>4 DEF CountGuess
  <2>2. \A s \in Requests : req'[s] = req[s] \/ req'[s] = Idle
    BY <2>1, OneMoves
  <2>3. QED
    BY <1>2, <2>1, <2>2, IdleJob, CodesStand
<1>5. CASE ~Exhausted(k)
  <2> DEFINE new == [challenges[k] EXCEPT !.attempts = @ + 1]
  <2>0. PICK to : to = IF req[r].right THEN [req[r] EXCEPT !.pc = "consumeCode"] ELSE Idle
    OBVIOUS
  <2>1. challenges' = [challenges EXCEPT ![k] = new] /\ req' = [req EXCEPT ![r] = to]
    BY <1>1, <1>5, <2>0 DEF CountGuess
  <2>2. /\ ChallengeRecord(new) /\ new.attempts = challenges[k].attempts + 1
        /\ new.sent = challenges[k].sent /\ new.consumed = challenges[k].consumed
    BY <1>3 DEF ChallengeRecord
  <2>3. new.attempts \in 0 .. MaxAttempts
    BY <1>3, <1>5, <2>2, BoundsAssumption DEF Exhausted
  <2>4. \/ to = Idle
        \/ to.pc = "consumeCode" /\ to.ch = k /\ req[r].right
    BY <1>1, <2>0 DEF IInv, Typed, JobRecord
  <2>5. req[r].right => challenges[k].sent
    BY <1>1 DEF CountGuess, CodesInv, GuessOf
  <2> HIDE DEF new
  <2>6. \A c \in DOMAIN challenges : challenges'[c] = IF c = k THEN new ELSE challenges[c]
    BY <2>1
  <2>7. DOMAIN challenges' = DOMAIN challenges
    BY <2>1
  <2>8. GuessOf(to)'
    <3>1. CASE to = Idle
      BY <3>1, IdleJob DEF GuessOf
    <3>2. CASE to.pc = "consumeCode" /\ to.ch = k /\ req[r].right
      BY <1>2, <2>2, <2>5, <2>6, <2>7, <3>2 DEF GuessOf
    <3>3. QED
      BY <2>4, <3>1, <3>2
  <2>9. \A s \in Requests : GuessOf(req[s])'
    BY <2>1, <2>2, <2>6, <2>7, <2>8, GuessesKept
  <2>10. \A s \in Requests : req'[s] = IF s = r THEN to ELSE req[s]
    BY <2>1, OneMoves
  <2>11. \A c : c # k => Passed(c)' \subseteq Passed(c)
    BY <2>4, <2>10, IdleJob DEF Passed
  <2>12. Passed(k)' \subseteq Passed(k) \cup {r}
    BY <2>10 DEF Passed
  <2>13. challenges[k].attempts <= new.attempts /\ challenges[k].attempts + 1 <= new.attempts
    BY <1>3, <2>2
  <2>14. \A c \in DOMAIN challenges :
           \/ Passed(c)' \subseteq Passed(c)
           \/ c = k /\ (\E x : Passed(c)' \subseteq Passed(c) \cup {x})
                /\ challenges[k].attempts + 1 <= new.attempts
    BY <2>11, <2>12, <2>13
  <2>15. QED
    BY <1>2, <2>1, <2>2, <2>3, <2>9, <2>13, <2>14, OneCodeWritten
<1>6. QED
  BY <1>4, <1>5

LEMMA CodeConsumed ==
  ASSUME IInv, CodesInv, NEW r \in Requests, ConsumeCode(r)
  PROVE  CodesInv'
<1>1. PICK k : k = req[r].ch
  OBVIOUS
<1> DEFINE new == [challenges[k] EXCEPT !.consumed = TRUE]
<1>0. PICK to : to = [req[r] EXCEPT !.pc = "upsert"]
  OBVIOUS
<1>2. k \in DOMAIN challenges /\ logins' = logins /\ challenges[k].sent
  BY <1>1 DEF ConsumeCode, CodesInv, GuessOf
<1>3. ChallengeRecord(challenges[k]) /\ challenges[k].attempts \in 0 .. MaxAttempts
  BY <1>2 DEF CodesInv, CodesTyped
<1>4. /\ ChallengeRecord(new) /\ new.attempts = challenges[k].attempts
      /\ new.sent = challenges[k].sent /\ new.consumed = TRUE
  BY <1>3 DEF ChallengeRecord
<1>5. challenges' = [challenges EXCEPT ![k] = new] /\ req' = [req EXCEPT ![r] = to]
  <2>1. challenges' = [challenges EXCEPT ![k].consumed = TRUE] /\ req' = [req EXCEPT ![r].pc = "upsert"]
    BY <1>1 DEF ConsumeCode
  <2>2. QED
    BY <1>0, <2>1 DEF IInv, Typed
<1>6. to.pc = "upsert" /\ to.ch = k
  BY <1>0, <1>1 DEF IInv, Typed, JobRecord
<1> HIDE DEF new
<1>7. \A c \in DOMAIN challenges : challenges'[c] = IF c = k THEN new ELSE challenges[c]
  BY <1>5
<1>8. DOMAIN challenges' = DOMAIN challenges
  BY <1>5
<1>9. GuessOf(to)'
  BY <1>2, <1>4, <1>6, <1>7, <1>8 DEF GuessOf
<1>10. \A s \in Requests : GuessOf(req[s])'
  BY <1>4, <1>5, <1>7, <1>8, <1>9, GuessesKept
<1>11. r \in Passed(k)
  BY <1>1 DEF ConsumeCode, Passed
<1>12. \A c : Passed(c)' \subseteq Passed(c)
  BY <1>5, <1>6, <1>11, OneMoves DEF Passed
<1>13. challenges[k].attempts <= new.attempts /\ new.attempts \in 0 .. MaxAttempts
  BY <1>3, <1>4
<1>14. QED
  BY <1>2, <1>4, <1>5, <1>10, <1>12, <1>13, OneCodeWritten

\* The session that a right guess opens takes the place of the request that passed.
LEMMA SessionOpened ==
  ASSUME IInv, CodesInv, NEW r \in Requests, UpsertUser(r)
  PROVE  CodesInv'
<1>1. PICK k, n, ver : /\ k = req[r].ch /\ n = Len(logins) + 1
                       /\ ver = IF version[req[r].phone] = None THEN 0 ELSE version[req[r].phone]
  OBVIOUS
<1>0. PICK to : to = [req[r] EXCEPT !.pc = "issue", !.ver = ver, !.fam = n]
  OBVIOUS
<1>2. req' = [req EXCEPT ![r] = to] /\ logins' = Append(logins, k) /\ challenges' = challenges
  BY <1>0, <1>1 DEF UpsertUser, IInv, Typed
<1>3. to.pc = "issue"
  BY <1>0 DEF IInv, Typed, JobRecord
<1>4. k \in DOMAIN challenges /\ challenges[k].sent /\ challenges[k].consumed
  BY <1>1 DEF UpsertUser, CodesInv, GuessOf
<1>5. /\ DOMAIN logins = 1 .. Len(logins) /\ DOMAIN logins' = 1 .. n /\ n \in Nat
      /\ \A f \in 1 .. Len(logins) : logins'[f] = logins[f]
      /\ logins'[n] = k
  <2>1. Sequence(logins)
    BY DEF IInv, Typed
  <2>2. QED
    BY <1>1, <1>2, <2>1, Appended DEF Sequence
<1>6. \A f : f \in 1 .. n <=> f \in 1 .. Len(logins) \/ f = n
  BY <1>1, <1>5 DEF IInv, Typed, Sequence
<1>7. /\ Opened(k)' \subseteq Opened(k) \cup {n}
      /\ \A c : c # k => Opened(c)' = Opened(c)
  BY <1>5, <1>6 DEF Opened
<1>8. \A s \in Requests : req'[s] = IF s = r THEN to ELSE req[s]
  BY <1>2, OneMoves
<1>9. r \in Passed(k)
  BY <1>1 DEF UpsertUser, Passed
<1>10. Passed(k)' \subseteq Passed(k) \ {r} /\ \A c : Passed(c)' \subseteq Passed(c)
  BY <1>3, <1>8 DEF Passed
<1>11. CodesTyped'
  <2>1. \A f \in DOMAIN logins' : logins'[f] \in DOMAIN challenges
    BY <1>4, <1>5, <1>6 DEF CodesInv, CodesTyped
  <2>2. QED
    BY <1>2, <2>1 DEF CodesInv, CodesTyped, Sequence, ChallengeRecord
<1>12. \A s \in Requests : GuessOf(req[s])'
  <2>1. GuessOf(to)'
    BY <1>3 DEF GuessOf
  <2>2. QED
    BY <1>2, <2>1, GuessesKept
<1>13. ASSUME NEW c \in DOMAIN challenges
       PROVE  Cardinality(Opened(c)') + Cardinality(Passed(c)') <= challenges[c].attempts
  <2>1. PICK o, p, o2, p2 : /\ o = Opened(c) /\ p = Passed(c)
                            /\ o2 = Opened(c)' /\ p2 = Passed(c)'
    OBVIOUS
  <2>2. /\ IsFiniteSet(o) /\ Cardinality(o) \in Nat /\ IsFiniteSet(p) /\ Cardinality(p) \in Nat
        /\ Cardinality(o) + Cardinality(p) <= challenges[c].attempts
        /\ challenges[c].attempts \in Nat
    BY <2>1, CodesAreFinite DEF CodesInv, CodesTyped
  <2>3. CASE c = k
    <3>1. /\ IsFiniteSet(o \cup {n}) /\ IsFiniteSet(p \ {r})
          /\ Cardinality(o \cup {n}) = IF n \in o THEN Cardinality(o) ELSE Cardinality(o) + 1
          /\ Cardinality(p \ {r}) = IF r \in p THEN Cardinality(p) - 1 ELSE Cardinality(p)
      BY <2>2, FS_AddElement, FS_RemoveElement
    <3>2. Cardinality(o2) <= Cardinality(o \cup {n}) /\ Cardinality(o2) \in Nat
      BY <1>7, <2>1, <2>3, <3>1, FS_Subset, FS_CardinalityType
    <3>3. Cardinality(p2) <= Cardinality(p \ {r}) /\ Cardinality(p2) \in Nat
      BY <1>10, <2>1, <2>3, <3>1, FS_Subset, FS_CardinalityType
    <3>4. r \in p
      BY <1>9, <2>1, <2>3
    <3>5. QED
      BY <2>1, <2>2, <3>1, <3>2, <3>3, <3>4
  <2>4. CASE c # k
    <3>1. o2 = o /\ p2 \subseteq p
      BY <1>7, <1>10, <2>1, <2>4
    <3>2. Cardinality(p2) <= Cardinality(p) /\ Cardinality(p2) \in Nat
      BY <2>2, <3>1, FS_Subset, FS_CardinalityType
    <3>3. QED
      BY <2>1, <2>2, <3>1, <3>2
  <2>5. QED
    BY <2>3, <2>4
<1>14. \A c \in DOMAIN challenges :
         Opened(c)' # {} => challenges[c].sent /\ challenges[c].consumed
  BY <1>4, <1>7 DEF CodesInv
<1>15. QED
  BY <1>2, <1>11, <1>12, <1>13, <1>14 DEF CodesInv

\* Requests that carry tokens have no part in it.
LEMMA TokensStandAside ==
  ASSUME IInv, CodesInv, NEW r \in Requests,
         CountCodes(r) \/ Refresh(r) \/ IssueSession(r) \/ Crash(r)
  PROVE  CodesInv'
<1>1. ASSUME NEW to, req' = [req EXCEPT ![r] = to], UNCHANGED <<challenges, logins>>,
             to.pc \notin {"codeSend", "bump", "consumeCode", "upsert"}
      PROVE  CodesInv'
  <2>1. \A s \in Requests : req'[s] = req[s] \/ req'[s] = to
    BY <1>1, OneMoves
  <2>2. QED
    BY <1>1, <2>1, CodesStand
<1>2. CASE CountCodes(r)
  <2>1. PICK p : req' = [req EXCEPT ![r] = [Idle EXCEPT !.pc = "codeIssue", !.phone = p,
                                                        !.ch = Len(challenges)]]
    BY <1>2 DEF CountCodes
  <2>2. [Idle EXCEPT !.pc = "codeIssue", !.phone = p, !.ch = Len(challenges)].pc = "codeIssue"
    BY DEF Idle
  <2>3. QED
    BY <1>1, <1>2, <2>1, <2>2 DEF CountCodes
<1>3. CASE ReadRefreshToken(r)
  <2>1. PICK t \in DOMAIN tokens :
          req' = [req EXCEPT ![r] = [Idle EXCEPT !.pc = IF Live(t) THEN "consume" ELSE "reuse",
                                     !.phone = tokens[t].user, !.tok = t, !.fam = tokens[t].fam]]
    BY <1>3 DEF ReadRefreshToken
  <2> DEFINE to == [Idle EXCEPT !.pc = IF Live(t) THEN "consume" ELSE "reuse",
                                !.phone = tokens[t].user, !.tok = t, !.fam = tokens[t].fam]
  <2>2. to.pc \in {"consume", "reuse"}
    BY DEF Idle
  <2> HIDE DEF to
  <2>3. QED
    BY <1>1, <1>3, <2>1, <2>2 DEF ReadRefreshToken, to
<1>4. CASE ConsumeToken(r)
  <2>1. PICK to \in {Idle, [req[r] EXCEPT !.pc = "reload"]} : req' = [req EXCEPT ![r] = to]
    BY <1>4 DEF ConsumeToken
  <2>2. to.pc \in {"idle", "reload"}
    BY IdleJob DEF IInv, Typed, JobRecord
  <2>3. QED
    BY <1>1, <1>4, <2>1, <2>2 DEF ConsumeToken
<1>5. CASE ReloadUser(r)
  <2>1. PICK to : to = [req[r] EXCEPT !.pc = "issue", !.ver = version[req[r].phone]]
    OBVIOUS
  <2>2. to.pc = "issue" /\ req' = [req EXCEPT ![r] = to]
    BY <1>5, <2>1 DEF ReloadUser, IInv, Typed, JobRecord
  <2>3. QED
    BY <1>1, <1>5, <2>2 DEF ReloadUser
<1>6. CASE RevokeFamily(r) \/ IssueSession(r) \/ Crash(r)
  <2>1. req' = [req EXCEPT ![r] = Idle] /\ UNCHANGED <<challenges, logins>>
    BY <1>6 DEF RevokeFamily, IssueSession, Crash
  <2>2. QED
    BY <1>1, <2>1, IdleJob
<1>7. QED
  BY <1>2, <1>3, <1>4, <1>5, <1>6 DEF Refresh

LEMMA CodesInductive == IInv /\ CodesInv /\ [Next]_vars => CodesInv'
<1> SUFFICES ASSUME IInv, CodesInv, [Next]_vars PROVE CodesInv'
  OBVIOUS
<1>1. ASSUME NEW r \in Requests, Code(r) \/ Login(r) \/ Refresh(r) \/ IssueSession(r) \/ Crash(r)
      PROVE  CodesInv'
  <2>1. CASE Code(r)
    BY <2>1, CodeIssued, CodeSent, TokensStandAside DEF Code
  <2>2. CASE Login(r)
    BY <2>2, CodeRead, GuessCounted, CodeConsumed, SessionOpened DEF Login
  <2>3. QED
    BY <1>1, <2>1, <2>2, TokensStandAside
<1>2. CASE Logout \/ RevokeSessions \/ UNCHANGED vars
  BY <1>2, CodesStand DEF Logout, RevokeSessions, vars
<1>3. QED
  BY <1>1, <1>2, CodeAged DEF Next

LEMMA CodesInitially == Init => CodesInv
<1> SUFFICES ASSUME Init PROVE CodesInv
  OBVIOUS
<1>1. challenges = << >> /\ logins = << >> /\ req = [r \in Requests |-> Idle]
  BY DEF Init
<1>2. Sequence(<< >>) /\ DOMAIN << >> = {}
  BY DEF Sequence
<1>3. QED
  BY <1>1, <1>2, IdleJob DEF CodesInv, CodesTyped, GuessOf

\* A code that was sent opens no more sessions than the guesses counted against it, and
\* those are limited: for any number of requests that guess it, repeat it or die at any step.
THEOREM CodesOpenFewSessions == Spec => []CodeOpensFewSessions
<1>1. CodesInv /\ IInv => CodeOpensFewSessions
  <2> SUFFICES ASSUME CodesInv, IInv, NEW c \in DOMAIN challenges
               PROVE  /\ Cardinality(Opened(c)) <= challenges[c].attempts
                      /\ challenges[c].attempts <= MaxAttempts
                      /\ Opened(c) # {} => challenges[c].sent /\ challenges[c].consumed
    BY DEF CodeOpensFewSessions
  <2>1. /\ Cardinality(Opened(c)) + Cardinality(Passed(c)) <= challenges[c].attempts
        /\ challenges[c].attempts \in 0 .. MaxAttempts /\ challenges[c].attempts \in Nat
        /\ Opened(c) # {} => challenges[c].sent /\ challenges[c].consumed
    BY DEF CodesInv, CodesTyped
  <2>2. QED
    BY <2>1, CodesAreFinite, BoundsAssumption
<1>2. QED
  BY <1>1, Initially, Inductive, CodesInitially, CodesInductive, PTL DEF Spec

-----------------------------------------------------------------------------
(* Who stays signed in                                                     *)

\* The requests that read the account before it was signed out, and will insert a token.
Late(p) == {r \in Requests : req[r].pc = "issue" /\ req[r].phone = p /\ req[r].ver < version[p]}

VersionsTyped ==
  /\ version \in [Phones -> Nat \cup {None}]
  /\ \A t \in DOMAIN tokens :
       tokens[t].user \in Phones /\ version[tokens[t].user] \in Nat /\ tokens[t].ver \in Nat
  /\ \A r \in Requests :
       /\ req[r].pc \in {"bump", "consumeCode", "upsert", "issue"} => req[r].phone \in Phones
       /\ req[r].pc = "issue" => version[req[r].phone] \in Nat /\ req[r].ver \in Nat

VersionsInv ==
  /\ VersionsTyped
  /\ \A p \in Phones : Cardinality(Outdated(p)) + Cardinality(Late(p)) <= Cardinality(Requests)

LEMMA OutdatedAreFinite ==
  ASSUME IInv, NEW p
  PROVE  /\ IsFiniteSet(Outdated(p)) /\ Cardinality(Outdated(p)) \in Nat
         /\ IsFiniteSet(Late(p)) /\ Cardinality(Late(p)) \in Nat
<1>1. DOMAIN tokens = 1 .. Len(tokens) /\ Len(tokens) \in Nat
  BY DEF IInv, Typed, Sequence
<1>2. PICK n \in Nat : n = Len(tokens)
  BY <1>1
<1>3. IsFiniteSet(1 .. n)
  BY FS_Interval
<1>4. Outdated(p) \in SUBSET (1 .. n) /\ Late(p) \in SUBSET Requests
  BY <1>1, <1>2 DEF Outdated, Late
<1>5. QED
  BY <1>3, <1>4, FiniteAssumption, FS_Subset, FS_CardinalityType

\* Tokens are told apart by a number, requests by a name: each is counted on its own side.
LEMMA FewerCounted ==
  ASSUME IInv, NEW p, Cardinality(Outdated(p)) + Cardinality(Late(p)) <= Cardinality(Requests),
         NEW o \in SUBSET Outdated(p), NEW l \in SUBSET Late(p)
  PROVE  Cardinality(o) + Cardinality(l) <= Cardinality(Requests)
<1>1. /\ Cardinality(o) <= Cardinality(Outdated(p)) /\ Cardinality(o) \in Nat
      /\ Cardinality(l) <= Cardinality(Late(p)) /\ Cardinality(l) \in Nat
  BY OutdatedAreFinite, FS_Subset, FS_CardinalityType
<1>2. Cardinality(Requests) \in Nat
  BY FiniteAssumption, FS_CardinalityType
<1>3. QED
  BY <1>1, <1>2, OutdatedAreFinite

\* A request that has read the account as it is.
ReadNow(q) ==
  /\ q.pc \in {"bump", "consumeCode", "upsert", "issue"} => q.phone \in Phones
  /\ q.pc = "issue" => version[q.phone] \in Nat /\ q.ver = version[q.phone]

LEMMA VersionsKept ==
  ASSUME IInv, VersionsInv, version' = version, DOMAIN tokens' = DOMAIN tokens,
         \A t \in DOMAIN tokens :
           /\ tokens'[t].user = tokens[t].user /\ tokens'[t].ver = tokens[t].ver
           /\ Live(t)' => Live(t),
         \A s \in Requests : req'[s] = req[s] \/ ReadNow(req'[s])
  PROVE  VersionsInv'
<1>1. VersionsTyped'
  BY DEF VersionsInv, VersionsTyped, ReadNow
<1>2. ASSUME NEW p \in Phones
      PROVE  (Cardinality(Outdated(p)) + Cardinality(Late(p)) <= Cardinality(Requests))'
  <2>1. Outdated(p)' \in SUBSET Outdated(p)
    BY DEF Outdated
  <2>2. version[p] \in Nat => ~(version[p] < version[p])
    OBVIOUS
  <2>3. Late(p)' \in SUBSET Late(p)
    BY <2>2 DEF Late, ReadNow
  <2>4. Cardinality(Outdated(p)) + Cardinality(Late(p)) <= Cardinality(Requests)
    BY DEF VersionsInv
  <2>5. QED
    BY <2>1, <2>3, <2>4, FewerCounted
<1>3. QED
  BY <1>1, <1>2 DEF VersionsInv

LEMMA RevokedShape ==
  ASSUME IInv, NEW S, tokens' = RevokeAll(S)
  PROVE  /\ DOMAIN tokens' = DOMAIN tokens
         /\ \A t \in DOMAIN tokens :
              /\ tokens'[t].user = tokens[t].user /\ tokens'[t].ver = tokens[t].ver
              /\ Live(t)' => Live(t) /\ t \notin S
<1>1. \A t \in DOMAIN tokens : TokenRecord(tokens[t])
  BY DEF IInv, Typed
<1>2. \A t \in DOMAIN tokens :
        tokens'[t] = IF t \in S THEN [tokens[t] EXCEPT !.revoked = TRUE] ELSE tokens[t]
  BY DEF RevokeAll
<1>3. DOMAIN tokens' = DOMAIN tokens
  BY DEF RevokeAll
<1>4. QED
  BY <1>1, <1>2, <1>3 DEF TokenRecord, Live

\* A login begins at the account's version, and makes the account if there is none.
LEMMA LoginReadsVersion ==
  ASSUME IInv, VersionsInv, NEW r \in Requests, UpsertUser(r)
  PROVE  VersionsInv'
<1>1. PICK k, v : k = req[r].phone /\ v = IF version[k] = None THEN 0 ELSE version[k]
  OBVIOUS
<1>2. PICK to : to = [req[r] EXCEPT !.pc = "issue", !.ver = v, !.fam = Len(logins) + 1]
  OBVIOUS
<1>3. /\ req' = [req EXCEPT ![r] = to] /\ tokens' = tokens
      /\ version' = [version EXCEPT ![k] = v]
  BY <1>1, <1>2 DEF UpsertUser, IInv, Typed
<1>4. to.pc = "issue" /\ to.ver = v /\ to.phone = k
  BY <1>1, <1>2 DEF IInv, Typed, JobRecord
<1>5. k \in Phones
  BY <1>1 DEF UpsertUser, VersionsInv, VersionsTyped
<1>6. v \in Nat /\ (version[k] \in Nat => v = version[k])
  BY <1>1, <1>5, NoneAssumption DEF VersionsInv, VersionsTyped
<1>7. \A p \in Phones : version'[p] = IF p = k THEN v ELSE version[p]
  BY <1>3 DEF VersionsInv, VersionsTyped
<1>8. \A p \in Phones : version[p] \in Nat => version'[p] = version[p]
  BY <1>6, <1>7
<1>9. \A s \in Requests : req'[s] = IF s = r THEN to ELSE req[s]
  BY <1>3, OneMoves
<1>10. version' \in [Phones -> Nat \cup {None}]
  BY <1>3, <1>6 DEF VersionsInv, VersionsTyped
<1>11. VersionsTyped'
  BY <1>3, <1>4, <1>5, <1>6, <1>7, <1>8, <1>9, <1>10 DEF VersionsInv, VersionsTyped
<1>12. ASSUME NEW p \in Phones
       PROVE  (Cardinality(Outdated(p)) + Cardinality(Late(p)) <= Cardinality(Requests))'
  <2>1. Outdated(p)' \in SUBSET Outdated(p)
    BY <1>3, <1>8 DEF Outdated, Live, VersionsInv, VersionsTyped
  <2>2. ~(v < v)
    BY <1>6
  <2>3. Late(p)' \in SUBSET Late(p)
    BY <1>4, <1>7, <1>8, <1>9, <2>2 DEF Late, VersionsInv, VersionsTyped
  <2>4. QED
    BY <2>1, <2>3, FewerCounted DEF VersionsInv
<1>13. QED
  BY <1>11, <1>12 DEF VersionsInv

\* All tokens of the account are revoked: what is left are the requests on their way.
LEMMA AllSignedOut ==
  ASSUME IInv, VersionsInv, RevokeSessions
  PROVE  VersionsInv'
<1>1. PICK k \in Phones :
        /\ version[k] # None
        /\ version' = [version EXCEPT ![k] = version[k] + 1]
        /\ tokens' = RevokeAll({t \in DOMAIN tokens : tokens[t].user = k})
  BY DEF RevokeSessions
<1>2. req' = req
  BY DEF RevokeSessions
<1>3. /\ DOMAIN tokens' = DOMAIN tokens
      /\ \A t \in DOMAIN tokens :
           /\ tokens'[t].user = tokens[t].user /\ tokens'[t].ver = tokens[t].ver
           /\ Live(t)' => Live(t) /\ tokens[t].user # k
  BY <1>1, RevokedShape
<1>4. version[k] \in Nat /\ version[k] + 1 \in Nat
  BY <1>1 DEF VersionsInv, VersionsTyped
<1>5. \A p \in Phones : version'[p] = IF p = k THEN version[k] + 1 ELSE version[p]
  BY <1>1 DEF VersionsInv, VersionsTyped
<1>6. version' \in [Phones -> Nat \cup {None}]
  BY <1>1, <1>4 DEF VersionsInv, VersionsTyped
<1>7. VersionsTyped'
  BY <1>2, <1>3, <1>4, <1>5, <1>6 DEF VersionsInv, VersionsTyped
<1>8. ASSUME NEW p \in Phones
      PROVE  (Cardinality(Outdated(p)) + Cardinality(Late(p)) <= Cardinality(Requests))'
  <2>1. CASE p = k
    <3>1. Outdated(p)' = {}
      BY <1>3, <2>1 DEF Outdated
    <3>2. Late(p)' \in SUBSET Requests
      BY DEF Late
    <3>3. /\ Cardinality(Late(p)') <= Cardinality(Requests)
          /\ Cardinality(Late(p)') \in Nat /\ Cardinality(Requests) \in Nat
      BY <3>2, FiniteAssumption, FS_Subset, FS_CardinalityType
    <3>4. Cardinality(Outdated(p)') = 0
      BY <3>1, FS_EmptySet
    <3>5. QED
      BY <3>3, <3>4
  <2>2. CASE p # k
    <3>1. version'[p] = version[p]
      BY <1>5, <2>2
    <3>2. Outdated(p)' \in SUBSET Outdated(p)
      BY <1>3, <3>1 DEF Outdated
    <3>3. Late(p)' \in SUBSET Late(p)
      BY <1>2, <3>1 DEF Late
    <3>4. QED
      BY <3>2, <3>3, FewerCounted DEF VersionsInv
  <2>3. QED
    BY <2>1, <2>2
<1>9. QED
  BY <1>7, <1>8 DEF VersionsInv

\* What a late request inserts takes its place.
LEMMA LateInserts ==
  ASSUME IInv, VersionsInv, NEW r \in Requests, IssueSession(r)
  PROVE  VersionsInv'
<1>1. PICK q, n : q = req[r] /\ n = Len(tokens) + 1
  OBVIOUS
<1> DEFINE new == [user |-> q.phone, fam |-> q.fam, ver |-> q.ver, revoked |-> FALSE, next |-> 0]
<1> DEFINE base == IF q.tok = 0 THEN tokens ELSE [tokens EXCEPT ![q.tok].next = n]
<1>2. /\ q.pc = "issue" /\ tokens' = Append(base, new) /\ req' = [req EXCEPT ![r] = Idle]
      /\ version' = version
  BY <1>1 DEF IssueSession
<1>3. /\ Sequence(tokens) /\ DOMAIN tokens = 1 .. Len(tokens) /\ Len(tokens) \in Nat
      /\ \A t \in DOMAIN tokens : TokenRecord(tokens[t])
  BY DEF IInv, Typed, Sequence
<1>4. Sequence(base) /\ Len(base) = Len(tokens)
  <2>1. base = [t \in DOMAIN tokens |-> base[t]]
    BY <1>3 DEF Sequence
  <2> HIDE DEF base
  <2>2. QED
    BY <1>3, <2>1, Mapped
<1>5. \A t \in 1 .. Len(tokens) :
        base[t].user = tokens[t].user /\ base[t].ver = tokens[t].ver /\ base[t].revoked = tokens[t].revoked
  <2>1. SUFFICES ASSUME NEW t \in 1 .. Len(tokens)
                 PROVE  /\ base[t].user = tokens[t].user /\ base[t].ver = tokens[t].ver
                        /\ base[t].revoked = tokens[t].revoked
    OBVIOUS
  <2>2. TokenRecord(tokens[t])
    BY <1>3
  <2>3. QED
    BY <1>3, <2>2 DEF TokenRecord
<1>6. new.user = q.phone /\ new.ver = q.ver
  OBVIOUS
<1> HIDE DEF base, new
<1>7. /\ DOMAIN tokens' = 1 .. n
      /\ \A t \in 1 .. Len(tokens) : tokens'[t] = base[t]
      /\ tokens'[n] = new
  BY <1>1, <1>2, <1>4, Appended
<1>8. \A t : t \in 1 .. n <=> t \in DOMAIN tokens \/ t = n
  BY <1>1, <1>3
<1>9. \A s \in Requests : req'[s] = IF s = r THEN Idle ELSE req[s]
  BY <1>2, OneMoves
<1>10. q.phone \in Phones /\ version[q.phone] \in Nat /\ q.ver \in Nat
  BY <1>1, <1>2 DEF VersionsInv, VersionsTyped
<1>11. \A t \in DOMAIN tokens :
         /\ tokens'[t].user = tokens[t].user /\ tokens'[t].ver = tokens[t].ver
         /\ Live(t)' <=> Live(t)
  BY <1>3, <1>5, <1>7 DEF Live
<1>12. VersionsTyped'
  BY <1>2, <1>6, <1>7, <1>8, <1>9, <1>10, <1>11, IdleJob DEF VersionsInv, VersionsTyped
<1>13. ASSUME NEW p \in Phones
       PROVE  (Cardinality(Outdated(p)) + Cardinality(Late(p)) <= Cardinality(Requests))'
  <2>1. Late(p)' \subseteq Late(p) \ {r}
    BY <1>2, <1>9, IdleJob DEF Late
  <2>2. Outdated(p)' \subseteq Outdated(p) \cup {n}
    BY <1>2, <1>7, <1>8, <1>11 DEF Outdated
  <2>3. CASE r \in Late(p)
    <3>1. PICK o, l, o2, l2 : /\ o = Outdated(p) /\ l = Late(p)
                              /\ o2 = Outdated(p)' /\ l2 = Late(p)'
      OBVIOUS
    <3>2. /\ IsFiniteSet(o) /\ Cardinality(o) \in Nat /\ IsFiniteSet(l) /\ Cardinality(l) \in Nat
          /\ Cardinality(o) + Cardinality(l) <= Cardinality(Requests)
          /\ Cardinality(Requests) \in Nat
      BY <3>1, OutdatedAreFinite, FiniteAssumption, FS_CardinalityType DEF VersionsInv
    <3>3. /\ IsFiniteSet(o \cup {n}) /\ IsFiniteSet(l \ {r})
          /\ Cardinality(o \cup {n}) = IF n \in o THEN Cardinality(o) ELSE Cardinality(o) + 1
          /\ Cardinality(l \ {r}) = IF r \in l THEN Cardinality(l) - 1 ELSE Cardinality(l)
      BY <3>2, FS_AddElement, FS_RemoveElement
    <3>4. Cardinality(o2) <= Cardinality(o \cup {n}) /\ Cardinality(o2) \in Nat
      BY <2>2, <3>1, <3>3, FS_Subset, FS_CardinalityType
    <3>5. Cardinality(l2) <= Cardinality(l \ {r}) /\ Cardinality(l2) \in Nat
      BY <2>1, <3>1, <3>3, FS_Subset, FS_CardinalityType
    <3>6. QED
      BY <2>3, <3>1, <3>2, <3>3, <3>4, <3>5
  <2>4. CASE r \notin Late(p)
    <3>1. ~(q.phone = p /\ q.ver < version[p])
      BY <1>1, <1>2, <2>4 DEF Late
    <3>2. n \notin Outdated(p)'
      BY <1>2, <1>6, <1>7, <3>1 DEF Outdated
    <3>3. Outdated(p)' \in SUBSET Outdated(p) /\ Late(p)' \in SUBSET Late(p)
      BY <2>1, <2>2, <3>2
    <3>4. QED
      BY <3>3, FewerCounted DEF VersionsInv
  <2>5. QED
    BY <2>3, <2>4
<1>14. QED
  BY <1>12, <1>13 DEF VersionsInv

LEMMA OthersReadNow ==
  ASSUME IInv, VersionsInv, NEW r \in Requests,
         \/ Code(r) \/ ReadCode(r) \/ CountGuess(r) \/ ConsumeCode(r) \/ Refresh(r) \/ Crash(r)
  PROVE  VersionsInv'
<1>1. ASSUME NEW to, req' = [req EXCEPT ![r] = to], version' = version,
             tokens' = tokens \/ \E S : tokens' = RevokeAll(S), ReadNow(to)
      PROVE  VersionsInv'
  <2>1. \A s \in Requests : req'[s] = req[s] \/ ReadNow(req'[s])
    BY <1>1, OneMoves
  <2>2. /\ DOMAIN tokens' = DOMAIN tokens
        /\ \A t \in DOMAIN tokens :
             /\ tokens'[t].user = tokens[t].user /\ tokens'[t].ver = tokens[t].ver
             /\ Live(t)' => Live(t)
    BY <1>1, RevokedShape DEF Live
  <2>3. QED
    BY <1>1, <2>1, <2>2, VersionsKept
<1>2. ReadNow(Idle)
  BY IdleJob DEF ReadNow
<1>3. CASE CountCodes(r)
  <2>1. PICK p : req' = [req EXCEPT ![r] = [Idle EXCEPT !.pc = "codeIssue", !.phone = p,
                                                        !.ch = Len(challenges)]]
    BY <1>3 DEF CountCodes
  <2>2. ReadNow([Idle EXCEPT !.pc = "codeIssue", !.phone = p, !.ch = Len(challenges)])
    BY DEF Idle, ReadNow
  <2>3. QED
    BY <1>1, <1>3, <2>1, <2>2 DEF CountCodes
<1>4. CASE IssueCode(r)
  <2>1. PICK to : to = [req[r] EXCEPT !.pc = "codeSend", !.ch = Len(challenges) + 1]
    OBVIOUS
  <2>2. req' = [req EXCEPT ![r] = to] /\ to.pc = "codeSend"
    BY <1>4, <2>1 DEF IssueCode, IInv, Typed, JobRecord
  <2>3. ReadNow(to)
    BY <2>2 DEF ReadNow
  <2>4. QED
    BY <1>1, <1>4, <2>2, <2>3 DEF IssueCode
<1>5. CASE ReadCode(r)
  <2>1. PICK p \in Phones, c \in DOMAIN challenges :
          /\ IsNewest(c, Verifiable(p))
          /\ \E typed \in {d \in Codes(p) : challenges[d].sent} \cup {0} :
               req' = [req EXCEPT ![r] = [Idle EXCEPT !.pc = "bump", !.phone = p, !.ch = c,
                                                      !.right = (typed = c)]]
    BY <1>5, Zenon DEF ReadCode
  <2>2. PICK typed :
          req' = [req EXCEPT ![r] = [Idle EXCEPT !.pc = "bump", !.phone = p, !.ch = c,
                                                 !.right = (typed = c)]]
    BY <2>1, Zenon
  <2> DEFINE to == [Idle EXCEPT !.pc = "bump", !.phone = p, !.ch = c, !.right = (typed = c)]
  <2>3. ReadNow(to)
    BY DEF Idle, ReadNow
  <2>4. req' = [req EXCEPT ![r] = to] /\ version' = version /\ tokens' = tokens
    BY <1>5, <2>2 DEF ReadCode
  <2> HIDE DEF to
  <2>5. QED
    BY <1>1, <2>3, <2>4
<1>6. CASE CountGuess(r) \/ ConsumeCode(r)
  <2>1. PICK to : /\ req' = [req EXCEPT ![r] = to]
                  /\ \/ to = Idle
                     \/ to = [req[r] EXCEPT !.pc = "consumeCode"]
                     \/ to = [req[r] EXCEPT !.pc = "upsert"]
    BY <1>6 DEF CountGuess, ConsumeCode, IInv, Typed
  <2>2. req[r].phone \in Phones
    BY <1>6 DEF CountGuess, ConsumeCode, VersionsInv, VersionsTyped
  <2>3. to = Idle \/ (to.pc \in {"consumeCode", "upsert"} /\ to.phone = req[r].phone)
    BY <2>1 DEF IInv, Typed, JobRecord
  <2>4. ReadNow(to)
    BY <1>2, <2>2, <2>3 DEF ReadNow
  <2>5. version' = version /\ tokens' = tokens
    BY <1>6 DEF CountGuess, ConsumeCode
  <2>6. QED
    BY <1>1, <2>1, <2>4, <2>5
<1>7. CASE ConsumeToken(r)
  <2>1. PICK to \in {Idle, [req[r] EXCEPT !.pc = "reload"]} : req' = [req EXCEPT ![r] = to]
    BY <1>7 DEF ConsumeToken
  <2>2. to.pc \in {"idle", "reload"}
    BY IdleJob DEF IInv, Typed, JobRecord
  <2>3. version' = version /\ tokens' = RevokeAll({req[r].tok})
    BY <1>7 DEF ConsumeToken, RevokeAll
  <2>4. ReadNow(to)
    BY <2>2 DEF ReadNow
  <2>5. QED
    BY <1>1, <2>1, <2>3, <2>4
<1>8. CASE ReadRefreshToken(r)
  <2>1. PICK t \in DOMAIN tokens :
          req' = [req EXCEPT ![r] = [Idle EXCEPT !.pc = IF Live(t) THEN "consume" ELSE "reuse",
                                     !.phone = tokens[t].user, !.tok = t, !.fam = tokens[t].fam]]
    BY <1>8 DEF ReadRefreshToken
  <2> DEFINE to == [Idle EXCEPT !.pc = IF Live(t) THEN "consume" ELSE "reuse",
                                !.phone = tokens[t].user, !.tok = t, !.fam = tokens[t].fam]
  <2>2. ReadNow(to)
    BY DEF Idle, ReadNow
  <2> HIDE DEF to
  <2>3. QED
    BY <1>1, <1>8, <2>1, <2>2 DEF ReadRefreshToken, to
<1>9. CASE ReloadUser(r)
  <2>1. PICK to : to = [req[r] EXCEPT !.pc = "issue", !.ver = version[req[r].phone]]
    OBVIOUS
  <2>2. /\ req' = [req EXCEPT ![r] = to] /\ to.pc = "issue"
        /\ to.phone = req[r].phone /\ to.ver = version[req[r].phone]
    BY <1>9, <2>1 DEF ReloadUser, IInv, Typed, JobRecord
  <2>3. req[r].tok \in DOMAIN tokens /\ req[r].phone = tokens[req[r].tok].user
    BY <1>9 DEF ReloadUser, IInv, HandOver
  <2>4. ReadNow(to)
    BY <2>2, <2>3 DEF ReadNow, VersionsInv, VersionsTyped
  <2>5. QED
    BY <1>1, <1>9, <2>2, <2>4 DEF ReloadUser
<1>10. CASE SendCode(r) \/ RevokeFamily(r) \/ Crash(r)
  <2>1. /\ req' = [req EXCEPT ![r] = Idle] /\ version' = version
        /\ tokens' = tokens \/ \E S : tokens' = RevokeAll(S)
    BY <1>10 DEF SendCode, RevokeFamily, Crash
  <2>2. QED
    BY <1>1, <1>2, <2>1
<1>11. QED
  BY <1>3, <1>4, <1>5, <1>6, <1>7, <1>8, <1>9, <1>10 DEF Code, Refresh

LEMMA VersionsInductive == IInv /\ VersionsInv /\ [Next]_vars => VersionsInv'
<1> SUFFICES ASSUME IInv, VersionsInv, [Next]_vars PROVE VersionsInv'
  OBVIOUS
<1>1. CASE Logout
  <2>1. PICK S : tokens' = RevokeAll(S)
    BY <1>1 DEF Logout
  <2>2. version' = version /\ req' = req
    BY <1>1 DEF Logout
  <2>3. /\ DOMAIN tokens' = DOMAIN tokens
        /\ \A t \in DOMAIN tokens :
             /\ tokens'[t].user = tokens[t].user /\ tokens'[t].ver = tokens[t].ver
             /\ Live(t)' => Live(t)
    BY <2>1, RevokedShape
  <2>4. QED
    BY <2>2, <2>3, VersionsKept
<1>2. CASE CodeAges \/ UNCHANGED vars
  BY <1>2, VersionsKept DEF CodeAges, vars, Live
<1>3. QED
  BY <1>1, <1>2, AllSignedOut, LoginReadsVersion, LateInserts, OthersReadNow DEF Next, Login

LEMMA VersionsInitially == Init => VersionsInv
<1> SUFFICES ASSUME Init PROVE VersionsInv
  OBVIOUS
<1>1. /\ version = [p \in Phones |-> None] /\ tokens = << >>
      /\ req = [r \in Requests |-> Idle] /\ DOMAIN << >> = {}
  BY DEF Init
<1>2. VersionsTyped
  BY <1>1, IdleJob DEF VersionsTyped
<1>3. ASSUME NEW p \in Phones
      PROVE  Cardinality(Outdated(p)) + Cardinality(Late(p)) <= Cardinality(Requests)
  <2>1. Outdated(p) = {} /\ Late(p) = {}
    BY <1>1, IdleJob DEF Outdated, Late
  <2>2. Cardinality(Requests) \in Nat /\ Cardinality({}) = 0
    BY FiniteAssumption, FS_CardinalityType, FS_EmptySet
  <2>3. QED
    BY <2>1, <2>2
<1>4. QED
  BY <1>2, <1>3 DEF VersionsInv

\* Once the administration has signed an account out, of its refresh tokens only those of
\* requests that were past reading the account stay good, one each: for any number of logins,
\* refreshes, replays and crashes at the same time.
THEOREM FewStaySignedIn == Spec => []FewSurviveRevocation
<1>1. VersionsInv /\ IInv => FewSurviveRevocation
  <2> SUFFICES ASSUME VersionsInv, IInv, NEW p \in Phones
               PROVE  Cardinality(Outdated(p)) <= Cardinality(Requests)
    BY DEF FewSurviveRevocation
  <2>1. Cardinality(Outdated(p)) + Cardinality(Late(p)) <= Cardinality(Requests)
    BY DEF VersionsInv
  <2>2. Cardinality(Requests) \in Nat
    BY FiniteAssumption, FS_CardinalityType
  <2>3. QED
    BY <2>1, <2>2, OutdatedAreFinite
<1>2. QED
  BY <1>1, Initially, Inductive, VersionsInitially, VersionsInductive, PTL DEF Spec

-----------------------------------------------------------------------------
(* Types                                                                   *)

\* A request for a code names the number that it is for.
JobsFit == \A r \in Requests : req[r].pc = "codeIssue" => req[r].phone \in Phones

LEMMA RewrittenRows ==
  ASSUME NEW S, NEW s \in Seq(S), NEW f, f = [i \in DOMAIN s |-> f[i]],
         \A i \in DOMAIN s : f[i] \in S
  PROVE  f \in Seq(S)
<1>1. DOMAIN s = 1 .. Len(s) /\ Len(s) \in Nat
  OBVIOUS
<1>2. f \in [1 .. Len(s) -> S]
  BY <1>1
<1>3. QED
  BY <1>1, <1>2

\* What a request may go on with.
LEMMA IdleTyped == Idle \in Local
BY BoundsAssumption DEF Idle, Local, Steps

LEMMA JobTyped ==
  ASSUME TypeOK, JobsFit, NEW r \in Requests, NEW to \in Local,
         to.pc = "codeIssue" => to.phone \in Phones, req' = [req EXCEPT ![r] = to]
  PROVE  req' \in [Requests -> Local] /\ JobsFit'
BY DEF TypeOK, JobsFit

LEMMA JobEnds ==
  ASSUME TypeOK, JobsFit, NEW r \in Requests, req' = [req EXCEPT ![r] = Idle]
  PROVE  req' \in [Requests -> Local] /\ JobsFit'
BY IdleTyped, JobTyped, IdleJob

LEMMA JobProceeds ==
  ASSUME NEW q \in Local, NEW pc \in Steps
  PROVE  [q EXCEPT !.pc = pc] \in Local /\ [q EXCEPT !.pc = pc].pc = pc
BY DEF Local

LEMMA JobOpens ==
  ASSUME NEW q \in Local, NEW v \in 0 .. MaxVersion, NEW f \in Nat
  PROVE  /\ [q EXCEPT !.pc = "issue", !.ver = v, !.fam = f] \in Local
         /\ [q EXCEPT !.pc = "issue", !.ver = v, !.fam = f].pc # "codeIssue"
         /\ [q EXCEPT !.pc = "issue", !.ver = v] \in Local
         /\ [q EXCEPT !.pc = "issue", !.ver = v].pc # "codeIssue"
BY DEF Local, Steps

LEMMA CodeJobs ==
  ASSUME NEW p \in Phones, NEW c \in Nat, NEW q \in Local
  PROVE  /\ [Idle EXCEPT !.pc = "codeIssue", !.phone = p, !.ch = c] \in Local
         /\ [Idle EXCEPT !.pc = "codeIssue", !.phone = p, !.ch = c].phone = p
         /\ [q EXCEPT !.pc = "codeSend", !.ch = c] \in Local
         /\ [q EXCEPT !.pc = "codeSend", !.ch = c].pc # "codeIssue"
BY IdleTyped DEF Local, Steps

LEMMA TokenJobs ==
  ASSUME NEW pc \in {"consume", "reuse"}, NEW p \in Phones, NEW t \in Nat, NEW f \in Nat
  PROVE  /\ [Idle EXCEPT !.pc = pc, !.phone = p, !.tok = t, !.fam = f] \in Local
         /\ [Idle EXCEPT !.pc = pc, !.phone = p, !.tok = t, !.fam = f].pc # "codeIssue"
BY IdleTyped DEF Local, Steps

\* The steps of a code.
LEMMA CodesFit ==
  ASSUME IInv, CodesInv, TypeOK, JobsFit, NEW r \in Requests,
         Code(r) \/ ReadCode(r) \/ CountGuess(r) \/ ConsumeCode(r)
  PROVE  TypeOK' /\ JobsFit'
<1>1. /\ challenges \in Seq(Challenge) /\ req[r] \in Local /\ Len(challenges) \in Nat
      /\ DOMAIN challenges = 1 .. Len(challenges)
  BY DEF TypeOK
<1>2. UNCHANGED <<version, logins, tokens, alarmed>>
  BY DEF Code, CountCodes, IssueCode, SendCode, ReadCode, CountGuess, ConsumeCode
<1>3. ASSUME challenges' \in Seq(Challenge), req' \in [Requests -> Local], JobsFit'
      PROVE  TypeOK' /\ JobsFit'
  BY <1>2, <1>3 DEF TypeOK
<1>4. ASSUME NEW k \in DOMAIN challenges, NEW new \in Challenge,
             challenges' = [challenges EXCEPT ![k] = new]
      PROVE  challenges' \in Seq(Challenge)
  BY <1>1, <1>4
<1>5. CASE CountCodes(r)
  <2>1. PICK p \in Phones :
          req' = [req EXCEPT ![r] = [Idle EXCEPT !.pc = "codeIssue", !.phone = p,
                                                 !.ch = Len(challenges)]]
    BY <1>5 DEF CountCodes
  <2>2. req' \in [Requests -> Local] /\ JobsFit'
    BY <1>1, <2>1, CodeJobs, JobTyped
  <2>3. QED
    BY <1>1, <1>3, <1>5, <2>2 DEF CountCodes
<1>6. CASE IssueCode(r)
  <2>1. PICK p \in Phones : p = req[r].phone
    BY <1>6 DEF IssueCode, JobsFit
  <2> DEFINE new == [phone |-> p, attempts |-> 0, consumed |-> FALSE, fresh |-> TRUE, sent |-> FALSE]
  <2> DEFINE old == [c \in DOMAIN challenges |->
                       IF challenges[c].phone = p
                       THEN [challenges[c] EXCEPT !.consumed = TRUE] ELSE challenges[c]]
  <2>2. new \in Challenge
    BY BoundsAssumption DEF Challenge
  <2>3. \A c \in DOMAIN challenges : old[c] \in Challenge
    <3> SUFFICES ASSUME NEW c \in DOMAIN challenges PROVE old[c] \in Challenge
      OBVIOUS
    <3>1. challenges[c] \in Challenge
      BY <1>1
    <3>2. [challenges[c] EXCEPT !.consumed = TRUE] \in Challenge
      BY <3>1 DEF Challenge
    <3>3. QED
      BY <3>1, <3>2
  <2>4. challenges' = Append(old, new)
    BY <1>6, <2>1 DEF IssueCode
  <2>5. old = [c \in DOMAIN challenges |-> old[c]]
    OBVIOUS
  <2> HIDE DEF old, new
  <2>6. old \in Seq(Challenge)
    BY <1>1, <2>3, <2>5, RewrittenRows
  <2>7. challenges' \in Seq(Challenge)
    BY <2>2, <2>4, <2>6
  <2>8. PICK n \in Nat : n = Len(challenges) + 1
    BY <1>1
  <2>9. req' = [req EXCEPT ![r] = [req[r] EXCEPT !.pc = "codeSend", !.ch = n]]
    BY <1>6, <2>8 DEF IssueCode, TypeOK
  <2>10. req' \in [Requests -> Local] /\ JobsFit'
    BY <1>1, <2>1, <2>9, CodeJobs, JobTyped
  <2>11. QED
    BY <1>3, <2>7, <2>10
<1>7. CASE SendCode(r) \/ ConsumeCode(r)
  <2>1. PICK k \in DOMAIN challenges : k = req[r].ch
    BY <1>7 DEF SendCode, ConsumeCode, CodesInv, GuessOf
  <2>2. challenges[k] \in Challenge
    BY <1>1
  <2>3. /\ [challenges[k] EXCEPT !.sent = TRUE] \in Challenge
        /\ [challenges[k] EXCEPT !.consumed = TRUE] \in Challenge
    BY <2>2 DEF Challenge
  <2>4. \/ challenges' = [challenges EXCEPT ![k] = [challenges[k] EXCEPT !.sent = TRUE]]
        \/ challenges' = [challenges EXCEPT ![k] = [challenges[k] EXCEPT !.consumed = TRUE]]
    BY <1>1, <1>7, <2>1 DEF SendCode, ConsumeCode
  <2>5. challenges' \in Seq(Challenge)
    BY <1>4, <2>3, <2>4
  <2>6. req' \in [Requests -> Local] /\ JobsFit'
    <3>1. CASE SendCode(r)
      BY <3>1, JobEnds DEF SendCode
    <3>2. CASE ConsumeCode(r)
      <4>1. req' = [req EXCEPT ![r] = [req[r] EXCEPT !.pc = "upsert"]]
        BY <3>2 DEF ConsumeCode, TypeOK
      <4>2. "upsert" \in Steps /\ "upsert" # "codeIssue"
        BY DEF Steps
      <4>3. QED
        BY <1>1, <4>1, <4>2, JobProceeds, JobTyped
    <3>3. QED
      BY <1>7, <3>1, <3>2
  <2>7. QED
    BY <1>3, <2>5, <2>6
<1>8. CASE ReadCode(r)
  <2>1. PICK p \in Phones, c \in DOMAIN challenges :
          /\ IsNewest(c, Verifiable(p))
          /\ \E typed \in {d \in Codes(p) : challenges[d].sent} \cup {0} :
               req' = [req EXCEPT ![r] = [Idle EXCEPT !.pc = "bump", !.phone = p, !.ch = c,
                                                      !.right = (typed = c)]]
    BY <1>8, Zenon DEF ReadCode
  <2>2. PICK typed :
          req' = [req EXCEPT ![r] = [Idle EXCEPT !.pc = "bump", !.phone = p, !.ch = c,
                                                 !.right = (typed = c)]]
    BY <2>1, Zenon
  <2> DEFINE to == [Idle EXCEPT !.pc = "bump", !.phone = p, !.ch = c, !.right = (typed = c)]
  <2>3. c \in Nat
    BY <1>1
  <2>4. to \in Local /\ to.pc # "codeIssue"
    BY <2>3, IdleTyped DEF Local, Steps
  <2>5. req' = [req EXCEPT ![r] = to]
    BY <2>2
  <2> HIDE DEF to
  <2>6. req' \in [Requests -> Local] /\ JobsFit'
    BY <2>4, <2>5, JobTyped
  <2>7. QED
    BY <1>1, <1>3, <1>8, <2>6 DEF ReadCode
<1>9. CASE CountGuess(r)
  <2>1. PICK k \in DOMAIN challenges : k = req[r].ch
    BY <1>9 DEF CountGuess, CodesInv, GuessOf
  <2>2. challenges[k] \in Challenge
    BY <1>1
  <2>3. challenges' \in Seq(Challenge)
    <3>1. CASE challenges[k].attempts >= MaxAttempts
      BY <1>1, <1>9, <2>1, <3>1 DEF CountGuess, Exhausted
    <3>2. CASE ~(challenges[k].attempts >= MaxAttempts)
      <4>1. challenges[k].attempts + 1 \in 0 .. MaxAttempts
        BY <2>2, <3>2, BoundsAssumption DEF Challenge
      <4>2. [challenges[k] EXCEPT !.attempts = challenges[k].attempts + 1] \in Challenge
        BY <2>2, <4>1 DEF Challenge
      <4>3. challenges' = [challenges EXCEPT ![k] =
                             [challenges[k] EXCEPT !.attempts = challenges[k].attempts + 1]]
        BY <1>1, <1>9, <2>1, <2>2, <3>2 DEF CountGuess, Exhausted, Challenge
      <4>4. QED
        BY <1>4, <4>2, <4>3
    <3>3. QED
      BY <3>1, <3>2
  <2>4. \/ req' = [req EXCEPT ![r] = Idle]
        \/ req' = [req EXCEPT ![r] = [req[r] EXCEPT !.pc = "consumeCode"]]
    BY <1>9 DEF CountGuess
  <2>5. "consumeCode" \in Steps /\ "consumeCode" # "codeIssue"
    BY DEF Steps
  <2>6. req' \in [Requests -> Local] /\ JobsFit'
    BY <1>1, <2>4, <2>5, JobEnds, JobProceeds, JobTyped
  <2>7. QED
    BY <1>3, <2>3, <2>6
<1>10. QED
  BY <1>5, <1>6, <1>7, <1>8, <1>9 DEF Code

LEMMA RevokedTyped ==
  ASSUME tokens \in Seq(Token), NEW S, tokens' = RevokeAll(S)
  PROVE  tokens' \in Seq(Token)
<1>1. ASSUME NEW t \in DOMAIN tokens
      PROVE  tokens'[t] \in Token
  <2>1. tokens[t] \in Token
    OBVIOUS
  <2>2. [tokens[t] EXCEPT !.revoked = TRUE] \in Token
    BY <2>1 DEF Token
  <2>3. QED
    BY <2>1, <2>2 DEF RevokeAll
<1>2. tokens' = [t \in DOMAIN tokens |-> tokens'[t]]
  BY DEF RevokeAll
<1>3. QED
  BY <1>1, <1>2, RewrittenRows

\* The steps of a session.
LEMMA SessionsFit ==
  ASSUME IInv, VersionsInv, TypeOK, JobsFit, NEW r \in Requests,
         UpsertUser(r) \/ Refresh(r) \/ IssueSession(r)
  PROVE  TypeOK' /\ JobsFit'
<1>1. /\ tokens \in Seq(Token) /\ req[r] \in Local /\ Len(tokens) \in Nat
      /\ DOMAIN tokens = 1 .. Len(tokens) /\ logins \in Seq(Nat) /\ Len(logins) \in Nat
  BY DEF TypeOK
<1>2. challenges' = challenges
  BY DEF UpsertUser, Refresh, ReadRefreshToken, RevokeFamily, ConsumeToken, ReloadUser, IssueSession
<1>3. CASE UpsertUser(r)
  <2>1. PICK p \in Phones : p = req[r].phone
    BY <1>3 DEF UpsertUser, VersionsInv, VersionsTyped
  <2>2. PICK v \in 0 .. MaxVersion : v = IF version[p] = None THEN 0 ELSE version[p]
    BY BoundsAssumption DEF TypeOK
  <2>3. PICK f \in Nat : f = Len(logins) + 1
    BY <1>1
  <2>4. version' = [version EXCEPT ![p] = v] /\ logins' = Append(logins, req[r].ch)
    BY <1>3, <2>1, <2>2 DEF UpsertUser
  <2>5. req' = [req EXCEPT ![r] = [req[r] EXCEPT !.pc = "issue", !.ver = v, !.fam = f]]
    BY <1>3, <2>1, <2>2, <2>3 DEF UpsertUser, TypeOK
  <2>6. req' \in [Requests -> Local] /\ JobsFit'
    BY <1>1, <2>5, JobOpens, JobTyped
  <2>7. version' \in [Phones -> 0..MaxVersion \cup {None}]
    BY <2>4 DEF TypeOK
  <2>8. req[r].ch \in Nat
    BY <1>1 DEF Local
  <2>9. logins' \in Seq(Nat)
    BY <1>1, <2>4, <2>8
  <2>10. QED
    BY <1>2, <1>3, <2>6, <2>7, <2>9 DEF UpsertUser, TypeOK
<1>4. CASE ReadRefreshToken(r)
  <2>1. PICK t \in DOMAIN tokens :
          req' = [req EXCEPT ![r] = [Idle EXCEPT !.pc = IF Live(t) THEN "consume" ELSE "reuse",
                                       !.phone = tokens[t].user, !.tok = t, !.fam = tokens[t].fam]]
    BY <1>4 DEF ReadRefreshToken
  <2>2. tokens[t] \in Token /\ t \in Nat
    BY <1>1
  <2>3. PICK p \in Phones, f \in Nat, pc \in {"consume", "reuse"} :
          /\ p = tokens[t].user /\ f = tokens[t].fam
          /\ pc = IF Live(t) THEN "consume" ELSE "reuse"
    BY <2>2 DEF Token
  <2>4. req' = [req EXCEPT ![r] = [Idle EXCEPT !.pc = pc, !.phone = p, !.tok = t, !.fam = f]]
    BY <2>1, <2>3
  <2>5. req' \in [Requests -> Local] /\ JobsFit'
    BY <2>2, <2>4, TokenJobs, JobTyped
  <2>6. QED
    BY <1>2, <1>4, <2>5 DEF ReadRefreshToken, TypeOK
<1>5. CASE RevokeFamily(r)
  <2>1. tokens' \in Seq(Token)
    BY <1>1, <1>5, RevokedTyped DEF RevokeFamily
  <2>2. req[r].fam \in Nat
    BY <1>1 DEF Local
  <2>3. alarmed' \subseteq Nat
    BY <1>5, <2>2 DEF RevokeFamily, TypeOK
  <2>4. req' \in [Requests -> Local] /\ JobsFit'
    BY <1>5, JobEnds DEF RevokeFamily
  <2>5. QED
    BY <1>2, <1>5, <2>1, <2>3, <2>4 DEF RevokeFamily, TypeOK
<1>6. CASE ConsumeToken(r)
  <2>1. PICK t \in DOMAIN tokens : t = req[r].tok
    BY <1>6 DEF ConsumeToken, IInv, HandOver
  <2>2. tokens[t] \in Token
    BY <1>1
  <2>3. [tokens[t] EXCEPT !.revoked = TRUE] \in Token
    BY <2>2 DEF Token
  <2>4. tokens' = [tokens EXCEPT ![t] = [tokens[t] EXCEPT !.revoked = TRUE]]
    BY <1>1, <1>6, <2>1 DEF ConsumeToken
  <2>5. tokens' \in Seq(Token)
    BY <1>1, <2>3, <2>4
  <2>6. \/ req' = [req EXCEPT ![r] = Idle]
        \/ req' = [req EXCEPT ![r] = [req[r] EXCEPT !.pc = "reload"]]
    BY <1>6 DEF ConsumeToken
  <2>7. "reload" \in Steps /\ "reload" # "codeIssue"
    BY DEF Steps
  <2>8. req' \in [Requests -> Local] /\ JobsFit'
    BY <1>1, <2>6, <2>7, JobEnds, JobProceeds, JobTyped
  <2>9. QED
    BY <1>2, <1>6, <2>5, <2>8 DEF ConsumeToken, TypeOK
<1>7. CASE ReloadUser(r)
  <2>1. PICK t \in DOMAIN tokens : t = req[r].tok /\ req[r].phone = tokens[t].user
    BY <1>7 DEF ReloadUser, IInv, HandOver
  <2>2. tokens[t].user \in Phones /\ version[tokens[t].user] \in Nat
    BY DEF VersionsInv, VersionsTyped
  <2>3. PICK v \in 0 .. MaxVersion : v = version[req[r].phone]
    BY <2>1, <2>2, NoneAssumption DEF TypeOK
  <2>4. req' = [req EXCEPT ![r] = [req[r] EXCEPT !.pc = "issue", !.ver = v]]
    BY <1>7, <2>3 DEF ReloadUser, TypeOK
  <2>5. req' \in [Requests -> Local] /\ JobsFit'
    BY <1>1, <2>4, JobOpens, JobTyped
  <2>6. QED
    BY <1>2, <1>7, <2>5 DEF ReloadUser, TypeOK
<1>8. CASE IssueSession(r)
  <2>1. PICK q, n : q = req[r] /\ n = Len(tokens) + 1
    OBVIOUS
  <2> DEFINE new == [user |-> q.phone, fam |-> q.fam, ver |-> q.ver, revoked |-> FALSE, next |-> 0]
  <2> DEFINE base == IF q.tok = 0 THEN tokens ELSE [tokens EXCEPT ![q.tok].next = n]
  <2>2. /\ q.pc = "issue" /\ tokens' = Append(base, new) /\ req' = [req EXCEPT ![r] = Idle]
        /\ UNCHANGED <<version, logins, alarmed>>
    BY <1>8, <2>1 DEF IssueSession
  <2>3. q.phone \in Phones
    BY <2>1, <2>2 DEF VersionsInv, VersionsTyped
  <2>4. new \in Token
    BY <1>1, <2>1, <2>3 DEF Local, Token
  <2>5. base \in Seq(Token)
    <3>1. CASE q.tok = 0
      BY <1>1, <3>1
    <3>2. CASE q.tok # 0
      <4>1. q.tok \in DOMAIN tokens
        BY <2>1, <2>2, <3>2 DEF IInv, HandOver
      <4>2. tokens[q.tok] \in Token /\ n \in Nat
        BY <1>1, <2>1, <4>1
      <4>3. [tokens[q.tok] EXCEPT !.next = n] \in Token
        BY <4>2 DEF Token
      <4>4. base = [tokens EXCEPT ![q.tok] = [tokens[q.tok] EXCEPT !.next = n]]
        BY <1>1, <3>2, <4>1
      <4> HIDE DEF base
      <4>5. QED
        BY <1>1, <4>1, <4>3, <4>4
    <3>3. QED
      BY <3>1, <3>2
  <2> HIDE DEF base, new
  <2>6. tokens' \in Seq(Token)
    BY <2>2, <2>4, <2>5
  <2>7. req' \in [Requests -> Local] /\ JobsFit'
    BY <2>2, JobEnds
  <2>8. QED
    BY <1>2, <2>2, <2>6, <2>7 DEF TypeOK
<1>9. QED
  BY <1>3, <1>4, <1>5, <1>6, <1>7, <1>8 DEF Refresh

LEMMA RestFits ==
  ASSUME TypeOK, JobsFit,
         \/ Logout \/ RevokeSessions \/ CodeAges \/ UNCHANGED vars
         \/ \E r \in Requests : Crash(r)
  PROVE  TypeOK' /\ JobsFit'
<1>1. CASE Logout
  <2>1. tokens' \in Seq(Token)
    BY <1>1, RevokedTyped DEF Logout, TypeOK
  <2>2. QED
    BY <1>1, <2>1 DEF Logout, TypeOK, JobsFit
<1>2. CASE RevokeSessions
  <2>1. PICK p \in Phones :
          /\ version[p] # None /\ version[p] < MaxVersion
          /\ version' = [version EXCEPT ![p] = version[p] + 1]
          /\ tokens' = RevokeAll({t \in DOMAIN tokens : tokens[t].user = p})
    BY <1>2 DEF RevokeSessions
  <2>2. version[p] + 1 \in 0 .. MaxVersion
    BY <2>1, BoundsAssumption DEF TypeOK
  <2>3. version' \in [Phones -> 0..MaxVersion \cup {None}]
    BY <2>1, <2>2 DEF TypeOK
  <2>4. tokens' \in Seq(Token)
    BY <2>1, RevokedTyped DEF TypeOK
  <2>5. QED
    BY <1>2, <2>3, <2>4 DEF RevokeSessions, TypeOK, JobsFit
<1>3. CASE CodeAges
  <2>1. PICK c \in DOMAIN challenges : challenges' = [challenges EXCEPT ![c].fresh = FALSE]
    BY <1>3 DEF CodeAges
  <2>2. challenges \in Seq(Challenge) /\ challenges[c] \in Challenge
    BY DEF TypeOK
  <2>3. [challenges[c] EXCEPT !.fresh = FALSE] \in Challenge
    BY <2>2 DEF Challenge
  <2>4. challenges' = [challenges EXCEPT ![c] = [challenges[c] EXCEPT !.fresh = FALSE]]
    BY <2>1
  <2>5. challenges' \in Seq(Challenge)
    BY <2>2, <2>3, <2>4
  <2>6. QED
    BY <1>3, <2>5 DEF CodeAges, TypeOK, JobsFit
<1>4. CASE UNCHANGED vars
  BY <1>4 DEF vars, TypeOK, JobsFit
<1>5. ASSUME NEW r \in Requests, Crash(r)
      PROVE  TypeOK' /\ JobsFit'
  BY <1>5, JobEnds DEF Crash, TypeOK
<1>6. QED
  BY <1>1, <1>2, <1>3, <1>4, <1>5

\* Codes, tokens and requests keep their types, for any accounts and requests: a guess is
\* never counted beyond the allowed ones, a version never read of an account that is not there.
THEOREM SessionsTypeCorrect == Spec => []TypeOK
<1>1. Init => TypeOK /\ JobsFit
  <2> SUFFICES ASSUME Init PROVE TypeOK /\ JobsFit
    OBVIOUS
  <2>1. << >> \in Seq(Challenge) /\ << >> \in Seq(Nat) /\ << >> \in Seq(Token)
    OBVIOUS
  <2>2. QED
    BY <2>1, IdleTyped, IdleJob DEF Init, TypeOK, JobsFit
<1>2. IInv /\ CodesInv /\ VersionsInv /\ TypeOK /\ JobsFit /\ [Next]_vars => TypeOK' /\ JobsFit'
  BY CodesFit, SessionsFit, RestFits DEF Next, Login
<1>3. QED
  BY <1>1, <1>2, Initially, Inductive, CodesInitially, CodesInductive, VersionsInitially,
     VersionsInductive, PTL DEF Spec
=============================================================================
