------------------------ MODULE ManualPaymentsProofs ------------------------
(***************************************************************************)
(* Theorems about ManualPayments, for any number of workers, payments,     *)
(* request ids, references and sales.                                      *)
(***************************************************************************)
EXTENDS ManualPayments, TLAPS

\* What a request is about to write is still true of the row it writes: a
\* verified payment stays verified, a sale recorded for it stays in the book.
VerifiedJobs ==
  \A w \in Workers :
    /\ job[w].at \in {"checkout", "link"} => pay[job[w].id].status = "verified"
    /\ job[w].at = "link" => job[w].sale \in book[pay[job[w].id].req]

TypeInv == TypeOK /\ VerifiedJobs

\* A worker's request state, by the step it is at.
LEMMA JobShape ==
  ASSUME TypeOK, NEW w \in Workers
  PROVE  /\ job[w] \in Job
         /\ job[w].at = "insert" => job[w].req \in ReqIds /\ job[w].prov \in Providers
         /\ job[w].at \in {"clash", "declare"} =>
              /\ job[w].id \in Payments /\ job[w].ref \in Refs
              /\ job[w].from \in {"pending", "rejected"}
         /\ job[w].at \in {"verify", "reread", "reject", "checkout", "link"} =>
              job[w].id \in Payments
         /\ job[w].at = "link" => job[w].sale \in Sales
         /\ job[w].at = "cancel" => /\ job[w].id \in Payments
                                    /\ job[w].from \in {"pending", "submitted"}
<1>1. job[w] \in Job
  BY DEF TypeOK
<1>2. QED
  BY <1>1 DEF Job, Idle

------------------------------------------------------------------------------
(* What the steps do to the payments and to the book *)

Changes(p, row) == pay' = [pay EXCEPT ![p] = row]

Starts(p, r, m) ==
  /\ pay[p].status = "absent"
  /\ Named(r) = {}
  /\ Changes(p, [AbsentRow EXCEPT !.status = "pending", !.req = r, !.prov = m])

Declares(p, ref) ==
  /\ pay[p].status \in {"pending", "rejected"}
  /\ ReferenceFree(p, ref)
  /\ Changes(p, [pay[p] EXCEPT !.status = "submitted", !.ref = ref])

Decides(p, to) ==
  /\ \/ pay[p].status = "submitted" /\ to \in {"verified", "rejected", "cancelled"}
     \/ pay[p].status = "pending" /\ to = "cancelled"
  /\ Changes(p, [pay[p] EXCEPT !.status = to])

Links(p, s) ==
  /\ pay[p].status = "verified"
  /\ s \in book[pay[p].req]
  /\ Changes(p, [pay[p] EXCEPT !.sale = s])

LEMMA PayStep ==
  ASSUME TypeInv, [Next]_vars
  PROVE  \/ pay' = pay
         \/ /\ book' = book
            /\ \E p \in Payments :
                 \/ \E r \in ReqIds, m \in Providers : Starts(p, r, m)
                 \/ \E ref \in Refs : Declares(p, ref)
                 \/ \E to \in PaymentStatus : Decides(p, to)
                 \/ \E s \in Sales : Links(p, s)
<1> DEFINE Effect(p) == \/ \E r \in ReqIds, m \in Providers : Starts(p, r, m)
                        \/ \E ref \in Refs : Declares(p, ref)
                        \/ \E to \in PaymentStatus : Decides(p, to)
                        \/ \E s \in Sales : Links(p, s)
           Goal == \/ pay' = pay
                   \/ book' = book /\ \E p \in Payments : Effect(p)
<1>0. TypeOK /\ VerifiedJobs
  BY DEF TypeInv
<1>1. ASSUME NEW w \in Workers, CommitStart(w)
      PROVE  Goal
  <2>1. job[w].req \in ReqIds /\ job[w].prov \in Providers
    BY <1>0, <1>1, JobShape DEF CommitStart
  <2>2. PICK p \in Payments : Starts(p, job[w].req, job[w].prov)
    BY <1>1 DEF CommitStart, RequestTaken, Starts, Changes
  <2>3. book' = book
    BY <1>1 DEF CommitStart, sales
  <2>4. QED
    BY <2>1, <2>2, <2>3
<1>2. ASSUME NEW w \in Workers, CommitSubmit(w)
      PROVE  Goal
  <2>1. /\ job[w].id \in Payments /\ job[w].ref \in Refs
        /\ job[w].from \in {"pending", "rejected"}
    BY <1>0, <1>2, JobShape DEF CommitSubmit
  <2>2. pay' = pay \/ Declares(job[w].id, job[w].ref)
    BY <1>2, <2>1 DEF CommitSubmit, Unmoved, DeclaredReference, Declares, Changes
  <2>3. book' = book
    BY <1>2 DEF CommitSubmit, sales
  <2>4. QED
    BY <2>1, <2>2, <2>3
<1>3. ASSUME NEW w \in Workers, CommitVerify(w)
      PROVE  Goal
  <2>1. job[w].id \in Payments
    BY <1>0, <1>3, JobShape DEF CommitVerify
  <2>2. pay' = pay \/ Decides(job[w].id, "verified")
    BY <1>3 DEF CommitVerify, Unmoved, Decides, Changes
  <2>3. book' = book
    BY <1>3 DEF CommitVerify, sales
  <2>4. QED
    BY <2>1, <2>2, <2>3 DEF PaymentStatus
<1>4. ASSUME NEW w \in Workers, CommitReject(w)
      PROVE  Goal
  <2>1. job[w].id \in Payments
    BY <1>0, <1>4, JobShape DEF CommitReject
  <2>2. pay' = pay \/ Decides(job[w].id, "rejected")
    BY <1>4 DEF CommitReject, Unmoved, Decides, Changes
  <2>3. book' = book
    BY <1>4 DEF CommitReject, sales
  <2>4. QED
    BY <2>1, <2>2, <2>3 DEF PaymentStatus
<1>5. ASSUME NEW w \in Workers, CommitCancel(w)
      PROVE  Goal
  <2>1. job[w].id \in Payments /\ job[w].from \in {"pending", "submitted"}
    BY <1>0, <1>5, JobShape DEF CommitCancel
  <2>2. pay' = pay \/ Decides(job[w].id, "cancelled")
    BY <1>5, <2>1 DEF CommitCancel, Unmoved, Decides, Changes
  <2>3. book' = book
    BY <1>5 DEF CommitCancel, sales
  <2>4. QED
    BY <2>1, <2>2, <2>3 DEF PaymentStatus
<1>6. ASSUME NEW w \in Workers, LinkSale(w)
      PROVE  Goal
  <2>1. job[w].id \in Payments /\ job[w].sale \in Sales
    BY <1>0, <1>6, JobShape DEF LinkSale
  <2>2. Links(job[w].id, job[w].sale)
    BY <1>0, <1>6 DEF LinkSale, VerifiedJobs, Links, Changes
  <2>3. book' = book
    BY <1>6 DEF LinkSale, sales
  <2>4. QED
    BY <2>1, <2>2, <2>3
<1>7. CASE ~\E w \in Workers : \/ CommitStart(w) \/ CommitSubmit(w) \/ CommitVerify(w)
                               \/ CommitReject(w) \/ CommitCancel(w) \/ LinkSale(w)
  BY <1>7 DEF Next, Serve, StartPayment, SubmitPayment, VerifyPayment, DismissPayment,
       ReplayStart, BeginStart, LoseStartRace, BeginSubmit, CheckClash, BeginVerify,
       Reread, CheckoutPayment, BeginReject, BeginCancel, Abandon, VoidSale,
       DeleteCustomer, vars
<1>8. QED
  BY <1>1, <1>2, <1>3, <1>4, <1>5, <1>6, <1>7

\* A sale is recorded for a verified payment that has none.
Sells(p, s) ==
  /\ pay[p].status = "verified"
  /\ book[pay[p].req] = {}
  /\ book' = [book EXCEPT ![pay[p].req] = {s}]
  /\ pay' = pay

LEMMA BookStep ==
  ASSUME TypeInv, [Next]_vars
  PROVE  book' = book \/ \E p \in Payments, s \in Sales : Sells(p, s)
<1>1. ASSUME NEW w \in Workers, CheckoutPayment(w)
      PROVE  book' = book \/ \E p \in Payments, s \in Sales : Sells(p, s)
  <2>1. job[w].id \in Payments /\ pay[job[w].id].status = "verified"
    BY <1>1, JobShape DEF TypeInv, VerifiedJobs, CheckoutPayment
  <2>2. book' = book \/ \E s \in Sales : Sells(job[w].id, s)
    BY <1>1, <2>1 DEF CheckoutPayment, Book!Record, Sells, sales
  <2>3. QED
    BY <2>1, <2>2
<1>2. CASE ~\E w \in Workers : CheckoutPayment(w)
  BY <1>2 DEF Next, Serve, StartPayment, SubmitPayment, VerifyPayment, DismissPayment,
       ReplayStart, BeginStart, CommitStart, LoseStartRace, BeginSubmit, CheckClash,
       CommitSubmit, BeginVerify, CommitVerify, Reread, LinkSale, BeginReject,
       CommitReject, BeginCancel, CommitCancel, Abandon, VoidSale,
       DeleteCustomer, Book!VoidRecorded, vars, sales
<1>3. QED
  BY <1>1, <1>2

\* Each of these writes one row, and the row stays a row of the schema.
LEMMA RowWritten ==
  ASSUME TypeOK, NEW p \in Payments, NEW row \in Row, Changes(p, row)
  PROVE  /\ pay' \in [Payments -> Row]
         /\ pay'[p] = row
         /\ \A q \in Payments \ {p} : pay'[q] = pay[q]
BY DEF TypeOK, Changes

LEMMA StartedRow ==
  ASSUME NEW r \in ReqIds, NEW m \in Providers
  PROVE  LET row == [AbsentRow EXCEPT !.status = "pending", !.req = r, !.prov = m]
         IN /\ row \in Row
            /\ row.status = "pending" /\ row.req = r
            /\ row.sale = None
BY NoneAssumption DEF AbsentRow, Row, Fields, PaymentStatus

LEMMA DeclaredRow ==
  ASSUME NEW row \in Row, row.status \in {"pending", "rejected"}, NEW ref \in Refs
  PROVE  LET new == [row EXCEPT !.status = "submitted", !.ref = ref]
         IN /\ new \in Row
            /\ new.status = "submitted" /\ new.ref = ref
            /\ new.req = row.req /\ new.prov = row.prov /\ new.sale = row.sale
BY NoneAssumption DEF Row, Fields, PaymentStatus

LEMMA DecidedRow ==
  ASSUME NEW row \in Row, NEW to,
         \/ row.status = "submitted" /\ to \in {"verified", "rejected", "cancelled"}
         \/ row.status = "pending" /\ to = "cancelled"
  PROVE  LET new == [row EXCEPT !.status = to]
         IN /\ new \in Row
            /\ new.status = to /\ new.ref = row.ref
            /\ new.req = row.req /\ new.prov = row.prov /\ new.sale = row.sale
BY DEF Row, Fields, PaymentStatus

LEMMA LinkedRow ==
  ASSUME NEW row \in Row, NEW s \in Sales
  PROVE  LET new == [row EXCEPT !.sale = s]
         IN /\ new \in Row
            /\ new.status = row.status /\ new.ref = row.ref
            /\ new.req = row.req /\ new.prov = row.prov /\ new.sale = s
BY DEF Row, Fields

\* What every step leaves of a payment: its request id and operator, its status
\* once verified or cancelled, its reference once verified.
LEMMA PaySettled ==
  ASSUME TypeInv, [Next]_vars, NEW p \in Payments
  PROVE  /\ pay' \in [Payments -> Row]
         /\ pay[p].status # "absent" =>
              /\ pay'[p].status # "absent"
              /\ pay'[p].req = pay[p].req /\ pay'[p].prov = pay[p].prov
         /\ pay[p].status = "verified" =>
              pay'[p].status = "verified" /\ pay'[p].ref = pay[p].ref
<1> DEFINE Goal == /\ pay' \in [Payments -> Row]
                   /\ pay[p].status # "absent" =>
                        /\ pay'[p].status # "absent"
                        /\ pay'[p].req = pay[p].req /\ pay'[p].prov = pay[p].prov
                   /\ pay[p].status = "verified" =>
                        pay'[p].status = "verified" /\ pay'[p].ref = pay[p].ref
<1>0. TypeOK /\ pay \in [Payments -> Row]
  BY DEF TypeInv, TypeOK
<1>1. CASE pay' = pay
  BY <1>0, <1>1
<1>2. ASSUME NEW q \in Payments, NEW r \in ReqIds, NEW m \in Providers, Starts(q, r, m)
      PROVE  Goal
  <2> DEFINE row == [AbsentRow EXCEPT !.status = "pending", !.req = r, !.prov = m]
  <2>1. row \in Row
    BY StartedRow
  <2>2. Changes(q, row) /\ pay[q].status = "absent"
    BY <1>2 DEF Starts
  <2> HIDE DEF row
  <2>3. QED
    BY <1>0, <2>1, <2>2, RowWritten
<1>3. ASSUME NEW q \in Payments, NEW ref \in Refs, Declares(q, ref)
      PROVE  Goal
  <2> DEFINE new == [pay[q] EXCEPT !.status = "submitted", !.ref = ref]
  <2>1. pay[q] \in Row /\ pay[q].status \in {"pending", "rejected"} /\ Changes(q, new)
    BY <1>0, <1>3 DEF Declares
  <2>2. /\ new \in Row /\ new.status = "submitted"
        /\ new.req = pay[q].req /\ new.prov = pay[q].prov
    BY <2>1, DeclaredRow
  <2> HIDE DEF new
  <2>3. QED
    BY <1>0, <2>1, <2>2, RowWritten
<1>4. ASSUME NEW q \in Payments, NEW to \in PaymentStatus, Decides(q, to)
      PROVE  Goal
  <2> DEFINE new == [pay[q] EXCEPT !.status = to]
  <2>1. /\ pay[q] \in Row /\ Changes(q, new)
        /\ \/ pay[q].status = "submitted" /\ to \in {"verified", "rejected", "cancelled"}
           \/ pay[q].status = "pending" /\ to = "cancelled"
    BY <1>0, <1>4 DEF Decides
  <2>2. /\ new \in Row /\ new.status = to
        /\ new.req = pay[q].req /\ new.prov = pay[q].prov
    BY <2>1, DecidedRow
  <2> HIDE DEF new
  <2>3. QED
    BY <1>0, <2>1, <2>2, RowWritten
<1>5. ASSUME NEW q \in Payments, NEW s \in Sales, Links(q, s)
      PROVE  Goal
  <2> DEFINE new == [pay[q] EXCEPT !.sale = s]
  <2>1. pay[q] \in Row /\ Changes(q, new)
    BY <1>0, <1>5 DEF Links
  <2>2. /\ new \in Row /\ new.status = pay[q].status /\ new.ref = pay[q].ref
        /\ new.req = pay[q].req /\ new.prov = pay[q].prov
    BY <2>1, LinkedRow
  <2> HIDE DEF new
  <2>3. QED
    BY <1>0, <2>1, <2>2, RowWritten
<1>6. QED
  BY <1>1, <1>2, <1>3, <1>4, <1>5, PayStep

LEMMA BookGrows ==
  ASSUME TypeInv, [Next]_vars
  PROVE  /\ book' \in [ReqIds -> SUBSET Sales]
         /\ \A r \in ReqIds : book[r] \subseteq book'[r]
<1>1. book \in [ReqIds -> SUBSET Sales]
  BY DEF TypeInv, TypeOK
<1>2. ASSUME NEW p \in Payments, NEW s \in Sales, Sells(p, s)
      PROVE  /\ book' \in [ReqIds -> SUBSET Sales]
             /\ \A r \in ReqIds : book[r] \subseteq book'[r]
  BY <1>1, <1>2 DEF Sells
<1>3. QED
  BY <1>1, <1>2, BookStep

\* A payment that is there was started under a request id.
LEMMA StartedUnder ==
  ASSUME TypeOK, NEW p \in Payments, pay[p].status # "absent"
  PROVE  pay[p].req \in ReqIds
BY DEF TypeOK, Row, Fields

------------------------------------------------------------------------------
(* Types *)

LEMMA TypeInit == Init => TypeInv
<1> SUFFICES ASSUME Init PROVE TypeInv
  OBVIOUS
<1>1. AbsentRow \in Row
  BY DEF AbsentRow, Row, Fields, PaymentStatus
<1>2. TypeOK
  BY <1>1 DEF Init, TypeOK, Job, Book!Init
<1>3. VerifiedJobs
  BY DEF Init, VerifiedJobs, Idle
<1>4. QED
  BY <1>2, <1>3 DEF TypeInv

\* A worker's next step is well formed, and is a sale or a link only for a
\* verified payment.
Sound(step) ==
  /\ step \in Job
  /\ step.at \in {"checkout", "link"} => pay[step.id].status = "verified"
  /\ step.at = "link" => step.sale \in book'[pay[step.id].req]

LEMMA IdleSound == Sound(Idle)
BY DEF Sound, Job, Idle

LEMMA StepSound ==
  ASSUME TypeInv, NEW w \in Workers, Serve(w) \/ Abandon(w)
  PROVE  job' = job \/ \E step : Sound(step) /\ job' = [job EXCEPT ![w] = step]
<1> DEFINE Goal == job' = job \/ \E step : Sound(step) /\ job' = [job EXCEPT ![w] = step]
<1>0. TypeOK /\ VerifiedJobs /\ pay \in [Payments -> Row]
  BY DEF TypeInv, TypeOK
<1>1. CASE Goto(w, Idle)
  BY <1>1, IdleSound DEF Goto
<1>2. ASSUME NEW r \in ReqIds, NEW m \in Providers, BeginStart(w, r, m)
      PROVE  Goal
  <2>1. Sound([at |-> "insert", req |-> r, prov |-> m])
    BY DEF Sound, Job
  <2>2. QED
    BY <1>2, <2>1 DEF BeginStart, Goto
<1>3. ASSUME NEW p \in Payments, NEW ref \in Refs, BeginSubmit(w, p, ref)
      PROVE  Goal
  <2>1. Sound([at |-> "clash", id |-> p, ref |-> ref, from |-> pay[p].status])
    BY <1>3 DEF BeginSubmit, Sound, Job
  <2>2. QED
    BY <1>3, <2>1 DEF BeginSubmit, Goto
<1>4. CASE CheckClash(w)
  <2>1. /\ job[w] \in [at: {"clash"}, id: Payments, ref: Refs, from: {"pending", "rejected"}]
    <3>1. job[w] \in Job /\ job[w].at = "clash"
      BY <1>0, <1>4, JobShape DEF CheckClash
    <3>2. QED
      BY <3>1 DEF Job, Idle
  <2>2. Sound([job[w] EXCEPT !.at = "declare"])
    BY <2>1 DEF Sound, Job
  <2>3. QED
    BY <1>1, <1>4, <2>2 DEF CheckClash, Goto
<1>5. ASSUME NEW p \in Payments, BeginVerify(w, p)
      PROVE  Goal
  <2>1. Sound([at |-> "verify", id |-> p])
    BY DEF Sound, Job
  <2>2. Unfinished(p) => Sound([at |-> "checkout", id |-> p])
    BY DEF Sound, Job, Unfinished
  <2>3. QED
    BY <1>5, <2>1, <2>2 DEF BeginVerify, Goto
<1>6. CASE CommitVerify(w)
  <2>1. job[w].id \in Payments
    BY <1>0, <1>6, JobShape DEF CommitVerify
  <2>2. Sound([at |-> "reread", id |-> job[w].id])
    BY <2>1 DEF Sound, Job
  <2>3. QED
    BY <1>6, <2>2 DEF CommitVerify, Goto
<1>7. CASE Reread(w)
  <2>1. job[w].id \in Payments
    BY <1>0, <1>7, JobShape DEF Reread
  <2>2. MayBeSold(job[w].id) => Sound([at |-> "checkout", id |-> job[w].id])
    BY <2>1 DEF MayBeSold, Unfinished, Sound, Job
  <2>3. QED
    BY <1>1, <1>7, <2>2 DEF Reread, Goto
<1>8. CASE CheckoutPayment(w)
  <2> DEFINE p == job[w].id
             r == pay[p].req
  <2>1. p \in Payments /\ pay[p].status = "verified"
    BY <1>0, <1>8, JobShape DEF CheckoutPayment, VerifiedJobs
  <2>2. r \in ReqIds /\ book \in [ReqIds -> SUBSET Sales]
    BY <1>0, <2>1, StartedUnder DEF TypeOK
  <2>3. ASSUME NEW s \in Sales, s \in book'[r]
        PROVE  Sound([at |-> "link", id |-> p, sale |-> s])
    BY <2>1, <2>3 DEF Sound, Job
  <2>4. ASSUME NEW s \in book[r], UNCHANGED sales,
               Goto(w, [at |-> "link", id |-> p, sale |-> s])
        PROVE  Goal
    <3>1. s \in Sales /\ s \in book'[r]
      BY <2>2, <2>4 DEF sales
    <3>2. QED
      BY <2>3, <2>4, <3>1 DEF Goto
  <2>5. ASSUME NEW s \in Sales, Book!Record(r, s),
               Goto(w, [at |-> "link", id |-> p, sale |-> s])
        PROVE  Goal
    <3>1. s \in book'[r]
      BY <2>2, <2>5 DEF Book!Record
    <3>2. QED
      BY <2>3, <2>5, <3>1 DEF Goto
  <2>6. QED
    BY <1>1, <1>8, <2>4, <2>5 DEF CheckoutPayment
<1>9. ASSUME NEW p \in Payments, BeginReject(w, p)
      PROVE  Goal
  <2>1. Sound([at |-> "reject", id |-> p])
    BY DEF Sound, Job
  <2>2. QED
    BY <1>9, <2>1 DEF BeginReject, Goto
<1>10. ASSUME NEW p \in Payments, NEW owner \in BOOLEAN, BeginCancel(w, p, owner)
       PROVE  Goal
  <2>1. Sound([at |-> "cancel", id |-> p, from |-> pay[p].status, owner |-> owner])
    BY <1>10 DEF BeginCancel, Sound, Job
  <2>2. QED
    BY <1>10, <2>1 DEF BeginCancel, Goto
<1>11. QED
  BY <1>1, <1>2, <1>3, <1>4, <1>5, <1>6, <1>7, <1>8, <1>9, <1>10
     DEF Serve, StartPayment, SubmitPayment, VerifyPayment, DismissPayment, ReplayStart,
       CommitStart, LoseStartRace, CommitSubmit, LinkSale, CommitReject, CommitCancel,
       Abandon

LEMMA TypeNext == TypeInv /\ [Next]_vars => TypeInv'
<1> SUFFICES ASSUME TypeInv, [Next]_vars PROVE TypeInv'
  OBVIOUS
<1>0. TypeOK /\ VerifiedJobs /\ pay \in [Payments -> Row] /\ job \in [Workers -> Job]
  BY DEF TypeInv, TypeOK
<1>1. pay' \in [Payments -> Row]
  <2>1. CASE Payments = {}
    BY <1>0, <2>1, PayStep
  <2>2. CASE Payments # {}
    BY <2>2, PaySettled
  <2>3. QED
    BY <2>1, <2>2
<1>2. /\ book' \in [ReqIds -> SUBSET Sales]
      /\ \A r \in ReqIds : book[r] \subseteq book'[r]
  BY BookGrows
<1>3. saleStatus' \in [Sales -> {"absent", "completed", "void"}]
  <2>1. saleStatus \in [Sales -> {"absent", "completed", "void"}]
    BY <1>0 DEF TypeOK
  <2>2. saleStatus' = saleStatus \/ \E s \in Sales, to \in {"completed", "void"} :
                                      saleStatus' = [saleStatus EXCEPT ![s] = to]
    BY DEF Next, Serve, StartPayment, SubmitPayment, VerifyPayment, DismissPayment,
       ReplayStart, BeginStart, CommitStart, LoseStartRace, BeginSubmit, CheckClash,
       CommitSubmit, BeginVerify, CommitVerify, Reread, CheckoutPayment, LinkSale,
       BeginReject, CommitReject, BeginCancel, CommitCancel, Abandon, VoidSale,
       DeleteCustomer, Book!Record, Book!VoidRecorded, vars, sales
  <2>3. QED
    BY <2>1, <2>2
<1>4. started' \in [ReqIds -> SUBSET Payments]
  <2>1. started \in [ReqIds -> SUBSET Payments]
    BY <1>0 DEF TypeOK
  <2>2. started' = started \/ \E r, p : /\ p \in Payments
                                        /\ started' = [started EXCEPT ![r] = @ \cup {p}]
    BY DEF Next, Serve, StartPayment, SubmitPayment, VerifyPayment, DismissPayment,
       ReplayStart, BeginStart, CommitStart, LoseStartRace, BeginSubmit, CheckClash,
       CommitSubmit, BeginVerify, CommitVerify, Reread, CheckoutPayment, LinkSale,
       BeginReject, CommitReject, BeginCancel, CommitCancel, Abandon, VoidSale,
       DeleteCustomer, ReturnNamed, Named, vars
  <2>3. QED
    BY <2>1, <2>2
<1>5. \/ job' = job
      \/ \E w \in Workers : \E step : Sound(step) /\ job' = [job EXCEPT ![w] = step]
  BY StepSound DEF Next, VoidSale, DeleteCustomer, vars
<1>6. ASSUME NEW w \in Workers
      PROVE  Sound(job[w])
  BY <1>0, <1>2, StartedUnder, JobShape DEF Sound, VerifiedJobs
<1>7. ASSUME NEW w \in Workers
      PROVE  Sound(job'[w])
  BY <1>0, <1>5, <1>6
<1>8. job' \in [Workers -> Job]
  BY <1>0, <1>5 DEF Sound
<1>9. VerifiedJobs'
  <2> SUFFICES ASSUME NEW w \in Workers
               PROVE  /\ job'[w].at \in {"checkout", "link"} =>
                           pay'[job'[w].id].status = "verified"
                      /\ job'[w].at = "link" =>
                           job'[w].sale \in book'[pay'[job'[w].id].req]
    BY DEF VerifiedJobs
  <2>1. CASE job'[w].at \in {"checkout", "link"}
    <3>1. job'[w].id \in Payments
      <4>1. job'[w] \in Job
        BY <1>7 DEF Sound
      <4>2. QED
        BY <2>1, <4>1 DEF Job, Idle
    <3>2. QED
      BY <1>7, <2>1, <3>1, PaySettled DEF Sound
  <2>2. QED
    BY <2>1
<1>10. gone' \subseteq Payments
  <2>1. gone \subseteq Payments
    BY <1>0 DEF TypeOK
  <2>2. gone' = gone \/ \E p \in Payments : gone' = gone \cup {p}
    BY DEF Next, Serve, StartPayment, SubmitPayment, VerifyPayment, DismissPayment,
       ReplayStart, BeginStart, CommitStart, LoseStartRace, BeginSubmit, CheckClash,
       CommitSubmit, BeginVerify, CommitVerify, Reread, CheckoutPayment, LinkSale,
       BeginReject, CommitReject, BeginCancel, CommitCancel, Abandon, VoidSale,
       DeleteCustomer, vars, sales
  <2>3. QED
    BY <2>1, <2>2
<1>11. QED
  BY <1>1, <1>2, <1>3, <1>4, <1>8, <1>9, <1>10 DEF TypeInv, TypeOK

LEMMA TypeInvariant == Spec => []TypeInv
<1>1. QED
  BY TypeInit, TypeNext, PTL DEF Spec

\* Rows are rows of the schema and requests are at a step of their code, whatever
\* the requests do concurrently.
THEOREM TypeCorrect == Spec => []TypeOK
<1>1. TypeInv => TypeOK
  BY DEF TypeInv
<1>2. QED
  BY <1>1, TypeInvariant, PTL

------------------------------------------------------------------------------
(* Request ids *)

\* Which payments a request id names after a step: those it named, unless it
\* named none and one is started under it.
LEMMA NamedStep ==
  ASSUME TypeInv, [Next]_vars, NEW r \in ReqIds
  PROVE  \/ Named(r)' = Named(r)
         \/ Named(r) = {} /\ \E p \in Payments : Named(r)' = {p}
<1>0. TypeOK /\ pay \in [Payments -> Row]
  BY DEF TypeInv, TypeOK
<1>1. ASSUME \A p \in Payments : pay[p].status = "absent" => pay'[p].status = "absent"
      PROVE  Named(r)' = Named(r)
  BY <1>1, PaySettled DEF Named
<1>2. ASSUME NEW p \in Payments, NEW q \in ReqIds, NEW m \in Providers, Starts(p, q, m)
      PROVE  \/ Named(r)' = Named(r)
             \/ Named(r) = {} /\ \E t \in Payments : Named(r)' = {t}
  <2> DEFINE row == [AbsentRow EXCEPT !.status = "pending", !.req = q, !.prov = m]
  <2>1. row \in Row /\ row.status = "pending" /\ row.req = q
    BY StartedRow
  <2>2. Changes(p, row) /\ pay[p].status = "absent" /\ Named(q) = {}
    BY <1>2 DEF Starts
  <2> HIDE DEF row
  <2>3. pay'[p] = row /\ \A t \in Payments \ {p} : pay'[t] = pay[t]
    BY <1>0, <2>1, <2>2, RowWritten
  <2>4. Named(r)' = IF q = r THEN {p} ELSE Named(r)
    BY <2>1, <2>2, <2>3 DEF Named
  <2>5. QED
    BY <2>2, <2>4
<1>3. CASE \A p \in Payments : ~ \E q \in ReqIds, m \in Providers : Starts(p, q, m)
  <2>1. ASSUME NEW p \in Payments, pay[p].status = "absent"
        PROVE  pay'[p].status = "absent"
    <3>1. CASE pay' = pay
      BY <2>1, <3>1
    <3>2. ASSUME NEW q \in Payments, NEW row, Changes(q, row), pay[q].status # "absent"
          PROVE  pay'[p].status = "absent"
      BY <1>0, <2>1, <3>2 DEF Changes
    <3>3. QED
      BY <1>3, <3>1, <3>2, PayStep DEF Declares, Decides, Links
  <2>2. QED
    BY <1>1, <2>1
<1>4. QED
  BY <1>2, <1>3

\* start only ever answers with a payment its request id names.
LEMMA StartedStep ==
  ASSUME TypeInv, [Next]_vars, NEW r \in ReqIds
  PROVE  started'[r] \subseteq started[r] \cup Named(r)'
<1>0. TypeOK /\ started \in [ReqIds -> SUBSET Payments] /\ pay \in [Payments -> Row]
  BY DEF TypeInv, TypeOK
<1>1. ASSUME NEW q \in ReqIds, ReturnNamed(q), pay' = pay
      PROVE  started'[r] \subseteq started[r] \cup Named(r)'
  <2>1. Named(r)' = Named(r)
    BY <1>1 DEF Named
  <2>2. QED
    BY <1>0, <1>1, <2>1 DEF ReturnNamed
<1>2. ASSUME NEW w \in Workers, CommitStart(w)
      PROVE  started'[r] \subseteq started[r] \cup Named(r)'
  <2> DEFINE q == job[w].req
             row == [AbsentRow EXCEPT !.status = "pending", !.req = q, !.prov = job[w].prov]
  <2>1. PICK p \in Payments :
          /\ Changes(p, row)
          /\ \/ started' = [started EXCEPT ![q] = @ \cup {p}]
             \/ UNCHANGED started
    BY <1>2 DEF CommitStart, Changes
  <2>2. row \in Row /\ row.status = "pending" /\ row.req = q
    <3>1. q \in ReqIds /\ job[w].prov \in Providers
      BY <1>0, <1>2, JobShape DEF CommitStart
    <3>2. QED
      BY <3>1, StartedRow
  <2> HIDE DEF row
  <2>3. pay'[p] = row
    BY <1>0, <2>1, <2>2, RowWritten
  <2>4. q = r => p \in Named(r)'
    BY <2>2, <2>3 DEF Named
  <2>5. QED
    BY <1>0, <2>1, <2>4
<1>3. CASE started' = started
  BY <1>3
<1>4. ASSUME NEW w \in Workers, LoseStartRace(w)
      PROVE  job[w].req \in ReqIds /\ ReturnNamed(job[w].req) /\ pay' = pay
  BY <1>0, <1>4, JobShape DEF LoseStartRace
<1>5. QED
  BY <1>1, <1>2, <1>3, <1>4
     DEF Next, Serve, StartPayment, SubmitPayment, VerifyPayment, DismissPayment,
       ReplayStart, BeginStart, BeginSubmit, CheckClash, CommitSubmit, BeginVerify,
       CommitVerify, Reread, CheckoutPayment, LinkSale, BeginReject, CommitReject,
       BeginCancel, CommitCancel, Abandon, VoidSale,
       DeleteCustomer, vars

LEMMA OnePaymentNext ==
  TypeInv /\ OnePaymentPerRequest /\ [Next]_vars => OnePaymentPerRequest'
<1> SUFFICES ASSUME TypeInv, OnePaymentPerRequest, [Next]_vars, NEW r \in ReqIds
             PROVE  /\ started'[r] \subseteq Named(r)'
                    /\ \A p, q \in Named(r)' : p = q
  BY DEF OnePaymentPerRequest
<1>1. started[r] \subseteq Named(r) /\ \A p, q \in Named(r) : p = q
  BY DEF OnePaymentPerRequest
<1>2. Named(r) \subseteq Named(r)' /\ \A p, q \in Named(r)' : p = q
  BY <1>1, NamedStep
<1>3. QED
  BY <1>1, <1>2, StartedStep

\* A request id starts one payment, and every answer to it is that payment: the
\* unique index stops the insert of whoever lost the race.
THEOREM OnePayment == Spec => []OnePaymentPerRequest
<1>1. Init => OnePaymentPerRequest
  BY DEF Init, OnePaymentPerRequest, Named, AbsentRow
<1>2. QED
  BY <1>1, OnePaymentNext, TypeInvariant, PTL DEF Spec

------------------------------------------------------------------------------
(* References *)

\* ReferenceProvesOnePayment is inductive: the only step that takes a reference
\* asks the index, and a decision only ever gives one back.
LEMMA ReferenceNext ==
  TypeInv /\ ReferenceProvesOnePayment /\ [Next]_vars => ReferenceProvesOnePayment'
<1> SUFFICES ASSUME TypeInv, ReferenceProvesOnePayment, [Next]_vars
             PROVE  ReferenceProvesOnePayment'
  OBVIOUS
<1>0. TypeOK /\ pay \in [Payments -> Row]
  BY DEF TypeInv, TypeOK
<1>1. CASE pay' = pay
  BY <1>1 DEF ReferenceProvesOnePayment, Holds
<1>2. ASSUME NEW p \in Payments, NEW row, pay'[p] = row,
             \A q \in Payments \ {p} : pay'[q] = pay[q],
             row.status \in {"submitted", "verified"} =>
               \/ Holds(p) /\ row.prov = pay[p].prov /\ row.ref = pay[p].ref
               \/ row.prov = pay[p].prov /\ ReferenceFree(p, row.ref)
      PROVE  ReferenceProvesOnePayment'
  BY <1>2 DEF ReferenceProvesOnePayment, Holds, ReferenceFree, SameTransaction
<1>3. ASSUME NEW p \in Payments, NEW r \in ReqIds, NEW m \in Providers, Starts(p, r, m)
      PROVE  ReferenceProvesOnePayment'
  <2> DEFINE row == [AbsentRow EXCEPT !.status = "pending", !.req = r, !.prov = m]
  <2>1. row \in Row /\ row.status = "pending" /\ Changes(p, row)
    BY <1>3, StartedRow DEF Starts
  <2> HIDE DEF row
  <2>2. pay'[p] = row /\ \A q \in Payments \ {p} : pay'[q] = pay[q]
    BY <1>0, <2>1, RowWritten
  <2>3. QED
    BY <1>2, <2>1, <2>2
<1>4. ASSUME NEW p \in Payments, NEW ref \in Refs, Declares(p, ref)
      PROVE  ReferenceProvesOnePayment'
  <2> DEFINE new == [pay[p] EXCEPT !.status = "submitted", !.ref = ref]
  <2>1. /\ pay[p] \in Row /\ pay[p].status \in {"pending", "rejected"}
        /\ Changes(p, new) /\ ReferenceFree(p, ref)
    BY <1>0, <1>4 DEF Declares
  <2>2. new \in Row /\ new.ref = ref /\ new.prov = pay[p].prov
    BY <2>1, DeclaredRow
  <2> HIDE DEF new
  <2>3. pay'[p] = new /\ \A q \in Payments \ {p} : pay'[q] = pay[q]
    BY <1>0, <2>1, <2>2, RowWritten
  <2>4. QED
    BY <1>2, <2>1, <2>2, <2>3
<1>5. ASSUME NEW p \in Payments, NEW to \in PaymentStatus, Decides(p, to)
      PROVE  ReferenceProvesOnePayment'
  <2> DEFINE new == [pay[p] EXCEPT !.status = to]
  <2>1. /\ pay[p] \in Row /\ Changes(p, new)
        /\ \/ pay[p].status = "submitted" /\ to \in {"verified", "rejected", "cancelled"}
           \/ pay[p].status = "pending" /\ to = "cancelled"
    BY <1>0, <1>5 DEF Decides
  <2>2. /\ new \in Row /\ new.status = to
        /\ new.ref = pay[p].ref /\ new.prov = pay[p].prov
    BY <2>1, DecidedRow
  <2> HIDE DEF new
  <2>3. pay'[p] = new /\ \A q \in Payments \ {p} : pay'[q] = pay[q]
    BY <1>0, <2>1, <2>2, RowWritten
  <2>4. new.status \in {"submitted", "verified"} => Holds(p)
    BY <2>1, <2>2 DEF Holds
  <2>5. QED
    BY <1>2, <2>2, <2>3, <2>4
<1>6. ASSUME NEW p \in Payments, NEW s \in Sales, Links(p, s)
      PROVE  ReferenceProvesOnePayment'
  <2> DEFINE new == [pay[p] EXCEPT !.sale = s]
  <2>1. pay[p] \in Row /\ Changes(p, new) /\ Holds(p)
    BY <1>0, <1>6 DEF Links, Holds
  <2>2. new \in Row /\ new.ref = pay[p].ref /\ new.prov = pay[p].prov
    BY <2>1, LinkedRow
  <2> HIDE DEF new
  <2>3. pay'[p] = new /\ \A q \in Payments \ {p} : pay'[q] = pay[q]
    BY <1>0, <2>1, <2>2, RowWritten
  <2>4. QED
    BY <1>2, <2>1, <2>2, <2>3
<1>7. QED
  BY <1>1, <1>3, <1>4, <1>5, <1>6, PayStep

\* One transaction of an operator pays one basket, whatever is declared when.
THEOREM OneUseOfReference == Spec => []ReferenceProvesOnePayment
<1>1. Init => ReferenceProvesOnePayment
  BY DEF Init, ReferenceProvesOnePayment, Holds, AbsentRow
<1>2. QED
  BY <1>1, ReferenceNext, TypeInvariant, PTL DEF Spec

\* An accepted declaration stays what the owner accepted.
THEOREM DeclarationKept == Spec => VerifiedDeclarationKept
<1>1. TypeInv /\ [Next]_vars =>
        [\A p \in Payments :
           pay[p].status = "verified" =>
             pay'[p].ref = pay[p].ref /\ pay'[p].prov = pay[p].prov]_vars
  BY PaySettled
<1>2. QED
  BY <1>1, TypeInvariant, PTL DEF Spec, VerifiedDeclarationKept

------------------------------------------------------------------------------
(* Who cancels *)

\* A cancellation that saw the declaration is the owner's.
Owned(step) == step.at = "cancel" /\ step.from = "submitted" => step.owner
CancelInv == \A w \in Workers : Owned(job[w])

LEMMA CancelStep ==
  ASSUME TypeInv, NEW w \in Workers, Serve(w) \/ Abandon(w)
  PROVE  job' = job \/ \E step : Owned(step) /\ job' = [job EXCEPT ![w] = step]
<1> DEFINE Goal == job' = job \/ \E step : Owned(step) /\ job' = [job EXCEPT ![w] = step]
<1>1. ASSUME NEW step, Goto(w, step), step.at # "cancel"
      PROVE  Goal
  BY <1>1 DEF Goto, Owned
<1>2. Idle.at # "cancel"
  BY DEF Idle
<1>3. ASSUME NEW p \in Payments, NEW owner \in BOOLEAN, BeginCancel(w, p, owner)
      PROVE  Goal
  <2> DEFINE step == [at |-> "cancel", id |-> p, from |-> pay[p].status, owner |-> owner]
  <2>1. pay[p].status = "submitted" => owner
    BY <1>3 DEF BeginCancel
  <2>2. Owned(step)
    BY <2>1, Zenon DEF Owned
  <2>3. job' = [job EXCEPT ![w] = step]
    BY <1>3 DEF BeginCancel, Goto
  <2>4. QED
    BY <2>2, <2>3
<1>4. CASE StartPayment(w) \/ Abandon(w)
  BY <1>1, <1>2, <1>4
     DEF StartPayment, ReplayStart, BeginStart, CommitStart, LoseStartRace, Abandon
<1>5. CASE SubmitPayment(w)
  <2>1. CASE CheckClash(w)
    <3>1. job[w] \in [at: {"clash"}, id: Payments, ref: Refs, from: {"pending", "rejected"}]
      <4>1. job[w] \in Job /\ job[w].at = "clash"
        BY <2>1, JobShape DEF TypeInv, CheckClash
      <4>2. QED
        BY <4>1 DEF Job, Idle
    <3>2. [job[w] EXCEPT !.at = "declare"].at # "cancel"
      BY <3>1
    <3>3. QED
      BY <1>1, <1>2, <2>1, <3>2 DEF CheckClash
  <2>2. QED
    BY <1>1, <1>2, <1>5, <2>1 DEF SubmitPayment, BeginSubmit, CommitSubmit
<1>6. CASE VerifyPayment(w)
  BY <1>1, <1>2, <1>6
     DEF VerifyPayment, BeginVerify, CommitVerify, Reread, CheckoutPayment, LinkSale
<1>7. CASE DismissPayment(w)
  BY <1>1, <1>2, <1>3, <1>7 DEF DismissPayment, BeginReject, CommitReject, CommitCancel
<1>8. QED
  BY <1>4, <1>5, <1>6, <1>7 DEF Serve

LEMMA CancelInvariant == Spec => [](TypeInv /\ CancelInv)
<1>1. Init => CancelInv
  BY DEF Init, CancelInv, Owned, Idle
<1>2. TypeInv /\ CancelInv /\ [Next]_vars => CancelInv'
  <2> SUFFICES ASSUME TypeInv, CancelInv, [Next]_vars PROVE CancelInv'
    OBVIOUS
  <2>1. \/ job' = job
        \/ \E w \in Workers : \E step : Owned(step) /\ job' = [job EXCEPT ![w] = step]
    BY CancelStep DEF Next, VoidSale, DeleteCustomer, vars
  <2>2. job \in [Workers -> Job]
    BY DEF TypeInv, TypeOK
  <2>3. CASE job' = job
    BY <2>3 DEF CancelInv, Owned
  <2>4. ASSUME NEW w \in Workers, NEW step, Owned(step), job' = [job EXCEPT ![w] = step]
        PROVE  CancelInv'
    <3> SUFFICES ASSUME NEW v \in Workers
                 PROVE  Owned(job'[v])
      BY DEF CancelInv, Owned
    <3>1. job'[v] = step \/ job'[v] = job[v]
      BY <2>2, <2>4
    <3>2. QED
      BY <2>4, <3>1 DEF CancelInv
  <2>5. QED
    BY <2>1, <2>3, <2>4
<1>3. QED
  BY <1>1, <1>2, TypeInvariant, PTL DEF Spec

LEMMA CancelledByOwner ==
  ASSUME TypeInv, CancelInv, [Next]_vars, NEW p \in Payments,
         pay[p].status = "submitted", pay'[p].status = "cancelled"
  PROVE  \E w \in Workers : /\ job[w].at = "cancel" /\ job[w].id = p
                            /\ job[w].owner
                            /\ job'[w] = Idle
<1>0. TypeOK /\ pay \in [Payments -> Row] /\ job \in [Workers -> Job]
  BY DEF TypeInv, TypeOK
<1>1. ASSUME NEW q \in Payments, NEW row \in Row, Changes(q, row), row.status # "cancelled"
      PROVE  FALSE
  BY <1>0, <1>1, RowWritten
<1>2. ASSUME NEW q \in Payments, NEW r \in ReqIds, NEW m \in Providers, Starts(q, r, m)
      PROVE  FALSE
  <2> DEFINE row == [AbsentRow EXCEPT !.status = "pending", !.req = r, !.prov = m]
  <2>1. row \in Row /\ row.status = "pending" /\ Changes(q, row)
    BY <1>2, StartedRow DEF Starts
  <2> HIDE DEF row
  <2>2. QED
    BY <1>1, <2>1
<1>3. ASSUME NEW q \in Payments, NEW ref \in Refs, Declares(q, ref)
      PROVE  FALSE
  <2> DEFINE new == [pay[q] EXCEPT !.status = "submitted", !.ref = ref]
  <2>1. pay[q] \in Row /\ pay[q].status \in {"pending", "rejected"} /\ Changes(q, new)
    BY <1>0, <1>3 DEF Declares
  <2>2. new \in Row /\ new.status = "submitted"
    BY <2>1, DeclaredRow
  <2> HIDE DEF new
  <2>3. QED
    BY <1>1, <2>1, <2>2
<1>4. ASSUME NEW q \in Payments, NEW to \in {"verified", "rejected"}, Decides(q, to)
      PROVE  FALSE
  <2> DEFINE new == [pay[q] EXCEPT !.status = to]
  <2>1. pay[q] \in Row /\ pay[q].status = "submitted" /\ Changes(q, new)
    BY <1>0, <1>4 DEF Decides
  <2>2. new \in Row /\ new.status = to
    BY <2>1, DecidedRow
  <2> HIDE DEF new
  <2>3. QED
    BY <1>1, <2>1, <2>2
<1>5. ASSUME NEW q \in Payments, NEW s \in Sales, Links(q, s)
      PROVE  FALSE
  <2> DEFINE new == [pay[q] EXCEPT !.sale = s]
  <2>1. pay[q] \in Row /\ pay[q].status = "verified" /\ Changes(q, new)
    BY <1>0, <1>5 DEF Links
  <2>2. new \in Row /\ new.status = "verified"
    BY <2>1, LinkedRow
  <2> HIDE DEF new
  <2>3. QED
    BY <1>1, <2>1, <2>2
<1>6. ASSUME NEW w \in Workers
      PROVE  ~(\/ CommitStart(w) \/ CommitSubmit(w) \/ CommitVerify(w) \/ CommitReject(w)
               \/ LinkSale(w))
  <2>1. ~CommitStart(w)
    <3> SUFFICES ASSUME CommitStart(w) PROVE FALSE
      OBVIOUS
    <3>1. job[w].req \in ReqIds /\ job[w].prov \in Providers
      BY <1>0, JobShape DEF CommitStart
    <3>2. PICK q \in Payments : Starts(q, job[w].req, job[w].prov)
      BY DEF CommitStart, RequestTaken, Starts, Changes
    <3>3. QED
      BY <1>2, <3>1, <3>2
  <2>2. ~CommitSubmit(w)
    <3> SUFFICES ASSUME CommitSubmit(w) PROVE FALSE
      OBVIOUS
    <3>1. /\ job[w].id \in Payments /\ job[w].ref \in Refs
          /\ job[w].from \in {"pending", "rejected"}
      BY <1>0, JobShape DEF CommitSubmit
    <3>2. Declares(job[w].id, job[w].ref)
      BY <3>1 DEF CommitSubmit, Unmoved, DeclaredReference, Declares, Changes
    <3>3. QED
      BY <1>3, <3>1, <3>2
  <2>3. ~CommitVerify(w)
    <3> SUFFICES ASSUME CommitVerify(w) PROVE FALSE
      OBVIOUS
    <3>1. job[w].id \in Payments
      BY <1>0, JobShape DEF CommitVerify
    <3>2. Decides(job[w].id, "verified")
      BY DEF CommitVerify, Unmoved, Decides, Changes
    <3>3. QED
      BY <1>4, <3>1, <3>2
  <2>4. ~CommitReject(w)
    <3> SUFFICES ASSUME CommitReject(w) PROVE FALSE
      OBVIOUS
    <3>1. job[w].id \in Payments
      BY <1>0, JobShape DEF CommitReject
    <3>2. Decides(job[w].id, "rejected")
      BY DEF CommitReject, Unmoved, Decides, Changes
    <3>3. QED
      BY <1>4, <3>1, <3>2
  <2>5. ~LinkSale(w)
    <3> SUFFICES ASSUME LinkSale(w) PROVE FALSE
      OBVIOUS
    <3>1. job[w].id \in Payments /\ job[w].sale \in Sales
      BY <1>0, JobShape DEF LinkSale
    <3>2. Links(job[w].id, job[w].sale)
      BY DEF LinkSale, TypeInv, VerifiedJobs, Links, Changes
    <3>3. QED
      BY <1>5, <3>1, <3>2
  <2>6. QED
    BY <2>1, <2>2, <2>3, <2>4, <2>5
<1>7. PICK w \in Workers : CommitCancel(w)
  BY <1>6
     DEF Next, Serve, StartPayment, SubmitPayment, VerifyPayment, DismissPayment,
       ReplayStart, BeginStart, LoseStartRace, BeginSubmit, CheckClash, BeginVerify,
       Reread, CheckoutPayment, BeginReject, BeginCancel, Abandon, VoidSale,
       DeleteCustomer, vars
<1>8. job[w].id = p /\ job[w].from = "submitted" /\ job[w].at = "cancel"
  <2>1. job[w].id \in Payments /\ job[w].from \in {"pending", "submitted"} /\ job[w].at = "cancel"
    BY <1>0, <1>7, JobShape DEF CommitCancel
  <2>2. Decides(job[w].id, "cancelled") /\ pay[job[w].id].status = job[w].from
    BY <1>7, <2>1 DEF CommitCancel, Unmoved, Decides, Changes
  <2>3. ASSUME NEW q \in Payments, Decides(q, "cancelled")
        PROVE  q = p
    <3> DEFINE new == [pay[q] EXCEPT !.status = "cancelled"]
    <3>1. /\ pay[q] \in Row /\ Changes(q, new)
          /\ pay[q].status = "submitted" \/ pay[q].status = "pending"
      BY <1>0, <2>3 DEF Decides
    <3>2. new \in Row
      BY <3>1, DecidedRow
    <3> HIDE DEF new
    <3>3. QED
      BY <1>0, <3>1, <3>2, RowWritten
  <2>4. QED
    BY <2>1, <2>2, <2>3
<1>9. job'[w] = Idle
  BY <1>0, <1>7 DEF CommitCancel, Goto
<1>10. job[w].owner
  BY <1>8 DEF CancelInv, Owned
<1>11. QED
  BY <1>8, <1>9, <1>10

\* Without the owner's permission nobody cancels a payment that was declared, however
\* late his request writes.
THEOREM OwnerCancels == Spec => DeclaredCancelledByOwner
<1>1. TypeInv /\ CancelInv /\ [Next]_vars =>
        [\A p \in Payments :
           pay[p].status = "submitted" /\ pay'[p].status = "cancelled" =>
             \E w \in Workers : /\ job[w].at = "cancel" /\ job[w].id = p
                                /\ job[w].owner
                                /\ job'[w] = Idle]_vars
  BY CancelledByOwner
<1>2. QED
  BY <1>1, CancelInvariant, PTL DEF Spec, DeclaredCancelledByOwner

------------------------------------------------------------------------------
(* Sales *)

\* The book names one sale at most under a payment's request id, only once the
\* payment is verified, and it is the one the payment is linked to.
SoldInv ==
  /\ \A r \in ReqIds :
       /\ book[r] # {} => \E p \in Named(r) : pay[p].status = "verified"
       /\ \A s, t \in book[r] : s = t
  /\ \A p \in Payments : pay[p].sale # None =>
       pay[p].status = "verified" /\ pay[p].sale \in book[pay[p].req]

LEMMA SoldNext ==
  TypeInv /\ SoldInv /\ [Next]_vars => SoldInv'
<1> SUFFICES ASSUME TypeInv, SoldInv, [Next]_vars PROVE SoldInv'
  OBVIOUS
<1>0. /\ TypeOK /\ pay \in [Payments -> Row]
      /\ book \in [ReqIds -> SUBSET Sales]
  BY DEF TypeInv, TypeOK
<1>1. ASSUME NEW r \in ReqIds
      PROVE  /\ book'[r] # {} => \E p \in Named(r)' : pay'[p].status = "verified"
             /\ \A s, t \in book'[r] : s = t
  <2>1. \A p \in Named(r) : p \in Named(r)' /\ (pay[p].status = "verified" =>
                                                  pay'[p].status = "verified")
    BY PaySettled DEF Named
  <2>2. CASE book' = book
    BY <2>1, <2>2 DEF SoldInv
  <2>3. ASSUME NEW p \in Payments, NEW s \in Sales, Sells(p, s)
        PROVE  /\ book'[r] # {} => \E q \in Named(r)' : pay'[q].status = "verified"
               /\ \A t, u \in book'[r] : t = u
    <3>1. pay[p].status = "verified" /\ pay[p].req \in ReqIds
      BY <1>0, <2>3, StartedUnder DEF Sells
    <3>2. p \in Named(pay[p].req)
      BY <3>1 DEF Named
    <3>3. book'[r] = IF r = pay[p].req THEN {s} ELSE book[r]
      BY <1>0, <2>3, <3>1 DEF Sells
    <3>4. QED
      BY <2>1, <3>1, <3>2, <3>3 DEF SoldInv
  <2>4. QED
    BY <2>2, <2>3, BookStep
<1>2. ASSUME NEW p \in Payments, pay'[p].sale # None
      PROVE  pay'[p].status = "verified" /\ pay'[p].sale \in book'[pay'[p].req]
  <2>1. CASE pay[p].sale = pay'[p].sale
    <3>1. /\ pay[p].status = "verified" /\ pay[p].sale \in book[pay[p].req]
          /\ pay[p].req \in ReqIds
      BY <1>0, <1>2, <2>1, StartedUnder DEF SoldInv
    <3>2. QED
      BY <2>1, <3>1, PaySettled, BookGrows
  <2>2. CASE pay[p].sale # pay'[p].sale
    <3>1. PICK s \in Sales : Links(p, s)
      <4>1. ASSUME NEW q \in Payments, NEW r \in ReqIds, NEW m \in Providers, Starts(q, r, m)
            PROVE  pay'[p].sale = pay[p].sale \/ pay'[p].sale = None
        <5> DEFINE row == [AbsentRow EXCEPT !.status = "pending", !.req = r, !.prov = m]
        <5>1. row \in Row /\ row.sale = None /\ Changes(q, row)
          BY <4>1, StartedRow DEF Starts
        <5> HIDE DEF row
        <5>2. QED
          BY <1>0, <5>1, RowWritten
      <4>2. ASSUME NEW q \in Payments, NEW ref \in Refs, Declares(q, ref)
            PROVE  pay'[p].sale = pay[p].sale
        <5> DEFINE new == [pay[q] EXCEPT !.status = "submitted", !.ref = ref]
        <5>1. new \in Row /\ new.sale = pay[q].sale /\ Changes(q, new)
          BY <1>0, <4>2, DeclaredRow DEF Declares
        <5> HIDE DEF new
        <5>2. QED
          BY <1>0, <5>1, RowWritten
      <4>3. ASSUME NEW q \in Payments, NEW to \in PaymentStatus, Decides(q, to)
            PROVE  pay'[p].sale = pay[p].sale
        <5> DEFINE new == [pay[q] EXCEPT !.status = to]
        <5>1. new \in Row /\ new.sale = pay[q].sale /\ Changes(q, new)
          BY <1>0, <4>3, DecidedRow DEF Decides
        <5> HIDE DEF new
        <5>2. QED
          BY <1>0, <5>1, RowWritten
      <4>4. ASSUME NEW q \in Payments, NEW s \in Sales, Links(q, s), q # p
            PROVE  pay'[p].sale = pay[p].sale
        BY <1>0, <4>4 DEF Links, Changes
      <4>5. QED
        BY <1>2, <2>2, <4>1, <4>2, <4>3, <4>4, PayStep
    <3>2. /\ pay[p] \in Row /\ pay[p].status = "verified" /\ s \in book[pay[p].req]
          /\ pay[p].req \in ReqIds
      BY <1>0, <3>1, StartedUnder DEF Links
    <3>3. pay'[p].sale = s
      <4> DEFINE new == [pay[p] EXCEPT !.sale = s]
      <4>1. new \in Row /\ new.sale = s /\ Changes(p, new)
        BY <3>1, <3>2, LinkedRow DEF Links
      <4> HIDE DEF new
      <4>2. QED
        BY <1>0, <4>1, RowWritten
    <3>4. QED
      BY <3>2, <3>3, PaySettled, BookGrows
  <2>3. QED
    BY <2>1, <2>2
<1>3. QED
  BY <1>1, <1>2 DEF SoldInv

LEMMA SoldInvariant == Spec => [](SoldInv /\ OnePaymentPerRequest)
<1>1. Init => SoldInv
  BY DEF Init, SoldInv, AbsentRow, Book!Init
<1>2. QED
  BY <1>1, SoldNext, OnePayment, TypeInvariant, PTL DEF Spec

\* Nothing is sold before the owner verifies, and a verified payment is linked
\* to its own sale: the status is read again after the update, and the request
\* id of a payment names no other payment.
THEOREM SoldVerified == Spec => []SoldOnlyIfVerified
<1>1. TypeInv /\ SoldInv /\ OnePaymentPerRequest => SoldOnlyIfVerified
  <2> SUFFICES ASSUME TypeInv, SoldInv, OnePaymentPerRequest, NEW p \in Payments,
                      pay[p].req # None
               PROVE  /\ book[pay[p].req] # {} => pay[p].status = "verified"
                      /\ \A s, t \in book[pay[p].req] : s = t
    BY DEF SoldInv, SoldOnlyIfVerified
  <2>1. pay[p].req \in ReqIds /\ p \in Named(pay[p].req)
    BY DEF TypeInv, TypeOK, Row, Fields, Named
  <2>2. QED
    BY <2>1 DEF SoldInv, OnePaymentPerRequest
<1>2. QED
  BY <1>1, SoldInvariant, TypeInvariant, PTL

------------------------------------------------------------------------------
(* The payments implement their lifecycle *)

LifeOf == [p \in Payments |-> pay[p].status]

SoldOf == {p \in Payments : pay[p].req # None /\ book[pay[p].req] # {}}

\* Writing one row, without selling: what shows in the lifecycle.
LEMMA LifeAfter ==
  ASSUME TypeInv, [Next]_vars, SoldInv, NEW p \in Payments, NEW row \in Row,
         Changes(p, row), book' = book,
         pay[p].status = "absent" => Named(row.req) = {}
  PROVE  /\ LifeOf' = [LifeOf EXCEPT ![p] = row.status]
         /\ SoldOf' = SoldOf
<1>0. TypeOK /\ pay \in [Payments -> Row]
  BY DEF TypeInv, TypeOK
<1>1. pay'[p] = row /\ \A q \in Payments \ {p} : pay'[q] = pay[q]
  BY <1>0, RowWritten
<1>2. LifeOf' = [LifeOf EXCEPT ![p] = row.status]
  BY <1>1 DEF LifeOf
<1>3. CASE pay[p].status # "absent"
  <2>1. row.req = pay[p].req
    BY <1>1, <1>3, PaySettled
  <2>2. SoldOf' = SoldOf
    BY <1>1, <2>1 DEF SoldOf
  <2>3. QED
    BY <1>2, <2>2
<1>4. CASE pay[p].status = "absent"
  <2>1. pay[p].req = None
    BY <1>0, <1>4 DEF Row
  <2>2. row.req # None => row.req \in ReqIds
    BY DEF Row, Fields
  <2>3. row.req # None => book[row.req] = {}
    BY <1>4, <2>2 DEF SoldInv
  <2>4. SoldOf' = SoldOf
    BY <1>1, <2>1, <2>3 DEF SoldOf
  <2>5. QED
    BY <1>2, <2>4
<1>5. QED
  BY <1>3, <1>4

LEMMA LifeStep ==
  ASSUME TypeInv, SoldInv, OnePaymentPerRequest, [Next]_vars
  PROVE  [Life!Next]_(Life!lifeVars)
<1>0. TypeOK /\ pay \in [Payments -> Row]
  BY DEF TypeInv, TypeOK
<1> DEFINE Goal == Life!Next \/ (LifeOf' = LifeOf /\ SoldOf' = SoldOf)
<1>1. ASSUME book' = book, NEW p \in Payments, NEW r \in ReqIds, NEW m \in Providers,
             Starts(p, r, m)
      PROVE  Goal
  <2> DEFINE row == [AbsentRow EXCEPT !.status = "pending", !.req = r, !.prov = m]
  <2>1. row \in Row /\ row.status = "pending" /\ row.req = r
    BY StartedRow
  <2>2. Changes(p, row) /\ pay[p].status = "absent" /\ Named(r) = {}
    BY <1>1 DEF Starts
  <2> HIDE DEF row
  <2>3. LifeOf' = [LifeOf EXCEPT ![p] = "pending"] /\ SoldOf' = SoldOf
    BY <1>1, <2>1, <2>2, LifeAfter
  <2>4. Life!Move(p, {"absent"}, "pending")
    BY <2>2, <2>3 DEF Life!Move, LifeOf, SoldOf
  <2>5. QED
    BY <2>4 DEF Life!Next, Life!Start
<1>2. ASSUME book' = book, NEW p \in Payments, NEW ref \in Refs, Declares(p, ref)
      PROVE  Goal
  <2> DEFINE new == [pay[p] EXCEPT !.status = "submitted", !.ref = ref]
  <2>1. pay[p] \in Row /\ pay[p].status \in {"pending", "rejected"} /\ Changes(p, new)
    BY <1>0, <1>2 DEF Declares
  <2>2. new \in Row /\ new.status = "submitted"
    BY <2>1, DeclaredRow
  <2> HIDE DEF new
  <2>3. LifeOf' = [LifeOf EXCEPT ![p] = "submitted"] /\ SoldOf' = SoldOf
    BY <1>2, <2>1, <2>2, LifeAfter
  <2>4. Life!Move(p, {"pending", "rejected"}, "submitted")
    BY <2>1, <2>3 DEF Life!Move, LifeOf, SoldOf
  <2>5. QED
    BY <2>4 DEF Life!Next, Life!Declare
<1>3. ASSUME book' = book, NEW p \in Payments, NEW to \in PaymentStatus, Decides(p, to)
      PROVE  Goal
  <2> DEFINE new == [pay[p] EXCEPT !.status = to]
  <2>1. /\ pay[p] \in Row /\ Changes(p, new)
        /\ \/ pay[p].status = "submitted" /\ to \in {"verified", "rejected", "cancelled"}
           \/ pay[p].status = "pending" /\ to = "cancelled"
    BY <1>0, <1>3 DEF Decides
  <2>2. new \in Row /\ new.status = to
    BY <2>1, DecidedRow
  <2> HIDE DEF new
  <2>3. LifeOf' = [LifeOf EXCEPT ![p] = to] /\ SoldOf' = SoldOf
    BY <1>3, <2>1, <2>2, LifeAfter
  <2>4. \/ to = "verified" /\ Life!Move(p, {"submitted"}, "verified")
        \/ to = "rejected" /\ Life!Move(p, {"submitted"}, "rejected")
        \/ to = "cancelled" /\ Life!Move(p, {"pending", "submitted"}, "cancelled")
    BY <2>1, <2>3 DEF Life!Move, LifeOf, SoldOf
  <2>5. QED
    BY <2>4 DEF Life!Next, Life!Verify, Life!Reject, Life!Cancel
<1>4. ASSUME book' = book, NEW p \in Payments, NEW s \in Sales, Links(p, s)
      PROVE  Goal
  <2> DEFINE new == [pay[p] EXCEPT !.sale = s]
  <2>1. pay[p] \in Row /\ pay[p].status = "verified" /\ Changes(p, new)
    BY <1>0, <1>4 DEF Links
  <2>2. new \in Row /\ new.status = pay[p].status
    BY <2>1, LinkedRow
  <2> HIDE DEF new
  <2>3. LifeOf' = [LifeOf EXCEPT ![p] = pay[p].status] /\ SoldOf' = SoldOf
    BY <1>4, <2>1, <2>2, LifeAfter
  <2>4. LifeOf' = LifeOf
    BY <2>3 DEF LifeOf
  <2>5. QED
    BY <2>3, <2>4
<1>5. ASSUME pay' = pay, book' = book
      PROVE  Goal
  BY <1>5 DEF LifeOf, SoldOf
<1>6. ASSUME NEW p \in Payments, NEW s \in Sales, Sells(p, s)
      PROVE  Goal
  <2>1. /\ pay[p].status = "verified" /\ book[pay[p].req] = {} /\ pay' = pay
        /\ book' = [book EXCEPT ![pay[p].req] = {s}]
    BY <1>6 DEF Sells
  <2>2. pay[p].req \in ReqIds /\ p \in Named(pay[p].req) /\ pay[p].req # None
    BY <1>0, <2>1, StartedUnder, NoneAssumption DEF Named
  <2>3. \A q \in Payments : pay[q].req = pay[p].req => q = p
    <3>1. ASSUME NEW q \in Payments, pay[q].req = pay[p].req
          PROVE  q = p
      <4>1. pay[q].status # "absent"
        BY <1>0, <2>2, <3>1 DEF Row
      <4>2. q \in Named(pay[p].req)
        BY <3>1, <4>1 DEF Named
      <4>3. QED
        BY <2>2, <4>2 DEF OnePaymentPerRequest
    <3>2. QED
      BY <3>1
  <2>4. book \in [ReqIds -> SUBSET Sales]
    BY <1>0 DEF TypeOK
  <2>5. \A q \in Payments : pay[q].req # None => pay[q].req \in ReqIds
    BY <1>0 DEF Row, Fields
  <2>6. \A q \in Payments : pay[q].req # None =>
          book'[pay[q].req] = IF q = p THEN {s} ELSE book[pay[q].req]
    BY <2>1, <2>2, <2>3, <2>4, <2>5
  <2>7. SoldOf' = SoldOf \cup {p} /\ p \notin SoldOf
    BY <2>1, <2>2, <2>6 DEF SoldOf
  <2>8. LifeOf' = LifeOf /\ LifeOf[p] = "verified"
    BY <2>1 DEF LifeOf
  <2>9. Life!Sell(p)
    BY <2>7, <2>8 DEF Life!Sell, LifeOf, SoldOf
  <2>10. QED
    BY <2>9 DEF Life!Next
<1>7. Goal
  <2>1. CASE book' = book
    BY <1>1, <1>2, <1>3, <1>4, <1>5, <2>1, PayStep
  <2>2. CASE book' # book
    BY <1>6, <2>2, BookStep
  <2>3. QED
    BY <2>1, <2>2
<1>8. QED
  BY <1>7 DEF LifeOf, SoldOf, Life!lifeVars

\* The payments follow the lifecycle: every COMMIT of a start, a declaration, a
\* decision or a sale is one move of it, and everything else stutters.
THEOREM PaymentsImplementLifecycle == Spec => ImplementsLifecycle
<1>1. Init => Life!Init
  <2> SUFFICES ASSUME Init PROVE Life!Init
    OBVIOUS
  <2>1. LifeOf = [p \in Payments |-> "absent"] /\ SoldOf = {}
    BY DEF Init, LifeOf, SoldOf, AbsentRow
  <2>2. QED
    BY <2>1 DEF Life!Init, LifeOf, SoldOf
<1>2. TypeInv /\ SoldInv /\ OnePaymentPerRequest /\ [Next]_vars =>
        [Life!Next]_(Life!lifeVars)
  BY LifeStep
<1>3. QED
  BY <1>1, <1>2, SoldInvariant, TypeInvariant, PTL
     DEF Spec, ImplementsLifecycle, Life!Spec

=============================================================================
