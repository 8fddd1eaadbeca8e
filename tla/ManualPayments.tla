--------------------------- MODULE ManualPayments ---------------------------
(***************************************************************************)
(* The payments made outside any gateway, as PaymentsService keeps them:   *)
(* started by the seller, declared by the payer, decided by the owner, and *)
(* sold once verified.                                                     *)
(*                                                                         *)
(* Every request reads the payment in one transaction and writes it in     *)
(* another: a step of a worker is one transaction, and what it read is     *)
(* carried to the next step.  Sales are those of SaleBook, which           *)
(* SalesLedger implements: a basket is sold under the request id of its    *)
(* payment.                                                                *)
(***************************************************************************)

CONSTANTS
  Workers,      \* requests the API may be serving at the same time
  Payments,     \* identifiers of manual_payments rows
  ReqIds,       \* clientRequestId values; the POS draws its own, others
  Providers,    \* method_provider values
  Refs,         \* reference_key values: references less case and separators
  Sales,        \* identifiers of sale rows
  None          \* NULL, and no value of any of the above

ASSUME NoneAssumption ==
  None \notin Payments \cup ReqIds \cup Providers \cup Refs \cup Sales

VARIABLES
  pay,          \* manual_payments
  job,          \* what each worker is in the middle of
  started,      \* [ReqIds -> SUBSET Payments]: the payments start returned
  book,         \* the sales each request id names
  saleStatus,
  gone          \* payments whose frozen customer has been deleted

vars == <<pay, job, started, book, saleStatus, gone>>
sales == <<book, saleStatus, gone>>

Book == INSTANCE SaleBook WITH status <- saleStatus

------------------------------------------------------------------------------
PaymentStatus ==
  {"absent", "pending", "submitted", "verified", "rejected", "cancelled"}

Fields == [status: PaymentStatus, req: ReqIds \cup {None},
           prov: Providers \cup {None}, ref: Refs \cup {None},
           sale: Sales \cup {None}]

\* A payment that was declared has a reference.
Row == {row \in Fields :
          /\ row.status = "absent" <=> row.req = None
          /\ row.status \in {"submitted", "verified", "rejected"} =>
               row.ref # None}

AbsentRow == [status |-> "absent", req |-> None, prov |-> None, ref |-> None,
              sale |-> None]

Idle == [at |-> "idle"]

\* The steps are named for the transaction they are about to run.
Job ==
  {Idle}
    \cup [at: {"insert"}, req: ReqIds, prov: Providers]
    \cup [at: {"clash", "declare"}, id: Payments, ref: Refs,
          from: {"pending", "rejected"}]
    \cup [at: {"verify", "reread", "reject", "checkout"}, id: Payments]
    \cup [at: {"link"}, id: Payments, sale: Sales]
    \cup [at: {"cancel"}, id: Payments, from: {"pending", "submitted"},
          owner: BOOLEAN]

Init ==
  /\ pay = [p \in Payments |-> AbsentRow]
  /\ job = [w \in Workers |-> Idle]
  /\ started = [r \in ReqIds |-> {}]
  /\ gone = {}
  /\ Book!Init

Named(r) == {p \in Payments : pay[p].status # "absent" /\ pay[p].req = r}

Goto(w, step) == job' = [job EXCEPT ![w] = step]

------------------------------------------------------------------------------
(* start *)

\* Mutant: no unique index on (business_id, client_request_id).
NeverTaken(r) == FALSE

RequestTaken(r) == Named(r) # {}

\* findByRequestId finds the payment, in start or once the insert was refused.
ReturnNamed(r) ==
  \E p \in Named(r) : started' = [started EXCEPT ![r] = @ \cup {p}]

ReplayStart(w, r) ==
  /\ job[w] = Idle
  /\ ReturnNamed(r)
  /\ UNCHANGED <<pay, job, sales>>

\* Nothing is found; the method is active and the basket has a price.
BeginStart(w, r, m) ==
  /\ job[w] = Idle
  /\ ~RequestTaken(r)
  /\ Goto(w, [at |-> "insert", req |-> r, prov |-> m])
  /\ UNCHANGED <<pay, started, sales>>

\* The insert; its answer may be lost on the way to the client.
CommitStart(w) ==
  LET r == job[w].req
  IN /\ job[w].at = "insert"
     /\ ~RequestTaken(r)
     /\ \E p \in Payments :
          /\ pay[p].status = "absent"
          /\ pay' = [pay EXCEPT ![p] = [AbsentRow EXCEPT !.status = "pending",
                                          !.req = r, !.prov = job[w].prov]]
          /\ \/ started' = [started EXCEPT ![r] = @ \cup {p}]
             \/ UNCHANGED started
     /\ Goto(w, Idle)
     /\ UNCHANGED sales

LoseStartRace(w) ==
  /\ job[w].at = "insert"
  /\ RequestTaken(job[w].req)
  /\ ReturnNamed(job[w].req)
  /\ Goto(w, Idle)
  /\ UNCHANGED <<pay, sales>>

------------------------------------------------------------------------------
(* submit *)

\* A payment that waits for the owner, or convinced him, holds its reference.
Holds(p) == pay[p].status \in {"submitted", "verified"}

SameTransaction(p, q, ref) == pay[p].prov = pay[q].prov /\ pay[p].ref = ref

\* Mutant: nobody compares references, neither submit nor the database.
NoIndex(q, ref) == TRUE

\* The partial unique index manual_payments_reference_in_use_key.
ReferenceFree(q, ref) ==
  \A p \in Payments \ {q} : ~(Holds(p) /\ SameTransaction(p, q, ref))

\* A declaration already submitted is answered from the row, or refused.
BeginSubmit(w, p, ref) ==
  /\ job[w] = Idle
  /\ pay[p].status \in {"pending", "rejected"}
  /\ Goto(w, [at |-> "clash", id |-> p, ref |-> ref, from |-> pay[p].status])
  /\ UNCHANGED <<pay, started, sales>>

CheckClash(w) ==
  /\ job[w].at = "clash"
  /\ Goto(w, IF ReferenceFree(job[w].id, job[w].ref)
               THEN [job[w] EXCEPT !.at = "declare"] ELSE Idle)
  /\ UNCHANGED <<pay, started, sales>>

\* Mutant: the status is not part of the update's WHERE.
WhereId(p, from) == pay[p].status # "absent"

\* updateMany ... where { id, status: <the status that was read> }
Unmoved(p, from) == pay[p].status = from

\* Mutant: the reference of the declaration is not saved.
LostReference(p, ref) == pay[p].ref

DeclaredReference(p, ref) == ref

\* The write misses when somebody moved the payment, and fails when the
\* reference was taken meanwhile; either way the request ends.
CommitSubmit(w) ==
  LET j == job[w]
  IN /\ j.at = "declare"
     /\ pay' = IF Unmoved(j.id, j.from) /\ ReferenceFree(j.id, j.ref)
                 THEN [pay EXCEPT ![j.id] =
                         [@ EXCEPT !.status = "submitted",
                                   !.ref = DeclaredReference(j.id, j.ref)]]
                 ELSE pay
     /\ Goto(w, Idle)
     /\ UNCHANGED <<started, sales>>

------------------------------------------------------------------------------
(* verify *)

\* needsAttention: verified, and its sale is not known.
Unfinished(p) == pay[p].status = "verified" /\ pay[p].sale = None

BeginVerify(w, p) ==
  /\ job[w] = Idle
  /\ \/ pay[p].status = "submitted" /\ Goto(w, [at |-> "verify", id |-> p])
     \/ Unfinished(p) /\ Goto(w, [at |-> "checkout", id |-> p])
  /\ UNCHANGED <<pay, started, sales>>

CommitVerify(w) ==
  LET p == job[w].id
  IN /\ job[w].at = "verify"
     /\ pay' = IF Unmoved(p, "submitted")
                 THEN [pay EXCEPT ![p] = [@ EXCEPT !.status = "verified"]]
                 ELSE pay
     /\ Goto(w, [at |-> "reread", id |-> p])
     /\ UNCHANGED <<started, sales>>

\* Mutant: what the update did is not looked at.
TakenForVerified(p) == pay[p].sale = None

\* The payment is read again, to see who won and whether its sale is recorded.
MayBeSold(p) == Unfinished(p)

Reread(w) ==
  LET p == job[w].id
  IN /\ job[w].at = "reread"
     /\ Goto(w, IF MayBeSold(p) THEN [at |-> "checkout", id |-> p] ELSE Idle)
     /\ UNCHANGED <<pay, started, sales>>

\* Mutant: the sale is found only after its customer has been looked up.
AnyRefusal(p) == p \in gone

\* assertCustomerExists fails, this time and every time; a sale that is recorded
\* already is found before.
CustomerGone(p) == p \in gone /\ book[pay[p].req] = {}

\* recordSale: SalesService.checkout under the payment's own request id, as an
\* offline sale at the frozen prices.  Its answer may be lost; a refusal leaves
\* the payment verified.
CheckoutPayment(w) ==
  LET p == job[w].id
      r == pay[p].req
  IN /\ job[w].at = "checkout"
     /\ \/ /\ CustomerGone(p)
           /\ Goto(w, Idle)
           /\ UNCHANGED sales
        \/ /\ ~CustomerGone(p)
           /\ \E s \in book[r] :
                Goto(w, [at |-> "link", id |-> p, sale |-> s])
           /\ UNCHANGED sales
        \/ /\ ~CustomerGone(p)
           /\ \E s \in Sales :
                /\ Book!Record(r, s)
                /\ \/ Goto(w, [at |-> "link", id |-> p, sale |-> s])
                   \/ Goto(w, Idle)
           /\ UNCHANGED gone
     /\ UNCHANGED <<pay, started>>

LinkSale(w) ==
  LET p == job[w].id
  IN /\ job[w].at = "link"
     /\ pay' = [pay EXCEPT ![p] = [@ EXCEPT !.sale = job[w].sale]]
     /\ Goto(w, Idle)
     /\ UNCHANGED <<started, sales>>

------------------------------------------------------------------------------
(* reject and cancel *)

BeginReject(w, p) ==
  /\ job[w] = Idle
  /\ pay[p].status = "submitted"
  /\ Goto(w, [at |-> "reject", id |-> p])
  /\ UNCHANGED <<pay, started, sales>>

CommitReject(w) ==
  LET p == job[w].id
  IN /\ job[w].at = "reject"
     /\ pay' = IF Unmoved(p, "submitted")
                 THEN [pay EXCEPT ![p] = [@ EXCEPT !.status = "rejected"]]
                 ELSE pay
     /\ Goto(w, Idle)
     /\ UNCHANGED <<started, sales>>

\* owner: the caller holds payments:verify.
BeginCancel(w, p, owner) ==
  /\ job[w] = Idle
  /\ pay[p].status = "pending" \/ (pay[p].status = "submitted" /\ owner)
  /\ Goto(w, [at |-> "cancel", id |-> p, from |-> pay[p].status,
              owner |-> owner])
  /\ UNCHANGED <<pay, started, sales>>

CommitCancel(w) ==
  LET j == job[w]
  IN /\ j.at = "cancel"
     /\ pay' = IF Unmoved(j.id, j.from)
                 THEN [pay EXCEPT ![j.id] = [@ EXCEPT !.status = "cancelled"]]
                 ELSE pay
     /\ Goto(w, Idle)
     /\ UNCHANGED <<started, sales>>

------------------------------------------------------------------------------
(* A request that crashes, times out or is refused by the database; recordSale
   catches its failures and leaves the payment verified. *)
Abandon(w) ==
  /\ job[w] # Idle
  /\ Goto(w, Idle)
  /\ UNCHANGED <<pay, started, sales>>

\* SalesService.void, on the sale of a payment.
VoidSale(s) ==
  /\ Book!VoidRecorded(s)
  /\ UNCHANGED <<pay, job, started, gone>>

\* CustomersService.remove, of the customer the basket of p names.  Nothing of
\* a payment refers to him, and the sale of one owes nothing and lets him go.
DeleteCustomer(p) ==
  /\ pay[p].status # "absent"
  /\ p \notin gone
  /\ gone' = gone \cup {p}
  /\ UNCHANGED <<pay, job, started, book, saleStatus>>

StartPayment(w) ==
  \/ \E r \in ReqIds : ReplayStart(w, r) \/ \E m \in Providers : BeginStart(w, r, m)
  \/ CommitStart(w)
  \/ LoseStartRace(w)

SubmitPayment(w) ==
  \/ \E p \in Payments, ref \in Refs : BeginSubmit(w, p, ref)
  \/ CheckClash(w)
  \/ CommitSubmit(w)

VerifyPayment(w) ==
  \/ \E p \in Payments : BeginVerify(w, p)
  \/ CommitVerify(w)
  \/ Reread(w)
  \/ CheckoutPayment(w)
  \/ LinkSale(w)

DismissPayment(w) ==
  \/ \E p \in Payments : BeginReject(w, p)
  \/ CommitReject(w)
  \/ \E p \in Payments, owner \in BOOLEAN : BeginCancel(w, p, owner)
  \/ CommitCancel(w)

Serve(w) ==
  StartPayment(w) \/ SubmitPayment(w) \/ VerifyPayment(w) \/ DismissPayment(w)

Next ==
  \/ \E w \in Workers : Serve(w) \/ Abandon(w)
  \/ \E s \in Sales : VoidSale(s)
  \/ \E p \in Payments : DeleteCustomer(p)

Spec == Init /\ [][Next]_vars

\* The owner, who is shown that a verified payment needs attention, verifies it
\* again until it no longer does.  A request that dies, or that the database
\* refuses (Abandon), does so some of the time; what checkout itself refuses it
\* refuses every time (CustomerGone), and no fairness hides it.
OwnerInsists(p) ==
  /\ SF_vars(\E w \in Workers : Unfinished(p) /\ BeginVerify(w, p))
  /\ SF_vars(\E w \in Workers : job[w].at = "checkout" /\ job[w].id = p
                                  /\ CheckoutPayment(w))
  /\ SF_vars(\E w \in Workers : job[w].at = "link" /\ job[w].id = p
                                  /\ LinkSale(w))

\* A request being served ends, and the owner insists.
Fairness ==
  /\ \A w \in Workers : WF_vars(job[w] # Idle /\ Serve(w))
  /\ \A p \in Payments : OwnerInsists(p)

FairSpec == Spec /\ Fairness

------------------------------------------------------------------------------
(* Properties *)

\* Rows are rows of the schema, requests are at a step of their code.
TypeOK ==
  /\ pay \in [Payments -> Row]
  /\ job \in [Workers -> Job]
  /\ started \in [ReqIds -> SUBSET Payments]
  /\ book \in [ReqIds -> SUBSET Sales]
  /\ saleStatus \in [Sales -> {"absent", "completed", "void"}]
  /\ gone \subseteq Payments

\* One basket is one payment: whatever start answered for a request id, twice,
\* racing or after a lost answer, is the same payment (PaymentsService.start).
OnePaymentPerRequest ==
  \A r \in ReqIds :
    /\ started[r] \subseteq Named(r)
    /\ \A p, q \in Named(r) : p = q

\* A transaction reference is held by one payment of its operator: declarations
\* that arrive together, and rejected ones declared again, included (submit).
ReferenceProvesOnePayment ==
  \A p, q \in Payments :
    Holds(p) /\ Holds(q) /\ pay[p].prov = pay[q].prov /\ pay[p].ref = pay[q].ref
      => p = q

\* Nothing is sold until the owner verifies, whatever verify raced with, and a
\* payment is linked to the one sale of its own basket (verify, recordSale).
SoldOnlyIfVerified ==
  \A p \in Payments :
    /\ pay[p].sale # None => pay[p].sale \in book[pay[p].req]
    /\ pay[p].req # None =>
         /\ book[pay[p].req] # {} => pay[p].status = "verified"
         /\ \A s, t \in book[pay[p].req] : s = t

\* Only a request whose caller holds payments:verify cancels a payment that was
\* declared, even if it was declared after that request read it (cancel).
DeclaredCancelledByOwner ==
  [][\A p \in Payments :
       pay[p].status = "submitted" /\ pay'[p].status = "cancelled" =>
         \E w \in Workers : /\ job[w].at = "cancel" /\ job[w].id = p
                            /\ job[w].owner
                            /\ job'[w] = Idle]_vars

\* The declaration an owner has accepted is not replaced: once verified, the
\* reference and the operator of a payment stay (submit, verify).
VerifiedDeclarationKept ==
  [][\A p \in Payments :
       pay[p].status = "verified" =>
         pay'[p].ref = pay[p].ref /\ pay'[p].prov = pay[p].prov]_vars

\* A verified payment ends up with its sale: lost answers, crashes between the
\* sale and the link, and voids do not leave it unfinished, nor does a customer
\* deleted once the sale is in the book.  The one thing that does is that its
\* customer was deleted before (verify, recordSale, CustomersService.remove).
VerifiedGetsSold ==
  \A p \in Payments :
    pay[p].status = "verified" ~>
      \/ pay[p].sale # None
      \/ p \in gone /\ book[pay[p].req] = {}

\* What the comment of verify says: whatever kept the sale from being recorded,
\* calling verify again finishes the job (payments.service.ts:253-255).
VerifyAgainFinishes ==
  \A p \in Payments :
    pay[p].status = "verified" ~> pay[p].sale # None

Life == INSTANCE PaymentLifecycle
          WITH life <- [p \in Payments |-> pay[p].status],
               sold <- {p \in Payments :
                          pay[p].req # None /\ book[pay[p].req] # {}}

\* The statuses move as the lifecycle allows, one decision per declaration,
\* however requests that read the payment earlier interleave.
ImplementsLifecycle == Life!Spec

=============================================================================
