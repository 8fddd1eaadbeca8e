----------------------------- MODULE SalesLedger -----------------------------
(***************************************************************************)
(* The sales, the stock and the customer debts of one business, as         *)
(* SalesService, InventoryService and CreditsService keep them.            *)
(*                                                                         *)
(* Every BizPrisma.run is one PostgreSQL transaction at READ COMMITTED.    *)
(* A request that runs one transaction, or reads before it writes, is      *)
(* split into steps wherever another request may commit in between: after  *)
(* each transaction, and after each unlocked read whose result is written  *)
(* back.  The writes of a transaction become visible in its last step (its *)
(* COMMIT).  Increments and guarded updates are re-evaluated on the latest *)
(* committed row, as PostgreSQL does under the row lock; absolute writes   *)
(* carry what was read.  A transaction that keeps rows locked between two  *)
(* steps is a void that has restocked and not committed: see Locked.       *)
(***************************************************************************)
EXTENDS Integers, FiniteSets, Functions

CONSTANTS
  Workers,        \* requests the API may be serving at the same time
  Products, Customers,
  Sales,          \* identifiers of sale rows
  CreditIds,      \* identifiers of customer_credits rows, in created_at order
  ReqIds,         \* clientRequestId values
  Carts,          \* the checkouts clients may send (CreateSaleDto, priced)
  Grants,         \* amounts of manual credits
  PayAmounts,     \* amounts of credit payments
  Adjustments,    \* signed quantities of manual stock movements
  InitStock,      \* [Products -> Nat]
  Threshold,      \* lowStockThreshold; -1 stands for NULL
  MaxStock,       \* bound: no manual movement takes the stock above it
  NoReq, NoCustomer, NoSale, NoCart, NoCredit

Cart == [req: ReqIds \cup {NoReq}, lines: [Products -> Nat], total: Nat,
         paid: Nat, customer: Customers \cup {NoCustomer}, offline: BOOLEAN]

ASSUME LedgerAssumption ==
  /\ IsFiniteSet(Sales)
  /\ IsFiniteSet(CreditIds) /\ CreditIds \subseteq Nat
  /\ Carts \subseteq Cart
  /\ Grants \subseteq Nat \ {0}
  /\ PayAmounts \subseteq Nat \ {0}
  /\ Adjustments \subseteq Int
  /\ InitStock \in [Products -> Nat]
  /\ Threshold \in [Products -> Nat \cup {-1}]
  /\ MaxStock \in Int
  /\ NoReq \notin ReqIds
  /\ NoCustomer \notin Customers
  /\ NoSale \notin Sales
  /\ NoCart \notin Carts
  /\ NoCredit \notin CreditIds

VARIABLES
  stock,      \* products.current_stock
  active,     \* products.is_active
  adjusted,   \* net quantity of the manual inventory_movements of a product
  alert,      \* the last stock event emitted to the outbox for a product
  counter,    \* sale_counters.last_number
  sale,       \* sales, with the basket of their sale_items
  credit,     \* customer_credits, with the sum of their credit_payments
  balance,    \* customers.current_balance
  waived,     \* history: the debts of a customer that voids have taken off
  job,        \* what each worker is in the middle of
  answered    \* [ReqIds -> SUBSET Sales]: the sales returned to clients

vars == <<stock, active, adjusted, alert, counter, sale, credit, balance,
          waived, job, answered>>

------------------------------------------------------------------------------
(* Rows and request states *)

SaleStatus == {"absent", "completed", "void"}
SaleRow == [status: SaleStatus, number: Nat, cart: Carts \cup {NoCart},
            due: Nat]
AbsentSale == [status |-> "absent", number |-> 0, cart |-> NoCart, due |-> 0]

CreditStatus == {"absent", "open", "partially_paid", "paid", "void"}
CreditRow == [status: CreditStatus, customer: Customers \cup {NoCustomer},
              sale: Sales \cup {NoSale}, original: Nat, remaining: Nat,
              paid: Nat]
AbsentCredit == [status |-> "absent", customer |-> NoCustomer, sale |-> NoSale,
                 original |-> 0, remaining |-> 0, paid |-> 0]

AlertKind == {"none", "STOCK_LOW", "STOCK_NEGATIVE"}

Idle == [at |-> "idle"]

\* attempt: the basket is priced and accepted.  voidTx: past findOne.  voidWrite: stock
\* rows updated and locked, open credit read.  payWrite: open credits read.
Job ==
  {Idle}
    \cup [at: {"attempt"}, cart: Carts]
    \cup [at: {"voidTx"}, sale: Sales]
    \cup [at: {"voidWrite"}, sale: Sales, credit: CreditIds \cup {NoCredit},
          left: Nat]
    \cup [at: {"payWrite"}, customer: Customers, amount: Nat,
          left: [CreditIds -> Nat]]

Recorded == {s \in Sales : sale[s].status # "absent"}
Booked(r) == {s \in Recorded : sale[s].cart.req = r}

Init ==
  /\ stock = InitStock
  /\ active = [p \in Products |-> TRUE]
  /\ adjusted = [p \in Products |-> 0]
  /\ alert = [p \in Products |-> "none"]
  /\ counter = 0
  /\ sale = [s \in Sales |-> AbsentSale]
  /\ credit = [k \in CreditIds |-> AbsentCredit]
  /\ balance = [c \in Customers |-> 0]
  /\ waived = [c \in Customers |-> 0]
  /\ job = [w \in Workers |-> Idle]
  /\ answered = [r \in ReqIds |-> {}]

------------------------------------------------------------------------------
(* Inventory: applyMovement, called inside the caller's transaction *)

\* Rows a void has updated stay locked until it commits or rolls back.
Locked(p) ==
  \E w \in Workers : /\ job[w].at = "voidWrite"
                     /\ sale[job[w].sale].cart.lines[p] > 0

\* The condition `currentStock >= -delta` of the guarded UPDATE.
EnoughStock(p, qty) == stock[p] >= qty

\* Mutant: the level before the movement is taken for the level after it.
AlertOnStaleLevel(p, after) ==
  IF after >= stock[p] THEN alert[p]
  ELSE IF stock[p] < 0 THEN "STOCK_NEGATIVE"
  ELSE IF stock[p] <= Threshold[p] THEN "STOCK_LOW"
  ELSE alert[p]

\* alertOnThreshold: an event only when an outgoing movement crosses zero, or
\* else the threshold.
AlertOnThreshold(p, after) ==
  IF after >= stock[p] THEN alert[p]
  ELSE IF after < 0 /\ stock[p] >= 0 THEN "STOCK_NEGATIVE"
  ELSE IF after <= Threshold[p] /\ stock[p] > Threshold[p] THEN "STOCK_LOW"
  ELSE alert[p]

\* One applyMovement per product: the increment, the event, the journal row.
Move(level) ==
  /\ stock' = level
  /\ alert' = [p \in Products |-> AlertOnThreshold(p, level[p])]

\* recordManualMovement: purchase_in, adjustment_in, adjustment_out.
RecordManualMovement(p, delta) ==
  /\ ~Locked(p)
  /\ delta < 0 => EnoughStock(p, -delta)
  /\ stock[p] + delta <= MaxStock
  /\ Move([stock EXCEPT ![p] = @ + delta])
  /\ adjusted' = [adjusted EXCEPT ![p] = @ + delta]
  /\ UNCHANGED <<active, counter, sale, credit, balance, waived, job, answered>>

\* ProductsService.update and deactivate, as far as isActive goes.
SetActive(p, on) ==
  /\ ~Locked(p)
  /\ active' = [active EXCEPT ![p] = on]
  /\ UNCHANGED <<stock, adjusted, alert, counter, sale, credit, balance, waived,
                 job, answered>>

------------------------------------------------------------------------------
(* Credits: createCredit, called inside the caller's transaction *)

NewCredit(c, s, amount) ==
  [status |-> "open", customer |-> c, sale |-> s, original |-> amount,
   remaining |-> amount, paid |-> 0]

CreateCredit(c, s, amount) ==
  \E k \in CreditIds :
    /\ credit[k].status = "absent"
    /\ credit' = [credit EXCEPT ![k] = NewCredit(c, s, amount)]
    /\ balance' = [balance EXCEPT ![c] = @ + amount]

GrantManual(c, amount) ==
  /\ CreateCredit(c, NoSale, amount)
  /\ UNCHANGED <<stock, active, adjusted, alert, counter, sale, waived, job,
                 answered>>

\* Mutant: a debt that was partly repaid is no longer looked at.
OpenIsOnlyOpen(k) == credit[k].status = "open"

Open(k) == credit[k].status \in {"open", "partially_paid"}

StatusAfterPayment(remaining) ==
  IF remaining <= 0 THEN "paid" ELSE "partially_paid"

\* recordPayment, up to the refusals: the open credits are read without a lock.
BeginRecordPayment(w, c, amount) ==
  LET left == [k \in CreditIds |-> IF Open(k) /\ credit[k].customer = c
                                     THEN credit[k].remaining ELSE 0]
  IN /\ job[w] = Idle
     /\ amount <= SumFunction(left)
     /\ job' = [job EXCEPT ![w] = [at |-> "payWrite", customer |-> c,
                                   amount |-> amount, left |-> left]]
     /\ UNCHANGED <<stock, active, adjusted, alert, counter, sale, credit,
                    balance, waived, answered>>

\* Mutant: the oldest credit swallows the whole amount.
AllOnOldest(take, left, amount) ==
  \E k \in CreditIds :
    /\ left[k] > 0
    /\ \A i \in CreditIds : left[i] > 0 => k <= i
    /\ take = [i \in CreditIds |-> IF i = k THEN amount ELSE 0]

\* The loop of recordPayment: oldest first, each credit settled before the next.
Fifo(take, left, amount) ==
  /\ SumFunction(take) = amount
  /\ \A k \in CreditIds :
       /\ take[k] <= left[k]
       /\ take[k] > 0 => \A i \in CreditIds : i < k => take[i] = left[i]

\* Mutant: the new balance is computed from the debt that was read.
BalanceFromRead(j) == SumFunction(j.left) - j.amount

\* The decrement is done by the database, on the current balance.
BalanceAfter(j) == balance[j.customer] - j.amount

\* The writes of recordPayment: remaining and status are those computed from
\* the rows read in BeginRecordPayment, whatever was committed since.
RecordPayment(w) ==
  LET j == job[w]
  IN /\ j.at = "payWrite"
     /\ \E take \in [CreditIds -> 0..j.amount] :
          /\ Fifo(take, j.left, j.amount)
          /\ credit' =
               [k \in CreditIds |->
                  IF take[k] = 0 THEN credit[k]
                  ELSE [credit[k] EXCEPT
                          !.remaining = j.left[k] - take[k],
                          !.status = StatusAfterPayment(j.left[k] - take[k]),
                          !.paid = @ + take[k]]]
     /\ balance' = [balance EXCEPT ![j.customer] = BalanceAfter(j)]
     /\ job' = [job EXCEPT ![w] = Idle]
     /\ UNCHANGED <<stock, active, adjusted, alert, counter, sale, waived,
                    answered>>

------------------------------------------------------------------------------
(* Sales: checkout *)

AmountDue(cart) == IF cart.total > cart.paid THEN cart.total - cart.paid ELSE 0

\* The checks of priceCart and attemptCheckout that precede any write.
Accepted(cart) ==
  /\ \A p \in Products : cart.lines[p] > 0 => active[p] \/ cart.offline
  /\ AmountDue(cart) > 0 => cart.customer # NoCustomer

\* Mutant: no unique index on (business_id, client_request_id).
NeverTaken(cart) == FALSE

\* The insert of the sale hits the unique index on client_request_id.
Taken(cart) == cart.req \in ReqIds /\ Booked(cart.req) # {}

\* Mutant: the number is one more than the completed sales.
NumberByCounting == Cardinality({s \in Sales : sale[s].status = "completed"}) + 1

NextSaleNumber == counter + 1

\* Mutant: offline sales are the ones whose stock is guarded.
GuardedWhenOffline(cart) == cart.offline

\* `guarded` in applyMovement: only a sale rung up online can lack stock.
Guarded(cart) == ~cart.offline

Answer(cart, s) ==
  answered' = IF cart.req \in ReqIds
                THEN [answered EXCEPT ![cart.req] = @ \cup {s}] ELSE answered

\* checkout finds the sale this request id already recorded and returns it.
ReplayCheckout(w, cart) ==
  /\ job[w] = Idle
  /\ cart.req \in ReqIds
  /\ \E s \in Booked(cart.req) : Answer(cart, s)
  /\ UNCHANGED <<stock, active, adjusted, alert, counter, sale, credit, balance,
                 waived, job>>

\* The lookup finds nothing; the transaction of attemptCheckout opens and reads
\* what priceCart needs.  A product deactivated from here on is still sold.
BeginCheckout(w, cart) ==
  /\ job[w] = Idle
  /\ ~Taken(cart)
  /\ Accepted(cart)
  /\ job' = [job EXCEPT ![w] = [at |-> "attempt", cart |-> cart]]
  /\ UNCHANGED <<stock, active, adjusted, alert, counter, sale, credit, balance,
                 waived, answered>>

\* attemptCheckout commits.  Whether its answer reaches the client is open: the
\* connection may drop after COMMIT.
CommitCheckout(w) ==
  LET cart == job[w].cart
  IN /\ job[w].at = "attempt"
     /\ ~Taken(cart)
     /\ \A p \in Products :
          cart.lines[p] > 0 => /\ ~Locked(p)
                               /\ Guarded(cart) => EnoughStock(p, cart.lines[p])
     /\ counter' = NextSaleNumber
     /\ Move([p \in Products |-> stock[p] - cart.lines[p]])
     /\ \E s \in Sales :
          /\ sale[s].status = "absent"
          /\ sale' = [sale EXCEPT ![s] =
                        [status |-> "completed", number |-> NextSaleNumber,
                         cart |-> cart, due |-> AmountDue(cart)]]
          /\ \/ AmountDue(cart) = 0 /\ UNCHANGED <<credit, balance>>
             \/ /\ AmountDue(cart) > 0
                /\ CreateCredit(cart.customer, s, AmountDue(cart))
          /\ Answer(cart, s) \/ UNCHANGED answered
     /\ job' = [job EXCEPT ![w] = Idle]
     /\ UNCHANGED <<active, adjusted, waived>>

\* The loser of a race on one request id: its insert violates the unique index,
\* its transaction rolls back (counter included) and it returns the winner's.
LoseCheckoutRace(w) ==
  LET cart == job[w].cart
  IN /\ job[w].at = "attempt"
     /\ Taken(cart)
     /\ \E s \in Booked(cart.req) : Answer(cart, s)
     /\ job' = [job EXCEPT ![w] = Idle]
     /\ UNCHANGED <<stock, active, adjusted, alert, counter, sale, credit,
                    balance, waived>>

\* Any other end of a request: a refusal for lack of stock, a crash, a timeout,
\* a lost connection or the victim of a PostgreSQL deadlock.  The open
\* transaction rolls back.
RollBack(w) ==
  /\ job[w] # Idle
  /\ job' = [job EXCEPT ![w] = Idle]
  /\ UNCHANGED <<stock, active, adjusted, alert, counter, sale, credit, balance,
                 waived, answered>>

------------------------------------------------------------------------------
(* Sales: void *)

\* Mutant: the status of the sale is not looked at.
AnySale(s) == sale[s].status # "absent"

Voidable(s) == sale[s].status = "completed"

\* findOne and the status check, in a transaction of their own.
BeginVoid(w, s) ==
  /\ job[w] = Idle
  /\ Voidable(s)
  /\ job' = [job EXCEPT ![w] = [at |-> "voidTx", sale |-> s]]
  /\ UNCHANGED <<stock, active, adjusted, alert, counter, sale, credit, balance,
                 waived, answered>>

\* Mutant: the whole original debt is taken off the balance.
LeftOfOriginal(k) == credit[k].original

LeftToPay(k) == credit[k].remaining

\* The second transaction: the stock rows are updated, hence locked, and then
\* the open credit of the sale is read without a lock.
RestockForVoid(w) ==
  LET s == job[w].sale
  IN /\ job[w].at = "voidTx"
     /\ \A p \in Products : sale[s].cart.lines[p] > 0 => ~Locked(p)
     /\ \/ /\ \A k \in CreditIds : ~(credit[k].sale = s /\ Open(k))
           /\ job' = [job EXCEPT ![w] = [at |-> "voidWrite", sale |-> s,
                                         credit |-> NoCredit, left |-> 0]]
        \/ \E k \in CreditIds :
             /\ credit[k].sale = s
             /\ Open(k)
             /\ job' = [job EXCEPT ![w] = [at |-> "voidWrite", sale |-> s,
                                           credit |-> k, left |-> LeftToPay(k)]]
     /\ UNCHANGED <<stock, active, adjusted, alert, counter, sale, credit,
                    balance, waived, answered>>

\* Its remaining writes and its COMMIT: the stock comes back, the debt read in
\* RestockForVoid leaves the balance, credit and sale are void.
CommitVoid(w) ==
  LET s == job[w].sale
      k == job[w].credit
  IN /\ job[w].at = "voidWrite"
     /\ Move([p \in Products |-> stock[p] + sale[s].cart.lines[p]])
     /\ \/ k = NoCredit /\ UNCHANGED <<credit, balance, waived>>
        \/ /\ k # NoCredit
           /\ credit' = [credit EXCEPT ![k] =
                          [@ EXCEPT !.remaining = 0, !.status = "void"]]
           /\ balance' = [balance EXCEPT ![credit[k].customer] =
                            @ - job[w].left]
           /\ waived' = [waived EXCEPT ![credit[k].customer] = @ + job[w].left]
     /\ sale' = [sale EXCEPT ![s].status = "void"]
     /\ job' = [job EXCEPT ![w] = Idle]
     /\ UNCHANGED <<active, adjusted, counter, answered>>

------------------------------------------------------------------------------
Checkout(w) ==
  \/ \E cart \in Carts : ReplayCheckout(w, cart) \/ BeginCheckout(w, cart)
  \/ CommitCheckout(w)
  \/ LoseCheckoutRace(w)

Void(w) ==
  \/ \E s \in Sales : BeginVoid(w, s)
  \/ RestockForVoid(w)
  \/ CommitVoid(w)

PayCredit(w) ==
  \/ \E c \in Customers, amount \in PayAmounts : BeginRecordPayment(w, c, amount)
  \/ RecordPayment(w)

Next ==
  \/ \E w \in Workers : Checkout(w) \/ Void(w) \/ PayCredit(w) \/ RollBack(w)
  \/ \E c \in Customers, amount \in Grants : GrantManual(c, amount)
  \/ \E p \in Products, delta \in Adjustments : RecordManualMovement(p, delta)
  \/ \E p \in Products, on \in BOOLEAN : SetActive(p, on)

Spec == Init /\ [][Next]_vars

------------------------------------------------------------------------------
(* Properties *)

\* Every table holds rows of its schema, every request is at a step of its code.
TypeOK ==
  /\ stock \in [Products -> Int]
  /\ active \in [Products -> BOOLEAN]
  /\ adjusted \in [Products -> Int]
  /\ alert \in [Products -> AlertKind]
  /\ counter \in Nat
  /\ sale \in [Sales -> SaleRow]
  /\ credit \in [CreditIds -> CreditRow]
  /\ balance \in [Customers -> Int]
  /\ waived \in [Customers -> Nat]
  /\ job \in [Workers -> Job]
  /\ answered \in [ReqIds -> SUBSET Sales]

\* Whatever was sent twice, raced, rolled back or answered into the void, a
\* client request id names one sale: every answer given for it is that sale
\* (SalesService.checkout).
OneSalePerRequest ==
  \A r \in ReqIds :
    /\ answered[r] \subseteq Booked(r)
    /\ \A s, t \in Booked(r) : s = t

\* Sale numbers are unique and without a gap: a checkout that rolls back, for
\* whatever reason, uses up no number (SalesService.nextSaleNumber).
SaleNumbersGapFree ==
  /\ \A s \in Recorded : sale[s].number \in 1..counter
  /\ \A n \in 1..counter : \E s \in Recorded : sale[s].number = n
  /\ \A s, t \in Recorded : sale[s].number = sale[t].number => s = t

\* Stock is below zero only for a product some offline sale took out: neither
\* concurrent online checkouts nor manual movements oversell (applyMovement).
NegativeOnlyOffline ==
  \A p \in Products :
    stock[p] < 0 => \E s \in Recorded : /\ sale[s].cart.offline
                                        /\ sale[s].cart.lines[p] > 0

\* The owners have been told of the stock they are in: a product below zero was
\* last announced as negative, one that sank to its threshold was announced
\* (alertOnThreshold, which stays silent while the level stays low).
OwnersAlerted ==
  \A p \in Products :
    /\ stock[p] < 0 => alert[p] = "STOCK_NEGATIVE"
    /\ InitStock[p] > Threshold[p] /\ stock[p] <= Threshold[p] => alert[p] # "none"

\* The status of a credit says what is left of it, even when payments and voids
\* overwrite each other: the statement screen never shows an open debt of zero.
CreditStatusAgrees ==
  \A k \in CreditIds :
    /\ credit[k].status = "open" =>
         credit[k].remaining = credit[k].original /\ credit[k].original > 0
    /\ credit[k].status = "partially_paid" =>
         credit[k].remaining \in 1..(credit[k].original - 1)
    /\ credit[k].status \in {"absent", "paid", "void"} =>
         credit[k].remaining = 0

\* With requests served one at a time, the stock of a product is what it was,
\* plus the manual movements, minus the lines of the sales still standing.
StockMatchesSales ==
  \A p \in Products :
    stock[p] = InitStock[p] + adjusted[p]
                 - SumFunction([s \in Sales |-> IF sale[s].status = "completed"
                                                  THEN sale[s].cart.lines[p]
                                                  ELSE 0])

\* With requests served one at a time, current_balance is the sum of what is
\* left of the customer's credits.
BalanceIsOutstanding ==
  \A c \in Customers :
    balance[c] = SumFunction([k \in CreditIds |-> IF credit[k].customer = c
                                                    THEN credit[k].remaining
                                                    ELSE 0])

\* However payments, credits and voids interleave, the balance of a customer
\* loses none of them: it is what was granted, less what was paid, less what the
\* voids took off (the increments and decrements of current_balance).
BalanceCountsEverything ==
  \A c \in Customers :
    balance[c] = SumFunction([k \in CreditIds |->
                                IF credit[k].customer = c
                                  THEN credit[k].original - credit[k].paid
                                  ELSE 0]) - waived[c]

\* With requests served one at a time, no credit is repaid beyond its amount.
PaidWithinDebt ==
  \A k \in CreditIds : credit[k].paid <= credit[k].original

\* With requests served one at a time, a void sale leaves nothing to pay.
VoidCancelsDebt ==
  \A k \in CreditIds :
    credit[k].sale \in Sales =>
      (sale[credit[k].sale].status = "void" => credit[k].remaining = 0)

\* The book of sales SalesLedger implements.
Book == INSTANCE SaleBook
          WITH book <- [r \in ReqIds |-> Booked(r)],
               status <- [s \in Sales |-> sale[s].status]

\* Every step of the ledger is a step of the book or leaves it alone: the second
\* COMMIT of two racing voids, for one, changes no sale a second time.
ImplementsSaleBook == Book!Spec

=============================================================================
