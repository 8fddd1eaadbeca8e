-------------------------- MODULE SalesLedgerProofs --------------------------
(***************************************************************************)
(* Theorems about SalesLedger, for any number of workers, products, sales, *)
(* credits and request ids.                                                *)
(***************************************************************************)
EXTENDS SalesLedger, FiniteSetTheorems, WellFoundedInduction, TLAPS

\* A recorded sale keeps the basket it was rung up with, and a void in progress
\* is about a recorded sale.  TypeOK alone is not inductive: CommitVoid puts
\* back the quantities of that basket.
RowsInUse ==
  /\ \A s \in Sales : sale[s].status # "absent" => sale[s].cart \in Carts
  /\ \A w \in Workers : job[w].at \in {"voidTx", "voidWrite"} =>
       sale[job[w].sale].status # "absent"

TypeInv == TypeOK /\ RowsInUse

\* A worker's request state, by the step it is at.
LEMMA JobShape ==
  ASSUME TypeOK, NEW w \in Workers
  PROVE  /\ job[w] \in Job
         /\ job[w].at = "attempt" => job[w].cart \in Carts
         /\ job[w].at = "voidTx" => job[w].sale \in Sales
         /\ job[w].at = "voidWrite" => /\ job[w].sale \in Sales
                                       /\ job[w].credit \in CreditIds \cup {NoCredit}
                                       /\ job[w].left \in Nat
         /\ job[w].at = "payWrite" => /\ job[w].customer \in Customers
                                      /\ job[w].amount \in Nat
                                      /\ job[w].left \in [CreditIds -> Nat]
<1>1. job[w] \in Job
  BY DEF TypeOK
<1>2. QED
  BY <1>1 DEF Job, Idle

\* The fields of a basket.
LEMMA CartShape ==
  ASSUME NEW cart \in Carts
  PROVE  /\ cart \in Cart
         /\ cart.req \in ReqIds \cup {NoReq}
         /\ cart.lines \in [Products -> Nat]
         /\ cart.customer \in Customers \cup {NoCustomer}
         /\ cart.offline \in BOOLEAN
         /\ AmountDue(cart) \in Nat
BY LedgerAssumption DEF Cart, AmountDue

\* A movement keeps stock and alerts typed, whatever level it brings.
LEMMA MoveType ==
  ASSUME TypeOK, NEW level \in [Products -> Int], Move(level)
  PROVE  /\ stock' \in [Products -> Int]
         /\ alert' \in [Products -> AlertKind]
<1>1. \A p \in Products : AlertOnThreshold(p, level[p]) \in AlertKind
  BY DEF TypeOK, AlertOnThreshold, AlertKind
<1>2. QED
  BY <1>1 DEF Move

\* A new credit row is a row of the table, and the balance stays a number.
LEMMA CreateCreditType ==
  ASSUME TypeOK, NEW c \in Customers, NEW s \in Sales \cup {NoSale},
         NEW amount \in Nat, CreateCredit(c, s, amount)
  PROVE  /\ credit' \in [CreditIds -> CreditRow]
         /\ balance' \in [Customers -> Int]
<1>1. NewCredit(c, s, amount) \in CreditRow
  BY DEF NewCredit, CreditRow, CreditStatus
<1>2. QED
  BY <1>1 DEF TypeOK, CreateCredit

\* Rewriting the amounts and the status of a credit row gives a credit row.
LEMMA CreditUpdate ==
  ASSUME NEW row \in CreditRow, NEW n \in Nat, NEW st \in CreditStatus,
         NEW m \in Nat
  PROVE  /\ [row EXCEPT !.remaining = n, !.status = st] \in CreditRow
         /\ [row EXCEPT !.remaining = n, !.status = st, !.paid = m] \in CreditRow
BY DEF CreditRow

LEMMA TypeInit == Init => TypeInv
<1> SUFFICES ASSUME Init PROVE TypeInv
  OBVIOUS
<1>1. AbsentSale \in SaleRow /\ AbsentCredit \in CreditRow
  BY DEF AbsentSale, SaleRow, SaleStatus, AbsentCredit, CreditRow, CreditStatus
<1>2. TypeOK
  BY <1>1, LedgerAssumption DEF TypeOK, Init, AlertKind, Job
<1>3. RowsInUse
  BY DEF RowsInUse, Init, AbsentSale, Idle
<1>4. QED
  BY <1>2, <1>3 DEF TypeInv

\* What a step leaves alone, action by action, is typed because it was.
LEMMA TypeNext == TypeInv /\ [Next]_vars => TypeInv'
<1> SUFFICES ASSUME TypeInv, [Next]_vars PROVE TypeInv'
  OBVIOUS
<1> USE LedgerAssumption
<1>0. TypeOK /\ RowsInUse
  BY DEF TypeInv
<1> Idle \in Job
  BY DEF Job
<1>1. ASSUME NEW w \in Workers, NEW cart \in Carts, ReplayCheckout(w, cart)
      PROVE  TypeInv'
  <2>1. PICK s \in Booked(cart.req) : Answer(cart, s)
    BY <1>1 DEF ReplayCheckout
  <2>2. answered' \in [ReqIds -> SUBSET Sales]
    BY <1>0, <2>1 DEF TypeOK, Answer, Booked, Recorded
  <2>3. QED
    BY <1>0, <1>1, <2>2 DEF TypeInv, TypeOK, RowsInUse, ReplayCheckout
<1>2. ASSUME NEW w \in Workers, NEW cart \in Carts, BeginCheckout(w, cart)
      PROVE  TypeInv'
  <2>1. [at |-> "attempt", cart |-> cart] \in Job
    BY DEF Job
  <2>2. QED
    BY <1>0, <1>2, <2>1 DEF TypeInv, TypeOK, RowsInUse, BeginCheckout
<1>3. ASSUME NEW w \in Workers, CommitCheckout(w)
      PROVE  TypeInv'
  <2> DEFINE cart == job[w].cart
             level == [p \in Products |-> stock[p] - cart.lines[p]]
  <2>1. cart \in Carts
    BY <1>0, <1>3, JobShape DEF CommitCheckout
  <2>2. level \in [Products -> Int]
    BY <1>0, <2>1, CartShape DEF TypeOK
  <2>3. stock' \in [Products -> Int] /\ alert' \in [Products -> AlertKind]
    BY <1>0, <1>3, <2>2, MoveType DEF CommitCheckout
  <2>4. PICK s \in Sales :
          /\ sale[s].status = "absent"
          /\ sale' = [sale EXCEPT ![s] =
                        [status |-> "completed", number |-> NextSaleNumber,
                         cart |-> cart, due |-> AmountDue(cart)]]
          /\ \/ AmountDue(cart) = 0 /\ UNCHANGED <<credit, balance>>
             \/ /\ AmountDue(cart) > 0
                /\ CreateCredit(cart.customer, s, AmountDue(cart))
          /\ Answer(cart, s) \/ UNCHANGED answered
    BY <1>3 DEF CommitCheckout
  <2>5. sale' \in [Sales -> SaleRow]
    <3>1. NextSaleNumber \in Nat
      BY <1>0 DEF TypeOK, NextSaleNumber
    <3>2. [status |-> "completed", number |-> NextSaleNumber, cart |-> cart,
           due |-> AmountDue(cart)] \in SaleRow
      BY <2>1, <3>1, CartShape DEF SaleRow, SaleStatus
    <3>3. QED
      BY <1>0, <2>4, <3>2 DEF TypeOK
  <2>6. counter' \in Nat
    BY <1>0, <1>3 DEF TypeOK, CommitCheckout, NextSaleNumber
  <2>7. credit' \in [CreditIds -> CreditRow] /\ balance' \in [Customers -> Int]
    <3>1. CASE UNCHANGED <<credit, balance>>
      BY <1>0, <3>1 DEF TypeOK
    <3>2. CASE AmountDue(cart) > 0 /\ CreateCredit(cart.customer, s, AmountDue(cart))
      <4>1. CASE cart.customer \in Customers
        BY <1>0, <2>1, <3>2, <4>1, CartShape, CreateCreditType
      <4>2. CASE cart.customer = NoCustomer
        <5>1. NewCredit(cart.customer, s, AmountDue(cart)) \in CreditRow
          BY <2>1, <4>2, CartShape DEF NewCredit, CreditRow, CreditStatus
        <5>2. PICK k \in CreditIds :
                /\ credit' = [credit EXCEPT ![k] =
                                NewCredit(cart.customer, s, AmountDue(cart))]
                /\ balance' = [balance EXCEPT ![cart.customer] =
                                 @ + AmountDue(cart)]
          BY <3>2 DEF CreateCredit
        <5>3. credit' \in [CreditIds -> CreditRow]
          BY <1>0, <5>1, <5>2 DEF TypeOK
        <5>4. balance' = balance
          BY <1>0, <4>2, <5>2 DEF TypeOK
        <5>5. QED
          BY <1>0, <5>3, <5>4 DEF TypeOK
      <4>3. QED
        BY <2>1, <4>1, <4>2, CartShape
    <3>3. QED
      BY <2>4, <3>1, <3>2
  <2>8. answered' \in [ReqIds -> SUBSET Sales]
    BY <1>0, <2>4 DEF TypeOK, Answer
  <2>9. job' \in [Workers -> Job]
    BY <1>0, <1>3 DEF TypeOK, CommitCheckout
  <2>10. TypeOK'
    BY <1>0, <1>3, <2>3, <2>5, <2>6, <2>7, <2>8, <2>9 DEF TypeOK, CommitCheckout
  <2>11. RowsInUse'
    <3>1. \A t \in Sales : sale'[t].status # "absent" => sale'[t].cart \in Carts
      BY <1>0, <2>1, <2>4 DEF TypeOK, RowsInUse
    <3>2. \A t \in Sales : sale[t].status # "absent" => sale'[t].status # "absent"
      BY <1>0, <2>4 DEF TypeOK
    <3>3. ASSUME NEW v \in Workers, job'[v].at \in {"voidTx", "voidWrite"}
          PROVE  sale'[job'[v].sale].status # "absent"
      <4>1. v # w /\ job'[v] = job[v]
        BY <1>0, <1>3, <3>3 DEF TypeOK, CommitCheckout, Idle
      <4>2. job[v].sale \in Sales /\ sale[job[v].sale].status # "absent"
        BY <1>0, <3>3, <4>1, JobShape DEF RowsInUse
      <4>3. QED
        BY <3>2, <4>1, <4>2
    <3>4. QED
      BY <3>1, <3>3 DEF RowsInUse
  <2>12. QED
    BY <2>10, <2>11 DEF TypeInv
<1>4. ASSUME NEW w \in Workers, LoseCheckoutRace(w)
      PROVE  TypeInv'
  <2>1. job[w].cart \in Carts
    BY <1>0, <1>4, JobShape DEF LoseCheckoutRace
  <2>2. PICK s \in Booked(job[w].cart.req) : Answer(job[w].cart, s)
    BY <1>4 DEF LoseCheckoutRace
  <2>3. answered' \in [ReqIds -> SUBSET Sales]
    BY <1>0, <2>2 DEF TypeOK, Answer, Booked, Recorded
  <2>4. job' \in [Workers -> Job]
    BY <1>0, <1>4 DEF TypeOK, LoseCheckoutRace
  <2>5. RowsInUse'
    BY <1>0, <1>4 DEF TypeOK, RowsInUse, LoseCheckoutRace, Idle
  <2>6. QED
    BY <1>0, <1>4, <2>3, <2>4, <2>5 DEF TypeInv, TypeOK, LoseCheckoutRace
<1>5. ASSUME NEW w \in Workers, NEW s \in Sales, BeginVoid(w, s)
      PROVE  TypeInv'
  <2>1. [at |-> "voidTx", sale |-> s] \in Job
    BY DEF Job
  <2>2. RowsInUse'
    BY <1>0, <1>5 DEF TypeOK, RowsInUse, BeginVoid, Voidable
  <2>3. QED
    BY <1>0, <1>5, <2>1, <2>2 DEF TypeInv, TypeOK, BeginVoid
<1>6. ASSUME NEW w \in Workers, RestockForVoid(w)
      PROVE  TypeInv'
  <2>1. job[w].sale \in Sales
    BY <1>0, <1>6, JobShape DEF RestockForVoid
  <2>2. PICK k \in CreditIds \cup {NoCredit}, n \in Nat :
          job' = [job EXCEPT ![w] = [at |-> "voidWrite", sale |-> job[w].sale,
                                     credit |-> k, left |-> n]]
    BY <1>0, <1>6 DEF RestockForVoid, LeftToPay, TypeOK, CreditRow
  <2>3. [at |-> "voidWrite", sale |-> job[w].sale, credit |-> k, left |-> n] \in Job
    BY <2>1 DEF Job
  <2>4. job' \in [Workers -> Job]
    BY <1>0, <2>2, <2>3 DEF TypeOK
  <2>5. RowsInUse'
    BY <1>0, <1>6, <2>2 DEF TypeOK, RowsInUse, RestockForVoid
  <2>6. QED
    BY <1>0, <1>6, <2>4, <2>5 DEF TypeInv, TypeOK, RestockForVoid
<1>7. ASSUME NEW w \in Workers, CommitVoid(w)
      PROVE  TypeInv'
  <2> DEFINE s == job[w].sale
             k == job[w].credit
             level == [p \in Products |-> stock[p] + sale[s].cart.lines[p]]
  <2>1. s \in Sales /\ k \in CreditIds \cup {NoCredit} /\ job[w].left \in Nat
    BY <1>0, <1>7, JobShape DEF CommitVoid
  <2>2. sale[s].status # "absent" /\ sale[s].cart \in Carts
    BY <1>0, <1>7, <2>1 DEF CommitVoid, RowsInUse
  <2>3. level \in [Products -> Int]
    BY <1>0, <2>2, CartShape DEF TypeOK
  <2>4. stock' \in [Products -> Int] /\ alert' \in [Products -> AlertKind]
    BY <1>0, <1>7, <2>3, MoveType DEF CommitVoid
  <2>5. credit' \in [CreditIds -> CreditRow] /\ balance' \in [Customers -> Int]
          /\ waived' \in [Customers -> Nat]
    <3>1. CASE UNCHANGED <<credit, balance, waived>>
      BY <1>0, <3>1 DEF TypeOK
    <3>2. CASE /\ k # NoCredit
               /\ credit' = [credit EXCEPT ![k] =
                               [@ EXCEPT !.remaining = 0, !.status = "void"]]
               /\ balance' = [balance EXCEPT ![credit[k].customer] = @ - job[w].left]
               /\ waived' = [waived EXCEPT ![credit[k].customer] = @ + job[w].left]
      <4>1. credit' \in [CreditIds -> CreditRow]
        <5>1. credit[k] \in CreditRow /\ k \in CreditIds
          BY <1>0, <2>1, <3>2 DEF TypeOK
        <5>2. [credit[k] EXCEPT !.remaining = 0, !.status = "void"] \in CreditRow
          BY <5>1, CreditUpdate DEF CreditStatus
        <5>3. QED
          BY <1>0, <3>2, <5>1, <5>2 DEF TypeOK
      <4>2. balance' \in [Customers -> Int] /\ waived' \in [Customers -> Nat]
        <5>1. CASE credit[k].customer \in Customers
          BY <1>0, <2>1, <3>2, <5>1 DEF TypeOK
        <5>2. CASE credit[k].customer \notin Customers
          <6>1. balance' = balance /\ waived' = waived
            BY <1>0, <3>2, <5>2 DEF TypeOK
          <6>2. QED
            BY <1>0, <6>1 DEF TypeOK
        <5>3. QED
          BY <5>1, <5>2
      <4>3. QED
        BY <4>1, <4>2
    <3>3. \/ UNCHANGED <<credit, balance, waived>>
          \/ /\ k # NoCredit
             /\ credit' = [credit EXCEPT ![k] =
                             [@ EXCEPT !.remaining = 0, !.status = "void"]]
             /\ balance' = [balance EXCEPT ![credit[k].customer] = @ - job[w].left]
             /\ waived' = [waived EXCEPT ![credit[k].customer] = @ + job[w].left]
      BY <1>7 DEF CommitVoid
    <3>4. QED
      BY <3>1, <3>2, <3>3
  <2>s. sale \in [Sales -> SaleRow] /\ sale' = [sale EXCEPT ![s].status = "void"]
    BY <1>0, <1>7 DEF TypeOK, CommitVoid
  <2>6. sale' \in [Sales -> SaleRow]
    BY <2>s DEF SaleRow, SaleStatus
  <2>7. job' \in [Workers -> Job]
    BY <1>0, <1>7 DEF TypeOK, CommitVoid
  <2>8. RowsInUse'
    <3>1. \A t \in Sales : sale'[t].cart = sale[t].cart
                             /\ (sale[t].status # "absent" <=> sale'[t].status # "absent")
      BY <2>2, <2>s DEF SaleRow
    <3>2. ASSUME NEW v \in Workers, job'[v].at \in {"voidTx", "voidWrite"}
          PROVE  sale'[job'[v].sale].status # "absent"
      <4>1. v # w /\ job'[v] = job[v]
        BY <1>0, <1>7, <3>2 DEF TypeOK, CommitVoid, Idle
      <4>2. job[v].sale \in Sales /\ sale[job[v].sale].status # "absent"
        BY <1>0, <3>2, <4>1, JobShape DEF RowsInUse
      <4>3. QED
        BY <3>1, <4>1, <4>2
    <3>3. QED
      BY <1>0, <3>1, <3>2 DEF RowsInUse
  <2>9. QED
    BY <1>0, <1>7, <2>4, <2>5, <2>6, <2>7, <2>8 DEF TypeInv, TypeOK, CommitVoid
<1>8. ASSUME NEW w \in Workers, NEW c \in Customers, NEW amount \in PayAmounts,
             BeginRecordPayment(w, c, amount)
      PROVE  TypeInv'
  <2> DEFINE left == [k \in CreditIds |-> IF Open(k) /\ credit[k].customer = c
                                            THEN credit[k].remaining ELSE 0]
  <2>1. left \in [CreditIds -> Nat]
    BY <1>0 DEF TypeOK, CreditRow
  <2>2. [at |-> "payWrite", customer |-> c, amount |-> amount, left |-> left] \in Job
    BY <2>1 DEF Job
  <2>3. job' = [job EXCEPT ![w] = [at |-> "payWrite", customer |-> c,
                                   amount |-> amount, left |-> left]]
    BY <1>8 DEF BeginRecordPayment
  <2>4. job' \in [Workers -> Job]
    BY <1>0, <2>2, <2>3 DEF TypeOK
  <2>5. RowsInUse'
    BY <1>0, <1>8, <2>3 DEF TypeOK, RowsInUse, BeginRecordPayment
  <2>6. QED
    BY <1>0, <1>8, <2>4, <2>5 DEF TypeInv, TypeOK, BeginRecordPayment
<1>9. ASSUME NEW w \in Workers, RecordPayment(w)
      PROVE  TypeInv'
  <2> DEFINE j == job[w]
  <2>1. j.customer \in Customers /\ j.amount \in Nat /\ j.left \in [CreditIds -> Nat]
    BY <1>0, <1>9, JobShape DEF RecordPayment
  <2>2. PICK take \in [CreditIds -> 0..j.amount] :
          /\ Fifo(take, j.left, j.amount)
          /\ credit' =
               [k \in CreditIds |->
                  IF take[k] = 0 THEN credit[k]
                  ELSE [credit[k] EXCEPT
                          !.remaining = j.left[k] - take[k],
                          !.status = StatusAfterPayment(j.left[k] - take[k]),
                          !.paid = @ + take[k]]]
    BY <1>9 DEF RecordPayment
  <2>3. ASSUME NEW k \in CreditIds
        PROVE  /\ take[k] \in Nat
               /\ j.left[k] - take[k] \in Nat
    <3>1. take[k] \in Nat /\ j.left[k] \in Nat
      <4>1. take[k] \in 0..j.amount
        BY <2>2
      <4>2. QED
        BY <2>1, <4>1
    <3>2. take[k] <= j.left[k]
      BY <2>2 DEF Fifo
    <3>3. QED
      BY <3>1, <3>2
  <2>4. \A k \in CreditIds : StatusAfterPayment(j.left[k] - take[k]) \in CreditStatus
    BY DEF StatusAfterPayment, CreditStatus
  <2>5. credit' \in [CreditIds -> CreditRow]
    <3>1. ASSUME NEW k \in CreditIds
          PROVE  [credit[k] EXCEPT
                    !.remaining = j.left[k] - take[k],
                    !.status = StatusAfterPayment(j.left[k] - take[k]),
                    !.paid = @ + take[k]] \in CreditRow
      <4>1. credit[k] \in CreditRow
        BY <1>0 DEF TypeOK
      <4>2. credit[k].paid + take[k] \in Nat
        BY <2>3, <4>1 DEF CreditRow
      <4>3. QED
        BY <2>3, <2>4, <4>1, <4>2, CreditUpdate
    <3>2. \A k \in CreditIds : credit[k] \in CreditRow
      BY <1>0 DEF TypeOK
    <3>3. QED
      BY <2>2, <3>1, <3>2
  <2>6. balance' \in [Customers -> Int]
    <3>1. BalanceAfter(j) \in Int
      BY <1>0, <2>1 DEF TypeOK, BalanceAfter
    <3>2. QED
      BY <1>0, <1>9, <3>1 DEF TypeOK, RecordPayment
  <2>7. job' \in [Workers -> Job]
    BY <1>0, <1>9 DEF TypeOK, RecordPayment
  <2>8. RowsInUse'
    BY <1>0, <1>9 DEF TypeOK, RowsInUse, RecordPayment, Idle
  <2>9. QED
    BY <1>0, <1>9, <2>5, <2>6, <2>7, <2>8 DEF TypeInv, TypeOK, RecordPayment
<1>10. ASSUME NEW w \in Workers, RollBack(w)
       PROVE  TypeInv'
  BY <1>0, <1>10 DEF TypeInv, TypeOK, RowsInUse, RollBack, Idle
<1>11. ASSUME NEW c \in Customers, NEW amount \in Grants, GrantManual(c, amount)
       PROVE  TypeInv'
  <2>1. credit' \in [CreditIds -> CreditRow] /\ balance' \in [Customers -> Int]
    BY <1>0, <1>11, CreateCreditType DEF GrantManual
  <2>2. QED
    BY <1>0, <1>11, <2>1 DEF TypeInv, TypeOK, RowsInUse, GrantManual
<1>12. ASSUME NEW p \in Products, NEW delta \in Adjustments,
              RecordManualMovement(p, delta)
       PROVE  TypeInv'
  <2>1. [stock EXCEPT ![p] = @ + delta] \in [Products -> Int]
    BY <1>0 DEF TypeOK
  <2>2. stock' \in [Products -> Int] /\ alert' \in [Products -> AlertKind]
    BY <1>0, <1>12, <2>1, MoveType DEF RecordManualMovement
  <2>3. adjusted' \in [Products -> Int]
    BY <1>0, <1>12 DEF TypeOK, RecordManualMovement
  <2>4. QED
    BY <1>0, <1>12, <2>2, <2>3 DEF TypeInv, TypeOK, RowsInUse, RecordManualMovement
<1>13. ASSUME NEW p \in Products, NEW on \in BOOLEAN, SetActive(p, on)
       PROVE  TypeInv'
  BY <1>0, <1>13 DEF TypeInv, TypeOK, RowsInUse, SetActive
<1>14. ASSUME UNCHANGED vars
       PROVE  TypeInv'
  BY <1>0, <1>14 DEF TypeInv, TypeOK, RowsInUse, vars
<1>15. QED
  BY <1>1, <1>2, <1>3, <1>4, <1>5, <1>6, <1>7, <1>8, <1>9, <1>10, <1>11, <1>12,
     <1>13, <1>14 DEF Next, Checkout, Void, PayCredit

LEMMA TypeInvariant == Spec => []TypeInv
<1>1. QED
  BY TypeInit, TypeNext, PTL DEF Spec

\* The rows of every table keep the shape of its schema, and every request is at
\* a step of its code, whatever the requests do concurrently.
THEOREM TypeCorrect == Spec => []TypeOK
<1>1. TypeInv => TypeOK
  BY DEF TypeInv
<1>2. QED
  BY <1>1, TypeInvariant, PTL

------------------------------------------------------------------------------
(* What the steps do to the sales *)

\* A checkout commits sale s for a basket whose request id is free.
Books(s, cart) ==
  /\ s \in Sales /\ cart \in Carts
  /\ ~Taken(cart)
  /\ sale[s].status = "absent"
  /\ counter' = counter + 1
  /\ sale' = [sale EXCEPT ![s] = [status |-> "completed", number |-> counter + 1,
                                  cart |-> cart, due |-> AmountDue(cart)]]

\* A void commits for sale s, whatever the sale has become since it was read.
Voids(s) ==
  /\ s \in Sales
  /\ sale[s].status # "absent"
  /\ counter' = counter
  /\ sale' = [sale EXCEPT ![s] = [@ EXCEPT !.status = "void"]]

LEMMA CommitCheckoutBooks ==
  ASSUME TypeInv, NEW w \in Workers, CommitCheckout(w)
  PROVE  \E s \in Sales : Books(s, job[w].cart)
<1>1. job[w].cart \in Carts
  BY JobShape DEF TypeInv, CommitCheckout
<1>2. QED
  BY <1>1 DEF CommitCheckout, Books, NextSaleNumber

LEMMA CommitVoidVoids ==
  ASSUME TypeInv, NEW w \in Workers, CommitVoid(w)
  PROVE  Voids(job[w].sale)
<1>1. job[w].sale \in Sales
  BY JobShape DEF TypeInv, CommitVoid
<1>2. sale[job[w].sale].status # "absent"
  BY DEF TypeInv, RowsInUse, CommitVoid
<1>3. QED
  BY <1>1, <1>2 DEF CommitVoid, Voids

\* No other step touches a sale or the counter.
LEMMA SaleStep ==
  ASSUME TypeInv, [Next]_vars
  PROVE  \/ UNCHANGED <<sale, counter>>
         \/ \E s, cart : Books(s, cart)
         \/ \E s : Voids(s)
<1>1. CASE \E w \in Workers : CommitCheckout(w)
  BY <1>1, CommitCheckoutBooks
<1>2. CASE \E w \in Workers : CommitVoid(w)
  BY <1>2, CommitVoidVoids
<1>3. CASE ~\E w \in Workers : CommitCheckout(w) \/ CommitVoid(w)
  BY <1>3 DEF Next, Checkout, Void, PayCredit, ReplayCheckout, BeginCheckout,
       LoseCheckoutRace, RollBack, BeginVoid, RestockForVoid, BeginRecordPayment,
       RecordPayment, GrantManual, RecordManualMovement, SetActive, vars
<1>4. QED
  BY <1>1, <1>2, <1>3

\* Which sales a request id names after a checkout: the new one if it is the
\* request's, else the same as before.
LEMMA BookedAfterBooks ==
  ASSUME TypeInv, NEW s, NEW cart, Books(s, cart), NEW r \in ReqIds
  PROVE  Booked(r)' = IF cart.req = r THEN {s} ELSE Booked(r)
<1>1. \A t \in Sales : sale'[t] = IF t = s THEN [status |-> "completed",
                                                number |-> counter + 1, cart |-> cart,
                                                due |-> AmountDue(cart)]
                                  ELSE sale[t]
  BY DEF TypeInv, TypeOK, Books
<1>2. s \in Sales /\ sale[s].status = "absent"
  BY DEF Books
<1>3. cart.req = r => Booked(r) = {}
  BY DEF Books, Taken
<1>4. QED
  BY <1>1, <1>2, <1>3 DEF Booked, Recorded

LEMMA BookedAfterVoids ==
  ASSUME TypeInv, NEW s, Voids(s)
  PROVE  /\ Recorded' = Recorded
         /\ \A t \in Sales : sale'[t].cart = sale[t].cart
         /\ \A t \in Sales : sale'[t].number = sale[t].number
         /\ \A r \in ReqIds : Booked(r)' = Booked(r)
<1>1. \A t \in Sales : sale[t] \in SaleRow
  BY DEF TypeInv, TypeOK
<1>2. \A t \in Sales : sale'[t] = IF t = s THEN [sale[t] EXCEPT !.status = "void"]
                                  ELSE sale[t]
  BY DEF TypeInv, TypeOK, Voids
<1>3. \A t \in Sales : /\ sale'[t].cart = sale[t].cart
                       /\ sale'[t].number = sale[t].number
                       /\ sale'[t].status # "absent" <=> sale[t].status # "absent"
  BY <1>1, <1>2 DEF SaleRow, Voids
<1>4. QED
  BY <1>3 DEF Booked, Recorded

\* A client is only ever answered with a sale its request id names.
LEMMA AnswerStep ==
  ASSUME TypeInv, [Next]_vars, NEW r \in ReqIds
  PROVE  answered'[r] \subseteq answered[r] \cup Booked(r)'
<1>0. answered \in [ReqIds -> SUBSET Sales]
  BY DEF TypeInv, TypeOK
<1>1. ASSUME NEW w \in Workers, NEW cart \in Carts, ReplayCheckout(w, cart)
      PROVE  answered'[r] \subseteq answered[r] \cup Booked(r)'
  <2>1. PICK s \in Booked(cart.req) : Answer(cart, s)
    BY <1>1 DEF ReplayCheckout
  <2>2. Booked(r)' = Booked(r)
    BY <1>1 DEF ReplayCheckout, Booked, Recorded
  <2>3. QED
    BY <1>0, <2>1, <2>2 DEF Answer
<1>2. ASSUME NEW w \in Workers, LoseCheckoutRace(w)
      PROVE  answered'[r] \subseteq answered[r] \cup Booked(r)'
  <2>1. PICK s \in Booked(job[w].cart.req) : Answer(job[w].cart, s)
    BY <1>2 DEF LoseCheckoutRace
  <2>2. Booked(r)' = Booked(r)
    BY <1>2 DEF LoseCheckoutRace, Booked, Recorded
  <2>3. QED
    BY <1>0, <2>1, <2>2 DEF Answer
<1>3. ASSUME NEW w \in Workers, CommitCheckout(w)
      PROVE  answered'[r] \subseteq answered[r] \cup Booked(r)'
  <2>1. PICK s \in Sales : /\ Books(s, job[w].cart)
                           /\ Answer(job[w].cart, s) \/ UNCHANGED answered
    <3>1. job[w].cart \in Carts
      BY <1>3, JobShape DEF TypeInv, CommitCheckout
    <3>2. QED
      BY <1>3, <3>1 DEF CommitCheckout, Books, NextSaleNumber
  <2>2. job[w].cart.req = r => Booked(r)' = {s}
    BY <2>1, BookedAfterBooks
  <2>3. QED
    BY <1>0, <2>1, <2>2 DEF Answer
<1>4. CASE ~\E w \in Workers : \/ CommitCheckout(w) \/ LoseCheckoutRace(w)
                               \/ \E cart \in Carts : ReplayCheckout(w, cart)
  BY <1>4 DEF Next, Checkout, Void, PayCredit, BeginCheckout, RollBack, BeginVoid,
       RestockForVoid, CommitVoid, BeginRecordPayment, RecordPayment, GrantManual,
       RecordManualMovement, SetActive, vars
<1>5. QED
  BY <1>1, <1>2, <1>3, <1>4

------------------------------------------------------------------------------
(* The safety invariants of the sales *)

\* OneSalePerRequest is inductive once the rows are typed: a checkout commits
\* only for a request id no recorded sale has, and a void keeps the baskets.
THEOREM OneSale == Spec => []OneSalePerRequest
<1>1. Init => OneSalePerRequest
  BY DEF Init, OneSalePerRequest, Booked, Recorded, AbsentSale
<1>2. TypeInv /\ OneSalePerRequest /\ [Next]_vars => OneSalePerRequest'
  <2> SUFFICES ASSUME TypeInv, OneSalePerRequest, [Next]_vars, NEW r \in ReqIds
               PROVE  /\ answered'[r] \subseteq Booked(r)'
                      /\ \A s, t \in Booked(r)' : s = t
    BY DEF OneSalePerRequest
  <2>1. /\ answered[r] \subseteq Booked(r)
        /\ \A s, t \in Booked(r) : s = t
    BY DEF OneSalePerRequest
  <2>2. /\ Booked(r) \subseteq Booked(r)'
        /\ \A s, t \in Booked(r)' : s = t
    <3>1. CASE UNCHANGED <<sale, counter>>
      BY <2>1, <3>1 DEF Booked, Recorded
    <3>2. ASSUME NEW s, NEW cart, Books(s, cart)
          PROVE  /\ Booked(r) \subseteq Booked(r)'
                 /\ \A t, u \in Booked(r)' : t = u
      <4>1. cart.req = r => Booked(r) = {}
        BY <3>2 DEF Books, Taken
      <4>2. QED
        BY <2>1, <3>2, <4>1, BookedAfterBooks
    <3>3. ASSUME NEW s, Voids(s)
          PROVE  Booked(r)' = Booked(r)
      BY <3>3, BookedAfterVoids
    <3>4. QED
      BY <2>1, <3>1, <3>2, <3>3, SaleStep
  <2>3. QED
    BY <2>1, <2>2, AnswerStep
<1>3. QED
  BY <1>1, <1>2, TypeInvariant, PTL DEF Spec

\* SaleNumbersGapFree is inductive: a checkout takes the number after the
\* counter, and the number and the counter are written by the same COMMIT.
THEOREM NumbersGapFree == Spec => []SaleNumbersGapFree
<1>1. Init => SaleNumbersGapFree
  BY DEF Init, SaleNumbersGapFree, Recorded, AbsentSale
<1>2. TypeInv /\ SaleNumbersGapFree /\ [Next]_vars => SaleNumbersGapFree'
  <2> SUFFICES ASSUME TypeInv, SaleNumbersGapFree, [Next]_vars
               PROVE  SaleNumbersGapFree'
    OBVIOUS
  <2>0. counter \in Nat /\ \A s \in Sales : sale[s].number \in Nat
    BY DEF TypeInv, TypeOK, SaleRow
  <2>1. CASE UNCHANGED <<sale, counter>>
    BY <2>1 DEF SaleNumbersGapFree, Recorded
  <2>2. ASSUME NEW s, NEW cart, Books(s, cart)
        PROVE  SaleNumbersGapFree'
    <3>1. /\ counter' = counter + 1
          /\ s \in Sales \ Recorded
      BY <2>2 DEF Books, Recorded
    <3>2. /\ sale'[s].number = counter + 1
          /\ sale'[s].status = "completed"
          /\ \A t \in Sales \ {s} : sale'[t] = sale[t]
      BY <2>2 DEF TypeInv, TypeOK, Books
    <3>3. Recorded' = Recorded \cup {s}
      BY <3>1, <3>2 DEF Recorded
    <3>4. \A t \in Recorded : t # s /\ sale'[t].number = sale[t].number
      BY <3>1, <3>2 DEF Recorded
    <3>5. \A t \in Recorded' : sale'[t].number \in 1..counter'
      BY <2>0, <3>1, <3>2, <3>3, <3>4 DEF SaleNumbersGapFree
    <3>6. \A n \in 1..counter' : \E t \in Recorded' : sale'[t].number = n
      <4>1. ASSUME NEW n \in 1..counter'
            PROVE  n \in 1..counter \/ n = counter + 1
        BY <2>0, <3>1
      <4>2. QED
        BY <3>2, <3>3, <3>4, <4>1 DEF SaleNumbersGapFree
    <3>7. \A t, u \in Recorded' : sale'[t].number = sale'[u].number => t = u
      <4>1. \A t \in Recorded : sale[t].number # counter + 1
        BY <2>0 DEF SaleNumbersGapFree
      <4>2. QED
        BY <3>2, <3>3, <3>4, <4>1 DEF SaleNumbersGapFree
    <3>8. QED
      BY <3>5, <3>6, <3>7 DEF SaleNumbersGapFree
  <2>3. ASSUME NEW s, Voids(s)
        PROVE  SaleNumbersGapFree'
    <3>1. counter' = counter
      BY <2>3 DEF Voids
    <3>2. Recorded' = Recorded /\ \A t \in Recorded : sale'[t].number = sale[t].number
      BY <2>3, BookedAfterVoids DEF Recorded
    <3>3. QED
      BY <3>1, <3>2 DEF SaleNumbersGapFree
  <2>4. QED
    BY <2>1, <2>2, <2>3, SaleStep
<1>3. QED
  BY <1>1, <1>2, TypeInvariant, PTL DEF Spec

------------------------------------------------------------------------------
(* What the steps do to the stock *)

\* Some sale rung up offline took product p out.
OfflineOut(p) ==
  \E s \in Recorded : sale[s].cart.offline /\ sale[s].cart.lines[p] > 0

\* Recorded sales keep their baskets, so this stays true once it is.
LEMMA OfflineOutStays ==
  ASSUME TypeInv, [Next]_vars, NEW p \in Products, OfflineOut(p)
  PROVE  OfflineOut(p)'
<1>1. PICK s \in Recorded : sale[s].cart.offline /\ sale[s].cart.lines[p] > 0
  BY DEF OfflineOut
<1>2. s \in Recorded' /\ sale'[s].cart = sale[s].cart
  <2>1. CASE UNCHANGED <<sale, counter>>
    BY <2>1 DEF Recorded
  <2>2. ASSUME NEW t, NEW cart, Books(t, cart)
        PROVE  s \in Recorded' /\ sale'[s].cart = sale[s].cart
    BY <2>2 DEF TypeInv, TypeOK, Recorded, Books
  <2>3. ASSUME NEW t, Voids(t)
        PROVE  s \in Recorded' /\ sale'[s].cart = sale[s].cart
    BY <2>3, BookedAfterVoids DEF Recorded
  <2>4. QED
    BY <2>1, <2>2, <2>3, SaleStep
<1>3. QED
  BY <1>1, <1>2 DEF OfflineOut

\* The stock moves by Move or not at all, and a product sinks below zero only in
\* the checkout of an offline sale.
LEMMA StockStep ==
  ASSUME TypeInv, [Next]_vars
  PROVE  \/ UNCHANGED <<stock, alert>>
         \/ \E level \in [Products -> Int] :
              /\ Move(level)
              /\ \A p \in Products :
                   level[p] >= stock[p] \/ level[p] >= 0 \/ OfflineOut(p)'
<1> DEFINE Good(level) ==
      /\ Move(level)
      /\ \A p \in Products :
           level[p] >= stock[p] \/ level[p] >= 0 \/ OfflineOut(p)'
<1>0. stock \in [Products -> Int]
  BY DEF TypeInv, TypeOK
<1>1. ASSUME NEW w \in Workers, CommitCheckout(w)
      PROVE  \E level \in [Products -> Int] : Good(level)
  <2> DEFINE cart == job[w].cart
             level == [p \in Products |-> stock[p] - cart.lines[p]]
  <2>1. PICK s \in Sales : Books(s, cart)
    BY <1>1, CommitCheckoutBooks
  <2>2. cart \in Carts /\ cart.lines \in [Products -> Nat] /\ cart.offline \in BOOLEAN
    BY <2>1, CartShape DEF Books
  <2>3. level \in [Products -> Int]
    BY <1>0, <2>2
  <2>4. Move(level)
    BY <1>1 DEF CommitCheckout
  <2>5. sale'[s].cart = cart /\ s \in Recorded'
    BY <2>1 DEF TypeInv, TypeOK, Books, Recorded
  <2>6. ASSUME NEW p \in Products
        PROVE  level[p] >= stock[p] \/ level[p] >= 0 \/ OfflineOut(p)'
    <3>1. cart.lines[p] \in Nat /\ stock[p] \in Int
      BY <1>0, <2>2
    <3>2. CASE cart.lines[p] = 0
      BY <3>1, <3>2
    <3>3. CASE cart.lines[p] > 0 /\ cart.offline
      BY <2>5, <3>3 DEF OfflineOut
    <3>4. CASE cart.lines[p] > 0 /\ ~cart.offline
      <4>1. stock[p] >= cart.lines[p]
        BY <1>1, <3>4 DEF CommitCheckout, Guarded, EnoughStock
      <4>2. QED
        BY <3>1, <4>1
    <3>5. QED
      BY <2>2, <3>1, <3>2, <3>3, <3>4
  <2>7. Good(level)
    BY <2>4, <2>6
  <2>8. QED
    BY <2>3, <2>7
<1>2. ASSUME NEW w \in Workers, CommitVoid(w)
      PROVE  \E level \in [Products -> Int] : Good(level)
  <2> DEFINE s == job[w].sale
             level == [p \in Products |-> stock[p] + sale[s].cart.lines[p]]
  <2>1. Voids(s)
    BY <1>2, CommitVoidVoids
  <2>2. sale[s].cart.lines \in [Products -> Nat]
    BY <2>1, CartShape DEF Voids, TypeInv, RowsInUse
  <2>3. level \in [Products -> Int] /\ \A p \in Products : level[p] >= stock[p]
    BY <1>0, <2>2
  <2>4. Move(level)
    BY <1>2 DEF CommitVoid
  <2>5. QED
    BY <2>3, <2>4
<1>3. ASSUME NEW p \in Products, NEW delta \in Adjustments,
             RecordManualMovement(p, delta)
      PROVE  \E level \in [Products -> Int] : Good(level)
  <2> DEFINE level == [stock EXCEPT ![p] = @ + delta]
  <2>1. delta \in Int
    BY LedgerAssumption
  <2>2. level \in [Products -> Int]
    BY <1>0, <2>1
  <2>3. ASSUME NEW q \in Products
        PROVE  level[q] >= stock[q] \/ level[q] >= 0
    <3>1. CASE q # p
      BY <1>0, <3>1
    <3>2. CASE q = p
      BY <1>0, <1>3, <2>1, <3>2 DEF RecordManualMovement, EnoughStock
    <3>3. QED
      BY <3>1, <3>2
  <2>4. Move(level)
    BY <1>3 DEF RecordManualMovement
  <2>5. Good(level)
    BY <2>3, <2>4
  <2>6. QED
    BY <2>2, <2>5
<1>4. CASE ~ \/ \E w \in Workers : CommitCheckout(w) \/ CommitVoid(w)
             \/ \E p \in Products, delta \in Adjustments : RecordManualMovement(p, delta)
  BY <1>4 DEF Next, Checkout, Void, PayCredit, ReplayCheckout, BeginCheckout,
       LoseCheckoutRace, RollBack, BeginVoid, RestockForVoid, BeginRecordPayment,
       RecordPayment, GrantManual, SetActive, vars
<1>5. QED
  BY <1>1, <1>2, <1>3, <1>4

------------------------------------------------------------------------------
(* The safety invariants of the stock *)

\* NegativeOnlyOffline is inductive: the guarded decrement is the only way down
\* for everything but an offline sale, and that sale stays on record.
THEOREM NoOversell == Spec => []NegativeOnlyOffline
<1>1. Init => NegativeOnlyOffline
  <2> SUFFICES ASSUME Init, NEW p \in Products PROVE ~(stock[p] < 0)
    BY DEF NegativeOnlyOffline
  <2>1. QED
    BY LedgerAssumption DEF Init
<1>2. TypeInv /\ NegativeOnlyOffline /\ [Next]_vars => NegativeOnlyOffline'
  <2> SUFFICES ASSUME TypeInv, NegativeOnlyOffline, [Next]_vars,
                      NEW p \in Products, stock'[p] < 0
               PROVE  OfflineOut(p)'
    BY DEF NegativeOnlyOffline, OfflineOut
  <2>0. stock \in [Products -> Int]
    BY DEF TypeInv, TypeOK
  <2>1. stock'[p] \in Int /\ (stock'[p] >= stock[p] \/ OfflineOut(p)')
    <3>1. CASE UNCHANGED <<stock, alert>>
      BY <2>0, <3>1
    <3>2. ASSUME NEW level \in [Products -> Int], Move(level),
                 level[p] >= stock[p] \/ level[p] >= 0 \/ OfflineOut(p)'
          PROVE  stock'[p] \in Int /\ (stock'[p] >= stock[p] \/ OfflineOut(p)')
      BY <3>2 DEF Move
    <3>3. QED
      BY <3>1, <3>2, StockStep
  <2>2. CASE stock[p] < 0
    BY <2>2, OfflineOutStays DEF NegativeOnlyOffline, OfflineOut
  <2>3. CASE ~(stock[p] < 0)
    BY <2>0, <2>1, <2>3
  <2>4. QED
    BY <2>2, <2>3
<1>3. QED
  BY <1>1, <1>2, TypeInvariant, PTL DEF Spec

\* OwnersAlerted is inductive: a level below zero is announced when zero is
\* crossed, and stays announced because the threshold is crossed above zero.
THEOREM NothingUnannounced == Spec => []OwnersAlerted
<1>1. Init => OwnersAlerted
  <2> SUFFICES ASSUME Init, NEW p \in Products
               PROVE  /\ ~(stock[p] < 0)
                      /\ stock[p] = InitStock[p]
    BY LedgerAssumption DEF OwnersAlerted
  <2>1. QED
    BY LedgerAssumption DEF Init
<1>2. TypeInv /\ OwnersAlerted /\ [Next]_vars => OwnersAlerted'
  <2> SUFFICES ASSUME TypeInv, OwnersAlerted, [Next]_vars
               PROVE  OwnersAlerted'
    OBVIOUS
  <2>1. CASE UNCHANGED <<stock, alert>>
    BY <2>1 DEF OwnersAlerted
  <2>2. ASSUME NEW level \in [Products -> Int], Move(level), NEW p \in Products
        PROVE  /\ stock'[p] < 0 => alert'[p] = "STOCK_NEGATIVE"
               /\ InitStock[p] > Threshold[p] /\ stock'[p] <= Threshold[p] =>
                    alert'[p] # "none"
    <3>1. /\ stock'[p] = level[p]
          /\ alert'[p] = AlertOnThreshold(p, level[p])
      BY <2>2 DEF Move
    <3>2. /\ stock[p] \in Int /\ level[p] \in Int
          /\ Threshold[p] \in Nat \cup {-1} /\ InitStock[p] \in Nat
      BY <2>2, LedgerAssumption DEF TypeInv, TypeOK
    <3>3. /\ stock[p] < 0 => alert[p] = "STOCK_NEGATIVE"
          /\ InitStock[p] > Threshold[p] /\ stock[p] <= Threshold[p] =>
               alert[p] # "none"
      BY DEF OwnersAlerted
    <3>4. QED
      BY <3>1, <3>2, <3>3 DEF AlertOnThreshold
  <2>3. QED
    BY <2>1, <2>2, StockStep DEF OwnersAlerted
<1>3. QED
  BY <1>1, <1>2, TypeInvariant, PTL DEF Spec

------------------------------------------------------------------------------
(* The ledger implements the book of sales *)

\* The book and the statuses the ledger shows.
BookOf == [r \in ReqIds |-> Booked(r)]

StatusOf == [s \in Sales |-> sale[s].status]

LEMMA BookStep ==
  ASSUME TypeInv, [Next]_vars
  PROVE  [Book!Next]_(Book!bookVars)
<1>1. CASE UNCHANGED <<sale, counter>>
  <2>1. \A r : Booked(r)' = Booked(r)
    BY <1>1 DEF Booked, Recorded
  <2>2. BookOf' = BookOf /\ StatusOf' = StatusOf
    BY <1>1, <2>1 DEF BookOf, StatusOf
  <2>3. QED
    BY <2>2 DEF BookOf, StatusOf, Book!bookVars
<1>2. ASSUME NEW s, NEW cart, Books(s, cart)
      PROVE  Book!Next
  <2>1. s \in Sales /\ sale[s].status = "absent" /\ cart \in Carts
    BY <1>2 DEF Books
  <2>2. StatusOf' = [StatusOf EXCEPT ![s] = "completed"]
    <3>1. \A t \in Sales : sale'[t].status = IF t = s THEN "completed"
                                             ELSE sale[t].status
      BY <1>2 DEF TypeInv, TypeOK, Books
    <3>2. QED
      BY <2>1, <3>1 DEF StatusOf
  <2>3. StatusOf[s] = "absent"
    BY <2>1 DEF StatusOf
  <2>4. CASE cart.req \in ReqIds
    <3>1. Booked(cart.req) = {}
      BY <1>2, <2>4 DEF Books, Taken
    <3>2. BookOf[cart.req] = {}
      BY <2>4, <3>1 DEF BookOf
    <3>3. \A r \in ReqIds : Booked(r)' = IF cart.req = r THEN {s} ELSE Booked(r)
      BY <1>2, BookedAfterBooks
    <3>4. BookOf' = [BookOf EXCEPT ![cart.req] = {s}]
      BY <2>4, <3>3 DEF BookOf
    <3>5. Book!Record(cart.req, s)
      BY <2>2, <2>3, <3>2, <3>4 DEF Book!Record, BookOf, StatusOf
    <3>6. QED
      BY <2>1, <2>4, <3>5 DEF Book!Next
  <2>5. CASE cart.req \notin ReqIds
    <3>1. \A r \in ReqIds : Booked(r)' = Booked(r)
      BY <1>2, <2>5, BookedAfterBooks
    <3>2. BookOf' = BookOf
      BY <3>1 DEF BookOf
    <3>3. Book!RecordUnnamed(s)
      BY <2>2, <2>3, <3>2 DEF Book!RecordUnnamed, BookOf, StatusOf
    <3>4. QED
      BY <2>1, <3>3 DEF Book!Next
  <2>6. QED
    BY <2>4, <2>5
<1>3. ASSUME NEW s, Voids(s)
      PROVE  [Book!Next]_(Book!bookVars)
  <2>1. BookOf' = BookOf
    BY <1>3, BookedAfterVoids DEF BookOf
  <2>2. s \in Sales /\ sale[s] \in SaleRow /\ sale[s].status \in {"completed", "void"}
    BY <1>3 DEF TypeInv, TypeOK, Voids, SaleRow, SaleStatus
  <2>3. StatusOf' = [StatusOf EXCEPT ![s] = "void"]
    <3>1. sale'[s] = [sale[s] EXCEPT !.status = "void"]
      BY <1>3 DEF TypeInv, TypeOK, Voids
    <3>2. sale'[s].status = "void"
      BY <2>2, <3>1 DEF SaleRow
    <3>3. \A t \in Sales \ {s} : sale'[t] = sale[t]
      BY <1>3 DEF TypeInv, TypeOK, Voids
    <3>4. QED
      BY <3>2, <3>3 DEF StatusOf
  <2>4. CASE sale[s].status = "completed"
    <3>1. Book!VoidRecorded(s)
      BY <2>1, <2>2, <2>3, <2>4 DEF Book!VoidRecorded, BookOf, StatusOf
    <3>2. QED
      BY <2>2, <3>1 DEF Book!Next
  <2>5. CASE sale[s].status = "void"
    <3>1. StatusOf' = StatusOf
      BY <2>2, <2>3, <2>5 DEF StatusOf
    <3>2. QED
      BY <2>1, <3>1 DEF BookOf, StatusOf, Book!bookVars
  <2>6. QED
    BY <2>2, <2>4, <2>5
<1>4. QED
  BY <1>1, <1>2, <1>3, SaleStep

\* The sales, and which request id names which, follow the book: a COMMIT of a
\* checkout records one sale, a COMMIT of a void voids one, or, when another void
\* of the sale committed first, stutters; nothing else shows in the book.
THEOREM LedgerImplementsBook == Spec => ImplementsSaleBook
<1>1. Init => Book!Init
  <2> SUFFICES ASSUME Init PROVE Book!Init
    OBVIOUS
  <2>1. \A r \in ReqIds : Booked(r) = {}
    BY DEF Init, Booked, Recorded, AbsentSale
  <2>2. BookOf = [r \in ReqIds |-> {}]
    BY <2>1 DEF BookOf
  <2>3. StatusOf = [s \in Sales |-> "absent"]
    BY DEF Init, StatusOf, AbsentSale
  <2>4. QED
    BY <2>2, <2>3 DEF Book!Init, BookOf, StatusOf
<1>2. TypeInv /\ [Next]_vars => [Book!Next]_(Book!bookVars)
  BY BookStep
<1>3. QED
  BY <1>1, <1>2, TypeInvariant, PTL DEF Spec, ImplementsSaleBook, Book!Spec

------------------------------------------------------------------------------
(* The credits *)

\* One row of CreditStatusAgrees.
RowAgrees(row) ==
  /\ row.status = "open" => row.remaining = row.original /\ row.original > 0
  /\ row.status = "partially_paid" => row.remaining \in 1..(row.original - 1)
  /\ row.status \in {"absent", "paid", "void"} => row.remaining = 0

\* What a payment read may be outdated by the time it is written, but it was the
\* remaining amount of a credit, never more than the credit's original amount.
ReadsWithinOriginal ==
  \A w \in Workers : job[w].at = "payWrite" =>
    \A k \in CreditIds : job[w].left[k] > 0 =>
      credit[k].status # "absent" /\ job[w].left[k] <= credit[k].original

CreditInv == CreditStatusAgrees /\ ReadsWithinOriginal

\* A step keeps CreditInv when every row agrees after it, no credit disappears or
\* changes its original amount, and no payment starts.
LEMMA CreditInvKept ==
  ASSUME ReadsWithinOriginal,
         \A k \in CreditIds : RowAgrees(credit'[k]),
         \A k \in CreditIds : credit[k].status # "absent" =>
           credit'[k].status # "absent" /\ credit'[k].original = credit[k].original,
         \A w \in Workers : job'[w].at = "payWrite" => job'[w] = job[w]
  PROVE  CreditInv'
<1>1. CreditStatusAgrees'
  BY DEF CreditStatusAgrees, RowAgrees
<1>2. ReadsWithinOriginal'
  BY DEF ReadsWithinOriginal
<1>3. QED
  BY <1>1, <1>2 DEF CreditInv

LEMMA CreateCreditKeeps ==
  ASSUME TypeInv, CreditInv, NEW c, NEW s, NEW amount \in Nat \ {0},
         CreateCredit(c, s, amount), NEW k \in CreditIds
  PROVE  /\ RowAgrees(credit'[k])
         /\ credit[k].status # "absent" => credit'[k] = credit[k]
<1>1. PICK i \in CreditIds :
        /\ credit[i].status = "absent"
        /\ credit' = [credit EXCEPT ![i] = NewCredit(c, s, amount)]
  BY DEF CreateCredit
<1>2. credit'[k] = IF k = i THEN NewCredit(c, s, amount) ELSE credit[k]
  BY <1>1 DEF TypeInv, TypeOK
<1>3. RowAgrees(NewCredit(c, s, amount))
  BY DEF RowAgrees, NewCredit
<1>4. RowAgrees(credit[k])
  BY DEF CreditInv, CreditStatusAgrees, RowAgrees
<1>5. QED
  BY <1>1, <1>2, <1>3, <1>4

\* CreditInv is inductive, whatever payments and voids overwrite of each other.
LEMMA CreditNext == TypeInv /\ CreditInv /\ [Next]_vars => CreditInv'
<1> SUFFICES ASSUME TypeInv, CreditInv, [Next]_vars PROVE CreditInv'
  OBVIOUS
<1>0. /\ credit \in [CreditIds -> CreditRow] /\ job \in [Workers -> Job]
      /\ ReadsWithinOriginal
      /\ \A k \in CreditIds : RowAgrees(credit[k])
  BY DEF TypeInv, TypeOK, CreditInv, CreditStatusAgrees, RowAgrees
<1>1. ASSUME NEW w \in Workers, CommitCheckout(w)
      PROVE  CreditInv'
  <2>1. PICK s \in Sales :
          \/ UNCHANGED <<credit, balance>>
          \/ /\ AmountDue(job[w].cart) > 0
             /\ CreateCredit(job[w].cart.customer, s, AmountDue(job[w].cart))
    BY <1>1 DEF CommitCheckout
  <2>2. AmountDue(job[w].cart) \in Nat
    BY <1>1, JobShape, CartShape DEF TypeInv, CommitCheckout
  <2>3. \A v \in Workers : job'[v].at = "payWrite" => job'[v] = job[v]
    BY <1>0, <1>1 DEF CommitCheckout, Idle
  <2>4. \A k \in CreditIds : /\ RowAgrees(credit'[k])
                             /\ credit[k].status # "absent" => credit'[k] = credit[k]
    BY <1>0, <2>1, <2>2, CreateCreditKeeps
  <2>5. QED
    BY <1>0, <2>3, <2>4, CreditInvKept
<1>2. ASSUME NEW c \in Customers, NEW amount \in Grants, GrantManual(c, amount)
      PROVE  CreditInv'
  <2>1. amount \in Nat \ {0} /\ CreateCredit(c, NoSale, amount)
    BY <1>2, LedgerAssumption DEF GrantManual
  <2>2. \A k \in CreditIds : /\ RowAgrees(credit'[k])
                             /\ credit[k].status # "absent" => credit'[k] = credit[k]
    BY <2>1, CreateCreditKeeps
  <2>3. job' = job
    BY <1>2 DEF GrantManual
  <2>4. QED
    BY <1>0, <2>2, <2>3, CreditInvKept
<1>3. ASSUME NEW w \in Workers, CommitVoid(w)
      PROVE  CreditInv'
  <2>1. \A v \in Workers : job'[v].at = "payWrite" => job'[v] = job[v]
    BY <1>0, <1>3 DEF CommitVoid, Idle
  <2>2. ASSUME NEW i \in CreditIds
        PROVE  /\ RowAgrees(credit'[i])
               /\ credit[i].status # "absent" =>
                    credit'[i].status # "absent" /\ credit'[i].original = credit[i].original
    <3>1. credit'[i] = credit[i]
            \/ credit'[i] = [credit[i] EXCEPT !.remaining = 0, !.status = "void"]
      BY <1>0, <1>3 DEF CommitVoid
    <3>2. credit[i] \in CreditRow /\ RowAgrees(credit[i])
      BY <1>0
    <3>3. QED
      BY <3>1, <3>2 DEF CreditRow, RowAgrees
  <2>3. QED
    BY <1>0, <2>1, <2>2, CreditInvKept
<1>4. ASSUME NEW w \in Workers, RecordPayment(w)
      PROVE  CreditInv'
  <2> DEFINE j == job[w]
  <2>1. j.amount \in Nat /\ j.left \in [CreditIds -> Nat]
    BY <1>4, JobShape DEF TypeInv, RecordPayment
  <2>2. PICK take \in [CreditIds -> 0..j.amount] :
          /\ Fifo(take, j.left, j.amount)
          /\ credit' =
               [k \in CreditIds |->
                  IF take[k] = 0 THEN credit[k]
                  ELSE [credit[k] EXCEPT
                          !.remaining = j.left[k] - take[k],
                          !.status = StatusAfterPayment(j.left[k] - take[k]),
                          !.paid = @ + take[k]]]
    BY <1>4 DEF RecordPayment
  <2>3. \A v \in Workers : job'[v].at = "payWrite" => job'[v] = job[v]
    BY <1>0, <1>4 DEF RecordPayment, Idle
  <2>4. ASSUME NEW k \in CreditIds
        PROVE  /\ RowAgrees(credit'[k])
               /\ credit[k].status # "absent" =>
                    credit'[k].status # "absent" /\ credit'[k].original = credit[k].original
    <3>1. CASE take[k] = 0
      BY <1>0, <2>2, <3>1
    <3>2. CASE take[k] # 0
      <4>1. take[k] \in 0..j.amount
        BY <2>2
      <4>2. take[k] \in Nat \ {0} /\ j.left[k] \in Nat
        BY <2>1, <3>2, <4>1
      <4>3. take[k] <= j.left[k]
        BY <2>2 DEF Fifo
      <4>4. credit[k].status # "absent" /\ j.left[k] <= credit[k].original
        <5>1. j.left[k] > 0
          BY <4>2, <4>3
        <5>2. j.at = "payWrite"
          BY <1>4 DEF RecordPayment
        <5>3. QED
          BY <1>0, <5>1, <5>2 DEF ReadsWithinOriginal
      <4>5. credit[k] \in CreditRow
        BY <1>0
      <4>6. /\ credit'[k].remaining = j.left[k] - take[k]
            /\ credit'[k].status = StatusAfterPayment(j.left[k] - take[k])
            /\ credit'[k].original = credit[k].original
        BY <2>2, <3>2, <4>5 DEF CreditRow
      <4>7. credit[k].original \in Nat
        BY <4>5 DEF CreditRow
      <4>8. QED
        BY <4>2, <4>3, <4>4, <4>6, <4>7 DEF RowAgrees, StatusAfterPayment
    <3>3. QED
      BY <3>1, <3>2
  <2>5. QED
    BY <1>0, <2>3, <2>4, CreditInvKept
<1>5. ASSUME NEW w \in Workers, NEW c \in Customers, NEW amount \in PayAmounts,
             BeginRecordPayment(w, c, amount)
      PROVE  CreditInv'
  <2> DEFINE left == [k \in CreditIds |-> IF Open(k) /\ credit[k].customer = c
                                            THEN credit[k].remaining ELSE 0]
  <2>1. /\ job' = [job EXCEPT ![w] = [at |-> "payWrite", customer |-> c,
                                      amount |-> amount, left |-> left]]
        /\ credit' = credit
    BY <1>5 DEF BeginRecordPayment
  <2>2. ASSUME NEW k \in CreditIds, left[k] > 0
        PROVE  credit[k].status # "absent" /\ left[k] <= credit[k].original
    <3>1. credit[k] \in CreditRow /\ RowAgrees(credit[k])
      BY <1>0
    <3>2. Open(k) /\ left[k] = credit[k].remaining
      BY <2>2
    <3>3. credit[k].status \in {"open", "partially_paid"}
            /\ credit[k].original \in Nat /\ credit[k].remaining \in Nat
      BY <3>1, <3>2 DEF Open, CreditRow
    <3>4. QED
      BY <3>1, <3>2, <3>3 DEF RowAgrees
  <2>3. \A v \in Workers : job'[v] = job[v] \/ job'[v].left = left
    BY <1>0, <2>1
  <2>4. ReadsWithinOriginal'
    BY <1>0, <2>1, <2>2, <2>3 DEF ReadsWithinOriginal
  <2>5. CreditStatusAgrees'
    BY <2>1 DEF CreditInv, CreditStatusAgrees
  <2>6. QED
    BY <2>4, <2>5 DEF CreditInv
<1>6. CASE ~ \/ \E w \in Workers : \/ CommitCheckout(w) \/ CommitVoid(w)
                                   \/ PayCredit(w)
             \/ \E c \in Customers, amount \in Grants : GrantManual(c, amount)
  <2>1. credit' = credit
    BY <1>6 DEF Next, Checkout, Void, ReplayCheckout, BeginCheckout,
       LoseCheckoutRace, RollBack, BeginVoid, RestockForVoid,
       RecordManualMovement, SetActive, vars
  <2>2. ASSUME NEW w \in Workers, job'[w].at = "payWrite"
        PROVE  job'[w] = job[w]
    <3>1. CASE job' = job
      BY <3>1
    <3>2. ASSUME NEW v \in Workers, NEW step, step.at # "payWrite",
                 job' = [job EXCEPT ![v] = step]
          PROVE  job'[w] = job[w]
      BY <1>0, <2>2, <3>2
    <3>3. ASSUME NEW v \in Workers, RollBack(v) \/ LoseCheckoutRace(v)
          PROVE  job'[w] = job[w]
      BY <3>2, <3>3 DEF RollBack, LoseCheckoutRace, Idle
    <3>4. ASSUME NEW v \in Workers, NEW cart \in Carts,
                 ReplayCheckout(v, cart) \/ BeginCheckout(v, cart)
          PROVE  job'[w] = job[w]
      BY <3>1, <3>2, <3>4 DEF ReplayCheckout, BeginCheckout
    <3>5. ASSUME NEW v \in Workers, NEW s \in Sales, BeginVoid(v, s)
          PROVE  job'[w] = job[w]
      BY <3>2, <3>5 DEF BeginVoid
    <3>6. ASSUME NEW v \in Workers, RestockForVoid(v)
          PROVE  job'[w] = job[w]
      BY <3>2, <3>6 DEF RestockForVoid
    <3>7. QED
      BY <1>6, <3>1, <3>3, <3>4, <3>5, <3>6
         DEF Next, Checkout, Void, RecordManualMovement, SetActive, vars
  <2>3. QED
    BY <1>0, <2>1, <2>2, CreditInvKept
<1>7. QED
  BY <1>1, <1>2, <1>3, <1>4, <1>5, <1>6 DEF PayCredit

\* CreditStatusAgrees holds whatever reads are outdated: a payment writes what it
\* read less what it takes, and what it read was never above the original.
THEOREM StatusAgrees == Spec => []CreditStatusAgrees
<1>1. Init => CreditInv
  <2> SUFFICES ASSUME Init PROVE CreditInv
    OBVIOUS
  <2>1. CreditStatusAgrees
    BY DEF Init, CreditStatusAgrees, AbsentCredit
  <2>2. ReadsWithinOriginal
    BY DEF Init, ReadsWithinOriginal, Idle
  <2>3. QED
    BY <2>1, <2>2 DEF CreditInv
<1>2. CreditInv => CreditStatusAgrees
  BY DEF CreditInv
<1>3. QED
  BY <1>1, <1>2, CreditNext, TypeInvariant, PTL DEF Spec

------------------------------------------------------------------------------
(* Sums over a finite set *)

\* SumFunction is a recursive function on the subsets of a domain: it takes some
\* element of the subset first and then sums the rest.
First(s) == CHOOSE x \in s : TRUE

Rest(s) == s \ {First(s)}

SumBody(f, it, s) == IF s = {} THEN 0 ELSE f[First(s)] + it[Rest(s)]

IsSums(f, S, it) == it = [s \in SUBSET S |-> SumBody(f, it, s)]

Sums(f, S) == CHOOSE it : IsSums(f, S, it)

LEMMA SumIsRecursive ==
  ASSUME NEW f
  PROVE  SumFunction(f) = Sums(f, DOMAIN f)[DOMAIN f]
BY DEF SumFunction, SumFunctionOnSet, FoldFunctionOnSet, MapThenFoldSet, Sums,
       IsSums, SumBody, Rest, First

\* A set of subsets of a finite set has a smallest one.
LEMMA SmallestSubset ==
  ASSUME NEW S, IsFiniteSet(S), NEW T, T \subseteq SUBSET S, T # {}
  PROVE  \E s \in T : \A u \in T : u \subseteq s => u = s
<1> DEFINE D == FiniteSubsetsOf(S)
           R == StrictSubsetOrdering(S)
<1>1. T \subseteq D
  BY FS_Subset DEF FiniteSubsetsOf
<1>2. IsWellFoundedOn(R, D)
  BY FS_StrictSubsetOrderingWellFounded
<1>3. \A u, s \in T : u \subseteq s /\ u # s => <<u, s>> \in R
  BY DEF StrictSubsetOrdering
<1> HIDE DEF D, R
<1>4. \E s \in T : \A u \in T : ~(<<u, s>> \in R)
  BY <1>1, <1>2, WFMin
<1>5. QED
  BY <1>3, <1>4

LEMMA RestIsLess ==
  ASSUME NEW s, s # {}
  PROVE  First(s) \in s /\ Rest(s) \subseteq s /\ Rest(s) # s
BY DEF First, Rest

\* Partial sums do not depend on the set they are partial sums in.
LEMMA SumsAgree ==
  ASSUME NEW f, NEW A, NEW B, NEW g, NEW h, IsSums(f, A, g), IsSums(f, B, h),
         NEW S, IsFiniteSet(S), S \subseteq A, S \subseteq B
  PROVE  g[S] = h[S]
<1> DEFINE T == {s \in SUBSET S : g[s] # h[s]}
<1>1. SUFFICES T = {}
  OBVIOUS
<1>2. SUFFICES ASSUME T # {} PROVE FALSE
  OBVIOUS
<1>3. PICK s \in T : \A u \in T : u \subseteq s => u = s
  <2>1. T \subseteq SUBSET S
    OBVIOUS
  <2> HIDE DEF T
  <2>2. QED
    BY <1>2, <2>1, SmallestSubset
<1>4. g[s] = SumBody(f, g, s) /\ h[s] = SumBody(f, h, s)
  BY DEF IsSums
<1>5. CASE s = {}
  BY <1>4, <1>5 DEF SumBody
<1>6. CASE s # {}
  <2>1. Rest(s) \notin T /\ Rest(s) \in SUBSET S
    BY <1>3, <1>6, RestIsLess
  <2>2. g[Rest(s)] = h[Rest(s)]
    BY <2>1
  <2>3. QED
    BY <1>4, <1>6, <2>2 DEF SumBody
<1>7. QED
  BY <1>5, <1>6

\* A fold over a finite set is well defined.
LEMMA SumsExist ==
  ASSUME NEW f, NEW S, IsFiniteSet(S)
  PROVE  \E g : IsSums(f, S, g)
<1> DEFINE T == {s \in SUBSET S : ~\E g : IsSums(f, s, g)}
<1>1. SUFFICES ASSUME T # {} PROVE FALSE
  OBVIOUS
<1>2. PICK s \in T : \A u \in T : u \subseteq s => u = s
  <2>1. T \subseteq SUBSET S
    OBVIOUS
  <2> HIDE DEF T
  <2>2. QED
    BY <1>1, <2>1, SmallestSubset
<1>3. \A u \in SUBSET s : u # s => IsSums(f, u, Sums(f, u))
  BY <1>2 DEF Sums
<1> DEFINE value(u) == Sums(f, Rest(u))[Rest(u)]
           g == [u \in SUBSET s |-> IF u = {} THEN 0 ELSE f[First(u)] + value(u)]
<1>4. ASSUME NEW u \in SUBSET s, u # {}
      PROVE  g[Rest(u)] = value(u)
  <2> DEFINE r == Rest(u)
  <2>1. r \in SUBSET s /\ r # s /\ IsFiniteSet(r)
    BY <1>3, <1>4, RestIsLess, FS_Subset
  <2>2. IsSums(f, r, Sums(f, r))
    BY <1>3, <2>1
  <2>3. value(u) = SumBody(f, Sums(f, r), r)
    BY <2>2 DEF IsSums
  <2>4. CASE r = {}
    BY <2>1, <2>3, <2>4 DEF SumBody
  <2>5. CASE r # {}
    <3>1. Rest(r) \in SUBSET r /\ Rest(r) # s /\ IsFiniteSet(Rest(r))
      BY <2>1, <2>5, RestIsLess, FS_Subset
    <3>2. IsSums(f, Rest(r), Sums(f, Rest(r)))
      BY <1>3, <2>1, <3>1
    <3>3. Sums(f, Rest(r))[Rest(r)] = Sums(f, r)[Rest(r)]
      BY <2>2, <3>1, <3>2, SumsAgree
    <3>4. QED
      BY <2>1, <2>3, <2>5, <3>3 DEF SumBody
  <2>6. QED
    BY <2>4, <2>5
<1>5. \A u \in SUBSET s : g[u] = SumBody(f, g, u)
  BY <1>4 DEF SumBody
<1>6. IsSums(f, s, g)
  BY <1>5 DEF IsSums
<1>7. QED
  BY <1>6

\* What a sum over a finite set is made of.
LEMMA SumsStep ==
  ASSUME NEW f, NEW S, IsFiniteSet(S), NEW s \in SUBSET S
  PROVE  Sums(f, S)[s] = SumBody(f, Sums(f, S), s)
<1>1. IsSums(f, S, Sums(f, S))
  BY SumsExist DEF Sums
<1>2. QED
  BY <1>1 DEF IsSums

\* The sum over an empty set is zero, the sum over any other is the first value
\* plus the sum of the rest.
LEMMA SumSmaller ==
  ASSUME NEW f, NEW S, IsFiniteSet(S), NEW s \in SUBSET S, s # {}
  PROVE  /\ First(s) \in S
         /\ Rest(s) \in SUBSET S
         /\ Sums(f, S)[s] = f[First(s)] + Sums(f, S)[Rest(s)]
BY SumsStep, RestIsLess DEF SumBody

LEMMA SumEmpty ==
  ASSUME NEW f, NEW S, IsFiniteSet(S)
  PROVE  Sums(f, S)[{}] = 0
BY SumsStep DEF SumBody

LEMMA SumType ==
  ASSUME NEW S, IsFiniteSet(S), NEW f \in [S -> Int]
  PROVE  SumFunction(f) \in Int
<1> DEFINE T == {s \in SUBSET S : Sums(f, S)[s] \notin Int}
<1>1. ASSUME T # {} PROVE FALSE
  <2>1. PICK s \in T : \A u \in T : u \subseteq s => u = s
    <3>1. T \subseteq SUBSET S
      OBVIOUS
    <3> HIDE DEF T
    <3>2. QED
      BY <1>1, <3>1, SmallestSubset
  <2>2. s \in SUBSET S /\ s # {}
    BY SumEmpty
  <2>3. Sums(f, S)[Rest(s)] \in Int
    BY <2>1, <2>2, RestIsLess, SumSmaller
  <2>4. QED
    BY <2>2, <2>3, SumSmaller
<1>2. Sums(f, S)[S] \in Int
  BY <1>1
<1>3. QED
  BY <1>2, SumIsRecursive

\* Adding two functions adds their sums.
LEMMA SumAdds ==
  ASSUME NEW S, IsFiniteSet(S), NEW f \in [S -> Int], NEW g \in [S -> Int],
         NEW h \in [S -> Int], \A k \in S : f[k] = g[k] + h[k]
  PROVE  SumFunction(f) = SumFunction(g) + SumFunction(h)
<1> DEFINE Adds(s) == /\ Sums(g, S)[s] \in Int
                      /\ Sums(h, S)[s] \in Int
                      /\ Sums(f, S)[s] = Sums(g, S)[s] + Sums(h, S)[s]
           T == {s \in SUBSET S : ~Adds(s)}
<1>1. ASSUME T # {} PROVE FALSE
  <2>1. PICK s \in T : \A u \in T : u \subseteq s => u = s
    <3>1. T \subseteq SUBSET S
      OBVIOUS
    <3> HIDE DEF T
    <3>2. QED
      BY <1>1, <3>1, SmallestSubset
  <2>2. s \in SUBSET S /\ s # {}
    <3>1. Adds({})
      BY SumEmpty
    <3>2. s \in SUBSET S /\ ~Adds(s)
      BY <2>1
    <3> HIDE DEF Adds
    <3>3. QED
      BY <3>1, <3>2
  <2>3. Adds(Rest(s))
    <3> HIDE DEF Adds
    <3>1. QED
      BY <2>1, <2>2, RestIsLess, SumSmaller
  <2>4. First(s) \in S
    BY <2>2, SumSmaller
  <2>5. /\ f[First(s)] = g[First(s)] + h[First(s)]
        /\ g[First(s)] \in Int /\ h[First(s)] \in Int
    BY <2>4
  <2>6. /\ Sums(f, S)[s] = f[First(s)] + Sums(f, S)[Rest(s)]
        /\ Sums(g, S)[s] = g[First(s)] + Sums(g, S)[Rest(s)]
        /\ Sums(h, S)[s] = h[First(s)] + Sums(h, S)[Rest(s)]
    BY <2>2, SumSmaller
  <2>7. Adds(s)
    BY <2>3, <2>5, <2>6
  <2>8. QED
    BY <2>7
<1>2. Adds(S)
  BY <1>1
<1>3. QED
  BY <1>2, SumIsRecursive

\* The sum of a function that is zero but at i is its value at i.
LEMMA SumAtOne ==
  ASSUME NEW S, IsFiniteSet(S), NEW f \in [S -> Int], NEW i \in S,
         \A k \in S \ {i} : f[k] = 0
  PROVE  SumFunction(f) = f[i]
<1> DEFINE One(s) == Sums(f, S)[s] = IF i \in s THEN f[i] ELSE 0
           T == {s \in SUBSET S : ~One(s)}
<1>1. ASSUME T # {} PROVE FALSE
  <2>1. PICK s \in T : \A u \in T : u \subseteq s => u = s
    <3>1. T \subseteq SUBSET S
      OBVIOUS
    <3> HIDE DEF T
    <3>2. QED
      BY <1>1, <3>1, SmallestSubset
  <2>2. s \in SUBSET S /\ s # {}
    <3>1. One({})
      BY SumEmpty
    <3> HIDE DEF One
    <3>2. QED
      BY <3>1
  <2>3. One(Rest(s))
    <3> HIDE DEF One
    <3>1. QED
      BY <2>1, <2>2, RestIsLess, SumSmaller
  <2>4. First(s) \in s
    BY <2>2, RestIsLess
  <2>5. Sums(f, S)[s] = f[First(s)] + Sums(f, S)[Rest(s)]
    BY <2>2, SumSmaller
  <2>6. f[i] \in Int
    OBVIOUS
  <2>7. CASE First(s) = i
    <3>1. i \notin Rest(s)
      BY <2>7 DEF Rest
    <3>2. One(s)
      BY <2>3, <2>4, <2>5, <2>6, <2>7, <3>1
    <3>3. QED
      BY <3>2
  <2>8. CASE First(s) # i
    <3>1. f[First(s)] = 0 /\ (i \in Rest(s) <=> i \in s)
      BY <2>2, <2>4, <2>8 DEF Rest
    <3>2. One(s)
      BY <2>3, <2>5, <2>6, <3>1
    <3>3. QED
      BY <3>2
  <2>9. QED
    BY <2>7, <2>8
<1>2. One(S)
  BY <1>1
<1>3. QED
  BY <1>2, SumIsRecursive

\* Changing one value changes the sum by the difference.
LEMMA SumChange ==
  ASSUME NEW S, IsFiniteSet(S), NEW f \in [S -> Int], NEW g \in [S -> Int],
         NEW i \in S, \A k \in S \ {i} : g[k] = f[k]
  PROVE  /\ SumFunction(f) \in Int
         /\ SumFunction(g) = SumFunction(f) + (g[i] - f[i])
<1> DEFINE d == [k \in S |-> g[k] - f[k]]
<1>1. d \in [S -> Int] /\ d[i] = g[i] - f[i]
  OBVIOUS
<1>2. \A k \in S \ {i} : d[k] = 0
  OBVIOUS
<1>3. \A k \in S : g[k] = f[k] + d[k]
  OBVIOUS
<1> HIDE DEF d
<1>4. SumFunction(d) = d[i]
  BY <1>1, <1>2, SumAtOne
<1>5. ASSUME NEW h \in [S -> Int], \A k \in S : g[k] = f[k] + h[k]
      PROVE  SumFunction(g) = SumFunction(f) + SumFunction(h)
  BY <1>5, SumAdds
<1>6. QED
  BY <1>1, <1>3, <1>4, <1>5, SumType

LEMMA SumZero ==
  ASSUME NEW S, IsFiniteSet(S), NEW f \in [S -> Int], \A k \in S : f[k] = 0
  PROVE  SumFunction(f) = 0
<1>1. SumFunction(f) = SumFunction(f) + SumFunction(f)
  BY SumAdds
<1>2. QED
  BY <1>1, SumType

------------------------------------------------------------------------------
(* What a customer owes, whatever interleaves *)

\* What the credits of a customer were granted for, less what was paid on them.
Owed(rows, c) == [k \in CreditIds |-> IF rows[k].customer = c
                                        THEN rows[k].original - rows[k].paid
                                        ELSE 0]

LEMMA OwedType ==
  ASSUME NEW rows \in [CreditIds -> CreditRow], NEW c
  PROVE  Owed(rows, c) \in [CreditIds -> Int]
<1>1. \A k \in CreditIds : rows[k] \in CreditRow
  OBVIOUS
<1>2. QED
  BY <1>1 DEF Owed, CreditRow

\* A credit identifier not in use names the empty row, and the credits a payment
\* is about to write are those of its customer.
CreditsOwned ==
  /\ \A k \in CreditIds : credit[k].status = "absent" => credit[k] = AbsentCredit
  /\ \A w \in Workers : job[w].at = "payWrite" =>
       \A k \in CreditIds :
         job[w].left[k] > 0 => credit[k].customer = job[w].customer

\* A step grants customer c an amount, for sale s that it records or for none.
GrantsCredit(c, s, amount) ==
  /\ c \in Customers \cup {NoCustomer}
  /\ \/ s = NoSale /\ UNCHANGED sale
     \/ /\ s \in Sales
        /\ sale[s].status = "absent"
        /\ sale'[s].status = "completed"
  /\ amount \in Nat \ {0}
  /\ CreateCredit(c, s, amount)
  /\ UNCHANGED waived
  /\ \A w \in Workers : job'[w].at = "payWrite" => job'[w] = job[w]

\* The steps that touch a credit or a balance.
LEMMA CreditStep ==
  ASSUME TypeInv, [Next]_vars
  PROVE  \/ UNCHANGED <<credit, balance, waived>>
         \/ \E c, s, amount : GrantsCredit(c, s, amount)
         \/ \E w \in Workers : CommitVoid(w) \/ RecordPayment(w)
<1>1. ASSUME NEW w \in Workers, CommitCheckout(w)
      PROVE  \/ UNCHANGED <<credit, balance, waived>>
             \/ \E c, s, amount : GrantsCredit(c, s, amount)
  <2>1. PICK s \in Sales :
          /\ sale[s].status = "absent"
          /\ sale' = [sale EXCEPT ![s] =
                        [status |-> "completed", number |-> NextSaleNumber,
                         cart |-> job[w].cart, due |-> AmountDue(job[w].cart)]]
          /\ \/ UNCHANGED <<credit, balance>>
             \/ /\ AmountDue(job[w].cart) > 0
                /\ CreateCredit(job[w].cart.customer, s, AmountDue(job[w].cart))
    BY <1>1 DEF CommitCheckout
  <2>2. /\ AmountDue(job[w].cart) \in Nat
        /\ job[w].cart.customer \in Customers \cup {NoCustomer}
    BY <1>1, JobShape, CartShape DEF TypeInv, CommitCheckout
  <2>3. \A v \in Workers : job'[v].at = "payWrite" => job'[v] = job[v]
    BY <1>1 DEF TypeInv, TypeOK, CommitCheckout, Idle
  <2>4. UNCHANGED waived
    BY <1>1 DEF CommitCheckout
  <2>5. CASE AmountDue(job[w].cart) > 0
               /\ CreateCredit(job[w].cart.customer, s, AmountDue(job[w].cart))
    <3>1. sale'[s].status = "completed"
      BY <2>1 DEF TypeInv, TypeOK
    <3>2. GrantsCredit(job[w].cart.customer, s, AmountDue(job[w].cart))
      BY <2>1, <2>2, <2>3, <2>4, <2>5, <3>1 DEF GrantsCredit
    <3>3. QED
      BY <3>2
  <2>6. QED
    BY <2>1, <2>4, <2>5
<1>2. ASSUME NEW c \in Customers, NEW amount \in Grants, GrantManual(c, amount)
      PROVE  \E d, s, n : GrantsCredit(d, s, n)
  <2>1. GrantsCredit(c, NoSale, amount)
    BY <1>2, LedgerAssumption DEF GrantsCredit, GrantManual
  <2>2. QED
    BY <2>1
<1>3. CASE ~ \/ \E w \in Workers : \/ CommitCheckout(w) \/ CommitVoid(w)
                                   \/ RecordPayment(w)
             \/ \E c \in Customers, amount \in Grants : GrantManual(c, amount)
  BY <1>3 DEF Next, Checkout, Void, PayCredit, ReplayCheckout, BeginCheckout,
     LoseCheckoutRace, RollBack, BeginVoid, RestockForVoid, BeginRecordPayment,
     RecordManualMovement, SetActive, vars
<1>4. QED
  BY <1>1, <1>2, <1>3

\* A payment about to write has just read the credits, or was there before.
LEMMA PaymentStep ==
  ASSUME TypeInv, [Next]_vars, NEW w \in Workers, job'[w].at = "payWrite"
  PROVE  \/ job'[w] = job[w]
         \/ \E c \in Customers, amount \in PayAmounts :
              BeginRecordPayment(w, c, amount)
<1>0. job \in [Workers -> Job]
  BY DEF TypeInv, TypeOK
<1>1. ASSUME NEW v \in Workers, NEW step, step.at # "payWrite",
             job' = [job EXCEPT ![v] = step]
      PROVE  job'[w] = job[w]
  BY <1>0, <1>1
<1>2. ASSUME NEW v \in Workers,
             \/ RollBack(v) \/ LoseCheckoutRace(v) \/ CommitCheckout(v)
             \/ CommitVoid(v) \/ RecordPayment(v)
      PROVE  job'[w] = job[w]
  <2>1. job' = [job EXCEPT ![v] = Idle]
    BY <1>2 DEF RollBack, LoseCheckoutRace, CommitCheckout, CommitVoid, RecordPayment
  <2>2. QED
    BY <1>1, <2>1 DEF Idle
<1>3. ASSUME NEW v \in Workers, NEW cart \in Carts,
             ReplayCheckout(v, cart) \/ BeginCheckout(v, cart)
      PROVE  job'[w] = job[w]
  BY <1>1, <1>3 DEF ReplayCheckout, BeginCheckout
<1>4. ASSUME NEW v \in Workers, NEW s \in Sales, BeginVoid(v, s)
      PROVE  job'[w] = job[w]
  BY <1>1, <1>4 DEF BeginVoid
<1>5. ASSUME NEW v \in Workers, RestockForVoid(v)
      PROVE  job'[w] = job[w]
  BY <1>1, <1>5 DEF RestockForVoid
<1>6. ASSUME NEW v \in Workers, NEW c \in Customers, NEW amount \in PayAmounts,
             BeginRecordPayment(v, c, amount)
      PROVE  job'[w] = job[w] \/ BeginRecordPayment(w, c, amount)
  BY <1>0, <1>6 DEF BeginRecordPayment
<1>7. CASE job' = job
  BY <1>7
<1>8. QED
  BY <1>2, <1>3, <1>4, <1>5, <1>6, <1>7
     DEF Next, Checkout, Void, PayCredit, GrantManual, RecordManualMovement,
         SetActive, vars

\* What a payment writes: of each credit it read as owed it takes some part, the
\* parts make up its amount, and nothing else of a credit changes.
LEMMA PaymentWrites ==
  ASSUME TypeInv, NEW w \in Workers, RecordPayment(w)
  PROVE  \E take \in [CreditIds -> Int] :
           /\ SumFunction(take) = job[w].amount
           /\ \A k \in CreditIds :
                /\ 0 <= take[k] /\ take[k] <= job[w].left[k]
                /\ take[k] = 0 => credit'[k] = credit[k]
                /\ take[k] # 0 =>
                     /\ credit'[k].customer = credit[k].customer
                     /\ credit'[k].sale = credit[k].sale
                     /\ credit'[k].original = credit[k].original
                     /\ credit'[k].paid = credit[k].paid + take[k]
                     /\ credit'[k].remaining = job[w].left[k] - take[k]
                     /\ credit'[k].status \in {"paid", "partially_paid"}
<1>1. /\ job[w].amount \in Nat
      /\ \A k \in CreditIds : credit[k] \in CreditRow
  BY JobShape DEF TypeInv, TypeOK, RecordPayment
<1>2. PICK take \in [CreditIds -> 0..job[w].amount] :
        /\ Fifo(take, job[w].left, job[w].amount)
        /\ credit' =
             [k \in CreditIds |->
                IF take[k] = 0 THEN credit[k]
                ELSE [credit[k] EXCEPT
                        !.remaining = job[w].left[k] - take[k],
                        !.status = StatusAfterPayment(job[w].left[k] - take[k]),
                        !.paid = @ + take[k]]]
  BY DEF RecordPayment
<1>3. take \in [CreditIds -> Int]
  <2>1. 0..job[w].amount \subseteq Int
    BY <1>1
  <2>2. QED
    BY <1>2, <2>1
<1>4. /\ SumFunction(take) = job[w].amount
      /\ \A k \in CreditIds : take[k] <= job[w].left[k]
  BY <1>2 DEF Fifo
<1>5. \A k \in CreditIds : 0 <= take[k]
  <2>1. \A k \in CreditIds : take[k] \in 0..job[w].amount
    BY <1>2
  <2>2. QED
    BY <1>1, <2>1
<1>6. ASSUME NEW k \in CreditIds, take[k] # 0
      PROVE  /\ credit'[k].customer = credit[k].customer
             /\ credit'[k].sale = credit[k].sale
             /\ credit'[k].original = credit[k].original
             /\ credit'[k].paid = credit[k].paid + take[k]
             /\ credit'[k].remaining = job[w].left[k] - take[k]
             /\ credit'[k].status \in {"paid", "partially_paid"}
  <2>1. credit'[k] = [credit[k] EXCEPT
                        !.remaining = job[w].left[k] - take[k],
                        !.status = StatusAfterPayment(job[w].left[k] - take[k]),
                        !.paid = @ + take[k]]
    BY <1>2, <1>6
  <2>2. QED
    BY <1>1, <2>1 DEF CreditRow, StatusAfterPayment
<1>7. \A k \in CreditIds : take[k] = 0 => credit'[k] = credit[k]
  BY <1>2
<1>8. QED
  BY <1>3, <1>4, <1>5, <1>6, <1>7

\* What a void writes to the credits.
LEMMA VoidWrites ==
  ASSUME TypeInv, NEW w \in Workers, CommitVoid(w), NEW k \in CreditIds
  PROVE  \/ credit'[k] = credit[k]
         \/ /\ k = job[w].credit
            /\ credit'[k].customer = credit[k].customer
            /\ credit'[k].sale = credit[k].sale
            /\ credit'[k].original = credit[k].original
            /\ credit'[k].paid = credit[k].paid
            /\ credit'[k].remaining = 0
            /\ credit'[k].status = "void"
<1>1. credit \in [CreditIds -> CreditRow] /\ credit[k] \in CreditRow
  BY DEF TypeInv, TypeOK
<1>2. CASE credit' = credit
  BY <1>2
<1>3. CASE credit' = [credit EXCEPT ![job[w].credit] =
                        [@ EXCEPT !.remaining = 0, !.status = "void"]]
  <2>1. credit'[k] = IF k = job[w].credit
                       THEN [credit[k] EXCEPT !.remaining = 0, !.status = "void"]
                       ELSE credit[k]
    BY <1>1, <1>3
  <2>2. QED
    BY <1>1, <2>1 DEF CreditRow
<1>4. QED
  BY <1>2, <1>3 DEF CommitVoid

\* CreditsOwned is inductive: a credit in use never changes its customer.
LEMMA CreditsOwnedNext ==
  TypeInv /\ CreditInv /\ CreditsOwned /\ [Next]_vars => CreditsOwned'
<1> SUFFICES ASSUME TypeInv, CreditInv, CreditsOwned, [Next]_vars
             PROVE  CreditsOwned'
  OBVIOUS
<1>0. /\ credit \in [CreditIds -> CreditRow]
      /\ \A k \in CreditIds : credit[k].status = "absent" => credit[k] = AbsentCredit
      /\ \A w \in Workers : job[w].at = "payWrite" => job[w].left \in [CreditIds -> Nat]
  BY JobShape DEF TypeInv, TypeOK, CreditsOwned
<1>1. ASSUME NEW k \in CreditIds
      PROVE  /\ credit'[k].status = "absent" => credit'[k] = AbsentCredit
             /\ credit[k].status # "absent" =>
                  credit'[k].customer = credit[k].customer
  <2>1. CASE UNCHANGED <<credit, balance, waived>>
    BY <1>0, <2>1
  <2>2. ASSUME NEW c, NEW s, NEW amount, GrantsCredit(c, s, amount)
        PROVE  /\ credit'[k].status = "absent" => credit'[k] = AbsentCredit
               /\ credit[k].status # "absent" =>
                    credit'[k].customer = credit[k].customer
    <3>1. PICK i \in CreditIds :
            /\ credit[i].status = "absent"
            /\ credit' = [credit EXCEPT ![i] = NewCredit(c, s, amount)]
      BY <2>2 DEF GrantsCredit, CreateCredit
    <3>2. credit'[k] = IF k = i THEN NewCredit(c, s, amount) ELSE credit[k]
      BY <1>0, <3>1
    <3>3. QED
      BY <1>0, <3>1, <3>2 DEF NewCredit
  <2>3. ASSUME NEW w \in Workers, CommitVoid(w)
        PROVE  /\ credit'[k].status = "absent" => credit'[k] = AbsentCredit
               /\ credit[k].status # "absent" =>
                    credit'[k].customer = credit[k].customer
    BY <1>0, <2>3, VoidWrites
  <2>4. ASSUME NEW w \in Workers, RecordPayment(w)
        PROVE  /\ credit'[k].status = "absent" => credit'[k] = AbsentCredit
               /\ credit[k].status # "absent" =>
                    credit'[k].customer = credit[k].customer
    <3>1. PICK take \in [CreditIds -> Int] :
            /\ take[k] = 0 => credit'[k] = credit[k]
            /\ take[k] # 0 =>
                 /\ credit'[k].customer = credit[k].customer
                 /\ credit'[k].status \in {"paid", "partially_paid"}
      BY <2>4, PaymentWrites
    <3>2. QED
      BY <1>0, <3>1
  <2>5. QED
    BY <2>1, <2>2, <2>3, <2>4, CreditStep
<1>2. ASSUME NEW w \in Workers, job'[w].at = "payWrite",
             NEW k \in CreditIds, job'[w].left[k] > 0
      PROVE  credit'[k].customer = job'[w].customer
  <2>1. CASE job'[w] = job[w]
    <3>1. credit[k].customer = job[w].customer /\ credit[k].status # "absent"
      BY <1>2, <2>1 DEF CreditsOwned, CreditInv, ReadsWithinOriginal
    <3>2. QED
      BY <1>1, <2>1, <3>1
  <2>2. ASSUME NEW c \in Customers, NEW amount \in PayAmounts,
               BeginRecordPayment(w, c, amount)
        PROVE  credit'[k].customer = job'[w].customer
    <3>1. /\ job'[w].customer = c
          /\ job'[w].left = [i \in CreditIds |->
                               IF Open(i) /\ credit[i].customer = c
                                 THEN credit[i].remaining ELSE 0]
          /\ credit' = credit
      BY <2>2 DEF TypeInv, TypeOK, BeginRecordPayment
    <3>2. job'[w].left[k] = IF Open(k) /\ credit[k].customer = c
                              THEN credit[k].remaining ELSE 0
      BY <3>1
    <3>3. QED
      BY <1>2, <3>1, <3>2
  <2>3. QED
    BY <1>2, <2>1, <2>2, PaymentStep
<1>3. QED
  BY <1>1, <1>2 DEF CreditsOwned

\* A grant adds its amount to what its customer owes, and to nobody else's.
LEMMA GrantOwes ==
  ASSUME TypeInv, TypeInv', CreditsOwned, NEW c, NEW s, NEW amount,
         GrantsCredit(c, s, amount), NEW d \in Customers
  PROVE  SumFunction(Owed(credit', d)) - SumFunction(Owed(credit, d))
           = balance'[d] - balance[d]
<1>1. PICK i \in CreditIds :
        /\ credit[i].status = "absent"
        /\ credit' = [credit EXCEPT ![i] = NewCredit(c, s, amount)]
        /\ balance' = [balance EXCEPT ![c] = @ + amount]
  BY DEF GrantsCredit, CreateCredit
<1>2. /\ credit \in [CreditIds -> CreditRow] /\ credit' \in [CreditIds -> CreditRow]
      /\ balance \in [Customers -> Int] /\ amount \in Nat
  BY DEF TypeInv, TypeOK, GrantsCredit
<1>3. /\ credit[i] = AbsentCredit
      /\ credit'[i] = NewCredit(c, s, amount)
      /\ \A k \in CreditIds \ {i} : credit'[k] = credit[k]
  BY <1>1, <1>2 DEF CreditsOwned
<1>4. Owed(credit, d)[i] = 0
  BY <1>3, LedgerAssumption DEF Owed, AbsentCredit
<1>5. Owed(credit', d)[i] = IF c = d THEN amount ELSE 0
  BY <1>2, <1>3 DEF Owed, NewCredit
<1>6. \A k \in CreditIds \ {i} : Owed(credit', d)[k] = Owed(credit, d)[k]
  BY <1>3 DEF Owed
<1>7. /\ SumFunction(Owed(credit, d)) \in Int
      /\ SumFunction(Owed(credit', d)) = SumFunction(Owed(credit, d))
           + (Owed(credit', d)[i] - Owed(credit, d)[i])
  <2>1. /\ Owed(credit, d) \in [CreditIds -> Int]
        /\ Owed(credit', d) \in [CreditIds -> Int]
        /\ IsFiniteSet(CreditIds)
    BY <1>2, OwedType, LedgerAssumption
  <2>2. QED
    BY <1>6, <2>1, SumChange
<1>8. balance'[d] = IF c = d THEN balance[d] + amount ELSE balance[d]
  BY <1>1, <1>2
<1>9. QED
  BY <1>2, <1>4, <1>5, <1>7, <1>8

\* A payment takes its amount off what its customer owes, and off nobody else's.
LEMMA PaymentOwes ==
  ASSUME TypeInv, TypeInv', CreditsOwned, NEW w \in Workers, RecordPayment(w),
         NEW d \in Customers
  PROVE  SumFunction(Owed(credit', d)) - SumFunction(Owed(credit, d))
           = balance'[d] - balance[d]
<1>1. PICK take \in [CreditIds -> Int] :
        /\ SumFunction(take) = job[w].amount
        /\ \A k \in CreditIds :
             /\ 0 <= take[k] /\ take[k] <= job[w].left[k]
             /\ take[k] = 0 => credit'[k] = credit[k]
             /\ take[k] # 0 =>
                  /\ credit'[k].customer = credit[k].customer
                  /\ credit'[k].original = credit[k].original
                  /\ credit'[k].paid = credit[k].paid + take[k]
  BY PaymentWrites
<1>2. /\ credit \in [CreditIds -> CreditRow] /\ credit' \in [CreditIds -> CreditRow]
      /\ balance \in [Customers -> Int]
      /\ job[w].amount \in Nat /\ job[w].left \in [CreditIds -> Nat]
      /\ job[w].customer \in Customers
  BY JobShape DEF TypeInv, TypeOK, RecordPayment
<1>3. \A k \in CreditIds : take[k] # 0 => credit[k].customer = job[w].customer
  <2>1. \A k \in CreditIds : take[k] # 0 => job[w].left[k] > 0
    BY <1>1, <1>2
  <2>2. QED
    BY <2>1 DEF CreditsOwned, RecordPayment
<1>4. \A k \in CreditIds : /\ take[k] \in Int
                           /\ credit[k].original \in Nat
                           /\ credit[k].paid \in Nat
  BY <1>1, <1>2 DEF CreditRow
<1>5. balance'[d] = IF d = job[w].customer THEN balance[d] - job[w].amount
                    ELSE balance[d]
  BY <1>2 DEF RecordPayment, BalanceAfter
<1>6. CASE d = job[w].customer
  <2>1. \A k \in CreditIds :
          Owed(credit, d)[k] = Owed(credit', d)[k] + take[k]
    BY <1>1, <1>3, <1>4, <1>6 DEF Owed
  <2>2. SumFunction(Owed(credit, d)) = SumFunction(Owed(credit', d)) + SumFunction(take)
    BY <1>1, <1>2, <2>1, OwedType, SumAdds, LedgerAssumption
  <2>3. SumFunction(Owed(credit', d)) \in Int /\ balance[d] \in Int
    BY <1>2, OwedType, SumType, LedgerAssumption
  <2>4. QED
    BY <1>1, <1>2, <1>5, <1>6, <2>2, <2>3
<1>7. CASE d # job[w].customer
  <2>1. \A k \in CreditIds : Owed(credit, d)[k] = Owed(credit', d)[k]
    BY <1>1, <1>3, <1>7 DEF Owed
  <2>2. Owed(credit, d) = Owed(credit', d)
    BY <2>1 DEF Owed
  <2>3. SumFunction(Owed(credit, d)) \in Int /\ balance[d] \in Int
    BY <1>2, OwedType, SumType, LedgerAssumption
  <2>4. QED
    BY <1>5, <1>7, <2>2, <2>3
<1>8. QED
  BY <1>6, <1>7

\* A void changes neither what was granted nor what was paid: what it takes off
\* the balance it adds to waived.
LEMMA VoidOwes ==
  ASSUME TypeInv, NEW w \in Workers, CommitVoid(w), NEW d \in Customers
  PROVE  /\ Owed(credit', d) = Owed(credit, d)
         /\ balance'[d] + waived'[d] = balance[d] + waived[d]
<1>1. \A k \in CreditIds : /\ credit'[k].customer = credit[k].customer
                           /\ credit'[k].original = credit[k].original
                           /\ credit'[k].paid = credit[k].paid
  BY VoidWrites
<1>2. Owed(credit', d) = Owed(credit, d)
  BY <1>1 DEF Owed
<1>3. /\ balance \in [Customers -> Int] /\ waived \in [Customers -> Nat]
      /\ job[w].left \in Nat
  BY JobShape DEF TypeInv, TypeOK, CommitVoid
<1>4. CASE UNCHANGED <<credit, balance, waived>>
  BY <1>2, <1>4
<1>5. ASSUME NEW c,
             /\ balance' = [balance EXCEPT ![c] = @ - job[w].left]
             /\ waived' = [waived EXCEPT ![c] = @ + job[w].left]
      PROVE  balance'[d] + waived'[d] = balance[d] + waived[d]
  BY <1>3, <1>5
<1>6. QED
  BY <1>2, <1>4, <1>5 DEF CommitVoid

\* BalanceCountsEverything is inductive with CreditsOwned, for any number of
\* workers: a payment may write outdated rows, but what it takes off the balance
\* it adds to what its customer has paid, and a void does both of its
\* decrements with one number.
THEOREM BalanceKeepsCount == Spec => []BalanceCountsEverything
<1>1. Init => CreditInv /\ CreditsOwned /\ BalanceCountsEverything
  <2> SUFFICES ASSUME Init PROVE CreditInv /\ CreditsOwned /\ BalanceCountsEverything
    OBVIOUS
  <2>1. CreditStatusAgrees
    BY DEF Init, CreditStatusAgrees, AbsentCredit
  <2>2. ReadsWithinOriginal
    BY DEF Init, ReadsWithinOriginal, Idle
  <2>3. CreditsOwned
    BY DEF Init, CreditsOwned, Idle
  <2>4. ASSUME NEW c \in Customers
        PROVE  balance[c] = SumFunction(Owed(credit, c)) - waived[c]
    <3>1. Owed(credit, c) \in [CreditIds -> Int]
      BY TypeInit, OwedType DEF TypeInv, TypeOK
    <3>2. \A k \in CreditIds : Owed(credit, c)[k] = 0
      BY LedgerAssumption DEF Init, AbsentCredit, Owed
    <3>3. SumFunction(Owed(credit, c)) = 0
      BY <3>1, <3>2, SumZero, LedgerAssumption
    <3>4. QED
      BY <3>3 DEF Init
  <2>5. BalanceCountsEverything
    BY <2>4 DEF BalanceCountsEverything, Owed
  <2>6. QED
    BY <2>1, <2>2, <2>3, <2>5 DEF CreditInv
<1>2. TypeInv /\ CreditInv /\ CreditsOwned /\ BalanceCountsEverything /\ [Next]_vars
        => BalanceCountsEverything'
  <2> SUFFICES ASSUME TypeInv, CreditInv, CreditsOwned, BalanceCountsEverything,
                      [Next]_vars, NEW c \in Customers
               PROVE  balance'[c] = SumFunction(Owed(credit', c)) - waived'[c]
    BY DEF BalanceCountsEverything, Owed
  <2>1. TypeInv'
    BY TypeNext
  <2>2. balance[c] = SumFunction(Owed(credit, c)) - waived[c]
    BY DEF BalanceCountsEverything, Owed
  <2>3. /\ SumFunction(Owed(credit, c)) \in Int /\ SumFunction(Owed(credit', c)) \in Int
        /\ balance[c] \in Int /\ balance'[c] \in Int
        /\ waived[c] \in Nat /\ waived'[c] \in Nat
    BY <2>1, OwedType, SumType, LedgerAssumption DEF TypeInv, TypeOK
  <2>4. CASE UNCHANGED <<credit, balance, waived>>
    BY <2>2, <2>4
  <2>5. ASSUME NEW d, NEW s, NEW amount, GrantsCredit(d, s, amount)
        PROVE  balance'[c] = SumFunction(Owed(credit', c)) - waived'[c]
    <3>1. waived' = waived
      BY <2>5 DEF GrantsCredit
    <3>2. SumFunction(Owed(credit', c)) - SumFunction(Owed(credit, c))
            = balance'[c] - balance[c]
      BY <2>1, <2>5, GrantOwes
    <3>3. QED
      BY <2>2, <2>3, <3>1, <3>2
  <2>6. ASSUME NEW w \in Workers, RecordPayment(w)
        PROVE  balance'[c] = SumFunction(Owed(credit', c)) - waived'[c]
    <3>1. waived' = waived
      BY <2>6 DEF RecordPayment
    <3>2. SumFunction(Owed(credit', c)) - SumFunction(Owed(credit, c))
            = balance'[c] - balance[c]
      BY <2>1, <2>6, PaymentOwes
    <3>3. QED
      BY <2>2, <2>3, <3>1, <3>2
  <2>7. ASSUME NEW w \in Workers, CommitVoid(w)
        PROVE  balance'[c] = SumFunction(Owed(credit', c)) - waived'[c]
    BY <2>2, <2>3, <2>7, VoidOwes
  <2>8. QED
    BY <2>4, <2>5, <2>6, <2>7, CreditStep
<1>3. QED
  BY <1>1, <1>2, CreditNext, CreditsOwnedNext, TypeInvariant, PTL DEF Spec

------------------------------------------------------------------------------
(* Requests served one at a time *)

\* One worker, or none.  Grants, manual movements and product changes may still
\* commit between the steps of its request.
OneAtATime == \A v, w \in Workers : v = w

\* What was granted is paid, still owed, or was waived by a void.
RowsAddUp ==
  \A k \in CreditIds :
    /\ credit[k].paid <= credit[k].original
    /\ credit[k].status # "void" =>
         credit[k].remaining + credit[k].paid = credit[k].original

\* A sale has one credit at most, and has it from the COMMIT that records it.
OneCreditPerSale ==
  /\ \A k \in CreditIds : credit[k].sale \in Sales =>
       /\ credit[k].status # "absent"
       /\ sale[credit[k].sale].status # "absent"
  /\ \A k, l \in CreditIds :
       credit[k].sale \in Sales /\ credit[k].sale = credit[l].sale => k = l

\* What the request in progress has read is what the tables still say.
ReadsAreCurrent ==
  \A w \in Workers :
    /\ job[w].at = "payWrite" =>
         \A k \in CreditIds : job[w].left[k] > 0 =>
           Open(k) /\ job[w].left[k] = credit[k].remaining
    /\ job[w].at \in {"voidTx", "voidWrite"} =>
         sale[job[w].sale].status = "completed"
    /\ job[w].at = "voidWrite" =>
         /\ job[w].credit = NoCredit =>
              \A k \in CreditIds : ~(credit[k].sale = job[w].sale /\ Open(k))
         /\ job[w].credit # NoCredit =>
              /\ credit[job[w].credit].sale = job[w].sale
              /\ Open(job[w].credit)
              /\ job[w].left = credit[job[w].credit].remaining

SequentialInv ==
  CreditInv /\ CreditsOwned /\ RowsAddUp /\ OneCreditPerSale /\ ReadsAreCurrent

\* A step that leaves the request in progress where it is changes no sale and no
\* credit that is in use.
LEMMA RequestStep ==
  ASSUME TypeInv, OneAtATime, [Next]_vars, NEW w \in Workers
  PROVE  \/ job'[w].at \in {"idle", "attempt"}
         \/ /\ job'[w] = job[w]
            /\ sale' = sale
            /\ \A k \in CreditIds : \/ credit'[k] = credit[k]
                                    \/ /\ credit[k].status = "absent"
                                       /\ credit'[k].sale = NoSale
         \/ \E s \in Sales : BeginVoid(w, s)
         \/ RestockForVoid(w)
         \/ \E c \in Customers, amount \in PayAmounts :
              BeginRecordPayment(w, c, amount)
<1>0. /\ job \in [Workers -> Job] /\ credit \in [CreditIds -> CreditRow]
      /\ \A v \in Workers : v = w
  BY DEF TypeInv, TypeOK, OneAtATime
<1>1. CASE \/ RollBack(w) \/ LoseCheckoutRace(w) \/ CommitCheckout(w)
           \/ CommitVoid(w) \/ RecordPayment(w)
  <2>1. job' = [job EXCEPT ![w] = Idle]
    BY <1>1 DEF RollBack, LoseCheckoutRace, CommitCheckout, CommitVoid, RecordPayment
  <2>2. QED
    BY <1>0, <2>1 DEF Idle
<1>2. ASSUME NEW cart \in Carts, BeginCheckout(w, cart)
      PROVE  job'[w].at = "attempt"
  BY <1>0, <1>2 DEF BeginCheckout
<1>3. CASE UNCHANGED <<job, sale, credit>>
  BY <1>3
<1>4. ASSUME NEW c \in Customers, NEW amount \in Grants, GrantManual(c, amount)
      PROVE  /\ job'[w] = job[w]
             /\ sale' = sale
             /\ \A k \in CreditIds : \/ credit'[k] = credit[k]
                                     \/ /\ credit[k].status = "absent"
                                        /\ credit'[k].sale = NoSale
  <2>1. PICK i \in CreditIds :
          /\ credit[i].status = "absent"
          /\ credit' = [credit EXCEPT ![i] = NewCredit(c, NoSale, amount)]
    BY <1>4 DEF GrantManual, CreateCredit
  <2>2. job' = job /\ sale' = sale
    BY <1>4 DEF GrantManual
  <2>3. QED
    BY <1>0, <2>1, <2>2 DEF NewCredit
<1>5. CASE ~ \/ \E v \in Workers :
                  \/ RollBack(v) \/ LoseCheckoutRace(v) \/ CommitCheckout(v)
                  \/ CommitVoid(v) \/ RecordPayment(v) \/ RestockForVoid(v)
                  \/ \E cart \in Carts : BeginCheckout(v, cart)
                  \/ \E s \in Sales : BeginVoid(v, s)
                  \/ \E c \in Customers, amount \in PayAmounts :
                       BeginRecordPayment(v, c, amount)
             \/ \E c \in Customers, amount \in Grants : GrantManual(c, amount)
  <2>1. UNCHANGED <<job, sale, credit>>
    BY <1>5 DEF Next, Checkout, Void, PayCredit, ReplayCheckout,
       RecordManualMovement, SetActive, vars
  <2>2. QED
    BY <1>3, <2>1
<1>6. QED
  BY <1>0, <1>1, <1>2, <1>4, <1>5

LEMMA ReadsAreCurrentNext ==
  ASSUME TypeInv, OneAtATime, ReadsAreCurrent, [Next]_vars
  PROVE  ReadsAreCurrent'
<1>0. /\ job \in [Workers -> Job] /\ credit \in [CreditIds -> CreditRow]
      /\ NoSale \notin Sales
  BY LedgerAssumption DEF TypeInv, TypeOK
<1> DEFINE Current(w) ==
             /\ job[w].at = "payWrite" =>
                  \A k \in CreditIds : job[w].left[k] > 0 =>
                    Open(k) /\ job[w].left[k] = credit[k].remaining
             /\ job[w].at \in {"voidTx", "voidWrite"} =>
                  sale[job[w].sale].status = "completed"
             /\ job[w].at = "voidWrite" =>
                  /\ job[w].credit = NoCredit =>
                       \A k \in CreditIds : ~(credit[k].sale = job[w].sale /\ Open(k))
                  /\ job[w].credit # NoCredit =>
                       /\ credit[job[w].credit].sale = job[w].sale
                       /\ Open(job[w].credit)
                       /\ job[w].left = credit[job[w].credit].remaining
<1>1. SUFFICES ASSUME NEW w \in Workers PROVE Current(w)'
  BY DEF ReadsAreCurrent
<1>2. Current(w)
  BY DEF ReadsAreCurrent
<1>3. CASE job'[w].at \in {"idle", "attempt"}
  BY <1>3
<1>4. ASSUME job'[w] = job[w],
             sale' = sale,
             \A k \in CreditIds : \/ credit'[k] = credit[k]
                                  \/ /\ credit[k].status = "absent"
                                     /\ credit'[k].sale = NoSale
      PROVE  Current(w)'
  <2>1. /\ job[w].at = "voidWrite" => /\ job[w].sale \in Sales
                                      /\ job[w].credit \in CreditIds \cup {NoCredit}
    BY JobShape DEF TypeInv
  <2>2. \A k \in CreditIds : Open(k) => credit'[k] = credit[k] /\ Open(k)'
    BY <1>4 DEF Open
  <2>3. \A k \in CreditIds : Open(k)' /\ credit'[k].sale \in Sales
                               => Open(k) /\ credit'[k] = credit[k]
    BY <1>0, <1>4 DEF Open
  <2>4. job[w].at = "payWrite" =>
          \A k \in CreditIds : job[w].left[k] > 0 =>
            Open(k)' /\ job[w].left[k] = credit'[k].remaining
    BY <1>2, <2>2
  <2>5. job[w].at \in {"voidTx", "voidWrite"} =>
          sale'[job[w].sale].status = "completed"
    BY <1>2, <1>4
  <2>6. job[w].at = "voidWrite" /\ job[w].credit = NoCredit =>
          \A k \in CreditIds : ~(credit'[k].sale = job[w].sale /\ Open(k)')
    BY <1>2, <2>1, <2>3
  <2>7. job[w].at = "voidWrite" /\ job[w].credit # NoCredit =>
          /\ credit'[job[w].credit].sale = job[w].sale
          /\ Open(job[w].credit)'
          /\ job[w].left = credit'[job[w].credit].remaining
    <3>1. SUFFICES ASSUME job[w].at = "voidWrite", job[w].credit # NoCredit
                   PROVE  /\ credit'[job[w].credit].sale = job[w].sale
                          /\ Open(job[w].credit)'
                          /\ job[w].left = credit'[job[w].credit].remaining
      OBVIOUS
    <3>2. PICK i \in CreditIds : i = job[w].credit
      BY <2>1, <3>1
    <3>3. credit[i].sale = job[w].sale /\ Open(i) /\ job[w].left = credit[i].remaining
      BY <1>2, <3>1, <3>2
    <3>4. credit'[i].sale = job[w].sale /\ Open(i)' /\ job[w].left = credit'[i].remaining
      BY <2>2, <3>3
    <3>5. Open(job[w].credit)' <=> Open(i)'
      BY <1>4, <3>2 DEF Open
    <3>6. QED
      BY <3>2, <3>4, <3>5
  <2>8. QED
    BY <1>4, <2>4, <2>5, <2>6, <2>7 DEF Open
<1>5. ASSUME NEW s \in Sales, BeginVoid(w, s)
      PROVE  Current(w)'
  BY <1>0, <1>5 DEF BeginVoid, Voidable
<1>6. ASSUME RestockForVoid(w)
      PROVE  Current(w)'
  <2>1. UNCHANGED <<sale, credit>>
    BY <1>6 DEF RestockForVoid
  <2>2. sale[job[w].sale].status = "completed"
    BY <1>2, <1>6 DEF RestockForVoid
  <2>3. \A k : Open(k)' <=> Open(k)
    BY <2>1 DEF Open
  <2>4. CASE /\ \A k \in CreditIds : ~(credit[k].sale = job[w].sale /\ Open(k))
             /\ job' = [job EXCEPT ![w] = [at |-> "voidWrite", sale |-> job[w].sale,
                                           credit |-> NoCredit, left |-> 0]]
    <3>1. job'[w] = [at |-> "voidWrite", sale |-> job[w].sale,
                     credit |-> NoCredit, left |-> 0]
      BY <1>0, <2>4
    <3>2. /\ job'[w].at = "voidWrite" /\ job'[w].sale = job[w].sale
          /\ job'[w].credit = NoCredit
      BY <3>1
    <3>3. \A k \in CreditIds : ~(credit'[k].sale = job'[w].sale /\ Open(k)')
      BY <2>1, <2>3, <2>4, <3>2
    <3>4. sale'[job'[w].sale].status = "completed"
      BY <2>1, <2>2, <3>2
    <3>5. QED
      BY <3>2, <3>3, <3>4
  <2>5. ASSUME NEW i \in CreditIds, credit[i].sale = job[w].sale, Open(i),
               job' = [job EXCEPT ![w] = [at |-> "voidWrite", sale |-> job[w].sale,
                                          credit |-> i, left |-> LeftToPay(i)]]
        PROVE  Current(w)'
    <3>1. job'[w] = [at |-> "voidWrite", sale |-> job[w].sale,
                     credit |-> i, left |-> LeftToPay(i)]
      BY <1>0, <2>5
    <3>2. /\ job'[w].at = "voidWrite" /\ job'[w].sale = job[w].sale
          /\ job'[w].credit = i /\ job'[w].left = credit[i].remaining
          /\ i # NoCredit
      BY <3>1, LedgerAssumption DEF LeftToPay
    <3>3. credit'[job'[w].credit].status \in {"open", "partially_paid"}
      BY <2>1, <2>5, <3>2 DEF Open
    <3>4. QED
      BY <2>1, <2>2, <2>5, <3>2, <3>3 DEF Open
  <2>6. QED
    BY <1>6, <2>4, <2>5 DEF RestockForVoid
<1>7. ASSUME NEW c \in Customers, NEW amount \in PayAmounts,
             BeginRecordPayment(w, c, amount)
      PROVE  Current(w)'
  <2>1. /\ job'[w] = [at |-> "payWrite", customer |-> c, amount |-> amount,
                      left |-> [k \in CreditIds |->
                                  IF Open(k) /\ credit[k].customer = c
                                    THEN credit[k].remaining ELSE 0]]
        /\ UNCHANGED <<sale, credit>>
    BY <1>0, <1>7 DEF BeginRecordPayment
  <2>2. job'[w].at = "payWrite"
    BY <2>1
  <2>3. \A k \in CreditIds : job'[w].left[k] > 0 =>
          Open(k) /\ job'[w].left[k] = credit[k].remaining
    BY <2>1
  <2>4. QED
    BY <2>1, <2>2, <2>3 DEF Open
<1>8. QED
  BY <1>3, <1>4, <1>5, <1>6, <1>7, RequestStep

LEMMA RowsAddUpNext ==
  ASSUME TypeInv, RowsAddUp, ReadsAreCurrent, [Next]_vars
  PROVE  RowsAddUp'
<1>0. credit \in [CreditIds -> CreditRow]
  BY DEF TypeInv, TypeOK
<1>1. SUFFICES ASSUME NEW k \in CreditIds
               PROVE  /\ credit'[k].paid <= credit'[k].original
                      /\ credit'[k].status # "void" =>
                           credit'[k].remaining + credit'[k].paid = credit'[k].original
  BY DEF RowsAddUp
<1>2. /\ credit[k].paid <= credit[k].original
      /\ credit[k].status # "void" =>
           credit[k].remaining + credit[k].paid = credit[k].original
      /\ credit[k].paid \in Nat /\ credit[k].original \in Nat
      /\ credit[k].remaining \in Nat
  BY <1>0 DEF RowsAddUp, CreditRow
<1>3. CASE credit'[k] = credit[k]
  BY <1>2, <1>3
<1>4. ASSUME NEW c, NEW s, NEW amount, GrantsCredit(c, s, amount)
      PROVE  \/ credit'[k] = credit[k]
             \/ credit'[k].paid = 0 /\ credit'[k].remaining = credit'[k].original
                  /\ credit'[k].original \in Nat
  <2>1. PICK i \in CreditIds : credit' = [credit EXCEPT ![i] = NewCredit(c, s, amount)]
    BY <1>4 DEF GrantsCredit, CreateCredit
  <2>2. amount \in Nat
    BY <1>4 DEF GrantsCredit
  <2>3. credit'[k] = IF k = i THEN NewCredit(c, s, amount) ELSE credit[k]
    BY <1>0, <2>1
  <2>4. QED
    BY <2>2, <2>3 DEF NewCredit
<1>5. ASSUME NEW w \in Workers, CommitVoid(w)
      PROVE  \/ credit'[k] = credit[k]
             \/ /\ credit'[k].paid = credit[k].paid
                /\ credit'[k].original = credit[k].original
                /\ credit'[k].status = "void"
  BY <1>5, VoidWrites
<1>6. ASSUME NEW w \in Workers, RecordPayment(w), credit'[k] # credit[k]
      PROVE  /\ credit'[k].paid <= credit'[k].original
             /\ credit'[k].remaining + credit'[k].paid = credit'[k].original
  <2>1. PICK take \in [CreditIds -> Int] :
          /\ 0 <= take[k] /\ take[k] <= job[w].left[k]
          /\ take[k] = 0 => credit'[k] = credit[k]
          /\ take[k] # 0 =>
               /\ credit'[k].original = credit[k].original
               /\ credit'[k].paid = credit[k].paid + take[k]
               /\ credit'[k].remaining = job[w].left[k] - take[k]
    BY <1>6, PaymentWrites
  <2>2. job[w].left[k] \in Nat /\ job[w].at = "payWrite" /\ take[k] \in Int
    BY <1>6, JobShape DEF TypeInv, RecordPayment
  <2>3. take[k] # 0 /\ job[w].left[k] > 0
    BY <1>6, <2>1, <2>2
  <2>4. job[w].left[k] = credit[k].remaining /\ credit[k].status # "void"
    BY <2>2, <2>3 DEF ReadsAreCurrent, Open
  <2>5. QED
    BY <1>2, <2>1, <2>2, <2>3, <2>4
<1>7. QED
  BY <1>2, <1>3, <1>4, <1>5, <1>6, CreditStep

\* A recorded sale stays recorded.
LEMMA RecordedStays ==
  ASSUME TypeInv, [Next]_vars, NEW t \in Sales, sale[t].status # "absent"
  PROVE  sale'[t].status # "absent"
<1>0. \A s \in Sales : sale[s] \in SaleRow
  BY DEF TypeInv, TypeOK
<1>1. CASE UNCHANGED <<sale, counter>>
  BY <1>1
<1>2. ASSUME NEW s, NEW cart, Books(s, cart)
      PROVE  sale'[t].status # "absent"
  BY <1>2 DEF TypeInv, TypeOK, Books
<1>3. ASSUME NEW s, Voids(s)
      PROVE  sale'[t].status # "absent"
  BY <1>3, BookedAfterVoids DEF Recorded
<1>4. QED
  BY <1>1, <1>2, <1>3, SaleStep

LEMMA OneCreditPerSaleNext ==
  ASSUME TypeInv, OneCreditPerSale, [Next]_vars
  PROVE  OneCreditPerSale'
<1>0. credit \in [CreditIds -> CreditRow] /\ NoSale \notin Sales
  BY LedgerAssumption DEF TypeInv, TypeOK
<1>1. ASSUME \A k \in CreditIds : /\ credit'[k].sale = credit[k].sale
                                  /\ credit[k].status # "absent" =>
                                       credit'[k].status # "absent"
      PROVE  OneCreditPerSale'
  BY <1>1, RecordedStays DEF OneCreditPerSale
<1>2. CASE UNCHANGED <<credit, balance, waived>>
  BY <1>1, <1>2
<1>3. ASSUME NEW c, NEW s, NEW amount, GrantsCredit(c, s, amount)
      PROVE  OneCreditPerSale'
  <2>1. PICK i \in CreditIds :
          /\ credit[i].status = "absent"
          /\ credit' = [credit EXCEPT ![i] = NewCredit(c, s, amount)]
    BY <1>3 DEF GrantsCredit, CreateCredit
  <2>2. /\ credit'[i].sale = s /\ credit'[i].status = "open"
        /\ \A k \in CreditIds \ {i} : credit'[k] = credit[k]
    BY <1>0, <2>1 DEF NewCredit
  <2>3. s \in Sales => sale[s].status = "absent" /\ sale'[s].status # "absent"
    BY <1>0, <1>3 DEF GrantsCredit
  <2>4. \A k \in CreditIds \ {i} : credit[k].sale \in Sales =>
          /\ credit[k].sale # s
          /\ credit[k].status # "absent"
          /\ sale'[credit[k].sale].status # "absent"
    BY <2>3, RecordedStays DEF OneCreditPerSale
  <2>5. \A k \in CreditIds : credit'[k].sale \in Sales =>
          /\ credit'[k].status # "absent"
          /\ sale'[credit'[k].sale].status # "absent"
    BY <2>2, <2>3, <2>4
  <2>6. \A k, l \in CreditIds :
          credit'[k].sale \in Sales /\ credit'[k].sale = credit'[l].sale => k = l
    BY <2>2, <2>4 DEF OneCreditPerSale
  <2>7. QED
    BY <2>5, <2>6 DEF OneCreditPerSale
<1>4. ASSUME NEW w \in Workers, CommitVoid(w)
      PROVE  OneCreditPerSale'
  <2>1. \A k \in CreditIds : /\ credit'[k].sale = credit[k].sale
                             /\ credit[k].status # "absent" =>
                                  credit'[k].status # "absent"
    BY <1>4, VoidWrites
  <2>2. QED
    BY <1>1, <2>1
<1>5. ASSUME NEW w \in Workers, RecordPayment(w)
      PROVE  OneCreditPerSale'
  <2>1. PICK take \in [CreditIds -> Int] :
          \A k \in CreditIds :
            /\ take[k] = 0 => credit'[k] = credit[k]
            /\ take[k] # 0 =>
                 /\ credit'[k].sale = credit[k].sale
                 /\ credit'[k].status \in {"paid", "partially_paid"}
    BY <1>5, PaymentWrites
  <2>2. QED
    BY <1>1, <2>1
<1>6. QED
  BY <1>2, <1>3, <1>4, <1>5, CreditStep

\* SequentialInv is inductive as long as requests are served one at a time.
LEMMA SequentialInvariant ==
  ASSUME OneAtATime PROVE Spec => []SequentialInv
<1>1. Init => SequentialInv
  <2> SUFFICES ASSUME Init PROVE SequentialInv
    OBVIOUS
  <2>1. CreditStatusAgrees /\ RowsAddUp
    BY DEF Init, CreditStatusAgrees, RowsAddUp, AbsentCredit
  <2>2. ReadsWithinOriginal /\ CreditsOwned /\ ReadsAreCurrent
    BY DEF Init, ReadsWithinOriginal, CreditsOwned, ReadsAreCurrent, Idle
  <2>3. OneCreditPerSale
    BY LedgerAssumption DEF Init, OneCreditPerSale, AbsentCredit
  <2>4. QED
    BY <2>1, <2>2, <2>3 DEF SequentialInv, CreditInv
<1>2. TypeInv /\ SequentialInv /\ [Next]_vars => SequentialInv'
  BY CreditNext, CreditsOwnedNext, RowsAddUpNext, OneCreditPerSaleNext,
     ReadsAreCurrentNext DEF SequentialInv
<1>3. QED
  BY <1>1, <1>2, TypeInvariant, PTL DEF Spec

\* PaidWithinDebt: with requests served one at a time a payment takes of a credit
\* no more than the table says is left of it.
THEOREM NobodyOverpays ==
  ASSUME OneAtATime PROVE Spec => []PaidWithinDebt
<1>1. SequentialInv => PaidWithinDebt
  BY DEF SequentialInv, RowsAddUp, PaidWithinDebt
<1>2. QED
  BY <1>1, SequentialInvariant, PTL

\* With requests served one at a time, a void finds the open credit of its sale
\* as it read it, if there is one, and leaves the other credits alone.
LEMMA VoidSettles ==
  ASSUME TypeInv, OneCreditPerSale, ReadsAreCurrent, CreditInv,
         NEW w \in Workers, CommitVoid(w), NEW k \in CreditIds
  PROVE  /\ credit'[k] # credit[k] => /\ Open(k) /\ credit[k].sale = job[w].sale
                                      /\ job[w].left = credit[k].remaining
         /\ credit[k].sale = job[w].sale => credit'[k].remaining = 0
<1>1. /\ job[w].sale \in Sales /\ job[w].at = "voidWrite"
      /\ job[w].credit \in CreditIds \cup {NoCredit}
      /\ NoCredit \notin CreditIds
  BY JobShape, LedgerAssumption DEF TypeInv, CommitVoid
<1>2. credit'[k] # credit[k] => /\ k = job[w].credit /\ credit'[k].remaining = 0
  BY VoidWrites
<1>3. credit'[k] # credit[k] => /\ Open(k) /\ credit[k].sale = job[w].sale
                                /\ job[w].left = credit[k].remaining
  BY <1>1, <1>2 DEF ReadsAreCurrent
<1>4. ASSUME credit[k].sale = job[w].sale, credit'[k] = credit[k]
      PROVE  credit'[k].remaining = 0
  <2>1. CASE job[w].credit = NoCredit
    <3>1. ~Open(k)
      BY <1>1, <1>4, <2>1 DEF ReadsAreCurrent
    <3>2. credit[k].status \in CreditStatus
      BY DEF TypeInv, TypeOK, CreditRow
    <3>3. credit[k].remaining = 0
      BY <3>1, <3>2 DEF Open, CreditStatus, CreditInv, CreditStatusAgrees
    <3>4. QED
      BY <1>4, <3>3
  <2>2. CASE job[w].credit # NoCredit
    <3>1. PICK i \in CreditIds : i = job[w].credit
      BY <1>1, <2>2
    <3>2. credit[i].sale = job[w].sale
      BY <1>1, <2>2, <3>1 DEF ReadsAreCurrent
    <3>3. k = i
      BY <1>1, <1>4, <3>2 DEF OneCreditPerSale
    <3>4. credit' = [credit EXCEPT ![i] = [@ EXCEPT !.remaining = 0, !.status = "void"]]
      BY <2>2, <3>1 DEF CommitVoid
    <3>5. credit[k] \in CreditRow /\ credit \in [CreditIds -> CreditRow]
      BY DEF TypeInv, TypeOK
    <3>6. credit'[k] = [credit[k] EXCEPT !.remaining = 0, !.status = "void"]
      BY <3>3, <3>4, <3>5
    <3>7. QED
      BY <3>5, <3>6 DEF CreditRow
  <2>3. QED
    BY <2>1, <2>2
<1>5. QED
  BY <1>2, <1>3, <1>4

\* VoidCancelsDebt: no payment is under way when a void commits, a sale has one
\* credit, and what is not open has nothing left.
THEOREM VoidLeavesNothing ==
  ASSUME OneAtATime PROVE Spec => []VoidCancelsDebt
<1>1. Init => VoidCancelsDebt
  BY DEF Init, VoidCancelsDebt, AbsentSale
<1>2. TypeInv /\ SequentialInv /\ VoidCancelsDebt /\ [Next]_vars => VoidCancelsDebt'
  <2> SUFFICES ASSUME TypeInv, SequentialInv, VoidCancelsDebt, [Next]_vars,
                      NEW k \in CreditIds, credit'[k].sale \in Sales,
                      sale'[credit'[k].sale].status = "void"
               PROVE  credit'[k].remaining = 0
    BY DEF VoidCancelsDebt
  <2>0. /\ \A t \in Sales : sale[t] \in SaleRow
        /\ sale \in [Sales -> SaleRow]
        /\ credit \in [CreditIds -> CreditRow]
        /\ OneCreditPerSale /\ ReadsAreCurrent /\ CreditInv
    BY DEF TypeInv, TypeOK, SequentialInv
  <2>1. ASSUME NEW w \in Workers, CommitVoid(w)
        PROVE  credit'[k].remaining = 0
    <3>1. credit'[k].sale = credit[k].sale
      BY <2>1, VoidWrites
    <3>2. CASE credit[k].sale = job[w].sale
      BY <2>0, <2>1, <3>2, VoidSettles
    <3>3. CASE credit[k].sale # job[w].sale
      <4>1. credit'[k] = credit[k]
        BY <2>0, <2>1, <3>3, VoidSettles
      <4>2. sale'[credit[k].sale] = sale[credit[k].sale]
        BY <2>0, <2>1, <3>1, <3>3 DEF CommitVoid
      <4>3. QED
        BY <3>1, <4>1, <4>2 DEF VoidCancelsDebt
    <3>4. QED
      BY <3>2, <3>3
  <2>2. CASE ~\E w \in Workers : CommitVoid(w)
    <3>1. \A t \in Sales : sale'[t].status = "void" => sale[t].status = "void"
      <4>1. CASE UNCHANGED <<sale, counter>>
        BY <4>1
      <4>2. ASSUME NEW s, NEW cart, Books(s, cart), NEW t \in Sales
            PROVE  sale'[t].status = "void" => sale[t].status = "void"
        BY <2>0, <4>2 DEF Books
      <4>3. \/ UNCHANGED <<sale, counter>>
            \/ \E s, cart : Books(s, cart)
        BY <2>2, CommitCheckoutBooks DEF Next, Checkout, Void, PayCredit,
           ReplayCheckout, BeginCheckout, LoseCheckoutRace, RollBack, BeginVoid,
           RestockForVoid, BeginRecordPayment, RecordPayment, GrantManual,
           RecordManualMovement, SetActive, vars
      <4>4. QED
        BY <4>1, <4>2, <4>3
    <3>2. CASE credit'[k] = credit[k]
      BY <3>1, <3>2 DEF VoidCancelsDebt
    <3>3. ASSUME NEW c, NEW s, NEW amount, GrantsCredit(c, s, amount)
          PROVE  credit'[k] = credit[k]
      <4>1. PICK i \in CreditIds : credit' = [credit EXCEPT ![i] = NewCredit(c, s, amount)]
        BY <3>3 DEF GrantsCredit, CreateCredit
      <4>2. ASSUME k = i PROVE FALSE
        <5>1. credit'[k].sale = s
          BY <2>0, <4>1, <4>2 DEF NewCredit
        <5>2. QED
          BY <3>3, <5>1, LedgerAssumption DEF GrantsCredit
      <4>3. QED
        BY <2>0, <4>1, <4>2
    <3>4. ASSUME NEW w \in Workers, RecordPayment(w)
          PROVE  credit'[k] = credit[k]
      <4>1. PICK take \in [CreditIds -> Int] :
              /\ 0 <= take[k] /\ take[k] <= job[w].left[k]
              /\ take[k] = 0 => credit'[k] = credit[k]
              /\ take[k] # 0 => credit'[k].sale = credit[k].sale
        BY <3>4, PaymentWrites
      <4>2. job[w].left[k] \in Nat /\ job[w].at = "payWrite" /\ take[k] \in Int
        BY <3>4, JobShape DEF TypeInv, RecordPayment
      <4>3. ASSUME take[k] # 0 PROVE FALSE
        <5>1. job[w].left[k] > 0
          BY <4>1, <4>2, <4>3
        <5>2. credit[k].remaining = job[w].left[k]
          BY <2>0, <4>2, <5>1 DEF ReadsAreCurrent
        <5>3. credit[k].remaining = 0
          BY <3>1, <4>1, <4>3 DEF VoidCancelsDebt
        <5>4. QED
          BY <5>1, <5>2, <5>3
      <4>4. QED
        BY <4>1, <4>3
    <3>5. QED
      BY <2>2, <3>2, <3>3, <3>4, CreditStep
  <2>3. QED
    BY <2>1, <2>2
<1>3. QED
  BY <1>1, <1>2, SequentialInvariant, TypeInvariant, PTL DEF Spec

\* What voids took off the credits of a customer.
Waivers(rows, c) == [k \in CreditIds |->
                       IF rows[k].customer = c /\ rows[k].status = "void"
                         THEN rows[k].original - rows[k].paid ELSE 0]

\* What is left of the credits of a customer.
Outstanding(rows, c) == [k \in CreditIds |-> IF rows[k].customer = c
                                               THEN rows[k].remaining ELSE 0]

LEMMA WaiversType ==
  ASSUME NEW rows \in [CreditIds -> CreditRow], NEW c
  PROVE  /\ Waivers(rows, c) \in [CreditIds -> Int]
         /\ Outstanding(rows, c) \in [CreditIds -> Int]
<1>1. \A k \in CreditIds : rows[k] \in CreditRow
  OBVIOUS
<1>2. QED
  BY <1>1 DEF Waivers, Outstanding, CreditRow

\* The history variable waived is what the void credits had left to pay.
WaivedIsWaivers ==
  \A c \in Customers : waived[c] = SumFunction(Waivers(credit, c))

LEMMA WaivedNext ==
  ASSUME TypeInv, TypeInv', SequentialInv, WaivedIsWaivers, [Next]_vars
  PROVE  WaivedIsWaivers'
<1>0. /\ credit \in [CreditIds -> CreditRow] /\ credit' \in [CreditIds -> CreditRow]
      /\ waived \in [Customers -> Nat]
      /\ OneCreditPerSale /\ ReadsAreCurrent /\ CreditInv /\ RowsAddUp
      /\ IsFiniteSet(CreditIds)
  BY LedgerAssumption DEF TypeInv, TypeOK, SequentialInv
<1> SUFFICES ASSUME NEW c \in Customers
             PROVE  waived'[c] = SumFunction(Waivers(credit', c))
  BY DEF WaivedIsWaivers
<1>1. waived[c] = SumFunction(Waivers(credit, c))
  BY DEF WaivedIsWaivers
<1>2. ASSUME waived' = waived,
             \A k \in CreditIds : Waivers(credit', c)[k] = Waivers(credit, c)[k]
      PROVE  waived'[c] = SumFunction(Waivers(credit', c))
  <2>1. Waivers(credit', c) = Waivers(credit, c)
    BY <1>2 DEF Waivers
  <2>2. QED
    BY <1>1, <1>2, <2>1
<1>3. CASE UNCHANGED <<credit, balance, waived>>
  BY <1>1, <1>3
<1>4. ASSUME NEW d, NEW s, NEW amount, GrantsCredit(d, s, amount)
      PROVE  waived'[c] = SumFunction(Waivers(credit', c))
  <2>1. PICK i \in CreditIds :
          /\ credit[i].status = "absent"
          /\ credit' = [credit EXCEPT ![i] = NewCredit(d, s, amount)]
    BY <1>4 DEF GrantsCredit, CreateCredit
  <2>2. credit'[i].status = "open" /\ \A k \in CreditIds \ {i} : credit'[k] = credit[k]
    BY <1>0, <2>1 DEF NewCredit
  <2>3. \A k \in CreditIds : Waivers(credit', c)[k] = Waivers(credit, c)[k]
    BY <2>1, <2>2 DEF Waivers
  <2>4. waived' = waived
    BY <1>4 DEF GrantsCredit
  <2>5. QED
    BY <1>2, <2>3, <2>4
<1>5. ASSUME NEW w \in Workers, RecordPayment(w)
      PROVE  waived'[c] = SumFunction(Waivers(credit', c))
  <2>1. PICK take \in [CreditIds -> Int] :
          \A k \in CreditIds :
            /\ 0 <= take[k] /\ take[k] <= job[w].left[k]
            /\ take[k] = 0 => credit'[k] = credit[k]
            /\ take[k] # 0 => credit'[k].status \in {"paid", "partially_paid"}
    BY <1>5, PaymentWrites
  <2>2. /\ job[w].left \in [CreditIds -> Nat] /\ job[w].at = "payWrite"
    BY <1>5, JobShape DEF TypeInv, RecordPayment
  <2>3. ASSUME NEW k \in CreditIds, take[k] # 0
        PROVE  credit[k].status # "void" /\ credit'[k].status # "void"
    <3>1. job[w].left[k] > 0
      <4>1. job[w].left[k] \in Nat /\ take[k] \in Int
        BY <2>2
      <4>2. QED
        BY <2>1, <2>3, <4>1
    <3>2. QED
      BY <1>0, <2>1, <2>2, <2>3, <3>1 DEF ReadsAreCurrent, Open
  <2>4. \A k \in CreditIds : Waivers(credit', c)[k] = Waivers(credit, c)[k]
    BY <2>1, <2>3 DEF Waivers
  <2>5. waived' = waived
    BY <1>5 DEF RecordPayment
  <2>6. QED
    BY <1>2, <2>4, <2>5
<1>6. ASSUME NEW w \in Workers, CommitVoid(w)
      PROVE  waived'[c] = SumFunction(Waivers(credit', c))
  <2>1. CASE UNCHANGED <<credit, balance, waived>>
    BY <1>1, <2>1
  <2>2. CASE /\ job[w].credit # NoCredit
             /\ waived' = [waived EXCEPT ![credit[job[w].credit].customer] =
                             @ + job[w].left]
             /\ credit' = [credit EXCEPT ![job[w].credit] =
                             [@ EXCEPT !.remaining = 0, !.status = "void"]]
    <3>1. PICK i \in CreditIds : i = job[w].credit
      BY <1>6, <2>2, JobShape DEF TypeInv, CommitVoid
    <3>2. /\ Open(i) /\ job[w].left = credit[i].remaining
      BY <1>0, <1>6, <2>2, <3>1 DEF ReadsAreCurrent, CommitVoid
    <3>3. credit[i] \in CreditRow /\ credit[i].status # "void"
      BY <1>0, <3>2 DEF Open
    <3>4. /\ credit'[i].customer = credit[i].customer
          /\ credit'[i].original = credit[i].original
          /\ credit'[i].paid = credit[i].paid
          /\ credit'[i].status = "void"
          /\ \A k \in CreditIds \ {i} : credit'[k] = credit[k]
      BY <1>0, <2>2, <3>1, <3>3 DEF CreditRow
    <3>5. /\ job[w].left + credit[i].paid = credit[i].original
          /\ job[w].left \in Nat /\ credit[i].paid \in Nat /\ credit[i].original \in Nat
      BY <1>0, <3>2, <3>3 DEF RowsAddUp, CreditRow
    <3>6. Waivers(credit, c)[i] = 0
      BY <3>3 DEF Waivers
    <3>7. Waivers(credit', c)[i] = IF credit[i].customer = c THEN job[w].left ELSE 0
      <4>1. Waivers(credit', c)[i] =
              IF credit[i].customer = c THEN credit[i].original - credit[i].paid ELSE 0
        BY <3>4 DEF Waivers
      <4>2. QED
        BY <3>5, <4>1
    <3>8. \A k \in CreditIds \ {i} : Waivers(credit', c)[k] = Waivers(credit, c)[k]
      BY <3>4 DEF Waivers
    <3>9. /\ SumFunction(Waivers(credit, c)) \in Int
          /\ SumFunction(Waivers(credit', c)) = SumFunction(Waivers(credit, c))
               + (Waivers(credit', c)[i] - Waivers(credit, c)[i])
      <4>1. /\ Waivers(credit, c) \in [CreditIds -> Int]
            /\ Waivers(credit', c) \in [CreditIds -> Int]
        BY <1>0, WaiversType
      <4>2. QED
        BY <1>0, <3>8, <4>1, SumChange
    <3>10. waived'[c] = IF credit[i].customer = c THEN waived[c] + job[w].left
                        ELSE waived[c]
      BY <1>0, <2>2, <3>1
    <3>11. QED
      BY <1>0, <1>1, <3>5, <3>6, <3>7, <3>9, <3>10
  <2>3. QED
    BY <1>6, <2>1, <2>2 DEF CommitVoid
<1>7. QED
  BY <1>3, <1>4, <1>5, <1>6, CreditStep

LEMMA WaivedInvariant ==
  ASSUME OneAtATime PROVE Spec => []WaivedIsWaivers
<1>1. Init => WaivedIsWaivers
  <2> SUFFICES ASSUME Init, NEW c \in Customers
               PROVE  waived[c] = SumFunction(Waivers(credit, c))
    BY DEF WaivedIsWaivers
  <2>1. Waivers(credit, c) \in [CreditIds -> Int]
    BY TypeInit, WaiversType DEF TypeInv, TypeOK
  <2>2. \A k \in CreditIds : Waivers(credit, c)[k] = 0
    BY DEF Init, AbsentCredit, Waivers
  <2>3. SumFunction(Waivers(credit, c)) = 0
    BY <2>1, <2>2, SumZero, LedgerAssumption
  <2>4. QED
    BY <2>3 DEF Init
<1>2. TypeInv /\ SequentialInv /\ WaivedIsWaivers /\ [Next]_vars => WaivedIsWaivers'
  BY TypeNext, WaivedNext
<1>3. QED
  BY <1>1, <1>2, SequentialInvariant, TypeInvariant, PTL DEF Spec

\* BalanceIsOutstanding: what was granted and not paid is either left or was
\* waived, credit by credit, and so it is in the sums.
THEOREM BalanceOutstanding ==
  ASSUME OneAtATime PROVE Spec => []BalanceIsOutstanding
<1>1. TypeInv /\ SequentialInv /\ BalanceCountsEverything /\ WaivedIsWaivers
        => BalanceIsOutstanding
  <2> SUFFICES ASSUME TypeInv, SequentialInv, BalanceCountsEverything,
                      WaivedIsWaivers, NEW c \in Customers
               PROVE  balance[c] = SumFunction(Outstanding(credit, c))
    BY DEF BalanceIsOutstanding, Outstanding
  <2>0. /\ credit \in [CreditIds -> CreditRow] /\ balance[c] \in Int
        /\ IsFiniteSet(CreditIds)
    BY LedgerAssumption DEF TypeInv, TypeOK
  <2>1. /\ Owed(credit, c) \in [CreditIds -> Int]
        /\ Outstanding(credit, c) \in [CreditIds -> Int]
        /\ Waivers(credit, c) \in [CreditIds -> Int]
    BY <2>0, OwedType, WaiversType
  <2>2. ASSUME NEW k \in CreditIds
        PROVE  Owed(credit, c)[k] = Outstanding(credit, c)[k] + Waivers(credit, c)[k]
    <3>1. /\ credit[k].original \in Nat /\ credit[k].paid \in Nat
          /\ credit[k].remaining \in Nat
      BY <2>0 DEF CreditRow
    <3>2. /\ credit[k].status = "void" => credit[k].remaining = 0
          /\ credit[k].status # "void" =>
               credit[k].remaining + credit[k].paid = credit[k].original
      BY DEF SequentialInv, CreditInv, CreditStatusAgrees, RowsAddUp
    <3>3. QED
      BY <3>1, <3>2 DEF Owed, Outstanding, Waivers
  <2>3. SumFunction(Owed(credit, c))
          = SumFunction(Outstanding(credit, c)) + SumFunction(Waivers(credit, c))
    BY <2>0, <2>1, <2>2, SumAdds
  <2>4. balance[c] = SumFunction(Owed(credit, c)) - waived[c]
    BY DEF BalanceCountsEverything, Owed
  <2>5. waived[c] = SumFunction(Waivers(credit, c))
    BY DEF WaivedIsWaivers
  <2>6. SumFunction(Outstanding(credit, c)) \in Int /\ SumFunction(Waivers(credit, c)) \in Int
    BY <2>0, <2>1, SumType
  <2>7. QED
    BY <2>3, <2>4, <2>5, <2>6
<1>2. QED
  BY <1>1, BalanceKeepsCount, WaivedInvariant, SequentialInvariant, TypeInvariant, PTL

\* What the standing sales took out of a product.
Sold(rows, p) == [s \in Sales |-> IF rows[s].status = "completed"
                                    THEN rows[s].cart.lines[p] ELSE 0]

LEMMA SoldType ==
  ASSUME NEW rows, NEW p \in Products,
         \A s \in Sales : rows[s].status # "absent" => rows[s].cart \in Carts
  PROVE  Sold(rows, p) \in [Sales -> Int]
<1>1. ASSUME NEW s \in Sales, rows[s].status = "completed"
      PROVE  rows[s].cart.lines[p] \in Nat
  <2>1. rows[s].cart \in Carts
    BY <1>1
  <2>2. QED
    BY <2>1, CartShape
<1>2. QED
  BY <1>1 DEF Sold

\* One sale changes status and basket: the level moves by what it took out.
LEMMA SoldChange ==
  ASSUME TypeInv, TypeInv', NEW s \in Sales, NEW p \in Products,
         \A t \in Sales \ {s} : sale'[t] = sale[t]
  PROVE  /\ SumFunction(Sold(sale, p)) \in Int
         /\ SumFunction(Sold(sale', p)) = SumFunction(Sold(sale, p))
              + (Sold(sale', p)[s] - Sold(sale, p)[s])
<1>1. Sold(sale, p) \in [Sales -> Int]
  BY SoldType DEF TypeInv, RowsInUse
<1>2. Sold(sale', p) \in [Sales -> Int]
  BY SoldType DEF TypeInv, RowsInUse
<1>3. \A t \in Sales \ {s} : Sold(sale', p)[t] = Sold(sale, p)[t]
  BY DEF Sold
<1>4. IsFiniteSet(Sales)
  BY LedgerAssumption
<1>5. QED
  BY <1>1, <1>2, <1>3, <1>4, SumChange

\* StockMatchesSales: a checkout takes its basket out in the COMMIT that records
\* it, and a void finds its sale still standing when it puts the basket back.
THEOREM StockIsAccounted ==
  ASSUME OneAtATime PROVE Spec => []StockMatchesSales
<1>1. Init => StockMatchesSales
  <2> SUFFICES ASSUME Init, NEW p \in Products
               PROVE  stock[p] = InitStock[p] + adjusted[p] - SumFunction(Sold(sale, p))
    BY DEF StockMatchesSales, Sold
  <2>1. Sold(sale, p) \in [Sales -> Int]
    BY TypeInit, SoldType DEF TypeInv, RowsInUse
  <2>2. \A s \in Sales : Sold(sale, p)[s] = 0
    BY DEF Init, AbsentSale, Sold
  <2>3. SumFunction(Sold(sale, p)) = 0
    BY <2>1, <2>2, SumZero, LedgerAssumption
  <2>4. QED
    BY <2>3, LedgerAssumption DEF Init
<1>2. TypeInv /\ SequentialInv /\ StockMatchesSales /\ [Next]_vars => StockMatchesSales'
  <2> SUFFICES ASSUME TypeInv, SequentialInv, StockMatchesSales, [Next]_vars,
                      NEW p \in Products
               PROVE  stock'[p] = InitStock[p] + adjusted'[p] - SumFunction(Sold(sale', p))
    BY DEF StockMatchesSales, Sold
  <2>0. /\ TypeInv'
        /\ stock \in [Products -> Int] /\ adjusted \in [Products -> Int]
        /\ InitStock[p] \in Nat
        /\ sale \in [Sales -> SaleRow]
    BY TypeNext, LedgerAssumption DEF TypeInv, TypeOK
  <2>1. stock[p] = InitStock[p] + adjusted[p] - SumFunction(Sold(sale, p))
    BY DEF StockMatchesSales, Sold
  <2>2. SumFunction(Sold(sale, p)) \in Int
    BY SoldType, SumType, LedgerAssumption DEF TypeInv, RowsInUse
  <2>3. CASE UNCHANGED <<stock, adjusted, sale>>
    BY <2>1, <2>3
  <2>4. ASSUME NEW q \in Products, NEW delta \in Adjustments,
               RecordManualMovement(q, delta)
        PROVE  stock'[p] = InitStock[p] + adjusted'[p] - SumFunction(Sold(sale', p))
    <3>1. /\ stock' = [stock EXCEPT ![q] = @ + delta]
          /\ adjusted' = [adjusted EXCEPT ![q] = @ + delta]
          /\ sale' = sale
          /\ delta \in Int
      BY <2>4, LedgerAssumption DEF RecordManualMovement, Move
    <3>2. /\ stock'[p] = IF p = q THEN stock[p] + delta ELSE stock[p]
          /\ adjusted'[p] = IF p = q THEN adjusted[p] + delta ELSE adjusted[p]
      BY <2>0, <3>1
    <3>3. QED
      BY <2>0, <2>1, <2>2, <3>1, <3>2
  <2>5. ASSUME NEW w \in Workers, CommitCheckout(w)
        PROVE  stock'[p] = InitStock[p] + adjusted'[p] - SumFunction(Sold(sale', p))
    <3>1. PICK s \in Sales :
            /\ sale[s].status = "absent"
            /\ sale' = [sale EXCEPT ![s] =
                          [status |-> "completed", number |-> NextSaleNumber,
                           cart |-> job[w].cart, due |-> AmountDue(job[w].cart)]]
      BY <2>5 DEF CommitCheckout
    <3>2. /\ stock'[p] = stock[p] - job[w].cart.lines[p]
          /\ adjusted' = adjusted
      BY <2>5 DEF CommitCheckout, Move
    <3>3. job[w].cart.lines[p] \in Nat
      BY <2>5, JobShape, CartShape DEF TypeInv, CommitCheckout
    <3>4. /\ sale'[s].status = "completed" /\ sale'[s].cart = job[w].cart
          /\ \A t \in Sales \ {s} : sale'[t] = sale[t]
      BY <2>0, <3>1
    <3>5. Sold(sale, p)[s] = 0 /\ Sold(sale', p)[s] = job[w].cart.lines[p]
      BY <3>1, <3>4 DEF Sold
    <3>6. SumFunction(Sold(sale', p)) = SumFunction(Sold(sale, p))
            + (Sold(sale', p)[s] - Sold(sale, p)[s])
      BY <2>0, <3>4, SoldChange
    <3>7. QED
      BY <2>0, <2>1, <2>2, <3>2, <3>3, <3>5, <3>6
  <2>6. ASSUME NEW w \in Workers, CommitVoid(w)
        PROVE  stock'[p] = InitStock[p] + adjusted'[p] - SumFunction(Sold(sale', p))
    <3>1. PICK s \in Sales : s = job[w].sale
      BY <2>6, JobShape DEF TypeInv, CommitVoid
    <3>2. sale[s].status = "completed" /\ sale[s].cart \in Carts
      BY <2>6, <3>1 DEF CommitVoid, SequentialInv, ReadsAreCurrent, TypeInv, RowsInUse
    <3>3. /\ stock'[p] = stock[p] + sale[s].cart.lines[p]
          /\ adjusted' = adjusted
          /\ sale' = [sale EXCEPT ![s].status = "void"]
      BY <2>6, <3>1 DEF CommitVoid, Move
    <3>4. sale[s].cart.lines[p] \in Nat
      BY <3>2, CartShape
    <3>5. /\ sale'[s].status = "void"
          /\ \A t \in Sales \ {s} : sale'[t] = sale[t]
      <4>1. sale[s] \in SaleRow
        BY <2>0
      <4>2. sale'[s] = [sale[s] EXCEPT !.status = "void"]
        BY <2>0, <3>3
      <4>3. QED
        BY <2>0, <3>3, <4>1, <4>2 DEF SaleRow
    <3>6. Sold(sale, p)[s] = sale[s].cart.lines[p] /\ Sold(sale', p)[s] = 0
      BY <3>2, <3>5 DEF Sold
    <3>7. SumFunction(Sold(sale', p)) = SumFunction(Sold(sale, p))
            + (Sold(sale', p)[s] - Sold(sale, p)[s])
      BY <2>0, <3>5, SoldChange
    <3>8. QED
      BY <2>0, <2>1, <2>2, <3>3, <3>4, <3>6, <3>7
  <2>7. CASE ~ \/ \E w \in Workers : CommitCheckout(w) \/ CommitVoid(w)
               \/ \E q \in Products, delta \in Adjustments :
                    RecordManualMovement(q, delta)
    <3>1. UNCHANGED <<stock, adjusted, sale>>
      BY <2>7 DEF Next, Checkout, Void, PayCredit, ReplayCheckout, BeginCheckout,
         LoseCheckoutRace, RollBack, BeginVoid, RestockForVoid,
         BeginRecordPayment, RecordPayment, GrantManual, SetActive, vars
    <3>2. QED
      BY <2>3, <3>1
  <2>8. QED
    BY <2>4, <2>5, <2>6, <2>7
<1>3. QED
  BY <1>1, <1>2, SequentialInvariant, TypeInvariant, PTL DEF Spec

=============================================================================
