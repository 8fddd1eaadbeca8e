# thyEcosystem in TLA+

thyEcosystem is the back office and till of small shops: a NestJS API over one
PostgreSQL database (`src/backend`), a Flutter till that keeps selling without
a network (`src/mobile`), and an administration web site (`src/admin`).  What
is hard in it is not an algorithm.  It is that every request runs one or
several short transactions at READ COMMITTED, that requests of several devices
overlap, that answers get lost and are asked for again, and that instances of
the API are stopped while they work.  These modules model the parts where that
matters (the books of a shop, the payments made outside any gateway, the
outbox that tells people about them, sessions and the guards behind them, teams
and their places, catalogue and pictures, inboxes and lists, the staff and its
console), check them with TLC and prove their main invariants with TLAPS.

1. [The system](#1-the-system)
2. [Modules and what they stand for](#2-modules-and-what-they-stand-for)
3. [What the runs check](#3-what-the-runs-check)
4. [Fairness](#4-fairness)
5. [What is proved](#5-what-is-proved)
6. [Disagreements found](#6-disagreements-found)
7. [Not modelled](#7-not-modelled)
8. [Plan](#8-plan)
9. [Running](#9-running)

## 1. The system

Paths are below `src/backend/src` unless they start with `src/`.

| Component | State it keeps | Operations that change it | What is hard | What makes it correct |
|---|---|---|---|---|
| Sales (`modules/business/sales`) | `sales`, `sale_items`, `sale_counters` | `checkout`, `void` | retries after lost answers, two requests with one request id, check and write of `void` in two transactions | one sale per request id; gap-free numbers; a void undoes exactly what the sale did |
| Inventory (`modules/business/inventory`) | `products.current_stock`, `inventory_movements`, stock events | `applyMovement`, `recordManualMovement` | concurrent decrements of the last units, alerts only at crossings | no overselling online; stock equals journal; owners told of low and negative stock |
| Customer credits (`modules/business/credits`) | `customer_credits`, `credit_payments`, `customers.current_balance` | `createCredit`, `grantManual`, `recordPayment`, the cancellation in `void` | amounts distributed over rows read without a lock | debts, payments and balances agree; nobody pays more than is owed |
| Manual payments (`modules/business/payments`) | `manual_payments`, proof pictures | `start`, `submit`, `verify` (with `recordSale`), `reject`, `cancel`, `setProof`, `removeProof` | each request reads in one transaction and writes in another; sale and link are two transactions | a declaration is decided once; a transaction reference pays once; a verified payment is sold once |
| Products, payment methods, pictures (`business/products`, `business/payments`) | `products`, `business_payment_methods`, `manual_payments.proof_key`, the object store | create, update, remove, `set`/`setProof`/`setLogo` and their opposites | merge of read fields; a row and a store no transaction covers; limits counted before the insert | a row names only pictures there are; files left behind are explained; nothing read is lost silently |
| Outbox and relay (`kernel/events`) | `ops.outbox_events`, `ops.processed_events` | `emit`, `claim`, `dispatchOne`, `fail` | leases that run out under a stalled relay, crashes, retries, dead letters | every event settled; acknowledged means everybody was reached |
| Notifications (`modules/notifications`) | `ntf.notifications`, `notification_deliveries`, devices, preferences | `notify`, `deliverPush`, `registerDevice`, inbox operations | replays of an event over a half-done handler; a phone that changes hands while a push leaves | one notification and at most one push per user and event; a phone is told of what its holder was told |
| Invitation texts (`modules/businesses/invitation-sms.handler.ts`) | none of its own | `handle` | a text cannot be taken back | no text sent twice because something else failed |
| Sessions, codes (`modules/auth`) | refresh tokens and families, one-time codes | `request`, `otpVerify`, `refresh`, `logout`, `revokeSessions` | rotation against lost answers, revocation against rotation, guesses that overlap | a family is a line, and dead for good when it is; few sessions outlive a sign-out |
| Teams (`modules/businesses`) | members, roles, invitations | invite, accept, decline, revoke, change of role and status | seats counted before the insert; a handler that holds one connection and asks for another | `members.max` holds but for requests that overlapped; requests wait for each other for one reason only |
| Subscriptions, feature flags | plans, overrides, flags | `setOverride`, `upsertFlag` | limits read before they are used | as teams and products |
| Idempotency keys (`kernel/infra.services.ts`) | `ops.idempotency_keys` | `run` | the process dies between key and answer | an effect is not repeated under one key |
| Administration (`modules/admin`) | staff accounts, failures, authenticators, staff sessions, the journal | sign-in, lock-out, enrolment, settings, acts on accounts | counts and steps read before they are written | a code is used once, a second factor was proved, the journal replays |
| Access control (`kernel/auth`) | cache of account states, rate limits | the three guards, `get`, `invalidate`, `incrWindow` | a cached state older than its invalidation; Redis that fails | what is judged on is the row soon after a change; a window opens again |
| Administration web site (`src/admin`) | per tab: the CSRF token, the screen, the requests under way | session reads, dialogs, logins | tabs share the cookie and each read of the session replaces the token | a change is refused only when it was overtaken; no console stays without a token |
| Offline sales (`src/mobile/app/lib/features/sales/offline`) | queue of unsent sales | enqueue, sync, retry, discard | account change in the middle of a run | a sale is neither lost nor sent elsewhere |
| Customers, expenses and every list | rows | create, update, delete, pages | entries appear, move and leave between two pages | what a reader may miss |
| Categories, users' profiles | rows | one-statement updates | none beyond the row | none beyond the row |
| Dashboard, screens, adapters, migrations | none, or another system's | reads, I/O | none | not a subject of a state machine |

How they interact.

- `checkout` and `void` call `applyMovement`, `createCredit` and the outbox's
  `emit` **inside their own transaction**: those are operators of the ledger's
  actions, not actions.
- `PaymentsService.recordSale` calls `SalesService.checkout` **in a transaction
  of its own**, with the payment's request id.  This is the one promise of the
  ledger other parts rely on, stated as `SaleBook`: the ledger implements it,
  the payments are written against it, and the offline queue will be.
- Events reach consumers only through `ops.outbox_events`: a producer's part in
  it is one INSERT that commits with its business change.
- Instances of the API share nothing but the database and Redis: two relays
  compete with one another by `claim` alone.
- Every request passes the three guards before its handler: `AccessControl` is
  about what they judge on, `Teams` about the membership read last, and the
  other modules about handlers that were let in.
- The console reaches the platform through the staff's session (`StaffAccess`)
  and a CSRF token (`Console`); a sign-out it orders is an action of
  `AccountSessions` and `AccessControl`, an override one of `Teams`.

## 2. Modules and what they stand for

| Module | Role |
|---|---|
| `SaleBook` | what the ledger promises about sales: a request id names one sale for ever, a void sale stays void |
| `SalesLedger` | sales, stock and customer debts of one business |
| `MCSalesLedger` | baskets and stock levels for TLC, symmetry |
| `SalesLedgerProofs` | theorems about `SalesLedger` |
| `PaymentLifecycle` | what the payments promise: the statuses of a payment and the one sale of a verified one |
| `ManualPayments` | the payments, request by request, over `SaleBook` |
| `MCManualPayments` | the instance: which customer may be deleted, and when |
| `ManualPaymentsProofs` | theorems about `ManualPayments` |
| `OutboxRelay` | outbox, relays, notification and text consumers; TLC runs it as it is |
| `OutboxRelayProofs` | theorems about `OutboxRelay` |
| `AccountSessions`, `MCAccountSessions`, `AccountSessionsProofs` | one-time codes, refresh tokens, sign-outs |
| `AccessControl`, `AccessControlProofs` | the guards, the cached account state, rate limits; TLC runs it as it is |
| `Teams`, `MCTeams` | members, invitations, places, pool connections |
| `BusinessProofs` | theorems about `Catalogue` and about `Teams` |
| `Catalogue`, `MCCatalogue` | products, payment methods, pictures |
| `Listings` | every list that is read page by page, with the rows of customers and expenses |
| `Inbox`, `MCInbox`, `InboxProofs` | notifications, phones and pushes; its inboxes are lists of `Listings`, which it extends |
| `StaffAccess`, `MCStaffAccess` | sign-in of the staff |
| `Console`, `MCConsole` | tabs of the administration, its routes and its journal; the instance: what a second tab does |
| `AdministrationProofs` | theorems about `StaffAccess` and about `Console` |

`BusinessProofs` and `AdministrationProofs` extend two modules each, so `Teams`
and `Console` use names of their own where the other module has one
(`TeamsSpec`, `ConsoleSpec`, `Calls`, `StaffSessions`, ...).  The two models of
such a pair share no variable, and each theorem is about one of them.

### The step

A variable is a table (or the columns the properties need), and `job` says what
each request or relay is in the middle of, with **everything it has read and
will use later**.  A transaction that reads nothing it writes back is one step.
Another is cut at every place where somebody else may commit between a read and
the write that uses it; its writes all appear in its last step.  Increments
(`current_stock = current_stock + n`, `current_balance: { decrement }`) and
conditions in an UPDATE's WHERE are evaluated when they commit, because
PostgreSQL re-evaluates them on the locked row; a value computed in TypeScript
is the one read.  Any request may end at any step with its transaction rolled
back (`RollBack`, `Abandon`, `Throw`, `Crash`), and where the code answers after
COMMIT the answer may be lost.

### SalesLedger

| Code | Action or operator |
|---|---|
| `checkout`: lookup by request id | `ReplayCheckout`, `BeginCheckout` |
| `attemptCheckout` up to `priceCart` | `BeginCheckout`, `Accepted`, `AmountDue` |
| its writes: number, stock, sale, items, credit | `CommitCheckout`, `NextSaleNumber`, `Guarded`, `EnoughStock` |
| unique violation on `client_request_id` | `LoseCheckoutRace`, `Taken` |
| `void`: `findOne` and the status check | `BeginVoid`, `Voidable` |
| `void`: stock back, open credit read | `RestockForVoid` |
| `void`: credit, balance, status, COMMIT | `CommitVoid` |
| `applyMovement`, `alertOnThreshold` | `Move`, `AlertOnThreshold` |
| `recordManualMovement` | `RecordManualMovement` |
| `createCredit`, `grantManual` | `CreateCredit`, `GrantManual` |
| `recordPayment`: unlocked read, refusal | `BeginRecordPayment`, `Open` |
| `recordPayment`: FIFO loop and writes | `RecordPayment`, `Fifo`, `StatusAfterPayment`, `BalanceAfter` |
| `isActive` of a product | `SetActive` |

A basket is a quantity per product, a total, what is paid at the till, a
customer, a request id and whether it was rung up offline; prices, discounts and
lines of the same product are summed up in it, since no property tells them
apart.  `void` updates the stock rows before it reads the credit and holds them
until it commits: nobody else can write such a row meanwhile, which is
`Locked`.  It is the only place where a lock is held between two steps.
The loop of `checkout` that tries again when two sales draw one number is left
out: numbers come from the locked counter, and `SaleNumbersGapFree` says that
they do not collide.
The ids of credits stand for the order of `created_at`; a new one takes any free
id, because `created_at` is the time its transaction began and transactions do
not commit in that order.

### ManualPayments

| Code | Action or operator |
|---|---|
| `start`: `findByRequestId`, insert, unique violation | `ReplayStart`, `BeginStart`, `CommitStart`, `LoseStartRace` |
| `submit`: read, search for the reference, guarded update | `BeginSubmit`, `CheckClash`, `CommitSubmit` |
| `verify`: read, guarded update, read again | `BeginVerify`, `CommitVerify`, `Reread` |
| `recordSale`: checkout, then the link | `CheckoutPayment`, `LinkSale` |
| `assertCustomerExists` of `checkout`, `CustomersService.remove` | `CustomerGone`, `DeleteCustomer` |
| `reject` | `BeginReject`, `CommitReject` |
| `cancel` | `BeginCancel`, `CommitCancel` |
| `updateMany ... where { id, status }` | `Unmoved` |
| index `manual_payments_reference_in_use_key` | `ReferenceFree` |

`CheckoutPayment` is one step of `SaleBook`: the payment's basket is sold
offline, at frozen prices, hence without a refusal that depends on the stock.
The one refusal that lasts is the customer's: the id of a customer frozen in
`cart_snapshot` is held by no foreign key, so a customer without sales and debts
may be deleted while the payment waits, and `checkout` then answers 404 every
time, unless it finds the sale under its request id first.  `gone` says whose
customer was deleted.
Whether a submission comes from the payer or the seller makes no difference to
the state; in `cancel` it does, and `owner` is the permission the request holds.

### OutboxRelay

| Code | Action or operator |
|---|---|
| `OutboxService.emit` | `Emit` |
| `claim` (one UPDATE with SKIP LOCKED) | `Claim`, `Claimable` |
| passing of `next_attempt_at`, under a relay at work or not | `ComeDue` |
| `dispatchOne`: `alreadyProcessed`, `handle`, mark, acknowledgement | `SkipProcessed`, `BeginHandle`, `MarkProcessed`, `Publish` |
| `notify`, `deliverPush`, `setPushStatus` | `Notify`, `SendPush`, `RecordPush` |
| `InvitationSmsHandler.handle` | `BeginHandle`, `SendText` |
| an exception anywhere in the try block, `fail` | `Throw`, `Fail`, `LastAttempt` |
| an instance that is stopped | `Crash` |

Time is reduced to `due`.  An attempt may outlive its lease (60 s, with nothing
that stops a slow attempt): `ComeDue` then makes the event due under the relay at
work, and another may claim it.  `MaxFaults` bounds these overruns and the
crashes of the instance together.  An event is for both consumers, may lose its object (`Withdraw`: the
invitation is answered or revoked) and has several recipients, which is the
union of what the event types of the code do.

`sends`, `texts`, `unsure`, `crashes` and `overruns` (and, in the ledger, `answered`, `waived`,
`adjusted`) are history: no guard reads them.

### AccountSessions

| Code | Action or operator |
|---|---|
| `OtpService.request`: counts, transaction, text | `CountCodes`, `IssueCode`, `SendCode`, `RecentCodes` |
| `OtpService.verify`: read, count a guess and compare, consume | `ReadCode`, `Exhausted`, `CountGuess`, `ConsumeCode`, `IsNewest` |
| `otpVerify`: account, session | `UpsertUser`, `IssueSession` |
| `refresh`: read, reuse, guarded UPDATE, reload, insert | `ReadRefreshToken`, `RevokeFamily`, `ConsumeToken`, `ReloadUser`, `IssueSession` |
| `logout` | `Logout` |
| `revokeSessions` of the administration | `RevokeSessions` |
| a request that ends between two statements | `Crash` |

A client may present any token it was ever given, at any time, which covers lost
answers, retries and theft alike.  `refresh` runs on the pool, each statement a
transaction of its own: this is why a family can be left without a good token
(`DeadFamilyStaysDead` says that nothing brings it back).

### AccessControl

| Code | Action or operator |
|---|---|
| `AuthGuard`, `UserStateService.get` | `Present`, `ReadCache`, `LoadRow`, `FillCache`, `Judged` |
| `RateLimitGuard`, `RedisService.incrWindow` | `CountRequest`, `Counted`, `RuleOf` |
| `AccessGuard` on a restricted account | `Admit`, `ReadOnly` |
| `setSuspended`, `revokeSessions`, `invalidate` | `SetSuspended`, `RevokeSessions`, `Commit`, `Invalidate` |
| Redis expiry | `Tick` |

Every call to Redis may fail: a cache that does not answer is a miss, a counter
that does not answer lets the request pass or refuses it as its rule says.  A
request takes a tick at most, which is what makes "soon after a change" a
statement about the code (`Recent`).

### Teams

| Code | Action or operator |
|---|---|
| `create` | `Create` |
| `AccessGuard` on a membership, `targetFor` | `Guard`, `BeginManage`, `TargetFor`, `MayManage`, `MayAssign` |
| `changeMemberRole`, `setMemberStatus`, `removeMember`, overrides of permissions | the actions of those names |
| `invite`: limit, count, insert | `Invite`, `CountSeats`, `InsertInvitation` |
| `revokeInvitation`, `declineInvitation` | `BeginRevoke`, `RevokeInvitation`, `DeclineInvitation`, `Settle` |
| `acceptInvitation` | `AcceptInvitation`, `AcceptReadLimit`, `AcceptCountSeats`, `AcceptWrite` |
| `assertRoomFor`, `teamSeats`, `current`, `limit` | `RoomFor`, `Seats`, `Limit` |
| `Db.tx`, the pool, a ROLLBACK, a connection that is cut | `Held`, `FreeConnection`, `RollBack`, `ProcessEnds` |
| `setOverride`, `removeOverride` | `SetOverride`, `RemoveOverride` |

The row locks are those of `SELECT ... FOR UPDATE` (`MemberLocked`,
`InvitationLocked`).  `raced` marks a request whose count was overtaken before
it wrote: `SeatsWithinLimit` says that a team outgrows its limit by such a
write and by nothing else.

### StaffAccess

| Code | Action or operator |
|---|---|
| `login`: read, verify, session or failure | `BeginLogin`, `OpenSession`, `RecordFailure`, `Failure`, `IsLocked` |
| `StaffGuard` | `Guard` |
| `setupTotp` | `SetupTotp`, `MaySetUp` |
| `confirmTotp`: check, write, session | `Refused`, `CheckCode`, `Acceptable`, `AcceptCode`, `Succeed` |
| `logout`, expiry | `Logout`, `Expire` |

`read` is the row a request fetched; the values it writes come from it, and
`raced` becomes true when some request wrote over a change it had not read.

### Catalogue

| Code | Action or operator |
|---|---|
| `set`, `setProof`, `setLogo` | `BeginSet`, `Put`, `Name`, `NameFails`, `Undo`, `Discard` |
| `clear`, `removeProof`, `removeLogo` | `BeginClear`, `Clear`, `Discard` |
| the three of them differ: who may edit, what is undone, what is displaced | `Editable`, `Replaced`, `Displaced` |
| payment methods: `create`, `update` by merging, `remove` unless used | `CreateMethod`, `BeginUpdate`, `Merged`, `UpdateMethod`, `BeginRemove`, `CountUses`, `DeleteMethod` |
| a payment naming the method, its decision | `BeginPayment`, `StartPayment`, `Decide` |
| products: `create`, `update`, `deactivate` under `products.max` | `BeginProduct`, `AssertProductRoom`, `WriteProduct`, `Deactivate` |
| an instance that dies, a COMMIT whose answer is lost | `Die`, `NameFails` |

`Scopes` says which operations one behaviour mixes; the instance has three such
sets: pictures, payments and the removal of the method; the method's fields and
its removal; products and their pictures.

### Listings and Inbox

| Code | Action or operator |
|---|---|
| lists continued from a cursor (inbox, users, audit) | `ByCursor`, `CursorAt`, `Millisecond`, `OpenContinued`, `NextPage` |
| numbered pages (sales, movements, credits, payments, products, customers, expenses) | `ByNumber`, `Skipped`, `Count`, `OpenNumbered`, `NextPage` |
| rows that appear, leave and are edited | `Appear`, `Leave`, `Edit`, and `CreateCustomer`, `UpdateCustomer`, `RemoveCustomer`, `CreateExpense`, ... |
| `notify`: transaction, push, its outcome | `BeginNotify`, `CommitNotify`, `Send`, `Record` |
| `registerDevice`: DELETE, INSERT ... ON CONFLICT, under row level security | `Free`, `Freed`, `Claim`, `Conflicting`, `MayRefresh` |
| `unregisterDevice`, `markRead`, `markAllRead`, `setPreferences` | the actions of those names |

Every list is read from its greatest place to its smallest; a place stands for
a date (in microseconds, which the cursor truncates to `Ticks`) or a name.  The
DELETE of a registration waits for rows another worker holds and then works on
its own snapshot; this is `Freeing` and `Freed`.

### Console

| Code | Action or operator |
|---|---|
| `api`: what a request carries, what comes back, a connection that fails | `Sent`, `Told`, `Answered`, `Lose`, `BreakOff` |
| `useSession`, `App`, « Réessayer » | `Load`, `Reread`, `SessionRead`, `DroppedRead`, `Shown` |
| `invalidateQueries`, a read given up for a newer one | `Invalidate`, `Settled`, `GiveUp`, `MayGiveUp` |
| `onUnauthorized` | `NeedsLogin`, `Unauthorized` |
| login and code | `SubmitLogin`, `SubmitCode`, `Login`, `Confirm`, `LoginAnswer`, `ConfirmAnswer`, `FormRefused` |
| « Changer de compte » of `TotpPage`, « Se déconnecter » of `Layout` | `Cancel`, `SignOut`, `ServeLogout`, `LogoutAnswer`, `Cleared` |
| pages, dialogs of the pages | `OpenPage`, `ChangeFlag`, `ChangeOverride`, `ChangeUser`, `Submit`, `Answer` |
| `StaffGuard`, `rotateCsrf` | `StaffGuard`, `Check`, `ReadSession`, `RunOut` |
| the handlers behind them, with `auditStaff` | `ReadFlag`, `WriteFlag`, `SetOverride`, `RemoveOverride`, `SetSuspended`, `ActOnUser`, `Audit` |

A request is sent, guarded, handled and answered in steps of its own, so that a
late answer meets a tab that has moved on.  A tab has one request of each use
(`Uses`), which is a bound of the model: the read its screen waits for, one given
up, a page, a login, a code, a logout, a change, and one whose connection broke.
That last one (`stray`) goes on at the server, wherever it was (`BreakOff`): it
may still replace the token or close the session, and nobody hears its answer,
while the tab was told that it failed and may already ask again.  The forms are
not tied to their screen: the buttons that leave are never disabled, so a code
and a logout may be under way together, and the answer of either meets whatever
the tab shows by then.  `pending` is the form of the page shown, which is
disabled until it is refused or another page takes its place.

The two ways to leave differ.  « Changer de compte » invalidates the session,
which is read again.  « Se déconnecter » clears the cache first
(`Layout.tsx:24-29`): there is no query left to read again, and the console
stays as it is without a token.  `cache` says whether the tab has a query with
data, one without, or none (`Cleared`, `Settled`).

Of the journal the model keeps, per subject, the last entry and whether each
entry followed from the one before.

History variables of these modules, which no guard reads: `changed`
(AccessControl), `alarmed` (AccountSessions), `guesses`, `accepted`, `replayed`,
`raced` (StaffAccess), `meant`, `overlapped`, `excuses` (Catalogue), `told`,
`underWay`, `stray` (Inbox), `late` (Console), and the fields `raced` and
`overlapped` of requests.

## 3. What the runs check

### Runs that pass

| Run | Distinct states | Bounds | What it shows |
|---|---|---|---|
| `ledger_concurrent` | 802,496 | 2 requests at a time, 1 product, 2 sales, 2 credits, 1 request id, baskets online, offline, named and unnamed; 3 pieces at first | `OneSalePerRequest`, `SaleNumbersGapFree`, `NegativeOnlyOffline`, `OwnersAlerted`, `BalanceCountsEverything` and the refinement of `SaleBook`, with retries, races, roll-backs, voids, credit payments and manual movements |
| `ledger_sequential` | 313,720 | 1 request at a time, 2 sales, 3 credits, payments of 1 and 2 | the accounts the code means to keep: `StockMatchesSales`, `BalanceIsOutstanding`, `PaidWithinDebt`, `VoidCancelsDebt`. Overlaps break all four (section 6): this run says that each operation alone is right, and does not catch the overlaps themselves |
| `payments` | 140,545 | 2 requests at a time, 2 payments, 2 request ids, 1 provider, 1 reference, 1 customer who may be deleted | `OnePaymentPerRequest`, `ReferenceProvesOnePayment`, `DeclaredCancelledByOwner`, the refinement of `PaymentLifecycle`, and `VerifiedGetsSold` under fairness |
| `relay` | 458,927 | 2 relays, 1 event, 2 recipients, 2 attempts, 1 fault: a crash or a lease that runs out under its relay | `PublishedReachesEveryone`, `PushedOnce`, `NoTextForOthersFailures`, and `EventSettled` under fairness |
| `accounts` | 1,121,920 | 1 account, 2 requests at a time, 2 codes of 2 guesses, 3 tokens, 1 sign-out | `FamilyIsALine`, `CodeOpensFewSessions`, `FewSurviveRevocation`, `DeadFamilyStaysDead` |
| `access` | 220,446 | 1 account, 1 request and 1 administrator at a time, a cache of 2 ticks, a window of 2 ticks and 1 request | `JudgedOnSettledRow`, and `WindowReopens` under fairness |
| `teams` | 407,192 | an owner and 2 others, 2 requests at a time, 2 connections, 2 places | `OnlyAcceptancesWedge`, `SeatsWithinLimit` |
| `staff` | 1,038,724 | 1 account, 2 requests at a time, 1 session, 2 failures before a lock, 2 secrets, steps 2 and 3 of the authenticator | `CodesUsedOnce`, `EnrolledSecretProved`, `FailuresAreCounted` |
| `catalogue` | 659,701 | 2 requests at a time over one of the three sets of operations; 2 products, 1 payment, 2 fields of 2 values, 1 place for products, 2 pictures put, 1 fault | `NamedFilesExist`, `LeftoversExplained`, `ReadsHeldUntilWritten` |
| `console` | 360,928 | 2 tabs, 1 session, 2 CSRF tokens, 2 requests under way; a second tab beside changes of the flag only, and while no connection is cut off | `JournalReplays`, `RefusedOnlyWhenOvertaken`, and `NoTokenlessConsole` under fairness |
| `inbox` | 460,290 | 2 accounts and 1 phone, 2 workers; or 1 list of 3 entries, pages of one | `HolderWasTold`, `StrayWasUnderWay`, `CursorsMissOnlyAMillisecond`, `NumbersMissOnlyWhatShifts` |

Several properties are of the form "this happens only when ...".  They are the
strongest thing the code promises where it reads without a lock: `CodesUsedOnce`,
`EnrolledSecretProved` and `FailuresAreCounted` hold as long as no request wrote
over a change it had not read (`raced`), `SeatsWithinLimit` but for a count that
was overtaken, `JournalReplays` and `ReadsHeldUntilWritten` but for what
`overlapped` names.  They do not catch the race they except, which the code has
(section 6); they say that it is the *only* way to lose what they protect, and
check with it the sequential part of every handler.

### Why these bounds

- *Requests.*  The races are between two requests that hold old reads.  For the
  payments three were tried with one payment and two references (120,928
  states, safety), where a third may restore the status between the read and the write
  of the second, and nothing more was found.
- *Ledger.*  Two sales are needed for a race on one request id, and for numbers
  to collide; three credits for a FIFO distribution that ends inside the second
  and leaves the third; 3 pieces with a threshold of 1, sold by one or two and
  offline by three, meet both alert boundaries and the step from above the
  threshold to below zero.  A product never influences another except through
  the locks of a void, so one is enough for the sums.  `MaxStock` bounds manual
  deliveries only.
- *Payments.*  Two payments under two request ids, and one reference they both
  may name.  A deletion of a customer matters to `checkout` alone, so that
  `LeavesInTime` leaves it until the payment is verified and unsold, which loses
  nothing: a deletion that came earlier is as one that comes just before the
  checkout.  Without the restriction: 394,393 states, safety.
- *Relay.*  One event: events meet only in the order in which they are claimed,
  which the properties do not mention; `PublishedReached`, `PushOnce` and
  `TextedForNobodyElse` are proved for any number of them.  Two attempts are a
  failure that is retried and one that is the last; one overrun is enough for two
  relays at one event, for a dead letter brought back and for a third attempt.
  Also checked, with liveness: one recipient with 2 attempts and 2 faults (287,691
  states) or 3 attempts and 2 faults (570,293), two recipients with 3 attempts and 1 fault
  (1,016,295).
- *Accounts.*  Two codes: the newest is the one that counts, an older one must
  not.  Three tokens: a login, a refresh and one more, be it a refresh of the
  same family or a second login.  One sign-out, in any place.
- *Access control.*  A cache of two ticks leaves room for an entry that is
  filled late and used on its last tick.  Two requests with a cache of one tick
  were checked for safety (19.8 million states).
- *Teams.*  Two connections: one for an acceptance, and a second that another
  may take from it.  The third person lets an acceptance and an invitation fill
  the last place.
- *Staff.*  Two failures: the one that counts and the one that locks.  Two
  secrets: the one in force and the one that replaces it.  With two sessions:
  7.2 million states, no difference.
- *Catalogue.*  Two pictures are the one named and the one that replaces it; one
  fault is a death or a lost COMMIT at any step.
- *Console.*  Two tabs, for one overtakes the other's token; two tokens, for one
  replaces the other.  Tabs meet in the token and in the flag and nowhere else,
  so that beside a second tab (`SecondTabChangesFlag`) the flag is what they
  change; all changes, and connections cut off, are met by one tab.  Also
  checked: one tab, two sessions, three tokens and three requests, with
  `Permitted = {"reveal"}` (1,614,618 states, `RefusedOnlyWhenOvertaken`); two
  tabs with connections cut off beside each other, `Permitted = {"flag"}`
  (649,546 states, safety).  `tokens = MaxTokens` in `NoTokenlessConsole` is the
  bound of the instance, not a promise.
- *Inbox.*  Three entries and pages of one make a first, a middle and a last
  page.  The fourth identifier is the one that appears while the list is read.
  Three workers on one phone: about a million states, no difference.

### The run that finds a disagreement

`ledger_void_twice`: section 6.

### Deadlock

Checked in `ledger_*`, `payments`, `access`, `teams` and `inbox`: some request
can always be served.  In `teams` this is of interest: acceptances that wedge the
pool stay so until PostgreSQL ends their idle sessions and the process with them
(`ProcessEnds`).  Not
checked in `relay` (an outbox whose events are all settled, with no crash
left, has nothing to do), `accounts` (between its daily codes an account may
stop), `catalogue`, `staff` and `console` (all pictures, secrets or tokens of
the instance drawn).

## 4. Fairness

- *Ledger, accounts, teams, staff, catalogue, inbox*: none is assumed and no
  liveness is claimed.
- *Payments* (`Fairness`): a request being served ends (weak fairness: Node runs
  every callback, and a lost connection ends a request too).  `OwnerInsists` is
  strong fairness of three steps for a payment that is verified and unsold: the
  application shows such a payment as needing attention (`needsAttention`,
  computed in `payments.service.ts`), the owner's button calls `verify` again,
  and a request that dies or is refused by the database does so some of the time.  Weak
  fairness would not do, as each failure disables the step.  What fails every
  time is not hidden by it: the refusal of a deleted customer (`CustomerGone`)
  is an outcome of `CheckoutPayment` that is the only one from then on, and
  `VerifiedGetsSold` names it as the one way a verified payment stays unsold.
- *Relay* (`FairSpec`): some request keeps coming to the instance of every relay,
  whose interval then goes on ticking (`Claim`) and whose attempts go on
  (`Dispatch`); time passes (`ComeDue`).  Without traffic an instance may have no
  CPU and its timer advances no more (`outbox-relay.service.ts:37-38`): nothing
  is promised then, and `EventSettled` says nothing about it.  `Emit`,
  `Withdraw`, `Throw`, `Crash` and the overrun of a lease are never obliged to
  happen.  A call that never returns is outside of this: `inFlight` then stops
  that instance's ticks for good.
- *Access control* (`FairSpec`): requests end, the clock goes on, an
  administrator's request gets to `invalidate`.  Users are under no obligation
  to stop: `WindowReopens` holds though they never do.
- *Console* (`Fairness`): a read of the session under way is guarded and handled
  (weak fairness), and its answer read.  `SessionRead` has strong fairness: the
  refusal of another request makes the tab drop the read under way and start a
  new one, so the answer is not continuously possible; but each restart follows
  the refusal of a form somebody filled in, or a click, which people do not do
  without end before the screen has shown anything.  Nothing else is obliged to
  go on.

## 5. What is proved

For every value of the constants that satisfies the module's assumptions: types
of the parameters, null values that are no values, and, where a property counts
or sums, sets that are finite (`Sales`, `CreditIds`, `Requests`, `Users`,
`Relays`, `Calls`, `Products`, `Ids`), which the rows of a table and the requests of a
server are at any time.

| Theorem | Statement |
|---|---|
| `SalesLedgerProofs!TypeCorrect` | `Spec => []TypeOK` |
| `SalesLedgerProofs!OneSale` | `Spec => []OneSalePerRequest` |
| `SalesLedgerProofs!NumbersGapFree` | `Spec => []SaleNumbersGapFree` |
| `SalesLedgerProofs!NoOversell` | `Spec => []NegativeOnlyOffline` |
| `SalesLedgerProofs!NothingUnannounced` | `Spec => []OwnersAlerted` |
| `SalesLedgerProofs!StatusAgrees` | `Spec => []CreditStatusAgrees` |
| `SalesLedgerProofs!LedgerImplementsBook` | `Spec => ImplementsSaleBook` |
| `SalesLedgerProofs!BalanceKeepsCount` | `Spec => []BalanceCountsEverything` |
| `SalesLedgerProofs!StockIsAccounted` | `OneAtATime`: `Spec => []StockMatchesSales` |
| `SalesLedgerProofs!BalanceOutstanding` | `OneAtATime`: `Spec => []BalanceIsOutstanding` |
| `SalesLedgerProofs!NobodyOverpays` | `OneAtATime`: `Spec => []PaidWithinDebt` |
| `SalesLedgerProofs!VoidLeavesNothing` | `OneAtATime`: `Spec => []VoidCancelsDebt` |
| `ManualPaymentsProofs!TypeCorrect` | `Spec => []TypeOK` |
| `ManualPaymentsProofs!OnePayment` | `Spec => []OnePaymentPerRequest` |
| `ManualPaymentsProofs!OneUseOfReference` | `Spec => []ReferenceProvesOnePayment` |
| `ManualPaymentsProofs!SoldVerified` | `Spec => []SoldOnlyIfVerified` |
| `ManualPaymentsProofs!DeclarationKept` | `Spec => VerifiedDeclarationKept` |
| `ManualPaymentsProofs!PaymentsImplementLifecycle` | `Spec => ImplementsLifecycle` |
| `ManualPaymentsProofs!OwnerCancels` | `Spec => DeclaredCancelledByOwner` |
| `OutboxRelayProofs!TypeCorrect` | `Spec => []TypeOK` |
| `OutboxRelayProofs!PublishedReached` | `Spec => []PublishedReachesEveryone` |
| `OutboxRelayProofs!PushOnce` | `Spec => []PushedOnce` |
| `OutboxRelayProofs!TextedForNobodyElse` | `Spec => []NoTextForOthersFailures` |
| `AccountSessionsProofs!FamiliesAreLines` | `Spec => []FamilyIsALine` |
| `AccountSessionsProofs!DeadStaysDead` | `Spec => DeadFamilyStaysDead` |
| `AccountSessionsProofs!CodesOpenFewSessions` | `Spec => []CodeOpensFewSessions` |
| `AccountSessionsProofs!FewStaySignedIn` | `Spec => []FewSurviveRevocation` |
| `AccountSessionsProofs!SessionsTypeCorrect` | `Spec => []TypeOK` |
| `AccessControlProofs!RowIsJudged` | `Spec => JudgedOnSettledRow` |
| `AccessControlProofs!TypeCorrect` | `Spec => []TypeOK` |
| `BusinessProofs!PicturesExist` | `Spec => []NamedFilesExist` |
| `BusinessProofs!LeftoversAreExplained` | `Spec => []LeftoversExplained` |
| `BusinessProofs!ReadsAreHeld` | `Spec => []ReadsHeldUntilWritten` |
| `BusinessProofs!CatalogueTypeCorrect` | `Spec => []TypeOK` |
| `BusinessProofs!TeamsTypeCorrect` | `TeamsSpec => []TeamsTypeOK` |
| `BusinessProofs!NoCycleOfLocks` | `TeamsSpec => []OnlyAcceptancesWedge` |
| `BusinessProofs!LimitKept` | `TeamsSpec => SeatsWithinLimit` |
| `InboxProofs!HolderTold` | `Spec => []HolderWasTold` |
| `InboxProofs!StrayNoted` | `Spec => []StrayWasUnderWay` |
| `InboxProofs!NumbersMissOnlyShifts` | `Spec => []NumbersMissOnlyWhatShifts` |
| `InboxProofs!CursorsMissAMillisecond` | `Spec => []CursorsMissOnlyAMillisecond` |
| `InboxProofs!InboxTypeCorrect` | `Spec => []TypeOK` |
| `AdministrationProofs!CodesOnce` | `Spec => []CodesUsedOnce` |
| `AdministrationProofs!EnrolmentProved` | `Spec => []EnrolledSecretProved` |
| `AdministrationProofs!FailuresCounted` | `Spec => []FailuresAreCounted` |
| `AdministrationProofs!StaffTypeCorrect` | `Spec => []TypeOK` |
| `AdministrationProofs!ConsoleTypeCorrect` | `ConsoleSpec => []ConsoleTypeOK` |
| `AdministrationProofs!JournalReplaysAlways` | `ConsoleSpec => []JournalReplays` |
| `AdministrationProofs!RefusedOnlyByOvertaking` | `ConsoleSpec => []RefusedOnlyWhenOvertaken` |

With these every invariant and every action property that a passing run checks
is a theorem, and so are the type invariant of every module and the two
refinements; what is left to the runs is liveness.
`CreditStatusAgrees`, `SoldOnlyIfVerified` and `VerifiedDeclarationKept` hold by
theorem and are no longer checked by a run.

Along which argument:

- *Ledger.*  `TypeInv` adds to `TypeOK` what requests in progress rely on: a job
  of a void names a sale that exists, and a recorded sale has a basket
  (`RowsInUse`).  Without it the basket a void gives back could be no basket.
  `OneSale` and `NumbersGapFree` then follow from the unique index
  (`Taken` is looked at in the step that inserts) and from the counter and the
  sale being written in one step.  `CreditStatusAgrees` is not inductive, for a
  payment writes what it read: `CreditInv` adds that what a payment read is at
  most the original amount of a credit that exists (`ReadsWithinOriginal`), which
  lasts because that amount never changes.  `LedgerImplementsBook` shows each action to be a step
  of the book or a stutter; the second COMMIT of two racing voids is a stutter
  because the sale is void already.
- *Sums of the ledger.*  The balances and the stock are sums over functions.
  What a sum does when one entry changes (`SumChange`) or when two functions are
  added (`SumAdds`) is proved without induction: were it false, there would be a
  smallest subset on which it is (`SmallestSubset`, from the well-foundedness of
  the strict subsets of a finite set), and the step to that subset from the one
  without its first element refutes it.  `BalanceKeepsCount` then holds for any
  number of requests with `CreditsOwned` alone (the rows a payment writes are its
  customer's): a payment that read late writes outdated rows, but takes off the
  balance what it adds to `paid`.
- *Ledger, one request at a time.*  The other four accounts are broken by overlaps
  (section 6), so their theorems assume `OneAtATime`: at most one worker, while
  grants, manual movements and changes of products may still commit between the
  steps of its request.  `SequentialInv` says that what the request has read is
  what the tables still say (`ReadsAreCurrent`), that a sale has one credit
  (`OneCreditPerSale`), and that a credit's amount is paid, left or waived
  (`RowsAddUp`).  `BalanceOutstanding` combines them with the theorem before and
  `WaivedIsWaivers`: what voids waived is what the void credits had left.
- *Payments.*  References are unique because every step that makes a payment hold
  its reference looks at the index.  `SoldOnlyIfVerified` needs `VerifiedJobs`:
  whoever is about to sell read a payment that was verified, and a verified
  payment never leaves that status (each update repeats the status it read).
  `SoldInv` says the same from the side of the request id (whatever is sold under
  it belongs to a verified payment of that name), and with `OnePaymentPerRequest`
  that payment is the only one, so that its sale cannot be another's.
  `OwnerCancels` needs `CancelInv`: a request that is to cancel what it read as
  declared has the owner's permission, and its UPDATE finds that status or
  nothing.
- *Relay.*  `PublishedReachesEveryone` rests on `ReachInv`: for a relay at work,
  each consumer that is not in `left` has its mark (`Progress`), and a mark means
  that everybody was reached, or that the invitation was withdrawn (`Marked`).
  It holds whoever else works on the event because marks, notifications, texts
  and withdrawals only grow (`Grows`): what another relay does cannot undo it.
  `PushedOnce` rests on `PushInv`: the relay that is to send or to record a push
  is the only one (`OneSender`), since only the transaction that created the
  notification goes on to send.
  `TextedForNobodyElse` counts.  Of the relays at work on an event, all but one
  have overrun a lease, and all have while the event is due (`LeaseInv`).  Until
  the mark is set, each text is owned up to by a failure that hid it or is on its
  way to the mark; from then on, nobody takes the text up who had not before
  (`TextInv`).  So the texts exceed one by no more than `unsure` and `overruns`.
  `CountMoves` and `CountParts` say what one relay's step does to such counts.
- *Accounts.*  `FamilyIsALine` is not inductive: a request that consumed a token
  writes its successor later.  `HandOver` says that such a request's family has
  no good token and its own has no successor yet, and `Alone` that it is the only
  such request of that family, because the UPDATE that consumes finds a good
  token or none.  `DeadStaysDead` follows step by step: only a request that found
  a good token takes its family on, and only such a request inserts another.
  `CodeOpensFewSessions` becomes inductive when the requests whose right guess was
  counted, and which have no session yet, are added to the sessions opened
  (`CodesInv`); `FewSurviveRevocation` when the requests that will insert a token
  of the version they read are added to the tokens that are behind
  (`VersionsInv`): a sign-out turns good tokens into revoked ones and readers into
  latecomers, and each latecomer inserts one token at most.
- *Access control.*  The entry of the cache, and what a request read of it or of
  the row, are dated: an entry that differs from the row was filled from a row
  read before the change, and both its remaining life and the ticks since the
  change are bounded together (`EntriesOfAge`, `SeenOfAge`).  Once the row is
  settled no such entry is left, though `invalidate` may have failed.
- *Catalogue.*  A picture's key is drawn once.  The invariant says who may still
  delete a file: the request that replaces it, whose row is then written and
  names another (`OldHeld`), or the one that put it, while no row names it
  (`NewHeld`); a picture about to be named is in no other request's hands
  (`Apart`).  `LeftoversExplained` is not inductive, since a request that only
  remembers a picture hides it from the count: `LInv` bounds by the faults the
  pictures that no row names and nobody is going to name or delete (`Lost`),
  which are more.  `ReadsHeldUntilWritten` needs what each request knows of the
  row it is about to write (`KnownTo`) and that a DELETE that counted found
  nothing (`CountHeld`), unless the field `overlapped` says who wrote since.
- *Teams.*  `TeamsInv`: a locked row is in one call's hands and is there
  (`RowsLocked`), nobody touches the owner (`OwnerStays`), a place counted is free
  or the call is `raced` (`CountsHold`), and the pool is not overdrawn
  (`PoolHolds`).  `NoCycleOfLocks` is then a descent: who waits for a member's row
  waits for somebody who waits for nothing; who waits for an invitation waits for
  an acceptance, which waits for a connection or a member, or goes on.
- *Inbox.*  `HandsInv`: a row of the table names the account its phone was last
  confirmed to (`RowsTold`), for a registration that meets another's row is
  refused; and the phones a push is about to go to are its user's, or else
  changed hands when that push was already `underWay` (`PushesNoted`), which is
  where `StrayWasUnderWay` comes from.
- *Lists.*  `NumbersInv`: after `k` pages, an entry that was there at the first and
  has not been shown has at least `k` pages' worth of entries before it, or its
  like was shown (`Behind`, `Tied`); insertions only push it further back, so that
  it is still to come.  `CursorsInv`: an entry not shown yet ranks below the
  cursor, or is of a millisecond at which a page ended (`Explained`), and what
  was shown does not, so that nothing is shown twice.
- *Staff.*  Secrets are numbered as they are drawn; a request that goes by a row
  nobody wrote over carries its secret, its last step and its count.  The
  invariant states this for every request in progress, under `~raced`.
- *Console.*  `ReplayInv` adds to `JournalReplays` that an upsert between its two
  statements still has the value in force, or was overlapped (`HalvesKnow`).
  `AloneInv` is what a tab relies on while no other is open and nothing of what
  `late` names has happened: whatever it waits for is of the session of its
  cookie or of one that is over; the session is read only while the screen lets
  no change leave; and while the session goes on, the console and the change
  under way have the token the session has (`AloneFits`).  A session that is over
  stays so (`Grow`), which is why late answers of earlier sessions can be told
  apart.  Every case of `late` was first met as a step of this proof that would
  not go through, or as a trace of TLC.

- *Types.*  `TypeOK` is seldom inductive by itself, since a row is written from
  what a request carries.  Each proof says what a request carries at the step it is at
  (`Handles`, `Carries`, `Has`, `Carrying`, `JobsFit`, `JobFields`): a request
  about to name a picture has drawn its key, one that is to insert a token read an
  account that is there.  `InboxTypeCorrect` also bounds the pages turned: a reader
  finds more only while the entries outnumber the pages (`ReaderTyped`).

Model-checked only:

- `VerifiedGetsSold`, `EventSettled`, `WindowReopens`, `NoTokenlessConsole`:
  liveness under fairness, and `ENABLED` with it, are beyond the prover.

## 6. Disagreements found

`ledger_void_twice` has a run: two voids both pass the check of the status, made
in a transaction that has ended, and both give the stock back, while
`src/backend/test/business/sales.e2e-spec.ts:133` "rejects voiding an
already-void sale".

These are seen by changing one constant of a run, or its property:

| Change | Violated | What happens | What the repository says |
|---|---|---|---|
| `Workers = {w1, w2}` in `ledger_sequential.cfg` | `PaidWithinDebt`, `BalanceIsOutstanding` | two payments of the whole debt read it before either commits: both accepted, the balance goes below zero and is no longer what the credits have left | `credits.service.ts:95` refuses an amount above the total debt |
| the same | `VoidCancelsDebt` | a payment that read the credit before its sale was voided writes it back: a void sale with something left to pay | `src/backend/test/business/customers-credits-expenses.e2e-spec.ts:139` "voiding the credit sale cancels the associated debt and restores stock" |
| `PROPERTY VerifyAgainFinishes` in `payments.cfg` | `VerifyAgainFinishes` | the customer of a payment on credit, who has no sale and no debt yet, is deleted before the payment is verified; every `verify` is then answered 404 by `checkout` (`sales.service.ts:185-190`, `218-220`, `customers.service.ts:71-74`), and the payment stays verified and unsold | `payments.service.ts:253-255`: calling `verify` again finishes the job |
| `PROPERTY DeadStaysDead` in `relay.cfg` | `DeadStaysDead` | a relay whose lease ran out fails late and writes `failed_at = NULL` over the last attempt's date (`outbox-relay.service.ts:152`): the dead letter is claimed again | `src/backend/migrations/0005_ntf_init.sql:9` "il n'est plus rejoué" |
| `PROPERTY ExpiredLeadsToLogin` in `console.cfg` | `ExpiredLeadsToLogin` | « Se déconnecter » clears the cache (`Layout.tsx:24-29`); the next page that hears 401 invalidates a query that is no longer there, nothing is read, and the console stays, without a token | `src/admin/src/app/session.ts:27`: a session found over leads to the login screen |

The first two go away when the row is locked or the status repeated in the write
(which `ManualPayments` shows at work: every one of its updates repeats the
status it read), the third when `remove` looks at the open payments too or the
checkout of a payment does without the check, the fourth when `fail` repeats the
attempt number in its WHERE, the last when `Layout.logout` leaves the
session's query in the cache it clears.

What the models of the other modules contain, and their properties name as the
exception:

- *Teams.*  `acceptInvitation` holds its connection while it asks the pool for
  more (`businesses.service.ts:524`): as many acceptances as connections wait
  for each other until the server ends an idle transaction.  A count overtaken
  by a commit exceeds `members.max`; an invitation counted before an acceptance
  commits leaves a member with an invitation still pending; one that expires
  between its lock and the count makes `seats - 1` one too low.
- *Staff.*  Failures that overlap count once, so that more wrong answers than
  stated fit before a lock; a late write may set `totp_last_step` back; a code
  checked twice before either is written is accepted twice.
- *Accounts.*  The quota of codes is counted before the insert: requests that
  overlap may exceed it.  `IssueCode` is one step, as one transaction withdraws
  the older codes and inserts the new one (`otp.service.ts:40-49`); two such
  transactions that overlap do not see each other's insert and leave two live
  codes.  `verify` looks at the newest only, and `CodeOpensFewSessions` bounds
  the sessions of each code, so that nothing stated here depends on it.
- *Catalogue.*  `overlapped` excepts two kinds of race, and `ReadsHeldUntilWritten`
  shows that there is no other.  Overlapping updates of a method merge into what
  each has read, and lose the fields of the first
  (`payment-methods.service.ts:103`).  And a count of what is about to commit
  comes too early: two products take the last place of `products.max`, and a
  method is deleted although a payment naming it has just been started.
- *Console.*  Two upserts of one flag at once journal a wrong value before
  (`admin-settings.service.ts:30`; `src/admin/src/pages/FlagsPage.tsx:144`
  promises that the old and the new are kept), and the dialog saves the whole
  flag, so the last one wins.  Every read of the session replaces the token: a
  change from another tab is refused until that tab reads again.  So may be the
  change of a tab on its own, in the ways that `late` counts and
  `RefusedOnlyWhenOvertaken` excepts.  `session.ts:8-9` says that the session is
  never read in the background, lest an action in progress carry an outdated
  token ("une action en cours porterait sinon un jeton périmé"); but
  - a read whose connection broke goes on at the server, and replaces the token
    of the read « Réessayer » has asked for (`client.ts:51-61`,
    `staff-auth.service.ts:267-273`); so does the first read when « Réessayer » is
    clicked twice;
  - a read given up is not stopped: when it answers, `queryFn` puts its token in
    memory (`session.ts:17`) even if the next login has put a newer one there;
  - « Changer de compte » is never disabled (`TotpPage.tsx:143`), so the answer
    of a code may come in a later session and have it read again
    (`TotpPage.tsx:55`), as may that of a logout, or a 401 of an earlier session;
  - a logout that failed leaves the session and its cookie
    (`TotpPage.tsx:63`, `Layout.tsx:24-29`), and the login screen may be followed by
    a read of that session;
  - the cookie of a login may come without the rest of its answer.
- *Inbox and lists.*  Two accounts that register one phone at once: the second
  INSERT meets a row that row level security hides and is answered 500
  (`notifications.service.ts:286`).  A push under way reaches the phone after it
  changed hands (`notifications.service.ts:133`, against the comment at 274).
  The cursor of an inbox drops the microseconds of its date (196), that of the
  users' search too.  Numbered pages have no tie-break beside the date or name,
  and their total is another statement (`sales.service.ts:319`).

## 7. Not modelled

- *Several businesses*: every module is about one business or one account.  Row
  level security appears only where it decides something (device tokens).
- *Order of row locks in the ledger*: the rows of a step are locked together;
  PostgreSQL's choice of a victim appears as a roll-back, the deadlock itself
  does not.
- *Prices, discounts, receipts, texts, formats of pictures and amounts*: data no
  property tells apart.
- *Two things the ledger takes as one*: a sale's number and the sale appear in one
  step, for both are in one transaction (a roll-back between them takes the
  number back with it); and the alert threshold of a product is a constant,
  although its owner may change it between two movements.
- *Durations*: leases, backoff, windows and caches are reduced to ticks or to
  having passed or not.
- *`IdempotencyService`*: called from nowhere in the repository.
- *Categories, the profile of a user, the fields of a business*
  (`businesses.update`): one guarded statement each, read by no other operation.
- *The business search of the administration, `staff-cli` but for the account it
  makes*: reads, and commands run by hand.
- *What a console without a query renders*: the component that calls `useStaff`
  throws when it renders again after `Layout.logout` has cleared the cache, and
  the router shows its error screen; the model leaves the console where it is.
- *Statuses `BANNED` and `DELETED`*: read by the guards, set by no code.
- *A late record of an invalid token may revoke a phone registered again
  meanwhile* (`notifications.service.ts:152`): providers' verdicts on tokens are
  left out.
- *Mobile application*: its queue of unsent sales, its core and its screens.
  What the server owes it, one sale per request id however often it is sent, is
  `ImplementsSaleBook`; a phone's tokens are any client's in `AccountSessions`.
- *Dashboard*: reads only.
- *Screens, design system, adapters of Redis, S3, mail and text providers,
  configuration, logging, migrations as such, tools*: I/O and deployment.

## 8. Plan

What would come next, were the code to change there:

1. `OfflineQueue` over `SaleBook`: the queue of the phone, its store, runs that
   join, account changes, late answers.  A sale rung up is in the queue, in the
   book or refused, and in the book once.
2. `RowLocks`: the order in which void, payment and checkout lock rows.
3. Providers' verdicts on push tokens in `Inbox`.
4. Theorems: those of the modules above, `OfflineQueue` first (that it implements
   the book).

## 9. Running

    tlc -config ledger_concurrent.cfg MCSalesLedger      (ledger_*.cfg)
    tlc -config payments.cfg MCManualPayments
    tlc -config relay.cfg OutboxRelay
    tlc -config accounts.cfg MCAccountSessions
    tlc -config access.cfg AccessControl
    tlc -config teams.cfg MCTeams
    tlc -config staff.cfg MCStaffAccess
    tlc -config catalogue.cfg MCCatalogue
    tlc -config console.cfg MCConsole
    tlc -config inbox.cfg MCInbox
    tlapm SalesLedgerProofs.tla                          (and the other *Proofs)

`PROJECT.json` lists the runs with their properties, the theorems, the source
lines of every definition, the hazards of the code with the properties that
cover them, and, for every property, a change of one definition that breaks it
(the operators marked *Mutant* or *A mutant* in the modules).
