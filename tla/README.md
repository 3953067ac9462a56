# Verification of the telecom billing system

TLA+ models of the billing system (Express 5 / TypeScript on MySQL 8), the TLC
runs that check them on small instances, and the TLAPS proofs about them. Paths
are relative to the repository root: `src/` is the service, `docs/`, `readme`
and `tests/` its documentation and tests.

## 1. The system

A stateless HTTP service, run as 2 to 10 pods over one MySQL database. CDR
sources post usage, operators set rates and trigger billing runs, customers pay
bills, auditors reconcile the ledger. All durable state is in seven tables
(`src/models/User.ts`); a pod keeps only rate-limit counters and the local
variables of the requests it serves. Every request is one asynchronous handler;
between two awaited statements any other request, on any pod, may run.

| Component | State | Operations | What makes it correct |
|---|---|---|---|
| **Billing service** (`services/billingService.ts`, `controllers/billingController.ts`) | `bills`, `ledger`, the `billed`/`bill_id` columns of `user_logs` | `generateBill` = `calculateBill` then `createBill`; `payBill`; `reconcileLedger`; paged readers | every CDR is charged at most once; bills, marks and ledger change together; a bill is paid at most once; the running balance can be recomputed |
| **Rating** (inside `calculateBill`) | none | aggregation per service, half-even rounding | the error of a bill does not grow with its CDRs; no bias |
| **Rate administration** (`controllers/rateController.ts`) | `service_rates` | `updateRate`, `getRates` | a bill uses one consistent set of rates |
| **Usage ingestion** (`controllers/usageController.ts`) | `user_logs` | `logCall`, `logSMS`, `logData` | a retried CDR is stored once; none is dropped silently |
| **Dead letter queue** (`services/deadLetterService.ts`) | `dead_letter_queue` | `enqueue`, `getPending`, `resolve`, `discard` | every refused CDR is kept; each item is decided once |
| **Accounts** (`controllers/userController.ts`, `utils/validatePassword.ts`) | `users`, `login_attempts` | `signup`, `login`, `getProfile` | the lockout counts every failed attempt |
| **HTTP layer** (`index.ts`, `routes/`, `middleware/`, `errors/AppError.ts`, `utils/validation.ts`) | rate-limit counters per pod | routing, authentication, roles, validation, error mapping | a request reaches its handler; an error keeps its status |
| **Connection pool** (`database/connection.ts`) | 10 connections and an unbounded queue per pod | `getConnection`, `query`, `release` | no request holds a connection while it waits for another |
| **Stripe** (`controllers/stripeController.ts`) | none; not mounted (`index.ts:105`) | payment intents | - |
| **Types, logger, Swagger** | none | - | - |

How they interact: ingestion fills `user_logs`, which `calculateBill` reads
together with `service_rates`; `createBill` and `payBill` write the tables that
`reconcileLedger` compares; ingestion hands what it refuses to the dead letter
queue. They share nothing else than these tables and the pool.

What is hard: `generateBill` is two transactions with a gap between them; the
transactions run at REPEATABLE READ and mix snapshot reads with locking ones;
clients retry what failed and what they merely got no answer for; a pod may die
anywhere; the clock moves CDRs out of the billing window. `PROJECT.json` lists
these hazards at their lines.

## 2. The modules

- `Sums`: `SUM(...)` of SQL, as a recursive function. `SumsProofs`: its lemmas.
- `Rating`: what an array of CDRs costs, the services in the order of the table's ENUM.
  `RatedBatches` grows batches of CDRs and changes rates; `MCRating` is its instance.
- `BillingService`: the core. Its variables are the tables (committed rows), the
  AUTO_INCREMENT counters and, per worker (a request in flight, on any pod), the
  next statement `pc` and the request's local variables `req`, which include the
  rows its transaction has written and not committed. `charged` is a history
  variable: the CDRs each committed bill was computed from (`bill_id` alone
  forgets a CDR's first bill when a second one overwrites it).
- `BillingLedger`: what billing promises, in two atomic steps (Charge, Pay) over
  bills and an append-only journal. `BillingService` implements it.
- `Reconciliation` adds `reconcileLedger` to `BillingService`: audits in flight, each
  three `SELECT`s of one snapshot, kept as the figures they will read. Its history
  variable `suspect` remembers whether an audit in flight had anything to find.
- `ConnectionPool`: a pool per pod, the connections handed out and the line of requests
  that wait. `PooledBilling` composes it with `BillingService` and `Reconciliation`: each
  service method takes one connection before its first statement and gives it back in its
  `finally` block, so that a request may wait for a connection, and one that has a
  connection for a row lock.
- `Disciplines`: `BillingService` under three disciplines of its surroundings, side by
  side (section 3).
- `MCBilling`: instances of `BillingService`, priced by `Rating`. `MCConcurrent` is that of
  `Disciplines`. `MCPickup` adds a history variable for the CDRs of runs that failed. `MCPooled` puts
  two workers and an auditor on two pods.
- `DeadLetterQueue`: the queue's table and the statements that change it.
  `UsageIngestion`: the three ingestion handlers, which differ in one field name,
  over `user_logs`, the queue and the requests in flight. History variables:
  `answers` (what clients were told), `lost` (CDRs whose write to the queue
  failed). `MCIngestion` has one CDR of each kind.
- `PagedReads`: the listings of bills, ledger entries and queued items, with the balance
  `getLedger` answers, a client that follows their pages, and the table that changes
  meanwhile. The history
  variables record which kinds of change happened since the first page.
- `Routes`: the routes in the order they are registered and the checks in front of
  each handler; a request is a record of what the checks look at. `Accounts`: the
  tables `users` and `login_attempts` and the statements on them. `HttpLayer`
  composes them: requests in flight on several pods, `authRateLimit` in each pod's
  memory, signup and login statement by statement, every other handler as one
  step. `MCHttp` has a dozen requests.
- `BillingServiceProofs`, `DisciplineProofs`, `PooledProofs`, `RatingProofs`,
  `IngestionProofs`, `PagedProofs`, `HttpProofs`: the theorems about each.

### From code to actions (`BillingService`)

| Code | Action |
|---|---|
| `insertUsageLog` (a stored row) | `RecordUsage`; any timestamp, as clients choose it |
| the clock against `periodStart`, `periodEnd` | `TimePasses` |
| `updateRate` | `UpdateRate` |
| `generateBill` accepted | `StartGenerate` |
| `calculateBill` | `Calculate`: one snapshot of CDRs and rates, nothing locked, so one step |
| `createBill`: total <= 0 | `NoCharge` |
| `createBill`: `INSERT bills`, `UPDATE user_logs`, `SELECT SUM`, `INSERT ledger`, `COMMIT` | `InsertBill`, `MarkCdrs`, `ReadBalance`, `InsertEntry`, `CommitCharge` |
| `payBill`: `SELECT ... FOR UPDATE`, none found, `UPDATE bills`, `SELECT SUM`, `INSERT ledger`, `COMMIT` | `LockBill`, `NotPayable`, `MarkPaid`, `ReadBalance`, `InsertEntry`, `CommitPayment` |
| a value too large for its column | `OutOfRange` |
| any other failure, lock wait timeout, dead pod | `Abort` |

### From code to actions (`Reconciliation`, `PooledBilling`)

| Code | Action |
|---|---|
| `reconcile` accepted | `StartAudit` |
| `SELECT balance_after`, which fixes the snapshot | `ReadLast` |
| `SELECT total_charges, total_payments`; `SELECT unpaid_total`, `COMMIT`, 200 or 409 | `ReadTotals`; `ReadUnpaid` |
| a statement fails, a dead pod | `AuditFails` |
| `await pool.getConnection()` in `calculateBill`, `createBill`, `payBill`, `reconcileLedger` | `TakeConnection`: `GetConnection` of the pool |
| the next statement, and `connection.release()` if the method ends with it | `BillingStep`, `AuditorStep` |
| an exception anywhere, with its `finally`; `getConnection` rejected | `RequestFails`: `Abort` or `AuditFails` with `LetGo` |

### From code to actions (`UsageIngestion`)

| Code | Action |
|---|---|
| a delivery, `validateCDR` | `Receive`; a client may send any CDR at any time and again |
| `INSERT IGNORE`, a row stored, 201 | `InsertRow` |
| `INSERT IGNORE`, no row stored, 200 | `InsertIgnored`: the key is taken, or a constraint is broken |
| `INSERT IGNORE` fails, before or after MySQL ran it | `InsertFails` |
| `enqueue(..., 'VALIDATION_ERROR')`, `throw validationError` | `EnqueueRefused` |
| the catch block: `enqueue(..., 'PROCESSING_ERROR')`, 500 | `EnqueueFailed` |
| `enqueue`'s own catch block | `SendToDlq`, second disjunct |
| a dead pod | `Crash` |
| `resolve`, `discard` | `Review` |

An answer may get lost (`Answer`). A CDR is *well-formed* when `validateCDR`
accepts it and *storable* when its row meets the constraints of `user_logs`: the
user exists and the quantity is still positive in `DECIMAL(12,4)`. `Review` is the
service's operation; over HTTP its routes ask for a role no account has
(`HttpLayer`, finding 6).

### From code to actions (`HttpLayer`)

| Code | Action |
|---|---|
| `authenticate`, `requireRole`, `validateApiKey`, validators, no such route | `Refuse` |
| a route to any handler but signup and login | `Serve` |
| `authRateLimit` counts, lets through or refuses | `LetThrough`, `TooManyHits` |
| the answer, with `skipSuccessfulRequests` | `Answer`, `GivesBack`; `Close` for requests it does not count |
| `signup`: weak password, `INSERT`, `ER_DUP_ENTRY` | `WeakPassword`, `SignUp`, `EmailTaken` |
| `login`: no email or locked, `COUNT`, `SELECT` and compare, `INSERT`, `DELETE` | `RefuseLogin`, `CountAttempts`, `Compare`, `Record`, `Clear` |
| a statement of either fails | `Fails`; where it may have taken effect, the second disjunct of `SignUp`, `Record`, `Clear` |
| 15 minutes pass for attempts, for the limiter | `TimePasses`, `WindowEnds` |
| a dead pod | `PodDies` |

The two keys of an address are apart: the limiter's is the first entry of
`X-Forwarded-For` (`client`), the lockout's is `req.ip` (`ip`). The limiters of all
requests and of `/billing` only hold requests back, so a request they refuse is one
not made. `express-rate-limit` and Express' choice of the first matching route are
external. A login in flight longer than the 15 minutes is possible in the model, as
the code has no timeout. `login_attempts` has room for `Rows` rows; an `INSERT` that
finds none left can only fail.

### Environment and abstractions

MySQL is external and modelled from how the service uses it: a plain `SELECT`
sees committed rows (in `createBill` and `payBill` the balance query is the first
plain `SELECT` of its transaction, and so the one that fixes the snapshot);
`UPDATE` and `FOR UPDATE` wait for the row locks of other transactions, which
`HoldsBill` and `HoldsCdr` read off the state; a commit publishes all rows at
once; a rollback publishes none and gives no AUTO_INCREMENT value back. The
`UPDATE ... IN (...)` locks rows in primary key order and so is one step. Gap locks
(a `FOR UPDATE` that finds no row holds one until the rollback that follows at
once) are left out. A commit whose acknowledgement is lost is a commit; the retry
of the client is a new request.

mysql2's pool hands a released connection to the first request in its line, without
letting a newcomer pass. The single statements that other handlers send with
`pool.query` also use a connection, but wait for nothing while they do; they are left
out of `PooledBilling`, as is the replacement of broken connections. A reconciliation
compares figures; the totals of charges and payments that it also answers are kept as
their difference, the only thing the code compares.

Abstractions: a timestamp is `future`, `current` or `expired` relative to the
30-day window; money is in cents; periods, descriptions and log lines are left
out; `Price` is a parameter of the module, so that the theorems hold for every
tariff.

## 3. The runs

| Run | Question | Instance |
|---|---|---|
| `rating` | Is a bill within half a cent per service of the exact amount, and rounding unbiased? | 2 services, up to 3 CDRs, 4 units to the cent, rates 0..3 |
| `concurrent` | Do bills, CDR marks and ledger agree, and is a bill the price of the CDRs marked with it, in every interleaving of two requests with failures? Is no CDR billed twice if runs of a user do not overlap, and the running balance right if the writers of a ledger do not? | 1 user, 2 CDRs, 2 workers, 3 bills, 4 entries, `ConcurrentSpec` |
| `pooled` | Do two customers stay apart, does the engine implement `BillingLedger`, does a reconciliation read one snapshot and raise true alarms only, is every connection accounted for, and is everyone served however few there are? | 2 users, 1 CDR each, 2 workers, 1 auditor, 2 pods of 1 connection, 2 bills, 3 entries, `MCPooledSpec` |
| `ingestion` | Is a key stored once, every answer true, and no decision overwritten, whatever is lost, retried or fails? | 4 kinds of CDR, 2 workers, 3 deliveries, 6 items, 1 administrator with several sessions |
| `pages` | What does a client who follows the pages get while rows come and go? Does the balance of the ledger account for the entries shown? | up to 3 rows in 3 seconds, pages of 1 or 2, `hasMore` and `totalPages` |
| `http` | Is an address locked out in time and not for ever, are few logins let fail, and does no handler run for a request not entitled to it? | 1 pod, 2 requests in flight, 1 address, limits of 2, `FairSpec` |
| `dropped` | finding: a CDR of an unknown user disappears | `Spec` |
| `wrong_error` | finding: a malformed CDR is answered 500 | `Spec` |
| `double_billing` | finding: overlapping runs bill a CDR twice | `Spec` |
| `stale_balance` | finding: the stored running balance goes wrong | `Spec` |
| `pickup` | finding: CDRs of a failed run may never be billed | `PickupSpec` |
| `unreachable` | finding: documented endpoints that no request reaches | as `http`, `Spec` |

Bounds. `MaxBills` and `MaxEntries` bound the AUTO_INCREMENT values; a request
starts only when the values it may need are left, so no request is cut short.
Three bills and four entries allow two bills charged and both paid, or one
bill's identifier wasted by a rollback in between; all conflicts of the code are
between two transactions (one row lock or one stale read), so two workers meet
them. Rates include 0, as a price below 0.00005 passes the controller and is stored as
0; there is one service, so that all prices of a bill come from one moment is shown by
the theorem about `BillIsPriced` and not by this run. `BillCap` and `LedgerCap` are small enough that bills and balances overflow.
Deadlock checking is off because clients may stop sending requests.

In `pooled`, one worker has a pod to itself and the other shares one with the auditor, so
that with a limit of one connection every way of waiting happens: for a connection, for
a row lock while holding one, and for a connection held by a request that waits for a
row lock of the other pod. Its initial state is the one in which a rate is set and both
CDRs have arrived, which the other runs reach in more steps; from there CDRs still
expire. A limit of one is the hardest; the theorems cover any.

In the ingestion runs three deliveries are enough for a request that fails, a
retry and one that overlaps them; a request enqueues at most twice, so the queue
never fills up (`RoomAssumption`). Workers are symmetric. One
administrator who resolves and discards the same item meets the conflict; the
theorem covers any number.

In `pages`, three rows give up to three pages, and three seconds every order and every
tie of them. A row becomes visible when its transaction commits, with the `created_at`
of its `INSERT`, so it may come below rows that were visible before; in a listing of paid
bills it may be an old bill. Four of the invariants hold under hypotheses that are
needed, and are what a client may rely on: no row inserted between a COUNT and its page
(`~raced`), no departures or no insertions, and for two of them no two rows created in the same
second (`NoTies`; the code orders by `created_at` only). In particular an auditor who
lists unpaid bills while customers pay may miss some. Ties are in any order, which each
statement chooses anew; `QuietListingComplete` says that they harm no other row.

In `http`, two requests in flight are the smallest number that overrun the lockout,
and `Rows` has one row more than the bound of `LockoutBounded`, so that an overrun
would show. One pod is enough for TLC: the budget is stated per pod, login attempts
are shared by all, and a window that ends gives an address the fresh budget that
another pod would; the theorems cover any number. The requests are a signup and a
login of each outcome and one request for each check in front of a handler.

Fairness. `FairSpec` of `HttpLayer` asks only that the clock moves. `PooledFairness`
asks that a request or audit whose next statement or `getConnection` can run does run
(event loop, MySQL), and that one that waits for a row lock is not overtaken for ever
(InnoDB grants waiting locks in order). The line of the pool is first in, first out by
its steps and needs no fairness. Nothing obliges a client to send, a failure to happen,
or the clock to move. `ClientsServed` is checked under it, with `Abort` free to happen
or not.

`Disciplines` separates what the code guarantees by itself from what it needs its
surroundings for. Its variable `discipline` is fixed in the initial state: `none`;
`runs`, an operator never has two billing runs of one user in flight (the "per-user
jobs" of `docs/ARCHITECTURE.md:326`, `OneRunPerUser`); or `writers`, as if each
transaction locked its user first (`OneWriterPerUser`). The invariants of the first
hold in all three; `RunsInTurnBillOnce`, `WritersInTurnReconcile` and
`WritersInTurnFit` are those that need one.

## 4. What is found

1. **Double billing** (`double_billing`). `calculateBill` commits before
   `createBill` starts, and the `UPDATE` does not ask `billed = FALSE` again. Two
   overlapping runs charge the same CDR on two bills. With serial runs it cannot
   happen (`concurrent`, `SerialRunsNeverDoubleBill`).
2. **Running balance** (`stale_balance`). The previous balance is read without a
   lock, so a charge and a payment that overlap store a wrong `balance_after`, and
   `reconcileLedger` answers 409 for a ledger no one tampered with. The sum of the
   entries stays right (`LedgerOwesUnpaid`), and no balance goes negative
   (`BalanceNeverNegative`); both are proved, as is that such a 409 is never raised for
   a ledger that was sound throughout (`AuditAlarmsAreTrue`).
3. **The window** (`pickup`). The 30-day window makes "picked up on the next run"
   false for a CDR that has expired by then.
4. **Dropped CDRs** (`dropped`). `INSERT IGNORE` makes a broken constraint look
   like a duplicate: the CDR of an unknown user is answered 200 "Duplicate request
   ignored", stored nowhere and not enqueued, against "No data is silently dropped"
   (`models/User.ts:100`).
5. **Wrong error** (`wrong_error`). `AppError` never sets `name`, so the catch block
   of each handler takes its own validation error for a failure: the CDR is
   enqueued twice and answered 500, against `readme:252`. The same comparison makes
   `payBill` answer 500 for a bill that is missing or paid, and login 500 where it
   means 400 or 401 (`Caught` in `HttpLayer`).
6. **Unreachable endpoints** (`unreachable`). `GET /billing/dlq` and
   `GET /billing/search` are registered after `GET /billing/:billId`, which matches them
   first and refuses their last segment as a bill id. The other routes of the queue and
   `/billing/reconcile` ask for the role `ADMIN`, where accounts are `admin` or `user`.

## 5. The proofs

- `TypeCorrect` (`BillingServiceProofs`): `Spec => []TypeOK`. `TypeOK` is not
  inductive; `TypeInv` adds what a request has found out by each step
  (`StepNeeds`): a payment past its lock has a bill that exists, a request past
  its insert has an identifier of the table. The one arithmetic fact is that the
  balance read is an integer (`SumType`).
- `LedgerAlwaysMatchesBills` (`BillingServiceProofs`): `Spec => []LedgerMatchesBills`.
  `LedgerMatchesBills` speaks of committed rows; `LedgerInv` adds, for the
  transactions in flight, that identifiers not yet given out have no row
  (`Unused`), that an inserted bill is invisible and a locked bill is still the
  unpaid bill that was read (`Pending`), and that no two requests work on one bill
  or one entry (`Apart`; for payments this is the row lock). One lemma carries
  all steps that commit nothing, one lemma each the two commits.
- `MarksMatchBills` (`BillingServiceProofs`): `Spec => []BilledIffCharged`, in every
  interleaving. `MarkInv` adds to `LedgerInv` that a bill not yet committed has
  charged for nothing (`ChargedIfCommitted`); that a commit's bill is such a one
  is what `LedgerInv` knows of the transactions in flight.
- `SerialRunsNeverDoubleBill` (`DisciplineProofs`):
  `SerialRunsSpec => []NoDoubleBilling`. `SerialInv` adds that the CDRs a run has
  read are its user's and still unbilled (`Fresh`). A commit keeps this for the
  other runs only because they are of other users, whose CDRs are others: this is
  the step at which the proof needs `OneRunPerUser`, and the one the code
  leaves unguarded (`double_billing`).
- `RunsInTurn`, `WritersInTurn` and `WritersStayInRange` (`DisciplineProofs`): under
  `ConcurrentSpec`, what the disciplines give always holds. For the runs this is `SerialInv`
  again. For the writers, `WriterInv` adds to `LedgerInv` that a balance computed and not
  yet written is what the user owes with the entry's own change added, and that the entry
  will be the user's last (`Current`): a commit of one user leaves the figures of others as
  they are, and `OneWriterPerUser` says that no other transaction holds figures of this
  one. The entry with the highest identifier then carries the sum of all
  (`LastBalanceAfter`), which is what `reconcileLedger` compares. Without the discipline
  the commit of the other writer is the step that breaks `Current` (`stale_balance`).
  `DisciplinesOnlyRestrict`: `ConcurrentSpec => Spec`, so all that is proved of `Spec`
  holds there as well.
- `LedgerOwesWhatIsUnpaid` (`BillingServiceProofs`): `Spec => []LedgerOwesUnpaid`. `OwedInv` is
  `LedgerInv` with the equality itself. A commit changes one term of each sum: the lemmas
  `ChargeChanges` and `PaymentChanges` say which, `SumDiffersAt` what that does to the sums.
- `NoBalanceIsNegative` and `BillsArePriced` (`BillingServiceProofs`), from `AmountInv`: an amount
  computed and not yet committed is a price, and a balance computed is not negative
  (`Sound`). Read without a lock it may be stale, but the bill that a payment has locked is
  in the sum it was computed from (`OwedCoversBill`), as only the holder of the lock can
  take it out.
- `BillingImplementsLedger` (`BillingServiceProofs`): `Spec => ImplementsLedger`. Two commits map to
  the two steps of `BillingLedger`, every other step to a stutter; `JournalGrows` shows that
  the rows of a commit extend the journal and change nothing in it.
- `PoolsOnlyDelay` (`PooledProofs`): `PooledSpec => Spec`, so that all theorems about
  `BillingService` hold on pools as well; `PooledImplementsLedger` is one.
- `AuditsCrossCheck` and `AuditAlarmsAreTrue` (`PooledProofs`), from `AuditInv`: the figures of
  a snapshot agree because the ledger owed what was unpaid when it was fixed
  (`LedgerOwesUnpaid` again), and what an audit has read is part of its snapshot.
- `NoConnectionIsLost` (`PooledProofs`): `PooledSpec => []ConnectionsAccountedFor`. `PoolInv`
  says of each pod that the count is the number of owners, that those in line are waiting
  clients of that pod, each once, and that a line means an exhausted pool; `ConnInv` relates each
  client's place in its method to what it has of the pool.
- `KeysStayUnique`, `AnswersAreTrue`, `DecisionsAreFinal`, `IngestionTypeCorrect`
  (`IngestionProofs`), from one invariant, `IngestionInv`. It adds that a busy worker
  has a submission (`Busy`) and that identifiers AUTO_INCREMENT has not reached have
  no row (`Unreached`): otherwise an `INSERT` could replace an item that an answer
  500 relies on. The queue's steps (`QueueStep`) and the steps of `user_logs`
  (`LogStep`) are handled by lemmas; each action is one of each.
- `LockoutHolds` (`HttpProofs`): `Spec => []LockoutBounded`. A failed login is counted
  long after the count that let it through, so `LockoutInv` counts with the rows of an
  address the logins past their count (`PastCount`): together they stay below the
  limit plus the requests in flight, as a login passes only while the rows alone are
  below the limit, and a row recorded is one login less past its count.
- `AuthBudgetHolds` (`HttpProofs`): `Spec => []AuthBudget`. `BudgetInv` bounds failures
  and running requests of a window by its hits as well, apart from those given back
  late; without it nothing is known when the next hit is compared with the limit.
- `HttpTypeCorrect` (`HttpProofs`): `Spec => []TypeOK`.
- `NoHandlerUnentitled` (`HttpProofs`): `Spec => []ServedAreEntitled`, for any set of requests.
  `Guarded` is what each of the routes has in front of its handler; a request that is
  admitted has matched the first segment of its route (`RouteMatches`), and so has passed its
  router's checks. That tokens name no account type but `admin` and `user` is an assumption,
  and needed: a token of type `ADMIN` would reach the handlers of finding 6.
- `PagedTypeCorrect`, `BalanceIsNeverOlder`, `NothingGivenTwice`, `NothingHidden`,
  `QuietListing` (`PagedProofs`): the five invariants of `pages`, for any number of rows and
  any page sizes. The argument is about places: the place of a row is the number of
  matching rows newer than it, a page gives the rows of a range of places
  (`OrderLists` says so of any order the database may choose), and `Given` says how many places
  the pages so far have covered. Insertions, however old the row,
  only push others to a later place and departures
  only to an earlier one. So, without insertions, what was given stays in places already
  covered and every later row is older than all of it (`DescInv`): nothing is given twice.
  Without departures, a row not given yet stays in a place to come (`KeptInv`), and none is
  left when the client stops, as it stops when its places cover the COUNT (`DoneInv`), which
  is still the size of the table unless a row slipped in between. With neither, and with
  ties, rows of one second share their places: the row in place `k` has fewer than `k` rows
  newer and at least `k` not older than it (`InPlace`). `QuietInv` says so of what was
  given, and a row with no other in its second has one place only (`PlaceOfUntied`).
  `BalanceInv`: entries never leave a ledger, so what was counted or shown is still there
  when the balance is summed.
- `BillsAreNearlyExact` (`RatingProofs`): `Spec => []BillErrorBounded`. The only fact about
  the states is their type (`RatedInv`); the rest is about the operators. The exact amount is
  a sum over CDRs and the bill a sum over services, so `SumOfShares` first splits the sum
  into one share per service. Each share is rounded once, by at most half a cent
  (`RoundingError`), and a service without CDRs costs exactly 0 (`RoundZero`); `SumDistance`
  adds the errors up, over the services used only.
- `RoundingHasNoBias` (`RatingProofs`): `Spec => []NoAggregateBias`, for every precision,
  even or odd. Two amounts that add up to an even number of cents are rounded in opposite
  directions (`RoundMirrors`: if one is a tie both are, and the even cent is above the one
  and below the other), so the errors of the quantities `q` and `2 * Scale - q` cancel
  (`ErrorsCancel`), while those of `Scale` and `2 * Scale` are 0. Under `RoundHalfUp` the
  mirror lemma is false: both ties go up.
- `SumsProofs` proves the facts about sums from the well-foundedness of `<` on
  the naturals, as the library's induction theorems take an operator parameter.

Assumptions: those of `BillingService` (owners of CDRs are users, rates and
prices are naturals, bounds are naturals, `NoRow` is no row) and of
`UsageIngestion` (storable CDRs are well-formed, `NoItem` is no item, `NoCdr` no CDR),
of `Accounts` and of `HttpLayer` (finitely many rows and requests in flight, limits of
at least 1, account types as in `users`), of `ConnectionPool` and `PooledBilling` (finitely
many clients, each a worker or an auditor on one pod, a limit of at least 1), of `PagedReads`
(pages of at least one row, bounds are naturals), of `Rating` and `RatedBatches` (no service twice in the
ENUM, at least one unit to the cent, bounds are naturals). The proofs are for any number of users, CDRs, workers, pods, addresses
and identifiers.

Only model-checked: the liveness properties `ClientsServed` and `LockoutLifts`, as fairness
and `ENABLED` are outside TLAPS' reach, and the six findings, which are counterexamples. Every
other property of the passing runs is stated by a theorem.

## 6. Plan

1. `Sums`, `Rating`, `BillingService`, `BillingLedger`; `TypeOK` and
   `LedgerMatchesBills` proved. (Done.)
2. `UsageIngestion` with the dead letter queue: retries, lost answers, `INSERT
   IGNORE`, double enqueueing, concurrent decisions; its properties proved. (Done.)
3. `PagedReads`: count and page as two snapshots, ties, `hasMore`. (Done.)
4. `Routes`, `Accounts`, `HttpLayer`: route order, token and role, validators, the
   limiter of signup and login, lockout; its properties proved. (Done.)
5. `BilledIffCharged`, and `NoDoubleBilling` under `SerialRunsSpec`, proved. (Done.)
6. `Reconciliation`, `ConnectionPool`, `PooledBilling`: audits beside billing, 10
   connections, an unbounded queue, release in `finally`; proved. (Done.)
7. `LedgerOwesUnpaid`, `BalanceNeverNegative`, `BillIsPriced` and the refinement of
   `BillingLedger` proved, and who is served over HTTP. (Done.)
8. `Disciplines`, `PagedReads` and `RatedBatches`: every invariant of the runs proved.
   `Rating` sums arrays with `SumUpTo`, which proofs can reason about. (Done.)
9. Left: the four hazards without a property (rates that are missing, bills too large for
   their column, the error of `payBill`, an event lost by both the table and the queue).

Not modelled, and not planned: the single-row reads `getBillById`, `getProfile` and
`getRates` (they change nothing and read one snapshot), Swagger and the logger (no state), the Stripe
controller (not mounted), password rules (string matching), CORS and headers.
