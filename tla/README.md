# Formal model of the lending platform

TLA+ specifications of the backend in `src/backend` (a Go API over PostgreSQL):
how loans are applied for, reviewed, funded by lenders, cancelled, repaid and
distributed. The frontend is a client and keeps none of the rules.

Everything the program does to its data is an SQL transaction or a single SQL
statement issued by a request handler, by one of three timers (funding
deadlines, overdue installments, OCR) or at startup. What can go wrong is what
such programs get wrong: a value read before a lock or in an old snapshot, two
transactions at once, a sweep that stops half way, a request that is sent again.
The modules therefore model transactions with their row locks and snapshots, not
handlers as atomic functions.

## 1. Inventory

| Component | State | Operations | Interacts with | Hard behaviour | Correct when |
| --- | --- | --- | --- | --- | --- |
| Applications and review (`applications.go`) | `applications.status`, `application_reviews` | create, review (approve, reject, ask for more), audited disclosure | listing is created inside the approving transaction; the loan when it is disbursed | two reviewers at once; approval after a cancelled listing | a decision is based on the status it is recorded on; the tables agree |
| Listings and bids (`marketplace.go`) | `listings`, `investments`, `users.available_balance` | bid, top up, disburse | takes listing, then lender, then application rows | bids of one lender on two listings; partial acceptance; repeated requests | no over-funding, no overdraft, no money lost |
| Funding deadline (`funding_deadline.go`) | `investment_refunds`, a list of ids in the sweep | cancel by hand, daily sweep | competes with bids for the listing and with everyone for lenders' rows | stale ids, two clocks, opposite lock orders, failure in the middle | refunds all or nothing; every expired listing is settled |
| Repayment (`repayments.go`, `collections.go`) | `loan_installments`, `repayments`, progress on `loans` | pay an installment, settle early | distributes to lenders in the same transaction; races with the sweep | payment and settlement at once; the next installment | each installment collected once; a debtor can always pay |
| Distribution (`distribution.go`) | `distributions`, totals on `investments` | allocate, record, credit | called by both kinds of payment | rounding | parts add up to the payment |
| Overdue sweep (`overdue.go`) | `status`, `overdue_days`, `loans.status` | four UPDATE statements | run by a timer and by the overdue list | stale snapshots, midnight, failure between statements | late installments are marked, nothing paid is touched |
| Arithmetic (`finance.go`, `collections.go`, `disclosure.go`) | none | schedule, days late, stages, bands | called by the above | rounding of the last installment, calendar | schedule adds up to the loan |
| Documents and storage (`documents.go`, `storage.go`) | files, `application_documents` | upload, download, delete | status of the application | file and row cannot change together; check older than write; limit of 20 | no row without its file, no file forgotten |
| OCR (`ocr.go`, `ocr_worker.go`) | `ocr_status`, `document_verifications` | claim, extract, record | deletes of documents | workers at once, crash after the claim, missing tool | each document processed at most once at a time |
| Accounts, sessions, login (`auth.go`) | `users`, `sessions` | register, login, logout, expiry | lockout, e-mail tokens | login against reset and lock | sessions and credentials agree |
| Lockout (`lockout.go`) | `failed_login_count`, `locked_until` | count, lock, clear | login, reset | counter and lock are two statements; a login decides on what it read before | the lock fits the count and holds |
| E-mail tokens (`email_tokens.go`) | `email_tokens` | issue, consume | accounts | two issues at once | a token is used once, the newest only |
| Rate limiter (`ratelimit.go`) | buckets in memory | allow, collect garbage | every route | refill against eviction; the clock is read before the lock | no source gets more than the limit |
| Encryption of personal data (`crypto.go`) | encrypted columns | migration at startup | deployment, submissions | started before the columns exist; restart, replicas, deadline | nothing is left in clear |
| Schema migrations and deployment (`scripts/migrate.sh`, `deploy.sh`) | `schema_migrations`, the schema | record an old database, apply, record, restart the API | the API, before and after | every statement commits by itself: a deployment dies between a migration and its record | what is recorded ran; what a deployment reports as done is done |
| Mailer, CSRF/CORS, paging and disclosure, dashboard queries | none | | | | not modelled |
| Process start (`main.go`) | | encryption, timers, routes | all | | partly: what it starts |
| Frontend, demo data | | | | | not modelled |

`PROJECT.json` has the same list with the status of each part, and under
`hazards` the places in the code where it is hard to get right, with the
property that covers each or the reason why none does.

## 2. Modules

| Module | What it is |
| --- | --- |
| `Escrow` | abstract: what the marketplace promises about money, no transactions |
| `Marketplace` | review, listing, bids, disbursement, cancellation, sweep, as transactions |
| `Allocation` | how a payment is divided (pure operators) |
| `Arithmetic` | installments and lock times (pure operators), which other modules take as constants |
| `Repayment` | payments, settlements, distribution and the overdue sweep |
| `Documents` | uploads, deletions, their files, and the OCR workers |
| `Account` | registration, login, lockout, sessions, e-mail tokens |
| `TokenBucket` | abstract: what a rate limiter promises |
| `RateLimiter` | the buckets of one process, their collection, callers that wait |
| `Deployment` | migrations, their records, the start of the API and what it encrypts |
| `MarketplaceProofs`, `RepaymentProofs`, `DocumentsProofs`, `AccountProofs`, `RateLimiterProofs`, `DeploymentProofs` | their theorems |
| `ArithmeticProofs` | theorems about `Allocation` and `Arithmetic`, which `RepaymentProofs` uses |
| `SumTheorems` | lemmas about sums over finite sets, which all proofs about money use |
| `MCMarketplace`, `MCRepayment`, `MCDocuments`, `MCAccount`, `MCRateLimiter`, `MCDeployment` | the constants of the small instances |

The modules meet in the data: a disbursement of `Marketplace` writes the schedule
that `Arithmetic` computes and that `Repayment` takes as a constant, with the
investments as its `Lots`; the statuses of applications are in `Marketplace` and, as
far as they lock documents, in `Documents`; `Deployment` is what happens before and
while the others run.

### Marketplace

A listing and a loan exist at most once per application, so all three are named
by the application. `invested[<<listing, lender, requestId>>]` is the row of
`investments` with that idempotency key (0 is no row); `rowNo` keeps the order of
the ids, in which refunds are made.

A process (`Handlers`, `Sweeper`) runs one transaction at a time; `job[p]` holds
the values its Go variables hold and so tells which rows it has locked
(`HoldsListing`, `HoldsUser`, `HoldsApplication`). A transaction is split where it
may have to wait for a lock and at its commit: what it writes is visible to nobody
before, so its statements are published together in the `...Commit` action.

| Code | Actions |
| --- | --- |
| `createApplication` | `CreateApplication` |
| `reviewApplication`, `createListingFromApplication` | `ReviewLock`, `ReviewCommit`, `ReviewRefused` (unique index) |
| `investInListing`, `disburseListing`, `createLoanFromApplication` | `BidLock`, `BidLockUser`, `BidTooPoor` (422), `BidResent` (409), `BidCommit` |
| `topUpBalance` | `TopUp` |
| `cancelListingByReviewer`, `cancelListing` | `CancelLock`, `RefundOne` for each investment, `CancelCommit` |
| `sweepExpiredListings`, `cancelOneExpired` | `SweepScan`, `SweepLock`, `SweepSkip`, then as above |
| errors, timeouts, crash | `Fail` at any point of a transaction |
| PostgreSQL's deadlock detector | `BreakDeadlock` |

Deadlines are compared with the API's clock by bids and with the database's by
the sweep, so a listing passes its deadline twice (`PassApiDeadline`,
`PassDbDeadline`), in either order.

### Repayment

`instStatus`, `overdueDays`, `loanStatus` and `paidCount` are the columns of
`loan_installments` and `loans`. A repayment is named by its loan and installment
(0 for an early settlement), which is what its unique idempotency key says.

A payment holds its loan's row from the first statement. It is split between its
reads: `PayLock`, `PayCount` (the overdue count of `refreshLoanProgress`),
`PayAdvance` (the subqueries of `advanceNextInstallment`), `PayCommit`; a
settlement is `SettleLock` and `SettleCommit`. The sweep's statements hold no lock
beyond themselves: `SweepRead` is a statement's snapshot, `SweepWrite` its writes
when the rows it chose are free. Under READ COMMITTED a statement that waited
looks again at the row itself but not at others its WHERE clause mentions, so
`SweepWrite` tests `MissedBy` and `NotSettled` again but not `Overdue`.
`Sweepers` are the daily timer and requests for the overdue list, which run the
same statements. `CURRENT_DATE` is fixed when a statement starts.

`Allocation!Allocate` is `allocateProportionally`: everyone's share rounded down,
then the remainder dollar by dollar in the order of `Place`.
`Arithmetic!buildAmortizationSchedule` is the annuity with its rounding to whole
units (`monthlyPayment`) and, from it, the rows month by month with a last installment
that takes the rest (`Installments`, `remainingBalance`). The small loans of `MCRepayment`
are computed with it; `Lent` is the principal each schedule was computed for.
`MCMarketplace` evaluates for every loan up to 30, four months and three rates that the
principal parts add up to the loan and none is negative. Rates are fractions: what
floating point loses before the rounding is left out.

### Documents

A document is named by the request that uploads it, because each makes an id and a
path of its own. `files` are the documents whose file is in the storage;
`ocr` is the column `ocr_status` (`NoRow` without a row), `verified` the documents
with rows in `document_verifications`. `upload[d]`, `removal[h]` and `worker[w]` say
how far an upload, a DELETE request and a replica's worker are. Every statement is a
transaction of its own here, except the result of a worker, so every statement and
every file operation is one step.

| Code | Actions |
| --- | --- |
| `uploadDocument`, `documentStorage.write` | `Admit` (access check), `Count`, `Store`, `InsertRow`, `InsertRefused`, `InsertAnswerLost`, `DiscardFile`, `UploadEnds` |
| `deleteDocument`, `documentStorage.remove` | `LoadForDelete`, `DeleteRow`, `RemoveFile`, `RemovalEnds` |
| `startOCRWorker`, `markPendingDocumentsSkipped` | `Start`, `Stop` |
| `claimNextDocument` | `Claim`, `ClaimAnswerLost` |
| `runOCRForDocument` | `LoadDocument`, `ReadFile`, `ReadingFails`, `StoreResult` |
| `recordOCRFailure` | `RecordFailure`, `RecordFailureFails` |
| review, expired listing | `Review`, `FundingExpires`: only the status of the application |

`mishaps` is a history variable: for each document the accidents that left something
behind (an INSERT or a COMMIT that succeeded and was answered with an error, a file
that was not removed, a document that was taken and not finished). The code promises
nothing unconditionally here, so the properties say what each kind of accident may
cost and that nothing else goes wrong. Accidents without consequence, such as a
statement that fails and changes nothing, are steps that are not counted.

### Account

The columns of `users` are functions of the account; `sessions` is the set of rows of
`sessions` (equal rows are one); `token[t]` is a row of `email_tokens` together with
the request that makes it. A password is the number of resets before it was set, which
is all that matters of it: whether a session was opened with an older one.

Login, registration and the making of a token run their statements without a
transaction, so each statement is a step and a request may end before any of them
(`Abandon`, `IssueFails`). A token is consumed in a transaction: the consumer holds
the token's row from its UPDATE on, what it writes appears at its commit, and `NOW()`
is the time at which it began (`stamp`).

The UPDATE that invalidates older tokens is two steps, as the sweep's are in `Repayment`:
under READ COMMITTED it chooses its rows in the snapshot of its start (`FindPrevious`,
into `found`), waits for those that a consumer holds, and looks again at these only
(`InvalidatePrevious`). A token whose INSERT commits during the wait stays live.

| Code | Actions |
| --- | --- |
| `register` | `Register`, `StartFirstSession` |
| `login` | `ReadAccount` (the one read on which all decisions rest), `RecordFailure`, `ApplyLock`, `ClearFailures`, `ClearingFails`, `StartSession` |
| `logout`, session cleanup of `main` | `Logout`, `CleanUpSessions` |
| `issueEmailToken`, its two callers | `ResendVerification`, `ForgotPassword`, `FindPrevious`, `InvalidatePrevious`, `StoreToken`, `IssueFails` |
| `consumeEmailToken`, `verifyEmail`, `resetPassword` | `Begin`, `Consume`, `TokenInvalid`, `VerifyEmail`, `ResetPassword`, `Rollback` |

The lock times are a constant, of which only monotony is assumed;
`Arithmetic!LockDuration` is the function of the code, and `MCAccount` evaluates
that it is monotone, never above a day and zero below five failures. History: `missed`
(what happened to an account after a login read it), `along` (the issues that overlapped),
`honoured` and `outrun`. No guard reads them.

### RateLimiter

`buckets`, `lastGC` and the steps `Allow` and `Refuse` are `rateLimiter.allow` with
`collectGarbageLocked`, in one step because the mutex is held throughout.
`time.Now()` is read before the mutex is taken (`ReadClock`), so a caller comes with a
stamp up to `MaxDelay` old and stamps may run backwards from one caller to the next.
Tokens are counted in parts, `Window` to a token, so that a tick adds a whole number.

`TokenBucket` is the promise: each source has a credit that grows by `Rate` a tick up
to `Full`, and a request costs `Cost` of it. `LimitHolds` maps a bucket to what it
would hold now. Waiting callers cost something: a bucket made with an old stamp is full
earlier than it should be, and so the mapped limit is `Full = Brim + Debt` with a slack
of `2 * Debt`, where `Debt` is what comes in during the longest wait. Both are zero
when nobody waits.

### Deployment

`script` is what `deploy.sh` (with `migrate.sh` in it) is doing and with which file,
`api[r]` what a replica is doing. psql commits every statement by itself, so a deployment that
is killed (`DeployDies`) leaves what it did. A migration is two statements: one
that may be repeated at will (`RunSchema`) and one that may not (`RunData`). Five of the
twelve files matter: any first one, 002 (a CHECK that does not know the statuses of the
marketplace), 004 (the encrypted columns), 005 (the wider CHECK) and 011 (existing
accounts count as verified).

| Code | Actions |
| --- | --- |
| `deploy` | `ComposeUp`, `Restart`, `WaitForApi` |
| `bootstrap_existing_schema` | `CountRecorded`, `FindUsers`, `MarkFile` |
| `migrate` | `Lookup`, `RunSchema`, `RunData`, `RunRefused`, `Record` |
| `set -e`, a lost connection | `DeployDies` |
| a migration is changed | `Edit` |
| start of the API, `migratePlaintextPII` | `Scan`, `Encrypt`, `Serve`, `EncryptFails`, `ApiDies` |
| what users do meanwhile | `Register`, `VerifyEmail`, `Apply`, `Approve` |

History: `failed`, `torn`, `unsure` and `late` say which accident has happened, because
the properties hold up to those and no further.

## 3. Runs

Most runs check with `CHECK_DEADLOCK FALSE`: the server is driven by its clients,
who may stop, and a bounded model stops when its bounds are used up. That no
request hangs is a property of its own (`EveryJobEnds`). `Deployment` never stops, and is
checked for deadlock.

| Run | Instance | Shows |
| --- | --- | --- |
| `escrow` | listings of 5 and 1, two lenders who bid on both, one of whom also borrows; 2 request ids, 2 requests and the sweep, 2 reviews, 1 top-up | `Marketplace` implements `Escrow`; money (`FundedMatchesInvestments`, `MoneyIsConserved`, `RefundsAreComplete`), decisions (`ReviewTrail`, `TablesAgree`, `ClosedListingIsFrozen`), and `IInv`, the invariant of the proofs |
| `liveness` | 2 listings with the same 2 lenders, cancelled in opposite orders, a sweep of at most 1, 2 failures, fairness | `EveryJobEnds`, deadlocks included; `ExpiredIsSettled` |
| `ledger` | loans of 2 installments and of 1 (without lenders), 2 payment requests, 2 sweeps, 3 midnights | every dollar collected once, handed out in full and counted right; what is paid or late stays so |
| `recovery` | 1 loan of 3 installments, 1 request, 1 sweep, 2 failures, fairness | `LateIsMarked`, `StatusCatchesUp` |
| `documents` | 2 uploads to an application with room for one, 1 deletion, reviews, 2 replicas with tesseract and 1 without, 2 accidents, fairness | `FilesMatchRows`, `OneWorkerEach`, `DoneIffVerified`, `OcrGoesForward`, `TakenUp` |
| `logins` | 1 account, 2 logins, 1 token, 3 failures, 2 ticks | `LockFollowsFailures`, `OldSessionsAreLate`, `LocksHold` |
| `tokens` | 1 account, 1 login, 3 tokens, 2 consumers, 1 tick | `HonouredOnce`, `OneLiveToken` |
| `limiter` | 2 sources, 2 callers, 2 requests in a window of 4 ticks, delay 1, 9 ticks | `LimitHolds` (implements `TokenBucket`), `RetryIsEnough`, and that no bucket falls below `-Debt` (`TypeOK`) |
| `deploy` | 5 migrations, a database with the first and an old one with all, 2 replicas, 2 rows, 1 account, 2 accidents | what is recorded ran, what is reported done is done; `DeploymentSucceeds` |
| `relist`, `lenders`, `legacy` | | each finds the counterexample of a finding (section 6) |

Bounds. The sizes of the sets and the constants `MaxReviews`, `MaxDeposits`, `MaxFailures`,
`LastDay`, `MaxMishaps`, `MaxTime`, `MaxDelay` and `MaxAccidents` are the only bounds;
everything else is bounded by the data. Two concurrent requests are enough for every
conflict between transactions, because each conflict is over one row that one holder
keeps to its end; the sweep is a third process. Amounts are chosen so that one bid can
fill the listing, be cut down to the rest, be too large for the lender or for the limit,
and so that every payment leaves a remainder to hand out. Two failures suffice to break
a sweep and its repetition. `escrow` and `ledger` have none: a transaction that fails
publishes nothing, `liveness` and `recovery` have failures, and the theorems hold for
any number of them; so half-done cancellations and bids that roll back are covered by
those and not by `escrow`. Three login failures are one that is free and two locks of
different length. Two ticks let the longer lock and a session expire. Three tokens are one
that is being consumed, one whose UPDATE waits for it, and one that is stored meanwhile; one
tick lets the tokens for one purpose expire while those for the other live, and an expired
token is only refused. The clock of `limiter` lets a bucket empty, fill, be collected and be
made again.
Two accidents break a deployment and its repetition. The databases of `deploy` have the
first migration, whose rows are still in clear, or all five; an empty database is one step
from the first, and the theorems have it. Two uploads of different contents
meet the limit of one document; two of the same content would meet the unique index, which
the model has as well (`InsertRefused`), and DocumentsProofs makes no assumption on contents.
In `escrow`, `ledger`, `logins`, `tokens` and `limiter` interchangeable processes are
symmetric; runs with liveness use no symmetry. The proofs do not depend on any of
these bounds.

Fairness. A transaction that can go on goes on: every handler has a timeout and
PostgreSQL serves lock waits in order, which is strong fairness for the steps that
wait for a row and weak fairness for the others. The tickers never stop. Clients
owe nothing: no bid, review or payment is fair. Failures are finite. In `Documents` a
replica is started again after it stopped, and its worker goes on as long as it runs:
the ticker calls it every five seconds and each reading has a timeout; there is
nothing to wait for (SKIP LOCKED), so weak fairness is enough. In `Deployment` the
operator repeats a deployment that failed, `deploy.sh` goes on until it is done or
dies, and Docker lets every replica start (`restart:` in the compose files). `Account` and
`RateLimiter` state no fairness: they promise nothing about the end.

Assumption about time in `Repayment`: nobody works through two midnights
(`old`), because requests time out after 10 or 15 seconds and the sweep after
30. `OverdueUntilPaid` needs it: `advanceNextInstallment` writes 'due' on a row
without looking at its status again, and a sweep that stood still for two days
could have made that row overdue. In `RateLimiter` a caller waits for the mutex at
most `MaxDelay`.

Mutants. Each property of a passing run is paired with a defect of the code that
it must detect (a dropped FOR UPDATE, a missing unique index, a missing statement,
...); the operators marked `Mutant` in the modules are these defects.

## 4. Proofs

Eight modules, all checked by TLAPS to the last step. The six about a specification prove
an inductive invariant, one lemma for each action, and the properties from it. Apart from
the constants' assumptions in the modules (finite sets, positive amounts and times) nothing
is assumed but what is named here, and no bound matters.

`SumTheorems`. The models count money with `SumFunctionOnSet` of the community module
`Functions`, a recursive function over subsets. The provers cannot instantiate the
library's induction theorems, which take an operator, so the property is given as the
*set* of those that have it: `FiniteInduction` and `NumberInduction` follow from the least
counterexample. From them: the recursion exists (`SumsExist`), and a sum is a
number, splits over disjoint sets, changes by what one value changes, is mapped by a
bijection, and is bounded by its parts. Everything below about totals rests on these.

`ArithmeticProofs`, the pure functions:

* `AllocateAddsUp`: for any investments and any payment the parts add up to the payment,
  and each is within a dollar of its exact fraction. The argument: the order in which the
  remainder goes round is a bijection onto `1..n` (`Place`), and the remainder is less
  than `n`, so exactly that many places get one dollar more.
* `ScheduleRepays`: the principal parts of a schedule add up to the loan, for every
  amount, rate, term and *any* monthly payment, because the last row takes the rest; the
  rows stop when nothing is left. If the payment covers the first interest, no row has a
  negative part (the balance never grows, nor does its interest).

`MarketplaceProofs`, in two layers:

* `TypeCorrect`: balances and funded amounts never negative although nothing but the
  locks keeps them so.
* `LocksWork`: `Spec => []LockInv`. Neither "a bid never over-funds" nor "refunds are
  complete" is inductive alone. `LockInv` adds what makes them so: two transactions
  never hold the same row (`LocksAreExclusive`), and what a transaction read under
  its locks is still so (`BidIsValid`, `ReviewIsValid`, `RefundIsValid`). An action
  that changes a row is run by the row's holder, so the facts of the others survive.
  `BidsAreSafe`, `ReviewsAreSafe`, `CancellationsAreSafe`, `TablesAlwaysAgree`,
  `RefundsAllOrNothing` are its parts, and `ClosedListingsAreFrozen` an action property.
* `Invariant`: `Spec => []IInv` adds the money and the audit trail on top of the locks.
  A cancellation credits its lenders one by one and publishes at its commit, so
  conservation needs to know what it is about to credit: for each lender, the sum of the
  investments it has gone through (`CreditIsDue`). When it commits it has gone through
  all of the listing's (`RefundIsValid`), and the sum splits by lender. The audit trail
  needs that a row absent from `applications` has no reviews (`NotYetReviewed`).
  `FundedIsExact`, `MoneyConserved`, `TrailIsComplete` are its parts.
* `MarketplaceIsAnEscrow`: `Spec => EscrowSpec`. A `BidCommit` is a pledge, a `CancelCommit`
  the return of all pledges of its listing, `ReviewCommit` may open one, `TopUp` is a
  deposit, and every other step changes nothing that the abstract specification sees.
  That a pledge fits the target and the wallet is what `BidIsValid` preserves from the
  checks to the commit; that the stage becomes "paid" exactly at the target is
  `FundedMatchesInvestments`.

`RepaymentProofs`, for any loans whose installments fall due in their order
(`LoansAssumption`; finance.go:63 adds a month to each):

* `ProgressAlwaysRight`, `AlwaysPayable`, `DaysAreFact`, `LateUntilPaid`, `PaidForGood`.
* The invariant is `RInv`. What is hard is the pair of `advanceNextInstallment` and a sweep,
  neither of which waits for the other. `NextIsOpen` says that the installment a
  payment is about to make due is scheduled or due, and that no sweep that is
  already under way has chosen it as late without the one being paid; it rests on
  `InOrder` (installments leave "scheduled" in their order) and on `SweepInv`, which says
  what the snapshots of a sweep, perhaps of yesterday, can contain.
* `TypeCorrect`, `MoneyArrives`, `PaidOnce`. The ledger has an invariant of its own, `LedgerInv`.
  `PrincipalIsPaidOnce` is not inductive alone: an installment with a row of
  `repayments` must be paid (`PaidOnRecord`), or a sent-again payment could count twice;
  and the sum that a settlement computed under the lock must still be what is unpaid when
  it commits (`Settling`). `MoneyReachesLenders` needs that rows of the ledger are unique
  per loan and number (`RowsOk`), so that a payment's distributions are disjoint from those
  of the others, and `AllocateAddsUp` for each payment.
* `AllComesBack`, `RoundingIsSmall`: for loans whose schedule is computed by the code
  (`Computed`). A settled loan has repaid its principal and its lenders *together* have all
  of it. `ScheduleRepays` is what turns "all installments are paid" into "the
  principal". Finding 2 is that single lenders do not get back what they lent;
  `RoundingIsSmall` says how far that can go: by at most a dollar for each payment made.

`DocumentsProofs`, for any number of uploads, deletions, replicas and accidents:

* `FilesAndRowsMatch`: a row without a file and a file without a row have only the causes
  named in the property. The invariant says where each request is: a file is there
  before its row (`FilesComeFirst`), a row is gone before its file is removed
  (`RowsGoFirst`), an upload that can still insert its row has no one who deletes it
  (`UploadsEndFirst`), and what a worker holds is in processing, unless it is gone
  (`WhileReading`).
* `TypeCorrect`, `OneWorkerForEach`, `DoneMeansVerified`, `OcrOnlyGoesForward`.

`AccountProofs`, for any lock times that do not shrink:

* `TokensTakeEffectOnce`: a held token is live and has one holder, a used one stays used
  (`HeldInv`). `OlderTokensAreDead`: a live token that an issue will not touch any more
  (`PassesOver`: its UPDATE is over, or began without the token in its snapshot) was stored
  after that UPDATE had begun, and knows of the issue (`OverlapInv`). It is not enough to
  look at issues whose UPDATE is over: one that waits has its snapshot already.
* `ResetEndsSessions`, `LocksFollow`, `LocksAreKept`: what a login under way has missed
  since its read is in its `missed` (`ReadersKnow`), and an account's lock is right, or
  the request that will set it is on its way (`LockInv`).
* `AccountTypeCorrect`.

`RateLimiterProofs`, for any limit, window and delay:

* `ImplementsTokenBucket`: the initial state and every step map to the token bucket,
  because a bucket is collected only when it would be full (`WindowFills`).
* `RetryHolds`: from a refusal on, the bucket reaches a token by the promised time,
  however its stamp is moved (`PromiseKept`). `LimiterTypeCorrect`: tokens
  may become negative, by no more than `Debt`.

`DeploymentProofs`, for databases that are new or that have all files when they are
first recorded (`NewOrComplete`; the others are finding 3):

* `RecordedMeansRan`, `DoneMeansUpToDate`, `MigrationsRunOnce`, `TokensVerify`,
  `NothingLeftInClear`, `DeploymentTypeCorrect`. The invariant says that files are
  recorded in their order (`MarksInOrder`, `MigratesInOrder`), that the wider constraint stays
  once it is recorded (`ConstraintStays`), that only accidents make a file run without
  being recorded (`OnlyAccidentsForget`), and that a replica that is up after the restart
  has left nothing in clear (`ClearInv`).

Only model-checked: liveness (`EveryJobEnds`, `ExpiredIsSettled`, `LateIsMarked`,
`StatusCatchesUp`, `TakenUp`, `DeploymentSucceeds`), because fairness and ENABLED are outside
the prover; the three counterexamples of section 6; and of `Arithmetic`, that the annuity
covers the first interest (its power is opaque to the provers) and what
`LockDuration` returns, both evaluated over bounded inputs. Every safety invariant
and every action property that a passing run checks is a theorem.

## 5. Not modelled

* Foreign-key locks (`FOR KEY SHARE` on the referenced row) and the order in
  which one UPDATE statement locks its rows: the deadlocks they allow end in an
  abort, which is the same step as any failure.
* A commit whose answer is lost, except in `Documents`, where the handler acts on it.
  Elsewhere the client then sends its request again, which any client may do at any time.
* In `Repayment`, the lenders' rows: the credit of a payment is one `UPDATE`
  that adds to the balance, and waiting for it is covered in `Marketplace`.
* In `Documents`, what is only read (download, lists), what a text says, the order in
  which pending documents are claimed (any may be the oldest that is not locked), and
  the limits on the size and type of a file, which end an upload like any other error.
* In `Account`, the hashing of passwords and tokens, the form of addresses and names, and the
  mail itself: a mailed link may be opened at any time or never.
* In `RateLimiter`, the rounding of floating point numbers, and several processes (each
  has buckets of its own, so their limits add up).
* In `Deployment`, two deployments at once (nothing in the scripts excludes them), secrets and
  certificates, demo data, and the contents of the other migrations: they may be repeated,
  except that 010 marks documents as skipped that are pending by then.
* In `Arithmetic`, the calendar (due on the 15th, the length of months) and the names of
  the stages of collection; masks and bands of disclosure.
* The audited disclosure of personal data: it inserts one row into a log.

Where the code does not prevent an anomaly, the property does not hide it but says who may
cause it. These exceptions are: `claim` and `result` in `Documents` (a worker that died, a
result whose COMMIT was answered with an error), `along`, `outrun` and `missed` in `Account`
(tokens, locks and logins of requests that overlapped), `torn` and `unsure` in `Deployment`.
Inside an exception nothing is promised; the property shows that the anomaly has no other cause.
* The components marked so in section 1, and all reads that change nothing.

## 6. Findings

Three runs end in a counterexample: the repository says otherwise.

1. `relist`: an application whose listing was cancelled cannot be approved again,
   because the old listing still has its unique application id.
2. `lenders`: the rounding of single payments does add up; at the end of a loan the
   largest lenders have got back more than they lent and the small ones less.
3. `legacy`: a database from before the version table, with 001 to 007 only, is
   recorded as having every file of the directory, so the later ones are never run.

Further disagreements have no run of their own. They can be seen in the models or read
from the code:

* Uploads at once pass the limit of documents per application (`src/README.md:243`),
  because each counts before the others insert: `Count` and `InsertRow` are two steps.
  The run `documents` reaches two documents where one is allowed.
* A document is added to an application that was approved during the upload
  (`src/README.md:256`): `Admit`, `Review`, `InsertRow`.
* Without tesseract, a document uploaded after the server's start is not marked as
  skipped (`src/README.md:279`; `Start`).
* A deployment that dies while it records an old database leaves a part of the records;
  the next one runs the other files, and when one of them is 002 it fails for as long as there are
  applications with the newer statuses (`torn` in `DeploymentSucceeds`).
* Two requests for a mail at once leave two links that work (`email_tokens.go:49`): each
  invalidates before the other inserts, or one's UPDATE waits for a row while the other
  inserts. `OneLiveToken` says that nothing else does.
* A bid that is already recorded is answered with 422 instead of 409 when the balance no
  longer covers it (`src/README.md:219`; `BidTooPoor` comes before `BidResent`).
* An investor can apply for a loan (`src/README.md:221`; `CreateApplication` has no guard
  on the role).

## 7. Plan

Done: the money (`Escrow`, `Marketplace`, `Allocation`, `Repayment`), the documents, the
accounts, the rate limiter, the deployment, the arithmetic they rest on, the proofs of
every safety property, and the refinements of `Escrow` and `TokenBucket`. Left, in this order:

1. Composition of `Marketplace` and `Repayment` over the lenders' balances, with
   the deadlocks between payments, settlements and cancellations.
2. Two deployments at once.
3. The foreign-key locks of the disbursement.
4. Proofs: that the annuity covers the first interest, which needs powers as a
   recursive function and induction over the months; what `LockDuration` returns.
