----------------------------- MODULE Marketplace -----------------------------
(***************************************************************************)
(* Funding a loan: an application is reviewed, an approved one is listed,   *)
(* lenders bid on the listing, the bid that fills it disburses the loan,    *)
(* and a listing that is not filled in time, or that a reviewer cancels, is *)
(* refunded.  Source: applications.go, marketplace.go, funding_deadline.go  *)
(* and the constraints of migrations 002, 003, 005 and 009.                 *)
(*                                                                         *)
(* Concurrency.  Every handler is one PostgreSQL transaction (READ         *)
(* COMMITTED) that takes row locks as it goes (SELECT .. FOR UPDATE, or    *)
(* UPDATE) and keeps them to its end.  A process of the model is one       *)
(* handler (or the sweep) with the record job[p]: the locks it holds and   *)
(* what it read under them.  A handler takes one step per lock it may have *)
(* to wait for and one for its commit; writes are private (in job[p])      *)
(* until the commit step publishes them.                                   *)
(*                                                                         *)
(* A rejection that happens before any lock has been taken, or in the step *)
(* that would take the first one, changes nothing and is not a step.       *)
(***************************************************************************)
EXTENDS Integers, Sequences, FiniteSets, Functions

CONSTANTS Users,        \* accounts
          Lenders,      \* those with role investor; they may also apply for a loan
          NoUser,       \* the owner of an application older than accounts
          Apps,         \* applications; listing and loan ids are unique per
                        \* application, so a listing is named by its application
          Owner,        \* [Apps -> Users \cup {NoUser}]
          Verified,     \* users whose e-mail address is verified
          Target,       \* [Apps -> amount of the application and its listing]
          Keys,         \* requestIds; one left blank is a key nobody used
          Amounts,      \* amounts clients ask to invest
          MinInvest,    \* minInvestmentAmount
          MaxInvest,    \* maxInvestmentAmount
          InitBalance,  \* [Users -> balance]
          TopUps,       \* amounts of a top-up; {} in production
          Handlers,     \* concurrent API requests
          Sweeper,      \* the funding deadline sweep
          SweepLimit,   \* listings one sweep looks at (500)
          MaxDeposits,  \* bound: total of top-ups
          MaxReviews,   \* bound: reviews of one application
          MaxFailures   \* bound: transactions that fail or crash

ASSUME PartiesAssumption == /\ NoUser \notin Users
                            /\ Owner \in [Apps -> Users \cup {NoUser}]
                            /\ Verified \subseteq Users
                            /\ Lenders \subseteq Users
                            /\ Sweeper \notin Handlers
                            /\ IsFiniteSet(Users) /\ IsFiniteSet(Apps) /\ IsFiniteSet(Keys)
ASSUME AmountsAssumption == /\ Target \in [Apps -> Nat \ {0}]
                            /\ MinInvest \in Nat \ {0}
                            /\ MaxInvest \in Nat
                            /\ Amounts \subseteq Nat
                            /\ TopUps \subseteq Nat \ {0}
                            /\ InitBalance \in [Users -> Nat]
ASSUME BoundsAssumption == /\ SweepLimit \in Nat \ {0}
                           /\ MaxDeposits \in Nat
                           /\ MaxReviews \in Nat
                           /\ MaxFailures \in Nat

VARIABLES appStatus,      \* applications.status
          reviews,        \* application_reviews: per application, <<from, to>> rows
          listingStatus,  \* listings.status, "none" before there is a row
          funded,         \* listings.funded_amount
          invested,       \* investments.amount by idempotency key, 0 = no row
          rowNo,          \* order of investments.id within the listing, 0 = no row
          refunds,        \* investment_refunds: keys of the refunded investments
          balance,        \* users.available_balance
          loans,          \* applications with a row in loans
          pastApi,        \* listings past their deadline on the API's clock
          pastDb,         \* ... and on the database's clock
          queue,          \* ids the running sweep has still to cancel
          job,            \* what each process is doing
          deposits,       \* total of the top-ups, for conservation and its bound
          failures        \* transactions failed so far, for its bound

book == <<listingStatus, funded, invested, rowNo, refunds, loans>>
clocks == <<pastApi, pastDb>>
counters == <<deposits, failures>>
vars == <<appStatus, reviews, book, balance, clocks, queue, job, counters>>

-----------------------------------------------------------------------------
(* Types *)

Procs == Handlers \cup {Sweeper}

\* An investment row is identified by its idempotency key
\* "invest:<listing>:<investor>:<requestId>".
Investments == Apps \X Users \X Keys
InvestmentsIn(a) == {i \in Investments : i[1] = a}

AppStatuses == {"absent", "pending", "more_info_required", "rejected", "funding", "disbursed"}
ListingStatuses == {"none", "funding", "disbursed", "cancelled"}

ReviewActions == {"approve", "reject", "request_more_info"}
ReviewTransitions == [act \in ReviewActions |->
  CASE act = "approve"           -> "funding"
    [] act = "reject"            -> "rejected"
    [] act = "request_more_info" -> "more_info_required"]
\* Mutant: an application in funding can be reviewed again.
DecidedButFunding == {"disbursed", "rejected"}
DecidedStatuses == {"funding", "disbursed", "rejected"}

Idle == [pc |-> "idle"]
\* A bid holds its listing ("debit": waits for the lender's row) and then the
\* lender's row too ("record").
BidJob == [pc : {"debit", "record"}, app : Apps, user : Users, key : Keys, amount : Nat \ {0}]
\* A review holds the application, whose status it has read.
ReviewJob == [pc : {"review"}, app : Apps, act : ReviewActions, from : AppStatuses]
\* A cancellation holds its listing and the row of every lender credited so far.
CancelJob == [pc : {"refund"}, app : Apps, todo : SUBSET Investments,
              done : SUBSET Investments, credit : [Users -> Nat]]
Job == {Idle} \cup BidJob \cup ReviewJob \cup CancelJob

TypeOK ==
  /\ appStatus \in [Apps -> AppStatuses]
  /\ reviews \in [Apps -> Seq(AppStatuses \X AppStatuses)]
  /\ listingStatus \in [Apps -> ListingStatuses]
  /\ funded \in [Apps -> Nat]
  /\ invested \in [Investments -> Nat]
  /\ rowNo \in [Investments -> Nat]
  /\ refunds \subseteq Investments
  /\ balance \in [Users -> Nat]
  /\ loans \subseteq Apps
  /\ pastApi \subseteq Apps
  /\ pastDb \subseteq Apps
  /\ queue \subseteq Apps
  /\ job \in [Procs -> Job]
  /\ deposits \in Nat
  /\ failures \in Nat

-----------------------------------------------------------------------------
(* Row locks.  PostgreSQL holds a row lock to the end of its transaction. *)

\* Mutant: a cancellation reads its listing without FOR UPDATE.
HeldByBidsOnly(p, a) == job[p].pc \in {"debit", "record"} /\ job[p].app = a
HoldsListing(p, a) == job[p].pc \in {"debit", "record", "refund"} /\ job[p].app = a
HoldsUser(p, u) == \/ job[p].pc = "record" /\ job[p].user = u
                   \/ job[p].pc = "refund" /\ \E i \in job[p].done : i[2] = u
HoldsApplication(p, a) == job[p].pc = "review" /\ job[p].app = a

\* Mutant: the row is read without FOR UPDATE.
NeverWaits(p, a) == TRUE
\* p may lock (or update) the row: nobody else has it.
ListingFree(p, a) == \A q \in Procs \ {p} : ~ HoldsListing(q, a)
UserFree(p, u) == \A q \in Procs \ {p} : ~ HoldsUser(q, u)
ApplicationFree(p, a) == \A q \in Procs \ {p} : ~ HoldsApplication(q, a)

EndJob(p) == job' = [job EXCEPT ![p] = Idle]

-----------------------------------------------------------------------------
(* Applications and their review *)

Init ==
  /\ appStatus = [a \in Apps |-> IF Owner[a] = NoUser THEN "pending" ELSE "absent"]
  /\ reviews = [a \in Apps |-> << >>]
  /\ listingStatus = [a \in Apps |-> "none"]
  /\ funded = [a \in Apps |-> 0]
  /\ invested = [i \in Investments |-> 0]
  /\ rowNo = [i \in Investments |-> 0]
  /\ refunds = {}
  /\ balance = InitBalance
  /\ loans = {}
  /\ pastApi = {}
  /\ pastDb = {}
  /\ queue = {}
  /\ job = [p \in Procs |-> Idle]
  /\ deposits = 0
  /\ failures = 0

CreateApplication(a) ==
  /\ appStatus[a] = "absent"
  /\ Owner[a] \in Verified
  /\ appStatus' = [appStatus EXCEPT ![a] = "pending"]
  /\ UNCHANGED <<reviews, book, balance, clocks, queue, job, counters>>

\* SELECT .. FOR UPDATE OF a, then the status and ownership checks.
ReviewLock(h, a, act) ==
  /\ job[h] = Idle
  /\ ApplicationFree(h, a)
  /\ appStatus[a] \notin DecidedStatuses \cup {"absent"}
  /\ act = "approve" => Owner[a] # NoUser
  /\ Len(reviews[a]) < MaxReviews
  /\ job' = [job EXCEPT ![h] = [pc |-> "review", app |-> a, act |-> act, from |-> appStatus[a]]]
  /\ UNCHANGED <<appStatus, reviews, book, balance, clocks, queue, counters>>

\* listings.application_id is UNIQUE: an application is listed at most once.
CanList(a) == listingStatus[a] = "none"

\* UPDATE applications, INSERT application_reviews, on approval INSERT listings,
\* COMMIT.
ReviewCommit(h) ==
  /\ job[h].pc = "review"
  /\ LET a == job[h].app
         act == job[h].act
         to == ReviewTransitions[act]
     IN /\ act = "approve" => CanList(a)
        /\ appStatus' = [appStatus EXCEPT ![a] = to]
        /\ reviews' = [reviews EXCEPT ![a] = Append(@, <<job[h].from, to>>)]
        /\ listingStatus' = [listingStatus EXCEPT ![a] = IF act = "approve" THEN "funding" ELSE @]
        /\ funded' = [funded EXCEPT ![a] = IF act = "approve" THEN 0 ELSE @]
  /\ EndJob(h)
  /\ UNCHANGED <<invested, rowNo, refunds, loans, balance, clocks, queue, counters>>

\* The INSERT hits the unique index: 500, and the review is rolled back.
ReviewRefused(h) ==
  /\ job[h].pc = "review"
  /\ job[h].act = "approve"
  /\ ~ CanList(job[h].app)
  /\ EndJob(h)
  /\ UNCHANGED <<appStatus, reviews, book, balance, clocks, queue, counters>>

-----------------------------------------------------------------------------
(* Bids *)

\* SELECT .. FROM listings FOR UPDATE and every check that needs the listing;
\* a bid larger than what is left is cut down to it.
BidLock(h, a, u, k, asked) ==
  LET remaining == Target[a] - funded[a] IN
  /\ job[h] = Idle
  /\ u \in Lenders
  /\ asked \in MinInvest..MaxInvest
  /\ ListingFree(h, a)
  /\ listingStatus[a] = "funding"
  /\ a \notin pastApi
  /\ Owner[a] # u
  /\ remaining > 0
  /\ job' = [job EXCEPT ![h] = [pc |-> "debit", app |-> a, user |-> u, key |-> k,
                                amount |-> IF asked > remaining THEN remaining ELSE asked]]
  /\ UNCHANGED <<appStatus, reviews, book, balance, clocks, queue, counters>>

KeyOf(bid) == <<bid.app, bid.user, bid.key>>
\* The next investments.id, counted within the listing.
RowsIn(a) == Cardinality({i \in InvestmentsIn(a) : rowNo[i] > 0})
\* Mutant: the UNIQUE constraint on investments.idempotency_key is missing.
AnyKey(i) == TRUE
\* investments.idempotency_key is UNIQUE.
IsNewKey(i) == invested[i] = 0

\* SELECT available_balance .. FOR UPDATE; the balance covers the bid and the
\* INSERT finds a new key.
BidLockUser(h) ==
  /\ job[h].pc = "debit"
  /\ UserFree(h, job[h].user)
  /\ balance[job[h].user] >= job[h].amount
  /\ IsNewKey(KeyOf(job[h]))
  /\ job' = [job EXCEPT ![h].pc = "record"]
  /\ UNCHANGED <<appStatus, reviews, book, balance, clocks, queue, counters>>

\* 422: insufficient balance.  Looked at before the key.
BidTooPoor(h) ==
  /\ job[h].pc = "debit"
  /\ UserFree(h, job[h].user)
  /\ balance[job[h].user] < job[h].amount
  /\ EndJob(h)
  /\ UNCHANGED <<appStatus, reviews, book, balance, clocks, queue, counters>>

\* 409: the request was already submitted.
BidResent(h) ==
  /\ job[h].pc = "debit"
  /\ UserFree(h, job[h].user)
  /\ balance[job[h].user] >= job[h].amount
  /\ ~ IsNewKey(KeyOf(job[h]))
  /\ EndJob(h)
  /\ UNCHANGED <<appStatus, reviews, book, balance, clocks, queue, counters>>

\* The CHECK constraints on listings and users that the commit must satisfy.
WithinChecks(bid) == /\ funded[bid.app] + bid.amount <= Target[bid.app]
                     /\ balance[bid.user] - bid.amount >= 0

\* Mutant: the listing must be over-funded to be disbursed.
OverFull(bid) == funded[bid.app] + bid.amount > Target[bid.app]
\* The bid fills its listing.
Full(bid) == funded[bid.app] + bid.amount >= Target[bid.app]

\* INSERT investments, debit, UPDATE listings and, when the listing is full,
\* disburseListing: create the loan, mark listing and application.  COMMIT.
BidCommit(h) ==
  /\ job[h].pc = "record"
  /\ WithinChecks(job[h])
  /\ LET a == job[h].app
         u == job[h].user
         full == Full(job[h])
     IN /\ invested' = [invested EXCEPT ![KeyOf(job[h])] = job[h].amount]
        /\ rowNo' = [rowNo EXCEPT ![KeyOf(job[h])] = RowsIn(a) + 1]
        /\ balance' = [balance EXCEPT ![u] = @ - job[h].amount]
        /\ funded' = [funded EXCEPT ![a] = @ + job[h].amount]
        /\ full => ApplicationFree(h, a) /\ a \notin loans
        /\ loans' = IF full THEN loans \cup {a} ELSE loans
        /\ listingStatus' = [listingStatus EXCEPT ![a] = IF full THEN "disbursed" ELSE @]
        /\ appStatus' = [appStatus EXCEPT ![a] = IF full THEN "disbursed" ELSE @]
  /\ EndJob(h)
  /\ UNCHANGED <<reviews, refunds, clocks, queue, counters>>

\* One UPDATE users statement.
TopUp(u, x) ==
  /\ u \in Lenders
  /\ \A p \in Procs : ~ HoldsUser(p, u)
  /\ deposits + x <= MaxDeposits
  /\ balance' = [balance EXCEPT ![u] = @ + x]
  /\ deposits' = deposits + x
  /\ UNCHANGED <<appStatus, reviews, book, clocks, queue, job, failures>>

-----------------------------------------------------------------------------
(* Cancelling a listing and refunding its lenders *)

\* SELECT the investments not yet refunded.
Unrefunded(a) == {i \in InvestmentsIn(a) : invested[i] > 0} \ refunds
CancelStart(a) == [pc |-> "refund", app |-> a, todo |-> Unrefunded(a), done |-> {},
                   credit |-> [u \in Users |-> 0]]

\* Mutant: a listing that was paid out can still be cancelled.
CancellableUntilCancelled(a) == listingStatus[a] \in {"funding", "disbursed"}
\* Mutant: only a listing whose deadline is still to come can be cancelled.
CancellableInTime(a) == listingStatus[a] = "funding" /\ a \notin pastDb
Cancellable(a) == listingStatus[a] = "funding"

\* A reviewer cancels by hand: lock the listing, check it is still in funding.
CancelLock(h, a) ==
  /\ job[h] = Idle
  /\ ListingFree(h, a)
  /\ Cancellable(a)
  /\ job' = [job EXCEPT ![h] = CancelStart(a)]
  /\ UNCHANGED <<appStatus, reviews, book, balance, clocks, queue, counters>>

\* The investments are refunded in the order of their ids.
IsNext(p, i) == /\ i \in job[p].todo
                /\ \A j \in job[p].todo : rowNo[i] <= rowNo[j]

\* Mutant: a lender's credit is set to the last refund instead of raised by it.
CreditLast(c, i) == [c.credit EXCEPT ![i[2]] = invested[i]]
\* UPDATE users SET available_balance = available_balance + amount.
Credit(c, i) == [c.credit EXCEPT ![i[2]] = @ + invested[i]]

\* INSERT investment_refunds (unique per investment), then credit the lender,
\* whose row another transaction may hold.
RefundOne(p, i) ==
  /\ job[p].pc = "refund"
  /\ IsNext(p, i)
  /\ i \notin refunds
  /\ UserFree(p, i[2])
  /\ LET c == job[p]
     IN job' = [job EXCEPT ![p] =
          [pc |-> "refund", app |-> c.app, todo |-> c.todo \ {i}, done |-> c.done \cup {i},
           credit |-> Credit(c, i)]]
  /\ UNCHANGED <<appStatus, reviews, book, balance, clocks, queue, counters>>

\* UPDATE listings, UPDATE applications, COMMIT.  The sweep goes on to its next id.
CancelCommit(p) ==
  /\ job[p].pc = "refund"
  /\ job[p].todo = {}
  /\ ApplicationFree(p, job[p].app)
  /\ LET a == job[p].app
     IN /\ refunds' = refunds \cup job[p].done
        /\ balance' = [u \in Users |-> balance[u] + job[p].credit[u]]
        /\ listingStatus' = [listingStatus EXCEPT ![a] = "cancelled"]
        /\ funded' = [funded EXCEPT ![a] = 0]
        /\ appStatus' = [appStatus EXCEPT ![a] = "more_info_required"]
        /\ queue' = IF p = Sweeper THEN queue \ {a} ELSE queue
  /\ EndJob(p)
  /\ UNCHANGED <<reviews, invested, rowNo, loans, clocks, counters>>

-----------------------------------------------------------------------------
(* The funding deadline and its sweep *)

\* The two clocks pass the deadline independently of each other.
PassApiDeadline(a) ==
  /\ listingStatus[a] = "funding"
  /\ pastApi' = pastApi \cup {a}
  /\ UNCHANGED <<appStatus, reviews, book, balance, pastDb, queue, job, counters>>

PassDbDeadline(a) ==
  /\ listingStatus[a] = "funding"
  /\ pastDb' = pastDb \cup {a}
  /\ UNCHANGED <<appStatus, reviews, book, balance, pastApi, queue, job, counters>>

Expired == {a \in Apps : listingStatus[a] = "funding" /\ a \in pastDb}

\* At startup and once a day: read the ids of the expired listings.
SweepScan ==
  /\ job[Sweeper] = Idle
  /\ queue = {}
  /\ Expired # {}
  /\ queue' \in {S \in SUBSET Expired :
                   Cardinality(S) = IF Cardinality(Expired) > SweepLimit
                                    THEN SweepLimit ELSE Cardinality(Expired)}
  /\ UNCHANGED <<appStatus, reviews, book, balance, clocks, job, counters>>

\* cancelOneExpired: lock the listing and look at its status again, for it may
\* have been filled or cancelled since the scan.
SweepLock(a) ==
  /\ job[Sweeper] = Idle
  /\ a \in queue
  /\ ListingFree(Sweeper, a)
  /\ Cancellable(a)
  /\ job' = [job EXCEPT ![Sweeper] = CancelStart(a)]
  /\ UNCHANGED <<appStatus, reviews, book, balance, clocks, queue, counters>>

SweepSkip(a) ==
  /\ job[Sweeper] = Idle
  /\ a \in queue
  /\ ListingFree(Sweeper, a)
  /\ ~ Cancellable(a)
  /\ queue' = queue \ {a}
  /\ UNCHANGED <<appStatus, reviews, book, balance, clocks, job, counters>>

-----------------------------------------------------------------------------
(* Failures *)

\* Mutant: an error path forgets to roll its transaction back.
LeakTransaction(p) == UNCHANGED <<appStatus, reviews, book, balance, clocks, queue, job, deposits>>
\* The transaction is rolled back: its locks and private writes are gone.  The
\* first error also ends the sweep (return cancelled, err).
Rollback(p) ==
  /\ EndJob(p)
  /\ queue' = IF p = Sweeper THEN {} ELSE queue
  /\ UNCHANGED <<appStatus, reviews, book, balance, clocks, deposits>>

\* A statement fails, the request times out, its client goes away, or the API
\* process dies (then every process fails).
Fail(p) ==
  /\ failures < MaxFailures
  /\ \/ job[p] # Idle
     \/ p = Sweeper /\ queue # {}
  /\ failures' = failures + 1
  /\ Rollback(p)

\* The refund p does next waits for a lender's row that q has.
WaitsFor(p, q) ==
  /\ job[p].pc = "refund"
  /\ \E i \in job[p].todo : IsNext(p, i) /\ HoldsUser(q, i[2])

\* PostgreSQL breaks a circular wait by aborting one of its transactions.
BreakDeadlock(p) ==
  /\ \E D \in SUBSET Procs :
       /\ p \in D
       /\ \A q \in D : /\ \E r \in D \ {q} : WaitsFor(q, r)
                       /\ \E r \in D \ {q} : WaitsFor(r, q)
  /\ Rollback(p)
  /\ UNCHANGED failures

-----------------------------------------------------------------------------
(* The specification *)

HandlerStep(h) ==
  \/ ReviewCommit(h)
  \/ ReviewRefused(h)
  \/ BidLockUser(h)
  \/ BidTooPoor(h)
  \/ BidResent(h)
  \/ BidCommit(h)

CancelFirst(p) == \E i \in Investments : RefundOne(p, i) /\ job[p].done = {}
CancelRest(p) == \/ \E i \in Investments : RefundOne(p, i) /\ job[p].done # {}
                 \/ CancelCommit(p)

Arrive(h, a) ==
  \/ \E act \in ReviewActions : ReviewLock(h, a, act)
  \/ \E u \in Users, k \in Keys, x \in Amounts : BidLock(h, a, u, k, x)
  \/ CancelLock(h, a)

SweepNext == \E a \in Apps : SweepLock(a) \/ SweepSkip(a)

Next ==
  \/ \E a \in Apps : CreateApplication(a) \/ PassApiDeadline(a) \/ PassDbDeadline(a)
  \/ \E u \in Users, x \in TopUps : TopUp(u, x)
  \/ \E h \in Handlers : HandlerStep(h) \/ \E a \in Apps : Arrive(h, a)
  \/ \E p \in Procs : CancelFirst(p) \/ CancelRest(p) \/ Fail(p) \/ BreakDeadlock(p)
  \/ SweepScan
  \/ SweepNext

Spec == Init /\ [][Next]_vars

-----------------------------------------------------------------------------
(* Fairness and liveness *)

\* A transaction that can take its next step takes it: PostgreSQL grants locks
\* in the order they were asked for, so whoever waits for one gets it (strong
\* fairness for the steps that wait for a row), and the deadlock detector always
\* runs.  The sweep's ticker never stops.  Clients need do nothing.
Fairness ==
  /\ \A h \in Handlers : SF_vars(HandlerStep(h))
  /\ \A p \in Procs : SF_vars(CancelFirst(p)) /\ SF_vars(CancelRest(p))
  /\ WF_vars(\E p \in Procs : BreakDeadlock(p))
  /\ WF_vars(SweepScan)
  /\ SF_vars(SweepNext)

FairSpec == Spec /\ Fairness

\* A listing whose deadline has passed is disbursed or cancelled in the end: the
\* daily sweep gets to it whatever bids, cancellations, deadlocks and failures
\* (finitely many) come in between.
ExpiredIsSettled ==
  \A a \in Apps : a \in Expired ~> listingStatus[a] # "funding"

\* No transaction holds its locks for ever: every request that has locked a row
\* is committed, rejected or rolled back.
EveryJobEnds == \A p \in Procs : job[p] # Idle ~> job[p] = Idle

-----------------------------------------------------------------------------
(* Safety *)

MoneyIn(S) == SumFunctionOnSet(invested, S)
\* The investments whose money stands in a listing or has been lent.
Standing == UNION {Unrefunded(a) : a \in Apps}

\* listings.funded_amount, which bids update under the listing's lock, always
\* equals what the investments table says the listing holds, and both are the
\* target exactly when the listing is disbursed and nothing once it is cancelled.
FundedMatchesInvestments ==
  \A a \in Apps : /\ funded[a] = MoneyIn(Unrefunded(a))
                  /\ listingStatus[a] = "funding" => funded[a] < Target[a]
                  /\ listingStatus[a] = "disbursed" => funded[a] = Target[a]
                  /\ listingStatus[a] \in {"none", "cancelled"} => funded[a] = 0

\* No money appears or is lost: whatever bids, refunds, top-ups and rollbacks
\* interleave, the balances and the money standing in listings add up to what
\* was put in.
MoneyIsConserved ==
  SumFunctionOnSet(balance, Users) + MoneyIn(Standing)
    = SumFunctionOnSet(InitBalance, Users) + deposits

BidIsValid(p) ==
  /\ job[p].pc \in {"debit", "record"} =>
       /\ listingStatus[job[p].app] = "funding"
       /\ job[p].app \notin loans
       /\ funded[job[p].app] + job[p].amount <= Target[job[p].app]
  /\ job[p].pc = "record" =>
       /\ balance[job[p].user] >= job[p].amount
       /\ IsNewKey(KeyOf(job[p]))

\* What a bid checked under its locks still holds when it commits: the listing
\* is open and has room, the lender can pay, the key is new, and no loan exists.
\* The CHECK and UNIQUE constraints ("the last line of defence") never fire.
CheckedBidStaysValid == \A p \in Procs : BidIsValid(p)

ReviewIsValid(p) ==
  job[p].pc = "review" => /\ appStatus[job[p].app] = job[p].from
                          /\ job[p].from \in {"pending", "more_info_required"}

\* A reviewer's decision is taken on the status it was based on: while a review
\* is under way nobody else decides or funds the application, so an approved
\* application never gets a second decision.
CheckedReviewStaysValid == \A p \in Procs : ReviewIsValid(p)

RefundIsValid(p) ==
  job[p].pc = "refund" => /\ listingStatus[job[p].app] = "funding"
                          /\ job[p].todo \cup job[p].done = Unrefunded(job[p].app)
                          /\ job[p].todo \cap job[p].done = {}

\* The list of investments a cancellation read at its start stays the whole
\* truth while it waits for the lenders' rows: none is added, none is refunded
\* by another, and the listing is not filled meanwhile.
CheckedRefundsStayValid == \A p \in Procs : RefundIsValid(p)

NoSharedRow(p, q) ==
  /\ \A a \in Apps : /\ ~ (HoldsListing(p, a) /\ HoldsListing(q, a))
                     /\ ~ (HoldsApplication(p, a) /\ HoldsApplication(q, a))
  /\ \A u \in Users : ~ (HoldsUser(p, u) /\ HoldsUser(q, u))

\* No two transactions hold the same row.
LocksAreExclusive == \A p \in Procs : \A q \in Procs \ {p} : NoSharedRow(p, q)

\* A loan exists exactly for the applications whose listing was filled, and the
\* three tables agree on where an application stands: no disbursed loan without
\* its funding, no listing in funding for an application that was decided
\* otherwise.
TablesAgree ==
  \A a \in Apps :
    /\ a \in loans <=> listingStatus[a] = "disbursed"
    /\ appStatus[a] = "disbursed" <=> listingStatus[a] = "disbursed"
    /\ appStatus[a] = "funding" <=> listingStatus[a] = "funding"
    /\ listingStatus[a] = "cancelled" => appStatus[a] \in {"more_info_required", "rejected"}

\* Refunds are all or nothing: every investment of a cancelled listing is
\* refunded, and no investment of any other listing is.
RefundsAreComplete ==
  \A a \in Apps :
    IF listingStatus[a] = "cancelled"
    THEN Unrefunded(a) = {}
    ELSE InvestmentsIn(a) \cap refunds = {}

\* The audit trail explains the status: each review starts where the last one
\* (or the cancellation of the listing it approved) left the application, and
\* the status is what the last review decided, unless funding has since ended.
ReviewTrail ==
  \A a \in Apps :
    LET n == Len(reviews[a])
        after(k) == IF reviews[a][k][2] = "funding" THEN "more_info_required" ELSE reviews[a][k][2]
    IN /\ \A k \in 1..n - 1 : reviews[a][k + 1][1] = after(k)
       /\ n > 0 => \/ appStatus[a] = reviews[a][n][2]
                   \/ reviews[a][n][2] = "funding" /\ appStatus[a] \in {"disbursed", "more_info_required"}

\* What a cancellation is about to credit is what the lenders it has come to put in.
CreditIsDue(p) ==
  job[p].pc = "refund" =>
    \A u \in Users : job[p].credit[u] = MoneyIn({i \in job[p].done : i[2] = u})

NotYetReviewed(a) == appStatus[a] = "absent" => reviews[a] = << >>

\* What the locks protect stays as it was read.
LockInv == /\ TypeOK
           /\ LocksAreExclusive
           /\ CheckedBidStaysValid
           /\ CheckedReviewStaysValid
           /\ CheckedRefundsStayValid
           /\ TablesAgree
           /\ RefundsAreComplete

\* The inductive invariant: the locks, the money and the audit trail.
IInv == /\ LockInv
        /\ FundedMatchesInvestments
        /\ MoneyIsConserved
        /\ \A p \in Procs : CreditIsDue(p)
        /\ ReviewTrail
        /\ \A a \in Apps : NotYetReviewed(a)

RowsKept(a) ==
  /\ listingStatus[a] \in {"disbursed", "cancelled"} =>
       /\ listingStatus'[a] = listingStatus[a]
       /\ funded'[a] = funded[a]
       /\ \A i \in InvestmentsIn(a) : /\ invested'[i] = invested[i]
                                      /\ i \in refunds' <=> i \in refunds
  /\ \A i \in InvestmentsIn(a) : invested[i] > 0 => invested'[i] = invested[i]

\* A listing that was disbursed or cancelled is closed for good: a bid or a
\* sweep that was already under way changes neither it nor its money, and the
\* rows of investments and refunds are never rewritten.
ClosedListingIsFrozen == [][\A a \in Apps : RowsKept(a)]_vars

\* An application whose listing was cancelled "goes back to more_info_required,
\* not rejected, so that the borrower can be processed again" (cancelListing): an
\* approval that passes the reviewer's checks is carried out.
ApprovalIsCarriedOut == [][\A h \in Handlers : ~ ReviewRefused(h)]_vars

\* What a listing's status means to its users.
StageOf == [status \in ListingStatuses |->
  CASE status = "none"      -> "none"
    [] status = "funding"   -> "raising"
    [] status = "disbursed" -> "paid"
    [] status = "cancelled" -> "returned"]

\* The marketplace implements Escrow: seen from outside, each transaction is one
\* atomic pledge, return or deposit, taken at its commit.
EscrowView == INSTANCE Escrow WITH
  wallet <- balance,
  pledge <- [i \in Investments |-> IF i \in refunds THEN 0 ELSE invested[i]],
  stage  <- [a \in Apps |-> StageOf[listingStatus[a]]]

EscrowSpec == EscrowView!Spec

=============================================================================
