----------------------------- MODULE Repayment ------------------------------
(***************************************************************************)
(* Repaying a disbursed loan: the borrower pays installments or settles    *)
(* early, every payment is divided among the lenders behind the loan, and  *)
(* a sweep moves the installments along as the days pass.                  *)
(* Source: repayments.go, distribution.go, overdue.go, collections.go and  *)
(* the constraints of migrations 002, 003 and 006.                         *)
(*                                                                         *)
(* Concurrency.  A payment is one transaction that holds the loan's row    *)
(* from its first statement to its end.  The sweep holds no lock across    *)
(* its four UPDATE statements.  Under READ COMMITTED a statement chooses   *)
(* its rows in a snapshot, waits for the rows that others hold, and looks  *)
(* again only at the row itself, not at the other rows its WHERE clause    *)
(* mentions; so each of these statements is a step that reads and a step   *)
(* that writes.  The writes of a payment are published at its commit.      *)
(* Waiting for the lenders' rows is left out (Marketplace.tla models it):  *)
(* a deadlock there is a Fail here.                                        *)
(***************************************************************************)
EXTENDS Integers, Sequences, FiniteSetsExt, Allocation

CONSTANTS Loans,       \* disbursed loans
          Schedule,    \* [Loans -> sequence of [principal, interest]]
          DueDay,      \* [Loans -> due day of each installment]
          Lots,        \* [Loans -> sequence of the amounts invested, in id order;
                       \*  empty for a loan with no investments behind it]
          Lent,        \* [Loans -> the principal of each loan]
          Handlers,    \* concurrent payment requests
          Sweepers,    \* the daily sweep, and requests for the overdue list
          LastDay,     \* bound: the days modelled
          MaxFailures  \* bound: transactions that fail or crash

Numbers(l) == 1..Len(Schedule[l])
LotsOf(l) == DOMAIN Lots[l]
PrincipalOf(l, S) == SumFunctionOnSet([n \in Numbers(l) |-> Schedule[l][n].principal], S)

ASSUME LoansAssumption ==
  \A l \in Loans : /\ Schedule[l] \in Seq([principal : Nat, interest : Nat])
                   /\ Len(Schedule[l]) > 0
                   /\ DueDay[l] \in [Numbers(l) -> Nat \ {0}]
                   /\ \A m, n \in Numbers(l) : m < n => DueDay[l][m] < DueDay[l][n]
                   /\ Lots[l] \in Seq(Nat \ {0})
ASSUME LimitsAssumption == /\ Handlers \cap Sweepers = {}
                           /\ LastDay \in Nat
                           /\ MaxFailures \in Nat

VARIABLES instStatus,     \* loan_installments.status
          loanStatus,     \* loans.status
          overdueDays,    \* loan_installments.overdue_days
          paidCount,      \* loans.paid_installments
          repayments,     \* rows of repayments; no = 0 for a prepayment
          distributions,  \* rows of distributions
          returned,       \* investments.principal_returned
          earned,         \* investments.interest_earned
          today,          \* the database's CURRENT_DATE
          swept,          \* the daily sweep has run (or failed) today
          sweep,          \* what each sweep is doing
          job,            \* what each payment request is doing
          old,            \* who is at work since before midnight
          failures        \* transactions failed so far, for its bound

ledger == <<instStatus, loanStatus, overdueDays, paidCount, repayments, distributions, returned, earned>>
calendar == <<today, swept>>
vars == <<ledger, calendar, sweep, job, old, failures>>

-----------------------------------------------------------------------------
(* Types *)

InstallmentStatuses == {"scheduled", "due", "overdue", "paid"}
LoanStatuses == {"normal", "overdue", "settled"}
payableStatuses == {"due", "overdue"}

Rows == (UNION {{<<l, n>> : n \in Numbers(l)} : l \in Loans}) \cup {<<l, 0>> : l \in Loans}
Statements == {"due", "overdue", "mark", "clear"}

Idle == [pc |-> "idle"]
At(statement) == [at |-> statement, read |-> FALSE, day |-> 0, rows |-> {}]
AsleepSweep == At("idle")

TypeOK ==
  /\ \A l \in Loans : instStatus[l] \in [Numbers(l) -> InstallmentStatuses]
  /\ loanStatus \in [Loans -> LoanStatuses]
  /\ \A l \in Loans : overdueDays[l] \in [Numbers(l) -> 0..LastDay]
  /\ paidCount \in [Loans -> Nat]
  /\ \A r \in repayments : <<r.loan, r.no>> \in Rows /\ r.principal >= 0 /\ r.interest >= 0
  /\ \A d \in distributions : <<d.loan, d.no>> \in Rows /\ d.lot \in LotsOf(d.loan)
  /\ \A l \in Loans : returned[l] \in [LotsOf(l) -> Nat] /\ earned[l] \in [LotsOf(l) -> Nat]
  /\ today \in 0..LastDay
  /\ old \subseteq Handlers \cup Sweepers
  /\ swept \in BOOLEAN
  /\ sweep \in [Sweepers -> [at : {"idle"} \cup Statements, read : BOOLEAN, day : 0..LastDay, rows : SUBSET Rows]]
  /\ \A h \in Handlers : job[h].pc \in {"idle", "pay", "counted", "advanced", "settle"}
  /\ failures \in Nat

-----------------------------------------------------------------------------
(* Row locks *)

HoldsLoan(h, l) == job[h] # Idle /\ job[h].loan = l
HoldsInstallment(h, l, n) == job[h].pc \in {"pay", "counted", "advanced"} /\ <<job[h].loan, job[h].no>> = <<l, n>>

\* Mutant: the loan is read without FOR UPDATE.
NeverHeld(l) == TRUE
LoanFree(l) == \A h \in Handlers : ~ HoldsLoan(h, l)
\* Mutant: the row of the installment is not locked.
AnyRow(row) == TRUE
RowFree(row) == \A h \in Handlers : IF row[2] = 0 THEN ~ HoldsLoan(h, row[1])
                                    ELSE ~ HoldsInstallment(h, row[1], row[2])

-----------------------------------------------------------------------------
(* Payments *)

\* disbursement: the first installment is due at once.
Init ==
  /\ instStatus = [l \in Loans |-> [n \in Numbers(l) |-> IF n = 1 THEN "due" ELSE "scheduled"]]
  /\ loanStatus = [l \in Loans |-> "normal"]
  /\ overdueDays = [l \in Loans |-> [n \in Numbers(l) |-> 0]]
  /\ paidCount = [l \in Loans |-> 0]
  /\ repayments = {}
  /\ distributions = {}
  /\ returned = [l \in Loans |-> [i \in LotsOf(l) |-> 0]]
  /\ earned = [l \in Loans |-> [i \in LotsOf(l) |-> 0]]
  /\ today = 0
  /\ swept = FALSE
  /\ old = {}
  /\ sweep = [s \in Sweepers |-> AsleepSweep]
  /\ job = [h \in Handlers |-> Idle]
  /\ failures = 0

With(l, S) == {n \in Numbers(l) : instStatus[l][n] \in S}
Unpaid(l) == With(l, InstallmentStatuses \ {"paid"})
\* repayments.idempotency_key is UNIQUE: one row per installment, one prepayment.
IsRecorded(l, n) == \E r \in repayments : r.loan = l /\ r.no = n

\* Lock the loan, lock the installment, check its status, INSERT the repayment
\* (whose amount must be positive).
PayLock(h, l, n) ==
  /\ job[h] = Idle
  /\ LoanFree(l)
  /\ instStatus[l][n] \in payableStatuses
  /\ Schedule[l][n].principal + Schedule[l][n].interest > 0
  /\ ~ IsRecorded(l, n)
  /\ job' = [job EXCEPT ![h] = [pc |-> "pay", loan |-> l, no |-> n]]
  /\ UNCHANGED <<ledger, calendar, sweep, old, failures>>

\* refreshLoanProgress counts the overdue installments.
PayCount(h) ==
  /\ job[h].pc = "pay"
  /\ job' = [job EXCEPT ![h] =
       [pc |-> "counted", loan |-> @.loan, no |-> @.no,
        late |-> With(@.loan, {"overdue"}) \ {@.no} # {}]]
  /\ UNCHANGED <<ledger, calendar, sweep, old, failures>>

\* Mutant: the next installment is not advanced.
AdvanceNone(l, n) == 0
\* advanceNextInstallment picks the earliest scheduled installment, if none is due.
NextDue(l, n) == IF With(l, payableStatuses) \ {n} = {} /\ With(l, {"scheduled"}) # {}
                 THEN Min(With(l, {"scheduled"})) ELSE 0

PayAdvance(h) ==
  /\ job[h].pc = "counted"
  /\ job' = [job EXCEPT ![h] =
       [pc |-> "advanced", loan |-> @.loan, no |-> @.no, late |-> @.late,
        next |-> NextDue(@.loan, @.no)]]
  /\ UNCHANGED <<ledger, calendar, sweep, old, failures>>

\* distributeRepayment: one row per investment that gets something.
Distribute(l, n, principal, interest) ==
  LET p == Allocate(Lots[l], principal)
      x == Allocate(Lots[l], interest)
      entitled == {i \in LotsOf(l) : p[i] # 0 \/ x[i] # 0}
  IN /\ distributions' = distributions \cup
          {[loan |-> l, no |-> n, lot |-> i, principal |-> p[i], interest |-> x[i]] : i \in entitled}
     /\ returned' = [returned EXCEPT ![l] = [i \in LotsOf(l) |-> @[i] + p[i]]]
     /\ earned' = [earned EXCEPT ![l] = [i \in LotsOf(l) |-> @[i] + x[i]]]

Record(l, n, principal, interest) ==
  /\ repayments' = repayments \cup {[loan |-> l, no |-> n, principal |-> principal, interest |-> interest]}
  /\ Distribute(l, n, principal, interest)

EndJob(h) == /\ job' = [job EXCEPT ![h] = Idle]
             /\ old' = old \ {h}

\* The payment, its distribution, the loan's progress and the next installment
\* become visible together.
PayCommit(h) ==
  /\ job[h].pc = "advanced"
  /\ LET l == job[h].loan
         n == job[h].no
         settled == Unpaid(l) = {n}
         status == [m \in Numbers(l) |-> CASE m = n -> "paid"
                                           [] m = job[h].next /\ ~ settled -> "due"
                                           [] OTHER -> instStatus[l][m]]
     IN /\ Record(l, n, Schedule[l][n].principal, Schedule[l][n].interest)
        /\ instStatus' = [instStatus EXCEPT ![l] = status]
        /\ overdueDays' = [overdueDays EXCEPT ![l][n] = 0]
        /\ paidCount' = [paidCount EXCEPT ![l] = Cardinality({m \in Numbers(l) : status[m] = "paid"})]
        /\ loanStatus' = [loanStatus EXCEPT ![l] = IF settled THEN "settled"
                                                   ELSE IF job[h].late THEN "overdue" ELSE "normal"]
  /\ EndJob(h)
  /\ UNCHANGED <<calendar, sweep, failures>>

\* Lock the loan, add up the principal that is left, INSERT the prepayment.
SettleLock(h, l) ==
  /\ job[h] = Idle
  /\ LoanFree(l)
  /\ loanStatus[l] # "settled"
  /\ Unpaid(l) # {}
  /\ PrincipalOf(l, Unpaid(l)) > 0
  /\ ~ IsRecorded(l, 0)
  /\ job' = [job EXCEPT ![h] = [pc |-> "settle", loan |-> l, principal |-> PrincipalOf(l, Unpaid(l))]]
  /\ UNCHANGED <<ledger, calendar, sweep, old, failures>>

SettleCommit(h) ==
  /\ job[h].pc = "settle"
  /\ LET l == job[h].loan
     IN /\ Record(l, 0, job[h].principal, 0)
        /\ instStatus' = [instStatus EXCEPT ![l] = [n \in Numbers(l) |-> "paid"]]
        /\ overdueDays' = [overdueDays EXCEPT ![l] = [n \in Numbers(l) |-> 0]]
        /\ paidCount' = [paidCount EXCEPT ![l] = Len(Schedule[l])]
        /\ loanStatus' = [loanStatus EXCEPT ![l] = "settled"]
  /\ EndJob(h)
  /\ UNCHANGED <<calendar, sweep, failures>>

-----------------------------------------------------------------------------
(* The overdue sweep *)

Overdue(l) == With(l, {"overdue"}) # {}

\* What a statement looks at in a row it may write, here for the installments.
\* The day of its due date is not late; the day after is.
ReachedBy(l, n, day) == instStatus[l][n] = "scheduled" /\ DueDay[l][n] <= day
\* Mutant: late on the due date itself.
LateAtOnce(l, n, day) == DueDay[l][n] <= day
LateBy(l, n, day) == DueDay[l][n] < day
\* Mutant: the two dates are swapped.
DaysToGo(l, n, day) == DueDay[l][n] - day
DaysLate(l, n, day) == day - DueDay[l][n]
\* Mutant: the row is not looked at again after the wait.
MissedAnyway(l, n, day) == LateBy(l, n, day)
MissedBy(l, n, day) ==
  /\ instStatus[l][n] \in {"due", "overdue"}
  /\ LateBy(l, n, day)
  /\ instStatus[l][n] # "overdue" \/ overdueDays[l][n] # DaysLate(l, n, day)
\* Mutant: a settled loan is marked like any other.
AnyLoan(l) == TRUE
NotSettled(l) == loanStatus[l] # "settled"

\* The rows whose WHERE clause holds in the statement's snapshot.
Matching(at) ==
  {r \in Rows : LET l == r[1]
                    n == r[2]
                IN \/ at = "due" /\ n # 0 /\ ReachedBy(l, n, today)
                   \/ at = "overdue" /\ n # 0 /\ MissedBy(l, n, today)
                   \/ at = "mark" /\ n = 0 /\ NotSettled(l) /\ Overdue(l)
                   \/ at = "clear" /\ n = 0 /\ loanStatus[l] = "overdue" /\ ~ Overdue(l)}

SweepStart(s) ==
  /\ sweep[s].at = "idle"
  /\ sweep' = [sweep EXCEPT ![s] = At("due")]
  /\ UNCHANGED <<ledger, calendar, job, old, failures>>

\* CURRENT_DATE is the day on which the statement starts.
SweepRead(s) ==
  /\ sweep[s].at # "idle"
  /\ ~ sweep[s].read
  /\ sweep' = [sweep EXCEPT ![s] = [at |-> @.at, read |-> TRUE, day |-> today, rows |-> Matching(@.at)]]
  /\ UNCHANGED <<ledger, calendar, job, old, failures>>

\* Mutants: the loans that caught up are not cleared; the late installments are
\* not looked for.
StopAfterMark == [at \in Statements |->
  CASE at = "due" -> "overdue" [] at = "overdue" -> "mark" [] at = "mark" -> "idle" [] at = "clear" -> "idle"]
SkipLate == [at \in Statements |->
  CASE at = "due" -> "mark" [] at = "overdue" -> "mark" [] at = "mark" -> "clear" [] at = "clear" -> "idle"]
FollowedBy == [at \in Statements |->
  CASE at = "due" -> "overdue" [] at = "overdue" -> "mark" [] at = "mark" -> "clear" [] at = "clear" -> "idle"]

\* The statement writes the rows it chose, each if the row itself still qualifies.
SweepWrite(s) ==
  LET at == sweep[s].at
      day == sweep[s].day
      chosen(l, n) == <<l, n>> \in sweep[s].rows
      late(l, n) == at = "overdue" /\ chosen(l, n) /\ MissedBy(l, n, day)
  IN /\ sweep[s].read
     /\ \A r \in sweep[s].rows : RowFree(r)
     /\ instStatus' = [l \in Loans |-> [n \in Numbers(l) |->
          CASE at = "due" /\ chosen(l, n) /\ ReachedBy(l, n, day) -> "due"
            [] late(l, n) -> "overdue"
            [] OTHER -> instStatus[l][n]]]
     /\ overdueDays' = [l \in Loans |-> [n \in Numbers(l) |->
          IF late(l, n) THEN DaysLate(l, n, day) ELSE overdueDays[l][n]]]
     /\ loanStatus' = [l \in Loans |->
          CASE at = "mark" /\ chosen(l, 0) /\ NotSettled(l) -> "overdue"
            [] at = "clear" /\ chosen(l, 0) /\ loanStatus[l] = "overdue" -> "normal"
            [] OTHER -> loanStatus[l]]
     /\ sweep' = [sweep EXCEPT ![s] = At(FollowedBy[at])]
     /\ swept' = (swept \/ FollowedBy[at] = "idle")
     /\ old' = IF FollowedBy[at] = "idle" THEN old \ {s} ELSE old
     /\ UNCHANGED <<paidCount, repayments, distributions, returned, earned, today, job, failures>>

AtWork == {h \in Handlers : job[h] # Idle} \cup {s \in Sweepers : sweep[s].at # "idle"}

\* Midnight.  The ticker has fired once during the day, and nobody works through
\* two midnights: requests have 10 or 15 seconds, the sweep has 30.
NextDay ==
  /\ swept
  /\ old = {}
  /\ today < LastDay
  /\ today' = today + 1
  /\ swept' = FALSE
  /\ old' = AtWork
  /\ UNCHANGED <<ledger, sweep, job, failures>>

-----------------------------------------------------------------------------
(* Failures: the transaction is rolled back; the sweep stops where it is. *)

FailPayment(h) ==
  /\ job[h] # Idle
  /\ failures < MaxFailures
  /\ failures' = failures + 1
  /\ EndJob(h)
  /\ UNCHANGED <<ledger, calendar, sweep>>

FailSweep(s) ==
  /\ sweep[s].at # "idle"
  /\ failures < MaxFailures
  /\ failures' = failures + 1
  /\ sweep' = [sweep EXCEPT ![s] = AsleepSweep]
  /\ swept' = TRUE
  /\ old' = old \ {s}
  /\ UNCHANGED <<ledger, today, job>>

-----------------------------------------------------------------------------
(* The specification *)

PayStep(h) == PayCount(h) \/ PayAdvance(h) \/ PayCommit(h) \/ SettleCommit(h)
SweepStep(s) == SweepRead(s) \/ SweepWrite(s)

Next ==
  \/ \E h \in Handlers, l \in Loans : SettleLock(h, l) \/ \E n \in Numbers(l) : PayLock(h, l, n)
  \/ \E h \in Handlers : PayStep(h) \/ FailPayment(h)
  \/ \E s \in Sweepers : SweepStart(s) \/ SweepStep(s) \/ FailSweep(s)
  \/ NextDay

Spec == Init /\ [][Next]_vars

\* Transactions end, the daily sweep runs, its statements are done when the rows
\* they wait for are free, and days pass.  Nobody need pay.
Fairness ==
  /\ \A h \in Handlers : WF_vars(PayStep(h))
  /\ \A s \in Sweepers : WF_vars(SweepStart(s) \/ SweepStep(s))
  /\ WF_vars(NextDay)

FairSpec == Spec /\ Fairness

\* An installment that is not paid by its day is marked overdue in the end,
\* whatever failed sweeps and payments of other installments come in between.
LateIsMarked ==
  \A l \in Loans : \A n \in Numbers(l) :
    instStatus[l][n] # "paid" /\ DueDay[l][n] < today ~> instStatus[l][n] \in {"overdue", "paid"}

StatusIsRight(l) == loanStatus[l] = "overdue" <=> Overdue(l)

\* A loan's status, which payments and sweeps write from counts and snapshots that
\* may be stale by then, agrees with its installments again in the end.
StatusCatchesUp == \A l \in Loans : ~ StatusIsRight(l) ~> StatusIsRight(l)

-----------------------------------------------------------------------------
(* Safety *)

\* Sums over rows of repayments or of distributions.
Principals(S) == SumFunctionOnSet([r \in S |-> r.principal], S)
Interests(S) == SumFunctionOnSet([r \in S |-> r.interest], S)

RepaymentsOf(l) == {r \in repayments : r.loan = l}
DistributedTo(l, i) == {d \in distributions : d.loan = l /\ d.lot = i}
DistributedFor(r) == {d \in distributions : d.loan = r.loan /\ d.no = r.no}

\* Every dollar of every payment reaches the lenders, principal as principal and
\* interest as interest, whatever the proportions and the rounding; a loan with no
\* investments behind it distributes nothing.
PaymentsReachLenders ==
  \A r \in repayments :
    IF Lots[r.loan] = << >>
    THEN DistributedFor(r) = {}
    ELSE /\ Principals(DistributedFor(r)) = r.principal
         /\ Interests(DistributedFor(r)) = r.interest

\* The running totals on an investment are the sums of its distributions.
TotalsMatchRows ==
  \A l \in Loans : \A i \in LotsOf(l) : /\ returned[l][i] = Principals(DistributedTo(l, i))
                                        /\ earned[l][i] = Interests(DistributedTo(l, i))

\* Every payment moves a lender's principal by at most a dollar from its share: the
\* rounding of a loan's payments adds up to no more than a dollar for each of them.
SharesAreFair ==
  \A l \in Loans : \A i \in LotsOf(l) :
    LET whole == Total(Lots[l])
        share == Lots[l][i] * Principals(RepaymentsOf(l))
        slack == whole * Cardinality(RepaymentsOf(l))
    IN  whole * returned[l][i] \in (share - slack)..(share + slack)

\* What was paid, what was handed out and what the investments say agree
\* (distribution.go, distributePayment), payments of all loans interleaved.
MoneyReachesLenders == PaymentsReachLenders /\ TotalsMatchRows /\ SharesAreFair

\* The borrower pays every dollar of principal exactly once: payments of single
\* installments and early settlements, interleaved as they may be, never collect
\* the same installment twice or forget one.
PrincipalIsPaidOnce ==
  \A l \in Loans :
    PrincipalOf(l, Unpaid(l)) + Principals(RepaymentsOf(l)) = PrincipalOf(l, Numbers(l))

\* A loan whose installments are all paid, one by one or at once, has brought back
\* what was lent, neither more nor less, and all of it reached the lenders together
\* (the schedule's last row absorbs what rounding left; finance.go:34).
LentComesBack ==
  \A l \in Loans : Unpaid(l) = {} =>
    /\ Principals(RepaymentsOf(l)) = Lent[l]
    /\ LotsOf(l) # {} => SumFunctionOnSet(returned[l], LotsOf(l)) = Lent[l]

\* A loan counts as settled exactly when no installment is left, and its progress
\* counter is the number of paid installments.
ProgressIsRight ==
  \A l \in Loans : /\ loanStatus[l] = "settled" <=> Unpaid(l) = {}
                   /\ paidCount[l] = Cardinality(Numbers(l) \ Unpaid(l))

\* A borrower who owes something can always pay something: the installment after
\* the last one paid has been made due, by the payment or by the sweep.
UnsettledIsPayable ==
  \A l \in Loans : loanStatus[l] # "settled" => With(l, payableStatuses) # {}

\* Nothing that was paid is ever unpaid again, and no row of the ledger is changed:
\* not by a sweep that chose the installment before it was paid, nor by a payment
\* that made it due.
PaidIsFinal ==
  [][/\ repayments \subseteq repayments'
     /\ distributions \subseteq distributions'
     /\ \A l \in Loans : /\ \A n \in Numbers(l) : instStatus[l][n] = "paid" => instStatus'[l][n] = "paid"
                         /\ loanStatus[l] = "settled" => loanStatus'[l] = "settled"
    ]_vars

\* An overdue installment only ever becomes paid (the states of migration 003).
\* advanceNextInstallment writes 'due' without looking at the row's status: it is the
\* lock on the installment being paid, which is late by then as well, that keeps the
\* sweep from making the next one overdue in between.
OverdueUntilPaid ==
  [][\A l \in Loans : \A n \in Numbers(l) :
       instStatus[l][n] = "overdue" => instStatus'[l][n] \in {"overdue", "paid"}]_vars

\* The days counted as late are a fact: none for an installment that is not overdue,
\* at least one and never more than have passed for one that is, however long a
\* statement of a sweep was kept waiting.
OverdueDaysAreFact ==
  \A l \in Loans : \A n \in Numbers(l) :
    IF instStatus[l][n] = "overdue"
    THEN overdueDays[l][n] \in 1..(today - DueDay[l][n])
    ELSE overdueDays[l][n] = 0

\* "When all installments are paid the lenders have got back all their principal (the
\* rounding of single installments does not add up)" (README).
LendersAreRepaid ==
  \A l \in Loans : Unpaid(l) = {} => \A i \in LotsOf(l) : returned[l][i] = Lots[l][i]

=============================================================================
