-------------------------- MODULE RepaymentProofs ---------------------------
(***************************************************************************)
(* Repayment: what is paid stays paid, what is late stays late until it is *)
(* paid, the days counted as late are a fact, progress is right and there  *)
(* is always something to pay; and what is paid once reaches the lenders   *)
(* to the dollar.  For any number of loans, installments, lenders, payment *)
(* requests, sweeps and days.                                              *)
(***************************************************************************)
EXTENDS Repayment, ArithmeticProofs

-----------------------------------------------------------------------------
(* What the properties rest on *)

Typed ==
  /\ DOMAIN instStatus = Loans /\ \A l \in Loans : instStatus[l] \in [Numbers(l) -> InstallmentStatuses]
  /\ DOMAIN overdueDays = Loans /\ \A l \in Loans : overdueDays[l] \in [Numbers(l) -> Int]
  /\ loanStatus \in [Loans -> LoanStatuses]
  /\ DOMAIN paidCount = Loans
  /\ today \in Nat
  /\ DOMAIN sweep = Sweepers /\ DOMAIN job = Handlers
  /\ \A s \in Sweepers : /\ sweep[s].at \in {"idle"} \cup Statements
                         /\ sweep[s].read \in BOOLEAN
                         /\ sweep[s].read => sweep[s].at # "idle" /\ sweep[s].day \in Nat /\ sweep[s].day <= today

\* What a payment is paying can be paid, and the loan is its own.
Paying == {"pay", "counted", "advanced"}
JobOk(h) ==
  \/ job[h] = Idle
  \/ job[h].pc = "settle" /\ job[h].loan \in Loans
  \/ /\ job[h].pc \in Paying /\ job[h].loan \in Loans
     /\ job[h].no \in Numbers(job[h].loan)
     /\ instStatus[job[h].loan][job[h].no] \in payableStatuses
JobsInv ==
  /\ \A h \in Handlers : JobOk(h)
  /\ \A g, h \in Handlers : job[g] # Idle /\ job[h] # Idle /\ job[g].loan = job[h].loan => g = h

Scheduled(l, n) == instStatus[l][n] = "scheduled"

\* The installment that a payment is going to make due is still before that, or has
\* been made due by a sweep; no sweep that can go on will make it overdue.
NextIsOpen(l, n, m) ==
  /\ m \in Numbers(l) /\ n < m
  /\ instStatus[l][m] \in {"scheduled", "due"}
  /\ Scheduled(l, m) => \A i \in Numbers(l) : Scheduled(l, i) => m <= i
  /\ instStatus[l][n] = "overdue" => DueDay[l][n] + overdueDays[l][n] <= DueDay[l][m]
  /\ \A s \in Sweepers : sweep[s].at = "overdue" /\ sweep[s].read /\ <<l, m>> \in sweep[s].rows
                           => <<l, n>> \in sweep[s].rows
NoNextNeeded(l, n) == With(l, payableStatuses) \ {n} # {} \/ With(l, {"scheduled"}) = {}
NextInv ==
  \A h \in Handlers : job[h].pc = "advanced" =>
    \/ job[h].next = 0 /\ NoNextNeeded(job[h].loan, job[h].no)
    \/ NextIsOpen(job[h].loan, job[h].no, job[h].next)

\* Installments become due in their order, and one that is scheduled is not due
\* before the day to which a sweep has counted an earlier one as late.
InOrder ==
  \A l \in Loans : \A m, n \in Numbers(l) :
    /\ m < n /\ Scheduled(l, m) => Scheduled(l, n)
    /\ Scheduled(l, m) /\ instStatus[l][n] = "overdue" => DueDay[l][n] + overdueDays[l][n] <= DueDay[l][m]

\* What the statements of a sweep have before them, which may have started yesterday.
SweepInv ==
  \A s \in Sweepers : \A l \in Loans : \A n \in Numbers(l) :
    /\ sweep[s].at = "due" /\ sweep[s].read =>
         /\ sweep[s].day >= (IF s \in old THEN today - 1 ELSE today)
         /\ Scheduled(l, n) /\ DueDay[l][n] <= sweep[s].day => <<l, n>> \in sweep[s].rows
    /\ sweep[s].at = "overdue" /\ ~ sweep[s].read /\ Scheduled(l, n) =>
         DueDay[l][n] > (IF s \in old THEN today - 1 ELSE today)
    /\ sweep[s].at = "overdue" /\ sweep[s].read =>
         /\ Scheduled(l, n) => DueDay[l][n] >= sweep[s].day
         /\ <<l, n>> \in sweep[s].rows => ~ Scheduled(l, n)

ProgressInv == ProgressIsRight /\ UnsettledIsPayable

RInv == Typed /\ JobsInv /\ NextInv /\ InOrder /\ SweepInv /\ ProgressInv /\ OverdueDaysAreFact

-----------------------------------------------------------------------------
(* Lemmas on the operators *)

LEMMA MinIsLeast ==
  ASSUME NEW S, S \subseteq Nat, S # {}
  PROVE  Min(S) \in S /\ \A x \in S : Min(S) <= x
  BY LeastNumber DEF Min

LEMMA NumbersFacts ==
  \A l \in Loans : /\ Numbers(l) \subseteq Nat \ {0} /\ 1 \in Numbers(l) /\ Len(Schedule[l]) \in Nat
                   /\ \A n \in Numbers(l) : DueDay[l][n] \in Nat \ {0}
                   /\ \A m, n \in Numbers(l) : m < n => DueDay[l][m] < DueDay[l][n]
  BY LoansAssumption DEF Numbers

LEMMA ItsOwnRecord == Idle.pc = "idle"
  BY DEF Idle

-----------------------------------------------------------------------------
(* The initial state *)

LEMMA RInit == Init => RInv
<1> SUFFICES ASSUME Init PROVE RInv
  OBVIOUS
<1> USE NumbersFacts, ItsOwnRecord DEF Init
<1>1. Typed
  <2>1. \A l \in Loans : /\ instStatus[l] \in [Numbers(l) -> InstallmentStatuses]
                         /\ overdueDays[l] \in [Numbers(l) -> Int]
    BY DEF InstallmentStatuses
  <2>2. \A s \in Sweepers : sweep[s].at = "idle" /\ sweep[s].read = FALSE
    BY DEF AsleepSweep, At
  <2> QED BY <2>1, <2>2 DEF Typed, LoanStatuses
<1>2. JobsInv /\ NextInv
  BY DEF JobsInv, JobOk, NextInv
<1>3. InOrder
  <2> SUFFICES ASSUME NEW l \in Loans, NEW m \in Numbers(l), NEW n \in Numbers(l)
               PROVE  /\ m < n /\ Scheduled(l, m) => Scheduled(l, n)
                      /\ Scheduled(l, m) /\ instStatus[l][n] = "overdue" => DueDay[l][n] + overdueDays[l][n] <= DueDay[l][m]
    BY DEF InOrder
  <2>1. Numbers(l) \subseteq Nat \ {0}
    OBVIOUS
  <2> QED BY <2>1 DEF Scheduled
<1>4. SweepInv
  BY DEF SweepInv, AsleepSweep, At
<1>5. ProgressInv
  <2> SUFFICES ASSUME NEW l \in Loans
               PROVE  /\ loanStatus[l] = "settled" <=> Unpaid(l) = {}
                      /\ paidCount[l] = Cardinality(Numbers(l) \ Unpaid(l))
                      /\ With(l, payableStatuses) # {}
    BY DEF ProgressInv, ProgressIsRight, UnsettledIsPayable
  <2>1. 1 \in With(l, payableStatuses) /\ Unpaid(l) = Numbers(l)
    BY DEF With, Unpaid, payableStatuses, InstallmentStatuses
  <2>2. Cardinality(Numbers(l) \ Unpaid(l)) = 0
    BY <2>1, FS_EmptySet
  <2> QED BY <2>1, <2>2
<1>6. OverdueDaysAreFact
  BY DEF OverdueDaysAreFact
<1> QED BY <1>1, <1>2, <1>3, <1>4, <1>5, <1>6 DEF RInv

-----------------------------------------------------------------------------
(* Steps that only move a payment request or a sweep *)

Kept == UNCHANGED <<instStatus, loanStatus, overdueDays, paidCount>>

LEMMA ProgressKept == RInv /\ Kept /\ today' \in Nat /\ today' >= today => InOrder' /\ ProgressInv' /\ OverdueDaysAreFact'
<1> SUFFICES ASSUME RInv, Kept, today' \in Nat, today' >= today PROVE InOrder' /\ ProgressInv' /\ OverdueDaysAreFact'
  OBVIOUS
<1>1. InOrder'
  BY DEF RInv, Kept, InOrder, Scheduled
<1>2. ProgressInv'
  BY DEF RInv, Kept, ProgressInv, ProgressIsRight, UnsettledIsPayable, Unpaid, With
<1>3. OverdueDaysAreFact'
  <2> SUFFICES ASSUME NEW l \in Loans, NEW n \in Numbers(l)
               PROVE  IF instStatus[l][n] = "overdue"
                      THEN overdueDays[l][n] \in 1..(today' - DueDay[l][n])
                      ELSE overdueDays[l][n] = 0
    BY DEF Kept, OverdueDaysAreFact
  <2>1. IF instStatus[l][n] = "overdue"
        THEN overdueDays[l][n] \in 1..(today - DueDay[l][n])
        ELSE overdueDays[l][n] = 0
    BY DEF RInv, OverdueDaysAreFact
  <2>2. today \in Int /\ today' \in Int /\ DueDay[l][n] \in Int
    BY NumbersFacts DEF RInv, Typed
  <2> QED BY <2>1, <2>2
<1> QED BY <1>1, <1>2, <1>3

\* A payment request takes its next step: its record changes, nothing else.
JobMoves(h) == /\ Kept /\ UNCHANGED <<today, sweep>>
               /\ DOMAIN job' = Handlers /\ \A g \in Handlers \ {h} : job'[g] = job[g]
               /\ \A s \in Sweepers : s \in old' <=> s \in old

LEMMA JobKept ==
  ASSUME RInv, NEW h \in Handlers, JobMoves(h), JobOk(h)',
         \A g \in Handlers \ {h} : job[g] # Idle /\ job'[h] # Idle => job[g].loan # job'[h].loan,
         job'[h].pc = "advanced" =>
           \/ job'[h].next = 0 /\ NoNextNeeded(job'[h].loan, job'[h].no)
           \/ NextIsOpen(job'[h].loan, job'[h].no, job'[h].next)
  PROVE  RInv'
<1> USE DEF JobMoves, Kept
<1>1. InOrder' /\ ProgressInv' /\ OverdueDaysAreFact'
  BY ProgressKept DEF RInv, Typed
<1>2. Typed'
  BY DEF RInv, Typed
<1>3. SweepInv'
  BY DEF RInv, SweepInv, Scheduled
<1>4. JobsInv'
  <2>1. \A g \in Handlers : JobOk(g)'
    BY DEF RInv, JobsInv, JobOk
  <2>2. \A f, g \in Handlers : job'[f] # Idle /\ job'[g] # Idle /\ job'[f].loan = job'[g].loan => f = g
    BY DEF RInv, JobsInv
  <2> QED BY <2>1, <2>2 DEF JobsInv
<1>5. NextInv'
  BY DEF RInv, NextInv, NoNextNeeded, NextIsOpen, With, Scheduled
<1> QED BY <1>1, <1>2, <1>3, <1>4, <1>5 DEF RInv

LEMMA PayLockStep ==
  ASSUME RInv, NEW h \in Handlers, NEW l \in Loans, NEW n \in Numbers(l), PayLock(h, l, n)
  PROVE  RInv'
<1>1. job' = [job EXCEPT ![h] = [pc |-> "pay", loan |-> l, no |-> n]] /\ DOMAIN job = Handlers
  BY DEF PayLock, RInv, Typed
<1>2. JobMoves(h)
  BY <1>1 DEF PayLock, JobMoves, Kept, ledger, calendar
<1>3. job'[h].pc = "pay" /\ job'[h].loan = l /\ job'[h].no = n
  BY <1>1
<1>4. JobOk(h)'
  BY <1>2, <1>3 DEF PayLock, JobOk, Paying, JobMoves, Kept
<1>5. \A g \in Handlers \ {h} : job[g] # Idle => job[g].loan # l
  BY DEF PayLock, LoanFree, HoldsLoan
<1> QED BY <1>2, <1>3, <1>4, <1>5, JobKept

LEMMA SettleLockStep ==
  ASSUME RInv, NEW h \in Handlers, NEW l \in Loans, SettleLock(h, l)
  PROVE  RInv'
<1>1. job' = [job EXCEPT ![h] = [pc |-> "settle", loan |-> l, principal |-> PrincipalOf(l, Unpaid(l))]]
      /\ DOMAIN job = Handlers
  BY DEF SettleLock, RInv, Typed
<1>2. JobMoves(h)
  BY <1>1 DEF SettleLock, JobMoves, Kept, ledger, calendar
<1>3. job'[h].pc = "settle" /\ job'[h].loan = l
  BY <1>1
<1>4. JobOk(h)'
  BY <1>3 DEF JobOk
<1>5. \A g \in Handlers \ {h} : job[g] # Idle => job[g].loan # l
  BY DEF SettleLock, LoanFree, HoldsLoan
<1> QED BY <1>2, <1>3, <1>4, <1>5, JobKept

\* The payment whose record says so is at work on an installment that can be paid.
LEMMA JobFacts ==
  ASSUME RInv, NEW h \in Handlers, job[h].pc \in Paying
  PROVE  /\ job[h] # Idle /\ job[h].loan \in Loans /\ job[h].no \in Numbers(job[h].loan)
         /\ instStatus[job[h].loan][job[h].no] \in payableStatuses
         /\ \A g \in Handlers \ {h} : job[g] # Idle => job[g].loan # job[h].loan
  BY ItsOwnRecord DEF RInv, JobsInv, JobOk, Paying

LEMMA PayCountStep ==
  ASSUME RInv, NEW h \in Handlers, PayCount(h)
  PROVE  RInv'
<1>1. /\ job' = [job EXCEPT ![h] = [pc |-> "counted", loan |-> job[h].loan, no |-> job[h].no,
                                   late |-> With(job[h].loan, {"overdue"}) \ {job[h].no} # {}]]
      /\ DOMAIN job = Handlers /\ job[h].pc \in Paying
  BY DEF PayCount, RInv, Typed, Paying
<1>2. JobMoves(h)
  BY <1>1 DEF PayCount, JobMoves, Kept, ledger, calendar
<1>3. job'[h].pc = "counted" /\ job'[h].loan = job[h].loan /\ job'[h].no = job[h].no
  BY <1>1
<1>4. JobOk(h)'
  BY <1>1, <1>2, <1>3, JobFacts DEF JobOk, Paying, JobMoves, Kept
<1> QED BY <1>1, <1>2, <1>3, <1>4, JobFacts, JobKept

LEMMA PayAdvanceStep ==
  ASSUME RInv, NEW h \in Handlers, PayAdvance(h)
  PROVE  RInv'
<1> DEFINE l == job[h].loan
           n == job[h].no
           m == NextDue(l, n)
<1>1. /\ job' = [job EXCEPT ![h] = [pc |-> "advanced", loan |-> l, no |-> n, late |-> job[h].late, next |-> m]]
      /\ DOMAIN job = Handlers /\ job[h].pc \in Paying
  BY DEF PayAdvance, RInv, Typed, Paying
<1>2. JobMoves(h)
  BY <1>1 DEF PayAdvance, JobMoves, Kept, ledger, calendar
<1>3. job'[h].pc = "advanced" /\ job'[h].loan = l /\ job'[h].no = n /\ job'[h].next = m
  BY <1>1
<1>4. JobOk(h)'
  BY <1>1, <1>2, <1>3, JobFacts DEF JobOk, Paying, JobMoves, Kept
<1>5. l \in Loans /\ n \in Numbers(l) /\ instStatus[l][n] \in payableStatuses
  BY <1>1, JobFacts
<1> HIDE DEF l, n
<1>6. CASE With(l, payableStatuses) \ {n} = {} /\ With(l, {"scheduled"}) # {}
  <2>1. With(l, {"scheduled"}) \subseteq Nat /\ m = Min(With(l, {"scheduled"}))
    BY <1>5, <1>6, NumbersFacts DEF With, NextDue
  <2>2. m \in With(l, {"scheduled"}) /\ \A i \in With(l, {"scheduled"}) : m <= i
    BY <1>6, <2>1, MinIsLeast
  <2> HIDE DEF m
  <2>3. m \in Numbers(l) /\ Scheduled(l, m) /\ \A i \in Numbers(l) : Scheduled(l, i) => m <= i
    BY <2>2 DEF With, Scheduled
  <2>4. n < m
    <3>1. ~ Scheduled(l, n)
      BY <1>5 DEF Scheduled, payableStatuses
    <3>2. ~ (m < n) /\ m # n
      BY <1>5, <2>3, <3>1 DEF RInv, InOrder
    <3> QED BY <1>5, <2>3, <3>2, NumbersFacts
  <2>5. instStatus[l][n] = "overdue" => DueDay[l][n] + overdueDays[l][n] <= DueDay[l][m]
    BY <1>5, <2>3 DEF RInv, InOrder
  <2>6. \A s \in Sweepers : sweep[s].at = "overdue" /\ sweep[s].read /\ <<l, m>> \in sweep[s].rows
                           => <<l, n>> \in sweep[s].rows
    BY <1>5, <2>3 DEF RInv, SweepInv
  <2>7. NextIsOpen(l, n, m)
    BY <2>3, <2>4, <2>5, <2>6 DEF NextIsOpen, Scheduled
  <2> QED BY <1>1, <1>2, <1>3, <1>4, <2>7, JobFacts, JobKept DEF l
<1>7. CASE ~ (With(l, payableStatuses) \ {n} = {} /\ With(l, {"scheduled"}) # {})
  <2>1. m = 0 /\ NoNextNeeded(l, n)
    BY <1>7 DEF NextDue, NoNextNeeded
  <2> QED BY <1>1, <1>2, <1>3, <1>4, <2>1, JobFacts, JobKept DEF l
<1> QED BY <1>6, <1>7

LEMMA FailPaymentStep ==
  ASSUME RInv, NEW h \in Handlers, FailPayment(h)
  PROVE  RInv'
<1>1. job' = [job EXCEPT ![h] = Idle] /\ DOMAIN job = Handlers /\ old' = old \ {h}
  BY DEF FailPayment, EndJob, RInv, Typed
<1>2. JobMoves(h)
  BY <1>1, LimitsAssumption DEF FailPayment, JobMoves, Kept, ledger, calendar
<1>3. job'[h] = Idle
  BY <1>1
<1>4. JobOk(h)'
  BY <1>3 DEF JobOk
<1> QED BY <1>2, <1>3, <1>4, ItsOwnRecord, JobKept

\* A sweep takes a step that writes nothing.
SweepMoves(s) == /\ Kept /\ UNCHANGED <<today, job>>
                 /\ DOMAIN sweep' = Sweepers /\ \A t \in Sweepers \ {s} : sweep'[t] = sweep[t]
                 /\ \A t \in Sweepers \ {s} : t \in old' <=> t \in old

SweepOk(s) ==
  /\ sweep[s].at \in {"idle"} \cup Statements
  /\ sweep[s].read \in BOOLEAN
  /\ sweep[s].read => sweep[s].at # "idle" /\ sweep[s].day \in Nat /\ sweep[s].day <= today

SweepKnows(s, l, n) ==
  /\ sweep[s].at = "due" /\ sweep[s].read =>
       /\ sweep[s].day >= (IF s \in old THEN today - 1 ELSE today)
       /\ Scheduled(l, n) /\ DueDay[l][n] <= sweep[s].day => <<l, n>> \in sweep[s].rows
  /\ sweep[s].at = "overdue" /\ ~ sweep[s].read /\ Scheduled(l, n) =>
       DueDay[l][n] > (IF s \in old THEN today - 1 ELSE today)
  /\ sweep[s].at = "overdue" /\ sweep[s].read =>
       /\ Scheduled(l, n) => DueDay[l][n] >= sweep[s].day
       /\ <<l, n>> \in sweep[s].rows => ~ Scheduled(l, n)

LEMMA SweepKept ==
  ASSUME RInv, NEW s \in Sweepers, SweepMoves(s), SweepOk(s)',
         \A l \in Loans : \A n \in Numbers(l) : SweepKnows(s, l, n)',
         \A l \in Loans : \A n, m \in Numbers(l) : NextIsOpen(l, n, m) /\ instStatus[l][n] \in payableStatuses /\
           sweep'[s].at = "overdue" /\ sweep'[s].read /\ <<l, m>> \in sweep'[s].rows => <<l, n>> \in sweep'[s].rows
  PROVE  RInv'
<1> USE DEF SweepMoves, Kept
<1>1. InOrder' /\ ProgressInv' /\ OverdueDaysAreFact'
  BY ProgressKept DEF RInv, Typed
<1>2. Typed'
  BY DEF RInv, Typed, SweepOk
<1>3. SweepInv'
  <2> SUFFICES ASSUME NEW t \in Sweepers, NEW l \in Loans, NEW n \in Numbers(l) PROVE SweepKnows(t, l, n)'
    BY DEF SweepInv, SweepKnows
  <2>1. CASE t = s
    BY <2>1
  <2>2. CASE t # s
    BY <2>2 DEF RInv, SweepInv, SweepKnows, Scheduled
  <2> QED BY <2>1, <2>2
<1>4. JobsInv'
  BY DEF RInv, JobsInv, JobOk
<1>5. NextInv'
  <2> SUFFICES ASSUME NEW h \in Handlers, job[h].pc = "advanced"
               PROVE  \/ job[h].next = 0 /\ NoNextNeeded(job[h].loan, job[h].no)'
                      \/ NextIsOpen(job[h].loan, job[h].no, job[h].next)'
    BY DEF NextInv, NoNextNeeded, NextIsOpen, With, Scheduled
  <2>1. /\ job[h].loan \in Loans /\ job[h].no \in Numbers(job[h].loan)
        /\ instStatus[job[h].loan][job[h].no] \in payableStatuses
    BY JobFacts DEF Paying
  <2>2. CASE job[h].next = 0 /\ NoNextNeeded(job[h].loan, job[h].no)
    BY <2>2 DEF NoNextNeeded, With
  <2>3. CASE NextIsOpen(job[h].loan, job[h].no, job[h].next)
    BY <2>1, <2>3 DEF NextIsOpen, Scheduled
  <2> QED BY <2>2, <2>3 DEF RInv, NextInv
<1> QED BY <1>1, <1>2, <1>3, <1>4, <1>5 DEF RInv

\* A sweep begins a statement, or ends: it knows nothing of the rows yet.
LEMMA AtShape == \A at : At(at).at = at /\ At(at).read = FALSE
  BY DEF At

LEMMA SweepStartStep ==
  ASSUME RInv, NEW s \in Sweepers, SweepStart(s) \/ FailSweep(s)
  PROVE  RInv'
<1>1. PICK at \in {"idle", "due"} : sweep' = [sweep EXCEPT ![s] = At(at)]
  BY DEF SweepStart, FailSweep, AsleepSweep
<1>2. DOMAIN sweep = Sweepers
  BY DEF RInv, Typed
<1>3. SweepMoves(s)
  BY <1>1, <1>2 DEF SweepStart, FailSweep, SweepMoves, Kept, ledger, calendar
<1>4. sweep'[s].at \in {"idle", "due"} /\ sweep'[s].read = FALSE
  BY <1>1, <1>2, AtShape
<1>5. SweepOk(s)' /\ \A l \in Loans : \A n \in Numbers(l) : SweepKnows(s, l, n)'
  BY <1>4 DEF SweepOk, SweepKnows, Statements
<1> QED BY <1>3, <1>4, <1>5, SweepKept

LEMMA SweepReadStep ==
  ASSUME RInv, NEW s \in Sweepers, SweepRead(s)
  PROVE  RInv'
<1> DEFINE at == sweep[s].at
<1>1. /\ sweep' = [sweep EXCEPT ![s] = [at |-> at, read |-> TRUE, day |-> today, rows |-> Matching(at)]]
      /\ DOMAIN sweep = Sweepers /\ at \in Statements /\ ~ sweep[s].read /\ today \in Nat
  BY DEF SweepRead, RInv, Typed
<1>2. SweepMoves(s)
  BY <1>1 DEF SweepRead, SweepMoves, Kept, ledger, calendar
<1>3. sweep'[s].at = at /\ sweep'[s].read = TRUE /\ sweep'[s].day = today /\ sweep'[s].rows = Matching(at)
  BY <1>1
<1>4. SweepOk(s)'
  BY <1>1, <1>2, <1>3 DEF SweepOk, SweepMoves, Statements
<1>5. \A l \in Loans : \A n \in Numbers(l) : <<l, n>> \in Rows /\ n # 0
  <2> SUFFICES ASSUME NEW l \in Loans, NEW n \in Numbers(l) PROVE <<l, n>> \in Rows /\ n # 0
    OBVIOUS
  <2>1. <<l, n>> \in {<<l, k>> : k \in Numbers(l)}
    OBVIOUS
  <2>2. <<l, n>> \in Rows
    BY <2>1, Zenon DEF Rows
  <2> QED BY <2>2, NumbersFacts
<1>6. ASSUME NEW l \in Loans, NEW n \in Numbers(l)
      PROVE  /\ at = "due" => (<<l, n>> \in Matching(at) <=> ReachedBy(l, n, today))
             /\ at = "overdue" => (<<l, n>> \in Matching(at) <=> MissedBy(l, n, today))
  BY <1>5 DEF Matching
<1> HIDE DEF at
<1>7. ASSUME NEW l \in Loans, NEW n \in Numbers(l) PROVE SweepKnows(s, l, n)'
  <2>1. CASE at = "due"
    BY <1>1, <1>2, <1>3, <1>6, <2>1 DEF SweepKnows, SweepMoves, Kept, Scheduled, ReachedBy
  <2>2. CASE at = "overdue"
    <3>1. Scheduled(l, n) => DueDay[l][n] > (IF s \in old THEN today - 1 ELSE today)
      BY <1>1, <2>2 DEF RInv, SweepInv, at
    <3>2. <<l, n>> \in Matching(at) => ~ Scheduled(l, n)
      BY <1>6, <2>2 DEF MissedBy, Scheduled
    <3> QED BY <1>1, <1>2, <1>3, <2>2, <3>1, <3>2, NumbersFacts DEF SweepKnows, SweepMoves, Kept, Scheduled
  <2>3. CASE at \notin {"due", "overdue"}
    BY <1>3, <2>3 DEF SweepKnows
  <2> QED BY <2>1, <2>2, <2>3
<1>8. ASSUME NEW l \in Loans, NEW n \in Numbers(l), NEW m \in Numbers(l), NextIsOpen(l, n, m),
             instStatus[l][n] \in payableStatuses, at = "overdue", <<l, m>> \in Matching(at)
      PROVE  <<l, n>> \in Matching(at)
  <2>1. DueDay[l][m] < today /\ DueDay[l][n] < DueDay[l][m] /\ DueDay[l][n] \in Nat /\ DueDay[l][m] \in Nat
    BY <1>6, <1>8, NumbersFacts DEF MissedBy, LateBy, NextIsOpen
  <2>2. instStatus[l][n] # "overdue" \/ overdueDays[l][n] # today - DueDay[l][n]
    <3>1. overdueDays[l][n] \in Int
      BY DEF RInv, Typed
    <3> QED BY <1>1, <1>8, <2>1, <3>1 DEF NextIsOpen
  <2>3. MissedBy(l, n, today)
    BY <1>1, <1>8, <2>1, <2>2 DEF MissedBy, LateBy, DaysLate, payableStatuses
  <2> QED BY <1>6, <1>8, <2>3
<1> QED BY <1>2, <1>3, <1>4, <1>7, <1>8, SweepKept

LEMMA NextDayStep ==
  ASSUME RInv, NextDay
  PROVE  RInv'
<1>1. /\ today' = today + 1 /\ today \in Nat /\ Kept /\ UNCHANGED <<sweep, job>>
      /\ old = {} /\ old' = AtWork
  BY DEF NextDay, RInv, Typed, Kept, ledger
<1>2. InOrder' /\ ProgressInv' /\ OverdueDaysAreFact'
  BY <1>1, ProgressKept
<1>3. Typed'
  <2>1. \A s \in Sweepers : sweep[s].read => sweep[s].day \in Nat /\ sweep[s].day <= today + 1
    BY <1>1 DEF RInv, Typed
  <2> QED BY <1>1, <2>1 DEF RInv, Typed, Kept
<1>4. JobsInv' /\ NextInv'
  BY <1>1 DEF RInv, Kept, JobsInv, JobOk, NextInv, NoNextNeeded, NextIsOpen, With, Scheduled
<1>5. SweepInv'
  <2> SUFFICES ASSUME NEW s \in Sweepers, NEW l \in Loans, NEW n \in Numbers(l) PROVE SweepKnows(s, l, n)'
    BY DEF SweepInv, SweepKnows
  <2>1. sweep[s].at # "idle" => s \in old'
    BY <1>1 DEF AtWork
  <2>2. SweepKnows(s, l, n) /\ s \notin old
    BY <1>1 DEF RInv, SweepInv, SweepKnows
  <2>3. (sweep[s].read => sweep[s].day \in Nat) /\ DueDay[l][n] \in Nat
    BY NumbersFacts DEF RInv, Typed
  <2> QED BY <1>1, <2>1, <2>2, <2>3 DEF SweepKnows, Kept, Scheduled
<1> QED BY <1>2, <1>3, <1>4, <1>5 DEF RInv

-----------------------------------------------------------------------------
(* Steps that write *)

LoanTyped(l) == /\ instStatus[l] \in [Numbers(l) -> InstallmentStatuses]
                /\ overdueDays[l] \in [Numbers(l) -> Int]
                /\ loanStatus[l] \in LoanStatuses
LoanInOrder(l) ==
  \A m, n \in Numbers(l) :
    /\ m < n /\ Scheduled(l, m) => Scheduled(l, n)
    /\ Scheduled(l, m) /\ instStatus[l][n] = "overdue" => DueDay[l][n] + overdueDays[l][n] <= DueDay[l][m]
LoanProgress(l) ==
  /\ loanStatus[l] = "settled" <=> Unpaid(l) = {}
  /\ paidCount[l] = Cardinality(Numbers(l) \ Unpaid(l))
  /\ loanStatus[l] # "settled" => With(l, payableStatuses) # {}
LoanDays(l) ==
  \A n \in Numbers(l) :
    IF instStatus[l][n] = "overdue"
    THEN overdueDays[l][n] \in 1..(today - DueDay[l][n])
    ELSE overdueDays[l][n] = 0

\* A payment commits: the request ends, and of the loans only its own changes.
Commits(h, l) ==
  /\ job[h].pc \in Paying \cup {"settle"} /\ l = job[h].loan
  /\ job' = [job EXCEPT ![h] = Idle] /\ UNCHANGED <<sweep, today>>
  /\ \A s \in Sweepers : s \in old' <=> s \in old
  /\ DOMAIN instStatus' = Loans /\ DOMAIN overdueDays' = Loans /\ DOMAIN paidCount' = Loans
  /\ loanStatus' = [k \in Loans |-> loanStatus'[k]]
  /\ \A k \in Loans \ {l} : /\ instStatus'[k] = instStatus[k] /\ overdueDays'[k] = overdueDays[k]
                            /\ loanStatus'[k] = loanStatus[k] /\ paidCount'[k] = paidCount[k]

LEMMA CommitKept ==
  ASSUME RInv, NEW h \in Handlers, NEW l \in Loans, Commits(h, l),
         LoanTyped(l)', LoanInOrder(l)', LoanProgress(l)', LoanDays(l)',
         \A n \in Numbers(l) : Scheduled(l, n)' => Scheduled(l, n)
  PROVE  RInv'
<1> USE DEF Commits
<1>1. Typed'
  <2>1. \A k \in Loans : LoanTyped(k)'
    BY DEF RInv, Typed, LoanTyped
  <2> QED BY <2>1 DEF RInv, Typed, LoanTyped
<1>2. \A g \in Handlers \ {h} : job'[g] = job[g] /\ (job[g] # Idle => job[g].loan # l)
  BY ItsOwnRecord DEF RInv, Typed, JobsInv, Paying
<1>3. job'[h] = Idle
  BY DEF RInv, Typed
<1>4. JobsInv'
  <2>1. \A g \in Handlers : JobOk(g)'
    BY <1>2, <1>3 DEF RInv, JobsInv, JobOk
  <2> QED BY <1>2, <1>3, <2>1 DEF RInv, JobsInv
<1>5. NextInv'
  <2> SUFFICES ASSUME NEW g \in Handlers, job'[g].pc = "advanced"
               PROVE  (\/ job[g].next = 0 /\ NoNextNeeded(job[g].loan, job[g].no)
                       \/ NextIsOpen(job[g].loan, job[g].no, job[g].next))'
    BY DEF NextInv
  <2>1. g # h /\ job'[g] = job[g]
    BY <1>2, <1>3, ItsOwnRecord
  <2>2. job[g].loan \in Loans \ {l}
    BY <1>2, <2>1, JobFacts DEF Paying
  <2>3. /\ instStatus'[job[g].loan] = instStatus[job[g].loan]
        /\ overdueDays'[job[g].loan] = overdueDays[job[g].loan]
    BY <2>2
  <2>4. \/ job[g].next = 0 /\ NoNextNeeded(job[g].loan, job[g].no)
        \/ NextIsOpen(job[g].loan, job[g].no, job[g].next)
    BY <2>1 DEF RInv, NextInv
  <2> QED BY <2>1, <2>3, <2>4 DEF NoNextNeeded, NextIsOpen, With, Scheduled
<1>6. InOrder'
  <2>1. \A k \in Loans : LoanInOrder(k)'
    BY DEF RInv, InOrder, LoanInOrder, Scheduled
  <2> QED BY <2>1 DEF InOrder, LoanInOrder
<1>7. SweepInv'
  <2>1. ASSUME NEW k \in Loans, NEW n \in Numbers(k), Scheduled(k, n)' PROVE Scheduled(k, n)
    BY <2>1 DEF Scheduled
  <2> QED BY <2>1 DEF RInv, SweepInv
<1>8. ProgressInv'
  <2>1. ASSUME NEW k \in Loans PROVE LoanProgress(k)'
    <3>1. CASE k = l
      BY <3>1
    <3>2. CASE k # l
      <4>1. LoanProgress(k)
        BY DEF RInv, ProgressInv, ProgressIsRight, UnsettledIsPayable, LoanProgress
      <4> QED BY <3>2, <4>1 DEF LoanProgress, Unpaid, With
    <3> QED BY <3>1, <3>2
  <2> QED BY <2>1 DEF ProgressInv, ProgressIsRight, UnsettledIsPayable, LoanProgress
<1>9. OverdueDaysAreFact'
  <2>1. \A k \in Loans : LoanDays(k)'
    BY DEF RInv, OverdueDaysAreFact, LoanDays
  <2> QED BY <2>1 DEF OverdueDaysAreFact, LoanDays
<1> QED BY <1>1, <1>4, <1>5, <1>6, <1>7, <1>8, <1>9 DEF RInv

LEMMA EarlierSweeps == \A h \in Handlers : old' = old \ {h} => \A s \in Sweepers : s \in old' <=> s \in old
  BY LimitsAssumption

LEMMA SettleCommitStep ==
  ASSUME RInv, NEW h \in Handlers, SettleCommit(h)
  PROVE  RInv'
<1>1. PICK l \in Loans : job[h].pc = "settle" /\ l = job[h].loan
  BY ItsOwnRecord DEF SettleCommit, RInv, JobsInv, JobOk, Paying
<1>2. /\ instStatus' = [instStatus EXCEPT ![l] = [n \in Numbers(l) |-> "paid"]]
      /\ overdueDays' = [overdueDays EXCEPT ![l] = [n \in Numbers(l) |-> 0]]
      /\ paidCount' = [paidCount EXCEPT ![l] = Len(Schedule[l])]
      /\ loanStatus' = [loanStatus EXCEPT ![l] = "settled"]
      /\ job' = [job EXCEPT ![h] = Idle] /\ old' = old \ {h} /\ UNCHANGED <<sweep, today>>
  BY <1>1 DEF SettleCommit, EndJob, calendar
<1>3. /\ DOMAIN instStatus = Loans /\ DOMAIN overdueDays = Loans /\ DOMAIN paidCount = Loans
      /\ loanStatus \in [Loans -> LoanStatuses]
  BY DEF RInv, Typed
<1>4. Commits(h, l)
  BY <1>1, <1>2, <1>3, EarlierSweeps DEF Commits
<1>5. /\ instStatus'[l] = [n \in Numbers(l) |-> "paid"] /\ overdueDays'[l] = [n \in Numbers(l) |-> 0]
      /\ paidCount'[l] = Len(Schedule[l]) /\ loanStatus'[l] = "settled"
  BY <1>1, <1>2, <1>3
<1>6. LoanTyped(l)'
  BY <1>5 DEF LoanTyped, InstallmentStatuses, LoanStatuses
<1>7. LoanInOrder(l)' /\ LoanDays(l)' /\ \A n \in Numbers(l) : ~ Scheduled(l, n)'
  BY <1>5 DEF LoanInOrder, LoanDays, Scheduled
<1>8. LoanProgress(l)'
  <2>1. Unpaid(l)' = {}
    BY <1>5 DEF Unpaid, With
  <2>2. Cardinality(Numbers(l) \ {}) = Len(Schedule[l])
    BY <1>1, NumbersFacts, FS_Interval DEF Numbers
  <2> QED BY <1>5, <2>1, <2>2 DEF LoanProgress
<1> QED BY <1>1, <1>4, <1>6, <1>7, <1>8, CommitKept

LEMMA PayCommitStep ==
  ASSUME RInv, NEW h \in Handlers, PayCommit(h)
  PROVE  RInv'
<1>1. PICK l \in Loans : job[h].pc = "advanced" /\ l = job[h].loan
  BY ItsOwnRecord, JobFacts DEF PayCommit, Paying
<1>2. PICK n \in Numbers(l) : n = job[h].no /\ instStatus[l][n] \in payableStatuses
  BY <1>1, JobFacts DEF Paying
<1>3. PICK m : m = job[h].next
  OBVIOUS
<1> DEFINE settled == Unpaid(l) = {n}
           status == [x \in Numbers(l) |-> CASE x = n -> "paid"
                                             [] x = m /\ ~ settled -> "due"
                                             [] OTHER -> instStatus[l][x]]
<1>4. /\ instStatus' = [instStatus EXCEPT ![l] = status]
      /\ overdueDays' = [overdueDays EXCEPT ![l][n] = 0]
      /\ paidCount' = [paidCount EXCEPT ![l] = Cardinality({x \in Numbers(l) : status[x] = "paid"})]
      /\ loanStatus' = [loanStatus EXCEPT ![l] = IF settled THEN "settled"
                                                 ELSE IF job[h].late THEN "overdue" ELSE "normal"]
      /\ job' = [job EXCEPT ![h] = Idle] /\ old' = old \ {h} /\ UNCHANGED <<sweep, today>>
  BY <1>1, <1>2, <1>3 DEF PayCommit, EndJob, calendar
<1>5. /\ DOMAIN instStatus = Loans /\ DOMAIN overdueDays = Loans /\ DOMAIN paidCount = Loans
      /\ loanStatus \in [Loans -> LoanStatuses]
      /\ instStatus[l] \in [Numbers(l) -> InstallmentStatuses] /\ overdueDays[l] \in [Numbers(l) -> Int]
  BY DEF RInv, Typed
<1>6. (m = 0 /\ NoNextNeeded(l, n)) \/ NextIsOpen(l, n, m)
  BY <1>1, <1>2, <1>3 DEF RInv, NextInv
<1>7. Numbers(l) \subseteq Nat \ {0}
  BY NumbersFacts
<1>8. Commits(h, l)
  BY <1>1, <1>4, <1>5, EarlierSweeps DEF Commits, Paying
<1>9. NextIsOpen(l, n, m) => ~ settled /\ m # n /\ instStatus[l][m] \in {"scheduled", "due"}
  BY <1>7 DEF NextIsOpen, Unpaid, With, InstallmentStatuses
<1>10. ASSUME NEW x \in Numbers(l)
       PROVE  /\ instStatus'[l][x] = IF x = n THEN "paid" ELSE IF x = m THEN "due" ELSE instStatus[l][x]
              /\ overdueDays'[l][x] = IF x = n THEN 0 ELSE overdueDays[l][x]
  <2>1. x = m => ~ settled
    BY <1>6, <1>7, <1>9
  <2>2. instStatus'[l] = status
    BY <1>4, <1>5
  <2>3. status[x] = IF x = n THEN "paid" ELSE IF x = m THEN "due" ELSE instStatus[l][x]
    <3>1. CASE x = n
      BY <1>6, <1>7, <1>9, <3>1
    <3>2. CASE x # n /\ x = m
      BY <2>1, <3>2
    <3>3. CASE x # n /\ x # m
      BY <3>3
    <3> QED BY <3>1, <3>2, <3>3
  <2>4. overdueDays'[l] = [overdueDays[l] EXCEPT ![n] = 0]
    BY <1>4, <1>5
  <2> HIDE DEF status
  <2> QED BY <1>5, <2>2, <2>3, <2>4
<1>11. LoanTyped(l)'
  <2>1. status \in [Numbers(l) -> InstallmentStatuses]
    BY <1>5 DEF InstallmentStatuses
  <2> HIDE DEF status, settled
  <2> QED BY <1>4, <1>5, <2>1 DEF LoanTyped, LoanStatuses
<1> HIDE DEF status
<1>12. \A x \in Numbers(l) : Scheduled(l, x)' => Scheduled(l, x) /\ x # n /\ x # m
  BY <1>10 DEF Scheduled
<1>13. LoanInOrder(l)'
  <2> SUFFICES ASSUME NEW i \in Numbers(l), NEW j \in Numbers(l), Scheduled(l, i)'
               PROVE  /\ i < j => Scheduled(l, j)'
                      /\ (instStatus[l][j] = "overdue" => DueDay[l][j] + overdueDays[l][j] <= DueDay[l][i])'
    BY DEF LoanInOrder
  <2>1. ASSUME i < j PROVE Scheduled(l, j)'
    <3>1. Scheduled(l, i) /\ Scheduled(l, j)
      BY <1>12, <2>1 DEF RInv, InOrder
    <3>2. j # n
      BY <1>2, <3>1 DEF Scheduled, payableStatuses
    <3>3. j # m
      BY <1>6, <1>7, <2>1, <3>1 DEF NextIsOpen
    <3> QED BY <1>10, <3>1, <3>2, <3>3 DEF Scheduled
  <2>2. ASSUME instStatus'[l][j] = "overdue" PROVE DueDay[l][j] + overdueDays'[l][j] <= DueDay[l][i]
    <3>1. j # n /\ instStatus[l][j] = "overdue" /\ Scheduled(l, i)
      BY <1>10, <1>12, <2>2
    <3> QED BY <1>10, <3>1 DEF RInv, InOrder
  <2> QED BY <2>1, <2>2
<1>14. LoanProgress(l)'
  <2>1. n \in Unpaid(l) /\ Unpaid(l)' = Unpaid(l) \ {n}
    BY <1>2, <1>6, <1>7, <1>9, <1>10 DEF Unpaid, With, InstallmentStatuses, payableStatuses
  <2>2. loanStatus'[l] = "settled" <=> settled
    BY <1>4, <1>5
  <2>3. paidCount'[l] = Cardinality(Numbers(l) \ Unpaid(l)')
    <3>1. {x \in Numbers(l) : status[x] = "paid"} = Numbers(l) \ Unpaid(l)'
      <4>1. \A x \in Numbers(l) : status[x] = instStatus'[l][x]
        BY <1>4, <1>5
      <4>2. \A x \in Numbers(l) : instStatus'[l][x] \in InstallmentStatuses
        BY <1>11 DEF LoanTyped
      <4> QED BY <4>1, <4>2 DEF Unpaid, With
    <3>2. paidCount'[l] = Cardinality({x \in Numbers(l) : status[x] = "paid"})
      BY <1>4, <1>5
    <3> QED BY <3>1, <3>2
  <2>4. ASSUME ~ settled PROVE With(l, payableStatuses)' # {}
    <3>1. CASE NextIsOpen(l, n, m)
      <4>1. m \in Numbers(l) /\ instStatus'[l][m] = "due"
        BY <1>9, <1>10, <3>1 DEF NextIsOpen
      <4> QED BY <4>1 DEF With, payableStatuses
    <3>2. CASE m = 0 /\ NoNextNeeded(l, n)
      <4>1. PICK x \in Numbers(l) : x # n /\ instStatus[l][x] \in payableStatuses
        <5>1. CASE With(l, payableStatuses) \ {n} # {}
          BY <5>1 DEF With
        <5>2. CASE With(l, {"scheduled"}) = {}
          <6>1. PICK x \in Unpaid(l) : x # n
            BY <2>1, <2>4
          <6> QED BY <1>5, <5>2, <6>1 DEF With, Unpaid, InstallmentStatuses, payableStatuses
        <5> QED BY <3>2, <5>1, <5>2 DEF NoNextNeeded
      <4>2. instStatus'[l][x] \in payableStatuses
        BY <1>7, <1>10, <3>2, <4>1
      <4> QED BY <4>2 DEF With
    <3> QED BY <1>6, <3>1, <3>2
  <2> QED BY <2>1, <2>2, <2>3, <2>4 DEF LoanProgress
<1>15. LoanDays(l)'
  <2> SUFFICES ASSUME NEW x \in Numbers(l)
               PROVE  IF instStatus'[l][x] = "overdue"
                      THEN overdueDays'[l][x] \in 1..(today - DueDay[l][x])
                      ELSE overdueDays'[l][x] = 0
    BY <1>4 DEF LoanDays
  <2>1. IF instStatus[l][x] = "overdue"
        THEN overdueDays[l][x] \in 1..(today - DueDay[l][x])
        ELSE overdueDays[l][x] = 0
    BY DEF RInv, OverdueDaysAreFact
  <2>2. x = m => instStatus[l][x] # "overdue"
    BY <1>6, <1>7, <1>9
  <2> QED BY <1>10, <2>1, <2>2
<1> QED BY <1>8, <1>11, <1>12, <1>13, <1>14, <1>15, CommitKept

LEMMA SweepWriteStep ==
  ASSUME RInv, NEW s \in Sweepers, SweepWrite(s)
  PROVE  RInv'
<1>1. PICK at, day, rows : at = sweep[s].at /\ day = sweep[s].day /\ rows = sweep[s].rows
  OBVIOUS
<1> DEFINE late(l, n) == at = "overdue" /\ <<l, n>> \in rows /\ MissedBy(l, n, day)
           now(l, n) == at = "due" /\ <<l, n>> \in rows /\ ReachedBy(l, n, day)
<1>2. /\ sweep[s].read /\ at \in Statements /\ day \in Nat /\ day <= today /\ today \in Nat
      /\ DOMAIN sweep = Sweepers /\ loanStatus \in [Loans -> LoanStatuses]
      /\ \A l \in Loans : /\ instStatus[l] \in [Numbers(l) -> InstallmentStatuses]
                          /\ overdueDays[l] \in [Numbers(l) -> Int]
  BY <1>1 DEF SweepWrite, RInv, Typed
<1>3. /\ \A r \in rows : RowFree(r)
      /\ instStatus' = [l \in Loans |-> [n \in Numbers(l) |->
           CASE now(l, n) -> "due" [] late(l, n) -> "overdue" [] OTHER -> instStatus[l][n]]]
      /\ overdueDays' = [l \in Loans |-> [n \in Numbers(l) |->
           IF late(l, n) THEN DaysLate(l, n, day) ELSE overdueDays[l][n]]]
      /\ loanStatus' = [l \in Loans |->
           CASE at = "mark" /\ <<l, 0>> \in rows /\ NotSettled(l) -> "overdue"
             [] at = "clear" /\ <<l, 0>> \in rows /\ loanStatus[l] = "overdue" -> "normal"
             [] OTHER -> loanStatus[l]]
      /\ sweep' = [sweep EXCEPT ![s] = At(FollowedBy[at])]
      /\ old' = (IF FollowedBy[at] = "idle" THEN old \ {s} ELSE old)
      /\ UNCHANGED <<paidCount, today, job>>
  BY <1>1 DEF SweepWrite
<1>4. ASSUME NEW l \in Loans, NEW n \in Numbers(l)
      PROVE  \/ /\ ~ now(l, n) /\ ~ late(l, n)
                /\ instStatus'[l][n] = instStatus[l][n] /\ overdueDays'[l][n] = overdueDays[l][n]
             \/ /\ now(l, n) /\ ~ late(l, n) /\ instStatus[l][n] = "scheduled" /\ DueDay[l][n] <= day
                /\ instStatus'[l][n] = "due" /\ overdueDays'[l][n] = overdueDays[l][n]
             \/ /\ late(l, n) /\ ~ now(l, n) /\ instStatus[l][n] \in payableStatuses /\ DueDay[l][n] < day
                /\ instStatus'[l][n] = "overdue" /\ overdueDays'[l][n] = day - DueDay[l][n]
  <2>1. now(l, n) => instStatus[l][n] = "scheduled" /\ DueDay[l][n] <= day /\ ~ late(l, n)
    BY DEF ReachedBy
  <2>2. late(l, n) => instStatus[l][n] \in payableStatuses /\ DueDay[l][n] < day /\ ~ now(l, n)
    BY DEF MissedBy, LateBy, payableStatuses
  <2> HIDE DEF now, late
  <2>3. /\ instStatus'[l][n] = CASE now(l, n) -> "due" [] late(l, n) -> "overdue" [] OTHER -> instStatus[l][n]
        /\ overdueDays'[l][n] = IF late(l, n) THEN DaysLate(l, n, day) ELSE overdueDays[l][n]
    BY <1>3
  <2>4. CASE now(l, n)
    BY <2>1, <2>3, <2>4
  <2>5. CASE late(l, n)
    BY <2>2, <2>3, <2>5 DEF DaysLate
  <2>6. CASE ~ now(l, n) /\ ~ late(l, n)
    BY <2>3, <2>6
  <2> QED BY <2>4, <2>5, <2>6
<1>5. \A l \in Loans : /\ loanStatus'[l] \in LoanStatuses
                       /\ loanStatus'[l] = "settled" <=> loanStatus[l] = "settled"
  BY <1>2, <1>3 DEF NotSettled, LoanStatuses
<1>6. /\ DOMAIN sweep' = Sweepers /\ \A t \in Sweepers \ {s} : sweep'[t] = sweep[t] /\ (t \in old' <=> t \in old)
      /\ sweep'[s].at = FollowedBy[at] /\ sweep'[s].read = FALSE
  BY <1>2, <1>3, AtShape
<1> HIDE DEF now, late
<1>7. ASSUME NEW l \in Loans, NEW n \in Numbers(l)
      PROVE  /\ Scheduled(l, n)' => Scheduled(l, n) /\ ~ now(l, n)
             /\ instStatus[l][n] \in payableStatuses => instStatus'[l][n] \in payableStatuses
             /\ instStatus'[l][n] = "paid" <=> instStatus[l][n] = "paid"
             /\ instStatus'[l][n] \in InstallmentStatuses /\ overdueDays'[l][n] \in Int
  BY <1>2, <1>4, NumbersFacts DEF Scheduled, payableStatuses, InstallmentStatuses
<1>8. Typed'
  <2>1. \A l \in Loans : /\ instStatus'[l] \in [Numbers(l) -> InstallmentStatuses]
                         /\ overdueDays'[l] \in [Numbers(l) -> Int]
    <3> SUFFICES ASSUME NEW l \in Loans PROVE /\ instStatus'[l] \in [Numbers(l) -> InstallmentStatuses]
                                              /\ overdueDays'[l] \in [Numbers(l) -> Int]
      OBVIOUS
    <3>1. instStatus'[l] = [n \in Numbers(l) |-> instStatus'[l][n]]
      BY <1>3
    <3>2. overdueDays'[l] = [n \in Numbers(l) |-> overdueDays'[l][n]]
      BY <1>3
    <3> QED BY <1>7, <3>1, <3>2
  <2>2. loanStatus' \in [Loans -> LoanStatuses]
    BY <1>3, <1>5
  <2>3. DOMAIN instStatus' = Loans /\ DOMAIN overdueDays' = Loans /\ DOMAIN paidCount' = Loans
        /\ DOMAIN job' = Handlers /\ today' \in Nat
    BY <1>3 DEF RInv, Typed
  <2>4. \A t \in Sweepers : /\ sweep'[t].at \in {"idle"} \cup Statements
                            /\ sweep'[t].read \in BOOLEAN
                            /\ sweep'[t].read => sweep'[t].at # "idle" /\ sweep'[t].day \in Nat /\ sweep'[t].day <= today'
    <3>1. FollowedBy[at] \in {"idle"} \cup Statements
      BY <1>2 DEF FollowedBy, Statements
    <3> QED BY <1>3, <1>6, <3>1 DEF RInv, Typed
  <2> QED BY <1>6, <2>1, <2>2, <2>3, <2>4 DEF Typed
<1>9. JobsInv'
  <2>1. \A h \in Handlers : JobOk(h)'
    BY <1>3, <1>7 DEF RInv, JobsInv, JobOk
  <2> QED BY <1>3, <2>1 DEF RInv, JobsInv
<1>10. NextInv'
  <2> SUFFICES ASSUME NEW h \in Handlers, job[h].pc = "advanced"
               PROVE  \/ job[h].next = 0 /\ NoNextNeeded(job[h].loan, job[h].no)'
                      \/ NextIsOpen(job[h].loan, job[h].no, job[h].next)'
    BY <1>3 DEF NextInv, NoNextNeeded, NextIsOpen, With, Scheduled
  <2>l. PICK l \in Loans : l = job[h].loan
    BY JobFacts DEF Paying
  <2>n. PICK n \in Numbers(l) : n = job[h].no /\ instStatus[l][n] \in payableStatuses
    BY <2>l, JobFacts DEF Paying
  <2>m. PICK m : m = job[h].next
    OBVIOUS
  <2>1. l = job[h].loan /\ n = job[h].no /\ m = job[h].next /\ instStatus[l][n] \in payableStatuses
    BY <2>l, <2>n, <2>m
  <2>2. CASE m = 0 /\ NoNextNeeded(l, n)
    <3>1. CASE With(l, payableStatuses) \ {n} # {}
      <4>1. With(l, payableStatuses) \subseteq With(l, payableStatuses)'
        BY <1>7 DEF With
      <4>2. NoNextNeeded(l, n)'
        BY <3>1, <4>1 DEF NoNextNeeded
      <4> QED BY <1>3, <2>1, <2>2, <4>2
    <3>2. CASE With(l, {"scheduled"}) = {}
      <4>1. With(l, {"scheduled"})' = {}
        BY <1>7, <3>2 DEF With, Scheduled
      <4>2. NoNextNeeded(l, n)'
        BY <4>1 DEF NoNextNeeded
      <4> QED BY <1>3, <2>1, <2>2, <4>2
    <3> QED BY <2>2, <3>1, <3>2 DEF NoNextNeeded
  <2>3. CASE NextIsOpen(l, n, m)
    <3>1. m \in Numbers(l) /\ n # 0
      BY <2>3, NumbersFacts DEF NextIsOpen
    <3>2. <<l, n>> \notin rows
      <4> SUFFICES ASSUME <<l, n>> \in rows PROVE FALSE
        OBVIOUS
      <4>1. ~ HoldsInstallment(h, l, n)
        BY <1>3, <3>1 DEF RowFree
      <4> QED BY <2>1, <4>1 DEF HoldsInstallment
    <3>3. ~ late(l, m)
      BY <1>1, <1>2, <2>3, <3>2 DEF NextIsOpen, late
    <3>4. instStatus'[l][n] = instStatus[l][n] /\ overdueDays'[l][n] = overdueDays[l][n]
      BY <1>4, <3>2 DEF now, late
    <3>5. instStatus'[l][m] \in {"scheduled", "due"}
      BY <1>4, <2>3, <3>1, <3>3 DEF NextIsOpen
    <3>6. Scheduled(l, m)' => \A i \in Numbers(l) : Scheduled(l, i)' => m <= i
      BY <1>7, <2>3, <3>1 DEF NextIsOpen
    <3>7. \A t \in Sweepers : sweep'[t].at = "overdue" /\ sweep'[t].read /\ <<l, m>> \in sweep'[t].rows
                                => <<l, n>> \in sweep'[t].rows
      BY <1>6, <2>3 DEF NextIsOpen
    <3>8. NextIsOpen(l, n, m)'
      BY <2>3, <3>1, <3>4, <3>5, <3>6, <3>7 DEF NextIsOpen
    <3> QED BY <1>3, <2>1, <3>8
  <2> QED BY <2>1, <2>2, <2>3 DEF RInv, NextInv
<1>11. \A l \in Loans : LoanInOrder(l)'
  <2> SUFFICES ASSUME NEW l \in Loans, NEW i \in Numbers(l), NEW j \in Numbers(l), Scheduled(l, i)'
               PROVE  /\ i < j => Scheduled(l, j)'
                      /\ instStatus'[l][j] = "overdue" => DueDay[l][j] + overdueDays'[l][j] <= DueDay[l][i]
    BY DEF LoanInOrder
  <2>0. Scheduled(l, i) /\ ~ now(l, i)
    BY <1>7
  <2>1. ASSUME i < j PROVE Scheduled(l, j)'
    <3>1. Scheduled(l, j)
      BY <2>0, <2>1 DEF RInv, InOrder
    <3>2. ~ late(l, j)
      BY <3>1 DEF late, MissedBy, Scheduled
    <3>3. ~ now(l, j)
      <4> SUFFICES ASSUME now(l, j) PROVE FALSE
        OBVIOUS
      <4>1. at = "due" /\ DueDay[l][j] <= day
        BY DEF now, ReachedBy
      <4>2. DueDay[l][i] <= day
        BY <1>2, <2>1, <4>1, NumbersFacts
      <4>3. <<l, i>> \in rows
        BY <1>1, <1>2, <2>0, <4>1, <4>2 DEF RInv, SweepInv
      <4> QED BY <2>0, <4>1, <4>2, <4>3 DEF now, ReachedBy, Scheduled
    <3> QED BY <1>4, <3>1, <3>2, <3>3 DEF Scheduled
  <2>2. ASSUME instStatus'[l][j] = "overdue" PROVE DueDay[l][j] + overdueDays'[l][j] <= DueDay[l][i]
    <3>1. CASE late(l, j)
      <4>1. at = "overdue" /\ overdueDays'[l][j] = day - DueDay[l][j]
        BY <1>4, <3>1 DEF late
      <4>2. DueDay[l][i] >= day
        BY <1>1, <1>2, <2>0, <4>1 DEF RInv, SweepInv
      <4> QED BY <1>2, <4>1, <4>2, NumbersFacts
    <3>2. CASE ~ late(l, j)
      <4>1. instStatus[l][j] = "overdue" /\ overdueDays'[l][j] = overdueDays[l][j]
        BY <1>4, <2>2, <3>2
      <4> QED BY <2>0, <4>1 DEF RInv, InOrder
    <3> QED BY <3>1, <3>2
  <2> QED BY <2>1, <2>2
<1>12. SweepInv'
  <2> SUFFICES ASSUME NEW t \in Sweepers, NEW l \in Loans, NEW n \in Numbers(l) PROVE SweepKnows(t, l, n)'
    BY DEF SweepInv, SweepKnows
  <2>1. CASE t # s
    <3>1. SweepKnows(t, l, n)
      BY DEF RInv, SweepInv, SweepKnows
    <3> QED BY <1>3, <1>6, <1>7, <2>1, <3>1 DEF SweepKnows
  <2>2. CASE t = s
    <3>1. CASE at = "due"
      <4>1. day >= (IF s \in old THEN today - 1 ELSE today) /\ (Scheduled(l, n) /\ DueDay[l][n] <= day => <<l, n>> \in rows)
        BY <1>1, <1>2, <3>1 DEF RInv, SweepInv
      <4>2. Scheduled(l, n)' => DueDay[l][n] > day
        BY <1>2, <1>7, <3>1, <4>1, NumbersFacts DEF now, ReachedBy, Scheduled
      <4>3. sweep'[s].at = "overdue" /\ sweep'[s].read = FALSE /\ old' = old /\ today' = today
        BY <1>3, <1>6, <3>1 DEF FollowedBy, Statements
      <4> QED BY <1>2, <2>2, <4>1, <4>2, <4>3, NumbersFacts DEF SweepKnows
    <3>2. CASE at # "due"
      <4>1. sweep'[s].at # "overdue" /\ sweep'[s].read = FALSE
        BY <1>2, <1>6, <3>2 DEF FollowedBy, Statements
      <4> QED BY <2>2, <4>1 DEF SweepKnows
    <3> QED BY <3>1, <3>2
  <2> QED BY <2>1, <2>2
<1>13. \A l \in Loans : LoanProgress(l)'
  <2> SUFFICES ASSUME NEW l \in Loans PROVE LoanProgress(l)'
    OBVIOUS
  <2>1. LoanProgress(l)
    BY DEF RInv, ProgressInv, ProgressIsRight, UnsettledIsPayable, LoanProgress
  <2>2. Unpaid(l)' = Unpaid(l)
    <3>1. \A n \in Numbers(l) : instStatus'[l][n] \in InstallmentStatuses \ {"paid"}
                                  <=> instStatus[l][n] \in InstallmentStatuses \ {"paid"}
      BY <1>2, <1>7
    <3> QED BY <3>1 DEF Unpaid, With
  <2>3. With(l, payableStatuses) \subseteq With(l, payableStatuses)'
    BY <1>7 DEF With
  <2> QED BY <1>3, <1>5, <2>1, <2>2, <2>3 DEF LoanProgress
<1>14. \A l \in Loans : LoanDays(l)'
  <2> SUFFICES ASSUME NEW l \in Loans, NEW n \in Numbers(l)
               PROVE  IF instStatus'[l][n] = "overdue"
                      THEN overdueDays'[l][n] \in 1..(today - DueDay[l][n])
                      ELSE overdueDays'[l][n] = 0
    BY <1>3 DEF LoanDays
  <2>1. IF instStatus[l][n] = "overdue"
        THEN overdueDays[l][n] \in 1..(today - DueDay[l][n])
        ELSE overdueDays[l][n] = 0
    BY DEF RInv, OverdueDaysAreFact
  <2>2. DueDay[l][n] \in Nat
    BY NumbersFacts
  <2> QED BY <1>2, <1>4, <2>1, <2>2
<1>15. InOrder' /\ ProgressInv' /\ OverdueDaysAreFact'
  <2>1. InOrder'
    BY <1>11 DEF InOrder, LoanInOrder
  <2>2. ProgressInv'
    BY <1>13 DEF ProgressInv, ProgressIsRight, UnsettledIsPayable, LoanProgress
  <2>3. OverdueDaysAreFact'
    BY <1>14 DEF OverdueDaysAreFact, LoanDays
  <2> QED BY <2>1, <2>2, <2>3
<1> QED BY <1>8, <1>9, <1>10, <1>12, <1>15 DEF RInv

-----------------------------------------------------------------------------
(* Theorems *)

LEMMA RStep == RInv /\ [Next]_vars => RInv'
<1> SUFFICES ASSUME RInv, [Next]_vars PROVE RInv'
  OBVIOUS
<1>1. ASSUME NEW h \in Handlers, NEW l \in Loans, SettleLock(h, l) \/ \E n \in Numbers(l) : PayLock(h, l, n)
      PROVE  RInv'
  BY <1>1, PayLockStep, SettleLockStep
<1>2. ASSUME NEW h \in Handlers, PayStep(h) \/ FailPayment(h) PROVE RInv'
  BY <1>2, PayCountStep, PayAdvanceStep, PayCommitStep, SettleCommitStep, FailPaymentStep DEF PayStep
<1>3. ASSUME NEW s \in Sweepers, SweepStart(s) \/ SweepStep(s) \/ FailSweep(s) PROVE RInv'
  BY <1>3, SweepStartStep, SweepReadStep, SweepWriteStep DEF SweepStep
<1>4. CASE NextDay
  BY <1>4, NextDayStep
<1>5. CASE UNCHANGED vars
  <2>1. InOrder' /\ ProgressInv' /\ OverdueDaysAreFact'
    BY <1>5, ProgressKept DEF RInv, Typed, Kept, vars, ledger, calendar
  <2>2. Typed' /\ JobsInv'
    BY <1>5 DEF RInv, Typed, JobsInv, JobOk, vars, ledger, calendar
  <2>3. NextInv'
    BY <1>5 DEF RInv, NextInv, NoNextNeeded, NextIsOpen, With, Scheduled, vars, ledger, calendar
  <2>4. SweepInv'
    BY <1>5 DEF RInv, SweepInv, Scheduled, vars, ledger, calendar
  <2> QED BY <2>1, <2>2, <2>3, <2>4 DEF RInv
<1> QED BY <1>1, <1>2, <1>3, <1>4, <1>5 DEF Next

LEMMA Invariant == Spec => []RInv
  BY RInit, RStep, PTL DEF Spec

\* However payments and sweeps interleave, a loan is settled exactly when nothing is
\* left to pay, and its counter (repayments.go, refreshLoanProgress) is right.
THEOREM ProgressAlwaysRight == Spec => []ProgressIsRight
<1>1. RInv => ProgressIsRight
  BY DEF RInv, ProgressInv
<1> QED BY <1>1, Invariant, PTL

\* A loan that is not settled has an installment that can be paid (repayments.go,
\* advanceNextInstallment), in whatever order installments are paid.
THEOREM AlwaysPayable == Spec => []UnsettledIsPayable
<1>1. RInv => UnsettledIsPayable
  BY DEF RInv, ProgressInv
<1> QED BY <1>1, Invariant, PTL

\* No installment counts as late for more days than have passed (overdue.go), for any
\* number of sweeps on either side of midnight.
THEOREM DaysAreFact == Spec => []OverdueDaysAreFact
<1>1. RInv => OverdueDaysAreFact
  BY DEF RInv
<1> QED BY <1>1, Invariant, PTL

\* How a step changes the status of an installment.
StatusesGoForward ==
  \A l \in Loans : \A n \in Numbers(l) :
    /\ instStatus[l][n] = "paid" => instStatus'[l][n] = "paid"
    /\ instStatus[l][n] = "overdue" => instStatus'[l][n] \in {"overdue", "paid"}

LEMMA Forward == RInv /\ [Next]_vars => StatusesGoForward
<1> SUFFICES ASSUME RInv, [Next]_vars, NEW l \in Loans, NEW n \in Numbers(l)
             PROVE  /\ instStatus[l][n] = "paid" => instStatus'[l][n] = "paid"
                    /\ instStatus[l][n] = "overdue" => instStatus'[l][n] \in {"overdue", "paid"}
  BY DEF StatusesGoForward
<1>t. DOMAIN instStatus = Loans /\ instStatus[l] \in [Numbers(l) -> InstallmentStatuses]
  BY DEF RInv, Typed
<1>1. CASE UNCHANGED instStatus
  BY <1>1
<1>2. CASE \E h \in Handlers : SettleCommit(h)
  <2> PICK h \in Handlers : SettleCommit(h)
    BY <1>2
  <2>1. instStatus'[l] = instStatus[l] \/ instStatus'[l] = [x \in Numbers(l) |-> "paid"]
    BY <1>t DEF SettleCommit
  <2> QED BY <2>1
<1>3. CASE \E h \in Handlers : PayCommit(h)
  <2> PICK h \in Handlers : PayCommit(h)
    BY <1>3
  <2>1. job[h].pc = "advanced" /\ job[h].loan \in Loans
    BY JobFacts DEF PayCommit, Paying
  <2>2. CASE l # job[h].loan
    BY <1>t, <2>2 DEF PayCommit
  <2>3. CASE l = job[h].loan
    <3>1. \/ instStatus'[l][n] = instStatus[l][n] \/ instStatus'[l][n] = "paid"
          \/ n = job[h].next /\ instStatus'[l][n] = "due"
      BY <1>t, <2>3 DEF PayCommit
    <3>2. n = job[h].next => instStatus[l][n] \in {"scheduled", "due"}
      BY <2>1, <2>3, NumbersFacts DEF RInv, NextInv, NextIsOpen
    <3> QED BY <3>1, <3>2
  <2> QED BY <2>2, <2>3
<1>4. CASE \E s \in Sweepers : SweepWrite(s)
  <2> PICK s \in Sweepers : SweepWrite(s)
    BY <1>4
  <2>1. \/ instStatus'[l][n] = instStatus[l][n]
        \/ instStatus[l][n] = "scheduled"
        \/ instStatus'[l][n] = "overdue" /\ instStatus[l][n] \in {"due", "overdue"}
    BY DEF SweepWrite, ReachedBy, MissedBy
  <2> QED BY <2>1
<1>5. CASE \E h \in Handlers : \/ PayCount(h) \/ PayAdvance(h) \/ FailPayment(h)
                               \/ \E k \in Loans : SettleLock(h, k) \/ \E x \in Numbers(k) : PayLock(h, k, x)
  BY <1>1, <1>5 DEF PayCount, PayAdvance, FailPayment, SettleLock, PayLock, ledger
<1>6. CASE NextDay \/ \E s \in Sweepers : SweepStart(s) \/ SweepRead(s) \/ FailSweep(s)
  BY <1>1, <1>6 DEF NextDay, SweepStart, SweepRead, FailSweep, ledger
<1>7. CASE UNCHANGED vars
  BY <1>1, <1>7 DEF vars, ledger
<1> QED BY <1>2, <1>3, <1>4, <1>5, <1>6, <1>7 DEF Next, PayStep, SweepStep

\* A sweep that chose an installment before it was paid, and a payment that meant to
\* make one due that a sweep has found late meanwhile, do not undo each other's work.
THEOREM LateUntilPaid == Spec => OverdueUntilPaid
<1>1. RInv /\ [Next]_vars =>
        \A l \in Loans : \A n \in Numbers(l) :
          instStatus[l][n] = "overdue" => instStatus'[l][n] \in {"overdue", "paid"}
  BY Forward DEF StatusesGoForward
<1> QED BY <1>1, Invariant, PTL DEF Spec, OverdueUntilPaid

\* What was paid stays paid, a settled loan settled, and the ledger only grows.
LEMMA LedgerGrows ==
  ASSUME RInv, RInv', [Next]_vars
  PROVE  /\ repayments \subseteq repayments'
         /\ distributions \subseteq distributions'
         /\ \A l \in Loans : /\ \A n \in Numbers(l) : instStatus[l][n] = "paid" => instStatus'[l][n] = "paid"
                             /\ loanStatus[l] = "settled" => loanStatus'[l] = "settled"
<1>1. repayments \subseteq repayments' /\ distributions \subseteq distributions'
  <2>1. CASE UNCHANGED <<repayments, distributions>>
    BY <2>1
  <2>2. CASE \E h \in Handlers : PayCommit(h) \/ SettleCommit(h)
    BY <2>2 DEF PayCommit, SettleCommit, Record, Distribute
  <2>3. CASE \E h \in Handlers : \/ PayCount(h) \/ PayAdvance(h) \/ FailPayment(h)
                                 \/ \E k \in Loans : SettleLock(h, k) \/ \E x \in Numbers(k) : PayLock(h, k, x)
    BY <2>1, <2>3 DEF PayCount, PayAdvance, FailPayment, SettleLock, PayLock, ledger
  <2>4. CASE NextDay \/ \E s \in Sweepers : SweepStart(s) \/ SweepRead(s) \/ FailSweep(s) \/ SweepWrite(s)
    BY <2>1, <2>4 DEF NextDay, SweepStart, SweepRead, FailSweep, SweepWrite, ledger
  <2>5. CASE UNCHANGED vars
    BY <2>1, <2>5 DEF vars, ledger
  <2> QED BY <2>2, <2>3, <2>4, <2>5 DEF Next, PayStep, SweepStep
<1>2. ASSUME NEW l \in Loans
      PROVE  /\ \A n \in Numbers(l) : instStatus[l][n] = "paid" => instStatus'[l][n] = "paid"
             /\ loanStatus[l] = "settled" => loanStatus'[l] = "settled"
  <2>1. \A n \in Numbers(l) : instStatus[l][n] = "paid" => instStatus'[l][n] = "paid"
    BY Forward DEF StatusesGoForward
  <2>2. (loanStatus[l] = "settled" => Unpaid(l) = {}) /\ (Unpaid(l)' = {} => loanStatus'[l] = "settled")
    BY DEF RInv, ProgressInv, ProgressIsRight
  <2>3. Unpaid(l) = {} => Unpaid(l)' = {}
    <3>1. \A n \in Numbers(l) : instStatus[l][n] \in InstallmentStatuses
      BY DEF RInv, Typed
    <3> QED BY <2>1, <3>1 DEF Unpaid, With
  <2> QED BY <2>1, <2>2, <2>3
<1> QED BY <1>1, <1>2

THEOREM PaidForGood == Spec => PaidIsFinal
<1>1. RInv /\ RInv' /\ [Next]_vars =>
        /\ repayments \subseteq repayments'
        /\ distributions \subseteq distributions'
        /\ \A l \in Loans : /\ \A n \in Numbers(l) : instStatus[l][n] = "paid" => instStatus'[l][n] = "paid"
                            /\ loanStatus[l] = "settled" => loanStatus'[l] = "settled"
  BY LedgerGrows
<1> QED BY <1>1, Invariant, PTL DEF Spec, PaidIsFinal

-----------------------------------------------------------------------------
(* The ledger *)

RepaymentRows == [loan : Loans, no : Nat, principal : Nat, interest : Nat]
DistributionRows == [loan : Loans, no : Nat, lot : Nat, principal : Nat, interest : Nat]
IsPayment(l, n) == l \in Loans /\ (n = 0 \/ n \in Numbers(l))

\* An installment has one row at the most, a loan one prepayment, and what was
\* distributed was paid.
RowsOk ==
  /\ IsFiniteSet(repayments) /\ repayments \subseteq RepaymentRows
  /\ \A q, r \in repayments : q.loan = r.loan /\ q.no = r.no => q = r
  /\ \A r \in repayments : IsPayment(r.loan, r.no)
  /\ IsFiniteSet(distributions) /\ distributions \subseteq DistributionRows
  /\ \A d \in distributions : d.lot \in LotsOf(d.loan) /\ IsRecorded(d.loan, d.no)

LoanTotals(l) == returned[l] \in [LotsOf(l) -> Nat] /\ earned[l] \in [LotsOf(l) -> Nat]
TotalsOk == DOMAIN returned = Loans /\ DOMAIN earned = Loans /\ \A l \in Loans : LoanTotals(l)

\* All that came in for a loan with lenders is with them.
HandedOut(l) ==
  Lots[l] # << >> => SumFunctionOnSet(returned[l], LotsOf(l)) = Principals(RepaymentsOf(l))

\* What has a row of its own is paid.
PaidOnRecord ==
  \A l \in Loans : /\ \A n \in Numbers(l) : IsRecorded(l, n) => n \notin Unpaid(l)
                   /\ IsRecorded(l, 0) => Unpaid(l) = {}

\* A settlement still pays what is left: the lock on the loan keeps it so.
Settling ==
  \A h \in Handlers : \A l \in Loans : job[h].pc = "settle" /\ job[h].loan = l =>
    job[h].principal = PrincipalOf(l, Unpaid(l)) /\ job[h].principal > 0

LedgerInv == /\ RowsOk /\ TotalsOk /\ MoneyReachesLenders /\ \A l \in Loans : HandedOut(l)
             /\ PaidOnRecord /\ Settling /\ PrincipalIsPaidOnce

-----------------------------------------------------------------------------
(* Sums over rows *)

LEMMA SumsOfRows ==
  ASSUME NEW S, IsFiniteSet(S), \A r \in S : r.principal \in Nat /\ r.interest \in Nat
  PROVE  Principals(S) \in Nat /\ Interests(S) \in Nat
<1>1. Principals(S) \in Nat
  BY SumNat DEF Principals
<1>2. Interests(S) \in Nat
  BY SumNat DEF Interests
<1> QED BY <1>1, <1>2

LEMMA NoRows == Principals({}) = 0 /\ Interests({}) = 0
  BY SumEmpty DEF Principals, Interests

LEMMA PaidTyped ==
  ASSUME LedgerInv, NEW l \in Loans
  PROVE  Principals(RepaymentsOf(l)) \in Nat /\ IsFiniteSet(RepaymentsOf(l))
<1>1. RepaymentsOf(l) \subseteq repayments
  BY DEF RepaymentsOf
<1>2. IsFiniteSet(RepaymentsOf(l)) /\ \A r \in repayments : r.principal \in Nat /\ r.interest \in Nat
  BY <1>1, FS_Subset DEF LedgerInv, RowsOk, RepaymentRows
<1> QED BY <1>1, <1>2, SumsOfRows

LEMMA OneMoreRow ==
  ASSUME NEW S, IsFiniteSet(S), NEW e, e \notin S,
         \A r \in S \cup {e} : r.principal \in Int /\ r.interest \in Int
  PROVE  /\ Principals(S \cup {e}) = e.principal + Principals(S)
         /\ Interests(S \cup {e}) = e.interest + Interests(S)
<1> DEFINE T == S \cup {e}
           f == [r \in T |-> r.principal]
           g == [r \in T |-> r.interest]
           fs == [r \in S |-> r.principal]
           gs == [r \in S |-> r.interest]
<1>0. e \in T /\ S \subseteq T
  OBVIOUS
<1>1. (\A x \in T : f[x] \in Int /\ g[x] \in Int) /\ f[e] = e.principal /\ g[e] = e.interest
  BY <1>0
<1>2. \A x \in S : f[x] = fs[x] /\ g[x] = gs[x]
  BY <1>0
<1>3. Principals(T) = SumFunctionOnSet(f, T) /\ Principals(S) = SumFunctionOnSet(fs, S)
  BY DEF Principals
<1>4. Interests(T) = SumFunctionOnSet(g, T) /\ Interests(S) = SumFunctionOnSet(gs, S)
  BY DEF Interests
<1> HIDE DEF f, g, fs, gs
<1>5. SumFunctionOnSet(f, T) = f[e] + SumFunctionOnSet(f, S)
  BY <1>1, SumAdd
<1>6. SumFunctionOnSet(g, T) = g[e] + SumFunctionOnSet(g, S)
  BY <1>1, SumAdd
<1>7. SumFunctionOnSet(f, S) = SumFunctionOnSet(fs, S)
  BY <1>2, SumSame
<1>8. SumFunctionOnSet(g, S) = SumFunctionOnSet(gs, S)
  BY <1>2, SumSame
<1> QED BY <1>1, <1>3, <1>4, <1>5, <1>6, <1>7, <1>8

\* Rows made one for each i: their columns add up to what was put into them.
LEMMA SumsOfNewRows ==
  ASSUME NEW E, IsFiniteSet(E), NEW row, NEW R, R = {row[i] : i \in E},
         \A i \in E : row[i].lot = i /\ row[i].principal \in Int /\ row[i].interest \in Int
  PROVE  /\ Principals(R) = SumFunctionOnSet([i \in E |-> row[i].principal], E)
         /\ Interests(R) = SumFunctionOnSet([i \in E |-> row[i].interest], E)
<1> DEFINE f == [r \in R |-> r.principal]
           g == [r \in R |-> r.interest]
           fs == [i \in E |-> f[row[i]]]
           gs == [i \in E |-> g[row[i]]]
<1>1. \A i \in E : f[row[i]] = row[i].principal /\ g[row[i]] = row[i].interest
  OBVIOUS
<1>2. \A i, j \in E : row[i] = row[j] => i = j
  OBVIOUS
<1>3. Principals(R) = SumFunctionOnSet(f, R) /\ Interests(R) = SumFunctionOnSet(g, R)
  BY DEF Principals, Interests
<1>4. fs = [i \in E |-> row[i].principal] /\ gs = [i \in E |-> row[i].interest]
  BY <1>1
<1> HIDE DEF f, g
<1>5. (\A i \in E : f[row[i]] \in Int) /\ \A i \in E : g[row[i]] \in Int
  BY <1>1
<1>6. SumFunctionOnSet(f, R) = SumFunctionOnSet(fs, E)
  BY <1>2, <1>5, SumRenamed
<1>7. SumFunctionOnSet(g, R) = SumFunctionOnSet(gs, E)
  BY <1>2, <1>5, SumRenamed
<1> HIDE DEF fs, gs
<1> QED BY <1>3, <1>4, <1>6, <1>7

\* What a loan's lenders get of a payment: all of it, if there are lenders.
LEMMA Parts ==
  ASSUME NEW l \in Loans, NEW total \in Nat
  PROVE  LET p == Allocate(Lots[l], total)
         IN  /\ p \in [LotsOf(l) -> Nat]
             /\ Lots[l] # << >> => SumFunctionOnSet(p, LotsOf(l)) = total
             /\ \A i \in LotsOf(l) :
                  /\ Total(Lots[l]) * p[i] <= Lots[l][i] * total + Total(Lots[l])
                  /\ Lots[l][i] * total <= Total(Lots[l]) * p[i] + Total(Lots[l])
<1> DEFINE p == Allocate(Lots[l], total)
           whole == Total(Lots[l])
<1>1. Lots[l] \in Seq(Nat \ {0})
  BY LoansAssumption
<1>2. CASE Lots[l] # << >>
  <2>1. /\ p \in [DOMAIN Lots[l] -> Nat]
        /\ SumFunctionOnSet(p, DOMAIN Lots[l]) = total
        /\ \A i \in DOMAIN Lots[l] : /\ whole * p[i] <= Lots[l][i] * total + whole
                                     /\ Lots[l][i] * total < whole * p[i] + whole
    BY <1>1, <1>2, AllocateAddsUp
  <2>2. whole \in Nat
    BY <1>1, <1>2, TotalIsPositive
  <2>3. ASSUME NEW i \in DOMAIN Lots[l] PROVE Lots[l][i] * total <= whole * p[i] + whole
    <3>1. p[i] \in Nat /\ Lots[l][i] \in Nat
      BY <1>1, <2>1
    <3> HIDE DEF p, whole
    <3>2. whole * p[i] \in Nat /\ Lots[l][i] * total \in Nat
      BY <2>2, <3>1
    <3> QED BY <2>1, <2>2, <3>2
  <2> QED BY <2>1, <2>3 DEF LotsOf
<1>3. CASE Lots[l] = << >>
  <2>1. LotsOf(l) = {}
    BY <1>3 DEF LotsOf
  <2>2. p \in [LotsOf(l) -> Nat]
    <3>2. \E a, b : p = [i \in LotsOf(l) |-> a] \/ p = [i \in LotsOf(l) |-> b]
      BY <2>1 DEF Allocate, LotsOf
    <3> QED BY <2>1, <3>2
  <2> QED BY <1>3, <2>1, <2>2
<1> QED BY <1>2, <1>3

-----------------------------------------------------------------------------
(* A payment is recorded *)

LEMMA LotsFacts ==
  ASSUME NEW l \in Loans
  PROVE  /\ IsFiniteSet(LotsOf(l)) /\ LotsOf(l) \subseteq Nat
         /\ (LotsOf(l) = {} <=> Lots[l] = << >>)
         /\ Total(Lots[l]) \in Nat /\ \A i \in LotsOf(l) : Lots[l][i] \in Nat
<1>1. Lots[l] \in Seq(Nat \ {0})
  BY LoansAssumption
<1>2. LotsOf(l) = 1..Len(Lots[l]) /\ Len(Lots[l]) \in Nat /\ \A i \in LotsOf(l) : Lots[l][i] \in Nat
  BY <1>1 DEF LotsOf
<1>3. IsFiniteSet(LotsOf(l))
  BY <1>2, FS_Interval
<1>4. Total(Lots[l]) \in Nat
  BY <1>2, <1>3, SumNat DEF Total, LotsOf
<1> QED BY <1>1, <1>2, <1>3, <1>4

\* The step from a payment's share of a lender to all payments' share.
LEMMA OneMoreShare ==
  ASSUME NEW whole \in Nat, NEW lot \in Nat, NEW had \in Nat, NEW part \in Nat,
         NEW paid \in Nat, NEW amount \in Nat, NEW count \in Nat,
         whole * had \in (lot * paid - whole * count)..(lot * paid + whole * count),
         whole * part <= lot * amount + whole, lot * amount <= whole * part + whole
  PROVE  whole * (had + part) \in (lot * (amount + paid) - whole * (count + 1))
                                    ..(lot * (amount + paid) + whole * (count + 1))
<1>1. /\ whole * (had + part) = whole * had + whole * part
      /\ lot * (amount + paid) = lot * amount + lot * paid
      /\ whole * (count + 1) = whole * count + whole
  OBVIOUS
<1>2. /\ whole * had \in Nat /\ whole * part \in Nat /\ whole * count \in Nat
      /\ lot * amount \in Nat /\ lot * paid \in Nat
  OBVIOUS
<1> QED BY <1>1, <1>2

LEMMA RecordStep ==
  ASSUME LedgerInv, NEW l \in Loans, NEW n, IsPayment(l, n), ~ IsRecorded(l, n),
         NEW principal \in Nat, NEW interest \in Nat, Record(l, n, principal, interest)
  PROVE  /\ RowsOk' /\ TotalsOk' /\ MoneyReachesLenders' /\ \A k \in Loans : HandedOut(k)'
         /\ \A k, m : IsRecorded(k, m)' <=> IsRecorded(k, m) \/ (k = l /\ m = n)
         /\ \A k \in Loans : Principals(RepaymentsOf(k))'
                               = (IF k = l THEN principal ELSE 0) + Principals(RepaymentsOf(k))
<1> DEFINE p == Allocate(Lots[l], principal)
           x == Allocate(Lots[l], interest)
           D == LotsOf(l)
           E == {i \in D : p[i] # 0 \/ x[i] # 0}
           e == [loan |-> l, no |-> n, principal |-> principal, interest |-> interest]
           row == [i \in D |-> [loan |-> l, no |-> n, lot |-> i, principal |-> p[i], interest |-> x[i]]]
           new == {row[i] : i \in E}
<1>0. RowsOk /\ TotalsOk /\ MoneyReachesLenders /\ \A k \in Loans : HandedOut(k)
  BY DEF LedgerInv
<1>1. /\ p \in [D -> Nat] /\ x \in [D -> Nat]
      /\ Lots[l] # << >> => SumFunctionOnSet(p, D) = principal /\ SumFunctionOnSet(x, D) = interest
      /\ \A i \in D : /\ Total(Lots[l]) * p[i] <= Lots[l][i] * principal + Total(Lots[l])
                      /\ Lots[l][i] * principal <= Total(Lots[l]) * p[i] + Total(Lots[l])
  BY Parts
<1>2. /\ IsFiniteSet(D) /\ D \subseteq Nat /\ (D = {} <=> Lots[l] = << >>)
      /\ IsFiniteSet(E) /\ E \subseteq D
  BY LotsFacts, FS_Subset
<1>3. repayments' = repayments \cup {e}
  BY DEF Record
<1>4. distributions' = distributions \cup new
  <2>1. distributions' = distributions \cup
          {[loan |-> l, no |-> n, lot |-> i, principal |-> p[i], interest |-> x[i]] : i \in E}
    BY DEF Record, Distribute
  <2>2. \A i \in E : row[i] = [loan |-> l, no |-> n, lot |-> i, principal |-> p[i], interest |-> x[i]]
    OBVIOUS
  <2> QED BY <2>1, <2>2
<1>5. /\ DOMAIN returned' = Loans /\ DOMAIN earned' = Loans
      /\ returned'[l] = [i \in D |-> returned[l][i] + p[i]]
      /\ earned'[l] = [i \in D |-> earned[l][i] + x[i]]
      /\ \A k \in Loans \ {l} : returned'[k] = returned[k] /\ earned'[k] = earned[k]
  BY <1>0 DEF Record, Distribute, TotalsOk
<1>6. \A i \in D : /\ row[i].loan = l /\ row[i].no = n /\ row[i].lot = i
                   /\ row[i].principal = p[i] /\ row[i].interest = x[i]
                   /\ p[i] \in Nat /\ x[i] \in Nat
  BY <1>1
<1>7. /\ n \in Nat /\ e \in RepaymentRows
      /\ e.loan = l /\ e.no = n /\ e.principal = principal /\ e.interest = interest
  BY NumbersFacts DEF IsPayment, RepaymentRows
<1>8. \A i \in D : row[i] \in DistributionRows
  BY <1>1, <1>2, <1>7 DEF DistributionRows
<1> HIDE DEF p, x, E, e, row
<1>9. \A k, m : IsRecorded(k, m)' <=> IsRecorded(k, m) \/ (k = l /\ m = n)
  BY <1>3, <1>7 DEF IsRecorded
<1>10. \A r \in repayments : r.loan # l \/ r.no # n
  BY DEF IsRecorded
<1>11. \A d \in distributions : d.loan # l \/ d.no # n
  BY <1>0 DEF RowsOk
<1>12. RowsOk'
  <2>1. IsFiniteSet(repayments') /\ IsFiniteSet(distributions')
    <3>1. [i \in E |-> row[i]] \in Surjection(E, new)
      BY DEF Surjection
    <3>2. IsFiniteSet(new)
      BY <1>2, <3>1, FS_Surjection
    <3> QED BY <1>0, <1>3, <1>4, <3>2, FS_AddElement, FS_Union DEF RowsOk
  <2>2. repayments' \subseteq RepaymentRows /\ distributions' \subseteq DistributionRows
    BY <1>0, <1>2, <1>3, <1>4, <1>7, <1>8 DEF RowsOk
  <2>3. \A q, r \in repayments' : q.loan = r.loan /\ q.no = r.no => q = r
    BY <1>0, <1>3, <1>7, <1>10 DEF RowsOk
  <2>4. \A r \in repayments' : IsPayment(r.loan, r.no)
    BY <1>0, <1>3, <1>7 DEF RowsOk, IsPayment
  <2>5. \A d \in distributions' : d.lot \in LotsOf(d.loan) /\ IsRecorded(d.loan, d.no)'
    BY <1>0, <1>2, <1>4, <1>6, <1>9 DEF RowsOk
  <2> QED BY <2>1, <2>2, <2>3, <2>4, <2>5 DEF RowsOk, IsPayment
<1>13. TotalsOk'
  <2>1. \A k \in Loans : returned'[k] \in [LotsOf(k) -> Nat] /\ earned'[k] \in [LotsOf(k) -> Nat]
    BY <1>0, <1>5, <1>6 DEF TotalsOk, LoanTotals
  <2> QED BY <1>5, <2>1 DEF TotalsOk, LoanTotals
<1>14. \A r \in repayments : r.principal \in Nat /\ r.interest \in Nat
  BY <1>0 DEF RowsOk, RepaymentRows
<1>15. \A d \in distributions : d.principal \in Nat /\ d.interest \in Nat
  BY <1>0 DEF RowsOk, DistributionRows
\* What the loan was paid.
<1>16. ASSUME NEW k \in Loans
       PROVE  /\ RepaymentsOf(k)' = RepaymentsOf(k) \cup (IF k = l THEN {e} ELSE {})
              /\ IsFiniteSet(RepaymentsOf(k)) /\ RepaymentsOf(k) \subseteq repayments
              /\ e \notin RepaymentsOf(k)
  <2>1. RepaymentsOf(k) \subseteq repayments /\ e \notin RepaymentsOf(k)
    BY <1>7, <1>10 DEF RepaymentsOf
  <2> QED BY <1>0, <1>3, <1>7, <2>1, FS_Subset DEF RepaymentsOf, RowsOk
<1>17. ASSUME NEW k \in Loans
       PROVE  /\ Principals(RepaymentsOf(k))' = (IF k = l THEN principal ELSE 0) + Principals(RepaymentsOf(k))
              /\ Cardinality(RepaymentsOf(k))' = (IF k = l THEN 1 ELSE 0) + Cardinality(RepaymentsOf(k))
              /\ Principals(RepaymentsOf(k)) \in Nat /\ Cardinality(RepaymentsOf(k)) \in Nat
  <2>1. Principals(RepaymentsOf(k)) \in Nat /\ Cardinality(RepaymentsOf(k)) \in Nat
    BY <1>14, <1>16, SumsOfRows, FS_CardinalityType
  <2>2. CASE k = l
    <3> DEFINE S == RepaymentsOf(l)
    <3>1. Principals(S \cup {e}) = principal + Principals(S)
      BY <1>7, <1>14, <1>16, OneMoreRow
    <3>2. Cardinality(S \cup {e}) = 1 + Cardinality(S)
      <4>1. IsFiniteSet(S) /\ e \notin S /\ Cardinality(S) \in Nat
        BY <1>16, <2>1, <2>2
      <4> HIDE DEF S
      <4> QED BY <4>1, FS_AddElement
    <3> QED BY <1>16, <2>1, <2>2, <3>1, <3>2 DEF Principals
  <2>3. CASE k # l
    BY <1>16, <2>1, <2>3 DEF Principals
  <2> QED BY <2>1, <2>2, <2>3
\* What its lenders got of this payment.
<1>18. Principals(new) = SumFunctionOnSet(p, D) /\ Interests(new) = SumFunctionOnSet(x, D)
  <2> DEFINE ps == [i \in E |-> row[i].principal]
             xs == [i \in E |-> row[i].interest]
  <2>1. \A i \in E : row[i].lot = i /\ row[i].principal \in Int /\ row[i].interest \in Int
    BY <1>2, <1>6
  <2>2. PICK R : R = {row[i] : i \in E}
    OBVIOUS
  <2>3. Principals(R) = SumFunctionOnSet(ps, E) /\ Interests(R) = SumFunctionOnSet(xs, E)
    BY <1>2, <2>1, <2>2, SumsOfNewRows
  <2>4. \A i \in E : ps[i] = p[i] /\ xs[i] = x[i]
    BY <1>2, <1>6
  <2> HIDE DEF ps, xs
  <2>5. SumFunctionOnSet(ps, E) = SumFunctionOnSet(p, E)
    BY <1>2, <2>4, SumSame
  <2>6. SumFunctionOnSet(xs, E) = SumFunctionOnSet(x, E)
    BY <1>2, <2>4, SumSame
  <2>7. \A i \in D \ E : p[i] = 0 /\ x[i] = 0
    BY DEF E
  <2>8. SumFunctionOnSet(p, D) = SumFunctionOnSet(p, E)
    BY <1>2, <1>6, <2>7, SumSupport
  <2>9. SumFunctionOnSet(x, D) = SumFunctionOnSet(x, E)
    BY <1>2, <1>6, <2>7, SumSupport
  <2> QED BY <2>2, <2>3, <2>5, <2>6, <2>8, <2>9
<1>19. PaymentsReachLenders'
  <2> SUFFICES ASSUME NEW r \in repayments'
               PROVE  IF Lots[r.loan] = << >>
                      THEN DistributedFor(r)' = {}
                      ELSE /\ Principals(DistributedFor(r)') = r.principal
                           /\ Interests(DistributedFor(r)') = r.interest
    BY DEF PaymentsReachLenders, DistributedFor, Principals, Interests
  <2>1. CASE r \in repayments
    <3>1. DistributedFor(r)' = DistributedFor(r)
      BY <1>2, <1>4, <1>6, <1>10, <2>1 DEF DistributedFor
    <3> QED BY <1>0, <2>1, <3>1 DEF MoneyReachesLenders, PaymentsReachLenders
  <2>2. CASE r = e
    <3>1. DistributedFor(r)' = new
      BY <1>2, <1>4, <1>6, <1>7, <1>11, <2>2 DEF DistributedFor
    <3>2. CASE Lots[l] = << >>
      BY <1>2, <1>7, <2>2, <3>1, <3>2
    <3>3. CASE Lots[l] # << >>
      BY <1>1, <1>7, <1>18, <2>2, <3>1, <3>3
    <3> QED BY <3>2, <3>3
  <2> QED BY <1>3, <2>1, <2>2
<1>20. TotalsMatchRows'
  <2> SUFFICES ASSUME NEW k \in Loans, NEW i \in LotsOf(k)
               PROVE  /\ returned'[k][i] = Principals(DistributedTo(k, i)')
                      /\ earned'[k][i] = Interests(DistributedTo(k, i)')
    BY DEF TotalsMatchRows, DistributedTo, Principals, Interests
  <2>1. /\ returned[k][i] = Principals(DistributedTo(k, i))
        /\ earned[k][i] = Interests(DistributedTo(k, i))
    BY <1>0 DEF MoneyReachesLenders, TotalsMatchRows
  <2>2. CASE k # l
    <3>1. DistributedTo(k, i)' = DistributedTo(k, i)
      BY <1>2, <1>4, <1>6, <2>2 DEF DistributedTo
    <3> QED BY <1>5, <2>1, <2>2, <3>1
  <2>3. CASE k = l /\ i \notin E
    <3>1. DistributedTo(k, i)' = DistributedTo(k, i)
      BY <1>2, <1>4, <1>6, <2>3 DEF DistributedTo
    <3>2. p[i] = 0 /\ x[i] = 0
      BY <2>3 DEF E
    <3>3. returned[l][i] \in Nat /\ earned[l][i] \in Nat
      BY <1>0, <2>3 DEF TotalsOk, LoanTotals
    <3> QED BY <1>5, <2>1, <2>3, <3>1, <3>2, <3>3
  <2>4. CASE k = l /\ i \in E
    <3> DEFINE S == DistributedTo(l, i)
               d == row[i]
    <3>1. DistributedTo(k, i)' = S \cup {d}
      BY <1>2, <1>4, <1>6, <2>4 DEF DistributedTo
    <3>2. S \subseteq distributions /\ d \notin S /\ IsFiniteSet(S)
      <4>1. S \subseteq distributions
        BY DEF DistributedTo
      <4>2. d \notin distributions
        BY <1>2, <1>6, <1>11, <2>4
      <4> QED BY <1>0, <4>1, <4>2, FS_Subset DEF RowsOk
    <3>3. d.principal = p[i] /\ d.interest = x[i] /\ p[i] \in Nat /\ x[i] \in Nat
      BY <1>2, <1>6, <2>4
    <3> HIDE DEF S, d
    <3>4. \A r \in S \cup {d} : r.principal \in Int /\ r.interest \in Int
      BY <1>15, <3>2, <3>3
    <3>5. /\ Principals(S \cup {d}) = p[i] + Principals(S)
          /\ Interests(S \cup {d}) = x[i] + Interests(S)
      BY <3>2, <3>3, <3>4, OneMoreRow
    <3>6. Principals(S) \in Nat /\ Interests(S) \in Nat
      BY <1>15, <3>2, SumsOfRows
    <3>7. returned[l][i] = Principals(S) /\ earned[l][i] = Interests(S)
      BY <2>1, <2>4 DEF S
    <3> QED BY <1>2, <1>5, <2>4, <3>1, <3>3, <3>5, <3>6, <3>7
  <2> QED BY <2>2, <2>3, <2>4
<1>21. SharesAreFair'
  <2> SUFFICES ASSUME NEW k \in Loans, NEW i \in LotsOf(k)
               PROVE  LET whole == Total(Lots[k])
                          share == Lots[k][i] * Principals(RepaymentsOf(k))'
                          slack == whole * Cardinality(RepaymentsOf(k))'
                      IN  whole * returned'[k][i] \in (share - slack)..(share + slack)
    BY DEF SharesAreFair
  <2>1. LET whole == Total(Lots[k])
            share == Lots[k][i] * Principals(RepaymentsOf(k))
            slack == whole * Cardinality(RepaymentsOf(k))
        IN  whole * returned[k][i] \in (share - slack)..(share + slack)
    BY <1>0 DEF MoneyReachesLenders, SharesAreFair
  <2>2. CASE k # l
    BY <1>5, <1>17, <2>1, <2>2
  <2>3. CASE k = l
    <3>1. PICK whole \in Nat : whole = Total(Lots[l])
      BY LotsFacts
    <3>2. PICK lot \in Nat : lot = Lots[l][i]
      BY <2>3, LotsFacts
    <3>3. PICK had \in Nat : had = returned[l][i]
      BY <1>0, <2>3 DEF TotalsOk, LoanTotals
    <3>4. PICK part \in Nat : part = p[i]
      BY <1>6, <2>3
    <3>5. PICK paid \in Nat : paid = Principals(RepaymentsOf(l))
      BY <1>17
    <3>6. PICK count \in Nat : count = Cardinality(RepaymentsOf(l))
      BY <1>17
    <3>7. whole * had \in (lot * paid - whole * count)..(lot * paid + whole * count)
      BY <2>1, <2>3, <3>1, <3>2, <3>3, <3>5, <3>6
    <3>8. whole * part <= lot * principal + whole /\ lot * principal <= whole * part + whole
      BY <1>1, <2>3, <3>1, <3>2, <3>4
    <3>9. whole * (had + part) \in (lot * (principal + paid) - whole * (count + 1))
                                    ..(lot * (principal + paid) + whole * (count + 1))
      BY <3>7, <3>8, OneMoreShare
    <3>10. returned'[k][i] = had + part
      BY <1>5, <2>3, <3>3, <3>4
    <3>11. Principals(RepaymentsOf(k))' = principal + paid /\ Cardinality(RepaymentsOf(k))' = count + 1
      BY <1>17, <2>3, <3>5, <3>6
    <3>12. Total(Lots[k]) = whole /\ Lots[k][i] = lot
      BY <2>3, <3>1, <3>2
    <3> QED BY <3>9, <3>10, <3>11, <3>12
  <2> QED BY <2>2, <2>3
<1>22. \A k \in Loans : HandedOut(k)'
  <2> SUFFICES ASSUME NEW k \in Loans, Lots[k] # << >>
               PROVE  SumFunctionOnSet(returned'[k], LotsOf(k)) = Principals(RepaymentsOf(k))'
    BY DEF HandedOut
  <2>1. SumFunctionOnSet(returned[k], LotsOf(k)) = Principals(RepaymentsOf(k))
    BY <1>0 DEF HandedOut
  <2>2. CASE k # l
    BY <1>5, <1>17, <2>1, <2>2
  <2>3. CASE k = l
    <3> DEFINE f == returned[l]
               h == returned'[l]
    <3>1. \A i \in D : f[i] \in Int /\ p[i] \in Int /\ h[i] = f[i] + p[i]
      BY <1>0, <1>5, <1>6 DEF TotalsOk, LoanTotals
    <3> HIDE DEF f, h
    <3>2. SumFunctionOnSet(h, D) = SumFunctionOnSet(f, D) + SumFunctionOnSet(p, D)
      BY <1>2, <3>1, SumPlus
    <3>3. SumFunctionOnSet(p, D) = principal /\ SumFunctionOnSet(f, D) = Principals(RepaymentsOf(l))
      BY <1>1, <2>1, <2>3 DEF f
    <3>4. h = returned'[l] /\ Principals(RepaymentsOf(l))' = principal + Principals(RepaymentsOf(l))
          /\ Principals(RepaymentsOf(l)) \in Nat
      BY <1>17 DEF h
    <3> QED BY <2>3, <3>2, <3>3, <3>4
  <2> QED BY <2>2, <2>3
<1>23. MoneyReachesLenders'
  BY <1>19, <1>20, <1>21 DEF MoneyReachesLenders
<1> QED BY <1>9, <1>12, <1>13, <1>17, <1>22, <1>23

-----------------------------------------------------------------------------
(* Steps that leave the ledger alone *)

SameLedger == UNCHANGED <<repayments, distributions, returned, earned>>

LEMMA LedgerKept ==
  ASSUME LedgerInv, SameLedger, Settling', \A l \in Loans : Unpaid(l)' = Unpaid(l)
  PROVE  LedgerInv'
<1> USE DEF SameLedger
<1>1. RowsOk' /\ TotalsOk'
  BY DEF LedgerInv, RowsOk, IsPayment, IsRecorded, TotalsOk, LoanTotals
<1>2. MoneyReachesLenders'
  BY DEF LedgerInv, MoneyReachesLenders, PaymentsReachLenders, DistributedFor, TotalsMatchRows,
         DistributedTo, SharesAreFair, RepaymentsOf, Principals, Interests
<1>3. \A l \in Loans : HandedOut(l)'
  BY DEF LedgerInv, HandedOut, RepaymentsOf, Principals
<1>4. PaidOnRecord'
  BY DEF LedgerInv, PaidOnRecord, IsRecorded
<1>5. PrincipalIsPaidOnce'
  <2> SUFFICES ASSUME NEW l \in Loans
               PROVE  PrincipalOf(l, Unpaid(l)') + Principals(RepaymentsOf(l))' = PrincipalOf(l, Numbers(l))
    BY DEF PrincipalIsPaidOnce, PrincipalOf
  <2>1. Principals(RepaymentsOf(l))' = Principals(RepaymentsOf(l))
    BY DEF Principals, RepaymentsOf
  <2> QED BY <2>1 DEF LedgerInv, PrincipalIsPaidOnce
<1> QED BY <1>1, <1>2, <1>3, <1>4, <1>5 DEF LedgerInv

\* A payment request that is settling: it was before, or it is starting now.
LEMMA SettlingKept ==
  ASSUME LedgerInv, \A l \in Loans : Unpaid(l)' = Unpaid(l),
         \A h \in Handlers : \A l \in Loans : job'[h].pc = "settle" /\ job'[h].loan = l =>
           \/ job'[h] = job[h]
           \/ job'[h].principal > 0 /\ job'[h].principal = PrincipalOf(l, Unpaid(l))
  PROVE  Settling'
<1> SUFFICES ASSUME NEW h \in Handlers, NEW l \in Loans, job'[h].pc = "settle", job'[h].loan = l
             PROVE  job'[h].principal = PrincipalOf(l, Unpaid(l)') /\ job'[h].principal > 0
  BY DEF Settling, PrincipalOf
<1> QED BY DEF LedgerInv, Settling

\* Installments that a sweep writes are unpaid before and after.
LEMMA SweepsPayNothing ==
  ASSUME RInv, NEW s \in Sweepers, SweepWrite(s), NEW l \in Loans
  PROVE  Unpaid(l)' = Unpaid(l)
<1>1. \A n \in Numbers(l) : instStatus[l][n] \in InstallmentStatuses
  BY DEF RInv, Typed
<1>2. \A n \in Numbers(l) : \/ instStatus'[l][n] = instStatus[l][n]
                            \/ /\ instStatus'[l][n] \in {"due", "overdue"}
                               /\ instStatus[l][n] \in {"scheduled", "due", "overdue"}
  BY DEF SweepWrite, ReachedBy, MissedBy
<1> QED BY <1>1, <1>2 DEF Unpaid, With, InstallmentStatuses

LEMMA QuietSteps ==
  ASSUME RInv, LedgerInv,
         \/ \E h \in Handlers, l \in Loans : SettleLock(h, l) \/ \E n \in Numbers(l) : PayLock(h, l, n)
         \/ \E h \in Handlers : PayCount(h) \/ PayAdvance(h) \/ FailPayment(h)
         \/ \E s \in Sweepers : SweepStart(s) \/ SweepStep(s) \/ FailSweep(s)
         \/ NextDay \/ UNCHANGED vars
  PROVE  LedgerInv'
<1>d. DOMAIN job = Handlers
  BY DEF RInv, Typed
<1>1. CASE \E h \in Handlers, l \in Loans : SettleLock(h, l)
  <2> PICK h \in Handlers, l \in Loans : SettleLock(h, l)
    BY <1>1
  <2>1. /\ job' = [job EXCEPT ![h] = [pc |-> "settle", loan |-> l, principal |-> PrincipalOf(l, Unpaid(l))]]
        /\ PrincipalOf(l, Unpaid(l)) > 0 /\ SameLedger /\ UNCHANGED instStatus
    BY DEF SettleLock, SameLedger, ledger
  <2>2. \A k \in Loans : Unpaid(k)' = Unpaid(k)
    BY <2>1 DEF Unpaid, With
  <2>3. \A g \in Handlers : \/ job'[g] = job[g]
                            \/ job'[g].loan = l /\ job'[g].principal = PrincipalOf(l, Unpaid(l))
    BY <1>d, <2>1
  <2>4. Settling'
    BY <2>1, <2>2, <2>3, SettlingKept
  <2> QED BY <2>1, <2>2, <2>4, LedgerKept
<1>2. CASE \E h \in Handlers : \/ PayCount(h) \/ PayAdvance(h) \/ FailPayment(h)
                               \/ \E l \in Loans : \E n \in Numbers(l) : PayLock(h, l, n)
  <2> PICK h \in Handlers : \/ PayCount(h) \/ PayAdvance(h) \/ FailPayment(h)
                            \/ \E l \in Loans : \E n \in Numbers(l) : PayLock(h, l, n)
    BY <1>2
  <2>1. SameLedger /\ UNCHANGED instStatus
    BY DEF PayCount, PayAdvance, FailPayment, PayLock, SameLedger, ledger
  <2>2. \A g \in Handlers : job'[g] = job[g] \/ job'[g].pc # "settle"
    BY <1>d, ItsOwnRecord DEF PayCount, PayAdvance, FailPayment, EndJob, PayLock
  <2>3. \A k \in Loans : Unpaid(k)' = Unpaid(k)
    BY <2>1 DEF Unpaid, With
  <2>4. Settling'
    BY <2>2, <2>3, SettlingKept
  <2> QED BY <2>1, <2>3, <2>4, LedgerKept
<1>3. CASE \/ \E s \in Sweepers : SweepStart(s) \/ SweepStep(s) \/ FailSweep(s)
           \/ NextDay \/ UNCHANGED vars
  <2>1. SameLedger /\ UNCHANGED job
    BY <1>3 DEF SweepStart, SweepStep, SweepRead, SweepWrite, FailSweep, NextDay, SameLedger, ledger, vars
  <2>2. \A k \in Loans : Unpaid(k)' = Unpaid(k)
    <3>1. CASE UNCHANGED instStatus
      BY <3>1 DEF Unpaid, With
    <3>2. CASE \E s \in Sweepers : SweepWrite(s)
      BY <3>2, SweepsPayNothing
    <3> QED BY <1>3, <3>1, <3>2 DEF SweepStart, SweepStep, SweepRead, FailSweep, NextDay, ledger, vars
  <2>3. Settling'
    BY <2>1, <2>2, SettlingKept
  <2> QED BY <2>1, <2>2, <2>3, LedgerKept
<1> QED BY <1>1, <1>2, <1>3

-----------------------------------------------------------------------------
(* Payments *)

LEMMA PrincipalFacts ==
  ASSUME NEW l \in Loans, NEW S, S \subseteq Numbers(l)
  PROVE  /\ IsFiniteSet(S) /\ PrincipalOf(l, S) \in Nat /\ PrincipalOf(l, {}) = 0
         /\ \A n \in S : PrincipalOf(l, S) = Schedule[l][n].principal + PrincipalOf(l, S \ {n})
         /\ \A n \in S : Schedule[l][n].principal \in Nat /\ Schedule[l][n].interest \in Nat
<1> DEFINE f == [n \in Numbers(l) |-> Schedule[l][n].principal]
<1>1. \A n \in Numbers(l) : Schedule[l][n].principal \in Nat /\ Schedule[l][n].interest \in Nat
  <2>1. Schedule[l] \in Seq([principal : Nat, interest : Nat])
    BY LoansAssumption
  <2>2. \A R : \A s \in Seq(R) : \A n \in 1..Len(s) : s[n] \in R
    OBVIOUS
  <2>3. \A n \in Numbers(l) : Schedule[l][n] \in [principal : Nat, interest : Nat]
    BY <2>1, <2>2 DEF Numbers
  <2> QED BY <2>3
<1>2. \A n \in S : f[n] \in Nat /\ f[n] \in Int /\ f[n] = Schedule[l][n].principal
  BY <1>1
<1>3. IsFiniteSet(S)
  <2>1. IsFiniteSet(Numbers(l))
    BY NumbersFacts, FS_Interval DEF Numbers
  <2> QED BY <2>1, FS_Subset
<1>4. \A T : PrincipalOf(l, T) = SumFunctionOnSet(f, T)
  BY DEF PrincipalOf
<1> HIDE DEF f
<1>5. SumFunctionOnSet(f, S) \in Nat /\ SumFunctionOnSet(f, {}) = 0
  BY <1>2, <1>3, SumNat, SumEmpty
<1>6. \A n \in S : SumFunctionOnSet(f, S) = f[n] + SumFunctionOnSet(f, S \ {n})
  BY <1>2, <1>3, SumRemove
<1> QED BY <1>1, <1>2, <1>3, <1>4, <1>5, <1>6

\* A payment of part of what is unpaid leaves the rest.
LEMMA PaymentStep ==
  ASSUME RInv, LedgerInv, NEW h \in Handlers, NEW l \in Loans, job[h] # Idle, job[h].loan = l,
         job' = [job EXCEPT ![h] = Idle],
         NEW n, IsPayment(l, n), ~ IsRecorded(l, n),
         NEW principal \in Nat, NEW interest \in Nat, Record(l, n, principal, interest),
         NEW rest \in SUBSET Unpaid(l), Unpaid(l)' = rest, n \notin rest, n = 0 => rest = {},
         PrincipalOf(l, Unpaid(l)) = principal + PrincipalOf(l, rest),
         \A k \in Loans \ {l} : Unpaid(k)' = Unpaid(k)
  PROVE  LedgerInv'
<1>1. /\ RowsOk' /\ TotalsOk' /\ MoneyReachesLenders' /\ \A k \in Loans : HandedOut(k)'
      /\ \A k, m : IsRecorded(k, m)' <=> IsRecorded(k, m) \/ (k = l /\ m = n)
      /\ \A k \in Loans : Principals(RepaymentsOf(k))'
                            = (IF k = l THEN principal ELSE 0) + Principals(RepaymentsOf(k))
  BY RecordStep
<1>2. PaidOnRecord'
  <2> SUFFICES ASSUME NEW k \in Loans
               PROVE  /\ \A m \in Numbers(k) : IsRecorded(k, m)' => m \notin Unpaid(k)'
                      /\ IsRecorded(k, 0)' => Unpaid(k)' = {}
    BY DEF PaidOnRecord
  <2>1. /\ \A m \in Numbers(k) : IsRecorded(k, m) => m \notin Unpaid(k)
        /\ IsRecorded(k, 0) => Unpaid(k) = {}
    BY DEF LedgerInv, PaidOnRecord
  <2>2. CASE k = l
    BY <1>1, <2>1, <2>2
  <2>3. CASE k # l
    BY <1>1, <2>1, <2>3
  <2> QED BY <2>2, <2>3
<1>3. PrincipalIsPaidOnce'
  <2> SUFFICES ASSUME NEW k \in Loans
               PROVE  PrincipalOf(k, Unpaid(k)') + Principals(RepaymentsOf(k))' = PrincipalOf(k, Numbers(k))
    BY DEF PrincipalIsPaidOnce, PrincipalOf
  <2>1. PrincipalOf(k, Unpaid(k)) + Principals(RepaymentsOf(k)) = PrincipalOf(k, Numbers(k))
    BY DEF LedgerInv, PrincipalIsPaidOnce
  <2>2. CASE k # l
    <3>1. Principals(RepaymentsOf(k)) \in Nat
      BY PaidTyped
    <3> QED BY <1>1, <2>1, <2>2, <3>1
  <2>3. CASE k = l
    <3>1. PrincipalOf(l, rest) \in Nat
      BY PrincipalFacts DEF Unpaid, With
    <3>2. Principals(RepaymentsOf(l)) \in Nat
      BY PaidTyped
    <3>3. Principals(RepaymentsOf(l))' = principal + Principals(RepaymentsOf(l))
      BY <1>1
    <3> QED BY <2>1, <2>3, <3>1, <3>2, <3>3
  <2> QED BY <2>2, <2>3
<1>4. Settling'
  <2> SUFFICES ASSUME NEW g \in Handlers, NEW k \in Loans, job'[g].pc = "settle", job'[g].loan = k
               PROVE  job'[g].principal = PrincipalOf(k, Unpaid(k)') /\ job'[g].principal > 0
    BY DEF Settling, PrincipalOf
  <2>1. g # h /\ job'[g] = job[g] /\ job[g] # Idle
    BY ItsOwnRecord DEF RInv, Typed
  <2>2. k # l
    BY <2>1 DEF RInv, JobsInv
  <2> QED BY <2>1, <2>2 DEF LedgerInv, Settling
<1> QED BY <1>1, <1>2, <1>3, <1>4 DEF LedgerInv

LEMMA PayCommitLedger ==
  ASSUME RInv, LedgerInv, NEW h \in Handlers, PayCommit(h)
  PROVE  LedgerInv'
<1>1. PICK l \in Loans : job[h].pc = "advanced" /\ l = job[h].loan /\ job[h] # Idle
  BY ItsOwnRecord, JobFacts DEF PayCommit, Paying
<1>2. PICK n \in Numbers(l) : n = job[h].no /\ instStatus[l][n] \in payableStatuses
  BY <1>1, JobFacts DEF Paying
<1>3. PICK m : m = job[h].next
  OBVIOUS
<1> DEFINE settled == Unpaid(l) = {n}
           status == [x \in Numbers(l) |-> CASE x = n -> "paid"
                                             [] x = m /\ ~ settled -> "due"
                                             [] OTHER -> instStatus[l][x]]
<1>4. /\ instStatus' = [instStatus EXCEPT ![l] = status]
      /\ job' = [job EXCEPT ![h] = Idle]
      /\ Record(l, n, Schedule[l][n].principal, Schedule[l][n].interest)
  BY <1>1, <1>2, <1>3 DEF PayCommit, EndJob
<1>5. DOMAIN instStatus = Loans /\ instStatus[l] \in [Numbers(l) -> InstallmentStatuses]
  BY DEF RInv, Typed
<1>6. m = 0 \/ (m \in Numbers(l) /\ n < m /\ instStatus[l][m] \in {"scheduled", "due"})
  BY <1>1, <1>2, <1>3 DEF RInv, NextInv, NextIsOpen
<1>7. \A x \in Numbers(l) : /\ x = n => instStatus'[l][x] = "paid"
                            /\ x # n => \/ instStatus'[l][x] = instStatus[l][x]
                                        \/ instStatus'[l][x] = "due" /\ instStatus[l][x] # "paid"
  BY <1>4, <1>5, <1>6, NumbersFacts
<1>8. Unpaid(l)' = Unpaid(l) \ {n} /\ n \in Unpaid(l)
  BY <1>2, <1>5, <1>7 DEF Unpaid, With, InstallmentStatuses, payableStatuses
<1>9. \A k \in Loans \ {l} : Unpaid(k)' = Unpaid(k)
  BY <1>4, <1>5 DEF Unpaid, With
<1>10. IsPayment(l, n) /\ ~ IsRecorded(l, n) /\ n # 0
  BY <1>8, NumbersFacts DEF IsPayment, LedgerInv, PaidOnRecord
<1>11. /\ Schedule[l][n].principal \in Nat /\ Schedule[l][n].interest \in Nat
       /\ PrincipalOf(l, Unpaid(l)) = Schedule[l][n].principal + PrincipalOf(l, Unpaid(l) \ {n})
  <2>1. Unpaid(l) \subseteq Numbers(l)
    BY DEF Unpaid, With
  <2> QED BY <1>8, <2>1, PrincipalFacts
<1>12. PICK rest \in SUBSET Unpaid(l) : rest = Unpaid(l) \ {n}
  OBVIOUS
<1>13. PICK principal \in Nat, interest \in Nat :
         principal = Schedule[l][n].principal /\ interest = Schedule[l][n].interest
  BY <1>11
<1>14. Record(l, n, principal, interest) /\ PrincipalOf(l, Unpaid(l)) = principal + PrincipalOf(l, rest)
  BY <1>4, <1>11, <1>12, <1>13
<1>15. Unpaid(l)' = rest /\ n \notin rest
  BY <1>8, <1>12
<1> QED BY <1>1, <1>4, <1>9, <1>10, <1>14, <1>15, PaymentStep

LEMMA SettleCommitLedger ==
  ASSUME RInv, LedgerInv, NEW h \in Handlers, SettleCommit(h)
  PROVE  LedgerInv'
<1>1. PICK l \in Loans : job[h].pc = "settle" /\ l = job[h].loan /\ job[h] # Idle
  BY ItsOwnRecord DEF SettleCommit, RInv, JobsInv, JobOk, Paying
<1>2. /\ instStatus' = [instStatus EXCEPT ![l] = [n \in Numbers(l) |-> "paid"]]
      /\ job' = [job EXCEPT ![h] = Idle]
      /\ Record(l, 0, PrincipalOf(l, Unpaid(l)), 0)
      /\ PrincipalOf(l, Unpaid(l)) > 0
  BY <1>1 DEF SettleCommit, EndJob, LedgerInv, Settling
<1>3. DOMAIN instStatus = Loans
  BY DEF RInv, Typed
<1>4. Unpaid(l)' = {} /\ \A k \in Loans \ {l} : Unpaid(k)' = Unpaid(k)
  BY <1>2, <1>3 DEF Unpaid, With
<1>5. PrincipalOf(l, Unpaid(l)) \in Nat /\ PrincipalOf(l, {}) = 0
  <2>1. Unpaid(l) \subseteq Numbers(l)
    BY DEF Unpaid, With
  <2> QED BY <2>1, PrincipalFacts
<1>6. Unpaid(l) # {}
  BY <1>2, <1>5
<1>7. IsPayment(l, 0) /\ ~ IsRecorded(l, 0)
  BY <1>6 DEF IsPayment, LedgerInv, PaidOnRecord
<1>8. PICK principal \in Nat : principal = PrincipalOf(l, Unpaid(l))
  BY <1>5
<1>9. Record(l, 0, principal, 0) /\ PrincipalOf(l, Unpaid(l)) = principal + PrincipalOf(l, {})
  BY <1>2, <1>5, <1>8
<1>10. {} \in SUBSET Unpaid(l) /\ 0 \notin {} /\ 0 \in Nat
  OBVIOUS
<1> QED BY <1>1, <1>2, <1>4, <1>7, <1>9, <1>10, PaymentStep

LEMMA LedgerInit == Init => LedgerInv
<1> SUFFICES ASSUME Init PROVE LedgerInv
  OBVIOUS
<1> USE DEF Init
<1>1. repayments = {} /\ distributions = {} /\ IsFiniteSet({})
  BY FS_EmptySet
<1>2. RowsOk
  BY <1>1 DEF RowsOk
<1>3. TotalsOk
  BY DEF TotalsOk, LoanTotals
<1>4. \A l \in Loans : /\ RepaymentsOf(l) = {} /\ Principals({}) = 0 /\ Cardinality({}) = 0
                       /\ \A i \in LotsOf(l) : DistributedTo(l, i) = {} /\ Interests({}) = 0
  BY NoRows, FS_EmptySet DEF RepaymentsOf, DistributedTo
<1>5. MoneyReachesLenders
  <2>1. PaymentsReachLenders
    BY DEF PaymentsReachLenders
  <2>2. TotalsMatchRows
    BY <1>4 DEF TotalsMatchRows
  <2>3. ASSUME NEW l \in Loans, NEW i \in LotsOf(l)
        PROVE  LET whole == Total(Lots[l])
                   share == Lots[l][i] * Principals(RepaymentsOf(l))
                   slack == whole * Cardinality(RepaymentsOf(l))
               IN  whole * returned[l][i] \in (share - slack)..(share + slack)
    <3>1. Total(Lots[l]) * 0 = 0 /\ Lots[l][i] * 0 = 0
      BY LotsFacts
    <3>2. returned[l][i] = 0 /\ Principals(RepaymentsOf(l)) = 0 /\ Cardinality(RepaymentsOf(l)) = 0
      BY <1>1, NoRows, FS_EmptySet DEF RepaymentsOf
    <3> QED BY <3>1, <3>2
  <2>4. SharesAreFair
    BY <2>3 DEF SharesAreFair
  <2> QED BY <2>1, <2>2, <2>4 DEF MoneyReachesLenders
<1>6. ASSUME NEW l \in Loans PROVE HandedOut(l)
  <2> DEFINE f == returned[l]
             z == [i \in LotsOf(l) |-> 0]
  <2>1. f = z
    OBVIOUS
  <2>2. \A i \in LotsOf(l) : f[i] \in Int /\ f[i] = 0
    OBVIOUS
  <2>3. \A i \in LotsOf(l) \ {} : f[i] = 0
    BY <2>2
  <2> HIDE DEF f, z
  <2>4. SumFunctionOnSet(f, LotsOf(l)) = SumFunctionOnSet(f, {})
    BY <2>2, LotsFacts, SumSupport
  <2> QED BY <1>4, <2>4, SumEmpty DEF HandedOut, f
<1>7. PaidOnRecord
  BY <1>1 DEF PaidOnRecord, IsRecorded
<1>8. Settling
  BY ItsOwnRecord DEF Settling
<1>9. PrincipalIsPaidOnce
  <2> SUFFICES ASSUME NEW l \in Loans
               PROVE  PrincipalOf(l, Unpaid(l)) + Principals(RepaymentsOf(l)) = PrincipalOf(l, Numbers(l))
    BY DEF PrincipalIsPaidOnce
  <2>1. Unpaid(l) = Numbers(l)
    BY DEF Unpaid, With, InstallmentStatuses
  <2>2. PrincipalOf(l, Numbers(l)) \in Nat
    BY PrincipalFacts
  <2>3. Principals(RepaymentsOf(l)) = 0
    BY NoRows DEF RepaymentsOf
  <2> QED BY <2>1, <2>2, <2>3
<1> QED BY <1>2, <1>3, <1>5, <1>6, <1>7, <1>8, <1>9 DEF LedgerInv

LEMMA LedgerStep == RInv /\ LedgerInv /\ [Next]_vars => LedgerInv'
<1> SUFFICES ASSUME RInv, LedgerInv, [Next]_vars PROVE LedgerInv'
  OBVIOUS
<1>1. CASE \E h \in Handlers : PayCommit(h) \/ SettleCommit(h)
  BY <1>1, PayCommitLedger, SettleCommitLedger
<1>2. CASE \/ \E h \in Handlers, l \in Loans : SettleLock(h, l) \/ \E n \in Numbers(l) : PayLock(h, l, n)
           \/ \E h \in Handlers : PayCount(h) \/ PayAdvance(h) \/ FailPayment(h)
           \/ \E s \in Sweepers : SweepStart(s) \/ SweepStep(s) \/ FailSweep(s)
           \/ NextDay \/ UNCHANGED vars
  BY <1>2, QuietSteps
<1> QED BY <1>1, <1>2, Zenon DEF Next, PayStep

-----------------------------------------------------------------------------
(* Types *)

SweepRecords == [at : {"idle"} \cup Statements, read : BOOLEAN, day : 0..LastDay, rows : SUBSET Rows]
WorkTyped ==
  /\ today \in 0..LastDay /\ swept \in BOOLEAN /\ failures \in Nat
  /\ old \subseteq Handlers \cup Sweepers
  /\ sweep \in [Sweepers -> SweepRecords]
  /\ paidCount = [l \in Loans |-> paidCount[l]]

LEMMA FreshSweep == \A at \in {"idle"} \cup Statements : At(at) \in SweepRecords
  BY LimitsAssumption DEF At, SweepRecords

LEMMA WorkInit == Init => WorkTyped
<1> SUFFICES ASSUME Init PROVE WorkTyped
  OBVIOUS
<1>1. AsleepSweep \in SweepRecords
  BY FreshSweep DEF AsleepSweep
<1>2. sweep = [s \in Sweepers |-> AsleepSweep] /\ today = 0 /\ 0 \in 0..LastDay
  BY LimitsAssumption DEF Init
<1>3. sweep \in [Sweepers -> SweepRecords]
  BY <1>1, <1>2
<1> QED BY <1>2, <1>3 DEF Init, WorkTyped

LEMMA WorkStep == RInv /\ WorkTyped /\ [Next]_vars => WorkTyped'
<1> SUFFICES ASSUME RInv, WorkTyped, [Next]_vars PROVE WorkTyped'
  OBVIOUS
<1> USE DEF WorkTyped
<1>1. ASSUME NEW h \in Handlers,
             \/ PayStep(h) \/ FailPayment(h)
             \/ \E l \in Loans : SettleLock(h, l) \/ \E n \in Numbers(l) : PayLock(h, l, n)
      PROVE  WorkTyped'
  <2>1. UNCHANGED <<today, swept, sweep>> /\ failures' \in {failures, failures + 1} /\ old' \subseteq old
    BY <1>1 DEF PayStep, PayCount, PayAdvance, PayCommit, SettleCommit, FailPayment, SettleLock, PayLock,
                EndJob, calendar
  <2>2. paidCount' = paidCount \/ \E l, k : paidCount' = [paidCount EXCEPT ![l] = k]
    BY <1>1, Zenon DEF PayStep, PayCount, PayAdvance, PayCommit, SettleCommit, FailPayment, SettleLock, PayLock, ledger
  <2> QED BY <2>1, <2>2
<1>2. ASSUME NEW s \in Sweepers, SweepStart(s) \/ FailSweep(s) PROVE WorkTyped'
  <2>1. PICK at \in {"idle", "due"} : sweep' = [sweep EXCEPT ![s] = At(at)]
    BY <1>2 DEF SweepStart, FailSweep, AsleepSweep
  <2>2. At(at) \in SweepRecords
    BY FreshSweep DEF Statements
  <2>3. UNCHANGED <<today, paidCount>> /\ swept' \in BOOLEAN /\ failures' \in {failures, failures + 1} /\ old' \subseteq old
    BY <1>2 DEF SweepStart, FailSweep, calendar, ledger
  <2> QED BY <2>1, <2>2, <2>3
<1>3. ASSUME NEW s \in Sweepers, SweepRead(s) PROVE WorkTyped'
  <2>1. PICK new : new = [at |-> sweep[s].at, read |-> TRUE, day |-> today, rows |-> Matching(sweep[s].at)]
    OBVIOUS
  <2>2. Matching(sweep[s].at) \in SUBSET Rows
    BY DEF Matching
  <2>3. new \in SweepRecords
    BY <2>1, <2>2 DEF SweepRecords
  <2>4. sweep' = [sweep EXCEPT ![s] = new] /\ UNCHANGED <<today, swept, failures, old, paidCount>>
    BY <1>3, <2>1 DEF SweepRead, calendar, ledger
  <2> QED BY <2>3, <2>4
<1>4. ASSUME NEW s \in Sweepers, SweepWrite(s) PROVE WorkTyped'
  <2>1. sweep[s].at \in Statements
    BY <1>4 DEF SweepWrite, RInv, Typed
  <2>2. PICK next : next = FollowedBy[sweep[s].at] /\ next \in {"idle"} \cup Statements
    BY <2>1 DEF FollowedBy, Statements
  <2>3. At(next) \in SweepRecords
    BY <2>2, FreshSweep
  <2>4. sweep' = [sweep EXCEPT ![s] = At(next)]
    BY <1>4, <2>2 DEF SweepWrite
  <2>5. UNCHANGED <<today, failures, paidCount>> /\ swept' \in BOOLEAN /\ old' \subseteq old
    BY <1>4 DEF SweepWrite
  <2> QED BY <2>3, <2>4, <2>5
<1>5. CASE NextDay
  <2>1. AtWork \subseteq Handlers \cup Sweepers
    BY DEF AtWork
  <2>2. today' = today + 1 /\ today < LastDay /\ swept' = FALSE /\ old' = AtWork /\ UNCHANGED <<sweep, failures, paidCount>>
    BY <1>5 DEF NextDay, ledger
  <2>3. today' \in 0..LastDay
    BY <2>2, LimitsAssumption
  <2> QED BY <2>1, <2>2, <2>3
<1>6. CASE UNCHANGED vars
  BY <1>6 DEF vars, calendar, ledger
<1> QED BY <1>1, <1>2, <1>3, <1>4, <1>5, <1>6 DEF Next, SweepStep

LEMMA AllTyped == RInv /\ LedgerInv /\ WorkTyped => TypeOK
<1> SUFFICES ASSUME RInv, LedgerInv, WorkTyped PROVE TypeOK
  OBVIOUS
<1>1. ASSUME NEW l \in Loans
      PROVE  /\ instStatus[l] \in [Numbers(l) -> InstallmentStatuses]
             /\ overdueDays[l] \in [Numbers(l) -> 0..LastDay]
  <2>1. \A n \in Numbers(l) : overdueDays[l][n] \in 0..LastDay
    <3> SUFFICES ASSUME NEW n \in Numbers(l) PROVE overdueDays[l][n] \in 0..LastDay
      OBVIOUS
    <3>1. overdueDays[l][n] \in 1..(today - DueDay[l][n]) \/ overdueDays[l][n] = 0
      BY DEF RInv, OverdueDaysAreFact
    <3>2. today \in 0..LastDay /\ DueDay[l][n] \in Nat
      BY NumbersFacts DEF WorkTyped
    <3> QED BY <3>1, <3>2, LimitsAssumption
  <2> QED BY <2>1 DEF RInv, Typed
<1>2. paidCount \in [Loans -> Nat]
  <2>1. ASSUME NEW l \in Loans PROVE paidCount[l] \in Nat
    <3>1. IsFiniteSet(Numbers(l) \ Unpaid(l))
      BY PrincipalFacts
    <3> QED BY <3>1, FS_CardinalityType DEF RInv, ProgressInv, ProgressIsRight
  <2>2. paidCount = [l \in Loans |-> paidCount[l]]
    BY DEF WorkTyped
  <2> QED BY <2>1, <2>2
<1>3. \A r \in repayments : <<r.loan, r.no>> \in Rows /\ r.principal >= 0 /\ r.interest >= 0
  <2> SUFFICES ASSUME NEW r \in repayments
               PROVE  <<r.loan, r.no>> \in Rows /\ r.principal >= 0 /\ r.interest >= 0
    OBVIOUS
  <2>1. r \in RepaymentRows /\ IsPayment(r.loan, r.no)
    BY DEF LedgerInv, RowsOk
  <2>2. PICK l \in Loans : l = r.loan
    BY <2>1 DEF IsPayment
  <2>3. PICK n : n = r.no /\ (n = 0 \/ n \in Numbers(l))
    BY <2>1, <2>2 DEF IsPayment
  <2>4. <<l, n>> \in Rows
    <3>1. CASE n = 0
      <4>1. <<l, 0>> \in {<<k, 0>> : k \in Loans}
        BY Zenon
      <4>2. <<l, 0>> \in Rows
        BY <4>1 DEF Rows
      <4> QED BY <3>1, <4>2
    <3>2. CASE n \in Numbers(l)
      <4>1. <<l, n>> \in {<<l, k>> : k \in Numbers(l)}
        BY <3>2
      <4> QED BY <4>1, Zenon DEF Rows
    <3> QED BY <2>3, <3>1, <3>2
  <2> QED BY <2>1, <2>2, <2>3, <2>4 DEF RepaymentRows
<1>4. \A d \in distributions : <<d.loan, d.no>> \in Rows /\ d.lot \in LotsOf(d.loan)
  BY <1>3 DEF LedgerInv, RowsOk, IsRecorded
<1>5. \A h \in Handlers : job[h].pc \in {"idle", "pay", "counted", "advanced", "settle"}
  BY ItsOwnRecord DEF RInv, JobsInv, JobOk, Paying
<1>6. \A l \in Loans : returned[l] \in [LotsOf(l) -> Nat] /\ earned[l] \in [LotsOf(l) -> Nat]
  BY DEF LedgerInv, TotalsOk, LoanTotals
<1> QED BY <1>1, <1>2, <1>3, <1>4, <1>5, <1>6 DEF TypeOK, WorkTyped, SweepRecords, RInv, Typed

-----------------------------------------------------------------------------
(* Theorems on the ledger *)

LEMMA LedgerInvariant == Spec => [](LedgerInv /\ WorkTyped)
<1>1. RInv /\ LedgerInv /\ WorkTyped /\ [Next]_vars => (LedgerInv /\ WorkTyped)'
  BY LedgerStep, WorkStep
<1> QED BY <1>1, LedgerInit, WorkInit, Invariant, PTL DEF Spec

\* The types of the tables, of the payment requests and of the sweeps: no statement of a
\* sweep is dated after today, and no row of the ledger is for a lot or an installment
\* that the loan does not have.
THEOREM TypeCorrect == Spec => []TypeOK
  BY AllTyped, Invariant, LedgerInvariant, PTL

\* Whatever the proportions of a loan's lenders, every payment reaches them to the
\* dollar, their running totals are the sums of what they got, and rounding costs or
\* gives nobody more than a dollar for each payment (distribution.go).
THEOREM MoneyArrives == Spec => []MoneyReachesLenders
<1>1. LedgerInv => MoneyReachesLenders
  BY DEF LedgerInv
<1> QED BY <1>1, LedgerInvariant, PTL

\* What is paid and what is left always make up the loan, for any schedule and any
\* mixture of installments and settlements (repayments.go).
THEOREM PaidOnce == Spec => []PrincipalIsPaidOnce
<1>1. LedgerInv => PrincipalIsPaidOnce
  BY DEF LedgerInv
<1> QED BY <1>1, LedgerInvariant, PTL

\* The schedules are those that the code computes.
Computed ==
  \A l \in Loans : \E rate, months, payment :
    IsLoan(Lent[l], rate, months, payment) /\ Schedule[l] = Installments(Lent[l], rate, months, payment)

\* A loan whose schedule the code has computed and that is paid has brought back what was
\* lent, and its lenders have all of it.
THEOREM AllComesBack == ASSUME Computed PROVE Spec => []LentComesBack
<1>1. LedgerInv => LentComesBack
  <2> SUFFICES ASSUME LedgerInv, NEW l \in Loans, Unpaid(l) = {}
               PROVE  /\ Principals(RepaymentsOf(l)) = Lent[l]
                      /\ LotsOf(l) # {} => SumFunctionOnSet(returned[l], LotsOf(l)) = Lent[l]
    BY DEF LentComesBack
  <2>1. PrincipalOf(l, {}) + Principals(RepaymentsOf(l)) = PrincipalOf(l, Numbers(l))
    BY DEF LedgerInv, PrincipalIsPaidOnce
  <2>2. PrincipalOf(l, {}) = 0
    BY PrincipalFacts
  <2>3. Principals(RepaymentsOf(l)) \in Nat
    BY PaidTyped
  <2>4. PrincipalOf(l, Numbers(l)) = Lent[l]
    <3>1. PICK rate, months, payment :
            IsLoan(Lent[l], rate, months, payment) /\ Schedule[l] = Installments(Lent[l], rate, months, payment)
      BY DEF Computed
    <3>2. /\ DOMAIN Schedule[l] = 1..Len(Schedule[l])
          /\ SumFunctionOnSet([n \in DOMAIN Schedule[l] |-> Schedule[l][n].principal], DOMAIN Schedule[l]) = Lent[l]
      BY <3>1, ScheduleRepays
    <3> QED BY <3>2 DEF PrincipalOf, Numbers
  <2>5. Principals(RepaymentsOf(l)) = Lent[l]
    BY <2>1, <2>2, <2>3, <2>4
  <2> QED BY <2>5, LotsFacts DEF LedgerInv, HandedOut
<1> QED BY <1>1, LedgerInvariant, PTL

\* A loan whose lots are all of it, and that is paid, has returned to each lender what
\* it put in, to within a dollar for each payment made.
NearlyRepaid ==
  \A l \in Loans : Unpaid(l) = {} /\ Total(Lots[l]) = Lent[l] =>
    \A i \in LotsOf(l) :
      returned[l][i] \in (Lots[l][i] - Cardinality(RepaymentsOf(l)))..(Lots[l][i] + Cardinality(RepaymentsOf(l)))

\* How far LendersAreRepaid, which fails, is from the truth: the rounding of a lender's
\* parts of a loan's payments adds up, but to no more than a dollar for each payment.
THEOREM RoundingIsSmall == ASSUME Computed PROVE Spec => []NearlyRepaid
<1>1. LedgerInv /\ LentComesBack => NearlyRepaid
  <2> SUFFICES ASSUME LedgerInv, LentComesBack, NEW l \in Loans, Unpaid(l) = {}, Total(Lots[l]) = Lent[l],
                      NEW i \in LotsOf(l)
               PROVE  returned[l][i] \in (Lots[l][i] - Cardinality(RepaymentsOf(l)))
                                           ..(Lots[l][i] + Cardinality(RepaymentsOf(l)))
    BY DEF NearlyRepaid
  <2>1. PICK whole \in Nat \ {0} : whole = Total(Lots[l])
    BY LotsFacts, LoansAssumption, TotalIsPositive
  <2>2. PICK lot \in Nat : lot = Lots[l][i]
    BY LotsFacts
  <2>3. PICK had \in Nat : had = returned[l][i]
    BY DEF LedgerInv, TotalsOk, LoanTotals
  <2>4. PICK count \in Nat : count = Cardinality(RepaymentsOf(l))
    BY PaidTyped, FS_CardinalityType
  <2>5. Principals(RepaymentsOf(l)) = whole
    BY <2>1 DEF LentComesBack
  <2>6. whole * had \in (lot * whole - whole * count)..(lot * whole + whole * count)
    BY <2>1, <2>2, <2>3, <2>4, <2>5 DEF LedgerInv, MoneyReachesLenders, SharesAreFair
  <2>7. lot <= had + count /\ had <= lot + count
    <3>1. lot * whole <= whole * (had + count) /\ whole * had <= whole * (lot + count)
      BY <2>6
    <3>2. lot * whole = whole * lot
      OBVIOUS
    <3> QED BY <3>1, <3>2, Cancel
  <2> QED BY <2>2, <2>3, <2>4, <2>7
<1> QED BY <1>1, LedgerInvariant, AllComesBack, PTL

=============================================================================
