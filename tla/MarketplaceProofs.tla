-------------------------- MODULE MarketplaceProofs --------------------------
(***************************************************************************)
(* Theorems about Marketplace for any users, applications, amounts and any *)
(* number of concurrent requests.                                          *)
(***************************************************************************)
EXTENDS Marketplace, FiniteSetTheorems, SumTheorems, TLAPS

USE PartiesAssumption, AmountsAssumption, BoundsAssumption DEF Procs

-----------------------------------------------------------------------------
(* Type correctness *)

LEMMA FiniteInvestments == IsFiniteSet(Investments)
<1>1. IsFiniteSet(Apps \X Users) /\ IsFiniteSet((Apps \X Users) \X Keys)
  BY FS_Product
<1> DEFINE f == [z \in (Apps \X Users) \X Keys |-> <<z[1][1], z[1][2], z[2]>>]
<1>2. f \in Surjection((Apps \X Users) \X Keys, Investments)
  <2>1. f \in [(Apps \X Users) \X Keys -> Investments]
    BY DEF Investments
  <2>2. ASSUME NEW i \in Investments
        PROVE  \E z \in (Apps \X Users) \X Keys : f[z] = i
    <3>1. <<<<i[1], i[2]>>, i[3]>> \in (Apps \X Users) \X Keys
      BY DEF Investments
    <3>2. f[<<<<i[1], i[2]>>, i[3]>>] = i
      BY <3>1 DEF Investments
    <3> QED BY <3>1, <3>2
  <2> QED BY <2>1, <2>2 DEF Surjection
<1> QED BY <1>1, <1>2, FS_Surjection

LEMMA RowCountType == \A a \in Apps : RowsIn(a) \in Nat
<1>1. ASSUME NEW a \in Apps
      PROVE  IsFiniteSet({i \in InvestmentsIn(a) : rowNo[i] > 0})
  BY FiniteInvestments, FS_Subset, {i \in InvestmentsIn(a) : rowNo[i] > 0} \subseteq Investments
     DEF InvestmentsIn
<1> QED BY <1>1, FS_CardinalityType DEF RowsIn

LEMMA JobTypes ==
  ASSUME TypeOK, NEW p \in Procs
  PROVE  /\ job[p] \in Job
         /\ job[p].pc \in {"debit", "record"} => job[p] \in BidJob
         /\ job[p].pc = "review" => job[p] \in ReviewJob
         /\ job[p].pc = "refund" => job[p] \in CancelJob
  BY DEF TypeOK, Job, Idle, BidJob, ReviewJob, CancelJob

LEMMA TypeInit == Init => TypeOK
  BY DEF Init, TypeOK, Job, Idle, AppStatuses, ListingStatuses

LEMMA EndJobType ==
  ASSUME TypeOK, NEW p \in Procs, EndJob(p)
  PROVE  job' \in [Procs -> Job]
  BY DEF TypeOK, EndJob, Job, Idle

LEMMA CancelStartType ==
  ASSUME TypeOK, NEW a \in Apps
  PROVE  CancelStart(a) \in CancelJob
  BY DEF CancelStart, CancelJob, Unrefunded, InvestmentsIn

LEMMA TypeStep == TypeOK /\ [Next]_vars => TypeOK'
<1> SUFFICES ASSUME TypeOK, [Next]_vars PROVE TypeOK'
  OBVIOUS
<1> USE DEF book, clocks, counters
<1>1. ASSUME NEW a \in Apps, CreateApplication(a) PROVE TypeOK'
  BY <1>1 DEF TypeOK, CreateApplication, AppStatuses
<1>2. ASSUME NEW h \in Handlers, NEW a \in Apps, NEW act \in ReviewActions, ReviewLock(h, a, act)
      PROVE  TypeOK'
  <2>1. [pc |-> "review", app |-> a, act |-> act, from |-> appStatus[a]] \in Job
    BY DEF Job, ReviewJob, TypeOK
  <2> QED BY <1>2, <2>1 DEF TypeOK, ReviewLock
<1>3. ASSUME NEW h \in Handlers, ReviewCommit(h) PROVE TypeOK'
  <2>1. job[h].app \in Apps /\ job[h].act \in ReviewActions
    BY <1>3, JobTypes DEF ReviewCommit, ReviewJob
  <2>2. ReviewTransitions[job[h].act] \in AppStatuses
    BY <2>1 DEF ReviewTransitions, ReviewActions, AppStatuses
  <2>3. job' \in [Procs -> Job]
    BY <1>3, EndJobType DEF ReviewCommit
  <2>4. appStatus' \in [Apps -> AppStatuses]
    BY <1>3, <2>1, <2>2 DEF ReviewCommit, TypeOK
  <2>5. reviews' \in [Apps -> Seq(AppStatuses \X AppStatuses)]
    <3>1. <<job[h].from, ReviewTransitions[job[h].act]>> \in AppStatuses \X AppStatuses
      BY <1>3, <2>2, JobTypes DEF ReviewCommit, ReviewJob
    <3> QED BY <1>3, <2>1, <3>1 DEF ReviewCommit, TypeOK
  <2>6. listingStatus' \in [Apps -> ListingStatuses] /\ funded' \in [Apps -> Nat]
    BY <1>3, <2>1 DEF ReviewCommit, TypeOK, ListingStatuses
  <2> QED BY <1>3, <2>3, <2>4, <2>5, <2>6 DEF ReviewCommit, TypeOK
<1>4. ASSUME NEW h \in Handlers, ReviewRefused(h) PROVE TypeOK'
  BY <1>4, EndJobType DEF TypeOK, ReviewRefused
<1>5. ASSUME NEW h \in Handlers, NEW a \in Apps, NEW u \in Users, NEW k \in Keys,
             NEW x \in Amounts, BidLock(h, a, u, k, x)
      PROVE  TypeOK'
  <2> DEFINE rest == Target[a] - funded[a]
             bid == [pc |-> "debit", app |-> a, user |-> u, key |-> k,
                     amount |-> IF x > rest THEN rest ELSE x]
  <2>1. rest \in Int /\ rest > 0 /\ x \in Nat \ {0}
    BY <1>5 DEF BidLock, TypeOK
  <2>2. bid \in Job
    BY <2>1 DEF Job, BidJob
  <2> QED BY <1>5, <2>2 DEF TypeOK, BidLock
<1>6. ASSUME NEW h \in Handlers, BidLockUser(h) PROVE TypeOK'
  <2>1. job[h] \in BidJob
    BY <1>6, JobTypes DEF BidLockUser
  <2>2. [job[h] EXCEPT !.pc = "record"] \in Job
    BY <2>1 DEF Job, BidJob
  <2> QED BY <1>6, <2>2 DEF TypeOK, BidLockUser
<1>7. ASSUME NEW h \in Handlers, BidTooPoor(h) \/ BidResent(h) PROVE TypeOK'
  BY <1>7, EndJobType DEF TypeOK, BidTooPoor, BidResent
<1>8. ASSUME NEW h \in Handlers, BidCommit(h) PROVE TypeOK'
  <2>1. job[h] \in BidJob /\ job' \in [Procs -> Job]
    BY <1>8, JobTypes, EndJobType DEF BidCommit
  <2>2. /\ job[h].app \in Apps /\ job[h].user \in Users /\ job[h].amount \in Nat
        /\ KeyOf(job[h]) \in Investments
    BY <2>1 DEF BidJob, KeyOf, Investments
  <2>3. /\ balance[job[h].user] - job[h].amount \in Nat
        /\ funded[job[h].app] + job[h].amount \in Nat
    BY <1>8, <2>2 DEF BidCommit, WithinChecks, TypeOK
  <2>4. RowsIn(job[h].app) + 1 \in Nat
    BY <2>2, RowCountType
  <2>5. /\ invested' \in [Investments -> Nat]
        /\ rowNo' \in [Investments -> Nat]
        /\ balance' \in [Users -> Nat]
        /\ funded' \in [Apps -> Nat]
    BY <1>8, <2>2, <2>3, <2>4 DEF BidCommit, TypeOK
  <2>6. /\ loans' \subseteq Apps
        /\ listingStatus' \in [Apps -> ListingStatuses]
        /\ appStatus' \in [Apps -> AppStatuses]
    BY <1>8, <2>2 DEF BidCommit, TypeOK, ListingStatuses, AppStatuses
  <2> QED BY <1>8, <2>1, <2>5, <2>6 DEF BidCommit, TypeOK
<1>9. ASSUME NEW u \in Users, NEW x \in TopUps, TopUp(u, x) PROVE TypeOK'
  BY <1>9 DEF TypeOK, TopUp
<1>10. ASSUME NEW h \in Handlers, NEW a \in Apps, CancelLock(h, a) PROVE TypeOK'
  BY <1>10, CancelStartType DEF TypeOK, CancelLock, Job
<1>11. ASSUME NEW p \in Procs, NEW i \in Investments, RefundOne(p, i) PROVE TypeOK'
  <2>1. job[p] \in CancelJob /\ i[2] \in Users /\ invested[i] \in Nat
    BY <1>11, JobTypes DEF RefundOne, Investments, TypeOK
  <2> DEFINE c == [pc |-> "refund", app |-> job[p].app, todo |-> job[p].todo \ {i},
                   done |-> job[p].done \cup {i},
                   credit |-> [job[p].credit EXCEPT ![i[2]] = @ + invested[i]]]
  <2>2. c \in CancelJob
    BY <2>1 DEF CancelJob
  <2>3. job' = [job EXCEPT ![p] = c]
    BY <1>11 DEF RefundOne, Credit
  <2>4. job' \in [Procs -> Job]
    <3> HIDE DEF c
    <3> QED BY <2>2, <2>3 DEF TypeOK, Job
  <2> QED BY <1>11, <2>4 DEF TypeOK, RefundOne
<1>12. ASSUME NEW p \in Procs, CancelCommit(p) PROVE TypeOK'
  <2>1. job[p] \in CancelJob /\ job' \in [Procs -> Job]
    BY <1>12, JobTypes, EndJobType DEF CancelCommit
  <2>2. balance' \in [Users -> Nat] /\ refunds' \subseteq Investments /\ queue' \subseteq Apps
    BY <1>12, <2>1 DEF CancelCommit, CancelJob, TypeOK
  <2>3. /\ listingStatus' \in [Apps -> ListingStatuses]
        /\ funded' \in [Apps -> Nat]
        /\ appStatus' \in [Apps -> AppStatuses]
    BY <1>12, <2>1 DEF CancelCommit, CancelJob, TypeOK, ListingStatuses, AppStatuses
  <2> QED BY <1>12, <2>1, <2>2, <2>3 DEF CancelCommit, TypeOK
<1>13. ASSUME NEW a \in Apps, PassApiDeadline(a) \/ PassDbDeadline(a) PROVE TypeOK'
  BY <1>13 DEF TypeOK, PassApiDeadline, PassDbDeadline
<1>14. CASE SweepScan
  BY <1>14 DEF TypeOK, SweepScan, Expired
<1>15. ASSUME NEW a \in Apps, SweepLock(a) PROVE TypeOK'
  BY <1>15, CancelStartType DEF TypeOK, SweepLock, Job
<1>16. ASSUME NEW a \in Apps, SweepSkip(a) PROVE TypeOK'
  BY <1>16 DEF TypeOK, SweepSkip
<1>17. ASSUME NEW p \in Procs, Fail(p) \/ BreakDeadlock(p) PROVE TypeOK'
  <2>1. Rollback(p) /\ failures' \in Nat
    BY <1>17 DEF Fail, BreakDeadlock, TypeOK
  <2> QED BY <2>1, EndJobType DEF TypeOK, Rollback
<1>18. CASE UNCHANGED vars
  BY <1>18 DEF vars, TypeOK
<1>19. ASSUME NEW h \in Handlers, NEW a \in Apps, Arrive(h, a) PROVE TypeOK'
  BY <1>19, <1>2, <1>5, <1>10 DEF Arrive
<1>20. ASSUME NEW h \in Handlers, HandlerStep(h) PROVE TypeOK'
  BY <1>20, <1>3, <1>4, <1>6, <1>7, <1>8 DEF HandlerStep
<1>21. ASSUME NEW p \in Procs, CancelFirst(p) \/ CancelRest(p) PROVE TypeOK'
  BY <1>21, <1>11, <1>12 DEF CancelFirst, CancelRest
<1> QED
  BY <1>1, <1>9, <1>13, <1>14, <1>15, <1>16, <1>17, <1>18, <1>19, <1>20, <1>21
  DEF Next, SweepNext

\* Every reachable state is well typed: no balance and no funded amount is ever
\* negative, whatever the number of users, listings and concurrent requests.
THEOREM TypeCorrect == Spec => []TypeOK
  BY TypeInit, TypeStep, PTL DEF Spec


-----------------------------------------------------------------------------
(* The locks keep what was checked under them true *)

\* What the invariant says besides the types, of the tables and of the jobs.
LEMMA LockInit == Init => LockInv
<1> SUFFICES ASSUME Init PROVE LockInv
  OBVIOUS
<1>1. TypeOK
  BY TypeInit
<1>2. \A p \in Procs : job[p].pc = "idle"
  BY DEF Init, Idle
<1>3. LocksAreExclusive /\ CheckedBidStaysValid /\ CheckedReviewStaysValid /\ CheckedRefundsStayValid
  BY <1>2 DEF LocksAreExclusive, NoSharedRow, HoldsListing, HoldsApplication, HoldsUser, CheckedBidStaysValid,
     CheckedReviewStaysValid, CheckedRefundsStayValid, BidIsValid, ReviewIsValid,
     RefundIsValid
<1>4. TablesAgree /\ RefundsAreComplete
  BY DEF Init, TablesAgree, RefundsAreComplete, InvestmentsIn
<1> QED BY <1>1, <1>3, <1>4 DEF LockInv

\* A step that changes no table except by adding to balances, and either changes
\* no job or ends one, keeps the invariant.
LEMMA QuietKeeps ==
  ASSUME LockInv, TypeOK', NEW p \in Procs, UNCHANGED <<appStatus, book>>,
         \A u \in Users : balance'[u] >= balance[u],
         EndJob(p) \/ UNCHANGED job
  PROVE  LockInv'
<1> USE DEF book
<1>1. \A q \in Procs : job'[q] = job[q] \/ job'[q].pc = "idle"
  BY DEF EndJob, Idle, LockInv, TypeOK
<1>2. LocksAreExclusive'
  BY <1>1 DEF LockInv, LocksAreExclusive, NoSharedRow, HoldsListing, HoldsApplication, HoldsUser
<1>3. CheckedBidStaysValid'
  <2> SUFFICES ASSUME NEW q \in Procs PROVE BidIsValid(q)'
    BY DEF CheckedBidStaysValid
  <2>1. CASE job'[q].pc = "idle"
    BY <2>1 DEF BidIsValid
  <2>2. CASE job'[q] = job[q] /\ job[q].pc \in {"debit", "record"}
    <3>1. job[q].user \in Users /\ job[q].amount \in Nat
      BY <2>2, JobTypes DEF LockInv, BidJob
    <3>2. /\ balance'[job[q].user] >= balance[job[q].user]
          /\ balance'[job[q].user] \in Nat /\ balance[job[q].user] \in Nat
      BY <3>1 DEF LockInv, TypeOK
    <3>3. BidIsValid(q)
      BY DEF LockInv, CheckedBidStaysValid
    <3>4. job[q].pc = "record" => balance'[job[q].user] >= job[q].amount
      BY <3>1, <3>2, <3>3 DEF BidIsValid
    <3> QED BY <2>2, <3>3, <3>4 DEF BidIsValid, IsNewKey, KeyOf
  <2>3. CASE job'[q] = job[q] /\ job[q].pc \notin {"debit", "record"}
    BY <2>3 DEF BidIsValid
  <2> QED BY <1>1, <2>1, <2>2, <2>3
<1>4. CheckedReviewStaysValid' /\ CheckedRefundsStayValid'
  BY <1>1 DEF LockInv, CheckedReviewStaysValid, ReviewIsValid, CheckedRefundsStayValid,
     RefundIsValid, Unrefunded, InvestmentsIn
<1>5. TablesAgree' /\ RefundsAreComplete'
  BY DEF LockInv, TablesAgree, RefundsAreComplete, Unrefunded, InvestmentsIn
<1> QED BY <1>2, <1>3, <1>4, <1>5 DEF LockInv


\* A step that only gives p a new job keeps the invariant if that job is based on
\* what the tables say and shares no row with another's.
LEMMA StartKeeps ==
  ASSUME LockInv, TypeOK', NEW p \in Procs, UNCHANGED <<appStatus, book, balance>>,
         NEW J, job' = [job EXCEPT ![p] = J],
         BidIsValid(p)', ReviewIsValid(p)', RefundIsValid(p)',
         \A q \in Procs \ {p} : NoSharedRow(p, q)'
  PROVE  LockInv'
<1> USE DEF book
<1>1. \A q \in Procs \ {p} : job'[q] = job[q]
  BY DEF LockInv, TypeOK
<1>2. LocksAreExclusive'
  <2> SUFFICES ASSUME NEW r \in Procs, NEW q \in Procs \ {r} PROVE NoSharedRow(r, q)'
    BY DEF LocksAreExclusive
  <2>1. CASE r = p
    BY <2>1
  <2>2. CASE q = p
    BY <2>2 DEF NoSharedRow
  <2>3. CASE r # p /\ q # p
    <3>1. NoSharedRow(r, q)
      BY DEF LockInv, LocksAreExclusive
    <3> QED BY <3>1, <2>3, <1>1 DEF NoSharedRow, HoldsListing, HoldsApplication, HoldsUser
  <2> QED BY <2>1, <2>2, <2>3
<1>3. CheckedBidStaysValid' /\ CheckedReviewStaysValid' /\ CheckedRefundsStayValid'
  <2> SUFFICES ASSUME NEW q \in Procs \ {p}
               PROVE  BidIsValid(q)' /\ ReviewIsValid(q)' /\ RefundIsValid(q)'
    BY DEF CheckedBidStaysValid, CheckedReviewStaysValid, CheckedRefundsStayValid
  <2>1. BidIsValid(q) /\ ReviewIsValid(q) /\ RefundIsValid(q)
    BY DEF LockInv, CheckedBidStaysValid, CheckedReviewStaysValid, CheckedRefundsStayValid
  <2> QED BY <2>1, <1>1 DEF BidIsValid, ReviewIsValid, RefundIsValid, IsNewKey, KeyOf, Unrefunded,
          InvestmentsIn
<1>4. TablesAgree' /\ RefundsAreComplete'
  BY DEF LockInv, TablesAgree, RefundsAreComplete, Unrefunded, InvestmentsIn
<1> QED BY <1>2, <1>3, <1>4 DEF LockInv

\* Taking the first lock of a job.
LEMMA ReviewLockKeeps ==
  ASSUME LockInv, TypeOK', NEW h \in Handlers, NEW a \in Apps, NEW act \in ReviewActions,
         ReviewLock(h, a, act)
  PROVE  LockInv'
<1> DEFINE J == [pc |-> "review", app |-> a, act |-> act, from |-> appStatus[a]]
<1>1. job' = [job EXCEPT ![h] = J] /\ UNCHANGED <<appStatus, book, balance>>
  BY DEF ReviewLock
<1>2. job'[h] = J /\ \A q \in Procs \ {h} : job'[q] = job[q]
  BY <1>1 DEF LockInv, TypeOK
<1>3. appStatus[a] \in {"pending", "more_info_required"}
  BY DEF ReviewLock, LockInv, TypeOK, AppStatuses, DecidedStatuses
<1>4. BidIsValid(h)' /\ ReviewIsValid(h)' /\ RefundIsValid(h)'
  BY <1>1, <1>2, <1>3 DEF BidIsValid, ReviewIsValid, RefundIsValid
<1>5. \A q \in Procs \ {h} : NoSharedRow(h, q)'
  BY <1>2 DEF ReviewLock, ApplicationFree, NoSharedRow, HoldsListing, HoldsApplication, HoldsUser
<1> QED BY <1>1, <1>4, <1>5, StartKeeps

LEMMA BidLockKeeps ==
  ASSUME LockInv, TypeOK', NEW h \in Handlers, NEW a \in Apps, NEW u \in Users, NEW k \in Keys,
         NEW x \in Amounts, BidLock(h, a, u, k, x)
  PROVE  LockInv'
<1> DEFINE rest == Target[a] - funded[a]
           J == [pc |-> "debit", app |-> a, user |-> u, key |-> k,
                 amount |-> IF x > rest THEN rest ELSE x]
<1>1. job' = [job EXCEPT ![h] = J] /\ UNCHANGED <<appStatus, book, balance>>
  BY DEF BidLock
<1>2. job'[h] = J /\ \A q \in Procs \ {h} : job'[q] = job[q]
  BY <1>1 DEF LockInv, TypeOK
<1>3. funded[a] + J.amount <= Target[a] /\ listingStatus[a] = "funding"
  BY DEF BidLock, LockInv, TypeOK
<1>4. a \notin loans
  BY <1>3 DEF LockInv, TablesAgree
<1>5. BidIsValid(h)' /\ ReviewIsValid(h)' /\ RefundIsValid(h)'
  BY <1>1, <1>2, <1>3, <1>4 DEF BidIsValid, ReviewIsValid, RefundIsValid, book
<1>6. \A q \in Procs \ {h} : NoSharedRow(h, q)'
  BY <1>2 DEF BidLock, ListingFree, NoSharedRow, HoldsListing, HoldsApplication, HoldsUser
<1> QED BY <1>1, <1>5, <1>6, StartKeeps

LEMMA CancelLockKeeps ==
  ASSUME LockInv, TypeOK', NEW p \in Procs, NEW a \in Apps,
         ListingFree(p, a), listingStatus[a] = "funding",
         job' = [job EXCEPT ![p] = CancelStart(a)], UNCHANGED <<appStatus, book, balance>>
  PROVE  LockInv'
<1>1. job'[p] = CancelStart(a) /\ \A q \in Procs \ {p} : job'[q] = job[q]
  BY DEF LockInv, TypeOK
<1>2. BidIsValid(p)' /\ ReviewIsValid(p)' /\ RefundIsValid(p)'
  BY <1>1 DEF CancelStart, BidIsValid, ReviewIsValid, RefundIsValid, Unrefunded, InvestmentsIn, book
<1>3. \A q \in Procs \ {p} : NoSharedRow(p, q)'
  BY <1>1 DEF CancelStart, ListingFree, NoSharedRow, HoldsListing, HoldsApplication, HoldsUser
<1> QED BY <1>2, <1>3, StartKeeps

\* Taking a lender's row as a further lock.
LEMMA BidLockUserKeeps ==
  ASSUME LockInv, TypeOK', NEW h \in Handlers, BidLockUser(h)
  PROVE  LockInv'
<1> DEFINE J == [job[h] EXCEPT !.pc = "record"]
<1>1. job' = [job EXCEPT ![h] = J] /\ UNCHANGED <<appStatus, book, balance>>
  BY DEF BidLockUser
<1>2. job[h] \in BidJob
  BY JobTypes DEF LockInv, BidLockUser
<1>3. /\ J.pc = "record" /\ J.app = job[h].app /\ J.user = job[h].user
      /\ J.key = job[h].key /\ J.amount = job[h].amount
  BY <1>2 DEF BidJob
<1>4. job'[h] = J /\ \A q \in Procs \ {h} : job'[q] = job[q]
  BY <1>1 DEF LockInv, TypeOK
<1> HIDE DEF J
<1>5. BidIsValid(h)
  BY DEF LockInv, CheckedBidStaysValid
<1>6. BidIsValid(h)' /\ ReviewIsValid(h)' /\ RefundIsValid(h)'
  BY <1>1, <1>3, <1>4, <1>5 DEF BidLockUser, BidIsValid, ReviewIsValid, RefundIsValid, book, IsNewKey,
     KeyOf
<1>7. ASSUME NEW q \in Procs \ {h} PROVE NoSharedRow(h, q)'
  <2>1. NoSharedRow(h, q) /\ \A u \in Users : u = job[h].user => ~ HoldsUser(q, u)
    BY DEF LockInv, LocksAreExclusive, BidLockUser, UserFree
  <2> QED BY <2>1, <1>3, <1>4 DEF BidLockUser, NoSharedRow, HoldsListing, HoldsApplication, HoldsUser
<1> QED BY <1>1, <1>6, <1>7, StartKeeps

LEMMA RefundOneKeeps ==
  ASSUME LockInv, TypeOK', NEW p \in Procs, NEW i \in Investments, RefundOne(p, i)
  PROVE  LockInv'
<1> DEFINE J == [pc |-> "refund", app |-> job[p].app, todo |-> job[p].todo \ {i},
                 done |-> job[p].done \cup {i},
                 credit |-> [job[p].credit EXCEPT ![i[2]] = @ + invested[i]]]
<1>1. job' = [job EXCEPT ![p] = J] /\ UNCHANGED <<appStatus, book, balance>>
  BY DEF RefundOne, Credit
<1>2. /\ J.pc = "refund" /\ J.app = job[p].app
      /\ J.todo = job[p].todo \ {i} /\ J.done = job[p].done \cup {i}
  OBVIOUS
<1>3. job'[p] = J /\ \A q \in Procs \ {p} : job'[q] = job[q]
  BY <1>1 DEF LockInv, TypeOK
<1> HIDE DEF J
<1>4. /\ job[p].pc = "refund" /\ i \in job[p].todo /\ RefundIsValid(p)
      /\ \A q \in Procs \ {p} : ~ HoldsUser(q, i[2])
  BY DEF LockInv, CheckedRefundsStayValid, RefundOne, IsNext, UserFree
<1>5. BidIsValid(p)' /\ ReviewIsValid(p)' /\ RefundIsValid(p)'
  BY <1>1, <1>2, <1>3, <1>4 DEF BidIsValid, ReviewIsValid, RefundIsValid, Unrefunded, InvestmentsIn,
     book
<1>6. ASSUME NEW q \in Procs \ {p} PROVE NoSharedRow(p, q)'
  <2>1. NoSharedRow(p, q) /\ ~ HoldsUser(q, i[2])
    BY <1>4 DEF LockInv, LocksAreExclusive
  <2>2. \A u \in Users : HoldsUser(p, u)' => HoldsUser(p, u) \/ u = i[2]
    BY <1>2, <1>3, <1>4 DEF HoldsUser
  <2> QED BY <2>1, <2>2, <1>2, <1>3, <1>4 DEF NoSharedRow, HoldsListing, HoldsApplication, HoldsUser
<1> QED BY <1>1, <1>5, <1>6, StartKeeps

\* Publishing the writes of a job at its commit.
LEMMA EndKeepsLocks ==
  ASSUME LockInv, NEW p \in Procs, EndJob(p)
  PROVE  /\ LocksAreExclusive'
         /\ job'[p] = Idle
         /\ \A q \in Procs \ {p} : job'[q] = job[q]
<1>1. job'[p] = Idle /\ \A q \in Procs \ {p} : job'[q] = job[q]
  BY DEF EndJob, LockInv, TypeOK
<1>2. \A q \in Procs : job'[q] = job[q] \/ job'[q].pc = "idle"
  BY <1>1 DEF Idle
<1>3. LocksAreExclusive'
  BY <1>2 DEF LockInv, LocksAreExclusive, NoSharedRow, HoldsListing, HoldsApplication, HoldsUser
<1> QED BY <1>1, <1>3

\* What the other jobs checked survives p's commit if it survives job by job.
LEMMA CommitKeeps ==
  ASSUME LockInv, TypeOK', NEW p \in Procs, EndJob(p), TablesAgree', RefundsAreComplete',
         \A q \in Procs \ {p} : BidIsValid(q)' /\ ReviewIsValid(q)' /\ RefundIsValid(q)'
  PROVE  LockInv'
<1>1. BidIsValid(p)' /\ ReviewIsValid(p)' /\ RefundIsValid(p)'
  BY EndKeepsLocks DEF BidIsValid, ReviewIsValid, RefundIsValid, Idle
<1>2. CheckedBidStaysValid' /\ CheckedReviewStaysValid' /\ CheckedRefundsStayValid'
  BY <1>1 DEF CheckedBidStaysValid, CheckedReviewStaysValid, CheckedRefundsStayValid
<1> QED BY <1>2, EndKeepsLocks DEF LockInv

LEMMA CreateKeeps ==
  ASSUME LockInv, TypeOK', NEW a \in Apps, CreateApplication(a)
  PROVE  LockInv'
<1> USE DEF book
<1>1. /\ \A b \in Apps : appStatus'[b] = IF b = a THEN "pending" ELSE appStatus[b]
      /\ appStatus[a] = "absent"
      /\ UNCHANGED <<book, balance, job>>
  BY DEF CreateApplication, LockInv, TypeOK
<1>2. LocksAreExclusive'
  BY <1>1 DEF LockInv, LocksAreExclusive, NoSharedRow, HoldsListing, HoldsApplication, HoldsUser
<1>3. CheckedBidStaysValid' /\ CheckedRefundsStayValid'
  BY <1>1 DEF LockInv, CheckedBidStaysValid, BidIsValid, CheckedRefundsStayValid, RefundIsValid,
     Unrefunded, InvestmentsIn, IsNewKey, KeyOf
<1>4. CheckedReviewStaysValid'
  <2> SUFFICES ASSUME NEW q \in Procs, job[q].pc = "review" PROVE ReviewIsValid(q)'
    BY <1>1 DEF CheckedReviewStaysValid, ReviewIsValid
  <2>1. job[q].app \in Apps /\ ReviewIsValid(q)
    BY JobTypes DEF LockInv, ReviewJob, CheckedReviewStaysValid
  <2> QED BY <1>1, <2>1 DEF ReviewIsValid
<1>5. TablesAgree'
  BY <1>1 DEF LockInv, TablesAgree
<1>6. RefundsAreComplete'
  BY <1>1 DEF LockInv, RefundsAreComplete, Unrefunded, InvestmentsIn
<1> QED BY <1>2, <1>3, <1>4, <1>5, <1>6 DEF LockInv

LEMMA ReviewCommitKeeps ==
  ASSUME LockInv, TypeOK', NEW h \in Handlers, ReviewCommit(h)
  PROVE  LockInv'
<1> DEFINE a == job[h].app
           act == job[h].act
           to == ReviewTransitions[act]
<1>1. a \in Apps /\ act \in ReviewActions /\ job[h].pc = "review"
  BY JobTypes DEF LockInv, ReviewCommit, ReviewJob
<1>2. /\ \A b \in Apps : appStatus'[b] = IF b = a THEN to ELSE appStatus[b]
      /\ \A b \in Apps : listingStatus'[b] = IF b = a /\ act = "approve" THEN "funding"
                                             ELSE listingStatus[b]
      /\ \A b \in Apps \ {a} : funded'[b] = funded[b]
      /\ UNCHANGED <<invested, refunds, loans, balance>>
      /\ EndJob(h)
  BY <1>1 DEF ReviewCommit, LockInv, TypeOK
<1>3. act = "approve" => listingStatus[a] = "none"
  BY DEF ReviewCommit, CanList
<1>4. to = "funding" <=> act = "approve"
  BY <1>1 DEF ReviewTransitions, ReviewActions
<1>5. to \in {"funding", "rejected", "more_info_required"}
  BY <1>1 DEF ReviewTransitions, ReviewActions
<1>6. appStatus[a] \in {"pending", "more_info_required"}
  BY <1>1 DEF LockInv, CheckedReviewStaysValid, ReviewIsValid
<1>7. listingStatus[a] \notin {"funding", "disbursed"} /\ a \notin loans
  BY <1>1, <1>6 DEF LockInv, TablesAgree
<1> HIDE DEF a, act, to
<1>8. TablesAgree'
  BY <1>1, <1>2, <1>3, <1>4, <1>5, <1>6, <1>7 DEF LockInv, TablesAgree
<1>9. RefundsAreComplete'
  BY <1>1, <1>2, <1>3 DEF LockInv, RefundsAreComplete, Unrefunded, InvestmentsIn
<1>10. ASSUME NEW q \in Procs \ {h}
       PROVE  BidIsValid(q)' /\ ReviewIsValid(q)' /\ RefundIsValid(q)'
  <2>1. job'[q] = job[q] /\ BidIsValid(q) /\ ReviewIsValid(q) /\ RefundIsValid(q)
    BY <1>2, EndKeepsLocks DEF LockInv, CheckedBidStaysValid, CheckedReviewStaysValid,
       CheckedRefundsStayValid
  <2>2. job[q].pc \in {"debit", "record", "refund", "review"} => job[q].app \in Apps
    BY JobTypes DEF LockInv, BidJob, ReviewJob, CancelJob
  <2>3. BidIsValid(q)'
    BY <1>2, <1>7, <2>1, <2>2 DEF BidIsValid, IsNewKey, KeyOf
  <2>4. RefundIsValid(q)'
    BY <1>2, <1>7, <2>1, <2>2 DEF RefundIsValid, Unrefunded, InvestmentsIn
  <2>5. job[q].pc = "review" => job[q].app # a
    BY <1>1 DEF LockInv, LocksAreExclusive, NoSharedRow, HoldsApplication, a
  <2>6. ReviewIsValid(q)'
    BY <1>2, <2>1, <2>2, <2>5 DEF ReviewIsValid
  <2> QED BY <2>3, <2>4, <2>6
<1> QED BY <1>2, <1>8, <1>9, <1>10, CommitKeeps

\* Whoever holds another job than h, which holds a listing, works on another one.
LEMMA OtherListing ==
  ASSUME LockInv, NEW h \in Procs, job[h].pc \in {"record", "refund"}, NEW q \in Procs \ {h}
  PROVE  /\ job[h].app \in Apps
         /\ job[q].pc \in {"debit", "record", "refund"} =>
              job[q].app \in Apps /\ job[q].app # job[h].app
<1>1. job[h].app \in Apps
  BY JobTypes DEF LockInv, BidJob, CancelJob
<1>2. job[q].pc \in {"debit", "record", "refund"} => job[q].app \in Apps
  BY JobTypes DEF LockInv, BidJob, CancelJob
<1>3. NoSharedRow(h, q)
  BY DEF LockInv, LocksAreExclusive
<1> QED BY <1>1, <1>2, <1>3 DEF NoSharedRow, HoldsListing

LEMMA BidCommitKeeps ==
  ASSUME LockInv, TypeOK', NEW h \in Handlers, BidCommit(h)
  PROVE  LockInv'
<1> DEFINE a == job[h].app
           u == job[h].user
           x == job[h].amount
           i == KeyOf(job[h])
           full == funded[a] + x >= Target[a]
<1>1. /\ a \in Apps /\ u \in Users /\ x \in Nat \ {0}
      /\ i \in Investments /\ i[1] = a
      /\ job[h].pc = "record"
  BY JobTypes DEF LockInv, BidCommit, BidJob, KeyOf, Investments
<1>2. /\ \A j \in Investments : invested'[j] = IF j = i THEN x ELSE invested[j]
      /\ \A v \in Users \ {u} : balance'[v] = balance[v]
      /\ \A b \in Apps \ {a} : /\ funded'[b] = funded[b]
                               /\ b \in loans' <=> b \in loans
                               /\ listingStatus'[b] = listingStatus[b]
                               /\ appStatus'[b] = appStatus[b]
      /\ UNCHANGED refunds
      /\ EndJob(h)
  BY <1>1 DEF BidCommit, LockInv, TypeOK
<1>3. IF full
      THEN /\ a \in loans' /\ listingStatus'[a] = "disbursed" /\ appStatus'[a] = "disbursed"
           /\ ApplicationFree(h, a)
      ELSE /\ a \in loans' <=> a \in loans
           /\ listingStatus'[a] = listingStatus[a] /\ appStatus'[a] = appStatus[a]
  BY <1>1 DEF BidCommit, Full, LockInv, TypeOK
<1>4. listingStatus[a] = "funding"
  BY <1>1 DEF LockInv, CheckedBidStaysValid, BidIsValid
<1> HIDE DEF full
<1>5. TablesAgree'
  BY <1>1, <1>2, <1>3 DEF LockInv, TablesAgree
<1>6. RefundsAreComplete'
  <2> SUFFICES ASSUME NEW b \in Apps
               PROVE  IF listingStatus'[b] = "cancelled" THEN Unrefunded(b)' = {}
                      ELSE InvestmentsIn(b) \cap refunds' = {}
    BY DEF RefundsAreComplete, InvestmentsIn
  <2>1. CASE b = a
    BY <1>1, <1>2, <1>3, <1>4, <2>1 DEF LockInv, RefundsAreComplete
  <2>2. CASE b # a
    <3>1. Unrefunded(b)' = Unrefunded(b) /\ listingStatus'[b] = listingStatus[b]
      BY <1>1, <1>2, <2>2 DEF Unrefunded, InvestmentsIn
    <3> QED BY <1>2, <3>1 DEF LockInv, RefundsAreComplete
  <2> QED BY <2>1, <2>2
<1>7. ASSUME NEW q \in Procs \ {h}
      PROVE  BidIsValid(q)' /\ ReviewIsValid(q)' /\ RefundIsValid(q)'
  <2>1. job'[q] = job[q] /\ BidIsValid(q) /\ ReviewIsValid(q) /\ RefundIsValid(q)
    BY <1>2, EndKeepsLocks DEF LockInv, CheckedBidStaysValid, CheckedReviewStaysValid,
       CheckedRefundsStayValid
  <2>2. job[q].pc \in {"debit", "record", "refund"} => job[q].app \in Apps /\ job[q].app # a
    BY <1>1, OtherListing
  <2>3. BidIsValid(q)'
    <3> SUFFICES ASSUME job[q].pc \in {"debit", "record"} PROVE BidIsValid(q)'
      BY <2>1 DEF BidIsValid
    <3>1. KeyOf(job[q]) \in Investments /\ KeyOf(job[q])[1] = job[q].app /\ job[q].user \in Users
      BY JobTypes DEF LockInv, BidJob, KeyOf, Investments
    <3>2. invested'[KeyOf(job[q])] = invested[KeyOf(job[q])]
      BY <1>1, <1>2, <2>2, <3>1
    <3>3. job[q].pc = "record" => job[q].user # u
      BY <1>1, <3>1 DEF LockInv, LocksAreExclusive, NoSharedRow, HoldsUser
    <3> QED BY <1>2, <2>1, <2>2, <3>1, <3>2, <3>3 DEF BidIsValid, IsNewKey
  <2>4. RefundIsValid(q)'
    <3> SUFFICES ASSUME job[q].pc = "refund" PROVE RefundIsValid(q)'
      BY <2>1 DEF RefundIsValid
    <3>1. \A b \in Apps \ {a} : Unrefunded(b)' = Unrefunded(b)
      BY <1>1, <1>2 DEF Unrefunded, InvestmentsIn
    <3> QED BY <1>2, <2>1, <2>2, <3>1 DEF RefundIsValid, Unrefunded, InvestmentsIn
  <2>5. ReviewIsValid(q)'
    <3> SUFFICES ASSUME job[q].pc = "review" PROVE ReviewIsValid(q)'
      BY <2>1 DEF ReviewIsValid
    <3>1. job[q].app \in Apps /\ (full => job[q].app # a)
      BY <1>3, JobTypes DEF LockInv, ReviewJob, ApplicationFree, HoldsApplication
    <3> QED BY <1>2, <1>3, <2>1, <3>1 DEF ReviewIsValid
  <2> QED BY <2>3, <2>4, <2>5
<1> QED BY <1>2, <1>5, <1>6, <1>7, CommitKeeps

LEMMA CancelCommitKeeps ==
  ASSUME LockInv, TypeOK', NEW p \in Procs, CancelCommit(p)
  PROVE  LockInv'
<1> DEFINE a == job[p].app
<1>1. /\ a \in Apps /\ job[p].pc = "refund" /\ job[p].credit \in [Users -> Nat]
  BY JobTypes DEF LockInv, CancelCommit, CancelJob
<1>2. job[p].done = Unrefunded(a) /\ listingStatus[a] = "funding"
  BY <1>1 DEF CancelCommit, LockInv, CheckedRefundsStayValid, RefundIsValid
<1>3. /\ refunds' = refunds \cup Unrefunded(a)
      /\ \A v \in Users : balance'[v] >= balance[v]
      /\ \A b \in Apps \ {a} : /\ funded'[b] = funded[b]
                               /\ listingStatus'[b] = listingStatus[b]
                               /\ appStatus'[b] = appStatus[b]
      /\ listingStatus'[a] = "cancelled" /\ appStatus'[a] = "more_info_required"
      /\ UNCHANGED <<invested, loans>>
      /\ EndJob(p)
      /\ ApplicationFree(p, a)
  BY <1>1, <1>2 DEF CancelCommit, LockInv, TypeOK
<1>4. \A b \in Apps \ {a} : /\ Unrefunded(b)' = Unrefunded(b)
                            /\ InvestmentsIn(b) \cap refunds' = InvestmentsIn(b) \cap refunds
  BY <1>3 DEF Unrefunded, InvestmentsIn
<1>5. \A b \in Apps : b = a => Unrefunded(b)' = {}
  BY <1>3 DEF Unrefunded, InvestmentsIn
<1> HIDE DEF a
<1>6. TablesAgree'
  BY <1>1, <1>2, <1>3 DEF LockInv, TablesAgree
<1>7. RefundsAreComplete'
  <2> SUFFICES ASSUME NEW b \in Apps
               PROVE  IF listingStatus'[b] = "cancelled" THEN Unrefunded(b)' = {}
                      ELSE InvestmentsIn(b) \cap refunds' = {}
    BY DEF RefundsAreComplete, InvestmentsIn
  <2>1. CASE b = a
    BY <1>3, <1>5, <2>1
  <2>2. CASE b # a
    BY <1>3, <1>4, <2>2 DEF LockInv, RefundsAreComplete
  <2> QED BY <2>1, <2>2
<1>8. ASSUME NEW q \in Procs \ {p}
      PROVE  BidIsValid(q)' /\ ReviewIsValid(q)' /\ RefundIsValid(q)'
  <2>1. job'[q] = job[q] /\ BidIsValid(q) /\ ReviewIsValid(q) /\ RefundIsValid(q)
    BY <1>3, EndKeepsLocks DEF LockInv, CheckedBidStaysValid, CheckedReviewStaysValid,
       CheckedRefundsStayValid
  <2>2. job[q].pc \in {"debit", "record", "refund"} => job[q].app \in Apps /\ job[q].app # a
    BY <1>1, OtherListing DEF a
  <2>3. BidIsValid(q)'
    <3> SUFFICES ASSUME job[q].pc \in {"debit", "record"} PROVE BidIsValid(q)'
      BY <2>1 DEF BidIsValid
    <3>1. job[q].user \in Users /\ job[q].amount \in Nat
      BY JobTypes DEF LockInv, BidJob
    <3>2. /\ balance'[job[q].user] >= balance[job[q].user]
          /\ balance'[job[q].user] \in Nat /\ balance[job[q].user] \in Nat
      BY <1>3, <3>1 DEF LockInv, TypeOK
    <3>3. job[q].pc = "record" => balance'[job[q].user] >= job[q].amount
      BY <2>1, <3>1, <3>2 DEF BidIsValid
    <3> QED BY <1>3, <2>1, <2>2, <3>3 DEF BidIsValid, IsNewKey, KeyOf
  <2>4. RefundIsValid(q)'
    <3> SUFFICES ASSUME job[q].pc = "refund" PROVE RefundIsValid(q)'
      BY <2>1 DEF RefundIsValid
    <3> QED BY <1>3, <1>4, <2>1, <2>2 DEF RefundIsValid, Unrefunded, InvestmentsIn
  <2>5. ReviewIsValid(q)'
    <3> SUFFICES ASSUME job[q].pc = "review" PROVE ReviewIsValid(q)'
      BY <2>1 DEF ReviewIsValid
    <3>1. job[q].app \in Apps /\ job[q].app # a
      BY <1>3, JobTypes DEF LockInv, ReviewJob, ApplicationFree, HoldsApplication
    <3> QED BY <1>3, <2>1, <3>1 DEF ReviewIsValid
  <2> QED BY <2>3, <2>4, <2>5
<1> QED BY <1>3, <1>6, <1>7, <1>8, CommitKeeps

-----------------------------------------------------------------------------
(* The invariant *)

LEMMA LockStep == LockInv /\ [Next]_vars => LockInv'
<1> SUFFICES ASSUME LockInv, [Next]_vars PROVE LockInv'
  OBVIOUS
<1>1. TypeOK'
  BY TypeStep DEF LockInv
<1>2. ASSUME NEW p \in Procs, UNCHANGED <<appStatus, book, balance>>, EndJob(p) \/ UNCHANGED job
      PROVE  LockInv'
  <2>1. \A u \in Users : balance'[u] >= balance[u]
    BY <1>2 DEF LockInv, TypeOK
  <2> QED BY <1>1, <1>2, <2>1, QuietKeeps
<1>3. ASSUME NEW h \in Handlers, NEW a \in Apps, Arrive(h, a) PROVE LockInv'
  <2>1. CASE \E act \in ReviewActions : ReviewLock(h, a, act)
    BY <1>1, <2>1, ReviewLockKeeps
  <2>2. CASE \E u \in Users, k \in Keys, x \in Amounts : BidLock(h, a, u, k, x)
    BY <1>1, <2>2, BidLockKeeps
  <2>3. CASE CancelLock(h, a)
    BY <1>1, <2>3, CancelLockKeeps DEF CancelLock, Cancellable
  <2> QED BY <1>3, <2>1, <2>2, <2>3 DEF Arrive
<1>4. ASSUME NEW h \in Handlers, HandlerStep(h) PROVE LockInv'
  <2>1. CASE ReviewCommit(h)
    BY <1>1, <2>1, ReviewCommitKeeps
  <2>2. CASE BidLockUser(h)
    BY <1>1, <2>2, BidLockUserKeeps
  <2>3. CASE BidCommit(h)
    BY <1>1, <2>3, BidCommitKeeps
  <2>4. CASE ReviewRefused(h) \/ BidTooPoor(h) \/ BidResent(h)
    BY <1>2, <2>4 DEF ReviewRefused, BidTooPoor, BidResent
  <2> QED BY <1>4, <2>1, <2>2, <2>3, <2>4 DEF HandlerStep
<1>5. ASSUME NEW p \in Procs, CancelFirst(p) \/ CancelRest(p) PROVE LockInv'
  BY <1>1, <1>5, RefundOneKeeps, CancelCommitKeeps DEF CancelFirst, CancelRest
<1>6. ASSUME NEW p \in Procs, Fail(p) \/ BreakDeadlock(p) PROVE LockInv'
  BY <1>2, <1>6 DEF Fail, BreakDeadlock, Rollback
<1>7. ASSUME NEW u \in Users, NEW x \in TopUps, TopUp(u, x) PROVE LockInv'
  <2>1. \A v \in Users : balance'[v] >= balance[v]
    BY <1>7 DEF TopUp, LockInv, TypeOK
  <2>2. UNCHANGED <<appStatus, book, job>>
    BY <1>7 DEF TopUp
  <2> QED BY <1>1, <2>1, <2>2, QuietKeeps
<1>8. ASSUME NEW a \in Apps, CreateApplication(a) PROVE LockInv'
  BY <1>1, <1>8, CreateKeeps
<1>9. ASSUME NEW a \in Apps, PassApiDeadline(a) \/ PassDbDeadline(a) PROVE LockInv'
  BY <1>2, <1>9 DEF PassApiDeadline, PassDbDeadline
<1>10. CASE SweepScan
  BY <1>2, <1>10 DEF SweepScan
<1>11. ASSUME NEW a \in Apps, SweepLock(a) PROVE LockInv'
  BY <1>1, <1>11, CancelLockKeeps DEF SweepLock, Cancellable
<1>12. ASSUME NEW a \in Apps, SweepSkip(a) PROVE LockInv'
  BY <1>2, <1>12 DEF SweepSkip
<1>13. CASE UNCHANGED vars
  BY <1>2, <1>13 DEF vars
<1> QED
  BY <1>3, <1>4, <1>5, <1>6, <1>7, <1>8, <1>9, <1>10, <1>11, <1>12, <1>13 DEF Next, SweepNext

\* The row locks do what the code relies on, for any number of users, listings
\* and requests: nothing a transaction checked under its locks can be undone by
\* another before it commits.
THEOREM LocksWork == Spec => []LockInv
  BY LockInit, LockStep, PTL DEF Spec

\* No bid ever over-funds a listing, overdraws a lender or is recorded twice: the
\* database's CHECK and UNIQUE constraints never have to stop one.
THEOREM BidsAreSafe == Spec => []CheckedBidStaysValid
<1>1. LockInv => CheckedBidStaysValid
  BY DEF LockInv
<1> QED BY <1>1, LocksWork, PTL

\* Of several reviewers deciding the same application at once, one decides.
THEOREM ReviewsAreSafe == Spec => []CheckedReviewStaysValid
<1>1. LockInv => CheckedReviewStaysValid
  BY DEF LockInv
<1> QED BY <1>1, LocksWork, PTL

\* A cancellation refunds exactly the investments of its listing, also when bids,
\* other cancellations and the sweep run beside it.
THEOREM CancellationsAreSafe == Spec => []CheckedRefundsStayValid
<1>1. LockInv => CheckedRefundsStayValid
  BY DEF LockInv
<1> QED BY <1>1, LocksWork, PTL

\* Applications, listings and loans never disagree.
THEOREM TablesAlwaysAgree == Spec => []TablesAgree
<1>1. LockInv => TablesAgree
  BY DEF LockInv
<1> QED BY <1>1, LocksWork, PTL

\* Every lender of a cancelled listing is refunded, and nobody else.
THEOREM RefundsAllOrNothing == Spec => []RefundsAreComplete
<1>1. LockInv => RefundsAreComplete
  BY DEF LockInv
<1> QED BY <1>1, LocksWork, PTL

-----------------------------------------------------------------------------
(* What a step may never do *)

LEMMA StepKeepsRows == LockInv /\ [Next]_vars => \A a \in Apps : RowsKept(a)
<1> SUFFICES ASSUME LockInv, [Next]_vars, NEW a \in Apps PROVE RowsKept(a)
  OBVIOUS
<1>1. CASE UNCHANGED book
  BY <1>1 DEF RowsKept, book
<1>2. ASSUME NEW h \in Handlers, ReviewCommit(h) PROVE RowsKept(a)
  <2>1. job[h].app \in Apps
    BY <1>2, JobTypes DEF LockInv, ReviewCommit, ReviewJob
  <2>2. /\ UNCHANGED <<invested, refunds>>
        /\ listingStatus[a] # "none" => listingStatus'[a] = listingStatus[a] /\ funded'[a] = funded[a]
    BY <1>2, <2>1 DEF ReviewCommit, CanList, LockInv, TypeOK
  <2> QED BY <2>2 DEF RowsKept
<1>3. ASSUME NEW h \in Handlers, BidCommit(h) PROVE RowsKept(a)
  <2> DEFINE i == KeyOf(job[h])
  <2>1. job[h].app \in Apps /\ i \in Investments /\ i[1] = job[h].app
    BY <1>3, JobTypes DEF LockInv, BidCommit, BidJob, KeyOf, Investments
  <2>2. listingStatus[job[h].app] = "funding" /\ invested[i] = 0
    BY <1>3 DEF LockInv, CheckedBidStaysValid, BidIsValid, BidCommit, IsNewKey
  <2>3. /\ UNCHANGED refunds
        /\ \A j \in Investments : j # i => invested'[j] = invested[j]
        /\ a # job[h].app => listingStatus'[a] = listingStatus[a] /\ funded'[a] = funded[a]
    BY <1>3, <2>1 DEF BidCommit, LockInv, TypeOK
  <2> HIDE DEF i
  <2> QED BY <2>1, <2>2, <2>3 DEF RowsKept, InvestmentsIn
<1>4. ASSUME NEW p \in Procs, CancelCommit(p) PROVE RowsKept(a)
  <2>1. job[p].app \in Apps /\ listingStatus[job[p].app] = "funding"
        /\ job[p].done \subseteq InvestmentsIn(job[p].app)
    BY <1>4, JobTypes DEF LockInv, CheckedRefundsStayValid, RefundIsValid, CancelCommit, CancelJob,
       Unrefunded
  <2>2. /\ UNCHANGED invested
        /\ refunds' = refunds \cup job[p].done
        /\ a # job[p].app => listingStatus'[a] = listingStatus[a] /\ funded'[a] = funded[a]
    BY <1>4, <2>1 DEF CancelCommit, LockInv, TypeOK
  <2> QED BY <2>1, <2>2 DEF RowsKept, InvestmentsIn
<1>5. \/ UNCHANGED book
      \/ \E h \in Handlers : ReviewCommit(h) \/ BidCommit(h)
      \/ \E p \in Procs : CancelCommit(p)
  <2>1. CASE UNCHANGED vars
    BY <2>1 DEF vars
  <2>2. CASE \E h \in Handlers : HandlerStep(h) \/ \E b \in Apps : Arrive(h, b)
    BY <2>2 DEF HandlerStep, ReviewRefused, BidLockUser, BidTooPoor, BidResent, Arrive, ReviewLock,
       BidLock, CancelLock
  <2>3. CASE \E p \in Procs : CancelFirst(p) \/ CancelRest(p) \/ Fail(p) \/ BreakDeadlock(p)
    BY <2>3 DEF CancelFirst, CancelRest, RefundOne, Fail, BreakDeadlock, Rollback
  <2>4. CASE \/ \E b \in Apps : CreateApplication(b) \/ PassApiDeadline(b) \/ PassDbDeadline(b)
             \/ \E u \in Users, x \in TopUps : TopUp(u, x)
    BY <2>4 DEF CreateApplication, PassApiDeadline, PassDbDeadline, TopUp
  <2>5. CASE SweepScan \/ SweepNext
    BY <2>5 DEF SweepScan, SweepNext, SweepLock, SweepSkip
  <2> QED BY <2>1, <2>2, <2>3, <2>4, <2>5 DEF Next
<1> QED BY <1>1, <1>2, <1>3, <1>4, <1>5

\* A disbursed or cancelled listing, and every row of investments, is final.
THEOREM ClosedListingsAreFrozen == Spec => ClosedListingIsFrozen
<1>1. LockInv /\ [Next]_vars => [\A a \in Apps : RowsKept(a)]_vars
  BY StepKeepsRows
<1> QED BY <1>1, LocksWork, PTL DEF Spec, ClosedListingIsFrozen

-----------------------------------------------------------------------------
(* Money.  SumTheorems has the lemmas on sums. *)

LEMMA MoneyFacts ==
  ASSUME TypeOK, NEW S, S \subseteq Investments
  PROVE  /\ IsFiniteSet(S)
         /\ \A i \in S : invested[i] \in Int
         /\ MoneyIn(S) \in Nat
<1>1. IsFiniteSet(S)
  BY FiniteInvestments, FS_Subset
<1>2. \A i \in S : invested[i] \in Nat
  BY DEF TypeOK
<1>3. MoneyIn(S) \in Nat
  BY <1>1, <1>2, SumNat DEF MoneyIn
<1> QED BY <1>1, <1>2, <1>3

LEMMA StandingFacts ==
  /\ Standing = {i \in Investments : invested[i] > 0} \ refunds
  /\ \A a \in Apps : Unrefunded(a) = {i \in Standing : i[1] = a}
<1>1. \A i \in Investments : i[1] \in Apps
  BY DEF Investments
<1> QED BY <1>1 DEF Standing, Unrefunded, InvestmentsIn

LEMMA MoneyInit == Init => FundedMatchesInvestments /\ MoneyIsConserved
<1> SUFFICES ASSUME Init PROVE FundedMatchesInvestments /\ MoneyIsConserved
  OBVIOUS
<1>1. Standing = {}
  BY StandingFacts DEF Init
<1>2. \A a \in Apps : Unrefunded(a) = {}
  BY <1>1, StandingFacts
<1>3. MoneyIn({}) = 0
  BY SumEmpty DEF MoneyIn
<1>4. FundedMatchesInvestments
  BY <1>2, <1>3 DEF Init, FundedMatchesInvestments
<1>5. SumFunctionOnSet(InitBalance, Users) \in Nat
  BY SumNat
<1>6. MoneyIsConserved
  BY <1>1, <1>3, <1>5 DEF Init, MoneyIsConserved, Standing
<1> QED BY <1>4, <1>6

LEMMA QuietMoney ==
  ASSUME FundedMatchesInvestments, MoneyIsConserved,
         UNCHANGED <<listingStatus, funded, invested, refunds, balance, deposits>>
  PROVE  FundedMatchesInvestments' /\ MoneyIsConserved'
<1>1. \A a \in Apps : Unrefunded(a)' = Unrefunded(a)
  BY DEF Unrefunded, InvestmentsIn
<1>2. Standing' = Standing
  BY <1>1 DEF Standing
<1>3. FundedMatchesInvestments'
  BY <1>1 DEF FundedMatchesInvestments, MoneyIn
<1>4. MoneyIsConserved'
  BY <1>2 DEF MoneyIsConserved, MoneyIn, Standing
<1> QED BY <1>3, <1>4

LEMMA TopUpMoney ==
  ASSUME IInv, NEW u \in Users, NEW x \in TopUps, TopUp(u, x)
  PROVE  FundedMatchesInvestments' /\ MoneyIsConserved'
<1>1. TypeOK /\ x \in Nat
  BY DEF IInv, LockInv
<1>2. /\ balance' = [balance EXCEPT ![u] = @ + x]
      /\ deposits' = deposits + x
      /\ UNCHANGED <<listingStatus, funded, invested, refunds>>
  BY DEF TopUp, book
<1>3. (\A a \in Apps : Unrefunded(a)' = Unrefunded(a)) /\ Standing' = Standing
  BY <1>2 DEF Unrefunded, InvestmentsIn, Standing
<1>4. FundedMatchesInvestments'
  BY <1>2, <1>3 DEF IInv, FundedMatchesInvestments, MoneyIn
<1>5. SumFunctionOnSet(balance', Users) = SumFunctionOnSet(balance, Users) + x
  <2>1. /\ \A v \in Users : balance[v] \in Int
        /\ balance'[u] = balance[u] + x /\ balance'[u] \in Int /\ balance[u] \in Int
        /\ \A v \in Users \ {u} : balance'[v] = balance[v]
    BY <1>1, <1>2 DEF TypeOK
  <2>2. SumFunctionOnSet(balance', Users)
          = SumFunctionOnSet(balance, Users) - balance[u] + balance'[u]
    BY <2>1, SumChange
  <2>3. SumFunctionOnSet(balance, Users) \in Int
    BY <2>1, SumInt
  <2> QED BY <1>1, <2>1, <2>2, <2>3
<1>6. MoneyIn(Standing)' = MoneyIn(Standing)
  BY <1>2, <1>3 DEF MoneyIn
<1>7. MoneyIsConserved'
  <2>1. MoneyIn(Standing) \in Nat
    BY <1>1, StandingFacts, MoneyFacts
  <2>2. /\ SumFunctionOnSet(balance, Users) \in Nat
        /\ SumFunctionOnSet(InitBalance, Users) \in Nat
        /\ deposits \in Nat
    BY <1>1, SumNat DEF TypeOK
  <2> QED BY <1>1, <1>2, <1>5, <1>6, <2>1, <2>2 DEF IInv, MoneyIsConserved
<1> QED BY <1>4, <1>7

\* What the commit of a bid does to the investments that stand in listings.
LEMMA BidFacts ==
  ASSUME IInv, NEW h \in Handlers, BidCommit(h),
         NEW a, a = job[h].app, NEW u, u = job[h].user,
         NEW x, x = job[h].amount, NEW i, i = KeyOf(job[h])
  PROVE  /\ a \in Apps /\ u \in Users /\ job[h].key \in Keys /\ x \in Nat \ {0}
         /\ i \in Investments /\ i[1] = a /\ i[2] = u
         /\ invested[i] = 0 /\ i \notin refunds
         /\ listingStatus[a] = "funding" /\ appStatus[a] = "funding"
         /\ funded[a] + x <= Target[a] /\ x <= balance[u]
         /\ invested' = [invested EXCEPT ![i] = x]
         /\ balance' = [balance EXCEPT ![u] = @ - x]
         /\ funded' = [funded EXCEPT ![a] = @ + x]
         /\ UNCHANGED <<refunds, deposits, reviews>>
         /\ listingStatus' = [listingStatus EXCEPT ![a] =
                IF funded[a] + x = Target[a] THEN "disbursed" ELSE @]
         /\ appStatus' = [appStatus EXCEPT ![a] =
                IF funded[a] + x = Target[a] THEN "disbursed" ELSE @]
         /\ \A b \in Apps : Unrefunded(b)' = IF b = a THEN Unrefunded(b) \cup {i} ELSE Unrefunded(b)
         /\ Standing' = Standing \cup {i}
<1>1. job[h].pc = "record" /\ job[h] \in BidJob /\ TypeOK
  BY JobTypes DEF IInv, LockInv, BidCommit
<1>2. a \in Apps /\ u \in Users /\ job[h].key \in Keys /\ x \in Nat \ {0}
  BY <1>1 DEF BidJob
<1>3. i \in Investments /\ i[1] = a /\ i[2] = u
  BY <1>2 DEF KeyOf, Investments
<1>4. /\ listingStatus[a] = "funding" /\ invested[i] = 0
      /\ funded[a] + x <= Target[a] /\ x <= balance[u]
  <2>1. BidIsValid(h)
    BY DEF IInv, LockInv, CheckedBidStaysValid
  <2>2. x <= balance[u]
    BY <1>1, <1>2, <2>1 DEF BidIsValid, TypeOK
  <2> QED BY <1>1, <2>1, <2>2 DEF BidIsValid, IsNewKey
<1>5. i \notin refunds /\ appStatus[a] = "funding"
  <2>1. InvestmentsIn(a) \cap refunds = {}
    BY <1>2, <1>4 DEF IInv, LockInv, RefundsAreComplete
  <2> QED BY <1>2, <1>3, <1>4, <2>1 DEF IInv, LockInv, TablesAgree, InvestmentsIn
<1>6. Full(job[h]) <=> funded[a] + x = Target[a]
  <2>1. funded[a] \in Nat /\ Target[a] \in Nat
    BY <1>1, <1>2 DEF TypeOK
  <2> QED BY <1>2, <1>4, <2>1 DEF Full
<1>7. /\ invested' = [invested EXCEPT ![i] = x]
      /\ balance' = [balance EXCEPT ![u] = @ - x]
      /\ funded' = [funded EXCEPT ![a] = @ + x]
      /\ UNCHANGED <<refunds, deposits, reviews>>
      /\ listingStatus' = [listingStatus EXCEPT ![a] =
             IF Full(job[h]) THEN "disbursed" ELSE @]
      /\ appStatus' = [appStatus EXCEPT ![a] =
             IF Full(job[h]) THEN "disbursed" ELSE @]
  BY DEF BidCommit, counters
<1>8. /\ invested'[i] = x
      /\ \A j \in Investments : j # i => invested'[j] = invested[j]
  BY <1>1, <1>3, <1>7 DEF TypeOK
<1>9. \A b \in Apps : Unrefunded(b)' = IF b = a THEN Unrefunded(b) \cup {i} ELSE Unrefunded(b)
  BY <1>2, <1>3, <1>4, <1>5, <1>7, <1>8 DEF Unrefunded, InvestmentsIn
<1>10. Standing' = Standing \cup {i}
  <2>1. Standing' = {j \in Investments : invested'[j] > 0} \ refunds'
    <3>1. \A j \in Investments : j[1] \in Apps
      BY DEF Investments
    <3> QED BY <3>1 DEF Standing, Unrefunded, InvestmentsIn
  <2> QED BY <1>2, <1>3, <1>4, <1>5, <1>7, <1>8, <2>1, StandingFacts
<1>11. /\ listingStatus' = [listingStatus EXCEPT ![a] =
              IF funded[a] + x = Target[a] THEN "disbursed" ELSE @]
       /\ appStatus' = [appStatus EXCEPT ![a] =
              IF funded[a] + x = Target[a] THEN "disbursed" ELSE @]
  BY <1>6, <1>7
<1> QED BY <1>2, <1>3, <1>4, <1>5, <1>7, <1>9, <1>10, <1>11

LEMMA BidMoney ==
  ASSUME IInv, NEW h \in Handlers, BidCommit(h)
  PROVE  FundedMatchesInvestments' /\ MoneyIsConserved'
<1>0. PICK a, u, x, i :
         a = job[h].app /\ u = job[h].user /\ x = job[h].amount /\ i = KeyOf(job[h])
  OBVIOUS
<1>1. /\ a \in Apps /\ u \in Users /\ x \in Nat \ {0}
      /\ i \in Investments /\ invested[i] = 0
      /\ listingStatus[a] = "funding"
      /\ funded[a] + x <= Target[a]
      /\ invested' = [invested EXCEPT ![i] = x]
      /\ balance' = [balance EXCEPT ![u] = @ - x]
      /\ funded' = [funded EXCEPT ![a] = @ + x]
      /\ deposits' = deposits
      /\ listingStatus' = [listingStatus EXCEPT ![a] =
             IF funded[a] + x = Target[a] THEN "disbursed" ELSE @]
      /\ \A b \in Apps : Unrefunded(b)' = IF b = a THEN Unrefunded(b) \cup {i} ELSE Unrefunded(b)
      /\ Standing' = Standing \cup {i}
  BY <1>0, BidFacts
<1>2. TypeOK
  BY DEF IInv, LockInv
<1>3. /\ invested'[i] = x
      /\ \A j \in Investments \ {i} : invested'[j] = invested[j]
  BY <1>1, <1>2 DEF TypeOK
\* The new investment adds its amount to a set of investments; it changes no other.
<1>4. ASSUME NEW S, S \subseteq Standing
      PROVE  /\ SumFunctionOnSet(invested', S \cup {i}) = MoneyIn(S) + x
             /\ SumFunctionOnSet(invested', S) = MoneyIn(S)
  <2>1. S \subseteq Investments /\ i \notin S
    BY <1>1, <1>4, StandingFacts
  <2>2. IsFiniteSet(S) /\ (\A j \in S : invested[j] \in Int) /\ MoneyIn(S) \in Nat
    BY <1>2, <2>1, MoneyFacts
  <2>3. \A j \in S : invested'[j] = invested[j]
    BY <1>3, <2>1
  <2>4. SumFunctionOnSet(invested', S) = MoneyIn(S)
    BY <2>2, <2>3, SumSame DEF MoneyIn
  <2>5. \A j \in S \cup {i} : invested'[j] \in Int
    BY <1>1, <1>3, <2>2, <2>3
  <2>6. SumFunctionOnSet(invested', S \cup {i}) = invested'[i] + SumFunctionOnSet(invested', S)
    BY <2>1, <2>2, <2>5, SumAdd
  <2> QED BY <1>1, <1>3, <2>2, <2>4, <2>6
<1>5. FundedMatchesInvestments'
  <2> SUFFICES ASSUME NEW b \in Apps
               PROVE  /\ funded'[b] = MoneyIn(Unrefunded(b))'
                      /\ listingStatus'[b] = "funding" => funded'[b] < Target[b]
                      /\ listingStatus'[b] = "disbursed" => funded'[b] = Target[b]
                      /\ listingStatus'[b] \in {"none", "cancelled"} => funded'[b] = 0
    BY DEF FundedMatchesInvestments
  <2>1. /\ funded[b] = MoneyIn(Unrefunded(b))
        /\ listingStatus[b] = "funding" => funded[b] < Target[b]
        /\ listingStatus[b] = "disbursed" => funded[b] = Target[b]
        /\ listingStatus[b] \in {"none", "cancelled"} => funded[b] = 0
    BY DEF IInv, FundedMatchesInvestments
  <2>2. Unrefunded(b) \subseteq Standing
    BY StandingFacts
  <2>3. funded[b] \in Nat /\ Target[b] \in Nat
    BY <1>2 DEF TypeOK
  <2>4. CASE b = a
    <3>1. funded'[b] = funded[b] + x
      BY <1>1, <1>2, <2>4 DEF TypeOK
    <3>2. MoneyIn(Unrefunded(b))' = MoneyIn(Unrefunded(b)) + x
      <4>1. Unrefunded(b)' = Unrefunded(b) \cup {i}
        BY <1>1, <2>4
      <4>2. SumFunctionOnSet(invested', Unrefunded(b) \cup {i}) = MoneyIn(Unrefunded(b)) + x
        BY <1>4, <2>2
      <4> QED BY <4>1, <4>2 DEF MoneyIn
    <3>3. listingStatus'[b] = IF funded[b] + x = Target[b] THEN "disbursed" ELSE "funding"
      BY <1>1, <1>2, <2>4 DEF TypeOK
    <3> QED BY <1>1, <2>1, <2>3, <2>4, <3>1, <3>2, <3>3
  <2>5. CASE b # a
    <3>1. funded'[b] = funded[b] /\ listingStatus'[b] = listingStatus[b]
      BY <1>1, <1>2, <2>5 DEF TypeOK
    <3>2. MoneyIn(Unrefunded(b))' = MoneyIn(Unrefunded(b))
      BY <1>1, <1>4, <2>2, <2>5 DEF MoneyIn
    <3> QED BY <2>1, <3>1, <3>2
  <2> QED BY <2>4, <2>5
<1>6. MoneyIsConserved'
  <2>1. /\ u \in Users /\ \A v \in Users : balance[v] \in Int
        /\ balance'[u] = balance[u] - x /\ balance'[u] \in Int /\ balance[u] \in Int
        /\ \A v \in Users \ {u} : balance'[v] = balance[v]
    BY <1>1, <1>2 DEF TypeOK
  <2>2. SumFunctionOnSet(balance', Users)
          = SumFunctionOnSet(balance, Users) - balance[u] + balance'[u]
    BY <2>1, SumChange
  <2>3. SumFunctionOnSet(balance, Users) \in Int /\ SumFunctionOnSet(InitBalance, Users) \in Int
    BY <2>1, SumInt
  <2>4. MoneyIn(Standing)' = MoneyIn(Standing) + x
    BY <1>1, <1>4 DEF MoneyIn
  <2>5. MoneyIn(Standing) \in Nat /\ deposits \in Nat
    BY <1>2, StandingFacts, MoneyFacts DEF TypeOK
  <2> QED BY <1>1, <2>1, <2>2, <2>3, <2>4, <2>5 DEF IInv, MoneyIsConserved
<1> QED BY <1>5, <1>6

\* What the commit of a cancellation does to the investments that stand in listings.
LEMMA CancelFacts ==
  ASSUME IInv, NEW p \in Procs, CancelCommit(p), NEW a, a = job[p].app
  PROVE  /\ a \in Apps /\ listingStatus[a] = "funding" /\ appStatus[a] = "funding"
         /\ job[p].credit \in [Users -> Nat]
         /\ \A u \in Users : job[p].credit[u] = MoneyIn({i \in Unrefunded(a) : i[2] = u})
         /\ refunds' = refunds \cup Unrefunded(a)
         /\ balance' = [u \in Users |-> balance[u] + job[p].credit[u]]
         /\ listingStatus' = [listingStatus EXCEPT ![a] = "cancelled"]
         /\ funded' = [funded EXCEPT ![a] = 0]
         /\ appStatus' = [appStatus EXCEPT ![a] = "more_info_required"]
         /\ UNCHANGED <<invested, deposits, reviews>>
         /\ \A b \in Apps : Unrefunded(b)' = IF b = a THEN {} ELSE Unrefunded(b)
         /\ Standing' = Standing \ Unrefunded(a)
<1>1. job[p].pc = "refund" /\ job[p] \in CancelJob /\ job[p].todo = {}
  BY JobTypes DEF IInv, LockInv, CancelCommit
<1>2. a \in Apps /\ job[p].credit \in [Users -> Nat]
  BY <1>1 DEF CancelJob
<1>3. listingStatus[a] = "funding" /\ job[p].done = Unrefunded(a)
  BY <1>1 DEF IInv, LockInv, CheckedRefundsStayValid, RefundIsValid
<1>4. appStatus[a] = "funding"
  BY <1>2, <1>3 DEF IInv, LockInv, TablesAgree
<1>5. \A u \in Users : job[p].credit[u] = MoneyIn({i \in Unrefunded(a) : i[2] = u})
  BY <1>1, <1>3 DEF IInv, CreditIsDue
<1>6. /\ refunds' = refunds \cup Unrefunded(a)
      /\ balance' = [u \in Users |-> balance[u] + job[p].credit[u]]
      /\ listingStatus' = [listingStatus EXCEPT ![a] = "cancelled"]
      /\ funded' = [funded EXCEPT ![a] = 0]
      /\ appStatus' = [appStatus EXCEPT ![a] = "more_info_required"]
      /\ UNCHANGED <<invested, deposits, reviews>>
  BY <1>3 DEF CancelCommit, counters
<1>7. \A b \in Apps : Unrefunded(b)' = IF b = a THEN {} ELSE Unrefunded(b)
  BY <1>6 DEF Unrefunded, InvestmentsIn
<1>8. Standing' = Standing \ Unrefunded(a)
  BY <1>2, <1>7, StandingFacts DEF Standing
<1> QED BY <1>2, <1>3, <1>4, <1>5, <1>6, <1>7, <1>8

\* What a cancellation pays out altogether.
LEMMA CreditsAddUp ==
  ASSUME TypeOK, NEW S, S \subseteq Investments, NEW credit,
         \A u \in Users : credit[u] = MoneyIn({i \in S : i[2] = u})
  PROVE  SumFunctionOnSet(credit, Users) = MoneyIn(S)
<1> DEFINE lender == [i \in S |-> i[2]]
           Of(u) == {i \in S : lender[i] = u}
           owed == [u \in Users |-> SumFunctionOnSet(invested, Of(u))]
<1>1. IsFiniteSet(S) /\ \A i \in S : invested[i] \in Int
  BY MoneyFacts
<1>2. \A i \in S : lender[i] \in Users
  BY DEF Investments
<1> HIDE DEF lender
<1>3. SumFunctionOnSet(owed, Users) = SumFunctionOnSet(invested, S)
  <2>1. IsFiniteSet(Users)
    OBVIOUS
  <2>2. SumFunctionOnSet([u \in Users |-> SumFunctionOnSet(invested, {i \in S : lender[i] = u})], Users)
          = SumFunctionOnSet(invested, S)
    BY ONLY <1>1, <1>2, <2>1, SumGrouped
  <2> QED BY <2>2
<1>4. ASSUME NEW u \in Users PROVE credit[u] = owed[u]
  <2>1. Of(u) = {i \in S : i[2] = u}
    BY DEF lender
  <2> QED BY <2>1 DEF MoneyIn
<1> HIDE DEF owed
<1>5. SumFunctionOnSet(credit, Users) = SumFunctionOnSet(owed, Users)
  BY <1>4, SumSame
<1> QED BY <1>3, <1>5 DEF MoneyIn

LEMMA CancelMoney ==
  ASSUME IInv, NEW p \in Procs, CancelCommit(p)
  PROVE  FundedMatchesInvestments' /\ MoneyIsConserved'
<1>0. PICK a, credit : a = job[p].app /\ credit = job[p].credit
  OBVIOUS
<1>1. /\ a \in Apps /\ listingStatus[a] = "funding"
      /\ credit \in [Users -> Nat]
      /\ \A u \in Users : credit[u] = MoneyIn({i \in Unrefunded(a) : i[2] = u})
      /\ balance' = [u \in Users |-> balance[u] + credit[u]]
      /\ listingStatus' = [listingStatus EXCEPT ![a] = "cancelled"]
      /\ funded' = [funded EXCEPT ![a] = 0]
      /\ UNCHANGED <<invested, deposits>>
      /\ \A b \in Apps : Unrefunded(b)' = IF b = a THEN {} ELSE Unrefunded(b)
      /\ Standing' = Standing \ Unrefunded(a)
  BY <1>0, CancelFacts
<1>2. TypeOK
  BY DEF IInv, LockInv
<1>3. FundedMatchesInvestments'
  <2> SUFFICES ASSUME NEW b \in Apps
               PROVE  /\ funded'[b] = MoneyIn(Unrefunded(b))'
                      /\ listingStatus'[b] = "funding" => funded'[b] < Target[b]
                      /\ listingStatus'[b] = "disbursed" => funded'[b] = Target[b]
                      /\ listingStatus'[b] \in {"none", "cancelled"} => funded'[b] = 0
    BY DEF FundedMatchesInvestments
  <2>1. CASE b = a
    <3>1. MoneyIn(Unrefunded(b))' = 0
      BY <1>1, <2>1, SumEmpty DEF MoneyIn
    <3> QED BY <1>1, <1>2, <2>1, <3>1 DEF TypeOK
  <2>2. CASE b # a
    <3>1. MoneyIn(Unrefunded(b))' = MoneyIn(Unrefunded(b))
      BY <1>1, <2>2 DEF MoneyIn
    <3>2. funded'[b] = funded[b] /\ listingStatus'[b] = listingStatus[b]
      BY <1>1, <1>2, <2>2 DEF TypeOK
    <3> QED BY <3>1, <3>2 DEF IInv, FundedMatchesInvestments
  <2> QED BY <2>1, <2>2
<1>4. MoneyIsConserved'
  <2> DEFINE back == Unrefunded(a)
             rest == Standing \ back
  <2>1. back \subseteq Investments /\ rest \subseteq Investments /\ back \cup rest = Standing
    BY <1>1, StandingFacts
  <2>2. /\ IsFiniteSet(back) /\ IsFiniteSet(rest)
        /\ \A i \in back \cup rest : invested[i] \in Int
        /\ MoneyIn(back) \in Nat /\ MoneyIn(rest) \in Nat
    BY <1>2, <2>1, MoneyFacts
  <2>3. MoneyIn(Standing) = MoneyIn(back) + MoneyIn(rest)
    <3>1. SumFunctionOnSet(invested, back \cup rest)
            = SumFunctionOnSet(invested, back) + SumFunctionOnSet(invested, rest)
      BY <2>2, SumUnion
    <3> QED BY <2>1, <3>1 DEF MoneyIn
  <2>4. MoneyIn(Standing)' = MoneyIn(rest)
    BY <1>1 DEF MoneyIn
  <2>5. SumFunctionOnSet(credit, Users) = MoneyIn(back)
    BY <1>1, <1>2, <2>1, CreditsAddUp
  <2>6. \A u \in Users : balance[u] \in Nat /\ credit[u] \in Nat /\ balance'[u] = balance[u] + credit[u]
    BY <1>1, <1>2 DEF TypeOK
  <2>7. SumFunctionOnSet(balance', Users) = SumFunctionOnSet(balance, Users) + SumFunctionOnSet(credit, Users)
    BY <2>6, SumPlus
  <2>8. /\ SumFunctionOnSet(balance, Users) \in Nat
        /\ SumFunctionOnSet(InitBalance, Users) \in Nat
        /\ deposits \in Nat /\ deposits' = deposits
    BY <1>1, <1>2, <2>6, SumNat DEF TypeOK
  <2> HIDE DEF back, rest
  <2> QED BY <2>2, <2>3, <2>4, <2>5, <2>7, <2>8 DEF IInv, MoneyIsConserved
<1> QED BY <1>3, <1>4

-----------------------------------------------------------------------------
(* The credits of a cancellation under way *)

LEMMA CreditKept ==
  ASSUME TypeOK, NEW p \in Procs, CreditIsDue(p), RefundIsValid(p), job'[p] = job[p],
         \A i \in Investments : invested[i] > 0 => invested'[i] = invested[i]
  PROVE  CreditIsDue(p)'
<1> SUFFICES ASSUME job[p].pc = "refund", NEW u \in Users
             PROVE  job[p].credit[u] = SumFunctionOnSet(invested', {i \in job[p].done : i[2] = u})
  BY DEF CreditIsDue, MoneyIn
<1> DEFINE S == {i \in job[p].done : i[2] = u}
<1>1. S \subseteq Investments /\ \A i \in S : invested[i] > 0
  BY DEF RefundIsValid, Unrefunded, InvestmentsIn
<1>2. IsFiniteSet(S) /\ \A i \in S : invested'[i] = invested[i]
  BY <1>1, MoneyFacts
<1>3. SumFunctionOnSet(invested', S) = SumFunctionOnSet(invested, S)
  BY <1>2, SumSame
<1> QED BY <1>3 DEF CreditIsDue, MoneyIn

LEMMA CreditStarted ==
  ASSUME NEW p \in Procs, NEW a \in Apps, job'[p] = CancelStart(a)
  PROVE  CreditIsDue(p)'
<1> SUFFICES ASSUME NEW u \in Users
             PROVE  job'[p].credit[u] = SumFunctionOnSet(invested', {i \in job'[p].done : i[2] = u})
  BY DEF CreditIsDue, MoneyIn
<1>1. job'[p].credit[u] = 0 /\ {i \in job'[p].done : i[2] = u} = {}
  BY DEF CancelStart
<1> QED BY <1>1, SumEmpty

LEMMA CreditRaised ==
  ASSUME IInv, NEW p \in Procs, NEW i \in Investments, RefundOne(p, i)
  PROVE  CreditIsDue(p)'
<1>0. PICK c : c = job[p]
  OBVIOUS
<1>1. /\ TypeOK /\ c \in CancelJob /\ c.pc = "refund" /\ CreditIsDue(p) /\ RefundIsValid(p)
      /\ c.done \subseteq Investments
  BY <1>0, JobTypes DEF IInv, LockInv, RefundOne, CheckedRefundsStayValid, CancelJob
<1>2. job'[p] = [pc |-> "refund", app |-> c.app, todo |-> c.todo \ {i}, done |-> c.done \cup {i},
                 credit |-> [c.credit EXCEPT ![i[2]] = @ + invested[i]]]
  BY <1>0, <1>1 DEF RefundOne, Credit, TypeOK
<1>3. UNCHANGED invested
  BY DEF RefundOne, book
<1>4. i \notin c.done
  BY <1>0, <1>1 DEF RefundOne, IsNext, RefundIsValid
<1> SUFFICES ASSUME NEW u \in Users
             PROVE  job'[p].credit[u] = SumFunctionOnSet(invested, {j \in c.done \cup {i} : j[2] = u})
  BY <1>2, <1>3 DEF CreditIsDue, MoneyIn
<1> DEFINE S == {j \in c.done : j[2] = u}
<1>5. c.credit[u] = SumFunctionOnSet(invested, S) /\ c.credit \in [Users -> Nat]
  BY <1>0, <1>1 DEF CreditIsDue, MoneyIn, CancelJob
<1>6. CASE i[2] = u
  <2>1. {j \in c.done \cup {i} : j[2] = u} = S \cup {i} /\ i \notin S
    BY <1>4, <1>6
  <2>2. IsFiniteSet(S) /\ \A j \in S \cup {i} : invested[j] \in Int
    BY <1>1, MoneyFacts DEF TypeOK
  <2>3. SumFunctionOnSet(invested, S \cup {i}) = invested[i] + SumFunctionOnSet(invested, S)
    BY <2>1, <2>2, SumAdd
  <2>4. job'[p].credit[u] = c.credit[u] + invested[i]
    BY <1>2, <1>5, <1>6
  <2>5. invested[i] \in Int /\ c.credit[u] \in Int
    BY <1>5, <2>2
  <2>6. SumFunctionOnSet(invested, {j \in c.done \cup {i} : j[2] = u}) = invested[i] + c.credit[u]
    BY <1>5, <2>1, <2>3
  <2> QED BY <2>4, <2>5, <2>6
<1>7. CASE i[2] # u
  <2>1. {j \in c.done \cup {i} : j[2] = u} = S
    BY <1>7
  <2>2. job'[p].credit[u] = c.credit[u]
    BY <1>2, <1>5, <1>7
  <2> QED BY <1>5, <2>1, <2>2
<1> QED BY <1>6, <1>7

-----------------------------------------------------------------------------
(* Every step *)

\* A review moves no money: the listing it opens has no investments yet.
LEMMA ReviewMoney ==
  ASSUME IInv, NEW h \in Handlers, ReviewCommit(h)
  PROVE  FundedMatchesInvestments' /\ MoneyIsConserved'
<1>0. PICK a, act : a = job[h].app /\ act = job[h].act
  OBVIOUS
<1>1. a \in Apps /\ TypeOK
  BY <1>0, JobTypes DEF IInv, LockInv, ReviewCommit, ReviewJob
<1>2. /\ listingStatus' = [listingStatus EXCEPT ![a] = IF act = "approve" THEN "funding" ELSE @]
      /\ funded' = [funded EXCEPT ![a] = IF act = "approve" THEN 0 ELSE @]
      /\ act = "approve" => listingStatus[a] = "none"
      /\ UNCHANGED <<invested, refunds, balance, deposits>>
  BY <1>0 DEF ReviewCommit, CanList, counters
<1>3. funded' = funded
  <2>1. act = "approve" => funded[a] = 0
    BY <1>1, <1>2 DEF IInv, FundedMatchesInvestments
  <2> QED BY <1>1, <1>2, <2>1 DEF TypeOK
<1>4. (\A b \in Apps : Unrefunded(b)' = Unrefunded(b)) /\ Standing' = Standing
  BY <1>2 DEF Unrefunded, InvestmentsIn, Standing
<1>5. FundedMatchesInvestments'
  <2> SUFFICES ASSUME NEW b \in Apps
               PROVE  /\ funded'[b] = MoneyIn(Unrefunded(b))'
                      /\ listingStatus'[b] = "funding" => funded'[b] < Target[b]
                      /\ listingStatus'[b] = "disbursed" => funded'[b] = Target[b]
                      /\ listingStatus'[b] \in {"none", "cancelled"} => funded'[b] = 0
    BY DEF FundedMatchesInvestments
  <2>1. MoneyIn(Unrefunded(b))' = MoneyIn(Unrefunded(b)) /\ funded'[b] = funded[b]
    BY <1>2, <1>3, <1>4 DEF MoneyIn
  <2>2. listingStatus'[b] = listingStatus[b] \/ (listingStatus[b] = "none" /\ listingStatus'[b] = "funding")
    BY <1>1, <1>2 DEF TypeOK
  <2>3. 0 < Target[b]
    OBVIOUS
  <2> QED BY <2>1, <2>2, <2>3 DEF IInv, FundedMatchesInvestments
<1>6. MoneyIsConserved'
  BY <1>2, <1>4 DEF IInv, MoneyIsConserved, MoneyIn
<1> QED BY <1>5, <1>6

LEMMA Kinds ==
  ASSUME [Next]_vars
  PROVE  \/ UNCHANGED <<appStatus, reviews, book, balance, deposits>>
         \/ \E a \in Apps : CreateApplication(a)
         \/ \E h \in Handlers : ReviewCommit(h)
         \/ \E h \in Handlers : BidCommit(h)
         \/ \E p \in Procs : CancelCommit(p)
         \/ \E u \in Users, x \in TopUps : TopUp(u, x)
<1> USE DEF counters
<1>1. CASE UNCHANGED vars
  BY <1>1 DEF vars
<1>2. CASE \E h \in Handlers : HandlerStep(h) \/ \E b \in Apps : Arrive(h, b)
  BY <1>2 DEF HandlerStep, ReviewRefused, BidLockUser, BidTooPoor, BidResent, Arrive, ReviewLock,
     BidLock, CancelLock
<1>3. CASE \E p \in Procs : CancelFirst(p) \/ CancelRest(p) \/ Fail(p) \/ BreakDeadlock(p)
  BY <1>3 DEF CancelFirst, CancelRest, RefundOne, Fail, BreakDeadlock, Rollback
<1>4. CASE \/ \E b \in Apps : CreateApplication(b) \/ PassApiDeadline(b) \/ PassDbDeadline(b)
           \/ \E u \in Users, x \in TopUps : TopUp(u, x)
  BY <1>4 DEF PassApiDeadline, PassDbDeadline
<1>5. CASE SweepScan \/ SweepNext
  BY <1>5 DEF SweepScan, SweepNext, SweepLock, SweepSkip
<1> QED BY <1>1, <1>2, <1>3, <1>4, <1>5 DEF Next

LEMMA MoneyStep ==
  ASSUME IInv, [Next]_vars
  PROVE  FundedMatchesInvestments' /\ MoneyIsConserved'
<1>1. CASE UNCHANGED <<appStatus, reviews, book, balance, deposits>>
  BY <1>1, QuietMoney DEF IInv, book
<1>2. CASE \E a \in Apps : CreateApplication(a)
  BY <1>2, QuietMoney DEF IInv, CreateApplication, book, counters
<1> QED BY <1>1, <1>2, Kinds, ReviewMoney, BidMoney, CancelMoney, TopUpMoney

\* How a step changes what one process is doing, as far as refunds go.
LEMMA RefundKinds ==
  ASSUME TypeOK, [Next]_vars, NEW p \in Procs
  PROVE  \/ job'[p] = job[p]
         \/ job'[p].pc # "refund"
         \/ \E a \in Apps : job'[p] = CancelStart(a)
         \/ \E i \in Investments : RefundOne(p, i)
<1> DEFINE Kind == \/ job'[p] = job[p]
                   \/ job'[p].pc # "refund"
                   \/ \E a \in Apps : job'[p] = CancelStart(a)
                   \/ \E i \in Investments : RefundOne(p, i)
<1>1. ASSUME NEW q \in Procs, EndJob(q) PROVE Kind
  BY <1>1 DEF EndJob, Idle, TypeOK
<1>2. CASE UNCHANGED job
  BY <1>2
<1>3. CASE \E h \in Handlers : HandlerStep(h)
  <2> PICK h \in Handlers : HandlerStep(h)
    BY <1>3
  <2>1. CASE BidLockUser(h)
    BY <2>1 DEF BidLockUser, TypeOK
  <2>2. CASE EndJob(h)
    BY <1>1, <2>2
  <2> QED BY <2>1, <2>2 DEF HandlerStep, ReviewCommit, ReviewRefused, BidTooPoor, BidResent, BidCommit
<1>4. CASE \E h \in Handlers, b \in Apps : Arrive(h, b)
  <2> PICK h \in Handlers, b \in Apps : Arrive(h, b)
    BY <1>4
  <2>1. CASE \E act \in ReviewActions : ReviewLock(h, b, act)
    BY <2>1 DEF ReviewLock, TypeOK
  <2>2. CASE \E u \in Users, k \in Keys, x \in Amounts : BidLock(h, b, u, k, x)
    BY <2>2 DEF BidLock, TypeOK
  <2>3. CASE CancelLock(h, b)
    BY <2>3 DEF CancelLock, TypeOK
  <2> QED BY <2>1, <2>2, <2>3 DEF Arrive
<1>5. CASE \E q \in Procs : CancelFirst(q) \/ CancelRest(q)
  <2> PICK q \in Procs : CancelFirst(q) \/ CancelRest(q)
    BY <1>5
  <2>1. CASE CancelCommit(q)
    BY <1>1, <2>1 DEF CancelCommit
  <2>2. CASE \E i \in Investments : RefundOne(q, i)
    <3> PICK i \in Investments : RefundOne(q, i)
      BY <2>2
    <3>1. q # p => job'[p] = job[p]
      BY DEF RefundOne, TypeOK
    <3> QED BY <3>1
  <2> QED BY <2>1, <2>2 DEF CancelFirst, CancelRest
<1>6. CASE \E q \in Procs : Fail(q) \/ BreakDeadlock(q)
  BY <1>1, <1>6 DEF Fail, BreakDeadlock, Rollback
<1>7. CASE \E a \in Apps : SweepLock(a)
  BY <1>7 DEF SweepLock, TypeOK
<1> QED
  BY <1>2, <1>3, <1>4, <1>5, <1>6, <1>7
     DEF Next, vars, CreateApplication, PassApiDeadline, PassDbDeadline, TopUp, SweepScan, SweepNext, SweepSkip

LEMMA CreditStep ==
  ASSUME IInv, [Next]_vars, NEW p \in Procs
  PROVE  CreditIsDue(p)'
<1>1. TypeOK /\ CreditIsDue(p) /\ RefundIsValid(p)
  BY DEF IInv, LockInv, CheckedRefundsStayValid
<1>2. \A i \in Investments : invested[i] > 0 => invested'[i] = invested[i]
  <2>1. \A a \in Apps : RowsKept(a)
    BY StepKeepsRows DEF IInv
  <2>2. \A i \in Investments : i[1] \in Apps
    BY DEF Investments
  <2> QED BY <2>1, <2>2 DEF RowsKept, InvestmentsIn
<1>3. CASE job'[p] = job[p]
  BY <1>1, <1>2, <1>3, CreditKept
<1>4. CASE job'[p].pc # "refund"
  BY <1>4 DEF CreditIsDue
<1> QED BY <1>1, <1>3, <1>4, RefundKinds, CreditStarted, CreditRaised

-----------------------------------------------------------------------------
(* The audit trail *)

LastStatus(a) == reviews[a][Len(reviews[a])][2]

\* Reviewed and funded, a listing was approved by the last review.
LEMMA ApprovedLast ==
  ASSUME IInv, NEW a \in Apps, appStatus[a] = "funding", Len(reviews[a]) > 0
  PROVE  LastStatus(a) = "funding"
  BY DEF IInv, ReviewTrail, LastStatus

\* A step that appends to no trail and takes an application only from funding to
\* disbursed or back to more_info_required.
LEMMA SettledTrail ==
  ASSUME IInv, UNCHANGED reviews, NEW a \in Apps, appStatus[a] = "funding",
         NEW to \in {"funding", "disbursed", "more_info_required"},
         appStatus' = [appStatus EXCEPT ![a] = to]
  PROVE  ReviewTrail' /\ \A b \in Apps : NotYetReviewed(b)'
<1>1. TypeOK
  BY DEF IInv, LockInv
<1>2. appStatus'[a] = to /\ \A b \in Apps \ {a} : appStatus'[b] = appStatus[b]
  BY <1>1 DEF TypeOK
<1>3. Len(reviews[a]) > 0 => reviews[a][Len(reviews[a])][2] = "funding"
  BY ApprovedLast DEF LastStatus
<1>4. ReviewTrail'
  BY <1>2, <1>3 DEF IInv, ReviewTrail
<1>5. \A b \in Apps : NotYetReviewed(b)'
  BY <1>2 DEF IInv, NotYetReviewed
<1> QED BY <1>4, <1>5

LEMMA CreatedTrail ==
  ASSUME IInv, NEW a \in Apps, CreateApplication(a)
  PROVE  ReviewTrail' /\ \A b \in Apps : NotYetReviewed(b)'
<1>1. TypeOK
  BY DEF IInv, LockInv
<1>2. /\ appStatus'[a] = "pending" /\ appStatus[a] = "absent"
      /\ \A b \in Apps \ {a} : appStatus'[b] = appStatus[b]
      /\ UNCHANGED reviews
  BY <1>1 DEF CreateApplication, TypeOK
<1>3. reviews[a] = << >> /\ Len(reviews[a]) = 0
  BY <1>2 DEF IInv, NotYetReviewed
<1>4. ReviewTrail'
  BY <1>2, <1>3 DEF IInv, ReviewTrail
<1>5. \A b \in Apps : NotYetReviewed(b)'
  BY <1>2 DEF IInv, NotYetReviewed
<1> QED BY <1>4, <1>5

LEMMA ReviewedTrail ==
  ASSUME IInv, NEW h \in Handlers, ReviewCommit(h)
  PROVE  ReviewTrail' /\ \A b \in Apps : NotYetReviewed(b)'
<1>0. PICK a, from, to : a = job[h].app /\ from = job[h].from /\ to = ReviewTransitions[job[h].act]
  OBVIOUS
<1>1. /\ TypeOK /\ a \in Apps /\ from \in AppStatuses /\ to \in AppStatuses \ {"absent"}
      /\ from = appStatus[a] /\ from \in {"pending", "more_info_required"}
  <2>1. job[h].pc = "review" /\ job[h] \in ReviewJob /\ TypeOK
    BY JobTypes DEF IInv, LockInv, ReviewCommit
  <2>2. a \in Apps /\ from \in AppStatuses /\ to \in AppStatuses \ {"absent"}
    BY <1>0, <2>1 DEF ReviewJob, ReviewTransitions, ReviewActions, AppStatuses
  <2>3. from = appStatus[a] /\ from \in {"pending", "more_info_required"}
    BY <1>0, <2>1 DEF IInv, LockInv, CheckedReviewStaysValid, ReviewIsValid
  <2> QED BY <2>1, <2>2, <2>3
<1>2. /\ appStatus' = [appStatus EXCEPT ![a] = to]
      /\ reviews' = [reviews EXCEPT ![a] = Append(@, <<from, to>>)]
  BY <1>0 DEF ReviewCommit
<1>3. PICK trail, n : trail = reviews[a] /\ n = Len(trail)
  OBVIOUS
<1>4. trail \in Seq(AppStatuses \X AppStatuses) /\ n \in Nat
  BY <1>1, <1>3 DEF TypeOK
<1>5. /\ appStatus'[a] = to
      /\ \A b \in Apps \ {a} : appStatus'[b] = appStatus[b] /\ reviews'[b] = reviews[b]
      /\ reviews'[a] = Append(trail, <<from, to>>)
  BY <1>1, <1>2, <1>3 DEF TypeOK
<1>6. /\ Len(reviews'[a]) = n + 1
      /\ \A k \in 1..n : reviews'[a][k] = trail[k]
      /\ reviews'[a][n + 1] = <<from, to>>
  BY <1>3, <1>4, <1>5
<1> DEFINE After(row) == IF row[2] = "funding" THEN "more_info_required" ELSE row[2]
<1>7. /\ \A k \in 1..n - 1 : trail[k + 1][1] = After(trail[k])
      /\ n > 0 => \/ appStatus[a] = trail[n][2]
                  \/ trail[n][2] = "funding" /\ appStatus[a] \in {"disbursed", "more_info_required"}
  BY <1>1, <1>3 DEF IInv, ReviewTrail
\* The new row starts from where the last one left the application.
<1>8. n > 0 => from = After(trail[n])
  BY <1>1, <1>7
<1>9. \A k \in 1..n : reviews'[a][k + 1][1] = After(reviews'[a][k])
  <2> SUFFICES ASSUME NEW k \in 1..n PROVE reviews'[a][k + 1][1] = After(reviews'[a][k])
    OBVIOUS
  <2>1. CASE k = n
    BY <1>4, <1>6, <1>8, <2>1
  <2>2. CASE k # n
    <3>1. k \in 1..n - 1 /\ k + 1 \in 1..n
      BY <1>4, <2>2
    <3> QED BY <1>6, <1>7, <3>1
  <2> QED BY <2>1, <2>2
<1>10. ReviewTrail'
  <2> SUFFICES ASSUME NEW b \in Apps
               PROVE  /\ \A k \in 1..Len(reviews'[b]) - 1 : reviews'[b][k + 1][1] = After(reviews'[b][k])
                      /\ Len(reviews'[b]) > 0 =>
                           \/ appStatus'[b] = reviews'[b][Len(reviews'[b])][2]
                           \/ /\ reviews'[b][Len(reviews'[b])][2] = "funding"
                              /\ appStatus'[b] \in {"disbursed", "more_info_required"}
    BY DEF ReviewTrail
  <2>1. CASE b = a
    <3>1. Len(reviews'[a]) - 1 = n
      BY <1>4, <1>6
    <3>2. \A k \in 1..Len(reviews'[a]) - 1 : reviews'[a][k + 1][1] = After(reviews'[a][k])
      BY <1>9, <3>1
    <3>3. appStatus'[a] = reviews'[a][Len(reviews'[a])][2]
      BY <1>5, <1>6
    <3> QED BY <2>1, <3>2, <3>3
  <2>2. CASE b # a
    BY <1>5, <2>2 DEF IInv, ReviewTrail
  <2> QED BY <2>1, <2>2
<1>11. \A b \in Apps : NotYetReviewed(b)'
  BY <1>1, <1>5 DEF IInv, NotYetReviewed
<1> QED BY <1>10, <1>11

LEMMA TrailStep ==
  ASSUME IInv, [Next]_vars
  PROVE  ReviewTrail' /\ \A a \in Apps : NotYetReviewed(a)'
<1>1. CASE UNCHANGED <<appStatus, reviews>>
  BY <1>1 DEF IInv, ReviewTrail, NotYetReviewed
<1>2. ASSUME NEW h \in Handlers, BidCommit(h)
      PROVE  ReviewTrail' /\ \A a \in Apps : NotYetReviewed(a)'
  <2>1. PICK a, u, x, i :
          a = job[h].app /\ u = job[h].user /\ x = job[h].amount /\ i = KeyOf(job[h])
    OBVIOUS
  <2>2. PICK to : to = IF funded[a] + x = Target[a] THEN "disbursed" ELSE appStatus[a]
    OBVIOUS
  <2>3. /\ a \in Apps /\ appStatus[a] = "funding" /\ UNCHANGED reviews
        /\ appStatus' = [appStatus EXCEPT ![a] = to]
    BY <1>2, <2>1, <2>2, BidFacts
  <2> QED BY <2>2, <2>3, SettledTrail
<1>3. ASSUME NEW p \in Procs, CancelCommit(p)
      PROVE  ReviewTrail' /\ \A a \in Apps : NotYetReviewed(a)'
  <2>1. PICK a : a = job[p].app
    OBVIOUS
  <2>2. /\ a \in Apps /\ appStatus[a] = "funding" /\ UNCHANGED reviews
        /\ appStatus' = [appStatus EXCEPT ![a] = "more_info_required"]
    BY <1>3, <2>1, CancelFacts
  <2> QED BY <2>2, SettledTrail
<1> QED BY <1>1, <1>2, <1>3, Kinds, CreatedTrail, ReviewedTrail DEF TopUp

-----------------------------------------------------------------------------
(* The invariant *)

LEMMA InvInit == Init => IInv
<1> SUFFICES ASSUME Init PROVE IInv
  OBVIOUS
<1>1. \A p \in Procs : CreditIsDue(p)
  BY DEF Init, Idle, CreditIsDue
<1>2. ReviewTrail /\ \A a \in Apps : NotYetReviewed(a)
  BY DEF Init, ReviewTrail, NotYetReviewed
<1> QED BY <1>1, <1>2, LockInit, MoneyInit DEF IInv

LEMMA InvStep == IInv /\ [Next]_vars => IInv'
<1> SUFFICES ASSUME IInv, [Next]_vars PROVE IInv'
  OBVIOUS
<1>1. LockInv'
  BY LockStep DEF IInv
<1> QED BY <1>1, MoneyStep, CreditStep, TrailStep DEF IInv

\* The locks, the money and the audit trail, for any number of users, listings and
\* requests.
THEOREM Invariant == Spec => []IInv
  BY InvInit, InvStep, PTL DEF Spec

\* listings.funded_amount is what the investments of the listing add up to.
THEOREM FundedIsExact == Spec => []FundedMatchesInvestments
<1>1. IInv => FundedMatchesInvestments
  BY DEF IInv
<1> QED BY <1>1, Invariant, PTL

\* No interleaving of bids, refunds, top-ups and rollbacks makes or loses money.
THEOREM MoneyConserved == Spec => []MoneyIsConserved
<1>1. IInv => MoneyIsConserved
  BY DEF IInv
<1> QED BY <1>1, Invariant, PTL

\* The rows of application_reviews account for every status an application has.
THEOREM TrailIsComplete == Spec => []ReviewTrail
<1>1. IInv => ReviewTrail
  BY DEF IInv
<1> QED BY <1>1, Invariant, PTL

-----------------------------------------------------------------------------
(* The marketplace implements Escrow *)

pledged == [i \in Investments |-> IF i \in refunds THEN 0 ELSE invested[i]]
stages == [a \in Apps |-> StageOf[listingStatus[a]]]

LEMMA StageNames ==
  /\ StageOf["none"] = "none" /\ StageOf["funding"] = "raising"
  /\ StageOf["disbursed"] = "paid" /\ StageOf["cancelled"] = "returned"
  BY DEF StageOf, ListingStatuses

\* The instance has its own copy of the operator that adds up.
LEMMA SameSum ==
  ASSUME NEW f, NEW S
  PROVE  EscrowView!SumFunctionOnSet(f, S) = SumFunctionOnSet(f, S)
  BY DEF EscrowView!SumFunctionOnSet, EscrowView!FoldFunctionOnSet, EscrowView!MapThenFoldSet,
     SumFunctionOnSet, FoldFunctionOnSet, MapThenFoldSet

LEMMA PledgesAddUp ==
  ASSUME TypeOK, NEW S, S \subseteq Investments
  PROVE  SumFunctionOnSet(pledged, S) = MoneyIn({i \in S : invested[i] > 0} \ refunds)
<1> DEFINE R == {i \in S : invested[i] > 0} \ refunds
<1>1. IsFiniteSet(S) /\ IsFiniteSet(R) /\ R \subseteq S
  BY MoneyFacts
<1>2. \A i \in S : invested[i] \in Nat /\ pledged[i] = IF i \in refunds THEN 0 ELSE invested[i]
  BY DEF TypeOK, pledged
<1>3. (\A i \in S : pledged[i] \in Int) /\ \A i \in S \ R : pledged[i] = 0
  BY <1>2
<1>4. \A i \in R : pledged[i] = invested[i]
  BY <1>2
<1> HIDE DEF R
<1>5. SumFunctionOnSet(pledged, S) = SumFunctionOnSet(pledged, R)
  BY <1>1, <1>3, SumSupport
<1>6. SumFunctionOnSet(pledged, R) = SumFunctionOnSet(invested, R)
  BY <1>1, <1>4, SumSame
<1> QED BY <1>5, <1>6 DEF MoneyIn, R

LEMMA RaisedIsFunded ==
  ASSUME IInv, NEW a \in Apps
  PROVE  EscrowView!Raised(a) = funded[a]
<1>1. TypeOK /\ InvestmentsIn(a) \subseteq Investments
  BY DEF IInv, LockInv, InvestmentsIn
<1>2. EscrowView!Raised(a) = SumFunctionOnSet(pledged, InvestmentsIn(a))
  BY SameSum DEF EscrowView!Raised, EscrowView!PledgesOf, EscrowView!Pledges, Investments,
     InvestmentsIn, pledged
<1>3. SumFunctionOnSet(pledged, InvestmentsIn(a)) = MoneyIn(Unrefunded(a))
  BY <1>1, PledgesAddUp DEF Unrefunded
<1> QED BY <1>2, <1>3 DEF IInv, FundedMatchesInvestments

LEMMA EscrowInit == Init => EscrowView!Init
<1> SUFFICES ASSUME Init PROVE EscrowView!Init
  OBVIOUS
<1>1. pledged = [i \in Investments |-> 0]
  BY DEF Init, pledged
<1>2. stages = [a \in Apps |-> "none"]
  BY StageNames DEF Init, stages
<1> QED BY <1>1, <1>2 DEF Init, EscrowView!Init, EscrowView!Pledges, Investments, pledged, stages

LEMMA EscrowOpen ==
  ASSUME IInv, NEW h \in Handlers, ReviewCommit(h)
  PROVE  EscrowView!Next \/ UNCHANGED EscrowView!vars
<1>0. PICK a, act : a = job[h].app /\ act = job[h].act
  OBVIOUS
<1>1. a \in Apps /\ TypeOK
  BY <1>0, JobTypes DEF IInv, LockInv, ReviewCommit, ReviewJob
<1>2. /\ listingStatus' = [listingStatus EXCEPT ![a] = IF act = "approve" THEN "funding" ELSE @]
      /\ act = "approve" => listingStatus[a] = "none"
      /\ UNCHANGED <<invested, refunds, balance>>
  BY <1>0 DEF ReviewCommit, CanList
<1>3. pledged' = pledged
  BY <1>2 DEF pledged
<1>4. CASE act = "approve"
  <2>1. stages' = [stages EXCEPT ![a] = "raising"] /\ stages[a] = "none"
    <3>1. listingStatus'[a] = "funding" /\ \A b \in Apps \ {a} : listingStatus'[b] = listingStatus[b]
      BY <1>1, <1>2, <1>4 DEF TypeOK
    <3>2. \A b \in Apps : StageOf[listingStatus'[b]] = IF b = a THEN "raising" ELSE stages[b]
      BY <3>1, StageNames DEF stages
    <3>3. stages[a] = "none"
      BY <1>1, <1>2, <1>4, StageNames DEF stages
    <3> QED BY <1>1, <3>2, <3>3 DEF stages
  <2>2. EscrowView!Open(a)
    BY <1>2, <1>3, <2>1 DEF EscrowView!Open, pledged, stages
  <2> QED BY <1>1, <2>2 DEF EscrowView!Next
<1>5. CASE act # "approve"
  <2>1. listingStatus' = listingStatus
    BY <1>1, <1>2, <1>5 DEF TypeOK
  <2>2. UNCHANGED <<balance, invested, refunds, listingStatus>>
    BY <1>2, <2>1
  <2> QED BY ONLY <2>2 DEF EscrowView!vars
<1> QED BY <1>4, <1>5

LEMMA EscrowPledge ==
  ASSUME IInv, NEW h \in Handlers, BidCommit(h)
  PROVE  EscrowView!Next
<1>0. PICK a, u, x, i, k :
        a = job[h].app /\ u = job[h].user /\ x = job[h].amount /\ i = KeyOf(job[h]) /\ k = job[h].key
  OBVIOUS
<1>1. /\ a \in Apps /\ u \in Users /\ k \in Keys /\ x \in Nat \ {0}
      /\ i \in Investments /\ invested[i] = 0 /\ i \notin refunds
      /\ listingStatus[a] = "funding"
      /\ funded[a] + x <= Target[a] /\ x <= balance[u]
      /\ invested' = [invested EXCEPT ![i] = x]
      /\ balance' = [balance EXCEPT ![u] = @ - x]
      /\ refunds' = refunds
      /\ listingStatus' = [listingStatus EXCEPT ![a] =
             IF funded[a] + x = Target[a] THEN "disbursed" ELSE @]
  BY <1>0, BidFacts
<1>2. i = <<a, u, k>>
  BY <1>0 DEF KeyOf
<1>3. TypeOK
  BY DEF IInv, LockInv
<1>4. pledged[i] = 0 /\ pledged' = [pledged EXCEPT ![i] = x]
  <2>1. \A j \in Investments : (IF j \in refunds' THEN 0 ELSE invested'[j]) = IF j = i THEN x ELSE pledged[j]
    BY <1>1, <1>3 DEF pledged, TypeOK
  <2> QED BY <1>1, <2>1 DEF pledged
<1>5. /\ stages[a] = "raising"
      /\ stages' = [stages EXCEPT ![a] = IF funded[a] + x = Target[a] THEN "paid" ELSE @]
  <2>1. /\ listingStatus'[a] = IF funded[a] + x = Target[a] THEN "disbursed" ELSE "funding"
        /\ \A b \in Apps \ {a} : listingStatus'[b] = listingStatus[b]
    BY <1>1, <1>3 DEF TypeOK
  <2>2. stages[a] = "raising"
    BY <1>1, StageNames DEF stages
  <2>3. \A b \in Apps : StageOf[listingStatus'[b]] =
          IF b = a THEN IF funded[a] + x = Target[a] THEN "paid" ELSE stages[a] ELSE stages[b]
    BY <2>1, <2>2, StageNames DEF stages
  <2>4. a \in Apps
    BY <1>1
  <2> QED BY ONLY <2>2, <2>3, <2>4 DEF stages
<1>6. x \in 1..Target[a]
  BY <1>1, <1>3 DEF TypeOK
<1>7. EscrowView!Pledge(a, u, k, x)
  BY <1>1, <1>2, <1>4, <1>5, RaisedIsFunded DEF EscrowView!Pledge, pledged, stages
<1> QED BY <1>1, <1>6, <1>7, Zenon DEF EscrowView!Next

LEMMA EscrowReturn ==
  ASSUME IInv, NEW p \in Procs, CancelCommit(p)
  PROVE  EscrowView!Next
<1>0. PICK a, credit : a = job[p].app /\ credit = job[p].credit
  OBVIOUS
<1>1. /\ a \in Apps /\ listingStatus[a] = "funding"
      /\ \A u \in Users : credit[u] = MoneyIn({i \in Unrefunded(a) : i[2] = u})
      /\ refunds' = refunds \cup Unrefunded(a)
      /\ balance' = [u \in Users |-> balance[u] + credit[u]]
      /\ listingStatus' = [listingStatus EXCEPT ![a] = "cancelled"]
      /\ invested' = invested
  BY <1>0, CancelFacts
<1>2. TypeOK
  BY DEF IInv, LockInv
<1>3. pledged' = [i \in Investments |-> IF i[1] = a THEN 0 ELSE pledged[i]]
  BY <1>1, <1>2 DEF pledged, Unrefunded, InvestmentsIn, TypeOK
<1>4. stages[a] = "raising" /\ stages' = [stages EXCEPT ![a] = "returned"]
  <2>1. listingStatus'[a] = "cancelled" /\ \A b \in Apps \ {a} : listingStatus'[b] = listingStatus[b]
    BY <1>1, <1>2 DEF TypeOK
  <2>2. stages[a] = "raising"
    BY <1>1, StageNames DEF stages
  <2>3. \A b \in Apps : StageOf[listingStatus'[b]] = IF b = a THEN "returned" ELSE stages[b]
    BY <2>1, StageNames DEF stages
  <2>4. a \in Apps
    BY <1>1
  <2> QED BY ONLY <2>2, <2>3, <2>4 DEF stages
<1>5. ASSUME NEW u \in Users
      PROVE  EscrowView!SumFunctionOnSet(pledged, EscrowView!PledgesBy(a, u)) = credit[u]
  <2> DEFINE S == {i \in Investments : i[1] = a /\ i[2] = u}
  <2>1. EscrowView!PledgesBy(a, u) = S
    BY DEF EscrowView!PledgesBy, EscrowView!Pledges, Investments
  <2>2. SumFunctionOnSet(pledged, S) = MoneyIn({i \in S : invested[i] > 0} \ refunds)
    BY <1>2, PledgesAddUp
  <2>3. {i \in S : invested[i] > 0} \ refunds = {i \in Unrefunded(a) : i[2] = u}
    BY DEF Unrefunded, InvestmentsIn
  <2> QED BY <1>1, <2>1, <2>2, <2>3, SameSum
<1>6. EscrowView!Return(a)
  <2>1. balance' = [u \in Users |->
          balance[u] + EscrowView!SumFunctionOnSet(pledged, EscrowView!PledgesBy(a, u))]
    BY <1>1, <1>5
  <2> QED BY <1>3, <1>4, <2>1
          DEF EscrowView!Return, EscrowView!Pledges, Investments, pledged, stages
<1> QED BY <1>1, <1>6 DEF EscrowView!Next

LEMMA EscrowStep == IInv /\ [Next]_vars => [EscrowView!Next]_(EscrowView!vars)
<1> SUFFICES ASSUME IInv, [Next]_vars PROVE EscrowView!Next \/ UNCHANGED EscrowView!vars
  OBVIOUS
<1>1. CASE UNCHANGED <<book, balance>>
  BY <1>1 DEF EscrowView!vars, book
<1>2. ASSUME NEW u \in Users, NEW x \in TopUps, TopUp(u, x) PROVE EscrowView!Next
  <2>1. /\ balance' = [balance EXCEPT ![u] = @ + x]
        /\ UNCHANGED <<listingStatus, invested, refunds>>
    BY <1>2 DEF TopUp, book
  <2>2. EscrowView!Deposit(u, x)
    BY <2>1 DEF EscrowView!Deposit
  <2> QED BY <2>2, Zenon DEF EscrowView!Next
<1> QED BY <1>1, <1>2, Kinds, EscrowOpen, EscrowPledge, EscrowReturn DEF CreateApplication

\* Whatever the transactions, locks, deadlocks and sweeps do, the users see only
\* atomic pledges, returns and deposits: a listing's money is either held, or paid
\* out once the target is reached, or given back to whom it came from.
THEOREM MarketplaceIsAnEscrow == Spec => EscrowSpec
  BY InvInit, InvStep, EscrowInit, EscrowStep, PTL DEF Spec, EscrowSpec, EscrowView!Spec

=============================================================================
