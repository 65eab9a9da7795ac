--------------------------- MODULE MCMarketplace ---------------------------
(***************************************************************************)
(* Small instances of Marketplace.  Amounts are in thousands.              *)
(***************************************************************************)
EXTENDS Marketplace, TLC

A == INSTANCE Arithmetic

\* The disbursement writes a schedule that repays the loan, whatever rounding does to
\* its rows: checked for every small loan without interest, at 10 and at 25 percent a
\* month.
Rates == {[num |-> 0, den |-> 1], [num |-> 1, den |-> 10], [num |-> 1, den |-> 4]}
ASSUME SchedulesAddUp ==
  \A principal \in 1..30, months \in 1..4, rate \in Rates :
    LET rows == A!buildAmortizationSchedule(principal, rate, months)
    IN  /\ Len(rows) \in 1..months
        /\ \A i \in DOMAIN rows : rows[i].principal >= 0 /\ rows[i].interest >= 0
        /\ SumFunction([i \in DOMAIN rows |-> rows[i].principal]) = principal

CONSTANTS a1, a2, b1, u1, u2

\* Listings of 5 and 1 and two lenders with 4 and 1, the second of whom also
\* borrows: bids of 2 on both compete for one balance and are cut down to what is
\* left.
TwoOwners == a1 :> b1 @@ a2 :> u2
TwoTargets == a1 :> 5 @@ a2 :> 1
OneLenderBalance == b1 :> 0 @@ u1 :> 4 @@ u2 :> 1
RequestSymmetry == Permutations(Keys) \cup Permutations(Handlers)

\* Two listings of one borrower and two lenders who bid on both: their
\* cancellations lock the same two lenders' rows.
SameOwner == a1 :> b1 @@ a2 :> b1
WideTargets == a1 :> 3 @@ a2 :> 3
PairBalances == b1 :> 0 @@ u1 :> 2 @@ u2 :> 2

\* Applications that are small enough to be filled by one bid; the second one has
\* no owner.
OrphanOwner == a1 :> b1 @@ a2 :> NoUser
UnitTargets == a1 :> 1 @@ a2 :> 1
PairBalance == b1 :> 0 @@ u1 :> 2

=============================================================================
