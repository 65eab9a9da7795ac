---------------------------- MODULE MCRepayment -----------------------------
(***************************************************************************)
(* Small instances of Repayment, with the installments that the code       *)
(* computes for small loans at a high rate.                                *)
(***************************************************************************)
EXTENDS Repayment, Arithmetic, TLC

CONSTANTS l1, l2

Rate == [num |-> 1, den |-> 4]
LoanOf7 == buildAmortizationSchedule(7, Rate, 3)
LoanOf5 == buildAmortizationSchedule(5, Rate, 2)
LoanOf2 == buildAmortizationSchedule(2, Rate, 1)

\* One loan of 7 in three installments, one due per day, with three lots of
\* unequal size: every payment leaves a remainder to hand out.
OneSchedule == l1 :> LoanOf7
OneDueDay == l1 :> <<1, 2, 3>>
OneLots == l1 :> <<3, 1, 3>>
Lent7 == l1 :> 7

\* A loan of 5 in two installments, and one of 2 in one with no investments behind it.
TwoSchedules == l1 :> LoanOf5 @@ l2 :> LoanOf2
TwoDueDays == l1 :> <<1, 2>> @@ l2 :> <<2>>
TwoLots == l1 :> <<1, 3, 1>> @@ l2 :> << >>
Lent5And2 == l1 :> 5 @@ l2 :> 2
ProcessSymmetry == Permutations(Handlers) \cup Permutations(Sweepers)

=============================================================================
