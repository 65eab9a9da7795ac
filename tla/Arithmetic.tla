----------------------------- MODULE Arithmetic -----------------------------
(***************************************************************************)
(* The calculations that other modules take as constants: the installments *)
(* of a loan and the length of a lock.                                     *)
(* Source: finance.go and lockout.go.                                      *)
(*                                                                         *)
(* The monthly rate is the fraction rate.num / rate.den; what the code     *)
(* computes in floating point before it rounds to whole units is exact     *)
(* here.                                                                   *)
(***************************************************************************)
EXTENDS Integers, Sequences, FiniteSets

\* math.Round of a fraction that is not negative.
Round(num, den) == (2 * num + den) \div (2 * den)

\* The annuity, rounded: principal * r / (1 - (1 + r)^-months).
monthlyPayment(principal, rate, months) ==
  LET up == (rate.num + rate.den)^months
  IN  IF rate.num = 0 THEN Round(principal, months)
      ELSE Round(principal * rate.num * up, rate.den * (up - rate.den^months))

InterestOn(balance, rate) == Round(balance * rate.num, rate.den)

\* Mutant: the last installment is like the others.
NoSettlement(balance, rate, months, i, payment) ==
  LET part == payment - InterestOn(balance, rate) IN IF part >= balance THEN balance ELSE part

\* The last installment takes the rest, and so does an earlier one that could.
PrincipalPart(balance, rate, months, i, payment) ==
  LET part == payment - InterestOn(balance, rate)
  IN  IF i = months \/ part >= balance THEN balance ELSE part

\* What is left of the principal after each month.
remainingBalance(principal, rate, months, payment) ==
  LET balance[i \in 0..months] ==
        IF i = 0 THEN principal
        ELSE balance[i - 1] - PrincipalPart(balance[i - 1], rate, months, i, payment)
  IN  balance

\* One row for each month, until nothing is left.
Installments(principal, rate, months, payment) ==
  LET balance == remainingBalance(principal, rate, months, payment)
      length == Cardinality({i \in 0..months - 1 : \A j \in 0..i : balance[j] # 0})
      row(i) == [principal |-> balance[i - 1] - balance[i],
                 interest |-> InterestOn(balance[i - 1], rate)]
  IN  SubSeq([i \in 1..months |-> row(i)], 1, length)

buildAmortizationSchedule(principal, rate, months) ==
  Installments(principal, rate, months, monthlyPayment(principal, rate, months))

-----------------------------------------------------------------------------

\* In minutes.
lockoutThresholds == <<[attempts |-> 5, duration |-> 5],
                       [attempts |-> 10, duration |-> 30],
                       [attempts |-> 15, duration |-> 120]>>
maxLockoutDuration == 24 * 60

\* The time of the highest threshold reached, doubled for every five failures more.
LockDuration(failedCount) ==
  LET reached == {i \in DOMAIN lockoutThresholds : failedCount >= lockoutThresholds[i].attempts}
      extra == (failedCount - 15) \div 5
      duration == lockoutThresholds[Cardinality(reached)].duration
      scaled == IF extra <= 0 THEN duration ELSE IF extra > 10 THEN maxLockoutDuration ELSE duration * 2^extra
  IN  IF reached = {} THEN 0
      ELSE IF scaled > maxLockoutDuration THEN maxLockoutDuration ELSE scaled

=============================================================================
