----------------------------- MODULE Allocation -----------------------------
(***************************************************************************)
(* allocateProportionally (distribution.go): how a repayment is divided    *)
(* among the investments behind a loan, in whole dollars.                  *)
(***************************************************************************)
EXTENDS Integers, FiniteSets, Functions

\* f is a function whose values are numbers.
Total(f) == SumFunctionOnSet(f, DOMAIN f)

\* Everyone's share, rounded down.
Floor(amount, total) == [i \in DOMAIN amount |-> (amount[i] * total) \div Total(amount)]

\* Mutant: the remainder is dropped.
FloorOnly(amount, total) == Floor(amount, total)

\* i's place in the order in which the remainder is handed out: larger
\* investments first, among equal ones the smaller id.
Place(amount, i) ==
  Cardinality({j \in DOMAIN amount : amount[j] > amount[i] \/ (amount[j] = amount[i] /\ j <= i)})

\* amount is a sequence: the investments in the order of their ids.  The remainder
\* goes round the order one dollar at a time until nothing is left of it.
Allocate(amount, total) ==
  IF total <= 0 \/ Total(amount) <= 0
  THEN [i \in DOMAIN amount |-> 0]
  ELSE LET base == Floor(amount, total)
           rest == total - Total(base)
           n == Cardinality(DOMAIN amount)
       IN [i \in DOMAIN amount |-> base[i] + (rest + n - Place(amount, i)) \div n]

=============================================================================
