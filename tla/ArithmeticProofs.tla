------------------------- MODULE ArithmeticProofs --------------------------
(***************************************************************************)
(* What the calculations with whole dollars promise, for all amounts,      *)
(* rates and proportions: a schedule repays exactly its loan, whatever     *)
(* rounding does to its rows, and a payment is divided completely among    *)
(* the investments behind a loan, each getting its share to within a       *)
(* dollar.                                                                 *)
(***************************************************************************)
EXTENDS Arithmetic, Allocation, SequenceTheorems, SumTheorems

-----------------------------------------------------------------------------
(* Division *)

LEMMA Division ==
  ASSUME NEW x \in Nat, NEW d \in Nat \ {0}
  PROVE  /\ x \div d \in Nat
         /\ d * (x \div d) <= x
         /\ x <= d * (x \div d) + (d - 1)
OBVIOUS

LEMMA DivisionBelowTwo ==
  ASSUME NEW x \in Nat, NEW d \in Nat \ {0}, x < 2 * d
  PROVE  x \div d = IF x < d THEN 0 ELSE 1
OBVIOUS

LEMMA Cancel ==
  ASSUME NEW x \in Int, NEW y \in Int, NEW d \in Nat \ {0}
  PROVE  /\ d * x <= d * y => x <= y
         /\ d * x < d * y => x < y
OBVIOUS

-----------------------------------------------------------------------------
(* Rounding down leaves less than one dollar for each investment *)

LEMMA TotalIsPositive ==
  ASSUME NEW amount \in Seq(Nat \ {0}), amount # << >>
  PROVE  /\ Total(amount) \in Nat \ {0}
         /\ IsFiniteSet(DOMAIN amount)
         /\ Cardinality(DOMAIN amount) = Len(amount)
         /\ Len(amount) \in Nat \ {0}
<1>1. DOMAIN amount = 1..Len(amount) /\ Len(amount) \in Nat \ {0}
  OBVIOUS
<1>2. IsFiniteSet(DOMAIN amount) /\ Cardinality(DOMAIN amount) = Len(amount)
  BY <1>1, FS_Interval
<1>3. 1 \in DOMAIN amount /\ \A i \in DOMAIN amount : amount[i] \in Nat \ {0}
  BY <1>1
<1>4. Total(amount) = amount[1] + SumFunctionOnSet(amount, DOMAIN amount \ {1})
  BY <1>2, <1>3, SumRemove DEF Total
<1>5. IsFiniteSet(DOMAIN amount \ {1})
  BY <1>2, FS_Subset
<1>6. SumFunctionOnSet(amount, DOMAIN amount \ {1}) \in Nat
  BY <1>3, <1>5, SumNat
<1> QED BY <1>1, <1>2, <1>3, <1>4, <1>6

LEMMA FloorFacts ==
  ASSUME NEW amount \in Seq(Nat \ {0}), amount # << >>, NEW total \in Nat
  PROVE  LET base == Floor(amount, total)
         IN  /\ base \in [DOMAIN amount -> Nat]
             /\ \A i \in DOMAIN amount :
                  /\ Total(amount) * base[i] <= amount[i] * total
                  /\ amount[i] * total <= Total(amount) * base[i] + (Total(amount) - 1)
<1>1. Total(amount) \in Nat \ {0}
  BY TotalIsPositive
<1>2. ASSUME NEW i \in DOMAIN amount PROVE amount[i] * total \in Nat
  <2>1. amount[i] \in Nat
    OBVIOUS
  <2> QED BY <2>1
<1> QED BY <1>1, <1>2, Division DEF Floor

LEMMA RestIsSmall ==
  ASSUME NEW amount \in Seq(Nat \ {0}), amount # << >>, NEW total \in Nat
  PROVE  total - Total(Floor(amount, total)) \in 0..Len(amount) - 1
<1> DEFINE D == DOMAIN amount
           n == Len(amount)
           whole == Total(amount)
           base == Floor(amount, total)
           sum == Total(base)
           scaled == [i \in D |-> whole * base[i]]
           exact == [i \in D |-> total * amount[i]]
           slack == [i \in D |-> whole - 1]
           ones == [i \in D |-> 1]
           above == [i \in D |-> scaled[i] + slack[i]]
<1>1. whole \in Nat \ {0} /\ IsFiniteSet(D) /\ Cardinality(D) = n /\ n \in Nat \ {0}
  BY TotalIsPositive
<1>2. base \in [D -> Nat]
  BY FloorFacts
<1>3. \A i \in D : amount[i] \in Nat /\ base[i] \in Nat
  BY <1>2
<1>4. sum = SumFunctionOnSet(base, D) /\ whole = SumFunctionOnSet(amount, D)
  BY <1>2 DEF Total
<1>5. \A i \in D : /\ whole * base[i] <= total * amount[i]
                   /\ total * amount[i] <= whole * base[i] + (whole - 1)
  <2>1. \A i \in D : amount[i] * total = total * amount[i]
    BY <1>3
  <2> QED BY <2>1, FloorFacts
<1> HIDE DEF base, sum, whole, D, n
<1>6. SumFunctionOnSet(scaled, D) = whole * sum
  BY <1>1, <1>3, <1>4, SumTimes
<1>7. SumFunctionOnSet(exact, D) = total * whole
  BY <1>1, <1>3, <1>4, SumTimes
<1>8. SumFunctionOnSet(ones, D) = n
  BY <1>1, SumOfOnes
<1>9. SumFunctionOnSet(slack, D) = (whole - 1) * n
  <2>1. \A i \in D : ones[i] \in Int /\ slack[i] = (whole - 1) * ones[i]
    BY <1>1
  <2>2. whole - 1 \in Int
    BY <1>1
  <2> HIDE DEF ones, slack
  <2>3. SumFunctionOnSet(slack, D) = (whole - 1) * SumFunctionOnSet(ones, D)
    BY <1>1, <2>1, <2>2, SumTimes
  <2> QED BY <1>8, <2>3
<1>10. \A i \in D : /\ scaled[i] \in Int /\ slack[i] \in Int /\ exact[i] \in Int
                    /\ above[i] \in Int /\ above[i] = scaled[i] + slack[i]
                    /\ scaled[i] <= exact[i] /\ exact[i] <= above[i]
  <2>1. \A i \in D : whole * base[i] \in Int /\ total * amount[i] \in Int
    BY <1>1, <1>3
  <2> QED BY <1>1, <1>3, <1>5, <2>1
<1> HIDE DEF scaled, exact, slack, above
<1>11. SumFunctionOnSet(above, D) = SumFunctionOnSet(scaled, D) + SumFunctionOnSet(slack, D)
  BY <1>1, <1>10, SumPlus
<1>12. whole * sum <= total * whole
  BY <1>1, <1>6, <1>7, <1>10, SumLess
<1>13. total * whole <= whole * sum + (whole - 1) * n
  BY <1>1, <1>6, <1>7, <1>9, <1>10, <1>11, SumLess
<1>14. sum \in Nat
  BY <1>1, <1>3, <1>4, SumNat
<1>15. total * whole = whole * total
  BY <1>1
<1>16. sum <= total
  BY <1>1, <1>12, <1>14, <1>15, Cancel
<1>17. whole * (total - sum) < whole * n
  <2>1. whole * (total - sum) = whole * total - whole * sum
    BY <1>1, <1>14
  <2>2. (whole - 1) * n = whole * n - n
    BY <1>1
  <2>3. whole * n \in Int /\ whole * total \in Int /\ whole * sum \in Int
    BY <1>1, <1>14
  <2> QED BY <1>1, <1>13, <1>15, <2>1, <2>2, <2>3
<1>18. total - sum \in Int
  BY <1>14
<1>19. total - sum < n
  BY <1>1, <1>17, <1>18, Cancel
<1> QED BY <1>1, <1>14, <1>16, <1>19 DEF sum, base, n

-----------------------------------------------------------------------------
(* The remainder is handed out in an order without gaps *)

Ahead(amount, i) == {j \in DOMAIN amount : amount[j] > amount[i] \/ (amount[j] = amount[i] /\ j <= i)}

LEMMA PlaceFacts ==
  ASSUME NEW amount \in Seq(Nat \ {0}), amount # << >>
  PROVE  LET place == [i \in DOMAIN amount |-> Place(amount, i)]
         IN  place \in Injection(DOMAIN amount, 1..Len(amount))
<1> DEFINE D == DOMAIN amount
           n == Len(amount)
           place == [i \in D |-> Place(amount, i)]
<1>1. IsFiniteSet(D) /\ Cardinality(D) = n /\ n \in Nat \ {0} /\ D = 1..n
  BY TotalIsPositive
<1>2. \A i \in D : Place(amount, i) = Cardinality(Ahead(amount, i))
  BY DEF Place, Ahead
<1>3. ASSUME NEW i \in D
      PROVE  IsFiniteSet(Ahead(amount, i)) /\ Place(amount, i) \in 1..n
  <2>1. Ahead(amount, i) \subseteq D /\ i \in Ahead(amount, i)
    BY DEF Ahead
  <2>2. IsFiniteSet(Ahead(amount, i)) /\ Cardinality(Ahead(amount, i)) <= n
    BY <1>1, <2>1, FS_Subset
  <2>3. Cardinality(Ahead(amount, i)) \in Nat /\ Cardinality(Ahead(amount, i)) # 0
    BY <2>1, <2>2, FS_CardinalityType, FS_EmptySet
  <2> QED BY <1>1, <1>2, <2>2, <2>3
<1>4. ASSUME NEW i \in D, NEW k \in D, i # k, i \in Ahead(amount, k)
      PROVE  Place(amount, i) < Place(amount, k)
  <2>1. amount[i] \in Nat /\ amount[k] \in Nat /\ i \in Nat /\ k \in Nat
    BY <1>1
  <2>2. k \notin Ahead(amount, i)
    BY <1>4, <2>1 DEF Ahead
  <2>3. k \in Ahead(amount, k)
    BY DEF Ahead
  <2>4. Ahead(amount, i) \subseteq Ahead(amount, k)
    <3> SUFFICES ASSUME NEW j \in Ahead(amount, i) PROVE j \in Ahead(amount, k)
      OBVIOUS
    <3>1. j \in D /\ amount[j] \in Nat /\ j \in Nat
      BY <1>1 DEF Ahead
    <3> QED BY <1>4, <2>1, <3>1 DEF Ahead
  <2>5. /\ Cardinality(Ahead(amount, i)) <= Cardinality(Ahead(amount, k))
        /\ Cardinality(Ahead(amount, i)) # Cardinality(Ahead(amount, k))
    BY <1>3, <2>2, <2>3, <2>4, FS_Subset
  <2>6. Place(amount, i) \in Nat /\ Place(amount, k) \in Nat
    BY <1>1, <1>3
  <2> QED BY <1>2, <2>5, <2>6
<1>5. ASSUME NEW i \in D, NEW k \in D, i # k PROVE Place(amount, i) # Place(amount, k)
  <2>1. amount[i] \in Nat /\ amount[k] \in Nat /\ i \in Nat /\ k \in Nat
    BY <1>1
  <2>2. i \in Ahead(amount, k) \/ k \in Ahead(amount, i)
    BY <2>1 DEF Ahead
  <2>3. Place(amount, i) \in Nat /\ Place(amount, k) \in Nat
    BY <1>1, <1>3
  <2> QED BY <1>4, <1>5, <2>2, <2>3
<1> QED BY <1>3, <1>5 DEF Injection, IsInjective

\* For each number of dollars there are as many investments in the first places.
LEMMA FirstPlaces ==
  ASSUME NEW amount \in Seq(Nat \ {0}), amount # << >>, NEW rest \in 0..Len(amount)
  PROVE  Cardinality({i \in DOMAIN amount : Place(amount, i) <= rest}) = rest
<1> DEFINE D == DOMAIN amount
           n == Len(amount)
           place == [i \in D |-> Place(amount, i)]
           first == {i \in D : Place(amount, i) <= rest}
           f == [i \in first |-> Place(amount, i)]
<1>1. IsFiniteSet(D) /\ Cardinality(D) = n /\ n \in Nat \ {0}
  BY TotalIsPositive
<1>2. place \in Injection(D, 1..n)
  BY PlaceFacts
<1>3. IsFiniteSet(1..n) /\ Cardinality(1..n) = n /\ IsFiniteSet(1..rest) /\ Cardinality(1..rest) = rest
  BY <1>1, FS_Interval
<1>4. place \in Surjection(D, 1..n)
  BY <1>1, <1>2, <1>3, FS_Injection
<1>5. \A i \in D : Place(amount, i) \in 1..n
  BY <1>2 DEF Injection, IsInjective
<1>6. f \in [first -> 1..rest]
  BY <1>1, <1>5
<1>7. \A k \in 1..rest : \E i \in first : f[i] = k
  <2> SUFFICES ASSUME NEW k \in 1..rest PROVE \E i \in first : f[i] = k
    OBVIOUS
  <2>1. k \in 1..n /\ k <= rest
    BY <1>1
  <2>2. PICK i \in D : place[i] = k
    BY <1>4, <2>1 DEF Surjection
  <2>3. i \in first /\ f[i] = k
    BY <2>1, <2>2
  <2> QED BY <2>3
<1>8. \A i, k \in first : f[i] = f[k] => i = k
  BY <1>2 DEF Injection, IsInjective
<1>9. f \in Bijection(first, 1..rest)
  BY <1>6, <1>7, <1>8 DEF Bijection, Injection, IsInjective, Surjection
<1>10. ExistsBijection(first, 1..rest)
  BY <1>9 DEF ExistsBijection
<1>11. IsFiniteSet(first)
  BY <1>1, FS_Subset
<1> QED BY <1>3, <1>10, <1>11, FS_Bijection

-----------------------------------------------------------------------------
(* The parts add up *)

\* allocateProportionally: the parts of a payment are whole dollars, none of them
\* negative; they add up to the payment exactly, and nobody's part is a dollar too
\* small, or more than a dollar too large, for the exact proportion.
THEOREM AllocateAddsUp ==
  ASSUME NEW amount \in Seq(Nat \ {0}), amount # << >>, NEW total \in Nat
  PROVE  LET part == Allocate(amount, total)
         IN  /\ part \in [DOMAIN amount -> Nat]
             /\ SumFunctionOnSet(part, DOMAIN amount) = total
             /\ \A i \in DOMAIN amount :
                  /\ Total(amount) * part[i] <= amount[i] * total + Total(amount)
                  /\ amount[i] * total < Total(amount) * part[i] + Total(amount)
<1> DEFINE D == DOMAIN amount
           n == Len(amount)
           whole == Total(amount)
           base == Floor(amount, total)
           rest == total - Total(base)
           first == {i \in D : Place(amount, i) <= rest}
           extra == [i \in D |-> (rest + n - Place(amount, i)) \div n]
           part == Allocate(amount, total)
<1>1. whole \in Nat \ {0} /\ IsFiniteSet(D) /\ Cardinality(D) = n /\ n \in Nat \ {0}
  BY TotalIsPositive
<1>2. /\ base \in [D -> Nat]
      /\ \A i \in D : /\ whole * base[i] <= amount[i] * total
                      /\ amount[i] * total <= whole * base[i] + (whole - 1)
  BY FloorFacts
<1>3. \A i \in D : amount[i] \in Nat \ {0} /\ base[i] \in Nat /\ amount[i] * total \in Nat
  <2>1. \A i \in D : amount[i] \in Nat \ {0} /\ base[i] \in Nat
    BY <1>2
  <2> QED BY <2>1
<1>4. CASE total = 0
  <2>1. part = [i \in D |-> 0]
    BY <1>4 DEF Allocate
  <2>2. SumFunctionOnSet(part, D) = SumFunctionOnSet(part, {})
    BY <1>1, <2>1, SumSupport
  <2>3. SumFunctionOnSet(part, D) = 0
    BY <2>2, SumEmpty
  <2>4. \A i \in D : amount[i] * total = 0 /\ whole * part[i] = 0
    BY <1>1, <1>3, <1>4, <2>1
  <2> HIDE DEF part, whole
  <2> QED BY <1>1, <1>4, <2>1, <2>3, <2>4 DEF part, whole
<1>5. CASE total # 0
  <2>1. part = [i \in D |-> base[i] + extra[i]]
    BY <1>1, <1>5 DEF Allocate
  <2>2. rest \in 0..n - 1 /\ rest \in 0..n
    <3>1. rest \in 0..n - 1
      BY RestIsSmall
    <3> HIDE DEF rest
    <3> QED BY <1>1, <3>1
  <2>3. \A i \in D : Place(amount, i) \in 1..n
    BY PlaceFacts DEF Injection, IsInjective
  <2>4. \A i \in D : extra[i] = IF i \in first THEN 1 ELSE 0
    <3> SUFFICES ASSUME NEW i \in D PROVE extra[i] = IF i \in first THEN 1 ELSE 0
      OBVIOUS
    <3> DEFINE x == rest + n - Place(amount, i)
    <3>1. x \in Nat /\ x < 2 * n /\ (x < n <=> i \notin first)
      BY <1>1, <2>2, <2>3
    <3>2. x \div n = IF x < n THEN 0 ELSE 1
      BY <1>1, <3>1, DivisionBelowTwo
    <3> QED BY <3>1, <3>2
  <2>5. IsFiniteSet(first) /\ first \subseteq D
    BY <1>1, FS_Subset
  <2>6. Cardinality(first) = rest
    BY <2>2, FirstPlaces
  <2> HIDE DEF extra, first, base, rest, part, D, n, whole
  <2>7. SumFunctionOnSet(extra, D) = rest
    <3>1. SumFunctionOnSet(extra, D) = SumFunctionOnSet(extra, first)
      BY <1>1, <2>4, <2>5, SumSupport
    <3>2. SumFunctionOnSet(extra, first) = Cardinality(first)
      BY <2>4, <2>5, SumOfOnes
    <3> QED BY <3>1, <3>2, <2>6
  <2>8. SumFunctionOnSet(part, D) = SumFunctionOnSet(base, D) + SumFunctionOnSet(extra, D)
    BY <1>1, <1>3, <2>1, <2>4, SumPlus
  <2>9. SumFunctionOnSet(base, D) = Total(base) /\ Total(base) \in Nat
    <3>1. SumFunctionOnSet(base, D) = Total(base)
      BY <1>2 DEF Total
    <3> QED BY <1>1, <1>3, <3>1, SumNat
  <2>10. SumFunctionOnSet(part, D) = total
    BY <2>7, <2>8, <2>9 DEF rest
  <2>11. part \in [D -> Nat]
    BY <1>3, <2>1, <2>4
  <2>12. ASSUME NEW i \in D
         PROVE  /\ whole * part[i] <= amount[i] * total + whole
                /\ amount[i] * total < whole * part[i] + whole
    <3>1. CASE i \in first
      <4>1. part[i] = base[i] + 1
        BY <1>3, <2>1, <2>4, <3>1
      <4>2. whole * part[i] = whole * base[i] + whole
        BY <1>1, <1>3, <4>1
      <4>3. whole * base[i] \in Nat
        BY <1>1, <1>3
      <4>4. /\ whole * base[i] <= amount[i] * total
            /\ amount[i] * total <= whole * base[i] + (whole - 1)
            /\ amount[i] * total \in Nat
        BY <1>2, <1>3
      <4> QED BY <1>1, <4>2, <4>3, <4>4
    <3>2. CASE i \notin first
      <4>1. part[i] = base[i]
        BY <1>3, <2>1, <2>4, <3>2
      <4>2. whole * part[i] \in Nat
        BY <1>1, <1>3, <4>1
      <4> QED BY <1>1, <1>2, <1>3, <4>1, <4>2
    <3> QED BY <3>1, <3>2
  <2> QED BY <2>10, <2>11, <2>12 DEF part, D, whole
<1> QED BY <1>4, <1>5

-----------------------------------------------------------------------------
(* A schedule repays its loan *)

\* What remainingBalance makes of the months up to n.
BalanceRule(b, i, principal, rate, months, payment) ==
  IF i = 0 THEN principal ELSE b[i - 1] - PrincipalPart(b[i - 1], rate, months, i, payment)
Balances(b, n, principal, rate, months, payment) ==
  b = [i \in 0..n |-> BalanceRule(b, i, principal, rate, months, payment)]

LEMMA BalancesExist ==
  ASSUME NEW principal, NEW rate, NEW months \in Nat, NEW payment
  PROVE  Balances(remainingBalance(principal, rate, months, payment), months, principal, rate, months, payment)
<1> DEFINE Rule(b, i) == BalanceRule(b, i, principal, rate, months, payment)
           Good == {n \in Nat : \E b : b = [i \in 0..n |-> Rule(b, i)]}
<1>1. 0 \in Good
  <2> DEFINE b == [i \in 0..0 |-> principal]
  <2>1. b = [i \in 0..0 |-> Rule(b, i)]
    BY DEF BalanceRule
  <2> QED BY <2>1
<1>2. ASSUME NEW n \in Nat, n \in Good PROVE n + 1 \in Good
  <2>1. PICK b : b = [i \in 0..n |-> Rule(b, i)]
    BY <1>2
  <2> DEFINE h == [i \in 0..n + 1 |-> Rule(b, i)]
  <2>2. ASSUME NEW i \in 0..n + 1 PROVE Rule(h, i) = Rule(b, i)
    <3>1. CASE i = 0
      BY <3>1 DEF BalanceRule
    <3>2. CASE i # 0
      <4>1. i - 1 \in 0..n /\ i - 1 \in 0..n + 1
        BY <3>2
      <4>2. h[i - 1] = Rule(b, i - 1) /\ b[i - 1] = Rule(b, i - 1)
        BY <2>1, <4>1
      <4> QED BY <4>2 DEF BalanceRule
    <3> QED BY <3>1, <3>2
  <2>3. h = [i \in 0..n + 1 |-> Rule(h, i)]
    BY <2>2
  <2> HIDE DEF h
  <2>4. \E c : c = [i \in 0..n + 1 |-> Rule(c, i)]
    BY <2>3
  <2> QED BY <2>4
<1> HIDE DEF Good
<1>3. months \in Good
  BY <1>1, <1>2, NumberInduction
<1>4. PICK b : Balances(b, months, principal, rate, months, payment)
  BY <1>3 DEF Good, Balances
<1>5. remainingBalance(principal, rate, months, payment)
        = CHOOSE c : Balances(c, months, principal, rate, months, payment)
  BY DEF remainingBalance, Balances, BalanceRule
<1> QED BY <1>4, <1>5

\* A loan and what is asked for it each month, whatever the rounding of that.
IsLoan(principal, rate, months, payment) ==
  /\ principal \in Nat \ {0} /\ months \in Nat \ {0} /\ payment \in Int
  /\ rate \in [num : Nat, den : Nat \ {0}]

LEMMA InterestFacts ==
  ASSUME NEW rate \in [num : Nat, den : Nat \ {0}], NEW b \in Int
  PROVE  /\ InterestOn(b, rate) \in Int
         /\ b >= 0 => InterestOn(b, rate) \in Nat
         /\ \A c \in Int : b <= c => InterestOn(b, rate) <= InterestOn(c, rate)
<1>1. PICK num \in Nat, den \in Nat \ {0} : num = rate.num /\ den = rate.den
  OBVIOUS
<1>2. \A x \in Int : x * num \in Int /\ InterestOn(x, rate) = (2 * (x * num) + den) \div (2 * den)
  BY <1>1 DEF InterestOn, Round
<1>3. \A x \in Int : x \div (2 * den) \in Int /\ (x >= 0 => x \div (2 * den) >= 0)
  OBVIOUS
<1>4. \A x, y \in Int : x <= y => x \div (2 * den) <= y \div (2 * den)
  OBVIOUS
<1>5. \A c \in Int : b <= c => b * num <= c * num
  OBVIOUS
<1>6. b >= 0 => b * num >= 0
  OBVIOUS
<1> DEFINE Doubled(x) == 2 * (x * num) + den
<1>7. \A x \in Int : Doubled(x) \in Int /\ InterestOn(x, rate) = Doubled(x) \div (2 * den)
  BY <1>2
<1>8. (\A c \in Int : b <= c => Doubled(b) <= Doubled(c)) /\ (b >= 0 => Doubled(b) >= 0)
  BY <1>2, <1>5, <1>6
<1> HIDE DEF Doubled
<1> QED BY <1>3, <1>4, <1>7, <1>8

LEMMA BalanceFacts ==
  ASSUME NEW principal, NEW rate, NEW months, NEW payment, IsLoan(principal, rate, months, payment)
  PROVE  LET b == remainingBalance(principal, rate, months, payment)
         IN  /\ b[0] = principal /\ b[months] = 0
             /\ \A i \in 0..months : b[i] \in Int
             /\ InterestOn(principal, rate) <= payment =>
                  /\ \A i \in 0..months : b[i] \in 0..principal
                  /\ \A i \in 1..months : b[i] <= b[i - 1]
<1> DEFINE b == remainingBalance(principal, rate, months, payment)
           Part(i) == PrincipalPart(b[i - 1], rate, months, i, payment)
           Numbers == {n \in Nat : n <= months => b[n] \in Int}
           Bounded == {n \in Nat : n <= months => b[n] \in 0..principal}
<1> USE DEF IsLoan
<1>1. b = [i \in 0..months |-> BalanceRule(b, i, principal, rate, months, payment)]
  BY BalancesExist DEF Balances
<1> HIDE DEF b
<1>2. b[0] = principal /\ \A i \in 1..months : i - 1 \in 0..months /\ b[i] = b[i - 1] - Part(i)
  BY <1>1 DEF BalanceRule
<1>3. \A i \in 1..months : b[i - 1] \in Int =>
        /\ Part(i) \in {b[i - 1], payment - InterestOn(b[i - 1], rate)} /\ Part(i) \in Int
        /\ i = months \/ Part(i) >= b[i - 1] => Part(i) = b[i - 1]
  BY InterestFacts DEF PrincipalPart
<1>4. Nat \subseteq Numbers
  <2>1. 0 \in Numbers
    BY <1>2
  <2>2. ASSUME NEW n \in Nat, n \in Numbers PROVE n + 1 \in Numbers
    <3>1. CASE n + 1 <= months
      <4>1. n + 1 \in 1..months /\ (n + 1) - 1 = n /\ b[n] \in Int
        BY <2>2, <3>1
      <4> QED BY <1>2, <1>3, <4>1
    <3> QED BY <3>1
  <2> HIDE DEF Numbers
  <2> QED BY <2>1, <2>2, NumberInduction
<1>5. \A i \in 0..months : b[i] \in Int
  BY <1>4
<1>6. b[months] = 0
  <2>1. months \in 1..months /\ months - 1 \in 0..months
    OBVIOUS
  <2> QED BY <1>2, <1>3, <1>5, <2>1
<1>7. ASSUME InterestOn(principal, rate) <= payment, NEW i \in 1..months, b[i - 1] \in 0..principal
      PROVE  Part(i) \in 0..b[i - 1]
  <2>1. InterestOn(b[i - 1], rate) <= InterestOn(principal, rate)
    BY <1>7, InterestFacts
  <2>2. InterestOn(b[i - 1], rate) \in Int /\ InterestOn(principal, rate) \in Int
    BY <1>7, InterestFacts
  <2> QED BY <1>3, <1>7, <2>1, <2>2
<1>8. ASSUME InterestOn(principal, rate) <= payment PROVE Nat \subseteq Bounded
  <2>1. 0 \in Bounded
    BY <1>2
  <2>2. ASSUME NEW n \in Nat, n \in Bounded PROVE n + 1 \in Bounded
    <3>1. CASE n + 1 <= months
      <4>1. n + 1 \in 1..months /\ (n + 1) - 1 = n /\ b[n] \in 0..principal
        BY <2>2, <3>1
      <4>2. Part(n + 1) \in 0..b[n]
        BY <1>7, <1>8, <4>1
      <4> QED BY <1>2, <4>1, <4>2
    <3> QED BY <3>1
  <2> HIDE DEF Bounded
  <2> QED BY <2>1, <2>2, NumberInduction
<1>9. ASSUME InterestOn(principal, rate) <= payment
      PROVE  (\A i \in 0..months : b[i] \in 0..principal) /\ \A i \in 1..months : b[i] <= b[i - 1]
  <2>1. \A i \in 0..months : b[i] \in 0..principal
    BY <1>8, <1>9
  <2>2. \A i \in 1..months : Part(i) \in 0..b[i - 1]
    BY <1>2, <1>7, <1>9, <2>1
  <2> QED BY <1>2, <1>5, <2>1, <2>2
<1> QED BY <1>2, <1>5, <1>6, <1>9 DEF b

\* The principal parts of the first rows are what the balance has gone down by.
LEMMA PartsTelescope ==
  ASSUME NEW m \in Nat, NEW b, \A i \in 0..m : b[i] \in Int,
         NEW f, \A i \in 1..m : f[i] = b[i - 1] - b[i]
  PROVE  SumFunctionOnSet(f, 1..m) = b[0] - b[m]
<1> DEFINE Good == {n \in Nat : n <= m => SumFunctionOnSet(f, 1..n) = b[0] - b[n]}
<1>1. 0 \in Good
  <2>1. 1..0 = {} /\ b[0] \in Int
    OBVIOUS
  <2> QED BY <2>1, SumEmpty
<1>2. ASSUME NEW n \in Nat, n \in Good PROVE n + 1 \in Good
  <2>1. CASE n + 1 <= m
    <3>1. 1..(n + 1) = (1..n) \cup {n + 1} /\ n + 1 \notin 1..n
      OBVIOUS
    <3>2. \A i \in 1..m : f[i] \in Int
      OBVIOUS
    <3>3. IsFiniteSet(1..n)
      BY FS_Interval
    <3>4. \A i \in (1..n) \cup {n + 1} : f[i] \in Int
      BY <2>1, <3>2
    <3>5. SumFunctionOnSet(f, (1..n) \cup {n + 1}) = f[n + 1] + SumFunctionOnSet(f, 1..n)
      BY <3>1, <3>3, <3>4, SumAdd
    <3>6. f[n + 1] = b[n] - b[n + 1] /\ b[n] \in Int /\ b[n + 1] \in Int /\ b[0] \in Int
      <4>1. n + 1 \in 1..m /\ (n + 1) - 1 = n /\ n \in 0..m /\ n + 1 \in 0..m /\ 0 \in 0..m
        BY <2>1
      <4> QED BY <4>1
    <3>7. SumFunctionOnSet(f, 1..n) = b[0] - b[n]
      BY <1>2, <2>1
    <3>8. SumFunctionOnSet(f, (1..n) \cup {n + 1}) = b[0] - b[n + 1]
      BY <3>5, <3>6, <3>7
    <3>9. SumFunctionOnSet(f, 1..(n + 1)) = b[0] - b[n + 1]
      BY <3>1, <3>8, Zenon
    <3> QED BY <3>9
  <2> QED BY <2>1
<1> HIDE DEF Good
<1>3. m \in Good
  BY <1>1, <1>2, NumberInduction
<1> QED BY <1>3 DEF Good

\* The schedule of a loan repays exactly the loan, whatever is asked for each month and
\* however the interest is rounded; and if the payment covers the first interest, no
\* row takes back what another has repaid (finance.go, buildAmortizationSchedule).
THEOREM ScheduleRepays ==
  ASSUME NEW principal, NEW rate, NEW months, NEW payment, IsLoan(principal, rate, months, payment)
  PROVE  LET rows == Installments(principal, rate, months, payment)
         IN  /\ Len(rows) \in 1..months /\ DOMAIN rows = 1..Len(rows)
             /\ SumFunctionOnSet([i \in DOMAIN rows |-> rows[i].principal], DOMAIN rows) = principal
             /\ InterestOn(principal, rate) <= payment =>
                  rows \in Seq([principal : Nat, interest : Nat])
<1> DEFINE b == remainingBalance(principal, rate, months, payment)
           rows == Installments(principal, rate, months, payment)
           Row(i) == [principal |-> b[i - 1] - b[i], interest |-> InterestOn(b[i - 1], rate)]
           Zeros == {i \in 0..months : b[i] = 0}
           Before == {i \in 0..months - 1 : \A j \in 0..i : b[j] # 0}
<1> USE DEF IsLoan
<1>1. /\ b[0] = principal /\ b[months] = 0
      /\ \A i \in 0..months : b[i] \in Int
      /\ InterestOn(principal, rate) <= payment =>
           /\ \A i \in 0..months : b[i] \in 0..principal
           /\ \A i \in 1..months : b[i] <= b[i - 1]
  BY BalanceFacts
<1>2. rows = SubSeq([i \in 1..months |-> Row(i)], 1, Cardinality(Before))
  BY DEF Installments
<1> HIDE DEF b, rows
<1>3. PICK m \in Zeros : \A i \in Zeros : m <= i
  <2>1. Zeros \subseteq Nat /\ months \in Zeros
    BY <1>1
  <2> QED BY <2>1, LeastNumber
<1>4. m \in 1..months /\ b[m] = 0
  BY <1>1, <1>3
<1>5. Before = 0..m - 1
  BY <1>1, <1>3, <1>4
<1>6. Cardinality(Before) = m
  <2>1. PICK last \in Nat : last = m - 1
    BY <1>4
  <2>2. Cardinality(0..last) = last + 1
    BY FS_Interval
  <2>3. Before = 0..last
    BY <1>5, <2>1
  <2> HIDE DEF Before
  <2> QED BY <1>4, <2>1, <2>2, <2>3
<1>7. rows = [i \in 1..m |-> Row(i)]
  <2> DEFINE all == [i \in 1..months |-> Row(i)]
             Some == {all[i] : i \in 1..months}
  <2>1. (\A i \in 1..m : all[i] \in Some) /\ m \in Nat \ {0}
    BY <1>4
  <2>2. [i \in 1..m |-> all[i]] = [i \in 1..m |-> Row(i)]
    BY <1>4
  <2> HIDE DEF all, Some
  <2>3. /\ SubSeq(all, 1, m) \in Seq(Some)
        /\ Len(SubSeq(all, 1, m)) = IF 1 <= m THEN m - 1 + 1 ELSE 0
        /\ \A i \in 1..(m - 1 + 1) : SubSeq(all, 1, m)[i] = all[1 + i - 1]
    BY <2>1, SubSeqProperties
  <2>4. SubSeq(all, 1, m) = [i \in 1..m |-> all[i]]
    BY <2>1, <2>3
  <2> QED BY <1>2, <1>6, <2>2, <2>4 DEF all
<1>8. Len(rows) = m /\ DOMAIN rows = 1..m
  BY <1>4, <1>7
<1>9. SumFunctionOnSet([i \in DOMAIN rows |-> rows[i].principal], DOMAIN rows) = principal
  <2> DEFINE f == [i \in DOMAIN rows |-> rows[i].principal]
  <2>1. \A i \in 1..m : f[i] = b[i - 1] - b[i]
    BY <1>7, <1>8
  <2>2. (\A i \in 0..m : b[i] \in Int) /\ m \in Nat
    BY <1>1, <1>4
  <2> HIDE DEF f
  <2>3. SumFunctionOnSet(f, 1..m) = b[0] - b[m]
    BY <2>1, <2>2, PartsTelescope
  <2>4. SumFunctionOnSet(f, DOMAIN rows) = principal
    BY <1>1, <1>4, <1>8, <2>3
  <2> QED BY <2>4 DEF f
<1>10. ASSUME InterestOn(principal, rate) <= payment
       PROVE  rows \in Seq([principal : Nat, interest : Nat])
  <2> SUFFICES ASSUME NEW i \in 1..m PROVE Row(i) \in [principal : Nat, interest : Nat]
    BY <1>4, <1>7
  <2>1. i - 1 \in 0..months /\ i \in 0..months /\ i \in 1..months
    BY <1>4
  <2>2. b[i - 1] \in 0..principal /\ b[i] \in 0..principal /\ b[i] <= b[i - 1]
    BY <1>1, <1>10, <2>1
  <2>3. InterestOn(b[i - 1], rate) \in Nat
    BY <2>2, InterestFacts
  <2> QED BY <2>2, <2>3
<1> QED BY <1>4, <1>8, <1>9, <1>10 DEF rows

=============================================================================
