------------------------- MODULE RateLimiterProofs --------------------------
(***************************************************************************)
(* Proofs about RateLimiter, for any number of sources and callers, any    *)
(* limit and any delay of the callers.                                     *)
(*                                                                         *)
(* Two facts are added to the types.  What a bucket has and has gained     *)
(* since it was seen is never negative, so a time that runs backwards      *)
(* takes away no more than what comes in during a wait.  And from a        *)
(* refusal until the next request is allowed, the bucket fills to a token  *)
(* by the time that was promised, however its time is moved meanwhile.     *)
(***************************************************************************)
EXTENDS RateLimiter, TLAPS

\* What comes in during d ticks.
Gain(d) == d * perWindow

LEMMA GainFacts ==
  ASSUME LimiterAssumption
  PROVE  /\ \A d \in Int : Gain(d) \in Int
         /\ \A d, e \in Int : Gain(d + e) = Gain(d) + Gain(e)
         /\ \A d, e \in Int : Gain(d - e) = Gain(d) - Gain(e)
         /\ \A d, e \in Int : d =< e => Gain(d) =< Gain(e)
         /\ Gain(0) = 0 /\ Gain(1) = perWindow
         /\ Brim = Gain(Window) /\ Debt = Gain(MaxDelay)
         /\ Brim \in Nat /\ Debt \in Nat
<1>1. perWindow \in Nat /\ perWindow >= 1 /\ capacity = perWindow
      /\ Window \in Nat /\ MaxDelay \in Nat
  BY DEF LimiterAssumption
<1>2. \A d \in Int : Gain(d) \in Int
  BY <1>1 DEF Gain
<1>3. \A d, e \in Int : Gain(d + e) = Gain(d) + Gain(e)
  BY <1>1 DEF Gain
<1>4. \A d, e \in Int : Gain(d - e) = Gain(d) - Gain(e)
  BY <1>1 DEF Gain
<1>5. ASSUME NEW d \in Int, NEW e \in Int, d =< e
      PROVE  Gain(d) =< Gain(e)
  <2>1. e - d \in Nat
    BY <1>5
  <2>2. \A n \in Nat, r \in Nat : n * r >= 0
    OBVIOUS
  <2>3. Gain(e - d) >= 0
    BY <1>1, <2>1, <2>2 DEF Gain
  <2>4. Gain(d) \in Int /\ Gain(e) \in Int
    BY <1>2, <1>5
  <2>5. Gain(e - d) = Gain(e) - Gain(d)
    BY <1>4, <1>5
  <2> QED
    BY <2>3, <2>4, <2>5
<1>6. Gain(0) = 0 /\ Gain(1) = perWindow
  BY <1>1 DEF Gain
<1>7. Brim = Gain(Window) /\ Debt = Gain(MaxDelay)
  BY <1>1 DEF Gain, Brim, Debt
<1>8. Gain(Window) >= 0 /\ Gain(MaxDelay) >= 0
  BY <1>1, <1>5, <1>6
<1> QED
  BY <1>1, <1>2, <1>3, <1>4, <1>5, <1>6, <1>7, <1>8

\* A full bucket holds a token, and a bucket that is idle has filled.
LEMMA WindowFills ==
  ASSUME LimiterAssumption
  PROVE  Brim >= Window /\ idleLimit \in Nat /\ idleLimit >= Window
<1>1. perWindow \in Nat /\ perWindow >= 1 /\ capacity = perWindow
      /\ Window \in Nat /\ Window >= 1 /\ Second \in Nat /\ Second >= 1
  BY DEF LimiterAssumption
<1>2. Brim >= Window
  BY <1>1 DEF Brim
<1>3. Brim \div perWindow = Window
  BY <1>1 DEF Brim
<1>4. (Window \div Second) * Second \in Int
  BY <1>1
<1>5. idleLimit \in Nat /\ idleLimit >= Window
  BY <1>1, <1>3, <1>4 DEF idleLimit, Greater
<1> QED
  BY <1>2, <1>5

\* A second more than Retry-After is enough for a token.
LEMMA RetryCovers ==
  ASSUME LimiterAssumption, NEW t \in Int, t < Window
  PROVE  /\ RetryAfter(t) \in Nat
         /\ t + Gain((RetryAfter(t) + 1) * Second) >= Window
<1>1. perWindow \in Nat /\ perWindow >= 1 /\ Second \in Nat /\ Second >= 1
      /\ Window \in Nat
  BY DEF LimiterAssumption
<1> DEFINE part == perWindow * Second
           q == (Window - t) \div part
<1>2. part \in Nat /\ part >= 1
  BY <1>1
<1>3. Window - t \in Nat
  BY <1>1
<1>4. q \in Nat /\ (q + 1) * part > Window - t
  <2> HIDE DEF part
  <2> QED
    BY <1>2, <1>3
<1>5. RetryAfter(t) \in Nat /\ RetryAfter(t) >= q
  <2> HIDE DEF part
  <2>1. RetryAfter(t) = Greater(q, 1)
    BY DEF RetryAfter, part
  <2> HIDE DEF q
  <2> QED
    BY <1>4, <2>1 DEF Greater
<1>6. (RetryAfter(t) + 1) * part >= (q + 1) * part
  <2> HIDE DEF part, q
  <2>1. \A a, b, c \in Nat : a >= b => a * c >= b * c
    OBVIOUS
  <2> QED
    BY <1>2, <1>4, <1>5, <2>1
<1>7. Gain((RetryAfter(t) + 1) * Second) = (RetryAfter(t) + 1) * part
  BY <1>1, <1>5 DEF Gain
<1> QED
  <2> HIDE DEF part, q
  <2>1. (RetryAfter(t) + 1) * part \in Int /\ (q + 1) * part \in Int
    BY <1>2, <1>4, <1>5
  <2> QED
    BY <1>1, <1>4, <1>5, <1>6, <1>7, <2>1

-----------------------------------------------------------------------------
(* The inductive invariant *)

\* What bucket k has, with what comes in from when it was seen until t.
Worth(k, t) == buckets[k].tokens + Gain(t - buckets[k].lastSeen)

NotBelowZero == \A k \in Keys : buckets[k] # NoBucket => Worth(k, now) >= 0

PromiseKept ==
  \A k \in Keys : buckets[k] # NoBucket /\ promised[k] # Never
                  => Worth(k, promised[k]) >= Window

Inv == TypeOK /\ NotBelowZero /\ PromiseKept

USE LimiterAssumption

LEMMA InitInv == Init => Inv
BY DEF Init, Inv, TypeOK, NotBelowZero, PromiseKept, Caller, IdleCaller, Never

\* The bucket that a caller leaves behind for k.
LEMMA BucketShapes ==
  ASSUME TypeOK, NEW k \in Keys
  PROVE  /\ buckets[k] = NoBucket <=> buckets[k] \notin Bucket
         /\ buckets[k] # NoBucket =>
              /\ buckets[k].tokens \in Int /\ -Debt =< buckets[k].tokens
              /\ buckets[k].tokens =< Brim
              /\ buckets[k].lastSeen \in Nat /\ buckets[k].lastSeen =< now
              /\ buckets[k] = [tokens |-> buckets[k].tokens,
                               lastSeen |-> buckets[k].lastSeen]
<1>1. buckets[k] \in Bucket \cup {NoBucket} /\ now \in Nat
  BY DEF TypeOK
<1>2. Debt \in Nat /\ Brim \in Nat
  BY GainFacts
<1>3. NoBucket \notin Bucket
  BY DEF NoBucket, Bucket, Never
<1> QED
  BY <1>1, <1>2, <1>3 DEF Bucket

LEMMA Stamps ==
  ASSUME Inv, NEW c \in Callers, caller[c].pc = "stamped"
  PROVE  /\ caller[c].stamp \in Nat
         /\ caller[c].stamp =< now /\ now =< caller[c].stamp + MaxDelay
<1>1. caller[c] \in [pc : {"stamped"}, stamp : Greater(0, now - MaxDelay)..now]
  BY DEF Inv, TypeOK, Caller, IdleCaller
<1>2. now \in Nat /\ MaxDelay \in Nat
  BY DEF Inv, TypeOK, LimiterAssumption
<1> QED
  BY <1>1, <1>2 DEF Greater

LEMMA WorthGrows ==
  ASSUME TypeOK, NEW k \in Keys, buckets[k] # NoBucket, NEW s \in Nat
  PROVE  Worth(k, s) \in Int /\ Worth(k, now) = Worth(k, s) + Gain(now - s)
<1> DEFINE a == s - buckets[k].lastSeen
           b == now - s
<1>1. buckets[k].tokens \in Int /\ buckets[k].lastSeen \in Nat /\ now \in Nat
  BY BucketShapes DEF TypeOK
<1>2. a \in Int /\ b \in Int /\ now - buckets[k].lastSeen = a + b
  BY <1>1
<1>3. /\ Worth(k, s) = buckets[k].tokens + Gain(a)
      /\ Worth(k, now) = buckets[k].tokens + Gain(a + b)
  BY <1>2 DEF Worth
<1> HIDE DEF a
<1>4. b \in Int
  BY <1>2
<1> HIDE DEF b
<1>5. Gain(a + b) = Gain(a) + Gain(b) /\ Gain(a) \in Int /\ Gain(b) \in Int
  <2>1. \A d, e \in Int : Gain(d + e) = Gain(d) + Gain(e) /\ Gain(d) \in Int
    BY GainFacts
  <2> QED
    BY <1>2, <2>1
<1>6. Worth(k, now) = Worth(k, s) + Gain(b)
  BY <1>1, <1>3, <1>5
<1> QED
  BY <1>1, <1>3, <1>5, <1>6 DEF b

\* A caller finds a full bucket, or what its bucket is worth at the caller's time.
LEMMA Found ==
  ASSUME Inv, NEW c \in Callers, NEW k \in Keys, caller[c].pc = "stamped",
         NEW s, s = caller[c].stamp, NEW t, t = TokensFor(k, s)
  PROVE  /\ s \in Nat /\ s =< now /\ now =< s + MaxDelay
         /\ t \in Int /\ -Debt =< t /\ t =< Brim /\ t + Gain(now - s) >= 0
         /\ t = Brim \/ (buckets[k] # NoBucket /\ t = Worth(k, s))
         /\ Kept(k, s) # NoBucket =>
              /\ buckets[k] # NoBucket
              /\ t =< Worth(k, s)
<1>1. s \in Nat /\ s =< now /\ now =< s + MaxDelay /\ now \in Nat
  BY Stamps DEF Inv, TypeOK
<1>2. /\ Brim \in Nat /\ Debt \in Nat /\ MaxDelay \in Nat /\ Gain(now - s) \in Int
      /\ 0 =< Gain(now - s) /\ Gain(now - s) =< Debt
  <2>1. 0 =< now - s /\ now - s =< MaxDelay /\ now - s \in Int /\ MaxDelay \in Nat
    BY <1>1 DEF LimiterAssumption
  <2>2. /\ \A d, e \in Int : d =< e => Gain(d) =< Gain(e)
        /\ \A d \in Int : Gain(d) \in Int
        /\ Gain(0) = 0 /\ Debt = Gain(MaxDelay) /\ Brim \in Nat /\ Debt \in Nat
    BY GainFacts
  <2>3. Gain(0) =< Gain(now - s)
    BY <2>1, <2>2
  <2>4. Gain(now - s) =< Gain(MaxDelay)
    BY <2>1, <2>2
  <2> QED
    BY <2>1, <2>2, <2>3, <2>4
<1>3. CASE Kept(k, s) = NoBucket
  BY <1>1, <1>2, <1>3 DEF TokensFor
<1>4. CASE Kept(k, s) # NoBucket
  <2>1. Kept(k, s) = buckets[k] /\ buckets[k] # NoBucket
    BY <1>4 DEF Kept
  <2>2. t = Lesser(Brim, Worth(k, s))
    BY <1>4, <2>1 DEF TokensFor, Filled, Worth, Gain
  <2>3. /\ buckets[k].tokens \in Int /\ buckets[k].lastSeen \in Int
        /\ Worth(k, now) >= 0
    <3>1. TypeOK
      BY DEF Inv
    <3>2. buckets[k].tokens \in Int /\ buckets[k].lastSeen \in Nat
      BY <2>1, <3>1, BucketShapes
    <3>3. Worth(k, now) >= 0
      BY <2>1 DEF Inv, NotBelowZero
    <3> QED
      BY <3>2, <3>3
  <2>4. Worth(k, s) \in Int /\ Worth(k, now) = Worth(k, s) + Gain(now - s)
    BY <1>1, <2>1, WorthGrows DEF Inv
  <2> HIDE DEF Worth
  <2> QED
    BY <1>1, <1>2, <1>4, <2>1, <2>2, <2>3, <2>4 DEF Lesser
<1> QED
  BY <1>3, <1>4

\* The mutex: whatever is left in the bucket of k, the other buckets stay as they
\* are or are thrown away.
LEMMA HoldingKeeps ==
  ASSUME Inv, NEW k \in Keys, NEW s \in Nat, s =< now, NEW t \in Int,
         -Debt =< t, t =< Brim, t + Gain(now - s) >= 0,
         Holding(k, t, s), now' = now
  PROVE  /\ buckets' \in [Keys -> (Bucket \cup {NoBucket})']
         /\ NotBelowZero'
         /\ buckets'[k] = [tokens |-> t, lastSeen |-> s]
         /\ \A j \in Keys : j # k => buckets'[j] = Kept(j, s)
<1>1. buckets'[k] = [tokens |-> t, lastSeen |-> s]
  BY DEF Holding
<1>2. \A j \in Keys : j # k => buckets'[j] = Kept(j, s)
  BY DEF Holding
<1>3. Brim \in Nat /\ Debt \in Nat /\ now \in Nat
  BY GainFacts DEF Inv, TypeOK
<1>4. [tokens |-> t, lastSeen |-> s] \in Bucket
  BY <1>3 DEF Bucket
<1>5. \A j \in Keys : Kept(j, s) \in {buckets[j], NoBucket}
  BY DEF Kept
<1>6. (Bucket \cup {NoBucket})' = Bucket \cup {NoBucket}
  BY DEF Bucket, NoBucket, Debt, Brim
<1>7. buckets' \in [Keys -> Bucket \cup {NoBucket}]
  <2>1. \A j \in Keys : buckets[j] \in Bucket \cup {NoBucket}
    BY DEF Inv, TypeOK
  <2>2. \A j \in Keys : Kept(j, s) \in Bucket \cup {NoBucket}
    BY <1>5, <2>1
  <2> QED
    BY <1>4, <2>2 DEF Holding
<1>8. ASSUME NEW j \in Keys, buckets'[j] # NoBucket
      PROVE  Worth(j, now)' >= 0
  <2>1. CASE j = k
    BY <1>1, <2>1 DEF Worth, Gain
  <2>2. CASE j # k
    <3>1. buckets'[j] = buckets[j]
      BY <1>2, <1>5, <1>8, <2>2
    <3>2. Worth(j, now) >= 0
      BY <1>8, <3>1 DEF Inv, NotBelowZero
    <3> QED
      BY <3>1, <3>2 DEF Worth, Gain
  <2> QED
    BY <2>1, <2>2
<1>9. NotBelowZero'
  BY <1>8 DEF NotBelowZero, NoBucket, Brim
<1> QED
  BY <1>1, <1>2, <1>6, <1>7, <1>9

LEMMA LeavesKeeps ==
  ASSUME Inv, NEW c \in Callers, Leaves(c)
  PROVE  /\ now' = now /\ now' \in Nat /\ lastGC' \in 0..now'
         /\ caller' \in [Callers -> Caller']
<1>1. caller[c].pc = "stamped" /\ now' = now
      /\ caller' = [caller EXCEPT ![c] = IdleCaller]
      /\ Collected(caller[c].stamp)
  BY DEF Leaves
<1>2. caller[c].stamp \in Nat /\ caller[c].stamp =< now
  BY <1>1, Stamps
<1>3. lastGC' \in 0..now
  BY <1>1, <1>2 DEF Collected, Inv, TypeOK
<1>4. Caller' = Caller /\ IdleCaller \in Caller
  BY <1>1 DEF Caller, Greater
<1>5. caller' \in [Callers -> Caller]
  BY <1>1, <1>4 DEF Inv, TypeOK
<1> QED
  BY <1>1, <1>3, <1>4, <1>5 DEF Inv, TypeOK

LEMMA AllowInv ==
  ASSUME Inv, NEW c \in Callers, NEW k \in Keys, Allow(c, k)
  PROVE  Inv'
<1> DEFINE s == caller[c].stamp
           t == TokensFor(k, s)
<1>1. /\ Leaves(c) /\ t >= Window /\ Holding(k, t - Window, s)
      /\ allowed' = [allowed EXCEPT ![k] = @ + 1]
      /\ promised' = [promised EXCEPT ![k] = Never]
      /\ caller[c].pc = "stamped"
  BY DEF Allow, Leaves
<1>2. /\ s \in Nat /\ s =< now /\ now =< s + MaxDelay /\ t \in Int /\ t =< Brim
  BY <1>1, Found
<1> HIDE DEF s, t
<1>3. now' = now /\ now' \in Nat /\ lastGC' \in 0..now' /\ caller' \in [Callers -> Caller']
  BY <1>1, LeavesKeeps
<1>4. Window \in Nat /\ Brim \in Nat /\ Debt \in Nat /\ now \in Nat
  BY GainFacts DEF LimiterAssumption, Inv, TypeOK
<1>5. Gain(now - s) \in Int /\ Gain(now - s) >= 0
  <2>1. now - s \in Int /\ 0 =< now - s
    BY <1>2, <1>4
  <2>2. /\ \A d, e \in Int : d =< e => Gain(d) =< Gain(e)
        /\ \A d \in Int : Gain(d) \in Int
        /\ Gain(0) = 0
    BY GainFacts
  <2> QED
    BY <2>1, <2>2
<1>6. /\ t - Window \in Int /\ -Debt =< t - Window /\ t - Window =< Brim
      /\ t - Window + Gain(now - s) >= 0
  BY <1>1, <1>2, <1>4, <1>5
<1>7. /\ buckets' \in [Keys -> (Bucket \cup {NoBucket})'] /\ NotBelowZero'
      /\ \A j \in Keys : j # k => buckets'[j] = Kept(j, s)
  BY <1>1, <1>2, <1>3, <1>6, HoldingKeeps
<1>8. allowed' \in [Keys -> Nat] /\ promised' \in [Keys -> Nat \cup {Never}]
  BY <1>1 DEF Inv, TypeOK
<1>9. PromiseKept'
  <2> SUFFICES ASSUME NEW j \in Keys, buckets'[j] # NoBucket', promised'[j] # Never
               PROVE  Worth(j, promised[j])' >= Window
    BY DEF PromiseKept, Never
  <2>1. j # k /\ promised'[j] = promised[j]
    BY <1>1 DEF Inv, TypeOK
  <2>2. buckets'[j] = buckets[j] /\ buckets[j] # NoBucket
    BY <1>7, <2>1 DEF Kept, NoBucket, Brim
  <2>3. Worth(j, promised[j]) >= Window
    BY <2>1, <2>2 DEF Inv, PromiseKept
  <2> QED
    BY <2>1, <2>2, <2>3 DEF Worth, Gain
<1> QED
  BY <1>3, <1>7, <1>8, <1>9 DEF Inv, TypeOK, Never

\* A refusal finds less than a token, so its source has a bucket and keeps its
\* worth; the time promised is one by which it fills to a token.
LEMMA RefuseInv ==
  ASSUME Inv, NEW c \in Callers, NEW k \in Keys, Refuse(c, k)
  PROVE  Inv'
<1> DEFINE s == caller[c].stamp
           t == TokensFor(k, s)
<1>1. /\ Leaves(c) /\ t < Window /\ Holding(k, t, s)
      /\ allowed' = allowed
      /\ promised' = [promised EXCEPT ![k] =
           IF @ = Never THEN s + (RetryAfter(t) + 1) * Second ELSE @]
      /\ caller[c].pc = "stamped"
  BY DEF Refuse, Leaves
<1>2. /\ s \in Nat /\ s =< now /\ now =< s + MaxDelay /\ t \in Int /\ t =< Brim
      /\ -Debt =< t /\ t + Gain(now - s) >= 0
      /\ t = Brim \/ (buckets[k] # NoBucket /\ t = Worth(k, s))
  BY <1>1, Found
<1> HIDE DEF s, t
<1>3. now' = now /\ now' \in Nat /\ lastGC' \in 0..now' /\ caller' \in [Callers -> Caller']
  BY <1>1, LeavesKeeps
<1>4. Window \in Nat /\ Second \in Nat /\ Brim >= Window /\ Brim \in Nat
  BY GainFacts, WindowFills DEF LimiterAssumption
<1>5. buckets[k] # NoBucket /\ t = Worth(k, s)
  BY <1>1, <1>2, <1>4
<1>6. /\ buckets' \in [Keys -> (Bucket \cup {NoBucket})'] /\ NotBelowZero'
      /\ buckets'[k] = [tokens |-> t, lastSeen |-> s]
      /\ \A j \in Keys : j # k => buckets'[j] = Kept(j, s)
  BY <1>1, <1>2, <1>3, HoldingKeeps
<1>7. RetryAfter(t) \in Nat /\ t + Gain((RetryAfter(t) + 1) * Second) >= Window
  BY <1>1, <1>2, RetryCovers
<1>8. promised' \in [Keys -> Nat \cup {Never}]
  <2>1. s + (RetryAfter(t) + 1) * Second \in Nat
    BY <1>2, <1>4, <1>7
  <2> QED
    BY <1>1, <2>1 DEF Inv, TypeOK
<1>9. PromiseKept'
  <2> SUFFICES ASSUME NEW j \in Keys, buckets'[j] # NoBucket', promised'[j] # Never
               PROVE  Worth(j, promised[j])' >= Window
    BY DEF PromiseKept, Never
  <2>1. CASE j # k
    <3>1. promised'[j] = promised[j]
      BY <1>1, <2>1 DEF Inv, TypeOK
    <3>2. buckets'[j] = buckets[j] /\ buckets[j] # NoBucket
      BY <1>6, <2>1 DEF Kept, NoBucket, Brim
    <3>3. Worth(j, promised[j]) >= Window
      BY <3>1, <3>2 DEF Inv, PromiseKept
    <3> QED
      BY <3>1, <3>2, <3>3 DEF Worth, Gain
  <2>2. CASE j = k /\ promised[k] = Never
    <3>1. promised'[j] = s + (RetryAfter(t) + 1) * Second
      BY <1>1, <2>2 DEF Inv, TypeOK
    <3>2. promised'[j] - s = (RetryAfter(t) + 1) * Second
      <4> DEFINE wait == (RetryAfter(t) + 1) * Second
      <4>1. wait \in Int
        BY <1>4, <1>7
      <4> HIDE DEF wait
      <4> QED
        BY <1>2, <3>1, <4>1 DEF wait
    <3>3. Worth(j, promised[j])' = t + Gain((RetryAfter(t) + 1) * Second)
      BY <1>6, <2>2, <3>2 DEF Worth, Gain
    <3> QED
      BY <1>7, <3>3
  <2>3. CASE j = k /\ promised[k] # Never
    <3> DEFINE P == promised[k]
               b == buckets[k].lastSeen
    <3>1. promised'[k] = P /\ P \in Nat
      BY <1>1, <2>3 DEF Inv, TypeOK
    <3>2. Worth(k, P) >= Window
      BY <1>5, <2>3 DEF Inv, PromiseKept
    <3>3. b \in Nat /\ buckets[k].tokens \in Int
      <4>1. TypeOK
        BY DEF Inv
      <4> QED
        BY <1>5, <4>1, BucketShapes
    <3>4. Worth(k, P) = t + Gain(P - s)
      <4>1. Worth(k, P) = buckets[k].tokens + Gain(P - b)
            /\ t = buckets[k].tokens + Gain(s - b)
        BY <1>5 DEF Worth
      <4> HIDE DEF P, b
      <4>2. P - b = (s - b) + (P - s) /\ s - b \in Int /\ P - s \in Int
        BY <1>2, <3>1, <3>3
      <4>3. \A d, e \in Int : Gain(d + e) = Gain(d) + Gain(e) /\ Gain(d) \in Int
        BY GainFacts
      <4>4. Gain((s - b) + (P - s)) = Gain(s - b) + Gain(P - s)
            /\ Gain(s - b) \in Int /\ Gain(P - s) \in Int
        BY <4>2, <4>3
      <4> QED
        BY <3>3, <4>1, <4>2, <4>4
    <3>5. Worth(k, promised[k])' = t + Gain(P - s)
      BY <1>6, <3>1 DEF Worth, Gain
    <3> QED
      BY <2>3, <3>2, <3>4, <3>5
  <2> QED
    BY <2>1, <2>2, <2>3
<1> QED
  BY <1>1, <1>3, <1>6, <1>8, <1>9 DEF Inv, TypeOK, Never

LEMMA ReadClockInv ==
  ASSUME Inv, NEW c \in Callers, ReadClock(c)
  PROVE  Inv'
<1>1. /\ caller' = [caller EXCEPT ![c] = [pc |-> "stamped", stamp |-> now]]
      /\ now' = now /\ buckets' = buckets /\ lastGC' = lastGC
      /\ allowed' = allowed /\ promised' = promised
  BY DEF ReadClock
<1>2. now \in Nat /\ MaxDelay \in Nat
  BY DEF Inv, TypeOK, LimiterAssumption
<1>3. [pc |-> "stamped", stamp |-> now] \in Caller
  BY <1>2 DEF Caller, Greater
<1>4. Caller' = Caller /\ (Bucket \cup {NoBucket})' = Bucket \cup {NoBucket}
  BY <1>1 DEF Caller, IdleCaller, Greater, Bucket, NoBucket, Debt, Brim
<1>5. TypeOK'
  BY <1>1, <1>3, <1>4 DEF Inv, TypeOK, Never
<1>6. NotBelowZero' /\ PromiseKept'
  BY <1>1 DEF Inv, NotBelowZero, PromiseKept, Worth, Gain, NoBucket, Brim, Never
<1> QED
  BY <1>5, <1>6 DEF Inv

LEMMA WorthTicks ==
  ASSUME Inv, Tick, NEW k \in Keys, buckets[k] # NoBucket
  PROVE  Worth(k, now)' = Worth(k, now) + perWindow /\ Worth(k, now) \in Int
<1>1. TypeOK
  BY DEF Inv
<1>2. /\ buckets[k].tokens \in Int /\ buckets[k].lastSeen \in Nat
      /\ now \in Nat /\ perWindow \in Nat
  BY <1>1, BucketShapes DEF TypeOK, LimiterAssumption
<1> DEFINE d == now - buckets[k].lastSeen
<1>3. d \in Int /\ now + 1 - buckets[k].lastSeen = d + 1
  BY <1>2
<1>4. Worth(k, now)' = buckets[k].tokens + Gain(d + 1)
  <2>1. Worth(k, now)' = buckets[k].tokens + Gain(now + 1 - buckets[k].lastSeen)
    <3>1. buckets'[k] = buckets[k] /\ now' = now + 1
      BY DEF Tick
    <3>2. Worth(k, now)'
            = buckets'[k].tokens + (now' - buckets'[k].lastSeen) * perWindow
      BY Zenon DEF Worth, Gain
    <3>3. (now' - buckets'[k].lastSeen) = now + 1 - buckets[k].lastSeen
      BY <1>2, <3>1
    <3>4. buckets'[k].tokens = buckets[k].tokens
      BY <3>1
    <3> DEFINE e == now + 1 - buckets[k].lastSeen
    <3>5. Worth(k, now)' = buckets[k].tokens + e * perWindow
      BY <3>2, <3>3, <3>4
    <3> QED
      BY <3>5 DEF Gain
  <2> QED
    BY <1>3, <2>1
<1>5. Worth(k, now) = buckets[k].tokens + Gain(d)
  BY DEF Worth
<1> HIDE DEF d
<1>6. Gain(d + 1) = Gain(d) + perWindow /\ Gain(d) \in Int
  BY <1>2, <1>3 DEF Gain
<1> QED
  BY <1>2, <1>4, <1>5, <1>6

LEMMA TickInv ==
  ASSUME Inv, Tick
  PROVE  Inv'
<1>1. /\ now' = now + 1 /\ buckets' = buckets /\ lastGC' = lastGC /\ caller' = caller
      /\ allowed' = allowed /\ promised' = promised
      /\ \A c \in Callers : caller[c].pc = "stamped" => now < caller[c].stamp + MaxDelay
  BY DEF Tick
<1>2. now \in Nat /\ MaxDelay \in Nat /\ perWindow \in Nat
  BY DEF Inv, TypeOK, LimiterAssumption
<1>3. ASSUME NEW c \in Callers
      PROVE  caller[c] \in Caller'
  <2>1. CASE caller[c] = IdleCaller
    BY <2>1 DEF Caller, IdleCaller
  <2>2. CASE caller[c] # IdleCaller
    <3>1. caller[c] \in [pc : {"stamped"}, stamp : Greater(0, now - MaxDelay)..now]
      BY <2>2 DEF Inv, TypeOK, Caller
    <3>2. caller[c].pc = "stamped" /\ caller[c].stamp \in Nat
          /\ caller[c].stamp =< now /\ now < caller[c].stamp + MaxDelay
      BY <1>1, <1>2, <3>1 DEF Greater
    <3>3. caller[c].stamp \in (Greater(0, now - MaxDelay)..now)'
      BY <1>1, <1>2, <3>2 DEF Greater
    <3>4. caller[c] \in [pc : {"stamped"}, stamp : (Greater(0, now - MaxDelay)..now)']
      BY <3>1, <3>3
    <3> QED
      BY <3>4 DEF Caller
  <2> QED
    BY <2>1, <2>2
<1>4. ASSUME NEW k \in Keys
      PROVE  buckets[k] \in (Bucket \cup {NoBucket})'
  <2>1. buckets[k] \in Bucket \cup {NoBucket}
    BY DEF Inv, TypeOK
  <2>2. Bucket \subseteq Bucket'
    BY <1>1, <1>2 DEF Bucket, Brim, Debt
  <2>3. NoBucket' = NoBucket
    BY DEF NoBucket, Brim
  <2> QED
    BY <2>1, <2>2, <2>3
<1>5. TypeOK'
  <2>1. now' \in Nat /\ lastGC' \in 0..now'
    BY <1>1, <1>2 DEF Inv, TypeOK
  <2>2. caller' \in [Callers -> Caller']
    BY <1>1, <1>3 DEF Inv, TypeOK
  <2>3. buckets' \in [Keys -> (Bucket \cup {NoBucket})']
    BY <1>1, <1>4 DEF Inv, TypeOK
  <2>4. allowed' \in [Keys -> Nat] /\ promised' \in [Keys -> Nat \cup {Never}]
    BY <1>1 DEF Inv, TypeOK
  <2> QED
    BY <2>1, <2>2, <2>3, <2>4 DEF TypeOK, Never
<1>6. \A k \in Keys : buckets[k] # NoBucket
        => Worth(k, now)' = Worth(k, now) + perWindow /\ Worth(k, now) \in Int
  BY WorthTicks
<1>7. NotBelowZero'
  <2> SUFFICES ASSUME NEW k \in Keys, buckets[k] # NoBucket
               PROVE  Worth(k, now)' >= 0
    BY <1>1 DEF NotBelowZero, NoBucket, Brim
  <2> QED
    BY <1>2, <1>6 DEF Inv, NotBelowZero
<1>8. PromiseKept'
  BY <1>1 DEF Inv, PromiseKept, Worth, Gain, NoBucket, Brim, Never
<1> QED
  BY <1>5, <1>7, <1>8 DEF Inv

LEMMA NextInv ==
  ASSUME Inv, [Next]_vars
  PROVE  Inv'
<1>1. CASE UNCHANGED vars
  BY <1>1 DEF vars, Inv, TypeOK, NotBelowZero, PromiseKept, Worth, Gain, Caller,
              IdleCaller, Greater, Bucket, NoBucket, Debt, Brim, Never
<1>2. ASSUME NEW c \in Callers, ReadClock(c)
      PROVE  Inv'
  BY <1>2, ReadClockInv
<1>3. ASSUME NEW c \in Callers, NEW k \in Keys, Allow(c, k)
      PROVE  Inv'
  BY <1>3, AllowInv
<1>4. ASSUME NEW c \in Callers, NEW k \in Keys, Refuse(c, k)
      PROVE  Inv'
  BY <1>4, RefuseInv
<1>5. CASE Tick
  BY <1>5, TickInv
<1> QED
  BY <1>1, <1>2, <1>3, <1>4, <1>5 DEF Next

LEMMA SpecInv == Spec => []Inv
BY InitInv, NextInv, PTL DEF Spec

\* Tokens stay within their limits, whatever times the callers go by.
THEOREM LimiterTypeCorrect == Spec => []TypeOK
<1>1. Inv => TypeOK
  BY DEF Inv
<1> QED
  BY SpecInv, <1>1, PTL

-----------------------------------------------------------------------------
(* Retry-After *)

RefusedEarly ==
  \A c \in Callers, k \in Keys :
    Refuse(c, k) /\ promised[k] # Never => caller[c].stamp < promised[k]

\* Whoever waits a second longer than told, and asks nothing meanwhile, is allowed.
THEOREM RetryHolds == Spec => RetryIsEnough
<1>1. ASSUME Inv, [Next]_vars
      PROVE  [RefusedEarly]_vars
  <2> SUFFICES ASSUME NEW c \in Callers, NEW k \in Keys, Refuse(c, k),
                      promised[k] # Never
               PROVE  caller[c].stamp < promised[k]
    BY DEF RefusedEarly
  <2> DEFINE s == caller[c].stamp
             t == TokensFor(k, s)
             P == promised[k]
             b == buckets[k].lastSeen
  <2>1. caller[c].pc = "stamped" /\ t < Window
    BY DEF Refuse, Leaves
  <2>2. s \in Nat /\ t \in Int /\ (t = Brim \/ (buckets[k] # NoBucket /\ t = Worth(k, s)))
    BY <1>1, <2>1, Found
  <2>3. Window \in Nat /\ Brim >= Window /\ Brim \in Nat
    BY GainFacts, WindowFills DEF LimiterAssumption
  <2>4. buckets[k] # NoBucket /\ t = Worth(k, s) /\ P \in Nat
    BY <1>1, <2>1, <2>2, <2>3 DEF Inv, TypeOK
  <2>5. Worth(k, P) >= Window
    BY <1>1, <2>4 DEF Inv, PromiseKept
  <2>6. b \in Nat /\ buckets[k].tokens \in Int
    <3>1. TypeOK
      BY <1>1 DEF Inv
    <3> QED
      BY <2>4, <3>1, BucketShapes
  <2>7. /\ Worth(k, P) = buckets[k].tokens + Gain(P - b)
        /\ Worth(k, s) = buckets[k].tokens + Gain(s - b)
    BY DEF Worth
  <2> HIDE DEF s, t, P, b
  <2>8. P - b \in Int /\ s - b \in Int
    BY <2>2, <2>4, <2>6
  <2>9. /\ Gain(P - b) \in Int /\ Gain(s - b) \in Int
        /\ P - b =< s - b => Gain(P - b) =< Gain(s - b)
    <3>1. \A d, e \in Int : Gain(d) \in Int /\ (d =< e => Gain(d) =< Gain(e))
      BY GainFacts
    <3> QED
      BY <2>8, <3>1
  <2>10. ~(P - b =< s - b)
    BY <2>1, <2>3, <2>4, <2>5, <2>6, <2>7, <2>9
  <2>11. s < P
    BY <2>2, <2>4, <2>6, <2>10
  <2> QED
    BY <2>11 DEF s, P
<1>2. RetryIsEnough <=> [][RefusedEarly]_vars
  BY PTL DEF RetryIsEnough, RefusedEarly
<1> QED
  BY SpecInv, <1>1, <1>2, PTL DEF Spec

-----------------------------------------------------------------------------
(* The limiter implements a token bucket *)

LEMMA CreditIs ==
  ASSUME Inv, NEW k \in Keys
  PROVE  /\ Credit(k) \in 0..(Brim + Debt)
         /\ buckets[k] = NoBucket => Credit(k) = Brim + Debt
         /\ buckets[k] # NoBucket =>
              /\ Worth(k, now) \in Int
              /\ Credit(k) = Lesser(Brim + Debt, Worth(k, now))
<1>1. Brim \in Nat /\ Debt \in Nat
  BY GainFacts
<1>2. CASE buckets[k] = NoBucket
  BY <1>1, <1>2 DEF Credit
<1>3. CASE buckets[k] # NoBucket
  <2>1. TypeOK
    BY DEF Inv
  <2>2. buckets[k].tokens \in Int /\ buckets[k].lastSeen \in Nat /\ now \in Nat
    BY <1>3, <2>1, BucketShapes DEF TypeOK
  <2>3. Gain(now - buckets[k].lastSeen) \in Int
    <3>1. now - buckets[k].lastSeen \in Int
      BY <2>2
    <3> QED
      BY <3>1, GainFacts
  <2>4. Worth(k, now) \in Int /\ Worth(k, now) >= 0
    BY <1>3, <2>2, <2>3 DEF Worth, Inv, NotBelowZero
  <2>5. Credit(k) = Lesser(Brim + Debt, Worth(k, now))
    BY <1>3 DEF Credit, Worth, Gain
  <2> QED
    BY <1>1, <1>3, <2>4, <2>5 DEF Lesser
<1> QED
  BY <1>2, <1>3

\* A bucket that is thrown away has filled, but for what comes in during two waits.
LEMMA EvictedIsFull ==
  ASSUME Inv, NEW k \in Keys, NEW s \in Nat, s =< now,
         buckets[k] # NoBucket, Kept(k, s) = NoBucket
  PROVE  Credit(k) >= Brim - Debt
<1>1. Idle(k, s)
  BY DEF Kept
<1> DEFINE b == buckets[k].lastSeen
           d == now - b
<1>2. TypeOK
  BY DEF Inv
<1>3. /\ buckets[k].tokens \in Int /\ -Debt =< buckets[k].tokens
      /\ b \in Nat /\ now \in Nat
  BY <1>2, BucketShapes DEF TypeOK
<1>4. d \in Int /\ Window \in Int /\ Window =< d
  BY <1>1, <1>3, WindowFills DEF Idle, LimiterAssumption
<1>5. Worth(k, now) = buckets[k].tokens + Gain(d)
  BY DEF Worth
<1> HIDE DEF b, d
<1>6. Gain(d) \in Int /\ Gain(Window) =< Gain(d)
  <2>1. \A e, f \in Int : Gain(e) \in Int /\ (e =< f => Gain(e) =< Gain(f))
    BY GainFacts
  <2> QED
    BY <1>4, <2>1
<1>7. Brim = Gain(Window) /\ Brim \in Nat /\ Debt \in Nat
  BY GainFacts
<1>8. Credit(k) = Lesser(Brim + Debt, Worth(k, now))
  BY CreditIs
<1> QED
  BY <1>3, <1>5, <1>6, <1>7, <1>8 DEF Lesser

\* The credit of k, taken as full when it almost is.
Available(k) == IF Credit(k) >= Brim + Debt - 2 * Debt THEN Brim + Debt ELSE Credit(k)

\* The sources that a request was not about lose nothing but what does not count.
LEMMA OthersKeepCredit ==
  ASSUME Inv, NEW k \in Keys, NEW s \in Nat, s =< now, now' = now,
         buckets'[k] = Kept(k, s)
  PROVE  Credit(k)' =< Available(k)
<1>1. Brim \in Nat /\ Debt \in Nat /\ Credit(k) \in 0..(Brim + Debt)
  BY GainFacts, CreditIs
<1>2. Available(k)
        = IF Credit(k) >= Brim + Debt - 2 * Debt THEN Brim + Debt ELSE Credit(k)
  BY DEF Available
<1>3. CASE buckets'[k] = buckets[k]
  <2>1. Credit(k)' = Credit(k)
    BY <1>3 DEF Credit, NoBucket, Brim, Debt
  <2> QED
    BY <1>1, <1>2, <2>1
<1>4. CASE buckets'[k] # buckets[k]
  <2>1. buckets[k] # NoBucket /\ Kept(k, s) = NoBucket
    BY <1>4 DEF Kept
  <2>2. Credit(k)' = Brim + Debt
    BY <2>1 DEF Credit, NoBucket, Brim, Debt
  <2>3. Credit(k) >= Brim - Debt
    BY <2>1, EvictedIsFull
  <2> QED
    BY <1>1, <1>2, <2>2, <2>3
<1> QED
  BY <1>3, <1>4

CreditsInRange == \A k \in Keys : Credit(k) \in 0..(Brim + Debt)

LEMMA CreditRange == Inv => CreditsInRange
BY CreditIs DEF CreditsInRange

LEMMA CreditRangeNext == Inv' => CreditsInRange'
BY CreditRange, PTL

LEMMA CreditIsInt ==
  ASSUME Inv', NEW k \in Keys
  PROVE  Credit(k)' \in Int /\ Credit(k)' \in 0..(Brim + Debt)
<1>1. Credit(k)' \in (0..(Brim + Debt))'
  BY CreditRangeNext DEF CreditsInRange
<1>2. (0..(Brim + Debt))' = 0..(Brim + Debt)
  BY DEF Brim, Debt
<1>3. Brim \in Nat /\ Debt \in Nat
  BY GainFacts
<1> QED
  BY <1>1, <1>2, <1>3

\* What is left in the bucket of a request: the tokens it found, less its cost.
LEMMA OwnCredit ==
  ASSUME Inv, NEW c \in Callers, NEW k \in Keys, caller[c].pc = "stamped",
         NEW s, s = caller[c].stamp, NEW t, t = TokensFor(k, s),
         NEW n \in Nat, n =< Brim + Debt, now' = now,
         buckets'[k] = [tokens |-> t - n, lastSeen |-> s], Inv'
  PROVE  Credit(k)' =< Available(k) - n
<1>1. /\ s \in Nat /\ s =< now /\ now =< s + MaxDelay
      /\ t \in Int /\ t =< Brim
      /\ Kept(k, s) # NoBucket => buckets[k] # NoBucket /\ t =< Worth(k, s)
  BY Found
<1>2. Brim \in Nat /\ Debt \in Nat /\ Credit(k) \in 0..(Brim + Debt) /\ now \in Nat
  BY GainFacts, CreditIs DEF Inv, TypeOK
<1>3. Available(k)
        = IF Credit(k) >= Brim + Debt - 2 * Debt THEN Brim + Debt ELSE Credit(k)
  BY DEF Available
<1> DEFINE d == now - s
<1>4. d \in Int /\ d =< MaxDelay /\ MaxDelay \in Int /\ 0 =< d
  BY <1>1, <1>2 DEF LimiterAssumption
<1>5. Gain(d) \in Int /\ Gain(d) =< Debt
  <2>1. \A e, f \in Int : Gain(e) \in Int /\ (e =< f => Gain(e) =< Gain(f))
    BY GainFacts
  <2>2. Debt = Gain(MaxDelay)
    BY GainFacts
  <2> HIDE DEF d
  <2> QED
    BY <1>4, <2>1, <2>2
<1>6. Credit(k)' =< t - n + Gain(d)
  <2>1. buckets'[k] # NoBucket
    BY <1>1 DEF NoBucket, Never
  <2>2. Credit(k)' = Lesser(Brim + Debt, t - n + Gain(d))
    BY <2>1 DEF Credit, NoBucket, Brim, Debt, Gain, Lesser
  <2> HIDE DEF d
  <2> QED
    BY <1>1, <1>2, <1>5, <2>2 DEF Lesser
<1>7. CASE Kept(k, s) = NoBucket
  <2>1. Available(k) = Brim + Debt
    <3>1. CASE buckets[k] = NoBucket
      BY <1>2, <1>3, <3>1, CreditIs
    <3>2. CASE buckets[k] # NoBucket
      <4>1. Credit(k) >= Brim - Debt
        BY <1>1, <1>7, <3>2, EvictedIsFull
      <4> QED
        BY <1>2, <1>3, <4>1
    <3> QED
      BY <3>1, <3>2
  <2>2. Credit(k)' \in Int
    BY CreditIsInt
  <2> HIDE DEF d
  <2> QED
    BY <1>1, <1>2, <1>5, <1>6, <2>1, <2>2
<1>8. CASE Kept(k, s) # NoBucket
  <2>1. buckets[k] # NoBucket /\ t =< Worth(k, s)
    BY <1>1, <1>8
  <2>2. Worth(k, now) \in Int /\ Credit(k) = Lesser(Brim + Debt, Worth(k, now))
    BY <2>1, CreditIs
  <2>3. Worth(k, now) = Worth(k, s) + Gain(d) /\ Worth(k, s) \in Int
    BY <1>1, <2>1, WorthGrows DEF Inv
  <2>4. Credit(k)' \in Int
    BY CreditIsInt
  <2>5. t + Gain(d) =< Credit(k)
    <3> HIDE DEF d
    <3> QED
      BY <1>1, <1>2, <1>5, <2>1, <2>2, <2>3 DEF Lesser
  <2> HIDE DEF d
  <2> QED
    BY <1>1, <1>2, <1>3, <1>5, <1>6, <2>4, <2>5
<1> QED
  BY <1>7, <1>8

LEMMA CreditsAre ==
  /\ \A k \in Keys : credits[k] = Credit(k)
  /\ \A k \in Keys : credits'[k] = Credit(k)'
BY DEF credits

LEMMA Serves ==
  ASSUME Inv, Inv', NEW G \in SUBSET Keys, \A i, j \in G : i = j,
         \A j \in Keys : allowed'[j] = allowed[j] + IF j \in G THEN 1 ELSE 0,
         \A j \in Keys : Credit(j)' =< Available(j) - IF j \in G THEN Window ELSE 0
  PROVE  Limit!Serve
<1>1. credits' \in [Keys -> 0..(Brim + Debt)]
  <2>1. \A j \in Keys : Credit(j)' \in 0..(Brim + Debt)
    BY CreditIsInt
  <2> QED
    BY <2>1 DEF credits
<1>2. allowed' \in [Keys -> Nat]
  BY DEF Inv, TypeOK
<1>3. \A k \in Keys :
        credits'[k] + (IF k \in G THEN Window ELSE 0)
          =< IF credits[k] + 2 * Debt >= Brim + Debt THEN Brim + Debt ELSE credits[k]
  <2> SUFFICES ASSUME NEW k \in Keys
               PROVE  Credit(k)' + (IF k \in G THEN Window ELSE 0)
                        =< IF Credit(k) + 2 * Debt >= Brim + Debt THEN Brim + Debt
                           ELSE Credit(k)
    BY CreditsAre
  <2>1. Credit(k) \in Int /\ Credit(k)' \in Int /\ Brim \in Int /\ Debt \in Int
        /\ Window \in Int
    BY CreditIs, CreditIsInt, GainFacts DEF LimiterAssumption
  <2>2. Credit(k)' =< Available(k) - IF k \in G THEN Window ELSE 0
    OBVIOUS
  <2> QED
    BY <2>1, <2>2 DEF Available
<1> QED
  BY <1>1, <1>2, <1>3 DEF Limit!Serve

THEOREM ImplementsTokenBucket == Spec => LimitHolds
<1>1. Init => Limit!Init
  <2> SUFFICES ASSUME Init
               PROVE  Limit!Init
    OBVIOUS
  <2>1. \A k \in Keys : Credit(k) = Brim + Debt
    BY DEF Init, Credit
  <2> QED
    BY <2>1 DEF Init, Limit!Init, credits
<1>2. ASSUME Inv, Inv', [Next]_vars
      PROVE  [Limit!Next]_<<credits, allowed>>
  <2>1. Brim \in Nat /\ Debt \in Nat /\ Window \in Nat /\ perWindow \in Nat
        /\ now \in Nat /\ Brim >= Window
    BY <1>2, GainFacts, WindowFills DEF LimiterAssumption, Inv, TypeOK
  <2>2. credits' \in [Keys -> 0..(Brim + Debt)]
    <3>1. \A k \in Keys : Credit(k)' \in 0..(Brim + Debt)
      BY <1>2, CreditIsInt
    <3> QED
      BY <3>1 DEF credits
  <2>4. CASE UNCHANGED vars
    BY <2>4 DEF vars, credits, Credit, NoBucket, Brim, Debt
  <2>5. ASSUME NEW c \in Callers, ReadClock(c)
        PROVE  UNCHANGED <<credits, allowed>>
    BY <2>5 DEF ReadClock, credits, Credit, NoBucket, Brim, Debt
  <2>6. ASSUME NEW c \in Callers, NEW k \in Keys, Allow(c, k)
        PROVE  Limit!Serve
    <3> DEFINE s == caller[c].stamp
               t == TokensFor(k, s)
    <3>1. /\ caller[c].pc = "stamped" /\ now' = now /\ Holding(k, t - Window, s)
          /\ allowed' = [allowed EXCEPT ![k] = @ + 1]
      BY <2>6 DEF Allow, Leaves
    <3>2. s \in Nat /\ s =< now
      BY <1>2, <3>1, Stamps
    <3> HIDE DEF s, t
    <3>3. buckets'[k] = [tokens |-> t - Window, lastSeen |-> s]
          /\ \A j \in Keys : j # k => buckets'[j] = Kept(j, s)
      BY <3>1 DEF Holding
    <3>4. Credit(k)' =< Available(k) - Window
      BY <1>2, <2>1, <3>1, <3>3, OwnCredit DEF s, t
    <3>5. \A j \in Keys : j # k => Credit(j)' =< Available(j) - 0
      <4> SUFFICES ASSUME NEW j \in Keys, j # k
                   PROVE  Credit(j)' =< Available(j) - 0
        OBVIOUS
      <4>1. Credit(j)' =< Available(j)
        BY <1>2, <3>1, <3>2, <3>3, OthersKeepCredit
      <4>2. Available(j) \in Int
        BY <1>2, <2>1, CreditIs DEF Available
      <4> QED
        BY <4>1, <4>2
    <3>6. \A j \in Keys : allowed'[j] = allowed[j] + IF j \in {k} THEN 1 ELSE 0
      BY <1>2, <3>1 DEF Inv, TypeOK
    <3>7. \A j \in Keys : Credit(j)' =< Available(j) - IF j \in {k} THEN Window ELSE 0
      BY <3>4, <3>5
    <3> QED
      BY <1>2, <3>6, <3>7, Serves
  <2>7. ASSUME NEW c \in Callers, NEW k \in Keys, Refuse(c, k)
        PROVE  Limit!Serve
    <3> DEFINE s == caller[c].stamp
               t == TokensFor(k, s)
    <3>1. /\ caller[c].pc = "stamped" /\ now' = now /\ Holding(k, t, s)
          /\ allowed' = allowed
      BY <2>7 DEF Refuse, Leaves
    <3>2. s \in Nat /\ s =< now /\ t \in Int
      BY <1>2, <3>1, Found
    <3> HIDE DEF s, t
    <3>3. buckets'[k] = [tokens |-> t - 0, lastSeen |-> s]
          /\ \A j \in Keys : j # k => buckets'[j] = Kept(j, s)
      BY <3>1, <3>2 DEF Holding
    <3>4. Credit(k)' =< Available(k) - 0
      BY <1>2, <2>1, <3>1, <3>3, OwnCredit DEF s, t
    <3>5. \A j \in Keys : j # k => Credit(j)' =< Available(j)
      BY <1>2, <3>1, <3>2, <3>3, OthersKeepCredit
    <3>6. \A j \in Keys : Available(j) \in Int
      BY <1>2, <2>1, CreditIs DEF Available
    <3>7. \A j \in Keys : Credit(j)' =< Available(j) - IF j \in {} THEN Window ELSE 0
      BY <3>4, <3>5, <3>6
    <3>8. \A j \in Keys : allowed'[j] = allowed[j] + IF j \in {} THEN 1 ELSE 0
      BY <1>2, <3>1 DEF Inv, TypeOK
    <3>9. {} \in SUBSET Keys /\ \A i, j \in {} : i = j
      OBVIOUS
    <3> QED
      BY <1>2, <3>7, <3>8, <3>9, Serves
  <2>8. ASSUME Tick
        PROVE  Limit!Grow
    <3>1. now' = now + 1 /\ buckets' = buckets /\ allowed' = allowed
      BY <2>8 DEF Tick
    <3>2. \A k \in Keys : Credit(k)' =< Credit(k) + perWindow
      <4> SUFFICES ASSUME NEW k \in Keys
                   PROVE  Credit(k)' =< Credit(k) + perWindow
        OBVIOUS
      <4>1. CASE buckets[k] = NoBucket
        BY <2>1, <3>1, <4>1 DEF Credit, NoBucket, Brim, Debt
      <4>2. CASE buckets[k] # NoBucket
        <5>1. Worth(k, now)' = Worth(k, now) + perWindow /\ Worth(k, now) \in Int
          BY <1>2, <2>8, <4>2, WorthTicks
        <5>2. Credit(k) = Lesser(Brim + Debt, Worth(k, now))
          BY <1>2, <4>2, CreditIs
        <5>3. Credit(k)' = Lesser(Brim + Debt, Worth(k, now)')
          BY <3>1, <4>2 DEF Credit, Worth, Gain, NoBucket, Brim, Debt, Lesser
        <5> QED
          BY <2>1, <5>1, <5>2, <5>3 DEF Lesser
      <4> QED
        BY <4>1, <4>2
    <3>3. \A k \in Keys : credits'[k] =< credits[k] + perWindow
      BY <3>2, CreditsAre
    <3> QED
      BY <2>2, <3>1, <3>3 DEF Limit!Grow
  <2> QED
    BY <1>2, <2>4, <2>5, <2>6, <2>7, <2>8 DEF Next, Limit!Next
<1> QED
  BY SpecInv, <1>1, <1>2, PTL DEF Spec, LimitHolds, Limit!Spec

=============================================================================
