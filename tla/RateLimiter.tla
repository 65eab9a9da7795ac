---------------------------- MODULE RateLimiter -----------------------------
(***************************************************************************)
(* The rate limiter of one server process: a bucket of tokens for each     *)
(* source, kept in memory, filled by time and thrown away when idle.       *)
(* Source: ratelimit.go 16-91, and main.go 151 for its parameters.         *)
(*                                                                         *)
(* A caller reads the clock, then waits for the mutex: the time it goes by *)
(* is up to MaxDelay old, and callers come in another order than their     *)
(* times.  Everything within the mutex is one step.  Tokens are counted in *)
(* parts, Window to a token, so that a tick adds perWindow parts; the      *)
(* rounding of the code's floating point numbers is left out.              *)
(***************************************************************************)
EXTENDS Integers

CONSTANTS Keys,        \* sources: addresses, with the scope of the limiter
          Callers,     \* concurrent requests
          capacity, perWindow,
          Window,      \* ticks in time.Minute, of which main.go makes the window
          Second,      \* ticks in a second
          GCInterval,  \* ticks between two collections: five minutes
          MaxDelay,    \* bound: ticks a caller waits for the mutex
          MaxTime      \* bound on the clock

\* main.go makes both limiters with as many tokens as a window allows requests.
ASSUME LimiterAssumption ==
  /\ perWindow \in Nat \ {0}
  /\ capacity = perWindow
  /\ Window \in Nat \ {0}
  /\ Second \in Nat \ {0}
  /\ GCInterval \in Nat
  /\ MaxDelay \in Nat
  /\ MaxTime \in Nat

VARIABLES now,
          buckets,    \* [Keys -> bucket or NoBucket]
          lastGC,
          caller,     \* the requests between their time and the mutex
          allowed,    \* history: requests allowed so far, by source
          promised    \* history: when a source was told to come back, Never if not

vars == <<now, buckets, lastGC, caller, allowed, promised>>

-----------------------------------------------------------------------------
Lesser(a, b) == IF a =< b THEN a ELSE b
Greater(a, b) == IF a >= b THEN a ELSE b

Brim == capacity * Window      \* parts in a full bucket
Debt == MaxDelay * perWindow   \* parts that come in while a caller waits

Never == -1
NoBucket == [tokens |-> Brim, lastSeen |-> Never]
IdleCaller == [pc |-> "idle", stamp |-> 0]

Bucket == [tokens : -Debt..Brim, lastSeen : 0..now]
Caller == {IdleCaller} \cup [pc : {"stamped"}, stamp : Greater(0, now - MaxDelay)..now]

\* Tokens stay within the capacity; a time that runs backwards may take them
\* below zero, by no more than what comes in during a wait (ratelimit.go:54).
TypeOK ==
  /\ now \in Nat
  /\ buckets \in [Keys -> Bucket \cup {NoBucket}]
  /\ lastGC \in 0..now
  /\ caller \in [Callers -> Caller]
  /\ allowed \in [Keys -> Nat]
  /\ promised \in [Keys -> Nat \cup {Never}]

Init ==
  /\ now = 0
  /\ buckets = [k \in Keys |-> NoBucket]
  /\ lastGC = 0
  /\ caller = [c \in Callers |-> IdleCaller]
  /\ allowed = [k \in Keys |-> 0]
  /\ promised = [k \in Keys |-> Never]

ReadClock(c) ==
  /\ caller[c] = IdleCaller
  /\ caller' = [caller EXCEPT ![c] = [pc |-> "stamped", stamp |-> now]]
  /\ UNCHANGED <<now, buckets, lastGC, allowed, promised>>

-----------------------------------------------------------------------------
(* Within the mutex *)

\* Mutant: a rate in minutes, divided as if it were in seconds.
RateInMinutes == Second * (capacity \div perWindow)

\* capacity/refill, cut to seconds, and at least a minute
idleLimit == Greater(((Brim \div perWindow) \div Second) * Second, Window)

Idle(k, stamp) == stamp - buckets[k].lastSeen > idleLimit

\* The bucket of k after collectGarbageLocked.
Kept(k, stamp) ==
  IF /\ stamp - lastGC >= GCInterval
     /\ buckets[k] # NoBucket
     /\ Idle(k, stamp)
  THEN NoBucket ELSE buckets[k]

\* Mutant: tokens that come in are not limited.
Unlimited(b, stamp) == b.tokens + (stamp - b.lastSeen) * perWindow

\* Mutant: lastSeen is set before the time gone by is taken from it.
NothingElapsed(b, stamp) == Lesser(Brim, b.tokens)

\* The tokens of bucket b at a time, which may be before it was last seen.
Filled(b, stamp) == Lesser(Brim, b.tokens + (stamp - b.lastSeen) * perWindow)

TokensFor(k, stamp) ==
  IF Kept(k, stamp) = NoBucket THEN Brim ELSE Filled(Kept(k, stamp), stamp)

\* Seconds until there is a token, cut to whole ones but at least one.
RetryAfter(tokens) == Greater((Window - tokens) \div (perWindow * Second), 1)

Collected(stamp) ==
  lastGC' = IF stamp - lastGC >= GCInterval THEN stamp ELSE lastGC

\* The other buckets are as the collection left them.
Holding(k, tokens, stamp) ==
  buckets' = [j \in Keys |-> IF j = k THEN [tokens |-> tokens, lastSeen |-> stamp]
                             ELSE Kept(j, stamp)]

Leaves(c) ==
  /\ caller[c].pc = "stamped"
  /\ caller' = [caller EXCEPT ![c] = IdleCaller]
  /\ Collected(caller[c].stamp)
  /\ UNCHANGED now

Allow(c, k) ==
  LET stamp == caller[c].stamp
      tokens == TokensFor(k, stamp)
  IN /\ Leaves(c)
     /\ tokens >= Window
     /\ Holding(k, tokens - Window, stamp)
     /\ allowed' = [allowed EXCEPT ![k] = @ + 1]
     /\ promised' = [promised EXCEPT ![k] = Never]

\* The source is told to wait; history keeps the first time that is a second more.
Refuse(c, k) ==
  LET stamp == caller[c].stamp
      tokens == TokensFor(k, stamp)
  IN /\ Leaves(c)
     /\ tokens < Window
     /\ Holding(k, tokens, stamp)
     /\ promised' = [promised EXCEPT ![k] =
          IF @ = Never THEN stamp + (RetryAfter(tokens) + 1) * Second ELSE @]
     /\ UNCHANGED allowed

-----------------------------------------------------------------------------
\* The clock waits for no caller longer than MaxDelay.
Tick ==
  /\ now < MaxTime
  /\ \A c \in Callers : caller[c].pc = "stamped" => now < caller[c].stamp + MaxDelay
  /\ now' = now + 1
  /\ UNCHANGED <<buckets, lastGC, caller, allowed, promised>>

Next ==
  \/ \E c \in Callers : ReadClock(c)
  \/ \E c \in Callers, k \in Keys : Allow(c, k) \/ Refuse(c, k)
  \/ Tick

Spec == Init /\ [][Next]_vars

-----------------------------------------------------------------------------
(* Properties *)

\* What a bucket is worth now; one that is not stored is full.  It may have been
\* made with a time that is MaxDelay old, and then holds what came in since.
Credit(k) ==
  IF buckets[k] = NoBucket THEN Brim + Debt
  ELSE Lesser(Brim + Debt, buckets[k].tokens + (now - buckets[k].lastSeen) * perWindow)

credits == [k \in Keys |-> Credit(k)]

Limit == INSTANCE TokenBucket WITH
           credit <- credits, Full <- Brim + Debt, Cost <- Window,
           Rate <- perWindow, Slack <- 2 * Debt

\* The limiter keeps the promise of a token bucket: throwing buckets away, times
\* that run backwards and waiting callers give no source more than the parts that
\* come in while callers wait (ratelimit.go:41, 55, 80).
LimitHolds == Limit!Spec

\* A source that waits a second longer than it was told, and sends nothing else in
\* between, is allowed (ratelimit.go:64 rounds down).
RetryIsEnough ==
  [][\A c \in Callers, k \in Keys :
       Refuse(c, k) /\ promised[k] # Never => caller[c].stamp < promised[k]]_vars

=============================================================================
