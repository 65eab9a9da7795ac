--------------------------- MODULE AccountProofs ----------------------------
(***************************************************************************)
(* Account: tokens take effect once, a reset leaves no session but late    *)
(* ones, and locks follow the failures, for any number of accounts,        *)
(* requests and tokens and any lock times.                                 *)
(***************************************************************************)
EXTENDS Account, TLAPS

-----------------------------------------------------------------------------
(* Types *)

RequestSteps == {"right", "wrong", "failed", "cleared", "registered"}
ConsumerSteps == {"begun", "consumed"}

LEMMA IdleShape ==
  /\ IdleRequest \in Request
  /\ IdleRequest.pc = "idle"
  /\ IdleRequest.user = NoUser
  /\ IdleConsumer \in Consumer
  /\ IdleConsumer.pc = "idle"
  /\ NewToken \in Token
  /\ NewToken.pc = "new"
  BY DEF IdleRequest, Request, IdleConsumer, Consumer, NewToken, Token, TokenStates, Purposes

LEMMA RequestShape ==
  /\ \A q \in Request : \/ q = IdleRequest
                        \/ /\ q.pc \in RequestSteps
                           /\ q.user \in Users
                           /\ q.password \in Nat
                           /\ q.count \in 0..MaxFailures
                           /\ q.missed \in SUBSET Events
                           /\ q = [pc |-> q.pc, user |-> q.user, password |-> q.password,
                                   count |-> q.count, missed |-> q.missed]
  /\ \A pc \in RequestSteps, u \in Users, p \in Nat, n \in 0..MaxFailures,
        m \in SUBSET Events :
        [pc |-> pc, user |-> u, password |-> p, count |-> n, missed |-> m] \in Request
  BY DEF Request, RequestSteps

LEMMA ConsumerShape ==
  /\ \A q \in Consumer : \/ q = IdleConsumer
                         \/ /\ q.pc \in ConsumerSteps
                            /\ q.token \in Tokens
                            /\ q.stamp \in Nat
  /\ \A pc \in ConsumerSteps, t \in Tokens, n \in Nat :
        [pc |-> pc, token |-> t, stamp |-> n] \in Consumer
  BY DEF Consumer, ConsumerSteps

LEMMA TokenShape ==
  /\ \A k \in Token : \/ k = NewToken
                      \/ /\ k.pc \in TokenStates
                         /\ k.user \in Users
                         /\ k.purpose \in Purposes
                         /\ k.expires \in Nat
                         /\ k.along \in SUBSET Tokens
  /\ \A pc \in TokenStates, u \in Users, p \in Purposes, n \in Nat, F, S \in SUBSET Tokens :
        [pc |-> pc, user |-> u, purpose |-> p, expires |-> n, found |-> F, along |-> S] \in Token
  BY DEF Token

LEMMA TokenAtShape ==
  \A k \in Token, pc \in TokenStates :
     k.pc # "new" =>
     /\ TokenAt(k, pc) \in Token
     /\ TokenAt(k, pc).pc = pc
     /\ TokenAt(k, pc).user = k.user
     /\ TokenAt(k, pc).purpose = k.purpose
     /\ TokenAt(k, pc).expires = k.expires
     /\ TokenAt(k, pc).along = k.along
  BY TokenShape, IdleShape DEF TokenAt

LEMMA SessionShape ==
  /\ \A s \in Session : /\ s.user \in Users
                        /\ s.password \in Nat
                        /\ s.expires \in Nat
                        /\ s.missed \in SUBSET Events
  /\ \A u \in Users, p \in Nat, n \in Nat, m \in SUBSET Events :
        [user |-> u, password |-> p, expires |-> n, missed |-> m] \in Session
  BY DEF Session

LEMMA LockTimes ==
  \A n \in 0..MaxFailures : lockoutDurationFor[n] \in Nat
  BY AccountAssumption

LEMMA TTLShape == \A p \in Purposes : TTL[p] \in Nat
  BY AccountAssumption DEF TTL

LEMMA AtShape ==
  \A q \in Request \ {IdleRequest}, pc \in RequestSteps, m \in SUBSET Events :
     /\ At(q, pc, m) \in Request \ {IdleRequest}
     /\ At(q, pc, m).pc = pc
     /\ At(q, pc, m).user = q.user
     /\ At(q, pc, m).password = q.password
     /\ At(q, pc, m).count = q.count
     /\ At(q, pc, m).missed = m
<1> SUFFICES ASSUME NEW q \in Request \ {IdleRequest}, NEW pc \in RequestSteps,
                    NEW m \in SUBSET Events
             PROVE  /\ At(q, pc, m) \in Request \ {IdleRequest}
                    /\ At(q, pc, m).pc = pc
                    /\ At(q, pc, m).user = q.user
                    /\ At(q, pc, m).password = q.password
                    /\ At(q, pc, m).count = q.count
                    /\ At(q, pc, m).missed = m
  OBVIOUS
<1>1. At(q, pc, m) \in Request
  BY RequestShape DEF At
<1>2. At(q, pc, m).pc = pc /\ At(q, pc, m).pc # "idle"
  BY DEF At, RequestSteps
<1> QED BY <1>1, <1>2, IdleShape DEF At

LEMMA NoteMissedShape ==
  ASSUME request \in [Requests -> Request], NEW u \in Users, NEW event \in Events
  PROVE  /\ NoteMissed(u, event) \in [Requests -> Request]
         /\ \A r \in Requests :
              /\ request[r].user # u => NoteMissed(u, event)[r] = request[r]
              /\ request[r].user = u =>
                   /\ NoteMissed(u, event)[r] =
                        At(request[r], request[r].pc, request[r].missed \cup {event})
                   /\ request[r] \in Request \ {IdleRequest}
                   /\ request[r].pc \in RequestSteps
                   /\ request[r].missed \cup {event} \in SUBSET Events
<1>1. ASSUME NEW r \in Requests, request[r].user # u
      PROVE  NoteMissed(u, event)[r] = request[r]
  BY <1>1 DEF NoteMissed, ReadersOf
<1>2. ASSUME NEW r \in Requests, request[r].user = u
      PROVE  /\ NoteMissed(u, event)[r] =
                  At(request[r], request[r].pc, request[r].missed \cup {event})
             /\ request[r] \in Request \ {IdleRequest}
             /\ request[r].pc \in RequestSteps
             /\ request[r].missed \cup {event} \in SUBSET Events
             /\ NoteMissed(u, event)[r] \in Request
  <2>1. request[r] \in Request \ {IdleRequest}
    BY <1>2, IdleShape, AccountAssumption
  <2>2. request[r].pc \in RequestSteps /\ request[r].missed \cup {event} \in SUBSET Events
    BY <2>1, RequestShape
  <2>3. NoteMissed(u, event)[r] =
          At(request[r], request[r].pc, request[r].missed \cup {event})
    BY <1>2 DEF NoteMissed, ReadersOf
  <2> QED BY <2>1, <2>2, <2>3, AtShape
<1>3. NoteMissed(u, event) = [r \in Requests |-> NoteMissed(u, event)[r]]
  BY DEF NoteMissed
<1> QED BY <1>1, <1>2, <1>3

\* A token that somebody presents was mailed, and so stored, before.
MailedFirst ==
  \A c \in Consumers : consumer[c].pc # "idle" => token[consumer[c].token].pc \in {"live", "used"}

LEMMA MailedToken ==
  ASSUME TypeOK, MailedFirst, NEW c \in Consumers, consumer[c].pc # "idle"
  PROVE  /\ consumer[c].token \in Tokens
         /\ consumer[c].stamp \in Nat
         /\ token[consumer[c].token].pc \in {"live", "used"}
         /\ token[consumer[c].token].user \in Users
         /\ token[consumer[c].token].purpose \in Purposes
<1>1. consumer[c].token \in Tokens /\ consumer[c].stamp \in Nat
  BY ConsumerShape, IdleShape DEF TypeOK
<1>2. token[consumer[c].token].pc \in {"live", "used"}
  BY DEF MailedFirst
<1> QED BY <1>1, <1>2, TokenShape, IdleShape DEF TypeOK

LEMMA UseEffect ==
  ASSUME TypeOK, MailedFirst, NEW c \in Consumers, TokenIsUsed(c),
         NEW t, t = consumer[c].token
  PROVE  /\ consumer[c].pc = "consumed"
         /\ t \in Tokens
         /\ token[t].user \in Users
         /\ token' \in [Tokens -> Token]
         /\ honoured' \in [Tokens -> Nat]
         /\ consumer' \in [Consumers -> Consumer]
         /\ token'[t] = TokenAt(token[t], "used")
         /\ token'[t].pc = "used"
         /\ honoured'[t] = honoured[t] + 1
         /\ \A s \in Tokens \ {t} : token'[s] = token[s] /\ honoured'[s] = honoured[s]
         /\ consumer'[c] = IdleConsumer
         /\ \A d \in Consumers \ {c} : consumer'[d] = consumer[d]
<1>1. consumer[c].pc = "consumed"
  BY DEF TokenIsUsed
<1>2. t \in Tokens /\ token[t].pc \in {"live", "used"} /\ token[t].user \in Users
  BY <1>1, MailedToken
<1>3. TokenAt(token[t], "used") \in Token /\ TokenAt(token[t], "used").pc = "used"
  BY <1>2, TokenAtShape DEF TypeOK, TokenStates
<1>4. token' = [token EXCEPT ![t] = TokenAt(token[t], "used")]
  BY DEF TokenIsUsed
<1>5. honoured' = [honoured EXCEPT ![t] = honoured[t] + 1]
  BY DEF TokenIsUsed
<1>6. consumer' = [consumer EXCEPT ![c] = IdleConsumer]
  BY DEF TokenIsUsed
<1> QED BY <1>1, <1>2, <1>3, <1>4, <1>5, <1>6, IdleShape DEF TypeOK

LEMMA TypeInit == Init => TypeOK
  BY AccountAssumption, IdleShape DEF Init, TypeOK, NotLocked

LEMMA AskedType ==
  ASSUME token \in [Tokens -> Token], NEW t \in Tokens, NEW u \in Users,
         NEW p \in Purposes, Asked(t, u, p)
  PROVE  token' \in [Tokens -> Token]
  BY TokenShape DEF Asked, TokenStates

LEMMA TypeStep == TypeOK /\ MailedFirst /\ [Next]_vars => TypeOK'
<1> SUFFICES ASSUME TypeOK, MailedFirst, [Next]_vars PROVE TypeOK'
  OBVIOUS
<1> USE DEF TypeOK, users
<1>1. CASE UNCHANGED vars
  BY <1>1 DEF vars
<1>2. ASSUME NEW r \in Requests, NEW u \in Users, Register(r, u) \/ ReadAccount(r, u)
      PROVE  TypeOK'
  <2>0. \A pc \in RequestSteps, p \in Nat :
          [pc |-> pc, user |-> u, password |-> p, count |-> 0, missed |-> {}] \in Request
    <3>1. 0 \in 0..MaxFailures /\ {} \in SUBSET Events
      BY AccountAssumption
    <3> QED BY <3>1, RequestShape
  <2>1. CASE Register(r, u)
    BY <2>0, <2>1 DEF Register, RequestSteps
  <2>2. CASE ReadAccount(r, u)
    BY <2>0, <2>2 DEF ReadAccount, RequestSteps
  <2> QED BY <1>2, <2>1, <2>2
<1>3. ASSUME NEW r \in Requests, RequestStep(r) PROVE TypeOK'
  <2> DEFINE q == request[r]
  <2>0. q \in Request
    OBVIOUS
  <2>1. ASSUME q.pc # "idle"
        PROVE  /\ q.user \in Users /\ q.password \in Nat /\ q.count \in 0..MaxFailures
               /\ q.missed \in SUBSET Events /\ q \in Request \ {IdleRequest}
    BY <2>0, <2>1, RequestShape, IdleShape
  <2> HIDE DEF q
  <2>2. CASE RecordFailure(r)
    <3>1. failures[q.user] + 1 \in 0..MaxFailures
      BY <2>1, <2>2, AccountAssumption DEF RecordFailure, q
    <3>2. [pc |-> "failed", user |-> q.user, password |-> q.password,
           count |-> failures[q.user] + 1, missed |-> q.missed] \in Request
      BY <2>1, <2>2, <3>1, RequestShape DEF RecordFailure, RequestSteps, q
    <3>3. request' \in [Requests -> Request]
      BY <2>2, <3>2, IdleShape DEF RecordFailure, q
    <3> QED BY <2>1, <2>2, <3>1, <3>3 DEF RecordFailure, q
  <2>3. CASE ApplyLock(r)
    <3>1. q.user \in Users /\ lockoutDurationFor[q.count] \in Nat
      BY <2>1, <2>3, LockTimes DEF ApplyLock, q
    <3>2. NoteMissed(q.user, "lock") \in [Requests -> Request]
      BY <3>1, NoteMissedShape DEF Events
    <3>3. request' \in [Requests -> Request]
      BY <2>3, <3>2, IdleShape DEF ApplyLock, q
    <3> QED BY <2>3, <3>1, <3>3 DEF ApplyLock, q
  <2>4. CASE ClearFailures(r) \/ ClearingFails(r)
    <3>1. request' \in [Requests -> Request]
      <4>1. At(q, "cleared", q.missed) \in Request
        BY <2>1, <2>4, AtShape DEF ClearFailures, ClearingFails, RequestSteps, q
      <4> QED BY <2>4, <4>1 DEF ClearFailures, ClearingFails, q
    <3>2. CASE ClearFailures(r)
      <4>1. q.user \in Users
        BY <2>1, <3>2 DEF ClearFailures, q
      <4>2. failures' \in [Users -> 0..MaxFailures] /\ lockedUntil' \in [Users -> Nat]
        BY <3>2, <4>1, AccountAssumption DEF ClearFailures, Cleared, NotLocked, q
      <4> QED BY <3>1, <3>2, <4>1, <4>2 DEF ClearFailures, Cleared, q
    <3>3. CASE ClearingFails(r)
      BY <3>1, <3>3 DEF ClearingFails
    <3> QED BY <2>4, <3>2, <3>3
  <2>5. CASE StartSession(r) \/ \E t \in Tokens : StartFirstSession(r, t)
    <3>1. SessionOf(r) \in Session
      <4>1. now + sessionTTL \in Nat
        BY AccountAssumption
      <4> QED BY <2>1, <2>5, <4>1, SessionShape DEF SessionOf, StartSession, StartFirstSession, q
    <3>2. CASE StartSession(r)
      BY <3>1, <3>2, IdleShape DEF StartSession
    <3>3. ASSUME NEW t \in Tokens, StartFirstSession(r, t) PROVE TypeOK'
      <4>1. token' \in [Tokens -> Token]
        BY <2>1, <3>3, AskedType DEF StartFirstSession, Purposes, q
      <4> QED BY <3>1, <3>3, <4>1, IdleShape DEF StartFirstSession
    <3> QED BY <2>5, <3>2, <3>3
  <2>6. CASE Abandon(r)
    <3>1. q.user \in Users
      BY <2>0, <2>6, RequestShape DEF Abandon, q
    <3> QED BY <2>6, <3>1, IdleShape DEF Abandon, q
  <2> QED BY <1>3, <2>2, <2>3, <2>4, <2>5, <2>6 DEF RequestStep
<1>4. CASE Logout \/ CleanUpSessions
  BY <1>4 DEF Logout, CleanUpSessions
<1>5. ASSUME NEW t \in Tokens, IssueStep(t) PROVE TypeOK'
  <2>1. ASSUME NEW u \in Users, ResendVerification(t, u) \/ ForgotPassword(t, u) PROVE TypeOK'
    <3>1. token' \in [Tokens -> Token]
      BY <2>1, AskedType DEF ResendVerification, ForgotPassword, Purposes
    <3> QED BY <2>1, <3>1 DEF ResendVerification, ForgotPassword
  <2>5. CASE FindPrevious(t)
    <3>1. token[t].user \in Users /\ token[t].purpose \in Purposes
      BY <2>5, TokenShape, IdleShape DEF FindPrevious
    <3>2. Previous(t) \in SUBSET Tokens
      BY DEF Previous
    <3> QED BY <2>5, <3>1, <3>2, TokenShape DEF FindPrevious, TokenStates
  <2>2. CASE InvalidatePrevious(t)
    <3>1. \A s \in Tokens : s = t \/ token[s].pc = "live" => token[s].pc # "new"
      BY <2>2 DEF InvalidatePrevious
    <3>2. \A s \in Tokens : token[s].pc # "new" =>
            TokenAt(token[s], "cleared") \in Token /\ TokenAt(token[s], "used") \in Token
      BY TokenAtShape DEF TokenStates
    <3>3. token' \in [Tokens -> Token]
      BY <2>2, <3>1, <3>2 DEF InvalidatePrevious
    <3> QED BY <2>2, <3>3 DEF InvalidatePrevious
  <2>3. CASE StoreToken(t)
    <3>1. token[t].user \in Users /\ token[t].purpose \in Purposes
      BY <2>3, TokenShape, IdleShape DEF StoreToken
    <3>2. now + TTL[token[t].purpose] \in Nat
      BY <3>1, TTLShape
    <3> QED BY <2>3, <3>1, <3>2, TokenShape DEF StoreToken, TokenStates
  <2>4. CASE IssueFails(t)
    BY <2>4, TokenAtShape DEF IssueFails, TokenStates
  <2> QED BY <1>5, <2>1, <2>2, <2>3, <2>4, <2>5 DEF IssueStep
<1>6. ASSUME NEW c \in Consumers, ConsumerStep(c) PROVE TypeOK'
  <2>0. consumer[c].pc # "idle" => consumer[c].token \in Tokens /\ consumer[c].stamp \in Nat
    BY ConsumerShape, IdleShape
  <2>1. ASSUME NEW t \in Tokens, Begin(c, t) PROVE TypeOK'
    BY <2>1, ConsumerShape DEF Begin, ConsumerSteps
  <2>2. CASE Consume(c)
    BY <2>0, <2>2, ConsumerShape DEF Consume, ConsumerSteps
  <2>3. CASE TokenInvalid(c) \/ Rollback(c)
    BY <2>3, IdleShape DEF TokenInvalid, Rollback
  <2>4. CASE VerifyEmail(c) \/ ResetPassword(c)
    <3>1. /\ token' \in [Tokens -> Token]
          /\ honoured' \in [Tokens -> Nat]
          /\ consumer' \in [Consumers -> Consumer]
      BY <2>4, UseEffect DEF VerifyEmail, ResetPassword
    <3>2. token[consumer[c].token].user \in Users
      BY <2>4, MailedToken DEF VerifyEmail, ResetPassword, TokenIsUsed
    <3>3. CASE VerifyEmail(c)
      BY <3>1, <3>2, <3>3 DEF VerifyEmail
    <3>4. CASE ResetPassword(c)
      <4> DEFINE u == token[consumer[c].token].user
      <4>1. NoteMissed(u, "reset") \in [Requests -> Request]
        BY <3>2, NoteMissedShape DEF Events
      <4>2. failures' \in [Users -> 0..MaxFailures] /\ lockedUntil' \in [Users -> Nat]
        BY <3>2, <3>4, AccountAssumption DEF ResetPassword, Cleared, NotLocked
      <4>3. password' \in [Users -> Nat] /\ outrun' \subseteq Users
        BY <3>2, <3>4 DEF ResetPassword, Cleared
      <4> QED BY <3>1, <3>4, <4>1, <4>2, <4>3 DEF ResetPassword, SessionsAfterReset
    <3> QED BY <2>4, <3>3, <3>4
  <2> QED BY <1>6, <2>1, <2>2, <2>3, <2>4 DEF ConsumerStep
<1>7. CASE Tick
  BY <1>7 DEF Tick
<1> QED BY <1>1, <1>2, <1>3, <1>4, <1>5, <1>6, <1>7 DEF Next

-----------------------------------------------------------------------------
(* Tokens *)

SameFields(k, l) == k.user = l.user /\ k.purpose = l.purpose /\ k.along = l.along

\* What a step may do to a token.  Only a commit uses one that is held.
LEMMA TokenMoves ==
  ASSUME TypeOK, MailedFirst, [Next]_vars, NEW t \in Tokens
  PROVE  /\ token[t].pc \in {"live", "used"} =>
              token'[t].pc \in {"live", "used"} /\ SameFields(token'[t], token[t])
         /\ token[t].pc = "used" => token'[t].pc = "used"
<1> DEFINE Goal == /\ token[t].pc \in {"live", "used"} =>
                        token'[t].pc \in {"live", "used"} /\ SameFields(token'[t], token[t])
                   /\ token[t].pc = "used" => token'[t].pc = "used"
<1>1. ASSUME token' = token PROVE Goal
  BY <1>1 DEF SameFields
<1>2. ASSUME NEW x \in Tokens, NEW u, NEW p, Asked(x, u, p) PROVE Goal
  BY <1>2 DEF Asked, SameFields, TypeOK
<1>3. ASSUME NEW x \in Tokens, InvalidatePrevious(x) PROVE Goal
  <2>1. CASE t = x
    BY <1>3, <2>1 DEF InvalidatePrevious
  <2>2. CASE t # x
    <3>1. token'[t] = IF t \in token[x].found /\ token[t].pc = "live"
                      THEN TokenAt(token[t], "used") ELSE token[t]
      BY <1>3, <2>2 DEF InvalidatePrevious
    <3>2. TokenAt(token[t], "used").pc = "used" /\ SameFields(TokenAt(token[t], "used"), token[t])
      BY DEF TokenAt, SameFields
    <3> QED BY <3>1, <3>2 DEF SameFields
  <2> QED BY <2>1, <2>2
<1>4. ASSUME NEW x \in Tokens, FindPrevious(x) \/ StoreToken(x) \/ IssueFails(x) PROVE Goal
  BY <1>4 DEF FindPrevious, StoreToken, IssueFails, SameFields, TypeOK
<1>5. ASSUME NEW c \in Consumers, TokenIsUsed(c) PROVE Goal
  <2> DEFINE x == consumer[c].token
  <2>1. CASE t # x
    BY <1>5, <2>1, UseEffect DEF SameFields
  <2>2. CASE t = x
    <3>1. token'[t] = TokenAt(token[t], "used")
      BY <1>5, <2>2, UseEffect
    <3> QED BY <3>1 DEF TokenAt, SameFields
  <2> QED BY <2>1, <2>2
<1> HIDE DEF Goal
<1>6. ASSUME UNCHANGED vars PROVE Goal
  BY <1>1, <1>6 DEF vars
<1>7. ASSUME NEW r \in Requests, NEW u \in Users, Register(r, u) \/ ReadAccount(r, u) PROVE Goal
  BY <1>1, <1>7 DEF Register, ReadAccount
<1>8. ASSUME NEW r \in Requests, RequestStep(r) PROVE Goal
  <2>1. ASSUME NEW x \in Tokens, StartFirstSession(r, x) PROVE Goal
    BY <1>2, <2>1 DEF StartFirstSession
  <2> QED BY <1>1, <1>8, <2>1 DEF RequestStep, RecordFailure, ApplyLock, ClearFailures,
             ClearingFails, StartSession, Abandon
<1>9. ASSUME Logout \/ CleanUpSessions \/ Tick PROVE Goal
  BY <1>1, <1>9 DEF Logout, CleanUpSessions, Tick
<1>10. ASSUME NEW x \in Tokens, IssueStep(x) PROVE Goal
  BY <1>2, <1>3, <1>4, <1>10 DEF IssueStep, ResendVerification, ForgotPassword
<1>11. ASSUME NEW c \in Consumers, ConsumerStep(c) PROVE Goal
  BY <1>1, <1>5, <1>11 DEF ConsumerStep, Begin, Consume, TokenInvalid, VerifyEmail,
     ResetPassword, Rollback
<1> QED BY <1>6, <1>7, <1>8, <1>9, <1>10, <1>11 DEF Next, Goal

\* What a step may do to those who use tokens.
LEMMA ConsumerMoves ==
  ASSUME TypeOK, MailedFirst, [Next]_vars, NEW c \in Consumers
  PROVE  \/ consumer'[c] = consumer[c]
         \/ consumer'[c] = IdleConsumer
         \/ \E t \in Tokens : Begin(c, t)
         \/ Consume(c)
<1> DEFINE Goal == \/ consumer'[c] = consumer[c]
                   \/ consumer'[c] = IdleConsumer
                   \/ \E t \in Tokens : Begin(c, t)
                   \/ Consume(c)
<1>1. ASSUME consumer' = consumer PROVE Goal
  BY <1>1
<1>2. ASSUME NEW d \in Consumers, ConsumerStep(d) PROVE Goal
  <2>1. ASSUME NEW t \in Tokens, Begin(d, t) PROVE Goal
    BY <2>1 DEF Begin, TypeOK
  <2>2. CASE Consume(d)
    BY <2>2 DEF Consume, TypeOK
  <2>3. CASE TokenInvalid(d) \/ Rollback(d)
    BY <2>3 DEF TokenInvalid, Rollback, TypeOK
  <2>4. CASE VerifyEmail(d) \/ ResetPassword(d)
    BY <2>4, UseEffect DEF VerifyEmail, ResetPassword
  <2> QED BY <1>2, <2>1, <2>2, <2>3, <2>4 DEF ConsumerStep
<1> HIDE DEF Goal
<1>3. CASE UNCHANGED vars
  BY <1>1, <1>3 DEF vars
<1>4. ASSUME NEW r \in Requests, NEW u \in Users, Register(r, u) \/ ReadAccount(r, u) PROVE Goal
  BY <1>1, <1>4 DEF Register, ReadAccount
<1>5. ASSUME NEW r \in Requests, RequestStep(r) PROVE Goal
  BY <1>1, <1>5 DEF RequestStep, RecordFailure, ApplyLock, ClearFailures,
     ClearingFails, StartSession, StartFirstSession, Abandon
<1>6. CASE Logout \/ CleanUpSessions \/ Tick
  BY <1>1, <1>6 DEF Logout, CleanUpSessions, Tick
<1>7. ASSUME NEW x \in Tokens, IssueStep(x) PROVE Goal
  BY <1>1, <1>7 DEF IssueStep, ResendVerification, ForgotPassword, FindPrevious, InvalidatePrevious,
     StoreToken, IssueFails
<1> QED BY <1>2, <1>3, <1>4, <1>5, <1>6, <1>7 DEF Next, Goal

LEMMA MailedStep == TypeOK /\ MailedFirst /\ [Next]_vars => MailedFirst'
<1> SUFFICES ASSUME TypeOK, MailedFirst, [Next]_vars, NEW c \in Consumers,
                    consumer'[c].pc # "idle"
             PROVE  token'[consumer'[c].token].pc \in {"live", "used"}
  BY DEF MailedFirst
<1>1. CASE consumer'[c] = consumer[c]
  BY <1>1, MailedToken, TokenMoves
<1>2. CASE consumer'[c] = IdleConsumer
  BY <1>2, IdleShape
<1>3. ASSUME NEW t \in Tokens, Begin(c, t) PROVE token'[consumer'[c].token].pc \in {"live", "used"}
  <2>1. consumer'[c].token = t /\ token'[t] = token[t] /\ token[t].pc \in {"live", "used"}
    BY <1>3 DEF Begin, TypeOK
  <2> QED BY <2>1
<1>4. CASE Consume(c)
  <2>1. consumer[c].pc # "idle" /\ consumer'[c].token = consumer[c].token /\ token' = token
    BY <1>4 DEF Consume, TypeOK
  <2> QED BY <2>1, MailedToken
<1> QED BY <1>1, <1>2, <1>3, <1>4, ConsumerMoves

\* A token that took effect is used up, and one that is held is not yet; two do
\* not hold the same.
HeldInv ==
  /\ \A t \in Tokens : honoured[t] > 0 => token[t].pc = "used"
  /\ \A c \in Consumers : consumer[c].pc = "consumed" => token[consumer[c].token].pc = "live"
  /\ \A c, d \in Consumers :
       /\ consumer[c].pc = "consumed"
       /\ consumer[d].pc = "consumed"
       /\ consumer[c].token = consumer[d].token
       => c = d

LEMMA HonouredMoves ==
  ASSUME TypeOK, MailedFirst, [Next]_vars
  PROVE  honoured' = honoured \/ \E c \in Consumers : TokenIsUsed(c)
  BY DEF Next, vars, Register, ReadAccount, RequestStep, RecordFailure, ApplyLock,
     ClearFailures, ClearingFails, StartSession, StartFirstSession, Abandon, Logout,
     CleanUpSessions, Tick, IssueStep, ResendVerification, ForgotPassword,
     FindPrevious, InvalidatePrevious, StoreToken, IssueFails, ConsumerStep, Begin, Consume,
     TokenInvalid, VerifyEmail, ResetPassword, Rollback

\* A token that is held stays as it is unless its holder commits.
LEMMA HeldStays ==
  ASSUME TypeOK, MailedFirst, HeldInv, [Next]_vars, NEW c \in Consumers,
         consumer[c].pc = "consumed", ~TokenIsUsed(c)
  PROVE  token'[consumer[c].token].pc = "live"
<1> DEFINE t == consumer[c].token
<1>0. t \in Tokens /\ token[t].pc = "live" /\ IsHeld(t)
  BY MailedToken DEF HeldInv, IsHeld
<1> HIDE DEF t
<1>1. ASSUME token' = token PROVE token'[t].pc = "live"
  BY <1>0, <1>1
<1>2. ASSUME NEW x \in Tokens, IssueStep(x) PROVE token'[t].pc = "live"
  <2>1. ASSUME NEW u, NEW p, Asked(x, u, p) PROVE token'[t].pc = "live"
    BY <1>0, <2>1 DEF Asked, TypeOK
  <2>2. CASE InvalidatePrevious(x)
    <3>1. t # x /\ t \notin token[x].found
      BY <1>0, <2>2 DEF InvalidatePrevious
    <3> QED BY <1>0, <2>2, <3>1 DEF InvalidatePrevious
  <2>3. CASE FindPrevious(x) \/ StoreToken(x) \/ IssueFails(x)
    BY <1>0, <2>3 DEF FindPrevious, StoreToken, IssueFails, TypeOK
  <2> QED BY <1>2, <2>1, <2>2, <2>3 DEF IssueStep, ResendVerification, ForgotPassword
<1>3. ASSUME NEW d \in Consumers, TokenIsUsed(d) PROVE token'[t].pc = "live"
  <2>1. consumer[d].pc = "consumed" /\ d # c
    BY <1>3, UseEffect
  <2>2. consumer[d].token # t
    BY <2>1 DEF HeldInv, t
  <2> QED BY <1>0, <1>3, <2>2, UseEffect
<1>4. ASSUME NEW r \in Requests, RequestStep(r) PROVE token'[t].pc = "live"
  <2>1. ASSUME NEW x \in Tokens, StartFirstSession(r, x) PROVE token'[t].pc = "live"
    BY <1>0, <2>1 DEF StartFirstSession, Asked, TypeOK
  <2> QED BY <1>1, <1>4, <2>1 DEF RequestStep, RecordFailure, ApplyLock, ClearFailures,
             ClearingFails, StartSession, Abandon
<1> QED
  <2>1. token'[t].pc = "live"
    BY <1>1, <1>2, <1>3, <1>4 DEF Next, vars, Register, ReadAccount, Logout, CleanUpSessions,
       Tick, ConsumerStep, Begin, Consume, TokenInvalid, VerifyEmail, ResetPassword, Rollback
  <2> QED BY <2>1 DEF t

LEMMA HeldStep ==
  ASSUME TypeOK, MailedFirst, HeldInv, [Next]_vars
  PROVE  HeldInv'
<1>1. ASSUME NEW t \in Tokens, honoured'[t] > 0 PROVE token'[t].pc = "used"
  <2>1. CASE honoured'[t] = honoured[t]
    BY <1>1, <2>1, TokenMoves DEF HeldInv
  <2>2. CASE honoured'[t] # honoured[t]
    <3>1. PICK c \in Consumers : TokenIsUsed(c)
      BY <2>2, HonouredMoves
    <3>2. t = consumer[c].token
      BY <2>2, <3>1, UseEffect
    <3> QED BY <3>1, <3>2, UseEffect
  <2> QED BY <2>1, <2>2
<1>2. ASSUME NEW c \in Consumers, consumer'[c].pc = "consumed"
      PROVE  /\ token'[consumer'[c].token].pc = "live"
             /\ consumer'[c].token \in Tokens
             /\ \/ consumer'[c] = consumer[c]
                \/ Consume(c) /\ consumer'[c].token = consumer[c].token
  <2>1. CASE consumer'[c] = consumer[c]
    <3>1. ~TokenIsUsed(c)
      BY <1>2, <2>1, UseEffect, IdleShape
    <3> QED BY <1>2, <2>1, <3>1, HeldStays, MailedToken
  <2>2. CASE consumer'[c] = IdleConsumer
    BY <1>2, <2>2, IdleShape
  <2>3. ASSUME NEW t \in Tokens, Begin(c, t) PROVE FALSE
    BY <1>2, <2>3 DEF Begin, TypeOK
  <2>4. CASE Consume(c)
    <3>1. consumer'[c].token = consumer[c].token /\ token' = token /\ consumer[c].pc = "begun"
      BY <2>4 DEF Consume, TypeOK
    <3>2. token[consumer[c].token].pc = "live"
      BY <2>4 DEF Consume, Usable
    <3> QED BY <2>4, <3>1, <3>2, MailedToken
  <2> QED BY <2>1, <2>2, <2>3, <2>4, ConsumerMoves
<1>3. ASSUME NEW c \in Consumers, NEW d \in Consumers, c # d, Consume(c),
             consumer'[d].pc = "consumed"
      PROVE  consumer'[d].token # consumer[c].token
  <2>1. consumer'[d] = consumer[d]
    BY <1>3 DEF Consume, TypeOK
  <2>2. ~IsHeld(consumer[c].token)
    BY <1>3 DEF Consume, RowIsFree
  <2> QED BY <1>3, <2>1, <2>2 DEF IsHeld
<1>4. ASSUME NEW c \in Consumers, NEW d \in Consumers,
             consumer'[c].pc = "consumed", consumer'[d].pc = "consumed",
             consumer'[c].token = consumer'[d].token
      PROVE  c = d
  <2>1. CASE consumer'[c] = consumer[c] /\ consumer'[d] = consumer[d]
    BY <1>4, <2>1 DEF HeldInv
  <2>2. CASE Consume(c) \/ Consume(d)
    BY <1>2, <1>3, <1>4, <2>2
  <2> QED BY <1>2, <1>4, <2>1, <2>2
<1> QED BY <1>1, <1>2, <1>4 DEF HeldInv

\* However many requests present a token, at most one makes it take effect.
LEMMA HonouredStep ==
  ASSUME TypeOK, MailedFirst, HeldInv, HonouredOnce, [Next]_vars
  PROVE  HonouredOnce'
<1> SUFFICES ASSUME NEW t \in Tokens PROVE honoured'[t] =< 1
  BY DEF HonouredOnce
<1>1. CASE honoured' = honoured
  BY <1>1 DEF HonouredOnce
<1>2. ASSUME NEW c \in Consumers, TokenIsUsed(c) PROVE honoured'[t] =< 1
  <2>1. CASE t # consumer[c].token
    BY <1>2, <2>1, UseEffect DEF HonouredOnce
  <2>2. CASE t = consumer[c].token
    <3>1. token[t].pc = "live"
      BY <1>2, <2>2, UseEffect DEF HeldInv
    <3>2. honoured[t] = 0
      BY <3>1 DEF HeldInv, TypeOK
    <3> QED BY <1>2, <2>2, <3>2, UseEffect
  <2> QED BY <2>1, <2>2
<1> QED BY <1>1, <1>2, HonouredMoves

\* The request that makes t will not touch token s any more: its UPDATE is over, or
\* began without s in its snapshot.
PassesOver(t, s) == token[t].pc = "cleared" \/ (token[t].pc = "clearing" /\ s \notin token[t].found)

\* A token that a request will pass over was stored after the request had begun to
\* look, and knows of it.
OverlapInv ==
  \A s, t \in Tokens :
     /\ s # t
     /\ PassesOver(t, s)
     /\ token[s].pc = "live"
     /\ SameUse(s, t)
     => t \in token[s].along

LEMMA OverlapStep ==
  ASSUME TypeOK, MailedFirst, OverlapInv, OneLiveToken, [Next]_vars
  PROVE  OverlapInv' /\ OneLiveToken'
<1> DEFINE Known(s, t) ==
      /\ s # t
      /\ \/ token'[t].pc \in {"cleared", "live"}
         \/ token'[t].pc = "clearing" /\ s \notin token'[t].found
      /\ token'[s].pc = "live"
      /\ token'[s].user = token'[t].user
      /\ token'[s].purpose = token'[t].purpose
      => \/ t \in token'[s].along
         \/ token'[t].pc = "live" /\ s \in token'[t].along
<1> SUFFICES ASSUME NEW s \in Tokens, NEW t \in Tokens PROVE Known(s, t) /\ Known(t, s)
  BY DEF OverlapInv, PassesOver, OneLiveToken, SameUse
<1>0. \A a, b \in Tokens :
        /\ a # b
        /\ \/ token[b].pc \in {"cleared", "live"}
           \/ token[b].pc = "clearing" /\ a \notin token[b].found
        /\ token[a].pc = "live"
        /\ token[a].user = token[b].user
        /\ token[a].purpose = token[b].purpose
        => \/ b \in token[a].along
           \/ token[b].pc = "live" /\ a \in token[b].along
  BY DEF OverlapInv, PassesOver, OneLiveToken, SameUse
<1>1. ASSUME token' = token PROVE Known(s, t) /\ Known(t, s)
  BY <1>0, <1>1
<1>2. ASSUME NEW x \in Tokens, NEW u, NEW p, Asked(x, u, p) PROVE Known(s, t) /\ Known(t, s)
  <2>1. token'[x].pc = "asked" /\ \A y \in Tokens \ {x} : token'[y] = token[y]
    BY <1>2 DEF Asked, TypeOK
  <2> QED BY <1>0, <2>1
<1>12. ASSUME NEW x \in Tokens, FindPrevious(x) PROVE Known(s, t) /\ Known(t, s)
  <2>1. /\ token'[x].pc = "clearing"
        /\ token'[x].user = token[x].user
        /\ token'[x].purpose = token[x].purpose
        /\ token'[x].found = Previous(x)
        /\ \A y \in Tokens \ {x} : token'[y] = token[y]
    BY <1>12 DEF FindPrevious, TypeOK
  <2>2. ASSUME NEW y \in Tokens \ {x}, token'[y].pc = "live", token'[y].user = token'[x].user,
               token'[y].purpose = token'[x].purpose
        PROVE  y \in token'[x].found
    BY <2>1, <2>2 DEF Previous, SameUse
  <2> QED BY <1>0, <2>1, <2>2
<1>3. ASSUME NEW x \in Tokens, InvalidatePrevious(x) PROVE Known(s, t) /\ Known(t, s)
  <2>1. ASSUME NEW y \in Tokens, y # x
        PROVE  token'[y] = IF y \in token[x].found /\ token[y].pc = "live"
                           THEN TokenAt(token[y], "used") ELSE token[y]
    BY <1>3, <2>1 DEF InvalidatePrevious
  <2>2. /\ token[x].pc = "clearing"
        /\ token'[x].pc = "cleared"
        /\ token'[x].user = token[x].user
        /\ token'[x].purpose = token[x].purpose
    BY <1>3 DEF InvalidatePrevious, TokenAt
  <2>3. ASSUME NEW y \in Tokens, y # x, token'[y].pc # "used"
        PROVE  token'[y] = token[y] /\ (token[y].pc = "live" => y \notin token[x].found)
    <3>1. TokenAt(token[y], "used").pc = "used"
      BY DEF TokenAt
    <3> QED BY <2>1, <2>3, <3>1
  <2>4. ASSUME NEW a \in Tokens, NEW b \in Tokens PROVE Known(a, b)
    <3> SUFFICES ASSUME a # b, token'[a].pc = "live",
                        \/ token'[b].pc \in {"cleared", "live"}
                        \/ token'[b].pc = "clearing" /\ a \notin token'[b].found,
                        token'[a].user = token'[b].user, token'[a].purpose = token'[b].purpose
                 PROVE  b \in token'[a].along \/ (token'[b].pc = "live" /\ a \in token'[b].along)
      OBVIOUS
    <3>1. a # x /\ token'[a] = token[a] /\ token[a].pc = "live" /\ a \notin token[x].found
      BY <2>2, <2>3
    <3>2. CASE b = x
      BY <1>0, <2>2, <3>1, <3>2
    <3>3. CASE b # x
      <4>1. token'[b] = token[b]
        BY <2>3, <3>3
      <4> QED BY <1>0, <3>1, <4>1
    <3> QED BY <3>2, <3>3
  <2> QED BY <2>4
<1>4. ASSUME NEW x \in Tokens, StoreToken(x) PROVE Known(s, t) /\ Known(t, s)
  <2>1. /\ token[x].pc = "cleared"
        /\ token'[x].pc = "live"
        /\ token'[x].user = token[x].user
        /\ token'[x].purpose = token[x].purpose
        /\ token'[x].along = {y \in Tokens \ {x} : token[y].pc \in {"clearing", "cleared"}}
        /\ \A y \in Tokens \ {x} : token'[y] = token[y]
    BY <1>4 DEF StoreToken, TypeOK
  <2> QED BY <1>0, <2>1
<1>5. ASSUME NEW x \in Tokens, IssueFails(x) PROVE Known(s, t) /\ Known(t, s)
  <2>1. token'[x].pc = "failed" /\ \A y \in Tokens \ {x} : token'[y] = token[y]
    BY <1>5 DEF IssueFails, TypeOK, TokenAt
  <2> QED BY <1>0, <2>1
<1>6. ASSUME NEW c \in Consumers, TokenIsUsed(c) PROVE Known(s, t) /\ Known(t, s)
  <2> DEFINE x == consumer[c].token
  <2>1. token'[x].pc = "used" /\ \A y \in Tokens \ {x} : token'[y] = token[y]
    BY <1>6, UseEffect
  <2> QED BY <1>0, <2>1
<1> HIDE DEF Known
<1>7. ASSUME NEW x \in Tokens, IssueStep(x) PROVE Known(s, t) /\ Known(t, s)
  BY <1>2, <1>12, <1>3, <1>4, <1>5, <1>7 DEF IssueStep, ResendVerification, ForgotPassword
<1>8. ASSUME NEW r \in Requests, RequestStep(r) PROVE Known(s, t) /\ Known(t, s)
  BY <1>1, <1>2, <1>8 DEF RequestStep, RecordFailure, ApplyLock, ClearFailures,
     ClearingFails, StartSession, StartFirstSession, Abandon
<1>9. ASSUME NEW c \in Consumers, ConsumerStep(c) PROVE Known(s, t) /\ Known(t, s)
  BY <1>1, <1>6, <1>9 DEF ConsumerStep, Begin, Consume, TokenInvalid, VerifyEmail,
     ResetPassword, Rollback
<1> QED BY <1>1, <1>7, <1>8, <1>9 DEF Next, vars, Register, ReadAccount, Logout,
        CleanUpSessions, Tick

-----------------------------------------------------------------------------
(* Sessions and locks *)

\* Only accounts there are have requests, sessions and tokens; the others are as
\* they will be when they are registered.
Belongings ==
  /\ \A r \in Requests : request[r] # IdleRequest => request[r].user \in registered
  /\ \A s \in sessions : s.user \in registered
  /\ \A t \in Tokens : token[t] # NewToken => token[t].user \in registered
  /\ \A u \in Users \ registered :
       password[u] = 0 /\ failures[u] = 0 /\ lockedUntil[u] = NotLocked

\* A request knows the current password, or a reset came after it read the account.
ReadersKnow ==
  \A r \in Requests :
    request[r] # IdleRequest =>
      request[r].password = password[request[r].user] \/ "reset" \in request[r].missed

\* The lock that the failures of u call for.
LockIsRight(u) ==
  IF lockoutDurationFor[failures[u]] = 0 THEN lockedUntil[u] = NotLocked
  ELSE lockedUntil[u] >= lastFailed[u] + lockoutDurationFor[failures[u]]

\* The request that counted the last failure of u has yet to lock.
LockIsComing(u) ==
  \E r \in Requests : /\ request[r].pc = "failed"
                      /\ request[r].user = u
                      /\ request[r].count = failures[u]

LockInv ==
  /\ \A u \in registered \ outrun : LockIsRight(u) \/ LockIsComing(u)
  /\ \A u \in Users : lastFailed[u] =< now
  /\ \A r \in Requests :
       request[r].pc = "failed" => lockoutDurationFor[request[r].count] # 0
  /\ \A r \in Requests :
       request[r] # IdleRequest /\ IsLocked(request[r].user) => "lock" \in request[r].missed

AccountInv == Belongings /\ ReadersKnow /\ OldSessionsAreLate /\ LockInv

LEMMA RequestFields ==
  ASSUME TypeOK, NEW r \in Requests
  PROVE  /\ request[r] # IdleRequest <=> request[r].pc # "idle"
         /\ request[r] # IdleRequest <=> request[r].user \in Users
         /\ request[r] # IdleRequest =>
              /\ request[r].pc \in RequestSteps
              /\ request[r].password \in Nat
              /\ request[r].count \in 0..MaxFailures
              /\ request[r].missed \in SUBSET Events
  BY RequestShape, IdleShape, AccountAssumption DEF TypeOK, RequestSteps

\* Steps that change neither accounts nor requests.
LEMMA AccountFrame ==
  ASSUME TypeOK, AccountInv, users' = users, request' = request, outrun' = outrun,
         sessions' \subseteq sessions, now' \in Nat, now' >= now,
         \A t \in Tokens : token'[t] # NewToken => token'[t].user \in registered
  PROVE  AccountInv'
<1> USE DEF users
<1>1. Belongings' /\ ReadersKnow' /\ OldSessionsAreLate'
  BY DEF AccountInv, Belongings, ReadersKnow, OldSessionsAreLate
<1>2. \A u \in Users : IsLocked(u)' => IsLocked(u)
  BY DEF IsLocked, TypeOK
<1>3. \A r \in Requests :
        request[r] # IdleRequest /\ IsLocked(request[r].user)' => "lock" \in request[r].missed
  BY <1>2, RequestFields DEF AccountInv, LockInv
<1>4. \A u \in Users : lastFailed[u] =< now'
  BY DEF AccountInv, LockInv, TypeOK
<1>5. \A u \in registered \ outrun : LockIsRight(u)' \/ LockIsComing(u)'
  BY DEF AccountInv, LockInv, LockIsRight, LockIsComing
<1>6. \A r \in Requests :
        request'[r].pc = "failed" => lockoutDurationFor[request'[r].count] # 0
  BY DEF AccountInv, LockInv
<1>7. LockInv'
  BY <1>3, <1>4, <1>5, <1>6 DEF LockInv, IsLocked
<1> QED BY <1>1, <1>7 DEF AccountInv

\* The tokens that others make or use up belong to accounts there are.
LEMMA TokensBelong ==
  ASSUME TypeOK, MailedFirst, AccountInv,
         (\E t \in Tokens : IssueStep(t)) \/ (\E c \in Consumers : TokenIsUsed(c))
  PROVE  \A t \in Tokens : token'[t] # NewToken => token'[t].user \in registered
<1>0. \A t \in Tokens : token[t] # NewToken => token[t].user \in registered
  BY DEF AccountInv, Belongings
<1>1. ASSUME NEW x \in Tokens, NEW u \in registered, NEW p, Asked(x, u, p)
      PROVE  \A t \in Tokens : token'[t] # NewToken => token'[t].user \in registered
  BY <1>0, <1>1 DEF Asked, TypeOK
<1>2. ASSUME NEW x \in Tokens, IssueStep(x)
      PROVE  \A t \in Tokens : token'[t] # NewToken => token'[t].user \in registered
  <2>1. ASSUME NEW u \in Users, ResendVerification(x, u) \/ ForgotPassword(x, u)
        PROVE  \A t \in Tokens : token'[t] # NewToken => token'[t].user \in registered
    <3>1. u \in registered
      BY <2>1 DEF ResendVerification, ForgotPassword, AccountInv, Belongings
    <3> QED BY <1>1, <2>1, <3>1 DEF ResendVerification, ForgotPassword
  <2>2. CASE InvalidatePrevious(x)
    <3> SUFFICES ASSUME NEW t \in Tokens, token'[t] # NewToken PROVE token'[t].user \in registered
      OBVIOUS
    <3>1. token'[t] = token[t] \/ t = x \/ token[t].pc = "live"
      BY <2>2 DEF InvalidatePrevious
    <3>2. \A pc : TokenAt(token[t], pc).user = token[t].user
      BY DEF TokenAt
    <3>3. token'[t].user = token[t].user
      BY <2>2, <3>2 DEF InvalidatePrevious
    <3>4. t = x \/ token[t].pc = "live" => token[t].pc # "new"
      BY <2>2 DEF InvalidatePrevious
    <3> QED BY <1>0, <3>1, <3>3, <3>4, IdleShape
  <2>5. CASE FindPrevious(x)
    <3>1. token[x].user \in registered
      BY <1>0, <2>5, IdleShape DEF FindPrevious
    <3> QED BY <1>0, <2>5, <3>1 DEF FindPrevious, TypeOK
  <2>3. CASE StoreToken(x)
    <3>1. token[x].user \in registered
      BY <1>0, <2>3, IdleShape DEF StoreToken
    <3> QED BY <1>0, <2>3, <3>1 DEF StoreToken, TypeOK
  <2>4. CASE IssueFails(x)
    <3>1. token[x].user \in registered
      BY <1>0, <2>4, IdleShape DEF IssueFails
    <3> QED BY <1>0, <2>4, <3>1 DEF IssueFails, TypeOK, TokenAt
  <2> QED BY <1>2, <2>1, <2>2, <2>3, <2>4, <2>5 DEF IssueStep
<1>3. ASSUME NEW c \in Consumers, TokenIsUsed(c)
      PROVE  \A t \in Tokens : token'[t] # NewToken => token'[t].user \in registered
  <2> DEFINE x == consumer[c].token
  <2>1. x \in Tokens /\ token'[x].user = token[x].user /\ token[x].pc # "new"
    <3>1. x \in Tokens /\ token'[x] = TokenAt(token[x], "used") /\ consumer[c].pc = "consumed"
      BY <1>3, UseEffect
    <3>2. token[x].pc # "new"
      BY <3>1, MailedToken
    <3> QED BY <3>1, <3>2 DEF TokenAt
  <2> QED BY <1>0, <1>3, <2>1, UseEffect, IdleShape
<1> QED BY <1>2, <1>3

\* A request that starts
LEMMA StartStep ==
  ASSUME TypeOK, AccountInv, NEW r \in Requests, NEW u \in Users,
         Register(r, u) \/ ReadAccount(r, u)
  PROVE  AccountInv'
<1> USE DEF TypeOK, users
<1>1. /\ request[r].pc = "idle"
      /\ request'[r] # IdleRequest
      /\ request'[r].user = u
      /\ request'[r].password = password[u]
      /\ request'[r].pc # "failed"
      /\ \A x \in Requests \ {r} : request'[x] = request[x]
  <2>1. CASE Register(r, u)
    <3>1. password[u] = 0
      BY <2>1 DEF Register, AccountInv, Belongings
    <3> QED BY <2>1, <3>1, IdleShape DEF Register
  <2>2. CASE ReadAccount(r, u)
    BY <2>2, IdleShape DEF ReadAccount
  <2> QED BY <2>1, <2>2
<1>2. /\ u \in registered'
      /\ registered' = registered \cup {u}
      /\ password' = password /\ failures' = failures /\ lockedUntil' = lockedUntil
      /\ lastFailed' = lastFailed /\ now' = now /\ sessions' = sessions
      /\ token' = token /\ outrun' = outrun
  BY DEF Register, ReadAccount
<1>3. Belongings' /\ ReadersKnow' /\ OldSessionsAreLate'
  BY <1>1, <1>2 DEF AccountInv, Belongings, ReadersKnow, OldSessionsAreLate
<1>4. ~IsLocked(u)
  BY DEF Register, ReadAccount, MayLogIn, IsLocked, AccountInv, Belongings, NotLocked
<1>5. ASSUME NEW x \in Requests, request'[x] # IdleRequest, lockedUntil[request'[x].user] > now
      PROVE  "lock" \in request'[x].missed
  <2>1. x # r /\ request'[x] = request[x]
    BY <1>1, <1>4, <1>5 DEF IsLocked
  <2> QED BY <1>5, <2>1 DEF AccountInv, LockInv, IsLocked
<1>6. \A v \in registered' \ outrun' : LockIsRight(v)' \/ LockIsComing(v)'
  <2>1. ASSUME NEW v \in registered \ outrun PROVE LockIsRight(v)' \/ LockIsComing(v)'
    <3>1. CASE LockIsRight(v)
      BY <1>2, <3>1 DEF LockIsRight
    <3>2. CASE LockIsComing(v)
      BY <1>1, <1>2, <3>2 DEF LockIsComing
    <3> QED BY <2>1, <3>1, <3>2 DEF AccountInv, LockInv
  <2>2. u \notin registered => LockIsRight(u)'
    BY <1>2, AccountAssumption DEF AccountInv, Belongings, LockIsRight, NotLocked
  <2> QED BY <1>2, <2>1, <2>2
<1>7. \A x \in Requests :
        request'[x].pc = "failed" => lockoutDurationFor[request'[x].count] # 0
  BY <1>1 DEF AccountInv, LockInv
<1>8. \A v \in Users : lastFailed'[v] =< now'
  BY <1>2 DEF AccountInv, LockInv
<1>9. LockInv'
  BY <1>2, <1>5, <1>6, <1>7, <1>8 DEF LockInv, IsLocked
<1> QED BY <1>3, <1>9 DEF AccountInv

\* Failures of a login: its first and its second statement
LEMMA FailureStep ==
  ASSUME TypeOK, AccountInv, NEW r \in Requests, RecordFailure(r)
  PROVE  AccountInv'
<1> USE DEF TypeOK, users
<1> DEFINE u == request[r].user
           n == failures[u] + 1
<1>1. /\ u \in Users /\ request[r] # IdleRequest /\ request[r].pc = "wrong"
      /\ n \in 1..MaxFailures /\ u \in registered /\ failures[u] \in 0..MaxFailures
  <2>1. request[r].pc = "wrong" /\ n =< MaxFailures
    BY DEF RecordFailure
  <2>2. request[r] # IdleRequest /\ u \in Users
    BY <2>1, RequestFields, IdleShape
  <2>3. u \in registered
    BY <2>2 DEF AccountInv, Belongings
  <2> QED BY <2>1, <2>2, <2>3, AccountAssumption
<1>2. /\ failures' = [failures EXCEPT ![u] = n]
      /\ lastFailed' = [lastFailed EXCEPT ![u] = now]
      /\ UNCHANGED <<now, registered, password, lockedUntil, sessions, token, outrun>>
  BY DEF RecordFailure
<1>3. /\ \A x \in Requests \ {r} : request'[x] = request[x]
      /\ lockoutDurationFor[n] = 0 => request'[r] = IdleRequest
      /\ lockoutDurationFor[n] # 0 =>
           /\ request'[r].pc = "failed"
           /\ request'[r].user = u
           /\ request'[r].password = request[r].password
           /\ request'[r].count = n
           /\ request'[r].missed = request[r].missed
           /\ request'[r] # IdleRequest
  BY IdleShape DEF RecordFailure
<1> HIDE DEF u, n
<1>4. Belongings' /\ ReadersKnow' /\ OldSessionsAreLate'
  <2>1. Belongings'
    BY <1>1, <1>2, <1>3 DEF AccountInv, Belongings, u
  <2>2. ReadersKnow'
    BY <1>1, <1>2, <1>3 DEF AccountInv, ReadersKnow, u
  <2> QED BY <1>2, <2>1, <2>2 DEF AccountInv, OldSessionsAreLate
<1>5. ASSUME NEW x \in Requests, request'[x] # IdleRequest, lockedUntil[request'[x].user] > now
      PROVE  "lock" \in request'[x].missed
  BY <1>1, <1>3, <1>5 DEF AccountInv, LockInv, IsLocked, u
<1>6. ASSUME NEW v \in registered \ outrun PROVE LockIsRight(v)' \/ LockIsComing(v)'
  <2>0. LockIsRight(v) \/ LockIsComing(v)
    BY <1>6 DEF AccountInv, LockInv
  <2>1. CASE v # u
    <3>1. failures'[v] = failures[v] /\ lastFailed'[v] = lastFailed[v] /\ v \in Users
      BY <1>2, <1>6, <2>1
    <3>2. CASE LockIsRight(v)
      BY <1>2, <3>1, <3>2 DEF LockIsRight
    <3>3. CASE LockIsComing(v)
      <4>1. PICK x \in Requests : /\ request[x].pc = "failed"
                                  /\ request[x].user = v
                                  /\ request[x].count = failures[v]
        BY <3>3 DEF LockIsComing
      <4>2. x # r
        BY <1>1, <4>1
      <4> QED BY <1>3, <3>1, <4>1, <4>2 DEF LockIsComing
    <3> QED BY <2>0, <3>2, <3>3
  <2>2. CASE v = u /\ lockoutDurationFor[n] # 0
    <3>1. failures'[v] = n
      BY <1>1, <1>2, <2>2
    <3> QED BY <1>3, <2>2, <3>1 DEF LockIsComing
  <2>3. CASE v = u /\ lockoutDurationFor[n] = 0
    <3>1. lockoutDurationFor[failures[u]] = 0
      BY <1>1, <2>3, AccountAssumption, LockTimes DEF n
    <3>2. ~LockIsComing(v)
      BY <2>3, <3>1 DEF LockIsComing, AccountInv, LockInv
    <3>3. lockedUntil[u] = NotLocked
      BY <2>0, <2>3, <3>1, <3>2 DEF LockIsRight
    <3> QED BY <1>1, <1>2, <2>3, <3>3 DEF LockIsRight
  <2> QED BY <2>1, <2>2, <2>3
<1>7. \A x \in Requests :
        request'[x].pc = "failed" => lockoutDurationFor[request'[x].count] # 0
  BY <1>3, IdleShape DEF AccountInv, LockInv
<1>8. \A v \in Users : lastFailed'[v] =< now'
  BY <1>2 DEF AccountInv, LockInv
<1>9. LockInv'
  BY <1>2, <1>5, <1>6, <1>7, <1>8 DEF LockInv, IsLocked
<1> QED BY <1>4, <1>9 DEF AccountInv

\* What an event on account u does to the requests, r apart.
LEMMA NotedFields ==
  ASSUME TypeOK, NEW u \in Users, NEW event \in Events, NEW x \in Requests
  PROVE  /\ NoteMissed(u, event)[x].pc = request[x].pc
         /\ NoteMissed(u, event)[x].user = request[x].user
         /\ NoteMissed(u, event)[x].password = request[x].password
         /\ NoteMissed(u, event)[x].count = request[x].count
         /\ request[x].missed \subseteq NoteMissed(u, event)[x].missed
         /\ request[x].user = u => event \in NoteMissed(u, event)[x].missed
         /\ NoteMissed(u, event)[x] # IdleRequest <=> request[x] # IdleRequest
<1>1. CASE request[x].user # u
  <2>1. NoteMissed(u, event)[x] = request[x]
    BY <1>1, NoteMissedShape DEF TypeOK
  <2> QED BY <1>1, <2>1
<1>2. CASE request[x].user = u
  <2> DEFINE q == request[x]
             m == q.missed \cup {event}
  <2>1. /\ NoteMissed(u, event)[x] = At(q, q.pc, m)
        /\ q \in Request \ {IdleRequest}
        /\ q.pc \in RequestSteps
        /\ m \in SUBSET Events
    BY <1>2, NoteMissedShape DEF TypeOK
  <2> HIDE DEF q, m
  <2>2. /\ At(q, q.pc, m) # IdleRequest
        /\ At(q, q.pc, m).pc = q.pc
        /\ At(q, q.pc, m).user = q.user
        /\ At(q, q.pc, m).password = q.password
        /\ At(q, q.pc, m).count = q.count
        /\ At(q, q.pc, m).missed = m
    BY <2>1, AtShape
  <2> QED BY <2>1, <2>2 DEF q, m
<1> QED BY <1>1, <1>2

LEMMA LockStep ==
  ASSUME TypeOK, AccountInv, NEW r \in Requests, ApplyLock(r)
  PROVE  AccountInv'
<1> USE DEF TypeOK, users
<1> DEFINE u == request[r].user
           n == request[r].count
<1>1. /\ u \in Users /\ request[r] # IdleRequest /\ request[r].pc = "failed"
      /\ n \in 0..MaxFailures /\ u \in registered /\ lockoutDurationFor[n] # 0
      /\ lockoutDurationFor[n] \in Nat
  BY RequestFields, IdleShape, LockTimes DEF ApplyLock, AccountInv, Belongings, LockInv
<1>2. /\ lockedUntil' = [lockedUntil EXCEPT ![u] = now + lockoutDurationFor[n]]
      /\ outrun' = IF n = failures[u] THEN outrun \ {u} ELSE outrun \cup {u}
      /\ UNCHANGED <<now, registered, password, failures, lastFailed, sessions, token>>
  BY DEF ApplyLock
<1>3. /\ request'[r] = IdleRequest
      /\ \A x \in Requests \ {r} : request'[x] = NoteMissed(u, "lock")[x]
  BY <1>1, NoteMissedShape DEF ApplyLock, Events
<1>4. \A x \in Requests :
        request'[x] # IdleRequest =>
          /\ x # r
          /\ request[x] # IdleRequest
          /\ request'[x].pc = request[x].pc
          /\ request'[x].user = request[x].user
          /\ request'[x].password = request[x].password
          /\ request'[x].count = request[x].count
          /\ request[x].missed \subseteq request'[x].missed
          /\ request[x].user = u => "lock" \in request'[x].missed
  BY <1>1, <1>3, NotedFields DEF Events
<1> HIDE DEF u, n
<1>5. Belongings' /\ ReadersKnow' /\ OldSessionsAreLate'
  <2>1. Belongings'
    BY <1>1, <1>2, <1>4 DEF AccountInv, Belongings
  <2>2. ReadersKnow'
    BY <1>2, <1>4 DEF AccountInv, ReadersKnow
  <2> QED BY <1>2, <2>1, <2>2 DEF AccountInv, OldSessionsAreLate
<1>6. ASSUME NEW x \in Requests, request'[x] # IdleRequest,
             lockedUntil'[request'[x].user] > now
      PROVE  "lock" \in request'[x].missed
  <2>1. CASE request[x].user = u
    BY <1>4, <1>6, <2>1
  <2>2. CASE request[x].user # u
    <3>1. request[x].user \in Users /\ request'[x].user = request[x].user
      BY <1>4, <1>6, RequestFields
    <3>2. lockedUntil[request[x].user] > now
      BY <1>2, <1>6, <2>2, <3>1
    <3> QED BY <1>4, <1>6, <3>2 DEF AccountInv, LockInv, IsLocked
  <2> QED BY <2>1, <2>2
<1>7. ASSUME NEW v \in registered \ outrun' PROVE LockIsRight(v)' \/ LockIsComing(v)'
  <2>1. CASE v = u
    <3>1. n = failures[u] /\ lastFailed[u] =< now
      BY <1>1, <1>2, <1>7, <2>1 DEF AccountInv, LockInv
    <3>2. lockedUntil'[u] >= lastFailed[u] + lockoutDurationFor[n]
      BY <1>1, <1>2, <3>1
    <3> QED BY <1>1, <1>2, <2>1, <3>1, <3>2 DEF LockIsRight
  <2>2. CASE v # u
    <3>1. v \in Users /\ v \notin outrun /\ lockedUntil'[v] = lockedUntil[v]
      BY <1>2, <1>7, <2>2
    <3>2. CASE LockIsRight(v)
      BY <1>2, <3>1, <3>2 DEF LockIsRight
    <3>3. CASE LockIsComing(v)
      <4>1. PICK x \in Requests : /\ request[x].pc = "failed"
                                  /\ request[x].user = v
                                  /\ request[x].count = failures[v]
        BY <3>3 DEF LockIsComing
      <4>2. x # r
        BY <2>2, <4>1 DEF u
      <4>3. /\ request'[x].pc = request[x].pc /\ request'[x].user = request[x].user
            /\ request'[x].count = request[x].count
        BY <1>1, <1>3, <4>2, NotedFields DEF Events
      <4> QED BY <1>2, <4>1, <4>3 DEF LockIsComing
    <3> QED BY <1>7, <3>1, <3>2, <3>3 DEF AccountInv, LockInv
  <2> QED BY <2>1, <2>2
<1>8. \A x \in Requests :
        request'[x].pc = "failed" => lockoutDurationFor[request'[x].count] # 0
  BY <1>4, IdleShape DEF AccountInv, LockInv
<1>9. \A v \in Users : lastFailed'[v] =< now'
  BY <1>2 DEF AccountInv, LockInv
<1>10. LockInv'
  BY <1>2, <1>6, <1>7, <1>8, <1>9 DEF LockInv, IsLocked
<1> QED BY <1>5, <1>10 DEF AccountInv

\* A login that goes on, and one that ends
LEMMA ClearStep ==
  ASSUME TypeOK, AccountInv, NEW r \in Requests, ClearFailures(r) \/ ClearingFails(r)
  PROVE  AccountInv'
<1> USE DEF TypeOK, users
<1> DEFINE u == request[r].user
<1>1. /\ u \in Users /\ request[r] # IdleRequest /\ request[r].pc = "right"
      /\ u \in registered /\ request[r].missed \in SUBSET Events
  BY RequestFields, IdleShape DEF ClearFailures, ClearingFails, AccountInv, Belongings
<1>2. UNCHANGED <<now, registered, password, lastFailed, sessions, token>>
  BY DEF ClearFailures, ClearingFails
<1>3. /\ \A x \in Requests \ {r} : request'[x] = request[x]
      /\ request'[r].pc = "cleared"
      /\ request'[r].user = u
      /\ request'[r].password = request[r].password
      /\ request'[r].missed = request[r].missed
      /\ request'[r] # IdleRequest
  <2>1. request' = [request EXCEPT ![r] = At(request[r], "cleared", request[r].missed)]
    BY DEF ClearFailures, ClearingFails
  <2>2. request[r] \in Request \ {IdleRequest}
    BY <1>1
  <2> QED BY <1>1, <2>1, <2>2, AtShape DEF RequestSteps
<1>4. \/ UNCHANGED <<failures, lockedUntil, outrun>>
      \/ /\ failures' = [failures EXCEPT ![u] = 0]
         /\ lockedUntil' = [lockedUntil EXCEPT ![u] = NotLocked]
         /\ outrun' = outrun \ {u}
  BY DEF ClearFailures, ClearingFails, Cleared
<1> HIDE DEF u
<1>5. Belongings' /\ ReadersKnow' /\ OldSessionsAreLate'
  <2>1. Belongings'
    BY <1>1, <1>2, <1>3, <1>4 DEF AccountInv, Belongings
  <2>2. ReadersKnow'
    BY <1>1, <1>2, <1>3 DEF AccountInv, ReadersKnow, u
  <2> QED BY <1>2, <2>1, <2>2 DEF AccountInv, OldSessionsAreLate
<1>6. ASSUME NEW x \in Requests, request'[x] # IdleRequest,
             lockedUntil'[request'[x].user] > now
      PROVE  "lock" \in request'[x].missed
  <2>1. request[x] # IdleRequest /\ request'[x].user = request[x].user
        /\ request'[x].missed = request[x].missed /\ request[x].user \in Users
    BY <1>1, <1>3, <1>6, RequestFields DEF u
  <2>2. lockedUntil[request[x].user] > now
    BY <1>4, <1>6, <2>1 DEF NotLocked
  <2> QED BY <2>1, <2>2 DEF AccountInv, LockInv, IsLocked
<1>7. ASSUME NEW v \in registered \ outrun' PROVE LockIsRight(v)' \/ LockIsComing(v)'
  <2>1. CASE failures'[v] = failures[v] /\ lockedUntil'[v] = lockedUntil[v] /\ v \notin outrun
    <3>1. CASE LockIsRight(v)
      BY <1>2, <2>1, <3>1 DEF LockIsRight
    <3>2. CASE LockIsComing(v)
      BY <1>1, <1>3, <2>1, <3>2 DEF LockIsComing
    <3> QED BY <1>7, <2>1, <3>1, <3>2 DEF AccountInv, LockInv
  <2>2. CASE failures'[v] = 0 /\ lockedUntil'[v] = NotLocked
    BY <2>2, AccountAssumption DEF LockIsRight
  <2> QED BY <1>1, <1>4, <1>7, <2>1, <2>2
<1>8. \A x \in Requests :
        request'[x].pc = "failed" => lockoutDurationFor[request'[x].count] # 0
  BY <1>3 DEF AccountInv, LockInv
<1>9. \A v \in Users : lastFailed'[v] =< now'
  BY <1>2 DEF AccountInv, LockInv
<1>10. LockInv'
  BY <1>2, <1>6, <1>7, <1>8, <1>9 DEF LockInv, IsLocked
<1> QED BY <1>5, <1>10 DEF AccountInv

LEMMA EndStep ==
  ASSUME TypeOK, AccountInv, NEW r \in Requests,
         StartSession(r) \/ Abandon(r) \/ \E t \in Tokens : StartFirstSession(r, t)
  PROVE  AccountInv'
<1> USE DEF TypeOK, users
<1> DEFINE u == request[r].user
<1>1. request[r] # IdleRequest /\ u \in Users /\ u \in registered
  BY RequestFields, IdleShape DEF StartSession, Abandon, StartFirstSession, AccountInv, Belongings
<1>2. UNCHANGED <<now, registered, password, failures, lastFailed, lockedUntil>>
  BY DEF StartSession, Abandon, StartFirstSession
<1>3. request' = [request EXCEPT ![r] = IdleRequest]
  BY DEF StartSession, Abandon, StartFirstSession
<1>4. sessions' = sessions \/ sessions' = sessions \cup {SessionOf(r)}
  BY DEF StartSession, Abandon, StartFirstSession
<1>5. /\ SessionOf(r).user = u
      /\ SessionOf(r).password = request[r].password
      /\ SessionOf(r).missed = request[r].missed
  BY DEF SessionOf
<1>6. \A t \in Tokens : token'[t] # NewToken => token'[t].user \in registered
  BY <1>1 DEF StartSession, Abandon, StartFirstSession, Asked, AccountInv, Belongings
<1>7. \/ outrun' = outrun /\ ~(request[r].pc = "failed" /\ request[r].count = failures[u])
      \/ outrun' = outrun \cup {u}
  BY DEF StartSession, Abandon, StartFirstSession
<1> HIDE DEF u
<1>8. Belongings' /\ ReadersKnow' /\ OldSessionsAreLate'
  <2>1. Belongings'
    BY <1>1, <1>2, <1>3, <1>4, <1>5, <1>6 DEF AccountInv, Belongings
  <2>2. ReadersKnow'
    BY <1>2, <1>3 DEF AccountInv, ReadersKnow
  <2>3. OldSessionsAreLate'
    BY <1>1, <1>2, <1>4, <1>5 DEF AccountInv, ReadersKnow, OldSessionsAreLate, u
  <2> QED BY <2>1, <2>2, <2>3
<1>9. ASSUME NEW v \in registered \ outrun' PROVE LockIsRight(v)' \/ LockIsComing(v)'
  <2>1. CASE LockIsRight(v)
    BY <1>2, <2>1 DEF LockIsRight
  <2>2. CASE LockIsComing(v)
    <3>1. PICK x \in Requests : /\ request[x].pc = "failed"
                                /\ request[x].user = v
                                /\ request[x].count = failures[v]
      BY <2>2 DEF LockIsComing
    <3>2. x # r
      BY <1>7, <1>9, <3>1 DEF u
    <3> QED BY <1>2, <1>3, <3>1, <3>2 DEF LockIsComing
  <2> QED BY <1>7, <1>9, <2>1, <2>2 DEF AccountInv, LockInv
<1>10. \A x \in Requests :
        request'[x].pc = "failed" => lockoutDurationFor[request'[x].count] # 0
  BY <1>3, IdleShape DEF AccountInv, LockInv
<1>11. ASSUME NEW x \in Requests, request'[x] # IdleRequest, lockedUntil[request'[x].user] > now
      PROVE  "lock" \in request'[x].missed
  BY <1>3, <1>11 DEF AccountInv, LockInv, IsLocked
<1>12. \A v \in Users : lastFailed'[v] =< now'
  BY <1>2 DEF AccountInv, LockInv
<1>13. LockInv'
  BY <1>2, <1>9, <1>10, <1>11, <1>12 DEF LockInv, IsLocked
<1> QED BY <1>8, <1>13 DEF AccountInv

\* A token that takes effect
LEMMA VerifyStep ==
  ASSUME TypeOK, MailedFirst, AccountInv, NEW c \in Consumers, VerifyEmail(c)
  PROVE  AccountInv'
<1> USE DEF TypeOK, users
<1>1. \A t \in Tokens : token'[t] # NewToken => token'[t].user \in registered
  BY TokensBelong DEF VerifyEmail
<1>2. /\ UNCHANGED <<now, registered, password, failures, lastFailed, lockedUntil,
                     sessions, request, outrun>>
  BY DEF VerifyEmail
<1>3. Belongings' /\ ReadersKnow' /\ OldSessionsAreLate'
  BY <1>1, <1>2 DEF AccountInv, Belongings, ReadersKnow, OldSessionsAreLate
<1>4. \A v \in registered \ outrun : LockIsRight(v)' \/ LockIsComing(v)'
  BY <1>2 DEF AccountInv, LockInv, LockIsRight, LockIsComing
<1>5. LockInv'
  BY <1>2, <1>4 DEF AccountInv, LockInv, IsLocked
<1> QED BY <1>3, <1>5 DEF AccountInv

LEMMA ResetStep ==
  ASSUME TypeOK, MailedFirst, AccountInv, NEW c \in Consumers, ResetPassword(c)
  PROVE  AccountInv'
<1> USE DEF TypeOK, users
<1> DEFINE u == token[consumer[c].token].user
<1>1. u \in Users /\ u \in registered
  <2>1. consumer[c].pc = "consumed"
    BY DEF ResetPassword, TokenIsUsed
  <2>2. /\ consumer[c].token \in Tokens /\ u \in Users
        /\ token[consumer[c].token].pc \in {"live", "used"}
    BY <2>1, MailedToken
  <2> QED BY <2>2, IdleShape DEF AccountInv, Belongings
<1>2. /\ UNCHANGED <<now, registered, lastFailed>>
      /\ password' = [password EXCEPT ![u] = password[u] + 1]
      /\ sessions' = {s \in sessions : s.user # u}
      /\ failures' = [failures EXCEPT ![u] = 0]
      /\ lockedUntil' = [lockedUntil EXCEPT ![u] = NotLocked]
      /\ outrun' = outrun \ {u}
      /\ request' = NoteMissed(u, "reset")
  BY DEF ResetPassword, Cleared, SessionsAfterReset
<1>3. \A t \in Tokens : token'[t] # NewToken => token'[t].user \in registered
  BY TokensBelong DEF ResetPassword
<1> HIDE DEF u
<1>4. \A x \in Requests :
          /\ request'[x] # IdleRequest <=> request[x] # IdleRequest
          /\ request'[x].pc = request[x].pc
          /\ request'[x].user = request[x].user
          /\ request'[x].password = request[x].password
          /\ request'[x].count = request[x].count
          /\ request[x].missed \subseteq request'[x].missed
          /\ request[x].user = u => "reset" \in request'[x].missed
  BY <1>1, <1>2, NotedFields DEF Events
<1>5. Belongings'
  BY <1>1, <1>2, <1>3, <1>4 DEF AccountInv, Belongings
<1>6. ReadersKnow'
  <2> SUFFICES ASSUME NEW x \in Requests, request'[x] # IdleRequest
               PROVE  \/ request'[x].password = password'[request'[x].user]
                      \/ "reset" \in request'[x].missed
    BY DEF ReadersKnow
  <2>1. CASE request[x].user = u
    BY <1>4, <2>1
  <2>2. CASE request[x].user # u
    <3>1. request[x].user \in Users
      BY <1>4, RequestFields
    <3>2. password'[request[x].user] = password[request[x].user]
      BY <1>2, <2>2, <3>1
    <3> QED BY <1>4, <3>2 DEF AccountInv, ReadersKnow
  <2> QED BY <2>1, <2>2
<1>7. OldSessionsAreLate'
  <2> SUFFICES ASSUME NEW s \in sessions, s.user # u,
                      s.password # password'[s.user]
               PROVE  "reset" \in s.missed
    BY <1>2 DEF OldSessionsAreLate
  <2>1. s.user \in Users
    BY SessionShape
  <2>2. password'[s.user] = password[s.user]
    BY <1>2, <2>1
  <2> QED BY <2>2 DEF AccountInv, OldSessionsAreLate
<1>8. ASSUME NEW x \in Requests, request'[x] # IdleRequest,
             lockedUntil'[request'[x].user] > now
      PROVE  "lock" \in request'[x].missed
  <2>1. request[x] # IdleRequest /\ request'[x].user = request[x].user
        /\ request[x].user \in Users
    BY <1>4, <1>8, RequestFields
  <2>2. lockedUntil[request[x].user] > now
    BY <1>1, <1>2, <1>8, <2>1 DEF NotLocked
  <2> QED BY <1>4, <2>1, <2>2 DEF AccountInv, LockInv, IsLocked
<1>9. ASSUME NEW v \in registered \ outrun' PROVE LockIsRight(v)' \/ LockIsComing(v)'
  <2>1. CASE v = u
    <3>1. failures'[v] = 0 /\ lockedUntil'[v] = NotLocked
      BY <1>1, <1>2, <2>1
    <3> QED BY <3>1, AccountAssumption DEF LockIsRight
  <2>2. CASE v # u
    <3>1. failures'[v] = failures[v] /\ lockedUntil'[v] = lockedUntil[v] /\ v \notin outrun
      BY <1>2, <1>9, <2>2
    <3>2. CASE LockIsRight(v)
      BY <1>2, <3>1, <3>2 DEF LockIsRight
    <3>3. CASE LockIsComing(v)
      BY <1>4, <3>1, <3>3 DEF LockIsComing
    <3> QED BY <1>9, <3>1, <3>2, <3>3 DEF AccountInv, LockInv
  <2> QED BY <2>1, <2>2
<1>10. \A x \in Requests :
        request'[x].pc = "failed" => lockoutDurationFor[request'[x].count] # 0
  BY <1>4 DEF AccountInv, LockInv
<1>11. \A v \in Users : lastFailed'[v] =< now'
  BY <1>2 DEF AccountInv, LockInv
<1>12. LockInv'
  BY <1>2, <1>8, <1>9, <1>10, <1>11 DEF LockInv, IsLocked
<1> QED BY <1>5, <1>6, <1>7, <1>12 DEF AccountInv

LEMMA AccountStep ==
  ASSUME TypeOK, MailedFirst, AccountInv, [Next]_vars
  PROVE  AccountInv'
<1>0. \A t \in Tokens : token[t] # NewToken => token[t].user \in registered
  BY DEF AccountInv, Belongings
<1>1. CASE UNCHANGED vars
  BY <1>0, <1>1, AccountFrame DEF vars, TypeOK
<1>2. ASSUME NEW r \in Requests, NEW u \in Users, Register(r, u) \/ ReadAccount(r, u)
      PROVE  AccountInv'
  BY <1>2, StartStep
<1>3. ASSUME NEW r \in Requests, RequestStep(r) PROVE AccountInv'
  BY <1>3, FailureStep, LockStep, ClearStep, EndStep DEF RequestStep
<1>4. CASE Logout \/ CleanUpSessions
  <2>1. sessions' \subseteq sessions
    BY <1>4 DEF Logout, CleanUpSessions
  <2> QED BY <1>0, <1>4, <2>1, AccountFrame DEF Logout, CleanUpSessions, TypeOK
<1>5. CASE Tick
  BY <1>0, <1>5, AccountFrame DEF Tick, TypeOK
<1>6. ASSUME NEW t \in Tokens, IssueStep(t) PROVE AccountInv'
  <2>1. UNCHANGED <<now, users, sessions, request, outrun>>
    BY <1>6 DEF IssueStep, ResendVerification, ForgotPassword, FindPrevious, InvalidatePrevious, StoreToken,
       IssueFails
  <2> QED BY <1>6, <2>1, TokensBelong, AccountFrame DEF TypeOK
<1>7. ASSUME NEW c \in Consumers, ConsumerStep(c) PROVE AccountInv'
  <2>1. CASE VerifyEmail(c) \/ ResetPassword(c)
    BY <2>1, VerifyStep, ResetStep
  <2>2. CASE TokenInvalid(c) \/ Rollback(c) \/ Consume(c) \/ \E t \in Tokens : Begin(c, t)
    <3>1. UNCHANGED <<now, users, sessions, token, request, outrun>>
      BY <2>2 DEF TokenInvalid, Rollback, Consume, Begin
    <3> QED BY <1>0, <3>1, AccountFrame DEF TypeOK
  <2> QED BY <1>7, <2>1, <2>2 DEF ConsumerStep
<1> QED BY <1>1, <1>2, <1>3, <1>4, <1>5, <1>6, <1>7 DEF Next

-----------------------------------------------------------------------------
(* Theorems *)

AInv == TypeOK /\ MailedFirst /\ HeldInv /\ HonouredOnce /\ OverlapInv /\ OneLiveToken
          /\ AccountInv

LEMMA AccountInit == Init => AInv
<1> SUFFICES ASSUME Init PROVE AInv
  OBVIOUS
<1>1. TypeOK
  BY TypeInit
<1>2. MailedFirst /\ HeldInv /\ HonouredOnce /\ OverlapInv /\ OneLiveToken
  BY IdleShape DEF Init, MailedFirst, HeldInv, HonouredOnce, OverlapInv, PassesOver, OneLiveToken
<1>3. Belongings /\ ReadersKnow /\ OldSessionsAreLate
  BY DEF Init, Belongings, ReadersKnow, OldSessionsAreLate
<1>4. LockInv
  BY IdleShape DEF Init, LockInv
<1> QED BY <1>1, <1>2, <1>3, <1>4 DEF AInv, AccountInv

\* All of it holds in every state.
LEMMA AccountInvariant == Spec => []AInv
<1>1. AInv /\ [Next]_vars => AInv'
  BY TypeStep, MailedStep, HeldStep, HonouredStep, OverlapStep, AccountStep DEF AInv
<1> QED BY <1>1, AccountInit, PTL DEF Spec

\* The state is of the types of the tables and requests.
THEOREM AccountTypeCorrect == Spec => []TypeOK
  BY AccountInvariant, PTL DEF AInv

\* A token takes effect at most once, for any number of requests that present it.
THEOREM TokensTakeEffectOnce == Spec => []HonouredOnce
  BY AccountInvariant, PTL DEF AInv

\* Two tokens for one purpose can both be used only if their requests overlapped, however
\* long the UPDATE of one has waited for a row and whatever was stored meanwhile.
THEOREM OlderTokensAreDead == Spec => []OneLiveToken
  BY AccountInvariant, PTL DEF AInv

\* A reset leaves no session but those of logins that were under way.
THEOREM ResetEndsSessions == Spec => []OldSessionsAreLate
<1>1. AInv => OldSessionsAreLate
  BY DEF AInv, AccountInv
<1> QED BY <1>1, AccountInvariant, PTL

\* The lock is the one the failures call for, unless one was lost or overtaken.
THEOREM LocksFollow == Spec => []LockFollowsFailures
<1>1. AInv => LockFollowsFailures
  BY DEF AInv, AccountInv, LockInv, LockFollowsFailures, LockIsRight, LockIsComing
<1> QED BY <1>1, AccountInvariant, PTL

\* Only a reset, or a request that had read the account before, lifts a lock early.
THEOREM LocksAreKept == Spec => LocksHold
<1> DEFINE Lifts(u) == IsLocked(u) /\ lockedUntil'[u] < lockedUntil[u]
           Late(u) == \E r \in ReadersOf(u) : "lock" \in request[r].missed /\ request'[r] # request[r]
<1>1. AInv /\ [Next]_vars => [\A u \in Users : LockIsKept(u)]_vars
  <2> SUFFICES ASSUME AInv, [Next]_vars, NEW u \in Users, Lifts(u)
               PROVE  password'[u] # password[u] \/ Late(u)
    BY DEF LockIsKept
  <2>0. TypeOK /\ MailedFirst /\ LockInv
    BY DEF AInv, AccountInv
  <2>1. ASSUME NEW r \in Requests, request[r].user = u, request'[r] # request[r] PROVE Late(u)
    <3>1. request[r] # IdleRequest
      BY <2>0, <2>1, RequestFields
    <3> QED BY <2>0, <2>1, <3>1 DEF LockInv, ReadersOf
  <2>2. ASSUME NEW r \in Requests, RequestStep(r) PROVE Late(u)
    <3>1. CASE ApplyLock(r)
      <4>1. request[r].user = u
        BY <2>0, <3>1 DEF ApplyLock, TypeOK
      <4>2. request[r].pc = "failed" /\ request'[r].pc = "idle"
        <5>1. NoteMissed(request[r].user, "lock") \in [Requests -> Request]
          BY <2>0, <4>1, NoteMissedShape DEF TypeOK, Events
        <5> QED BY <3>1, <5>1, IdleShape DEF ApplyLock
      <4> QED BY <2>1, <4>1, <4>2
    <3>2. CASE ClearFailures(r)
      <4>1. request[r].user = u
        BY <2>0, <3>2 DEF ClearFailures, Cleared, TypeOK
      <4>2. request[r].pc = "right" /\ request'[r].pc = "cleared"
        BY <2>0, <3>2 DEF ClearFailures, At, TypeOK
      <4> QED BY <2>1, <4>1, <4>2
    <3>3. lockedUntil' # lockedUntil
      BY <2>0 DEF TypeOK
    <3> QED BY <2>2, <3>1, <3>2, <3>3 DEF RequestStep, RecordFailure, ClearingFails,
               StartSession, StartFirstSession, Abandon, users
  <2>3. ASSUME NEW c \in Consumers, ResetPassword(c) PROVE password'[u] # password[u]
    <3> DEFINE v == token[consumer[c].token].user
    <3>1. /\ password' = [password EXCEPT ![v] = password[v] + 1]
          /\ lockedUntil' = [lockedUntil EXCEPT ![v] = NotLocked]
      BY <2>3 DEF ResetPassword, Cleared
    <3>2. u = v
      BY <2>0, <3>1 DEF TypeOK
    <3> QED BY <2>0, <3>1, <3>2 DEF TypeOK
  <2>4. lockedUntil' # lockedUntil
    BY <2>0 DEF TypeOK
  <2> QED BY <2>2, <2>3, <2>4 DEF Next, vars, users, Register, ReadAccount, Logout,
        CleanUpSessions, Tick, IssueStep, ResendVerification, ForgotPassword,
        FindPrevious, InvalidatePrevious, StoreToken, IssueFails, ConsumerStep, Begin, Consume,
        TokenInvalid, VerifyEmail, Rollback
<1> QED BY <1>1, AccountInvariant, PTL DEF Spec, LocksHold

=============================================================================
