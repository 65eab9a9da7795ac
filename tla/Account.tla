------------------------------ MODULE Account -------------------------------
(***************************************************************************)
(* Accounts: registration, login with its lock against repeated failures,  *)
(* sessions, and the one-time tokens that verify an address or reset a     *)
(* password.                                                               *)
(* Source: auth.go, lockout.go, email_tokens.go, the session cleanup of    *)
(* main.go, and the tables of migrations 002, 011 and 012.                 *)
(*                                                                         *)
(* A login, a registration and the making of a token are several           *)
(* statements without a transaction: each statement is a step, and the     *)
(* request may end before any of them.  A token is consumed within a       *)
(* transaction: it holds the token's row from the UPDATE on and changes    *)
(* everything else when it commits.  (Its other rows are locked as well,   *)
(* or, as the sessions, only written by others in a way that commutes with *)
(* the commit.)  NOW() in a transaction is the time at which it began.     *)
(*                                                                         *)
(* Under READ COMMITTED an UPDATE of several rows chooses them in the      *)
(* snapshot of its start, waits for those that others hold, and then looks *)
(* again at these rows only; so the one that invalidates older tokens is   *)
(* a step that reads and a step that writes.                               *)
(*                                                                         *)
(* A password is the number of resets before it was set.  The fields       *)
(* missed and along, and the variables honoured and outrun, are history:   *)
(* no guard reads them.                                                    *)
(***************************************************************************)
EXTENDS Integers, FiniteSets

CONSTANTS Users,          \* addresses that may have an account
          Requests,       \* concurrent logins and registrations
          Tokens,         \* requests for a mail with a token
          Consumers,      \* concurrent verifications and resets
          NoUser, NoToken,
          sessionTTL, verifyTokenTTL, resetTokenTTL,
          lockoutDurationFor,  \* [failures -> length of the lock, 0 for none]
          MaxTime,        \* bound on the clock
          MaxFailures     \* bound on the failures counted for an account

\* Lock times: as lockout.go:32 computes them (see the module Arithmetic).
ASSUME AccountAssumption ==
  /\ NoUser \notin Users
  /\ NoToken \notin Tokens
  /\ sessionTTL \in Nat \ {0}
  /\ verifyTokenTTL \in Nat \ {0}
  /\ resetTokenTTL \in Nat \ {0}
  /\ MaxTime \in Nat
  /\ MaxFailures \in Nat
  /\ lockoutDurationFor \in [0..MaxFailures -> Nat]
  /\ lockoutDurationFor[0] = 0
  /\ \A m, n \in 0..MaxFailures :
        m =< n => lockoutDurationFor[m] =< lockoutDurationFor[n]

VARIABLES now,
          registered,    \* the accounts there are
          password,      \* users.password_hash
          verified,      \* accounts with an email_verified_at
          failures,      \* users.failed_login_count
          lastFailed,    \* users.last_failed_login_at, 0 for none
          lockedUntil,   \* users.locked_until, NotLocked for NULL
          sessions,      \* rows of sessions (equal ones are one here)
          token,         \* rows of email_tokens and the requests that make them
          request,       \* what each login or registration is doing
          consumer,      \* what each verification or reset is doing
          honoured,      \* history: how often each token took effect
          outrun         \* history: accounts whose last failure is not in the lock

users == <<registered, password, verified, failures, lastFailed, lockedUntil>>
vars == <<now, users, sessions, token, request, consumer, honoured, outrun>>

-----------------------------------------------------------------------------
(* Types *)

NotLocked == 0
Purposes == {"verify_email", "reset_password"}
TTL == [p \in Purposes |-> IF p = "verify_email" THEN verifyTokenTTL ELSE resetTokenTTL]

\* What a login may miss after it has read the account.
Events == {"lock", "reset"}

Session == [user : Users, password : Nat, expires : Nat, missed : SUBSET Events]

\* "live": stored with used_at NULL, expired or not.
NewToken == [pc |-> "new", user |-> NoUser, purpose |-> "verify_email",
             expires |-> 0, found |-> {}, along |-> {}]
TokenStates == {"asked", "clearing", "cleared", "failed", "live", "used"}
Token == {NewToken} \cup [pc : TokenStates, user : Users, purpose : Purposes,
                          expires : Nat, found : SUBSET Tokens, along : SUBSET Tokens]

IdleRequest == [pc |-> "idle", user |-> NoUser, password |-> 0, count |-> 0,
                missed |-> {}]
Request == {IdleRequest}
             \cup [pc : {"right", "wrong", "failed", "cleared", "registered"},
                   user : Users, password : Nat, count : 0..MaxFailures,
                   missed : SUBSET Events]

IdleConsumer == [pc |-> "idle", token |-> NoToken, stamp |-> 0]
Consumer == {IdleConsumer}
              \cup [pc : {"begun", "consumed"}, token : Tokens, stamp : Nat]

TypeOK ==
  /\ now \in Nat
  /\ registered \subseteq Users
  /\ password \in [Users -> Nat]
  /\ verified \subseteq Users
  /\ failures \in [Users -> 0..MaxFailures]
  /\ lastFailed \in [Users -> Nat]
  /\ lockedUntil \in [Users -> Nat]
  /\ sessions \subseteq Session
  /\ token \in [Tokens -> Token]
  /\ request \in [Requests -> Request]
  /\ consumer \in [Consumers -> Consumer]
  /\ honoured \in [Tokens -> Nat]
  /\ outrun \subseteq Users

Init ==
  /\ now = 1
  /\ registered = {}
  /\ password = [u \in Users |-> 0]
  /\ verified = {}
  /\ failures = [u \in Users |-> 0]
  /\ lastFailed = [u \in Users |-> 0]
  /\ lockedUntil = [u \in Users |-> NotLocked]
  /\ sessions = {}
  /\ token = [t \in Tokens |-> NewToken]
  /\ request = [r \in Requests |-> IdleRequest]
  /\ consumer = [c \in Consumers |-> IdleConsumer]
  /\ honoured = [t \in Tokens |-> 0]
  /\ outrun = {}

-----------------------------------------------------------------------------
(* Registration and login *)

IsLocked(u) == lockedUntil[u] > now

\* The requests that have read account u and have not ended.
ReadersOf(u) == {r \in Requests : request[r].user = u}

At(q, pc, missed) ==
  [pc |-> pc, user |-> q.user, password |-> q.password, count |-> q.count,
   missed |-> missed]

NoteMissed(u, event) ==
  [r \in Requests |->
     LET q == request[r]
     IN IF r \in ReadersOf(u) THEN At(q, q.pc, q.missed \cup {event}) ELSE q]

\* The unique index on lower(email) refuses a second account.
Register(r, u) ==
  /\ request[r] = IdleRequest
  /\ u \notin registered
  /\ registered' = registered \cup {u}
  /\ request' = [request EXCEPT ![r] =
       [pc |-> "registered", user |-> u, password |-> 0, count |-> 0, missed |-> {}]]
  /\ UNCHANGED <<now, password, verified, failures, lastFailed, lockedUntil,
                 sessions, token, consumer, honoured, outrun>>

\* Mutant: the lock is looked at only when the password is wrong.
AnyoneMay(u) == TRUE

\* Nobody gets past a lock, whatever the password.
MayLogIn(u) == ~IsLocked(u)

\* The account is read once; all that follows relies on what was read then.
ReadAccount(r, u) ==
  /\ request[r] = IdleRequest
  /\ u \in registered
  /\ MayLogIn(u)
  /\ \E pc \in {"right", "wrong"} :
       request' = [request EXCEPT ![r] =
         [pc |-> pc, user |-> u, password |-> password[u], count |-> 0, missed |-> {}]]
  /\ UNCHANGED <<now, users, sessions, token, consumer, honoured, outrun>>

\* The first statement of recordFailedLogin.
RecordFailure(r) ==
  LET u == request[r].user
      count == failures[u] + 1
  IN /\ request[r].pc = "wrong"
     /\ count =< MaxFailures
     /\ failures' = [failures EXCEPT ![u] = count]
     /\ lastFailed' = [lastFailed EXCEPT ![u] = now]
     /\ request' = [request EXCEPT ![r] =
          IF lockoutDurationFor[count] = 0 THEN IdleRequest
          ELSE [pc |-> "failed", user |-> u, password |-> request[r].password,
                count |-> count, missed |-> request[r].missed]]
     /\ UNCHANGED <<now, registered, password, verified, lockedUntil, sessions,
                    token, consumer, honoured, outrun>>

\* The second one.  It locks for the count that the first one returned.
ApplyLock(r) ==
  LET u == request[r].user
  IN /\ request[r].pc = "failed"
     /\ lockedUntil' = [lockedUntil EXCEPT ![u] =
                          now + lockoutDurationFor[request[r].count]]
     /\ request' = [NoteMissed(u, "lock") EXCEPT ![r] = IdleRequest]
     /\ outrun' = IF request[r].count = failures[u]
                  THEN outrun \ {u} ELSE outrun \cup {u}
     /\ UNCHANGED <<now, registered, password, verified, failures, lastFailed,
                    sessions, token, consumer, honoured>>

\* Mutant: the counter is cleared and the lock stays.
ClearedCount(u) ==
  /\ failures' = [failures EXCEPT ![u] = 0]
  /\ outrun' = outrun \ {u}
  /\ UNCHANGED lockedUntil

\* clearLoginFailures of account u
Cleared(u) ==
  /\ failures' = [failures EXCEPT ![u] = 0]
  /\ lockedUntil' = [lockedUntil EXCEPT ![u] = NotLocked]
  /\ outrun' = outrun \ {u}

ClearFailures(r) ==
  /\ request[r].pc = "right"
  /\ Cleared(request[r].user)
  /\ request' = [request EXCEPT ![r] = At(@, "cleared", @.missed)]
  /\ UNCHANGED <<now, registered, password, verified, lastFailed, sessions,
                 token, consumer, honoured>>

\* An error is logged and the login goes on.
ClearingFails(r) ==
  /\ request[r].pc = "right"
  /\ request' = [request EXCEPT ![r] = At(@, "cleared", @.missed)]
  /\ UNCHANGED <<now, users, sessions, token, consumer, honoured, outrun>>

SessionOf(r) ==
  [user |-> request[r].user, password |-> request[r].password,
   expires |-> now + sessionTTL, missed |-> request[r].missed]

StartSession(r) ==
  /\ request[r].pc = "cleared"
  /\ sessions' = sessions \cup {SessionOf(r)}
  /\ request' = [request EXCEPT ![r] = IdleRequest]
  /\ UNCHANGED <<now, users, token, consumer, honoured, outrun>>

Asked(t, u, purpose) ==
  /\ token[t].pc = "new"
  /\ token' = [token EXCEPT ![t] =
       [pc |-> "asked", user |-> u, purpose |-> purpose, expires |-> 0,
        found |-> {}, along |-> {}]]

\* A registration goes on to mail a token.
StartFirstSession(r, t) ==
  /\ request[r].pc = "registered"
  /\ sessions' = sessions \cup {SessionOf(r)}
  /\ request' = [request EXCEPT ![r] = IdleRequest]
  /\ Asked(t, request[r].user, "verify_email")
  /\ UNCHANGED <<now, users, consumer, honoured, outrun>>

\* An error, a timeout or a crash ends the request where it is.
Abandon(r) ==
  /\ request[r] # IdleRequest
  /\ request' = [request EXCEPT ![r] = IdleRequest]
  /\ outrun' = IF request[r].pc = "failed" /\ request[r].count = failures[request[r].user]
               THEN outrun \cup {request[r].user} ELSE outrun
  /\ UNCHANGED <<now, users, sessions, token, consumer, honoured>>

RequestStep(r) ==
  \/ RecordFailure(r)
  \/ ApplyLock(r)
  \/ ClearFailures(r)
  \/ ClearingFails(r)
  \/ StartSession(r)
  \/ \E t \in Tokens : StartFirstSession(r, t)
  \/ Abandon(r)

-----------------------------------------------------------------------------
(* Sessions *)

IsLive(s) == s.expires > now

Logout ==
  /\ \E s \in sessions : sessions' = sessions \ {s}
  /\ UNCHANGED <<now, users, token, request, consumer, honoured, outrun>>

CleanUpSessions ==
  /\ \E s \in sessions : s.expires < now
  /\ sessions' = {s \in sessions : s.expires >= now}
  /\ UNCHANGED <<now, users, token, request, consumer, honoured, outrun>>

-----------------------------------------------------------------------------
(* Making a token *)

\* Only for one who is signed in, and whose address was not verified then.
ResendVerification(t, u) ==
  /\ \E s \in sessions : s.user = u /\ IsLive(s)
  /\ u \notin verified
  /\ Asked(t, u, "verify_email")
  /\ UNCHANGED <<now, users, sessions, request, consumer, honoured, outrun>>

ForgotPassword(t, u) ==
  /\ u \in registered
  /\ Asked(t, u, "reset_password")
  /\ UNCHANGED <<now, users, sessions, request, consumer, honoured, outrun>>

\* The row k in another state; what its UPDATE had found is forgotten.
TokenAt(k, pc) ==
  [pc |-> pc, user |-> k.user, purpose |-> k.purpose, expires |-> k.expires,
   found |-> {}, along |-> k.along]

SameUse(s, t) == token[s].user = token[t].user /\ token[s].purpose = token[t].purpose

\* Somebody is about to use token t and holds its row.
IsHeld(t) == \E c \in Consumers : consumer[c].pc = "consumed" /\ consumer[c].token = t

\* Mutant: a new token leaves the older ones as they are.
NoPrevious(t) == {}

\* What the UPDATE of issueEmailToken looks for: used_at IS NULL.
Previous(t) == {s \in Tokens : token[s].pc = "live" /\ SameUse(s, t)}

\* The UPDATE starts: a token that is stored from here on is not in its snapshot.
FindPrevious(t) ==
  /\ token[t].pc = "asked"
  /\ token' = [token EXCEPT ![t] =
       [pc |-> "clearing", user |-> token[t].user, purpose |-> token[t].purpose,
        expires |-> 0, found |-> Previous(t), along |-> {}]]
  /\ UNCHANGED <<now, users, sessions, request, consumer, honoured, outrun>>

\* It has waited for the rows that were being consumed, and marks those that are
\* still unused.  (It holds the rows it has passed while it waits for the others;
\* a consumer that waits for one finds it used, as one does that comes later here.)
InvalidatePrevious(t) ==
  /\ token[t].pc = "clearing"
  /\ \A s \in token[t].found : ~IsHeld(s)
  /\ token' = [s \in Tokens |->
       IF s = t THEN TokenAt(token[s], "cleared")
       ELSE IF s \in token[t].found /\ token[s].pc = "live" THEN TokenAt(token[s], "used")
       ELSE token[s]]
  /\ UNCHANGED <<now, users, sessions, request, consumer, honoured, outrun>>

\* The INSERT.  History: which others have started their UPDATE and not yet stored.
StoreToken(t) ==
  /\ token[t].pc = "cleared"
  /\ token' = [token EXCEPT ![t] =
       [pc |-> "live", user |-> token[t].user, purpose |-> token[t].purpose,
        expires |-> now + TTL[token[t].purpose], found |-> {},
        along |-> {s \in Tokens \ {t} : token[s].pc \in {"clearing", "cleared"}}]]
  /\ UNCHANGED <<now, users, sessions, request, consumer, honoured, outrun>>

IssueFails(t) ==
  /\ token[t].pc \in {"asked", "clearing", "cleared"}
  /\ token' = [token EXCEPT ![t] = TokenAt(@, "failed")]
  /\ UNCHANGED <<now, users, sessions, request, consumer, honoured, outrun>>

IssueStep(t) ==
  \/ \E u \in Users : ResendVerification(t, u) \/ ForgotPassword(t, u)
  \/ FindPrevious(t)
  \/ InvalidatePrevious(t)
  \/ StoreToken(t)
  \/ IssueFails(t)

-----------------------------------------------------------------------------
(* Using a token *)

\* A link that was mailed is opened; it may be old.
Begin(c, t) ==
  /\ consumer[c] = IdleConsumer
  /\ token[t].pc \in {"live", "used"}
  /\ consumer' = [consumer EXCEPT ![c] = [pc |-> "begun", token |-> t, stamp |-> now]]
  /\ UNCHANGED <<now, users, sessions, token, request, honoured, outrun>>

Usable(t, stamp) == token[t].pc = "live" /\ token[t].expires > stamp

\* Mutant: the token is looked up first and marked as used later.
NoWaiting(t) == TRUE

\* The row is free: the UPDATE waits for whoever holds it.
RowIsFree(t) == ~IsHeld(t)

Consume(c) ==
  /\ consumer[c].pc = "begun"
  /\ RowIsFree(consumer[c].token)
  /\ Usable(consumer[c].token, consumer[c].stamp)
  /\ consumer' = [consumer EXCEPT ![c] =
       [pc |-> "consumed", token |-> consumer[c].token, stamp |-> consumer[c].stamp]]
  /\ UNCHANGED <<now, users, sessions, token, request, honoured, outrun>>

TokenInvalid(c) ==
  /\ consumer[c].pc = "begun"
  /\ RowIsFree(consumer[c].token)
  /\ ~Usable(consumer[c].token, consumer[c].stamp)
  /\ consumer' = [consumer EXCEPT ![c] = IdleConsumer]
  /\ UNCHANGED <<now, users, sessions, token, request, honoured, outrun>>

\* What both transactions do when they commit.
TokenIsUsed(c) ==
  LET t == consumer[c].token
  IN /\ consumer[c].pc = "consumed"
     /\ token' = [token EXCEPT ![t] = TokenAt(@, "used")]
     /\ honoured' = [honoured EXCEPT ![t] = @ + 1]
     /\ consumer' = [consumer EXCEPT ![c] = IdleConsumer]

VerifyEmail(c) ==
  LET t == consumer[c].token
  IN /\ TokenIsUsed(c)
     /\ token[t].purpose = "verify_email"
     /\ verified' = verified \cup {token[t].user}
     /\ UNCHANGED <<now, registered, password, failures, lastFailed, lockedUntil,
                    sessions, request, outrun>>

\* Mutant: only sessions that have expired are deleted.
ExpiredEnd(u) == {s \in sessions : s.user # u \/ IsLive(s)}

\* The sessions that a reset leaves
SessionsAfterReset(u) == {s \in sessions : s.user # u}

ResetPassword(c) ==
  LET u == token[consumer[c].token].user
  IN /\ TokenIsUsed(c)
     /\ token[consumer[c].token].purpose = "reset_password"
     /\ password' = [password EXCEPT ![u] = @ + 1]
     /\ sessions' = SessionsAfterReset(u)
     /\ Cleared(u)
     /\ request' = NoteMissed(u, "reset")
     /\ UNCHANGED <<now, registered, verified, lastFailed>>

Rollback(c) ==
  /\ consumer[c] # IdleConsumer
  /\ consumer' = [consumer EXCEPT ![c] = IdleConsumer]
  /\ UNCHANGED <<now, users, sessions, token, request, honoured, outrun>>

ConsumerStep(c) ==
  \/ \E t \in Tokens : Begin(c, t)
  \/ Consume(c)
  \/ TokenInvalid(c)
  \/ VerifyEmail(c)
  \/ ResetPassword(c)
  \/ Rollback(c)

-----------------------------------------------------------------------------
Tick ==
  /\ now < MaxTime
  /\ now' = now + 1
  /\ UNCHANGED <<users, sessions, token, request, consumer, honoured, outrun>>

Next ==
  \/ \E r \in Requests, u \in Users : Register(r, u) \/ ReadAccount(r, u)
  \/ \E r \in Requests : RequestStep(r)
  \/ Logout
  \/ CleanUpSessions
  \/ \E t \in Tokens : IssueStep(t)
  \/ \E c \in Consumers : ConsumerStep(c)
  \/ Tick

Spec == Init /\ [][Next]_vars

-----------------------------------------------------------------------------
(* Properties *)

\* A token takes effect at most once, however many requests present it
\* (email_tokens.go:77).
HonouredOnce == \A t \in Tokens : honoured[t] =< 1

\* Of the tokens for one purpose of an account at most one can be used, unless
\* they were made by requests that overlapped: the one stored first was stored when
\* the other had begun to look for it, however long it waits for rows after that
\* (email_tokens.go:49).
OneLiveToken ==
  \A s, t \in Tokens :
     /\ s # t
     /\ token[s].pc = "live"
     /\ token[t].pc = "live"
     /\ SameUse(s, t)
     => s \in token[t].along \/ t \in token[s].along

\* A reset ends every session: one that was opened with an earlier password
\* belongs to a login that had read the account before the reset
\* (email_tokens.go:297, auth.go:322).
OldSessionsAreLate ==
  \A s \in sessions : s.password # password[s.user] => "reset" \in s.missed

\* When nobody is between the two statements that count a failure and lock,
\* the account is locked exactly if its failures call for it, and long enough
\* from the last one, unless a failure was counted and its lock lost or passed
\* by another's (lockout.go:85-109).
LockFollowsFailures ==
  \A u \in registered \ outrun :
     (\A r \in Requests : request[r].user = u => request[r].pc # "failed")
     => LET duration == lockoutDurationFor[failures[u]]
        IN IF duration = 0 THEN lockedUntil[u] = NotLocked
           ELSE lockedUntil[u] >= lastFailed[u] + duration

\* A lock is lifted before its time only by a reset, or by a login or a
\* failure that had read the account before the lock was set (auth.go:343).
LockIsKept(u) ==
  IsLocked(u) /\ lockedUntil'[u] < lockedUntil[u]
  => \/ password'[u] # password[u]
     \/ \E r \in ReadersOf(u) :
          "lock" \in request[r].missed /\ request'[r] # request[r]

LocksHold == [][\A u \in Users : LockIsKept(u)]_vars

=============================================================================
