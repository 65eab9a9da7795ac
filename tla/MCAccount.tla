----------------------------- MODULE MCAccount ------------------------------
(***************************************************************************)
(* Small instances of Account.                                             *)
(***************************************************************************)
EXTENDS Account, TLC

A == INSTANCE Arithmetic

\* The times of lockout.go: none below five failures, then never shorter after more
\* failures (what Account assumes of them), and never more than a day.
ASSUME LocksGrow ==
  \A n \in 0..60 : /\ A!LockDuration(n) <= A!LockDuration(n + 1)
                   /\ A!LockDuration(n) <= A!maxLockoutDuration
                   /\ A!LockDuration(n) = 0 <=> n < 5

\* One failure is free; the second locks for one tick, the third for two.
ShortLocks == [n \in 0..MaxFailures |-> IF n = 0 THEN 0 ELSE n - 1]

LoginSymmetry == Permutations(Requests)
TokenSymmetry == Permutations(Consumers) \cup Permutations(Tokens)

=============================================================================
