---------------------------- MODULE TokenBucket -----------------------------
(***************************************************************************)
(* What a rate limiter promises, whatever it stores: each source has a     *)
(* credit that grows with time up to a limit, and every request that is    *)
(* allowed costs some of it.  Credit may be lost.  A credit that is within *)
(* Slack of the limit may count as full.                                   *)
(***************************************************************************)
EXTENDS Integers

CONSTANTS Keys,   \* sources
          Full,   \* the limit of a credit
          Cost,   \* of one request
          Rate,   \* what a credit grows by in a tick
          Slack

VARIABLES credit, allowed

TypeOK == credit \in [Keys -> 0..Full] /\ allowed \in [Keys -> Nat]

Init == credit = [k \in Keys |-> Full] /\ allowed = [k \in Keys |-> 0]

\* One request is answered, or none: granted holds its source if it is allowed.
Serve ==
  \E granted \in SUBSET Keys :
    /\ \A j, k \in granted : j = k
    /\ allowed' \in [Keys -> Nat]
    /\ credit' \in [Keys -> 0..Full]
    /\ \A k \in Keys :
         /\ allowed'[k] = allowed[k] + IF k \in granted THEN 1 ELSE 0
         /\ credit'[k] + (IF k \in granted THEN Cost ELSE 0)
              =< IF credit[k] + Slack >= Full THEN Full ELSE credit[k]

Grow ==
  /\ credit' \in [Keys -> 0..Full]
  /\ \A k \in Keys : credit'[k] =< credit[k] + Rate
  /\ UNCHANGED allowed

Next == Serve \/ Grow

Spec == Init /\ [][Next]_<<credit, allowed>>

=============================================================================
