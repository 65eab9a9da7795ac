------------------------------- MODULE Escrow -------------------------------
(***************************************************************************)
(* What the marketplace promises, with no transactions, locks or sweeps:   *)
(* lenders put money behind a listing, the money is held until the target  *)
(* is reached, and then it is either all paid out or, when the listing     *)
(* fails, all returned to the lenders who gave it.  Every step is atomic.  *)
(*                                                                         *)
(* Marketplace.tla implements this module: see Marketplace!EscrowSpec.     *)
(***************************************************************************)
EXTENDS Integers, Functions

CONSTANTS Users,        \* lenders and borrowers
          Apps,         \* applications, each with at most one listing
          Keys,         \* client request ids
          Target,       \* [Apps -> amount asked for]
          InitBalance,  \* [Users -> balance at the start]
          TopUps        \* amounts that can be added from outside

VARIABLES wallet,  \* [Users -> spendable balance]
          pledge,  \* [Apps \X Users \X Keys -> amount held or paid out]
          stage    \* [Apps -> "none", "raising", "paid" or "returned"]

vars == <<wallet, pledge, stage>>

Pledges == Apps \X Users \X Keys
PledgesOf(a) == {i \in Pledges : i[1] = a}
PledgesBy(a, u) == {i \in Pledges : i[1] = a /\ i[2] = u}

Raised(a) == SumFunctionOnSet(pledge, PledgesOf(a))

Init == /\ wallet = InitBalance
        /\ pledge = [i \in Pledges |-> 0]
        /\ stage = [a \in Apps |-> "none"]

Open(a) == /\ stage[a] = "none"
           /\ stage' = [stage EXCEPT ![a] = "raising"]
           /\ UNCHANGED <<wallet, pledge>>

\* A pledge takes the money from the lender's wallet; the one that reaches the
\* target pays the borrower in the same step.
Pledge(a, u, k, x) ==
  /\ stage[a] = "raising"
  /\ pledge[<<a, u, k>>] = 0
  /\ x <= wallet[u]
  /\ Raised(a) + x <= Target[a]
  /\ wallet' = [wallet EXCEPT ![u] = @ - x]
  /\ pledge' = [pledge EXCEPT ![<<a, u, k>>] = x]
  /\ stage' = [stage EXCEPT ![a] = IF Raised(a) + x = Target[a] THEN "paid" ELSE @]

\* A failed listing gives every lender back exactly what that lender put in.
Return(a) ==
  /\ stage[a] = "raising"
  /\ wallet' = [u \in Users |->
        wallet[u] + SumFunctionOnSet(pledge, PledgesBy(a, u))]
  /\ pledge' = [i \in Pledges |-> IF i[1] = a THEN 0 ELSE pledge[i]]
  /\ stage' = [stage EXCEPT ![a] = "returned"]

Deposit(u, x) == /\ wallet' = [wallet EXCEPT ![u] = @ + x]
                 /\ UNCHANGED <<pledge, stage>>

Next == \/ \E a \in Apps : \/ Open(a)
                           \/ Return(a)
                           \/ \E u \in Users, k \in Keys, x \in 1..Target[a] : Pledge(a, u, k, x)
        \/ \E u \in Users, x \in TopUps : Deposit(u, x)

Spec == Init /\ [][Next]_vars

=============================================================================
