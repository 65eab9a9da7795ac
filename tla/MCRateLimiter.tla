--------------------------- MODULE MCRateLimiter ----------------------------
(***************************************************************************)
(* Instances of RateLimiter for TLC: a clock of a few ticks, in which a    *)
(* bucket empties, fills, is collected and is made again.                  *)
(***************************************************************************)
EXTENDS RateLimiter, TLC

Symmetry == Permutations(Keys) \cup Permutations(Callers)

=============================================================================
