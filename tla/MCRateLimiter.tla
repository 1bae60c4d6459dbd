---------------------------- MODULE MCRateLimiter ----------------------------
(* Instances of RateLimiter. *)
EXTENDS RateLimiter, TLC

CONSTANTS k1, k2

Limits  == [k \in Key |-> 1]
Windows == [k \in Key |-> 1]

Symmetry == Permutations(Call) \cup Permutations(Worker)
=============================================================================
