---------------------------- MODULE MC_RateLimiter ----------------------------
(* A TLC instance of RateLimiter: two callers sharing one key.             *)
EXTENDS RateLimiter, TLC

CONSTANTS c1, c2

MCCallers == {c1, c2}

MCSymmetry == Permutations(MCCallers)
=============================================================================
