--------------------------- MODULE MCRateLimiter ---------------------------
(***************************************************************************)
(* RateLimiter for TLC: requests and keys are interchangeable, and so are  *)
(* instances that all have Redis, or all have not.                         *)
(***************************************************************************)
EXTENDS RateLimiter, TLC

Symmetry == Permutations(Request) \cup Permutations(Key)
            \cup Permutations(RedisEnabled) \cup Permutations(Instance \ RedisEnabled)
=============================================================================
