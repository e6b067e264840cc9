------------------------------- MODULE Quota -------------------------------
(***************************************************************************)
(* What a limit promises: a meter grants to one taker after the other, to  *)
(* at most Limit of them, and never takes a grant back.  RateLimiter is    *)
(* shown to implement it, with a meter per key and window in Redis, and in *)
(* each backend that counts by itself.                                     *)
(***************************************************************************)
EXTENDS Naturals, FiniteSets

CONSTANTS Meter, Taker, Limit, Nothing

VARIABLE granted  \* granted[t] : the meter that granted to t, or Nothing

Init == granted = [t \in Taker |-> Nothing]

Grant(m, t) ==
  /\ granted[t] = Nothing
  /\ Cardinality({u \in Taker : granted[u] = m}) < Limit
  /\ granted' = [granted EXCEPT ![t] = m]

Next == \E m \in Meter, t \in Taker : Grant(m, t)

Spec == Init /\ [][Next]_granted
=============================================================================
