---------------------------- MODULE RateLimiter ----------------------------
(***************************************************************************)
(* middleware/ratelimit.go: every request of /api is counted under its key *)
(* (client address and route) and the minute it arrives in, by INCR on a   *)
(* Redis counter all backends share, or, when Redis does not answer, by a  *)
(* bucket in the memory of the backend that serves it.                     *)
(*                                                                         *)
(* The minute is read twice: when the name of the counter is formatted,    *)
(* before Redis is called, and under the mutex of the buckets, after Redis *)
(* has failed.  Time may pass in between, and the counter may have been    *)
(* incremented although the call failed.                                   *)
(***************************************************************************)
EXTENDS Naturals, FiniteSets

CONSTANTS
  Request,      \* the requests, each served once
  Key,          \* client address and route
  Instance,     \* the backend processes; a restarted one is another instance
  Limit,        \* requests admitted per key and window (REQUEST_LIMIT)
  Cap,          \* buckets tracked before old ones are dropped (512)
  MaxDelay,     \* windows an INCR may come after its name was formatted
  MaxWindow,    \* bound: the last window of a behaviour
  RedisEnabled  \* the instances that have a Redis client (REDIS_ADDR)

ASSUME FiniteAssumption == IsFiniteSet(Request) /\ IsFiniteSet(Key)
ASSUME LimitAssumption == Limit \in Nat \ {0} /\ Cap \in Nat \ {0}
ASSUME WindowAssumption == MaxDelay \in Nat /\ MaxWindow \in Nat \ {0}
ASSUME RedisAssumption == RedisEnabled \subseteq Instance

VARIABLES
  now,      \* the current window, a minute
  counter,  \* counter[k, w] : the Redis counter of key k and window w, 0 if none
  touched,  \* touched[k, w] : the window of its last INCR
  local,    \* local[i] : the buckets of instance i, by key
  pc,       \* pc[q] : "idle", "incr", "local" or "done"
  key,      \* key[q] : the key of request q
  host,     \* host[q] : the instance that serves it
  named,    \* named[q] : the window in the name of the counter it uses
  window,   \* window[q] : the window it was counted in
  via,      \* via[q] : what counted it, "redis" or "local"
  verdict   \* verdict[q] : "admitted" or "limited"

redisState == <<counter, touched>>
requests == <<pc, key, host, named, window, via, verdict>>
vars == <<now, redisState, local, requests>>

Window == 1..MaxWindow

\* A counter's name carries the minute and the key.
CounterName == Key \X Window

\* bucket{}: what the map holds for a key without a bucket.
NoBucket == [window |-> 0, count |-> 0]

None == "none"

Init ==
  /\ now = 1
  /\ counter = [n \in CounterName |-> 0]
  /\ touched = [n \in CounterName |-> 0]
  /\ local = [i \in Instance |-> [k \in Key |-> NoBucket]]
  /\ pc = [q \in Request |-> "idle"]
  /\ key \in [Request -> Key]
  /\ host \in [Request -> Instance]
  /\ named = [q \in Request |-> 0]
  /\ window = [q \in Request |-> 0]
  /\ via = [q \in Request |-> None]
  /\ verdict = [q \in Request |-> None]

Goto(q, label) == pc' = [pc EXCEPT ![q] = label]

Verdict(count) == IF count > Limit THEN "limited" ELSE "admitted"

Decide(q, how, w, count) ==
  /\ Goto(q, "done")
  /\ via' = [via EXCEPT ![q] = how]
  /\ window' = [window EXCEPT ![q] = w]
  /\ verdict' = [verdict EXCEPT ![q] = Verdict(count)]
  /\ UNCHANGED <<key, host, named>>

\* The name of the counter is formatted; without a client there is none.
Arrive(q) ==
  /\ pc[q] = "idle"
  /\ IF host[q] \in RedisEnabled
     THEN Goto(q, "incr") /\ named' = [named EXCEPT ![q] = now]
     ELSE Goto(q, "local") /\ UNCHANGED named
  /\ UNCHANGED <<now, redisState, local, key, host, window, via, verdict>>

-----------------------------------------------------------------------------
(* Redis.                                                                  *)

redisKey(q) == <<key[q], named[q]>>

\* A slip: the middleware is registered on the group and on its routes.
Increment_Twice(q) ==
  /\ counter' = [counter EXCEPT ![redisKey(q)] = @ + 2]
  /\ touched' = [touched EXCEPT ![redisKey(q)] = now]

\* MULTI, INCR, EXPIRE 2m, EXEC.
Increment(q) ==
  /\ counter' = [counter EXCEPT ![redisKey(q)] = @ + 1]
  /\ touched' = [touched EXCEPT ![redisKey(q)] = now]

Incr(q) ==
  /\ pc[q] = "incr"
  /\ Increment(q)
  /\ Decide(q, "redis", named[q], counter[redisKey(q)] + 1)
  /\ UNCHANGED <<now, local>>

\* The call fails, before or after Redis has run the transaction.
IncrFails(q) ==
  /\ pc[q] = "incr"
  /\ Increment(q) \/ UNCHANGED redisState
  /\ Goto(q, "local")
  /\ UNCHANGED <<now, local, key, host, named, window, via, verdict>>

\* A slip: one minute to live.
Expired_OneMinute(n) == touched[n] + 1 <= now

\* Two minutes after the last INCR, which is two windows on.
Expired(n) == touched[n] + 2 <= now

Expire(n) ==
  /\ counter[n] > 0
  /\ Expired(n)
  /\ counter' = [counter EXCEPT ![n] = 0]
  /\ UNCHANGED <<now, touched, local, requests>>

-----------------------------------------------------------------------------
(* The buckets, under the mutex.                                           *)

Tracked(buckets) == {k \in Key : buckets[k].count > 0}

\* A slip: every bucket is dropped.
cleanupLocal_All(buckets) ==
  [k \in Key |-> IF Cardinality(Tracked(buckets)) >= Cap THEN NoBucket ELSE buckets[k]]

\* A slip: no bucket is ever dropped.
cleanupLocal_Never(buckets) == buckets

\* At the cap, the buckets of earlier windows are dropped.
cleanupLocal(buckets) ==
  [k \in Key |-> IF /\ Cardinality(Tracked(buckets)) >= Cap
                    /\ buckets[k].window < now
                 THEN NoBucket
                 ELSE buckets[k]]

\* A slip: a bucket keeps its count into the next window.
Counted_NoReset(b) == [window |-> now, count |-> b.count + 1]

\* A bucket of another window starts again.
Counted(b) ==
  [window |-> now, count |-> IF b.window = now THEN b.count + 1 ELSE 1]

IncrementLocal(q) ==
  LET kept == cleanupLocal(local[host[q]])
      b    == Counted(kept[key[q]])
  IN /\ pc[q] = "local"
     /\ local' = [local EXCEPT ![host[q]] = [kept EXCEPT ![key[q]] = b]]
     /\ Decide(q, "local", now, b.count)
     /\ UNCHANGED <<now, redisState>>

-----------------------------------------------------------------------------
\* A minute passes.  The client's dial, read and write timeouts, retries
\* included, end a call to Redis well within MaxDelay windows.
Tick ==
  /\ now < MaxWindow
  /\ \A q \in Request : pc[q] = "incr" => now < named[q] + MaxDelay
  /\ now' = now + 1
  /\ UNCHANGED <<redisState, local, requests>>

Serve(q) ==
  \/ Arrive(q)
  \/ Incr(q)
  \/ IncrFails(q)
  \/ IncrementLocal(q)

\* The requests are served and the windows over.
Terminating ==
  /\ now = MaxWindow
  /\ \A q \in Request : pc[q] = "done"
  /\ UNCHANGED vars

Next ==
  \/ \E q \in Request : Serve(q)
  \/ \E n \in CounterName : Expire(n)
  \/ Tick
  \/ Terminating

Spec == Init /\ [][Next]_vars

-----------------------------------------------------------------------------
(* Properties.                                                             *)

Bucket == [window : 0..MaxWindow, count : 0..Cardinality(Request)]

(***************************************************************************)
(* Counters and buckets never count more than there were requests, and an  *)
(* answer names the window and backend that counted it.                    *)
(***************************************************************************)
TypeOK ==
  /\ now \in Window
  /\ counter \in [CounterName -> 0..Cardinality(Request)]
  /\ touched \in [CounterName -> 0..MaxWindow]
  /\ local \in [Instance -> [Key -> Bucket]]
  /\ pc \in [Request -> {"idle", "incr", "local", "done"}]
  /\ key \in [Request -> Key]
  /\ host \in [Request -> Instance]
  /\ named \in [Request -> 0..MaxWindow]
  /\ window \in [Request -> 0..MaxWindow]
  /\ via \in [Request -> {None, "redis", "local"}]
  /\ verdict \in [Request -> {None, "admitted", "limited"}]

\* The requests of key k that were answered v by how in window w.
Answered(k, w, how, v) ==
  {q \in Request : key[q] = k /\ window[q] = w /\ via[q] = how /\ verdict[q] = v}

\* Those that instance i admitted without Redis.
AdmittedBy(i, k, w) == {q \in Answered(k, w, "local", "admitted") : host[q] = i}

(***************************************************************************)
(* Redis admits at most Limit requests of a key per window over all        *)
(* backends, also when an INCR comes in the minute after its name was      *)
(* formatted and its counter has a time to live.                           *)
(***************************************************************************)
SharedLimit ==
  \A k \in Key, w \in Window :
    Cardinality(Answered(k, w, "redis", "admitted")) <= Limit

(***************************************************************************)
(* Without Redis, each backend admits at most Limit requests of a key per  *)
(* window, also when buckets are dropped at the cap in the meantime.       *)
(***************************************************************************)
LocalLimit ==
  \A i \in Instance, k \in Key, w \in Window :
    Cardinality(AdmittedBy(i, k, w)) <= Limit

(***************************************************************************)
(* The limiter is a quota for each counter in Redis and each key and window*)
(* of a backend: what was admitted grows one by one up to Limit, and       *)
(* nothing that time or failures do makes room again.                      *)
(***************************************************************************)
Meter == {<<"redis", k, w>> : k \in Key, w \in Window}
           \cup {<<"local", i, k, w>> : i \in Instance, k \in Key, w \in Window}

MeterOf(q) == IF via[q] = "redis" THEN <<"redis", key[q], window[q]>>
                                  ELSE <<"local", host[q], key[q], window[q]>>

Granted == [q \in Request |-> IF verdict[q] = "admitted" THEN MeterOf(q) ELSE <<>>]

AsQuota == INSTANCE Quota WITH Taker <- Request, Nothing <- <<>>, granted <- Granted

Implements == AsQuota!Spec

(***************************************************************************)
(* A request is refused only when its key is over the limit in its window: *)
(* one answered 429 has at least Limit others of its key that Redis, or its*)
(* own backend, was to count in that window, failed calls among them.      *)
(***************************************************************************)
RefusedOnlyOver ==
  \A q \in Request :
    verdict[q] = "limited" =>
      Limit <= Cardinality({p \in Request \ {q} :
                 /\ key[p] = key[q]
                 /\ \/ via[q] = "redis" /\ named[p] = window[q]
                    \/ via[q] = "local" /\ via[p] = "local"
                         /\ host[p] = host[q] /\ window[p] = window[q]})

(***************************************************************************)
(* The map outgrows its cap only with keys of one window: what is dropped  *)
(* at the cap is enough to keep it from growing over time.                 *)
(***************************************************************************)
MapBounded ==
  \A i \in Instance :
    Cardinality(Tracked(local[i])) > Cap =>
      \A k, l \in Tracked(local[i]) : local[i][k].window = local[i][l].window
=============================================================================
