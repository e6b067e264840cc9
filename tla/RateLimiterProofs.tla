------------------------- MODULE RateLimiterProofs -------------------------
(***************************************************************************)
(* The guarantees of the rate limiter for any requests, keys, instances,   *)
(* limits and windows.  The argument counts requests: a counter or bucket  *)
(* that is still in use is no less than the number of requests admitted by *)
(* it, and no more than the number of requests that have come to it.       *)
(***************************************************************************)
EXTENDS RateLimiter, FiniteSetTheorems, TLAPS

-----------------------------------------------------------------------------
(* The inductive invariant.                                                *)

\* The types of the variables, with counts that are not bounded yet.
Typed ==
  /\ now \in Window
  /\ counter \in [CounterName -> Nat]
  /\ touched \in [CounterName -> 0..MaxWindow]
  /\ local \in [Instance -> [Key -> [window : 0..MaxWindow, count : Nat]]]
  /\ pc \in [Request -> {"idle", "incr", "local", "done"}]
  /\ key \in [Request -> Key]
  /\ host \in [Request -> Instance]
  /\ named \in [Request -> 0..MaxWindow]
  /\ window \in [Request -> 0..MaxWindow]
  /\ via \in [Request -> {None, "redis", "local"}]
  /\ verdict \in [Request -> {None, "admitted", "limited"}]

\* How far a request is, and what it has by then.
RequestInv ==
  \A q \in Request :
    /\ named[q] <= now /\ window[q] <= now
    /\ pc[q] = "incr" => named[q] \in Window /\ now <= named[q] + MaxDelay
    /\ pc[q] = "idle" => named[q] = 0
    /\ pc[q] # "done" => via[q] = None /\ verdict[q] = None
    /\ pc[q] = "done" => /\ via[q] \in {"redis", "local"} /\ window[q] \in Window
                         /\ verdict[q] \in {"admitted", "limited"}
    /\ via[q] = "redis" => window[q] = named[q]

\* The requests that have called Redis on counter n.
Callers(n) ==
  {q \in Request : key[q] = n[1] /\ named[q] = n[2] /\ pc[q] \in {"local", "done"}}

\* A counter counts callers only, and is alive while it may be incremented.
CounterInv ==
  \A n \in CounterName :
    /\ counter[n] <= Cardinality(Callers(n))
    /\ touched[n] <= now
    /\ counter[n] > 0 => n[2] <= touched[n]

\* The requests counted in bucket k of instance i in window w.
Bucketed(i, k, w) ==
  {q \in Request : via[q] = "local" /\ host[q] = i /\ key[q] = k /\ window[q] = w}

BucketInv ==
  \A i \in Instance, k \in Key :
    /\ local[i][k].window <= now
    /\ local[i][k].count > 0 => local[i][k].window \in Window
    /\ local[i][k].count <= Cardinality(Bucketed(i, k, local[i][k].window))

\* What Redis admitted is counted as long as an INCR may come, which has to
\* be no later than in the minute after its counter was named.
SharedInv ==
  \A n \in CounterName :
    \/ n[2] + 2 <= now
    \/ Cardinality(Answered(n[1], n[2], "redis", "admitted")) <= counter[n]

\* What an instance admitted in this window is in its bucket.
LocalInv ==
  \A i \in Instance, k \in Key :
    Cardinality(AdmittedBy(i, k, now))
      <= IF local[i][k].window = now THEN local[i][k].count ELSE 0

LInv ==
  /\ Typed /\ RequestInv /\ CounterInv /\ BucketInv /\ LocalInv
  /\ MaxDelay <= 1 => SharedInv

-----------------------------------------------------------------------------
(* Counting requests.                                                      *)

LEMMA CardNat ==
  ASSUME NEW S \in SUBSET Request
  PROVE  IsFiniteSet(S) /\ Cardinality(S) \in Nat
<1>1. IsFiniteSet(S)
  BY FiniteAssumption, FS_Subset
<1> QED
  BY <1>1, FS_CardinalityType

LEMMA CardSubset ==
  ASSUME NEW T \in SUBSET Request, NEW S \in SUBSET T
  PROVE  Cardinality(S) <= Cardinality(T)
  BY CardNat, FS_Subset

LEMMA CardAdd ==
  ASSUME NEW S \in SUBSET Request, NEW q \in Request, q \notin S
  PROVE  Cardinality(S \cup {q}) = Cardinality(S) + 1
  BY CardNat, FS_AddElement

LEMMA Sets ==
  /\ \A k, w, how, v : Answered(k, w, how, v) \in SUBSET Request
  /\ \A i, k, w : AdmittedBy(i, k, w) \in SUBSET Request
  /\ \A i, k, w : Bucketed(i, k, w) \in SUBSET Request
  /\ \A n : Callers(n) \in SUBSET Request
  BY DEF Answered, AdmittedBy, Bucketed, Callers

\* Steps that answer nobody leave the sets of answered requests alone.
LEMMA AnswersKept ==
  ASSUME UNCHANGED <<key, host, window, via, verdict>>
  PROVE  /\ \A k, w, how, v : Answered(k, w, how, v)' = Answered(k, w, how, v)
         /\ \A i, k, w : AdmittedBy(i, k, w)' = AdmittedBy(i, k, w)
         /\ \A i, k, w : Bucketed(i, k, w)' = Bucketed(i, k, w)
  BY DEF Answered, AdmittedBy, Bucketed

\* Once a request has called Redis, it is a caller for good.
LEMMA CallersGrow ==
  ASSUME UNCHANGED <<key>>, NEW n,
         \A q \in Request : pc[q] \in {"local", "done"} =>
           pc'[q] \in {"local", "done"} /\ named'[q] = named[q]
  PROVE  Cardinality(Callers(n)) <= Cardinality(Callers(n)')
<1>1. Callers(n) \subseteq Callers(n)'
  BY DEF Callers
<1>2. Callers(n)' \in SUBSET Request
  BY DEF Callers
<1> QED
  BY <1>1, <1>2, CardSubset

-----------------------------------------------------------------------------
(* Every step keeps the invariant.                                         *)

LEMMA InitLInv == Init => LInv
<1> SUFFICES ASSUME Init PROVE LInv
  OBVIOUS
<1>1. 1 \in Window /\ 0 \in 0..MaxWindow
  BY WindowAssumption DEF Window
<1>2. Typed
  BY <1>1 DEF Init, Typed, NoBucket
<1>3. RequestInv
  BY <1>1 DEF Init, RequestInv
<1>4. CounterInv
  <2> SUFFICES ASSUME NEW n \in CounterName
               PROVE  /\ counter[n] <= Cardinality(Callers(n))
                      /\ touched[n] <= now
                      /\ counter[n] > 0 => n[2] <= touched[n]
    BY DEF CounterInv
  <2>1. counter[n] = 0 /\ touched[n] = 0 /\ now = 1
    BY DEF Init
  <2>2. Cardinality(Callers(n)) \in Nat
    BY Sets, CardNat
  <2> QED
    BY <2>1, <2>2
<1>5. BucketInv
  <2> SUFFICES ASSUME NEW i \in Instance, NEW k \in Key
               PROVE  /\ local[i][k].window <= now
                      /\ local[i][k].count > 0 => local[i][k].window \in Window
                      /\ local[i][k].count
                           <= Cardinality(Bucketed(i, k, local[i][k].window))
    BY DEF BucketInv
  <2>1. local[i][k].window = 0 /\ local[i][k].count = 0 /\ now = 1
    BY DEF Init, NoBucket
  <2>2. Cardinality(Bucketed(i, k, local[i][k].window)) \in Nat
    BY Sets, CardNat
  <2> QED
    BY <2>1, <2>2
<1>6. /\ \A k, w : Answered(k, w, "redis", "admitted") = {}
      /\ \A i, k, w : AdmittedBy(i, k, w) = {}
  BY DEF Init, Answered, AdmittedBy, None
<1>7. SharedInv
  <2>1. \A n \in CounterName : counter[n] = 0
    BY DEF Init
  <2> QED
    BY <1>6, <2>1, FS_EmptySet DEF SharedInv
<1>8. LocalInv
  <2>1. \A i \in Instance, k \in Key : local[i][k].count = 0
    BY DEF Init, NoBucket
  <2> QED
    BY <1>6, <2>1, FS_EmptySet DEF LocalInv
<1> QED
  BY <1>2, <1>3, <1>4, <1>5, <1>7, <1>8 DEF LInv

\* More callers only make room below the counters.
LEMMA CounterKept ==
  ASSUME LInv, UNCHANGED <<now, counter, touched, key>>,
         \A q \in Request : pc[q] \in {"local", "done"} =>
           pc'[q] \in {"local", "done"} /\ named'[q] = named[q]
  PROVE  CounterInv'
<1> SUFFICES ASSUME NEW n \in CounterName
             PROVE  /\ counter[n] <= Cardinality(Callers(n)')
                    /\ touched[n] <= now
                    /\ counter[n] > 0 => n[2] <= touched[n]
  BY DEF CounterInv
<1>1. Cardinality(Callers(n)) <= Cardinality(Callers(n)')
  BY CallersGrow
<1>2. Callers(n) \in SUBSET Request /\ Callers(n)' \in SUBSET Request
  BY DEF Callers
<1>3. Cardinality(Callers(n)) \in Nat /\ Cardinality(Callers(n)') \in Nat
  BY <1>2, CardNat
<1>4. counter[n] \in Nat
  BY DEF LInv, Typed
<1> QED
  BY <1>1, <1>3, <1>4 DEF LInv, CounterInv

LEMMA ArriveLInv ==
  ASSUME LInv, NEW q \in Request, Arrive(q)
  PROVE  LInv'
<1> USE DEF LInv
<1>1. UNCHANGED <<now, counter, touched, local, key, host, window, via, verdict>>
  BY DEF Arrive, redisState
<1>a. /\ pc[q] = "idle"
      /\ \/ pc' = [pc EXCEPT ![q] = "incr"] /\ named' = [named EXCEPT ![q] = now]
         \/ pc' = [pc EXCEPT ![q] = "local"] /\ named' = named
  BY DEF Arrive, Goto
<1>b. now \in Window /\ now \in Nat /\ now \in 0..MaxWindow
  BY WindowAssumption DEF Typed, Window
<1>2. Typed'
  <2>1. pc' \in [Request -> {"idle", "incr", "local", "done"}]
    BY <1>a DEF Typed
  <2>2. named' \in [Request -> 0..MaxWindow]
    BY <1>a, <1>b DEF Typed
  <2> QED
    BY <1>1, <2>1, <2>2 DEF Typed
<1>3. RequestInv'
  <2> SUFFICES ASSUME NEW p \in Request
               PROVE  /\ named'[p] <= now
                      /\ pc'[p] = "incr" => named'[p] \in Window /\ now <= named'[p] + MaxDelay
                      /\ pc'[p] = "idle" => named'[p] = 0
                      /\ pc'[p] # "done" => via[p] = None /\ verdict[p] = None
                      /\ pc'[p] = "done" => pc[p] = "done"
                      /\ via[p] = "redis" => named'[p] = named[p]
    BY <1>1 DEF RequestInv
  <2>1. CASE p = q
    BY <1>a, <1>b, <2>1, WindowAssumption DEF Typed, RequestInv, None
  <2>2. CASE p # q
    BY <1>a, <2>2 DEF Typed, RequestInv
  <2> QED
    BY <2>1, <2>2
<1>4. \A p \in Request : pc[p] \in {"local", "done"} =>
        pc'[p] \in {"local", "done"} /\ named'[p] = named[p]
  BY DEF Arrive, Goto, Typed
<1>5. CounterInv'
  BY <1>1, <1>4, CounterKept
<1>6. BucketInv' /\ (MaxDelay <= 1 => SharedInv') /\ LocalInv'
  BY <1>1, AnswersKept DEF BucketInv, SharedInv, LocalInv
<1> QED
  BY <1>2, <1>3, <1>5, <1>6

\* One INCR of the counter that request q has named.
LEMMA IncrementCounter ==
  ASSUME LInv, NEW q \in Request, pc[q] = "incr", Increment(q),
         pc' = [pc EXCEPT ![q] = "local"] \/ pc' = [pc EXCEPT ![q] = "done"],
         UNCHANGED <<now, key, named>>
  PROVE  CounterInv'
<1> USE DEF LInv
<1> DEFINE m == redisKey(q)
<1>1. m \in CounterName /\ m[1] = key[q] /\ m[2] = named[q] /\ named[q] <= now
  BY DEF redisKey, CounterName, RequestInv, Typed
<1>2. /\ counter'[m] = counter[m] + 1 /\ touched'[m] = now
      /\ \A n \in CounterName \ {m} : counter'[n] = counter[n] /\ touched'[n] = touched[n]
  BY <1>1 DEF Increment, Typed
<1>3. \A p \in Request : pc[p] \in {"local", "done"} =>
        pc'[p] \in {"local", "done"} /\ named'[p] = named[p]
  BY DEF Typed
<1> SUFFICES ASSUME NEW n \in CounterName
             PROVE  /\ counter'[n] <= Cardinality(Callers(n)')
                    /\ touched'[n] <= now
                    /\ counter'[n] > 0 => n[2] <= touched'[n]
  BY DEF CounterInv
<1>4. Callers(n) \in SUBSET Request /\ Callers(n)' \in SUBSET Request
  BY DEF Callers
<1>5. Cardinality(Callers(n)) \in Nat /\ Cardinality(Callers(n)') \in Nat
  BY <1>4, CardNat
<1>6. counter[n] \in Nat /\ touched[n] \in Nat /\ now \in Nat
  BY DEF Typed, Window
<1>7. counter[n] <= Cardinality(Callers(n)) /\ touched[n] <= now
      /\ (counter[n] > 0 => n[2] <= touched[n])
  BY DEF CounterInv
<1>8. CASE n = m
  <2>1. q \notin Callers(n)
    BY DEF Callers
  <2>2. Callers(n) \cup {q} \subseteq Callers(n)'
    BY <1>1, <1>3, <1>8 DEF Callers, Typed
  <2>3. Cardinality(Callers(n)) + 1 <= Cardinality(Callers(n)')
    <3> DEFINE C == Callers(n)  D == Callers(n)'
    <3>1. Cardinality(C \cup {q}) = Cardinality(C) + 1
      BY <1>4, <2>1, CardAdd
    <3>2. Cardinality(C \cup {q}) <= Cardinality(D)
      BY <1>4, <2>2, CardSubset
    <3> QED
      BY <3>1, <3>2
  <2> QED
    BY <1>1, <1>2, <1>5, <1>6, <1>7, <1>8, <2>3
<1>9. CASE n # m
  <2>1. Cardinality(Callers(n)) <= Cardinality(Callers(n)')
    BY <1>3, CallersGrow
  <2> QED
    BY <1>2, <1>5, <1>6, <1>7, <1>9, <2>1
<1> QED
  BY <1>8, <1>9

LEMMA IncrFailsLInv ==
  ASSUME LInv, NEW q \in Request, IncrFails(q)
  PROVE  LInv'
<1> USE DEF LInv
<1>1. UNCHANGED <<now, local, key, host, named, window, via, verdict>>
  BY DEF IncrFails
<1>2. pc[q] = "incr" /\ pc' = [pc EXCEPT ![q] = "local"]
  BY DEF IncrFails, Goto
<1>3. redisKey(q) \in CounterName /\ named[q] <= now
  BY <1>2 DEF redisKey, CounterName, RequestInv, Typed
<1>4. Typed'
  <2>1. counter' \in [CounterName -> Nat] /\ touched' \in [CounterName -> 0..MaxWindow]
    <3>1. CASE Increment(q)
      <4>1. now \in 0..MaxWindow
        BY WindowAssumption DEF Typed, Window
      <4> QED
        BY <1>3, <3>1, <4>1 DEF Increment, Typed
    <3>2. CASE UNCHANGED redisState
      BY <3>2 DEF redisState, Typed
    <3> QED
      BY <3>1, <3>2 DEF IncrFails
  <2> QED
    BY <1>1, <1>2, <2>1 DEF Typed
<1>5. RequestInv'
  BY <1>1, <1>2 DEF RequestInv, Typed
<1>6. CounterInv'
  <2>1. CASE Increment(q)
    BY <1>1, <1>2, <2>1, IncrementCounter
  <2>2. CASE UNCHANGED redisState
    <3>1. \A p \in Request : pc[p] \in {"local", "done"} =>
            pc'[p] \in {"local", "done"} /\ named'[p] = named[p]
      BY <1>1, <1>2 DEF Typed
    <3> QED
      BY <1>1, <2>2, <3>1, CounterKept DEF redisState
  <2> QED
    BY <2>1, <2>2 DEF IncrFails
<1>7. BucketInv' /\ LocalInv'
  BY <1>1, AnswersKept DEF BucketInv, LocalInv
<1>8. ASSUME SharedInv PROVE SharedInv'
  <2> SUFFICES ASSUME NEW n \in CounterName, ~ n[2] + 2 <= now
               PROVE  Cardinality(Answered(n[1], n[2], "redis", "admitted")) <= counter'[n]
    BY <1>1, AnswersKept DEF SharedInv
  <2>1. Cardinality(Answered(n[1], n[2], "redis", "admitted")) <= counter[n]
    BY <1>8 DEF SharedInv
  <2>2. Cardinality(Answered(n[1], n[2], "redis", "admitted")) \in Nat
    BY Sets, CardNat
  <2>3. counter[n] \in Nat /\ counter'[n] \in {counter[n], counter[n] + 1}
    BY <1>3 DEF IncrFails, Increment, Typed, redisState
  <2> QED
    BY <2>1, <2>2, <2>3
<1> QED
  BY <1>4, <1>5, <1>6, <1>7, <1>8

LEMMA ExpireLInv ==
  ASSUME LInv, NEW m \in CounterName, Expire(m)
  PROVE  LInv'
<1> USE DEF LInv
<1>1. /\ UNCHANGED <<now, touched, local, pc, key, host, named, window, via, verdict>>
      /\ counter' = [counter EXCEPT ![m] = 0] /\ counter[m] > 0 /\ touched[m] + 2 <= now
  BY DEF Expire, Expired, requests
<1>2. Typed'
  BY <1>1 DEF Typed
<1>3. RequestInv'
  BY <1>1 DEF RequestInv
<1>4. BucketInv' /\ LocalInv'
  BY <1>1, AnswersKept DEF BucketInv, LocalInv
<1>5. CounterInv'
  <2> SUFFICES ASSUME NEW n \in CounterName
               PROVE  /\ counter'[n] <= Cardinality(Callers(n))
                      /\ touched[n] <= now
                      /\ counter'[n] > 0 => n[2] <= touched[n]
    BY <1>1 DEF CounterInv, Callers
  <2>1. Cardinality(Callers(n)) \in Nat
    BY Sets, CardNat
  <2>2. counter'[n] = 0 \/ counter'[n] = counter[n]
    BY <1>1 DEF Typed
  <2>3. counter[n] <= Cardinality(Callers(n)) /\ touched[n] <= now
        /\ (counter[n] > 0 => n[2] <= touched[n])
    BY DEF CounterInv
  <2> QED
    BY <2>1, <2>2, <2>3
<1>6. ASSUME SharedInv PROVE SharedInv'
  <2> SUFFICES ASSUME NEW n \in CounterName, ~ n[2] + 2 <= now
               PROVE  Cardinality(Answered(n[1], n[2], "redis", "admitted")) <= counter'[n]
    BY <1>1, AnswersKept DEF SharedInv
  <2>1. m[2] <= touched[m] /\ m[2] \in Nat /\ touched[m] \in Nat /\ now \in Nat
    BY <1>1 DEF CounterInv, Typed, CounterName, Window
  <2>2. m[2] + 2 <= now
    BY <1>1, <2>1
  <2>3. n # m
    BY <2>2
  <2> QED
    BY <1>1, <1>6, <2>3 DEF SharedInv, Typed
<1> QED
  BY <1>2, <1>3, <1>4, <1>5, <1>6

LEMMA TickLInv ==
  ASSUME LInv, Tick
  PROVE  LInv'
<1> USE DEF LInv
<1>1. /\ UNCHANGED <<counter, touched, local, pc, key, host, named, window, via, verdict>>
      /\ now' = now + 1 /\ now < MaxWindow
      /\ \A q \in Request : pc[q] = "incr" => now < named[q] + MaxDelay
  BY DEF Tick, requests, redisState
<1>2. now \in Nat /\ now' \in Window /\ now <= now'
  BY <1>1, WindowAssumption DEF Typed, Window
<1>3. Typed'
  BY <1>1, <1>2 DEF Typed
<1>4. RequestInv'
  BY <1>1, <1>2, WindowAssumption DEF RequestInv, Typed
<1>5. CounterInv'
  <2>1. \A n : Callers(n)' = Callers(n)
    BY <1>1 DEF Callers
  <2>2. \A n \in CounterName : touched[n] \in Nat
    BY DEF Typed
  <2> QED
    BY <1>1, <1>2, <2>1, <2>2 DEF CounterInv
<1>6. BucketInv'
  BY <1>1, <1>2, AnswersKept DEF BucketInv, Typed
<1>7. ASSUME SharedInv PROVE SharedInv'
  <2>1. \A n \in CounterName : n[2] \in Nat
    BY DEF CounterName, Window
  <2> QED
    BY <1>1, <1>2, <1>7, <2>1, AnswersKept DEF SharedInv
<1>8. LocalInv'
  <2> SUFFICES ASSUME NEW i \in Instance, NEW k \in Key
               PROVE  Cardinality(AdmittedBy(i, k, now + 1)) <= 0 /\ local[i][k].window # now + 1
    BY <1>1, AnswersKept DEF LocalInv
  <2>1. AdmittedBy(i, k, now + 1) = {}
    BY <1>2 DEF AdmittedBy, Answered, RequestInv, Typed
  <2>2. local[i][k].window <= now /\ local[i][k].window \in Nat
    BY DEF BucketInv, Typed
  <2> QED
    BY <1>2, <2>1, <2>2, FS_EmptySet
<1> QED
  BY <1>3, <1>4, <1>5, <1>6, <1>7, <1>8

-----------------------------------------------------------------------------
(* Requests that are answered.                                             *)

LEMMA DecideRequest ==
  ASSUME LInv, NEW q \in Request, pc[q] \in {"incr", "local"},
         NEW how \in {"redis", "local"}, NEW w \in Window, w <= now, NEW count,
         how = "redis" => w = named[q],
         Decide(q, how, w, count), now' = now
  PROVE  /\ pc' \in [Request -> {"idle", "incr", "local", "done"}]
         /\ window' \in [Request -> 0..MaxWindow]
         /\ via' \in [Request -> {None, "redis", "local"}]
         /\ verdict' \in [Request -> {None, "admitted", "limited"}]
         /\ RequestInv'
<1> USE DEF LInv
<1>1. /\ pc' = [pc EXCEPT ![q] = "done"] /\ via' = [via EXCEPT ![q] = how]
      /\ window' = [window EXCEPT ![q] = w]
      /\ verdict' = [verdict EXCEPT ![q] = Verdict(count)]
      /\ UNCHANGED <<key, host, named>>
  BY DEF Decide, Goto
<1>2. Verdict(count) \in {"admitted", "limited"}
  BY DEF Verdict
<1>3. w \in 0..MaxWindow
  BY WindowAssumption DEF Window
<1>4. /\ pc' \in [Request -> {"idle", "incr", "local", "done"}]
      /\ window' \in [Request -> 0..MaxWindow]
      /\ via' \in [Request -> {None, "redis", "local"}]
      /\ verdict' \in [Request -> {None, "admitted", "limited"}]
  BY <1>1, <1>2, <1>3 DEF Typed
<1>5. RequestInv'
  <2> SUFFICES ASSUME NEW p \in Request
               PROVE  /\ named[p] <= now /\ window'[p] <= now
                      /\ pc'[p] = "incr" => pc[p] = "incr"
                      /\ pc'[p] = "idle" => pc[p] = "idle"
                      /\ pc'[p] # "done" => via'[p] = None /\ verdict'[p] = None
                      /\ pc'[p] = "done" =>
                           /\ via'[p] \in {"redis", "local"} /\ window'[p] \in Window
                           /\ verdict'[p] \in {"admitted", "limited"}
                      /\ via'[p] = "redis" => window'[p] = named[p]
    BY <1>1 DEF RequestInv
  <2>1. CASE p = q
    BY <1>1, <1>2, <2>1 DEF Typed, RequestInv
  <2>2. CASE p # q
    BY <1>1, <2>2 DEF Typed, RequestInv
  <2> QED
    BY <2>1, <2>2
<1> QED
  BY <1>4, <1>5

LEMMA DecideSets ==
  ASSUME LInv, NEW q \in Request, pc[q] # "done",
         NEW how \in {"redis", "local"}, NEW w, NEW count,
         Decide(q, how, w, count)
  PROVE  /\ \A k, v, x, y : x \in {"redis", "local"} =>
              IF key[q] = k /\ v = w /\ x = how /\ y = Verdict(count)
              THEN Answered(k, v, x, y)' = Answered(k, v, x, y) \cup {q}
              ELSE Answered(k, v, x, y)' = Answered(k, v, x, y)
         /\ \A i, k, v : Bucketed(i, k, v)' =
              IF how = "local" /\ host[q] = i /\ key[q] = k /\ v = w
              THEN Bucketed(i, k, v) \cup {q} ELSE Bucketed(i, k, v)
         /\ \A k, v, x, y : x \in {"redis", "local"} => q \notin Answered(k, v, x, y)
         /\ \A i, k, v : q \notin Bucketed(i, k, v)
<1> USE DEF LInv
<1>1. /\ via' = [via EXCEPT ![q] = how] /\ window' = [window EXCEPT ![q] = w]
      /\ verdict' = [verdict EXCEPT ![q] = Verdict(count)]
      /\ UNCHANGED <<key, host>>
  BY DEF Decide
<1>2. via[q] = None
  BY DEF RequestInv
<1>3. /\ via'[q] = how /\ window'[q] = w /\ verdict'[q] = Verdict(count)
      /\ \A p \in Request \ {q} :
           via'[p] = via[p] /\ window'[p] = window[p] /\ verdict'[p] = verdict[p]
  BY <1>1 DEF Typed
<1>4. /\ \A k, v, x, y : x \in {"redis", "local"} => q \notin Answered(k, v, x, y)
      /\ \A i, k, v : q \notin Bucketed(i, k, v)
  BY <1>2 DEF Answered, Bucketed, None
<1>5. ASSUME NEW k, NEW v, NEW x \in {"redis", "local"}, NEW y
      PROVE  IF key[q] = k /\ v = w /\ x = how /\ y = Verdict(count)
             THEN Answered(k, v, x, y)' = Answered(k, v, x, y) \cup {q}
             ELSE Answered(k, v, x, y)' = Answered(k, v, x, y)
  BY <1>1, <1>3, <1>4 DEF Answered
<1>6. ASSUME NEW i, NEW k, NEW v
      PROVE  Bucketed(i, k, v)' =
               IF how = "local" /\ host[q] = i /\ key[q] = k /\ v = w
               THEN Bucketed(i, k, v) \cup {q} ELSE Bucketed(i, k, v)
  BY <1>1, <1>3, <1>4 DEF Bucketed
<1> QED
  BY <1>4, <1>5, <1>6

LEMMA IncrLInv ==
  ASSUME LInv, NEW q \in Request, Incr(q)
  PROVE  LInv'
<1> USE DEF LInv
<1> DEFINE m == redisKey(q)
           count == counter[m] + 1
<1>1. /\ pc[q] = "incr" /\ Increment(q) /\ Decide(q, "redis", named[q], count)
      /\ UNCHANGED <<now, local>>
  BY DEF Incr
<1>2. /\ pc' = [pc EXCEPT ![q] = "done"] /\ UNCHANGED <<key, host, named>>
  BY <1>1 DEF Decide, Goto
<1>3. m \in CounterName /\ m[1] = key[q] /\ m[2] = named[q]
      /\ named[q] \in Window /\ named[q] <= now
  BY <1>1 DEF redisKey, CounterName, RequestInv, Typed
<1>4. RequestInv' /\ Typed'
  <2>1. now \in 0..MaxWindow
    BY WindowAssumption DEF Typed, Window
  <2>2. counter' \in [CounterName -> Nat] /\ touched' \in [CounterName -> 0..MaxWindow]
    BY <1>1, <1>3, <2>1 DEF Increment, Typed
  <2>3. /\ pc' \in [Request -> {"idle", "incr", "local", "done"}]
        /\ window' \in [Request -> 0..MaxWindow]
        /\ via' \in [Request -> {None, "redis", "local"}]
        /\ verdict' \in [Request -> {None, "admitted", "limited"}]
        /\ RequestInv'
    <3> HIDE DEF count, LInv
    <3> QED
      BY <1>1, <1>3, DecideRequest
  <2> QED
    BY <1>1, <1>2, <2>2, <2>3 DEF Typed
<1>5. CounterInv'
  BY <1>1, <1>2, IncrementCounter
<1>6. /\ \A k, v, x, y : x \in {"redis", "local"} =>
              IF key[q] = k /\ v = named[q] /\ x = "redis" /\ y = Verdict(count)
              THEN Answered(k, v, x, y)' = Answered(k, v, x, y) \cup {q}
              ELSE Answered(k, v, x, y)' = Answered(k, v, x, y)
      /\ \A i, k, v : Bucketed(i, k, v)' = Bucketed(i, k, v)
      /\ \A k, v, x, y : x \in {"redis", "local"} => q \notin Answered(k, v, x, y)
  <2> HIDE DEF count, LInv
  <2> QED
    BY <1>1, DecideSets
<1>7. BucketInv'
  BY <1>1, <1>6 DEF BucketInv
<1>8. LocalInv'
  <2>1. \A i, k, v : AdmittedBy(i, k, v)' = AdmittedBy(i, k, v)
    BY <1>2, <1>6 DEF AdmittedBy
  <2> QED
    BY <1>1, <2>1 DEF LocalInv
<1>9. ASSUME MaxDelay <= 1, SharedInv PROVE SharedInv'
  <2> SUFFICES ASSUME NEW n \in CounterName, ~ n[2] + 2 <= now
               PROVE  Cardinality(Answered(n[1], n[2], "redis", "admitted")') <= counter'[n]
    BY <1>1 DEF SharedInv
  <2> DEFINE A == Answered(n[1], n[2], "redis", "admitted")
  <2>1. Cardinality(A) <= counter[n]
    BY <1>9 DEF SharedInv
  <2>2. A \in SUBSET Request /\ Cardinality(A) \in Nat /\ counter[n] \in Nat
    BY Sets, CardNat DEF Typed
  <2>3. CASE n = m
    <3>1. counter'[n] = counter[n] + 1
      BY <1>1, <1>3, <2>3 DEF Increment, Typed
    <3>2. A' = A \/ A' = A \cup {q}
      BY <1>6
    <3>3. q \notin A
      BY <1>6
    <3>4. Cardinality(A \cup {q}) = Cardinality(A) + 1
      BY <2>2, <3>3, CardAdd
    <3> QED
      BY <2>1, <2>2, <3>1, <3>2, <3>4
  <2>4. CASE n # m
    <3>1. counter'[n] = counter[n]
      BY <1>1, <1>3, <2>4 DEF Increment, Typed
    <3>2. n[1] # key[q] \/ n[2] # named[q]
      BY <1>3, <2>4 DEF CounterName, redisKey
    <3>3. A' = A
      BY <1>6, <3>2
    <3> QED
      BY <2>1, <3>1, <3>3
  <2> QED
    BY <2>3, <2>4
<1> QED
  BY <1>4, <1>5, <1>7, <1>8, <1>9

\* What is left of a bucket when old ones have been dropped, and what the
\* bucket of the request is then.
LEMMA Dropped ==
  ASSUME LInv, NEW i \in Instance, NEW k \in Key
  PROVE  LET kept == cleanupLocal(local[i])
         IN /\ \/ kept[k] = NoBucket /\ local[i][k].window < now
               \/ kept[k] = local[i][k]
            /\ kept[k] \in [window : 0..MaxWindow, count : Nat]
            /\ kept \in [Key -> [window : 0..MaxWindow, count : Nat]]
<1>1. 0 \in 0..MaxWindow
  BY WindowAssumption
<1> QED
  BY <1>1 DEF LInv, Typed, cleanupLocal, NoBucket

LEMMA IncrementLocalLInv ==
  ASSUME LInv, NEW q \in Request, IncrementLocal(q)
  PROVE  LInv'
<1> DEFINE i == host[q]
           k == key[q]
           kept == cleanupLocal(local[i])
           b == Counted(kept[k])
           BucketSet == [window : 0..MaxWindow, count : Nat]
<1>1. /\ pc[q] = "local" /\ Decide(q, "local", now, b.count)
      /\ local' = [local EXCEPT ![i] = [kept EXCEPT ![k] = b]]
      /\ UNCHANGED <<now, counter, touched>>
  BY DEF IncrementLocal, redisState
<1>2. /\ pc' = [pc EXCEPT ![q] = "done"] /\ UNCHANGED <<key, host, named>>
  BY <1>1 DEF Decide, Goto
<1>3. /\ i \in Instance /\ k \in Key
      /\ now \in Window /\ now \in 0..MaxWindow /\ now \in Nat /\ now # 0
  BY WindowAssumption DEF LInv, Typed, Window
<1>4. \A l \in Key : /\ \/ kept[l] = NoBucket /\ local[i][l].window < now
                        \/ kept[l] = local[i][l]
                     /\ kept[l] \in BucketSet
  BY <1>3, Dropped
<1>5. kept \in [Key -> BucketSet]
  BY <1>3, Dropped
<1>6. b \in BucketSet /\ b.window = now /\ b.count \in Nat
      /\ b.count = IF kept[k].window = now THEN kept[k].count + 1 ELSE 1
  BY <1>3, <1>4 DEF Counted
<1>7. local' \in [Instance -> [Key -> BucketSet]]
  BY <1>1, <1>3, <1>5, <1>6 DEF LInv, Typed
<1>8. /\ \A j \in Instance, l \in Key :
           local'[j][l] = IF j = i THEN IF l = k THEN b ELSE kept[l] ELSE local[j][l]
  BY <1>1, <1>3, <1>5, <1>6 DEF LInv, Typed
<1> HIDE DEF b, kept
<1>9. /\ pc' \in [Request -> {"idle", "incr", "local", "done"}]
      /\ window' \in [Request -> 0..MaxWindow]
      /\ via' \in [Request -> {None, "redis", "local"}]
      /\ verdict' \in [Request -> {None, "admitted", "limited"}]
      /\ RequestInv'
  BY <1>1, <1>3, DecideRequest
<1>10. Typed'
  BY <1>1, <1>2, <1>7, <1>9 DEF LInv, Typed
<1>11. CounterInv'
  <2>1. \A p \in Request : pc[p] \in {"local", "done"} =>
          pc'[p] \in {"local", "done"} /\ named'[p] = named[p]
    BY <1>2 DEF LInv, Typed
  <2> QED
    BY <1>1, <1>2, <2>1, CounterKept
<1>12. /\ \A l, v, x, y : x \in {"redis", "local"} =>
              IF key[q] = l /\ v = now /\ x = "local" /\ y = Verdict(b.count)
              THEN Answered(l, v, x, y)' = Answered(l, v, x, y) \cup {q}
              ELSE Answered(l, v, x, y)' = Answered(l, v, x, y)
       /\ \A j, l, v : Bucketed(j, l, v)' =
              IF host[q] = j /\ key[q] = l /\ v = now
              THEN Bucketed(j, l, v) \cup {q} ELSE Bucketed(j, l, v)
       /\ \A l, v, x, y : x \in {"redis", "local"} => q \notin Answered(l, v, x, y)
       /\ \A j, l, v : q \notin Bucketed(j, l, v)
  BY <1>1, DecideSets
<1>13. MaxDelay <= 1 => SharedInv'
  BY <1>1, <1>12 DEF LInv, SharedInv
<1>14. BucketInv'
  <2> SUFFICES ASSUME NEW j \in Instance, NEW l \in Key, NEW v, v = local'[j][l].window
               PROVE  /\ v <= now
                      /\ local'[j][l].count > 0 => v \in Window
                      /\ local'[j][l].count <= Cardinality(Bucketed(j, l, v)')
    BY <1>1 DEF BucketInv, Bucketed
  <2> DEFINE B == Bucketed(j, l, v)
  <2>1. /\ local[j][l].window <= now
        /\ local[j][l].count > 0 => local[j][l].window \in Window
        /\ local[j][l].count <= Cardinality(Bucketed(j, l, local[j][l].window))
    BY DEF LInv, BucketInv
  <2>2. B \in SUBSET Request /\ Cardinality(B) \in Nat
    BY Sets, CardNat
  <2>3. CASE j = i /\ l = k
    <3>1. v = now /\ local'[j][l].count = b.count
      BY <1>6, <1>8, <2>3
    <3>2. B' = B \cup {q} /\ q \notin B
      BY <1>12, <2>3, <3>1
    <3>3. Cardinality(B \cup {q}) = Cardinality(B) + 1
      BY <2>2, <3>2, CardAdd
    <3>4. b.count <= Cardinality(B) + 1
      <4>1. CASE kept[k].window = now
        <5>1. kept[k] = local[i][k]
          BY <1>3, <1>4, <4>1 DEF NoBucket
        <5>2. kept[k].count <= Cardinality(B) /\ kept[k].count \in Nat
          BY <1>3, <1>4, <2>1, <2>3, <3>1, <4>1, <5>1
        <5> QED
          BY <1>6, <2>2, <4>1, <5>2
      <4>2. CASE kept[k].window # now
        BY <1>6, <2>2, <4>2
      <4> QED
        BY <4>1, <4>2
    <3> QED
      BY <1>3, <3>1, <3>2, <3>3, <3>4
  <2>4. CASE ~(j = i /\ l = k)
    <3>1. B' = B
      BY <1>12, <2>4
    <3>2. local'[j][l] = NoBucket \/ local'[j][l] = local[j][l]
      BY <1>4, <1>8, <2>4
    <3>3. CASE local'[j][l] = NoBucket
      BY <1>3, <2>2, <3>1, <3>3 DEF NoBucket
    <3>4. CASE local'[j][l] = local[j][l]
      BY <2>1, <3>1, <3>4
    <3> QED
      BY <3>2, <3>3, <3>4
  <2> QED
    BY <2>3, <2>4
<1>15. LocalInv'
  <2> SUFFICES ASSUME NEW j \in Instance, NEW l \in Key, NEW v, v = now
               PROVE  Cardinality(AdmittedBy(j, l, v)')
                        <= IF local'[j][l].window = now THEN local'[j][l].count ELSE 0
    BY <1>1 DEF LocalInv, AdmittedBy, Answered
  <2> DEFINE A == AdmittedBy(j, l, v)
  <2>1. Cardinality(A) <= (IF local[j][l].window = now THEN local[j][l].count ELSE 0)
    BY DEF LInv, LocalInv
  <2>2. A \in SUBSET Request /\ Cardinality(A) \in Nat
    BY Sets, CardNat
  <2>3. CASE j = i /\ l = k
    <3>1. A' = A \/ A' = A \cup {q}
      BY <1>2, <1>12 DEF AdmittedBy
    <3>2. q \notin A
      BY <1>12 DEF AdmittedBy
    <3>3. Cardinality(A \cup {q}) = Cardinality(A) + 1
      BY <2>2, <3>2, CardAdd
    <3>4. Cardinality(A) + 1 <= b.count
      BY <1>3, <1>4, <1>6, <2>1, <2>2, <2>3 DEF NoBucket
    <3>5. local'[j][l] = b
      BY <1>8, <2>3
    <3>6. Cardinality(A') = Cardinality(A) \/ Cardinality(A') = Cardinality(A) + 1
      BY <3>1, <3>3
    <3> QED
      BY <1>6, <2>2, <3>4, <3>5, <3>6
  <2>4. CASE ~(j = i /\ l = k)
    <3>1. A' = A
      BY <1>2, <1>12, <2>4 DEF AdmittedBy
    <3>2. \/ local'[j][l] = NoBucket /\ local[j][l].window < now
          \/ local'[j][l] = local[j][l]
      BY <1>4, <1>8, <2>4
    <3> QED
      BY <1>3, <2>1, <3>1, <3>2 DEF NoBucket
  <2> QED
    BY <2>3, <2>4
<1> QED
  BY <1>9, <1>10, <1>11, <1>13, <1>14, <1>15 DEF LInv

LEMMA NextLInv == LInv /\ [Next]_vars => LInv'
<1> SUFFICES ASSUME LInv, [Next]_vars PROVE LInv'
  OBVIOUS
<1>1. CASE UNCHANGED vars
  <2>1. UNCHANGED <<now, counter, touched, local, pc, key, host, named, window, via, verdict>>
    BY <1>1 DEF vars, redisState, requests
  <2>2. Typed' /\ RequestInv'
    BY <2>1 DEF LInv, Typed, RequestInv
  <2>3. CounterInv'
    BY <2>1, CounterKept
  <2>4. BucketInv' /\ LocalInv' /\ (MaxDelay <= 1 => SharedInv')
    BY <2>1, AnswersKept DEF LInv, BucketInv, SharedInv, LocalInv
  <2> QED
    BY <2>2, <2>3, <2>4 DEF LInv
<1>2. ASSUME NEW q \in Request, Serve(q) PROVE LInv'
  BY <1>2, ArriveLInv, IncrLInv, IncrFailsLInv, IncrementLocalLInv DEF Serve
<1>3. ASSUME NEW n \in CounterName, Expire(n) PROVE LInv'
  BY <1>3, ExpireLInv
<1>4. CASE Tick
  BY <1>4, TickLInv
<1> QED
  BY <1>1, <1>2, <1>3, <1>4 DEF Next, Terminating

(***************************************************************************)
(* Every reachable state of the limiter satisfies the inductive invariant, *)
(* whatever Redis does with the calls it is sent.                          *)
(***************************************************************************)
THEOREM Invariance == Spec => []LInv
<1> QED
  BY InitLInv, NextLInv, PTL DEF Spec

-----------------------------------------------------------------------------
(* What the invariant is for.                                              *)

LEMMA TypeFollows == LInv => TypeOK
<1> SUFFICES ASSUME LInv PROVE TypeOK
  OBVIOUS
<1>1. Cardinality(Request) \in Nat /\ \A S \in SUBSET Request :
        Cardinality(S) \in Nat /\ Cardinality(S) <= Cardinality(Request)
  BY CardNat, CardSubset
<1>2. counter \in [CounterName -> 0..Cardinality(Request)]
  <2> SUFFICES ASSUME NEW n \in CounterName PROVE counter[n] \in 0..Cardinality(Request)
    BY DEF LInv, Typed
  <2>1. counter[n] <= Cardinality(Callers(n)) /\ counter[n] \in Nat
    BY DEF LInv, Typed, CounterInv
  <2>2. Cardinality(Callers(n)) \in Nat /\ Cardinality(Callers(n)) <= Cardinality(Request)
    BY <1>1, Sets
  <2> QED
    BY <1>1, <2>1, <2>2
<1>3. local \in [Instance -> [Key -> Bucket]]
  <2> SUFFICES ASSUME NEW i \in Instance, NEW k \in Key PROVE local[i][k] \in Bucket
    BY DEF LInv, Typed
  <2> DEFINE B == Bucketed(i, k, local[i][k].window)
  <2>1. local[i][k] \in [window : 0..MaxWindow, count : Nat]
    BY DEF LInv, Typed
  <2>2. local[i][k].count <= Cardinality(B)
    BY DEF LInv, BucketInv
  <2>3. Cardinality(B) \in Nat /\ Cardinality(B) <= Cardinality(Request)
    BY <1>1, Sets
  <2>4. local[i][k].count \in 0..Cardinality(Request)
    BY <1>1, <2>1, <2>2, <2>3
  <2> QED
    BY <2>1, <2>4 DEF Bucket
<1> QED
  BY <1>2, <1>3 DEF LInv, Typed, TypeOK

(***************************************************************************)
(* A counter or bucket never counts more than there were requests, however *)
(* calls to Redis fail, time passes and buckets are dropped.               *)
(***************************************************************************)
THEOREM RateTypeCorrect == Spec => []TypeOK
<1> QED
  BY Invariance, TypeFollows, PTL

\* Where Redis admits a request, fewer than Limit were admitted before.
LEMMA IncrRoom ==
  ASSUME LInv, MaxDelay <= 1, NEW q \in Request, Incr(q),
         Verdict(counter[redisKey(q)] + 1) = "admitted"
  PROVE  Cardinality(Answered(key[q], named[q], "redis", "admitted")) < Limit
<1> DEFINE m == redisKey(q)
<1>1. m \in CounterName /\ m[1] = key[q] /\ m[2] = named[q]
      /\ named[q] \in Nat /\ now <= named[q] + MaxDelay
  BY DEF Incr, redisKey, CounterName, LInv, RequestInv, Typed, Window
<1>2. now \in Nat /\ MaxDelay \in Nat
  BY WindowAssumption DEF LInv, Typed, Window
<1>3. ~ m[2] + 2 <= now
  BY <1>1, <1>2
<1>4. Cardinality(Answered(m[1], m[2], "redis", "admitted")) <= counter[m]
  BY <1>1, <1>3 DEF LInv, SharedInv
<1>5. Cardinality(Answered(m[1], m[2], "redis", "admitted")) \in Nat /\ counter[m] \in Nat
  BY <1>1, Sets, CardNat DEF LInv, Typed
<1>6. counter[m] + 1 <= Limit
  BY <1>5, LimitAssumption DEF Verdict
<1> QED
  BY <1>1, <1>4, <1>5, <1>6, LimitAssumption

\* Where an instance admits a request, it has admitted fewer than Limit.
LEMMA LocalRoom ==
  ASSUME LInv, NEW q \in Request, IncrementLocal(q),
         Verdict(Counted(cleanupLocal(local[host[q]])[key[q]]).count) = "admitted"
  PROVE  Cardinality(AdmittedBy(host[q], key[q], now)) < Limit
<1> DEFINE i == host[q]
           k == key[q]
           c == cleanupLocal(local[i])[k]
           A == AdmittedBy(i, k, now)
<1>1. i \in Instance /\ k \in Key /\ now \in Nat /\ now # 0
  BY DEF LInv, Typed, Window
<1>2. \/ c = NoBucket /\ local[i][k].window < now
      \/ c = local[i][k]
  BY <1>1, Dropped
<1>3. Cardinality(A) <= (IF local[i][k].window = now THEN local[i][k].count ELSE 0)
  BY <1>1 DEF LInv, LocalInv
<1>4. Cardinality(A) \in Nat /\ local[i][k] \in [window : 0..MaxWindow, count : Nat]
  BY <1>1, Sets, CardNat DEF LInv, Typed
<1>5. Counted(c).count <= Limit
  BY <1>1, <1>2, <1>4, LimitAssumption DEF Verdict, Counted, NoBucket
<1>6. Cardinality(A) < Counted(c).count
  BY <1>1, <1>2, <1>3, <1>4 DEF Counted, NoBucket
<1>7. Counted(c).count \in Nat
  BY <1>1, <1>2, <1>4 DEF Counted, NoBucket
<1> QED
  BY <1>4, <1>5, <1>6, <1>7, LimitAssumption

\* Only two actions answer a request.
LEMMA StepKinds ==
  ASSUME [Next]_vars
  PROVE  \/ UNCHANGED <<key, host, window, via, verdict>>
         \/ \E q \in Request : Incr(q) \/ IncrementLocal(q)
  BY DEF Next, Serve, Arrive, IncrFails, Expire, Tick, Terminating, vars, requests

\* What Incr and IncrementLocal do to the answers.
LEMMA IncrSets ==
  ASSUME LInv, NEW q \in Request, Incr(q)
  PROVE  /\ pc[q] = "incr" /\ Decide(q, "redis", named[q], counter[redisKey(q)] + 1)
         /\ pc[q] # "done" /\ UNCHANGED <<now, key, host, named, local>>
  BY DEF Incr, Decide

LEMMA LocalSets ==
  ASSUME LInv, NEW q \in Request, IncrementLocal(q)
  PROVE  /\ pc[q] = "local" /\ UNCHANGED <<now, key, host, named>>
         /\ Decide(q, "local", now, Counted(cleanupLocal(local[host[q]])[key[q]]).count)
  BY DEF IncrementLocal, Decide

LEMMA SharedStep ==
  ASSUME LInv, [Next]_vars, MaxDelay <= 1, SharedLimit
  PROVE  SharedLimit'
<1> SUFFICES ASSUME NEW k \in Key, NEW w \in Window
             PROVE  Cardinality(Answered(k, w, "redis", "admitted")') <= Limit
  BY DEF SharedLimit
<1> DEFINE A == Answered(k, w, "redis", "admitted")
<1>1. Cardinality(A) <= Limit
  BY DEF SharedLimit
<1>2. CASE UNCHANGED <<key, host, window, via, verdict>>
  BY <1>1, <1>2, AnswersKept
<1>3. ASSUME NEW q \in Request, Incr(q) PROVE Cardinality(A') <= Limit
  <2> DEFINE count == counter[redisKey(q)] + 1
  <2>1. Decide(q, "redis", named[q], count) /\ pc[q] # "done"
    BY <1>3, IncrSets
  <2> HIDE DEF count
  <2>2. q \notin A /\ IF key[q] = k /\ w = named[q] /\ "admitted" = Verdict(count)
                      THEN A' = A \cup {q} ELSE A' = A
    BY <2>1, DecideSets
  <2>3. CASE A' = A \cup {q} /\ key[q] = k /\ w = named[q] /\ "admitted" = Verdict(count)
    <3>0. A' = A \cup {q}
      BY <2>3
    <3>1. Cardinality(A) < Limit
      BY <1>3, <2>3, IncrRoom DEF count
    <3>2. Cardinality(A \cup {q}) = Cardinality(A) + 1 /\ Cardinality(A) \in Nat
      BY <2>2, Sets, CardAdd, CardNat
    <3>3. Cardinality(A \cup {q}) <= Limit
      BY <3>1, <3>2, LimitAssumption
    <3> QED
      BY <3>0, <3>3
  <2> QED
    BY <1>1, <2>2, <2>3
<1>4. ASSUME NEW q \in Request, IncrementLocal(q) PROVE Cardinality(A') <= Limit
  <2> DEFINE count == Counted(cleanupLocal(local[host[q]])[key[q]]).count
  <2>1. Decide(q, "local", now, count) /\ pc[q] # "done"
    BY <1>4, LocalSets
  <2> HIDE DEF count
  <2>2. A' = A
    BY <2>1, DecideSets
  <2> QED
    BY <1>1, <2>2
<1> QED
  BY <1>2, <1>3, <1>4, StepKinds

LEMMA LocalStep ==
  ASSUME LInv, [Next]_vars, LocalLimit
  PROVE  LocalLimit'
<1> SUFFICES ASSUME NEW i \in Instance, NEW k \in Key, NEW w \in Window
             PROVE  Cardinality(AdmittedBy(i, k, w)') <= Limit
  BY DEF LocalLimit
<1> DEFINE A == AdmittedBy(i, k, w)
<1>1. Cardinality(A) <= Limit
  BY DEF LocalLimit
<1>2. CASE UNCHANGED <<key, host, window, via, verdict>>
  BY <1>1, <1>2, AnswersKept
<1>3. ASSUME NEW q \in Request, Incr(q) PROVE Cardinality(A') <= Limit
  <2> DEFINE count == counter[redisKey(q)] + 1
  <2>1. Decide(q, "redis", named[q], count) /\ pc[q] # "done" /\ host' = host
    BY <1>3, IncrSets
  <2> HIDE DEF count
  <2>2. Answered(k, w, "local", "admitted")' = Answered(k, w, "local", "admitted")
    BY <2>1, DecideSets
  <2>3. A' = A
    BY <2>1, <2>2 DEF AdmittedBy
  <2> QED
    BY <1>1, <2>3
<1>4. ASSUME NEW q \in Request, IncrementLocal(q) PROVE Cardinality(A') <= Limit
  <2> DEFINE count == Counted(cleanupLocal(local[host[q]])[key[q]]).count
             B == Answered(k, w, "local", "admitted")
  <2>1. Decide(q, "local", now, count) /\ pc[q] # "done" /\ host' = host
    BY <1>4, LocalSets
  <2> HIDE DEF count
  <2>2. q \notin B /\ IF key[q] = k /\ w = now /\ "admitted" = Verdict(count)
                      THEN B' = B \cup {q} ELSE B' = B
    BY <2>1, DecideSets
  <2>3. CASE A' = A
    BY <1>1, <2>3
  <2>4. CASE A' # A
    <3>1. /\ A' = A \cup {q} /\ q \notin A /\ host[q] = i
          /\ key[q] = k /\ w = now /\ "admitted" = Verdict(count)
      BY <2>1, <2>2, <2>4 DEF AdmittedBy
    <3>2. Cardinality(A) < Limit
      BY <1>4, <3>1, LocalRoom DEF count
    <3>3. Cardinality(A \cup {q}) = Cardinality(A) + 1 /\ Cardinality(A) \in Nat
      BY <3>1, Sets, CardAdd, CardNat
    <3> QED
      BY <3>1, <3>2, <3>3, LimitAssumption
  <2> QED
    BY <2>3, <2>4
<1> QED
  BY <1>2, <1>3, <1>4, StepKinds

LEMMA InitLimits == Init => SharedLimit /\ LocalLimit
<1> SUFFICES ASSUME Init PROVE SharedLimit /\ LocalLimit
  OBVIOUS
<1>1. /\ \A k, w : Answered(k, w, "redis", "admitted") = {}
      /\ \A i, k, w : AdmittedBy(i, k, w) = {}
  BY DEF Init, Answered, AdmittedBy, None
<1> QED
  BY <1>1, FS_EmptySet, LimitAssumption DEF SharedLimit, LocalLimit

(***************************************************************************)
(* When an INCR comes no later than in the minute after its counter was    *)
(* named, the backends together admit no more than Limit requests of a key *)
(* per window through Redis: its counter outlives every such INCR.         *)
(***************************************************************************)
THEOREM SharedLimitHolds ==
  ASSUME MaxDelay <= 1
  PROVE  Spec => []SharedLimit
<1>1. SharedLimit /\ LInv /\ [Next]_vars => SharedLimit'
  BY SharedStep
<1>2. Init => SharedLimit
  BY InitLimits
<1> QED
  BY <1>1, <1>2, Invariance, PTL DEF Spec

(***************************************************************************)
(* A backend that counts by itself admits at most Limit requests of a key  *)
(* per window, whatever its map drops at the cap.                          *)
(***************************************************************************)
THEOREM LocalLimitHolds == Spec => []LocalLimit
<1>1. LocalLimit /\ LInv /\ [Next]_vars => LocalLimit'
  BY LocalStep
<1>2. Init => LocalLimit
  BY InitLimits
<1> QED
  BY <1>1, <1>2, Invariance, PTL DEF Spec

-----------------------------------------------------------------------------
(* The limiter implements the quota.                                       *)

LEMMA GrantedTo ==
  ASSUME LInv, NEW k \in Key, NEW w \in Window
  PROVE  /\ {u \in Request : Granted[u] = <<"redis", k, w>>}
              = Answered(k, w, "redis", "admitted")
         /\ \A i \in Instance : {u \in Request : Granted[u] = <<"local", i, k, w>>}
              = AdmittedBy(i, k, w)
<1>1. \A u \in Request : /\ Granted[u] = <<"redis", k, w>>
                              <=> u \in Answered(k, w, "redis", "admitted")
                         /\ \A i \in Instance : Granted[u] = <<"local", i, k, w>>
                              <=> u \in AdmittedBy(i, k, w)
  <2> SUFFICES ASSUME NEW u \in Request
               PROVE  /\ Granted[u] = <<"redis", k, w>>
                           <=> u \in Answered(k, w, "redis", "admitted")
                      /\ \A i \in Instance : Granted[u] = <<"local", i, k, w>>
                           <=> u \in AdmittedBy(i, k, w)
    OBVIOUS
  <2>1. Granted[u] = IF verdict[u] = "admitted" THEN MeterOf(u) ELSE <<>>
    BY DEF Granted
  <2>2. verdict[u] = "admitted" => via[u] \in {"redis", "local"}
    BY DEF LInv, RequestInv, Typed, None
  <2> QED
    BY <2>1, <2>2 DEF MeterOf, Answered, AdmittedBy
<1> QED
  BY <1>1, Sets

\* Both modules count with FiniteSets.
LEMMA SameCount == \A S : AsQuota!Cardinality(S) = Cardinality(S)
  BY DEF AsQuota!Cardinality, Cardinality

LEMMA QuotaInit == Init => AsQuota!Init
  BY DEF Init, AsQuota!Init, Granted, None

LEMMA QuotaStep ==
  ASSUME LInv, [Next]_vars, MaxDelay <= 1
  PROVE  [AsQuota!Next]_Granted
<1>1. CASE UNCHANGED <<key, host, window, via, verdict>>
  BY <1>1 DEF Granted, MeterOf
<1>2. ASSUME NEW q \in Request, NEW how \in {"redis", "local"}, NEW w \in Window, NEW count,
             NEW m \in Meter,
             pc[q] # "done", Decide(q, how, w, count), 
             m = IF how = "redis" THEN <<"redis", key[q], w>>
                                  ELSE <<"local", host[q], key[q], w>>,
             Verdict(count) = "admitted"
               => Cardinality({u \in Request : Granted[u] = m}) < Limit
      PROVE  [AsQuota!Next]_Granted
  <2>1. /\ UNCHANGED <<key, host>>
        /\ via'[q] = how /\ window'[q] = w /\ verdict'[q] = Verdict(count)
        /\ \A p \in Request \ {q} :
             via'[p] = via[p] /\ window'[p] = window[p] /\ verdict'[p] = verdict[p]
    BY <1>2 DEF Decide, LInv, Typed
  <2>2. Granted[q] = <<>>
    BY <1>2 DEF Granted, LInv, RequestInv, None
  <2>3. \A p \in Request \ {q} : Granted'[p] = Granted[p]
    BY <2>1 DEF Granted, MeterOf
  <2>4. Granted \in [Request -> {Granted[p] : p \in Request}] /\ DOMAIN Granted = Request
        /\ Granted' = [p \in Request |-> Granted'[p]]
    BY DEF Granted
  <2>5. CASE Verdict(count) = "admitted"
    <3>1. Granted'[q] = m
      BY <1>2, <2>1, <2>5 DEF Granted, MeterOf
    <3>2. Granted' = [Granted EXCEPT ![q] = m]
      BY <2>3, <2>4, <3>1
    <3>3. AsQuota!Grant(m, q)
      BY <1>2, <2>2, <2>5, <3>2, SameCount DEF AsQuota!Grant
    <3> QED
      BY <3>3 DEF AsQuota!Next
  <2>6. CASE Verdict(count) # "admitted"
    <3>1. Granted'[q] = <<>>
      BY <2>1, <2>6 DEF Granted
    <3>2. Granted' = Granted
      BY <2>2, <2>3, <2>4, <3>1
    <3> QED
      BY <3>2
  <2> QED
    BY <2>5, <2>6
<1>3. ASSUME NEW q \in Request, Incr(q) PROVE [AsQuota!Next]_Granted
  <2> DEFINE count == counter[redisKey(q)] + 1
             m == <<"redis", key[q], named[q]>>
  <2>1. Decide(q, "redis", named[q], count) /\ pc[q] # "done" /\ pc[q] = "incr"
    BY <1>3, IncrSets
  <2>2. key[q] \in Key /\ named[q] \in Window /\ m \in Meter
    BY <2>1 DEF LInv, Typed, RequestInv, Meter
  <2>3. Verdict(count) = "admitted"
          => Cardinality({u \in Request : Granted[u] = m}) < Limit
    BY <1>3, <2>2, IncrRoom, GrantedTo
  <2> HIDE DEF count
  <2>4. m = IF "redis" = "redis" THEN <<"redis", key[q], named[q]>>
                                 ELSE <<"local", host[q], key[q], named[q]>>
    OBVIOUS
  <2> HIDE DEF m
  <2> QED
    BY <1>2, <2>1, <2>2, <2>3, <2>4
<1>4. ASSUME NEW q \in Request, IncrementLocal(q) PROVE [AsQuota!Next]_Granted
  <2> DEFINE count == Counted(cleanupLocal(local[host[q]])[key[q]]).count
             m == <<"local", host[q], key[q], now>>
  <2>1. Decide(q, "local", now, count) /\ pc[q] # "done"
    BY <1>4, LocalSets
  <2>2. key[q] \in Key /\ host[q] \in Instance /\ now \in Window /\ m \in Meter
    BY DEF LInv, Typed, Meter
  <2>3. Verdict(count) = "admitted"
          => Cardinality({u \in Request : Granted[u] = m}) < Limit
    BY <1>4, <2>2, LocalRoom, GrantedTo
  <2> HIDE DEF count
  <2>4. m = IF "local" = "redis" THEN <<"redis", key[q], now>>
                                 ELSE <<"local", host[q], key[q], now>>
    OBVIOUS
  <2> HIDE DEF m
  <2> QED
    BY <1>2, <2>1, <2>2, <2>3, <2>4
<1> QED
  BY <1>1, <1>3, <1>4, StepKinds

(***************************************************************************)
(* The limiter implements a quota per counter in Redis and per bucket of a *)
(* backend, although counters expire, buckets are dropped, requests are    *)
(* counted that are never admitted, and counting takes several steps.      *)
(***************************************************************************)
THEOREM QuotaImplemented ==
  ASSUME MaxDelay <= 1
  PROVE  Spec => Implements
<1>1. LInv /\ [Next]_vars => [AsQuota!Next]_Granted
  BY QuotaStep
<1> QED
  BY <1>1, QuotaInit, Invariance, PTL DEF Spec, Implements, AsQuota!Spec

-----------------------------------------------------------------------------
(* Who is refused, and what the map keeps.                                 *)

\* A request keeps its key and instance, the name it formatted, and its answer.
LEMMA Stay ==
  ASSUME LInv, [Next]_vars, NEW p \in Request
  PROVE  /\ key' = key /\ host' = host
         /\ pc[p] # "idle" => named'[p] = named[p]
         /\ pc[p] = "done" => /\ window'[p] = window[p] /\ via'[p] = via[p]
                              /\ verdict'[p] = verdict[p]
<1> USE DEF LInv, Typed
<1>1. ASSUME NEW q \in Request, Arrive(q)
      PROVE  UNCHANGED <<key, host, window, via, verdict>>
             /\ (pc[p] # "idle" => named'[p] = named[p])
  BY <1>1 DEF Arrive
<1>2. ASSUME NEW q \in Request, IncrFails(q)
      PROVE  UNCHANGED <<key, host, window, via, verdict, named>>
  BY <1>2 DEF IncrFails
<1>3. ASSUME NEW q \in Request, Incr(q) \/ IncrementLocal(q)
      PROVE  /\ UNCHANGED <<key, host, named>>
             /\ pc[p] = "done" => /\ window'[p] = window[p] /\ via'[p] = via[p]
                                  /\ verdict'[p] = verdict[p]
  BY <1>3 DEF Incr, IncrementLocal, Decide
<1>4. CASE UNCHANGED requests
  BY <1>4 DEF requests
<1> QED
  BY <1>1, <1>2, <1>3, <1>4 DEF Next, Serve, Expire, Tick, Terminating, vars

\* Those that RefusedOnlyOver counts for q.
Others(q) ==
  {p \in Request \ {q} :
     /\ key[p] = key[q]
     /\ \/ via[q] = "redis" /\ named[p] = window[q]
        \/ via[q] = "local" /\ via[p] = "local"
             /\ host[p] = host[q] /\ window[p] = window[q]}

LEMMA OthersGrow ==
  ASSUME LInv, [Next]_vars, NEW q \in Request, pc[q] = "done"
  PROVE  Others(q) \subseteq Others(q)'
<1> SUFFICES ASSUME NEW p \in Others(q) PROVE p \in Others(q)'
  OBVIOUS
<1>1. p \in Request \ {q} /\ key[p] = key[q]
  BY DEF Others
<1>2. key'[p] = key'[q] /\ host' = host /\ window'[q] = window[q] /\ via'[q] = via[q]
  BY <1>1, Stay
<1>3. CASE via[q] = "redis" /\ named[p] = window[q]
  <2>1. window[q] # 0
    BY DEF LInv, RequestInv, Window
  <2>2. pc[p] # "idle"
    BY <1>1, <1>3, <2>1 DEF LInv, RequestInv
  <2>3. named'[p] = named[p]
    BY <1>1, <2>2, Stay
  <2> QED
    BY <1>1, <1>2, <1>3, <2>3 DEF Others
<1>4. CASE via[q] = "local" /\ via[p] = "local" /\ host[p] = host[q] /\ window[p] = window[q]
  <2>1. pc[p] = "done"
    BY <1>1, <1>4 DEF LInv, RequestInv, None
  <2>2. via'[p] = via[p] /\ window'[p] = window[p]
    BY <1>1, <2>1, Stay
  <2> QED
    BY <1>1, <1>2, <1>4, <2>2 DEF Others
<1> QED
  BY <1>3, <1>4 DEF Others

\* When a request is refused, its key is over the limit.
LEMMA RefusedNow ==
  ASSUME LInv, NEW q \in Request, Incr(q) \/ IncrementLocal(q), verdict'[q] = "limited"
  PROVE  Limit <= Cardinality(Others(q)')
<1>1. Others(q)' \in SUBSET Request
  BY DEF Others
<1>2. ASSUME NEW S \in SUBSET Request, S \subseteq Others(q)', Limit <= Cardinality(S)
      PROVE  Limit <= Cardinality(Others(q)')
  <2>1. Cardinality(S) <= Cardinality(Others(q)')
    BY <1>1, <1>2, CardSubset
  <2>2. Cardinality(S) \in Nat /\ Cardinality(Others(q)') \in Nat
    BY <1>1, CardNat
  <2> QED
    BY <1>2, <2>1, <2>2, LimitAssumption
<1>3. CASE Incr(q)
  <2> DEFINE n == redisKey(q)
  <2>1. /\ pc[q] = "incr" /\ UNCHANGED <<key, host, named>> /\ via'[q] = "redis"
        /\ window'[q] = named[q] /\ verdict'[q] = Verdict(counter[n] + 1)
    BY <1>3 DEF Incr, Decide, LInv, Typed
  <2>2. n \in CounterName /\ n[1] = key[q] /\ n[2] = named[q]
    BY <2>1 DEF redisKey, CounterName, LInv, RequestInv, Typed
  <2>3. counter[n] + 1 > Limit /\ counter[n] \in Nat
    BY <2>1, <2>2 DEF Verdict, LInv, Typed
  <2>4. counter[n] <= Cardinality(Callers(n)) /\ Cardinality(Callers(n)) \in Nat
    BY <2>2, Sets, CardNat DEF LInv, CounterInv
  <2>5. Callers(n) \subseteq Others(q)'
    BY <2>1, <2>2 DEF Callers, Others
  <2>6. Limit <= Cardinality(Callers(n))
    BY <2>3, <2>4, LimitAssumption
  <2> QED
    BY <1>2, <2>5, <2>6, Sets
<1>4. CASE IncrementLocal(q)
  <2> DEFINE i == host[q]
             k == key[q]
             c == cleanupLocal(local[i])[k]
             B == Bucketed(i, k, now)
  <2>1. /\ pc[q] = "local" /\ UNCHANGED <<key, host, named>> /\ via'[q] = "local"
        /\ window'[q] = now /\ verdict'[q] = Verdict(Counted(c).count)
        /\ \A p \in Request \ {q} : via'[p] = via[p] /\ window'[p] = window[p]
    BY <1>4 DEF IncrementLocal, Decide, LInv, Typed
  <2>2. i \in Instance /\ k \in Key /\ now \in Nat /\ now # 0
    BY DEF LInv, Typed, Window
  <2>3. c = NoBucket \/ c = local[i][k]
    BY <2>2, Dropped
  <2>4. local[i][k].count <= Cardinality(Bucketed(i, k, local[i][k].window))
        /\ local[i][k].count \in Nat
    BY <2>2 DEF LInv, BucketInv, Typed
  <2>5. Counted(c).count > Limit
    BY <2>1 DEF Verdict
  <2>6. c.window = now /\ c = local[i][k] /\ c.count + 1 > Limit
    BY <2>2, <2>3, <2>5, LimitAssumption DEF Counted, NoBucket
  <2>7. Limit <= Cardinality(B)
    <3>1. Cardinality(B) \in Nat /\ c.count <= Cardinality(B) /\ c.count \in Nat
      BY <2>4, <2>6, Sets, CardNat
    <3> QED
      BY <2>6, <3>1, LimitAssumption
  <2>8. q \notin B
    BY <2>1 DEF Bucketed, LInv, RequestInv, None
  <2>9. B \subseteq Others(q)'
    BY <2>1, <2>8 DEF Bucketed, Others
  <2> QED
    BY <1>2, <2>7, <2>9, Sets
<1> QED
  BY <1>3, <1>4

(***************************************************************************)
(* Nobody is refused alone: one answered 429 has Limit others of its key in*)
(* the window it was counted in, for any delays and failures of Redis.     *)
(***************************************************************************)
THEOREM RefusedHolds == Spec => []RefusedOnlyOver
<1>1. Init => RefusedOnlyOver
  BY DEF Init, RefusedOnlyOver, None
<1>2. RefusedOnlyOver /\ LInv /\ [Next]_vars => RefusedOnlyOver'
  <2> SUFFICES ASSUME RefusedOnlyOver, LInv, [Next]_vars,
                      NEW q \in Request, verdict'[q] = "limited"
               PROVE  Limit <= Cardinality(Others(q)')
    BY DEF RefusedOnlyOver, Others
  <2>1. CASE pc[q] = "done"
    <3>1. verdict[q] = "limited"
      BY <2>1, Stay
    <3>2. Limit <= Cardinality(Others(q))
      BY <3>1 DEF RefusedOnlyOver, Others
    <3>3. Others(q) \in SUBSET Request /\ Others(q)' \in SUBSET Request
      BY DEF Others
    <3>4. Cardinality(Others(q)) <= Cardinality(Others(q)')
      BY <2>1, <3>3, OthersGrow, CardSubset
    <3>5. Cardinality(Others(q)) \in Nat /\ Cardinality(Others(q)') \in Nat
      BY <3>3, CardNat
    <3> QED
      BY <3>2, <3>4, <3>5, LimitAssumption
  <2>2. CASE pc[q] # "done"
    <3>1. verdict[q] = None
      BY <2>2 DEF LInv, RequestInv
    <3>2. PICK p \in Request : Incr(p) \/ IncrementLocal(p)
      BY <3>1, StepKinds DEF None
    <3>3. \A r \in Request \ {p} : verdict'[r] = verdict[r]
      BY <3>2 DEF Incr, IncrementLocal, Decide, LInv, Typed
    <3>4. p = q
      BY <3>1, <3>3 DEF None
    <3> QED
      BY <3>2, <3>4, RefusedNow
  <2> QED
    BY <2>1, <2>2
<1> QED
  BY <1>1, <1>2, Invariance, PTL DEF Spec

(***************************************************************************)
(* More than Cap buckets are kept only of one window: at the cap, a new    *)
(* window drops every bucket of an earlier one before it adds its own.     *)
(***************************************************************************)
THEOREM MapBoundedHolds == Spec => []MapBounded
<1>1. Init => MapBounded
  <2> SUFFICES ASSUME Init PROVE \A i \in Instance : Tracked(local[i]) = {}
    BY DEF MapBounded
  <2> QED
    BY DEF Init, Tracked, NoBucket
<1>2. MapBounded /\ LInv /\ [Next]_vars => MapBounded'
  <2> SUFFICES ASSUME MapBounded, LInv, [Next]_vars, NEW i \in Instance,
                      Cardinality(Tracked(local'[i])) > Cap,
                      NEW k \in Tracked(local'[i]), NEW l \in Tracked(local'[i])
               PROVE  local'[i][k].window = local'[i][l].window
    BY DEF MapBounded, Tracked
  <2>1. CASE local'[i] = local[i]
    BY <2>1 DEF MapBounded
  <2>2. CASE local'[i] # local[i]
    <3>1. PICK q \in Request : IncrementLocal(q)
      BY <2>2 DEF Next, Serve, Arrive, Incr, IncrFails, Expire, Tick, Terminating, vars
    <3> DEFINE h == host[q]
               g == key[q]
               kept == cleanupLocal(local[h])
               b == Counted(kept[g])
               T == Tracked(local[i])
    <3>2. local' = [local EXCEPT ![h] = [kept EXCEPT ![g] = b]]
      BY <3>1 DEF IncrementLocal
    <3>3. h \in Instance /\ g \in Key
      BY DEF LInv, Typed
    <3>4. i = h
      BY <2>2, <3>2, <3>3 DEF LInv, Typed
    <3>5. kept \in [Key -> [window : 0..MaxWindow, count : Nat]]
      BY <3>3, Dropped
    <3>6. local'[i] = [kept EXCEPT ![g] = b]
      BY <3>2, <3>3, <3>4 DEF LInv, Typed
    <3>7. b.window = now
      BY DEF Counted
    <3>8. T \subseteq Key /\ IsFiniteSet(T) /\ Cardinality(T) \in Nat
      BY FiniteAssumption, FS_Subset, FS_CardinalityType DEF Tracked
    <3> HIDE DEF b
    <3>9. CASE Cardinality(T) >= Cap
      <4>1. \A j \in Key \ {g} : kept[j].count > 0 => kept[j].window = now
        <5> SUFFICES ASSUME NEW j \in Key \ {g}, kept[j].count > 0 PROVE kept[j].window = now
          OBVIOUS
        <5>1. kept[j] = IF local[h][j].window < now THEN NoBucket ELSE local[h][j]
          BY <3>4, <3>9 DEF cleanupLocal
        <5>2. local[h][j].window <= now /\ local[h][j].window \in Nat /\ now \in Nat
          BY <3>3 DEF LInv, BucketInv, Typed, Window
        <5> QED
          BY <5>1, <5>2 DEF NoBucket
      <4>2. \A j \in Tracked(local'[i]) : local'[i][j].window = now
        BY <3>3, <3>5, <3>6, <3>7, <4>1 DEF Tracked
      <4> QED
        BY <4>2
    <3>10. CASE ~ Cardinality(T) >= Cap
      <4>1. kept = local[i]
        BY <3>3, <3>4, <3>10 DEF cleanupLocal, LInv, Typed
      <4>2. Tracked(local'[i]) \subseteq T \cup {g}
        BY <3>3, <3>5, <3>6, <4>1 DEF Tracked
      <4>3. Cardinality(T \cup {g}) <= Cardinality(T) + 1 /\ IsFiniteSet(T \cup {g})
        BY <3>8, FS_AddElement, FS_CardinalityType
      <4>4. Cardinality(Tracked(local'[i])) <= Cardinality(T \cup {g})
        BY <4>2, <4>3, FS_Subset
      <4>5. IsFiniteSet(Tracked(local'[i]))
        BY <4>2, <4>3, FS_Subset
      <4>6. /\ Cardinality(T \cup {g}) \in Nat /\ Cardinality(Tracked(local'[i])) \in Nat
        BY <4>3, <4>5, FS_CardinalityType
      <4> QED
        BY <3>8, <3>10, <4>3, <4>4, <4>6, LimitAssumption
    <3> QED
      BY <3>9, <3>10
  <2> QED
    BY <2>1, <2>2
<1> QED
  BY <1>1, <1>2, Invariance, PTL DEF Spec
=============================================================================
