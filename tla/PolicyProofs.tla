---------------------------- MODULE PolicyProofs ----------------------------
(***************************************************************************)
(* The rules of the four aggregates satisfy what RecordService assumes, so *)
(* that what is proved of RecordService holds of each of them; and what the*)
(* code makes of the numbers that come from outside is what RateLimiter,   *)
(* Session and Reads assume of theirs.                                     *)
(***************************************************************************)
EXTENDS Policy, Inputs, TLAPS

\* Every target of constants.PressUnitTransitions is a status of the graph, no
\* status is its own target, and the statuses the service names are among them.
THEOREM PressUnitWellFormed == WellFormed(PressUnitService)
<1> DEFINE S == {"ready", "setup", "printing", "maintenance"}
           G == PressUnitTransitions
<1>1. DOMAIN G = S
  BY DEF PressUnitTransitions
<1>2. \A t \in S : G[t] \subseteq S /\ t \notin G[t]
  BY DEF PressUnitTransitions
<1>3. G \in [S -> SUBSET S]
  BY <1>1, <1>2 DEF PressUnitTransitions
<1> HIDE DEF G
<1> QED
  BY <1>1, <1>2, <1>3 DEF WellFormed, PressUnitService, seedPressUnit, G

\* The same of constants.PrintRunTransitions and the rules of print runs.
THEOREM PrintRunWellFormed == WellFormed(PrintRunService)
<1> DEFINE S == {"setup", "printing", "proofing", "hold", "released"}
           G == PrintRunTransitions
<1>1. DOMAIN G = S
  BY DEF PrintRunTransitions
<1>2. \A t \in S : G[t] \subseteq S /\ t \notin G[t]
  BY DEF PrintRunTransitions
<1>3. G \in [S -> SUBSET S]
  BY <1>1, <1>2 DEF PrintRunTransitions
<1> HIDE DEF G
<1> QED
  BY <1>1, <1>2, <1>3 DEF WellFormed, PrintRunService, seedPrintRun, G

\* The same of constants.ColorProofTransitions and the rules of colour proofs.
THEOREM ColorProofWellFormed == WellFormed(ColorProofService)
<1> DEFINE S == {"captured", "review", "accepted", "rejected"}
           G == ColorProofTransitions
<1>1. DOMAIN G = S
  BY DEF ColorProofTransitions
<1>2. \A t \in S : G[t] \subseteq S /\ t \notin G[t]
  BY DEF ColorProofTransitions
<1>3. G \in [S -> SUBSET S]
  BY <1>1, <1>2 DEF ColorProofTransitions
<1> HIDE DEF G
<1> QED
  BY <1>1, <1>2, <1>3 DEF WellFormed, ColorProofService, seedColorProof, G

\* The same of constants.ReleaseDecisionTransitions and the rules of decisions.
THEOREM ReleaseDecisionWellFormed == WellFormed(ReleaseDecisionService)
<1> DEFINE S == {"draft", "release", "rework", "quarantine"}
           G == ReleaseDecisionTransitions
<1>1. DOMAIN G = S
  BY DEF ReleaseDecisionTransitions
<1>2. \A t \in S : G[t] \subseteq S /\ t \notin G[t]
  BY DEF ReleaseDecisionTransitions
<1>3. G \in [S -> SUBSET S]
  BY <1>1, <1>2 DEF ReleaseDecisionTransitions
<1> HIDE DEF G
<1> QED
  BY <1>1, <1>2, <1>3 DEF WellFormed, ReleaseDecisionService, seedReleaseDecision, G

-----------------------------------------------------------------------------
(* The numbers that come from outside.                                     *)

\* Load and Config.Validate: a process refuses to start for an unknown driver,
\* in whichever case it is written, a secret of less than 16 characters or a
\* limit out of its range, when they are given, and for nothing else: what env,
\* intEnv and durationEnv yield is never empty and never less than one, so the
\* checks of APP_NAME, PORT and the timeouts cannot fail.
THEOREM LoadRefuses ==
  ASSUME NEW e \in Environment
  PROVE  Validate(Load(e)) <=>
           /\ e.driver.ok => e.driver.value.lower \in Drivers
           /\ e.secret.ok => e.secret.value >= 16
           /\ e.limit.ok /\ e.limit.value > 0 =>
                10 <= e.limit.value /\ e.limit.value <= 100000
<1> DEFINE c == Load(e)
<1>1. \A t \in Timeouts : c.timeout[t] > 0
  <2> SUFFICES ASSUME NEW t \in Timeouts PROVE c.timeout[t] > 0
    BY SMT
  <2>1. e.timeout[t] \in Text
    BY SMT DEF Environment
  <2>2. DefaultTimeout(t) \in Int /\ DefaultTimeout(t) > 0
    BY SMT DEF DefaultTimeout, Timeouts, Second
  <2> QED
    BY <2>1, <2>2, SMT DEF Load, durationEnv, Text
<1>2. c.driver.exact /\ (c.driver.lower \in Drivers <=>
                           (e.driver.ok => e.driver.value.lower \in Drivers))
  <2>1. e.driver.value \in Spelling
    BY DEF Environment, Spelled
  <2>2. c.driver = ToLower(env(e.driver, [lower |-> "postgres", exact |-> TRUE]))
    BY DEF Load
  <2>3. CASE e.driver.ok
    <3>1. c.driver = [e.driver.value EXCEPT !.exact = TRUE]
      BY <2>2, <2>3 DEF env, ToLower
    <3>2. c.driver.exact /\ c.driver.lower = e.driver.value.lower
      BY <2>1, <3>1 DEF Spelling
    <3> QED
      BY <2>3, <3>2
  <2>4. CASE ~e.driver.ok
    <3>1. c.driver = [[lower |-> "postgres", exact |-> TRUE] EXCEPT !.exact = TRUE]
      BY <2>2, <2>4 DEF env, ToLower
    <3>2. c.driver.exact /\ c.driver.lower = "postgres"
      BY <3>1
    <3> QED
      BY <2>4, <3>2 DEF Drivers
  <2> QED
    BY <2>3, <2>4
<1>3. /\ c.appName > 0 /\ c.port > 0
      /\ c.secret >= 16 <=> (e.secret.ok => e.secret.value >= 16)
  <2>1. e.appName \in Measured /\ e.port \in Measured /\ e.secret \in Measured
    BY DEF Environment
  <2> QED
    BY <2>1, SMT DEF Load, env, Measured
<1>4. 10 <= c.limit /\ c.limit <= 100000 <=>
        (e.limit.ok /\ e.limit.value > 0 => 10 <= e.limit.value /\ e.limit.value <= 100000)
  BY SMT DEF Load, intEnv, Environment, Text
<1>5. Validate(c) <=> /\ c.driver.exact /\ c.driver.lower \in Drivers
                      /\ c.appName > 0 /\ c.port > 0
                      /\ c.secret >= 16
                      /\ 10 <= c.limit /\ c.limit <= 100000
                      /\ \A t \in Timeouts : c.timeout[t] > 0
  BY SMT DEF Validate
<1> HIDE DEF c
<1> QED
  BY <1>1, <1>2, <1>3, <1>4, <1>5 DEF c

\* What the limiter and Login rely on: Load hands on a limit and a life of
\* tokens that are positive, although Validate does not look at TOKEN_TTL.
THEOREM AcceptedConfig ==
  ASSUME NEW e \in Environment, Validate(Load(e))
  PROVE  Load(e).limit \in Nat \ {0} /\ Load(e).ttl \in Nat \ {0}
<1>1. e.ttl \in Text /\ e.limit \in Text
  BY SMT DEF Environment
<1> QED
  <2>1. Load(e).limit = intEnv(e.limit, 180)
    BY SMT DEF Load
  <2>2. Load(e).ttl = durationEnv(e.ttl, 28800 * Second)
    BY SMT DEF Load
  <2>3. 28800 * Second \in Nat \ {0}
    BY SMT DEF Second
  <2> QED
    BY <1>1, <2>1, <2>2, <2>3, SMT DEF intEnv, durationEnv, Text

\* Login and Authenticate: a token is never valid for longer than TOKEN_TTL,
\* and is valid when it is issued if TOKEN_TTL is at least a second.
THEOREM TokenLife ==
  ASSUME NEW at \in Nat, NEW ttl \in Nat \ {0}
  PROVE  /\ \A now \in Nat : Valid(now, Expiry(at, ttl)) => now < at + ttl
         /\ ttl >= Second => Valid(at, Expiry(at, ttl))
  BY SMT DEF Valid, Expiry, Second

\* A TOKEN_TTL of less than a second is accepted, and tokens may then be
\* expired when they are issued.
THEOREM TokenBornExpired ==
  ASSUME NEW at \in Nat, NEW ttl \in Nat \ {0}, (at % Second) + ttl < Second
  PROVE  ~ Valid(at, Expiry(at, ttl))
  BY SMT DEF Valid, Expiry, Second

\* List and ListAudits: the clamp of normalizePage changes nothing that
\* bindPage lets through, although the two disagree on a page over 100.
THEOREM PageClampedOnce ==
  ASSUME NEW q \in Query
  PROVE  /\ normalizePage(bindPage(q)) = bindPage(q)
         /\ bindPage(q).page >= 1 /\ bindPage(q).size \in 1..100
         /\ q.size > 100 => normalizePage(q).size # bindPage(q).size
  BY SMT DEF normalizePage, bindPage, Query

\* Up to MaxInt nothing is lost.
LEMMA WrappedExact ==
  ASSUME NEW n \in Nat, n <= MaxInt
  PROVE  Wrapped(n) = n
<1>1. ASSUME NEW m \in Nat, m < Word PROVE m % Word = m
  BY <1>1, SMT DEF Word
<1>2. n - MinInt \in Nat /\ n - MinInt < Word
  BY SMT DEF MaxInt, MinInt, Word
<1>3. (n - MinInt) % Word = n - MinInt
  BY <1>1, <1>2
<1> QED
  BY <1>3, SMT DEF Wrapped, MinInt

\* List: a page skips exactly the pages before it, if they are no more than a
\* hundredth of the largest int.
THEOREM OffsetExact ==
  ASSUME NEW q \in Query, 100 * q.page <= MaxInt
  PROVE  LET p == normalizePage(bindPage(q))
         IN Offset(p) = (p.page - 1) * p.size /\ Offset(p) >= 0
<1> DEFINE p == normalizePage(bindPage(q))
<1>1. /\ p.page \in Nat /\ p.page >= 1 /\ 100 * p.page <= MaxInt
      /\ p.size \in Nat /\ p.size <= 100
  BY SMT DEF normalizePage, bindPage, Query, MaxInt
<1> HIDE DEF p
<1>2. p.page - 1 \in Nat /\ 100 * (p.page - 1) <= MaxInt
  BY <1>1, SMT DEF MaxInt
<1>3. (p.page - 1) * p.size \in Nat /\ (p.page - 1) * p.size <= 100 * (p.page - 1)
  BY <1>1, <1>2, SMT
<1>4. (p.page - 1) * p.size <= MaxInt
  BY <1>2, <1>3, SMT DEF MaxInt
<1>5. Offset(p) = (p.page - 1) * p.size
  BY <1>3, <1>4, WrappedExact DEF Offset
<1> QED
  BY <1>3, <1>5 DEF p

\* Beyond, the product wraps: there are pages, which no layer refuses, that skip
\* nothing, like the first page, or a negative number of rows.
THEOREM OffsetWraps ==
  LET far == 4611686018427387905
  IN /\ far \in Int64
     /\ Offset(normalizePage(bindPage([page |-> far, size |-> 0]))) = 0
     /\ Offset(normalizePage(bindPage([page |-> far, size |-> 2]))) < 0
<1> DEFINE far == 4611686018427387905
<1>1. far \in Int64
  BY SMT DEF Int64, MaxInt, MinInt
<1>2. /\ normalizePage(bindPage([page |-> far, size |-> 0])) = [page |-> far, size |-> 20]
      /\ normalizePage(bindPage([page |-> far, size |-> 2])) = [page |-> far, size |-> 2]
  BY SMT DEF normalizePage, bindPage
<1>3. (far - 1) * 20 = 92233720368547758080 /\ (far - 1) * 2 = 9223372036854775808
  BY SMT
<1>4. Wrapped(92233720368547758080) = 0 /\ Wrapped(9223372036854775808) < 0
  BY SMT DEF Wrapped, MinInt, Word
<1> QED
  BY <1>1, <1>2, <1>3, <1>4 DEF Offset

\* AuditSummary and EntityHistory: the window and the limit that the request
\* is given are those the repository uses.
THEOREM AuditClampedOnce ==
  ASSUME NEW n \in Int
  PROVE  /\ ClampWindow(WindowHours(n)) = WindowHours(n) /\ WindowHours(n) \in 1..2160
         /\ ClampLimit(NormalizedLimit(n)) = NormalizedLimit(n)
         /\ NormalizedLimit(n) \in 1..100
  BY SMT DEF ClampWindow, WindowHours, ClampLimit, NormalizedLimit
=============================================================================
