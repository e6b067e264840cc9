------------------------------- MODULE Inputs -------------------------------
(***************************************************************************)
(* The numbers that come from outside and what the code makes of them: the *)
(* environment of a process (config/config.go), and the page, limit and    *)
(* window of a query.  Each is defaulted, clamped or refused, some of them *)
(* twice, by different rules in different layers.                          *)
(*                                                                         *)
(* A text is [ok |-> TRUE, value |-> v] when v is what the code reads in it,*)
(* and ok is FALSE when it is unset, blank or does not parse: v is a number,*)
(* the spelling of a word, or the length of a text that is only measured,  *)
(* once the blanks around it are cut off.  Durations are in nanoseconds.   *)
(***************************************************************************)
EXTENDS Integers

Text == [ok : BOOLEAN, value : Int]

\* A text of which only the length matters.
Measured == [ok : BOOLEAN, value : Nat \ {0}]

\* How a word reads in lower case, and whether it is written in lower case.
Spelling == [lower : STRING, exact : BOOLEAN]

Spelled == [ok : BOOLEAN, value : Spelling]

-----------------------------------------------------------------------------
(* The environment.                                                        *)

Drivers == {"postgres", "mysql", "sqlite"}

Second == 1000000000

\* The durations Validate looks at; TOKEN_TTL is not among them.
Timeouts == {"startup", "shutdown", "readHeader", "read", "write", "idle"}

DefaultTimeout(t) ==
  CASE t = "startup"    -> 35 * Second
    [] t = "shutdown"   -> 10 * Second
    [] t = "readHeader" -> 5 * Second
    [] t = "read"       -> 15 * Second
    [] t = "write"      -> 20 * Second
    [] t = "idle"       -> 60 * Second

Environment ==
  [appName : Measured, port : Measured, driver : Spelled, secret : Measured,
   ttl : Text, limit : Text, timeout : [Timeouts -> Text]]

env(raw, fallback) == IF raw.ok THEN raw.value ELSE fallback

intEnv(raw, fallback) == IF raw.ok /\ raw.value > 0 THEN raw.value ELSE fallback

durationEnv(raw, fallback) == IF raw.ok /\ raw.value > 0 THEN raw.value ELSE fallback

ToLower(word) == [word EXCEPT !.exact = TRUE]

\* The fallbacks of the texts that are measured have 31, 4 and 26 characters.
Load(e) ==
  [appName |-> env(e.appName, 31),
   port    |-> env(e.port, 4),
   driver  |-> ToLower(env(e.driver, [lower |-> "postgres", exact |-> TRUE])),
   secret  |-> env(e.secret, 26),
   ttl     |-> durationEnv(e.ttl, 28800 * Second),
   limit   |-> intEnv(e.limit, 180),
   timeout |-> [t \in Timeouts |-> durationEnv(e.timeout[t], DefaultTimeout(t))]]

Validate(c) ==
  /\ c.driver.exact /\ c.driver.lower \in Drivers
  /\ c.appName > 0
  /\ c.port > 0
  /\ c.secret >= 16
  /\ 10 <= c.limit /\ c.limit <= 100000
  /\ \A t \in Timeouts : c.timeout[t] > 0

-----------------------------------------------------------------------------
(* Pages.                                                                  *)

Query == [page : Int, size : Int]

\* handler: a page that is too large is one of the default size.
bindPage(q) ==
  [page |-> IF q.page < 1 THEN 1 ELSE q.page,
   size |-> IF q.size < 1 \/ q.size > 100 THEN 20 ELSE q.size]

\* repository: a page that is too large is one of the largest size.
normalizePage(q) ==
  [page |-> IF q.page < 1 THEN 1 ELSE q.page,
   size |-> IF q.size < 1 THEN 20 ELSE IF q.size > 100 THEN 100 ELSE q.size]

\* The int of the code has 64 bits; arithmetic on it is modulo Word, 2^64.
MaxInt == 9223372036854775807
MinInt == -9223372036854775808
Word   == 18446744073709551616

Int64 == {n \in Int : MinInt <= n /\ n <= MaxInt}

Wrapped(n) == ((n - MinInt) % Word) + MinInt

\* List: the rows it skips, of what normalizePage has made of the query.
Offset(q) == Wrapped((q.page - 1) * q.size)

-----------------------------------------------------------------------------
(* Audit reads.                                                            *)

\* dto: the hours of AuditSummaryQuery.
WindowHours(hours) == IF hours < 1 THEN 24 ELSE IF hours > 2160 THEN 2160 ELSE hours

\* service: AuditSummary, on hours.
ClampWindow(hours) == IF hours < 1 THEN 24 ELSE IF hours > 2160 THEN 2160 ELSE hours

\* dto: EntityHistoryQuery.
NormalizedLimit(limit) == IF limit < 1 THEN 20 ELSE IF limit > 100 THEN 100 ELSE limit

\* repository: EntityHistory.
ClampLimit(limit) == IF limit < 1 THEN 20 ELSE IF limit > 100 THEN 100 ELSE limit

-----------------------------------------------------------------------------
(* Session tokens: Login computes exp from the time and rounds it down to  *)
(* seconds, Authenticate admits a token before it.                         *)

Expiry(at, ttl) == (at + ttl) \div Second

Valid(now, exp) == now < exp * Second
=============================================================================
