# Print colour calibration release: specification and proofs

This directory specifies the print colour calibration and release system in
TLA+: a Go service (gin, gorm on MySQL or PostgreSQL, optionally Redis) that
keeps press units, print runs, colour proofs and release decisions, and the
React workbench through which operators and reviewers use it. The modules are
checked with TLC on small instances, and every safety property a run checks is
proved with TLAPS for every size.

Paths below are relative to the repository. `backend/` stands for
`src/backend/internal/`, `frontend/` for `src/frontend/src/`.

## 1. The system

### Components

| component | code | state | operations |
|---|---|---|---|
| aggregate writes | `backend/service/*.go`, `backend/repository/*.go`, `backend/handler/*.go` | one table per aggregate; two revision tables | Create, Update, Transition, Delete of four aggregates |
| rules | `backend/constants/status.go`, `backend/middleware/auth.go` | none | status graphs, role ranks, route guards, the review gate |
| audit log | `backend/repository/security.go`, `backend/service/security.go` | table `audit_logs` | append; list, summary and history for reviewers |
| reads | `backend/repository/base.go`, `backend/handler/system.go` | none | Get with revisions, List with search and paging, overview |
| login and tokens | `backend/service/security.go`, `backend/middleware/auth.go` | table `users`; signed tokens | Login, Authenticate |
| rate limiter | `backend/middleware/ratelimit.go` | Redis counters; a map of buckets per process | count a request, fall back, clean up |
| startup and seeding | `src/backend/cmd/server/main.go`, `backend/database/database.go` | the tables | connect, migrate, seed, connect Redis, serve, shut down |
| entity stores and page | `frontend/stores/factory.ts`, `frontend/components/EntityPage.tsx` | rows, spinner, error; query and dialog | load, createRecord, transition, search, paging |
| browser session | `frontend/hooks/useAuth.ts`, `frontend/api/client.ts` | token in localStorage, session in a store | initialize, switchRole, 401 |
| deployment | `src/docker-compose.yml` | none | restart policy, health checks |

### How they interact

A request of `/api` passes the rate limiter, then Authenticate, then the guard
of its route, then a handler, which binds the body and calls a service. The
service reads the row, checks status, role and target on what it read, and
calls the repository, which writes the row by compare-and-swap on `version`
(for print runs and release decisions in one transaction with a revision). The
service then appends an audit entry in a statement of its own and reads the row
again for the response. No lock is held between these statements and nothing
keeps another request, of this process or another, from running between them.
The version in the WHERE clause of the write is all there is.

The page loads a list through its store, offers one target status for each row
and posts the confirmed transition with the version the row was shown with. It
shares nothing with the service but the rows and a copy of the status graphs.

Instances share the database and Redis. There is no persistent state elsewhere,
so a restart loses the buckets of the limiter and whatever requests were under
way.

The tabs of a browser share one session in localStorage, which every request
reads and every 401 removes; each tab has a copy of it in its store, which
decides what it shows. When another tab switches the role, this one goes on
offering what its own role may do and sends the token of the other. Nothing on
the server remembers a session: the token names the role, and is believed until
it expires.

### What is hard, and what makes each part correct

| part | what is hard | what must hold |
|---|---|---|
| writes | checks on a row read in an earlier statement; a write of all columns of that row; lost acknowledgements, failing audit inserts, restarts | one winner per version; every version has its revision, the last with the row's status and the fields revisions copy; the gate and the freeze hold for the row that is overwritten; answers and audit entries tell the truth |
| startup | two instances seeding at once; a start interrupted between tables; outages; soft-deleted rows the count does not see but the unique index does | what serves is seeded; nothing deleted returns; starting succeeds in the end |
| rate limiter | the minute is read before the call; calls that fail after they took effect; a cleanup at the cap | the limit holds per key and window; nobody within it is refused; the map does not grow over time |
| page | overlapping calls whose answers overtake each other; a dialog over a stale row; a switch of roles in the middle; a token that another tab has replaced | a confirmed transition is what happens; the spinner stops; what is offered is refused only after another write or for another tab's token; the table shows what was asked for |
| reads | several statements without a transaction; offset paging over a moving order; entries stamped after their writes by requests that race | a list walked to its end covers what nobody touched; the numbers of a summary are of one window; a record comes with its revisions; a history keeps the order of requests that followed each other |
| session | a token outlives the role it names; a login is under way while its user is changed; a 401 clears a session other than the one that was refused; two tabs | nobody acts in a lost role for long; a valid session is lost to nothing of its own; a session comes in the end |
| configuration and query bounds | two layers default and clamp by different rules | what the second one gets, it does not change; what is accepted is usable |

`PROJECT.json` lists the hazards line by line, with the properties that would
catch them and the ones no property covers yet.

## 2. Modules

```
Policy ── Records ─┬─ AtomicRecord            what a record service promises
   │               └─ RecordService           how the services do it
   │                    ├─ RecordServiceProofs ── RecordAnswersProofs
   │                    └─ MCRecordService
   ├─ Session ── SessionProofs                tabs, logins, tokens
   └─ Console ─┬─ ConsoleProofs               the page over an atomic service
               └─ MCConsole
Quota ── RateLimiter ─┬─ RateLimiterProofs    a quota, and how it is kept
                      └─ MCRateLimiter
Reads ─┬─ ReadsProofs                         readers beside writers
       └─ MCReads
Catalog ── Startup ── StartupProofs             tables, and who seeds them
Policy, Inputs ── PolicyProofs                environment, pages, token life
```

**Policy** is the data of the rules: the four graphs, the ranks, the guards, and
one record for each aggregate (`PressUnitService`, ...). The four Go services
are the same procedure over different rules (which statuses are gated, frozen
or deletable, whether writes keep revisions), so the procedure is written once
and takes such a record as the constant `Service`.

**Records** is the stored data. A row is its life (absent, live, soft-deleted),
status, version, and its business fields as one member of `Payload`. A revision
keeps the version, the status and a part of these fields, `Copied`: that of a
print run leaves out `Description` and `EffectiveAt`
(`backend/repository/print_run.go:61-69`), that of a release decision also
`Facility`, `Owner` and `Category` (`backend/repository/release_decision.go:61-68`).
A code stands for an id, as the unique index keeps deleted codes taken.

**RecordService** is the write path. Each request has a `pc` that names the
statement it runs next:

| action | code | what it does |
|---|---|---|
| `ReceiveCreate`, `ReceiveUpdate`, `ReceiveTransition`, `ReceiveDelete` | `Register` of the handlers, `RequireMinimumRole`, `RequireRoles` | the role of the route, then the service; any role, target and expected version |
| `Load` | `Get` and the checks of `Update`, `Transition`, `Delete` | not found, locked, forbidden, invalid, in the order of the code, or a snapshot |
| `Write` | `Store.Create`, `compareAndUpdate`, `UpdateWithRevision`, `Store.Delete` | the row and its revision in one step, as the transaction makes it |
| `Refuse` | no row affected, duplicate code, blank fields | conflict, not found, error, invalid |
| `Audit`, `AuditFails` | `Audit` | the entry; Create and Update drop its error, Transition and Delete answer with it |
| `Reload` | the `Get` that ends `Update` and `Transition` | the row the client is answered with |
| `StatementFails`, `WriteUnacknowledged`, `Restart` | faults | a statement fails; a commit is applied and not acknowledged; the process stops with all its requests |

`snap` is the item the service read, `reply` the outcome; `committed` is a
history variable that records that a request's write took effect.
`Lookahead` says how far clients may run ahead: with 0 a client sends only
versions that exist when its request arrives, with 1 also the next one.

**AtomicRecord** is what clients may rely on: each accepted write happens at one
instant, on the row as it is then. It has no requests and no snapshots.
`Implements` of RecordService (`Atomic == INSTANCE AtomicRecord WITH ...`) says
that the detailed module refines it under the identity on `row` and `revisions`,
when clients are disciplined. What remains of that when they are not is stated
step by step: `AtomicUnlessAhead` (a step of a request that did not send a version
ahead of the one it read is a step of AtomicRecord), `CheckedAtWrite` (the rules
allowed the write on the row that was read) and `WrittenUnlessAhead` (what others
see of the step is `Written` of Policy, from which Console takes its other users).
AtomicRecord's Delete is unguarded by status on purpose; section 5 says why.

**Startup** is `main` and `database.Open`, for several instances on one
database: the connection loop with its attempts, `Seed` as a count and an insert
per table, Redis, serving, clients that create and delete, kills, outages, and
the container's restart. **Catalog** is what a table promises: it is seeded once,
all seeds together, or not at all, codes are created and deleted, and a code that
was deleted is never used again. `Implements` says that the tables of Startup are
such catalogs, whoever seeds them and however often. `Healthz` is the health check: it answers 200 when the
instance serves and the database and Redis answer.

**RateLimiter** is `ratelimit.go` with time in windows of a minute: a request
formats the counter's name (`Arrive`), Redis counts it or fails with or without
having counted (`Incr`, `IncrFails`), the bucket counts it under the mutex
(`IncrementLocal`), counters expire, minutes pass (`Tick`).

**Quota** is what a limit promises: a meter grants to one taker after the other,
to at most `Limit` of them, for good. `Implements` of RateLimiter says that the
limiter is such a quota, with a meter for each key and window in Redis and for
each key and window of a backend. A request that Redis counted and whose answer
was lost takes a place of the counter and is granted by the local meter.

**Console** is the page. A call is a promise chain with a `stage`: a GET, or a
POST and then a GET. Chains overlap and end in any order. The service is one
record, live or deleted, with the checks of `Transition` in one step; a refusal is
any answer that one of the service's statements could give (`Refusals`). `role`
is the one in the store of the tab, from which the page makes its offers; a POST
carries the `Token` that `request` finds in localStorage, which may be of any role
that another tab has logged in with, and the service goes by that. A token that is
gone or has expired is one of the ways not to be served (`Unreached`). Lost
answers, failures and other users are actions; another user makes of the record
whatever one write of a service may (`Written`, of Policy). Section 6 says
why that is what RecordService does.

**Session** is who a browser is. A tab is `opened`, takes over the session in
localStorage or logs in as the first user (`Initialize`), and switches roles by
logging in as another (`SwitchRole`). A login reads the user (`FindUser`),
compares the password, which takes time, and signs (`Sign`); in between the
operators of the database may change the user. Requests carry the token that
is stored when they are sent and are answered in any order.

| action | code | what it does |
|---|---|---|
| `Open`, `Initialize`, `SwitchRole` | `useAuth.ts` | load the store from localStorage; take over what has come since, or log in |
| `FindUser`, `Sign`, `LoginFails`, `LoginAnswer` | `Login` of handler and service, the `try`/`finally` of useAuth | the active user of that name, the claims, the session saved in both places |
| `Send`, `Serve`, `Fail`, `Answer` | `client.ts`, `router.go`, `Authenticate`, the limiter | a request, its outcome, and what a 401 clears |
| `ChangeUser`, `Tick`, `Toggle` | none | a user is changed, time passes, the server comes and goes |

**Reads** is one reader beside writers whose write is one step, followed by the
stamp and the insert of its audit entry. `Get`/`Preload` are the two statements
of a row and its revisions, `Count`/`Find` those of a page, `Query` those of a
summary, `History` the one of a history. A walk asks for the next page while
there is one by the total it was told last. `steady`, `left` and `came` are
history variables that watch what changes during a walk.

**Inputs** is the arithmetic of what comes from outside: `Load` and `Validate` of
the environment (a driver is a word in some case, which `ToLower` takes away; of
`APP_NAME`, `PORT` and the secret only the length matters; `env` replaces what is
unset or blank), the two clamps of a page, a window and a limit, and the expiry
of a token in whole seconds. It has no state and no run; PolicyProofs proves
theorems about it.

Some properties are theorems that no run lists: `WrittenUnlessAhead`, `NeverAhead`,
`StuckStays`, `DeletedStays` and `StaysDown`. `AuditSound` and, in decision, `RevisionChain` are
checked as conjuncts of `IInv`.

Operators named `X_Y` in a module (`Matches_IdOnly`, `Counted_NoReset`) are
slips: wrong forms of the definition `X` that a change to the code could bring
in. `Next` uses none of them; put in the place of `X`, each makes TLC report
the property `PROJECT.json` names beside it.

## 3. Runs

Deadlock is checked in every run; where a system comes to rest, a `Terminating`
stutter says so. Each run ends within five minutes on two workers.

| run (cfg) | instance | what it shows |
|---|---|---|
| decision (`MCDecision`) | 2 requests of any kind and role, 1 release decision, 3 payloads of which two differ only in what no revision copies, faults | types, snapshot, audit truth, answers, gate, what each write was checked on, refinement of AtomicRecord, and the inductive invariant of the proofs (with revision chain and audit soundness) |
| print_run (`MCPrintRun`) | 3 requests, 1 print run, 2 payloads that revisions tell apart, clients one version ahead, no faults | revision chain, one winner and the row answered with do not need disciplined clients; only a request that is ahead writes otherwise than atomically; every committed write is audited |
| startup (`MCStartup`) | 2 instances, users and 2 aggregates, 2 seeds, 1 more code, 2 attempts, 2 kills, Redis | seeded when serving, refinement of Catalog, the inductive invariant, starting succeeds |
| rate_limit (`MCRateLimit`) | 3 requests of 3 keys, 2 instances with Redis and 1 without, limit 1, cap 2, 3 windows | limit per counter and per bucket, refinement of Quota, no refusal within the limit, the map is bounded |
| console (`MCConsole`) | 3 chains, all 4 pages, viewer, operator and reviewer in the store and in the token, 3 versions | the spinner stops; a confirmed transition is what happens; what is offered is refused only after another write or for another tab's token; no dialog outlives a switch of roles |
| session (`MCSession`) | 2 tabs, 1 request beside their logins, 1 user of 2 roles, tokens of 1 tick, logins of up to 1, 1 change, 2 ticks | roles are not outlived, sessions are lost to others only, a tab that waits for no login has a session and company, sessions come |
| reads (`MCReads`) | 2 writers, 3 records of which 2 are seeded, 1 row per page, 1 entry per history, a window of 1 tick, 2 ticks | revisions, walks, summaries and histories as seen beside writers |
| delete_race, unaudited, frozen_race, emptied, shows_query | as small as the disagreement allows | one property each, violated: section 5 |

**Why the bounds are enough to be interesting.** A lost update, a stale check or
a double winner needs two requests on one record, and TLC lets them take any
two kinds, roles and interleavings from every seeded status, so the second finds
every graph edge in use. Three requests (print_run) add a writer
between the read and the write of another while a third waits. Two payloads with different
copies tell a lost field, or a revision made from the row that was read, apart
from an unchanged one, and a third with a copy in common is a change that a
revision does not show; versions are not bounded by the model but by the number
of requests. The print_run run keeps to administrators, who may send any request,
and the console run to three roles: a viewer, who is offered nothing and whose
token the routes of writes refuse, and the two the page makes different offers
to (to an administrator it makes those of a reviewer). Press units and colour
proofs have no run of the write path of their own: the theorems cover every
service that satisfies `ServiceAssumption`, and PolicyProofs shows that all four
do. Two aggregates beside the users are enough for a start to be interrupted
between tables; two seeds and one extra code let a table be half-deleted.

In rate_limit three requests with limit 1 let one be refused while another
falls back and a third comes late; three windows and `MaxDelay = 1` let an INCR
come a minute late and its counter expire, and three keys with `Cap = 2` make the
cleanup run with old and with current buckets. In session a token of one tick
expires while a request with it is on its way and a login is stored before the
answer comes; two tabs with one request beside their logins show every way to
lose a session. In reads a page of one row makes every walk turn pages, and two
writers are enough to touch, create or delete a row on either side of where the
reader stands; a history of one entry shows what its limit cuts off. Three
chains of the console let one overtake another while a third is under way.

**Symmetry** is used for requests, keys, instances and chains, which no definition
tells apart; payloads are not symmetric, as `Copied` tells them apart. The runs that check
liveness (startup, emptied, session) use none.

**Bounds in the guards.** `MaxWindow`, `MaxVersion` and `MaxTime` (RateLimiter,
Console, Session and Reads) stop the clock and the writers; `MaxKills` bounds
the kills, without which no instance need ever finish a start, and `MaxChanges`
the changes of users. `MaxDelay` and `MaxLogin` are no bounds of the search:
they are the assumptions that a call to Redis ends, by its client's timeouts,
before the second next minute begins, and that a password is compared in a
bounded time. `SharedLimit` fails for `MaxDelay = 2`, because the counter of the
named minute may have expired.

## 4. Fairness

`Startup!FairSpec` states weak fairness of `Run(i)`, the code of instance `i`
from its start to serving. It says that a process that can run its next
statement does, and that a container whose process has ended is started again,
which is `restart: unless-stopped` (`src/docker-compose.yml:44`). Nothing
is assumed of clients, kills, the database or Redis; `ReadyUnlessEmptied` only
asks for readiness once these stay up.

`Session!FairSpec` states weak fairness of `Run(t)`, what a tab does by itself
and what the server does for its login: effects run, a login that can be served
is, one whose server is gone fails, and promises that are settled are continued.
Nothing is assumed of users, of other requests, of the clock or of the server
staying up. `SessionComes` needs no retry in the code: the finally clause of a
failed login mounts the page, and the page mounts an effect that logs in.

The write path has no liveness property. A request that finds its row moved is
answered and not retried, so all that could be said is that a goroutine that may
run does.

## 5. Where the code and its documents disagree

Five runs each check one statement of the repository and end in a
counterexample.

| run | statement | what happens |
|---|---|---|
| delete_race | a resolved decision is not deleted (`backend/router/router_test.go:76-78`) | `Delete` checks the status of a row it read and deletes by id (`backend/repository/base.go:73`): a draft released in between is deleted after its release |
| unaudited | every status change is in the audit log (`src/README.md:44`) | the entry is inserted after the write has been committed: when it fails, the change stays without one (`backend/service/release_decision.go:115`) |
| frozen_race | released and quarantined decisions are not edited in place (`src/README.md:46`) | `Update` checks a row it read and writes all columns of it, under the version the client sent: a client that sends the next version overwrites a release made in between (`backend/service/release_decision.go:87`). With `Lookahead = 0` it cannot happen; with any, it is the only way (`CheckedAtWrite`): both are proved |
| emptied | the service comes up again after a restart (`src/docker-compose.yml:44`, `src/runtime_smoke.json:12`) | when all rows of a table are soft-deleted, the count finds none and the insert collides with the deleted codes: no start succeeds any more (`backend/database/database.go:129`), and once no instance serves none ever will, which is proved |
| shows_query | the table is the page and search shown beside it (`src/README.md:49`, `frontend/components/EntityPage.tsx:69`) | a transition reloads page 1 without the search while the page shows another one, and the answer that comes last wins (`frontend/stores/factory.ts:38`) |

More was met on the way that is no disagreement with a document of the repository.
A tab that was opened while another one logged in takes over its session
and shows its spinner until it is loaded again (`frontend/hooks/useAuth.ts:26`),
which is what `LoadingIsLogin` excepts: a tab whose spinner is about no login has
a session, and is not the only tab. A `TOKEN_TTL` below a
second is accepted and issues expired tokens (`TokenBornExpired`). The audit log
is paged by `created_at` alone, so entries of one stamp may be shown twice or
not at all, which is why `WalkCovers` excepts them. A revision leaves out some of
the fields an update may change, so an update of these alone leaves a revision
that differs from the one before in version and writer only; `src/README.md:45`
promises that each version keeps its evidence, actor, request id and reason, which
it does, and `RevisionChain` claims no more of the fields than `Copied`. And a
transition that a tab offers is forbidden without any write in between when
another tab has switched to a role that may not make it, which is what
`OfferAccepted` excepts.

## 6. Proofs

TLAPS proves, for any sets of requests, records, payloads, keys, tabs, chains,
roles and instances, every one of the four services and pages, with and without
faults:

| theorem | says | assumes |
|---|---|---|
| `TypeCorrect` | `Spec => []TypeOK` | |
| `RevisionChainInvariant` | one revision for each version up to the row's, the last with the row's status and copied fields | |
| `OneWinnerInvariant` | one winner per version | |
| `SnapshotCurrentInvariant` | the checks were made on the row that is overwritten | `Lookahead = 0` |
| `GateHeldTheorem` | only reviewers' writes pass the gate | `Lookahead = 0` |
| `FrozenKeptTheorem` | frozen records are not edited | `Lookahead = 0` |
| `CheckedAtWriteTheorem` | each write was allowed on the row that was read, which is the row it overwrites unless its request was ahead | |
| `AtomicUnlessAheadTheorem` | each step is one of AtomicRecord, except writes of requests that were ahead | |
| `WrittenUnlessAheadTheorem` | and changes a row as `Written` says | |
| `AuditTruthInvariant` | audit entries name the true statuses and writer | `Lookahead = 0` |
| `RefinesAtomicRecord` | `Spec => Atomic!Spec` | `Lookahead = 0` |
| `InductiveInvariant` | `IInv` is inductive and holds always | `Lookahead = 0` |
| `ReplyHonestInvariant` | answers claim no write that did not happen, refusals hide none | |
| `AuditSoundInvariant` | an audit entry is of a write that took effect, says what was asked for, and is the only one of its request | |
| `AckedAuditedInvariant` | what was answered with success is audited (Transition, Delete) | |
| `ReplyNotOlderInvariant` | the row answered with is beyond the expected version | |
| `AuditCompleteInvariant` | every committed write is audited when its request is over | `~Faults` |
| `StartupInvariant`, `StartupTypeCorrect`, `ServingSeededInvariant`, `DeletedStaysTheorem` | startup's invariant, seeded when serving, deleted stays deleted | |
| `StaysDownTheorem` | once no instance has got past an emptied table, none ever serves again | |
| `CatalogImplemented` | `Spec => ` each table is a Catalog | |
| `Invariance`, `RateTypeCorrect`, `LocalLimitHolds`, `RefusedHolds`, `MapBoundedHolds` | the limiter's invariant, the limit of a backend, refusals, the size of the map | |
| `SharedLimitHolds`, `QuotaImplemented` | the limit over all backends; `Spec => AsQuota!Spec` | `MaxDelay <= 1` |
| `SessionInvariance`, `SessionTypeCorrect`, `LoadingIsLoginHolds`, `StuckStaysHolds`, `RoleWasHeldHolds`, `LostToOthersHolds` | the session's invariant and what it is for | |
| `ReadsInvariance`, `ReadsTypeCorrect`, `RevisionsReachHolds`, `SummaryNestedHolds`, `HistoryOrderHolds`, `WalkCoversHolds` | the same of the reads | |
| `ConsoleInvariance`, `ConsoleTypeCorrect`, `LoadingEndsHolds`, `DialogOfRoleHolds`, `ConfirmedTruthHolds`, `OfferAcceptedHolds`, `NeverAheadHolds` | the same of the page | |
| `PressUnitWellFormed` and three more | the rules satisfy `ServiceAssumption` | |
| `LoadRefuses`, `AcceptedConfig` | what a process refuses, and what it hands on | |
| `TokenLife`, `TokenBornExpired`, `PageClampedOnce`, `AuditClampedOnce` | expiry in whole seconds; double clamps | |
| `OffsetExact`, `OffsetWraps` | up to which page the 64 bits of an offset suffice, and that they do not beyond | |

The constants' assumptions are named where they are declared
(`ServiceAssumption`, `RoleAssumption`, `LookaheadAssumption`, ...) and TLC
evaluates them in every run. The only assumption with content is
`ServiceAssumption`, which PolicyProofs discharges for the four services. Its
least obvious conjunct, that no status is its own successor, keeps the two kinds
of write apart.

**The argument for the write path.** `RevisionChain` is inductive with the
types: a committed compare-and-swap matched the version of the live row, so the
revision it adds is the one after the last and carries the status it wrote and
the copied part of the fields it wrote. That
says nothing about which row the checks were made on, so it needs no discipline
of clients. `OneWinner` needs `WinnerInv`: a committed write leaves the row
beyond the version it expected, for good, so a second write that expects the
same version no longer matches.

`SnapshotCurrent`, which gate, freeze, audit and refinement rest on, is not
inductive. What it needs comes in two parts. `SnapshotInv`: while a request
stands before its write, what it read is not ahead of the row, and at the same
version they are the same row. It holds for any clients. `FreshnessInv`: the
version it expects is not ahead of what it read. That is where `Lookahead = 0`
enters, in `ReceiveUpdate` and `ReceiveTransition`; the frozen_race run shows that
nothing weaker will do. If the write then matches, the three versions are equal
and so are the rows. Without discipline the second part is a premise about the
one request that writes: `CheckedAtWrite` and `AtomicUnlessAhead` are proved from
`SnapshotInv` alone. `StageInv` carries what the
`pc` implies (the refusal is `None` before the write, the operation behind each
label), `VersionInv` that rows that exist have a version, and `RecordedInv`
keeps, from the commit to the audit, the two revisions the entry will name, so
that `AuditTruth` holds when the entry is written. Their conjunction is `IInv`,
which the decision run checks with TLC and `InductiveInvariant` proves.

The answers rest on `AnswerInv`: a request past its write has committed, is
answered only once, and a transition is audited before it is reloaded. It needs
nothing of the clients, and faults only end a request earlier, with `error` or
`lost`, which promise nothing. `AuditComplete` is the one claim that faults
break, which is the unaudited run. `AuditSound` needs `EntryInv`, that a request
with an entry is past its audit: so it has committed, keeps what it asked for,
and writes no second one.

**The argument for startup.** `ServingSeeded` needs that the tables an instance
has passed stay seeded while others seed, create and delete (`ProgressInv`), and
that is kept because nothing leaves the union of live and deleted codes.
`DeletedStays` needs that a code is never in both sets and that the insert is
refused when any seed is in either (`TableInv`). The same facts make each step of a
table a step of Catalog (`CatalogImplemented`): an insert that succeeds found no
seed in use, so it is the only one there ever is. `StaysDown` is the safety side of
the emptied run: a table that is empty but for deleted rows stops every instance
that has it before it (`Lost`), and clients, who could fill it again, need one that
serves.

**The argument for the limiter.** Both limits count requests: a counter, or a
bucket of this window, is at least the number of requests it admitted
(`SharedInv`, `LocalInv`), and one is admitted only when the count after it is at
most `Limit`. For Redis that can only break when a counter expires while its
name may still be used; a name is used for at most `MaxDelay` windows
(`RequestInv`) and its counter lives for two after its last INCR, so
`MaxDelay <= 1` is what is needed, and `MaxDelay = 2` breaks it. In the other
direction, counters and buckets count at most the requests that reached them
(`CounterInv`, `BucketInv`), which gives the types and that nobody is refused
alone. For `QuotaImplemented` each step is a grant or a stutter: the meter of a
request is fixed when it is answered, and the limits bound what a meter granted.

**The argument for the session.** Every token that is stored, on its way or in an
answer is backed (`TokenInv`): its user was active in its role at a moment less
than `TTL + MaxLogin` before it expires. `Sign` establishes that from what
`FindUser` read (`LoginInv`), `ChangeUser` keeps it because it writes down when
the role was lost (`HeldInv`), and Authenticate looks at the expiry alone.
`LoneInv` says what a spinner is about: a login under way or about to start, or,
with a second tab, a session that was found when the login was due. `Initialize`
never resets `loading` in that case and nothing else does, which is `StuckStays`.

**The argument for the reads.** What a reader was told is never ahead of what is
stored: versions and the log only grow, so a second statement sees at least what
the first one saw (`GetInv`, `SumInv`); for a summary that needs that all
queries look back to the same moment. For a history it needs that an entry is
stamped within its request (`StampInv`). `WalkInv` is the argument for paging: an
item that was there from the start, was not touched and was not shown yet has
at least as many items ahead of it as the pages so far have places, because
items that are touched move ahead of it and none leaves. At the end there are
no more places than items counted, so nothing is left unseen. `left` and `came`
are exactly what breaks it.

**The argument for the page.** A row the page has, in its table, its dialog or a
request, is never ahead of the record and equal to it at the same version
(`TableInv`, `DialogInv`, `CallOK`). The version goes with the transition, so
one that takes effect finds the record the dialog showed (`ConfirmedTruth`). One
that could be refused for its target finds a later record, and one that could be
refused for its role finds a later record or carries a token of another role than
the one the offer was made to (`OfferAccepted`): the page that made the offer and
the service agree on the graph and the gate, which is compared case by case, and a
dialog does not outlive a switch of roles in its tab (`DialogOfRole`).

**The two together.** Console takes the service to be one atomic record and other
users to make of it what `Written` allows. The first is justified by
`NeverAheadHolds`: the version the page sends is never ahead of the record, when it
is sent or later, so it is not ahead of the row RecordService reads for it, and
`AtomicUnlessAheadTheorem` makes its write an atomic one. `Refusals` admits what
the two statements of the service can answer between them: a check on the row as
it was, or a conflict with the row as it is. The second is
`WrittenUnlessAheadTheorem`, for users whose requests are not ahead either. What a
user who guesses versions may do to a record is the frozen_race run; it is not
shown to the page. The two modules are not composed in one specification: the step
from the one's theorem to the other's environment is made here, in words, over
the operator `Written` they share.

**The configuration.** `LoadRefuses` says that a process refuses its environment
for its driver, its secret or its limit alone, when they are given. A driver may be
written in any case. The other checks of `Validate` (an `APP_NAME` or `PORT` that
is blank, timeouts that are not positive) can never fail, since `env`, `intEnv` and
`durationEnv` replace such values before. `TOKEN_TTL` is not
validated: below a second, `TokenBornExpired` shows, a login may hand out a
token that Authenticate refuses at once.

**Only model-checked.** `ReadyUnlessEmptied` and `SessionComes`: liveness is out
of the prover's reach. The five violated properties have no theorem, as they are
false.

## 7. What is not modelled, and why

- *Formats, labels, envelopes, request ids, headers, logs*: no state and no
  control.
- *Passwords and signatures*: a login succeeds for an active user, a token is
  one the server signed. The page sends the one password all users have.
- *Overview*: four counts of four tables that no code relates to each other.
- *The number of distinct actors* in a summary, which is bounded by its total.
- *logout*, which no component calls, and `CreateUser`, which no code calls.
- *The dialogs of details and creation*, which touch no state but their own.
- *Pages beyond a walk* in Reads: `(page - 1) * pageSize` overflows for pages near
  the largest integer, which nothing bounds; `OffsetExact` and `OffsetWraps` of
  PolicyProofs say from where on.
- *Shutdown*: the end of a process cuts requests off at any statement, which
  includes what is left after the ten seconds of a graceful one.
- *Isolation*: each statement, or transaction of an update and an insert, is one
  step, on any of the three databases of `DATABASE_DRIVER`: MySQL in
  `src/docker-compose.yml`, PostgreSQL by default, SQLite in tests. An update
  waits for the row and evaluates its WHERE clause on the row as it was last
  committed, under PostgreSQL's READ COMMITTED as under InnoDB's REPEATABLE READ
  (whose snapshots are those of consistent reads, of which the transactions here
  have none before the update). The reads run outside transactions, each
  statement on a snapshot of its own; `Reads` says so.
- *Which tab left which token* in Console: it sends any role's, at any time, which
  is more than the tabs of Session can bring about, so what holds of Console
  holds of a page beside them.
- *The fields of a row one by one*: a payload is all of them, and of a revision
  only which payloads it tells apart is modelled. Its reason and request id are
  those of the request it names.
- *Console's list* is one record that every query finds until it is deleted; what
  paging covers is the subject of Reads.
- *Time in Session and Reads* is that of the server. Clocks of several backends
  that disagree would widen `RoleWasHeld` and `HistoryOrder` by the difference.

## 8. Plan

Done: the write path and what it promises; startup; the rate limiter as a quota;
the page; sessions; reads; configuration and query bounds; proofs of every
invariant and action property that a run checks.

What could be added:

1. The drain of a graceful shutdown with its deadline, if it can say more than
   `Restart` does.
2. Backends whose clocks disagree, for the minute of the limiter and the stamps
   of the audit log.
3. A composition of Session and Console: instead of any role's token, the one the
   tabs left; which requests of a page are sent without one after a 401, and what
   the page shows then.
