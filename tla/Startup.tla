------------------------------ MODULE Startup ------------------------------
(***************************************************************************)
(* main and database.Open: the process connects, migrates, seeds each table*)
(* that has no live row, connects to Redis and serves; any failure on the  *)
(* way ends the process, and its container is started again (restart:      *)
(* unless-stopped).  Seeding a table is two statements, a count of its live*)
(* rows and an insert, between which the process may stop and another      *)
(* instance on the same database may do the same.  While an instance       *)
(* serves, clients create and soft-delete rows.                            *)
(*                                                                         *)
(* A table is kept to the codes of its live and of its soft-deleted rows.  *)
(* Table 1 is users, which no route deletes from; the others are the       *)
(* aggregates, in the order of Seed.                                       *)
(***************************************************************************)
EXTENDS Naturals

CONSTANTS
  Instance,     \* the backends started on one database
  Tables,       \* the number of seeded tables
  Seeds,        \* the codes of the rows Seed inserts into a table
  Extra,        \* the codes clients may create
  MaxAttempts,  \* attempts to reach the database (20 in the code)
  MaxKills,     \* bound: how often processes are killed in a behaviour
  RedisEnabled  \* whether REDIS_ADDR is set

ASSUME TablesAssumption == Tables \in Nat \ {0}
ASSUME SeedsAssumption == Seeds # {}
ASSUME AttemptsAssumption == MaxAttempts \in Nat \ {0} /\ MaxKills \in Nat
ASSUME RedisAssumption == RedisEnabled \in BOOLEAN

VARIABLES
  phase,    \* phase[i] : how far instance i has come
  attempt,  \* attempt[i] : the attempt of its connection loop
  step,     \* step[i] : the table it is seeding
  live,     \* live[t] : the codes of the live rows of table t
  gone,     \* gone[t] : the codes of its soft-deleted rows
  dbUp,     \* whether the database answers
  redisUp,  \* whether Redis answers
  kills     \* how often a process was killed

vars == <<phase, attempt, step, live, gone, dbUp, redisUp, kills>>
environment == <<dbUp, redisUp, kills>>
tables == <<live, gone>>

Table == 1..Tables

Users == 1

Init ==
  /\ phase = [i \in Instance |-> "down"]
  /\ attempt = [i \in Instance |-> 0]
  /\ step = [i \in Instance |-> 0]
  /\ live = [t \in Table |-> {}]
  /\ gone = [t \in Table |-> {}]
  /\ dbUp \in BOOLEAN
  /\ redisUp \in BOOLEAN
  /\ kills = 0

Goto(i, p) == phase' = [phase EXCEPT ![i] = p]

\* os.Exit(1), or the end of the container.
Exit(i) ==
  /\ Goto(i, "down")
  /\ attempt' = [attempt EXCEPT ![i] = 0]
  /\ step' = [step EXCEPT ![i] = 0]

Boot(i) ==
  /\ phase[i] = "down"
  /\ Goto(i, "connect")
  /\ attempt' = [attempt EXCEPT ![i] = 1]
  /\ UNCHANGED <<step, tables, environment>>

-----------------------------------------------------------------------------
(* The connection loop.                                                    *)

BeginSeed(i) ==
  /\ Goto(i, "count")
  /\ step' = [step EXCEPT ![i] = 1]
  /\ UNCHANGED attempt

\* Open and the ping succeed: break.
Connect(i) ==
  /\ phase[i] = "connect"
  /\ dbUp
  /\ BeginSeed(i)
  /\ UNCHANGED <<tables, environment>>

\* The first ping failed and the second, whose result is kept in err, did not:
\* the loop goes on, but the last time round err is nil and Open goes on too.
ConnectLate(i) ==
  /\ phase[i] = "connect"
  /\ dbUp
  /\ \/ /\ attempt[i] < MaxAttempts
        /\ attempt' = [attempt EXCEPT ![i] = @ + 1]
        /\ UNCHANGED <<phase, step>>
     \/ /\ attempt[i] = MaxAttempts
        /\ BeginSeed(i)
  /\ UNCHANGED <<tables, environment>>

\* A slip: the loop goes round once too often.
ConnectFails_Extra(i) ==
  /\ phase[i] = "connect"
  /\ ~dbUp
  /\ \/ /\ attempt[i] <= MaxAttempts
        /\ attempt' = [attempt EXCEPT ![i] = @ + 1]
        /\ UNCHANGED <<phase, step>>
     \/ Exit(i)
  /\ UNCHANGED <<tables, environment>>

\* The database does not answer: one attempt less, or the end of the loop, or
\* the deadline of STARTUP_TIMEOUT.
ConnectFails(i) ==
  /\ phase[i] = "connect"
  /\ ~dbUp
  /\ \/ /\ attempt[i] < MaxAttempts
        /\ attempt' = [attempt EXCEPT ![i] = @ + 1]
        /\ UNCHANGED <<phase, step>>
     \/ Exit(i)
  /\ UNCHANGED <<tables, environment>>

-----------------------------------------------------------------------------
(* Seed.                                                                   *)

\* A slip: rows in one table are taken for a seeded database.
Advance_FirstOnly(i) ==
  /\ Goto(i, "redis")
  /\ UNCHANGED <<attempt, step>>

\* On to the next table, or to Redis after the last one.
Advance(i) ==
  /\ \/ /\ step[i] < Tables
        /\ Goto(i, "count")
        /\ step' = [step EXCEPT ![i] = @ + 1]
     \/ /\ step[i] = Tables
        /\ Goto(i, "redis")
        /\ UNCHANGED step
  /\ UNCHANGED attempt

\* A slip: the count is not looked at.
Count_Ignored(i) ==
  /\ phase[i] = "count"
  /\ \/ dbUp /\ Goto(i, "insert") /\ UNCHANGED <<attempt, step>>
     \/ ~dbUp /\ Exit(i)
  /\ UNCHANGED <<tables, environment>>

\* Count sees only the live rows of the table.
Count(i) ==
  /\ phase[i] = "count"
  /\ \/ dbUp /\ live[step[i]] # {} /\ Advance(i)
     \/ dbUp /\ live[step[i]] = {} /\ Goto(i, "insert") /\ UNCHANGED <<attempt, step>>
     \/ ~dbUp /\ Exit(i)
  /\ UNCHANGED <<tables, environment>>

\* A slip: the unique index of code leaves out soft-deleted rows.
Insertable_Reuse(t) == Seeds \cap live[t] = {}

\* The unique index of code holds soft-deleted rows too.
Insertable(t) == Seeds \cap (live[t] \cup gone[t]) = {}

\* All seeds of a table in one statement or transaction; committed, it may
\* still be reported as failed when the connection breaks.
Insert(i) ==
  LET t == step[i]
  IN /\ phase[i] = "insert"
     /\ \/ /\ dbUp /\ Insertable(t)
           /\ live' = [live EXCEPT ![t] = @ \cup Seeds]
           /\ Advance(i) \/ Exit(i)
        \/ /\ ~dbUp \/ ~Insertable(t)
           /\ Exit(i)
           /\ UNCHANGED live
     /\ UNCHANGED <<gone, environment>>

\* Redis is optional, but when configured it must answer once.
ConnectRedis(i) ==
  /\ phase[i] = "redis"
  /\ IF RedisEnabled /\ ~redisUp
     THEN Exit(i)
     ELSE Goto(i, "serving") /\ UNCHANGED <<attempt, step>>
  /\ UNCHANGED <<tables, environment>>

-----------------------------------------------------------------------------
(* Clients, operators and the environment.                                 *)

Serving == \E i \in Instance : phase[i] = "serving"

Create(t, c) ==
  /\ Serving /\ dbUp
  /\ c \notin live[t] \cup gone[t]
  /\ live' = [live EXCEPT ![t] = @ \cup {c}]
  /\ UNCHANGED <<phase, attempt, step, gone, environment>>

Delete(t, c) ==
  /\ Serving /\ dbUp
  /\ c \in live[t]
  /\ live' = [live EXCEPT ![t] = @ \ {c}]
  /\ gone' = [gone EXCEPT ![t] = @ \cup {c}]
  /\ UNCHANGED <<phase, attempt, step, environment>>

Kill(i) ==
  /\ phase[i] # "down"
  /\ kills < MaxKills
  /\ kills' = kills + 1
  /\ Exit(i)
  /\ UNCHANGED <<tables, dbUp, redisUp>>

Toggle ==
  /\ \/ dbUp' = ~dbUp /\ UNCHANGED redisUp
     \/ redisUp' = ~redisUp /\ UNCHANGED dbUp
  /\ UNCHANGED <<phase, attempt, step, tables, kills>>

-----------------------------------------------------------------------------
Run(i) ==
  \/ Boot(i)
  \/ Connect(i)
  \/ ConnectLate(i)
  \/ ConnectFails(i)
  \/ Count(i)
  \/ Insert(i)
  \/ ConnectRedis(i)

Clients ==
  \E t \in Table \ {Users}, c \in Seeds \cup Extra : Create(t, c) \/ Delete(t, c)

Next ==
  \/ \E i \in Instance : Run(i) \/ Kill(i)
  \/ Clients
  \/ Toggle

\* The process runs its own code, and the container is started again; nothing
\* is assumed of clients, kills or outages.
Fairness == \A i \in Instance : WF_vars(Run(i))

Spec == Init /\ [][Next]_vars

FairSpec == Spec /\ Fairness

-----------------------------------------------------------------------------
(* Properties.                                                             *)

TypeOK ==
  /\ phase \in [Instance -> {"down", "connect", "count", "insert", "redis", "serving"}]
  /\ attempt \in [Instance -> 0..MaxAttempts]
  /\ step \in [Instance -> 0..Tables]
  /\ live \in [Table -> SUBSET (Seeds \cup Extra)]
  /\ gone \in [Table -> SUBSET (Seeds \cup Extra)]
  /\ dbUp \in BOOLEAN /\ redisUp \in BOOLEAN
  /\ kills \in 0..MaxKills

(***************************************************************************)
(* An instance that serves has every table seeded: each seed is there, or  *)
(* was deleted by a client, even when an earlier start stopped between two *)
(* tables or two instances seeded at once.                                 *)
(***************************************************************************)
ServingSeeded ==
  Serving => \A t \in Table : Seeds \subseteq live[t] \cup gone[t]

(***************************************************************************)
(* A soft-deleted code stays deleted: no restart, seed or create brings a  *)
(* live row with it back.                                                  *)
(***************************************************************************)
DeletedStays ==
  [][\A t \in Table : gone[t] \subseteq gone'[t] /\ gone[t] \cap live'[t] = {}]_vars

Cat == INSTANCE Catalog WITH Table <- Table, Closed <- {Users}

(***************************************************************************)
(* However many instances seed one database, and wherever each of them     *)
(* stops, collides or is started again, the tables change as those of a    *)
(* catalog: each is seeded once and completely, no client comes before all *)
(* are, and no code is used twice.                                         *)
(***************************************************************************)
Implements == Cat!Spec

-----------------------------------------------------------------------------
(***************************************************************************)
(* The inductive invariant behind the properties above.                    *)
(***************************************************************************)

Seeded(t) == Seeds \subseteq live[t] \cup gone[t]

\* A table without its seeds has never held a row, and no code is in it twice.
TableInv ==
  \A t \in Table :
    /\ live[t] \cup gone[t] # {} => Seeded(t)
    /\ live[t] \cap gone[t] = {}

\* An instance has left behind only tables that are seeded.
ProgressInv ==
  \A i \in Instance :
    /\ phase[i] \in {"count", "insert"} =>
         step[i] \in Table /\ \A t \in 1..(step[i] - 1) : Seeded(t)
    /\ phase[i] \in {"redis", "serving"} => \A t \in Table : Seeded(t)

IInv == TypeOK /\ TableInv /\ ProgressInv

-----------------------------------------------------------------------------
Up == dbUp /\ (RedisEnabled => redisUp)

\* What GET /healthz answers: both pings succeed, or there is no Redis client.
Healthz(i) == phase[i] = "serving" /\ Up

\* A table clients have emptied: its seeds are all soft-deleted.
Emptied(t) == live[t] = {} /\ gone[t] # {}

(***************************************************************************)
(* Once the database and Redis stay up, and no table stays emptied, every  *)
(* instance answers its health check again and again, however often seeding*)
(* was interrupted or collided with that of another instance.              *)
(***************************************************************************)
ReadyUnlessEmptied ==
  <>[](Up /\ \A t \in Table : ~Emptied(t)) => \A i \in Instance : []<>Healthz(i)

(***************************************************************************)
(* Once the database and Redis stay up, every instance answers its health  *)
(* check again and again: what the restart policy of the container and the *)
(* proxy that waits for a healthy backend count on.                        *)
(***************************************************************************)
Ready == <>[]Up => \A i \in Instance : []<>Healthz(i)

\* Instance i still has table t before it.
Before(i, t) ==
  \/ phase[i] \in {"down", "connect"}
  \/ phase[i] \in {"count", "insert"} /\ step[i] <= t

\* No instance has got past some emptied table.
Lost == \E t \in Table : Emptied(t) /\ \A i \in Instance : Before(i, t)

(***************************************************************************)
(* From then on none ever will: who could fill the table again is a client,*)
(* and no instance comes to serve one.                                     *)
(***************************************************************************)
StaysDown == [](Lost => []~Serving)
=============================================================================
