--------------------------- MODULE StartupProofs ---------------------------
(***************************************************************************)
(* What Startup guarantees for any number of instances, tables, seeds,     *)
(* attempts and kills: a serving instance has every table seeded, and a    *)
(* soft-deleted row stays deleted.                                         *)
(***************************************************************************)
EXTENDS Startup, TLAPS

USE TablesAssumption, AttemptsAssumption, RedisAssumption

-----------------------------------------------------------------------------
(* Types.                                                                  *)

\* Restarting an instance leaves it typed.
LEMMA ExitTyped ==
  ASSUME TypeOK, NEW i \in Instance, Exit(i)
  PROVE  /\ phase' \in [Instance -> {"down", "connect", "count", "insert", "redis", "serving"}]
         /\ attempt' \in [Instance -> 0..MaxAttempts]
         /\ step' \in [Instance -> 0..Tables]
BY DEF TypeOK, Exit, Goto

\* So does going on to the next table.
LEMMA AdvanceTyped ==
  ASSUME TypeOK, NEW i \in Instance, Advance(i)
  PROVE  /\ phase' \in [Instance -> {"down", "connect", "count", "insert", "redis", "serving"}]
         /\ attempt' \in [Instance -> 0..MaxAttempts]
         /\ step' \in [Instance -> 0..Tables]
BY DEF TypeOK, Advance, Goto

LEMMA RunTyped ==
  ASSUME TypeOK, NEW i \in Instance, Run(i), ProgressInv
  PROVE  TypeOK'
<1>1. CASE Boot(i)
  BY <1>1 DEF Boot, TypeOK, Goto, tables, environment
<1>2. CASE Connect(i)
  BY <1>2 DEF Connect, BeginSeed, TypeOK, Goto, tables, environment
<1>3. CASE ConnectLate(i)
  BY <1>3 DEF ConnectLate, BeginSeed, TypeOK, Goto, tables, environment
<1>4. CASE ConnectFails(i)
  <2>1. CASE Exit(i)
    BY <1>4, <2>1, ExitTyped DEF ConnectFails, TypeOK, tables, environment
  <2>2. CASE attempt[i] < MaxAttempts /\ attempt' = [attempt EXCEPT ![i] = @ + 1]
             /\ UNCHANGED <<phase, step>>
    BY <1>4, <2>2 DEF ConnectFails, TypeOK, tables, environment
  <2> QED
    BY <1>4, <2>1, <2>2 DEF ConnectFails
<1>5. CASE Count(i)
  <2>1. UNCHANGED <<live, gone, dbUp, redisUp, kills>>
    BY <1>5 DEF Count, tables, environment
  <2>2. CASE Exit(i)
    BY <2>1, <2>2, ExitTyped DEF TypeOK
  <2>3. CASE Advance(i)
    BY <2>1, <2>3, AdvanceTyped DEF TypeOK
  <2>4. CASE Goto(i, "insert") /\ UNCHANGED <<attempt, step>>
    BY <2>1, <2>4 DEF TypeOK, Goto
  <2> QED
    BY <1>5, <2>2, <2>3, <2>4 DEF Count
<1>6. CASE Insert(i)
  <2>1. UNCHANGED <<gone, dbUp, redisUp, kills>>
    BY <1>6 DEF Insert, environment
  <2>2. step[i] \in Table
    BY <1>6 DEF Insert, ProgressInv
  <2>3. live' \in [Table -> SUBSET (Seeds \cup Extra)]
    BY <1>6, <2>2 DEF Insert, TypeOK
  <2>4. Exit(i) \/ Advance(i)
    BY <1>6 DEF Insert
  <2> QED
    BY <2>1, <2>3, <2>4, ExitTyped, AdvanceTyped DEF TypeOK
<1>7. CASE ConnectRedis(i)
  <2>1. UNCHANGED <<live, gone, dbUp, redisUp, kills>>
    BY <1>7 DEF ConnectRedis, tables, environment
  <2>2. CASE Exit(i)
    BY <2>1, <2>2, ExitTyped DEF TypeOK
  <2>3. CASE Goto(i, "serving") /\ UNCHANGED <<attempt, step>>
    BY <2>1, <2>3 DEF TypeOK, Goto
  <2> QED
    BY <1>7, <2>2, <2>3 DEF ConnectRedis
<1> QED
  BY <1>1, <1>2, <1>3, <1>4, <1>5, <1>6, <1>7 DEF Run

-----------------------------------------------------------------------------
(* Tables.                                                                 *)

\* While an instance serves, the clients keep every table seeded.
LEMMA SeededWhileServing ==
  ASSUME ProgressInv, Serving, NEW t \in Table
  PROVE  Seeded(t)
BY DEF ProgressInv, Serving

\* What an insert leaves in its table.
LEMMA InsertSeeds ==
  ASSUME TypeOK, TableInv, ProgressInv, NEW i \in Instance, Insert(i)
  PROVE  /\ TableInv'
         /\ \A t \in Table : Seeded(t) => Seeded(t)'
         /\ Advance(i) => \A t \in Table : t = step[i] => Seeded(t)'
<1>1. step[i] \in Table /\ gone' = gone
  BY DEF Insert, ProgressInv, environment
<1>2. CASE live' = [live EXCEPT ![step[i]] = @ \cup Seeds] /\ Insertable(step[i])
  BY <1>1, <1>2 DEF TypeOK, TableInv, Seeded, Insertable
<1>3. CASE live' = live /\ ~(phase[i] = "insert" /\ Advance(i))
  <2>1. phase[i] = "insert"
    BY DEF Insert
  <2> QED
    BY <1>1, <1>3, <2>1 DEF TableInv, Seeded
<1>4. CASE live' = live /\ Exit(i)
  <2>1. phase'[i] = "down"
    BY <1>4 DEF Exit, Goto, TypeOK
  <2>2. Advance(i) => phase'[i] # "down"
    BY DEF Advance, Goto, TypeOK
  <2> QED
    BY <1>1, <1>4, <2>1, <2>2 DEF TableInv, Seeded
<1> QED
  BY <1>2, <1>3, <1>4 DEF Insert

\* No step takes a seed, or a code of any kind, out of a table for good.
LEMMA TablesGrow ==
  ASSUME IInv, [Next]_vars
  PROVE  /\ TableInv'
         /\ \A t \in Table : Seeded(t) => Seeded(t)'
         /\ \A t \in Table : gone[t] \subseteq gone'[t] /\ gone[t] \cap live'[t] = {}
<1> USE DEF IInv
<1>1. ASSUME UNCHANGED <<live, gone>>
      PROVE  /\ TableInv'
             /\ \A t \in Table : Seeded(t) => Seeded(t)'
             /\ \A t \in Table : gone[t] \subseteq gone'[t] /\ gone[t] \cap live'[t] = {}
  BY <1>1 DEF TableInv, Seeded
<1>2. CASE UNCHANGED vars
  BY <1>1, <1>2 DEF vars
<1>3. ASSUME NEW i \in Instance, Run(i) \/ Kill(i)
      PROVE  /\ TableInv'
             /\ \A t \in Table : Seeded(t) => Seeded(t)'
             /\ \A t \in Table : gone[t] \subseteq gone'[t] /\ gone[t] \cap live'[t] = {}
  <2>1. CASE Insert(i)
    <3>1. gone' = gone /\ step[i] \in Table
      BY <2>1 DEF Insert, ProgressInv, environment
    <3>2. \A t \in Table : gone[t] \cap live'[t] = {}
      BY <2>1, <3>1 DEF Insert, Insertable, TypeOK, TableInv
    <3> QED
      BY <2>1, <3>1, <3>2, InsertSeeds
  <2>2. CASE ~Insert(i)
    <3>1. UNCHANGED <<live, gone>>
      BY <1>3, <2>2 DEF Run, Kill, Boot, Connect, ConnectLate, ConnectFails, Count,
                        ConnectRedis, tables
    <3> QED
      BY <1>1, <3>1
  <2> QED
    BY <2>1, <2>2
<1>4. ASSUME NEW t \in Table, NEW c \in Seeds \cup Extra, Create(t, c)
      PROVE  /\ TableInv'
             /\ \A u \in Table : Seeded(u) => Seeded(u)'
             /\ \A u \in Table : gone[u] \subseteq gone'[u] /\ gone[u] \cap live'[u] = {}
  <2>1. Seeded(t)
    BY <1>4, SeededWhileServing DEF Create
  <2> QED
    BY <1>4, <2>1 DEF Create, TypeOK, TableInv, Seeded
<1>5. ASSUME NEW t \in Table, NEW c \in Seeds \cup Extra, Delete(t, c)
      PROVE  /\ TableInv'
             /\ \A u \in Table : Seeded(u) => Seeded(u)'
             /\ \A u \in Table : gone[u] \subseteq gone'[u] /\ gone[u] \cap live'[u] = {}
  <2>1. Seeded(t)
    BY <1>5, SeededWhileServing DEF Delete
  <2> QED
    BY <1>5, <2>1 DEF Delete, TypeOK, TableInv, Seeded
<1>6. CASE Toggle
  BY <1>1, <1>6 DEF Toggle, tables
<1>7. ASSUME Clients
      PROVE  /\ TableInv'
             /\ \A t \in Table : Seeded(t) => Seeded(t)'
             /\ \A t \in Table : gone[t] \subseteq gone'[t] /\ gone[t] \cap live'[t] = {}
  BY <1>4, <1>5, <1>7 DEF Clients
<1> QED
  BY <1>2, <1>3, <1>6, <1>7 DEF Next

-----------------------------------------------------------------------------
(* Progress.                                                               *)

\* Going on to the next table leaves a seeded one behind.
LEMMA AdvanceProgress ==
  ASSUME TypeOK, NEW i \in Instance, step[i] \in Table, Advance(i),
         \A t \in 1..step[i] : Seeded(t)'
  PROVE  /\ phase'[i] \in {"count", "insert"} =>
              step'[i] \in Table /\ \A t \in 1..(step'[i] - 1) : Seeded(t)'
         /\ phase'[i] \in {"redis", "serving"} => \A t \in Table : Seeded(t)'
<1>1. CASE /\ step[i] < Tables /\ Goto(i, "count")
           /\ step' = [step EXCEPT ![i] = @ + 1]
  BY <1>1 DEF TypeOK, Goto, Table
<1>2. CASE step[i] = Tables /\ Goto(i, "redis") /\ UNCHANGED step
  BY <1>2 DEF TypeOK, Goto, Table
<1> QED
  BY <1>1, <1>2 DEF Advance

\* The progress of one instance, after a step of its own.
LEMMA RunProgress ==
  ASSUME IInv, NEW i \in Instance, Run(i),
         \A t \in Table : Seeded(t) => Seeded(t)'
  PROVE  /\ phase'[i] \in {"count", "insert"} =>
              step'[i] \in Table /\ \A t \in 1..(step'[i] - 1) : Seeded(t)'
         /\ phase'[i] \in {"redis", "serving"} => \A t \in Table : Seeded(t)'
<1> USE DEF IInv
<1>1. CASE Exit(i)
  BY <1>1 DEF Exit, Goto, TypeOK
<1>2. CASE Boot(i) \/ (phase[i] = "connect" /\ phase' = phase)
  BY <1>2 DEF Boot, Goto, TypeOK
<1>3. CASE BeginSeed(i)
  BY <1>3 DEF BeginSeed, Goto, TypeOK, Table
<1>4. CASE Count(i) /\ ~Exit(i)
  <2>1. /\ step[i] \in Table
        /\ \A t \in 1..(step[i] - 1) : Seeded(t)'
    BY <1>4 DEF Count, ProgressInv, Table
  <2>2. CASE live[step[i]] # {} /\ Advance(i)
    <3>1. \A t \in Table : t = step[i] => Seeded(t)'
      BY <2>1, <2>2 DEF TableInv
    <3>2. \A t \in 1..step[i] : Seeded(t)'
      BY <2>1, <3>1 DEF Table
    <3> QED
      BY <2>1, <2>2, <3>2, AdvanceProgress
  <2>3. CASE Goto(i, "insert") /\ UNCHANGED <<attempt, step>>
    BY <2>1, <2>3 DEF Goto, TypeOK
  <2> QED
    BY <1>4, <2>2, <2>3 DEF Count
<1>5. CASE Insert(i) /\ Advance(i)
  <2>1. /\ step[i] \in Table
        /\ \A t \in 1..(step[i] - 1) : Seeded(t)'
    BY <1>5 DEF Insert, ProgressInv, Table
  <2>2. \A t \in Table : t = step[i] => Seeded(t)'
    BY <1>5, InsertSeeds
  <2>3. \A t \in 1..step[i] : Seeded(t)'
    BY <2>1, <2>2 DEF Table
  <2> QED
    BY <1>5, <2>1, <2>3, AdvanceProgress
<1>6. CASE ConnectRedis(i) /\ ~Exit(i)
  BY <1>6 DEF ConnectRedis, ProgressInv, Goto, TypeOK
<1> QED
  BY <1>1, <1>2, <1>3, <1>4, <1>5, <1>6
  DEF Run, Connect, ConnectLate, ConnectFails, Count, Insert, ConnectRedis

LEMMA RunElsewhere ==
  ASSUME TypeOK, NEW i \in Instance, Run(i) \/ Kill(i), NEW j \in Instance, j # i
  PROVE  phase'[j] = phase[j] /\ step'[j] = step[j]
BY DEF TypeOK, Run, Kill, Boot, Connect, ConnectLate, ConnectFails, Count, Insert,
       ConnectRedis, BeginSeed, Advance, Exit, Goto

-----------------------------------------------------------------------------
(* The invariant.                                                          *)

LEMMA InitIInv == Init => IInv
BY DEF Init, IInv, TypeOK, TableInv, ProgressInv, Table

LEMMA NextIInv == IInv /\ [Next]_vars => IInv'
<1> SUFFICES ASSUME IInv, [Next]_vars
             PROVE  IInv'
  OBVIOUS
<1> USE DEF IInv
<1>1. TableInv' /\ \A t \in Table : Seeded(t) => Seeded(t)'
  BY TablesGrow
<1>2. ASSUME UNCHANGED <<phase, step>>
      PROVE  ProgressInv'
  BY <1>1, <1>2 DEF ProgressInv, Table
<1>3. CASE UNCHANGED vars
  BY <1>1, <1>2, <1>3 DEF vars, TypeOK
<1>4. ASSUME NEW i \in Instance, Run(i)
      PROVE  IInv'
  <2>1. TypeOK'
    BY <1>4, RunTyped
  <2>2. ASSUME NEW j \in Instance
        PROVE  /\ phase'[j] \in {"count", "insert"} =>
                    step'[j] \in Table /\ \A t \in 1..(step'[j] - 1) : Seeded(t)'
               /\ phase'[j] \in {"redis", "serving"} => \A t \in Table : Seeded(t)'
    <3>1. CASE j = i
      BY <1>1, <1>4, <3>1, RunProgress
    <3>2. CASE j # i
      BY <1>1, <1>4, <3>2, RunElsewhere DEF ProgressInv, Table
    <3> QED
      BY <3>1, <3>2
  <2> QED
    BY <1>1, <2>1, <2>2 DEF ProgressInv
<1>5. ASSUME NEW i \in Instance, Kill(i)
      PROVE  IInv'
  <2>1. TypeOK'
    BY <1>5, ExitTyped DEF Kill, TypeOK, tables
  <2>2. phase'[i] = "down"
    BY <1>5 DEF Kill, Exit, Goto, TypeOK
  <2>3. ProgressInv'
    BY <1>1, <1>5, <2>2, RunElsewhere DEF ProgressInv, Table
  <2> QED
    BY <1>1, <2>1, <2>3
<1>6. ASSUME NEW t \in Table, NEW c \in Seeds \cup Extra, Create(t, c) \/ Delete(t, c)
      PROVE  IInv'
  <2>1. TypeOK'
    BY <1>6 DEF Create, Delete, TypeOK, environment
  <2> QED
    BY <1>1, <1>2, <1>6, <2>1 DEF Create, Delete
<1>7. CASE Toggle
  <2>1. TypeOK'
    BY <1>7 DEF Toggle, TypeOK, tables
  <2> QED
    BY <1>1, <1>2, <1>7, <2>1 DEF Toggle
<1> QED
  BY <1>3, <1>4, <1>5, <1>6, <1>7 DEF Next, Clients

(***************************************************************************)
(* Every reachable state satisfies the inductive invariant.                *)
(***************************************************************************)
THEOREM StartupInvariant == Spec => []IInv
<1> QED
  BY InitIInv, NextIInv, PTL DEF Spec

(***************************************************************************)
(* No connection loop exceeds its attempts and no seed its tables, and     *)
(* only codes that were seeded or created are ever in a table.             *)
(***************************************************************************)
THEOREM StartupTypeCorrect == Spec => []TypeOK
<1>1. IInv => TypeOK
  BY DEF IInv
<1> QED
  BY <1>1, StartupInvariant, PTL

(***************************************************************************)
(* An instance that serves has every table seeded, however often starts    *)
(* were interrupted and whoever else was seeding (database.Seed).          *)
(***************************************************************************)
THEOREM ServingSeededInvariant == Spec => []ServingSeeded
<1>1. IInv => ServingSeeded
  BY SeededWhileServing DEF IInv, ServingSeeded, Seeded
<1> QED
  BY <1>1, StartupInvariant, PTL

(***************************************************************************)
(* A soft-deleted code stays deleted: the unique index of code covers      *)
(* deleted rows, so neither a seed nor a client brings it back.            *)
(***************************************************************************)
THEOREM DeletedStaysTheorem == Spec => DeletedStays
<1>1. IInv /\ [Next]_vars
      => [\A t \in Table : gone[t] \subseteq gone'[t] /\ gone[t] \cap live'[t] = {}]_vars
  BY TablesGrow
<1> QED
  BY <1>1, StartupInvariant, PTL DEF Spec, DeletedStays

-----------------------------------------------------------------------------
(* Refinement.                                                             *)

\* An insert is the seeding of an empty table, or changes nothing.
LEMMA InsertIsSeed ==
  ASSUME IInv, NEW i \in Instance, Insert(i)
  PROVE  \/ UNCHANGED <<live, gone>>
         \/ \E t \in Table : Cat!Seed(t)
<1>1. step[i] \in Table /\ gone' = gone
  BY DEF Insert, IInv, ProgressInv, environment
<1>2. CASE live' = live
  BY <1>1, <1>2
<1>3. CASE live' = [live EXCEPT ![step[i]] = @ \cup Seeds] /\ Insertable(step[i])
  <2>1. live[step[i]] \cup gone[step[i]] = {}
    BY <1>1, <1>3, SeedsAssumption DEF IInv, TableInv, Seeded, Insertable
  <2>2. live' = [live EXCEPT ![step[i]] = Seeds]
    BY <1>3, <2>1
  <2> QED
    BY <1>1, <2>1, <2>2 DEF Cat!Seed, Cat!Used
<1> QED
  BY <1>2, <1>3 DEF Insert

\* A client is a client of the catalog: while an instance serves, it is open.
LEMMA ClientsAreClients ==
  ASSUME IInv, Clients
  PROVE  Cat!Next
<1>1. PICK t \in Table \ {Users}, c \in Seeds \cup Extra : Create(t, c) \/ Delete(t, c)
  BY DEF Clients
<1>2. Cat!Open
  BY <1>1, SeededWhileServing DEF Create, Delete, Cat!Open, Cat!Used, Seeded, IInv
<1>3. Cat!Create(t, c) \/ Cat!Delete(t, c)
  BY <1>1, <1>2 DEF Create, Delete, Cat!Create, Cat!Delete, Cat!Used
<1> QED
  BY <1>3 DEF Cat!Next

(***************************************************************************)
(* However many instances start, stop and collide, the tables change as    *)
(* those of a catalog (Seed, and the unique index of code).                *)
(***************************************************************************)
THEOREM CatalogImplemented == Spec => Implements
<1>1. Init => Cat!Init
  BY DEF Init, Cat!Init
<1>2. IInv /\ [Next]_vars => [Cat!Next]_(Cat!vars)
  <2> SUFFICES ASSUME IInv, [Next]_vars, ~UNCHANGED <<live, gone>>
               PROVE  Cat!Next
    BY DEF Cat!vars
  <2>1. ASSUME NEW i \in Instance, Run(i)
        PROVE  Cat!Next
    <3>1. Insert(i)
      BY <2>1 DEF Run, Boot, Connect, ConnectLate, ConnectFails, Count, ConnectRedis, tables
    <3> QED
      BY <3>1, InsertIsSeed DEF Cat!Next
  <2>2. ~Toggle /\ \A i \in Instance : ~Kill(i)
    BY DEF Toggle, Kill, tables
  <2>3. Next
    BY DEF vars
  <2> QED
    BY <2>1, <2>2, <2>3, ClientsAreClients DEF Next
<1> QED
  BY <1>1, <1>2, StartupInvariant, PTL DEF Spec, Implements, Cat!Spec

-----------------------------------------------------------------------------
(* An emptied table.                                                       *)

\* The count of an emptied table finds nothing, and the insert is refused.
LEMMA RunBefore ==
  ASSUME IInv, NEW t \in Table, Emptied(t), NEW i \in Instance, Before(i, t), Run(i)
  PROVE  Before(i, t)' /\ Emptied(t)'
<1> USE DEF IInv, TypeOK, Goto, Table
<1>1. CASE Boot(i) \/ Connect(i) \/ ConnectLate(i) \/ ConnectFails(i)
  BY <1>1 DEF Boot, Connect, ConnectLate, ConnectFails, BeginSeed, Exit, Before,
              Emptied, tables
<1>2. CASE Count(i)
  <2>1. live' = live /\ gone' = gone
    BY <1>2 DEF Count, tables
  <2>2. CASE live[step[i]] # {} /\ Advance(i)
    <3>1. step[i] < t
      BY <1>2, <2>2 DEF Count, Before, Emptied, ProgressInv
    <3>2. phase'[i] = "count" /\ step'[i] = step[i] + 1
      BY <2>2, <3>1 DEF Advance
    <3> QED
      BY <2>1, <3>1, <3>2 DEF Before, Emptied
  <2>3. CASE Goto(i, "insert") /\ UNCHANGED <<attempt, step>>
    BY <1>2, <2>1, <2>3 DEF Count, Before, Emptied
  <2>4. CASE Exit(i)
    BY <2>1, <2>4 DEF Exit, Before, Emptied
  <2> QED
    BY <1>2, <2>2, <2>3, <2>4 DEF Count
<1>3. CASE Insert(i)
  <2>1. step[i] \in Table /\ step[i] <= t /\ gone' = gone
    BY <1>3 DEF Insert, Before, ProgressInv, environment
  <2>2. CASE Exit(i) /\ live' = live
    BY <2>1, <2>2 DEF Exit, Before, Emptied
  <2>3. CASE /\ Insertable(step[i])
             /\ Advance(i) \/ Exit(i)
             /\ live' = [live EXCEPT ![step[i]] = @ \cup Seeds]
    <3>1. step[i] # t
      <4>1. Seeds \subseteq live[t] \cup gone[t]
        BY DEF TableInv, Seeded, Emptied
      <4>2. ~Insertable(t)
        BY <4>1, SeedsAssumption DEF Insertable
      <4> QED
        BY <2>3, <4>2
    <3>2. live'[t] = live[t]
      BY <2>1, <2>3, <3>1
    <3>3. Before(i, t)'
      BY <2>1, <2>3, <3>1 DEF Advance, Exit, Before
    <3> QED
      BY <2>1, <3>2, <3>3 DEF Emptied
  <2> QED
    BY <1>3, <2>2, <2>3 DEF Insert
<1>4. ~ConnectRedis(i)
  BY DEF ConnectRedis, Before
<1> QED
  BY <1>1, <1>2, <1>3, <1>4 DEF Run

LEMMA LostStep == IInv /\ Lost /\ [Next]_vars => Lost'
<1> SUFFICES ASSUME IInv, [Next]_vars, NEW t \in Table, Emptied(t),
                    \A i \in Instance : Before(i, t)
             PROVE  Emptied(t)' /\ \A i \in Instance : Before(i, t)'
  BY DEF Lost, Table
<1>1. CASE UNCHANGED vars \/ Toggle
  BY <1>1 DEF vars, tables, Toggle, Emptied, Before
<1>2. ASSUME NEW i \in Instance, Run(i)
      PROVE  Emptied(t)' /\ \A j \in Instance : Before(j, t)'
  BY <1>2, RunBefore, RunElsewhere DEF IInv, Before
<1>3. ASSUME NEW i \in Instance, Kill(i)
      PROVE  Emptied(t)' /\ \A j \in Instance : Before(j, t)'
  <2>1. phase'[i] = "down" /\ live' = live /\ gone' = gone
    BY <1>3 DEF Kill, Exit, Goto, tables, IInv, TypeOK
  <2> QED
    BY <1>3, <2>1, RunElsewhere DEF IInv, Before, Emptied
<1>4. ~Clients
  BY DEF Clients, Create, Delete, Serving, Before
<1> QED
  BY <1>1, <1>2, <1>3, <1>4 DEF Next

(***************************************************************************)
(* When no instance has got past a table that clients have emptied, none   *)
(* ever serves again, whatever is started, killed or answers, with any     *)
(* tables, seeds and attempts: the seed functions count live rows and      *)
(* insert codes that deleted rows hold.                                    *)
(***************************************************************************)
THEOREM StaysDownTheorem == Spec => StaysDown
<1>1. Lost => ~Serving
  BY DEF Lost, Before, Serving
<1> QED
  BY <1>1, LostStep, StartupInvariant, PTL DEF Spec, StaysDown
=============================================================================
