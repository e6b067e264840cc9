---------------------------- MODULE ReadsProofs ----------------------------
(***************************************************************************)
(* The guarantees of the reads for any writers, records, page sizes and    *)
(* windows.  Two arguments recur: what a read was shown is below what the  *)
(* same statement would show now, since versions and the log only grow,    *)
(* and a clock that is read later reads no less.                           *)
(***************************************************************************)
EXTENDS Reads, FiniteSetTheorems, TLAPS

-----------------------------------------------------------------------------
(* The inductive invariant.                                                *)

RowSet == [version : Nat, stamp : Nat, match : BOOLEAN, gone : BOOLEAN]

RequestSet == [stage : {"idle", "begun", "written", "stamped", "done"},
               record : Record, action : Action, began : Nat, stamp : Nat, ended : Nat]

Place == {"idle", "first", "got", "count", "find", "walked", "summed", "history",
          "total", "transitions", "actions", "entities"}

Typed ==
  /\ now \in 0..MaxTime
  /\ row \in [Record -> RowSet]
  /\ req \in [Request -> RequestSet]
  /\ at \in Place
  /\ list \in {"rows", "log"}
  /\ page \in Nat \ {0} /\ total \in Nat

\* No stamp is from the future; those of a request are in order.
StampInv ==
  /\ \A r \in Record : row[r].stamp <= now
  /\ \A q \in Request :
       /\ req[q].began <= now /\ req[q].stamp <= now /\ req[q].ended <= now
       /\ req[q].stage \in {"stamped", "done"} => req[q].began <= req[q].stamp
       /\ req[q].stage = "done" => req[q].stamp <= req[q].ended

GetSet == [id : Record, version : Nat, revisions : SUBSET Nat]

\* What Get has read of the row is no more than the row is at now.
GetInv ==
  /\ at = "first" => answer \in GetSet /\ answer.version <= row[answer.id].version
  /\ at = "got" => 1..answer.version \subseteq answer.revisions

Summaries == [since : Int, total : Nat, transitions : Nat, actions : Nat \X Nat, entities : Nat]

\* What a summary has counted is no more than it would count now.
SumInv ==
  /\ at \in {"total", "transitions", "actions", "entities", "summed"} => answer \in Summaries
  /\ at \in {"transitions", "actions"} => answer.total <= Cardinality(Recent(answer))
  /\ at = "actions" => answer.transitions <= Cardinality(Transitions(answer))
  /\ at = "entities" => /\ answer.total <= answer.actions[1]
                        /\ answer.actions[1] <= Cardinality(Recent(answer))
  /\ at \in {"entities", "summed"} => answer.transitions <= answer.actions[2]
  /\ at = "summed" => /\ answer.total <= answer.actions[1]
                      /\ answer.actions[1] <= answer.entities

RInv == Typed /\ StampInv /\ GetInv /\ SumInv

-----------------------------------------------------------------------------
(* Sets of requests.                                                       *)

LEMMA Sizes ==
  \A S \in SUBSET Request : IsFiniteSet(S) /\ Cardinality(S) \in Nat
  BY FiniteAssumption, FS_Subset, FS_CardinalityType

LEMMA Grows ==
  ASSUME NEW T \in SUBSET Request, NEW S \in SUBSET T
  PROVE  Cardinality(S) <= Cardinality(T)
  BY Sizes, FS_Subset

LEMMA QueryNames ==
  /\ Len(Queries) = 4 /\ DOMAIN Queries = 1..4
  /\ Queries[1] = "total" /\ Queries[2] = "transitions"
  /\ Queries[3] = "actions" /\ Queries[4] = "entities"
  BY DEF Queries

LEMMA RecentSets ==
  \A s : Recent(s) \in SUBSET Request /\ Transitions(s) \in SUBSET Request
  BY DEF Recent, Transitions, Logged

\* The log only grows, and its entries stay as they are.
LogGrows ==
  \A q \in Request : req[q].stage = "done" => req'[q] = req[q]

LEMMA RecentGrows ==
  ASSUME LogGrows, NEW s
  PROVE  /\ Cardinality(Recent(s)) <= Cardinality(Recent(s)')
         /\ Cardinality(Transitions(s)) <= Cardinality(Transitions(s)')
<1>1. Recent(s)' \in SUBSET Request /\ Transitions(s)' \in SUBSET Request
  BY DEF Recent, Transitions, Logged
<1>2. Recent(s) \subseteq Recent(s)' /\ Transitions(s) \subseteq Transitions(s)'
  BY DEF LogGrows, Recent, Transitions, Logged, Since
<1> QED
  BY <1>1, <1>2, Grows

-----------------------------------------------------------------------------
(* Writing steps.                                                          *)

LEMMA BeginStep ==
  ASSUME RInv, NEW q \in Request, Begin(q)
  PROVE  Typed' /\ StampInv' /\ LogGrows /\ UNCHANGED row
<1>1. /\ req[q].stage = "idle" /\ UNCHANGED <<now, row, at, list, page, total, seen, answer>>
      /\ req' = [req EXCEPT ![q].stage = "begun", ![q].began = now]
  BY DEF Begin, walk
<1>2. now \in Nat /\ req \in [Request -> RequestSet] /\ row \in [Record -> RowSet]
  BY DEF RInv, Typed
<1>3. /\ req' \in [Request -> RequestSet]
      /\ req'[q].stage = "begun" /\ req'[q].began = now
      /\ req'[q].stamp = req[q].stamp /\ req'[q].ended = req[q].ended
      /\ \A p \in Request \ {q} : req'[p] = req[p]
  BY <1>1, <1>2 DEF RequestSet
<1>4. Typed'
  BY <1>1, <1>3 DEF RInv, Typed
<1>5. StampInv'
  BY <1>1, <1>2, <1>3 DEF RInv, StampInv
<1> QED
  BY <1>1, <1>3, <1>4, <1>5 DEF LogGrows

LEMMA StampStep ==
  ASSUME RInv, NEW q \in Request, Stamp(q)
  PROVE  Typed' /\ StampInv' /\ LogGrows /\ UNCHANGED row
<1>1. /\ req[q].stage = "written" /\ UNCHANGED <<now, row, at, list, page, total, seen, answer>>
      /\ req' = [req EXCEPT ![q].stage = "stamped", ![q].stamp = now]
  BY DEF Stamp, walk
<1>2. now \in Nat /\ req \in [Request -> RequestSet] /\ row \in [Record -> RowSet]
  BY DEF RInv, Typed
<1>3. /\ req' \in [Request -> RequestSet]
      /\ req'[q].stage = "stamped" /\ req'[q].stamp = now
      /\ req'[q].began = req[q].began /\ req'[q].ended = req[q].ended
      /\ \A p \in Request \ {q} : req'[p] = req[p]
  BY <1>1, <1>2 DEF RequestSet
<1>4. Typed'
  BY <1>1, <1>3 DEF RInv, Typed
<1>5. StampInv'
  BY <1>1, <1>2, <1>3 DEF RInv, StampInv
<1> QED
  BY <1>1, <1>3, <1>4, <1>5 DEF LogGrows

LEMMA InsertStep ==
  ASSUME RInv, NEW q \in Request, Insert(q)
  PROVE  Typed' /\ StampInv' /\ LogGrows /\ UNCHANGED row
<1>1. /\ req[q].stage = "stamped" /\ UNCHANGED <<now, row, at, list, page, total, seen, answer>>
      /\ req' = [req EXCEPT ![q].stage = "done", ![q].ended = now]
  BY DEF Insert, walk
<1>2. now \in Nat /\ req \in [Request -> RequestSet] /\ row \in [Record -> RowSet]
  BY DEF RInv, Typed
<1>3. /\ req' \in [Request -> RequestSet]
      /\ req'[q].stage = "done" /\ req'[q].ended = now
      /\ req'[q].began = req[q].began /\ req'[q].stamp = req[q].stamp
      /\ \A p \in Request \ {q} : req'[p] = req[p]
  BY <1>1, <1>2 DEF RequestSet
<1>4. Typed'
  BY <1>1, <1>3 DEF RInv, Typed
<1>5. StampInv'
  BY <1>1, <1>2, <1>3 DEF RInv, StampInv
<1> QED
  BY <1>1, <1>3, <1>4, <1>5 DEF LogGrows

LEMMA TickStep ==
  ASSUME RInv, Tick
  PROVE  Typed' /\ StampInv' /\ LogGrows /\ UNCHANGED row
<1>1. /\ UNCHANGED <<row, req, at, list, page, total, seen, answer>>
      /\ now < MaxTime /\ now' = now + 1
  BY DEF Tick, walk
<1>2. now \in Nat /\ now' \in 0..MaxTime
  BY <1>1, TimeAssumption DEF RInv, Typed
<1>3. Typed'
  BY <1>1, <1>2 DEF RInv, Typed
<1>4. /\ \A r \in Record : row[r].stamp \in Nat
      /\ \A q \in Request : req[q].began \in Nat /\ req[q].stamp \in Nat /\ req[q].ended \in Nat
  BY DEF RInv, Typed, RowSet, RequestSet
<1>5. StampInv'
  BY <1>1, <1>2, <1>4 DEF RInv, StampInv
<1> QED
  BY <1>1, <1>3, <1>5 DEF LogGrows

\* A row goes to its next version, with a stamp that is no older.
RowGrows ==
  \A r \in Record : row[r].version <= row'[r].version /\ row[r].stamp <= row'[r].stamp

LEMMA RowWritten ==
  ASSUME NEW r \in Record, row \in [Record -> RowSet],
         NEW s \in Nat, NEW m \in BOOLEAN, NEW y \in Nat,
         row' = [row EXCEPT ![r].version = y, ![r].stamp = s, ![r].match = m]
  PROVE  row' \in [Record -> RowSet]
  BY DEF RowSet

LEMMA WriteStep ==
  ASSUME RInv, NEW q \in Request, NEW r \in Record, NEW action \in Action, Write(q, r, action)
  PROVE  Typed' /\ StampInv' /\ LogGrows /\ RowGrows
<1>1. /\ req[q].stage = "begun" /\ UNCHANGED <<now, at, list, page, total, seen, answer>>
  BY DEF Write, walk
<1>2. now \in Nat /\ req \in [Request -> RequestSet] /\ row \in [Record -> RowSet]
  BY DEF RInv, Typed
<1>3. PICK e : /\ e = [req[q] EXCEPT !.stage = "written", !.record = r, !.action = action]
               /\ req' = [req EXCEPT ![q] = e]
  BY <1>2 DEF Write
<1>4. /\ e \in RequestSet /\ e.stage = "written" /\ e.began = req[q].began
      /\ e.stamp = req[q].stamp /\ e.ended = req[q].ended
  BY <1>2, <1>3 DEF RequestSet
<1>5. /\ req' \in [Request -> RequestSet] /\ req'[q] = e
      /\ \A p \in Request \ {q} : req'[p] = req[p]
  BY <1>2, <1>3, <1>4
<1>6. row[r] \in RowSet /\ row[r].version \in Nat /\ row[r].stamp \in Nat /\ row[r].stamp <= now
  BY <1>2 DEF RowSet, RInv, StampInv
<1>7. /\ row' \in [Record -> RowSet] /\ \A p \in Record \ {r} : row'[p] = row[p]
      /\ row[r].version <= row'[r].version /\ row[r].stamp <= row'[r].stamp
      /\ row'[r].stamp <= now
  <2>1. CASE action = "delete"
    <3>1. row' = [row EXCEPT ![r].gone = TRUE]
      BY <2>1 DEF Write
    <3>2. row' \in [Record -> RowSet] /\ \A p \in Record \ {r} : row'[p] = row[p]
      BY <1>2, <3>1 DEF RowSet
    <3>3. row'[r].version = row[r].version /\ row'[r].stamp = row[r].stamp
      BY <1>2, <3>1 DEF RowSet
    <3> QED
      BY <1>6, <3>2, <3>3
  <2>2. CASE action # "delete"
    <3>1. PICK stamp \in req[q].began..now, match \in BOOLEAN :
            /\ stamp >= row[r].stamp
            /\ row' = [row EXCEPT ![r].version = @ + 1, ![r].stamp = stamp,
                                  ![r].match = match]
      BY <2>2 DEF Write
    <3>2. stamp \in Nat /\ stamp <= now
      BY <1>2, <3>1 DEF RequestSet
    <3>3. /\ \A p \in Record \ {r} : row'[p] = row[p]
          /\ row'[r].version = row[r].version + 1 /\ row'[r].stamp = stamp
      BY <1>2, <3>1 DEF RowSet
    <3>4. row' \in [Record -> RowSet]
      <4>1. PICK y \in Nat : y = row[r].version + 1
        BY <1>6
      <4>2. row' = [row EXCEPT ![r].version = y, ![r].stamp = stamp, ![r].match = match]
        BY <3>1, <4>1
      <4>3. row \in [Record -> RowSet] /\ stamp \in Nat /\ match \in BOOLEAN
        BY <1>2, <3>2
      <4> QED
        BY ONLY <4>2, <4>3, r \in Record, y \in Nat, RowWritten
    <3> QED
      BY <1>6, <3>1, <3>2, <3>3, <3>4
  <2> QED
    BY <2>1, <2>2
<1>8. Typed'
  BY <1>1, <1>5, <1>7 DEF RInv, Typed
<1>9. StampInv'
  BY <1>1, <1>4, <1>5, <1>7 DEF RInv, StampInv
<1>10. RowGrows
  <2>1. \A p \in Record : row[p].version \in Nat /\ row[p].stamp \in Nat
    BY <1>2 DEF RowSet
  <2> QED
    BY <1>7, <2>1 DEF RowGrows
<1> QED
  BY <1>1, <1>5, <1>8, <1>9, <1>10 DEF LogGrows

\* What was read stays below what a writing step leaves behind.
LEMMA WritesKeepAnswers ==
  ASSUME RInv, LogGrows, RowGrows, Typed', UNCHANGED <<at, answer>>
  PROVE  GetInv' /\ SumInv'
<1>1. GetInv'
  <2>1. ASSUME at = "first"
        PROVE  answer \in GetSet /\ answer.version <= row'[answer.id].version
    <3>1. answer \in GetSet /\ answer.version <= row[answer.id].version
      BY <2>1 DEF RInv, GetInv
    <3>2. answer.id \in Record /\ answer.version \in Nat
      BY <3>1 DEF GetSet
    <3>3. row[answer.id].version \in Nat /\ row'[answer.id].version \in Nat
      BY <3>2 DEF RInv, Typed, RowSet
    <3> QED
      BY <3>1, <3>2, <3>3 DEF RowGrows
  <2> QED
    BY <2>1 DEF RInv, GetInv
<1>2. SumInv'
  <2> SUFFICES ASSUME NEW a, a = answer
               PROVE  /\ at \in {"transitions", "actions"} => a.total <= Cardinality(Recent(a)')
                      /\ at = "actions" => a.transitions <= Cardinality(Transitions(a)')
                      /\ at = "entities" => a.actions[1] <= Cardinality(Recent(a)')
    BY DEF RInv, SumInv, Recent, Transitions, Since
  <2>1. Cardinality(Recent(a)) <= Cardinality(Recent(a)')
        /\ Cardinality(Transitions(a)) <= Cardinality(Transitions(a)')
    BY RecentGrows
  <2>2. /\ Recent(a)' \in SUBSET Request /\ Transitions(a)' \in SUBSET Request
    BY DEF Recent, Transitions, Logged
  <2>3. /\ Cardinality(Recent(a)) \in Nat /\ Cardinality(Transitions(a)) \in Nat
        /\ Cardinality(Recent(a)') \in Nat /\ Cardinality(Transitions(a)') \in Nat
    BY <2>2, RecentSets, Sizes
  <2>4. at \in {"total", "transitions", "actions", "entities"} =>
          a.total \in Nat /\ a.transitions \in Nat /\ a.actions[1] \in Nat
    BY DEF RInv, SumInv, Summaries
  <2> QED
    BY <2>1, <2>3, <2>4 DEF RInv, SumInv
<1> QED
  BY <1>1, <1>2

-----------------------------------------------------------------------------
(* Lists.                                                                  *)

\* The ids in the list that is walked, and the item of each.
Listed == IF list = "rows" THEN {r \in Record : Present(r) /\ row[r].match} ELSE Logged

StampOf(i) == IF list = "rows" THEN row[i].stamp ELSE req[i].stamp

Item(i) == [id |-> i, stamp |-> StampOf(i)]

LEMMA ItemsListed ==
  ASSUME list \in {"rows", "log"}
  PROVE  /\ Items = {Item(i) : i \in Listed}
         /\ \A x \in Items : x.id \in Listed /\ x = Item(x.id)
         /\ \A i \in Listed : Item(i) \in Items /\ Item(i).id = i /\ Item(i).stamp = StampOf(i)
         /\ Ids(Items) = Listed
<1>1. Items = {Item(i) : i \in Listed}
  BY DEF Items, Listed, Item, StampOf
<1>2. \A i : Item(i).id = i /\ Item(i).stamp = StampOf(i)
  BY DEF Item
<1>3. \A x \in Items : x.id \in Listed /\ x = Item(x.id)
  BY <1>1, <1>2
<1>4. Ids(Items) = Listed
  BY <1>1, <1>2 DEF Ids
<1> QED
  BY <1>1, <1>2, <1>3, <1>4

LEMMA ListedFinite ==
  ASSUME list \in {"rows", "log"}
  PROVE  IsFiniteSet(Listed) /\ IsFiniteSet(Items) /\ Cardinality(Items) \in Nat
<1>1. IsFiniteSet(Record)
  BY CountAssumption, FS_Interval DEF Record
<1>2. Listed \subseteq Record \/ Listed \subseteq Request
  BY DEF Listed, Logged
<1>3. IsFiniteSet(Listed)
  BY <1>1, <1>2, FiniteAssumption, FS_Subset
<1> DEFINE f == [i \in Listed |-> Item(i)]
<1>4. f \in Surjection(Listed, Items)
  BY ItemsListed DEF Surjection
<1>5. IsFiniteSet(Items)
  BY <1>3, <1>4, FS_Surjection
<1> QED
  BY <1>3, <1>5, FS_CardinalityType

-----------------------------------------------------------------------------
(* Reading steps.                                                          *)

LEMMA ReadTyped ==
  ASSUME RInv, UNCHANGED <<now, row, req>>,
         \/ \E r \in Record : Get(r) \/ History(r)
         \/ Preload \/ Count \/ Find \/ Summarize \/ Done
         \/ \E l \in {"rows", "log"} : StartWalk(l)
         \/ \E i \in DOMAIN Queries : Query(i)
  PROVE  Typed' /\ StampInv'
<1>1. StampInv'
  BY DEF RInv, StampInv
<1>2. /\ at' \in Place /\ list' \in {"rows", "log"} /\ page' \in Nat \ {0} /\ total' \in Nat
  <2>1. list \in {"rows", "log"} /\ page \in Nat \ {0} /\ total \in Nat
    BY DEF RInv, Typed
  <2>2. CASE \E r \in Record : Get(r) \/ History(r)
    BY <2>1, <2>2 DEF Get, History, walk, Place
  <2>3. CASE Preload \/ Summarize \/ Done
    BY <2>1, <2>3 DEF Preload, Summarize, Done, walk, Place
  <2>4. CASE Count
    BY <2>1, <2>4, ListedFinite DEF Count, Place
  <2>5. CASE Find
    BY <2>1, <2>5 DEF Find, Place
  <2>6. CASE \E l \in {"rows", "log"} : StartWalk(l)
    BY <2>1, <2>6 DEF StartWalk, Place
  <2>7. CASE \E i \in DOMAIN Queries : Query(i)
    BY <2>1, <2>7, QueryNames DEF Query, walk, Place
  <2> QED
    BY <2>2, <2>3, <2>4, <2>5, <2>6, <2>7
<1> QED
  BY <1>1, <1>2 DEF RInv, Typed

LEMMA GetSteps ==
  ASSUME RInv, (\E r \in Record : Get(r)) \/ Preload
  PROVE  GetInv' /\ SumInv'
<1>1. ASSUME NEW r \in Record, Get(r) PROVE GetInv' /\ SumInv'
  <2>1. /\ at' = "first" /\ UNCHANGED row
        /\ answer' = [[id |-> r, version |-> 0, revisions |-> {}]
                        EXCEPT !.version = row[r].version]
    BY <1>1 DEF Get, Statement
  <2>2. row[r].version \in Nat
    BY DEF RInv, Typed, RowSet
  <2>3. answer'.id = r /\ answer'.version = row[r].version /\ answer' \in GetSet
    BY <2>1, <2>2 DEF GetSet
  <2> QED
    BY <2>1, <2>2, <2>3 DEF GetInv, SumInv
<1>2. CASE Preload
  <2>1. /\ at = "first" /\ at' = "got"
        /\ answer' = [answer EXCEPT !.revisions = 1..row[answer.id].version]
    BY <1>2 DEF Preload, Statement
  <2>2. answer \in GetSet /\ answer.version <= row[answer.id].version
    BY <2>1 DEF RInv, GetInv
  <2>3. row[answer.id].version \in Nat
    BY <2>2 DEF RInv, Typed, RowSet, GetSet
  <2>4. answer'.version = answer.version /\ answer'.revisions = 1..row[answer.id].version
    BY <2>1, <2>2 DEF GetSet
  <2>5. answer.version \in Nat
    BY <2>2 DEF GetSet
  <2> QED
    BY <2>1, <2>2, <2>3, <2>4, <2>5 DEF GetInv, SumInv
<1> QED
  BY <1>1, <1>2

\* One query of a summary, by the place it is made at.
LEMMA QueryShape ==
  ASSUME NEW i \in DOMAIN Queries, Query(i)
  PROVE  /\ at = "total" =>
              /\ at' = "transitions"
              /\ answer' = [answer EXCEPT !.total = Cardinality(Recent(answer))]
         /\ at = "transitions" =>
              /\ at' = "actions"
              /\ answer' = [answer EXCEPT !.transitions = Cardinality(Transitions(answer))]
         /\ at = "actions" =>
              /\ at' = "entities"
              /\ answer' = [answer EXCEPT !.actions = <<Cardinality(Recent(answer)),
                                                       Cardinality(Transitions(answer))>>]
         /\ at = "entities" =>
              /\ at' = "summed"
              /\ answer' = [answer EXCEPT !.entities = Cardinality(Recent(answer))]
<1>1. i \in {1, 2, 3, 4} /\ at = Queries[i]
  BY QueryNames DEF Query
<1>2. at' = IF i < 4 THEN Queries[i + 1] ELSE "summed"
  BY QueryNames DEF Query
<1>3. CASE i = 1
  <2>1. at = "total" /\ at' = "transitions"
    BY <1>1, <1>2, <1>3, QueryNames
  <2>2. answer' = [answer EXCEPT !.total = Cardinality(Recent(answer))]
    BY <2>1 DEF Query
  <2> QED
    BY <2>1, <2>2
<1>4. CASE i = 2
  <2>1. at = "transitions" /\ at' = "actions"
    BY <1>1, <1>2, <1>4, QueryNames
  <2>2. answer' = [answer EXCEPT !.transitions = Cardinality(Transitions(answer))]
    BY <2>1 DEF Query
  <2> QED
    BY <2>1, <2>2
<1>5. CASE i = 3
  <2>1. at = "actions" /\ at' = "entities"
    BY <1>1, <1>2, <1>5, QueryNames
  <2>2. answer' = [answer EXCEPT !.actions = <<Cardinality(Recent(answer)),
                                               Cardinality(Transitions(answer))>>]
    BY <2>1 DEF Query
  <2> QED
    BY <2>1, <2>2
<1>6. CASE i = 4
  <2>1. at = "entities" /\ at' = "summed"
    BY <1>1, <1>2, <1>6, QueryNames
  <2>2. answer' = [answer EXCEPT !.entities = Cardinality(Recent(answer))]
    BY <2>1 DEF Query
  <2> QED
    BY <2>1, <2>2
<1> QED
  BY <1>1, <1>3, <1>4, <1>5, <1>6

LEMMA SumSteps ==
  ASSUME RInv, UNCHANGED <<now, row, req>>, Summarize \/ \E i \in DOMAIN Queries : Query(i)
  PROVE  GetInv' /\ SumInv'
<1> DEFINE a == answer
<1>1. CASE Summarize
  <2>1. now - Window \in Int
    BY TimeAssumption DEF RInv, Typed
  <2> QED
    BY <1>1, <2>1 DEF Summarize, GetInv, SumInv, Summaries
<1>2. ASSUME NEW i \in DOMAIN Queries, Query(i) PROVE GetInv' /\ SumInv'
  <2>1. /\ a \in Summaries
        /\ a.total \in Nat /\ a.transitions \in Nat /\ a.actions[1] \in Nat /\ a.actions[2] \in Nat
    <3>1. at \in {"total", "transitions", "actions", "entities"}
      BY <1>2, QueryNames DEF Query
    <3>2. a \in Summaries
      BY <3>1 DEF RInv, SumInv
    <3> QED
      BY <3>2 DEF Summaries
  <2>2. /\ Recent(a) \in SUBSET Request /\ Transitions(a) \in SUBSET Request
        /\ Cardinality(Recent(a)) \in Nat /\ Cardinality(Transitions(a)) \in Nat
    BY RecentSets, Sizes
  <2>3. \A s : s.since = a.since => Recent(s) = Recent(a) /\ Transitions(s) = Transitions(a)
    BY DEF Recent, Transitions, Since
  <2>4. \A s : Recent(s)' = Recent(s) /\ Transitions(s)' = Transitions(s)
    BY DEF Recent, Transitions, Logged, Since
  <2>5. CASE at = "total"
    <3>1. at' = "transitions" /\ answer' = [a EXCEPT !.total = Cardinality(Recent(a))]
      BY <1>2, <2>5, QueryShape
    <3>2. /\ answer' \in Summaries /\ answer'.total = Cardinality(Recent(a))
          /\ answer'.since = a.since
      BY <2>1, <2>2, <3>1 DEF Summaries
    <3>3. Recent(answer)' = Recent(a)
      BY <2>3, <2>4, <3>2 DEF Recent, Logged, Since
    <3> QED
      BY <2>2, <3>1, <3>2, <3>3 DEF GetInv, SumInv
  <2>6. CASE at = "transitions"
    <3>1. at' = "actions" /\ answer' = [a EXCEPT !.transitions = Cardinality(Transitions(a))]
      BY <1>2, <2>6, QueryShape
    <3>2. /\ answer' \in Summaries /\ answer'.transitions = Cardinality(Transitions(a))
          /\ answer'.total = a.total /\ answer'.since = a.since
      BY <2>1, <2>2, <3>1 DEF Summaries
    <3>3. Recent(answer)' = Recent(a) /\ Transitions(answer)' = Transitions(a)
      BY <2>3, <2>4, <3>2 DEF Recent, Transitions, Logged, Since
    <3> QED
      BY <2>2, <2>6, <3>1, <3>2, <3>3 DEF RInv, GetInv, SumInv
  <2>7. CASE at = "actions"
    <3>1. /\ at' = "entities"
          /\ answer' = [a EXCEPT !.actions = <<Cardinality(Recent(a)),
                                               Cardinality(Transitions(a))>>]
      BY <1>2, <2>7, QueryShape
    <3>2. /\ answer' \in Summaries /\ answer'.actions[1] = Cardinality(Recent(a))
          /\ answer'.actions[2] = Cardinality(Transitions(a))
          /\ answer'.transitions = a.transitions
          /\ answer'.total = a.total /\ answer'.since = a.since
      BY <2>1, <2>2, <3>1 DEF Summaries
    <3>3. Recent(answer)' = Recent(a)
      BY <2>3, <2>4, <3>2 DEF Recent, Logged, Since
    <3> QED
      BY <2>2, <2>7, <3>1, <3>2, <3>3 DEF RInv, GetInv, SumInv
  <2>8. CASE at = "entities"
    <3>1. /\ at' = "summed"
          /\ answer' = [a EXCEPT !.entities = Cardinality(Recent(a))]
      BY <1>2, <2>8, QueryShape
    <3>2. /\ answer' \in Summaries /\ answer'.actions = a.actions
          /\ answer'.entities = Cardinality(Recent(a))
          /\ answer'.transitions = a.transitions /\ answer'.total = a.total
      BY <2>1, <2>2, <3>1 DEF Summaries
    <3> QED
      BY <2>2, <2>8, <3>1, <3>2 DEF RInv, GetInv, SumInv
  <2> QED
    BY <1>2, <2>5, <2>6, <2>7, <2>8, QueryNames DEF Query
<1> QED
  BY <1>1, <1>2

LEMMA InitRInv == Init => RInv
<1> SUFFICES ASSUME Init PROVE RInv
  OBVIOUS
<1>1. /\ NoRow \in RowSet /\ NoRow.stamp = 0
      /\ [NoRow EXCEPT !.version = 1, !.match = TRUE] \in RowSet
      /\ [NoRow EXCEPT !.version = 1, !.match = TRUE].stamp = 0
  BY DEF NoRow, RowSet
<1>2. row \in [Record -> RowSet] /\ \A r \in Record : row[r].stamp = 0
  BY <1>1 DEF Init
<1>3. NoRequest \in RequestSet
  BY CountAssumption DEF NoRequest, RequestSet, Record, Action
<1>4. Typed
  BY <1>2, <1>3, TimeAssumption DEF Init, Typed, Place
<1>5. StampInv
  BY <1>2 DEF Init, StampInv, NoRequest
<1> QED
  BY <1>4, <1>5 DEF Init, RInv, GetInv, SumInv

LEMMA NextRInv == RInv /\ [Next]_vars => RInv'
<1> SUFFICES ASSUME RInv, [Next]_vars PROVE RInv'
  OBVIOUS
<1>1. UNCHANGED row => RowGrows
  BY DEF RowGrows, RInv, Typed, RowSet
<1>2. ASSUME NEW q \in Request,
             \/ Begin(q) \/ Stamp(q) \/ Insert(q)
             \/ \E r \in Record, action \in Action : Write(q, r, action)
      PROVE  RInv'
  <2>1. Typed' /\ StampInv' /\ LogGrows /\ RowGrows
    BY <1>1, <1>2, BeginStep, StampStep, InsertStep, WriteStep
  <2>2. UNCHANGED <<at, answer>>
    BY <1>2 DEF Begin, Stamp, Insert, Write
  <2> QED
    BY <2>1, <2>2, WritesKeepAnswers DEF RInv
<1>3. CASE Tick
  BY <1>1, <1>3, TickStep, WritesKeepAnswers DEF RInv, Tick
<1>4. CASE (\E r \in Record : Get(r)) \/ Preload
  BY <1>4, ReadTyped, GetSteps DEF RInv, Get, Preload
<1>5. CASE Summarize \/ \E i \in DOMAIN Queries : Query(i)
  <2>1. UNCHANGED <<now, row, req>>
    BY <1>5 DEF Summarize, Query
  <2> QED
    BY <1>5, <2>1, ReadTyped, SumSteps DEF RInv
<1>6. CASE \/ Count \/ Find \/ Done \/ (\E l \in {"rows", "log"} : StartWalk(l))
           \/ \E r \in Record : History(r)
  <2>1. UNCHANGED <<now, row, req>> /\ at' \in {"count", "find", "walked", "history", "idle"}
    BY <1>6 DEF Count, Find, Done, StartWalk, History
  <2>2. GetInv' /\ SumInv'
    BY <2>1 DEF GetInv, SumInv
  <2> QED
    BY <1>6, <2>1, <2>2, ReadTyped DEF RInv
<1>7. CASE UNCHANGED vars
  <2>1. UNCHANGED <<now, row, req, at, list, page, total, answer>>
    BY <1>7 DEF vars, walk
  <2> QED
    BY <2>1 DEF RInv, Typed, StampInv, GetInv, SumInv, Recent, Transitions, Logged, Since
<1> QED
  BY <1>2, <1>3, <1>4, <1>5, <1>6, <1>7 DEF Next

(***************************************************************************)
(* Every reachable state of readers and writers satisfies the inductive    *)
(* invariant: nothing a reader was told is ahead of what is stored.        *)
(***************************************************************************)
THEOREM ReadsInvariance == Spec => []RInv
<1> QED
  BY InitRInv, NextRInv, PTL DEF Spec

-----------------------------------------------------------------------------
(* What the invariant is for.                                              *)

(***************************************************************************)
(* Get never shows a record at a version whose revision it does not show,  *)
(* however many writes come between its two statements.                    *)
(***************************************************************************)
THEOREM RevisionsReachHolds == Spec => []RevisionsReach
<1>1. RInv => RevisionsReach
  BY DEF RInv, GetInv, RevisionsReach
<1> QED
  BY <1>1, ReadsInvariance, PTL

(***************************************************************************)
(* The numbers of a summary are in the order of its queries, whatever is   *)
(* written between them: all look back to the same moment.                 *)
(***************************************************************************)
THEOREM SummaryNestedHolds == Spec => []SummaryNested
<1>1. RInv => SummaryNested
  BY DEF RInv, SumInv, SummaryNested
<1> QED
  BY <1>1, ReadsInvariance, PTL

(***************************************************************************)
(* A history shows requests that followed each other in their order, and   *)
(* none without the later ones: entries are stamped within their request.  *)
(***************************************************************************)
THEOREM HistoryOrderHolds == Spec => HistoryOrder
<1>1. ASSUME RInv, [Next]_vars, at # "history", at' = "history",
             NEW i \in DOMAIN answer'.entries, NEW q \in Entries(answer'.id),
             req[answer'.entries[i]].ended < req[q].began
      PROVE  \E j \in 1..(i - 1) : answer'.entries[j] = q
  <2>1. PICK r \in Record : History(r)
    <3>1. SUFFICES ASSUME \A r \in Record : ~ History(r) PROVE FALSE
      OBVIOUS
    <3>2. /\ ~ UNCHANGED vars /\ ~ Tick /\ ~ Preload /\ ~ Count /\ ~ Find /\ ~ Summarize /\ ~ Done
      BY <1>1 DEF vars, Tick, Preload, Count, Find, Summarize, Done
    <3>3. \A p \in Request : ~ Begin(p) /\ ~ Stamp(p) /\ ~ Insert(p)
      BY <1>1 DEF Begin, Stamp, Insert
    <3>4. \A p \in Request, r \in Record, action \in Action : ~ Write(p, r, action)
      BY <1>1 DEF Write
    <3>5. \A r \in Record : ~ Get(r)
      BY <1>1 DEF Get
    <3>6. \A l \in {"rows", "log"} : ~ StartWalk(l)
      BY <1>1 DEF StartWalk
    <3>7. ASSUME NEW n \in DOMAIN Queries, Query(n) PROVE FALSE
      <4>1. at' = IF n < 4 THEN Queries[n + 1] ELSE "summed"
        BY <3>7, QueryNames DEF Query
      <4>2. n \in {1, 2, 3, 4}
        BY QueryNames
      <4> QED
        BY <1>1, <4>1, <4>2, QueryNames
    <3>8. Next
      BY <1>1, <3>2
    <3> QED
      BY <3>1, <3>2, <3>3, <3>4, <3>5, <3>6, <3>7, <3>8 DEF Next
  <2>2. PICK all \in SetToSeqs(Entries(r)) :
          /\ \A m, n \in DOMAIN all : Before(all[m], all[n]) => m < n
          /\ answer' = [id |-> r, entries |->
               SubSeq(all, 1, IF Len(all) < Limit THEN Len(all) ELSE Limit)]
    BY <2>1 DEF History
  <2> DEFINE S == Entries(r)
             N == Cardinality(S)
             shown == answer'.entries
  <2>3. S \in SUBSET Request /\ IsFiniteSet(S) /\ N \in Nat
    BY Sizes DEF Entries, Logged
  <2>4. /\ all \in [1..N -> S] /\ DOMAIN all = 1..N
        /\ all \in Injection(1..N, S)
    BY <2>2 DEF SetToSeqs, Injection, IsInjective
  <2>5. \A s \in S : \E n \in 1..N : all[n] = s
    <3>1. Cardinality(1..N) = N
      BY <2>3, FS_Interval
    <3>2. all \in Surjection(1..N, S)
      BY <2>3, <2>4, <3>1, FS_Injection
    <3> QED
      BY <3>2 DEF Surjection
  <2>6. Len(all) = N /\ all \in Seq(S)
    BY <2>3, <2>4
  <2>7. /\ answer'.id = r
        /\ \E L \in 0..N : /\ DOMAIN shown = 1..L /\ \A n \in 1..L : shown[n] = all[n]
    <3> DEFINE L == IF Len(all) < Limit THEN Len(all) ELSE Limit
    <3>1. L \in 0..N
      BY <2>3, <2>6, PageAssumption
    <3>2. answer'.id = r /\ shown = SubSeq(all, 1, L)
      BY <2>2
    <3>3. DOMAIN SubSeq(all, 1, L) = 1..L /\ \A n \in 1..L : SubSeq(all, 1, L)[n] = all[n]
      BY <2>3, <2>4, <2>6, <3>1
    <3> QED
      BY <3>1, <3>2, <3>3
  <2>8. PICK L \in 0..N : DOMAIN shown = 1..L /\ \A n \in 1..L : shown[n] = all[n]
    BY <2>7
  <2>9. i \in 1..L /\ i \in 1..N /\ shown[i] = all[i] /\ all[i] \in S
    BY <1>1, <2>3, <2>4, <2>8
  <2>10. PICK j \in 1..N : all[j] = q
    BY <1>1, <2>5, <2>7
  <2>11. Before(q, all[i])
    <3>1. q \in Request /\ all[i] \in Request
          /\ req[q].stage = "done" /\ req[all[i]].stage = "done"
      BY <1>1, <2>7, <2>9 DEF Entries, Logged
    <3>2. /\ req[q].began <= req[q].stamp /\ req[all[i]].stamp <= req[all[i]].ended
      BY <1>1, <3>1 DEF RInv, StampInv
    <3>3. /\ req[q].began \in Nat /\ req[q].stamp \in Nat
          /\ req[all[i]].stamp \in Nat /\ req[all[i]].ended \in Nat
      BY <1>1, <3>1 DEF RInv, Typed, RequestSet
    <3>4. req[all[i]].ended < req[q].began
      BY <1>1, <2>9
    <3> QED
      BY <3>2, <3>3, <3>4 DEF Before
  <2>12. j < i
    BY <2>2, <2>4, <2>9, <2>10, <2>11
  <2>13. j \in 1..(i - 1) /\ shown[j] = q
    BY <2>8, <2>9, <2>10, <2>12
  <2> QED
    BY <2>13
<1>2. RInv /\ [Next]_vars =>
        [at # "history" /\ at' = "history" =>
           LET shown == answer'.entries
           IN \A i \in DOMAIN shown, q \in Entries(answer'.id) :
                req[shown[i]].ended < req[q].began => \E j \in 1..(i - 1) : shown[j] = q]_vars
  BY <1>1
<1> QED
  BY <1>2, ReadsInvariance, PTL DEF Spec, HistoryOrder

-----------------------------------------------------------------------------
(* A walk through a list.  An item that was not shown has at least as many *)
(* items before it as the pages so far have places: items that are touched *)
(* move before it, never behind it, and none leaves.                       *)

\* The ids of the items that a list has before x.
Ahead(x) == Ids({y \in Items : Newer(y, x)})

WalkInv ==
  /\ steady \subseteq Items
  /\ at \in {"count", "find"} /\ ~left =>
       \A x \in steady :
         Ordered(x) => x.id \in seen \/ Cardinality(Ahead(x)) >= Offset(page)
  /\ at \in {"find", "walked"} /\ ~came => Cardinality(Items) <= total
  /\ WalkCovers

LEMMA ItemFacts ==
  ASSUME RInv
  PROVE  /\ list \in {"rows", "log"}
         /\ \A x \in Items : x.stamp \in Nat /\ (list = "rows" => x.id \in Nat)
         /\ \A x, y \in Items : x.id = y.id => x = y
         /\ IsFiniteSet(Items)
         /\ \A s \in SUBSET Items :
              /\ IsFiniteSet(s) /\ Cardinality(s) \in Nat
              /\ IsFiniteSet(Ids(s)) /\ Cardinality(Ids(s)) = Cardinality(s)
<1>1. list \in {"rows", "log"}
  BY DEF RInv, Typed
<1>2. \A x \in Items : x.stamp \in Nat /\ (list = "rows" => x.id \in Nat)
  BY <1>1, ItemsListed DEF RInv, Typed, RowSet, RequestSet, StampOf, Listed, Logged, Record
<1>3. \A x, y \in Items : x.id = y.id => x = y
  BY <1>1, ItemsListed
<1>4. IsFiniteSet(Items)
  BY <1>1, ListedFinite
<1>5. ASSUME NEW s \in SUBSET Items
      PROVE  /\ IsFiniteSet(s) /\ Cardinality(s) \in Nat
             /\ IsFiniteSet(Ids(s)) /\ Cardinality(Ids(s)) = Cardinality(s)
  <2>1. IsFiniteSet(s)
    BY <1>4, FS_Subset
  <2> DEFINE f == [x \in s |-> x.id]
  <2>2. f \in Surjection(s, Ids(s)) /\ f \in Injection(s, Ids(s))
    BY <1>3 DEF Ids, Surjection, Injection, IsInjective
  <2> QED
    BY <2>1, <2>2, FS_Surjection, FS_CardinalityType
<1> QED
  BY <1>1, <1>2, <1>3, <1>4, <1>5

LEMMA AheadFinite ==
  ASSUME RInv, NEW x
  PROVE  IsFiniteSet(Ahead(x)) /\ Cardinality(Ahead(x)) \in Nat
         /\ Cardinality(Ahead(x)) = Cardinality({y \in Items : Newer(y, x)})
  BY ItemFacts DEF Ahead

\* The same of the items after a step.
ItemsCounted ==
  /\ \A x \in Items : x.stamp \in Nat /\ x.stamp = StampOf(x.id)
  /\ Cardinality(Ids(Items)) = Cardinality(Items) /\ Cardinality(Items) \in Nat
  /\ \A x : IsFiniteSet(Ahead(x)) /\ Cardinality(Ahead(x)) \in Nat

LEMMA Counted == RInv => ItemsCounted
  BY ItemFacts, ItemsListed, AheadFinite DEF ItemsCounted

LEMMA CountedNext == RInv' => ItemsCounted'
  BY Counted, PTL

\* An item has fewer items before it than there are.
LEMMA AheadBelow ==
  ASSUME RInv, NEW x \in Items
  PROVE  Cardinality(Ahead(x)) < Cardinality(Items)
<1> DEFINE A == {y \in Items : Newer(y, x)}
<1>1. x \notin A
  BY ItemFacts DEF Newer
<1>2. IsFiniteSet(Items) /\ Cardinality(Items) \in Nat
      /\ Cardinality(A) \in Nat /\ Cardinality(A) <= Cardinality(Items)
      /\ (Cardinality(A) = Cardinality(Items) => A = Items)
  BY ItemFacts, FS_Subset
<1> QED
  BY <1>1, <1>2, AheadFinite

\* What a step that changes rows or the log does to a walk.
LEMMA WalkWatched ==
  ASSUME RInv, RInv', WalkInv, UNCHANGED <<at, list, page, total, seen>>,
         \A y \in Items, z \in Items' : y.id = z.id => y.stamp <= z.stamp,
         list = "log" => Items \subseteq Items',
         Watch
  PROVE  WalkInv'
<1>1. steady' \subseteq Items' /\ steady' \subseteq steady /\ steady' \subseteq Items
  BY DEF Watch, WalkInv
<1>2. ~left' => ~left /\ Ids(Items) \subseteq Ids(Items)'
  BY DEF Watch
<1>3. ~came' => ~came /\ Ids(Items)' \subseteq Ids(Items)
  BY DEF Watch
<1>4. \A x \in steady' : Ordered(x)' => Ordered(x)
  <2> SUFFICES ASSUME NEW x \in steady', Ordered(x)' PROVE Ordered(x)
    OBVIOUS
  <2>1. CASE list = "rows"
    BY <2>1 DEF Ordered
  <2>2. CASE list # "rows"
    <3>1. list = "log" /\ list' = list
      BY <2>2 DEF RInv, Typed
    <3>2. \A y \in Items' : y.stamp = x.stamp => y = x
      BY <3>1 DEF Ordered
    <3> QED
      BY <3>1, <3>2 DEF Ordered
  <2> QED
    BY <2>1, <2>2
<1>5. ASSUME ~left', NEW x \in steady'
      PROVE  Cardinality(Ahead(x)) <= Cardinality(Ahead(x)')
  <2>1. ASSUME NEW y \in Items, Newer(y, x)
        PROVE  \E z \in Items' : z.id = y.id /\ Newer(z, x)'
    <3>1. PICK z \in Items' : z.id = y.id
      BY <1>2, <1>5 DEF Ids
    <3>2. y.stamp <= z.stamp
      BY <3>1
    <3>3. x.stamp \in Nat /\ y.stamp \in Nat
      BY <1>1, ItemFacts
    <3>4. z.stamp \in Nat
      BY <3>1, CountedNext DEF ItemsCounted
    <3>5. list = "rows" => x.id \in Nat /\ y.id \in Nat
      BY <1>1, ItemFacts
    <3> QED
      BY <2>1, <3>1, <3>2, <3>3, <3>4, <3>5 DEF Newer
  <2>2. Ahead(x) \subseteq Ahead(x)'
    BY <2>1 DEF Ahead, Ids
  <2>3. IsFiniteSet(Ahead(x)')
    BY CountedNext DEF ItemsCounted
  <2> QED
    BY <2>2, <2>3, FS_Subset
<1>6. ASSUME at' \in {"count", "find"}, ~left', NEW x \in steady', Ordered(x)',
             x.id \notin seen'
      PROVE  Cardinality(Ahead(x)') >= Offset(page')
  <2>1. Cardinality(Ahead(x)) >= Offset(page)
    BY <1>1, <1>2, <1>4, <1>6 DEF WalkInv
  <2>2. Cardinality(Ahead(x)) <= Cardinality(Ahead(x)')
    BY <1>5, <1>6
  <2>3. Cardinality(Ahead(x)) \in Nat
    BY AheadFinite
  <2>4. Cardinality(Ahead(x)') \in Nat
    BY CountedNext DEF ItemsCounted
  <2>5. Offset(page) \in Int
    BY PageAssumption DEF Offset, RInv, Typed
  <2> QED
    BY <2>1, <2>2, <2>3, <2>4, <2>5
<1>7. ASSUME at' \in {"find", "walked"}, ~came' PROVE Cardinality(Items') <= total'
  <2>1. Cardinality(Items) <= total
    BY <1>3, <1>7 DEF WalkInv
  <2>2. Ids(Items)' \subseteq Ids(Items)
    BY <1>3, <1>7
  <2>3. IsFiniteSet(Ids(Items)) /\ Cardinality(Ids(Items)) = Cardinality(Items)
    BY ItemFacts
  <2>4. Cardinality(Ids(Items)') = Cardinality(Items')
    BY CountedNext DEF ItemsCounted
  <2>5. Cardinality(Ids(Items)') <= Cardinality(Ids(Items))
    BY <2>2, <2>3, FS_Subset
  <2>6. Cardinality(Items) \in Nat /\ Cardinality(Items') \in Nat /\ total' = total /\ total \in Nat
    BY ItemFacts, CountedNext DEF ItemsCounted, RInv, Typed
  <2> QED
    BY <2>1, <2>3, <2>4, <2>5, <2>6
<1>8. WalkCovers'
  BY <1>1, <1>2, <1>3, <1>4 DEF WalkInv, WalkCovers
<1> QED
  BY <1>1, <1>6, <1>7, <1>8 DEF WalkInv

\* The pages of a walk.
LEMMA FindShows ==
  ASSUME RInv, WalkInv, at = "find", ~left, NEW x \in steady, Ordered(x),
         NEW before \in Firsts(Offset(page)), NEW shown \in Firsts(Offset(page) + PageSize),
         x.id \notin seen \cup Ids(shown \ before)
  PROVE  Cardinality(Ahead(x)) >= Offset(page) + PageSize
<1> DEFINE n == Offset(page)
           A == {y \in Items : Newer(y, x)}
<1>1. n \in Nat /\ PageSize \in Nat \ {0} /\ n + PageSize \in Nat
  BY PageAssumption DEF Offset, RInv, Typed
<1>2. /\ before \in SUBSET Items /\ \A a \in before, b \in Items : Newer(b, a) => b \in before
      /\ Cardinality(before) = IF n < Cardinality(Items) THEN n ELSE Cardinality(Items)
  BY DEF Firsts
<1>3. /\ shown \in SUBSET Items /\ \A a \in shown, b \in Items : Newer(b, a) => b \in shown
      /\ Cardinality(shown) = IF n + PageSize < Cardinality(Items)
                              THEN n + PageSize ELSE Cardinality(Items)
  BY DEF Firsts
<1>4. x \in Items /\ x.stamp \in Nat
  BY ItemFacts DEF WalkInv
<1>5. Cardinality(A) = Cardinality(Ahead(x)) /\ Cardinality(A) >= n /\ Cardinality(A) \in Nat
      /\ IsFiniteSet(A)
  BY AheadFinite, ItemFacts DEF WalkInv
<1>6. x \notin before
  <2>1. SUFFICES ASSUME x \in before PROVE FALSE
    OBVIOUS
  <2>2. A \subseteq before /\ x \notin A
    BY <1>2, <1>4, <2>1, ItemFacts DEF Newer
  <2>3. IsFiniteSet(before) /\ Cardinality(before) \in Nat /\ Cardinality(Items) \in Nat
    BY <1>2, ItemFacts
  <2>4. Cardinality(A) <= Cardinality(before) /\ (Cardinality(A) = Cardinality(before) => A = before)
    BY <2>2, <2>3, FS_Subset
  <2> QED
    BY <1>1, <1>2, <1>5, <2>1, <2>2, <2>3, <2>4
<1>7. x \notin shown
  BY <1>6 DEF Ids
<1>8. n + PageSize < Cardinality(Items) /\ Cardinality(shown) = n + PageSize
  <2>1. Cardinality(Items) \in Nat /\ IsFiniteSet(Items)
    BY ItemFacts
  <2>2. Cardinality(shown) = Cardinality(Items) => shown = Items
    BY <1>3, <2>1, FS_Subset
  <2> QED
    BY <1>1, <1>3, <1>4, <1>7, <2>1, <2>2
<1>9. shown \subseteq A
  <2> SUFFICES ASSUME NEW y \in shown PROVE Newer(y, x)
    BY <1>3
  <2>1. ~ Newer(x, y) /\ y \in Items /\ y # x
    BY <1>3, <1>4, <1>7
  <2>2. y.stamp \in Nat /\ (list = "rows" => x.id \in Nat /\ y.id \in Nat) /\ x.id # y.id
    BY <1>4, <2>1, ItemFacts
  <2>3. list = "rows" \/ y.stamp # x.stamp
    BY <2>1 DEF Ordered
  <2> QED
    BY <1>4, <2>1, <2>2, <2>3 DEF Newer
<1>10. Cardinality(shown) <= Cardinality(A)
  BY <1>5, <1>9, FS_Subset
<1> QED
  BY <1>1, <1>5, <1>8, <1>10

LEMMA FindStep ==
  ASSUME RInv, WalkInv, Find
  PROVE  WalkInv'
<1>1. /\ at = "find" /\ UNCHANGED <<row, req, list, total, steady, left, came>>
      /\ IF page * PageSize < total THEN at' = "count" /\ page' = page + 1
                                    ELSE at' = "walked" /\ page' = page
  BY DEF Find, watched
<1>2. PICK before \in Firsts(Offset(page)), shown \in Firsts(Offset(page) + PageSize) :
        seen' = seen \cup Ids(shown \ before)
  BY DEF Find
<1>3. Items' = Items /\ \A x : Ordered(x)' = Ordered(x) /\ Ahead(x)' = Ahead(x)
  BY <1>1 DEF Items, Present, Logged, Ordered, Ahead, Ids, Newer
<1>4. ASSUME ~left, NEW x \in steady, Ordered(x), x.id \notin seen'
      PROVE  Cardinality(Ahead(x)) >= page * PageSize
  <2>1. Cardinality(Ahead(x)) >= Offset(page) + PageSize
    BY <1>1, <1>2, <1>4, FindShows
  <2>2. Offset(page) + PageSize = page * PageSize
    BY PageAssumption DEF Offset, RInv, Typed
  <2> QED
    BY <2>1, <2>2
<1>5. at' = "count" => Offset(page') = page * PageSize
  BY <1>1, PageAssumption DEF Offset, RInv, Typed
<1>6. ~came => Cardinality(Items) <= total
  BY <1>1 DEF WalkInv
<1>7. ASSUME at' = "walked", ~left, ~came, NEW x \in steady, Ordered(x)
      PROVE  x.id \in seen'
  <2>1. SUFFICES ASSUME x.id \notin seen' PROVE FALSE
    OBVIOUS
  <2>2. Cardinality(Ahead(x)) >= page * PageSize /\ page * PageSize >= total
    BY <1>1, <1>4, <1>7, <2>1, PageAssumption DEF RInv, Typed
  <2>3. Cardinality(Ahead(x)) < Cardinality(Items)
    BY AheadBelow DEF WalkInv
  <2>4. Cardinality(Ahead(x)) \in Nat /\ Cardinality(Items) \in Nat /\ total \in Nat
    BY AheadFinite, ItemFacts DEF RInv, Typed
  <2>5. page * PageSize \in Nat
    BY PageAssumption DEF RInv, Typed
  <2> QED
    BY <1>6, <1>7, <2>2, <2>3, <2>4, <2>5
<1>8. WalkCovers'
  BY <1>1, <1>3, <1>7 DEF WalkCovers
<1> QED
  BY <1>1, <1>3, <1>4, <1>5, <1>6, <1>8 DEF WalkInv

LEMMA NextWalkInv == RInv /\ RInv' /\ WalkInv /\ [Next]_vars => WalkInv'
<1> SUFFICES ASSUME RInv, RInv', WalkInv, [Next]_vars PROVE WalkInv'
  OBVIOUS
\* A step that leaves the list and the walk through it alone.
<1>1. ASSUME Items' = Items, UNCHANGED <<at, list, page, total, seen, steady, left, came>>
      PROVE  WalkInv'
  <2>1. \A x : Ordered(x)' = Ordered(x) /\ Ahead(x)' = Ahead(x)
    BY <1>1 DEF Ordered, Ahead, Ids, Newer
  <2> QED
    BY <1>1, <2>1 DEF WalkInv, WalkCovers, Offset
\* A step that is not one of a walk.
<1>2. ASSUME UNCHANGED <<row, req, list, steady>>, at' \notin {"count", "find", "walked"}
      PROVE  WalkInv'
  <2>1. Items' = Items
    BY <1>2 DEF Items, Present, Logged
  <2> QED
    BY <1>2, <2>1 DEF WalkInv, WalkCovers
<1>3. ASSUME NEW q \in Request, Begin(q) PROVE WalkInv'
  <2>1. /\ req[q].stage = "idle"
        /\ req' = [req EXCEPT ![q].stage = "begun", ![q].began = now]
        /\ UNCHANGED <<row, at, list, page, total, seen, steady, left, came>>
    BY <1>3 DEF Begin, walk, watched
  <2>2. \A p \in Request : (req'[p].stage = "done" <=> req[p].stage = "done")
                           /\ req'[p].stamp = req[p].stamp
    BY <2>1 DEF RInv, Typed, RequestSet
  <2>3. Logged' = Logged /\ \A p \in Logged : req'[p].stamp = req[p].stamp
    BY <2>2 DEF Logged
  <2>4. Items' = Items
    BY <2>1, <2>3 DEF Items, Present
  <2> QED
    BY <1>1, <2>1, <2>4
<1>4. ASSUME NEW q \in Request, Stamp(q) PROVE WalkInv'
  <2>1. /\ req[q].stage = "written"
        /\ req' = [req EXCEPT ![q].stage = "stamped", ![q].stamp = now]
        /\ UNCHANGED <<row, at, list, page, total, seen, steady, left, came>>
    BY <1>4 DEF Stamp, walk, watched
  <2>2. \A p \in Request : /\ req'[p].stage = "done" <=> req[p].stage = "done"
                           /\ req[p].stage = "done" => req'[p].stamp = req[p].stamp
    BY <2>1 DEF RInv, Typed, RequestSet
  <2>3. Logged' = Logged /\ \A p \in Logged : req'[p].stamp = req[p].stamp
    BY <2>2 DEF Logged
  <2>4. Items' = Items
    BY <2>1, <2>3 DEF Items, Present
  <2> QED
    BY <1>1, <2>1, <2>4
<1>5. ASSUME NEW q \in Request, Insert(q) PROVE WalkInv'
  <2>1. /\ req' = [req EXCEPT ![q].stage = "done", ![q].ended = now]
        /\ UNCHANGED <<row, at, list, page, total, seen>> /\ Watch
    BY <1>5 DEF Insert, walk
  <2>2. /\ \A p \in Request : req'[p].stamp = req[p].stamp
        /\ Logged \subseteq Logged'
    BY <2>1 DEF RInv, Typed, RequestSet, Logged
  <2>3. \A y \in Items, z \in Items' : y.id = z.id => y.stamp <= z.stamp
    <3> SUFFICES ASSUME NEW y \in Items, NEW z \in Items', y.id = z.id PROVE y.stamp = z.stamp
      BY ItemFacts
    <3>1. y.stamp = StampOf(y.id) /\ y.id \in Listed
      BY ItemFacts, ItemsListed
    <3>2. z.stamp = StampOf(z.id)'
      BY CountedNext DEF ItemsCounted
    <3> QED
      BY <2>1, <2>2, <3>1, <3>2 DEF StampOf, Listed, Logged
  <2>4. list = "log" => Items \subseteq Items'
    BY <2>1, <2>2 DEF Items, Logged
  <2> QED
    BY <2>1, <2>3, <2>4, WalkWatched
<1>6. ASSUME NEW q \in Request, NEW r \in Record, NEW action \in Action, Write(q, r, action)
      PROVE  WalkInv'
  <2>1. /\ req[q].stage = "begun" /\ UNCHANGED <<at, list, page, total, seen>> /\ Watch
        /\ req' = [req EXCEPT ![q] =
             [@ EXCEPT !.stage = "written", !.record = r, !.action = action]]
    BY <1>6 DEF Write, walk
  <2>2. RowGrows
    BY <1>6, WriteStep
  <2>3. PICK e : /\ e = [req[q] EXCEPT !.stage = "written", !.record = r, !.action = action]
                 /\ req' = [req EXCEPT ![q] = e]
    BY <1>6 DEF Write
  <2>4. e.stage = "written" /\ e.stamp = req[q].stamp
    BY <2>3 DEF RInv, Typed, RequestSet
  <2>5. /\ \A p \in Request : req'[p].stamp = req[p].stamp
        /\ Logged' = Logged
    BY <2>1, <2>3, <2>4 DEF RInv, Typed, Logged
  <2>6. \A y \in Items, z \in Items' : y.id = z.id => y.stamp <= z.stamp
    <3> SUFFICES ASSUME NEW y \in Items, NEW z \in Items', y.id = z.id PROVE y.stamp <= z.stamp
      OBVIOUS
    <3>1. y.stamp = StampOf(y.id) /\ y.id \in Listed /\ y.stamp \in Nat
      BY ItemFacts, ItemsListed
    <3>2. z.stamp = StampOf(z.id)'
      BY CountedNext DEF ItemsCounted
    <3> QED
      BY <2>1, <2>2, <2>5, <3>1, <3>2 DEF StampOf, Listed, Logged, RowGrows
  <2>7. list = "log" => Items \subseteq Items'
    BY <2>1, <2>5 DEF Items, Logged
  <2> QED
    BY <2>1, <2>6, <2>7, WalkWatched
<1>7. CASE Tick \/ UNCHANGED vars
  <2>1. UNCHANGED <<row, req, at, list, page, total, seen, steady, left, came>>
    BY <1>7 DEF Tick, vars, walk, watched
  <2>2. Items' = Items
    BY <2>1 DEF Items, Present, Logged
  <2> QED
    BY <1>1, <2>1, <2>2
<1>8. CASE (\E r \in Record : Get(r) \/ History(r)) \/ Preload \/ Summarize
  BY <1>2, <1>8 DEF Get, History, Preload, Summarize, walk, watched
<1>9. ASSUME NEW i \in DOMAIN Queries, Query(i) PROVE WalkInv'
  <2>1. at' = IF i < 4 THEN Queries[i + 1] ELSE "summed"
    BY <1>9, QueryNames DEF Query
  <2>2. i \in {1, 2, 3, 4}
    BY QueryNames
  <2>3. at' \notin {"count", "find", "walked"}
    BY <2>1, <2>2, QueryNames
  <2> QED
    BY <1>2, <1>9, <2>3 DEF Query, walk, watched
<1>10. ASSUME NEW l \in {"rows", "log"}, StartWalk(l) PROVE WalkInv'
  <2>1. at' = "count" /\ steady' = Items' /\ page' = 1
    BY <1>10 DEF StartWalk
  <2>2. Offset(page') = 0
    BY <2>1, PageAssumption DEF Offset
  <2>3. \A x : Cardinality(Ahead(x)') \in Nat
    BY CountedNext DEF ItemsCounted
  <2> QED
    BY <2>1, <2>2, <2>3 DEF WalkInv, WalkCovers
<1>11. CASE Count
  <2>1. /\ at' = "find" /\ total' = Cardinality(Items)
        /\ UNCHANGED <<row, req, list, page, seen, steady, left>> /\ at = "count"
    BY <1>11 DEF Count
  <2>2. Items' = Items /\ \A x : Ordered(x)' = Ordered(x) /\ Ahead(x)' = Ahead(x)
    BY <2>1 DEF Items, Present, Logged, Ordered, Ahead, Ids, Newer
  <2>3. Cardinality(Items) \in Nat
    BY ItemFacts
  <2> QED
    BY <2>1, <2>2, <2>3 DEF WalkInv, WalkCovers, Offset
<1>12. CASE Find
  BY <1>12, FindStep
<1>13. CASE Done
  BY <1>13 DEF Done, WalkInv, WalkCovers
<1> QED
  BY <1>3, <1>4, <1>5, <1>6, <1>7, <1>8, <1>9, <1>10, <1>11, <1>12, <1>13 DEF Next

(***************************************************************************)
(* Who pages through a list has seen, at its end, everything that was      *)
(* listed and not touched in the meantime, for any page size and any       *)
(* number of writes: unless something left the list, or came in after it   *)
(* was last counted.                                                       *)
(***************************************************************************)
THEOREM WalkCoversHolds == Spec => []WalkCovers
<1>1. Init => WalkInv
  BY DEF Init, WalkInv, WalkCovers
<1>2. WalkInv => WalkCovers
  BY DEF WalkInv
<1> QED
  BY <1>1, <1>2, NextWalkInv, ReadsInvariance, PTL DEF Spec

-----------------------------------------------------------------------------
(* Types: a row has at most one version for every request, and a walk no   *)
(* more pages than there can be items.                                     *)

Writers == {q \in Request : req[q].stage \in {"written", "stamped", "done"}}

Most == MaxId + Cardinality(Request)

BoundInv ==
  /\ \A r \in Record : row[r].version <= Cardinality(Writers) + 1
  /\ page <= Most /\ total <= Most

LEMMA MostItems == RInv => Most \in Nat \ {0} /\ Cardinality(Items) <= Most
<1> SUFFICES ASSUME RInv PROVE Most \in Nat \ {0} /\ Cardinality(Items) <= Most
  OBVIOUS
<1>1. Cardinality(Request) \in Nat /\ MaxId \in Nat \ {0}
  BY Sizes, CountAssumption
<1>2. Cardinality(Items) = Cardinality(Listed) /\ Cardinality(Items) \in Nat
  BY ItemFacts, ItemsListed
<1>3. IsFiniteSet(Record) /\ Cardinality(Record) = MaxId
  BY <1>1, FS_Interval DEF Record
<1>4. Listed \subseteq Record \/ Listed \subseteq Request
  BY DEF Listed, Logged
<1>5. Cardinality(Listed) <= MaxId \/ Cardinality(Listed) <= Cardinality(Request)
  BY <1>3, <1>4, FiniteAssumption, FS_Subset
<1> QED
  BY <1>1, <1>2, <1>5 DEF Most

LEMMA NextBoundInv == RInv /\ RInv' /\ BoundInv /\ [Next]_vars => BoundInv'
<1> SUFFICES ASSUME RInv, RInv', BoundInv, [Next]_vars PROVE BoundInv'
  OBVIOUS
<1>1. /\ Writers \in SUBSET Request /\ Writers' \in SUBSET Request
      /\ Cardinality(Writers) \in Nat /\ Cardinality(Writers') \in Nat
  BY Sizes DEF Writers
<1>2. \A r \in Record : row[r].version \in Nat
  BY DEF RInv, Typed, RowSet
<1>3. Most \in Nat \ {0} /\ Most' = Most
  BY MostItems DEF Most
\* A step that writes no row.
<1>4. ASSUME UNCHANGED row, Writers \subseteq Writers', page' <= Most, total' <= Most
      PROVE  BoundInv'
  <2>1. Cardinality(Writers) <= Cardinality(Writers')
    BY <1>1, <1>4, Grows
  <2> QED
    BY <1>1, <1>2, <1>3, <1>4, <2>1 DEF BoundInv
<1>5. ASSUME UNCHANGED <<row, req, page, total>> PROVE BoundInv'
  BY <1>4, <1>5 DEF Writers, BoundInv
<1>6. ASSUME NEW q \in Request, Begin(q) \/ Stamp(q) \/ Insert(q) PROVE BoundInv'
  <2>1. UNCHANGED <<row, page, total>>
    BY <1>6 DEF Begin, Stamp, Insert, walk
  <2>2. CASE Begin(q)
    <3>1. req[q].stage = "idle" /\ req' = [req EXCEPT ![q].stage = "begun", ![q].began = now]
      BY <2>2 DEF Begin
    <3>2. Writers \subseteq Writers'
      BY <3>1 DEF Writers, RInv, Typed, RequestSet
    <3> QED
      BY <1>4, <2>1, <3>2 DEF BoundInv
  <2>3. CASE Stamp(q)
    <3>1. req' = [req EXCEPT ![q].stage = "stamped", ![q].stamp = now]
      BY <2>3 DEF Stamp
    <3>2. Writers \subseteq Writers'
      BY <3>1 DEF Writers, RInv, Typed, RequestSet
    <3> QED
      BY <1>4, <2>1, <3>2 DEF BoundInv
  <2>4. CASE Insert(q)
    <3>1. req' = [req EXCEPT ![q].stage = "done", ![q].ended = now]
      BY <2>4 DEF Insert
    <3>2. Writers \subseteq Writers'
      BY <3>1 DEF Writers, RInv, Typed, RequestSet
    <3> QED
      BY <1>4, <2>1, <3>2 DEF BoundInv
  <2> QED
    BY <1>6, <2>2, <2>3, <2>4
<1>7. ASSUME NEW q \in Request, NEW r \in Record, NEW action \in Action, Write(q, r, action)
      PROVE  BoundInv'
  <2>1. UNCHANGED <<page, total>> /\ req[q].stage = "begun"
    BY <1>7 DEF Write, walk
  <2>2. PICK e : /\ e = [req[q] EXCEPT !.stage = "written", !.record = r, !.action = action]
                 /\ req' = [req EXCEPT ![q] = e]
    BY <1>7 DEF Write
  <2>3. e.stage = "written"
    BY <2>2 DEF RInv, Typed, RequestSet
  <2>4. Writers' = Writers \cup {q} /\ q \notin Writers
    BY <2>1, <2>2, <2>3 DEF Writers, RInv, Typed
  <2>5. Cardinality(Writers') = Cardinality(Writers) + 1
    BY <1>1, <2>4, Sizes, FS_AddElement
  <2>6. \A p \in Record : row'[p].version <= row[p].version + 1
    <3>1. CASE action = "delete"
      <4>1. row' = [row EXCEPT ![r].gone = TRUE]
        BY <1>7, <3>1 DEF Write
      <4>2. \A p \in Record : row'[p].version = row[p].version
        BY <4>1 DEF RInv, Typed, RowSet
      <4> QED
        BY <1>2, <4>2
    <3>2. CASE action # "delete"
      <4>1. PICK stamp, match :
              row' = [row EXCEPT ![r].version = @ + 1, ![r].stamp = stamp, ![r].match = match]
        BY <1>7, <3>2 DEF Write
      <4>2. row'[r].version = row[r].version + 1 /\ \A p \in Record \ {r} : row'[p] = row[p]
        BY <4>1 DEF RInv, Typed, RowSet
      <4> QED
        BY <1>2, <4>2
    <3> QED
      BY <3>1, <3>2
  <2>7. \A p \in Record : row'[p].version \in Nat
    BY DEF RInv, Typed, RowSet
  <2> QED
    BY <1>1, <1>2, <1>3, <2>1, <2>5, <2>6, <2>7 DEF BoundInv
<1>8. CASE Tick \/ UNCHANGED vars
  BY <1>5, <1>8 DEF Tick, vars, walk
<1>9. CASE (\E r \in Record : Get(r) \/ History(r)) \/ Preload \/ Summarize
  BY <1>5, <1>9 DEF Get, History, Preload, Summarize, walk
<1>10. ASSUME NEW i \in DOMAIN Queries, Query(i) PROVE BoundInv'
  BY <1>5, <1>10 DEF Query, walk
<1>11. CASE (\E l \in {"rows", "log"} : StartWalk(l)) \/ Done
  <2>1. UNCHANGED <<row, req>> /\ page' = 1 /\ (total' = total \/ total' = 0)
    BY <1>11 DEF StartWalk, Done
  <2> QED
    BY <1>3, <1>4, <2>1 DEF Writers, BoundInv
<1>12. CASE Count
  <2>1. UNCHANGED <<row, req, page>> /\ total' = Cardinality(Items)
    BY <1>12 DEF Count
  <2> QED
    BY <1>4, <2>1, MostItems DEF Writers, BoundInv
<1>13. CASE Find
  <2>1. /\ UNCHANGED <<row, req, total>>
        /\ page' = page \/ (page' = page + 1 /\ page * PageSize < total)
    BY <1>13 DEF Find
  <2>2. page \in Nat \ {0} /\ total \in Nat /\ PageSize \in Nat \ {0}
    BY PageAssumption DEF RInv, Typed
  <2>3. page * PageSize \in Nat /\ page <= page * PageSize
    BY <2>2
  <2>4. page' <= Most
    BY <1>3, <2>1, <2>2, <2>3 DEF BoundInv
  <2> QED
    BY <1>4, <2>1, <2>4 DEF Writers, BoundInv
<1> QED
  BY <1>6, <1>7, <1>8, <1>9, <1>10, <1>11, <1>12, <1>13 DEF Next

(***************************************************************************)
(* Reads are well typed: every stamp is within its request and none is     *)
(* from the future, and a walk asks for no more pages than items can be.  *)
(***************************************************************************)
THEOREM ReadsTypeCorrect == Spec => []TypeOK
<1>1. Init => BoundInv
  <2> SUFFICES ASSUME Init PROVE BoundInv
    OBVIOUS
  <2>1. Cardinality(Writers) \in Nat
    BY Sizes DEF Writers
  <2>2. \A r \in Record : row[r].version \in {0, 1}
    BY DEF Init, NoRow
  <2>3. page = 1 /\ total = 0 /\ Most \in Nat \ {0}
    BY InitRInv, MostItems DEF Init
  <2> QED
    BY <2>1, <2>2, <2>3 DEF BoundInv
<1>2. RInv /\ BoundInv => TypeOK
  <2> SUFFICES ASSUME RInv, BoundInv PROVE TypeOK
    OBVIOUS
  <2>1. Cardinality(Writers) <= Cardinality(Request) /\ Cardinality(Writers) \in Nat
        /\ Cardinality(Request) \in Nat
    BY Grows, Sizes DEF Writers
  <2>2. row \in [Record -> [version : 0..(Cardinality(Request) + 1), stamp : 0..now,
                            match : BOOLEAN, gone : BOOLEAN]]
    <3>1. now \in Nat
      BY DEF RInv, Typed
    <3>2. ASSUME NEW r \in Record
          PROVE  row[r] \in [version : 0..(Cardinality(Request) + 1), stamp : 0..now,
                             match : BOOLEAN, gone : BOOLEAN]
      <4>1. row[r] \in RowSet
        BY DEF RInv, Typed
      <4>2. row[r].version \in 0..(Cardinality(Request) + 1) /\ row[r].stamp \in 0..now
        BY <2>1, <3>1, <4>1 DEF RowSet, RInv, StampInv, BoundInv
      <4> QED
        BY <4>1, <4>2 DEF RowSet
    <3> QED
      BY <3>2 DEF RInv, Typed
  <2>3. req \in [Request -> [stage : {"idle", "begun", "written", "stamped", "done"},
                             record : Record, action : Action,
                             began : 0..now, stamp : 0..now, ended : 0..now]]
    <3>1. now \in Nat
      BY DEF RInv, Typed
    <3>2. ASSUME NEW q \in Request
          PROVE  req[q] \in [stage : {"idle", "begun", "written", "stamped", "done"},
                             record : Record, action : Action,
                             began : 0..now, stamp : 0..now, ended : 0..now]
      <4>1. req[q] \in RequestSet
        BY DEF RInv, Typed
      <4>2. req[q].began \in 0..now /\ req[q].stamp \in 0..now /\ req[q].ended \in 0..now
        BY <3>1, <4>1 DEF RequestSet, RInv, StampInv
      <4> QED
        BY <4>1, <4>2 DEF RequestSet
    <3> QED
      BY <3>2 DEF RInv, Typed
  <2>4. \A q \in Logged : req[q].began <= req[q].stamp /\ req[q].stamp <= req[q].ended
    BY DEF RInv, StampInv, Logged
  <2>5. at \in {"idle", "first", "got", "count", "find", "walked", "summed", "history"}
               \cup {Queries[i] : i \in DOMAIN Queries}
    BY QueryNames DEF RInv, Typed, Place
  <2>6. page \in 1..(MaxId + Cardinality(Request)) /\ total \in 0..(MaxId + Cardinality(Request))
    BY MostItems DEF RInv, Typed, BoundInv, Most
  <2> QED
    BY <2>2, <2>3, <2>4, <2>5, <2>6 DEF TypeOK, RInv, Typed
<1> QED
  BY <1>1, <1>2, NextBoundInv, ReadsInvariance, PTL DEF Spec
=============================================================================
