------------------------------- MODULE Reads -------------------------------
(***************************************************************************)
(* What a reader is shown while others write: Get, the lists by page, the  *)
(* audit summary and the history of a record.  None of them is a           *)
(* transaction: each statement sees the database as it is by then, and a   *)
(* client walks through a list by asking for one page after the other.     *)
(*                                                                         *)
(* A write changes a row and, in its transaction, appends a revision.  Its *)
(* audit entry is stamped and inserted afterwards, by statements that race *)
(* those of other requests.  RecordService is about the writes themselves: *)
(* here a write is one step, and one that is refused does not happen.      *)
(***************************************************************************)
EXTENDS Integers, FiniteSets, SequencesExt

CONSTANTS
  Request,   \* the writing requests
  MaxId,     \* bound: the ids of records are 1..MaxId
  Seeded,    \* how many of them the seed has inserted
  PageSize,  \* rows on a page (1 to 100, 20 by default)
  Limit,     \* entries of a history (1 to 100, 20 by default)
  Window,    \* ticks an audit summary looks back (1 hour to 90 days)
  MaxTime    \* bound: the last tick of a behaviour

ASSUME FiniteAssumption == IsFiniteSet(Request)
ASSUME CountAssumption == MaxId \in Nat \ {0} /\ Seeded \in 0..MaxId
ASSUME PageAssumption == PageSize \in Nat \ {0} /\ Limit \in Nat \ {0}
ASSUME TimeAssumption == Window \in Nat \ {0} /\ MaxTime \in Nat

VARIABLES
  now,     \* the clock of the server
  row,     \* row[r] : record r, version 0 before it is created
  req,     \* req[q] : a writing request and its audit entry
  at,      \* what the reader does
  list,    \* what it pages through, "rows" or "log"
  page,    \* the page it asks for
  total,   \* the total it was told
  seen,    \* the items it was shown on its pages
  steady,  \* the items that were listed, unchanged, since it began
  left,    \* whether an item left the list since then
  came,    \* whether an item came into the list since it was counted
  answer   \* what the other reads show

walk == <<list, page, total, seen>>
watched == <<steady, left, came>>
vars == <<now, row, req, at, walk, watched, answer>>

Record == 1..MaxId

Action == {"create", "transition", "delete"}

NoRow == [version |-> 0, stamp |-> 0, match |-> FALSE, gone |-> FALSE]

NoRequest == [stage |-> "idle", record |-> 1, action |-> "create",
              began |-> 0, stamp |-> 0, ended |-> 0]

NoAnswer == [id |-> 0]

\* The seeds of a table have one stamp.
Init ==
  /\ now = 0
  /\ row = [r \in Record |->
              IF r <= Seeded THEN [NoRow EXCEPT !.version = 1, !.match = TRUE] ELSE NoRow]
  /\ req = [q \in Request |-> NoRequest]
  /\ at = "idle"
  /\ list = "rows" /\ page = 1 /\ total = 0 /\ seen = {}
  /\ steady = {} /\ left = FALSE /\ came = FALSE
  /\ answer = NoAnswer

-----------------------------------------------------------------------------
(* The lists.                                                              *)

Logged == {q \in Request : req[q].stage = "done"}

Present(r) == row[r].version > 0 /\ ~row[r].gone

\* The live rows that match the search and status of the query, or the log.
Items ==
  IF list = "rows"
  THEN {[id |-> r, stamp |-> row[r].stamp] : r \in {s \in Record : Present(s) /\ row[s].match}}
  ELSE {[id |-> q, stamp |-> req[q].stamp] : q \in Logged}

Ids(items) == {x.id : x \in items}

\* A slip: rows of one stamp are in any order.
Newer_NoId(a, b) == a.stamp > b.stamp

\* updated_at DESC, id DESC for rows, created_at DESC for the log.
Newer(a, b) ==
  \/ a.stamp > b.stamp
  \/ list = "rows" /\ a.stamp = b.stamp /\ a.id > b.id

\* The first n items, of which there are several when their order is open.
Firsts(n) ==
  {s \in SUBSET Items : /\ Cardinality(s) = IF n < Cardinality(Items) THEN n ELSE Cardinality(Items)
                        /\ \A a \in s, b \in Items : Newer(b, a) => b \in s}

Offset(p) == (p - 1) * PageSize

\* What a walk in progress makes of a write.
Watch ==
  /\ steady' = steady \cap Items'
  /\ left' = (left \/ ~ Ids(Items) \subseteq Ids(Items)')
  /\ came' = (came \/ ~ Ids(Items)' \subseteq Ids(Items))

-----------------------------------------------------------------------------
(* The writers.                                                            *)

Begin(q) ==
  /\ req[q].stage = "idle"
  /\ req' = [req EXCEPT ![q].stage = "begun", ![q].began = now]
  /\ UNCHANGED <<now, row, at, walk, watched, answer>>

\* A row is stamped when its statement is built, after it was read, so no
\* earlier than the request began and the row was written before; its write
\* may bring it into the query or out of it.
Write(q, r, action) ==
  /\ req[q].stage = "begun"
  /\ IF action = "create" THEN row[r].version = 0 ELSE Present(r)
  /\ IF action = "delete"
     THEN row' = [row EXCEPT ![r].gone = TRUE]
     ELSE \E stamp \in req[q].began..now, match \in BOOLEAN :
            /\ stamp >= row[r].stamp
            /\ row' = [row EXCEPT ![r].version = @ + 1, ![r].stamp = stamp,
                                  ![r].match = match]
  /\ req' = [req EXCEPT ![q] =
       [@ EXCEPT !.stage = "written", !.record = r, !.action = action]]
  /\ UNCHANGED <<now, at, walk, answer>>
  /\ Watch

\* A slip: the entry takes the stamp of the row.
Stamp_OfRow(q) ==
  /\ req[q].stage = "written"
  /\ req' = [req EXCEPT ![q].stage = "stamped", ![q].stamp = row[req[q].record].stamp]
  /\ UNCHANGED <<now, row, at, walk, watched, answer>>

\* Audit reads the clock, and then inserts.
Stamp(q) ==
  /\ req[q].stage = "written"
  /\ req' = [req EXCEPT ![q].stage = "stamped", ![q].stamp = now]
  /\ UNCHANGED <<now, row, at, walk, watched, answer>>

Insert(q) ==
  /\ req[q].stage = "stamped"
  /\ req' = [req EXCEPT ![q].stage = "done", ![q].ended = now]
  /\ UNCHANGED <<now, row, at, walk, answer>>
  /\ Watch

Tick ==
  /\ now < MaxTime
  /\ now' = now + 1
  /\ UNCHANGED <<row, req, at, walk, watched, answer>>

-----------------------------------------------------------------------------
(* One record: the row, then its revisions, which are those of every       *)
(* version it has had by then.                                             *)

\* A slip: the revisions are read before the row.
Statement_Swapped(n, a) ==
  IF n = 2 THEN [a EXCEPT !.version = row[a.id].version]
           ELSE [a EXCEPT !.revisions = 1..row[a.id].version]

Statement(n, a) ==
  IF n = 1 THEN [a EXCEPT !.version = row[a.id].version]
           ELSE [a EXCEPT !.revisions = 1..row[a.id].version]

Get(r) ==
  /\ at = "idle" /\ Present(r)
  /\ at' = "first"
  /\ answer' = Statement(1, [id |-> r, version |-> 0, revisions |-> {}])
  /\ UNCHANGED <<now, row, req, walk, watched>>

Preload ==
  /\ at = "first"
  /\ at' = "got"
  /\ answer' = Statement(2, answer)
  /\ UNCHANGED <<now, row, req, walk, watched>>

-----------------------------------------------------------------------------
(* A walk through a list.                                                  *)

StartWalk(l) ==
  /\ at = "idle"
  /\ at' = "count" /\ list' = l
  /\ page' = 1 /\ seen' = {}
  /\ UNCHANGED <<now, row, req, total, came, answer>>
  /\ steady' = Items' /\ left' = FALSE

Count ==
  /\ at = "count"
  /\ at' = "find"
  /\ total' = Cardinality(Items)
  /\ came' = FALSE
  /\ UNCHANGED <<now, row, req, list, page, seen, steady, left, answer>>

\* The client goes on while there are pages by the total it was told.
Find ==
  /\ at = "find"
  /\ \E before \in Firsts(Offset(page)), shown \in Firsts(Offset(page) + PageSize) :
       /\ before \subseteq shown
       /\ seen' = seen \cup Ids(shown \ before)
  /\ IF page * PageSize < total
     THEN at' = "count" /\ page' = page + 1
     ELSE at' = "walked" /\ UNCHANGED page
  /\ UNCHANGED <<now, row, req, list, total, watched, answer>>

-----------------------------------------------------------------------------
(* The audit log.                                                          *)

\* A slip: every query looks back from the moment it is made.
Since_Moving(s) == now - Window

\* The moment that was computed before the first query.
Since(s) == s.since

Recent(s) == {q \in Logged : req[q].stamp >= Since(s)}

Transitions(s) == {q \in Recent(s) : req[q].action = "transition"}

\* The queries of a summary, in the order they are made.
Queries == <<"total", "transitions", "actions", "entities">>

Summarize ==
  /\ at = "idle"
  /\ at' = "total"
  /\ answer' = [since |-> now - Window, total |-> 0, transitions |-> 0,
                actions |-> <<0, 0>>, entities |-> 0]
  /\ UNCHANGED <<now, row, req, walk, watched>>

\* Groups are abstracted to their sum, and that of the transitions.
Query(i) ==
  LET a == answer
  IN /\ at = Queries[i]
     /\ at' = IF i < Len(Queries) THEN Queries[i + 1] ELSE "summed"
     /\ answer' =
          CASE at = "total"       -> [a EXCEPT !.total = Cardinality(Recent(a))]
            [] at = "transitions" -> [a EXCEPT !.transitions = Cardinality(Transitions(a))]
            [] at = "actions"     -> [a EXCEPT !.actions = <<Cardinality(Recent(a)),
                                                             Cardinality(Transitions(a))>>]
            [] at = "entities"    -> [a EXCEPT !.entities = Cardinality(Recent(a))]
     /\ UNCHANGED <<now, row, req, walk, watched>>

\* created_at DESC
Before(p, q) == req[p].stamp > req[q].stamp

Entries(r) == {q \in Logged : req[q].record = r}

History(r) ==
  /\ at = "idle"
  /\ at' = "history"
  /\ \E all \in SetToSeqs(Entries(r)) :
       /\ \A i, j \in DOMAIN all : Before(all[i], all[j]) => i < j
       /\ answer' = [id |-> r, entries |-> SubSeq(all, 1, IF Len(all) < Limit THEN Len(all) ELSE Limit)]
  /\ UNCHANGED <<now, row, req, walk, watched>>

\* The answer is shown, and the reader asks for something else.
Done ==
  /\ at \in {"got", "walked", "summed", "history"}
  /\ at' = "idle" /\ list' = "rows" /\ page' = 1 /\ total' = 0 /\ seen' = {}
  /\ steady' = {} /\ left' = FALSE /\ came' = FALSE
  /\ answer' = NoAnswer
  /\ UNCHANGED <<now, row, req>>

-----------------------------------------------------------------------------
Next ==
  \/ \E q \in Request :
       \/ Begin(q)
       \/ \E r \in Record, action \in Action : Write(q, r, action)
       \/ Stamp(q)
       \/ Insert(q)
  \/ Tick
  \/ \E r \in Record : Get(r) \/ History(r)
  \/ Preload
  \/ \E l \in {"rows", "log"} : StartWalk(l)
  \/ Count
  \/ Find
  \/ Summarize
  \/ \E i \in DOMAIN Queries : Query(i)
  \/ Done

Spec == Init /\ [][Next]_vars

-----------------------------------------------------------------------------
(* Properties.                                                             *)

(***************************************************************************)
(* Rows and entries keep their order in time: a row or an entry is stamped *)
(* within its request and never later than now.                            *)
(***************************************************************************)
TypeOK ==
  /\ now \in 0..MaxTime
  /\ row \in [Record -> [version : 0..(Cardinality(Request) + 1), stamp : 0..now,
                         match : BOOLEAN, gone : BOOLEAN]]
  /\ req \in [Request -> [stage : {"idle", "begun", "written", "stamped", "done"},
                          record : Record, action : Action,
                          began : 0..now, stamp : 0..now, ended : 0..now]]
  /\ \A q \in Logged : req[q].began <= req[q].stamp /\ req[q].stamp <= req[q].ended
  /\ at \in {"idle", "first", "got", "count", "find", "walked", "summed", "history"}
       \cup {Queries[i] : i \in DOMAIN Queries}
  /\ page \in 1..(MaxId + Cardinality(Request)) /\ total \in 0..(MaxId + Cardinality(Request))

(***************************************************************************)
(* Get shows every version up to that of the row it shows: a write between *)
(* its two statements may add revisions, but none is missing.              *)
(***************************************************************************)
RevisionsReach == at = "got" => 1..answer.version \subseteq answer.revisions

\* An entry whose stamp is its own; rows are ordered by id as well.
Ordered(x) == list = "rows" \/ \A y \in Items : y.stamp = x.stamp => y = x

(***************************************************************************)
(* Who pages through a list to its end has seen everything that was listed *)
(* and not touched in the meantime, although rows that are touched move to *)
(* the front: unless something left the list, or came in after the last    *)
(* count.  Entries of the log that share a stamp are excepted.             *)
(***************************************************************************)
WalkCovers ==
  at = "walked" /\ ~left /\ ~came =>
    \A x \in steady : Ordered(x) => x.id \in seen

(***************************************************************************)
(* The numbers of a summary are of different moments, but of one window,   *)
(* and so in an order: no later one is less than an earlier one.           *)
(***************************************************************************)
SummaryNested ==
  at = "summed" =>
    /\ answer.total <= answer.actions[1] /\ answer.actions[1] <= answer.entities
    /\ answer.transitions <= answer.actions[2]

(***************************************************************************)
(* A history shows the writes of requests that followed each other in that *)
(* order, the latest first, and leaves out none that is later than one it  *)
(* shows.  Only writes of requests that overlapped may be out of order.    *)
(***************************************************************************)
HistoryOrder ==
  [][at # "history" /\ at' = "history" =>
       LET shown == answer'.entries
       IN \A i \in DOMAIN shown, q \in Entries(answer'.id) :
            req[shown[i]].ended < req[q].began => \E j \in 1..(i - 1) : shown[j] = q]_vars
=============================================================================
