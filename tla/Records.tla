------------------------------ MODULE Records ------------------------------
(***************************************************************************)
(* The stored data of one aggregate: its rows (model/base.go and the four  *)
(* model files) and the revision table of the versioned aggregates.  Both  *)
(* the service (RecordService) and what it promises (AtomicRecord) speak   *)
(* of these.                                                               *)
(*                                                                         *)
(* A row is kept to what the services branch on or relate: whether it is   *)
(* live or soft-deleted, its status, its version, and its business fields, *)
(* all of them together one member of Payload.  A revision copies some of  *)
(* these fields and not others: Copied(d) is the part of d it copies.      *)
(*                                                                         *)
(* Record is the set of codes; a code is unique among live and deleted rows*)
(* alike, so a code stands for the id of the only row that can ever carry  *)
(* it.                                                                     *)
(***************************************************************************)
EXTENDS Policy

CONSTANTS
  Record,    \* the codes of the aggregate
  Payload,   \* the values its business fields, taken together, may have
  Copied(_), \* Copied(d) : what a revision of a row with the fields d keeps of
             \* them.  That of a print run leaves out Description and
             \* EffectiveAt, that of a release decision also Facility, Owner
             \* and Category
  Request,   \* the HTTP requests of the behaviour, each used once
  Service    \* the rules of the aggregate, one of the records of Policy

ASSUME ServiceAssumption == WellFormed(Service)

\* What the code calls "" : the state before a record exists.
None == "none"

Status == Service.statuses \cup {None}

Row == [life    : {"absent", "live", "deleted"},
        status  : Status,
        version : Nat,
        data    : Payload \cup {None}]

Absent == [life |-> "absent", status |-> None, version |-> 0, data |-> None]

\* A row as Create and Seed insert it, at version 1.
Fresh(status, data) ==
  [life |-> "live", status |-> status, version |-> 1, data |-> data]

Actor == Request \cup {"seed"}

Revision == [rec     : Record,
             version : Nat,
             status  : Status,
             data    : {Copied(d) : d \in Payload \cup {None}},
             by      : Actor]

\* What a write of row w of record r appends to the revision table.  Two rows
\* that differ in fields no revision copies leave revisions that differ only in
\* version and writer.
RevisionOf(r, w, by) ==
  IF Service.versioned
  THEN {[rec |-> r, version |-> w.version, status |-> w.status,
         data |-> Copied(w.data), by |-> by]}
  ELSE {}

\* The database Seed leaves: every code is free, or holds a row in one of the
\* seeded statuses whose first revision is written by "seed".
SeededRows == {Absent} \cup {Fresh(s, d) : s \in Service.seeds, d \in Payload}

SeedRevisions(rows) ==
  UNION {RevisionOf(r, rows[r], "seed") : r \in {x \in Record : rows[x] # Absent}}
=============================================================================
