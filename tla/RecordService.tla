--------------------------- MODULE RecordService ---------------------------
(***************************************************************************)
(* The writing half of an aggregate: Create, Update, Transition and Delete *)
(* of service/<aggregate>.go over repository/<aggregate>.go, called by the *)
(* routes of handler/<aggregate>.go, by any number of requests at a time.  *)
(*                                                                         *)
(* A request is served by a goroutine that talks to the database several   *)
(* times, and every other request may run between two of its statements:   *)
(*                                                                         *)
(*   load     Get reads the row; the checks of the service are made on it  *)
(*   write    the row is written by compare-and-swap on its version, with  *)
(*            its revision in the same transaction (or inserted, or        *)
(*            soft-deleted)                                                *)
(*   audit    the audit entry is inserted, in a statement of its own       *)
(*   reload   Get reads the row again, for the response                    *)
(*                                                                         *)
(* With Faults, each statement may fail, a write may be committed and its  *)
(* acknowledgement lost, and the process may stop and be restarted.        *)
(***************************************************************************)
EXTENDS Records

CONSTANTS
  Role,       \* the roles the requests may carry, some of Roles
  Lookahead,  \* by how much the expectedVersion of a client may exceed the
              \* version of the row when the request arrives: 0 for a client
              \* that sends only versions it was answered
  Faults      \* whether statements fail and the process stops

ASSUME RoleAssumption == Role \subseteq Roles
ASSUME LookaheadAssumption == Lookahead \in Nat
ASSUME FaultsAssumption == Faults \in BOOLEAN

VARIABLES
  row,        \* row[r] : the row of code r
  revisions,  \* the revision table
  audits,     \* the audit log: at most one entry per request
  pc,         \* pc[q] : the statement request q is about to run
  input,      \* input[q] : what request q asks for
  snap,       \* snap[q] : the row q read last (current, item)
  reply,      \* reply[q] : the outcome q is answered with
  committed   \* committed[q] : whether the write of q took effect

database == <<row, revisions>>
vars == <<row, revisions, audits, pc, input, snap, reply, committed>>

Atomic == INSTANCE AtomicRecord WITH row <- row, revisions <- revisions

-----------------------------------------------------------------------------
(* Requests.                                                               *)

\* Business fields that are blank once trimmed: the services refuse them.
Blank == "blank"

Fields == Payload \cup {Blank}

\* A target the graph does not know, as any string in a request body may be.
Target == Service.statuses \cup {"unknown"}

Input ==
       [op : {"create"}, role : Role, rec : Record, data : Fields]
  \cup [op : {"update"}, role : Role, rec : Record, data : Fields,
        expected : Nat]
  \cup [op : {"transition"}, role : Role, rec : Record, target : Target,
        expected : Nat]
  \cup [op : {"delete"}, role : Role, rec : Record]

NoInput == [op |-> None]

\* The expectedVersion is at least 1 (binding:"required").
ExpectedVersions(r) == {1} \cup 1..(row[r].version + Lookahead)

Init ==
  /\ row \in [Record -> SeededRows]
  /\ revisions = SeedRevisions(row)
  /\ audits = {}
  /\ pc = [q \in Request |-> "idle"]
  /\ input = [q \in Request |-> NoInput]
  /\ snap = [q \in Request |-> Absent]
  /\ reply = [q \in Request |-> None]
  /\ committed = [q \in Request |-> FALSE]

Goto(q, label) == pc' = [pc EXCEPT ![q] = label]

Finish(q, outcome) ==
  /\ Goto(q, "done")
  /\ reply' = [reply EXCEPT ![q] = outcome]

\* The route admits the roles it was registered with, then hands the request
\* to the service, which begins at first.
Receive(q, in, first) ==
  /\ pc[q] = "idle"
  /\ input' = [input EXCEPT ![q] = in]
  /\ \/ in.role \in Routes[in.op] /\ Goto(q, first) /\ UNCHANGED reply
     \/ in.role \notin Routes[in.op] /\ Finish(q, "forbidden")
  /\ UNCHANGED <<database, audits, snap, committed>>

ReceiveCreate(q) ==
  \E role \in Role, r \in Record, d \in Fields :
    Receive(q, [op |-> "create", role |-> role, rec |-> r, data |-> d], "insert")

ReceiveUpdate(q) ==
  \E role \in Role, r \in Record, d \in Fields : \E v \in ExpectedVersions(r) :
    Receive(q, [op |-> "update", role |-> role, rec |-> r, data |-> d,
                expected |-> v], "load")

ReceiveTransition(q) ==
  \E role \in Role, r \in Record, t \in Target : \E v \in ExpectedVersions(r) :
    Receive(q, [op |-> "transition", role |-> role, rec |-> r, target |-> t,
                expected |-> v], "load")

ReceiveDelete(q) ==
  \E role \in Role, r \in Record :
    Receive(q, [op |-> "delete", role |-> role, rec |-> r], "load")

-----------------------------------------------------------------------------
(* The checks each service makes on the row it read.                       *)

\* A slip: only deletions are refused.
Locked_DeleteOnly(in, s) == in.op = "delete" /\ s.status \notin Service.deletable

Locked(in, s) ==
  \/ in.op = "update" /\ s.status \in Service.frozen
  \/ in.op = "delete" /\ s.status \notin Service.deletable

\* A slip: the status the record leaves is not looked at.
NeedsReview_TargetOnly(in, s) == in.target \in Service.gated

NeedsReview(in, s) == in.target \in Service.gated \/ s.status \in Service.gated

Forbidden(in, s) ==
  in.op = "transition" /\ NeedsReview(in, s) /\ ~canReview(in.role)

\* A slip: transitions are taken as the client names them.
Invalid_NoGraph(in, s) == in.op = "update" /\ in.data = Blank

Invalid(in, s) ==
  \/ in.op = "update" /\ in.data = Blank
  \/ in.op = "transition" /\ ~CanTransition(Service.graph, s.status, in.target)

Refusal(in, s) ==
  IF Locked(in, s) THEN "locked"
  ELSE IF Forbidden(in, s) THEN "forbidden"
  ELSE IF Invalid(in, s) THEN "invalid"
  ELSE None

\* Get, and the checks on what it returned.
Load(q) ==
  LET in == input[q]
      s  == row[in.rec]
  IN /\ pc[q] = "load"
     /\ \/ /\ s.life # "live"
           /\ Finish(q, "not_found")
           /\ UNCHANGED snap
        \/ /\ s.life = "live"
           /\ Refusal(in, s) # None
           /\ Finish(q, Refusal(in, s))
           /\ UNCHANGED snap
        \/ /\ s.life = "live"
           /\ Refusal(in, s) = None
           /\ snap' = [snap EXCEPT ![q] = s]
           /\ Goto(q, "write")
           /\ UNCHANGED reply
     /\ UNCHANGED <<database, audits, input, committed>>

-----------------------------------------------------------------------------
(* The writes.                                                             *)

\* A slip: UPDATE ... WHERE id = ?
Matches_IdOnly(q) == row[input[q].rec].life = "live"

\* A slip: the soft-delete filter is lost (Unscoped).
Matches_Unscoped(q) == row[input[q].rec].version = input[q].expected

\* UPDATE ... WHERE id = ? AND version = ?, which gorm restricts to rows that
\* are not soft-deleted.
Matches(q) ==
  /\ row[input[q].rec].life = "live"
  /\ row[input[q].rec].version = input[q].expected

\* A slip: Update leaves the version as it was.
Changed_SameVersion(in, s) ==
  IF in.op = "update"
  THEN [s EXCEPT !.data = in.data]
  ELSE [s EXCEPT !.version = in.expected + 1, !.status = in.target]

\* The whole of the row that was read, with the change of the request in it,
\* at the version after the expected one.
Changed(in, s) ==
  IF in.op = "update"
  THEN [s EXCEPT !.version = in.expected + 1, !.data = in.data]
  ELSE [s EXCEPT !.version = in.expected + 1, !.status = in.target]

CommitInsert(q) ==
  LET r == input[q].rec
      w == Fresh(Service.initial, input[q].data)
  IN /\ pc[q] = "insert"
     /\ input[q].data # Blank
     /\ row[r] = Absent
     /\ row' = [row EXCEPT ![r] = w]
     /\ revisions' = revisions \cup RevisionOf(r, w, q)

\* A slip: the revision is made from the row that was read, and has only the
\* version and status of the one that is written.
CommitUpdate_OldRevision(q) ==
  LET r == input[q].rec
      w == Changed(input[q], snap[q])
  IN /\ pc[q] = "write"
     /\ input[q].op \in {"update", "transition"}
     /\ Matches(q)
     /\ row' = [row EXCEPT ![r] = w]
     /\ revisions' = revisions \cup RevisionOf(r, [w EXCEPT !.data = snap[q].data], q)

CommitUpdate(q) ==
  LET r == input[q].rec
      w == Changed(input[q], snap[q])
  IN /\ pc[q] = "write"
     /\ input[q].op \in {"update", "transition"}
     /\ Matches(q)
     /\ row' = [row EXCEPT ![r] = w]
     /\ revisions' = revisions \cup RevisionOf(r, w, q)

\* UPDATE ... SET deleted_at = now WHERE id = ?: neither the status nor the
\* version that was read is repeated.
CommitDelete(q) ==
  LET r == input[q].rec
  IN /\ pc[q] = "write"
     /\ input[q].op = "delete"
     /\ row[r].life = "live"
     /\ row' = [row EXCEPT ![r].life = "deleted"]
     /\ UNCHANGED revisions

Commit(q) == CommitInsert(q) \/ CommitUpdate(q) \/ CommitDelete(q)

Write(q) ==
  /\ Commit(q)
  /\ committed' = [committed EXCEPT ![q] = TRUE]
  /\ Goto(q, "audit")
  /\ UNCHANGED <<audits, input, snap, reply>>

\* A slip: RowsAffected is not looked at after the compare-and-swap.
Refuse_Unchecked(q) ==
  /\ pc[q] = "write" /\ input[q].op \in {"update", "transition"}
  /\ ~Matches(q)
  /\ Goto(q, "audit")
  /\ UNCHANGED <<database, audits, input, snap, reply, committed>>

\* The write is refused: blank fields, a code that is taken, a version that
\* has moved on, a row that is gone.
Refuse(q) ==
  /\ \/ /\ pc[q] = "insert" /\ input[q].data = Blank
        /\ Finish(q, "invalid")
     \/ /\ pc[q] = "insert" /\ input[q].data # Blank
        /\ row[input[q].rec] # Absent
        /\ Finish(q, "error")
     \/ /\ pc[q] = "write" /\ input[q].op \in {"update", "transition"}
        /\ ~Matches(q)
        /\ Finish(q, "conflict")
     \/ /\ pc[q] = "write" /\ input[q].op = "delete"
        /\ row[input[q].rec].life # "live"
        /\ Finish(q, "not_found")
  /\ UNCHANGED <<database, audits, input, snap, committed>>

-----------------------------------------------------------------------------
(* The audit entry and the response.                                       *)

StatusAfter(in, s) ==
  CASE in.op = "create"     -> Service.initial
    [] in.op = "update"     -> s.status
    [] in.op = "transition" -> in.target
    [] in.op = "delete"     -> "deleted"

\* A slip: the status is read after it was assigned (before := current.Status
\* below current.Status = target).
AuditEntry_LateBefore(q) ==
  [by     |-> q,
   action |-> input[q].op,
   rec    |-> input[q].rec,
   before |-> StatusAfter(input[q], snap[q]),
   after  |-> StatusAfter(input[q], snap[q])]

AuditEntry(q) ==
  [by     |-> q,
   action |-> input[q].op,
   rec    |-> input[q].rec,
   before |-> snap[q].status,
   after  |-> StatusAfter(input[q], snap[q])]

\* What follows the audit: Create answers with the item it wrote, Delete with
\* no content, the others read the row again.
Continue(q) ==
  IF input[q].op \in {"update", "transition"}
  THEN Goto(q, "reload") /\ UNCHANGED reply
  ELSE Finish(q, "ok")

\* A slip: only transitions and deletions are audited.
Audit_StatusOnly(q) ==
  /\ pc[q] = "audit"
  /\ audits' = IF input[q].op = "update" THEN audits ELSE audits \cup {AuditEntry(q)}
  /\ Continue(q)
  /\ UNCHANGED <<database, input, snap, committed>>

Audit(q) ==
  /\ pc[q] = "audit"
  /\ audits' = audits \cup {AuditEntry(q)}
  /\ Continue(q)
  /\ UNCHANGED <<database, input, snap, committed>>

\* A slip: every service drops the error of the audit, as Create and Update do.
AuditFails_Ignored(q) ==
  /\ Faults
  /\ pc[q] = "audit"
  /\ Continue(q)
  /\ UNCHANGED <<database, audits, input, snap, committed>>

\* The insert of the entry reports an error, whether or not it was stored.
\* Create and Update drop the error, Transition and Delete answer with it.
AuditFails(q) ==
  /\ Faults
  /\ pc[q] = "audit"
  /\ audits' \in {audits, audits \cup {AuditEntry(q)}}
  /\ IF input[q].op \in {"create", "update"} THEN Continue(q) ELSE Finish(q, "error")
  /\ UNCHANGED <<database, input, snap, committed>>

\* A slip: the response is the row that was read before the write.
Reload_Stale(q) ==
  /\ pc[q] = "reload"
  /\ Finish(q, "ok")
  /\ UNCHANGED <<database, audits, input, snap, committed>>

Reload(q) ==
  LET s == row[input[q].rec]
  IN /\ pc[q] = "reload"
     /\ \/ /\ s.life = "live"
           /\ snap' = [snap EXCEPT ![q] = s]
           /\ Finish(q, "ok")
        \/ /\ s.life # "live"
           /\ UNCHANGED snap
           /\ Finish(q, "not_found")
     /\ UNCHANGED <<database, audits, input, committed>>

-----------------------------------------------------------------------------
(* Faults.                                                                 *)

InFlight(q) == pc[q] \notin {"idle", "done"}

\* Get fails, or a write is rolled back, or the client goes away and its
\* context with it: what was committed before stays.
StatementFails(q) ==
  /\ Faults
  /\ pc[q] \in {"load", "insert", "write", "reload"}
  /\ Finish(q, "error")
  /\ UNCHANGED <<database, audits, input, snap, committed>>

\* The write is committed, and its acknowledgement lost.
WriteUnacknowledged(q) ==
  /\ Faults
  /\ Commit(q)
  /\ committed' = [committed EXCEPT ![q] = TRUE]
  /\ Finish(q, "error")
  /\ UNCHANGED <<audits, input, snap>>

\* The process stops, with every request it was serving, and starts again on
\* the same database.
Restart ==
  /\ Faults
  /\ \E q \in Request : InFlight(q)
  /\ pc' = [q \in Request |-> IF InFlight(q) THEN "done" ELSE pc[q]]
  /\ reply' = [q \in Request |-> IF InFlight(q) THEN "lost" ELSE reply[q]]
  /\ UNCHANGED <<database, audits, input, snap, committed>>

-----------------------------------------------------------------------------
Serve(q) ==
  \/ ReceiveCreate(q)
  \/ ReceiveUpdate(q)
  \/ ReceiveTransition(q)
  \/ ReceiveDelete(q)
  \/ Load(q)
  \/ Write(q)
  \/ Refuse(q)
  \/ Audit(q)
  \/ AuditFails(q)
  \/ Reload(q)
  \/ StatementFails(q)
  \/ WriteUnacknowledged(q)

\* Every request is answered and no more arrive: not a deadlock.
Terminating ==
  /\ \A q \in Request : pc[q] = "done"
  /\ UNCHANGED vars

Next == (\E q \in Request : Serve(q)) \/ Restart \/ Terminating

Spec == Init /\ [][Next]_vars

-----------------------------------------------------------------------------
(* Types.                                                                  *)

Audited == [by     : Request,
            action : {"create", "update", "transition", "delete"},
            rec    : Record,
            before : Status,
            after  : Status \cup {"deleted"}]

Outcome == {None, "ok", "forbidden", "not_found", "invalid", "locked",
            "conflict", "error", "lost"}

(***************************************************************************)
(* The rows, revisions and audit entries stay those of the aggregate: in   *)
(* particular no status a client makes up is ever stored.                  *)
(***************************************************************************)
TypeOK ==
  /\ row \in [Record -> Row]
  /\ revisions \subseteq Revision
  /\ audits \subseteq Audited
  /\ pc \in [Request -> {"idle", "load", "insert", "write", "audit", "reload", "done"}]
  /\ input \in [Request -> Input \cup {NoInput}]
  /\ snap \in [Request -> Row]
  /\ reply \in [Request -> Outcome]
  /\ committed \in [Request -> BOOLEAN]

-----------------------------------------------------------------------------
(* Safety.                                                                 *)

(***************************************************************************)
(* The revisions of a versioned record number its versions from 1 to the   *)
(* version of the row without a gap, one revision each, and the last one   *)
(* has the status of the row and those of its fields a revision copies,    *)
(* whoever wrote it and whichever expected versions the clients sent.  As a*)
(* revision is never changed, print_run_revisions and                      *)
(* release_decision_revisions are the history of the row in its status and *)
(* its copied fields; of Description and EffectiveAt, and in a decision of *)
(* Facility, Owner and Category, they keep nothing.                        *)
(***************************************************************************)
RevisionChain ==
  Service.versioned =>
    \A r \in Record :
      /\ \A n \in 1..row[r].version :
           \E v \in revisions : v.rec = r /\ v.version = n
      /\ \A v \in revisions : v.rec = r => v.version \in 1..row[r].version
      /\ \A v, w \in revisions :
           v.rec = r /\ w.rec = r /\ v.version = w.version => v = w
      /\ \A v \in revisions :
           v.rec = r /\ v.version = row[r].version
             => v.status = row[r].status /\ v.data = Copied(row[r].data)

(***************************************************************************)
(* When the compare-and-swap of a disciplined client would succeed, the row*)
(* it read is still the row: the checks made on the snapshot hold for the  *)
(* row that is overwritten, and no field written by another is lost,       *)
(* although Update writes every column of the snapshot.                    *)
(***************************************************************************)
SnapshotCurrent ==
  \A q \in Request :
    /\ pc[q] = "write"
    /\ input[q].op \in {"update", "transition"}
    /\ row[input[q].rec].life = "live"
    /\ row[input[q].rec].version = input[q].expected
    => snap[q] = row[input[q].rec]

Writes(q) == input[q].op \in {"update", "transition"}

(***************************************************************************)
(* Of the requests that change one record from one version, at most one    *)
(* takes effect, whatever each of them is answered.                        *)
(***************************************************************************)
OneWinner ==
  \A p, q \in Request :
    /\ p # q
    /\ Writes(p) /\ Writes(q)
    /\ input[p].rec = input[q].rec
    /\ input[p].expected = input[q].expected
    => ~(committed[p] /\ committed[q])

(***************************************************************************)
(* A transition's audit entry tells the truth about a versioned record:    *)
(* the request it names wrote a revision with the status after, and the    *)
(* revision before that one has the status before.                         *)
(***************************************************************************)
AuditTruth ==
  Service.versioned =>
    \A a \in {x \in audits : x.action = "transition"} :
      \E v, w \in revisions :
        /\ v.rec = a.rec /\ w.rec = a.rec
        /\ w.version = v.version + 1
        /\ w.by = a.by
        /\ v.status = a.before /\ w.status = a.after

(***************************************************************************)
(* The audit log invents nothing and repeats nothing: the request an entry *)
(* names has taken effect, it was of that kind and on that record, to that *)
(* status, and it has no second entry.                                     *)
(***************************************************************************)
AuditSound ==
  /\ \A a \in audits :
       /\ committed[a.by]
       /\ a.action = input[a.by].op
       /\ a.rec = input[a.by].rec
       /\ a.action = "transition" => a.after = input[a.by].target
  /\ \A a, b \in audits : a.by = b.by => a = b

(***************************************************************************)
(* A transition or a deletion that was answered with success is in the     *)
(* audit log, also when audit inserts fail.                                *)
(***************************************************************************)
AckedAudited ==
  \A q \in Request :
    reply[q] = "ok" /\ input[q].op \in {"transition", "delete"}
      => \E a \in audits : a.by = q

(***************************************************************************)
(* While statements do not fail, every committed write is in the audit log *)
(* by the time its request is over, whatever the request is answered.      *)
(***************************************************************************)
AuditComplete ==
  \A q \in Request :
    pc[q] = "done" /\ committed[q] => \E a \in audits : a.by = q

(***************************************************************************)
(* A status change that took effect is in the audit log once its request   *)
(* is over, faults or not: what the README promises of every status change.*)
(***************************************************************************)
StatusChangeAudited ==
  \A q \in Request :
    pc[q] = "done" /\ committed[q] /\ input[q].op = "transition"
      => \E a \in audits : a.by = q

(***************************************************************************)
(* The row a successful update or transition is answered with is no older  *)
(* than the one it wrote (it may be newer: another request may have come   *)
(* between the write and the reload).                                      *)
(***************************************************************************)
ReplyNotOlder ==
  \A q \in Request :
    reply[q] = "ok" /\ Writes(q) => snap[q].version > input[q].expected

(***************************************************************************)
(* An answer never claims a write that did not happen, and a refusal never *)
(* hides one: ok means committed; forbidden, locked, invalid and conflict  *)
(* mean not committed.  Only not_found, error and lost leave it open.      *)
(***************************************************************************)
ReplyHonest ==
  \A q \in Request :
    /\ reply[q] = "ok" => committed[q]
    /\ reply[q] \in {"forbidden", "locked", "invalid", "conflict"} => ~committed[q]

-----------------------------------------------------------------------------
(***************************************************************************)
(* The inductive invariants: what the proofs add to the properties above.  *)
(***************************************************************************)

\* What a request that stands at pc[q] has done and found so far.
Stage(q) ==
  /\ pc[q] # "idle" => input[q] \in Input
  /\ pc[q] = "insert" => input[q].op = "create"
  /\ pc[q] \in {"load", "write"} => input[q].op \in {"update", "transition", "delete"}
  /\ pc[q] = "reload" => Writes(q)
  /\ pc[q] \in {"idle", "load", "insert", "write"} => ~committed[q]
  /\ pc[q] = "write" => snap[q].life = "live"
  /\ pc[q] \in {"write", "audit"} => Refusal(input[q], snap[q]) = None
  /\ pc[q] \notin {"idle", "done"} => input[q].role \in Routes[input[q].op]

StageInv == \A q \in Request : Stage(q)

\* A write leaves the row beyond the version it expected, for good.
WinnerInv ==
  \A q \in Request :
    committed[q] /\ Writes(q) => input[q].expected < row[input[q].rec].version

\* Rows that exist have a version.
VersionInv ==
  \A r \in Record :
    /\ row[r].life = "absent" => row[r] = Absent
    /\ row[r].life # "absent" => row[r].version >= 1

\* What was read for a write is the row or an older version of it, and at the
\* same version it is the row.
SnapshotInv ==
  \A q \in Request :
    LET s == row[input[q].rec]
    IN pc[q] = "write" =>
         /\ snap[q].version <= s.version
         /\ snap[q].version = s.version /\ s.life = "live" => snap[q] = s

\* What a disciplined client expects is not ahead of what is read for it.
FreshnessInv ==
  \A q \in Request :
    Writes(q) =>
      /\ pc[q] = "load" =>
           input[q].expected = 1 \/ input[q].expected <= row[input[q].rec].version
      /\ pc[q] = "write" => input[q].expected <= snap[q].version

\* The revisions a committed transition will name in its audit entry.
TransitionRecorded(q) ==
  \E v, w \in revisions :
    /\ v.rec = input[q].rec /\ w.rec = input[q].rec
    /\ w.version = v.version + 1
    /\ w.by = q
    /\ v.status = snap[q].status /\ w.status = input[q].target

RecordedInv ==
  Service.versioned =>
    \A q \in Request :
      pc[q] = "audit" /\ input[q].op = "transition" => TransitionRecorded(q)

\* A request past its write has committed, is not answered before it is done,
\* and a transition has been audited by the time it is reloaded.
AnswerInv ==
  \A q \in Request :
    /\ pc[q] # "done" => reply[q] = None
    /\ pc[q] \in {"audit", "reload"} => committed[q]
    /\ pc[q] = "reload" /\ input[q].op = "transition" => \E a \in audits : a.by = q

\* A request that has an entry is past its audit.
EntryInv == \A a \in audits : pc[a.by] \in {"reload", "done"}

(***************************************************************************)
(* What every reachable state satisfies when no client runs ahead; each    *)
(* conjunct is kept by every step with the help of those before it.        *)
(***************************************************************************)
IInv ==
  /\ TypeOK
  /\ StageInv
  /\ WinnerInv
  /\ VersionInv
  /\ RevisionChain
  /\ SnapshotInv
  /\ FreshnessInv
  /\ RecordedInv
  /\ AuditTruth
  /\ AnswerInv
  /\ EntryInv
  /\ AuditSound

-----------------------------------------------------------------------------
(* Action properties.                                                      *)

(***************************************************************************)
(* The status of a live record enters or leaves a gated status only by the *)
(* write of a request whose role may review (ErrForbidden in Transition).  *)
(***************************************************************************)
GateHeld ==
  [][\A r \in Record :
       /\ row[r].life = "live"
       /\ row'[r].status # row[r].status
       /\ {row[r].status, row'[r].status} \cap Service.gated # {}
       => \E q \in Request : /\ ~committed[q] /\ committed'[q]
                             /\ input[q].rec = r
                             /\ canReview(input[q].role)]_vars

(***************************************************************************)
(* The fields of a record in a frozen status do not change (a released or  *)
(* quarantined decision is not edited in place: ErrLocked in Update).      *)
(***************************************************************************)
FrozenKept ==
  [][\A r \in Record :
       row[r].life = "live" /\ row[r].status \in Service.frozen
         => row'[r].data = row[r].data]_vars

\* The version the client of q expects is beyond the one read for it: Update
\* and Transition hand it to the compare-and-swap without comparing the two.
Ahead(q) == Writes(q) /\ snap[q].version < input[q].expected

TakesEffect(q) == ~committed[q] /\ committed'[q]

\* What the rules of the aggregate ask of a request on row s.
Allowed(in, s) ==
  /\ in.role \in Routes[in.op]
  /\ in.op = "update" => s.status \notin Service.frozen
  /\ in.op = "delete" => s.status \in Service.deletable
  /\ in.op = "transition" =>
       /\ CanTransition(Service.graph, s.status, in.target)
       /\ {s.status, in.target} \cap Service.gated # {} => canReview(in.role)

(***************************************************************************)
(* Whatever versions clients send, a write takes effect only where the     *)
(* rules allow it on the row it changes, as that row is at that instant.   *)
(* The two exceptions are a deletion, and a write whose client ran ahead,  *)
(* of a row that has moved on since it was read and checked.               *)
(***************************************************************************)
CheckedAtWrite ==
  [][\A q \in Request :
       TakesEffect(q) =>
         \/ Allowed(input[q], row[input[q].rec])
         \/ /\ input[q].op = "delete" \/ Ahead(q)
            /\ snap[q].version < row[input[q].rec].version]_vars

(***************************************************************************)
(* Whatever versions clients send, rows and revisions change as those of   *)
(* an atomic record, but for the writes of clients that ran ahead: nothing *)
(* else comes between the read of a service and its write unnoticed.       *)
(***************************************************************************)
AtomicUnlessAhead ==
  [][\/ Atomic!Next \/ UNCHANGED database
     \/ \E q \in Request : TakesEffect(q) /\ Ahead(q)]_vars

(***************************************************************************)
(* What a page may rely on of everybody else (OtherUser of Console): but   *)
(* for the writes of clients that ran ahead, a row changes by one write on *)
(* what it is, and a deleted one not at all.                               *)
(***************************************************************************)
WrittenUnlessAhead ==
  [][\A r \in Record :
       row[r].life # "absent" /\ row'[r] # row[r] =>
         \/ Written(Service, row[r], row'[r])
         \/ \E q \in Request : TakesEffect(q) /\ Ahead(q)]_vars

(***************************************************************************)
(* A record is deleted only in a status its service lets Delete remove     *)
(* (ErrLocked in Delete).                                                  *)
(***************************************************************************)
DeleteOnlyDeletable ==
  [][\A r \in Record :
       row[r].life = "live" /\ row'[r].life = "deleted"
         => row[r].status \in Service.deletable]_vars

(***************************************************************************)
(* The service, with its reads, writes, faults and restarts, is an atomic  *)
(* record to its clients: AtomicRecord over the same rows and revisions.   *)
(***************************************************************************)
Implements == Atomic!Spec
=============================================================================
