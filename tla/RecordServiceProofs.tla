------------------------ MODULE RecordServiceProofs ------------------------
(***************************************************************************)
(* What RecordService guarantees for every set of requests, records and    *)
(* payloads and every well-formed service.                                 *)
(***************************************************************************)
EXTENDS RecordService, TLAPS

USE ServiceAssumption, RoleAssumption, LookaheadAssumption, FaultsAssumption

-----------------------------------------------------------------------------
(* Types and stages.                                                       *)

\* A transition that is not refused has a status of the graph as its target.
LEMMA TargetIsStatus ==
  ASSUME NEW in, NEW s, in.op = "transition", Refusal(in, s) = None
  PROVE  /\ in.target \in Service.statuses
         /\ CanTransition(Service.graph, s.status, in.target)
<1>1. CanTransition(Service.graph, s.status, in.target)
  BY DEF Refusal, Locked, Forbidden, Invalid, None
<1>2. Service.graph \in [Service.statuses -> SUBSET Service.statuses]
  BY DEF WellFormed
<1> QED
  BY <1>1, <1>2 DEF CanTransition

\* The request of an input is one of the four, with the fields of its kind.
LEMMA InputFields ==
  ASSUME NEW in \in Input
  PROVE  /\ in.op \in {"create", "update", "transition", "delete"}
         /\ in.rec \in Record
         /\ in.role \in Role
         /\ in.op \in {"create", "update"} => in.data \in Fields
         /\ in.op \in {"update", "transition"} => in.expected \in Nat
         /\ in.op = "transition" => in.target \in Target
BY DEF Input

\* The row an accepted update or transition writes is a row.
LEMMA ChangedIsRow ==
  ASSUME NEW in \in Input, NEW s \in Row,
         in.op \in {"update", "transition"},
         Refusal(in, s) = None
  PROVE  /\ Changed(in, s) \in Row
         /\ Changed(in, s).life = s.life
         /\ Changed(in, s).version = in.expected + 1
<1>1. in.expected \in Nat /\ in.expected + 1 \in Nat
  BY InputFields
<1>2. CASE in.op = "update"
  <2>1. in.data \in Payload
    BY <1>2, InputFields DEF Refusal, Locked, Forbidden, Invalid, Fields, None
  <2> QED
    BY <1>1, <1>2, <2>1 DEF Changed, Row
<1>3. CASE in.op = "transition"
  <2>1. in.target \in Status
    BY <1>3, TargetIsStatus DEF Status
  <2> QED
    BY <1>1, <1>3, <2>1 DEF Changed, Row
<1> QED
  BY <1>2, <1>3

\* The revision of a typed row is a revision.
LEMMA RevisionTyped ==
  ASSUME NEW r \in Record, NEW w \in Row, NEW by \in Actor
  PROVE  RevisionOf(r, w, by) \subseteq Revision
BY DEF RevisionOf, Revision, Row

\* A fresh row in a status of the aggregate is a row.
LEMMA FreshIsRow ==
  ASSUME NEW s \in Service.statuses, NEW d \in Payload
  PROVE  Fresh(s, d) \in Row
BY DEF Fresh, Row, Status

\* A committed write leaves typed rows and revisions.
LEMMA CommitTyped ==
  ASSUME TypeOK, StageInv, NEW q \in Request, Commit(q)
  PROVE  row' \in [Record -> Row] /\ revisions' \subseteq Revision
<1>1. input[q] \in Input /\ snap[q] \in Row /\ q \in Actor
  BY DEF Commit, CommitInsert, CommitUpdate, CommitDelete, StageInv, Stage, TypeOK, Actor
<1>2. input[q].rec \in Record
  BY <1>1, InputFields
<1>3. CASE CommitInsert(q)
  <2>1. input[q].op = "create" /\ input[q].data \in Payload
    BY <1>1, <1>3, InputFields DEF CommitInsert, StageInv, Stage, Fields
  <2>2. Fresh(Service.initial, input[q].data) \in Row
    BY <2>1, FreshIsRow DEF WellFormed
  <2> QED
    BY <1>1, <1>2, <1>3, <2>2, RevisionTyped DEF CommitInsert, TypeOK
<1>4. CASE CommitUpdate(q)
  <2>1. Changed(input[q], snap[q]) \in Row
    BY <1>1, <1>4, ChangedIsRow DEF CommitUpdate, StageInv, Stage
  <2> QED
    BY <1>1, <1>2, <1>4, <2>1, RevisionTyped DEF CommitUpdate, TypeOK
<1>5. CASE CommitDelete(q)
  BY <1>2, <1>5 DEF CommitDelete, TypeOK, Row
<1> QED
  BY <1>3, <1>4, <1>5 DEF Commit

\* The audit entry of an accepted request is one.
LEMMA AuditTyped ==
  ASSUME TypeOK, StageInv, NEW q \in Request, pc[q] = "audit"
  PROVE  AuditEntry(q) \in Audited
<1>1. input[q] \in Input /\ snap[q] \in Row /\ Refusal(input[q], snap[q]) = None
  BY DEF StageInv, Stage, TypeOK
<1>2. snap[q].status \in Status
  BY <1>1 DEF Row
<1>3. StatusAfter(input[q], snap[q]) \in Status \cup {"deleted"}
  <2>1. CASE input[q].op = "create"
    BY <2>1 DEF StatusAfter, WellFormed, Status
  <2>2. CASE input[q].op = "update"
    BY <1>2, <2>2 DEF StatusAfter
  <2>3. CASE input[q].op = "transition"
    BY <1>1, <2>3, TargetIsStatus DEF StatusAfter, Status
  <2>4. CASE input[q].op = "delete"
    BY <2>4 DEF StatusAfter
  <2> QED
    BY <1>1, <2>1, <2>2, <2>3, <2>4, InputFields
<1> QED
  BY <1>1, <1>2, <1>3, InputFields DEF AuditEntry, Audited

TypeInv == TypeOK /\ StageInv

\* Where a request may stand, and what it may be answered.
Labels == {"idle", "load", "insert", "write", "audit", "reload", "done"}

\* A request that is finished, and was not idle, is at a sound stage.
LEMMA FinishTyped ==
  ASSUME TypeInv, NEW q \in Request, NEW o \in Outcome, Finish(q, o)
  PROVE  /\ pc' \in [Request -> Labels]
         /\ reply' \in [Request -> Outcome]
         /\ pc'[q] = "done"
         /\ \A p \in Request \ {q} : pc'[p] = pc[p]
BY DEF Finish, Goto, TypeInv, TypeOK, Labels

\* The stage of a request depends on its own pc, input, snapshot and commit.
LEMMA StageLocal ==
  ASSUME NEW p \in Request, Stage(p),
         pc'[p] = pc[p], input'[p] = input[p], snap'[p] = snap[p],
         committed'[p] = committed[p]
  PROVE  Stage(p)'
BY DEF Stage, Writes

\* A request is received with an input of its kind.
LEMMA ReceiveTyped ==
  ASSUME TypeInv, NEW q \in Request, NEW in \in Input,
         NEW first \in {"insert", "load"},
         first = "insert" <=> in.op = "create",
         Receive(q, in, first)
  PROVE  TypeInv'
<1>1. TypeOK'
  BY DEF Receive, Goto, Finish, TypeInv, TypeOK, Outcome, database
<1>2. Stage(q)'
  <2>1. in.op \in {"create", "update", "transition", "delete"}
    BY InputFields
  <2>2. /\ input'[q] = in /\ pc'[q] \in {first, "done"} /\ committed'[q] = FALSE
        /\ pc'[q] # "done" => in.role \in Routes[in.op]
    BY DEF Receive, Goto, Finish, TypeInv, TypeOK, StageInv, Stage, database
  <2> QED
    BY <2>1, <2>2 DEF Stage, Writes
<1>3. \A p \in Request \ {q} : Stage(p)'
  <2> SUFFICES ASSUME NEW p \in Request, p # q PROVE Stage(p)'
    OBVIOUS
  <2>1. pc'[p] = pc[p] /\ input'[p] = input[p] /\ snap'[p] = snap[p] /\ committed'[p] = committed[p]
    BY DEF Receive, Goto, Finish, TypeInv, TypeOK, database
  <2> QED
    BY <2>1, StageLocal DEF TypeInv, StageInv
<1> QED
  BY <1>1, <1>2, <1>3 DEF TypeInv, StageInv

\* A step of q that keeps what the other requests stand on is sound if it is
\* sound for q.
LEMMA OthersKept ==
  ASSUME TypeInv, NEW q \in Request, TypeOK', Stage(q)',
         \A p \in Request \ {q} :
           /\ pc'[p] = pc[p] /\ input'[p] = input[p]
           /\ snap'[p] = snap[p] /\ committed'[p] = committed[p]
  PROVE  TypeInv'
BY StageLocal DEF TypeInv, StageInv

LEMMA LoadTyped == ASSUME TypeInv, NEW q \in Request, Load(q) PROVE TypeInv'
<1>1. /\ input[q] \in Input /\ input[q].rec \in Record /\ ~committed[q]
      /\ input[q].op \in {"update", "transition", "delete"}
      /\ input[q].role \in Routes[input[q].op]
  BY InputFields DEF Load, TypeInv, StageInv, Stage
<1>2. row[input[q].rec] \in Row
  BY <1>1 DEF TypeInv, TypeOK
<1>3. Refusal(input[q], row[input[q].rec]) \in Outcome
  BY DEF Refusal, Outcome
<1>4. TypeOK'
  BY <1>2, <1>3 DEF Load, Goto, Finish, TypeInv, TypeOK, Outcome, database
<1>5. Stage(q)'
  BY <1>1 DEF Load, Goto, Finish, TypeInv, TypeOK, Stage, database
<1> QED
  BY <1>4, <1>5, OthersKept DEF Load, Goto, Finish, TypeInv, TypeOK, database

LEMMA WriteTyped == ASSUME TypeInv, NEW q \in Request, Write(q) PROVE TypeInv'
<1>1. row' \in [Record -> Row] /\ revisions' \subseteq Revision
  BY CommitTyped DEF Write, TypeInv
<1>2. TypeOK'
  BY <1>1 DEF Write, Goto, TypeInv, TypeOK
<1>3. /\ pc[q] \in {"insert", "write"} /\ input'[q] = input[q] /\ snap'[q] = snap[q]
      /\ pc'[q] = "audit"
  BY DEF Write, Commit, CommitInsert, CommitUpdate, CommitDelete, Goto, TypeInv, TypeOK
<1>4. Refusal(input[q], snap[q]) = None
  BY <1>3 DEF TypeInv, StageInv, Stage, Refusal, Locked, Forbidden, Invalid
<1>5. Stage(q)'
  BY <1>3, <1>4 DEF TypeInv, StageInv, Stage
<1> QED
  BY <1>2, <1>5, OthersKept DEF Write, Goto, TypeInv, TypeOK

LEMMA RefuseTyped == ASSUME TypeInv, NEW q \in Request, Refuse(q) PROVE TypeInv'
<1>1. PICK o \in Outcome : pc[q] \in {"insert", "write"} /\ Finish(q, o)
  BY DEF Refuse, Outcome
<1>2. TypeOK'
  BY <1>1 DEF Refuse, Finish, Goto, TypeInv, TypeOK, database
<1>3. Stage(q)'
  BY <1>1 DEF Refuse, Finish, Goto, TypeInv, TypeOK, StageInv, Stage, database
<1> QED
  BY <1>1, <1>2, <1>3, OthersKept DEF Refuse, Finish, Goto, TypeInv, TypeOK, database

\* The stage that follows the audit, whether or not it was stored.
LEMMA AfterAuditTyped ==
  ASSUME TypeInv, NEW q \in Request, pc[q] = "audit",
         audits' \in {audits, audits \cup {AuditEntry(q)}},
         Continue(q) \/ Finish(q, "error"),
         UNCHANGED <<database, input, snap, committed>>
  PROVE  TypeInv'
<1>1. audits' \subseteq Audited
  BY AuditTyped DEF TypeInv, TypeOK
<1>2. TypeOK'
  BY <1>1 DEF Continue, Finish, Goto, TypeInv, TypeOK, Outcome, database
<1>3. Stage(q)'
  BY DEF Continue, Finish, Goto, TypeInv, TypeOK, StageInv, Stage, Writes, database
<1> QED
  BY <1>2, <1>3, OthersKept DEF Continue, Finish, Goto, TypeInv, TypeOK, database

LEMMA ReloadTyped == ASSUME TypeInv, NEW q \in Request, Reload(q) PROVE TypeInv'
<1>1. row[input[q].rec] \in Row
  BY InputFields DEF Reload, TypeInv, TypeOK, StageInv, Stage
<1>2. TypeOK'
  BY <1>1 DEF Reload, Finish, Goto, TypeInv, TypeOK, Outcome, database
<1>3. Stage(q)'
  BY DEF Reload, Finish, Goto, TypeInv, TypeOK, StageInv, Stage, database
<1> QED
  BY <1>2, <1>3, OthersKept DEF Reload, Finish, Goto, TypeInv, TypeOK, database

LEMMA StatementFailsTyped ==
  ASSUME TypeInv, NEW q \in Request, StatementFails(q) PROVE TypeInv'
<1>1. TypeOK'
  BY DEF StatementFails, Finish, Goto, TypeInv, TypeOK, Outcome, database
<1>2. Stage(q)'
  BY DEF StatementFails, Finish, Goto, TypeInv, TypeOK, StageInv, Stage, database
<1> QED
  BY <1>1, <1>2, OthersKept DEF StatementFails, Finish, Goto, TypeInv, TypeOK, database

LEMMA WriteUnacknowledgedTyped ==
  ASSUME TypeInv, NEW q \in Request, WriteUnacknowledged(q) PROVE TypeInv'
<1>1. row' \in [Record -> Row] /\ revisions' \subseteq Revision
  BY CommitTyped DEF WriteUnacknowledged, TypeInv
<1>2. TypeOK'
  BY <1>1 DEF WriteUnacknowledged, Finish, Goto, TypeInv, TypeOK, Outcome
<1>3. pc[q] # "idle" /\ input'[q] = input[q] /\ pc'[q] = "done"
  BY DEF WriteUnacknowledged, Finish, Goto, Commit, CommitInsert, CommitUpdate,
         CommitDelete, TypeInv, TypeOK
<1>4. Stage(q)'
  BY <1>3 DEF TypeInv, StageInv, Stage
<1> QED
  BY <1>2, <1>4, OthersKept DEF WriteUnacknowledged, Finish, Goto, TypeInv, TypeOK

LEMMA RestartTyped == ASSUME TypeInv, Restart PROVE TypeInv'
<1>1. TypeOK'
  BY DEF Restart, InFlight, TypeInv, TypeOK, Outcome, database
<1>2. ASSUME NEW q \in Request PROVE Stage(q)'
  BY <1>2 DEF Restart, InFlight, TypeInv, TypeOK, StageInv, Stage, Writes, database
<1> QED
  BY <1>1, <1>2 DEF TypeInv, StageInv

LEMMA TypeInit == Init => TypeInv
<1> SUFFICES ASSUME Init PROVE TypeInv
  OBVIOUS
<1>1. ASSUME NEW r \in Record PROVE row[r] \in Row
  <2>1. CASE row[r] = Absent
    BY <2>1 DEF Absent, Row, Status
  <2>2. CASE row[r] # Absent
    <3>1. PICK s \in Service.seeds, d \in Payload : row[r] = Fresh(s, d)
      BY <1>1, <2>2 DEF Init, SeededRows
    <3> QED
      BY <3>1, FreshIsRow DEF WellFormed
  <2> QED
    BY <2>1, <2>2
<1>2. row \in [Record -> Row]
  BY <1>1 DEF Init
<1>3. revisions \subseteq Revision
  <2>1. \A r \in Record : RevisionOf(r, row[r], "seed") \subseteq Revision
    BY <1>2, RevisionTyped DEF Actor
  <2> QED
    BY <2>1 DEF Init, SeedRevisions
<1>4. Absent \in Row
  BY DEF Absent, Row, Status
<1> QED
  BY <1>2, <1>3, <1>4 DEF Init, TypeInv, TypeOK, StageInv, Stage, Outcome, Writes, None

LEMMA TypeStep == TypeInv /\ [Next]_vars => TypeInv'
<1> SUFFICES ASSUME TypeInv, [Next]_vars PROVE TypeInv'
  OBVIOUS
<1>1. ASSUME NEW q \in Request, ReceiveCreate(q) PROVE TypeInv'
  <2>1. PICK role \in Role, r \in Record, d \in Fields :
          Receive(q, [op |-> "create", role |-> role, rec |-> r, data |-> d], "insert")
    BY <1>1 DEF ReceiveCreate
  <2>2. [op |-> "create", role |-> role, rec |-> r, data |-> d] \in Input
    BY DEF Input
  <2> QED
    BY <2>1, <2>2, ReceiveTyped
<1>2. ASSUME NEW q \in Request, ReceiveUpdate(q) PROVE TypeInv'
  <2> PICK role \in Role, r \in Record, d \in Fields :
        \E v \in ExpectedVersions(r) :
          Receive(q, [op |-> "update", role |-> role, rec |-> r, data |-> d,
                      expected |-> v], "load")
    BY <1>2 DEF ReceiveUpdate
  <2>1. PICK v \in ExpectedVersions(r) :
          Receive(q, [op |-> "update", role |-> role, rec |-> r, data |-> d,
                      expected |-> v], "load")
    OBVIOUS
  <2>2. v \in Nat
    BY DEF ExpectedVersions
  <2>3. [op |-> "update", role |-> role, rec |-> r, data |-> d, expected |-> v] \in Input
    BY <2>2 DEF Input
  <2> QED
    BY <2>1, <2>3, ReceiveTyped
<1>3. ASSUME NEW q \in Request, ReceiveTransition(q) PROVE TypeInv'
  <2> PICK role \in Role, r \in Record, t \in Target :
        \E v \in ExpectedVersions(r) :
          Receive(q, [op |-> "transition", role |-> role, rec |-> r, target |-> t,
                      expected |-> v], "load")
    BY <1>3 DEF ReceiveTransition
  <2>1. PICK v \in ExpectedVersions(r) :
          Receive(q, [op |-> "transition", role |-> role, rec |-> r, target |-> t,
                      expected |-> v], "load")
    OBVIOUS
  <2>2. v \in Nat
    BY DEF ExpectedVersions
  <2>3. [op |-> "transition", role |-> role, rec |-> r, target |-> t, expected |-> v] \in Input
    BY <2>2 DEF Input
  <2> QED
    BY <2>1, <2>3, ReceiveTyped
<1>4. ASSUME NEW q \in Request, ReceiveDelete(q) PROVE TypeInv'
  <2>1. PICK role \in Role, r \in Record :
          Receive(q, [op |-> "delete", role |-> role, rec |-> r], "load")
    BY <1>4 DEF ReceiveDelete
  <2>2. [op |-> "delete", role |-> role, rec |-> r] \in Input
    BY DEF Input
  <2> QED
    BY <2>1, <2>2, ReceiveTyped
<1>5. ASSUME NEW q \in Request, Audit(q) PROVE TypeInv'
  BY <1>5, AfterAuditTyped DEF Audit
<1>6. ASSUME NEW q \in Request, AuditFails(q) PROVE TypeInv'
  <2>1. Continue(q) \/ Finish(q, "error")
    BY <1>6 DEF AuditFails
  <2> QED
    BY <1>6, <2>1, AfterAuditTyped DEF AuditFails
<1>7. CASE UNCHANGED vars
  BY <1>7 DEF vars, TypeInv, TypeOK, StageInv, Stage, Writes
<1> QED
  BY <1>1, <1>2, <1>3, <1>4, <1>5, <1>6, <1>7, LoadTyped, WriteTyped, RefuseTyped,
     ReloadTyped, StatementFailsTyped, WriteUnacknowledgedTyped, RestartTyped
     DEF Next, Serve, Terminating

LEMMA TypeInvariant == Spec => []TypeInv
BY TypeInit, TypeStep, PTL DEF Spec

\* Every reachable state is typed: no status or field value a client makes up,
\* and no revision or audit entry out of its range, is ever stored, whatever
\* expected versions the clients send.
THEOREM TypeCorrect == Spec => []TypeOK
<1>1. TypeInv => TypeOK
  BY DEF TypeInv
<1> QED
  BY <1>1, TypeInvariant, PTL

-----------------------------------------------------------------------------
(* The revision chain, and one winner per version.                         *)

\* The tables change only by a commit, and a commit leaves the requests as
\* they were but for marking its own.
LEMMA StepShape ==
  ASSUME [Next]_vars
  PROVE  \/ UNCHANGED <<row, revisions, committed>>
         \/ \E q \in Request : /\ Commit(q)
                              /\ committed' = [committed EXCEPT ![q] = TRUE]
                              /\ UNCHANGED <<input, snap>>
BY DEF Next, Serve, ReceiveCreate, ReceiveUpdate, ReceiveTransition, ReceiveDelete,
       Receive, Load, Write, Refuse, Audit, AuditFails, Reload, StatementFails,
       WriteUnacknowledged, Restart, Terminating, vars, database

\* What a commit does to the row it writes: a write goes to the version after
\* the one the row has, a deletion only marks the row.
LEMMA CommitShape ==
  ASSUME TypeInv, NEW q \in Request, Commit(q)
  PROVE  /\ input[q] \in Input /\ input[q].rec \in Record
         /\ \/ \E w \in Row :
                 /\ w.version = row[input[q].rec].version + 1
                 /\ w.life = "live"
                 /\ row' = [row EXCEPT ![input[q].rec] = w]
                 /\ revisions' = revisions \cup RevisionOf(input[q].rec, w, q)
            \/ /\ row[input[q].rec].life = "live"
               /\ row' = [row EXCEPT ![input[q].rec].life = "deleted"]
               /\ UNCHANGED revisions
<1>1. input[q] \in Input /\ input[q].rec \in Record /\ snap[q] \in Row
  BY InputFields DEF Commit, CommitInsert, CommitUpdate, CommitDelete, TypeInv, TypeOK,
                     StageInv, Stage
<1>2. CASE CommitInsert(q)
  <2>1. input[q].data \in Payload
    BY <1>1, <1>2, InputFields DEF CommitInsert, TypeInv, StageInv, Stage, Fields
  <2>2. Fresh(Service.initial, input[q].data) \in Row
    BY <2>1, FreshIsRow DEF WellFormed
  <2>3. /\ Fresh(Service.initial, input[q].data).version = row[input[q].rec].version + 1
        /\ Fresh(Service.initial, input[q].data).life = "live"
    BY <1>2 DEF CommitInsert, Fresh, Absent
  <2> QED
    BY <1>1, <1>2, <2>2, <2>3 DEF CommitInsert
<1>3. CASE CommitUpdate(q)
  <2>1. /\ Changed(input[q], snap[q]) \in Row
        /\ Changed(input[q], snap[q]).life = snap[q].life
        /\ Changed(input[q], snap[q]).version = input[q].expected + 1
    BY <1>1, <1>3, ChangedIsRow DEF CommitUpdate, TypeInv, StageInv, Stage
  <2>2. /\ Changed(input[q], snap[q]).version = row[input[q].rec].version + 1
        /\ Changed(input[q], snap[q]).life = "live"
    BY <1>3, <2>1 DEF CommitUpdate, Matches, TypeInv, StageInv, Stage
  <2> QED
    BY <1>1, <1>3, <2>1, <2>2 DEF CommitUpdate
<1>4. CASE CommitDelete(q)
  BY <1>1, <1>4 DEF CommitDelete
<1> QED
  BY <1>2, <1>3, <1>4 DEF Commit

\* A chain that gains the next version of one record is a chain.
LEMMA ChainGrows ==
  ASSUME TypeOK, RevisionChain, NEW r \in Record, NEW w \in Row, NEW by,
         w.version = row[r].version + 1,
         row' = [row EXCEPT ![r] = w],
         revisions' = revisions \cup RevisionOf(r, w, by)
  PROVE  RevisionChain'
<1> SUFFICES ASSUME Service.versioned, NEW x \in Record
             PROVE  /\ \A n \in 1..row'[x].version :
                         \E v \in revisions' : v.rec = x /\ v.version = n
                    /\ \A v \in revisions' : v.rec = x => v.version \in 1..row'[x].version
                    /\ \A v, u \in revisions' :
                         v.rec = x /\ u.rec = x /\ v.version = u.version => v = u
                    /\ \A v \in revisions' :
                         v.rec = x /\ v.version = row'[x].version
                           => v.status = row'[x].status /\ v.data = Copied(row'[x].data)
  BY DEF RevisionChain
<1> DEFINE new == [rec |-> r, version |-> w.version, status |-> w.status,
                   data |-> Copied(w.data), by |-> by]
<1>1. revisions' = revisions \cup {new}
  BY DEF RevisionOf
<1>2. new.rec = r /\ new.version = w.version /\ new.status = w.status /\ new.data = Copied(w.data)
  OBVIOUS
<1>3. /\ \A n \in 1..row[x].version : \E v \in revisions : v.rec = x /\ v.version = n
      /\ \A v \in revisions : v.rec = x => v.version \in 1..row[x].version
      /\ \A v, u \in revisions :
           v.rec = x /\ u.rec = x /\ v.version = u.version => v = u
      /\ \A v \in revisions :
           v.rec = x /\ v.version = row[x].version
             => v.status = row[x].status /\ v.data = Copied(row[x].data)
  BY DEF RevisionChain
<1>4. row[x].version \in Nat /\ w.version \in Nat
  BY DEF TypeOK, Row
<1> HIDE DEF new
<1>5. CASE x = r
  <2>1. row'[x] = w /\ w.version = row[x].version + 1
    BY <1>5 DEF TypeOK
  <2>2. \A v \in revisions : v.rec = x => v.version # w.version
    BY <1>3, <1>4, <2>1
  <2>3. \A n \in 1..w.version : n \in 1..row[x].version \/ n = w.version
    BY <1>4, <2>1
  <2>4. \A n \in 1..w.version : \E v \in revisions' : v.rec = x /\ v.version = n
    BY <1>1, <1>2, <1>3, <1>5, <2>3
  <2>5. \A v \in revisions' : v.rec = x => v.version \in 1..w.version
    BY <1>1, <1>2, <1>3, <1>4, <2>1
  <2>6. \A v, u \in revisions' : v.rec = x /\ u.rec = x /\ v.version = u.version => v = u
    BY <1>1, <1>2, <1>3, <2>2
  <2>7. \A v \in revisions' : v.rec = x /\ v.version = w.version
                            => v.status = w.status /\ v.data = Copied(w.data)
    BY <1>1, <1>2, <2>2
  <2> QED
    BY <2>1, <2>4, <2>5, <2>6, <2>7
<1>6. CASE x # r
  <2>1. row'[x] = row[x]
    BY <1>6 DEF TypeOK
  <2> QED
    BY <1>1, <1>2, <1>3, <1>6, <2>1
<1> QED
  BY <1>5, <1>6

LEMMA ChainInit == Init => RevisionChain
<1> SUFFICES ASSUME Init, Service.versioned, NEW r \in Record
             PROVE  /\ \A n \in 1..row[r].version :
                         \E v \in revisions : v.rec = r /\ v.version = n
                    /\ \A v \in revisions : v.rec = r => v.version \in 1..row[r].version
                    /\ \A v, u \in revisions :
                         v.rec = r /\ u.rec = r /\ v.version = u.version => v = u
                    /\ \A v \in revisions :
                         v.rec = r /\ v.version = row[r].version
                           => v.status = row[r].status /\ v.data = Copied(row[r].data)
  BY DEF RevisionChain
<1> DEFINE first(x) == [rec |-> x, version |-> row[x].version, status |-> row[x].status,
                        data |-> Copied(row[x].data), by |-> "seed"]
<1>1. \A v : v \in revisions <=> \E x \in Record : row[x] # Absent /\ v = first(x)
  BY DEF Init, SeedRevisions, RevisionOf
<1>2. \A x : /\ first(x).rec = x /\ first(x).version = row[x].version
             /\ first(x).status = row[x].status /\ first(x).data = Copied(row[x].data)
  OBVIOUS
<1> HIDE DEF first
<1>3. \A v \in revisions : v.rec = r => row[r] # Absent /\ v = first(r)
  BY <1>1, <1>2
<1>4. CASE row[r] = Absent
  <2>1. row[r].version = 0
    BY <1>4 DEF Absent
  <2> QED
    BY <1>3, <1>4, <2>1
<1>5. CASE row[r] # Absent
  <2>1. row[r].version = 1
    <3>1. PICK s \in Service.seeds, d \in Payload : row[r] = Fresh(s, d)
      BY <1>5 DEF Init, SeededRows
    <3> QED
      BY <3>1 DEF Fresh
  <2>2. first(r) \in revisions
    BY <1>1, <1>5
  <2> QED
    BY <1>2, <1>3, <2>1, <2>2
<1> QED
  BY <1>4, <1>5

LEMMA ChainStep == TypeInv /\ RevisionChain /\ [Next]_vars => RevisionChain'
<1> SUFFICES ASSUME TypeInv, RevisionChain, [Next]_vars PROVE RevisionChain'
  OBVIOUS
<1>1. CASE UNCHANGED <<row, revisions, committed>>
  BY <1>1 DEF RevisionChain
<1>2. ASSUME NEW q \in Request, Commit(q) PROVE RevisionChain'
  <2>1. CASE \E w \in Row :
                 /\ w.version = row[input[q].rec].version + 1
                 /\ w.life = "live"
                 /\ row' = [row EXCEPT ![input[q].rec] = w]
                 /\ revisions' = revisions \cup RevisionOf(input[q].rec, w, q)
    BY <1>2, <2>1, CommitShape, ChainGrows DEF TypeInv
  <2>2. CASE /\ row' = [row EXCEPT ![input[q].rec].life = "deleted"]
             /\ UNCHANGED revisions
    <3>1. \A r \in Record : /\ row'[r].version = row[r].version
                            /\ row'[r].status = row[r].status
                            /\ row'[r].data = row[r].data
      BY <2>2 DEF TypeInv, TypeOK, Row
    <3> QED
      BY <2>2, <3>1 DEF RevisionChain
  <2> QED
    BY <1>2, <2>1, <2>2, CommitShape
<1> QED
  BY <1>1, <1>2, StepShape

\* CreateWithRevision and UpdateWithRevision: each version of a versioned record
\* from 1 to the row's has one revision, and the last one has the status of the
\* row and those of its fields that revisions copy, for any number of concurrent
\* requests, any expected versions, and any faults.
THEOREM RevisionChainInvariant == Spec => []RevisionChain
<1>1. TypeInv /\ RevisionChain /\ [Next]_vars => RevisionChain'
  BY ChainStep
<1> QED
  BY <1>1, ChainInit, TypeInvariant, PTL DEF Spec

\* Versions of rows never decrease.
LEMMA VersionGrows ==
  ASSUME TypeInv, [Next]_vars, NEW r \in Record
  PROVE  row[r].version \in Nat /\ row'[r].version \in Nat
         /\ row[r].version <= row'[r].version
<1>1. row[r].version \in Nat
  BY DEF TypeInv, TypeOK, Row
<1>2. CASE UNCHANGED <<row, revisions, committed>>
  BY <1>1, <1>2
<1>3. ASSUME NEW q \in Request, Commit(q)
      PROVE row'[r].version \in Nat /\ row[r].version <= row'[r].version
  <2>1. CASE \E w \in Row : /\ w.version = row[input[q].rec].version + 1
                            /\ row' = [row EXCEPT ![input[q].rec] = w]
    BY <1>1, <1>3, <2>1 DEF TypeInv, TypeOK, Row
  <2>2. CASE row' = [row EXCEPT ![input[q].rec].life = "deleted"]
    BY <1>1, <1>3, <2>2 DEF TypeInv, TypeOK, Row
  <2> QED
    BY <1>3, <2>1, <2>2, CommitShape
<1> QED
  BY <1>1, <1>2, <1>3, StepShape

\* What a request asks for is settled when it is received.
LEMMA InputKept ==
  ASSUME TypeInv, [Next]_vars, NEW q \in Request, pc[q] # "idle"
  PROVE  input'[q] = input[q]
BY DEF Next, Serve, ReceiveCreate, ReceiveUpdate, ReceiveTransition, ReceiveDelete,
       Receive, Load, Write, Refuse, Audit, AuditFails, Reload, StatementFails,
       WriteUnacknowledged, Restart, Terminating, vars, TypeInv, TypeOK

\* An update or transition commits at the version it expected.
LEMMA CommitExpected ==
  ASSUME TypeInv, NEW q \in Request, Commit(q), Writes(q)
  PROVE  /\ CommitUpdate(q)
         /\ row[input[q].rec].version = input[q].expected
         /\ row'[input[q].rec].version = input[q].expected + 1
<1>1. CommitUpdate(q)
  BY DEF Commit, CommitInsert, CommitDelete, Writes, TypeInv, StageInv, Stage
<1>2. input[q] \in Input /\ input[q].rec \in Record /\ snap[q] \in Row
  BY <1>1, InputFields DEF CommitUpdate, TypeInv, TypeOK, StageInv, Stage
<1>3. Changed(input[q], snap[q]).version = input[q].expected + 1
  BY <1>1, <1>2, ChangedIsRow DEF CommitUpdate, TypeInv, StageInv, Stage
<1> QED
  BY <1>1, <1>2, <1>3 DEF CommitUpdate, Matches, TypeInv, TypeOK

LEMMA WinnerStep == TypeInv /\ WinnerInv /\ [Next]_vars => WinnerInv'
<1> SUFFICES ASSUME TypeInv, WinnerInv, [Next]_vars,
                    NEW q \in Request, committed'[q], Writes(q)'
             PROVE  input'[q].expected < row'[input'[q].rec].version
  BY DEF WinnerInv
<1>1. CASE committed[q]
  <2>1. pc[q] # "idle" /\ input[q] \in Input
    BY <1>1 DEF TypeInv, StageInv, Stage
  <2>2. input'[q] = input[q] /\ input[q].rec \in Record /\ Writes(q)
    BY <2>1, InputKept, InputFields DEF Writes
  <2>3. input[q].expected < row[input[q].rec].version /\ input[q].expected \in Nat
    BY <1>1, <2>1, <2>2, InputFields DEF WinnerInv, Writes
  <2> QED
    BY <2>2, <2>3, VersionGrows
<1>2. CASE ~committed[q]
  <2>1. PICK p \in Request : /\ Commit(p)
                             /\ committed' = [committed EXCEPT ![p] = TRUE]
                             /\ UNCHANGED <<input, snap>>
    BY <1>2, StepShape
  <2>2. p = q /\ Writes(q)
    BY <1>2, <2>1 DEF TypeInv, TypeOK, Writes
  <2>3. input[q] \in Input
    BY <2>1, <2>2, CommitShape
  <2>4. input[q].expected \in Nat
    BY <2>2, <2>3, InputFields DEF Writes
  <2> QED
    BY <2>1, <2>2, <2>4, CommitExpected
<1> QED
  BY <1>1, <1>2

LEMMA OneWinnerStep ==
  TypeInv /\ WinnerInv /\ OneWinner /\ [Next]_vars => OneWinner'
<1> SUFFICES ASSUME TypeInv, WinnerInv, OneWinner, [Next]_vars,
                    NEW p \in Request, NEW q \in Request, p # q,
                    Writes(p)', Writes(q)',
                    input'[p].rec = input'[q].rec,
                    input'[p].expected = input'[q].expected,
                    committed'[p], committed'[q]
             PROVE  FALSE
  BY DEF OneWinner
<1>1. CASE UNCHANGED committed
  <2>1. pc[p] # "idle" /\ pc[q] # "idle"
    BY <1>1 DEF TypeInv, StageInv, Stage
  <2>2. input'[p] = input[p] /\ input'[q] = input[q]
    BY <2>1, InputKept
  <2> QED
    BY <1>1, <2>2 DEF OneWinner, Writes
<1>2. ASSUME NEW x \in Request, Commit(x),
             committed' = [committed EXCEPT ![x] = TRUE], UNCHANGED <<input, snap>>
      PROVE  FALSE
  <2>1. Writes(p) /\ Writes(q)
    BY <1>2 DEF Writes
  <2>2. ~committed[x]
    BY <1>2 DEF Commit, CommitInsert, CommitUpdate, CommitDelete, TypeInv, StageInv, Stage
  <2>3. ASSUME NEW y \in Request, NEW z \in Request, y # z, x = y, Writes(y), Writes(z),
               input[y].rec = input[z].rec, input[y].expected = input[z].expected,
               committed'[z]
        PROVE  FALSE
    <3>1. committed[z]
      BY <1>2, <2>3 DEF TypeInv, TypeOK
    <3>2. input[z] \in Input
      BY <3>1 DEF TypeInv, StageInv, Stage
    <3>3. input[z].rec \in Record /\ input[z].expected \in Nat
      BY <2>3, <3>2, InputFields DEF Writes
    <3>4. input[z].expected < row[input[z].rec].version
      BY <2>3, <3>1 DEF WinnerInv
    <3>5. row[input[y].rec].version = input[y].expected
      BY <1>2, <2>3, CommitExpected
    <3> QED
      BY <2>3, <3>3, <3>4, <3>5
  <2>4. x # p /\ x # q
    BY <1>2, <2>1, <2>3
  <2>5. committed[p] /\ committed[q]
    BY <1>2, <2>4 DEF TypeInv, TypeOK
  <2> QED
    BY <1>2, <2>1, <2>5 DEF OneWinner
<1> QED
  BY <1>1, <1>2, StepShape

\* Of the requests that change a record from one version at most one takes
\* effect, faults, restarts and clients that run ahead included.
THEOREM OneWinnerInvariant == Spec => []OneWinner
<1>1. Init => WinnerInv /\ OneWinner
  BY DEF Init, WinnerInv, OneWinner
<1> QED
  BY <1>1, WinnerStep, OneWinnerStep, TypeInvariant, PTL DEF Spec

-----------------------------------------------------------------------------
(***************************************************************************)
(* The row that was checked and the row that is written: the same, but for *)
(* deletions and for clients that run ahead of the versions they were      *)
(* answered.                                                               *)
(***************************************************************************)

LEMMA VersionInit == Init => VersionInv
<1> SUFFICES ASSUME Init, NEW r \in Record
             PROVE  /\ row[r].life = "absent" => row[r] = Absent
                    /\ row[r].life # "absent" => row[r].version >= 1
  BY DEF VersionInv
<1>1. CASE row[r] = Absent
  BY <1>1 DEF Absent
<1>2. CASE row[r] # Absent
  <2>1. PICK s \in Service.seeds, d \in Payload : row[r] = Fresh(s, d)
    BY <1>2 DEF Init, SeededRows
  <2> QED
    BY <2>1 DEF Fresh
<1> QED
  BY <1>1, <1>2

LEMMA VersionStep == TypeInv /\ VersionInv /\ [Next]_vars => VersionInv'
<1> SUFFICES ASSUME TypeInv, VersionInv, [Next]_vars, NEW r \in Record
             PROVE  /\ row'[r].life = "absent" => row'[r] = Absent
                    /\ row'[r].life # "absent" => row'[r].version >= 1
  BY DEF VersionInv
<1>1. CASE UNCHANGED <<row, revisions, committed>>
  BY <1>1 DEF VersionInv
<1>2. ASSUME NEW q \in Request, Commit(q)
      PROVE  /\ row'[r].life = "absent" => row'[r] = Absent
             /\ row'[r].life # "absent" => row'[r].version >= 1
  <2>1. CASE \E w \in Row : /\ w.version = row[input[q].rec].version + 1
                            /\ w.life = "live"
                            /\ row' = [row EXCEPT ![input[q].rec] = w]
    BY <1>2, <2>1, CommitShape DEF TypeInv, TypeOK, Row, VersionInv
  <2>2. CASE /\ row[input[q].rec].life = "live"
             /\ row' = [row EXCEPT ![input[q].rec].life = "deleted"]
    BY <1>2, <2>2, CommitShape DEF TypeInv, TypeOK, Row, VersionInv
  <2> QED
    BY <1>2, <2>1, <2>2, CommitShape
<1> QED
  BY <1>1, <1>2, StepShape

\* A request waits to load since before the step, or was received by it.
LEMMA EntersLoad ==
  ASSUME TypeInv, [Next]_vars, NEW q \in Request, pc'[q] = "load", Writes(q)'
  PROVE  \/ pc[q] = "load" /\ input'[q] = input[q]
         \/ /\ UNCHANGED row
            /\ input'[q].rec \in Record
            /\ input'[q].expected \in ExpectedVersions(input'[q].rec)
<1>1. CASE pc[q] = "load"
  BY <1>1, InputKept
<1>2. CASE pc[q] # "load"
  <2>1. ReceiveUpdate(q) \/ ReceiveTransition(q) \/ ReceiveDelete(q)
    BY <1>2 DEF Next, Serve, ReceiveCreate, ReceiveUpdate, ReceiveTransition,
                ReceiveDelete, Receive, Load, Write, Refuse, Audit, AuditFails, Reload,
                StatementFails, WriteUnacknowledged, Restart, Terminating, Continue,
                Finish, Goto, vars, TypeInv, TypeOK
  <2>2. CASE ReceiveUpdate(q)
    BY <2>2 DEF ReceiveUpdate, Receive, TypeInv, TypeOK, database
  <2>3. CASE ReceiveTransition(q)
    BY <2>3 DEF ReceiveTransition, Receive, TypeInv, TypeOK, database
  <2>4. CASE ReceiveDelete(q)
    BY <2>4 DEF ReceiveDelete, Receive, TypeInv, TypeOK, Writes
  <2> QED
    BY <2>1, <2>2, <2>3, <2>4
<1> QED
  BY <1>1, <1>2

\* A request waits to write since before the step, or loaded in it.
LEMMA EntersWrite ==
  ASSUME TypeInv, [Next]_vars, NEW q \in Request, pc'[q] = "write"
  PROVE  \/ pc[q] = "write" /\ input'[q] = input[q] /\ snap'[q] = snap[q]
         \/ /\ pc[q] = "load" /\ input'[q] = input[q]
            /\ UNCHANGED row
            /\ row[input[q].rec].life = "live"
            /\ snap'[q] = row[input[q].rec]
BY DEF Next, Serve, ReceiveCreate, ReceiveUpdate, ReceiveTransition,
       ReceiveDelete, Receive, Load, Write, Refuse, Audit, AuditFails, Reload,
       StatementFails, WriteUnacknowledged, Restart, Terminating, Continue,
       Finish, Goto, vars, database, TypeInv, TypeOK

\* A row is left alone, goes to its next version, or is deleted.
LEMMA RowMoves ==
  ASSUME TypeInv, [Next]_vars, NEW r \in Record
  PROVE  \/ row'[r] = row[r]
         \/ row'[r].version = row[r].version + 1
         \/ row'[r].life = "deleted"
<1>1. CASE UNCHANGED row
  BY <1>1
<1>2. ASSUME NEW p \in Request, Commit(p)
      PROVE  \/ row'[r] = row[r]
             \/ row'[r].version = row[r].version + 1
             \/ row'[r].life = "deleted"
  <2>1. CASE \E w \in Row : /\ w.version = row[input[p].rec].version + 1
                            /\ row' = [row EXCEPT ![input[p].rec] = w]
    BY <1>2, <2>1, CommitShape DEF TypeInv, TypeOK, Row
  <2>2. CASE row' = [row EXCEPT ![input[p].rec].life = "deleted"]
    BY <1>2, <2>2, CommitShape DEF TypeInv, TypeOK, Row
  <2> QED
    BY <1>2, <2>1, <2>2, CommitShape
<1> QED
  BY <1>1, <1>2, StepShape

\* What a request that stands before its write asks for.
LEMMA WriteInput ==
  ASSUME TypeInv, NEW q \in Request, pc[q] \in {"load", "write"}
  PROVE  /\ input[q] \in Input /\ input[q].rec \in Record
         /\ Writes(q) => input[q].expected \in Nat
BY InputFields DEF TypeInv, StageInv, Stage, Writes

LEMMA SnapshotStep == TypeInv /\ SnapshotInv /\ [Next]_vars => SnapshotInv'
<1> SUFFICES ASSUME TypeInv, SnapshotInv, [Next]_vars, NEW q \in Request, pc'[q] = "write"
             PROVE  /\ snap'[q].version <= row'[input'[q].rec].version
                    /\ snap'[q].version = row'[input'[q].rec].version
                         /\ row'[input'[q].rec].life = "live"
                         => snap'[q] = row'[input'[q].rec]
  BY DEF SnapshotInv
<1>1. input'[q] = input[q] /\ input[q].rec \in Record
  BY EntersWrite, WriteInput
<1> DEFINE r == input[q].rec
<1>2. /\ row[r].version \in Nat /\ row'[r].version \in Nat
      /\ row[r].version <= row'[r].version
  BY <1>1, VersionGrows
<1>3. CASE pc[q] = "write" /\ snap'[q] = snap[q]
  <2>1. /\ snap[q].version <= row[r].version
        /\ snap[q].version = row[r].version /\ row[r].life = "live" => snap[q] = row[r]
    BY <1>3 DEF SnapshotInv
  <2>2. snap[q].version \in Nat
    BY DEF TypeInv, TypeOK, Row
  <2>3. ASSUME snap[q].version = row'[r].version, row'[r].life = "live"
        PROVE  snap[q] = row'[r]
    <3>1. row'[r] = row[r]
      BY <1>1, <1>2, <2>1, <2>2, <2>3, RowMoves
    <3> QED
      BY <2>1, <2>3, <3>1
  <2> QED
    BY <1>1, <1>2, <1>3, <2>1, <2>2, <2>3
<1>4. CASE pc[q] = "load" /\ UNCHANGED row /\ snap'[q] = row[r]
  BY <1>1, <1>2, <1>4
<1> QED
  BY <1>3, <1>4, EntersWrite

LEMMA SnapshotInvariant == Spec => [](TypeInv /\ SnapshotInv)
<1>1. Init => SnapshotInv
  BY DEF Init, SnapshotInv
<1> QED
  BY <1>1, TypeInit, TypeStep, SnapshotStep, PTL DEF Spec

LEMMA FreshnessStep ==
  ASSUME Lookahead = 0
  PROVE  TypeInv /\ VersionInv /\ FreshnessInv /\ [Next]_vars => FreshnessInv'
<1> SUFFICES ASSUME TypeInv, VersionInv, FreshnessInv, [Next]_vars,
                    NEW q \in Request, Writes(q)'
             PROVE  /\ pc'[q] = "load" => \/ input'[q].expected = 1
                                         \/ input'[q].expected <= row'[input'[q].rec].version
                    /\ pc'[q] = "write" => input'[q].expected <= snap'[q].version
  BY DEF FreshnessInv
<1>1. ASSUME pc'[q] = "load"
      PROVE  input'[q].expected = 1 \/ input'[q].expected <= row'[input'[q].rec].version
  <2>1. CASE pc[q] = "load" /\ input'[q] = input[q]
    <3>1. input[q].rec \in Record /\ Writes(q) /\ input[q].expected \in Nat
      BY <2>1, WriteInput DEF Writes
    <3> QED
      BY <2>1, <3>1, VersionGrows DEF FreshnessInv
  <2>2. CASE /\ UNCHANGED row /\ input'[q].rec \in Record
             /\ input'[q].expected \in ExpectedVersions(input'[q].rec)
    BY <2>2, VersionGrows DEF ExpectedVersions
  <2> QED
    BY <1>1, <2>1, <2>2, EntersLoad
<1>2. ASSUME pc'[q] = "write"
      PROVE  input'[q].expected <= snap'[q].version
  <2>1. /\ input'[q] = input[q] /\ Writes(q)
        /\ input[q].rec \in Record /\ input[q].expected \in Nat
    BY <1>2, EntersWrite, WriteInput DEF Writes
  <2>2. CASE pc[q] = "write" /\ snap'[q] = snap[q]
    BY <2>1, <2>2 DEF FreshnessInv
  <2>3. CASE /\ pc[q] = "load"
             /\ row[input[q].rec].life = "live"
             /\ snap'[q] = row[input[q].rec]
    <3>1. input[q].expected = 1 \/ input[q].expected <= row[input[q].rec].version
      BY <2>1, <2>3 DEF FreshnessInv
    <3>2. row[input[q].rec].version >= 1 /\ row[input[q].rec].version \in Nat
      BY <2>1, <2>3, VersionGrows DEF VersionInv
    <3> QED
      BY <2>1, <2>3, <3>1, <3>2
  <2> QED
    BY <1>2, <2>2, <2>3, EntersWrite
<1> QED
  BY <1>1, <1>2

LEMMA FreshnessInvariant ==
  ASSUME Lookahead = 0
  PROVE  Spec => [](TypeInv /\ VersionInv /\ SnapshotInv /\ FreshnessInv)
<1>1. Init => VersionInv /\ FreshnessInv
  BY VersionInit DEF Init, FreshnessInv
<1>2. TypeInv /\ VersionInv /\ FreshnessInv /\ [Next]_vars => (VersionInv /\ FreshnessInv)'
  BY VersionStep, FreshnessStep
<1> QED
  BY <1>1, <1>2, SnapshotInvariant, PTL DEF Spec

\* A disciplined client is not ahead when its request commits.
LEMMA NotAhead ==
  ASSUME TypeInv, FreshnessInv, NEW q \in Request, pc[q] = "write"
  PROVE  ~Ahead(q)
<1>1. snap[q].version \in Nat
  BY DEF TypeInv, TypeOK, Row
<1> QED
  BY <1>1, WriteInput DEF FreshnessInv, Ahead

LEMMA CommitNotAhead ==
  ASSUME TypeInv, FreshnessInv, NEW q \in Request, Commit(q)
  PROVE  ~Ahead(q)
<1>1. pc[q] = "insert" => ~Writes(q)
  BY DEF TypeInv, StageInv, Stage, Writes
<1>2. pc[q] \in {"insert", "write"}
  BY DEF Commit, CommitInsert, CommitUpdate, CommitDelete
<1> QED
  BY <1>1, <1>2, NotAhead DEF Ahead

\* A compare-and-swap that will match, for a client that is not ahead, finds
\* the row that was read.
LEMMA MatchIsCurrent ==
  ASSUME TypeInv, SnapshotInv, NEW q \in Request, pc[q] = "write", Writes(q), ~Ahead(q),
         row[input[q].rec].life = "live",
         row[input[q].rec].version = input[q].expected
  PROVE  snap[q] = row[input[q].rec]
<1>1. input[q].expected \in Nat /\ snap[q].version \in Nat
  BY WriteInput DEF TypeInv, TypeOK, Row
<1> QED
  BY <1>1 DEF SnapshotInv, Ahead

LEMMA FreshIsCurrent == TypeInv /\ SnapshotInv /\ FreshnessInv => SnapshotCurrent
BY NotAhead, MatchIsCurrent DEF SnapshotCurrent, Writes

\* With clients that send versions they were answered, a compare-and-swap that
\* will succeed overwrites the very row the checks were made on.
THEOREM SnapshotCurrentInvariant ==
  ASSUME Lookahead = 0
  PROVE  Spec => []SnapshotCurrent
BY FreshnessInvariant, FreshIsCurrent, PTL

\* An update or transition of a client that is not ahead commits on the row it
\* read.
LEMMA CommitCurrent ==
  ASSUME TypeInv, SnapshotInv, NEW q \in Request, Commit(q), Writes(q), ~Ahead(q)
  PROVE  /\ input[q] \in Input /\ input[q].rec \in Record
         /\ snap[q] = row[input[q].rec] /\ snap[q].life = "live"
         /\ snap[q].version = input[q].expected
         /\ Refusal(input[q], snap[q]) = None
         /\ row' = [row EXCEPT ![input[q].rec] = Changed(input[q], snap[q])]
         /\ revisions' = revisions \cup
               RevisionOf(input[q].rec, Changed(input[q], snap[q]), q)
<1>1. CommitUpdate(q)
  BY CommitExpected
<1>2. snap[q] = row[input[q].rec]
  BY <1>1, MatchIsCurrent DEF CommitUpdate, Matches
<1> QED
  BY <1>1, <1>2, CommitShape DEF CommitUpdate, Matches, TypeInv, StageInv, Stage

\* The status of a live row changes only by a transition, and its fields only
\* by an update.
LEMMA LiveChange ==
  ASSUME TypeInv, SnapshotInv, NEW q \in Request, Commit(q), ~Ahead(q), NEW r \in Record,
         row[r].life = "live",
         row'[r].status # row[r].status \/ row'[r].data # row[r].data
  PROVE  /\ input[q].rec = r
         /\ \/ /\ input[q].op = "transition"
               /\ row'[r].status = input[q].target
               /\ row'[r].data = row[r].data
            \/ input[q].op = "update" /\ row'[r].status = row[r].status
<1>1. input[q] \in Input /\ input[q].rec \in Record
  BY CommitShape
<1>2. CASE CommitInsert(q)
  BY <1>1, <1>2 DEF CommitInsert, TypeInv, TypeOK, Absent
<1>3. CASE CommitUpdate(q)
  <2>1. /\ snap[q] = row[input[q].rec] /\ snap[q] \in Row
        /\ row' = [row EXCEPT ![input[q].rec] = Changed(input[q], snap[q])]
    BY <1>3, CommitCurrent DEF CommitUpdate, Writes, TypeInv, TypeOK
  <2>2. input[q].rec = r /\ row'[r] = Changed(input[q], row[r]) /\ row[r] \in Row
    BY <1>1, <2>1 DEF TypeInv, TypeOK
  <2>3. CASE input[q].op = "transition"
    BY <2>2, <2>3 DEF Changed, Row
  <2>4. CASE input[q].op = "update"
    BY <2>2, <2>4 DEF Changed, Row
  <2> QED
    BY <1>3, <2>2, <2>3, <2>4 DEF CommitUpdate
<1>4. CASE CommitDelete(q)
  BY <1>1, <1>4 DEF CommitDelete, TypeInv, TypeOK, Row
<1> QED
  BY <1>2, <1>3, <1>4 DEF Commit

\* The review gate: with disciplined clients, a live record enters or leaves a
\* gated status only by the write of a reviewer or administrator.
THEOREM GateHeldTheorem ==
  ASSUME Lookahead = 0
  PROVE  Spec => GateHeld
<1> DEFINE A == \A r \in Record :
       /\ row[r].life = "live"
       /\ row'[r].status # row[r].status
       /\ {row[r].status, row'[r].status} \cap Service.gated # {}
       => \E q \in Request : /\ ~committed[q] /\ committed'[q]
                             /\ input[q].rec = r
                             /\ canReview(input[q].role)
<1>1. TypeInv /\ SnapshotInv /\ FreshnessInv /\ [Next]_vars => [A]_vars
  <2> SUFFICES ASSUME TypeInv, SnapshotInv, FreshnessInv, [Next]_vars, NEW r \in Record,
                      row[r].life = "live", row'[r].status # row[r].status,
                      {row[r].status, row'[r].status} \cap Service.gated # {}
               PROVE  \E q \in Request : /\ ~committed[q] /\ committed'[q]
                                         /\ input[q].rec = r
                                         /\ canReview(input[q].role)
    OBVIOUS
  <2>1. PICK q \in Request : /\ Commit(q) /\ ~Ahead(q)
                             /\ committed' = [committed EXCEPT ![q] = TRUE]
    BY StepShape, CommitNotAhead
  <2>2. /\ input[q].rec = r /\ input[q].op = "transition"
        /\ row'[r].status = input[q].target
    BY <2>1, LiveChange
  <2>3. snap[q] = row[r] /\ Refusal(input[q], snap[q]) = None
    BY <2>1, <2>2, CommitCurrent DEF Writes
  <2>4. NeedsReview(input[q], snap[q])
    BY <2>2, <2>3 DEF NeedsReview
  <2>5. canReview(input[q].role)
    BY <2>2, <2>3, <2>4 DEF Refusal, Locked, Forbidden, None
  <2>6. ~committed[q] /\ committed'[q]
    BY <2>1 DEF Commit, CommitInsert, CommitUpdate, CommitDelete, TypeInv, TypeOK,
                StageInv, Stage
  <2> QED
    BY <2>2, <2>5, <2>6
<1> QED
  BY <1>1, FreshnessInvariant, PTL DEF Spec, GateHeld

\* The freeze: with disciplined clients, the fields of a record in a frozen
\* status do not change.
THEOREM FrozenKeptTheorem ==
  ASSUME Lookahead = 0
  PROVE  Spec => FrozenKept
<1> DEFINE A == \A r \in Record :
       row[r].life = "live" /\ row[r].status \in Service.frozen
         => row'[r].data = row[r].data
<1>1. TypeInv /\ SnapshotInv /\ FreshnessInv /\ [Next]_vars => [A]_vars
  <2> SUFFICES ASSUME TypeInv, SnapshotInv, FreshnessInv, [Next]_vars, NEW r \in Record,
                      row[r].life = "live", row[r].status \in Service.frozen,
                      row'[r].data # row[r].data
               PROVE  FALSE
    OBVIOUS
  <2>1. PICK q \in Request : Commit(q) /\ ~Ahead(q)
    BY StepShape, CommitNotAhead
  <2>2. input[q].rec = r /\ input[q].op = "update"
    BY <2>1, LiveChange
  <2>3. snap[q] = row[r] /\ Refusal(input[q], snap[q]) = None
    BY <2>1, <2>2, CommitCurrent DEF Writes
  <2> QED
    BY <2>2, <2>3 DEF Refusal, Locked, None
<1> QED
  BY <1>1, FreshnessInvariant, PTL DEF Spec, FrozenKept

-----------------------------------------------------------------------------
(* Refinement.                                                             *)

\* A commit is a step of the atomic record, unless its client is ahead.
LEMMA CommitIsAtomic ==
  ASSUME TypeInv, SnapshotInv, NEW q \in Request, Commit(q), ~Ahead(q)
  PROVE  Atomic!Next
<1>1. input[q] \in Input /\ input[q].rec \in Record
  BY CommitShape
<1>2. CASE CommitInsert(q)
  <2>1. input[q].data \in Payload
    BY <1>1, <1>2, InputFields DEF CommitInsert, TypeInv, StageInv, Stage, Fields
  <2>2. Atomic!Create(input[q].rec, input[q].data, q)
    BY <1>2 DEF CommitInsert, Atomic!Create, Atomic!Put, Absent, Fresh, RevisionOf, None,
                Atomic!Absent, Atomic!Fresh, Atomic!RevisionOf, Atomic!None
  <2> QED
    BY <1>1, <2>1, <2>2 DEF Atomic!Next
<1>3. CASE CommitUpdate(q)
  <2>1. /\ snap[q] = row[input[q].rec] /\ snap[q].life = "live" /\ snap[q] \in Row
        /\ snap[q].version = input[q].expected
        /\ Refusal(input[q], snap[q]) = None
        /\ row' = [row EXCEPT ![input[q].rec] = Changed(input[q], snap[q])]
        /\ revisions' = revisions \cup
               RevisionOf(input[q].rec, Changed(input[q], snap[q]), q)
    BY <1>3, CommitCurrent DEF CommitUpdate, Writes, TypeInv, TypeOK
  <2>2. CASE input[q].op = "update"
    <3>1. input[q].data \in Payload /\ snap[q].status \notin Service.frozen
      BY <1>1, <2>1, <2>2, InputFields DEF Refusal, Locked, Forbidden, Invalid, Fields, None
    <3>2. Changed(input[q], snap[q])
            = [row[input[q].rec] EXCEPT !.version = @ + 1, !.data = input[q].data]
      BY <2>1, <2>2 DEF Changed
    <3>3. Atomic!Update(input[q].rec, input[q].data, q)
      BY <2>1, <3>1, <3>2 DEF Atomic!Update, Atomic!Put, RevisionOf, Atomic!RevisionOf
    <3> QED
      BY <1>1, <3>1, <3>3 DEF Atomic!Next
  <2>3. CASE input[q].op = "transition"
    <3>1. /\ input[q].target \in Service.statuses
          /\ CanTransition(Service.graph, snap[q].status, input[q].target)
      BY <2>1, <2>3, TargetIsStatus
    <3>2. Changed(input[q], snap[q])
            = [row[input[q].rec] EXCEPT !.version = @ + 1, !.status = input[q].target]
      BY <2>1, <2>3 DEF Changed
    <3>3. Atomic!Transition(input[q].rec, input[q].target, q)
      BY <2>1, <3>1, <3>2 DEF Atomic!Transition, Atomic!Put, RevisionOf,
         Atomic!RevisionOf, CanTransition, Atomic!CanTransition
    <3> QED
      BY <1>1, <3>1, <3>3 DEF Atomic!Next
  <2> QED
    BY <1>3, <2>2, <2>3 DEF CommitUpdate
<1>4. CASE CommitDelete(q)
  BY <1>1, <1>4 DEF CommitDelete, Atomic!Delete, Atomic!Next
<1> QED
  BY <1>2, <1>3, <1>4 DEF Commit

\* Refinement: with disciplined clients, whatever the interleaving of the
\* requests and whatever faults occur, rows and revisions change as those of an
\* atomic record.
THEOREM RefinesAtomicRecord ==
  ASSUME Lookahead = 0
  PROVE  Spec => Implements
<1>1. Init => Atomic!Init
  BY DEF Init, Atomic!Init, SeededRows, Atomic!SeededRows, SeedRevisions,
     Atomic!SeedRevisions, RevisionOf, Atomic!RevisionOf, Absent, Atomic!Absent,
     Fresh, Atomic!Fresh, None, Atomic!None
<1>2. TypeInv /\ SnapshotInv /\ FreshnessInv /\ [Next]_vars => [Atomic!Next]_(Atomic!vars)
  BY CommitIsAtomic, CommitNotAhead, StepShape DEF Atomic!vars
<1> QED
  BY <1>1, <1>2, FreshnessInvariant, PTL DEF Spec, Implements, Atomic!Spec

-----------------------------------------------------------------------------
(* What any client leaves true.                                            *)

\* The checks of the services are the rules.
LEMMA NotRefused ==
  ASSUME NEW in, NEW s, Refusal(in, s) = None, in.role \in Routes[in.op]
  PROVE  Allowed(in, s)
BY DEF Refusal, Locked, Forbidden, Invalid, NeedsReview, Allowed, None

\* A step in which a request takes effect is its commit.
LEMMA EffectIsCommit ==
  ASSUME TypeInv, [Next]_vars, NEW q \in Request, TakesEffect(q)
  PROVE  Commit(q)
BY StepShape DEF TakesEffect, TypeInv, TypeOK

\* What a commit finds of its own request: the route let it through, and its
\* checks refused nothing of what it read.
LEMMA CommitChecked ==
  ASSUME TypeInv, NEW q \in Request, Commit(q)
  PROVE  /\ input[q].role \in Routes[input[q].op]
         /\ pc[q] = "write" => Refusal(input[q], snap[q]) = None
BY DEF Commit, CommitInsert, CommitUpdate, CommitDelete, TypeInv, StageInv, Stage

LEMMA CommitAllowed ==
  ASSUME TypeInv, SnapshotInv, NEW q \in Request, Commit(q)
  PROVE  \/ Allowed(input[q], row[input[q].rec])
         \/ /\ input[q].op = "delete" \/ Ahead(q)
            /\ snap[q].version < row[input[q].rec].version
<1>1. snap[q].version \in Nat /\ row[input[q].rec].version \in Nat
  BY CommitShape DEF TypeInv, TypeOK, Row
<1>2. CASE CommitInsert(q)
  <2>1. input[q].op = "create"
    BY <1>2 DEF CommitInsert, TypeInv, StageInv, Stage
  <2> QED
    BY <2>1, CommitChecked DEF Allowed
<1>3. CASE CommitUpdate(q)
  <2>1. CASE Ahead(q)
    BY <1>3, <2>1 DEF CommitUpdate, Matches, Ahead
  <2>2. CASE ~Ahead(q)
    <3>1. snap[q] = row[input[q].rec]
      BY <1>3, <2>2, CommitCurrent DEF CommitUpdate, Writes
    <3> QED
      BY <1>3, <3>1, CommitChecked, NotRefused DEF CommitUpdate
  <2> QED
    BY <2>1, <2>2
<1>4. CASE CommitDelete(q)
  <2>1. CASE snap[q] = row[input[q].rec]
    BY <1>4, <2>1, CommitChecked, NotRefused DEF CommitDelete
  <2>2. CASE snap[q] # row[input[q].rec]
    BY <1>1, <1>4, <2>2 DEF CommitDelete, SnapshotInv
  <2> QED
    BY <2>1, <2>2
<1> QED
  BY <1>2, <1>3, <1>4 DEF Commit

\* The rules hold of every row that is changed, at the instant of the change,
\* whatever versions the clients send: only a deletion, or a write of a client
\* that ran ahead, can find a row that has moved on since it was checked.
THEOREM CheckedAtWriteTheorem == Spec => CheckedAtWrite
<1> DEFINE A == \A q \in Request :
       TakesEffect(q) =>
         \/ Allowed(input[q], row[input[q].rec])
         \/ /\ input[q].op = "delete" \/ Ahead(q)
            /\ snap[q].version < row[input[q].rec].version
<1>1. TypeInv /\ SnapshotInv /\ [Next]_vars => [A]_vars
  BY EffectIsCommit, CommitAllowed
<1> QED
  BY <1>1, SnapshotInvariant, PTL DEF Spec, CheckedAtWrite

\* Refinement for any client: each step is one of the atomic record, or leaves
\* it alone, or is the write of a client that ran ahead of what was read for it.
THEOREM AtomicUnlessAheadTheorem == Spec => AtomicUnlessAhead
<1> DEFINE A == \/ Atomic!Next \/ UNCHANGED database
                \/ \E q \in Request : TakesEffect(q) /\ Ahead(q)
<1>1. TypeInv /\ SnapshotInv /\ [Next]_vars => [A]_vars
  <2> SUFFICES ASSUME TypeInv, SnapshotInv, [Next]_vars, ~UNCHANGED <<row, revisions>>
               PROVE  A
    BY DEF database
  <2>1. PICK q \in Request : Commit(q) /\ committed' = [committed EXCEPT ![q] = TRUE]
    BY StepShape
  <2>2. TakesEffect(q)
    BY <2>1 DEF TakesEffect, Commit, CommitInsert, CommitUpdate, CommitDelete, TypeInv,
                TypeOK, StageInv, Stage
  <2> QED
    BY <2>1, <2>2, CommitIsAtomic
<1> QED
  BY <1>1, SnapshotInvariant, PTL DEF Spec, AtomicUnlessAhead

\* A step of the atomic record is one write on each row it changes.
LEMMA AtomicIsWritten ==
  ASSUME TypeInv, Atomic!Next, NEW r \in Record, row[r].life # "absent", row'[r] # row[r]
  PROVE  Written(Service, row[r], row'[r])
<1>1. row \in [Record -> Row] /\ row[r] \in Row
  BY DEF TypeInv, TypeOK
<1>2. ASSUME NEW x \in Record, NEW w, row' = [row EXCEPT ![x] = w]
      PROVE  x = r /\ row'[r] = w
  BY <1>1, <1>2
<1>3. ASSUME NEW x \in Record, NEW d, NEW by, Atomic!Create(x, d, by) PROVE FALSE
  BY <1>2, <1>3 DEF Atomic!Create, Atomic!Put, Atomic!Absent
<1>4. ASSUME NEW x \in Record, NEW d, NEW by, Atomic!Update(x, d, by)
      PROVE  Written(Service, row[r], row'[r])
  <2>1. /\ row[x].life = "live"
        /\ row' = [row EXCEPT ![x] = [row[x] EXCEPT !.version = @ + 1, !.data = d]]
    BY <1>4 DEF Atomic!Update, Atomic!Put
  <2>2. x = r /\ row'[r] = [row[r] EXCEPT !.version = @ + 1, !.data = d]
    BY <1>2, <2>1
  <2> QED
    BY <1>1, <2>1, <2>2 DEF Written, Row
<1>5. ASSUME NEW x \in Record, NEW t, NEW by, Atomic!Transition(x, t, by)
      PROVE  Written(Service, row[r], row'[r])
  <2>1. /\ row[x].life = "live" /\ t \in Service.graph[row[x].status]
        /\ row' = [row EXCEPT ![x] = [row[x] EXCEPT !.version = @ + 1, !.status = t]]
    BY <1>5 DEF Atomic!Transition, Atomic!Put, Atomic!CanTransition
  <2>2. x = r /\ row'[r] = [row[r] EXCEPT !.version = @ + 1, !.status = t]
    BY <1>2, <2>1
  <2> QED
    BY <1>1, <2>1, <2>2 DEF Written, Row
<1>6. ASSUME NEW x \in Record, Atomic!Delete(x)
      PROVE  Written(Service, row[r], row'[r])
  <2>1. /\ row[x].life = "live" /\ row' = [row EXCEPT ![x] = [row[x] EXCEPT !.life = "deleted"]]
    BY <1>1, <1>6 DEF Atomic!Delete
  <2>2. x = r /\ row'[r] = [row[r] EXCEPT !.life = "deleted"]
    BY <1>2, <2>1
  <2> QED
    BY <1>1, <2>1, <2>2 DEF Written, Row
<1> QED
  BY <1>3, <1>4, <1>5, <1>6 DEF Atomic!Next

\* The other users of a page's record, as Console has them: whatever they send,
\* but for a version ahead, they change it by one write on what it is.
THEOREM WrittenUnlessAheadTheorem == Spec => WrittenUnlessAhead
<1> DEFINE Environment ==
       \A r \in Record :
         row[r].life # "absent" /\ row'[r] # row[r] =>
           \/ Written(Service, row[r], row'[r])
           \/ \E q \in Request : TakesEffect(q) /\ Ahead(q)
<1>1. TypeInv
        /\ [\/ Atomic!Next \/ UNCHANGED database
            \/ \E q \in Request : TakesEffect(q) /\ Ahead(q)]_vars
      => [Environment]_vars
  BY AtomicIsWritten DEF database
<1> QED
  BY <1>1, SnapshotInvariant, AtomicUnlessAheadTheorem, PTL
     DEF AtomicUnlessAhead, WrittenUnlessAhead

-----------------------------------------------------------------------------
(* The audit log.                                                          *)

\* A request waits to audit since before the step, or wrote in it.
LEMMA EntersAudit ==
  ASSUME TypeInv, [Next]_vars, NEW q \in Request, pc'[q] = "audit"
  PROVE  /\ input'[q] = input[q] /\ snap'[q] = snap[q]
         /\ pc[q] = "audit" \/ Commit(q)
BY DEF Next, Serve, ReceiveCreate, ReceiveUpdate, ReceiveTransition,
       ReceiveDelete, Receive, Load, Write, Refuse, Audit, AuditFails, Reload,
       StatementFails, WriteUnacknowledged, Restart, Terminating, Continue,
       Finish, Goto, vars, database, TypeInv, TypeOK

LEMMA RevisionsGrow ==
  ASSUME TypeInv, [Next]_vars PROVE revisions \subseteq revisions'
BY StepShape, CommitShape

LEMMA RecordedStep ==
  TypeInv /\ VersionInv /\ SnapshotInv /\ FreshnessInv /\ RevisionChain /\ RecordedInv /\ [Next]_vars
    => RecordedInv'
<1> SUFFICES ASSUME TypeInv, VersionInv, SnapshotInv, FreshnessInv, RevisionChain,
                    RecordedInv, [Next]_vars, Service.versioned, NEW q \in Request,
                    pc'[q] = "audit", input'[q].op = "transition"
             PROVE  TransitionRecorded(q)'
  BY DEF RecordedInv
<1>1. input'[q] = input[q] /\ snap'[q] = snap[q]
  BY EntersAudit
<1>2. CASE pc[q] = "audit"
  <2>1. TransitionRecorded(q)
    BY <1>1, <1>2 DEF RecordedInv
  <2> QED
    BY <1>1, <2>1, RevisionsGrow DEF TransitionRecorded
<1>3. CASE Commit(q)
  <2>1. Writes(q)
    BY <1>1 DEF Writes
  <2>2. /\ input[q] \in Input /\ input[q].rec \in Record /\ snap[q] \in Row
        /\ snap[q] = row[input[q].rec] /\ snap[q].life = "live"
        /\ snap[q].version = input[q].expected
        /\ revisions' = revisions \cup
               RevisionOf(input[q].rec, Changed(input[q], snap[q]), q)
    BY <1>3, <2>1, CommitCurrent, CommitNotAhead DEF TypeInv, TypeOK
  <2>3. row[input[q].rec].version >= 1 /\ row[input[q].rec].version \in Nat
    BY <2>2 DEF VersionInv, TypeInv, TypeOK, Row
  <2>4. PICK v \in revisions : /\ v.rec = input[q].rec
                               /\ v.version = row[input[q].rec].version
    BY <2>2, <2>3 DEF RevisionChain
  <2>5. v.status = snap[q].status
    BY <2>2, <2>4 DEF RevisionChain
  <2>6. PICK w \in revisions' : /\ w.rec = input[q].rec /\ w.by = q
                                /\ w.version = input[q].expected + 1
                                /\ w.status = input[q].target
    <3>1. /\ Changed(input[q], snap[q]).version = input[q].expected + 1
          /\ Changed(input[q], snap[q]).status = input[q].target
      BY <1>1, <2>2 DEF Changed, Row
    <3> DEFINE w == Changed(input[q], snap[q])
               new == [rec |-> input[q].rec, version |-> w.version, status |-> w.status,
                       data |-> Copied(w.data), by |-> q]
    <3>2. new \in revisions'
      BY <2>2 DEF RevisionOf
    <3>3. /\ new.rec = input[q].rec /\ new.by = q
          /\ new.version = input[q].expected + 1 /\ new.status = input[q].target
      BY <3>1
    <3> QED
      BY <3>2, <3>3
  <2> QED
    BY <1>1, <2>2, <2>4, <2>5, <2>6, RevisionsGrow DEF TransitionRecorded
<1> QED
  BY <1>2, <1>3, EntersAudit

LEMMA AuditTruthStep ==
  TypeInv /\ RecordedInv /\ AuditTruth /\ [Next]_vars => AuditTruth'
<1> SUFFICES ASSUME TypeInv, RecordedInv, AuditTruth, [Next]_vars, Service.versioned,
                    NEW a \in audits', a.action = "transition"
             PROVE  \E v, w \in revisions' :
                      /\ v.rec = a.rec /\ w.rec = a.rec
                      /\ w.version = v.version + 1
                      /\ w.by = a.by
                      /\ v.status = a.before /\ w.status = a.after
  BY DEF AuditTruth
<1>1. CASE a \in audits
  <2>1. \E v, w \in revisions :
          /\ v.rec = a.rec /\ w.rec = a.rec
          /\ w.version = v.version + 1
          /\ w.by = a.by
          /\ v.status = a.before /\ w.status = a.after
    BY <1>1 DEF AuditTruth
  <2> QED
    BY <2>1, RevisionsGrow
<1>2. CASE a \notin audits
  <2>1. PICK q \in Request : pc[q] = "audit" /\ a = AuditEntry(q)
    BY <1>2 DEF Next, Serve, ReceiveCreate, ReceiveUpdate, ReceiveTransition,
                ReceiveDelete, Receive, Load, Write, Refuse, Audit, AuditFails, Reload,
                StatementFails, WriteUnacknowledged, Restart, Terminating, vars, database
  <2>2. input[q].op = "transition"
    BY <2>1 DEF AuditEntry
  <2>3. /\ a.rec = input[q].rec /\ a.by = q
        /\ a.before = snap[q].status /\ a.after = input[q].target
    BY <2>1, <2>2 DEF AuditEntry, StatusAfter
  <2>4. TransitionRecorded(q)
    BY <2>1, <2>2 DEF RecordedInv
  <2> QED
    BY <2>3, <2>4, RevisionsGrow DEF TransitionRecorded
<1> QED
  BY <1>1, <1>2

\* The audit entry of a transition names the request that wrote the revision and
\* the statuses on both sides of it.
THEOREM AuditTruthInvariant ==
  ASSUME Lookahead = 0
  PROVE  Spec => []AuditTruth
<1>1. Init => RecordedInv /\ AuditTruth
  BY DEF Init, RecordedInv, AuditTruth
<1> QED
  BY <1>1, RecordedStep, AuditTruthStep, FreshnessInvariant, RevisionChainInvariant,
     PTL DEF Spec

=============================================================================
