---------------------------- MODULE AtomicRecord ----------------------------
(***************************************************************************)
(* What a record service promises its clients: every accepted write takes  *)
(* effect at one instant, on the row as it is at that instant, and a       *)
(* versioned aggregate gains exactly one revision with it.  There is no    *)
(* request, snapshot or expected version here; RecordService, whose        *)
(* requests read first and write later, is shown to implement this.        *)
(*                                                                         *)
(* Delete is deliberately allowed in every status.  The services refuse it *)
(* outside of Service.deletable, but they decide on a row read earlier, and*)
(* the DELETE statement repeats neither the status nor the version, so     *)
(* this is all they can promise (see DeleteOnlyDeletable in RecordService).*)
(***************************************************************************)
EXTENDS Records

VARIABLES row, revisions

vars == <<row, revisions>>

Init ==
  /\ row \in [Record -> SeededRows]
  /\ revisions = SeedRevisions(row)

Put(r, w, by) ==
  /\ row' = [row EXCEPT ![r] = w]
  /\ revisions' = revisions \cup RevisionOf(r, w, by)

Create(r, d, by) ==
  /\ row[r] = Absent
  /\ Put(r, Fresh(Service.initial, d), by)

Update(r, d, by) ==
  /\ row[r].life = "live"
  /\ row[r].status \notin Service.frozen
  /\ Put(r, [row[r] EXCEPT !.version = @ + 1, !.data = d], by)

Transition(r, t, by) ==
  /\ row[r].life = "live"
  /\ CanTransition(Service.graph, row[r].status, t)
  /\ Put(r, [row[r] EXCEPT !.version = @ + 1, !.status = t], by)

Delete(r) ==
  /\ row[r].life = "live"
  /\ row' = [row EXCEPT ![r].life = "deleted"]
  /\ UNCHANGED revisions

Next ==
  \E r \in Record :
     \/ \E d \in Payload, by \in Request : Create(r, d, by)
     \/ \E d \in Payload, by \in Request : Update(r, d, by)
     \/ \E t \in Service.statuses, by \in Request : Transition(r, t, by)
     \/ Delete(r)

Spec == Init /\ [][Next]_vars
=============================================================================
