\* Two requests of any kind, by any role, on one release decision, with faults.
SPECIFICATION Spec
CONSTANTS
  Request = {q1, q2}
  Record = {RD1}
  Payload <- Drafts
  Copied <- FinishOf
  Role <- Roles
  Service <- ReleaseDecisionService
  Lookahead = 0
  Faults = TRUE
SYMMETRY Symmetry
INVARIANTS
  TypeOK
  SnapshotCurrent
  IInv
  AuditTruth
  AckedAudited
  ReplyHonest
PROPERTIES
  GateHeld
  CheckedAtWrite
  Implements
