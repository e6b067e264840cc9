\* Every status change audited, with faults: violated.
SPECIFICATION Spec
CONSTANTS
  Request = {q1}
  Record = {R1}
  Payload <- Finishes
  Copied <- FinishOf
  Role <- FewRoles
  Service <- PrintRunService
  Lookahead = 0
  Faults = TRUE
SYMMETRY Symmetry
INVARIANTS
  StatusChangeAudited
