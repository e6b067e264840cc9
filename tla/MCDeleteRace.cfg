\* The refusal of Delete against what Delete does: violated.
SPECIFICATION Spec
CONSTANTS
  Request = {q1, q2}
  Record = {R1}
  Payload <- Finishes
  Copied <- FinishOf
  Role <- FewRoles
  Service <- ReleaseDecisionService
  Lookahead = 0
  Faults = FALSE
SYMMETRY Symmetry
PROPERTIES
  DeleteOnlyDeletable
