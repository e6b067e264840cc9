\* A frozen decision edited by a client one version ahead: violated.
SPECIFICATION Spec
CONSTANTS
  Request = {q1, q2}
  Record = {R1}
  Payload <- Finishes
  Copied <- FinishOf
  Role <- FewRoles
  Service <- ReleaseDecisionService
  Lookahead = 1
  Faults = FALSE
SYMMETRY Symmetry
PROPERTIES
  FrozenKept
