\* Three requests of administrators on one print run while no statement fails,
\* from clients that may run one version ahead of the answers they have seen.
SPECIFICATION Spec
CONSTANTS
  Request = {q1, q2, q3}
  Record = {PR1}
  Payload <- Finishes
  Copied <- FinishOf
  Role = {"admin"}
  Service <- PrintRunService
  Lookahead = 1
  Faults = FALSE
SYMMETRY Symmetry
INVARIANTS
  RevisionChain
  OneWinner
  AuditComplete
  ReplyNotOlder
PROPERTIES
  AtomicUnlessAhead
