SPECIFICATION Spec
CONSTANTS
  Request = {q1, q2}
  MaxId = 3
  Seeded = 2
  PageSize = 1
  Limit = 1
  Window = 1
  MaxTime = 2
SYMMETRY Symmetry
INVARIANTS
  TypeOK
  RevisionsReach
  WalkCovers
  SummaryNested
PROPERTIES
  HistoryOrder
