\* The table after a transition that was confirmed on another page.
SPECIFICATION Spec
CONSTANTS
  Call = {c1, c2, c3, c4}
  Kind = {"releaseDecision"}
  Role = {"operator"}
  MaxVersion = 2
SYMMETRY Symmetry
INVARIANTS
  ShowsQuery
