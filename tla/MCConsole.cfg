\* Three chains of the pages of all four aggregates, beside other users.
SPECIFICATION Spec
CONSTANTS
  Call = {c1, c2, c3}
  Kind <- Kinds
  Role = {"viewer", "operator", "reviewer"}
  MaxVersion = 3
SYMMETRY Symmetry
INVARIANTS
  TypeOK
  LoadingEnds
  DialogOfRole
  OfferAccepted
PROPERTIES
  ConfirmedTruth
