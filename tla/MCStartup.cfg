\* Two instances on one database, users and two aggregates, with outages.
SPECIFICATION FairSpec
CONSTANTS
  Instance = {i1, i2}
  Tables = 3
  Seeds = {s1, s2}
  Extra = {e1}
  MaxAttempts = 2
  MaxKills = 2
  RedisEnabled = TRUE
INVARIANTS
  TypeOK
  ServingSeeded
  IInv
PROPERTIES
  Implements
  ReadyUnlessEmptied
