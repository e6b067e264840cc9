\* One instance whose clients may delete every row of a table: violated.
SPECIFICATION FairSpec
CONSTANTS
  Instance = {i1}
  Tables = 2
  Seeds = {s1, s2}
  Extra = {}
  MaxAttempts = 2
  MaxKills = 1
  RedisEnabled = FALSE
PROPERTIES
  Ready
