\* Three requests of three keys on two backends that share Redis and one without
\* it, each of whose maps is to track two keys.
SPECIFICATION Spec
CONSTANTS
  Request = {q1, q2, q3}
  Key = {k1, k2, k3}
  Instance = {i1, i2, i3}
  Limit = 1
  Cap = 2
  MaxDelay = 1
  MaxWindow = 3
  RedisEnabled = {i1, i2}
SYMMETRY Symmetry
INVARIANTS
  TypeOK
  SharedLimit
  LocalLimit
  RefusedOnlyOver
  MapBounded
PROPERTIES
  Implements
