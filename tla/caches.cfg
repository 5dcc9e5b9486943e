\* Two loaders and two sources that change.
SPECIFICATION Spec
CONSTANTS
  l1 = l1  l2 = l2  k1 = k1  k2 = k2
  Keys = {k1, k2}
  Loaders = {l1, l2}
  TTL = 2
  Capacity = 1
  CallTime = 1
  MaxTime = 4
  MaxVersions = 2
SYMMETRY Same
INVARIANTS
  CachesInv
  FreshEnough
  ErrorsAreNotSticky
  Bounded
CHECK_DEADLOCK FALSE
