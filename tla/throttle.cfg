SPECIFICATION Spec
CONSTANTS
  k1 = k1
  k2 = k2
  Worker = {w1, w2}
  Call = {a1, a2}
  Key = {k1, k2}
  Login = {k1}
  Limit <- Limits
  Window <- Windows
  MaxTracked = 1
  Redis = Redis
  MaxCalls = 3
  MaxClock = 1
SYMMETRY Symmetry
INVARIANTS
  ThrottleTypeOK
  LimitPerStore
  RefusalsAreEarned
  MemoryBounded
  GuessesBounded
CHECK_DEADLOCK FALSE
