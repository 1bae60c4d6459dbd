SPECIFICATION Spec
CONSTANTS
  Req = {r1, r2}
  User = {u1}
  Client = {a1}
  Scope = {s1}
  Resource = {w1, w2}
  Code = {c1}
  Token = {t1, t2, t3}
  AutoCommit = FALSE
  CodeTTL = 1
  RefreshTTL = 1
  ConsentTTL = 1
  None = None
  Absent = Absent
  Untouched = Untouched
  DefaultScope = s1
  Registration <- FullRegistration
  Preregistered = {a1}
  Ops <- ExpiryOps
  Requested <- WholeOrBlank
  BatchSize = 1
  MaxClock = 2
SYMMETRY Symmetry
INVARIANTS
  NoTokenLost
  ChainsLinked
  WithinApproved
PROPERTIES
  CleanupOnlyExpired
