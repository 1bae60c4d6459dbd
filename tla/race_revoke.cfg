SPECIFICATION Spec
CONSTANTS
  Req = {r1, r2}
  User = {u1}
  Client = {a1}
  Scope = {s1}
  Resource = {w1}
  Code = {c1}
  Token = {t1, t2, t3}
  AutoCommit = FALSE
  CodeTTL = 1
  RefreshTTL = 1
  ConsentTTL = 0
  None = None
  Absent = Absent
  Untouched = Untouched
  DefaultScope = s1
  Registration <- FullRegistration
  Preregistered = {a1}
  Ops <- RevokeOps
  Requested <- WholeGrants
  BatchSize = 1
  MaxClock = 0
SYMMETRY Symmetry
PROPERTIES
  RevokeEndsFamily
