SPECIFICATION OverlapSpec
CONSTANTS
  Req = {r1, r2}
  User = {u1}
  Client = {a1}
  Scope = {s1}
  Resource = {w1}
  Code = {c1, c2}
  Token = {t1, t2}
  AutoCommit = FALSE
  CodeTTL = 1
  RefreshTTL = 1
  ConsentTTL = 0
  None = None
  Absent = Absent
  Untouched = Untouched
  DefaultScope = s1
  Registration <- FullRegistration
  Preregistered = {a1}
  Ops <- AnswerOps
  Requested <- WholeGrants
  BatchSize = 1
  MaxClock = 0
SYMMETRY Symmetry
INVARIANTS
  DeadlocksHaveCause
PROPERTIES
  RevokeMissesOnlyNewer
  WithdrawalMissesOnlyNewer
  ReplayMissesOnlyNewer
  RevokeForgetsUnlessRenewed
  UninstallMissesOnlyNewer
