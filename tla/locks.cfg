SPECIFICATION LoopSpec
CONSTANTS
  Req = {r1, r2}
  User = {u1}
  Client = {a1}
  Scope = {s1}
  Resource = {w1}
  Code = {c1}
  Token = {t1}
  AutoCommit = FALSE
  CodeTTL = 1
  RefreshTTL = 1
  ConsentTTL = 1
  None = None
  Absent = Absent
  Untouched = Untouched
  DefaultScope = s1
  Registration <- FullRegistration
  Preregistered = {a1}
  Ops <- LockOps
  Requested <- WholeGrants
  BatchSize = 1
  MaxClock = 2
PROPERTIES
  EveryRequestEnds
  ExpiredRowsGo
