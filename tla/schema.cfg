SPECIFICATION Spec
CONSTANTS
  w1 = w1
  w2 = w2
  m1 = m1
  Worker = {w1, w2}
  Migrator = {m1}
  CodeVersion <- Mixed
  Registered = {2, 3}
  TableCount = 2
  Retries = 1
  Strict = FALSE
  Nobody = Nobody
INVARIANTS
  SchemaTypeOK
  VersionTruthful
  ReadyMeansInstalled
  LockNotLeaked
PROPERTIES
  NeverDowngraded
