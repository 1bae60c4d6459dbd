SPECIFICATION Spec
CONSTANTS
  w1 = w1
  w2 = w2
  m1 = m1
  Worker = {w1, w2}
  Migrator = {}
  CodeVersion <- Same
  Registered = {2, 3}
  TableCount = 2
  Retries = 1
  Strict = FALSE
  Nobody = Nobody
INVARIANTS
  FreshStartServes
