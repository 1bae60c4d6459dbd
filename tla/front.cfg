SPECIFICATION Spec
CONSTANTS
  u1 = u1
  u2 = u2
  a1 = a1
  s1 = s1
  s2 = s2
  h1 = h1
  h2 = h2
  User = {u1, u2}
  Browser = {b1}
  Client = {a1}
  Code = {c1}
  Token = {t1}
  Container <- Containers
  Origin = {h1, h2}
  Below <- Paths
  Url <- Urls
  Pin <- Pins
  Uri <- Uris
  Scope = {s1, s2}
  DefaultScope = s1
  Supported = {s1, s2}
  Registrations <- Tries
  Requests <- Asks
  Narrowings <- Wanted
  Ttl = 1
  MaxForms = 1
  MaxConsents = 1
  Nobody = Nobody
  None = None
  Unpinned = Unpinned
  Unasked = Unasked
  NoContainer = NoContainer
  Global = {u1, u2}
SYMMETRY Symmetry
INVARIANTS
  FlowTypeOK
  CodesWereSeen
  CodesReachTheClient
  RegisteredClientsServed
  AccessWasSeen
  PhasesAgree
PROPERTIES
  ApprovalIsFresh
CHECK_DEADLOCK FALSE
