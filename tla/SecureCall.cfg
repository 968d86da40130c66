SPECIFICATION Spec
CONSTANTS
  b1 = b1
  b2 = b2
  Bootstraps = {b1, b2}
  Calls = {c1, c2}
  CommonName <- Names
  None = None
  FaultKinds = {"http", "twice", "expiry", "server", "client"}
  MaxFaults = 2
  MaxRequests = 3
SYMMETRY Symmetry
INVARIANTS
  TypeOK
  CompletedCallsAreAuthenticated
  AnsweredSessionsAreSpent
  SettledIdentitiesAgree
  CalmCallsComplete
CHECK_DEADLOCK FALSE
