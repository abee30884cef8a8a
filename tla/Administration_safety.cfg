CONSTANTS
  Requests = {r1, r2}
  Ids = {1, 2, 3, 4}
  Keys = {11, 12}
  Scopes <- MCScopes
  MaxOutlets = 2
  MaxEdits = 3
  Visitors = {v1, v2}
  Slugs = {"s1", "s2", "s3"}
  Emails = {"e1", "e2"}
  First <- MCFirst
  MaxVisits = 4
  MaxFaults = 2
  Limiters = {"auth", "webhook"}
  Clients = {c1}
  Max <- MCMax
  Window = 2
  MaxCount = 3
  MaxClock = 4
  MaxOutages = 2
SYMMETRY Interchangeable
INIT Init
NEXT Next
INVARIANTS
  AdministrationTypeOK
  RecordsConsistent
  AccountsConsistent
  MemoryBound
  RedisWindows
PROPERTY EditsChangeWhatTheyName
CHECK_DEADLOCK FALSE
