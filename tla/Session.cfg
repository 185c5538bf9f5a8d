SPECIFICATION FairSpec
CONSTANTS
  Conns = {x1, x2}
  MaxReconnects = 2
INVARIANTS
  TypeOK
  NilSafe
  OneBackend
PROPERTIES
  Ends
  Drains
  Recovers
CHECK_DEADLOCK FALSE
