SPECIFICATION FairSpec
CONSTANTS
  Conns = {c1, c2, c3}
  Clients = {k1, k2, k3}
  MaxConnections = 2
  IdleTimeout = 1
  MaxLifetime = 2
INVARIANTS
  Exclusive
  HeldIsOpen
  NoLeak
  Capacity
PROPERTIES
  Available
