SPECIFICATION Spec
CONSTANTS
  Conns = {x1, x2, x3}
  MaxReconnects = 2
INVARIANT
  Released
CHECK_DEADLOCK FALSE
