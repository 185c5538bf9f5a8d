SPECIFICATION FairSpec
CONSTANTS
  Timers = {t1}
  Callers = {f1}
  MaxChanges = 3
  MaxCallbacks = 2
INVARIANTS
  TypeOK
  UpToDate
  Informed
  LateReloads
PROPERTIES
  NeverBack
  Applied
CHECK_DEADLOCK FALSE
