SPECIFICATION Spec
CONSTANTS
  MaxWrites = 2
  MaxReads = 2
  MaxEnqueues = 2
  ReadableHWMs = {0, 1}
  WritableHWMs = {1}
INVARIANTS TypeOK NoAssertFails
PROPERTIES EndsTogether NoMutualWait
CHECK_DEADLOCK FALSE
