CONSTANTS
  MaxPosts = 2
  MaxHostPosts = 1
SPECIFICATION Spec
INVARIANTS TypeOK NeverRunsDry TerminatedOnce RemovedWhenDrained
CHECK_DEADLOCK FALSE
