CONSTANTS
  t1 = t1
  t2 = t2
  t3 = t3
  t4 = t4
  A = A
  B = B
  NoTask = NoTask
  Tasks = {t1, t2, t3, t4}
  Threads = {t1, t2, t3, t4}
  ThreadOf <- EachOwnThread
  Cancellable = {t1, t2, t3, t4}
SPECIFICATION Spec
INVARIANTS TypeOK MutualExclusion Handover
PROPERTIES ImplementsSerialQueue
CHECK_DEADLOCK FALSE
