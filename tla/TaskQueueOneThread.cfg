CONSTANTS
  t1 = t1
  t2 = t2
  t3 = t3
  t4 = t4
  A = A
  B = B
  NoTask = NoTask
  Tasks = {t1, t2, t3}
  Threads = {A}
  ThreadOf <- OneThread
  Cancellable = {t1, t2, t3}
SPECIFICATION FairSpec
PROPERTIES EveryTaskProceeds
CHECK_DEADLOCK FALSE
