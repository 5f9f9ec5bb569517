CONSTANTS
  h1 = h1  h2 = h2  h3 = h3  h4 = h4  n1 = n1  n2 = n2  n3 = n3
  NoCron = NoCron
  Handles = {h1, h2, h3}
  Names = {n1, n2, n3}
  NameOf <- OwnName
  Impossible = {}
  BackoffCount = 1
  MAX_CRONS = 1
  DISPATCH_CONCURRENCY_LIMIT = 1
SPECIFICATION FairSpec
INVARIANTS TypeOK ConcurrencyLimit AttemptsBounded OneExecutionPending
PROPERTIES WaitingCronRuns AbortEnds
CHECK_DEADLOCK FALSE
