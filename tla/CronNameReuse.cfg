CONSTANTS
  h1 = h1  h2 = h2  h3 = h3  h4 = h4  n1 = n1  n2 = n2  n3 = n3
  NoCron = NoCron
  Handles = {h1, h2, h3, h4}
  Names = {n1, n2}
  NameOf <- SharedName
  Impossible = {}
  BackoffCount = 0
  MAX_CRONS = 1
  DISPATCH_CONCURRENCY_LIMIT = 1
SPECIFICATION FairSpec
PROPERTIES WaitingCronRuns
CHECK_DEADLOCK FALSE
