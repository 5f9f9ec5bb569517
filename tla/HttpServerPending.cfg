CONSTANTS
  c1 = c1  c2 = c2  r1 = r1  r2 = r2  r3 = r3
  Conns = {c1, c2}
  Records = {r1, r2}
  NoRecord = NoRecord
  MaxRequests = 2
  ChannelCap = 2
  PoolBase = 1
  Answers = {"static"}
SPECIFICATION FairSpec
PROPERTY PendingRequestsFinish
CHECK_DEADLOCK FALSE
