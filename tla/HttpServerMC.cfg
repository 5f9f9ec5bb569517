CONSTANTS
  c1 = c1  c2 = c2  r1 = r1  r2 = r2  r3 = r3
  Conns = {c1, c2}
  Records = {r1, r2, r3}
  NoRecord = NoRecord
  MaxRequests = 3
  ChannelCap = 1
  PoolBase = 1
  Answers = {"static", "stream", "no_stream", "websocket", "raw", "no_upgrade", "throws"}
SPECIFICATION Spec
INVARIANTS TypeOK NoStateError PoolUnused AnswersOwnRequest DrainExact
SYMMETRY Symmetry
CHECK_DEADLOCK FALSE
