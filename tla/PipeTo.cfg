SPECIFICATION Spec
CONSTANTS
  MaxChunks = 2
  SourceHWMs = {1}
  SinkHWMs = {1}
  Sizes = {"one", "invalid"}
INVARIANTS TypeOK NoAssertFails ResolvedDelivers PipedInOrder NothingLeftOpen
PROPERTY PipeSettles
CHECK_DEADLOCK FALSE
