CONSTANTS
  MaxBytes = 3
  MaxReads = 3
  MaxReaders = 2
  HWMs = {0, 1}
  AutoSizes = {0, 2}
  Views <- SmallViews
SPECIFICATION Spec
INVARIANTS TypeOK NoAssertFails BytesKept NoReadStranded
PROPERTIES PullNotLost
CHECK_DEADLOCK FALSE
