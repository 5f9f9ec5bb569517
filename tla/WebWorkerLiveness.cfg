CONSTANTS
  MaxPosts = 1
  MaxHostPosts = 0
SPECIFICATION FairSpec
PROPERTIES  MessagesDelivered ErrorReported EntryRemoved
CHECK_DEADLOCK FALSE
