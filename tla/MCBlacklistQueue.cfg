CONSTANTS
  Job <- Jobs
  Value <- Counts
  Empty = 0
  Change <- CountChange
SPECIFICATION FairQueueSpec
PROPERTIES
  AtomicSpec
  EveryCallSettles
CHECK_DEADLOCK FALSE
