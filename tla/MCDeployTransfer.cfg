CONSTANTS
  t1 = t1
  t2 = t2
  Transfer = {t1}
  Restarting = {t1}
  Chunks = 3
  ChunkRetries = 2
  MaxPollFailures = 3
  RestartDelay = 2
  ReadErrors = FALSE
SPECIFICATION FairSpec
INVARIANTS
  DeploysWholeZip
PROPERTIES
  EverySendEnds
  EveryFileGoes
CHECK_DEADLOCK FALSE
