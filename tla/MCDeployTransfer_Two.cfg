CONSTANTS
  t1 = t1
  t2 = t2
  Transfer = {t1, t2}
  Restarting = {t1}
  Chunks = 1
  ChunkRetries = 2
  MaxPollFailures = 2
  RestartDelay = 1
  ReadErrors = TRUE
SPECIFICATION Spec
INVARIANTS
  OkIsDeployed
CHECK_DEADLOCK FALSE
