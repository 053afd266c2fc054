CONSTANTS
  Greeting = 2
  Auth = 2
  High = 1
  MaxSent = 5
SPECIFICATION FairSpec
INVARIANTS
  PipedInOrder
  SocketFollows
PROPERTIES
  EverySessionStarts
  EveryPauseEnds
  RefusalLostEarly
CHECK_DEADLOCK FALSE
