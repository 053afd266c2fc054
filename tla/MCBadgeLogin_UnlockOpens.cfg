CONSTANTS
  l1 = l1  l2 = l2  l3 = l3
  a = a  b = b
  Login <- Requests
  Station <- Stations
  Settings <- AllSettings
  MaxCounters = 1
  MaxRecords = 1
  NoDeadline = NoDeadline
  MaxThreshold = 2
  MaxTime = 2
SPECIFICATION Spec
SYMMETRY Symmetric
PROPERTY UnlockOpens
CHECK_DEADLOCK FALSE
