SPECIFICATION Spec
CONSTANTS
  t1 = t1
  d1 = d1
  c2 = c2
  c1 = c1
  Type = {t1}
  Dp = {d1}
  Config = {c1, c2}
  Parent <- MCParent
  Held <- MCHeld
  Version = {v1, v2}
  There = There
  Off = Off
  None = None
  Batch = 2
  MaxEdits = 2
  MaxOutside = 1
SYMMETRY Same
INVARIANTS TypeOK OkIsDone FailsOnlyBlocked
PROPERTIES TakesOnlyRemoved KeepsDrift
CHECK_DEADLOCK FALSE
