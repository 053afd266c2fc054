SPECIFICATION FairSpec
CONSTANTS
  u1 = u1
  g1 = g1
  g2 = g2
  m1 = m1
  m2 = m2
  r1 = r1
  r2 = r2
  User = {u1}
  Group = {g1, g2}
  Method = {m1, m2}
  Request = {r1, r2}
  Import = Import
  FirstMethod = m1
  Asks <- MCAsks
  FirstSettings <- MCFirst
  Off <- MCOff
  Project <- MCProject
  Directory <- MCDirectory
  MaxStops = 1
INVARIANTS
  RowsAreTrue
  UntracedOnlyIfFailed
  SeenIsRight
PROPERTIES
  ImportGivesGroups
  ImportsGoOn
CONSTRAINT InTurn
CHECK_DEADLOCK FALSE
