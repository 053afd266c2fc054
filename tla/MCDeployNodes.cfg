CONSTANTS
  d1 = d1
  d2 = d2
  own = own
  remote = remote
  f1 = f1
  f2 = f2
  cfg = cfg
  Deploy = {d1, d2}
  Node = {own, remote}
  Local = own
  File = {f1, f2, cfg}
  Protected = {cfg}
  Restart = {d1, d2}
  Target <- MCTarget
  Zip <- MCZip
  Clear <- MCClear
SPECIFICATION NodesSpec
INVARIANTS DoneIsReleased  CutByAnother
PROPERTY EveryDeployEnds
