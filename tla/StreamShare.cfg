CONSTANTS
  Viewer = {v1, v2}
  Camera = {c1, c2}
  BadId = bad
  Asked = {c1, bad}
  Concurrency = 1
SPECIFICATION Spec
INVARIANTS CountsMatch
PROPERTIES EveryPauseEnds EverySessionEnds StreamStops CameraForgotten
