SPECIFICATION Spec
CONSTANTS
  Page = {p1, p2}
  Op = {o1, o2}
  Id = {i1}
  v1 = v1
  Value = {v1, v2}
  NoValue = NoValue
  Demo <- MCDemo
CHECK_DEADLOCK FALSE
INVARIANTS RowsAreTrue UntracedOnlyIfRaced TornOnlyByOverlap
