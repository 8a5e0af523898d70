SPECIFICATION Spec
CONSTANTS
  w1 = w1
  w2 = w2
  None = None
  Workers = {w1, w2}
  Intervals = {1, 2}
  StaleFloor = 2
  RetryAfter = 3
  SessionLength = 4
  SessionGap = 1
  LastMinute = 5
  MaxRuns = 3
  MaxFaults = 1
  MaxLosses = 0
SYMMETRY Symmetric
INVARIANTS
  TypeOK
  Paced
  BacksOff
  RunningIsLast
