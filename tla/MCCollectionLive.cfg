SPECIFICATION FairSpec
CONSTANTS
  w1 = w1
  w2 = w2
  None = None
  Workers = {w1, w2}
  Intervals = {1}
  StaleFloor = 2
  RetryAfter = 3
  SessionLength = 9
  SessionGap = 1
  LastMinute = 2
  MaxRuns = 2
  MaxFaults = 1
  MaxLosses = 1
PROPERTIES
  AbandonedRunsClose
