SPECIFICATION Spec
CONSTANTS
  w1 = w1
  w2 = w2
  c1 = c1
  c2 = c2
  r1 = r1
  r2 = r2
  Workers = {w1, w2}
  Clients = {c1, c2}
  Ranges = {r1, r2}
  None = None
  MaxJobs = 3
  MaxRetries = 1
  MaxFaults = 1
  MaxLosses = 0
SYMMETRY Symmetric
INVARIANTS
  TypeOK
  OneWorker
  ClaimHeld
  ProgressAgrees
  NoDuplicateWithoutRetry
PROPERTIES
  ResultsNotRequeued
  ImplementsBoard

