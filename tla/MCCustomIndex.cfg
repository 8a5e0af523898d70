SPECIFICATION Spec
CONSTANTS
  c1 = c1
  c2 = c2
  k1 = k1
  k2 = k2
  a = a
  b = b
  None = None
  Clients = {c1, c2}
  Calculators = {k1, k2}
  Symbols = {a, b}
  Universe = {a}
  Payloads <- Saves
  Directories <- Published
  Times = {1}
  MaxSaves = 3
  MaxRuns = 3
  MaxExpiries = 1
  MaxFailures = 1
SYMMETRY Symmetric
CHECK_DEADLOCK FALSE
INVARIANTS
  TypeOK
  OneFetchPerExpiry
  RowsMeetTheirVersion
  HonestRows
