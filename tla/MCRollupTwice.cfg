SPECIFICATION Spec
SYMMETRY Perms
CONSTANTS
  h1 = h1
  h2 = h2
  None = None
  Writers = {h1, h2}
  Results <- RowsTried
  Outcomes <- TablesTried
  DayLength = 2
  MarketDays = {0}
  DueAt = 1
  Retention = 1
  OptionDays = 1
  BatchSize = 1
  Archives <- ArchiveDays
  LastTime = 4
  MaxWrites = 2
  MaxFaults = 1
INVARIANT
  RepeatCountsNothingTwice
