SPECIFICATION FairSpec
CONSTANTS
  t1 = t1
  t2 = t2
  None = None
  Threads = {t1, t2}
  Days = {0, 1, 2}
  Today = 2
  Lookback = 1
  Week <- OneWeek
  Requests <- WeekAndDay
  Providers = {"ALPACA", "IBKR"}
  Collected <- LastDay
  MaxEvents = 2
CHECK_DEADLOCK FALSE
INVARIANTS
  TypeOK
  NoDuplicateBars
  ExecutionAgrees
  CompletedIsComplete
PROPERTIES
  JobsSettle
