SPECIFICATION FairSpec
CONSTANTS
  Kinds = {"IBKR", "FUTU", "ALPACA"}
  Checked = {"IBKR"}
  Symbols = 2
  MaxContracts = 2
  Pool = 2
  MaxFaults = 1
CHECK_DEADLOCK FALSE
INVARIANTS
  TypeOK
  SubscriptionsHeld
  SessionReleased
  SummaryAgrees
PROPERTIES
  CollectionAnswered
