SPECIFICATION Spec
CONSTANTS
  Browsers = {b1, b2}
  Tabs = {i1, i2}
  MaxAsked = 2
  MaxTokens = 3
  MaxSecrets = 2
SYMMETRY Symmetry
INVARIANTS
  TypeOK
  RotatedOnce
  CodesStillWork
  NothingLeftBehind
