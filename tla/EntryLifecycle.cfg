SPECIFICATION FairSpec
CONSTANTS
  Entries = {a, b}
  NoEntry = NoEntry
  Limits = {1, 2}
  ManageOptions = {TRUE}
INVARIANTS
  TypeOK
  OwnersHold
  CollectorShared
  SoleManager
  ControlsInReach
PROPERTIES
  OperationsEnd
