SPECIFICATION Spec
CONSTANTS
  Entries = {a, b}
  NoEntry = NoEntry
  Limits = {1, 2}
  ManageOptions = {TRUE}
INVARIANTS
  SingleGateway
