SPECIFICATION Spec
CONSTANTS
  Callers = {f1, f2, entry, t1}
  Flows = {f1, f2}
  Coordinator = entry
  Tasks = {t1}
  Buses = {b1}
  Modes = {light}
  NoMode = NoMode
  MaxSubmissions = 2
  MaxPolls = 1
  MaxFaults = 1
INVARIANTS
  TypeOK
  SettingsStay
  LostByOverlapOnly
  RunsWhatIsSaved
  Accounting
PROPERTIES
  
  SubmissionsEnd
CHECK_DEADLOCK FALSE
