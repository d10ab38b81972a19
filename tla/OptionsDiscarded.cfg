SPECIFICATION Spec
CONSTANTS
  Callers = {f1, f2, entry, t1}
  Flows = {f1, f2}
  Coordinator = entry
  Tasks = {t1}
  Buses = {b1, b2}
  Modes = {light}
  NoMode = NoMode
  MaxSubmissions = 2
  MaxPolls = 0
  MaxFaults = 0
INVARIANT OverridesStay
CHECK_DEADLOCK FALSE
