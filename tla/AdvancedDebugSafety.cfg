SPECIFICATION Spec
CONSTANTS
  CaptureTask = CaptureTask
  NoConn = NoConn
  Nobody = Nobody
  Conns = {k1, k2}
  Callers = {c1, c2}
  Faults = {"cancel", "crash", "udp", "stall"}
SYMMETRY Symmetry
INVARIANTS
  TypeOK
  CaptureOwed
  IdleMeansRestored
  ArmingAlone
  QuietReport
PROPERTIES
  CustodySpec
  IdleAnnouncesRestored
