SPECIFICATION FairSpec
CONSTANTS
  CaptureTask = CaptureTask
  NoConn = NoConn
  Nobody = Nobody
  Conns = {k1, k2}
  Callers = {c1, c2}
  Faults = {"stall"}
PROPERTIES
  CallsEnd
  RestoredOrReported
