SPECIFICATION Spec
CONSTANTS
  CaptureTask = CaptureTask
  NoConn = NoConn
  Nobody = Nobody
  Conns = {k1, k2}
  Callers = {c1}
  Faults = {"stall"}
SYMMETRY Symmetry
INVARIANT InterruptionReported
