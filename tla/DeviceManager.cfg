SPECIFICATION FairSpec
CONSTANTS
  Ids = {b1}
  DeviceTypes = {1, 9, 11}
  Absent = Absent
  Coordinator = Coordinator
  Users = {u1}
  Reconciler = Reconciler
  MaxEvents = 2
INVARIANTS
  TypeOK
  CandidatesExist
  PendingMeansTask
PROPERTIES
  EventuallyEnriched
  EventuallyCalm
  EventuallyKnown
