SPECIFICATION FairSpec
CONSTANTS
  Flows = {f1, f2}
  Polls = 2
  Tables = {"large"}
  Faults = {"refused", "lost", "waiting", "overlap"}
INVARIANTS
  TypeOK
  CensusIsWatched
  DoneMeansNormal
  SnapshotKept
PROPERTIES
  CensusEnds
