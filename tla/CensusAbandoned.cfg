SPECIFICATION FairSpec
CONSTANTS
  Flows = {f1}
  Polls = 2
  Tables = {"small"}
  Faults = {"refused"}
PROPERTIES
  AbandonedRestored
