CONSTANTS
  z1 = z1
  z2 = z2
  MaxTasks = 1
  MaxJobs = 2
  Zips = {z1, z2}
  NoZip = NoZip
  MaxUpdates = 1
  Capacity = 2
  MaxFaults = 0
  Faults = {}
SPECIFICATION Spec
INVARIANTS
  SnapshotIsWhatRuns
CHECK_DEADLOCK FALSE
