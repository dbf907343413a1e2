CONSTANTS
  z1 = z1
  z2 = z2
  MaxTasks = 2
  MaxJobs = 2
  Zips = {z1, z2}
  NoZip = NoZip
  MaxUpdates = 2
  Capacity = 2
  MaxFaults = 1
  Faults = {"network", "runner", "server"}
SPECIFICATION Spec
INVARIANTS
  TypeOK
  ZipOfEveryDefinition
  RunsItsDefinition
  FailsForACause
SYMMETRY ZipSymmetry
CHECK_DEADLOCK FALSE
