CONSTANTS
  Codes = {0, 1, 137}
  MaxFaults = 2
  Faults = {"start", "wait", "stop", "remove"}
SPECIFICATION FairSpec
INVARIANTS
  TypeOK
  VerdictIsOwn
  ReturnedIsRemoved
  StartedIsStopped
PROPERTY
  ShutdownEnds
