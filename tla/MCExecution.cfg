CONSTANTS
  r1 = r1
  Runners = {r1}
  NoRunner = NoRunner
  MaxJobs = 1
  MaxLeases = 1
  MaxSeq = 4
  MaxInFlight = 1
  Priorities = {}
  Reported = {"completed", "failed"}
  LeaseTTL = 1
  MaxSync = 1
  Capacity = 1
  MaxTries = 2
  MaxFaults = 2
  Faults = {"lost", "late", "unacked", "raised", "kill", "stop", "server", "barred"}
SPECIFICATION SystemFairSpec
INVARIANTS
  SystemTypeOK
  AckedIsRecorded
  OutcomeIsTrue
PROPERTY
  ResultArrives
