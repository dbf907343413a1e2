CONSTANTS
  r1 = r1
  r2 = r2
  Runners = {r1}
  NoRunner = NoRunner
  MaxJobs = 2
  MaxLeases = 2
  MaxSeq = 1
  MaxInFlight = 1
  Priorities = {1}
  Reported = {"completed"}
  LeaseTTL = 1
  MaxSync = 1
SPECIFICATION FairSpec
INVARIANTS
  TypeOK
  LeaseIdentifiesAttempt
PROPERTY
  SilentAttemptEnds
