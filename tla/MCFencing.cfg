CONSTANTS
  r1 = r1
  r2 = r2
  Runners = {r1, r2}
  NoRunner = NoRunner
  MaxJobs = 1
  MaxLeases = 3
  MaxSeq = 2
  MaxInFlight = 2
  Priorities = {}
  Reported = {"completed"}
  LeaseTTL = 1
  MaxSync = 2
SPECIFICATION Spec
INVARIANTS
  RowsAgree
  OutcomeOfCurrentLease
  FilesOfCurrentLease
PROPERTY
  ImplementsLifecycle
  LeaseHistoryMovesOn
SYMMETRY RunnerSymmetry
