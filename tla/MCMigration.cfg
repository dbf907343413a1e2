CONSTANTS
  MaxJobs = 2
  Olds = {1, 2}
  MaxAge = 3
  MaxCrashes = 2
  Sharing = {FALSE, TRUE}
SPECIFICATION FairSpec
INVARIANTS
  TypeOK
PROPERTY
  StartsKeepAll
  ServesAgain
CHECK_DEADLOCK FALSE
