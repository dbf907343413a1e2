CONSTANTS
  MaxJobs = 1
  Olds = {1}
  MaxAge = 3
  MaxCrashes = 2
  Sharing = {TRUE}
SPECIFICATION Spec
INVARIANT
  FilesOfPriorAttemptsAreGone
CHECK_DEADLOCK FALSE
