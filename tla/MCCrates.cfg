CONSTANTS
  Calls = {c1, c2}
  Second = 2
  Periods = {1, 2, 4}
  TTL = 3
  Timeout = 2
  RetryAfters = {0, 1}
  MaxTries = 3
  Slots = 1
SPECIFICATION FairSpec
INVARIANTS
  RateIsKept
  AnswersAreRecent
PROPERTY
  CallsEnd
