CONSTANTS
  MaxContent = 2
  MaxTries = 3
  MaxFaults = 4
  Faults = {"lost", "late", "unsaved", "crash", "hurry", "unreadable", "stop", "taken"}
SPECIFICATION FairSpec
INVARIANTS
  UploadedIsStored
  RecordedIsFinal
PROPERTY
  ResultFollows
