CONSTANTS
  MaxLen = 3
  MaxTries = 3
  MaxFaults = 3
  Faults = {"lost", "late", "unsaved", "crash", "truncate", "hurry"}
SPECIFICATION FairSpec
INVARIANTS
  TypeOK
  StoredInOrder
  AcknowledgedIsStored
PROPERTY
  LogArrives
