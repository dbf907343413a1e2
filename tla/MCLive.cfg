CONSTANTS
  s1 = s1
  s2 = s2
  Socks = {s1, s2}
  NoSock = NoSock
  Visited = {"job"}
  MaxVer = 3
  MaxAsked = 1
  MaxSteps = 3
  Faults = {"drop", "crash", "fetch"}
SPECIFICATION FairSpec
INVARIANTS
  TypeOK
  ViewIsFresh
  SubscribedIsServed
PROPERTY
  GoesOn
