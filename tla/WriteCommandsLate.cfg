CONSTANTS
  Commands = {c1}
  WriteTimeout = 1
  MaxAge = 2
  Count = 1
  MaxTime = 3
  Faults = {}
  MaxFaults = 0
SPECIFICATION FairSpec
CHECK_DEADLOCK FALSE
PROPERTIES NoLateWrite
