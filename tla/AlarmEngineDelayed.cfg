CONSTANTS
  Rules = {"value"}
  EventIds = {e1, e2, e3, e4}
  NoRule = NoRule
  NoEvent = NoEvent
  DelayUnits = 1
  Notified = {"value"}
  Kind <- MCKind
  Delay <- MCDelay
  Notify <- MCNotify
  Faults = {"db"}
  MaxFaults = 1
  MaxOps = 2
  QueueLen = 1
SPECIFICATION FairSpec
PROPERTIES LastingConditionRaises
