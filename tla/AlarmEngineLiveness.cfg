CONSTANTS
  Rules = {"value"}
  EventIds = {e1, e2, e3, e4}
  NoRule = NoRule
  NoEvent = NoEvent
  DelayUnits = 0
  Notified = {"value"}
  Kind <- MCKind
  Delay <- MCDelay
  Notify <- MCNotify
  Faults = {"db", "crash"}
  MaxFaults = 2
  MaxOps = 3
  QueueLen = 1
SPECIFICATION FairSpec
PROPERTIES LastingConditionRaises LastingReturnClears
