CONSTANTS
  Rules = {"stale", "bacnet_event"}
  EventIds = {e1, e2, e3}
  NoRule = NoRule
  NoEvent = NoEvent
  DelayUnits = 0
  Notified = {"stale", "bacnet_event"}
  Kind <- MCKind
  Delay <- MCDelay
  Notify <- MCNotify
  Faults = {"db", "commit_lost", "publish", "close_orphan", "crash"}
  MaxFaults = 2
  MaxOps = 2
  QueueLen = 1
SPECIFICATION FairSpec
PROPERTIES OpenAlarmTaken
