CONSTANTS
  Rules = {"value", "comm_lost"}
  EventIds = {e1, e2, e3}
  NoRule = NoRule
  NoEvent = NoEvent
  DelayUnits = 1
  Notified = {"value", "comm_lost"}
  Kind <- MCKind
  Delay <- MCDelay
  Notify <- MCNotify
  Faults = {"db", "crash"}
  MaxFaults = 2
  MaxOps = 4
  QueueLen = 1
SPECIFICATION Spec
SYMMETRY EventSymmetry
INVARIANTS EngineInv MemoryMatchesRow NotifiedMatchesRow
PROPERTIES LifecycleSpec
