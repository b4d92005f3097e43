CONSTANTS
  Commands = {c1, c2}
  WriteTimeout = 0
  MaxAge = 0
  Count = 2
  MaxTime = 1
  Faults = {"db", "crash"}
  MaxFaults = 2
SPECIFICATION FairSpec
CHECK_DEADLOCK FALSE
INVARIANTS TruthfulAnswer NoResultMissed ExecutedAgainOnlyAfterCrash HandledIsTraced
PROPERTIES WritesInStreamOrder ImplementsSetPoints EveryCommandHandled
