CONSTANTS
  Recipients = {"mail", "hook"}
  Configured = {"mail"}
  Threshold = 1
  Window = 2
  Attempts = 2
  MaxSubmits = 3
  MaxTime = 3
  MaxFailures = 2
SPECIFICATION FairSpec
CHECK_DEADLOCK FALSE
INVARIANTS OrderKept NothingForgotten NotFlooded
PROPERTIES EverythingLeaves
