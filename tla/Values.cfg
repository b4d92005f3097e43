CONSTANTS
  Values = {0, 1, 2}
  Deadband = 1
  MaxInterval = 3
  MaxBuffered = 2
  MaxReadings = 4
  MaxFlying = 3
  MaxReplaced = 1
  MaxEvents = 2
  Widgets = {w1, w2}
  FeedReadings = 2
  MaxChanges = 4
  MaxTroubles = 2
SPECIFICATION ValuesSpec
CHECK_DEADLOCK FALSE
INVARIANTS HistoryFaithful SamplesHeld OneWayBack
PROPERTIES Implements LatestSettles FeedSettles
