CONSTANTS
  Widgets = {w1}
  FeedReadings = 0
  MaxChanges = 1
  MaxTroubles = 2
SPECIFICATION FairFeedSpec
CHECK_DEADLOCK FALSE
PROPERTY Reconnects
