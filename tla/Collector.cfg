CONSTANTS
  DevicePoints <- MCDevicePoints
  OfflineAfter = 2
  OfflineAfterCycles = 2
  Budgets <- MCBudgets
  Points = {1, 2, 3}
  Capable = {2, 3}
  Interval = 1
  MaxInterval = 3
  Safety = 2
  Lifetime = 4
  RenewBefore = 1
  Retry = 2
  MaxMishaps = 3
SPECIFICATION MCSpec
INVARIANTS RereadInTime RenewedInTime
PROPERTIES OfflineDeservedUntorn StatusSettles HeardSettles SettingSettles PointsLost Resubscribed
