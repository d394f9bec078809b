SPECIFICATION MCSpec
CONSTANTS
  n1 = n1
  n2 = n2
  Settings <- EdgeSettings
  Capacity = 2
  Notifiers = {n1, n2}
  MayBlock = {n2}
  RetryTimes = 2
  MaxRounds = 3
INVARIANTS
  TypeOK
  EdgeTriggered
  RecoveryFollowsFailure
  AlertsWithinMaximum
  EveryNotifierStarted
  EndsForAReason
PROPERTIES
  OutageAnnounced
  NotificationsEnd
CHECK_DEADLOCK FALSE
