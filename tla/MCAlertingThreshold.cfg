SPECIFICATION MCSpec
CONSTANTS
  n1 = n1
  n2 = n2
  Settings <- ThresholdSettings
  Capacity = 2
  Notifiers = {n1, n2}
  MayBlock = {}
  RetryTimes = 2
  MaxRounds = 4
INVARIANTS
  EdgeTriggered
CHECK_DEADLOCK FALSE
