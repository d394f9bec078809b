SPECIFICATION MCSpec
CONSTANTS
  Settings <- MCSettings
  MaxRounds = 6
INVARIANTS
  TypeOK
  CounterMatchesHistory
  CountIsObserved
  ThresholdDecides
  AlertsCounted
  StatAddsUp
PROPERTIES
  RecoverySpansOutage
