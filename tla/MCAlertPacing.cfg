SPECIFICATION MCSpec
CONSTANTS
  Settings <- MCSettings
  Power <- MCPower
  MaxFailed = 260
INVARIANTS
  TypeOK
  NextIsDue
  QuotaKept
PROPERTIES
  ImplementsSchedule
