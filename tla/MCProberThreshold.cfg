SPECIFICATION MCSpec
CONSTANTS
  Settings <- MCSettings
  MaxRounds = 6
PROPERTIES
  StatusChangesOnThreshold
