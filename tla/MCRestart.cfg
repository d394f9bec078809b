SPECIFICATION MCSpec
CONSTANTS
  n1 = n1
  n2 = n2
  Names = {n1, n2}
  Files <- MCFiles
  Processes = {1, 2}
  FirstDisks <- MCDisks
  Backups = 1
  Invalid = Invalid
  NoFile = NoFile
  MayHang = {n1}
  MaxRounds = 1
  MaxFaults = 1
INVARIANTS
  TypeOK
  OneProbing
  StartSurvives
PROPERTIES
  ChangeApplied
CHECK_DEADLOCK FALSE
