SPECIFICATION MCSpec
CONSTANTS
  Nobody = Nobody
  Probers = {p1, p2}
  Solo = p1
  Keys = {k1, k2}
  Blank = {k2}
  Mounts = 2
  Expressions <- MCExpressions
  MaxStuck = 2
INVARIANTS
  TypeOK
  UpMeansChecked
  LosesOnlyBastion
  ExportsThisRound
  OwnSettings
  DiesOnlyOnMissing
PROPERTIES
  RoundEnds
\* A panic ends the process; a prober stops at the bound on stuck readers.
CHECK_DEADLOCK FALSE
