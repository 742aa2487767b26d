SPECIFICATION FairSpec
CONSTANTS
  MAXJOBS = 3
  Pids = {1, 2}
  MaxJid = 4
INVARIANTS
  TypeOK
  ListIsExact
  OnlyForeground
PROPERTIES
  DeadIsNotAwaited
CHECK_DEADLOCK FALSE
