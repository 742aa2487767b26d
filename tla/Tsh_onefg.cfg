\* A shell and the children whose deaths it learns of at any moment.
SPECIFICATION Spec
CONSTANTS
  MAXJOBS = 3
  Pids = {1, 2}
  MaxJid = 4
INVARIANT OneForeground
CHECK_DEADLOCK FALSE
