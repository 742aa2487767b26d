\* Applications that also call sys_kill.
SPECIFICATION Spec
CONSTANTS
  NPROCS = 4
  StackSize = 0
  Statuses = {1}
  Syscalls = {"fork", "yield", "exit", "wait", "kill", "unknown"}
INVARIANTS TypeOK
PROPERTY StatusIsCollected
\* The kernel stops when no process is runnable and in its default branch.
CHECK_DEADLOCK FALSE
