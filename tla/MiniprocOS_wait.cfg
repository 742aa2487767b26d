\* Cooperative applications that make every call but sys_kill.
SPECIFICATION FairSpec
CONSTANTS
  NPROCS = 4
  StackSize = 1
  Statuses = {1}
  Syscalls = {"getpid", "fork", "thread", "yield", "exit", "wait"}
INVARIANTS RunningIsRunnable NoLostWaiter QueuesAreCurrent OwnStack
PROPERTIES ImplementsService NoStarvation
\* The kernel stops when no process is runnable.
CHECK_DEADLOCK FALSE
