\* Applications that do anything, and a user who starts the kernel again.
SPECIFICATION Spec
CONSTANTS
  NPROC = 3
  PSTART = 8
  NPAGES = 10
  VTOP = 12
  MaxRef = 1
  Boots = {1, 2}
  Events = {"getpid", "yield", "timer", "panic", "fault", "exit", "alloc", "remap", "unaligned", "fork", "reboot"}
INVARIANTS TypeOK Exclusive
\* A panic stops the kernel.
CHECK_DEADLOCK FALSE
