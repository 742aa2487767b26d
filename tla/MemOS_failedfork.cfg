\* The second process fails to fork and exits.
SPECIFICATION Spec
CONSTANTS
  NPROC = 4
  PSTART = 9
  NPAGES = 11
  VTOP = 13
  MaxRef = 3
  Boots = {2}
  Events = {"timer", "fork", "childexit"}
INVARIANT KernelInvariants
\* A panic stops the kernel.
CHECK_DEADLOCK FALSE
