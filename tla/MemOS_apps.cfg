\* The fork programs of the repository, with timer interrupts: only unmapped
\* pages are asked for, and the first process stays.
SPECIFICATION FairSpec
CONSTANTS
  NPROC = 4
  PSTART = 9
  NPAGES = 11
  VTOP = 13
  MaxRef = 3
  Boots = {1}
  Events = {"yield", "timer", "alloc", "fork", "childexit"}
INVARIANTS KernelInvariants WriterAlone NoLeak
PROPERTY NoStarvation
\* A panic stops the kernel.
CHECK_DEADLOCK FALSE
