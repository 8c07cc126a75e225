\* The bounds of MCVm.cfg; one question: does every page below p->sz stay
\* mapped?  sbrk(-1) twice from sz = 2 reaches growproc(n) with sz + n = 0.
CONSTANTS
  PG = 2
  NPTE = 2
  NUPDE = 2
  NKPDE = 1
  NPages = 10
  Procs = {1, 2}
  InitProc = 1
  FileSz = 3
  Deltas <- MCDeltas
SPECIFICATION Spec
INVARIANT
  SizeIsMapped
\* A panic halts the kernel; it is the only state with no successor.
CHECK_DEADLOCK FALSE
