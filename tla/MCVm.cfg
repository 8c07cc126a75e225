\* 2-byte pages, 2-entry page tables, two user directory entries (KERNBASE = 8,
\* uint modulo 16) and one kernel one; ten physical pages, enough for two
\* processes of a few pages, so that allocations succeed and fail.
CONSTANTS
  PG = 2
  NPTE = 2
  NUPDE = 2
  NKPDE = 1
  NPages = 10
  Procs = {1, 2}
  InitProc = 1
  FileSz = 3
  Deltas <- MCDeltas
SPECIFICATION Spec
INVARIANTS
  TypeOK
  PagesOwnedOnce
  PageTablesSound
  MappedWithinSz
  CopyoutLands
  LoaduvmLands
\* A panic halts the kernel; it is the only state with no successor.
CHECK_DEADLOCK FALSE
