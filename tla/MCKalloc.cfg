\* Three CPUs booting with CPU 0; four pages below 4 MB (one for kpgdir, two
\* AP stacks, one spare) and two above.
CONSTANTS
  NCPU = 3
  BootCpu = 0
  NLow = 4
  NHigh = 2
  KvmPages = 1
  SECTSIZE = 2
  PGSIZE = 4
  MaxSz = 2
SPECIFICATION FairSpec
INVARIANTS
  TypeOK
  NoDoubleAlloc
  UnlockedAlone
  APStackLow
  ImageLoaded
PROPERTIES
  ImplementsAllocator
  BootCompletes
