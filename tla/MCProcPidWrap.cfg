\* nextpid++ as a 3-bit int: after enough forks it wraps to a negative pid,
\* standing for the wrap of the 32-bit counter after 2^31 forks
CONSTANTS
  c0 = c0
  c1 = c1
  NoCpu = NoCpu
  CPUS <- MCCPUS
  TickCpu = c0
  NPROC = 2
  MaxPid = 3
  KillPids = {}
  SleepTicks = {}
  TickWidth = 1
  PidWidth = 3
SPECIFICATION Spec
PROPERTIES
  ImplementsLifecycle
