\* Liveness of kill(): a killed process with a child, a parent asleep in wait()
CONSTANTS
  c0 = c0
  c1 = c1
  NoCpu = NoCpu
  CPUS <- MCCPUS
  TickCpu = c0
  NPROC = 3
  MaxPid = 4
  KillPids = {2}
  SleepTicks = {}
  TickWidth = 1
  PidWidth = 4
SPECIFICATION FairSpec
PROPERTIES
  KilledEventuallyExits
