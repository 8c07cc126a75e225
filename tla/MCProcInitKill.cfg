\* A process kills pid 1: initproc reaches exit() at its next checkpoint
CONSTANTS
  c0 = c0
  c1 = c1
  NoCpu = NoCpu
  CPUS <- MCCPUS
  TickCpu = c0
  NPROC = 2
  MaxPid = 3
  KillPids = {1}
  SleepTicks = {}
  TickWidth = 1
  PidWidth = 4
SPECIFICATION Spec
INVARIANTS
  InitNeverExits
