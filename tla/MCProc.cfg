\* Safety of the process table, scheduler and sleep/wakeup, and its refinement of ProcLifecycle: 2 CPUs, 3 slots
CONSTANTS
  c0 = c0
  c1 = c1
  NoCpu = NoCpu
  CPUS <- MCCPUS
  TickCpu = c0
  NPROC = 3
  MaxPid = 4
  KillPids = {0, 3}
  SleepTicks = {1}
  TickWidth = 1
  PidWidth = 4
SPECIFICATION Spec
INVARIANTS
  TypeOK
  PtableLockHandoff
  RunsOnOneCpu
  WaitWakeupNotLost
  TicksWakeupNotLost
  ParentIsLive
PROPERTIES
  ImplementsLifecycle
