\* kill() of pid 0 marks an UNUSED slot, whose next process is then born killed
CONSTANTS
  c0 = c0
  c1 = c1
  NoCpu = NoCpu
  CPUS <- MCCPUS
  TickCpu = c0
  NPROC = 3
  MaxPid = 4
  KillPids = {0, 3}
  SleepTicks = {1}
  TickWidth = 2
  PidWidth = 4
SPECIFICATION Spec
INVARIANTS
  KilledOnlyByRequest
