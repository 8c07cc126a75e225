\* Liveness of scheduling and of sleep on &ticks under the fairness of FairSpec,
\* on one CPU so that three slots compete for its round-robin scan
CONSTANTS
  c0 = c0
  c1 = c1
  NoCpu = NoCpu
  CPUS <- MCCPUS1
  TickCpu = c0
  NPROC = 3
  MaxPid = 3
  KillPids = {0, 2}
  SleepTicks = {1}
  TickWidth = 2
  PidWidth = 4
SPECIFICATION FairSpec
PROPERTIES
  RunnableEventuallyRuns
  TickSleeperEventuallyWoken
