CONSTANTS
  NPROC = 3
  c1 = c1
  c2 = c2
  CPUs = {c1}
  NoCpu = NoCpu
  KillPids = {}
  MaxPid = 3
SPECIFICATION FairSpec
PROPERTIES
  OrphanReaped
  RunnableRuns
