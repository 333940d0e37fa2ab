CONSTANTS
  NPROC = 3
  c1 = c1
  c2 = c2
  CPUs = {c1, c2}
  NoCpu = NoCpu
  KillPids = {0}
  MaxPid = 3
SPECIFICATION Spec
SYMMETRY Symmetry
INVARIANT FreshUnkilled
