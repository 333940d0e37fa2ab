CONSTANTS
  b1 = b1
  b2 = b2
  b3 = b3
  t1 = t1
  t2 = t2
  t3 = t3
  v1 = v1
  v2 = v2
  Threads = {t1, t2, t3}
  Blocks = {b1, b2}
  Contents = {v1, v2}
  MAXOPBLOCKS = 1
  LogBlocks = 3
SPECIFICATION FairSpec
INVARIANT SpaceReserved
PROPERTIES
  Atomic
  SleeperWoken
