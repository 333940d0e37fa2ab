CONSTANTS
  c1 = c1
  c2 = c2
  p1 = p1
  p2 = p2
  r1 = r1
  r2 = r2
  Writers = {p1, p2}
  Readers = {r1, r2}
  Nobody = Nobody
  Bytes = {0, 1}
  PIPESIZE = 2
  Uint = 4
  MaxN = 2
SPECIFICATION StreamsSpec
SYMMETRY Symmetry
INVARIANTS
  SleepersWait
  InterruptSafe
  SleepExact
  TerminalMoves
PROPERTIES
  FifoOrder
  CommittedKept
  OutputInOrder
