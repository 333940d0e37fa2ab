CONSTANTS
  t1 = t1
  t2 = t2
  t3 = t3
  v1 = v1
  v2 = v2
  b1 = b1
  b2 = b2
  k1 = k1
  k2 = k2
  k3 = k3
  p1 = p1
  p2 = p2
  w1 = w1
  w2 = w2
  None = None
  Threads = {p1, p2}
  Bufs = {b1, b2}
  Blocks = {k1, k2, k3}
  Contents = {w1, w2}
  MaxPins = 1
SPECIFICATION StorageSpec
SYMMETRY Symmetry
INVARIANTS
  DescriptorsOwned
  CompletionNoticed
  BufferHeld
PROPERTIES
  RequestServed
  CacheCoherent
