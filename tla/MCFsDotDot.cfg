CONSTANTS
  p1 = p1
  p2 = p2
  Procs = {p1, p2}
  None = None
  Inums = {1, 2, 3}
  Names = {"x", "y"}
  Files = {1}
  NOFILE = 1
  MaxCalls = 6
  Calls <- DotDotCalls
SPECIFICATION Spec
SYMMETRY Symmetry
INVARIANT NoPanic
