CONSTANTS
  p1 = p1
  p2 = p2
  Procs = {p1, p2}
  None = None
  Off = Off
  Inums = {1, 2, 3}
  Names = {"x", "y"}
  Files = {1}
  NOFILE = 2
  MaxCalls = 4
  Calls <- AllCalls
  DataBlocks = {1, 2, 3, 4}
  Uint = 16
SPECIFICATION CallsSpec
SYMMETRY Symmetry
INVARIANTS
  LinksCounted
  RefsCounted
  Reclaimed
  NoPanic
  BlocksOwned
  FitsTransaction
  PagesOwned
  CommandsEnd
  HeapSound
  TextRight
PROPERTIES
  FileIsBytes
  UserMemory
