CONSTANTS
  a = a
  b = b
  left = left
  right = right
  t1 = t1
  t2 = t2
  NoRow = NoRow
  Path = {a, b}
  Folder = {left, right}
  Under <- MCUnderNested
  Within <- MCWithinNested
  Earlier = {left}
  Thread = {t1, t2}
  ChunkSize = 1
  FlushSize = 1
  MaxWrites = 2
  MaxJobs = 3
  MaxFaults = 1
  MaxExits = 0
  MaxScans = 1
  MaxEdits = 2
SYMMETRY SymmetricNested
SPECIFICATION PanelSpec
INVARIANTS
  PanelTypeOK
  NothingForgotten
  RemovedStaysRemoved
CHECK_DEADLOCK FALSE
