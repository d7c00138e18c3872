CONSTANTS
  a = a
  b = b
  left = left
  right = right
  t1 = t1
  t2 = t2
  NoRow = NoRow
  Path = {a}
  Folder = {left, right}
  Under <- MCUnder
  Within <- MCWithin
  Earlier = {left}
  Thread = {t1, t2}
  ChunkSize = 1
  FlushSize = 1
  MaxWrites = 2
  MaxJobs = 2
  MaxFaults = 0
  MaxExits = 0
  MaxScans = 0
  MaxEdits = 3
SYMMETRY Symmetric
SPECIFICATION PanelSpec
INVARIANTS
  ButtonMeansIdle
CHECK_DEADLOCK FALSE
