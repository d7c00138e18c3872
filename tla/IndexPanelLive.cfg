CONSTANTS
  a = a
  b = b
  left = left
  right = right
  t1 = t1
  t2 = t2
  NoRow = NoRow
  Path = {a}
  Folder = {left, right}
  Under <- MCUnder
  Within <- MCWithin
  Earlier = {left}
  Thread = {t1}
  ChunkSize = 1
  FlushSize = 1
  MaxWrites = 1
  MaxJobs = 2
  MaxFaults = 1
  MaxExits = 1
  MaxScans = 1
  MaxEdits = 2
SPECIFICATION PanelSpec
INVARIANTS
  NothingForgotten
PROPERTIES
  ButtonComesBack
  QueueDrains
CHECK_DEADLOCK FALSE
