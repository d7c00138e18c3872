CONSTANTS
  a = a
  b = b
  inner = inner
  outer = outer
  t1 = t1
  t2 = t2
  NoRow = NoRow
  Path = {a, b}
  Folder = {inner, outer}
  Under <- MCUnder
  Within <- MCWithin
  Earlier = {}
  Thread = {t1, t2}
  ChunkSize = 2
  FlushSize = 1
  MaxWrites = 2
  MaxJobs = 2
  MaxFaults = 1
SYMMETRY Symmetric
SPECIFICATION Spec
INVARIANTS
  TypeOK
  TablesAgree
  SinglesAgree
  SkippedIsCurrent
  RemovedStaysRemoved
PROPERTIES
  ImplementsStore
CHECK_DEADLOCK FALSE
