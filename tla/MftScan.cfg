CONSTANTS
  NoEntry = NoEntry
  Undecodable = Undecodable
  Sparse = Sparse
  Unreadable = Unreadable
  ExcludedPaths <- MCExcludedPaths
  ExcludedDirs = {"skip"}
  Hidden = {"$d"}
  Temporary = {"~$d"}
  Volumes <- MCVolumes
  ChunkBytes = 2
  BatchSize = 2
  MaxDepth = 2
  MaxFaults = 2
SPECIFICATION Spec
INVARIANTS
  ScanTypeOK
  NumbersRight
  Complete
  PathsRight
PROPERTIES
  ScanProgresses
