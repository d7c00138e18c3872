CONSTANTS
  f1 = f1
  f2 = f2
  p = p
  q = q
  hidden = hidden
  hidden2 = hidden2
  s1 = s1
  s2 = s2
  NoPath = NoPath
  NoUsn = NoUsn
  NoScanner = NoScanner
  File = {f1}
  Path = {p}
  Excluded = {}
  Scanner = {s1}
  Environment = {"rescan", "close", "timeout", "crash", "recreate"}
  MaxUsn = 2
  MaxJournals = 1
  MaxFaults = 1
  MaxInbox = 1
SPECIFICATION Spec
INVARIANTS
  TypeOK
  OnlyKnownLosses
  SavedCopyCovered
  NeverAhead
