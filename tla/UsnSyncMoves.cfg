CONSTANTS
  f1 = f1
  f2 = f2
  p = p
  q = q
  hidden = hidden
  hidden2 = hidden2
  s1 = s1
  s2 = s2
  NoPath = NoPath
  NoUsn = NoUsn
  NoScanner = NoScanner
  File = {f1, f2}
  Path = {p, q, hidden, hidden2}
  Excluded = {hidden, hidden2}
  Scanner = {s1}
  Environment = {"close"}
  MaxUsn = 3
  MaxJournals = 0
  MaxFaults = 0
  MaxInbox = 1
SPECIFICATION Spec
SYMMETRY Symmetric
INVARIANTS
  OnlyKnownLosses
  ShownOnce
