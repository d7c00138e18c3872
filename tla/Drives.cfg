CONSTANTS
  usb = usb
  disk = disk
  s1 = s1
  s2 = s2
  Missing = Missing
  Order <- MCOrder
  Removable = {disk, usb}
  Scanner = {s1, s2}
  MaxUsn = 1
  MaxFaults = 1
  MaxSignals = 1
SPECIFICATION Spec
INVARIANTS
  DrivesTypeOK
  PositionsCovered
  ReportsKeepUp
PROPERTIES
  EveryDriveCatchesUp
