CONSTANTS
  r1 = r1
  r2 = r2
  p = p
  P = P
  q = q
  sys = sys
  kp = kp
  kq = kq
  ksys = ksys
  NoPath = NoPath
  NoRef = NoRef
  NoCopy = NoCopy
  t1 = t1
  t2 = t2
  Thread <- MCThread
  Ref <- MCRef
  Path <- MCPath
  Key <- MCKey
  Lower <- MCLower
  Hidden <- MCHidden
  Feeds <- OneVolume
SPECIFICATION Spec
INVARIANTS
  TypeOK
  PathIndexExact
PROPERTIES
  KeepsPromise
