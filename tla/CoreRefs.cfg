SPECIFICATION Spec
CONSTANTS
  p1 = p1
  p2 = p2
  m1 = m1
  m2 = m2
  a1 = a1
  a2 = a2
  c1 = c1
  c2 = c2
  e1 = e1
  v1 = v1
  None = None
  Reserved = Reserved
  PDs = {p1, p2}
  MOs = {m1, m2}
  ADSs = {a1, a2}
  CPUs = {c1, c2}
  EPs = {e1}
  Vaddrs = {v1}
  FirstPd = p1
  FirstAds = a1
  FirstCpu = c1
  FirstMo = m1
  MaxHold = 2
  MaxRequests = 6
INVARIANTS
  TypeOK
  CountsCover
  NoLeak
CHECK_DEADLOCK FALSE
