SPECIFICATION FairSpec
CONSTANTS
  s1 = s1 s2 = s2 c1 = c1 c2 = c2
  Servers = {s1, s2}
  Clients = {c1, c2}
  Victims = {s1}
  Exiters = {}
  NoHandler <- NoPairs
  Fallible = FALSE
  DumpMayFail = FALSE
  MaxBatch = 2
  MaxPerRequest = 2
  MaxWork = 3
  None = None
PROPERTIES
  DumpAnswered
CHECK_DEADLOCK FALSE
