SPECIFICATION Spec
CONSTANTS
  s1 = s1 s2 = s2 c1 = c1 c2 = c2
  Servers = {s1, s2}
  Clients = {c1, c2}
  Victims = {s1, s2, c2}
  Exiters = {s1, s2}
  NoHandler <- NoPairs
  Fallible = TRUE
  DumpMayFail = TRUE
  MaxBatch = 2
  MaxPerRequest = 2
  MaxWork = 3
  None = None
SYMMETRY ServerSymmetry
INVARIANTS
  TypeOK
  AnsweredAfterCleanup
  MissingCoversOutstanding
  NoLostWakeup
  OneSendOutstanding
  BlockedCallersAreOwed
PROPERTIES
  ExtractionAnswerSound
CHECK_DEADLOCK FALSE
