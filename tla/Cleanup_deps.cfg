SPECIFICATION Spec
CONSTANTS
  NPds = 3
  NSpaces = 2
  PdDepth <- Unlimited
  RsDepth = 0
  Kinds = {"rde", "resource", "link"}
  MaxGraph = 3
INVARIANTS
  TypeOK
  SpaceHasManager
  NoMarkedPdLeft
  NoDangling
  KilledAsPolicySays
  ManagersTold
CHECK_DEADLOCK FALSE
