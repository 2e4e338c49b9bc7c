SPECIFICATION Spec
CONSTANTS
  NPds = 3
  NSpaces = 2
  PdDepth = 1
  RsDepth = 0
  Kinds = {"rde"}
  MaxGraph = 2
INVARIANTS
  KilledAsPolicySays
CHECK_DEADLOCK FALSE
