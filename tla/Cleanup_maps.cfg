SPECIFICATION FairSpec
CONSTANTS
  NPds = 2
  NSpaces = 3
  PdDepth = 0
  RsDepth <- Unlimited
  Kinds = {"map", "pd", "link"}
  MaxGraph = 2
INVARIANTS
  SpaceHasManager
  NoDangling
PROPERTIES
  CleanupEnds
CHECK_DEADLOCK FALSE
