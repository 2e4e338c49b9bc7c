SPECIFICATION FairSpec
CONSTANTS
  n1 = n1 n2 = n2 n3 = n3 n4 = n4
  Nodes = {n1, n2, n3, n4}
  max_object_id = 3
  MaxCount = 2
INVARIANTS
  TypeOK
  IdsUnique
  EntriesValid
  PanicOnlyWhenFull
PROPERTIES
  SearchEnds
CHECK_DEADLOCK FALSE
