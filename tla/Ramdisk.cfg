SPECIFICATION Spec
CONSTANTS
  Clients = {c1, c2}
  NumBlocks = 5
  None = None
SYMMETRY ClientSymmetry
CHECK_DEADLOCK FALSE
INVARIANTS
  TypeOK
  ListOrdered
  NoSharing
