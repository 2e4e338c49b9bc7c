SPECIFICATION Spec
CONSTANTS
  Clients = {c1, c2}
  NumInodes = 2
  Names <- MCNames
  Root = Root
  N = N
  MaxHold = 2
  MaxRef = 2
  MaxSends = 2
  None = None
SYMMETRY ClientSymmetry
CHECK_DEADLOCK FALSE
INVARIANTS
  TypeOK
  OpenFilePinned
  HeldFilesOpen
PROPERTY
  NoHoldStolen
