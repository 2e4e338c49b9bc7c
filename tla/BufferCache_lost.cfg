SPECIFICATION Spec
CONSTANTS
  Blocks = {b1, b2, b3}
  NBUF = 2
  MaxVersion = 2
  MaxHeld = 2
  None = None
INVARIANT
  ReadsLatest
