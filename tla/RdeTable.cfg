SPECIFICATION Spec
CONSTANTS
  PDs = {p1, p2}
  Spaces = {s1, s2, s3}
  MAX_NS_PER_RDE = 2
  MintMayFail = TRUE
  Null = null
  Unset = unset
INVARIANTS TypeOK NoDuplicates NoStaleDirectory
PROPERTY ImplementsDirectory
SYMMETRY Symmetry
