SPECIFICATION Spec
CONSTANTS
  Hashes = {h1}
  Names = {n1}
  Uploaders = {u1}
  Cleaners = {c1}
  Deleters = {}
  NoSnapshot = NoSnapshot
  NoName = NoName
  SameBytesReturn = TRUE
INVARIANTS NoUnexplainedLoss
