SPECIFICATION Spec
CONSTANTS
  Hashes = {h1, h2}
  Names = {n1}
  Uploaders = {u1}
  Cleaners = {c1}
  Deleters = {d1}
  NoSnapshot = NoSnapshot
  NoName = NoName
  SameBytesReturn = FALSE
SYMMETRY Symmetry
INVARIANTS NoUnexplainedLoss
PROPERTIES ImplementsContent
