SPECIFICATION Spec
CONSTANTS
  Runs = {r1, r2}
  Files = {f1, f2, f3}
  Names = {n1, n2}
  LastRow = 2
  NoFile = NoFile
  NoName = NoName
  LockWindow = FALSE
  NameWindow = FALSE
SYMMETRY Symmetry
INVARIANTS SnapshotsWhole
PROPERTIES LandedStays OnlyOwnTaken EndsReleased
