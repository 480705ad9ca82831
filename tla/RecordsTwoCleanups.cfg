SPECIFICATION Spec
CONSTANTS
  Deletions = {d1, d2}
  Compactors = {c1, c2}
  MaxIndex = 3
SYMMETRY Symmetry
INVARIANTS RowsKept
