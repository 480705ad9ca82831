SPECIFICATION Spec
CONSTANTS
  Deletions = {d1, d2, d3}
  Compactors = {c1}
  MaxIndex = 3
SYMMETRY Symmetry
INVARIANTS RowsKept
PROPERTIES ImplementsRecord
