SPECIFICATION Spec
CONSTANTS
  a = a  b = b  t1 = t1  t2 = t2
  N = 2
  Contents = {a, b}
  Size <- SizeOf
  Part = 1
  Times = {t1, t2}
  None = None
  MaxClock = 3
  MaxWrites = 1
SYMMETRY Symmetry
INVARIANTS BytesMatchHash BackupHoldsTheFiles DriftIsOfThisPass SeedStoredOrNamed
PROPERTIES ReusedIsCurrent ImplementsBucket
