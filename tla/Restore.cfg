SPECIFICATION Spec
CONSTANTS
  e1 = e1  e2 = e2  a = a  b = b
  Entries = {e1, e2}
  Contents = {a, b}
  Selections <- Asked
  None = None
  MaxWrites = 1
INVARIANTS ReportIsTrue LeavesNothing
PROPERTIES LandsItsContent LeavesAlone NothingOutside
