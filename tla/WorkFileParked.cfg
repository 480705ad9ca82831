SPECIFICATION Spec
CONSTANTS
  Runs = {r1}
  Files = {f1, f2, f3}
  Names = {n1}
  LastRow = 2
  NoFile = NoFile
  NoName = NoName
  LockWindow = FALSE
  NameWindow = FALSE
PROPERTIES ParkedGrows
