SPECIFICATION Spec
CONSTANTS
  a = a  b = b  a1 = a1  a2 = a2  b1 = b1
  Machines = {a, b}
  Runs = {a1, b1}
  MachineOf <- OneRunEach
  Names = {n1, n2}
  n1 = n1  n2 = n2  s1 = s1  s2 = s2
  Stamps = {s1, s2}
  NoMarker = NoMarker
  NoClaim = NoClaim
  NoMachine = NoMachine
PROPERTIES ImplementsHolder CreatedKept FreshClaimKept TakenIsHeld
