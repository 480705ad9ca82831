SPECIFICATION FairSpec
CONSTANTS
  u1 = u1   d1 = d1   s1 = s1  s2 = s2
  Uploads = {u1}
  Deletes = {d1}
  Waiters = {d1}
  Systems = {s1, s2}
  SystemOf <- SystemOfOne
  Instants = {i1, i2, i3}
  NoRun = NoRun
  NoKey = NoKey
PROPERTIES OnlyDeadLocksTaken ImplementsExclusion WaiterGetsItsTurn UploadsNeverWait
