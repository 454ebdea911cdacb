SPECIFICATION Spec
CONSTANTS
  c1 = c1
  c2 = c2
  Call = {c1, c2}
  Listener = Listener
  Nobody = Nobody
  MaxAttempts = 1
  MaxPool = 1
  MaxFaults = 0
  Happens = {"dispute"}
CHECK_DEADLOCK FALSE
INVARIANTS TypeOK NoCreditLost
SYMMETRY Interchangeable
PROPERTY KeepsMirrorPromise
