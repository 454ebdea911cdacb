SPECIFICATION Spec
CONSTANTS
  c1 = c1
  c2 = c2
  Call = {c1}
  Listener = Listener
  Nobody = Nobody
  MaxAttempts = 2
  MaxPool = 2
  MaxFaults = 2
  Happens = {"timeout"}
CHECK_DEADLOCK FALSE
INVARIANT JudgedOnItsOwnEvidence
