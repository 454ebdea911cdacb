SPECIFICATION Spec
CONSTANTS
  c1 = c1
  c2 = c2
  Call = {c1}
  Listener = Listener
  Nobody = Nobody
  MaxAttempts = 1
  MaxPool = 1
  MaxFaults = 2
  Happens = {"redis", "db", "rpc", "timeout", "crash", "restore", "unregistered", "dispute"}
CHECK_DEADLOCK FALSE
INVARIANTS CreditedOncePaid VerifiedMeansPaid
