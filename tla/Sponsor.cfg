SPECIFICATION Spec
CONSTANTS
  s1 = s1
  l1 = l1
  h1 = h1
  h2 = h2
  Reservation = {s1, l1}
  Releases = {l1}
  Relay = {h1, h2}
  Tick = Tick
  Nobody = Nobody
  MaxSends = 2
  MaxTxs = 2
  MaxFaults = 1
  Happens = {"transient", "refuse", "evict", "lag", "crash", "own", "moved", "operator"}
CHECK_DEADLOCK FALSE
INVARIANTS TypeOK NoHole OneOut SettledTruth ChargedOnce
SYMMETRY Interchangeable
