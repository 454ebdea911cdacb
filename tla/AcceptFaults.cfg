SPECIFICATION Spec
CONSTANTS
  w1 = w1
  w2 = w2
  r1 = r1
  Worker = {w1, w2}
  NoWorker = NoWorker
  Request = {r1}
  NoRequest = NoRequest
  ExpirySweep = ExpirySweep
  GasSweep = GasSweep
  MaxTx = 1
  MaxCrashes = 1
  Happens = {"release", "force", "rewind", "stray", "reindex", "direct", "cancel"}
INVARIANT GrantedIsAssigned
SYMMETRY Interchangeable
