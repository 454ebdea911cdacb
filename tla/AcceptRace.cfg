SPECIFICATION Spec
CONSTANTS
  w1 = w1
  w2 = w2
  r1 = r1
  r2 = r2
  Worker = {w1, w2}
  NoWorker = NoWorker
  Request = {r1, r2}
  NoRequest = NoRequest
  ExpirySweep = ExpirySweep
  GasSweep = GasSweep
  MaxTx = 1
  MaxCrashes = 0
  Happens = {"rpc"}
INVARIANT TypeOK
PROPERTY LiveTxKeepsTask
INVARIANT AcceptsAlone
SYMMETRY Interchangeable
