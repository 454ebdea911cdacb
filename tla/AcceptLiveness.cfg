SPECIFICATION FairSpec
CONSTANTS
  w1 = w1
  r1 = r1
  Worker = {w1}
  NoWorker = NoWorker
  Request = {r1}
  NoRequest = NoRequest
  ExpirySweep = ExpirySweep
  GasSweep = GasSweep
  MaxTx = 1
  MaxCrashes = 0
  Happens = {"expiry"}
PROPERTY ExpiredIsUnassignable
PROPERTY ExpiredTaskCloses
PROPERTY UnsettledAcceptReopens
