SPECIFICATION Spec
CONSTANTS
  Address = {p, w1, v, a}
  NoAddr = NoAddr
  Hash = {h}
  NoHash = NoHash
  Token = {usdc, native}
  NativeToken = native
  MaxTasks = 2
  MaxBatch = 2
  Amount = {0, 17}
  Duration = {1}
  CreatorWindow = {0}
  MIN_DEADLINE = 1
  MAX_DEADLINE = 1
  MIN_CREATOR_WINDOW = 1
  MAX_CREATOR_WINDOW = 2
  DISPUTE_WINDOW = 1
  APPEAL_WINDOW = 1
  VERIFIER_PICK_WINDOW = 1
  BACKUP_PICK_WINDOW = 1
  MAX_SUBMISSION_ATTEMPTS = 1
  MAX_FEE_BPS = 3000
  MaxPaused = 0
  Posters = {p}
  Workers = {w1}
  TaskVerifiers = {a}
  BatchSizes = {2, 3}
  Deployer = a
  Treasury0 = a
  Verifier0 = v
  Admins = {}
  Treasuries = {}
  Verifiers = {}
  TeeSigners = {NoAddr,v}
  Fees = {4000}
  MinRatedAmounts = {}
  Disallowable = {}
  Switches = {}
  ExternalFaults = FALSE
  LegacyStatus = {}
  w1 = w1
  w2 = w2
INVARIANT Solvent
