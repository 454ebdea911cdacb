SPECIFICATION FairTime
CONSTANTS
  Address = {p, w1, v, j, a}
  NoAddr = NoAddr
  Hash = {h}
  NoHash = NoHash
  Token = {native}
  NativeToken = native
  MaxTasks = 1
  MaxBatch = 2
  Amount = {10}
  Duration = {1}
  CreatorWindow = {0, 1}
  MIN_DEADLINE = 1
  MAX_DEADLINE = 1
  MIN_CREATOR_WINDOW = 1
  MAX_CREATOR_WINDOW = 2
  DISPUTE_WINDOW = 1
  APPEAL_WINDOW = 1
  VERIFIER_PICK_WINDOW = 1
  BACKUP_PICK_WINDOW = 1
  MAX_SUBMISSION_ATTEMPTS = 1
  MAX_FEE_BPS = 3000
  MaxPaused = 1
  Posters = {p}
  Workers = {w1}
  TaskVerifiers = {j}
  BatchSizes = {}
  Deployer = a
  Treasury0 = a
  Verifier0 = v
  Admins = {}
  Treasuries = {}
  Verifiers = {}
  TeeSigners = {}
  Fees = {0}
  MinRatedAmounts = {20}
  Disallowable = {}
  Switches = {TRUE}
  ExternalFaults = TRUE
  LegacyStatus = {}
  w1 = w1
  w2 = w2
INVARIANT RatingImpartial
PROPERTY SelfReleaseOnlyUnjudged
PROPERTY OpenTaskCloses
PROPERTY PaymentLeaves
