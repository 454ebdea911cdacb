SPECIFICATION Spec
CONSTANTS
  Address = {p, w1, w2, v, j, a}
  NoAddr = NoAddr
  Hash = {h}
  NoHash = NoHash
  Token = {native}
  NativeToken = native
  MaxTasks = 1
  MaxBatch = 2
  Amount = {10}
  Duration = {2}
  CreatorWindow = {0, 1, 2}
  MIN_DEADLINE = 2
  MAX_DEADLINE = 3
  MIN_CREATOR_WINDOW = 1
  MAX_CREATOR_WINDOW = 2
  DISPUTE_WINDOW = 2
  APPEAL_WINDOW = 1
  VERIFIER_PICK_WINDOW = 1
  BACKUP_PICK_WINDOW = 1
  MAX_SUBMISSION_ATTEMPTS = 3
  MAX_FEE_BPS = 3000
  MaxPaused = 1
  Posters = {p}
  Workers = {w1, w2}
  TaskVerifiers = {NoAddr, j}
  BatchSizes = {}
  Deployer = a
  Treasury0 = a
  Verifier0 = v
  Admins = {j}
  Treasuries = {a}
  Verifiers = {w1, w2}
  TeeSigners = {}
  Fees = {}
  MinRatedAmounts = {}
  Disallowable = {}
  Switches = {}
  ExternalFaults = FALSE
  LegacyStatus = {"Funded", "Assigned", "Submitted", "Verified", "Disputed"}
  w1 = w1
  w2 = w2
INVARIANT TypeOK
INVARIANT NoPhantomTask
INVARIANT PauseNeutral
INVARIANT OpenLifecycle
INVARIANT SubmittedOpenWorkKept
INVARIANT JudgeTurns
PROPERTY PosterRefundWaits
PROPERTY LegacyDisputeNeedsRuling
PROPERTY KeepsPromise
SYMMETRY Submitters
