SPECIFICATION FairSpec
CONSTANTS
  s1 = s1
  s2 = s2
  Submitter = {s1, s2}
  Nobody = Nobody
  Best = 1
  Sends <- SendsSmall
  Callers = {s1}
  Registered = {s1}
  Tasks <- TasksSmall
  MaxEvents = 3
  Happens = {"fail", "crash", "timeout", "evict", "lapse"}
CHECK_DEADLOCK FALSE
INVARIANTS TypeOK JudgedOnCommitments AnchoredIsKept
PROPERTIES HeldIsKept PlatformDecides ClosingIsMirrored
