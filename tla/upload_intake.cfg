SPECIFICATION FairSpec
CONSTANTS
  Sessions = {"s","t"}
  Attempts = {1,2}
  Reconcilers = {"r"}
  SessionTtl = 2
  LeaseTtl = 1
  CleanupLease = 1
  MaxConcurrent = 2
  MaxRetained = 1
  Faults = {"crash","storage","stall"}
  None = None
INVARIANTS ClaimsAgree QuotaIsHonest StoredBytesExist
PROPERTIES StaleWritersAreHarmless EveryUploadEnds
CHECK_DEADLOCK FALSE
