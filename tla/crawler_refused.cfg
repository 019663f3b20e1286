SPECIFICATION Spec
CONSTANTS
  Workers = {"v","w"}
  ZoteroWorkers = {}
  MaxAttempts = 2
  LeaseTtl = 1
  RetryDelay = 1
  CleanupLease = 1
  CleanupDelay = 1
  AttentionThreshold = 2
  DeletionLease = 1
  DeletionDelay = 1
  Budget = 2
  None = None
INVARIANTS NoCleanupIsRefused
CHECK_DEADLOCK FALSE
