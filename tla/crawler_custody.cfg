SPECIFICATION Spec
CONSTANTS
  Workers = {"v","w","z"}
  ZoteroWorkers = {"z"}
  MaxAttempts = 2
  LeaseTtl = 1
  RetryDelay = 1
  CleanupLease = 1
  CleanupDelay = 1
  AttentionThreshold = 2
  DeletionLease = 1
  DeletionDelay = 1
  Budget = 3
  None = None
INVARIANTS RowsAgree FilesFollowTheRows QuotaIsHeldForFiles
PROPERTIES OvertakenWorkersChangeNothing EverythingIsFinished
CHECK_DEADLOCK FALSE
