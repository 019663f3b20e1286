SPECIFICATION Spec
CONSTANTS
  Workers = {"v","w"}
  MaxAttempts = 2
  LeaseTtl = 1
  RetryDelay = 1
  CleanupLease = 1
  CleanupDelay = 1
  AttentionThreshold = 2
  Budget = 3
  None = None
INVARIANTS StoryAgrees
PROPERTIES NothingIsAdoptedStale OvertakenDownloadsChangeNothing EveryDownloadSettles
CHECK_DEADLOCK FALSE
