SPECIFICATION Spec
CONSTANTS
  Docs = {"crawl","old"}
  SourceOf <- MCSourceOf
  HasBatch <- MCHasBatch
  Papers = {"p"}
  ValWorkers = {"exact"}
  ExtWorkers = {"x1","other"}
  PinOf <- MCPinOf
  ToolchainOf <- MCToolchainOf
  Skew <- MCSkew
  MaxSkew = 0
  LeaseIds = {1,2,3,4,5,6,7,8,9,10,11}
  MaxAttempts = 2
  LeaseTtl = 1
  RetryDelay <- MCRetryDelay
  AdmissionDelay = 1
  None = None
INVARIANTS LifecycleAgrees LinksAreSound
PROPERTIES DeletionFences ProjectionsAreSafe ImplementsPromise
CHECK_DEADLOCK FALSE
