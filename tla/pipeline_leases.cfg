SPECIFICATION FairSpec
CONSTANTS
  Docs = {"upload"}
  SourceOf <- MCSourceOf
  HasBatch <- MCHasBatch
  Papers = {}
  ValWorkers = {"fast","slow"}
  ExtWorkers = {"x1","x2"}
  PinOf <- MCPinOf
  ToolchainOf <- MCToolchainOf
  Skew <- MCSkew
  MaxSkew = 1
  LeaseIds = {1,2,3,4,5,6,7,8,9,10,11,12,13,14,15}
  MaxAttempts = 3
  LeaseTtl = 2
  RetryDelay <- MCRetryDelay
  AdmissionDelay = 1
  None = None
INVARIANTS TypeOK LedgerAgrees CustodyIsHonest EvidenceAgrees
PROPERTIES StaleWorkersChangeNothing EvidenceIsFinal KeepsPromise
CHECK_DEADLOCK FALSE
