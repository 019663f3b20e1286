SPECIFICATION Spec
CONSTANTS
  Docs = {"upload"}
  SourceOf <- MCSourceOf
  HasBatch <- MCHasBatch
  Papers = {"p"}
  ValWorkers = {"exact"}
  ExtWorkers = {"x1"}
  PinOf <- MCPinOf
  ToolchainOf <- MCToolchainOf
  Skew <- MCSkew
  MaxSkew = 0
  LeaseIds = {1,2,3,4,5,6,7,8}
  MaxAttempts = 1
  LeaseTtl = 1
  RetryDelay <- MCRetryDelay
  AdmissionDelay = 1
  None = None
INVARIANTS ValidatedUploadsAreLinkable
CHECK_DEADLOCK FALSE
