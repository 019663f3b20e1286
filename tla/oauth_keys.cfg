SPECIFICATION Spec
CONSTANTS
  r1 = r1
  r2 = r2
  a1 = a1
  a2 = a2
  k1 = k1
  k2 = k2
  Requests <- MCRequests
  Authorizations <- MCAuthorizations
  Keys <- MCKeys
  MaxPending = 1
  Faults = 2
  Disconnects = 2
  None = None
SYMMETRY MCSymmetry
INVARIANTS  InstalledKeyIsNotBeingDeleted OneCallbackWins
CHECK_DEADLOCK FALSE
