SPECIFICATION Spec
CONSTANTS
  u1 = u1
  u2 = u2
  Users <- MCPair
  FirstRole <- MCMembers
  Kinds = {"note","capture","verify","reanchor"}
  MaxOps = 2
  MaxSends = 2
  MaxGenerations = 2
  MaxChallenges = 0
  None = None
SYMMETRY MCSymmetry
INVARIANTS  EvidenceIsAChain
CHECK_DEADLOCK FALSE
