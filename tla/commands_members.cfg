SPECIFICATION Spec
CONSTANTS
  u1 = u1
  u2 = u2
  Users <- Everyone
  FirstRole <- MCRoles
  Kinds = {"approve","invite","cancel","decide","role","remove"}
  MaxOps = 2
  MaxSends = 2
  MaxGenerations = 1
  MaxChallenges = 2
  None = None
INVARIANTS ConsentMatchesReview InvitationsAreSound
CHECK_DEADLOCK FALSE
