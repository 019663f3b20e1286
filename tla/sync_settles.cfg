SPECIFICATION FairSpec
CONSTANTS
  Libraries = {"l"}
  Items = {"i"}
  Collections = {}
  Workers = {w1}
  Budget = 2
  MaxVersion = 3
  MaxRuns = 3
  MaxAsks = 1
  Codes = {"other"}
  Moves = {"file"}
  None = None
INVARIANTS InboxFollowsSource
PROPERTIES EverySyncSettles KeepsPromise
CHECK_DEADLOCK FALSE
