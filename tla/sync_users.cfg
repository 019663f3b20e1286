SPECIFICATION Spec
CONSTANTS
  Libraries = {"l"}
  Items = {"i"}
  Collections = {}
  Workers = {w1, w2}
  Budget = 1
  MaxVersion = 1
  MaxRuns = 2
  MaxAsks = 1
  Codes = {"other", "authentication", "forbidden", "credential"}
  Moves = {"select", "refresh", "disconnect", "reconnect", "file"}
  None = None
SYMMETRY Symmetry
INVARIANTS SnapshotExact RunsAgree CurrentLeasesCanPublish
PROPERTIES OvertakenPassesChangeNothing
