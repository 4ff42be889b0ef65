CONSTANTS
  Processes = {"p1", "p2", "p3"}
  Queries = {"q1"}
  Instances = {"tv", "anime"}
  Identity <- ForOneOrOther
  Inodes = {1, 2}
  NoRecords = NoRecords
  Refused = Refused
  MaxLog = 2
SPECIFICATION Spec
INVARIANT ControlServes
INVARIANT QueryTruthful
PROPERTY HistoryKept
