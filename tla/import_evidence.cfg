CONSTANTS
  Episodes = {"e1", "e2"}
  Intended = {"e1"}
  TicksPerSecond = 2
  Started = 3
  Others = 2
  MaxTime = 4
SPECIFICATION FairSpec
INVARIANT EvidenceIsTrue
INVARIANT FailedBeforeScan
PROPERTY Recognised
CHECK_DEADLOCK FALSE
