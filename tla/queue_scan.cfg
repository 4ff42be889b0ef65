CONSTANTS
  Rows = {"r1", "r2", "r3", "r4"}
  Malformed = {"r4"}
  PageSize = 2
  MaxPages = 2
  Tries = 2
SPECIFICATION FairScanSpec
INVARIANT ScanTruthful
PROPERTY ScanEnds
