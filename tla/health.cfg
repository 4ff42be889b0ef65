CONSTANTS
  Downloads = {"d1"}
  Selections = {{"d1"}, {}}
  Poll = 2
  CycleTime = 2
SPECIFICATION FairSpec
INVARIANT HealthyTruthful
INVARIANT NoFalseAlarm
PROPERTY RecoveryNoticed
