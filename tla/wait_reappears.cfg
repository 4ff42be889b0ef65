CONSTANTS
  Downloads = {"d1"}
  Identities = {"a", "b"}
  Poll = 2
  RecoveryWait = 3
  CleanupWait = 2
  Retention = 2
  MaxTime = 10
SPECIFICATION Spec
INVARIANT BecomesDue
