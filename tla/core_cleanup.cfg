CONSTANTS
  d1 = d1
  d2 = d2
  e1 = e1
  e2 = e2
  f1 = f1
  f2 = f2
  r1 = r1
  Fingerprints = {f1, f2}
  Background = Background
  Expires <- ExpiresAt3
  RequestSpan = 2
  HourLimit = 2
  ScanLimit = 2
  MaxAttempts = 1
  RetryInterval = 1
  VerifyDeadline = 1
  Hour = 2
  Cooldown = 2
  Retention = 2
  MaxID = 3
  MaxTime = 3
  Overriding = {}
  Requests = {}
  Configs <- AnyConfig
  Downloads = {d1}
  Episodes = {e1, e2}
  Verdicts <- CleanupVerdicts
SPECIFICATION Spec
INVARIANT SearchFollowsRemoval
INVARIANT ContinuationIntact
INVARIANT DryRunSilent
