CONSTANTS
  d1 = d1
  d2 = d2
  e1 = e1
  e2 = e2
  f1 = f1
  f2 = f2
  r1 = r1
  Fingerprints = {f1, f2}
  Background = Background
  Expires <- ExpiresAt3
  RequestSpan = 2
  HourLimit = 1
  ScanLimit = 2
  MaxAttempts = 2
  RetryInterval = 1
  VerifyDeadline = 1
  Hour = 2
  Cooldown = 2
  Retention = 1
  MaxID = 2
  MaxTime = 3
  Overriding = {r1}
  Requests = {r1}
  Configs <- LiveOrDry
  Downloads = {d1}
  Episodes = {e1}
  Verdicts <- ManualVerdicts
SPECIFICATION FairSpec
INVARIANT HourlyBudget
INVARIANT ReceiptsValid
INVARIANT RetryRespected
PROPERTY ManualOnce
PROPERTY RequestEnds
PROPERTY NoSilentWait
