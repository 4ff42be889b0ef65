CONSTANTS
  Resources = {"rows", "series", "episode", "command"}
  Cached = {"series", "episode", "command"}
  Values = {"old", "new"}
  Plans = {"first", "second"}
  Uses <- Shared
  Verifications = 2
SPECIFICATION Spec
INVARIANT DecidedOnFreshReads
INVARIANT SilentAfterFailure
