CONSTANTS
  e1 = e1
  e2 = e2
  Episodes = {e1, e2}
  Tracked = {e1}
  NoFile = NoFile
  File <- SomeFiles
  Policies <- PackProfiles
  Observations <- Packs
SPECIFICATION Spec
CHECK_DEADLOCK FALSE
INVARIANT NoReturn
INVARIANT RedundantCovered
INVARIANT ImportSatisfies
PROPERTY NeverWorse
