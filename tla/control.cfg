CONSTANTS
  Callers = {"e1", "p1"}
  Executing = {"e1"}
  HandlerLimit = 1
SPECIFICATION FairSpec
INVARIANT OneCall
INVARIANT HonestExit
PROPERTY ObserverNotStarved
PROPERTY ShutdownEnds
