SPECIFICATION FairSpec
CONSTANTS
  r1 = r1
  w1 = w1
  w2 = w2
  Runs = {r1}
  Workers = {w1, w2}
  NoWorker = NoWorker
  NoRun = NoRun
  JobMaxLen = 1
  JobTimeout = 2
  RunTimeout = 1
  MaxTools = 1
  MaxFaults = 2
  Surfaces = {"rest", "ws", "voice"}
  MaxDepth = 0
INVARIANTS
  CallersAreTold
PROPERTIES
  EveryTurnCloses
  EveryJobSettles
  LifecycleSpec
CHECK_DEADLOCK FALSE
