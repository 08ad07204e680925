SPECIFICATION Spec
CONSTANTS
  r1 = r1
  r2 = r2
  w1 = w1
  w2 = w2
  Runs = {r1, r2}
  Workers = {w1, w2}
  NoWorker = NoWorker
  NoRun = NoRun
  JobMaxLen = 1
  JobTimeout = 1
  RunTimeout = 1
  MaxTools = 0
  MaxFaults = 1
  Surfaces = {"rest"}
  MaxDepth = 0
SYMMETRY Symmetry
INVARIANTS
  OneHandler
  EventLogOrdered
  NoSilentSettle
  DepthIsBusyPlusFaults
  PromptRunIsAwaited
CHECK_DEADLOCK FALSE
