SPECIFICATION FairSpec
CONSTANTS
  r1 = r1
  w1 = w1
  w2 = w2
  Runs = {r1}
  Workers = {w1, w2}
  NoWorker = NoWorker
  NoRun = NoRun
  JobMaxLen = 2
  JobTimeout = 1
  RunTimeout = 1
  MaxTools = 0
  MaxFaults = 1
  Surfaces = {"rest"}
  MaxDepth = 1
PROPERTIES
  CrashedJobIsRecovered
CHECK_DEADLOCK FALSE
