CONSTANTS
  RunKeys = {r1, r2}
  Servers = {s1}
  Executors = {x1}
  Admins = {a1}
  NoRun = NoRun
  MaxJobs = 1
  RereadsRow = TRUE
  FaultKinds = {}
  MaxFaults = 0
SPECIFICATION FairSpec
PROPERTY CancelStopsChain
