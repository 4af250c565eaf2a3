CONSTANTS
  RunKeys = {r1, r2}
  Servers = {s1}
  Executors = {x1, x2}
  Admins = {a1}
  NoRun = NoRun
  MaxJobs = 2
  RereadsRow = TRUE
  FaultKinds = {"next"}
  MaxFaults = 1
SPECIFICATION FairSpec
INVARIANT IInv
PROPERTIES EveryRunEnds EarlyCancelIsFinal OnlyCancelUndoesCompletion
