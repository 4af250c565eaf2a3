CONSTANTS
  RunKeys = {r1}
  Servers = {s1, s2}
  Executors = {x1}
  Admins = {a1}
  NoRun = NoRun
  MaxJobs = 1
  MaxMessages = 2
  MaxSaves = 1
  RereadsRow = TRUE
  FaultKinds = {"crash", "insert", "restore"}
  MaxFaults = 2
SYMMETRY Symmetry
SPECIFICATION EditSpec
INVARIANTS EditTypeOK SingleCopyUnlessReinserted ExecutedAtMostOnceUnlessReinserted
