CONSTANTS
  RunKeys = {r1, r2, r3}
  Servers = {s1, s2}
  Executors = {x1, x2}
  Admins = {}
  NoRun = NoRun
  MaxJobs = 2
  RereadsRow = FALSE
  FaultKinds = {"delete", "merge", "next", "send", "crash"}
  MaxFaults = 2
SYMMETRY Symmetry
SPECIFICATION Spec
INVARIANTS TypeOK SingleCopy NothingLost ExecutedAtMostOnce LinearChain
PROPERTY ImplementsChain
