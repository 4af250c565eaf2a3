CONSTANTS
  Jobs = {"j1"}
  NoJob = "none"
  Users = {"u1"}
  MaxFaults = 0
SPECIFICATION FairSpec
PROPERTY JobsEnd
