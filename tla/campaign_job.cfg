CONSTANTS
  Jobs = {"j1", "j2", "j3"}
  NoJob = "none"
  Users = {"u1", "u2"}
  MaxFaults = 1
SPECIFICATION FairSpec
INVARIANTS TypeOK ExecutingHasJob CampaignInv
PROPERTY SavedJobsEnd
