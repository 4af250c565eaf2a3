CONSTANTS
  Emails = {1, 2}
  Known = {2}
  Spaced = {1}
  Callers = {"web", "sync"}
  Sync = "sync"
  PageSize = 1
  Batches = 2
  MaxAct = 1
  MaxTrouble = 1
  MaxDue = 1
  History = FALSE
SPECIFICATION FairSyncSpec
INVARIANT SyncTypeOK
PROPERTY SyncConverges
