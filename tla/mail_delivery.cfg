CONSTANTS
  Emails = {e1, e2}
  Invalid = {e2}
  Senders = {s1, s2}
  NumRetries = 2
  BatchSize = 2
  MaxRead = 1
  FaultKinds = {"ses", "timeout", "lock", "db", "crash"}
  MaxFaults = 2
SPECIFICATION FairSpec
INVARIANTS TypeOK AcceptedOnce SentWasAccepted BouncedIsSuspended MailInv
PROPERTIES OneTable QueuedEnds BounceArrives
CHECK_DEADLOCK FALSE
