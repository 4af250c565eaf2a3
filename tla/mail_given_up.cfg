CONSTANTS
  Emails = {e1, e2}
  Invalid = {e2}
  Senders = {s1, s2}
  NumRetries = 2
  BatchSize = 2
  MaxRead = 1
  FaultKinds = {"ses"}
  MaxFaults = 1
SPECIFICATION Spec
INVARIANT GivenUpAfterRetries
CHECK_DEADLOCK FALSE
