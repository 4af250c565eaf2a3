CONSTANTS
  Emails = {"ann"}
  Known = {}
  Spaced = {"ann"}
  Callers = {own}
  MaxAct = 1
  MaxTrouble = 0
  MaxDue = 1
  History = FALSE
SPECIFICATION Spec
INVARIANT DuplicatesMerged
CHECK_DEADLOCK FALSE
