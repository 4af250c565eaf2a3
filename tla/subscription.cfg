CONSTANTS
  Emails = {"ann", "bob"}
  Known = {"bob"}
  Spaced = {"ann"}
  Callers = {web, own}
  MaxAct = 3
  MaxTrouble = 1
  MaxDue = 2
  History = TRUE
SYMMETRY Symmetry
SPECIFICATION Spec
INVARIANTS TypeOK OneSubscription LeavingHolds CountRight SubInv
CHECK_DEADLOCK FALSE
