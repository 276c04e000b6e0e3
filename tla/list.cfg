CONSTANTS
  MaxRow = 3
  SortKey <- MCSortKey
  Selections = {"may", "june"}
  Window <- MCWindow
  SignedOut = "signed out"
  Loads = {f1, f2}
  PageSize = 2
  MaxChanges = 3
  MaxFailures = 1
SPECIFICATION ListSpec
CHECK_DEADLOCK FALSE
INVARIANTS
  SettledIsCurrentUnlessDisturbed
PROPERTY ComesToRest
