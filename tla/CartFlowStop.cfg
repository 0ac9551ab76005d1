SPECIFICATION Spec
CONSTANTS
  Types = {"OPEN_PRODUCT", "START_DRY_RUN", "RESUME_INTENT", "CANCEL_INTENT", "DISARM"}
  MaxCommands = 3
  MaxRebuilds = 1
  MaxQuirks = 0
  MaxEvents = 2
  MayBeStale = FALSE
INVARIANTS ReleasedUntouched OneCommandRuns
PROPERTIES ActsForItsCommand SentOnce
CHECK_DEADLOCK FALSE
