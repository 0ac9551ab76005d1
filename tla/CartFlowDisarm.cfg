SPECIFICATION Spec
CONSTANTS
  Types = {"START_DRY_RUN", "DISARM"}
  MaxCommands = 2
  MaxRebuilds = 1
  MaxQuirks = 0
  MaxEvents = 2
  MayBeStale = FALSE
PROPERTY DisarmStopsTheRun
CHECK_DEADLOCK FALSE
