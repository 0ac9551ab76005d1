SPECIFICATION FairSpec
CONSTANTS
  Types = {"START_DRY_RUN", "RESUME_INTENT"}
  MaxCommands = 2
  MaxRebuilds = 1
  MaxQuirks = 1
  MaxEvents = 2
  MayBeStale = TRUE
INVARIANTS CoreTrustsVerified
PROPERTIES AddedOnce RunSettles
CHECK_DEADLOCK FALSE
