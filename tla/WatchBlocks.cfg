SPECIFICATION Spec
CONSTANTS
  Product = {1, 2}
  Look = {"plain"}
  Offer = {}
  None = None
  Page <- Pages
  Terms <- Slot
  Cooldown = 2
  MaxBackoff = 8
  Ordinary = 1
  RetryAfter = {0}
  Runs <- Scripts
  MaxRevision = 1
  MaxEvents = 2
  MaxTime = 3
  MaxLimits = 1

PROPERTIES BlocksStopWork
